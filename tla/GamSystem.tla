----------------------------- MODULE GamSystem -----------------------------
(***************************************************************************)
(* The applications' libgamin (GamClient) and gam_server (GamServer) over  *)
(* the sockets they share, and what the pair promises.                     *)
(***************************************************************************)
EXTENDS GamClient, GamServer

vars == <<sockVars, srv, starting, clientVars, serverVars>>

Init == SockInit /\ ClientInit /\ ServerInit

ClientStep == (\E c \in Clients : ClientNext(c)) /\ UNCHANGED serverVars
ServerStep == ServerNext /\ UNCHANGED clientVars

Next == ClientStep \/ ServerStep

Spec == Init /\ [][Next]_vars

-----------------------------------------------------------------------------
(* Fairness.  The glib main loop dispatches every source that stays ready. *)
(* An application that selects on the FAM descriptor keeps calling         *)
(* FAMPending and FAMNextEvent while there is something to read, and the   *)
(* calls that connect do not stop half way.  Nothing is assumed of the     *)
(* calls that make or cancel requests, of the backend, or of the end of a  *)
(* server.                                                                 *)

ServerFairness ==
  /\ \A s \in Socks :
       /\ WF_vars(gam_incoming_conn_read(s) /\ UNCHANGED clientVars)
       /\ WF_vars(gam_client_conn_read(s) /\ UNCHANGED clientVars)
       /\ WF_vars(gam_connection_eq_flush(s) /\ UNCHANGED clientVars)
  /\ WF_vars(gam_server_init /\ UNCHANGED clientVars)

ClientFairness ==
  \A c \in Clients :
    /\ WF_vars(gamin_fork_server(c) /\ UNCHANGED serverVars)
    /\ WF_vars(GiveUp(c) /\ UNCHANGED serverVars)
    /\ WF_vars(/\ \E s \in Socks : gamin_data_new(c, s) \/ gamin_try_reconnect(c, s)
               /\ UNCHANGED serverVars)
    /\ WF_vars(gamin_check_cred(c) /\ UNCHANGED serverVars)
    /\ WF_vars(FAMPending(c) /\ UNCHANGED serverVars)
    /\ WF_vars(LostServer(c) /\ UNCHANGED serverVars)
    /\ WF_vars(FAMNextEvent(c) /\ UNCHANGED serverVars)

FairSpec == Spec /\ ServerFairness /\ ClientFairness

-----------------------------------------------------------------------------
(* Safety. *)

(* Every variable keeps its type: packets, table entries and queued events *)
(* carry request numbers that fit the 16 bit field of GAMPacket.           *)
TypeOK == SockTypeOK /\ ClientTypeOK /\ ServerTypeOK

(* A queued event always has a timer that will send it: the timer removes  *)
(* itself only when it finds the queue empty (gam_connection_eq_flush),    *)
(* and gam_queue_event installs it again.                                  *)
EqArmed == \A s \in Socks : eq[s] # <<>> => armed[s]

(* The idle timer runs exactly while a listening server has no connection, *)
(* through accepts, closes, and servers that fail to bind.                 *)
IdleTimer == srv = "up" /\ UseTimeout => (idle <=> Conns = {})

(* The table is sorted by request number, with no number twice: what the   *)
(* binary searches of gam_data.c rely on.                                  *)
Increasing(t) == \A i, j \in 1 .. Len(t) : i < j => t[i].reqno < t[j].reqno

(* Numbers handed out by the library keep the table sorted, and the        *)
(* counter ahead of it, until a reconnection resets the counter.           *)
SortedUntilReset ==
  UserNums = {} =>
    \A c \in Clients : ~wasReset[c] =>
      /\ Increasing(tab[c])
      /\ \A i \in 1 .. Len(tab[c]) : tab[c][i].reqno < reqno[c]

(* Numbers chosen by the application keep it sorted for ever:              *)
(* gamin_data_get_req_loc finds the place and refuses a number in use.     *)
UserNumsSorted == ~UseAuto => \A c \in Clients : Increasing(tab[c])

(* No request gets lost in its table: as long as the table is kept sorted, *)
(* gamin_data_get_req_idx finds each one by its number, to cancel it, to   *)
(* confirm it and to deliver its events.                                   *)
Findable ==
  \A c \in Clients :
    ~UseAuto \/ (UserNums = {} /\ ~wasReset[c]) =>
      \A i \in 1 .. Len(tab[c]) :
        gamin_data_get_req_idx(tab[c], tab[c][i].reqno) = i

(* The connection never lost its server and its numbers fit GAMPacket.seq. *)
Healthy(c) == UserNums = {} /\ ~wasReset[c] /\ reqno[c] <= SeqSpan

(* The event FAMNextEvent is about to return is about the path of the      *)
(* request whose number and userData it carries, whatever was cancelled    *)
(* while it was in flight.                                                 *)
Attribution ==
  \A c \in Clients :
    ready[c] # NoEvent /\ Healthy(c) => ready[c].owner = ready[c].path

(* What the server monitors for client c, and what the client believes.    *)
Monitored(c) == {<<sub.reqno, sub.path>> : sub \in ToSet(subs[fd[c]])}
Expected(c) ==
  {<<e.reqno, e.path>> : e \in {x \in ToSet(tab[c]) :
                                  x.state # "CANCELLED" /\ x.path \notin NonePaths}}

Settled(c) ==
  IsOpen(c) /\ sOpen[fd[c]] /\ cstate[fd[c]] = "OKAY" /\ up[fd[c]] = <<>>

(* Once the server has read every request, its listener holds one          *)
(* subscription for each request that was not cancelled, and no other.     *)
Agreement ==
  \A c \in Clients :
    Settled(c) /\ Healthy(c) =>
      Monitored(c) = Expected(c) /\ Len(subs[fd[c]]) = Cardinality(Expected(c))

(* A client that cancels each of its monitors once is not disconnected     *)
(* while the server lives: the server finds every request it is asked to   *)
(* cancel (gam_connection_request answers an unknown one by closing the    *)
(* connection).                                                            *)
NoSpuriousClose ==
  [][~DoubleCancel /\ NonePaths = {} =>
       \A s \in Socks :
         cstate[s] = "OKAY" /\ cOpen[s] /\ cstate'[s] = "NONE" => srv' = "down"]_vars

-----------------------------------------------------------------------------
(* Liveness. *)

HasCancelled(c, r) ==
  \E i \in 1 .. Len(tab[c]) : tab[c][i].reqno = r /\ tab[c][i].state = "CANCELLED"

(* A cancelled request is acknowledged and leaves the table, unless the    *)
(* application closes the connection or the connection is re-established   *)
(* (gam_remove_subscription, gamin_data_read_event).                       *)
CancelAckedUntilReset ==
  \A c \in Clients, r \in 1 .. MaxReq :
    (HasCancelled(c, r) /\ ~wasReset[c])
      ~> (~HasCancelled(c, r) \/ wasReset[c])

Serves(c, p) ==
  /\ fd[c] # NoSock
  /\ \E sub \in ToSet(subs[fd[c]]) : sub.path = p

Wants(c, p) ==
  \E i \in 1 .. Len(tab[c]) :
    tab[c][i].path = p /\ tab[c][i].state # "CANCELLED"

(* A monitor that is wanted ends up monitored, through crashes, idle exits *)
(* and reconnections, as long as the application goes on reading.          *)
Resubscribed ==
  \A c \in Clients, p \in Paths :
    Wants(c, p) ~> (Serves(c, p) \/ ~Wants(c, p))

(* The server notices that a client has gone and frees its connection,     *)
(* after the requests that client left behind: what the idle timer needs   *)
(* to ever start.                                                          *)
Reaped ==
  \A s \in Socks : (cstate[s] # "NONE" /\ ~cOpen[s]) ~> (cstate[s] = "NONE")

=============================================================================
