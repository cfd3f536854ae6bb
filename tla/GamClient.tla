----------------------------- MODULE GamClient -----------------------------
(***************************************************************************)
(* libgamin: the FAM API calls of an application (gam_api.c) over the      *)
(* per-connection data of GAMData (gam_data.c): the request table, the     *)
(* request counter, the one decoded event that waits for FAMNextEvent, and *)
(* the automatic reconnection.                                             *)
(*                                                                         *)
(* Each client is one application with at most one FAMConnection, calling  *)
(* the API from one thread, so a call is one action; only the connection   *)
(* attempts of gamin_connect_unix_socket, which wait for a server to come  *)
(* up, are actions of their own.  A read returns one packet: a longer read *)
(* leaves the rest in the event buffer, where it waits exactly as it would *)
(* have waited in the socket.                                              *)
(***************************************************************************)
EXTENDS GamSockets

CONSTANTS
  Clients,      \* the applications
  NoSock,       \* the descriptor of a closed FAMConnection (-1)
  MonTypes,     \* the kinds of monitors they ask for: "FILE", "DIR"
  UserNums,     \* request numbers the applications choose in FAMMonitor*2
  UseAuto,      \* do they also call the FAMMonitor* that number by themselves
  DoubleCancel, \* do they cancel a request again before its acknowledgement
  MaxReq,       \* bound: request numbers handed out per GAMData life
  MaxTab,       \* bound: entries of a request table
  MaxUp,        \* bound: requests in flight when another one is made
  MaxStarting   \* bound: forked servers that are still starting

ASSUME NoSockAssumption == NoSock \notin Socks
ASSUME MonTypesAssumption == MonTypes \subseteq ReqTypes
ASSUME UserNumsAssumption == UserNums \subseteq Nat \ {0}
ASSUME SwitchAssumption == UseAuto \in BOOLEAN /\ DoubleCancel \in BOOLEAN
ASSUME ClientBounds ==
  MaxReq \in Nat /\ MaxTab \in Nat /\ MaxUp \in Nat /\ MaxStarting \in Nat

VARIABLES
  fd,         \* fc->fd
  pc,         \* "idle", or inside FAMOpen / gamin_try_reconnect
  forked,     \* did this connection attempt already fork a server
  reqno,      \* GAMData.reqno, the request counter
  auth,       \* GAMData.auth
  restarted,  \* GAMData.restarted
  noexist,    \* GAMData.noexist
  ready,      \* GAMData.event, evn_reqnum, evn_userdata when evn_ready is set
  tab,        \* GAMData.req_tab[0 .. req_nr - 1]
  wasReset    \* history: gamin_data_reset was called on this GAMData

dataVars   == <<reqno, auth, restarted, noexist, ready, tab, wasReset>>
clientVars == <<fd, pc, forked, dataVars>>

ReqStates == {"INIT", "CONFIRMED", "CANCELLED"}
Entries   == [reqno : Nat, path : Paths, type : ReqTypes, state : ReqStates]

(* A decoded event, with the request whose userData it will carry. *)
NoEvent == [type |-> "None", seq |-> 0, path |-> NoPath, owner |-> NoPath]
Events  == [type : EventTypes \cup {"Ack", "CRED", "None"},
            seq : 0 .. SeqSpan - 1, path : Paths \cup {NoPath},
            owner : Paths \cup {NoPath}]

-----------------------------------------------------------------------------
(* The request table. *)

(* Faulty variant: a window of one entry is not looked at. *)
Searched_Short(t, r) ==
  LET probe[w \in (1 .. Len(t) + 1) \X (0 .. Len(t))] ==
        LET cur == (w[2] + w[1]) \div 2
        IN  IF w[2] <= w[1] THEN 0
            ELSE IF t[cur].reqno = r THEN cur
            ELSE IF t[cur].reqno < r THEN probe[<<cur + 1, w[2]>>]
            ELSE probe[<<w[1], cur - 1>>]
  IN  probe[<<1, Len(t)>>]

(* Where the binary search of the table for request r stops; 0 when it     *)
(* runs out of entries.  The window w is <<min, max>>.                     *)
Searched(t, r) ==
  LET probe[w \in (1 .. Len(t) + 1) \X (0 .. Len(t))] ==
        LET cur == (w[2] + w[1]) \div 2
        IN  IF w[2] < w[1] THEN 0
            ELSE IF t[cur].reqno = r THEN cur
            ELSE IF t[cur].reqno < r THEN probe[<<cur + 1, w[2]>>]
            ELSE probe[<<w[1], cur - 1>>]
  IN  probe[<<1, Len(t)>>]

(* The index of request r; 0 when it is not found.  The entry the search   *)
(* stops at is the answer only if it holds r.                              *)
gamin_data_get_req_idx(t, r) ==
  LET cur == Searched(t, r)
  IN  IF cur \in 1 .. Len(t) /\ t[cur].reqno = r THEN cur ELSE 0

(* Faulty variant: the slot after the last one smaller or equal, as if     *)
(* there always were one.                                                  *)
gamin_data_get_req_loc_After(t, r) ==
  LET I == {i \in 1 .. Len(t) : t[i].reqno < r}
  IN  IF r \in {t[i].reqno : i \in 1 .. Len(t)} THEN 0
      ELSE IF I = {} THEN Len(t) + 1 ELSE Max(I) + 1

(* The slot where request r is to be inserted; 0 when the search meets r.  *)
gamin_data_get_req_loc(t, r) ==
  LET slot(min) == IF r > t[min].reqno THEN min + 1 ELSE min
      probe[w \in (1 .. Len(t)) \X (0 .. Len(t))] ==
        LET cur == (w[2] + w[1]) \div 2
        IN  IF w[2] <= w[1] THEN slot(w[1])
            ELSE IF t[cur].reqno = r THEN 0
            ELSE IF t[cur].reqno < r THEN probe[<<cur + 1, w[2]>>]
            ELSE probe[<<w[1], cur - 1>>]
  IN  IF t = <<>> THEN 1 ELSE probe[<<1, Len(t)>>]

NewEntry(r, p, type) ==
  [reqno |-> r, path |-> p, type |-> type, state |-> "INIT"]

(* Faulty variant: it goes to the front. *)
gamin_data_add_req_Front(t, r, p, type) == <<NewEntry(r, p, type)>> \o t

(* A request numbered by the library goes to the end of the table. *)
gamin_data_add_req(t, r, p, type) == Append(t, NewEntry(r, p, type))

(* A request numbered by the user goes to its sorted place; no change when *)
(* the number is already in use.                                           *)
gamin_data_add_req2(t, r, p, type) ==
  LET i   == gamin_data_get_req_loc(t, r)
      idx == IF i <= Len(t) /\ t[i].reqno < r THEN i + 1 ELSE i
  IN  IF i \notin 1 .. Len(t) + 1 \/ (i <= Len(t) /\ t[i].reqno = r) THEN t
      ELSE InsertAt(t, idx, NewEntry(r, p, type))

gamin_data_del_req(t, r) ==
  LET i == gamin_data_get_req_idx(t, r)
  IN  IF i \in 1 .. Len(t) THEN RemoveAt(t, i) ELSE t

gamin_data_cancel(t, i) == [t EXCEPT ![i].state = "CANCELLED"]

-----------------------------------------------------------------------------
(* Events coming in: gamin_data_conn_event on the packet e. *)

(* Faulty variant: a cancelled request drops its acknowledgement too. *)
Wanted_NoAck(t, e) ==
  LET i == gamin_data_get_req_idx(t, e.seq)
  IN  i \in 1 .. Len(t) /\ t[i].state # "CANCELLED"

(* e concerns a request that still wants it. *)
Wanted(t, e) ==
  LET i == gamin_data_get_req_idx(t, e.seq)
  IN  i \in 1 .. Len(t) /\ (t[i].state = "CANCELLED" => e.type = "Ack")

Mutations == {"Created", "Moved", "Changed"}

(* e is handed to the application: after a reconnection nothing is, until  *)
(* an event shows that the server is past its initial report.              *)
Accepted(t, rs, e) == Wanted(t, e) /\ (rs => e.type \in Mutations)

Confirm(t, e) ==
  LET i == gamin_data_get_req_idx(t, e.seq)
  IN  IF Wanted(t, e) /\ t[i].state = "INIT"
      THEN [t EXCEPT ![i].state = "CONFIRMED"] ELSE t

StillRestarted(t, rs, e) ==
  rs /\ ~(Wanted(t, e) /\ e.type \in Mutations \cup {"EndExist"})

(* Faulty variant: the user data of the oldest request is returned. *)
Decoded_Oldest(t, e) ==
  [type |-> e.type, seq |-> e.seq, path |-> e.path, owner |-> t[1].path]

Decoded(t, e) ==
  [type |-> e.type, seq |-> e.seq, path |-> e.path,
   owner |-> t[gamin_data_get_req_idx(t, e.seq)].path]

-----------------------------------------------------------------------------
(* Opening, losing and reopening the connection. *)

InCall(c)  == pc[c] # "idle"
IsOpen(c)  == pc[c] = "idle" /\ fd[c] # NoSock
MayAsk(c)  == IsOpen(c) /\ Len(up[fd[c]]) < MaxUp

FAMOpen(c) ==
  /\ pc[c] = "idle" /\ fd[c] = NoSock
  /\ pc' = [pc EXCEPT ![c] = "open"]
  /\ UNCHANGED <<fd, forked, dataVars, sockVars, srv, starting>>

(* gamin_connect_unix_socket: the first refused connect() forks a server. *)
gamin_fork_server(c) ==
  /\ InCall(c) /\ srv = "down" /\ ~forked[c]
  /\ starting < MaxStarting
  /\ starting' = starting + 1
  /\ forked' = [forked EXCEPT ![c] = TRUE]
  /\ UNCHANGED <<fd, pc, dataVars, sockVars, srv>>

(* MAX_RETRIES connect() calls were refused; the caller returns an error,  *)
(* and a FAMConnection that was open keeps its dead descriptor.            *)
GiveUp(c) ==
  /\ InCall(c) /\ srv = "down" /\ forked[c]
  /\ pc' = [pc EXCEPT ![c] = "idle"]
  /\ forked' = [forked EXCEPT ![c] = FALSE]
  /\ UNCHANGED <<fd, dataVars, sockVars, srv, starting>>

(* connect() succeeds on a new socket s; its first bytes are `sent'. *)
Connect(c, s, sent) ==
  /\ srv = "up" /\ Free(s)
  /\ sOpen' = [sOpen EXCEPT ![s] = TRUE]
  /\ up' = [up EXCEPT ![s] = <<Cred>> \o sent]
  /\ fd' = [fd EXCEPT ![c] = s]
  /\ pc' = [pc EXCEPT ![c] = "idle"]
  /\ forked' = [forked EXCEPT ![c] = FALSE]
  /\ UNCHANGED <<srv, starting>>

(* A fresh GAMData.  Between FAMClose, which frees it, and the next        *)
(* FAMOpen the fields have no owner and keep these values.                 *)
FreshData(c) ==
  /\ reqno' = [reqno EXCEPT ![c] = 1]
  /\ auth' = [auth EXCEPT ![c] = FALSE]
  /\ restarted' = [restarted EXCEPT ![c] = FALSE]
  /\ noexist' = [noexist EXCEPT ![c] = FALSE]
  /\ ready' = [ready EXCEPT ![c] = NoEvent]
  /\ tab' = [tab EXCEPT ![c] = <<>>]
  /\ wasReset' = [wasReset EXCEPT ![c] = FALSE]

(* FAMOpen with a server listening. *)
gamin_data_new(c, s) ==
  /\ pc[c] = "open"
  /\ Connect(c, s, <<>>)
  /\ cOpen' = [cOpen EXCEPT ![s] = TRUE]
  /\ FreshData(c)
  /\ UNCHANGED down

(* gamin_data_reset: the counter restarts, the table is kept. *)
gamin_data_reset(c) ==
  /\ auth' = [auth EXCEPT ![c] = FALSE]
  /\ reqno' = [reqno EXCEPT ![c] = 1]
  /\ restarted' = [restarted EXCEPT ![c] = TRUE]
  /\ ready' = [ready EXCEPT ![c] = NoEvent]
  /\ wasReset' = [wasReset EXCEPT ![c] = TRUE]
  /\ UNCHANGED <<noexist, tab>>

gamin_resend_request(e) ==
  [type |-> e.type, seq |-> SeqOf16(e.reqno), path |-> e.path, noexists |-> TRUE]

(* Faulty variants: the last request, or every request, is forgotten. *)
Resent_NotLast(t) == [i \in 1 .. Len(t) - 1 |-> gamin_resend_request(t[i])]
Resent_None(t) == <<>>

(* The requests a reconnection emits again, in table order. *)
Resent(t) == [i \in 1 .. Len(t) |-> gamin_resend_request(t[i])]

(* dup2() closes the client end of the lost socket. *)
gamin_try_reconnect(c, s) ==
  /\ pc[c] = "reconnect"
  /\ Connect(c, s, Resent(tab[c]))
  /\ cOpen' = [cOpen EXCEPT ![s] = TRUE, ![fd[c]] = FALSE]
  /\ down' = [down EXCEPT ![fd[c]] = <<>>]
  /\ gamin_data_reset(c)

-----------------------------------------------------------------------------
(* Requests. *)

Request(c, r, p, type) ==
  [type |-> type, seq |-> SeqOf16(r), path |-> p,
   noexists |-> (type = "DIR" /\ noexist[c])]

(* FAMMonitorFile, FAMMonitorDirectory.  A failed write is reported to the *)
(* application but leaves the request in the table.                        *)
FAMMonitor(c, p, type) ==
  /\ MayAsk(c) /\ UseAuto
  /\ reqno[c] <= MaxReq /\ Len(tab[c]) < MaxTab
  /\ tab' = [tab EXCEPT ![c] = gamin_data_add_req(@, reqno[c], p, type)]
  /\ reqno' = [reqno EXCEPT ![c] = @ + 1]
  /\ up' = Written(up, sOpen, fd[c], <<Request(c, reqno[c], p, type)>>)
  /\ UNCHANGED <<fd, pc, forked, auth, restarted, noexist, ready, wasReset,
                 down, cOpen, sOpen, srv, starting>>

(* FAMMonitorFile2, FAMMonitorDirectory2: the application picks r. *)
FAMMonitor2(c, p, type, r) ==
  /\ MayAsk(c)
  /\ Len(tab[c]) < MaxTab
  /\ tab' = [tab EXCEPT ![c] = gamin_data_add_req2(@, r, p, type)]
  /\ tab'[c] # tab[c]
  /\ up' = Written(up, sOpen, fd[c], <<Request(c, r, p, type)>>)
  /\ UNCHANGED <<fd, pc, forked, reqno, auth, restarted, noexist, ready,
                 wasReset, down, cOpen, sOpen, srv, starting>>

(* FAMCancelMonitor sends the cancellation whether or not the request was  *)
(* cancelled before.                                                       *)
FAMCancelMonitor(c, r) ==
  LET i == gamin_data_get_req_idx(tab[c], r)
  IN  /\ MayAsk(c)
      /\ i \in 1 .. Len(tab[c])
      /\ tab[c][i].state = "CANCELLED" => DoubleCancel
      /\ tab' = [tab EXCEPT ![c] = gamin_data_cancel(@, i)]
      /\ up' = Written(up, sOpen, fd[c],
                       <<[type |-> "CANCEL", seq |-> SeqOf16(r),
                          path |-> NoPath, noexists |-> FALSE]>>)
      /\ UNCHANGED <<fd, pc, forked, reqno, auth, restarted, noexist, ready,
                     wasReset, down, cOpen, sOpen, srv, starting>>

FAMNoExists(c) ==
  /\ IsOpen(c)
  /\ noexist' = [noexist EXCEPT ![c] = TRUE]
  /\ UNCHANGED <<fd, pc, forked, reqno, auth, restarted, ready, tab, wasReset,
                 sockVars, srv, starting>>

FAMClose(c) ==
  /\ IsOpen(c)
  /\ cOpen' = [cOpen EXCEPT ![fd[c]] = FALSE]
  /\ down' = [down EXCEPT ![fd[c]] = <<>>]
  /\ fd' = [fd EXCEPT ![c] = NoSock]
  /\ FreshData(c)
  /\ UNCHANGED <<pc, forked, up, sOpen, srv, starting>>

-----------------------------------------------------------------------------
(* Reading. *)

(* The first read on a connection takes the server's credential byte. *)
gamin_check_cred(c) ==
  /\ IsOpen(c) /\ ready[c] = NoEvent /\ ~auth[c]
  /\ down[fd[c]] # <<>>
  /\ down' = [down EXCEPT ![fd[c]] = Tail(@)]
  /\ auth' = [auth EXCEPT ![c] = TRUE]
  /\ UNCHANGED <<fd, pc, forked, reqno, restarted, noexist, ready, tab,
                 wasReset, up, cOpen, sOpen, srv, starting>>

(* FAMPending with data to read; FAMNextEvent with no event ready starts   *)
(* the same way.  The packet becomes the ready event or is dropped.        *)
FAMPending(c) ==
  LET e == Head(down[fd[c]])
  IN  /\ IsOpen(c) /\ ready[c] = NoEvent /\ auth[c]
      /\ down[fd[c]] # <<>>
      /\ down' = [down EXCEPT ![fd[c]] = Tail(@)]
      /\ ready' = [ready EXCEPT ![c] =
                     IF Accepted(tab[c], restarted[c], e)
                     THEN Decoded(tab[c], e) ELSE NoEvent]
      /\ restarted' = [restarted EXCEPT ![c] = StillRestarted(tab[c], @, e)]
      /\ tab' = [tab EXCEPT ![c] = Confirm(@, e)]
      /\ UNCHANGED <<fd, pc, forked, reqno, auth, noexist, wasReset,
                     up, cOpen, sOpen, srv, starting>>

(* End of file in FAMPending or FAMNextEvent: try to reconnect.  When the  *)
(* credential byte is still due, gamin_check_cred tests an uninitialized   *)
(* byte and may take the end of file for it.                               *)
LostServer(c) ==
  /\ IsOpen(c) /\ ready[c] = NoEvent
  /\ down[fd[c]] = <<>> /\ ~sOpen[fd[c]]
  /\ \E authOK \in BOOLEAN :
       auth' = [auth EXCEPT ![c] = @ \/ authOK]
  /\ pc' = [pc EXCEPT ![c] = "reconnect"]
  /\ UNCHANGED <<fd, forked, reqno, restarted, noexist, ready, tab, wasReset,
                 sockVars, srv, starting>>

(* FAMNextEvent hands out the ready event (gamin_data_read_event); an      *)
(* acknowledgement ends its request.                                       *)
FAMNextEvent(c) ==
  /\ IsOpen(c) /\ ready[c] # NoEvent
  /\ ready' = [ready EXCEPT ![c] = NoEvent]
  /\ tab' = [tab EXCEPT ![c] =
               IF ready[c].type = "Ack" THEN gamin_data_del_req(@, ready[c].seq)
               ELSE @]
  /\ UNCHANGED <<fd, pc, forked, reqno, auth, restarted, noexist, wasReset,
                 sockVars, srv, starting>>

-----------------------------------------------------------------------------
ClientTypeOK ==
  /\ fd \in [Clients -> Socks \cup {NoSock}]
  /\ pc \in [Clients -> {"idle", "open", "reconnect"}]
  /\ forked \in [Clients -> BOOLEAN]
  /\ reqno \in [Clients -> Nat]
  /\ auth \in [Clients -> BOOLEAN]
  /\ restarted \in [Clients -> BOOLEAN]
  /\ noexist \in [Clients -> BOOLEAN]
  /\ ready \in [Clients -> Events]
  /\ tab \in [Clients -> Seq(Entries)]
  /\ wasReset \in [Clients -> BOOLEAN]

ClientInit ==
  /\ fd = [c \in Clients |-> NoSock]
  /\ pc = [c \in Clients |-> "idle"]
  /\ forked = [c \in Clients |-> FALSE]
  /\ reqno = [c \in Clients |-> 1]
  /\ auth = [c \in Clients |-> FALSE]
  /\ restarted = [c \in Clients |-> FALSE]
  /\ noexist = [c \in Clients |-> FALSE]
  /\ ready = [c \in Clients |-> NoEvent]
  /\ tab = [c \in Clients |-> <<>>]
  /\ wasReset = [c \in Clients |-> FALSE]

ClientNext(c) ==
  \/ FAMOpen(c)
  \/ gamin_fork_server(c)
  \/ GiveUp(c)
  \/ \E s \in Socks : gamin_data_new(c, s) \/ gamin_try_reconnect(c, s)
  \/ \E p \in Paths, type \in MonTypes : FAMMonitor(c, p, type)
  \/ \E p \in Paths, type \in MonTypes, r \in UserNums : FAMMonitor2(c, p, type, r)
  \/ \E i \in 1 .. Len(tab[c]) : FAMCancelMonitor(c, tab[c][i].reqno)
  \/ "DIR" \in MonTypes /\ FAMNoExists(c)
  \/ FAMClose(c)
  \/ gamin_check_cred(c)
  \/ FAMPending(c)
  \/ LostServer(c)
  \/ FAMNextEvent(c)
=============================================================================
