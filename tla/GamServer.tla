----------------------------- MODULE GamServer -----------------------------
(***************************************************************************)
(* gam_server with the inotify backend running: accepting connections      *)
(* (gam_channel.c), the life of a connection, its event queue and the      *)
(* requests on it (gam_connection.c, gam_eq.c), the subscriptions of its   *)
(* listener (gam_listener.c, gam_subscription.c), and the exit on idle     *)
(* time (gam_connection.c, gam_server.c).                                  *)
(*                                                                         *)
(* The server is one glib main loop: every callback runs to its end, so    *)
(* every callback is one action.  A read that returns several requests     *)
(* handles them in a row and only writes to this client in between, so one *)
(* request per action loses nothing.  The file system is the environment:  *)
(* what a path's initial report says, and when the backend reports a       *)
(* change, is chosen freely; an event about an entry of a monitored        *)
(* directory is an event of its subscription, under the directory's path.  *)
(***************************************************************************)
EXTENDS GamSockets

CONSTANTS
  NonePaths,   \* paths on a file system configured with monitor type "none"
  UseTimeout,  \* gam_server_use_timeout(): exit after an idle time
  Reports,     \* what initial reports say of a path: "Exists", "Deleted"
  EmitTypes,   \* the events the backend reports on live subscriptions
  MaxPending,  \* bound: unread events of a connection when one is emitted
  MaxReported, \* bound: the same, when a subscription is added
  MaxDeaths    \* bound: signals and crashes that end a running server

ASSUME NonePathsAssumption == NonePaths \subseteq Paths
ASSUME UseTimeoutAssumption == UseTimeout \in BOOLEAN
ASSUME ReportsAssumption == Reports \subseteq {"Exists", "Deleted"}
ASSUME EmitTypesAssumption ==
  EmitTypes \subseteq {"Created", "Deleted", "Changed"}
ASSUME ServerBounds ==
  MaxPending \in Nat /\ MaxReported \in Nat /\ MaxDeaths \in Nat

VARIABLES
  cstate,   \* GamConnData.state, "NONE" when there is no connection
  subs,     \* GamListener.subs, last added first
  eq,       \* GamConnData.eq
  armed,    \* GamConnData.eq_source # 0: the flush timer is installed
  idle,     \* server_timeout_id # 0
  deaths    \* servers ended by a signal or a crash so far

connVars   == <<cstate, subs, eq, armed>>
serverVars == <<connVars, idle, deaths>>

Subscriptions ==
  [reqno : 0 .. SeqSpan - 1, path : Paths, dir : BOOLEAN, noexists : BOOLEAN]

QueuedEvents ==
  [type : EventTypes, seq : 0 .. SeqSpan - 1, path : Paths]

(* gamConnList *)
Conns == {s \in Socks : cstate[s] # "NONE"}

Pending(s) == Len(eq[s]) + Len(down[s])

-----------------------------------------------------------------------------
(* Events going out. *)

gam_subscription_wants_event(sub, type) ==
  sub.noexists => type \notin {"Exists", "EndExist"}

(* An event equal to the last one still queued is thrown away. *)
gam_eq_queue(q, e) ==
  IF q # <<>> /\ q[Len(q)] = e THEN q ELSE Append(q, e)

(* Queue q after the event was emitted for sub. *)
gam_server_emit_one_event(q, sub, type) ==
  IF gam_subscription_wants_event(sub, type)
  THEN gam_eq_queue(q, [type |-> type, seq |-> sub.reqno, path |-> sub.path])
  ELSE q

(* Faulty variant: the flush timer is not installed again. *)
gam_queue_event_NotArmed(s, sub, types, q) ==
  eq' = [eq EXCEPT ![s] = q] /\ UNCHANGED armed

(* Faulty variant: every connection gets the event. *)
gam_queue_event_ToAll(s, sub, types, q) ==
  /\ eq' = [x \in Socks |-> IF cstate[x] = "OKAY" THEN q ELSE eq[x]]
  /\ armed' = [x \in Socks |-> armed[x] \/ cstate[x] = "OKAY"]

(* gam_queue_event on the connection s: the types are emitted for sub, q   *)
(* is the queue they make, and queueing one installs the flush timer.      *)
gam_queue_event(s, sub, types, q) ==
  /\ eq' = [eq EXCEPT ![s] = q]
  /\ armed' = [armed EXCEPT ![s] =
                 @ \/ \E t \in types : gam_subscription_wants_event(sub, t)]

(* The state report every new subscription starts with. *)
gam_inotify_send_initial_events(s, sub, gevent) ==
  gam_queue_event(s, sub, {gevent, "EndExist"},
    gam_server_emit_one_event(
      gam_server_emit_one_event(eq[s], sub, gevent), sub, "EndExist"))

(* The backend saw a change that concerns the i-th subscription of s. *)
gam_inotify_event_callback(s, i, type) ==
  /\ i \in 1 .. Len(subs[s])
  /\ Pending(s) < MaxPending
  /\ gam_queue_event(s, subs[s][i], {type},
                     gam_server_emit_one_event(eq[s], subs[s][i], type))
  /\ UNCHANGED <<cstate, subs, idle, deaths, sockVars, srv, starting>>

(* The flush timer of s: everything queued is sent; a timer that finds the *)
(* queue empty is removed.                                                 *)
gam_connection_eq_flush(s) ==
  /\ armed[s]
  /\ down' = Written(down, cOpen, s, eq[s])
  /\ eq' = [eq EXCEPT ![s] = <<>>]
  /\ armed' = [armed EXCEPT ![s] = eq[s] # <<>>]
  /\ UNCHANGED <<cstate, subs, idle, deaths, up, cOpen, sOpen, srv, starting>>

-----------------------------------------------------------------------------
(* Connections. *)

(* accept() and gam_connection_new. *)
gam_incoming_conn_read(s) ==
  /\ srv = "up" /\ sOpen[s] /\ cstate[s] = "NONE"
  /\ cstate' = [cstate EXCEPT ![s] = "AUTH"]
  /\ armed' = [armed EXCEPT ![s] = TRUE]
  /\ idle' = FALSE
  /\ UNCHANGED <<subs, eq, deaths, sockVars, srv, starting>>

(* The credential byte is answered by the server's own; that the answer    *)
(* could not be written goes unnoticed.                                    *)
gam_client_conn_check_cred(s) ==
  /\ cstate[s] = "AUTH" /\ up[s] # <<>>
  /\ cstate' = [cstate EXCEPT ![s] = "OKAY"]
  /\ up' = [up EXCEPT ![s] = Tail(@)]
  /\ down' = Written(down, cOpen, s, <<ServerByte>>)
  /\ UNCHANGED <<subs, eq, armed, idle, deaths, cOpen, sOpen, srv, starting>>

(* The socket is shut first, so the final flush of the queue is lost. *)
gam_connection_close(s) ==
  /\ sOpen' = [sOpen EXCEPT ![s] = FALSE]
  /\ up' = [up EXCEPT ![s] = <<>>]
  /\ cstate' = [cstate EXCEPT ![s] = "NONE"]
  /\ subs' = [subs EXCEPT ![s] = <<>>]
  /\ eq' = [eq EXCEPT ![s] = <<>>]
  /\ armed' = [armed EXCEPT ![s] = FALSE]
  /\ idle' = (idle \/ (UseTimeout /\ Conns = {s}))
  /\ UNCHANGED <<deaths, down, cOpen, srv, starting>>

(* Faulty variant: end of file is only noticed before the handshake. *)
gam_client_conn_shutdown_InAuth(s) ==
  /\ cstate[s] = "AUTH" /\ up[s] = <<>> /\ ~cOpen[s]
  /\ gam_connection_close(s)

(* read() returns 0. *)
gam_client_conn_shutdown(s) ==
  /\ cstate[s] = "OKAY" /\ up[s] = <<>> /\ ~cOpen[s]
  /\ gam_connection_close(s)

-----------------------------------------------------------------------------
(* gam_connection_request on the next request of a connection. *)

Asked(s, types) ==
  cstate[s] = "OKAY" /\ up[s] # <<>> /\ Head(up[s]).type \in types

NewSub(req) ==
  [reqno |-> req.seq, path |-> req.path, dir |-> req.type = "DIR",
   noexists |-> req.noexists]

(* GAM_REQ_FILE, GAM_REQ_DIR: a path that is not monitored gets neither a  *)
(* subscription nor an answer.                                             *)
gam_add_subscription(s, gevent) ==
  LET req == Head(up[s])
  IN  /\ Asked(s, ReqTypes)
      /\ Pending(s) < MaxReported
      /\ up' = [up EXCEPT ![s] = Tail(@)]
      /\ IF req.path \in NonePaths
         THEN UNCHANGED <<subs, eq, armed>>
         ELSE /\ subs' = [subs EXCEPT ![s] = <<NewSub(req)>> \o @]
              /\ gam_inotify_send_initial_events(s, NewSub(req), gevent)
      /\ UNCHANGED <<cstate, idle, deaths, down, cOpen, sOpen, srv, starting>>

(* Faulty variants: the newest subscription is taken; it is skipped. *)
gam_listener_get_subscription_by_reqno_Newest(s, r) ==
  IF subs[s] = <<>> THEN 0 ELSE 1

gam_listener_get_subscription_by_reqno_Skip(s, r) ==
  LET i == SelectInSeq(subs[s], LAMBDA sub : sub.reqno = r)
  IN  IF i = 1 THEN 0 ELSE i

gam_listener_get_subscription_by_reqno(s, r) ==
  SelectInSeq(subs[s], LAMBDA sub : sub.reqno = r)

(* GAM_REQ_CANCEL: the acknowledgement does not go through the queue. *)
gam_remove_subscription(s) ==
  LET r == Head(up[s]).seq
      i == gam_listener_get_subscription_by_reqno(s, r)
  IN  /\ Asked(s, {"CANCEL"})
      /\ i \in 1 .. Len(subs[s])
      /\ up' = [up EXCEPT ![s] = Tail(@)]
      /\ subs' = [subs EXCEPT ![s] = RemoveAt(@, i)]
      /\ down' = Written(down, cOpen, s,
                   <<[type |-> "Ack", seq |-> r, path |-> subs[s][i].path]>>)
      /\ UNCHANGED <<cstate, eq, armed, idle, deaths, cOpen, sOpen, srv, starting>>

(* GAM_REQ_CANCEL of a request the listener does not have: the error       *)
(* closes the whole connection.                                            *)
CancelUnknown(s) ==
  /\ Asked(s, {"CANCEL"})
  /\ gam_listener_get_subscription_by_reqno(s, Head(up[s]).seq) = 0
  /\ gam_connection_close(s)

(* The read source of a connection: what it does with the next bytes. *)
gam_client_conn_read(s) ==
  \/ gam_client_conn_check_cred(s)
  \/ gam_client_conn_shutdown(s)
  \/ \E gevent \in Reports : gam_add_subscription(s, gevent)
  \/ gam_remove_subscription(s)
  \/ CancelUnknown(s)

-----------------------------------------------------------------------------
(* The server process. *)

(* Faulty variant: a server that fails to bind restarts the idle timer. *)
gam_server_init_Rearm ==
  /\ starting > 0
  /\ starting' = starting - 1
  /\ srv' = "up"
  /\ idle' = UseTimeout
  /\ UNCHANGED <<connVars, deaths, sockVars>>

(* A forked server reaches bind(): it becomes the server, or finds the     *)
(* address taken and exits.                                                *)
gam_server_init ==
  /\ starting > 0
  /\ starting' = starting - 1
  /\ srv' = "up"
  /\ idle' = IF srv = "up" THEN idle ELSE UseTimeout
  /\ UNCHANGED <<connVars, deaths, sockVars>>

(* The process ends: the kernel closes every socket it held, the ones that *)
(* wait to be accepted too.                                                *)
ProcessEnds ==
  /\ srv' = "down"
  /\ sOpen' = [s \in Socks |-> FALSE]
  /\ up' = [s \in Socks |-> <<>>]
  /\ cstate' = [s \in Socks |-> "NONE"]
  /\ subs' = [s \in Socks |-> <<>>]
  /\ eq' = [s \in Socks |-> <<>>]
  /\ armed' = [s \in Socks |-> FALSE]
  /\ idle' = FALSE
  /\ UNCHANGED <<down, cOpen, starting>>

(* MAX_IDLE_TIMEOUT_MSEC passed. *)
gam_connections_check ==
  /\ srv = "up" /\ idle
  /\ IF Conns = {} THEN ProcessEnds
     ELSE /\ idle' = FALSE
          /\ UNCHANGED <<connVars, sockVars, srv, starting>>
  /\ UNCHANGED deaths

(* A signal (SIGHUP, SIGINT, SIGQUIT, SIGTERM) or a crash. *)
gam_exit ==
  /\ srv = "up" /\ deaths < MaxDeaths
  /\ deaths' = deaths + 1
  /\ ProcessEnds

-----------------------------------------------------------------------------
ServerTypeOK ==
  /\ cstate \in [Socks -> {"NONE", "AUTH", "OKAY"}]
  /\ subs \in [Socks -> Seq(Subscriptions)]
  /\ eq \in [Socks -> Seq(QueuedEvents)]
  /\ armed \in [Socks -> BOOLEAN]
  /\ idle \in BOOLEAN
  /\ deaths \in Nat

ServerInit ==
  /\ cstate = [s \in Socks |-> "NONE"]
  /\ subs = [s \in Socks |-> <<>>]
  /\ eq = [s \in Socks |-> <<>>]
  /\ armed = [s \in Socks |-> FALSE]
  /\ idle = FALSE
  /\ deaths = 0

ServerNext ==
  \/ \E s \in Socks :
       \/ gam_incoming_conn_read(s)
       \/ gam_client_conn_read(s)
       \/ gam_connection_eq_flush(s)
       \/ \E i \in 1 .. Len(subs[s]), type \in EmitTypes :
            gam_inotify_event_callback(s, i, type)
  \/ gam_server_init
  \/ gam_connections_check
  \/ gam_exit
=============================================================================
