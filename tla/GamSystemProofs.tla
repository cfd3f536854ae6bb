-------------------------- MODULE GamSystemProofs --------------------------
(***************************************************************************)
(* Theorems about GamSystem, for every value of its constants: its type    *)
(* invariant, that no event is queued without a timer, and that the idle   *)
(* timer runs exactly while the server has no connection.                  *)
(***************************************************************************)
EXTENDS GamSystem, TLAPS, SequenceTheorems

USE SeqSpanAssumption, NoPathAssumption, NoSockAssumption

(* What removing and inserting one element makes of a sequence.            *)
LEMMA RemoveAtType ==
  ASSUME NEW S, NEW t \in Seq(S), NEW i \in 1 .. Len(t)
  PROVE  /\ RemoveAt(t, i) \in Seq(S)
         /\ Len(RemoveAt(t, i)) = Len(t) - 1
         /\ \A j \in 1 .. Len(t) - 1 :
              RemoveAt(t, i)[j] = IF j < i THEN t[j] ELSE t[j + 1]
<1> DEFINE a == SubSeq(t, 1, i - 1)
           b == SubSeq(t, i + 1, Len(t))
<1>1. /\ a \in Seq(S) /\ Len(a) = i - 1
      /\ \A j \in 1 .. i - 1 : a[j] = t[j]
  OBVIOUS
<1>2. /\ b \in Seq(S) /\ Len(b) = Len(t) - i
      /\ \A j \in 1 .. Len(t) - i : b[j] = t[j + i]
  OBVIOUS
<1>3. RemoveAt(t, i) = a \o b
  BY DEF RemoveAt
<1> HIDE DEF a, b
<1>4. /\ a \o b \in Seq(S)
      /\ Len(a \o b) = Len(t) - 1
      /\ \A j \in 1 .. Len(t) - 1 :
           (a \o b)[j] = IF j < i THEN a[j] ELSE b[j - (i - 1)]
  <2>1. /\ a \o b \in Seq(S)
        /\ Len(a \o b) = Len(a) + Len(b)
        /\ \A j \in 1 .. Len(a) + Len(b) :
             (a \o b)[j] = IF j <= Len(a) THEN a[j] ELSE b[j - Len(a)]
    BY <1>1, <1>2, ConcatProperties
  <2> QED
    BY <1>1, <1>2, <2>1
<1> QED
  BY <1>1, <1>2, <1>3, <1>4

LEMMA InsertAtType ==
  ASSUME NEW S, NEW t \in Seq(S), NEW i \in 1 .. Len(t) + 1, NEW e \in S
  PROVE  /\ InsertAt(t, i, e) \in Seq(S)
         /\ Len(InsertAt(t, i, e)) = Len(t) + 1
         /\ InsertAt(t, i, e)[i] = e
         /\ \A j \in 1 .. Len(t) :
              t[j] = IF j < i THEN InsertAt(t, i, e)[j]
                     ELSE InsertAt(t, i, e)[j + 1]
<1> DEFINE a == SubSeq(t, 1, i - 1)
           b == SubSeq(t, i, Len(t))
           m == a \o <<e>>
<1>1. /\ a \in Seq(S) /\ Len(a) = i - 1
      /\ \A j \in 1 .. i - 1 : a[j] = t[j]
  OBVIOUS
<1>2. /\ b \in Seq(S) /\ Len(b) = Len(t) - i + 1
      /\ \A j \in i .. Len(t) : b[j - i + 1] = t[j]
  OBVIOUS
<1>3. InsertAt(t, i, e) = m \o b
  BY DEF InsertAt
<1> HIDE DEF a, b
<1>4. /\ m \in Seq(S) /\ Len(m) = i /\ m[i] = e
      /\ \A j \in 1 .. i - 1 : m[j] = t[j]
  BY <1>1
<1> HIDE DEF m
<1>5. /\ m \o b \in Seq(S) /\ Len(m \o b) = Len(t) + 1
      /\ \A j \in 1 .. i : (m \o b)[j] = m[j]
      /\ \A j \in i + 1 .. Len(t) + 1 : (m \o b)[j] = b[j - i]
  <2>1. i \in Nat /\ Len(t) \in Nat /\ m \in Seq(S) /\ b \in Seq(S)
        /\ Len(m) = i /\ Len(b) = Len(t) - i + 1
    BY <1>2, <1>4
  <2>2. /\ m \o b \in Seq(S) /\ Len(m \o b) = Len(m) + Len(b)
        /\ \A j \in 1 .. Len(m) + Len(b) :
             (m \o b)[j] = IF j <= Len(m) THEN m[j] ELSE b[j - Len(m)]
    BY <2>1, ConcatProperties
  <2>3. ASSUME NEW j \in 1 .. i
        PROVE  (m \o b)[j] = m[j]
    BY <2>1, <2>2
  <2>4. ASSUME NEW j \in i + 1 .. Len(t) + 1
        PROVE  (m \o b)[j] = b[j - i]
    BY <2>1, <2>2
  <2>5. Len(m \o b) = Len(t) + 1
    BY <2>1, <2>2
  <2> QED
    BY <2>2, <2>3, <2>4, <2>5
<1>6. PICK u : u = m \o b
  OBVIOUS
<1>7. ASSUME NEW j \in 1 .. Len(t)
      PROVE  t[j] = IF j < i THEN u[j] ELSE u[j + 1]
  <2>1. CASE j < i
    BY <1>4, <1>5, <1>6, <2>1
  <2>2. CASE j >= i
    <3>1. j + 1 \in i + 1 .. Len(t) + 1 /\ (j + 1) - i = j - i + 1
      BY <2>2
    <3> QED
      BY <1>2, <1>5, <1>6, <2>2, <3>1
  <2> QED
    BY <2>1, <2>2
<1> QED
  BY <1>3, <1>4, <1>5, <1>6, <1>7

LEMMA WrittenType ==
  ASSUME NEW S, NEW ch \in [Socks -> Seq(S)], NEW open,
         NEW s \in Socks, NEW pkts \in Seq(S)
  PROVE  Written(ch, open, s, pkts) \in [Socks -> Seq(S)]
  BY DEF Written

-----------------------------------------------------------------------------
(* The operators the actions are made of keep the types. *)

LEMMA DiscardType ==
  ASSUME NEW S, NEW ch \in [Socks -> Seq(S)], NEW s
  PROVE  [ch EXCEPT ![s] = <<>>] \in [Socks -> Seq(S)]
<1>1. <<>> \in Seq(S)
  OBVIOUS
<1>2. ASSUME NEW T, NEW f \in [Socks -> T], NEW x \in T
      PROVE  [f EXCEPT ![s] = x] \in [Socks -> T]
  OBVIOUS
<1> QED
  BY <1>1, <1>2

LEMMA SeqOf16Type == \A r \in Nat : SeqOf16(r) \in 0 .. SeqSpan - 1
  BY DEF SeqOf16

LEMMA TableType ==
  ASSUME NEW t \in Seq(Entries), NEW r \in Nat, NEW p \in Paths,
         NEW type \in ReqTypes
  PROVE  /\ gamin_data_add_req(t, r, p, type) \in Seq(Entries)
         /\ gamin_data_add_req2(t, r, p, type) \in Seq(Entries)
         /\ gamin_data_del_req(t, r) \in Seq(Entries)
         /\ \A i \in 1 .. Len(t) : gamin_data_cancel(t, i) \in Seq(Entries)
<1>1. NewEntry(r, p, type) \in Entries
  BY DEF NewEntry, Entries, ReqStates
<1>2. gamin_data_add_req(t, r, p, type) \in Seq(Entries)
  BY <1>1 DEF gamin_data_add_req
<1>3. gamin_data_add_req2(t, r, p, type) \in Seq(Entries)
  <2> DEFINE i == gamin_data_get_req_loc(t, r)
             idx == IF i <= Len(t) /\ t[i].reqno < r THEN i + 1 ELSE i
  <2> HIDE DEF i
  <2>1. CASE i \in 1 .. Len(t) + 1
    <3>1. idx \in 1 .. Len(t) + 1
      BY <2>1
    <3>2. InsertAt(t, idx, NewEntry(r, p, type)) \in Seq(Entries)
      BY <1>1, <3>1, InsertAtType
    <3> QED
      BY <3>2 DEF gamin_data_add_req2, i
  <2>2. CASE i \notin 1 .. Len(t) + 1
    BY <2>2 DEF gamin_data_add_req2, i
  <2> QED
    BY <2>1, <2>2
<1>4. gamin_data_del_req(t, r) \in Seq(Entries)
  BY RemoveAtType DEF gamin_data_del_req
<1>5. ASSUME NEW i \in 1 .. Len(t)
      PROVE  gamin_data_cancel(t, i) \in Seq(Entries)
  <2>1. [t[i] EXCEPT !.state = "CANCELLED"] \in Entries
    <3>1. t[i] \in Entries
      OBVIOUS
    <3> QED
      BY <3>1 DEF Entries, ReqStates
  <2> QED
    BY <2>1 DEF gamin_data_cancel
<1> QED
  BY <1>2, <1>3, <1>4, <1>5

LEMMA ConfirmType ==
  ASSUME NEW t \in Seq(Entries), NEW e
  PROVE  Confirm(t, e) \in Seq(Entries)
<1> DEFINE i == gamin_data_get_req_idx(t, e.seq)
<1>1. CASE Wanted(t, e) /\ t[i].state = "INIT"
  <2>1. i \in 1 .. Len(t)
    BY <1>1 DEF Wanted
  <2> HIDE DEF i
  <2>2. [t[i] EXCEPT !.state = "CONFIRMED"] \in Entries
    <3>1. t[i] \in Entries
      BY <2>1
    <3> QED
      BY <3>1 DEF Entries, ReqStates
  <2>3. [t EXCEPT ![i].state = "CONFIRMED"] \in Seq(Entries)
    BY <2>1, <2>2
  <2> QED
    BY <1>1, <2>3 DEF Confirm, i
<1>2. CASE ~(Wanted(t, e) /\ t[i].state = "INIT")
  BY <1>2 DEF Confirm
<1> QED
  BY <1>1, <1>2

LEMMA DecodedType ==
  ASSUME NEW t \in Seq(Entries), NEW e \in Packets, NEW rs, Accepted(t, rs, e)
  PROVE  Decoded(t, e) \in Events
<1> DEFINE i == gamin_data_get_req_idx(t, e.seq)
<1>1. i \in 1 .. Len(t)
  BY DEF Accepted, Wanted
<1> HIDE DEF i
<1>2. t[i].path \in Paths
  <2>1. t[i] \in Entries
    BY <1>1
  <2> QED
    BY <2>1 DEF Entries
<1>3. /\ e.type \in EventTypes \cup {"Ack", "CRED"}
      /\ e.seq \in 0 .. SeqSpan - 1
      /\ e.path \in Paths \cup {NoPath}
  BY DEF Packets, ServerByte
<1> QED
  BY <1>2, <1>3 DEF Decoded, i, Events

LEMMA ResentType ==
  ASSUME NEW t \in Seq(Entries)
  PROVE  Resent(t) \in Seq(Requests)
<1>1. ASSUME NEW i \in 1 .. Len(t)
      PROVE  gamin_resend_request(t[i]) \in Requests
  <2>1. t[i] \in Entries
    OBVIOUS
  <2> QED
    BY <2>1, SeqOf16Type DEF gamin_resend_request, Requests, Monitors, Entries
<1> QED
  BY <1>1 DEF Resent

-----------------------------------------------------------------------------
(* Type correctness. *)

LEMMA TypeInit == Init => TypeOK
<1> SUFFICES ASSUME Init PROVE TypeOK
  OBVIOUS
<1>1. SockTypeOK
  BY DEF Init, SockInit, SockTypeOK
<1>2. ClientTypeOK
  <2>1. NoEvent \in Events
    BY DEF NoEvent, Events
  <2> QED
    BY <2>1 DEF Init, ClientInit, ClientTypeOK
<1>3. ServerTypeOK
  <2>1. idle \in BOOLEAN /\ armed \in [Socks -> BOOLEAN]
    BY DEF Init, ServerInit
  <2>2. /\ cstate \in [Socks -> {"NONE", "AUTH", "OKAY"}]
        /\ subs \in [Socks -> Seq(Subscriptions)]
        /\ eq \in [Socks -> Seq(QueuedEvents)]
        /\ deaths \in Nat
    BY DEF Init, ServerInit
  <2> QED
    BY <2>1, <2>2 DEF ServerTypeOK
<1> QED
  BY <1>1, <1>2, <1>3 DEF TypeOK

(* A client's step. *)
LEMMA TypeClient ==
  ASSUME TypeOK, NEW c \in Clients, ClientNext(c)
  PROVE  SockTypeOK' /\ ClientTypeOK'
<1> USE DEF TypeOK, SockTypeOK, ClientTypeOK
<1>0. NoEvent \in Events
  BY DEF NoEvent, Events
<1>1. CASE FAMOpen(c)
  BY <1>1 DEF FAMOpen, sockVars, dataVars
<1>2. CASE gamin_fork_server(c)
  BY <1>2 DEF gamin_fork_server, sockVars, dataVars
<1>3. CASE GiveUp(c)
  BY <1>3 DEF GiveUp, sockVars, dataVars
<1>4. ASSUME NEW s \in Socks, gamin_data_new(c, s)
      PROVE  SockTypeOK' /\ ClientTypeOK'
  <2>1. <<Cred>> \o <<>> \in Seq(Requests)
    BY DEF Cred, Requests
  <2> QED
    BY <1>0, <1>4, <2>1 DEF gamin_data_new, FreshData, Connect
<1>5. ASSUME NEW s \in Socks, gamin_try_reconnect(c, s)
      PROVE  SockTypeOK' /\ ClientTypeOK'
  <2>1. <<Cred>> \in Seq(Requests)
    BY DEF Cred, Requests
  <2>2. Resent(tab[c]) \in Seq(Requests)
    BY ResentType
  <2>3. <<Cred>> \o Resent(tab[c]) \in Seq(Requests)
    BY <2>1, <2>2
  <2>4. SockTypeOK'
    <3>0. up' \in [Socks -> Seq(Requests)]
      BY <1>5, <2>3 DEF gamin_try_reconnect, Connect
    <3>1. down' \in [Socks -> Seq(Packets)]
      BY <1>5, DiscardType DEF gamin_try_reconnect
    <3>2. cOpen' \in [Socks -> BOOLEAN] /\ sOpen' \in [Socks -> BOOLEAN]
      BY <1>5 DEF gamin_try_reconnect, Connect
    <3> QED
      BY <1>5, <3>0, <3>1, <3>2 DEF gamin_try_reconnect, Connect
  <2>5. ClientTypeOK'
    BY <1>0, <1>5 DEF gamin_try_reconnect, gamin_data_reset, Connect
  <2> QED
    BY <2>4, <2>5
<1>6. ASSUME NEW p \in Paths, NEW type \in ReqTypes, NEW r \in Nat
      PROVE  <<Request(c, r, p, type)>> \in Seq(Requests)
  <2>1. (type = "DIR" /\ noexist[c]) \in BOOLEAN
    OBVIOUS
  <2>2. Request(c, r, p, type) \in Monitors
    BY <2>1, SeqOf16Type DEF Request, Monitors
  <2>3. Request(c, r, p, type) \in Requests
    BY <2>2 DEF Requests
  <2> QED
    BY <2>3
<1>7. ASSUME NEW p \in Paths, NEW type \in MonTypes, FAMMonitor(c, p, type)
      PROVE  SockTypeOK' /\ ClientTypeOK'
  <2>1. type \in ReqTypes
    BY MonTypesAssumption
  <2>2. fd[c] \in Socks
    BY <1>7 DEF FAMMonitor, MayAsk, IsOpen
  <2>3. up' \in [Socks -> Seq(Requests)]
    BY <1>6, <1>7, <2>1, <2>2, WrittenType DEF FAMMonitor
  <2>4. tab' \in [Clients -> Seq(Entries)]
    BY <1>7, <2>1, TableType DEF FAMMonitor
  <2>5. reqno' \in [Clients -> Nat]
    BY <1>7 DEF FAMMonitor
  <2> QED
    BY <1>7, <2>3, <2>4, <2>5 DEF FAMMonitor
<1>8. ASSUME NEW p \in Paths, NEW type \in MonTypes, NEW r \in UserNums,
             FAMMonitor2(c, p, type, r)
      PROVE  SockTypeOK' /\ ClientTypeOK'
  <2>1. type \in ReqTypes /\ r \in Nat
    BY MonTypesAssumption, UserNumsAssumption
  <2>2. fd[c] \in Socks
    BY <1>8 DEF FAMMonitor2, MayAsk, IsOpen
  <2>3. up' \in [Socks -> Seq(Requests)]
    BY <1>6, <1>8, <2>1, <2>2, WrittenType DEF FAMMonitor2
  <2>4. tab' \in [Clients -> Seq(Entries)]
    BY <1>8, <2>1, TableType DEF FAMMonitor2
  <2> QED
    BY <1>8, <2>3, <2>4 DEF FAMMonitor2
<1>9. ASSUME NEW k \in 1 .. Len(tab[c]), FAMCancelMonitor(c, tab[c][k].reqno)
      PROVE  SockTypeOK' /\ ClientTypeOK'
  <2> DEFINE r == tab[c][k].reqno
             i == gamin_data_get_req_idx(tab[c], r)
             pkts == <<[type |-> "CANCEL", seq |-> SeqOf16(r),
                        path |-> NoPath, noexists |-> FALSE]>>
  <2>1. r \in Nat
    <3>1. tab[c][k] \in Entries
      OBVIOUS
    <3> QED
      BY <3>1 DEF Entries
  <2>2. fd[c] \in Socks
    BY <1>9 DEF FAMCancelMonitor, MayAsk, IsOpen
  <2>3. pkts \in Seq(Requests)
    <3>1. SeqOf16(r) \in 0 .. SeqSpan - 1
      BY <2>1, SeqOf16Type
    <3>2. [type |-> "CANCEL", seq |-> SeqOf16(r), path |-> NoPath,
           noexists |-> FALSE] \in Requests
      BY <3>1 DEF Requests
    <3> QED
      BY <3>2
  <2>4. /\ i \in 1 .. Len(tab[c])
        /\ tab' = [tab EXCEPT ![c] = gamin_data_cancel(tab[c], i)]
        /\ up' = Written(up, sOpen, fd[c], pkts)
        /\ UNCHANGED <<fd, pc, forked, reqno, auth, restarted, noexist, ready,
                       wasReset, down, cOpen, sOpen, srv, starting>>
    BY <1>9 DEF FAMCancelMonitor
  <2> HIDE DEF r, i, pkts
  <2>5. up' \in [Socks -> Seq(Requests)]
    BY <2>2, <2>3, <2>4, WrittenType
  <2>6. gamin_data_cancel(tab[c], i) \in Seq(Entries)
    <3>1. ASSUME NEW p \in Paths
          PROVE  gamin_data_cancel(tab[c], i) \in Seq(Entries)
      BY <2>1, <2>4, TableType DEF ReqTypes
    <3>2. tab[c][k] \in Entries
      OBVIOUS
    <3>3. tab[c][k].path \in Paths
      BY <3>2 DEF Entries
    <3> QED
      BY <3>1, <3>3
  <2> QED
    BY <2>4, <2>5, <2>6
<1>10. CASE FAMNoExists(c)
  BY <1>10 DEF FAMNoExists, sockVars
<1>11. CASE FAMClose(c)
  <2>0. down' \in [Socks -> Seq(Packets)]
    BY <1>11, DiscardType DEF FAMClose
  <2>1. SockTypeOK'
    BY <1>11, <2>0 DEF FAMClose
  <2>2. ClientTypeOK'
    BY <1>0, <1>11 DEF FAMClose, FreshData
  <2> QED
    BY <2>1, <2>2
<1>12. CASE gamin_check_cred(c)
  <2>1. fd[c] \in Socks
    BY <1>12 DEF gamin_check_cred, IsOpen
  <2> QED
    BY <1>12, <2>1 DEF gamin_check_cred
<1>13. CASE FAMPending(c)
  <2> DEFINE e == Head(down[fd[c]])
  <2>1. fd[c] \in Socks
    BY <1>13 DEF FAMPending, IsOpen
  <2>2. e \in Packets /\ Tail(down[fd[c]]) \in Seq(Packets)
    BY <1>13, <2>1 DEF FAMPending
  <2>3. Confirm(tab[c], e) \in Seq(Entries)
    BY ConfirmType
  <2>4. Accepted(tab[c], restarted[c], e) => Decoded(tab[c], e) \in Events
    BY <2>2, DecodedType
  <2>5. StillRestarted(tab[c], restarted[c], e) \in BOOLEAN
    BY DEF StillRestarted
  <2>6. /\ down' = [down EXCEPT ![fd[c]] = Tail(@)]
        /\ ready' = [ready EXCEPT ![c] =
                       IF Accepted(tab[c], restarted[c], e)
                       THEN Decoded(tab[c], e) ELSE NoEvent]
        /\ restarted' = [restarted EXCEPT ![c] =
                           StillRestarted(tab[c], restarted[c], e)]
        /\ tab' = [tab EXCEPT ![c] = Confirm(tab[c], e)]
        /\ UNCHANGED <<fd, pc, forked, reqno, auth, noexist, wasReset,
                       up, cOpen, sOpen, srv, starting>>
    BY <1>13 DEF FAMPending
  <2> HIDE DEF e
  <2> QED
    BY <1>0, <2>1, <2>2, <2>3, <2>4, <2>5, <2>6
<1>14. CASE LostServer(c)
  BY <1>14 DEF LostServer, sockVars
<1>15. CASE FAMNextEvent(c)
  <2>1. ready[c].seq \in Nat
    BY DEF Events
  <2>2. gamin_data_del_req(tab[c], ready[c].seq) \in Seq(Entries)
    BY <2>1, RemoveAtType DEF gamin_data_del_req
  <2> QED
    BY <1>0, <1>15, <2>2 DEF FAMNextEvent, sockVars
<1> QED
  BY <1>1, <1>2, <1>3, <1>4, <1>5, <1>7, <1>8, <1>9, <1>10, <1>11, <1>12,
     <1>13, <1>14, <1>15 DEF ClientNext

LEMMA EmitType ==
  ASSUME NEW q \in Seq(QueuedEvents), NEW sub \in Subscriptions,
         NEW type \in EventTypes
  PROVE  gam_server_emit_one_event(q, sub, type) \in Seq(QueuedEvents)
<1>1. [type |-> type, seq |-> sub.reqno, path |-> sub.path] \in QueuedEvents
  BY DEF QueuedEvents, Subscriptions
<1> QED
  BY <1>1 DEF gam_server_emit_one_event, gam_eq_queue

LEMMA QueuedAreSent ==
  ASSUME NEW q \in Seq(QueuedEvents)
  PROVE  q \in Seq(Packets)
<1>1. QueuedEvents \subseteq Packets
  BY DEF QueuedEvents, Packets
<1> QED
  BY <1>1, SeqMonotonic

(* Closing a connection, and the end of the process. *)
LEMMA TypeClose ==
  ASSUME TypeOK, NEW s \in Socks, gam_connection_close(s)
  PROVE  SockTypeOK' /\ ServerTypeOK'
<1> USE DEF TypeOK, SockTypeOK, ServerTypeOK, gam_connection_close
<1>1. up' \in [Socks -> Seq(Requests)]
  BY DiscardType
<1>2. subs' \in [Socks -> Seq(Subscriptions)] /\ eq' \in [Socks -> Seq(QueuedEvents)]
  BY DiscardType
<1>3. sOpen' \in [Socks -> BOOLEAN] /\ armed' \in [Socks -> BOOLEAN]
  OBVIOUS
<1>4. idle' \in BOOLEAN
  OBVIOUS
<1>5. cstate' \in [Socks -> {"NONE", "AUTH", "OKAY"}]
  OBVIOUS
<1> QED
  BY <1>1, <1>2, <1>3, <1>4, <1>5

LEMMA TypeEnds ==
  ASSUME TypeOK, ProcessEnds
  PROVE  /\ SockTypeOK'
         /\ cstate' \in [Socks -> {"NONE", "AUTH", "OKAY"}]
         /\ subs' \in [Socks -> Seq(Subscriptions)]
         /\ eq' \in [Socks -> Seq(QueuedEvents)]
         /\ armed' \in [Socks -> BOOLEAN]
         /\ idle' \in BOOLEAN
<1> USE DEF TypeOK, SockTypeOK, ProcessEnds
<1>1. SockTypeOK'
  OBVIOUS
<1>2. armed' \in [Socks -> BOOLEAN] /\ idle' \in BOOLEAN
  OBVIOUS
<1>3. /\ cstate' \in [Socks -> {"NONE", "AUTH", "OKAY"}]
      /\ subs' \in [Socks -> Seq(Subscriptions)]
      /\ eq' \in [Socks -> Seq(QueuedEvents)]
  OBVIOUS
<1> QED
  BY <1>1, <1>2, <1>3

(* A step of the server. *)
LEMMA TypeServer ==
  ASSUME TypeOK, ServerNext
  PROVE  SockTypeOK' /\ ServerTypeOK'
<1> USE DEF TypeOK, SockTypeOK, ServerTypeOK
<1>1. ASSUME NEW s \in Socks, gam_incoming_conn_read(s)
      PROVE  SockTypeOK' /\ ServerTypeOK'
  BY <1>1 DEF gam_incoming_conn_read, sockVars
<1>2. ASSUME NEW s \in Socks, gam_client_conn_check_cred(s)
      PROVE  SockTypeOK' /\ ServerTypeOK'
  <2>1. <<ServerByte>> \in Seq(Packets)
    <3>1. ServerByte \in Packets
      BY DEF ServerByte, Packets
    <3> QED
      BY <3>1
  <2>2. down' \in [Socks -> Seq(Packets)]
    BY <1>2, <2>1, WrittenType DEF gam_client_conn_check_cred
  <2>3. up' \in [Socks -> Seq(Requests)]
    BY <1>2 DEF gam_client_conn_check_cred
  <2> QED
    BY <1>2, <2>2, <2>3 DEF gam_client_conn_check_cred
<1>3. ASSUME NEW s \in Socks,
             gam_client_conn_shutdown(s) \/ CancelUnknown(s)
      PROVE  SockTypeOK' /\ ServerTypeOK'
  BY <1>3, TypeClose DEF gam_client_conn_shutdown, CancelUnknown
<1>4. ASSUME NEW s \in Socks, NEW gevent \in Reports,
             gam_add_subscription(s, gevent)
      PROVE  SockTypeOK' /\ ServerTypeOK'
  <2> DEFINE req == Head(up[s])
  <2>1. req \in Monitors
    <3>1. req \in Requests /\ req.type \in ReqTypes
      BY <1>4 DEF gam_add_subscription, Asked
    <3> QED
      BY <3>1 DEF Requests, ReqTypes
  <2>2. NewSub(req) \in Subscriptions
    <3>1. (req.type = "DIR") \in BOOLEAN
      OBVIOUS
    <3> HIDE DEF req
    <3> QED
      BY <2>1, <3>1 DEF NewSub, Subscriptions, Monitors
  <2>3. up' \in [Socks -> Seq(Requests)]
    BY <1>4 DEF gam_add_subscription, Asked
  <2>4. SockTypeOK'
    BY <1>4, <2>3 DEF gam_add_subscription
  <2>5. CASE req.path \in NonePaths
    BY <1>4, <2>4, <2>5 DEF gam_add_subscription
  <2>6. CASE req.path \notin NonePaths
    <3>1. gevent \in EventTypes /\ "EndExist" \in EventTypes
      BY ReportsAssumption DEF EventTypes
    <3>2. gam_server_emit_one_event(eq[s], NewSub(req), gevent)
            \in Seq(QueuedEvents)
      BY <2>2, <3>1, EmitType
    <3>3. gam_server_emit_one_event(
            gam_server_emit_one_event(eq[s], NewSub(req), gevent),
            NewSub(req), "EndExist") \in Seq(QueuedEvents)
      BY <2>2, <3>1, <3>2, EmitType
    <3>4. eq' \in [Socks -> Seq(QueuedEvents)]
      BY <1>4, <2>6, <3>3 DEF gam_add_subscription,
         gam_inotify_send_initial_events, gam_queue_event
    <3>5. armed' \in [Socks -> BOOLEAN]
      BY <1>4, <2>6 DEF gam_add_subscription,
         gam_inotify_send_initial_events, gam_queue_event
    <3>6. <<NewSub(req)>> \o subs[s] \in Seq(Subscriptions)
      BY <2>2
    <3>7. subs' \in [Socks -> Seq(Subscriptions)]
      BY <1>4, <2>6, <3>6 DEF gam_add_subscription
    <3> QED
      BY <1>4, <2>4, <3>4, <3>5, <3>7 DEF gam_add_subscription
  <2> QED
    BY <2>5, <2>6
<1>5. ASSUME NEW s \in Socks, gam_remove_subscription(s)
      PROVE  SockTypeOK' /\ ServerTypeOK'
  <2> DEFINE r == Head(up[s]).seq
             i == gam_listener_get_subscription_by_reqno(s, r)
             ack == [type |-> "Ack", seq |-> r, path |-> subs[s][i].path]
  <2>1. r \in 0 .. SeqSpan - 1
    <3>1. Head(up[s]) \in Requests
      BY <1>5 DEF gam_remove_subscription, Asked
    <3> QED
      BY <3>1 DEF Requests, Monitors
  <2>2. /\ i \in 1 .. Len(subs[s])
        /\ up' = [up EXCEPT ![s] = Tail(@)]
        /\ up[s] # <<>>
        /\ subs' = [subs EXCEPT ![s] = RemoveAt(@, i)]
        /\ down' = Written(down, cOpen, s, <<ack>>)
        /\ UNCHANGED <<cstate, eq, armed, idle, deaths, cOpen, sOpen, srv, starting>>
    BY <1>5 DEF gam_remove_subscription, Asked
  <2>3. ack \in Packets
    <3> HIDE DEF r, i
    <3>1. subs[s][i] \in Subscriptions
      BY <2>2
    <3> QED
      BY <2>1, <3>1 DEF Packets, Subscriptions
  <2> HIDE DEF r, i, ack
  <2>4. down' \in [Socks -> Seq(Packets)]
    <3>1. <<ack>> \in Seq(Packets)
      BY <2>3
    <3> QED
      BY <2>2, <3>1, WrittenType
  <2>5. RemoveAt(subs[s], i) \in Seq(Subscriptions)
    BY <2>2, RemoveAtType
  <2>6. SockTypeOK'
    <3>1. up' \in [Socks -> Seq(Requests)]
      BY <2>2
    <3> QED
      BY <2>2, <2>4, <3>1
  <2> QED
    BY <2>2, <2>5, <2>6
<1>6. ASSUME NEW s \in Socks, gam_connection_eq_flush(s)
      PROVE  SockTypeOK' /\ ServerTypeOK'
  <2>1. eq[s] \in Seq(Packets)
    BY QueuedAreSent
  <2>2. down' \in [Socks -> Seq(Packets)]
    BY <1>6, <2>1, WrittenType DEF gam_connection_eq_flush
  <2>3. eq' \in [Socks -> Seq(QueuedEvents)]
    BY <1>6, DiscardType DEF gam_connection_eq_flush
  <2>4. armed' \in [Socks -> BOOLEAN]
    BY <1>6 DEF gam_connection_eq_flush
  <2> QED
    BY <1>6, <2>2, <2>3, <2>4 DEF gam_connection_eq_flush
<1>7. ASSUME NEW s \in Socks, NEW i \in 1 .. Len(subs[s]), NEW type \in EmitTypes,
             gam_inotify_event_callback(s, i, type)
      PROVE  SockTypeOK' /\ ServerTypeOK'
  <2>1. subs[s][i] \in Subscriptions /\ type \in EventTypes
    BY EmitTypesAssumption DEF EventTypes
  <2>2. gam_server_emit_one_event(eq[s], subs[s][i], type) \in Seq(QueuedEvents)
    BY <2>1, EmitType
  <2>3. eq' \in [Socks -> Seq(QueuedEvents)]
    BY <1>7, <2>2 DEF gam_inotify_event_callback, gam_queue_event
  <2>4. armed' \in [Socks -> BOOLEAN]
    BY <1>7 DEF gam_inotify_event_callback, gam_queue_event
  <2> QED
    BY <1>7, <2>3, <2>4 DEF gam_inotify_event_callback, sockVars
<1>8. CASE gam_server_init
  <2>1. starting' \in Nat /\ srv' \in {"up", "down"}
    BY <1>8 DEF gam_server_init
  <2>2. idle' \in BOOLEAN
    BY <1>8, UseTimeoutAssumption DEF gam_server_init
  <2> QED
    BY <1>8, <2>1, <2>2 DEF gam_server_init, sockVars, connVars
<1>9. CASE gam_connections_check
  <2>1. CASE Conns = {}
    BY <1>9, <2>1, TypeEnds DEF gam_connections_check
  <2>2. CASE Conns # {}
    BY <1>9, <2>2 DEF gam_connections_check, connVars, sockVars
  <2> QED
    BY <2>1, <2>2
<1>10. CASE gam_exit
  <2>1. deaths' \in Nat
    BY <1>10 DEF gam_exit
  <2> QED
    BY <1>10, <2>1, TypeEnds DEF gam_exit
<1> QED
  BY <1>1, <1>2, <1>3, <1>4, <1>5, <1>6, <1>7, <1>8, <1>9, <1>10
     DEF ServerNext, gam_client_conn_read

(* Every reachable state is well typed; in particular the request numbers  *)
(* of every packet fit the 16 bit field they travel in, and every event    *)
(* handed to the application has a request that owns it.                   *)
THEOREM TypeCorrect == Spec => []TypeOK
<1>1. Init => TypeOK
  BY TypeInit
<1>2. TypeOK /\ [Next]_vars => TypeOK'
  <2> SUFFICES ASSUME TypeOK, [Next]_vars PROVE TypeOK'
    OBVIOUS
  <2>1. CASE ClientStep
    <3>1. PICK c \in Clients : ClientNext(c)
      BY <2>1 DEF ClientStep
    <3>2. ServerTypeOK'
      BY <2>1 DEF ClientStep, serverVars, connVars, TypeOK, ServerTypeOK
    <3> QED
      BY <3>1, <3>2, TypeClient DEF TypeOK
  <2>2. CASE ServerStep
    <3>1. ClientTypeOK'
      BY <2>2 DEF ServerStep, clientVars, dataVars, TypeOK, ClientTypeOK
    <3> QED
      BY <2>2, <3>1, TypeServer DEF TypeOK, ServerStep
  <2>3. CASE UNCHANGED vars
    BY <2>3 DEF vars, sockVars, clientVars, dataVars, serverVars, connVars,
       TypeOK, SockTypeOK, ClientTypeOK, ServerTypeOK
  <2> QED
    BY <2>1, <2>2, <2>3 DEF Next
<1> QED
  BY <1>1, <1>2, PTL DEF Spec

-----------------------------------------------------------------------------
(* No queued event without a timer. *)

(* Emitting changes the queue only of a subscription that wants the event. *)
LEMMA UnwantedEmit ==
  ASSUME NEW q, NEW sub, NEW type, ~gam_subscription_wants_event(sub, type)
  PROVE  gam_server_emit_one_event(q, sub, type) = q
  BY DEF gam_server_emit_one_event

LEMMA EqArmedStep ==
  ASSUME TypeOK, EqArmed, ServerNext
  PROVE  EqArmed'
<1> USE DEF TypeOK, ServerTypeOK, EqArmed
<1>1. ASSUME NEW s \in Socks, gam_incoming_conn_read(s)
      PROVE  EqArmed'
  BY <1>1 DEF gam_incoming_conn_read
<1>2. ASSUME NEW s \in Socks, gam_client_conn_check_cred(s)
      PROVE  EqArmed'
  BY <1>2 DEF gam_client_conn_check_cred
<1>3. ASSUME NEW s \in Socks,
             gam_client_conn_shutdown(s) \/ CancelUnknown(s)
      PROVE  EqArmed'
  BY <1>3 DEF gam_client_conn_shutdown, CancelUnknown, gam_connection_close
<1>4. ASSUME NEW s \in Socks, NEW gevent \in Reports,
             gam_add_subscription(s, gevent)
      PROVE  EqArmed'
  <2> DEFINE sub == NewSub(Head(up[s]))
             q1 == gam_server_emit_one_event(eq[s], sub, gevent)
             q2 == gam_server_emit_one_event(q1, sub, "EndExist")
             w == \E t \in {gevent, "EndExist"} :
                    gam_subscription_wants_event(sub, t)
  <2>1. CASE Head(up[s]).path \in NonePaths
    BY <1>4, <2>1 DEF gam_add_subscription
  <2>2. CASE Head(up[s]).path \notin NonePaths
    <3>1. /\ eq' = [eq EXCEPT ![s] = q2]
          /\ armed' = [armed EXCEPT ![s] = @ \/ w]
      BY <1>4, <2>2 DEF gam_add_subscription,
         gam_inotify_send_initial_events, gam_queue_event
    <3>2. ~w => q2 = eq[s]
      BY UnwantedEmit
    <3> HIDE DEF q2, w
    <3>3. ASSUME NEW x \in Socks, eq'[x] # <<>>
          PROVE  armed'[x]
      <4>1. CASE x = s /\ w
        BY <3>1, <4>1
      <4>2. CASE x = s /\ ~w
        BY <3>1, <3>2, <3>3, <4>2
      <4>3. CASE x # s
        BY <3>1, <3>3, <4>3
      <4> QED
        BY <4>1, <4>2, <4>3
    <3> QED
      BY <3>3
  <2> QED
    BY <2>1, <2>2
<1>5. ASSUME NEW s \in Socks, gam_remove_subscription(s)
      PROVE  EqArmed'
  BY <1>5 DEF gam_remove_subscription
<1>6. ASSUME NEW s \in Socks, gam_connection_eq_flush(s)
      PROVE  EqArmed'
  BY <1>6 DEF gam_connection_eq_flush
<1>7. ASSUME NEW s \in Socks, NEW i \in 1 .. Len(subs[s]), NEW type \in EmitTypes,
             gam_inotify_event_callback(s, i, type)
      PROVE  EqArmed'
  <2> DEFINE q == gam_server_emit_one_event(eq[s], subs[s][i], type)
             w == gam_subscription_wants_event(subs[s][i], type)
  <2>1. /\ eq' = [eq EXCEPT ![s] = q]
        /\ armed' = [armed EXCEPT ![s] = @ \/ w]
    BY <1>7 DEF gam_inotify_event_callback, gam_queue_event
  <2>2. ~w => q = eq[s]
    BY UnwantedEmit
  <2> HIDE DEF q, w
  <2>3. ASSUME NEW x \in Socks, eq'[x] # <<>>
        PROVE  armed'[x]
    <3>1. CASE x = s /\ w
      BY <2>1, <3>1
    <3>2. CASE x = s /\ ~w
      BY <2>1, <2>2, <2>3, <3>2
    <3>3. CASE x # s
      BY <2>1, <2>3, <3>3
    <3> QED
      BY <3>1, <3>2, <3>3
  <2> QED
    BY <2>3
<1>8. CASE gam_server_init
  BY <1>8 DEF gam_server_init, connVars
<1>9. CASE gam_connections_check \/ gam_exit
  BY <1>9 DEF gam_connections_check, gam_exit, ProcessEnds, connVars
<1> QED
  BY <1>1, <1>2, <1>3, <1>4, <1>5, <1>6, <1>7, <1>8, <1>9
     DEF ServerNext, gam_client_conn_read

(* No event is ever left in a queue with no timer to send it: a flush that *)
(* finds nothing removes the timer, and each event queued installs it.     *)
THEOREM EqArmedAlways == Spec => []EqArmed
<1>1. Init => EqArmed
  BY DEF Init, ServerInit, EqArmed
<1>2. TypeOK /\ EqArmed /\ [Next]_vars => EqArmed'
  <2> SUFFICES ASSUME TypeOK, EqArmed, [Next]_vars PROVE EqArmed'
    OBVIOUS
  <2>1. CASE ClientStep
    BY <2>1 DEF ClientStep, serverVars, connVars, EqArmed
  <2>2. CASE ServerStep
    BY <2>2, EqArmedStep DEF ServerStep
  <2>3. CASE UNCHANGED vars
    BY <2>3 DEF vars, serverVars, connVars, EqArmed
  <2> QED
    BY <2>1, <2>2, <2>3 DEF Next
<1> QED
  BY <1>1, <1>2, TypeCorrect, PTL DEF Spec

-----------------------------------------------------------------------------
(* The idle timer. *)

(* IdleTimer alone is not inductive: a server that starts needs to know    *)
(* that no connection is left of the one before it.                        *)
IdleInv == IdleTimer /\ (srv = "down" => Conns = {})

LEMMA IdleStep ==
  ASSUME TypeOK, IdleInv, ServerNext
  PROVE  IdleInv'
<1> USE UseTimeoutAssumption
    DEF TypeOK, SockTypeOK, ServerTypeOK, IdleInv, IdleTimer, Conns
<1>0. UNCHANGED <<cstate, idle, srv>> => IdleInv'
  OBVIOUS
<1>1. ASSUME NEW s \in Socks, gam_incoming_conn_read(s)
      PROVE  IdleInv'
  BY <1>1 DEF gam_incoming_conn_read
<1>2. ASSUME NEW s \in Socks, gam_client_conn_check_cred(s)
      PROVE  IdleInv'
  <2>1. Conns' = Conns /\ UNCHANGED <<idle, srv>>
    BY <1>2 DEF gam_client_conn_check_cred
  <2> QED
    BY <2>1
<1>3. ASSUME NEW s \in Socks,
             gam_client_conn_shutdown(s) \/ CancelUnknown(s)
      PROVE  IdleInv'
  <2>1. s \in Conns /\ gam_connection_close(s)
    BY <1>3 DEF gam_client_conn_shutdown, CancelUnknown, Asked
  <2>2. Conns' = Conns \ {s}
    BY <2>1 DEF gam_connection_close
  <2>3. srv = "up"
    BY <2>1
  <2>4. UseTimeout => ~idle
    BY <2>1, <2>3
  <2>5. UseTimeout => (idle' <=> Conns' = {})
    <3> HIDE DEF Conns
    <3>1. idle' = (idle \/ (UseTimeout /\ Conns = {s}))
      BY <2>1 DEF gam_connection_close
    <3>2. Conns' = {} <=> Conns = {s}
      BY <2>1, <2>2
    <3> QED
      BY <2>4, <3>1, <3>2
  <2>6. srv' = "up"
    BY <2>1, <2>3 DEF gam_connection_close
  <2> QED
    BY <2>5, <2>6
<1>4. ASSUME NEW s \in Socks, NEW gevent \in Reports,
             gam_add_subscription(s, gevent)
      PROVE  IdleInv'
  BY <1>0, <1>4 DEF gam_add_subscription
<1>5. ASSUME NEW s \in Socks,
             gam_remove_subscription(s) \/ gam_connection_eq_flush(s)
      PROVE  IdleInv'
  <2>1. UNCHANGED <<cstate, idle, srv>>
    BY <1>5 DEF gam_remove_subscription, gam_connection_eq_flush
  <2> QED
    BY <1>0, <2>1
<1>6. ASSUME NEW s \in Socks, NEW i \in 1 .. Len(subs[s]), NEW type \in EmitTypes,
             gam_inotify_event_callback(s, i, type)
      PROVE  IdleInv'
  BY <1>0, <1>6 DEF gam_inotify_event_callback
<1>7. CASE gam_server_init
  BY <1>7 DEF gam_server_init, connVars
<1>8. CASE gam_connections_check
  BY <1>8 DEF gam_connections_check, ProcessEnds, connVars
<1>9. CASE gam_exit
  BY <1>9 DEF gam_exit, ProcessEnds
<1> QED
  BY <1>1, <1>2, <1>3, <1>4, <1>5, <1>6, <1>7, <1>8, <1>9
     DEF ServerNext, gam_client_conn_read

(* A listening server started with the idle exit counts its idle time      *)
(* exactly while it has no connection, whatever the order in which clients *)
(* come and go and other servers try to start.                             *)
THEOREM IdleTimerAlways == Spec => []IdleTimer
<1>1. Init => IdleInv
  BY DEF Init, SockInit, ServerInit, IdleInv, IdleTimer, Conns
<1>2. TypeOK /\ IdleInv /\ [Next]_vars => IdleInv'
  <2> SUFFICES ASSUME TypeOK, IdleInv, [Next]_vars PROVE IdleInv'
    OBVIOUS
  <2>1. CASE ClientStep
    <3>1. srv' = srv
      <4>1. PICK c \in Clients : ClientNext(c)
        BY <2>1 DEF ClientStep
      <4>2. ASSUME NEW s \in Socks,
                   gamin_data_new(c, s) \/ gamin_try_reconnect(c, s)
            PROVE  srv' = srv
        BY <4>2 DEF gamin_data_new, gamin_try_reconnect, Connect
      <4>3. ASSUME NEW p, NEW type, NEW r,
                   \/ FAMMonitor(c, p, type)
                   \/ FAMMonitor2(c, p, type, r)
                   \/ FAMCancelMonitor(c, r)
            PROVE  srv' = srv
        BY <4>3 DEF FAMMonitor, FAMMonitor2, FAMCancelMonitor
      <4>4. \/ FAMOpen(c) \/ gamin_fork_server(c) \/ GiveUp(c)
            \/ FAMNoExists(c) \/ FAMClose(c)
            => srv' = srv
        BY DEF FAMOpen, gamin_fork_server, GiveUp, FAMNoExists, FAMClose
      <4>5. \/ gamin_check_cred(c) \/ FAMPending(c) \/ LostServer(c)
            \/ FAMNextEvent(c)
            => srv' = srv
        BY DEF gamin_check_cred, FAMPending, LostServer, FAMNextEvent
      <4> QED
        BY <4>1, <4>2, <4>3, <4>4, <4>5 DEF ClientNext
    <3> QED
      BY <2>1, <3>1 DEF ClientStep, serverVars, connVars, IdleInv, IdleTimer, Conns
  <2>2. CASE ServerStep
    BY <2>2, IdleStep DEF ServerStep
  <2>3. CASE UNCHANGED vars
    BY <2>3 DEF vars, serverVars, connVars, IdleInv, IdleTimer, Conns
  <2> QED
    BY <2>1, <2>2, <2>3 DEF Next
<1>3. IdleInv => IdleTimer
  BY DEF IdleInv
<1> QED
  BY <1>1, <1>2, <1>3, TypeCorrect, PTL DEF Spec
=============================================================================
