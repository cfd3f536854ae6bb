------------------------- MODULE InotifyPathProofs -------------------------
(***************************************************************************)
(* For any tree, any subscriptions and any bounds: the tables of the       *)
(* inotify backend agree and refer to nothing that was freed, the missing  *)
(* list has its timer, and no subscription is lost between the tables and  *)
(* the list.                                                               *)
(***************************************************************************)
EXTENDS InotifyPath, TLAPS

(* The missing list is never left without its scan timer, whatever is      *)
(* added, found or cancelled, by whichever callback.                       *)
THEOREM ScanArmedAlways == Spec => []ScanArmed
<1>1. Init => ScanArmed
  BY DEF Init, ScanArmed
<1>2. ScanArmed /\ [Next]_vars => ScanArmed'
  <2> SUFFICES ASSUME ScanArmed, [Next]_vars PROVE ScanArmed'
    OBVIOUS
  <2>1. ASSUME NEW b \in Subs, NEW ok, Started(b, ok)
        PROVE  ScanArmed'
    BY <2>1 DEF Started, im_add, ScanArmed
  <2>2. UNCHANGED <<missing, scanning>> => ScanArmed'
    BY DEF ScanArmed
  <2>3. ASSUME NEW b \in Subs, ip_start_watching(b) \/ ip_watch_parent(b)
        PROVE  ScanArmed'
    BY <2>1, <2>2, <2>3 DEF ip_start_watching, ip_watch_parent
  <2>4. CASE EventDone
    BY <2>4, <2>2 DEF EventDone, im_add, ScanArmed
  <2>5. CASE ScanDone
    BY <2>5 DEF ScanDone, ScanArmed
  <2>6. CASE AddDone \/ im_scan_missing
    BY <2>2, <2>6 DEF AddDone, im_scan_missing
  <2>7. ASSUME NEW b \in Subs, ih_sub_add(b) \/ ih_sub_cancel(b)
        PROVE  ScanArmed'
    BY <2>7 DEF ih_sub_add, ih_sub_cancel, ScanArmed
  <2>8. ASSUME NEW paired \in BOOLEAN, ip_event_callback(paired)
        PROVE  ScanArmed'
    BY <2>2, <2>8 DEF ip_event_callback
  <2>9. CASE FileSystem
    BY <2>2, <2>9 DEF FileSystem, Create, Delete, Rename, Touch, SwitchRefusal, Unwatched
  <2>10. CASE UNCHANGED vars
    BY <2>2, <2>10 DEF vars
  <2> QED
    BY <2>3, <2>4, <2>5, <2>6, <2>7, <2>8, <2>9, <2>10 DEF Next, CallStep
<1> QED
  BY <1>1, <1>2, PTL DEF Spec

-----------------------------------------------------------------------------
(* What each transformation does to tables that agree. *)

DirRecords ==
  [path : Tree, wd : Wds \cup {NoWd}, subs : SUBSET Subs]

TableType ==
  [watch : [Tree -> Wds \cup {NoWd}], dirs : [Subs -> DirRecords],
   byPath : [Tree -> Subs \cup {NoSub}], dirOf : [Subs -> Subs \cup {NoSub}]]

(* The free object is an object. *)
LEMMA NoDirTyped == NoDir \in DirRecords
  BY TreeAssumption DEF NoDir, DirRecords

(* A record of tables and its fields. *)
LEMMA TableFields ==
  ASSUME NEW t \in TableType
  PROVE  /\ t = [watch |-> t.watch, dirs |-> t.dirs, byPath |-> t.byPath,
                dirOf |-> t.dirOf]
         /\ t.watch \in [Tree -> Wds \cup {NoWd}]
         /\ t.dirs \in [Subs -> DirRecords]
         /\ t.byPath \in [Tree -> Subs \cup {NoSub}]
         /\ t.dirOf \in [Subs -> Subs \cup {NoSub}]
  BY DEF TableType

(* Four tables make a record of tables. *)
LEMMA TableMade ==
  ASSUME NEW w \in [Tree -> Wds \cup {NoWd}],
         NEW d \in [Subs -> DirRecords],
         NEW p \in [Tree -> Subs \cup {NoSub}],
         NEW o \in [Subs -> Subs \cup {NoSub}]
  PROVE  [watch |-> w, dirs |-> d, byPath |-> p, dirOf |-> o] \in TableType
  BY DEF TableType

(* The subscription is detached and the others stay where they are. *)
LEMMA StopTables ==
  ASSUME NEW t \in TableType, NEW b \in Subs, Agree(t),
         NEW u, u = ip_stop_watching(t, b)
  PROVE  /\ u \in TableType
         /\ Agree(u)
         /\ u.dirOf[b] = NoSub
         /\ \A x \in Subs : x # b => u.dirOf[x] = t.dirOf[x]
         /\ \A x \in Subs : u.dirs[x].subs \subseteq t.dirs[x].subs
<1> DEFINE d == t.dirOf[b]
           left == t.dirs[d].subs \ {b}
           O == [t.dirOf EXCEPT ![b] = NoSub]
<1>0. /\ NoSub \notin Subs /\ NoDir \in DirRecords
      /\ d \in Subs \cup {NoSub}
      /\ t.watch \in [Tree -> Wds \cup {NoWd}]
      /\ t.dirs \in [Subs -> DirRecords]
      /\ t.byPath \in [Tree -> Subs \cup {NoSub}]
      /\ t.dirOf \in [Subs -> Subs \cup {NoSub}]
  BY SubAssumption, NoDirTyped, TableFields
<1>1. CASE d = NoSub
  <2>1. u = t
    BY <1>1 DEF ip_stop_watching
  <2> QED
    BY <1>1, <2>1
<1>2. CASE d # NoSub /\ left # {}
  <2> DEFINE D == [t.dirs EXCEPT ![d].subs = left]
  <2>1. d \in Subs
    BY <1>0, <1>2
  <2>2. u = [watch |-> t.watch, dirs |-> D, byPath |-> t.byPath, dirOf |-> O]
    BY <1>2 DEF ip_stop_watching
  <2>3. D \in [Subs -> DirRecords] /\ O \in [Subs -> Subs \cup {NoSub}]
    BY <1>0, <2>1 DEF DirRecords
  <2>4. /\ \A x \in Subs : O[x] = IF x = b THEN NoSub ELSE t.dirOf[x]
        /\ \A x \in Subs : D[x].subs = IF x = d THEN left ELSE t.dirs[x].subs
        /\ \A x \in Subs : D[x].wd = t.dirs[x].wd /\ D[x].path = t.dirs[x].path
    BY <1>0, <2>1 DEF DirRecords
  <2> HIDE DEF D, O
  <2>5. u.dirs = D /\ u.byPath = t.byPath /\ u.dirOf = O
    BY <2>2
  <2>6. u \in TableType
    BY <1>0, <2>2, <2>3, TableMade
  <2>7. \A x, y \in Subs : O[x] = y <=> x \in D[y].subs
    BY <1>0, <1>2, <2>1, <2>4 DEF Agree
  <2>8. \A x \in Subs : D[x].wd # NoWd <=> D[x].subs # {}
    BY <1>0, <1>2, <2>1, <2>4 DEF Agree
  <2>9. \A q \in Tree : t.byPath[q] # NoSub =>
           D[t.byPath[q]].wd # NoWd /\ D[t.byPath[q]].path = q
    BY <1>0, <2>4 DEF Agree
  <2>10. Agree(u)
    BY <2>5, <2>7, <2>8, <2>9 DEF Agree
  <2> QED
    BY <1>0, <2>1, <2>4, <2>5, <2>6, <2>10
<1>3. CASE d # NoSub /\ left = {}
  <2> DEFINE W == ik_ignore(t, t.dirs[d].wd)
             D == [t.dirs EXCEPT ![d] = NoDir]
             P == [t.byPath EXCEPT ![t.dirs[d].path] = NoSub]
  <2>1. d \in Subs /\ t.dirs[d].path \in Tree
    BY <1>0, <1>3 DEF DirRecords
  <2>2. u = [watch |-> W, dirs |-> D, byPath |-> P, dirOf |-> O]
    BY <1>3 DEF ip_stop_watching
  <2>3. /\ W \in [Tree -> Wds \cup {NoWd}]
        /\ D \in [Subs -> DirRecords]
        /\ P \in [Tree -> Subs \cup {NoSub}]
        /\ O \in [Subs -> Subs \cup {NoSub}]
    BY <1>0, <2>1 DEF ik_ignore
  <2>4. /\ \A x \in Subs : O[x] = IF x = b THEN NoSub ELSE t.dirOf[x]
        /\ \A x \in Subs : x # d => D[x] = t.dirs[x]
        /\ D[d].subs = {} /\ D[d].wd = NoWd
        /\ \A q \in Tree :
              P[q] = IF q = t.dirs[d].path THEN NoSub ELSE t.byPath[q]
    BY <1>0, <2>1 DEF NoDir
  <2> HIDE DEF W, D, P, O
  <2>5. u.dirs = D /\ u.byPath = P /\ u.dirOf = O
    BY <2>2
  <2>6. u \in TableType
    BY <2>2, <2>3, TableMade
  <2>7. \A x, y \in Subs : O[x] = y <=> x \in D[y].subs
    BY <1>0, <1>3, <2>1, <2>4 DEF Agree
  <2>8. \A x \in Subs : D[x].wd # NoWd <=> D[x].subs # {}
    BY <1>0, <1>3, <2>1, <2>4 DEF Agree
  <2>9. \A q \in Tree : P[q] # NoSub =>
           D[P[q]].wd # NoWd /\ D[P[q]].path = q
    BY <1>0, <2>1, <2>4 DEF Agree
  <2>10. Agree(u)
    BY <2>5, <2>7, <2>8, <2>9 DEF Agree
  <2> QED
    BY <1>0, <2>1, <2>4, <2>5, <2>6, <2>10
<1> QED
  BY <1>1, <1>2, <1>3

(* A subscription that is on no directory joins the one byPath leads to. *)
LEMMA MapTables ==
  ASSUME NEW t \in TableType, NEW b \in Subs, NEW d \in Subs, Agree(t),
         t.dirOf[b] = NoSub, t.dirs[d].wd # NoWd,
         NEW u, u = ip_map_sub_dir(t, b, d)
  PROVE  /\ u \in TableType
         /\ Agree(u)
         /\ u.dirOf[b] = d
         /\ \A x \in Subs : x # b => u.dirOf[x] = t.dirOf[x]
         /\ \A x \in Subs : u.dirs[x].subs \subseteq t.dirs[x].subs \cup {b}
<1> DEFINE D == [t.dirs EXCEPT ![d].subs = @ \cup {b}]
           O == [t.dirOf EXCEPT ![b] = d]
<1>1. /\ NoSub \notin Subs
      /\ t.watch \in [Tree -> Wds \cup {NoWd}]
      /\ t.dirs \in [Subs -> DirRecords]
      /\ t.byPath \in [Tree -> Subs \cup {NoSub}]
      /\ t.dirOf \in [Subs -> Subs \cup {NoSub}]
  BY SubAssumption, TableFields
<1>2. u = [watch |-> t.watch, dirs |-> D, byPath |-> t.byPath, dirOf |-> O]
  BY DEF ip_map_sub_dir
<1>3. D \in [Subs -> DirRecords] /\ O \in [Subs -> Subs \cup {NoSub}]
  BY <1>1 DEF DirRecords
<1>4. /\ O[b] = d /\ \A x \in Subs : x # b => O[x] = t.dirOf[x]
      /\ D[d].subs = t.dirs[d].subs \cup {b}
      /\ \A x \in Subs : x # d => D[x].subs = t.dirs[x].subs
      /\ \A x \in Subs : D[x].wd = t.dirs[x].wd /\ D[x].path = t.dirs[x].path
  BY <1>1 DEF DirRecords
<1> HIDE DEF D, O
<1>5. u.dirs = D /\ u.byPath = t.byPath /\ u.dirOf = O
  BY <1>2
<1>6. u \in TableType
  BY <1>1, <1>2, <1>3, TableMade
<1>7. \A x, y \in Subs : O[x] = y <=> x \in D[y].subs
  <2>1. \A x, y \in Subs : t.dirOf[x] = y <=> x \in t.dirs[y].subs
    BY DEF Agree
  <2>2. \A y \in Subs : b \notin t.dirs[y].subs
    BY <2>1, <1>1
  <2> QED
    BY <2>1, <2>2, <1>4
<1>8. \A x \in Subs : D[x].wd # NoWd <=> D[x].subs # {}
  <2>1. \A x \in Subs : t.dirs[x].wd # NoWd <=> t.dirs[x].subs # {}
    BY DEF Agree
  <2> QED
    BY <2>1, <1>4
<1>9. \A q \in Tree : t.byPath[q] # NoSub =>
        D[t.byPath[q]].wd # NoWd /\ D[t.byPath[q]].path = q
  <2>1. \A q \in Tree : t.byPath[q] # NoSub =>
          t.dirs[t.byPath[q]].wd # NoWd /\ t.dirs[t.byPath[q]].path = q
    BY DEF Agree
  <2> QED
    BY <2>1, <1>1, <1>4
<1>10. Agree(u)
  BY <1>5, <1>7, <1>8, <1>9 DEF Agree
<1> QED
  BY <1>4, <1>5, <1>6, <1>10

(* It gets an object of its own, whatever object had the path before. *)
LEMMA NewTables ==
  ASSUME NEW t \in TableType, NEW b \in Subs, NEW d \in Subs, NEW p \in Tree,
         NEW w \in Wds, Agree(t), t.dirOf[b] = NoSub, t.dirs[d].wd = NoWd,
         NEW u, u = ip_watched_dir_new(t, p, b, w, d)
  PROVE  /\ u \in TableType
         /\ Agree(u)
         /\ u.dirOf[b] = d
         /\ \A x \in Subs : x # b => u.dirOf[x] = t.dirOf[x]
         /\ \A x \in Subs : u.dirs[x].subs \subseteq t.dirs[x].subs \cup {b}
<1> DEFINE W == [t.watch EXCEPT ![p] = w]
           D == [t.dirs EXCEPT ![d] = [path |-> p, wd |-> w, subs |-> {b}]]
           P == [t.byPath EXCEPT ![p] = d]
           O == [t.dirOf EXCEPT ![b] = d]
<1>1. /\ NoSub \notin Subs /\ w # NoWd
      /\ t.watch \in [Tree -> Wds \cup {NoWd}]
      /\ t.dirs \in [Subs -> DirRecords]
      /\ t.byPath \in [Tree -> Subs \cup {NoSub}]
      /\ t.dirOf \in [Subs -> Subs \cup {NoSub}]
  BY SubAssumption, NoWdAssumption, TableFields DEF Wds
<1>2. u = [watch |-> W, dirs |-> D, byPath |-> P, dirOf |-> O]
  BY DEF ip_watched_dir_new
<1>3. [path |-> p, wd |-> w, subs |-> {b}] \in DirRecords
  BY DEF DirRecords
<1>4. /\ W \in [Tree -> Wds \cup {NoWd}]
      /\ D \in [Subs -> DirRecords]
      /\ P \in [Tree -> Subs \cup {NoSub}]
      /\ O \in [Subs -> Subs \cup {NoSub}]
  BY <1>1, <1>3
<1>5. /\ O[b] = d /\ \A x \in Subs : x # b => O[x] = t.dirOf[x]
      /\ \A x \in Subs : x # d => D[x] = t.dirs[x]
      /\ D[d].subs = {b} /\ D[d].wd = w /\ D[d].path = p
      /\ P[p] = d /\ \A q \in Tree : q # p => P[q] = t.byPath[q]
  BY <1>1
<1> HIDE DEF W, D, P, O
<1>6. u.dirs = D /\ u.byPath = P /\ u.dirOf = O
  BY <1>2
<1>7. u \in TableType
  BY <1>2, <1>4, TableMade
<1>8. t.dirs[d].subs = {}
  BY DEF Agree
<1>9. \A x, y \in Subs : O[x] = y <=> x \in D[y].subs
  BY <1>1, <1>5, <1>8 DEF Agree
<1>10. \A x \in Subs : D[x].wd # NoWd <=> D[x].subs # {}
  <2>1. \A x \in Subs : t.dirs[x].wd # NoWd <=> t.dirs[x].subs # {}
    BY DEF Agree
  <2>2. D[d].wd # NoWd /\ D[d].subs # {}
    BY <1>1, <1>5
  <2>3. \A x \in Subs : x # d => (D[x].wd # NoWd <=> D[x].subs # {})
    BY <2>1, <1>5
  <2> QED
    BY <2>2, <2>3
<1>11. \A q \in Tree : P[q] # NoSub => D[P[q]].wd # NoWd /\ D[P[q]].path = q
  <2>1. \A q \in Tree : t.byPath[q] # NoSub =>
          t.dirs[t.byPath[q]].wd # NoWd /\ t.dirs[t.byPath[q]].path = q
    BY DEF Agree
  <2>2. \A q \in Tree : t.byPath[q] # NoSub => t.byPath[q] # d
    BY <2>1
  <2> QED
    BY <2>1, <2>2, <1>1, <1>5
<1>12. Agree(u)
  BY <1>6, <1>9, <1>10, <1>11 DEF Agree
<1> QED
  BY <1>5, <1>6, <1>7, <1>8, <1>12

(* The end of a directory unmaps exactly the subscriptions of its objects, *)
(* however many objects share its descriptor.                              *)
LEMMA DeleteTables ==
  ASSUME NEW t \in TableType, NEW w, w # NoWd, Agree(t),
         NEW u, u = ip_wd_delete(t, w)
  PROVE  /\ u \in TableType
         /\ Agree(u)
         /\ \A x \in Subs : t.dirOf[x] = NoSub => u.dirOf[x] = NoSub
         /\ \A x, d \in Subs : t.dirs[d].wd = w /\ x \in t.dirs[d].subs
                               => u.dirOf[x] = NoSub
         /\ \A x \in Subs : u.dirOf[x] = NoSub =>
              \/ t.dirOf[x] = NoSub
              \/ \E d \in Subs : t.dirs[d].wd = w /\ x \in t.dirs[d].subs
         /\ \A x \in Subs : u.dirs[x].subs \subseteq t.dirs[x].subs
<1> DEFINE G == {d \in Subs : t.dirs[d].wd = w}
           D == [d \in Subs |-> IF d \in G THEN NoDir ELSE t.dirs[d]]
           P == [p \in Tree |-> IF \E d \in G : t.dirs[d].path = p THEN NoSub
                                ELSE t.byPath[p]]
           O == [b \in Subs |-> IF t.dirOf[b] \in G THEN NoSub ELSE t.dirOf[b]]
<1>1. /\ NoSub \notin Subs /\ NoDir \in DirRecords
      /\ t.watch \in [Tree -> Wds \cup {NoWd}]
      /\ t.dirs \in [Subs -> DirRecords]
      /\ t.byPath \in [Tree -> Subs \cup {NoSub}]
      /\ t.dirOf \in [Subs -> Subs \cup {NoSub}]
  BY SubAssumption, NoDirTyped, TableFields
<1>2. u = [watch |-> t.watch, dirs |-> D, byPath |-> P, dirOf |-> O]
  BY DEF ip_wd_delete
<1>3. /\ D \in [Subs -> DirRecords]
      /\ P \in [Tree -> Subs \cup {NoSub}]
      /\ O \in [Subs -> Subs \cup {NoSub}]
  BY <1>1
<1>4. /\ \A x \in Subs : O[x] = IF t.dirOf[x] \in G THEN NoSub ELSE t.dirOf[x]
      /\ \A x \in Subs : x \notin G => D[x] = t.dirs[x]
      /\ \A x \in G : D[x].subs = {} /\ D[x].wd = NoWd
      /\ \A q \in Tree : P[q] # NoSub =>
            P[q] = t.byPath[q] /\ \A d \in G : t.dirs[d].path # q
  BY <1>1 DEF NoDir
<1>5. \A x \in Subs : x \in G <=> t.dirs[x].wd = w
  OBVIOUS
<1> HIDE DEF G, D, P, O
<1>6. u.dirs = D /\ u.byPath = P /\ u.dirOf = O
  BY <1>2
<1>7. u \in TableType
  BY <1>1, <1>2, <1>3, TableMade
<1>8. \A x, y \in Subs : O[x] = y <=> x \in D[y].subs
  BY <1>1, <1>4, <1>5 DEF Agree
<1>9. \A x \in Subs : D[x].wd # NoWd <=> D[x].subs # {}
  BY <1>1, <1>4, <1>5 DEF Agree
<1>10. \A q \in Tree : P[q] # NoSub => D[P[q]].wd # NoWd /\ D[P[q]].path = q
  BY <1>1, <1>3, <1>4, <1>5 DEF Agree
<1>11. Agree(u)
  BY <1>6, <1>8, <1>9, <1>10 DEF Agree
<1>12. \A x, d \in Subs : t.dirs[d].wd = w /\ x \in t.dirs[d].subs => O[x] = NoSub
  BY <1>1, <1>4, <1>5 DEF Agree
<1>13. \A x \in Subs : D[x].subs \subseteq t.dirs[x].subs
  BY <1>4, <1>5
<1>14. \A x \in Subs : t.dirOf[x] = NoSub => O[x] = NoSub
  BY <1>1, <1>4, <1>5
<1>15. ASSUME NEW x \in Subs, O[x] = NoSub, t.dirOf[x] # NoSub
       PROVE  \E d \in Subs : t.dirs[d].wd = w /\ x \in t.dirs[d].subs
  <2>1. t.dirOf[x] \in Subs /\ t.dirs[t.dirOf[x]].wd = w
    BY <1>1, <1>4, <1>5, <1>15
  <2>2. x \in t.dirs[t.dirOf[x]].subs
    BY <2>1 DEF Agree
  <2> QED
    BY <2>1, <2>2
<1> QED
  BY <1>6, <1>7, <1>11, <1>12, <1>13, <1>14, <1>15

-----------------------------------------------------------------------------
(* The inductive invariant. *)

CallType ==
  call \in [op : {"none", "add", "event", "scan"}, todo : SUBSET Subs,
           climbing : Subs \cup {NoSub}, at : Tree, gone : {call.gone}]

(* What a callback still has to attach is attached nowhere when it comes   *)
(* to it, and nothing on the missing list is attached.                     *)
Detached ==
  /\ \A b \in missing : dirOf[b] = NoSub
  /\ call.op = "none" => call.todo = {}
  /\ call.op = "add" => call.todo \cap subList = {}
  /\ call.op = "scan" => call.todo \subseteq missing
  /\ call.op = "event" => call.todo \cap missing = {}
  /\ call.climbing # NoSub =>
       call.climbing \in call.todo /\ dirOf[call.climbing] = NoSub

IInv ==
  /\ subList \subseteq Subs
  /\ Tables \in TableType
  /\ CallType
  /\ TablesAgree
  /\ NoFreedSub
  /\ Detached

(* The root directory. *)
LEMMA RootInTree == <<>> \in Tree
  BY TreeAssumption

(* The updates of the callback's record. *)
LEMMA CallStarted ==
  ASSUME CallType, NEW b \in Subs,
         call' = [call EXCEPT !.todo = @ \ {b}, !.climbing = NoSub, !.at = <<>>]
  PROVE  /\ CallType'
         /\ call'.op = call.op
         /\ call'.todo = call.todo \ {b}
         /\ call'.climbing = NoSub
  BY RootInTree DEF CallType

(* The climb begins. *)
LEMMA CallClimbs ==
  ASSUME CallType, NEW b \in Subs, NEW p \in Tree,
         call' = [call EXCEPT !.climbing = b, !.at = p]
  PROVE  /\ CallType'
         /\ call'.op = call.op
         /\ call'.todo = call.todo
         /\ call'.climbing = b
  BY DEF CallType

(* The climb goes on. *)
LEMMA CallUp ==
  ASSUME CallType, NEW p \in Tree, call' = [call EXCEPT !.at = p]
  PROVE  /\ CallType'
         /\ call'.op = call.op
         /\ call'.todo = call.todo
         /\ call'.climbing = call.climbing
  BY DEF CallType

(* The callback returns. *)
LEMMA CallIdle ==
  ASSUME call' = Idle
  PROVE  /\ CallType'
         /\ call'.op = "none"
         /\ call'.todo = {}
         /\ call'.climbing = NoSub
  BY RootInTree DEF CallType, Idle

(* A callback begins. *)
LEMMA CallBegins ==
  ASSUME NEW o \in {"add", "event", "scan"}, NEW T \in SUBSET Subs, NEW g,
         \/ call' = [Idle EXCEPT !.op = o, !.todo = T]
         \/ call' = [Idle EXCEPT !.op = o, !.todo = T, !.gone = g]
  PROVE  /\ CallType'
         /\ call'.op = o
         /\ call'.todo = T
         /\ call'.climbing = NoSub
<1>1. CASE call' = [Idle EXCEPT !.op = o, !.todo = T]
  BY <1>1, RootInTree DEF CallType, Idle
<1>2. CASE call' = [Idle EXCEPT !.op = o, !.todo = T, !.gone = g]
  BY <1>2, RootInTree DEF CallType, Idle
<1> QED
  BY <1>1, <1>2

-----------------------------------------------------------------------------
(* One lemma per kind of step. *)

(* The tables of the next state. *)
LEMMA TablesSet ==
  ASSUME NEW u \in TableType, SetTables(u)
  PROVE  Tables' = u
  BY TableFields DEF SetTables, Tables

(* A step that leaves the four variables alone. *)
LEMMA TablesKept ==
  ASSUME UNCHANGED ipVars
  PROVE  Tables' = Tables
  BY DEF ipVars, Tables

(* The fields of the record are the variables. *)
LEMMA TablesProject ==
  /\ Tables.watch = watch /\ Tables.dirs = dirs
  /\ Tables.byPath = byPath /\ Tables.dirOf = dirOf
  BY DEF Tables

(* b is attached or given up, and the tables became u. *)
LEMMA StartedStep ==
  ASSUME IInv, NEW b \in Subs, b \in call.todo, NEW ok \in BOOLEAN,
         Started(b, ok), NEW u \in TableType, SetTables(u), Agree(u),
         ~ok => u.dirOf[b] = NoSub,
         \A x \in Subs : x # b => u.dirOf[x] = dirOf[x],
         \A x \in Subs : u.dirs[x].subs \subseteq dirs[x].subs \cup {b}
  PROVE  IInv'
<1>1. /\ dirs' = u.dirs /\ dirOf' = u.dirOf
      /\ Tables' = u
  BY TablesSet DEF SetTables
<1>2. call' = [call EXCEPT !.todo = @ \ {b}, !.climbing = NoSub, !.at = <<>>]
  BY DEF Started
<1>3. /\ CallType' /\ call'.op = call.op
      /\ call'.todo = call.todo \ {b} /\ call'.climbing = NoSub
  BY <1>2, CallStarted DEF IInv
<1>4. subList' = IF call.op = "add" THEN subList \cup {b} ELSE subList
  BY DEF Started
<1>5. b \in subList'
  BY <1>4 DEF IInv, NoFreedSub
<1>6. subList \subseteq subList' /\ subList' \subseteq Subs
  BY <1>4 DEF IInv
<1>7. \/ call.op = "add" /\ missing' = missing \cup (IF ok THEN {} ELSE {b})
      \/ call.op = "scan" /\ missing' = IF ok THEN missing \ {b} ELSE missing
      \/ call.op = "event" /\ missing' = missing
  BY DEF Started, im_add
<1>8. NoFreedSub'
  <2>1. missing' \subseteq subList'
    BY <1>5, <1>6, <1>7 DEF IInv, NoFreedSub
  <2>2. \A x \in Subs : dirs'[x].subs \subseteq subList'
    BY <1>1, <1>5, <1>6 DEF IInv, NoFreedSub
  <2>3. call'.op # "add" => call'.todo \subseteq subList'
    BY <1>3, <1>6 DEF IInv, NoFreedSub
  <2> QED
    BY <2>1, <2>2, <2>3 DEF NoFreedSub
<1>9. Detached'
  <2>1. missing \subseteq Subs /\ \A x \in missing : dirOf[x] = NoSub
    BY DEF IInv, NoFreedSub, Detached
  <2>2. \A x \in missing' : x # b => x \in missing
    BY <1>7
  <2>3. b \in missing' => ~ok
    BY <1>7 DEF IInv, NoFreedSub, Detached
  <2>4. \A x \in missing' : dirOf'[x] = NoSub
    BY <1>1, <2>1, <2>2, <2>3
  <2>5. call.op # "none"
    BY <1>7
  <2>6. call.op = "add" => (call.todo \ {b}) \cap subList' = {}
    BY <1>4 DEF IInv, Detached
  <2>7. call.op = "scan" => call.todo \ {b} \subseteq missing'
    BY <1>7 DEF IInv, Detached
  <2>8. call.op = "event" => (call.todo \ {b}) \cap missing' = {}
    BY <1>7 DEF IInv, Detached
  <2> QED
    BY <1>3, <2>4, <2>5, <2>6, <2>7, <2>8 DEF Detached
<1> QED
  BY <1>1, <1>3, <1>6, <1>8, <1>9 DEF IInv, TablesAgree

(* The descriptor of a new watch is one. *)
LEMMA WatchTyped ==
  ASSUME NEW t \in TableType, NEW p \in Tree, NEW w \in ik_watch(t, p)
  PROVE  w \in Wds
<1>1. CASE t.watch[p] # NoWd
  BY <1>1, TableFields DEF ik_watch
<1>2. CASE t.watch[p] = NoWd
  <2>1. PICK k \in 1 .. MaxGen : w = <<p, k>>
    BY <1>2 DEF ik_watch
  <2> QED
    BY <2>1 DEF Wds
<1> QED
  BY <1>1, <1>2

(* b, attached nowhere in t, gets a watch of its own on p. *)
LEMMA WatchStep ==
  ASSUME IInv, NEW b \in Subs, b \in call.todo, Started(b, TRUE),
         NEW t \in TableType, Agree(t), t.dirOf[b] = NoSub,
         NEW p \in Tree, WatchFor(t, p, b),
         \A x \in Subs : x # b => t.dirOf[x] = dirOf[x],
         \A x \in Subs : t.dirs[x].subs \subseteq dirs[x].subs
  PROVE  IInv'
<1>1. PICK w \in ik_watch(t, p), d \in Subs :
        t.dirs[d].wd = NoWd /\ SetTables(ip_watched_dir_new(t, p, b, w, d))
  BY DEF WatchFor
<1>2. w \in Wds
  BY WatchTyped
<1> DEFINE u == ip_watched_dir_new(t, p, b, w, d)
<1>3. /\ u \in TableType /\ Agree(u)
      /\ \A x \in Subs : x # b => u.dirOf[x] = t.dirOf[x]
      /\ \A x \in Subs : u.dirs[x].subs \subseteq t.dirs[x].subs \cup {b}
  BY <1>1, <1>2, NewTables
<1>4. SetTables(u)
  BY <1>1
<1> HIDE DEF u
<1>5. /\ \A x \in Subs : x # b => u.dirOf[x] = dirOf[x]
      /\ \A x \in Subs : u.dirs[x].subs \subseteq dirs[x].subs \cup {b}
  BY <1>3
<1>6. TRUE \in BOOLEAN /\ (~TRUE => u.dirOf[b] = NoSub)
  OBVIOUS
<1> QED
  BY <1>3, <1>4, <1>5, <1>6, StartedStep

(* It is attached then. *)
LEMMA WatchAttaches ==
  ASSUME NEW b \in Subs, NEW t \in TableType, Agree(t), t.dirOf[b] = NoSub,
         NEW p \in Tree, WatchFor(t, p, b),
         \A x \in Subs : x # b => t.dirOf[x] = dirOf[x]
  PROVE  /\ dirOf'[b] # NoSub
         /\ \A x \in Subs : x # b => dirOf'[x] = dirOf[x]
<1>1. PICK w \in ik_watch(t, p), d \in Subs :
        t.dirs[d].wd = NoWd /\ SetTables(ip_watched_dir_new(t, p, b, w, d))
  BY DEF WatchFor
<1>2. w \in Wds
  BY WatchTyped
<1> DEFINE u == ip_watched_dir_new(t, p, b, w, d)
<1>3. u.dirOf[b] = d /\ \A x \in Subs : x # b => u.dirOf[x] = t.dirOf[x]
  BY <1>1, <1>2, NewTables
<1>4. dirOf' = u.dirOf
  BY <1>1 DEF SetTables
<1> QED
  BY <1>3, <1>4, SubAssumption

(* What ip_start_watching looks up is free of b: an event took it off its  *)
(* directory, a new or a missing one is on none.                           *)
LEMMA FirstDetached ==
  ASSUME IInv, NEW b \in Subs, b \in call.todo, NEW t,
         t = IF call.op = "event" THEN ip_stop_watching(Tables, b) ELSE Tables
  PROVE  /\ t \in TableType /\ Agree(t) /\ t.dirOf[b] = NoSub
         /\ \A x \in Subs : x # b => t.dirOf[x] = dirOf[x]
         /\ \A x \in Subs : t.dirs[x].subs \subseteq dirs[x].subs
<1>1. Tables \in TableType /\ Agree(Tables)
  BY DEF IInv, TablesAgree
<1>2. CASE call.op = "event"
  BY <1>1, <1>2, StopTables, TablesProject
<1>3. CASE call.op # "event"
  <2>1. t = Tables
    BY <1>3
  <2>2. dirOf \in [Subs -> Subs \cup {NoSub}]
    BY <1>1, TableFields, TablesProject
  <2>3. dirOf[b] = NoSub
    <3>1. CASE call.op = "scan"
      BY <3>1 DEF IInv, Detached
    <3>2. CASE call.op = "add"
      <4>1. b \notin subList
        BY <3>2 DEF IInv, Detached
      <4>2. \A d \in Subs : b \notin dirs[d].subs
        BY <4>1 DEF IInv, NoFreedSub
      <4> QED
        BY <4>2, <1>1, <2>2, TablesProject DEF Agree
    <3> QED
      BY <3>1, <3>2, <1>3 DEF IInv, CallType, Detached
  <2> QED
    BY <1>1, <2>1, <2>3, TablesProject
<1> QED
  BY <1>2, <1>3

(* The lookup and the first attempt to watch. *)
LEMMA StartWatchingStep ==
  ASSUME IInv, NEW b \in Subs, ip_start_watching(b)
  PROVE  IInv'
<1> DEFINE t == IF call.op = "event" THEN ip_stop_watching(Tables, b) ELSE Tables
           p == SubDir[b]
<1>1. p \in Tree /\ NoSub \notin Subs
  BY SubAssumption
<1>2. b \in call.todo /\ call.climbing = NoSub
  BY DEF ip_start_watching
<1>3. \/ t.byPath[p] # NoSub /\ SetTables(ip_map_sub_dir(t, b, t.byPath[p]))
         /\ Started(b, TRUE)
      \/ WatchFor(t, p, b) /\ Started(b, TRUE)
      \/ SetTables(t) /\ Started(b, FALSE)
      \/ /\ SetTables(t) /\ call' = [call EXCEPT !.climbing = b, !.at = p]
         /\ UNCHANGED <<missing, subList>>
  BY DEF ip_start_watching
<1>4. /\ t \in TableType /\ Agree(t) /\ t.dirOf[b] = NoSub
      /\ \A x \in Subs : x # b => t.dirOf[x] = dirOf[x]
      /\ \A x \in Subs : t.dirs[x].subs \subseteq dirs[x].subs
  BY <1>2, FirstDetached
<1> HIDE DEF t, p
<1>5. CASE /\ t.byPath[p] # NoSub /\ SetTables(ip_map_sub_dir(t, b, t.byPath[p]))
           /\ Started(b, TRUE)
  <2> DEFINE d == t.byPath[p]
             u == ip_map_sub_dir(t, b, d)
  <2>1. d \in Subs /\ t.dirs[d].wd # NoWd
    BY <1>1, <1>4, <1>5, TableFields DEF Agree
  <2>2. /\ u \in TableType /\ Agree(u)
        /\ \A x \in Subs : x # b => u.dirOf[x] = t.dirOf[x]
        /\ \A x \in Subs : u.dirs[x].subs \subseteq t.dirs[x].subs \cup {b}
    BY <1>4, <2>1, MapTables
  <2>3. SetTables(u) /\ Started(b, TRUE)
    BY <1>5
  <2> HIDE DEF u
  <2>4. /\ \A x \in Subs : x # b => u.dirOf[x] = dirOf[x]
        /\ \A x \in Subs : u.dirs[x].subs \subseteq dirs[x].subs \cup {b}
    BY <1>4, <2>2
  <2>5. TRUE \in BOOLEAN /\ (~TRUE => u.dirOf[b] = NoSub)
    OBVIOUS
  <2> QED
    BY <1>2, <2>2, <2>3, <2>4, <2>5, StartedStep
<1>6. CASE WatchFor(t, p, b) /\ Started(b, TRUE)
  BY <1>1, <1>2, <1>4, <1>6, WatchStep
<1>7. CASE SetTables(t) /\ Started(b, FALSE)
  <2>1. \A x \in Subs : t.dirs[x].subs \subseteq dirs[x].subs \cup {b}
    BY <1>4
  <2>2. FALSE \in BOOLEAN
    OBVIOUS
  <2> QED
    BY <1>2, <1>4, <1>7, <2>1, <2>2, StartedStep
<1>8. CASE /\ SetTables(t) /\ call' = [call EXCEPT !.climbing = b, !.at = p]
           /\ UNCHANGED <<missing, subList>>
  <2>1. /\ dirs' = t.dirs /\ dirOf' = t.dirOf
        /\ Tables' = t
    BY <1>4, <1>8, TablesSet DEF SetTables
  <2>2. /\ CallType' /\ call'.op = call.op
        /\ call'.todo = call.todo /\ call'.climbing = b
    BY <1>1, <1>8, CallClimbs DEF IInv
  <2>3. NoFreedSub'
    BY <1>4, <1>8, <2>1, <2>2 DEF IInv, NoFreedSub
  <2>4. Detached'
    BY <1>2, <1>4, <1>8, <2>1, <2>2 DEF IInv, NoFreedSub, Detached
  <2> QED
    BY <1>4, <1>8, <2>1, <2>2, <2>3, <2>4 DEF IInv, TablesAgree
<1> QED
  BY <1>3, <1>5, <1>6, <1>7, <1>8

(* A parent of a path of the tree is in the tree. *)
LEMMA UpTyped ==
  ASSUME NEW p \in Tree
  PROVE  Up(p) \in Tree
<1>1. p = <<>> => Len(p) = 0
  OBVIOUS
<1> QED
  BY <1>1, TreeAssumption DEF Up

(* A round of the climb. *)
LEMMA WatchParentStep ==
  ASSUME IInv, NEW b \in Subs, ip_watch_parent(b)
  PROVE  IInv'
<1> DEFINE p == Up(call.at)
<1>1. p \in Tree
  BY UpTyped DEF IInv, CallType
<1>2. call.climbing = b /\ b \in call.todo /\ dirOf[b] = NoSub
  BY DEF ip_watch_parent, IInv, Detached
<1>3. Tables \in TableType /\ Agree(Tables) /\ Tables.dirOf[b] = NoSub
  BY <1>2, TablesProject DEF IInv, TablesAgree
<1>4. \/ WatchFor(Tables, p, b) /\ Started(b, TRUE)
      \/ Started(b, FALSE) /\ UNCHANGED ipVars
      \/ call' = [call EXCEPT !.at = p] /\ UNCHANGED <<ipVars, missing, subList>>
  BY DEF ip_watch_parent
<1> HIDE DEF p
<1>5. CASE WatchFor(Tables, p, b) /\ Started(b, TRUE)
  <2>1. /\ \A x \in Subs : x # b => Tables.dirOf[x] = dirOf[x]
        /\ \A x \in Subs : Tables.dirs[x].subs \subseteq dirs[x].subs
    BY TablesProject
  <2> QED
    BY <1>1, <1>2, <1>3, <1>5, <2>1, WatchStep
<1>6. CASE Started(b, FALSE) /\ UNCHANGED ipVars
  <2>1. SetTables(Tables)
    BY <1>6, TablesProject DEF SetTables, ipVars
  <2>2. /\ \A x \in Subs : x # b => Tables.dirOf[x] = dirOf[x]
        /\ \A x \in Subs : Tables.dirs[x].subs \subseteq dirs[x].subs \cup {b}
        /\ FALSE \in BOOLEAN
    BY TablesProject
  <2> QED
    BY <1>2, <1>3, <1>6, <2>1, <2>2, StartedStep
<1>7. CASE call' = [call EXCEPT !.at = p] /\ UNCHANGED <<ipVars, missing, subList>>
  <2>1. /\ CallType' /\ call'.op = call.op
        /\ call'.todo = call.todo /\ call'.climbing = call.climbing
    BY <1>1, <1>7, CallUp DEF IInv
  <2>2. Tables' = Tables /\ dirs' = dirs /\ dirOf' = dirOf
    BY <1>7, TablesKept DEF ipVars
  <2>3. NoFreedSub'
    BY <1>7, <2>1, <2>2 DEF IInv, NoFreedSub
  <2>4. Detached'
    BY <1>7, <2>1, <2>2 DEF IInv, Detached
  <2> QED
    BY <1>7, <2>1, <2>2, <2>3, <2>4 DEF IInv, TablesAgree
<1> QED
  BY <1>4, <1>5, <1>6, <1>7

(* A callback ends without touching the tables or the missing list. *)
LEMMA ReturnStep ==
  ASSUME IInv, call' = Idle, UNCHANGED <<ipVars, missing, subList>>
  PROVE  IInv'
<1>1. /\ CallType' /\ call'.op = "none"
      /\ call'.todo = {} /\ call'.climbing = NoSub
  BY CallIdle
<1>2. Tables' = Tables /\ dirs' = dirs /\ dirOf' = dirOf
  BY TablesKept DEF ipVars
<1>3. NoFreedSub' /\ Detached'
  BY <1>1, <1>2 DEF IInv, NoFreedSub, Detached
<1> QED
  BY <1>1, <1>2, <1>3 DEF IInv, TablesAgree

(* The end of an event. *)
LEMMA EventDoneStep ==
  ASSUME IInv, EventDone
  PROVE  IInv'
<1> DEFINE M == UNION {dirs[d].subs : d \in {x \in Subs : dirs[x].wd = call.gone}}
           u == ip_wd_delete(Tables, call.gone)
<1>1. CASE call.gone = NoWd
  BY <1>1, ReturnStep DEF EventDone
<1>2. CASE call.gone # NoWd
  <2>1. missing' = missing \cup M /\ SetTables(u) /\ call' = Idle /\ subList' = subList
    BY <1>2 DEF EventDone, im_add
  <2>2. Tables \in TableType /\ Agree(Tables)
    BY DEF IInv, TablesAgree
  <2>3. /\ u \in TableType /\ Agree(u)
        /\ \A x \in Subs : dirOf[x] = NoSub => u.dirOf[x] = NoSub
        /\ \A x, d \in Subs : dirs[d].wd = call.gone /\ x \in dirs[d].subs
                              => u.dirOf[x] = NoSub
        /\ \A x \in Subs : u.dirs[x].subs \subseteq dirs[x].subs
    BY <1>2, <2>2, DeleteTables, TablesProject
  <2> HIDE DEF u
  <2>4. dirs' = u.dirs /\ dirOf' = u.dirOf /\ Tables' = u
    BY <2>1, <2>3, TablesSet DEF SetTables
  <2>5. M \subseteq subList
    BY DEF IInv, NoFreedSub
  <2>6. \A x \in M : dirOf'[x] = NoSub
    <3> SUFFICES ASSUME NEW x \in M PROVE dirOf'[x] = NoSub
      OBVIOUS
    <3>1. PICK d \in Subs : dirs[d].wd = call.gone /\ x \in dirs[d].subs
      OBVIOUS
    <3>2. x \in Subs
      BY <2>5 DEF IInv
    <3> QED
      BY <2>3, <2>4, <3>1, <3>2
  <2> HIDE DEF M
  <2>7. /\ CallType' /\ call'.op = "none"
        /\ call'.todo = {} /\ call'.climbing = NoSub
    BY <2>1, CallIdle
  <2>8. NoFreedSub'
    BY <2>1, <2>3, <2>4, <2>5, <2>7 DEF IInv, NoFreedSub
  <2>9. Detached'
    <3>1. \A x \in missing : x \in Subs /\ dirOf[x] = NoSub
      BY DEF IInv, NoFreedSub, Detached
    <3>2. \A x \in missing' : dirOf'[x] = NoSub
      BY <2>1, <2>3, <2>4, <2>6, <3>1
    <3> QED
      BY <2>7, <3>2 DEF Detached
  <2> QED
    BY <2>1, <2>3, <2>4, <2>7, <2>8, <2>9 DEF IInv, TablesAgree
<1> QED
  BY <1>1, <1>2

(* A callback begins with the subscriptions T to attach. *)
LEMMA BeginStep ==
  ASSUME IInv, NEW o \in {"add", "event", "scan"}, NEW T \in SUBSET Subs, NEW g,
         \/ call' = [Idle EXCEPT !.op = o, !.todo = T]
         \/ call' = [Idle EXCEPT !.op = o, !.todo = T, !.gone = g],
         UNCHANGED <<ipVars, missing, subList>>,
         o = "add" => T \cap subList = {},
         o # "add" => T \subseteq subList,
         o = "scan" => T \subseteq missing,
         o = "event" => T \cap missing = {}
  PROVE  IInv'
<1>1. CallType' /\ call'.op = o /\ call'.todo = T /\ call'.climbing = NoSub
  BY CallBegins
<1>2. Tables' = Tables /\ dirs' = dirs /\ dirOf' = dirOf
  BY TablesKept DEF ipVars
<1>3. NoFreedSub'
  BY <1>1, <1>2 DEF IInv, NoFreedSub
<1>4. Detached'
  BY <1>1, <1>2 DEF IInv, Detached
<1> QED
  BY <1>1, <1>2, <1>3, <1>4 DEF IInv, TablesAgree

(* A subscription is added. *)
LEMMA AddStep ==
  ASSUME IInv, NEW b \in Subs, ih_sub_add(b)
  PROVE  IInv'
<1>1. /\ call' = [Idle EXCEPT !.op = "add", !.todo = {b}]
      /\ UNCHANGED <<ipVars, missing, subList>> /\ b \notin subList
  BY DEF ih_sub_add
<1>2. {b} \in SUBSET Subs /\ {b} \cap subList = {}
  BY <1>1
<1> QED
  BY <1>1, <1>2, BeginStep

(* The timer fires. *)
LEMMA ScanStep ==
  ASSUME IInv, im_scan_missing
  PROVE  IInv'
<1>1. /\ call' = [Idle EXCEPT !.op = "scan", !.todo = missing]
      /\ UNCHANGED <<ipVars, missing, subList>>
  BY DEF im_scan_missing
<1>2. missing \subseteq subList /\ missing \in SUBSET Subs
  BY DEF IInv, NoFreedSub
<1> QED
  BY <1>1, <1>2, BeginStep

(* An event is taken off the queue. *)
LEMMA EventStep ==
  ASSUME IInv, NEW paired, ip_event_callback(paired)
  PROVE  IInv'
<1> DEFINE e == Head(queue)
           T == ToResubscribe(e)
           g == IF e.mask \in {"DELETE_SELF", "MOVE_SELF"} THEN e.wd ELSE NoWd
<1>1. /\ call' = [Idle EXCEPT !.op = "event", !.todo = T, !.gone = g]
      /\ UNCHANGED <<ipVars, missing, subList>>
  BY DEF ip_event_callback
<1>2. \A b \in T : b \in Subs /\ \E d \in Subs : b \in dirs[d].subs
  BY DEF ToResubscribe
<1> HIDE DEF T, g
<1>3. T \subseteq subList
  BY <1>2 DEF IInv, NoFreedSub
<1>4. \A b \in T : dirOf[b] \in Subs
  BY <1>2, TablesProject DEF IInv, TablesAgree, Agree
<1>5. T \cap missing = {}
  BY <1>4, SubAssumption DEF IInv, Detached
<1>6. T \in SUBSET Subs
  BY <1>2
<1> QED
  BY <1>1, <1>3, <1>5, <1>6, BeginStep

(* A subscription is cancelled. *)
LEMMA CancelStep ==
  ASSUME IInv, NEW b \in Subs, ih_sub_cancel(b)
  PROVE  IInv'
<1> DEFINE u == ip_stop_watching(Tables, b)
<1>1. /\ call.op = "none" /\ missing' = missing \ {b} /\ SetTables(u)
      /\ subList' = subList \ {b} /\ call' = call
  BY DEF ih_sub_cancel, Free
<1>2. Tables \in TableType /\ Agree(Tables)
  BY DEF IInv, TablesAgree
<1>3. /\ u \in TableType /\ Agree(u) /\ u.dirOf[b] = NoSub
      /\ \A x \in Subs : x # b => u.dirOf[x] = dirOf[x]
      /\ \A x \in Subs : u.dirs[x].subs \subseteq dirs[x].subs
  BY <1>2, StopTables, TablesProject
<1> HIDE DEF u
<1>4. dirs' = u.dirs /\ dirOf' = u.dirOf /\ Tables' = u
  BY <1>1, <1>3, TablesSet DEF SetTables
<1>5. NoFreedSub'
  <2>1. missing' \subseteq subList'
    BY <1>1 DEF IInv, NoFreedSub
  <2>2. \A d \in Subs : b \notin u.dirs[d].subs
    BY <1>3, SubAssumption DEF Agree
  <2>3. \A d \in Subs : dirs'[d].subs \subseteq subList'
    BY <1>1, <1>3, <1>4, <2>2 DEF IInv, NoFreedSub
  <2>4. call'.todo = {}
    BY <1>1 DEF IInv, Detached
  <2> QED
    BY <2>1, <2>3, <2>4 DEF NoFreedSub
<1>6. Detached'
  <2>1. \A x \in missing' : x \in Subs /\ x # b /\ dirOf[x] = NoSub
    BY <1>1 DEF IInv, NoFreedSub, Detached
  <2>2. \A x \in missing' : dirOf'[x] = NoSub
    BY <1>3, <1>4, <2>1
  <2>3. call'.op = "none" /\ call'.todo = {} /\ call'.climbing = NoSub
    BY <1>1 DEF IInv, Detached
  <2> QED
    BY <2>2, <2>3 DEF Detached
<1>7. CallType'
  BY <1>1 DEF IInv, CallType
<1> QED
  BY <1>1, <1>3, <1>4, <1>5, <1>6, <1>7 DEF IInv, TablesAgree

(* The file system changes nothing but what is there, the kernel's watches *)
(* and the queue.                                                          *)
LEMMA FileSystemStep ==
  ASSUME IInv, UNCHANGED Unwatched, watch' \in [Tree -> Wds \cup {NoWd}]
  PROVE  IInv'
<1>1. UNCHANGED <<dirs, byPath, dirOf, missing, subList, call>>
  BY DEF Unwatched
<1>2. /\ dirs \in [Subs -> DirRecords]
      /\ byPath \in [Tree -> Subs \cup {NoSub}]
      /\ dirOf \in [Subs -> Subs \cup {NoSub}]
  BY TableFields, TablesProject DEF IInv
<1>3. Tables' \in TableType
  BY <1>1, <1>2 DEF Tables, TableType
<1>4. TablesAgree'
  BY <1>1 DEF IInv, TablesAgree, Agree, Tables
<1>5. NoFreedSub'
  BY <1>1 DEF IInv, NoFreedSub
<1>6. Detached'
  BY <1>1 DEF IInv, Detached
<1> QED
  BY <1>1, <1>3, <1>4, <1>5, <1>6 DEF IInv, CallType

(* Every step preserves the invariant. *)
LEMMA Inductive == IInv /\ [Next]_vars => IInv'
<1> SUFFICES ASSUME IInv, [Next]_vars PROVE IInv'
  OBVIOUS
<1>0. watch \in [Tree -> Wds \cup {NoWd}]
  BY TableFields, TablesProject DEF IInv
<1>1. ASSUME NEW b \in Subs, ip_start_watching(b) \/ ip_watch_parent(b)
      PROVE  IInv'
  BY <1>1, StartWatchingStep, WatchParentStep
<1>2. CASE EventDone
  BY <1>2, EventDoneStep
<1>3. CASE ScanDone \/ AddDone
  BY <1>3, ReturnStep DEF ScanDone, AddDone
<1>4. ASSUME NEW b \in Subs, ih_sub_add(b) \/ ih_sub_cancel(b)
      PROVE  IInv'
  BY <1>4, AddStep, CancelStep
<1>5. ASSUME NEW paired \in BOOLEAN, ip_event_callback(paired)
      PROVE  IInv'
  BY <1>5, EventStep
<1>6. CASE im_scan_missing
  BY <1>6, ScanStep
<1>7. CASE FileSystem
  <2>1. ASSUME NEW p \in Tree, NEW k, Create(p, k) PROVE IInv'
    BY <1>0, <2>1, FileSystemStep DEF Create
  <2>2. ASSUME NEW p \in Tree, NEW s, Delete(p, s) PROVE IInv'
    BY <1>0, <2>2, FileSystemStep DEF Delete
  <2>3. ASSUME NEW p \in Tree, NEW q \in Tree, Rename(p, q) PROVE IInv'
    BY <1>0, <2>3, FileSystemStep DEF Rename
  <2>4. ASSUME NEW p \in Tree, Touch(p) PROVE IInv'
    BY <1>0, <2>4, FileSystemStep DEF Touch
  <2>5. ASSUME NEW p \in Tree, SwitchRefusal(p) PROVE IInv'
    BY <1>0, <2>5, FileSystemStep DEF SwitchRefusal
  <2> QED
    BY <1>7, <2>1, <2>2, <2>3, <2>4, <2>5 DEF FileSystem
<1>8. CASE UNCHANGED vars
  BY <1>0, <1>8, FileSystemStep DEF vars, Unwatched, ipVars, fsVars
<1> QED
  BY <1>1, <1>2, <1>3, <1>4, <1>5, <1>6, <1>7, <1>8 DEF Next, CallStep

(* The invariant holds at the start. *)
LEMMA InitiallyIInv == Init => IInv
<1> SUFFICES ASSUME Init PROVE IInv
  OBVIOUS
<1>1. Tables \in TableType
  BY NoDirTyped DEF Init, Tables, TableType
<1>2. CallType
  BY RootInTree DEF Init, CallType, Idle
<1>3. TablesAgree
  BY SubAssumption DEF Init, TablesAgree, Agree, Tables, NoDir
<1>4. NoFreedSub /\ Detached
  BY DEF Init, NoFreedSub, Detached, Idle, NoDir
<1>5. subList \subseteq Subs
  BY DEF Init
<1> QED
  BY <1>1, <1>2, <1>3, <1>4, <1>5 DEF IInv

(* path_dir_hash and sub_dir_hash lead to live directory objects only and  *)
(* agree with the objects' own subscriber lists, through every order of    *)
(* additions, cancellations, events and scans, and whatever the file       *)
(* system does between the system calls of a callback.                     *)
THEOREM TablesAlwaysAgree == Spec => []TablesAgree
<1>1. IInv => TablesAgree
  BY DEF IInv
<1> QED
  BY <1>1, InitiallyIInv, Inductive, PTL DEF Spec

(* The missing list, the directory objects and the callback under way      *)
(* refer to no subscription that _ih_sub_cancel has freed.                 *)
THEOREM NeverFreedSub == Spec => []NoFreedSub
<1>1. IInv => NoFreedSub
  BY DEF IInv
<1> QED
  BY <1>1, InitiallyIInv, Inductive, PTL DEF Spec

-----------------------------------------------------------------------------
(* Every subscription is somewhere: attached, missing, lost, or about to   *)
(* be attached by the event that has just detached it.  A lost one is      *)
(* nowhere else.                                                           *)

Somewhere(b) ==
  \/ dirOf[b] # NoSub
  \/ b \in missing \cup lost
  \/ call.op = "event" /\ b = call.climbing

Held ==
  /\ \A b \in subList : Somewhere(b)
  /\ lost \subseteq subList
  /\ \A b \in lost : dirOf[b] = NoSub /\ b \notin missing /\ b \notin call.todo

(* b was attached, or it was not and is missing or lost from now on.       *)
LEMMA HeldStarted ==
  ASSUME IInv, Held, NEW b \in Subs, NEW ok \in BOOLEAN, Started(b, ok),
         b \in call.todo, ok <=> dirOf'[b] # NoSub,
         call.climbing \in {NoSub, b},
         \A x \in Subs : x # b => dirOf'[x] = dirOf[x]
  PROVE  Held'
<1>1. /\ call'.op = call.op /\ call'.todo = call.todo \ {b}
      /\ call'.climbing = NoSub
  BY CallStarted DEF Started, IInv
<1>2. /\ subList' = IF call.op = "add" THEN subList \cup {b} ELSE subList
      /\ lost' = IF call.op = "event" /\ ~ok THEN lost \cup {b} ELSE lost
  BY DEF Started
<1>3. \/ call.op = "add" /\ missing' = missing \cup (IF ok THEN {} ELSE {b})
      \/ call.op = "scan" /\ missing' = IF ok THEN missing \ {b} ELSE missing
      \/ call.op = "event" /\ missing' = missing
  BY DEF Started, im_add
<1>4. b \notin lost
  BY DEF Held
<1>5. /\ call.op = "add" => b \notin subList
      /\ call.op = "scan" => b \in missing
      /\ call.op = "event" => b \notin missing /\ b \in subList
  BY DEF IInv, Detached, NoFreedSub
<1>6. subList \subseteq subList' /\ subList' \subseteq Subs /\ lost \subseteq Subs
  BY <1>2 DEF IInv, Held
<1>7. ASSUME NEW x \in subList', x # b PROVE Somewhere(x)'
  <2>1. x \in Subs /\ x \in subList /\ x # call.climbing
    BY <1>2, <1>6, <1>7, SubAssumption
  <2>2. dirOf[x] # NoSub \/ x \in missing \cup lost
    BY <2>1 DEF Held, Somewhere
  <2>3. (x \in missing => x \in missing') /\ (x \in lost => x \in lost')
    BY <1>2, <1>3, <1>7
  <2> QED
    BY <1>7, <2>1, <2>2, <2>3 DEF Somewhere
<1>8. Somewhere(b)'
  <2>1. ~ok => b \in missing' \cup lost'
    BY <1>2, <1>3, <1>5
  <2> QED
    BY <2>1 DEF Somewhere
<1>9. lost' \subseteq subList'
  BY <1>2, <1>5, <1>6 DEF Held
<1>10. ASSUME NEW x \in lost'
       PROVE  dirOf'[x] = NoSub /\ x \notin missing' /\ x \notin call'.todo
  <2>1. CASE x = b
    <3>1. call.op = "event" /\ ~ok
      BY <1>2, <1>4, <2>1
    <3> QED
      BY <1>1, <1>3, <1>5, <2>1, <3>1
  <2>2. CASE x # b
    <3>1. x \in lost /\ x \in Subs
      BY <1>2, <1>6, <1>10, <2>2
    <3>2. dirOf[x] = NoSub /\ x \notin missing /\ x \notin call.todo
      BY <3>1 DEF Held
    <3> QED
      BY <1>1, <1>3, <2>2, <3>1, <3>2
  <2> QED
    BY <2>1, <2>2
<1> QED
  BY <1>7, <1>8, <1>9, <1>10 DEF Held

(* The first attempt attaches b, gives it up or climbs for it.             *)
LEMMA HeldStartWatching ==
  ASSUME IInv, Held, NEW b \in Subs, ip_start_watching(b)
  PROVE  Held'
<1> DEFINE t == IF call.op = "event" THEN ip_stop_watching(Tables, b) ELSE Tables
           p == SubDir[b]
<1>1. p \in Tree /\ NoSub \notin Subs
  BY SubAssumption
<1>2. b \in call.todo /\ call.climbing = NoSub
  BY DEF ip_start_watching
<1>3. \/ t.byPath[p] # NoSub /\ SetTables(ip_map_sub_dir(t, b, t.byPath[p]))
         /\ Started(b, TRUE)
      \/ WatchFor(t, p, b) /\ Started(b, TRUE)
      \/ SetTables(t) /\ Started(b, FALSE)
      \/ /\ SetTables(t) /\ call' = [call EXCEPT !.climbing = b, !.at = p]
         /\ UNCHANGED <<missing, subList, lost>>
  BY DEF ip_start_watching
<1>4. /\ t \in TableType /\ Agree(t) /\ t.dirOf[b] = NoSub
      /\ \A x \in Subs : x # b => t.dirOf[x] = dirOf[x]
  BY <1>2, FirstDetached
<1>5. call.op # "event" => t.dirOf = dirOf
  BY TablesProject
<1> HIDE DEF t, p
<1>6. TRUE \in BOOLEAN /\ FALSE \in BOOLEAN
  OBVIOUS
<1>7. CASE /\ t.byPath[p] # NoSub /\ SetTables(ip_map_sub_dir(t, b, t.byPath[p]))
           /\ Started(b, TRUE)
  <2> DEFINE d == t.byPath[p]
             u == ip_map_sub_dir(t, b, d)
  <2>1. d \in Subs /\ t.dirs[d].wd # NoWd
    BY <1>1, <1>4, <1>7, TableFields DEF Agree
  <2>2. u.dirOf[b] = d /\ \A x \in Subs : x # b => u.dirOf[x] = t.dirOf[x]
    BY <1>4, <2>1, MapTables
  <2>3. dirOf' = u.dirOf
    BY <1>7 DEF SetTables
  <2> HIDE DEF u
  <2>4. dirOf'[b] # NoSub /\ \A x \in Subs : x # b => dirOf'[x] = dirOf[x]
    BY <1>1, <1>4, <2>1, <2>2, <2>3
  <2> QED
    BY <1>2, <1>6, <1>7, <2>4, HeldStarted
<1>8. CASE WatchFor(t, p, b) /\ Started(b, TRUE)
  <2>1. /\ dirOf'[b] # NoSub
        /\ \A x \in Subs : x # b => dirOf'[x] = dirOf[x]
    BY <1>1, <1>4, <1>8, WatchAttaches
  <2> QED
    BY <1>2, <1>6, <1>8, <2>1, HeldStarted
<1>9. CASE SetTables(t) /\ Started(b, FALSE)
  <2>1. dirOf'[b] = NoSub /\ \A x \in Subs : x # b => dirOf'[x] = dirOf[x]
    BY <1>4, <1>9 DEF SetTables
  <2> QED
    BY <1>2, <1>6, <1>9, <2>1, HeldStarted
<1>10. CASE /\ SetTables(t) /\ call' = [call EXCEPT !.climbing = b, !.at = p]
            /\ UNCHANGED <<missing, subList, lost>>
  <2>1. call'.op = call.op /\ call'.climbing = b /\ call'.todo = call.todo
    BY <1>1, <1>10, CallClimbs DEF IInv
  <2>2. /\ dirOf' = t.dirOf /\ lost' = lost
        /\ missing' = missing /\ subList' = subList
    BY <1>10 DEF SetTables
  <2>3. ASSUME NEW x \in subList PROVE Somewhere(x)'
    <3>1. x \in Subs /\ x # call.climbing
      BY <1>1, <1>2 DEF IInv
    <3>2. dirOf[x] # NoSub \/ x \in missing \cup lost
      BY <3>1 DEF Held, Somewhere
    <3>3. CASE x # b
      BY <1>4, <2>2, <3>1, <3>2, <3>3 DEF Somewhere
    <3>4. CASE x = b /\ call.op = "event"
      BY <2>1, <3>4 DEF Somewhere
    <3>5. CASE call.op # "event"
      BY <1>5, <2>2, <3>2, <3>5 DEF Somewhere
    <3> QED
      BY <3>3, <3>4, <3>5
  <2>4. ASSUME NEW x \in lost
        PROVE  dirOf'[x] = NoSub /\ x \notin missing /\ x \notin call'.todo
    <3>1. x \in Subs /\ dirOf[x] = NoSub /\ x \notin missing /\ x \notin call.todo
      BY DEF Held, IInv
    <3> QED
      BY <1>2, <1>4, <2>1, <2>2, <3>1
  <2> QED
    BY <2>2, <2>3, <2>4 DEF Held
<1> QED
  BY <1>3, <1>7, <1>8, <1>9, <1>10

(* The climb attaches b, gives it up or goes on.                           *)
LEMMA HeldWatchParent ==
  ASSUME IInv, Held, NEW b \in Subs, ip_watch_parent(b)
  PROVE  Held'
<1> DEFINE p == Up(call.at)
<1>1. p \in Tree
  BY UpTyped DEF IInv, CallType
<1>2. call.climbing = b /\ dirOf[b] = NoSub /\ b \in call.todo
  BY DEF ip_watch_parent, IInv, Detached
<1>3. \/ WatchFor(Tables, p, b) /\ Started(b, TRUE)
      \/ Started(b, FALSE) /\ UNCHANGED ipVars
      \/ /\ call' = [call EXCEPT !.at = p]
         /\ UNCHANGED <<ipVars, missing, subList, lost>>
  BY DEF ip_watch_parent
<1> HIDE DEF p
<1>4. TRUE \in BOOLEAN /\ FALSE \in BOOLEAN
  OBVIOUS
<1>5. CASE WatchFor(Tables, p, b) /\ Started(b, TRUE)
  <2>1. Tables \in TableType /\ Agree(Tables) /\ Tables.dirOf[b] = NoSub
    BY <1>2, TablesProject DEF IInv, TablesAgree
  <2>2. \A x \in Subs : x # b => Tables.dirOf[x] = dirOf[x]
    BY TablesProject
  <2>3. /\ dirOf'[b] # NoSub
        /\ \A x \in Subs : x # b => dirOf'[x] = dirOf[x]
    BY <1>1, <1>5, <2>1, <2>2, WatchAttaches
  <2> QED
    BY <1>2, <1>4, <1>5, <2>3, HeldStarted
<1>6. CASE Started(b, FALSE) /\ UNCHANGED ipVars
  <2>1. dirOf' = dirOf
    BY <1>6 DEF ipVars
  <2> QED
    BY <1>2, <1>4, <1>6, <2>1, HeldStarted
<1>7. CASE /\ call' = [call EXCEPT !.at = p]
           /\ UNCHANGED <<ipVars, missing, subList, lost>>
  <2>1. /\ call'.op = call.op /\ call'.climbing = call.climbing
        /\ call'.todo = call.todo
    BY <1>1, <1>7, CallUp DEF IInv
  <2> QED
    BY <1>7, <2>1 DEF Held, Somewhere, ipVars
<1> QED
  BY <1>3, <1>5, <1>6, <1>7

(* What loses its directory goes to the missing list. *)
LEMMA HeldEventDone ==
  ASSUME IInv, Held, EventDone
  PROVE  Held'
<1>1. subList' = subList /\ lost' = lost /\ call.todo = {} /\ call' = Idle
  BY DEF EventDone
<1>2. \A x \in subList :
        x \in Subs /\ (dirOf[x] # NoSub \/ x \in missing \cup lost)
  BY <1>1, SubAssumption DEF IInv, Detached, Held, Somewhere
<1>3. call'.todo = {}
  BY <1>1 DEF Idle
<1>4. CASE call.gone = NoWd
  <2>1. dirOf' = dirOf /\ missing' = missing
    BY <1>4 DEF EventDone, ipVars
  <2> QED
    BY <1>1, <1>2, <1>3, <2>1 DEF Held, Somewhere
<1>5. CASE call.gone # NoWd
  <2> DEFINE M == UNION {dirs[d].subs : d \in {x \in Subs : dirs[x].wd = call.gone}}
             u == ip_wd_delete(Tables, call.gone)
  <2>1. missing' = missing \cup M /\ dirOf' = u.dirOf
    BY <1>5 DEF EventDone, im_add, SetTables
  <2>2. /\ \A x \in Subs : u.dirOf[x] = NoSub =>
             \/ dirOf[x] = NoSub
             \/ \E d \in Subs : dirs[d].wd = call.gone /\ x \in dirs[d].subs
        /\ \A x \in Subs : dirOf[x] = NoSub => u.dirOf[x] = NoSub
    BY <1>5, DeleteTables, TablesProject DEF IInv, TablesAgree
  <2>3. \A x : (\E d \in Subs : dirs[d].wd = call.gone /\ x \in dirs[d].subs)
                 <=> x \in M
    OBVIOUS
  <2>4. \A x \in Subs : x \in M => dirOf[x] # NoSub
    BY <2>3, SubAssumption, TablesProject DEF IInv, TablesAgree, Agree
  <2> HIDE DEF M, u
  <2>5. \A x \in subList : Somewhere(x)'
    BY <1>1, <1>2, <2>1, <2>2, <2>3 DEF Somewhere
  <2>6. ASSUME NEW x \in lost
        PROVE  dirOf'[x] = NoSub /\ x \notin missing'
    <3>1. x \in Subs /\ dirOf[x] = NoSub /\ x \notin missing
      BY DEF Held, IInv
    <3> QED
      BY <2>1, <2>2, <2>4, <3>1
  <2> QED
    BY <1>1, <1>3, <2>5, <2>6 DEF Held
<1> QED
  BY <1>4, <1>5

(* A step between two callbacks, or the end of one that is not an event.   *)
LEMMA HeldElsewhere ==
  ASSUME IInv, Held, call.op # "event",
         subList' \subseteq subList, lost' = lost \cap subList',
         missing' = missing \cap subList',
         \A x \in subList' : dirOf'[x] = dirOf[x],
         call'.todo \cap lost' = {}
  PROVE  Held'
<1>1. \A x \in subList' : Somewhere(x)'
  BY DEF Held, Somewhere
<1>2. lost' \subseteq subList'
  OBVIOUS
<1>3. \A x \in lost' : dirOf'[x] = NoSub /\ x \notin missing' /\ x \notin call'.todo
  BY DEF Held
<1> QED
  BY <1>1, <1>2, <1>3 DEF Held

(* A cancelled subscription is nowhere and not asked for. *)
LEMMA HeldCancel ==
  ASSUME IInv, Held, NEW b \in Subs, ih_sub_cancel(b)
  PROVE  Held'
<1> DEFINE u == ip_stop_watching(Tables, b)
<1>1. /\ call.op = "none" /\ missing' = missing \ {b} /\ SetTables(u)
      /\ subList' = subList \ {b} /\ lost' = lost \ {b} /\ call' = call
  BY DEF ih_sub_cancel, Free
<1>2. \A x \in Subs : x # b => u.dirOf[x] = dirOf[x]
  BY StopTables, TablesProject DEF IInv, TablesAgree
<1>3. dirOf' = u.dirOf
  BY <1>1 DEF SetTables
<1> HIDE DEF u
<1>4. \A x \in subList' : dirOf'[x] = dirOf[x]
  BY <1>1, <1>2, <1>3 DEF IInv
<1>5. missing' = missing \cap subList' /\ lost' = lost \cap subList'
  BY <1>1 DEF IInv, NoFreedSub, Held
<1>6. call'.todo = {}
  BY <1>1 DEF IInv, Detached
<1> QED
  BY <1>1, <1>4, <1>5, <1>6, HeldElsewhere

(* A callback begins or ends: what it will start to watch is not lost.     *)
LEMMA HeldCall ==
  ASSUME IInv, Held, call.op # "event",
         UNCHANGED <<ipVars, missing, subList, lost>>,
         call'.todo \cap lost = {}
  PROVE  Held'
<1>1. missing' = missing \cap subList' /\ lost' = lost \cap subList'
  BY DEF IInv, NoFreedSub, Held
<1>2. \A x \in subList' : dirOf'[x] = dirOf[x]
  BY DEF ipVars
<1> QED
  BY <1>1, <1>2, HeldElsewhere

(* Between the additions and removals of the server nothing moves.         *)
LEMMA HeldFileSystem ==
  ASSUME Held, UNCHANGED Unwatched
  PROVE  Held'
  BY DEF Held, Somewhere, Unwatched

(* Every step leaves each subscription somewhere. *)
LEMMA HeldStep == IInv /\ Held /\ [Next]_vars => Held'
<1> SUFFICES ASSUME IInv, Held, [Next]_vars PROVE Held'
  OBVIOUS
<1>1. ASSUME NEW b \in Subs, ip_start_watching(b) \/ ip_watch_parent(b)
      PROVE  Held'
  BY <1>1, HeldStartWatching, HeldWatchParent
<1>2. CASE EventDone
  BY <1>2, HeldEventDone
<1>3. CASE ScanDone \/ AddDone
  <2>1. call'.todo = {} /\ call.op # "event"
    BY <1>3 DEF ScanDone, AddDone, Idle
  <2>2. UNCHANGED <<ipVars, missing, subList, lost>>
    BY <1>3 DEF ScanDone, AddDone
  <2> QED
    BY <2>1, <2>2, HeldCall
<1>4. ASSUME NEW b \in Subs, ih_sub_add(b) PROVE Held'
  <2>1. call'.todo = {b} /\ call.op # "event" /\ b \notin lost
    BY <1>4 DEF ih_sub_add, Free, Idle, Held
  <2>2. UNCHANGED <<ipVars, missing, subList, lost>>
    BY <1>4 DEF ih_sub_add
  <2> QED
    BY <2>1, <2>2, HeldCall
<1>5. ASSUME NEW b \in Subs, ih_sub_cancel(b) PROVE Held'
  BY <1>5, HeldCancel
<1>6. ASSUME NEW paired \in BOOLEAN, ip_event_callback(paired)
      PROVE  Held'
  <2> DEFINE T == ToResubscribe(Head(queue))
  <2>1. T \in SUBSET Subs /\ \A x \in T : \E d \in Subs : x \in dirs[d].subs
    BY DEF ToResubscribe
  <2>2. \A x \in T : dirOf[x] # NoSub
    BY <2>1, SubAssumption, TablesProject DEF IInv, TablesAgree, Agree
  <2>3. call'.todo = T
    BY <1>6 DEF ip_event_callback, Idle
  <2> HIDE DEF T
  <2>4. call'.todo \cap lost = {}
    BY <2>2, <2>3 DEF Held
  <2>5. call.op # "event" /\ UNCHANGED <<ipVars, missing, subList, lost>>
    BY <1>6 DEF ip_event_callback, Free
  <2> QED
    BY <2>4, <2>5, HeldCall
<1>7. CASE im_scan_missing
  <2>1. call'.todo = missing /\ call.op # "event"
    BY <1>7 DEF im_scan_missing, Free, Idle
  <2>2. UNCHANGED <<ipVars, missing, subList, lost>>
    BY <1>7 DEF im_scan_missing
  <2>3. missing \cap lost = {}
    BY DEF Held
  <2> QED
    BY <2>1, <2>2, <2>3, HeldCall
<1>8. CASE FileSystem
  <2>1. UNCHANGED Unwatched
    BY <1>8 DEF FileSystem, Create, Delete, Rename, Touch, SwitchRefusal
  <2> QED
    BY <2>1, HeldFileSystem
<1>9. CASE UNCHANGED vars
  BY <1>9, HeldFileSystem DEF vars, ipVars, Unwatched
<1> QED
  BY <1>1, <1>2, <1>3, <1>4, <1>5, <1>6, <1>7, <1>8, <1>9 DEF Next, CallStep

(* "Each subscription is attached to a watched directory or it is on the   *)
(* missing list", and never both, whenever the main loop is reached, with  *)
(* one exception and no other: those whose watch was refused, whatever the *)
(* reason, while an event was handled are on neither.                      *)
THEOREM AlwaysPlaced == Spec => []Placed
<1>1. Init => Held
  BY DEF Init, Held
<1>2. IInv /\ Held => Placed
  <2> SUFFICES ASSUME IInv, Held, Free, NEW b \in subList
               PROVE  \/ dirOf[b] # NoSub /\ b \notin missing \cup lost
                      \/ dirOf[b] = NoSub /\ (b \in missing <=> b \notin lost)
    BY DEF Placed
  <2>1. dirOf[b] # NoSub \/ b \in missing \cup lost
    BY DEF Held, Somewhere, Free
  <2>2. b \in missing => dirOf[b] = NoSub
    BY DEF IInv, Detached
  <2>3. b \in lost => dirOf[b] = NoSub /\ b \notin missing
    BY DEF Held
  <2> QED
    BY <2>1, <2>2, <2>3
<1> QED
  BY <1>1, <1>2, InitiallyIInv, Inductive, HeldStep, PTL DEF Spec
=============================================================================
