--------------------------- MODULE DnotifyProofs ---------------------------
(***************************************************************************)
(* Theorems about Dnotify, for every tree of paths, every set of           *)
(* subscriptions and every limit: the types, that the tables of            *)
(* gam_dnotify.c agree with the kernel, that no freed node is referred to, *)
(* that the timer knows what only it can find, and that the nodes are a    *)
(* cache of the file system (module Monitor).                              *)
(***************************************************************************)
EXTENDS Dnotify, PollTreeProofs, FiniteSetTheorems

USE PathTypes

-----------------------------------------------------------------------------
(* The table of gam_dnotify.c. *)

Good(t) == TableType(t) /\ Consistent(t)

(* Where no directory is named by two entries and every descriptor is      *)
(* accounted for, the parts make a good table. *)
LEMMA GoodTable ==
  ASSUME NEW ref \in [Nodes -> Nat], NEW fd \in [Nodes -> Fds \cup {-1}], NEW bz \in [Nodes -> Nat],
         NEW owner \in [Fds -> Nodes \cup {None}], NEW open \in [Fds -> Nodes \cup {None, Dead}],
         \A x \in Fds : owner[x] = None => open[x] = None,
         \A x \in Fds : owner[x] # None => open[x] \in {owner[x], Dead},
         \A x \in Fds : \A k \in Nodes : owner[x] = k <=> fd[k] = x,
         \A k \in Nodes : ref[k] = 0 => fd[k] = -1 /\ bz[k] = 0,
         \A k \in Nodes : bz[k] > 0 => fd[k] = -1
  PROVE  Good(Table(ref, fd, bz, owner, open))
  BY DEF Good, TableType, Consistent, Table

(* The same read the other way, for the parts of a good table. *)
LEMMA PartsOfGood ==
  ASSUME NEW t, Good(t)
  PROVE  /\ t.ref \in [Nodes -> Nat] /\ t.fd \in [Nodes -> Fds \cup {-1}] /\ t.busy \in [Nodes -> Nat]
         /\ t.owner \in [Fds -> Nodes \cup {None}] /\ t.open \in [Fds -> Nodes \cup {None, Dead}]
         /\ \A x \in Fds : t.owner[x] = None => t.open[x] = None
         /\ \A x \in Fds : t.owner[x] # None => t.open[x] \in {t.owner[x], Dead}
         /\ \A x \in Fds : \A k \in Nodes : t.owner[x] = k <=> t.fd[k] = x
         /\ \A k \in Nodes : t.ref[k] = 0 => t.fd[k] = -1 /\ t.busy[k] = 0
         /\ \A k \in Nodes : t.busy[k] > 0 => t.fd[k] = -1
  BY DEF Good, TableType, Consistent

(* -1 is no descriptor. *)
LEMMA NoFd == -1 \notin Fds /\ None \notin Nodes /\ Dead \notin Nodes /\ None # Dead
  BY FdShape DEF Nodes

LEMMA EmptyGood == Good(EmptyTable)
  BY NoFd, GoodTable DEF EmptyTable

LEMMA CountedGood ==
  ASSUME NEW t, Good(t), NEW k \in Nodes, NEW n \in Nat, n > 0 \/ (t.fd[k] = -1 /\ t.busy[k] = 0)
  PROVE  Good(Counted(t, k, n))
<1>1. [t.ref EXCEPT ![k] = n] \in [Nodes -> Nat]
  BY PartsOfGood
<1>2. \A j \in Nodes : [t.ref EXCEPT ![k] = n][j] = 0 => t.fd[j] = -1 /\ t.busy[j] = 0
  BY PartsOfGood
<1> QED
  BY <1>1, <1>2, PartsOfGood, GoodTable DEF Counted

LEMMA SuspendedGood ==
  ASSUME NEW t, Good(t), NEW k \in Nodes, NEW n \in Nat,
         n = 0 \/ (t.fd[k] = -1 /\ t.ref[k] > 0)
  PROVE  Good(Suspended(t, k, n))
<1> DEFINE bz == [t.busy EXCEPT ![k] = n]
<1>1. bz \in [Nodes -> Nat]
  BY PartsOfGood
<1>2. \A j \in Nodes : t.ref[j] = 0 => t.fd[j] = -1 /\ bz[j] = 0
  BY PartsOfGood
<1>3. \A j \in Nodes : bz[j] > 0 => t.fd[j] = -1
  BY PartsOfGood
<1>4. Suspended(t, k, n) = Table(t.ref, t.fd, bz, t.owner, t.open)
  BY DEF Suspended
<1> HIDE DEF bz
<1>5. /\ t.ref \in [Nodes -> Nat] /\ t.fd \in [Nodes -> Fds \cup {-1}] /\ t.busy \in [Nodes -> Nat]
      /\ t.owner \in [Fds -> Nodes \cup {None}] /\ t.open \in [Fds -> Nodes \cup {None, Dead}]
      /\ \A x \in Fds : t.owner[x] = None => t.open[x] = None
      /\ \A x \in Fds : t.owner[x] # None => t.open[x] \in {t.owner[x], Dead}
      /\ \A x \in Fds : \A j \in Nodes : t.owner[x] = j <=> t.fd[j] = x
  BY PartsOfGood
<1>6. Good(Table(t.ref, t.fd, bz, t.owner, t.open))
  BY <1>1, <1>2, <1>3, <1>5, GoodTable
<1> QED
  BY <1>4, <1>6

LEMMA ClosedGood ==
  ASSUME NEW t, Good(t), NEW k \in Nodes
  PROVE  /\ Good(Closed(t, k)) /\ Closed(t, k).fd[k] = -1
         /\ Closed(t, k).ref = t.ref /\ Closed(t, k).busy = t.busy
<1>1. CASE t.fd[k] = -1
  BY <1>1 DEF Closed
<1>2. CASE t.fd[k] # -1
  <2>x. PICK x \in Fds : x = t.fd[k]
    BY <1>2, PartsOfGood
  <2> DEFINE fd    == [t.fd EXCEPT ![k] = -1]
             owner == [t.owner EXCEPT ![x] = None]
             open  == [t.open EXCEPT ![x] = None]
  <2>1. Closed(t, k) = Table(t.ref, fd, t.busy, owner, open)
    BY <1>2, <2>x DEF Closed
  <2>2. /\ fd \in [Nodes -> Fds \cup {-1}] /\ owner \in [Fds -> Nodes \cup {None}]
        /\ open \in [Fds -> Nodes \cup {None, Dead}]
    BY PartsOfGood
  <2>3. /\ \A y \in Fds : owner[y] = None => open[y] = None
        /\ \A y \in Fds : owner[y] # None => open[y] \in {owner[y], Dead}
    BY PartsOfGood
  <2>4. \A y \in Fds : \A j \in Nodes : owner[y] = j <=> fd[j] = y
    BY <2>x, PartsOfGood, NoFd
  <2>5. /\ \A j \in Nodes : t.ref[j] = 0 => fd[j] = -1 /\ t.busy[j] = 0
        /\ \A j \in Nodes : t.busy[j] > 0 => fd[j] = -1
    BY PartsOfGood
  <2>6. fd[k] = -1
    BY PartsOfGood
  <2> HIDE DEF fd, owner, open
  <2>7. Good(Table(t.ref, fd, t.busy, owner, open))
    BY <2>2, <2>3, <2>4, <2>5, PartsOfGood, GoodTable
  <2> QED
    BY <2>1, <2>6, <2>7 DEF Table
<1> QED
  BY <1>1, <1>2

(* Opening the descriptor of an entry that is in use, or about to be. *)
LEMMA OpenedGood ==
  ASSUME NEW t, Good(t), NEW k \in Nodes, NEW files, CanOpen(t, k, files),
         t.fd[k] = -1, t.busy[k] = 0, NEW n \in Nat \ {0}
  PROVE  Good(Counted(Opened(t, k, files), k, n))
<1>1. PICK x \in Free(t) : x = CHOOSE y \in Free(t) : TRUE
  BY DEF CanOpen
<1>2. x \in Fds /\ t.open[x] = None /\ t.owner[x] = None
  <2>1. x \in Fds /\ t.open[x] = None
    BY <1>1 DEF Free
  <2>2. t.owner[x] # None => t.owner[x] \in Nodes /\ t.open[x] \in {t.owner[x], Dead}
    BY <2>1, PartsOfGood
  <2> QED
    BY <2>1, <2>2, NoFd
<1>o. PICK o \in {k, Dead} : o = IF k = Root \/ files[k] = "dir" THEN k ELSE Dead
  OBVIOUS
<1> DEFINE ref   == [t.ref EXCEPT ![k] = n]
           fd    == [t.fd EXCEPT ![k] = x]
           owner == [t.owner EXCEPT ![x] = k]
           open  == [t.open EXCEPT ![x] = o]
<1>3. Counted(Opened(t, k, files), k, n) = Table(ref, fd, t.busy, owner, open)
  BY <1>1, <1>o DEF Counted, Opened, Table
<1>4. /\ ref \in [Nodes -> Nat] /\ fd \in [Nodes -> Fds \cup {-1}]
      /\ owner \in [Fds -> Nodes \cup {None}] /\ open \in [Fds -> Nodes \cup {None, Dead}]
  BY <1>2, PartsOfGood
<1>5. /\ \A y \in Fds : owner[y] = None => open[y] = None
      /\ \A y \in Fds : owner[y] # None => open[y] \in {owner[y], Dead}
  BY <1>2, PartsOfGood, NoFd
<1>6. \A y \in Fds : \A j \in Nodes : owner[y] = j <=> fd[j] = y
  BY <1>2, PartsOfGood, NoFd
<1>7. /\ \A j \in Nodes : ref[j] = 0 => fd[j] = -1 /\ t.busy[j] = 0
      /\ \A j \in Nodes : t.busy[j] > 0 => fd[j] = -1
  BY PartsOfGood
<1> HIDE DEF ref, fd, owner, open
<1>8. t.busy \in [Nodes -> Nat]
  BY PartsOfGood
<1>9. Good(Table(ref, fd, t.busy, owner, open))
  BY <1>4, <1>5, <1>6, <1>7, <1>8, GoodTable
<1> QED
  BY <1>3, <1>9

LEMMA ActivateGood ==
  ASSUME NEW t, Good(t), NEW k \in Nodes, NEW n \in Nat, NEW files
  PROVE  Good(Activate(t, k, n, files))
<1>0. t.ref[k] \in Nat /\ (t.ref[k] = 0 => t.fd[k] = -1 /\ t.busy[k] = 0)
  BY PartsOfGood
<1>1. CASE n = 0
  BY <1>1 DEF Activate
<1>2. CASE n > 0 /\ t.ref[k] > 0
  <2>1. Activate(t, k, n, files) = Counted(t, k, t.ref[k] + n)
    BY <1>0, <1>2 DEF Activate
  <2>2. t.ref[k] + n \in Nat /\ t.ref[k] + n > 0
    BY <1>0, <1>2
  <2> QED
    BY <2>1, <2>2, CountedGood
<1>3. CASE n > 0 /\ t.ref[k] = 0 /\ CanOpen(t, k, files)
  <2>1. Activate(t, k, n, files) = Counted(Opened(t, k, files), k, n)
    BY <1>0, <1>3 DEF Activate
  <2>2. n \in Nat \ {0}
    BY <1>3
  <2> QED
    BY <1>0, <1>3, <2>1, <2>2, OpenedGood
<1>4. CASE n > 0 /\ t.ref[k] = 0 /\ ~CanOpen(t, k, files)
  BY <1>0, <1>4 DEF Activate
<1> QED
  BY <1>0, <1>1, <1>2, <1>3, <1>4

LEMMA DeactivateGood ==
  ASSUME NEW t, Good(t), NEW k \in Nodes, NEW n \in Nat
  PROVE  Good(Deactivate(t, k, n))
<1>0. t.ref[k] \in Nat
  BY PartsOfGood
<1>1. CASE t.ref[k] > n
  <2>1. Deactivate(t, k, n) = Counted(t, k, t.ref[k] - n)
    BY <1>0, <1>1 DEF Deactivate
  <2>2. t.ref[k] - n \in Nat /\ t.ref[k] - n > 0
    BY <1>0, <1>1
  <2> QED
    BY <2>1, <2>2, CountedGood
<1>2. CASE t.ref[k] \in 1 .. n
  <2> DEFINE c  == Closed(t, k)
             c0 == Suspended(c, k, 0)
  <2>1. Good(c) /\ c.fd[k] = -1
    BY ClosedGood
  <2> HIDE DEF c
  <2>2. Good(c0)
    BY <2>1, SuspendedGood
  <2>3. c0.fd[k] = -1 /\ c0.busy[k] = 0
    BY <2>1, PartsOfGood DEF Suspended, Table
  <2>4. Deactivate(t, k, n) = Counted(c0, k, 0)
    <3>1. Deactivate(t, k, n) = Suspended(Counted(c, k, 0), k, 0)
      BY <1>0, <1>2 DEF Deactivate, c
    <3> QED
      BY <3>1 DEF Suspended, Counted, Table
  <2> HIDE DEF c0
  <2> QED
    BY <2>2, <2>3, <2>4, CountedGood
<1>3. CASE t.ref[k] = 0
  BY <1>0, <1>3 DEF Deactivate
<1> QED
  BY <1>0, <1>1, <1>2, <1>3

LEMMA FlowStartGood ==
  ASSUME NEW t, Good(t), NEW k \in Nodes
  PROVE  Good(FlowStart(t, k))
<1>0. t.ref[k] \in Nat /\ t.busy[k] \in Nat
  BY PartsOfGood
<1>1. CASE t.ref[k] = 0
  BY <1>1 DEF FlowStart
<1>2. CASE t.ref[k] # 0
  <2> DEFINE c == Closed(t, k)
  <2>1. Good(c) /\ c.fd[k] = -1 /\ c.ref = t.ref
    BY ClosedGood
  <2>2. FlowStart(t, k) = Suspended(c, k, t.busy[k] + 1)
    BY <1>2 DEF FlowStart
  <2> HIDE DEF c
  <2>3. c.ref[k] > 0
    BY <1>0, <1>2, <2>1
  <2>4. t.busy[k] + 1 \in Nat
    BY <1>0
  <2> QED
    BY <2>1, <2>2, <2>3, <2>4, SuspendedGood
<1> QED
  BY <1>1, <1>2

LEMMA FlowStopGood ==
  ASSUME NEW t, Good(t), NEW k \in Nodes, NEW files
  PROVE  Good(FlowStop(t, k, files))
<1>0. t.ref[k] \in Nat /\ t.busy[k] \in Nat /\ (t.busy[k] > 0 => t.fd[k] = -1)
  BY PartsOfGood
<1>1. CASE t.ref[k] = 0 \/ t.busy[k] = 0
  BY <1>1 DEF FlowStop
<1>2. CASE t.ref[k] > 0 /\ t.busy[k] > 1
  <2>1. FlowStop(t, k, files) = Suspended(t, k, t.busy[k] - 1)
    BY <1>0, <1>2 DEF FlowStop
  <2>2. t.busy[k] - 1 \in Nat
    BY <1>0, <1>2
  <2> QED
    BY <1>0, <1>2, <2>1, <2>2, SuspendedGood
<1>3. CASE t.ref[k] > 0 /\ t.busy[k] = 1
  <2> DEFINE u == Suspended(t, k, 0)
  <2>1. Good(u)
    BY SuspendedGood
  <2>2. u.fd = t.fd /\ u.ref = t.ref /\ u.open = t.open /\ u.busy[k] = 0
    BY PartsOfGood DEF Suspended, Table
  <2>3. CASE CanOpen(t, k, files)
    <3>1. FlowStop(t, k, files) = Opened(u, k, files)
      BY <1>0, <1>3, <2>3 DEF FlowStop
    <3>2. CanOpen(u, k, files)
      BY <2>2, <2>3 DEF CanOpen, Free
    <3> HIDE DEF u
    <3>3. Good(Counted(Opened(u, k, files), k, t.ref[k]))
      BY <1>0, <1>3, <2>1, <2>2, <3>2, OpenedGood
    <3>4. Counted(Opened(u, k, files), k, t.ref[k]) = Opened(u, k, files)
      <4>1. [u.ref EXCEPT ![k] = t.ref[k]] = u.ref
        BY <2>2, PartsOfGood
      <4> QED
        BY <4>1 DEF Counted, Opened, Table
    <3> QED
      BY <3>1, <3>3, <3>4
  <2>4. CASE ~CanOpen(t, k, files)
    <3>1. FlowStop(t, k, files) = u
      BY <1>0, <1>3, <2>4 DEF FlowStop
    <3> QED
      BY <2>1, <3>1
  <2> QED
    BY <2>3, <2>4
<1> QED
  BY <1>0, <1>1, <1>2, <1>3

LEMMA RemovesGood ==
  ASSUME NEW t, Good(t), NEW lost \in SUBSET Paths
  PROVE  Good(Removes(t, lost))
<1> DEFINE open == [x \in Fds |-> IF t.open[x] \in lost THEN Dead ELSE t.open[x]]
<1>0. lost \subseteq Nodes
  BY DEF Nodes
<1>1. open \in [Fds -> Nodes \cup {None, Dead}]
  BY PartsOfGood
<1>2. /\ \A x \in Fds : t.owner[x] = None => open[x] = None
      /\ \A x \in Fds : t.owner[x] # None => open[x] \in {t.owner[x], Dead}
  BY <1>0, PartsOfGood, NoFd
<1>3. Removes(t, lost) = Table(t.ref, t.fd, t.busy, t.owner, open)
  BY DEF Removes
<1> HIDE DEF open
<1>4. /\ t.ref \in [Nodes -> Nat] /\ t.fd \in [Nodes -> Fds \cup {-1}] /\ t.busy \in [Nodes -> Nat]
      /\ t.owner \in [Fds -> Nodes \cup {None}]
      /\ \A x \in Fds : \A j \in Nodes : t.owner[x] = j <=> t.fd[j] = x
      /\ \A j \in Nodes : t.ref[j] = 0 => t.fd[j] = -1 /\ t.busy[j] = 0
      /\ \A j \in Nodes : t.busy[j] > 0 => t.fd[j] = -1
  BY PartsOfGood
<1>5. Good(Table(t.ref, t.fd, t.busy, t.owner, open))
  BY <1>1, <1>2, <1>4, GoodTable
<1> QED
  BY <1>3, <1>5

-----------------------------------------------------------------------------
(* A poll. *)

(* TypeOK, one conjunct for each variable; the root is a directory, and    *)
(* the table is good, which its type depends on. *)
Types ==
  /\ fs \in [Paths -> Kinds] /\ isDir \in [Nodes -> BOOLEAN] /\ isDir[Root]
  /\ subs \in [Paths -> SUBSET Subs] /\ flags \in [Nodes -> SUBSET Flags]
  /\ checks \in [Paths -> Nat]
  /\ tree \in SUBSET Paths /\ polled \in SUBSET Paths /\ today \in SUBSET Paths
  /\ waiting \in SUBSET Paths /\ missing \in SUBSET Paths
  /\ kids \in SUBSET Paths /\ new \in SUBSET Paths
  /\ busy \in SUBSET Nodes /\ left \in SUBSET Nodes
  /\ Good(dn) /\ queue \in SUBSET Fds
  /\ pc \in {"idle", "walk", "pipe", "dir", "kids", "after"}
  /\ walk \in {"missing", "busy", "pipe"}
  /\ idx \in Nat /\ cur \in Nodes /\ (pc = "dir" => cur # Root)

(* MON_MISSING is set by a poll. *)
Flagged == \A p \in Paths : "MISSING" \in flags[p] => p \in polled

(* What a poll of p leaves behind. *)
Outcome(p) ==
  /\ isDir' \in [Nodes -> BOOLEAN] /\ isDir'[Root]
  /\ flags' \in [Nodes -> SUBSET Flags]
  /\ polled' = polled \cup {p} /\ today' \subseteq today \cup {p} /\ waiting' \subseteq waiting \cup {p}
  /\ checks' \in [Paths -> Nat]
  /\ busy' \subseteq busy \cup {p, Parent[p]}
  /\ Good(dn')
  /\ \A q \in Paths : q # p => ("MISSING" \in flags'[q] <=> "MISSING" \in flags[q])
  /\ \/ p \in polled /\ ("MISSING" \in flags'[p] <=> "MISSING" \in flags[p])
     \/ "MISSING" \in flags'[p] <=> fs[p] = "none"

LEMMA TargetType ==
  ASSUME NEW p \in Nodes, NEW dir, p = Root => dir
  PROVE  Target(p, dir) \in Nodes
  BY DEF Target, Nodes

LEMMA CountType ==
  ASSUME NEW S \in SUBSET Subs
  PROVE  Cardinality(S) \in Nat
  BY DnotifySets, FS_Subset, FS_CardinalityType

LEMMA FirstPollOutcome ==
  ASSUME Types, Flagged, NEW p \in Paths, p \notin polled,
         NEW kd \in [Nodes -> BOOLEAN], kd[Root], NEW t, Good(t), FirstPoll(p, kd, t)
  PROVE  Outcome(p)
<1>1. p \in Nodes /\ p # Root /\ Paths \subseteq Nodes
  BY DEF Nodes
<1>2. isDir' \in [Nodes -> BOOLEAN] /\ isDir'[Root]
  BY <1>1 DEF FirstPoll, NodeKind, Nodes
<1>3. flags' = [flags EXCEPT ![p] = @ \cup FirstFlags(p)]
  BY DEF FirstPoll
<1>4. FirstFlags(p) \in SUBSET Flags /\ ("MISSING" \in FirstFlags(p) <=> fs[p] = "none")
  BY DEF FirstFlags, Flags
<1>5. flags' \in [Nodes -> SUBSET Flags]
  BY <1>3, <1>4 DEF Types
<1>6. \A q \in Paths : q # p => flags'[q] = flags[q]
  BY <1>1, <1>3 DEF Types
<1>7. "MISSING" \in flags'[p] <=> fs[p] = "none"
  <2>1. flags'[p] = flags[p] \cup FirstFlags(p) /\ "MISSING" \notin flags[p]
    BY <1>1, <1>3 DEF Types, Flagged
  <2> QED
    BY <1>4, <2>1
<1> QED
  BY <1>2, <1>5, <1>6, <1>7 DEF FirstPoll, Outcome, Types

(* The flags of an old node after a poll. *)
LEMMA FlagsAfterPoll ==
  ASSUME Types, NEW p \in Paths, NEW changed
  PROVE  LET ev == Event(p, changed)
             fl == FlagsAfter(p, ev)
         IN  /\ fl \in SUBSET Flags
             /\ \/ "MISSING" \in fl <=> "MISSING" \in flags[p]
                \/ "MISSING" \in fl <=> fs[p] = "none"
<1> DEFINE ev == Event(p, changed)
           fl == FlagsAfter(p, ev)
<1>0. flags[p] \in SUBSET Flags
  BY DEF Types, Nodes
<1>1. CASE fs[p] = "none" /\ "MISSING" \notin flags[p] /\ ~NotDir(fs, p)
  <2>1. ev = "Deleted"
    BY <1>1 DEF Event
  <2>2. fl = {"MISSING"}
    BY <2>1 DEF FlagsAfter
  <2> QED
    BY <1>1, <2>2 DEF Flags
<1>2. CASE fs[p] # "none" /\ "MISSING" \in flags[p]
  <2>1. ev = "Created"
    BY <1>2 DEF Event
  <2>2. fl = flags[p] \ {"MISSING"}
    BY <2>1 DEF FlagsAfter
  <2> QED
    BY <1>0, <1>2, <2>2
<1>3. CASE /\ ~(fs[p] = "none" /\ "MISSING" \notin flags[p] /\ ~NotDir(fs, p))
           /\ ~(fs[p] # "none" /\ "MISSING" \in flags[p])
  <2>1. ev \notin {"Deleted", "Created"}
    BY <1>3 DEF Event
  <2>2. fl = flags[p]
    BY <2>1 DEF FlagsAfter
  <2> QED
    BY <1>0, <2>2
<1> QED
  BY <1>1, <1>2, <1>3

LEMMA ChecksType ==
  ASSUME Types, NEW p \in Paths, NEW fl, NEW ev, NEW hot
  PROVE  ChecksAfter(p, fl, ev, hot) \in Nat
<1>1. checks[p] \in Nat /\ Cap(checks[p] + 1) \in Nat
  BY DnotifySets DEF Types, Cap
<1> QED
  BY <1>1 DEF ChecksAfter

LEMMA DelistedGood ==
  ASSUME Types, NEW p \in Paths, NEW ev, NEW kd, NEW sb \in [Paths -> SUBSET Subs], NEW t, Good(t)
  PROVE  Good(Delisted(p, ev, kd, sb, t))
<1>1. p \in Nodes /\ p # Root
  BY DEF Nodes
<1>2. Target(p, kd[p]) \in Nodes /\ Cardinality(sb[p]) \in Nat
  BY <1>1, TargetType, CountType
<1> QED
  BY <1>2, DeactivateGood DEF Delisted

(* Flow control changes MON_BUSY of the node and of its parent, and one    *)
(* watch. *)
LEMMA FlowOutcome ==
  ASSUME Types, NEW p \in Paths, NEW fl \in SUBSET Flags, NEW dir, NEW sb,
         NEW bz \in SUBSET busy, NEW t, Good(t),
         StartsPolling(p, fl, dir, sb, bz, t) \/ StopsPolling(p, fl, dir, bz, t)
  PROVE  /\ flags' \in [Nodes -> SUBSET Flags]
         /\ busy' \subseteq busy \cup {p, Parent[p]}
         /\ Good(dn')
         /\ \A q \in Paths : q # p => ("MISSING" \in flags'[q] <=> "MISSING" \in flags[q])
         /\ "MISSING" \in flags'[p] <=> "MISSING" \in fl
<1>0. p \in Nodes /\ p # Root /\ Parent[p] \in Nodes /\ Paths \subseteq Nodes
  BY DEF Nodes
<1>p. Parent[p] # p
  BY TreeShape
<1>t. Target(p, dir) \in Nodes
  BY <1>0, TargetType
<1>f. flags[Parent[p]] \in SUBSET Flags /\ flags[Parent[p]] \cup {"BUSY"} \in SUBSET Flags
  BY <1>0 DEF Types, Flags
<1>1. CASE StartsPolling(p, fl, dir, sb, bz, t)
  <2>1. Good(dn')
    BY <1>1, <1>t, FlowStartGood DEF StartsPolling
  <2>2. busy' \subseteq busy \cup {p, Parent[p]}
    BY <1>1 DEF StartsPolling
  <2>3. flags' = [q \in Nodes |-> CASE q = p                   -> fl \cup {"BUSY"}
                                    [] q = Parent[p] /\ ~dir   -> flags[Parent[p]] \cup {"BUSY"}
                                    [] OTHER                   -> flags[q]]
    BY <1>1 DEF StartsPolling
  <2>4. ASSUME NEW q \in Nodes
        PROVE  /\ flags'[q] \in SUBSET Flags
               /\ q # p => ("MISSING" \in flags'[q] <=> "MISSING" \in flags[q])
               /\ q = p => ("MISSING" \in flags'[q] <=> "MISSING" \in fl)
    <3>1. CASE q = p
      <4>1. flags'[q] = fl \cup {"BUSY"}
        BY <1>p, <2>3, <3>1
      <4> QED
        BY <3>1, <4>1 DEF Flags
    <3>2. CASE q # p /\ q = Parent[p] /\ ~dir
      <4>1. flags'[q] = flags[q] \cup {"BUSY"}
        BY <2>3, <3>2
      <4> QED
        BY <1>f, <3>2, <4>1
    <3>3. CASE q # p /\ ~(q = Parent[p] /\ ~dir)
      <4>1. flags'[q] = flags[q]
        BY <2>3, <3>3
      <4> QED
        BY <3>3, <4>1 DEF Types
    <3> QED
      BY <3>1, <3>2, <3>3
  <2>5. flags' \in [Nodes -> SUBSET Flags]
    <3>1. flags' = [q \in Nodes |-> flags'[q]]
      BY <2>3
    <3> QED
      BY <2>4, <3>1
  <2> QED
    BY <1>0, <2>1, <2>2, <2>4, <2>5
<1>2. CASE StopsPolling(p, fl, dir, bz, t)
  <2>1. Good(dn')
    BY <1>2, <1>t, FlowStopGood DEF StopsPolling
  <2>2. busy' \subseteq busy \cup {p, Parent[p]}
    BY <1>2 DEF StopsPolling
  <2>3. flags' = [q \in Nodes |-> CASE q = p                   -> fl \ {"BUSY"}
                                    [] q = Parent[p] /\ ~dir   -> flags[Parent[p]] \ {"BUSY"}
                                    [] OTHER                   -> flags[q]]
    BY <1>2 DEF StopsPolling
  <2>4. ASSUME NEW q \in Nodes
        PROVE  /\ flags'[q] \in SUBSET Flags
               /\ q # p => ("MISSING" \in flags'[q] <=> "MISSING" \in flags[q])
               /\ q = p => ("MISSING" \in flags'[q] <=> "MISSING" \in fl)
    <3>1. CASE q = p
      <4>1. flags'[q] = fl \ {"BUSY"}
        BY <1>p, <2>3, <3>1
      <4> QED
        BY <3>1, <4>1
    <3>2. CASE q # p /\ q = Parent[p] /\ ~dir
      <4>1. flags'[q] = flags[q] \ {"BUSY"}
        BY <2>3, <3>2
      <4> QED
        BY <1>f, <3>2, <4>1
    <3>3. CASE q # p /\ ~(q = Parent[p] /\ ~dir)
      <4>1. flags'[q] = flags[q]
        BY <2>3, <3>3
      <4> QED
        BY <3>3, <4>1 DEF Types
    <3> QED
      BY <3>1, <3>2, <3>3
  <2>5. flags' \in [Nodes -> SUBSET Flags]
    <3>1. flags' = [q \in Nodes |-> flags'[q]]
      BY <2>3
    <3> QED
      BY <2>4, <3>1
  <2> QED
    BY <1>0, <2>1, <2>2, <2>4, <2>5
<1> QED
  BY <1>1, <1>2

LEMMA LaterPollOutcome ==
  ASSUME Types, NEW p \in Paths, p \in polled,
         NEW kd \in [Nodes -> BOOLEAN], kd[Root], NEW sb \in [Paths -> SUBSET Subs],
         NEW t, Good(t), NEW changed, NEW hot, LaterPoll(p, kd, sb, t, changed, hot)
  PROVE  Outcome(p)
<1>0. p \in Nodes /\ p # Root /\ Paths \subseteq Nodes
  BY DEF Nodes
<1>e. PICK ev : ev = Event(p, changed)
  OBVIOUS
<1>f. PICK fl \in SUBSET Flags : fl = FlagsAfter(p, ev)
  BY <1>e, FlagsAfterPoll
<1>g. \/ "MISSING" \in fl <=> "MISSING" \in flags[p]
      \/ "MISSING" \in fl <=> fs[p] = "none"
  BY <1>e, <1>f, FlagsAfterPoll
<1>d. PICK dir \in BOOLEAN : dir = NodeKind(fs, p, kd[p])
  BY <1>0 DEF NodeKind
<1>b. PICK bz \in SUBSET busy : bz = IF ev = "Deleted" THEN busy \ {p} ELSE busy
  OBVIOUS
<1>t. PICK tab : tab = Delisted(p, ev, kd, sb, t)
  OBVIOUS
<1>u. Good(tab)
  BY <1>t, DelistedGood
<1>n. PICK n \in Nat : n = ChecksAfter(p, fl, ev, hot)
  BY ChecksType
<1> DEFINE free  == sb[p] # {} /\ p \notin NoKernel
           start == free /\ n >= BusyAt /\ "BUSY" \notin fl
           stop  == free /\ n > QuietAt /\ "BUSY" \in fl /\ ev = "none"
<1>1. /\ isDir' = [kd EXCEPT ![p] = dir] /\ polled' = polled
      /\ \/ /\ "NOKERNEL" \in fl
            /\ flags' = [flags EXCEPT ![p] = fl] /\ busy' = bz /\ dn' = tab
            /\ UNCHANGED <<today, waiting, checks>>
         \/ /\ "NOKERNEL" \notin fl
            /\ today' = today \cup {p} /\ waiting' = waiting \cup ({p} \cap Slow)
            /\ checks' = [checks EXCEPT ![p] = IF start \/ stop THEN 0 ELSE n]
            /\ CASE start -> StartsPolling(p, fl, dir, sb, bz, tab)
                 [] stop  -> StopsPolling(p, fl, dir, bz, tab)
                 [] OTHER -> flags' = [flags EXCEPT ![p] = fl] /\ busy' = bz /\ dn' = tab
  BY <1>e, <1>f, <1>d, <1>b, <1>t, <1>n DEF LaterPoll
<1>2. \/ StartsPolling(p, fl, dir, sb, bz, tab)
      \/ StopsPolling(p, fl, dir, bz, tab)
      \/ flags' = [flags EXCEPT ![p] = fl] /\ busy' = bz /\ dn' = tab
  BY <1>1
<1> HIDE DEF start, stop
<1>3. isDir' \in [Nodes -> BOOLEAN] /\ isDir'[Root]
  BY <1>0, <1>1 DEF Nodes
<1>4. today' \subseteq today \cup {p} /\ waiting' \subseteq waiting \cup {p}
  BY <1>1
<1>5. checks' \in [Paths -> Nat]
  BY <1>1 DEF Types
<1>6. /\ flags' \in [Nodes -> SUBSET Flags]
      /\ busy' \subseteq busy \cup {p, Parent[p]}
      /\ Good(dn')
      /\ \A q \in Paths : q # p => ("MISSING" \in flags'[q] <=> "MISSING" \in flags[q])
      /\ "MISSING" \in flags'[p] <=> "MISSING" \in fl
  <2>1. CASE StartsPolling(p, fl, dir, sb, bz, tab) \/ StopsPolling(p, fl, dir, bz, tab)
    BY <1>u, <2>1, FlowOutcome
  <2>2. CASE flags' = [flags EXCEPT ![p] = fl] /\ busy' = bz /\ dn' = tab
    BY <1>0, <1>u, <2>2 DEF Types
  <2> QED
    BY <1>2, <2>1, <2>2
<1> QED
  BY <1>1, <1>3, <1>4, <1>5, <1>6, <1>g DEF Outcome

LEMMA PollsOutcome ==
  ASSUME Types, Flagged, NEW p \in Paths,
         NEW kd \in [Nodes -> BOOLEAN], kd[Root], NEW sb \in [Paths -> SUBSET Subs],
         NEW t, Good(t), Polls(p, kd, sb, t)
  PROVE  Outcome(p)
<1>1. CASE /\ Throttled(p) /\ isDir' = kd /\ dn' = t
           /\ UNCHANGED <<flags, polled, today, waiting, checks, busy>>
  BY <1>1 DEF Throttled, Outcome, Types
<1>2. CASE p \notin polled /\ FirstPoll(p, kd, t)
  BY <1>2, FirstPollOutcome
<1>3. CASE p \in polled /\ \E changed, hot \in BOOLEAN : LaterPoll(p, kd, sb, t, changed, hot)
  BY <1>3, LaterPollOutcome
<1> QED
  BY <1>1, <1>2, <1>3 DEF Polls

(* A poll in a scan also keeps the missing list. *)
LEMMA PollInScanOutcome ==
  ASSUME Types, Flagged, NEW p \in Paths, PollInScan(p)
  PROVE  /\ Outcome(p)
         /\ missing \subseteq missing' /\ missing' \subseteq missing \cup {p}
         /\ subs[p] # {} /\ p \in polled /\ "MISSING" \notin flags[p] /\ "MISSING" \in flags'[p]
              => p \in missing'
<1>1. Outcome(p)
  <2>1. Polls(p, isDir, subs, dn)
    BY DEF PollInScan
  <2> QED
    BY <2>1, PollsOutcome DEF Types
<1> QED
  BY <1>1 DEF PollInScan

-----------------------------------------------------------------------------
(* The nodes the server refers to. *)

(* The inductive invariant under NoDanglingNode and Listed: besides them,  *)
(* what the variables of a callback hold where they are not in use, and    *)
(* that a node with a subscription was polled. *)
Held ==
  /\ RootedTree(tree)
  /\ missing \subseteq tree /\ polled \subseteq tree /\ kids \subseteq tree
  /\ busy \subseteq tree \cup {Root} /\ left \subseteq tree \cup {Root} /\ cur \in tree \cup {Root}
  /\ Flagged
  /\ \A p \in Paths : subs[p] # {} => p \in polled
  /\ new \subseteq kids /\ \A p \in new : subs[p] = {}
  /\ pc \in {"idle", "walk", "pipe"} => cur = Root
  /\ pc # "kids" => kids = {}
  /\ pc \in {"idle", "pipe"} \/ walk = "pipe" => left = {}
  /\ pc \in {"idle", "walk"} => walk # "pipe"
  /\ pc = "pipe" => walk = "pipe"
  /\ Listed

(* A poll of a node in the tree keeps what is said of the flags and lists. *)
LEMMA PollKeeps ==
  ASSUME Types, Held, NEW p \in tree, PollInScan(p)
  PROVE  /\ isDir' \in [Nodes -> BOOLEAN] /\ isDir'[Root]
         /\ flags' \in [Nodes -> SUBSET Flags] /\ checks' \in [Paths -> Nat]
         /\ polled' = polled \cup {p} /\ today' \in SUBSET Paths /\ waiting' \in SUBSET Paths
         /\ missing' \subseteq tree /\ busy' \subseteq tree \cup {Root} /\ Good(dn')
         /\ subs' = subs => Flagged' /\ Listed'
<1>0. p \in Paths /\ Flagged
  BY DEF Types, Held
<1>1. /\ Outcome(p)
      /\ missing \subseteq missing' /\ missing' \subseteq missing \cup {p}
      /\ subs[p] # {} /\ p \in polled /\ "MISSING" \notin flags[p] /\ "MISSING" \in flags'[p]
           => p \in missing'
  BY <1>0, PollInScanOutcome
<1>2. Parent[p] \in tree \cup {Root}
  BY <1>0, TreeShape DEF Held, RootedTree
<1>3. busy' \subseteq tree \cup {Root} /\ missing' \subseteq tree
  BY <1>1, <1>2 DEF Outcome, Held
<1>4. Flagged'
  BY <1>0, <1>1 DEF Outcome, Flagged
<1>5. ASSUME subs' = subs
      PROVE  Listed'
  <2> SUFFICES ASSUME NEW q \in Paths, subs[q] # {}, "MISSING" \in flags'[q] \/ q \in NoKernel
               PROVE  q \in missing'
    BY <1>5 DEF Listed
  <2>1. CASE q \in NoKernel \/ "MISSING" \in flags[q]
    BY <1>1, <2>1 DEF Held, Listed
  <2>2. CASE "MISSING" \in flags'[q] /\ "MISSING" \notin flags[q]
    <3>1. q = p
      BY <1>1, <2>2 DEF Outcome
    <3> QED
      BY <1>1, <2>2, <3>1 DEF Held
  <2> QED
    BY <2>1, <2>2
<1> QED
  BY <1>0, <1>1, <1>3, <1>4, <1>5 DEF Outcome, Types

LEMMA VisitInv ==
  ASSUME Types, Held, NEW n \in Nodes, Visit(n)
  PROVE  Types' /\ Held'
<1>0. n \in tree \cup {Root} /\ pc = "walk" /\ kids = {} /\ new = {}
  BY DEF Visit, Held
<1>1. /\ cur' = n /\ idx' = idx + 1 /\ left' = left \ {n}
      /\ UNCHANGED <<fs, tree, subs, queue, walk, new>>
  BY DEF Visit
<1>2. CASE /\ n \in Paths /\ PollInScan(n)
           /\ pc' \in {"after", "dir"} /\ kids' = kids
  <2>1. n \in tree
    BY <1>0, <1>2
  <2>2. /\ isDir' \in [Nodes -> BOOLEAN] /\ isDir'[Root]
        /\ flags' \in [Nodes -> SUBSET Flags] /\ checks' \in [Paths -> Nat]
        /\ polled' = polled \cup {n} /\ today' \in SUBSET Paths /\ waiting' \in SUBSET Paths
        /\ missing' \subseteq tree /\ busy' \subseteq tree \cup {Root} /\ Good(dn')
        /\ Flagged' /\ Listed'
    BY <1>1, <1>2, <2>1, PollKeeps
  <2>3. Types'
    BY <1>0, <1>1, <1>2, <2>2 DEF Types, Nodes
  <2>4. Held'
    BY <1>0, <1>1, <1>2, <2>1, <2>2 DEF Held
  <2> QED
    BY <2>3, <2>4
<1>3. CASE /\ kids' = gam_tree_get_children(tree, n) /\ pc' = "kids" /\ isDir' = isDir
           /\ UNCHANGED <<flags, polled, today, waiting, checks, missing, busy, dn>>
  <2>1. kids' \subseteq tree
    BY <1>3 DEF gam_tree_get_children
  <2>2. Types'
    BY <1>0, <1>1, <1>3, <2>1 DEF Types
  <2>3. Held'
    BY <1>0, <1>1, <1>3, <2>1 DEF Held, Flagged, Listed
  <2> QED
    BY <2>2, <2>3
<1> QED
  <2>1. ~isDir[n] => n \in Paths
    BY DEF Types, Nodes
  <2>2. Subscriptions(subs, n) # {} => n \in Paths
    BY DEF Subscriptions, Nodes
  <2> QED
    BY <1>2, <1>3, <2>1, <2>2 DEF Visit, ScanDirectory

LEMMA ReadDirectoryInv ==
  ASSUME Types, Held, ReadDirectory
  PROVE  Types' /\ Held'
<1>0. cur \in tree /\ cur \in Paths /\ kids = {} /\ new = {}
  BY DEF ReadDirectory, Held, Types
<1>1. UNCHANGED <<fs, subs, flags, polled, today, waiting, checks, missing, busy, dn, queue,
                  walk, left, idx, cur>>
  BY DEF ReadDirectory
<1>2. CASE fs[cur] = "dir"
  <2>f. PICK found \in SUBSET Paths : found = Entries(fs, cur) \ tree
    BY DEF Entries
  <2>1. /\ tree' = tree \cup found /\ new' = new \cup found /\ pc' = "kids"
        /\ kids' = gam_tree_get_children(tree \cup found, cur)
        /\ isDir' = [q \in Nodes |-> IF q \in found THEN fs[q] = "dir" ELSE isDir[q]]
    BY <1>2, <2>f DEF ReadDirectory
  <2>2. \A q \in found : q \notin tree /\ Parent[q] = cur
    BY <2>f DEF Entries
  <2>3. RootedTree(tree')
    <3>1. \A q \in found : Above[q] \subseteq {cur} \cup Above[cur]
      BY <1>0, <2>2, TreeShape
    <3> QED
      BY <1>0, <2>1, <3>1 DEF Held, RootedTree
  <2>4. new' \subseteq kids' /\ kids' \subseteq tree' /\ kids' \in SUBSET Paths
    BY <1>0, <2>1, <2>2 DEF gam_tree_get_children, Types
  <2>5. \A q \in new' : subs[q] = {}
    BY <1>0, <2>1, <2>2 DEF Held
  <2>6. isDir' \in [Nodes -> BOOLEAN] /\ isDir'[Root]
    BY <2>1 DEF Types, Nodes
  <2>7. Types'
    BY <1>1, <2>1, <2>4, <2>6 DEF Types
  <2>8. Held'
    BY <1>0, <1>1, <2>1, <2>3, <2>4, <2>5 DEF Held, Flagged, Listed
  <2> QED
    BY <2>7, <2>8
<1>3. CASE fs[cur] # "dir"
  <2>1. pc' = "after" /\ UNCHANGED <<tree, isDir, new, kids>>
    BY <1>3 DEF ReadDirectory
  <2>2. Types'
    BY <1>1, <2>1 DEF Types
  <2>3. Held'
    BY <1>0, <1>1, <2>1 DEF Held, Flagged, Listed, ReadDirectory
  <2> QED
    BY <2>2, <2>3
<1> QED
  BY <1>2, <1>3

LEMMA PollChildInv ==
  ASSUME Types, Held, NEW c \in Paths, PollChild(c)
  PROVE  Types' /\ Held'
<1>0. c \in tree /\ pc = "kids"
  BY DEF PollChild, Held
<1>1. /\ kids' = kids \ {c} /\ new' = new \ {c}
      /\ UNCHANGED <<fs, tree, subs, queue, pc, walk, left, idx, cur>>
  BY DEF PollChild
<1>2. /\ isDir' \in [Nodes -> BOOLEAN] /\ isDir'[Root]
      /\ flags' \in [Nodes -> SUBSET Flags] /\ checks' \in [Paths -> Nat]
      /\ polled' = polled \cup {c} /\ today' \in SUBSET Paths /\ waiting' \in SUBSET Paths
      /\ missing' \subseteq tree /\ busy' \subseteq tree \cup {Root} /\ Good(dn')
      /\ Flagged' /\ Listed'
  BY <1>0, <1>1, PollKeeps DEF PollChild
<1>3. Types'
  BY <1>0, <1>1, <1>2 DEF Types, Nodes
<1>4. Held'
  BY <1>0, <1>1, <1>2 DEF Held
<1> QED
  BY <1>3, <1>4

LEMMA WalkInv ==
  ASSUME Types, Held,
         \/ scan_callback \/ EndOfList \/ ChildrenDone \/ NewSecond
         \/ gam_dnotify_pipe_handler \/ SignalDone \/ PipeDone
  PROVE  Types' /\ Held'
<1>1. CASE scan_callback
  <2>1. Types'
    BY <1>1 DEF scan_callback, Types, nodeVars, Nodes
  <2>2. Held'
    BY <1>1 DEF scan_callback, Held, Flagged, Listed, nodeVars
  <2> QED
    BY <2>1, <2>2
<1>2. CASE EndOfList
  <2>1. Types'
    BY <1>2 DEF EndOfList, Types, nodeVars
  <2>2. Held'
    BY <1>2 DEF EndOfList, Held, Flagged, Listed, nodeVars
  <2> QED
    BY <2>1, <2>2
<1>3. CASE ChildrenDone
  <2>1. Types'
    BY <1>3 DEF ChildrenDone, Types, nodeVars
  <2>2. Held'
    BY <1>3 DEF ChildrenDone, Held, Flagged, Listed, nodeVars
  <2> QED
    BY <2>1, <2>2
<1>4. CASE NewSecond
  <2>1. Types'
    BY <1>4 DEF NewSecond, Types, scanVars
  <2>2. Held'
    BY <1>4 DEF NewSecond, Held, Flagged, Listed, scanVars
  <2> QED
    BY <2>1, <2>2
<1>5. CASE gam_dnotify_pipe_handler
  <2>1. Types'
    BY <1>5 DEF gam_dnotify_pipe_handler, Types, nodeVars
  <2>2. Held'
    BY <1>5 DEF gam_dnotify_pipe_handler, Held, Flagged, Listed, nodeVars
  <2> QED
    BY <2>1, <2>2
<1>6. CASE SignalDone
  <2>1. Types'
    BY <1>6 DEF SignalDone, Types, nodeVars, Nodes
  <2>2. Held'
    BY <1>6 DEF SignalDone, Held, Flagged, Listed, nodeVars
  <2> QED
    BY <2>1, <2>2
<1>7. CASE PipeDone
  <2>1. Types'
    BY <1>7 DEF PipeDone, Types, nodeVars
  <2>2. Held'
    BY <1>7 DEF PipeDone, Held, Flagged, Listed, nodeVars
  <2> QED
    BY <2>1, <2>2
<1> QED
  BY <1>1, <1>2, <1>3, <1>4, <1>5, <1>6, <1>7

LEMMA AfterVisitInv ==
  ASSUME Types, Held, AfterVisit
  PROVE  Types' /\ Held'
<1>0. /\ pc' = "walk" /\ cur' = Root /\ walk # "pipe" /\ kids = {} /\ new = {}
      /\ UNCHANGED <<fs, tree, isDir, subs, polled, today, waiting, checks, queue, walk, idx, kids, new>>
  BY DEF AfterVisit, Held
<1>t. Target(cur, isDir[cur]) \in Nodes
  BY TargetType DEF Types
<1>1. /\ flags' \in [Nodes -> SUBSET Flags] /\ Good(dn')
      /\ missing' \subseteq missing /\ busy' \subseteq tree \cup {Root}
      /\ \A q \in Paths : "MISSING" \in flags'[q] <=> "MISSING" \in flags[q]
      /\ \A q \in missing \ missing' : "MISSING" \notin flags[q] /\ q \notin NoKernel
  <2>1. CASE UNCHANGED <<flags, missing, busy, dn>>
    BY <2>1 DEF Types, Held
  <2>2. CASE /\ Settled /\ missing' = missing \ {cur} /\ UNCHANGED <<flags, busy>>
             /\ dn' = Activate(dn, Target(cur, isDir[cur]), Cardinality(Subscriptions(subs, cur)), fs)
    <3>1. Subscriptions(subs, cur) \in SUBSET Subs
      BY DEF Subscriptions, Types, Nodes
    <3>2. Good(dn')
      BY <1>t, <2>2, <3>1, CountType, ActivateGood DEF Types
    <3> QED
      BY <2>2, <3>2 DEF Settled, Types, Held
  <2>3. CASE /\ Subscriptions(subs, cur) # {} /\ missing' = missing
             /\ StopsPolling(cur, flags[cur], isDir[cur], busy, dn)
    <3>1. cur \in Paths /\ flags[cur] \in SUBSET Flags
      BY <2>3 DEF Subscriptions, Types, Nodes
    <3>2. /\ flags' \in [Nodes -> SUBSET Flags]
          /\ Good(dn')
          /\ \A q \in Paths : q # cur => ("MISSING" \in flags'[q] <=> "MISSING" \in flags[q])
          /\ "MISSING" \in flags'[cur] <=> "MISSING" \in flags[cur]
      BY <2>3, <3>1, FlowOutcome DEF Types
    <3>3. busy' \subseteq busy
      BY <2>3 DEF StopsPolling
    <3> QED
      BY <2>3, <3>2, <3>3 DEF Held
  <2>4. CASE busy' = busy \ {cur} /\ UNCHANGED <<flags, dn, missing>>
    BY <2>4 DEF Types, Held
  <2> QED
    BY <2>1, <2>2, <2>3, <2>4 DEF AfterVisit
<1>2. left' \subseteq tree \cup {Root}
  <2>1. \E list \in SUBSET (tree \cup {Root}) : left' \in NextLeft(left, list, idx)
    BY <1>1 DEF AfterVisit, Held
  <2> QED
    BY <2>1, NextLeftIn
<1>3. Types'
  BY <1>0, <1>1, <1>2 DEF Types, Nodes
<1>4. Flagged' /\ Listed'
  BY <1>0, <1>1 DEF Held, Flagged, Listed
<1>5. Held'
  BY <1>0, <1>1, <1>2, <1>4 DEF Held
<1> QED
  BY <1>3, <1>5

LEMMA FileSystemInv ==
  ASSUME Types, Held, FileSystem
  PROVE  Types' /\ Held'
<1>1. UNCHANGED <<nodeVars, missing, busy, scanVars>>
  BY DEF FileSystem
<1>2. fs' \in [Paths -> Kinds]
  BY DEF Types, FileSystem, CreateFile, RemoveFile, ChangeFile, Created, Removed, Kinds
<1>3. queue' \in SUBSET Fds
  BY DEF Types, FileSystem, CreateFile, RemoveFile, ChangeFile, Delivers, Signalled
<1>4. Good(dn')
  <2>1. CASE dn' = dn
    BY <2>1 DEF Types
  <2>2. CASE \E lost \in SUBSET Paths : dn' = Removes(dn, lost)
    BY <2>2, RemovesGood DEF Types
  <2>3. dn' = dn \/ \E lost \in SUBSET Paths : dn' = Removes(dn, lost)
    BY DEF FileSystem, CreateFile, RemoveFile, ChangeFile
  <2> QED
    BY <2>1, <2>2, <2>3
<1>5. Types'
  BY <1>1, <1>2, <1>3, <1>4 DEF Types, nodeVars, scanVars
<1>6. Held'
  BY <1>1 DEF Held, Flagged, Listed, nodeVars, scanVars
<1> QED
  BY <1>5, <1>6

(* Making the node of a path: what is new in the tree. *)
LEMMA FreshNodes ==
  ASSUME Types, Held, NEW p \in Paths
  PROVE  /\ Fresh(p) \in SUBSET Paths
         /\ RootedTree(tree \cup Fresh(p)) /\ p \in tree \cup Fresh(p)
         /\ p \in tree => Fresh(p) = {}
<1>1. tree \cup Fresh(p) = gam_tree_add_at_path(tree, p) \cup {}
  BY DEF Fresh, gam_tree_add_at_path
<1>2. RootedTree(gam_tree_add_at_path(tree, p) \cup {})
  <2>1. \A more \in SUBSET Paths :
          (\A q \in more : Parent[q] = p) => RootedTree(gam_tree_add_at_path(tree, p) \cup more)
    BY AddedRooted DEF Types, Held
  <2> QED
    BY <2>1
<1>3. Fresh(p) \in SUBSET Paths /\ p \in tree \cup Fresh(p)
  BY DEF Fresh, gam_tree_add_at_path, Types
<1>4. p \in tree => Fresh(p) = {}
  BY DEF Fresh, gam_tree_add_at_path, Held, RootedTree
<1> QED
  BY <1>1, <1>2, <1>3, <1>4

LEMMA PopSignalInv ==
  ASSUME Types, Held, NEW x \in Fds, PopSignal(x)
  PROVE  Types' /\ Held'
<1>0. /\ pc = "pipe" /\ kids = {} /\ new = {} /\ queue' = queue \ {x}
      /\ UNCHANGED <<fs, subs, walk, left, idx, new>>
  BY DEF PopSignal, Held
<1>k. PICK k \in Nodes \cup {None} : k = dn.owner[x]
  BY PartsOfGood DEF Types
<1>1. CASE k \in {None, Root}
  <2>1. UNCHANGED <<tree, isDir, flags, polled, today, waiting, checks, missing, busy, dn, pc, cur, kids>>
    BY <1>k, <1>1 DEF PopSignal
  <2>2. Types'
    BY <1>0, <2>1 DEF Types
  <2>3. Held'
    BY <1>0, <2>1 DEF Held, Flagged, Listed
  <2> QED
    BY <2>2, <2>3
<1>2. CASE k \notin {None, Root}
  <2>f. PICK fresh : fresh = Fresh(k)
    OBVIOUS
  <2>d. PICK kd : kd = [q \in Nodes |-> IF q = k /\ k \in fresh THEN NodeKind(fs, k, TRUE)
                                        ELSE q \in fresh \/ isDir[q]]
    OBVIOUS
  <2>1. tree' = tree \cup fresh /\ cur' = k /\ ScanDirectory(k, kd)
    BY <1>k, <1>2, <2>f, <2>d DEF PopSignal
  <2>2. k \in Nodes /\ k \in Paths
    BY <1>2 DEF Nodes
  <2>3. /\ fresh \in SUBSET Paths /\ RootedTree(tree \cup fresh) /\ k \in tree \cup fresh \cup {Root}
        /\ k \in tree => fresh = {}
    BY <2>2, <2>f, FreshNodes DEF Held, RootedTree, Types
  <2>4. kd \in [Nodes -> BOOLEAN] /\ kd[Root]
    BY <2>d, <2>3 DEF NodeKind, Types, Nodes
  <2>5. CASE /\ kids' = gam_tree_get_children(tree, k) /\ pc' = "kids" /\ isDir' = kd
             /\ UNCHANGED <<flags, polled, today, waiting, checks, missing, busy, dn>>
    <3>1. kids' \subseteq tree
      BY <2>5 DEF gam_tree_get_children
    <3>2. Types'
      BY <1>0, <2>1, <2>2, <2>3, <2>4, <2>5, <3>1 DEF Types
    <3>3. Held'
      BY <1>0, <2>1, <2>3, <2>5, <3>1 DEF Held, Flagged, Listed
    <3> QED
      BY <3>2, <3>3
  <2>6. CASE /\ Subscriptions(subs, k) # {} /\ PollInScan(k)
             /\ pc' \in {"after", "dir"} /\ kids' = kids
    <3>1. k \in Paths /\ k \in tree /\ fresh = {}
      BY <2>2, <2>3, <2>6 DEF Subscriptions, Held
    <3>2. /\ isDir' \in [Nodes -> BOOLEAN] /\ isDir'[Root]
          /\ flags' \in [Nodes -> SUBSET Flags] /\ checks' \in [Paths -> Nat]
          /\ polled' = polled \cup {k} /\ today' \in SUBSET Paths /\ waiting' \in SUBSET Paths
          /\ missing' \subseteq tree /\ busy' \subseteq tree \cup {Root} /\ Good(dn')
          /\ Flagged' /\ Listed'
      BY <1>0, <2>6, <3>1, PollKeeps
    <3>3. tree' = tree
      BY <2>1, <3>1
    <3>4. Types'
      BY <1>0, <2>1, <2>2, <2>6, <3>1, <3>2, <3>3 DEF Types, Nodes
    <3>5. Held'
      BY <1>0, <2>1, <2>6, <3>1, <3>2, <3>3 DEF Held
    <3> QED
      BY <3>4, <3>5
  <2> QED
    BY <2>1, <2>5, <2>6 DEF ScanDirectory
<1> QED
  BY <1>1, <1>2

-----------------------------------------------------------------------------
(* Adding a subscription. *)

LEMMA ForNewSub ==
  ASSUME Types, Held, NEW s \in Subs
  PROVE  /\ KindsFor(s) \in [Nodes -> BOOLEAN] /\ KindsFor(s)[Root]
         /\ SubsWith(s) \in [Paths -> SUBSET Subs]
         /\ Good(TableFor(s))
<1>p. PICK p \in Paths : p = SubPath[s]
  OBVIOUS
<1>1. Fresh(p) \in SUBSET Paths /\ p # Root /\ p \in Nodes
  BY FreshNodes DEF Nodes
<1>2. KindsFor(s) = [q \in Nodes |-> IF q = p /\ p \notin tree THEN NodeKind(fs, p, SubIsDir[s])
                                     ELSE q \in Fresh(p) \/ isDir[q]]
  BY <1>p DEF KindsFor
<1>3. NodeKind(fs, p, SubIsDir[s]) \in BOOLEAN
  BY DEF NodeKind
<1>4. KindsFor(s) \in [Nodes -> BOOLEAN] /\ KindsFor(s)[Root]
  BY <1>1, <1>2, <1>3 DEF Types, Nodes
<1>5. SubsWith(s) \in [Paths -> SUBSET Subs]
  BY DEF SubsWith, Types
<1>6. Good(TableFor(s))
  <2>1. Target(p, KindsFor(s)[p]) \in Nodes
    BY <1>1, TargetType
  <2>2. Good(Activate(dn, Target(p, KindsFor(s)[p]), 1, fs))
    BY <2>1, ActivateGood DEF Types
  <2> QED
    BY <1>p, <2>2 DEF TableFor, Types
<1> QED
  BY <1>4, <1>5, <1>6

LEMMA AddInv ==
  ASSUME Types, Held, NEW s \in Subs, gam_poll_dnotify_add_subscription(s)
  PROVE  Types' /\ Held'
<1>p. PICK p \in Paths : p = SubPath[s]
  OBVIOUS
<1>0. /\ pc = "idle" /\ kids = {} /\ new = {} /\ left = {} /\ cur = Root
      /\ UNCHANGED <<fs, queue, pc, walk, left, idx, cur, kids, new>>
      /\ subs' = SubsWith(s)
  BY DEF gam_poll_dnotify_add_subscription, scanVars, Held
<1>f. /\ Fresh(p) \in SUBSET Paths
      /\ RootedTree(tree \cup Fresh(p)) /\ p \in tree \cup Fresh(p)
  BY FreshNodes
<1>s. SubsWith(s) = [subs EXCEPT ![p] = @ \cup {s}]
  BY <1>p DEF SubsWith
<1>k. PICK kd \in [Nodes -> BOOLEAN] : kd = KindsFor(s)
  BY ForNewSub
<1>1. /\ isDir' \in [Nodes -> BOOLEAN] /\ isDir'[Root]
      /\ flags' \in [Nodes -> SUBSET Flags] /\ checks' \in [Paths -> Nat]
      /\ today' \in SUBSET Paths /\ waiting' \in SUBSET Paths
      /\ busy' \subseteq tree' \cup {Root} /\ Good(dn')
      /\ tree \subseteq tree' /\ tree' \in SUBSET Paths /\ RootedTree(tree')
      /\ polled \cup {p} \subseteq polled' /\ polled' \subseteq tree'
      /\ missing \subseteq missing' /\ missing' \subseteq missing \cup {p} /\ p \in tree'
      /\ p \in NoKernel \/ "MISSING" \in flags'[p] => p \in missing'
      /\ \A q \in Paths : q # p /\ "MISSING" \in flags'[q] => "MISSING" \in flags[q]
  <2>1. CASE AddFile(s)
    <3>1. Polls(p, kd, SubsWith(s), TableFor(s)) /\ tree' = tree \cup Fresh(p)
      BY <1>p, <1>k, <2>1 DEF AddFile
    <3>2. Outcome(p)
      BY <1>k, <3>1, ForNewSub, PollsOutcome DEF Held
    <3>3. Parent[p] \in tree' \cup {Root}
      BY <1>f, <3>1, TreeShape DEF RootedTree
    <3>4. /\ missing \subseteq missing' /\ missing' \subseteq missing \cup {p}
          /\ p \in NoKernel \/ "MISSING" \in flags'[p] => p \in missing'
      BY <1>p, <2>1 DEF AddFile
    <3>5. busy' \subseteq tree' \cup {Root}
      BY <1>f, <3>1, <3>2, <3>3 DEF Outcome, Held
    <3> QED
      BY <1>f, <3>1, <3>2, <3>4, <3>5 DEF Outcome, Types, Held
  <2>2. CASE AddDir(s)
    <3>k. PICK ke \in [Nodes -> BOOLEAN] :
            /\ ke = [kd EXCEPT ![p] = IF p \notin polled /\ p \in NoKernel THEN NodeKind(fs, p, @) ELSE @]
            /\ ke[Root]
      <4>1. kd[Root] /\ p # Root /\ p \in Nodes
        BY <1>k, ForNewSub DEF Nodes
      <4>2. NodeKind(fs, p, kd[p]) \in BOOLEAN /\ kd[p] \in BOOLEAN
        BY <4>1 DEF NodeKind
      <4>v. PICK v \in BOOLEAN :
              v = IF p \notin polled /\ p \in NoKernel THEN NodeKind(fs, p, kd[p]) ELSE kd[p]
        BY <4>2
      <4>3. [kd EXCEPT ![p] = v] \in [Nodes -> BOOLEAN] /\ [kd EXCEPT ![p] = v][Root]
        BY <4>1
      <4> QED
        BY <4>v, <4>3
    <3>n. PICK nodes \in SUBSET Paths : nodes = IF fs[p] = "dir" THEN Entries(fs, p) \ tree ELSE {}
      BY DEF Entries
    <3>s. PICK seen \in SUBSET Paths :
            seen = nodes \cup (IF p \notin polled \/ fs[p] = "none" THEN {p} ELSE {})
      OBVIOUS
    <3>o. PICK own : own = CASE fs[p] = "none" -> {"MISSING"}
                             [] fs[p] # "none" /\ p \notin polled -> flags[p] \cup FirstFlags(p)
                             [] OTHER -> flags[p]
      OBVIOUS
    <3>1. /\ tree' = tree \cup Fresh(p) \cup nodes
          /\ isDir' = [q \in Nodes |-> IF q \in nodes \/ (q = p /\ p \notin polled /\ fs[p] # "none")
                                        THEN fs[q] = "dir" ELSE ke[q]]
          /\ flags' = [q \in Nodes |-> IF q = p THEN own ELSE
                                        IF q \in nodes /\ q \in NoKernel THEN {"NOKERNEL"} ELSE flags[q]]
          /\ polled' = polled \cup {p} \cup nodes /\ today' = today \cup seen
          /\ waiting' = waiting \cup (seen \cap Slow) /\ dn' = TableFor(s)
          /\ missing' = IF p \in NoKernel \/ own \cap {"MISSING", "NOKERNEL"} # {}
                        THEN missing \cup {p} ELSE missing
          /\ UNCHANGED <<checks, busy>>
      BY <1>p, <1>k, <2>2, <3>k, <3>n, <3>s, <3>o DEF AddDir
    <3>2. own \in SUBSET Flags
      <4>1. flags[p] \in SUBSET Flags /\ FirstFlags(p) \in SUBSET Flags
        BY DEF Types, Nodes, FirstFlags, Flags
      <4> QED
        BY <3>o, <4>1 DEF Flags
    <3>3. flags' \in [Nodes -> SUBSET Flags]
      BY <3>1, <3>2 DEF Types, Flags
    <3>4. isDir' \in [Nodes -> BOOLEAN] /\ isDir'[Root]
      BY <3>1, <3>k DEF Nodes
    <3>5. flags'[p] = own
      BY <3>1 DEF Nodes
    <3>6. \A q \in Paths : q # p /\ "MISSING" \in flags'[q] => "MISSING" \in flags[q]
      BY <3>1 DEF Nodes
    <3>7. RootedTree(tree') /\ p \in tree'
      <4>1. \A q \in nodes : Above[q] \subseteq {p} \cup Above[p]
        BY <3>n, TreeShape DEF Entries
      <4>2. {p} \cup Above[p] \subseteq tree \cup Fresh(p)
        BY <1>f DEF RootedTree
      <4> QED
        BY <1>f, <3>1, <4>1, <4>2 DEF RootedTree
    <3>8. Good(dn')
      BY <3>1, ForNewSub
    <3> QED
      BY <1>f, <3>1, <3>3, <3>4, <3>5, <3>6, <3>7, <3>8 DEF Types, Held
  <2> QED
    BY <2>1, <2>2 DEF gam_poll_dnotify_add_subscription
<1>2. subs' \in [Paths -> SUBSET Subs]
  BY <1>0, ForNewSub
<1>3. Types'
  BY <1>0, <1>1, <1>2 DEF Types, Nodes
<1>4. \A q \in Paths : subs'[q] # {} => q = p \/ subs[q] # {}
  BY <1>0, <1>s DEF Types
<1>5. Flagged' /\ Listed'
  <2>1. Flagged'
    BY <1>1 DEF Held, Flagged
  <2>2. Listed'
    BY <1>1, <1>4 DEF Held, Listed
  <2> QED
    BY <2>1, <2>2
<1>6. Held'
  BY <1>0, <1>1, <1>4, <1>5 DEF Held
<1> QED
  BY <1>3, <1>6

-----------------------------------------------------------------------------
(* Removing a subscription. *)

(* Some nodes are freed, which were taken off the lists, have no           *)
(* subscription left and are above no node that stays. *)
LEMMA Removal ==
  ASSUME Types, Held, NEW s \in Subs, gam_poll_dnotify_remove_subscription(s)
  PROVE  /\ subs' = [subs EXCEPT ![SubPath[s]] = @ \ {s}]
         /\ \E dead, off \in SUBSET Paths :
              /\ Frees(dead) /\ Unregisters(off)
              /\ dead \subseteq off
              /\ \A q \in off : subs'[q] = {}
              /\ \A q \in tree \ dead : Above[q] \cap dead = {}
<1>p. PICK p \in Paths : p = SubPath[s]
  OBVIOUS
<1>a. PICK after : after = [subs EXCEPT ![p] = @ \ {s}]
  OBVIOUS
<1>0. Parent[p] \in Paths \cup {Root} /\ tree \in SUBSET Paths /\ RootedTree(tree)
  BY DEF Types, Held
<1>r. \A tr \in SUBSET Paths, x \in Paths \cup {Root} :
        /\ gam_poll_generic_prune_tree(tr, after, x) \subseteq tr
        /\ \A a \in gam_poll_generic_prune_tree(tr, after, x) : after[a] = {}
        /\ \A q \in tr : Above[q] \cap gam_poll_generic_prune_tree(tr, after, x) # {}
                         => q \in gam_poll_generic_prune_tree(tr, after, x)
  BY Prunes
<1>c. \A c : (\A x \in tree : Parent[x] # c) => \A q \in tree : c \notin Above[q]
  BY <1>0, Childless
<1>1. CASE RemoveFileSub(s)
  <2> DEFINE last == after[p] = {}
             bald == gam_tree_get_children(tree, p) = {}
             cut  == last /\ bald /\ ~gam_node_has_dir_subscriptions(subs, isDir, Parent[p])
  <2>u. PICK d : d = gam_poll_generic_prune_tree(tree \ {p}, after, Parent[p])
    OBVIOUS
  <2>d. PICK dead : dead = IF cut THEN {p} \cup d ELSE {}
    OBVIOUS
  <2>o. PICK off : off = dead \cup (IF last THEN {p} ELSE {})
    OBVIOUS
  <2>1. subs' = after /\ Frees(dead) /\ Unregisters(off)
    BY <1>1, <1>p, <1>a, <2>u, <2>d, <2>o DEF RemoveFileSub
  <2>2. /\ d \subseteq tree \ {p}
        /\ \A a \in d : after[a] = {}
        /\ \A q \in tree \ {p} : Above[q] \cap d # {} => q \in d
    <3>1. tree \ {p} \in SUBSET Paths
      BY <1>0
    <3> QED
      BY <1>0, <1>r, <2>u, <3>1
  <2>3. cut => last /\ \A q \in tree : p \notin Above[q]
    BY <1>c DEF gam_tree_get_children
  <2> HIDE DEF cut, bald
  <2>4. dead \subseteq off /\ dead \in SUBSET Paths /\ off \in SUBSET Paths
    BY <1>0, <2>2, <2>d, <2>o
  <2>5. \A q \in off : subs'[q] = {}
    BY <2>1, <2>2, <2>3, <2>d, <2>o
  <2>6. \A q \in tree \ dead : Above[q] \cap dead = {}
    BY <2>2, <2>3, <2>d
  <2> QED
    BY <1>p, <1>a, <2>1, <2>4, <2>5, <2>6
<1>2. CASE RemoveDirSub(s)
  <2> DEFINE cut        == after[p] = {} /\ ~gam_node_has_dir_subscriptions(after, isDir, Parent[p])
             bald(trim) == gam_tree_get_children(tree \ trim, p) = {}
             self(trim) == IF cut /\ bald(trim) THEN {p} ELSE {}
             up(trim)   == IF cut THEN gam_poll_generic_prune_tree((tree \ trim) \ self(trim), after, Parent[p])
                           ELSE {}
             off(trim)  == trim \cup up(trim) \cup (IF cut THEN {p} ELSE {})
             dead(trim) == trim \cup self(trim) \cup up(trim)
  <2>1. subs' = after
    BY <1>2, <1>p, <1>a DEF RemoveDirSub
  <2>2. PICK trim \in Trimmed(tree, after, p) : Frees(dead(trim)) /\ Unregisters(off(trim))
    BY <1>2, <1>p, <1>a DEF RemoveDirSub
  <2>3. trim \subseteq {c \in tree : /\ Parent[c] = p /\ after[c] = {}
                                    /\ \A x \in tree : Parent[x] # c}
    BY Trims
  <2>s. PICK me : me = self(trim)
    OBVIOUS
  <2>t. PICK tr \in SUBSET Paths : tr = (tree \ trim) \ me
    BY <1>0
  <2>u. PICK above : above = up(trim)
    OBVIOUS
  <2>c. /\ me = (IF cut /\ bald(trim) THEN {p} ELSE {})
        /\ above = (IF cut THEN gam_poll_generic_prune_tree(tr, after, Parent[p]) ELSE {})
        /\ off(trim) = trim \cup above \cup (IF cut THEN {p} ELSE {})
        /\ dead(trim) = trim \cup me \cup above
        /\ cut => after[p] = {}
    BY <2>s, <2>t, <2>u
  <2> HIDE DEF cut, self, up, off, dead, bald
  <2>4. /\ above \subseteq tr
        /\ \A a \in above : after[a] = {}
        /\ \A q \in tr : Above[q] \cap above # {} => q \in above
    <3>1. CASE ~cut
      BY <2>c, <3>1
    <3>2. CASE cut
      <4>1. above = gam_poll_generic_prune_tree(tr, after, Parent[p])
        BY <2>c, <3>2
      <4> QED
        BY <1>0, <1>r, <4>1
    <3> QED
      BY <3>1, <3>2
  <2>5. \A q \in tree : Above[q] \cap trim = {}
    BY <1>c, <2>3
  <2>6. \A q \in tree \ trim : Above[q] \cap me = {}
    <3> SUFFICES ASSUME NEW q \in tree \ trim, me = {p}, bald(trim), p \in Above[q]
                 PROVE  FALSE
      BY <2>c
    <3>1. PICK b \in {q} \cup Above[q] : Parent[b] = p
      BY <1>0, TreeShape
    <3>2. b \in tree \ trim
      BY <1>0, <2>5 DEF RootedTree
    <3> QED
      BY <3>1, <3>2 DEF gam_tree_get_children, bald
  <2>7. /\ dead(trim) \subseteq off(trim)
        /\ dead(trim) \in SUBSET Paths /\ off(trim) \in SUBSET Paths
    BY <1>0, <2>3, <2>4, <2>c
  <2>8. \A q \in off(trim) : subs'[q] = {}
    BY <2>1, <2>3, <2>4, <2>c
  <2>9. \A q \in tree \ dead(trim) : Above[q] \cap dead(trim) = {}
    BY <2>4, <2>5, <2>6, <2>c, <2>t
  <2> QED
    BY <1>p, <1>a, <2>1, <2>2, <2>7, <2>8, <2>9
<1> QED
  BY <1>1, <1>2 DEF gam_poll_dnotify_remove_subscription

LEMMA RemoveInv ==
  ASSUME Types, Held, NEW s \in Subs, gam_poll_dnotify_remove_subscription(s)
  PROVE  Types' /\ Held'
<1>p. PICK p \in Paths : p = SubPath[s]
  OBVIOUS
<1>0. /\ pc = "idle" /\ kids = {} /\ new = {} /\ left = {} /\ cur = Root
      /\ UNCHANGED <<fs, queue, pc, walk, left, idx, cur, kids, new>>
      /\ dn' = TableWithout(p)
  BY <1>p DEF gam_poll_dnotify_remove_subscription, scanVars, Held
<1>1. PICK dead, off \in SUBSET Paths :
        /\ Frees(dead) /\ Unregisters(off)
        /\ dead \subseteq off
        /\ \A q \in off : subs'[q] = {}
        /\ \A q \in tree \ dead : Above[q] \cap dead = {}
  BY Removal
<1>2. subs' = [subs EXCEPT ![p] = @ \ {s}]
  BY <1>p, Removal
<1>3. Good(dn')
  <2>1. Target(p, isDir[p]) \in Nodes
    BY TargetType DEF Nodes
  <2>2. Good(Deactivate(dn, Target(p, isDir[p]), 1))
    BY <2>1, DeactivateGood DEF Types
  <2> QED
    BY <1>0, <2>2 DEF TableWithout, Types
<1>4. /\ tree' = tree \ dead /\ polled' = polled \ dead
      /\ missing' = missing \ off /\ busy' = busy \ off
      /\ \A q \in Nodes : flags'[q] = IF q \in dead THEN {} ELSE flags[q]
  BY <1>1 DEF Frees, Unregisters
<1>5. /\ isDir' \in [Nodes -> BOOLEAN] /\ isDir'[Root]
      /\ flags' \in [Nodes -> SUBSET Flags] /\ checks' \in [Paths -> Nat]
      /\ today' \in SUBSET Paths /\ waiting' \in SUBSET Paths
  BY <1>1 DEF Frees, Types, Nodes
<1>6. subs' \in [Paths -> SUBSET Subs] /\ \A q \in Paths : subs'[q] # {} => subs[q] # {} /\ q \notin off
  BY <1>1, <1>2 DEF Types
<1>7. Types'
  BY <1>0, <1>3, <1>4, <1>5, <1>6 DEF Types
<1>8. RootedTree(tree')
  BY <1>1, <1>4 DEF Held, RootedTree
<1>9. Flagged' /\ Listed'
  <2>1. \A q \in Paths : "MISSING" \in flags'[q] => "MISSING" \in flags[q] /\ q \notin dead
    BY <1>4 DEF Nodes
  <2> QED
    BY <1>4, <1>6, <2>1 DEF Held, Flagged, Listed
<1>10. Held'
  BY <1>0, <1>1, <1>4, <1>6, <1>8, <1>9 DEF Held
<1> QED
  BY <1>7, <1>10

-----------------------------------------------------------------------------
(* The inductive invariant. *)
Inv == Types /\ Held

LEMMA InitInv == Init => Inv
<1> SUFFICES ASSUME Init PROVE Inv
  OBVIOUS
<1>1. Types
  BY EmptyGood DEF Init, Types, Nodes
<1>2. Held
  <2>1. Listed /\ Flagged
    BY DEF Init, Listed, Flagged, Nodes
  <2> QED
    BY <2>1 DEF Init, Held, RootedTree
<1> QED
  BY <1>1, <1>2 DEF Inv

LEMMA NextInv == Inv /\ [Next]_vars => Inv'
<1> SUFFICES ASSUME Inv, [Next]_vars PROVE Inv'
  OBVIOUS
<1>1. CASE UNCHANGED vars
  BY <1>1 DEF Inv, Types, Held, Flagged, Listed, vars, nodeVars, scanVars
<1>2. CASE Next
  BY <1>2, FileSystemInv, AddInv, RemoveInv, WalkInv, AfterVisitInv, VisitInv, ReadDirectoryInv,
     PollChildInv, PopSignalInv DEF Next, Scan, Timer, Pipe, Inv
<1> QED
  BY <1>1, <1>2

LEMMA SpecInv == Spec => []Inv
  BY InitInv, NextInv, PTL DEF Spec

(* In every reachable state the variables have their types; the counts of  *)
(* users and of suspensions of a watch never fall below zero.              *)
THEOREM DnotifyTypeCorrect == Spec => []TypeOK
<1>1. Inv => TypeOK
  BY DEF Inv, Types, Good, TypeOK
<1> QED
  BY <1>1, SpecInv, PTL

(* path_hash, fd_hash and the descriptors the kernel watches agree,        *)
(* whatever the order of subscriptions, removals, deletions, relistings    *)
(* and flow control: gam_dnotify_directory_handler_internal leaks no       *)
(* descriptor, reuses none that is in use and misdirects no signal.        *)
THEOREM HashesAlwaysAgree == Spec => []HashesAgree
<1>1. Inv => HashesAgree
  BY DEF Inv, Types, Good, HashesAgree
<1> QED
  BY <1>1, SpecInv, PTL

(* No list and no variable of a callback refers to a node that             *)
(* gam_poll_dnotify_remove_subscription freed.                             *)
THEOREM NoNodeDangles == Spec => []NoDanglingNode
<1>1. Inv => NoDanglingNode
  <2>1. ASSUME Inv, NEW p \in tree, Parent[p] # Root
        PROVE  Parent[p] \in tree
    <3>1. p \in Paths /\ Above[p] \subseteq tree
      BY <2>1 DEF Inv, Types, Held, RootedTree
    <3> QED
      BY <2>1, <3>1, TreeShape
  <2> QED
    BY <2>1 DEF Inv, Held, NoDanglingNode
<1> QED
  BY <1>1, SpecInv, PTL

(* A path with a subscription that is missing, or that the kernel is not   *)
(* used for, is on the list the timer walks: there is no other way to      *)
(* notice that it appears (gam_poll_generic_add_missing and all callers).  *)
THEOREM MissingIsListed == Spec => []Listed
<1>1. Inv => Listed
  BY DEF Inv, Held
<1> QED
  BY <1>1, SpecInv, PTL
-----------------------------------------------------------------------------
(* The nodes are a cache. *)

Truth(q)    == IF fs[q] # "none" THEN "present" ELSE "absent"
UpToDate(q) == Known(q)' \in {Known(q), Truth(q), "unknown"}

LEMMA OutcomeUpToDate ==
  ASSUME NEW p \in Paths, Outcome(p), NEW q \in Paths
  PROVE  UpToDate(q)
<1>0. polled' = polled \cup {p}
  BY DEF Outcome
<1>1. CASE q # p
  <2>1. "MISSING" \in flags'[q] <=> "MISSING" \in flags[q]
    BY <1>1 DEF Outcome
  <2> QED
    BY <1>0, <1>1, <2>1 DEF UpToDate, Known
<1>2. CASE q = p
  <2>1. \/ p \in polled /\ ("MISSING" \in flags'[p] <=> "MISSING" \in flags[p])
        \/ "MISSING" \in flags'[p] <=> fs[p] = "none"
    BY DEF Outcome
  <2> QED
    BY <1>0, <1>2, <2>1 DEF UpToDate, Known, Truth
<1> QED
  BY <1>1, <1>2

LEMMA PollInScanUpToDate ==
  ASSUME Types, Held, NEW p \in Paths, PollInScan(p), NEW q \in Paths
  PROVE  UpToDate(q)
  BY PollInScanOutcome, OutcomeUpToDate DEF Held

LEMMA AddUpToDate ==
  ASSUME Types, Held, NEW s \in Subs, gam_poll_dnotify_add_subscription(s), NEW q \in Paths
  PROVE  UpToDate(q)
<1>p. PICK p \in Paths : p = SubPath[s]
  OBVIOUS
<1>k. PICK kd \in [Nodes -> BOOLEAN] : kd = KindsFor(s)
  BY ForNewSub
<1>1. CASE AddFile(s)
  <2>1. Polls(p, kd, SubsWith(s), TableFor(s))
    BY <1>p, <1>k, <1>1 DEF AddFile
  <2>2. Outcome(p)
    BY <1>k, <2>1, ForNewSub, PollsOutcome DEF Held
  <2> QED
    BY <2>2, OutcomeUpToDate
<1>2. CASE AddDir(s)
  <2>n. PICK nodes : nodes = IF fs[p] = "dir" THEN Entries(fs, p) \ tree ELSE {}
    OBVIOUS
  <2>o. PICK own : own = CASE fs[p] = "none" -> {"MISSING"}
                           [] fs[p] # "none" /\ p \notin polled -> flags[p] \cup FirstFlags(p)
                           [] OTHER -> flags[p]
    OBVIOUS
  <2>1. /\ polled' = polled \cup {p} \cup nodes
        /\ flags' = [x \in Nodes |-> IF x = p THEN own ELSE
                                     IF x \in nodes /\ x \in NoKernel THEN {"NOKERNEL"} ELSE flags[x]]
    BY <1>p, <1>2, <2>n, <2>o DEF AddDir
  <2>2. \A x \in Paths : x \notin polled => "MISSING" \notin flags[x]
    BY DEF Held, Flagged
  <2>3. CASE q = p
    <3>0. flags'[p] = own /\ p \in polled'
      BY <2>1 DEF Nodes
    <3>1. CASE fs[p] = "none"
      <4>1. own = {"MISSING"}
        BY <2>o, <3>1
      <4> QED
        BY <2>3, <3>0, <3>1, <4>1 DEF UpToDate, Known, Truth
    <3>2. CASE fs[p] # "none" /\ p \notin polled
      <4>1. own = flags[p] \cup FirstFlags(p)
        BY <2>o, <3>2
      <4>2. "MISSING" \notin own
        BY <2>2, <3>2, <4>1 DEF FirstFlags
      <4> QED
        BY <2>3, <3>0, <3>2, <4>2 DEF UpToDate, Known, Truth
    <3>3. CASE fs[p] # "none" /\ p \in polled
      <4>1. own = flags[p]
        BY <2>o, <3>3
      <4> QED
        BY <2>3, <3>0, <3>3, <4>1 DEF UpToDate, Known
    <3> QED
      BY <3>1, <3>2, <3>3
  <2>4. CASE q # p /\ q \in nodes
    <3>1. fs[q] # "none" /\ q \notin polled
      BY <2>n, <2>4 DEF Entries, Held
    <3>2. q \in polled' /\ "MISSING" \notin flags'[q]
      BY <2>1, <2>2, <2>4, <3>1 DEF Nodes
    <3> QED
      BY <3>1, <3>2 DEF UpToDate, Known, Truth
  <2>5. CASE q # p /\ q \notin nodes
    <3>1. flags'[q] = flags[q] /\ (q \in polled' <=> q \in polled)
      BY <2>1, <2>5 DEF Nodes
    <3> QED
      BY <3>1 DEF UpToDate, Known
  <2> QED
    BY <2>3, <2>4, <2>5
<1> QED
  BY <1>1, <1>2 DEF gam_poll_dnotify_add_subscription

LEMMA RemoveUpToDate ==
  ASSUME Types, Held, NEW s \in Subs, gam_poll_dnotify_remove_subscription(s), NEW q \in Paths
  PROVE  UpToDate(q)
<1>1. PICK dead : Frees(dead)
  BY Removal
<1>2. polled' = polled \ dead /\ flags'[q] = IF q \in dead THEN {} ELSE flags[q]
  BY <1>1 DEF Frees, Nodes
<1> QED
  BY <1>2 DEF UpToDate, Known

LEMMA AfterVisitUpToDate ==
  ASSUME Types, Held, AfterVisit, NEW q \in Paths
  PROVE  UpToDate(q)
<1>0. polled' = polled
  BY DEF AfterVisit
<1>1. CASE flags' = flags
  BY <1>0, <1>1 DEF UpToDate, Known
<1>2. CASE /\ Subscriptions(subs, cur) # {}
           /\ StopsPolling(cur, flags[cur], isDir[cur], busy, dn)
  <2>1. cur \in Paths /\ flags[cur] \in SUBSET Flags
    BY <1>2 DEF Subscriptions, Types, Nodes
  <2>2. "MISSING" \in flags'[q] <=> "MISSING" \in flags[q]
    BY <1>2, <2>1, FlowOutcome DEF Types
  <2> QED
    BY <1>0, <2>2 DEF UpToDate, Known
<1> QED
  BY <1>1, <1>2 DEF AfterVisit

LEMMA CallbackUpToDate ==
  ASSUME Types, Held, Scan \/ Timer \/ Pipe \/ NewSecond, NEW q \in Paths
  PROVE  UpToDate(q)
<1>1. CASE \/ scan_callback \/ EndOfList \/ ChildrenDone \/ ReadDirectory \/ NewSecond
           \/ gam_dnotify_pipe_handler \/ SignalDone \/ PipeDone
  <2>1. polled' = polled /\ flags' = flags
    BY <1>1 DEF scan_callback, EndOfList, ChildrenDone, ReadDirectory, NewSecond,
       gam_dnotify_pipe_handler, SignalDone, PipeDone, nodeVars
  <2> QED
    BY <2>1 DEF UpToDate, Known
<1>3. ASSUME NEW n \in Nodes, NEW kd, ScanDirectory(n, kd)
      PROVE  UpToDate(q)
  <2>1. CASE UNCHANGED <<flags, polled>>
    BY <2>1 DEF UpToDate, Known
  <2>2. CASE Subscriptions(subs, n) # {} /\ PollInScan(n)
    <3>1. n \in Paths
      BY <2>2 DEF Subscriptions, Nodes
    <3> QED
      BY <2>2, <3>1, PollInScanUpToDate
  <2> QED
    BY <1>3, <2>1, <2>2 DEF ScanDirectory
<1>4. ASSUME NEW n \in Nodes, Visit(n)
      PROVE  UpToDate(q)
  <2>1. CASE ~isDir[n] /\ PollInScan(n)
    <3>1. n \in Paths
      BY <2>1 DEF Types, Nodes
    <3> QED
      BY <2>1, <3>1, PollInScanUpToDate
  <2> QED
    BY <1>3, <1>4, <2>1 DEF Visit
<1>5. ASSUME NEW c \in Paths, PollChild(c)
      PROVE  UpToDate(q)
  BY <1>5, PollInScanUpToDate DEF PollChild
<1>6. ASSUME NEW x \in Fds, PopSignal(x)
      PROVE  UpToDate(q)
  <2>k. PICK k \in Nodes \cup {None} : k = dn.owner[x]
    BY PartsOfGood DEF Types
  <2>1. CASE k \in {None, Root}
    <3>1. UNCHANGED <<flags, polled>>
      BY <1>6, <2>k, <2>1 DEF PopSignal
    <3> QED
      BY <3>1 DEF UpToDate, Known
  <2>2. CASE k \notin {None, Root}
    <3>1. k \in Nodes /\ \E kd : ScanDirectory(k, kd)
      BY <1>6, <2>k, <2>2 DEF PopSignal
    <3> QED
      BY <1>3, <3>1
  <2> QED
    BY <2>1, <2>2
<1> QED
  BY <1>1, <1>4, <1>5, <1>6, AfterVisitUpToDate DEF Scan, Timer, Pipe

(* The nodes of the dnotify backend implement the cache of module Monitor  *)
(* too: MON_MISSING changes only to what stat shows at that moment, though *)
(* the timer, the kernel's signals, new subscriptions and flow control all *)
(* write the flags it is one of.                                           *)
THEOREM DnotifyIsACache == Spec => CacheOfFiles
<1> DEFINE There == {p \in Paths : fs[p] # "none"}
           Know  == [p \in Paths |-> Known(p)]
<1>1. Init => Cache!Init
  BY DEF Init, Cache!Init, Known
<1>2. Inv /\ [Next]_vars => [Cache!Change \/ Cache!Refresh]_<<There, Know>>
  <2>1. CASE FileSystem
    <3>1. Know' = Know
      BY <2>1 DEF FileSystem, nodeVars, Known
    <3>2. There' \in SUBSET Paths
      OBVIOUS
    <3> QED
      BY <3>1, <3>2 DEF Cache!Change
  <2>2. ASSUME Inv, Next, ~FileSystem
        PROVE  Cache!Refresh
    <3>1. fs' = fs
      BY <2>2 DEF Next, Scan, Timer, Pipe, NewSecond, gam_poll_dnotify_add_subscription,
         gam_poll_dnotify_remove_subscription, scan_callback, EndOfList, AfterVisit,
         ChildrenDone, ReadDirectory, Visit, PollChild, gam_dnotify_pipe_handler, SignalDone,
         PipeDone, PopSignal
    <3>2. ASSUME NEW q \in Paths
          PROVE  UpToDate(q)
      BY <2>2, AddUpToDate, RemoveUpToDate, CallbackUpToDate DEF Next, Inv
    <3>3. There' = There
      BY <3>1
    <3>4. Know' \in [Paths -> Cache!Answers]
      BY DEF Known, Cache!Answers
    <3>5. \A q \in Paths : Cache!Truth(q) = Truth(q)
      BY DEF Cache!Truth, Truth
    <3>6. \A q \in Paths : Know'[q] \in {Know[q], Cache!Truth(q), "unknown"}
      BY <3>2, <3>5 DEF UpToDate
    <3> QED
      BY <3>3, <3>4, <3>6 DEF Cache!Refresh
  <2>3. CASE UNCHANGED vars
    <3>1. There' = There /\ Know' = Know
      BY <2>3 DEF vars, nodeVars, Known
    <3> QED
      BY <3>1
  <2> QED
    BY <2>1, <2>2, <2>3
<1> QED
  BY <1>1, <1>2, SpecInv, PTL DEF Spec, CacheOfFiles, Cache!Spec
=============================================================================
