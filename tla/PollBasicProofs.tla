-------------------------- MODULE PollBasicProofs --------------------------
(***************************************************************************)
(* Theorems about PollBasic, for every tree of paths and every set of      *)
(* subscriptions: the types, that no freed node is referred to, that a     *)
(* subscription is polled, that it is informed, and that the nodes are a   *)
(* cache of the file system (module Monitor).                              *)
(***************************************************************************)
EXTENDS PollBasic, PollTreeProofs

USE PathTypes, PollSets

(* TypeOK, one conjunct for each variable. *)
Types ==
  /\ fs \in [Paths -> Kinds] /\ isDir \in [Paths -> BOOLEAN]
  /\ subs \in [Paths -> SUBSET Subs]
  /\ tree \in SUBSET Paths /\ stale \in SUBSET Paths /\ gone \in SUBSET Paths
  /\ polled \in SUBSET Paths /\ waiting \in SUBSET Paths
  /\ all \in SUBSET Paths /\ missing \in SUBSET Paths
  /\ left \in SUBSET Paths /\ kids \in SUBSET Paths /\ new \in SUBSET Paths
  /\ timer \in BOOLEAN /\ did \in BOOLEAN /\ aborted \in BOOLEAN
  /\ pc \in {"idle", "walk", "dir", "kids", "after"} /\ walk \in {"all", "missing"}
  /\ idx \in Nat /\ cur \in Paths \cup {Root}
  /\ pc \in {"dir", "kids", "after"} => cur # Root
  /\ told \in [Subs -> SUBSET Paths] /\ behind \in [Subs -> SUBSET Paths]

-----------------------------------------------------------------------------
(* A poll keeps the types. *)
LEMMA PollsType ==
  ASSUME Types, NEW p \in Paths, Polls(p)
  PROVE  /\ isDir' \in [Paths -> BOOLEAN]
         /\ gone' \in SUBSET Paths /\ stale' \in SUBSET Paths /\ polled' \in SUBSET Paths
         /\ waiting' \in SUBSET Paths /\ missing' \in SUBSET Paths
  BY DEF Types, Polls, NodeKind

(* So does a report. *)
LEMMA ReportsType ==
  ASSUME Types, NEW p \in Paths, NEW ev
  PROVE  /\ Reports(p, ev) => told' \in [Subs -> SUBSET Paths]
         /\ CaughtUp(p, ev) => behind' \in [Subs -> SUBSET Paths]
<1> DEFINE to == IF ev = "none" THEN {} ELSE Audience(subs, p, ev, isDir'[p])
<1>1. Reports(p, ev) =>
        told' = [s \in Subs |-> IF s \notin to THEN told[s]
                                ELSE IF ev = "Deleted" THEN told[s] \ {p}
                                ELSE told[s] \cup {p}]
  BY DEF Reports
<1>2. CaughtUp(p, ev) =>
        behind' = [s \in Subs |-> IF s \in to THEN behind[s] \ {p} ELSE behind[s]]
  BY DEF CaughtUp
<1> HIDE DEF to
<1> QED
  BY <1>1, <1>2 DEF Types

(* A poll with its report keeps the types. *)
LEMMA PollAndReportType ==
  ASSUME Types, NEW p \in Paths, PollAndReport(p)
  PROVE  /\ isDir' \in [Paths -> BOOLEAN]
         /\ gone' \in SUBSET Paths /\ stale' \in SUBSET Paths /\ polled' \in SUBSET Paths
         /\ waiting' \in SUBSET Paths /\ missing' \in SUBSET Paths
         /\ told' \in [Subs -> SUBSET Paths] /\ behind' \in [Subs -> SUBSET Paths]
<1>1. CASE Throttled(p)
  BY <1>1 DEF PollAndReport, Types
<1>2. CASE ~Throttled(p)
  <2>1. Polls(p) /\ \E ev : Reports(p, ev) /\ CaughtUp(p, ev)
    BY <1>2 DEF PollAndReport
  <2> QED
    BY <2>1, PollsType, ReportsType
<1> QED
  BY <1>1, <1>2

(* What a subscription is told when it is made keeps the types. *)
LEMMA FirstReportType ==
  ASSUME Types, NEW s \in Subs, NEW says \in SUBSET Paths, FirstReport(s, says)
  PROVE  told' \in [Subs -> SUBSET Paths] /\ behind' \in [Subs -> SUBSET Paths]
<1>1. told' \in [Subs -> SUBSET Paths]
  BY DEF FirstReport, Types
<1>2. \A b \in Subs : Watches(b) \in SUBSET Paths
  BY DEF Watches
<1>3. behind' \in [Subs -> SUBSET Paths]
  <2> DEFINE over(b) == IF b = s THEN tree' ELSE {SubPath[s]} \cup (tree' \ tree)
             kept(b) == IF b = s THEN {} ELSE behind[b]
             lag(b)  == {q \in Watches(b) \cap over(b) : (q \in told'[b]) # (q \notin gone')}
  <2>1. behind' = [b \in Subs |-> IF b # s /\ b \notin Active THEN {} ELSE kept(b) \cup lag(b)]
    BY DEF FirstReport
  <2>2. \A b \in Subs : kept(b) \in SUBSET Paths
    BY DEF Types
  <2>3. \A b \in Subs : lag(b) \in SUBSET Paths
    BY <1>2
  <2> HIDE DEF kept, lag
  <2> QED
    BY <2>1, <2>2, <2>3
<1> QED
  BY <1>1, <1>3

-----------------------------------------------------------------------------
(* Each operation keeps the types. *)

LEMMA FileSystemTypes ==
  ASSUME Types, FileSystem
  PROVE  Types'
<1>1. fs' \in [Paths -> Kinds] /\ stale' \in SUBSET Paths
  BY DEF Types, FileSystem, CreateFile, RemoveFile, ChangeFile, Created, Removed, Kinds
<1> QED
  BY <1>1 DEF Types, FileSystem, nodeVars, scanVars

LEMMA TimePassesTypes ==
  ASSUME Types, NEW p \in Paths, TimePasses(p)
  PROVE  Types'
  BY DEF Types, TimePasses, fsVars, scanVars

LEMMA AddFileTypes ==
  ASSUME Types, NEW s \in Subs, gam_poll_basic_add_subscription(s), AddFile(s)
  PROVE  Types'
<1> DEFINE p == SubPath[s]
<1>1. p \in Paths /\ gam_tree_add_at_path(tree, p) \ tree \in SUBSET Paths
  BY DEF gam_tree_add_at_path, Types
<1>2. tree' \in SUBSET Paths /\ subs' \in [Paths -> SUBSET Subs]
  BY <1>1 DEF AddFile, AddNode, Types
<1>3. isDir' \in [Paths -> BOOLEAN]
  BY <1>1 DEF AddFile, Types
<1>4. gone' \in SUBSET Paths /\ stale' \in SUBSET Paths /\ polled' \in SUBSET Paths
      /\ waiting' \in SUBSET Paths /\ missing' \in SUBSET Paths
  BY <1>1 DEF AddFile, Types
<1>5. told' \in [Subs -> SUBSET Paths] /\ behind' \in [Subs -> SUBSET Paths]
  <2>1. \E says \in SUBSET Paths : FirstReport(s, says)
    BY <1>1 DEF AddFile
  <2> QED
    BY <2>1, FirstReportType
<1>6. all' \in SUBSET Paths /\ timer' \in BOOLEAN
  BY <1>1 DEF gam_poll_basic_add_subscription, Types
<1> QED
  BY <1>2, <1>3, <1>4, <1>5, <1>6 DEF gam_poll_basic_add_subscription, Types, scanVars

LEMMA AddMissingDirTypes ==
  ASSUME Types, NEW s \in Subs, gam_poll_basic_add_subscription(s), AddMissingDir(s)
  PROVE  Types'
<1> DEFINE p == SubPath[s]
<1>1. p \in Paths /\ gam_tree_add_at_path(tree, p) \ tree \in SUBSET Paths
  BY DEF gam_tree_add_at_path, Types
<1>2. tree' \in SUBSET Paths /\ subs' \in [Paths -> SUBSET Subs]
  BY <1>1 DEF AddMissingDir, AddNode, Types
<1>3. isDir' \in [Paths -> BOOLEAN]
  BY <1>1 DEF AddMissingDir, Types
<1>4. gone' \in SUBSET Paths /\ stale' \in SUBSET Paths /\ polled' \in SUBSET Paths
      /\ waiting' \in SUBSET Paths /\ missing' \in SUBSET Paths
  BY <1>1 DEF AddMissingDir, Types
<1>5. told' \in [Subs -> SUBSET Paths] /\ behind' \in [Subs -> SUBSET Paths]
  BY FirstReportType DEF AddMissingDir
<1>6. all' \in SUBSET Paths /\ timer' \in BOOLEAN
  BY <1>1 DEF gam_poll_basic_add_subscription, Types
<1> QED
  BY <1>2, <1>3, <1>4, <1>5, <1>6 DEF gam_poll_basic_add_subscription, Types, scanVars

LEMMA AddDirTypes ==
  ASSUME Types, NEW s \in Subs, gam_poll_basic_add_subscription(s), AddDir(s)
  PROVE  Types'
<1> DEFINE p == SubPath[s]
<1>1. p \in Paths /\ gam_tree_add_at_path(tree, p) \ tree \in SUBSET Paths
      /\ Entries(fs, p) \in SUBSET Paths
  BY DEF gam_tree_add_at_path, Entries, Types
<1>2. tree' \in SUBSET Paths /\ subs' \in [Paths -> SUBSET Subs]
  BY <1>1 DEF AddDir, Types
<1>3. isDir' \in [Paths -> BOOLEAN]
  BY <1>1 DEF AddDir, Types
<1>4. gone' \in SUBSET Paths /\ stale' \in SUBSET Paths /\ polled' \in SUBSET Paths
      /\ waiting' \in SUBSET Paths /\ missing' \in SUBSET Paths
  BY <1>1 DEF AddDir, Types
<1>5. told' \in [Subs -> SUBSET Paths] /\ behind' \in [Subs -> SUBSET Paths]
  <2>1. \E says \in SUBSET Paths : FirstReport(s, says)
    BY <1>1 DEF AddDir
  <2> QED
    BY <2>1, FirstReportType
<1>6. all' \in SUBSET Paths /\ timer' \in BOOLEAN
  BY <1>1 DEF gam_poll_basic_add_subscription, Types
<1> QED
  BY <1>2, <1>3, <1>4, <1>5, <1>6 DEF gam_poll_basic_add_subscription, Types, scanVars

(* What freeing some nodes leaves of each variable. *)
LEMMA FreesType ==
  ASSUME Types, NEW dead, Frees(dead)
  PROVE  /\ isDir' \in [Paths -> BOOLEAN]
         /\ tree' \in SUBSET Paths /\ gone' \in SUBSET Paths /\ stale' \in SUBSET Paths
         /\ polled' \in SUBSET Paths /\ waiting' \in SUBSET Paths
  BY DEF Types, Frees

Rooted == RootedTree(tree)

(* What removing a subscription does: some nodes are freed, which were     *)
(* taken off the lists, have no subscription left and are above no node    *)
(* that stays. *)
LEMMA Removal ==
  ASSUME Types, Rooted, NEW s \in Subs, gam_poll_basic_remove_subscription(s)
  PROVE  /\ subs' = [subs EXCEPT ![SubPath[s]] = @ \ {s}]
         /\ \E dead, off \in SUBSET Paths :
              /\ Frees(dead) /\ all' = all \ off /\ missing' = missing \ off
              /\ dead \subseteq off
              /\ \A q \in off : subs'[q] = {}
              /\ \A q \in tree \ dead : Above[q] \cap dead = {}
<1>p. PICK p \in Paths : p = SubPath[s]
  OBVIOUS
<1>a. PICK after : after = [subs EXCEPT ![p] = @ \ {s}]
  OBVIOUS
<1>0. Parent[p] \in Paths \cup {Root} /\ tree \in SUBSET Paths
  BY DEF Types
<1>1. CASE RemoveFileSub(s)
  <2> DEFINE last   == after[p] = {}
             dir    == gam_node_has_dir_subscriptions(subs, isDir, Parent[p])
             d      == gam_poll_generic_prune_tree(tree \ {p}, after, Parent[p])
             broken == last /\ gam_tree_get_children(tree, p) # {}
             dead   == IF broken THEN {} ELSE IF last /\ ~dir THEN {p} \cup d ELSE {}
             off    == (IF last THEN {p} ELSE {}) \cup dead
  <2>1. /\ subs' = after /\ Frees(dead) /\ all' = all \ off /\ missing' = missing \ off
    BY <1>1, <1>p, <1>a DEF RemoveFileSub
  <2>2. /\ d \subseteq tree \ {p}
        /\ \A a \in d : after[a] = {}
        /\ \A q \in tree \ {p} : Above[q] \cap d # {} => q \in d
    <3>1. tree \ {p} \in SUBSET Paths
      BY <1>0
    <3>2. \A tr \in SUBSET Paths, x \in Paths \cup {Root} :
            /\ gam_poll_generic_prune_tree(tr, after, x) \subseteq tr
            /\ \A a \in gam_poll_generic_prune_tree(tr, after, x) : after[a] = {}
            /\ \A q \in tr : Above[q] \cap gam_poll_generic_prune_tree(tr, after, x) # {}
                             => q \in gam_poll_generic_prune_tree(tr, after, x)
      BY Prunes
    <3> QED
      BY <1>0, <3>1, <3>2
  <2>3. ~broken /\ last => \A x \in tree : Parent[x] # p
    BY DEF gam_tree_get_children
  <2> HIDE DEF d
  <2>4. dead \subseteq off /\ dead \in SUBSET Paths /\ off \in SUBSET Paths
    BY <1>0, <2>2
  <2>5. \A q \in off : subs'[q] = {}
    BY <2>1, <2>2
  <2>6. \A q \in tree \ dead : Above[q] \cap dead = {}
    <3>1. CASE dead = {}
      BY <3>1
    <3>2. CASE dead = {p} \cup d /\ ~broken /\ last
      <4>1. \A q \in tree : p \notin Above[q]
        BY <1>0, <2>3, <3>2, Childless DEF Rooted
      <4> HIDE DEF dead, broken, last
      <4> QED
        BY <2>2, <3>2, <4>1
    <3> HIDE DEF d
    <3> QED
      BY <3>1, <3>2
  <2> HIDE DEF dead, off
  <2> QED
    BY <1>p, <1>a, <2>1, <2>4, <2>5, <2>6
<1>2. CASE RemoveDirSub(s)
  <2> DEFINE cut        == after[p] = {} /\ ~gam_node_has_dir_subscriptions(after, isDir, Parent[p])
             bald(trim) == gam_tree_get_children(tree \ trim, p) = {}
             self(trim) == IF cut /\ bald(trim) THEN {p} ELSE {}
             up(trim)   == IF cut THEN gam_poll_generic_prune_tree((tree \ trim) \ self(trim), after, Parent[p])
                           ELSE {}
             off(trim)  == trim \cup up(trim) \cup (IF cut THEN {p} ELSE {})
             dead(trim) == trim \cup self(trim) \cup up(trim)
  <2>1. subs' = after
    BY <1>2, <1>p, <1>a DEF RemoveDirSub
  <2>2. PICK trim \in Trimmed(tree, after, p) :
          Frees(dead(trim)) /\ all' = all \ off(trim) /\ missing' = missing \ off(trim)
    BY <1>2, <1>p, <1>a DEF RemoveDirSub
  <2>3. trim \subseteq {c \in tree : /\ Parent[c] = p /\ after[c] = {}
                                    /\ \A x \in tree : Parent[x] # c}
    BY Trims
  <2>s. PICK me : me = self(trim)
    OBVIOUS
  <2>t. PICK tr \in SUBSET Paths : tr = (tree \ trim) \ me
    BY <1>0
  <2>u. PICK above : above = up(trim)
    OBVIOUS
  <2>c. /\ me = (IF cut /\ bald(trim) THEN {p} ELSE {})
        /\ above = (IF cut THEN gam_poll_generic_prune_tree(tr, after, Parent[p]) ELSE {})
        /\ off(trim) = trim \cup above \cup (IF cut THEN {p} ELSE {})
        /\ dead(trim) = trim \cup me \cup above
        /\ cut => after[p] = {}
    BY <2>s, <2>t, <2>u
  <2> HIDE DEF cut, self, up, off, dead, bald
  <2>4. /\ above \subseteq tr
        /\ \A a \in above : after[a] = {}
        /\ \A q \in tr : Above[q] \cap above # {} => q \in above
    <3>1. CASE ~cut
      BY <2>c, <3>1
    <3>2. CASE cut
      <4>1. above = gam_poll_generic_prune_tree(tr, after, Parent[p])
        BY <2>c, <3>2
      <4>2. /\ gam_poll_generic_prune_tree(tr, after, Parent[p]) \subseteq tr
            /\ \A a \in gam_poll_generic_prune_tree(tr, after, Parent[p]) : after[a] = {}
            /\ \A q \in tr : Above[q] \cap gam_poll_generic_prune_tree(tr, after, Parent[p]) # {}
                             => q \in gam_poll_generic_prune_tree(tr, after, Parent[p])
        BY <1>0, Prunes
      <4> QED
        BY <4>1, <4>2
    <3> QED
      BY <3>1, <3>2
  <2>5. \A q \in tree : Above[q] \cap trim = {}
    <3>1. ASSUME NEW q \in tree, NEW c \in trim
          PROVE  c \notin Above[q]
      <4>1. \A x \in tree : Parent[x] # c
        BY <2>3
      <4> QED
        BY <1>0, <4>1, Childless DEF Rooted
    <3> QED
      BY <3>1
  <2>6. \A q \in tree \ trim : Above[q] \cap me = {}
    <3> SUFFICES ASSUME NEW q \in tree \ trim, me = {p}, bald(trim), p \in Above[q]
                 PROVE  FALSE
      BY <2>c
    <3>1. PICK b \in {q} \cup Above[q] : Parent[b] = p
      BY <1>0, TreeShape
    <3>2. b \in tree \ trim
      BY <2>5 DEF Rooted, RootedTree
    <3> QED
      BY <3>1, <3>2 DEF gam_tree_get_children, bald
  <2>7. /\ dead(trim) \subseteq off(trim)
        /\ dead(trim) \in SUBSET Paths /\ off(trim) \in SUBSET Paths
    BY <1>0, <2>3, <2>4, <2>c
  <2>8. \A q \in off(trim) : subs'[q] = {}
    BY <2>1, <2>3, <2>4, <2>c
  <2>9. \A q \in tree \ dead(trim) : Above[q] \cap dead(trim) = {}
    BY <2>4, <2>5, <2>6, <2>c, <2>t
  <2> QED
    BY <1>p, <1>a, <2>1, <2>2, <2>7, <2>8, <2>9
<1> QED
  BY <1>1, <1>2 DEF gam_poll_basic_remove_subscription

LEMMA RemoveTypes ==
  ASSUME Types, Rooted, NEW s \in Subs, gam_poll_basic_remove_subscription(s)
  PROVE  Types'
<1>1. PICK dead, off \in SUBSET Paths :
        Frees(dead) /\ all' = all \ off /\ missing' = missing \ off
  BY Removal
<1>2. subs' \in [Paths -> SUBSET Subs] /\ all' \in SUBSET Paths /\ missing' \in SUBSET Paths
  BY <1>1, Removal DEF Types
<1>3. aborted' \in BOOLEAN
  BY DEF gam_poll_basic_remove_subscription, RemoveFileSub, RemoveDirSub, Types
<1>4. told' \in [Subs -> SUBSET Paths] /\ behind' \in [Subs -> SUBSET Paths]
  BY DEF gam_poll_basic_remove_subscription, Types
<1>5. /\ isDir' \in [Paths -> BOOLEAN]
      /\ tree' \in SUBSET Paths /\ gone' \in SUBSET Paths /\ stale' \in SUBSET Paths
      /\ polled' \in SUBSET Paths /\ waiting' \in SUBSET Paths
  BY <1>1, FreesType
<1> QED
  BY <1>2, <1>3, <1>4, <1>5 DEF gam_poll_basic_remove_subscription, Types, scanVars

LEMMA WalkTypes ==
  ASSUME Types, scan_callback \/ EndOfList \/ AfterVisit
  PROVE  Types'
<1>1. CASE scan_callback
  BY <1>1 DEF scan_callback, Types, fsVars, nodeVars
<1>2. CASE EndOfList
  BY <1>2 DEF EndOfList, Types, fsVars, nodeVars
<1>3. CASE AfterVisit
  <2>1. all' \in SUBSET Paths /\ missing' \in SUBSET Paths
    BY <1>3 DEF AfterVisit, Types
  <2>2. left' \in SUBSET Paths
    <3>1. \E list \in SUBSET Paths : left' \in NextLeft(left, list, idx)
      BY <1>3, <2>1 DEF AfterVisit
    <3> QED
      BY <3>1, NextLeftIn
  <2> QED
    BY <1>3, <2>1, <2>2 DEF AfterVisit, Types, fsVars, nodeVars
<1> QED
  BY <1>1, <1>2, <1>3

LEMMA VisitTypes ==
  ASSUME Types, NEW n \in Paths, Visit(n)
  PROVE  Types'
<1>1. /\ isDir' \in [Paths -> BOOLEAN]
      /\ gone' \in SUBSET Paths /\ stale' \in SUBSET Paths /\ polled' \in SUBSET Paths
      /\ waiting' \in SUBSET Paths /\ missing' \in SUBSET Paths
      /\ told' \in [Subs -> SUBSET Paths] /\ behind' \in [Subs -> SUBSET Paths]
  <2>1. CASE PollAndReport(n)
    BY <2>1, PollAndReportType
  <2>2. CASE UNCHANGED <<stale, isDir, gone, polled, waiting, missing, told, behind>>
    BY <2>2 DEF Types
  <2> QED
    BY <2>1, <2>2 DEF Visit
<1>2. kids' \in SUBSET Paths
  BY DEF Visit, Types, gam_tree_get_children
<1>3. /\ pc' \in {"idle", "walk", "dir", "kids", "after"} /\ cur' \in Paths
      /\ idx' \in Nat /\ left' \in SUBSET Paths /\ did' = TRUE
  BY DEF Visit, Types
<1> QED
  BY <1>1, <1>2, <1>3 DEF Visit, Types

LEMMA ReadDirectoryTypes ==
  ASSUME Types, ReadDirectory
  PROVE  Types'
<1>1. Entries(fs, cur) \in SUBSET Paths
  BY DEF Entries
<1>2. tree' \in SUBSET Paths /\ new' \in SUBSET Paths
  BY <1>1 DEF ReadDirectory, Types
<1>3. kids' \in SUBSET Paths
  BY <1>1 DEF ReadDirectory, Types, gam_tree_get_children
<1>4. isDir' \in [Paths -> BOOLEAN]
  BY DEF ReadDirectory, Types
<1>5. pc' \in {"kids", "after"} /\ cur # Root
  BY DEF ReadDirectory, Types
<1> QED
  BY <1>2, <1>3, <1>4, <1>5 DEF ReadDirectory, Types, fsVars

LEMMA PollChildTypes ==
  ASSUME Types, NEW c \in Paths, PollChild(c)
  PROVE  Types'
<1>1. /\ isDir' \in [Paths -> BOOLEAN]
      /\ gone' \in SUBSET Paths /\ stale' \in SUBSET Paths /\ polled' \in SUBSET Paths
      /\ waiting' \in SUBSET Paths /\ missing' \in SUBSET Paths
      /\ told' \in [Subs -> SUBSET Paths] /\ behind' \in [Subs -> SUBSET Paths]
  <2>1. CASE c \in new
    <3>1. Polls(c) /\ Reports(c, "Created")
      BY <2>1 DEF PollChild
    <3> DEFINE to == Audience(subs, c, "Created", FALSE)
               ev == poll_file(c, c \notin polled, c \in gone)
    <3>2. behind' = [s \in Subs |-> IF s \notin to THEN behind[s]
                                    ELSE IF ev = "Deleted" THEN behind[s] \cup {c}
                                    ELSE behind[s] \ {c}]
      BY <2>1 DEF PollChild
    <3> HIDE DEF to, ev
    <3>3. behind' \in [Subs -> SUBSET Paths]
      BY <3>2 DEF Types
    <3> QED
      BY <3>1, <3>3, PollsType, ReportsType
  <2>2. CASE c \notin new
    BY <2>2, PollAndReportType DEF PollChild
  <2> QED
    BY <2>1, <2>2
<1> QED
  BY <1>1 DEF PollChild, Types

LEMMA ChildrenDoneTypes ==
  ASSUME Types, ChildrenDone
  PROVE  Types'
  BY DEF Types, ChildrenDone, fsVars, nodeVars

(* Every step keeps the types; of the tree only that it is rooted counts.  *)
LEMMA NextTypes ==
  ASSUME Types, Rooted, Next
  PROVE  Types'
<1>1. ASSUME NEW s \in Subs, gam_poll_basic_add_subscription(s)
      PROVE  Types'
  BY <1>1, AddFileTypes, AddMissingDirTypes, AddDirTypes DEF gam_poll_basic_add_subscription
<1> QED
  BY <1>1, FileSystemTypes, TimePassesTypes, RemoveTypes, WalkTypes, VisitTypes,
     ReadDirectoryTypes, PollChildTypes, ChildrenDoneTypes DEF Next, Scan

LEMMA TypesSuffice ==
  ASSUME Types
  PROVE  TypeOK
  BY DEF Types, TypeOK

-----------------------------------------------------------------------------
(* The nodes the server refers to. *)

(* The inductive invariant under NoFreedNode: besides it, what the         *)
(* variables of the scan hold where they are not in use, and that a node   *)
(* found by the scan was not polled yet. *)
Nodes ==
  /\ Rooted
  /\ all \subseteq tree /\ missing \subseteq tree /\ polled \subseteq tree
  /\ left \subseteq tree /\ kids \subseteq tree
  /\ gone \subseteq polled
  /\ cur # Root => cur \in tree
  /\ \A p \in Paths : subs[p] # {} => p \in tree
  /\ new \subseteq kids /\ new \cap polled = {} /\ \A p \in new : subs[p] = {}
  /\ pc \in {"idle", "walk"} => cur = Root
  /\ pc # "kids" => kids = {}
  /\ pc = "idle" => left = {}

(* What a poll does to the flags and the lists. *)
LEMMA PollsNodes ==
  ASSUME Types, Nodes, NEW p \in tree, Polls(p)
  PROVE  /\ missing' \subseteq tree /\ polled' = polled \cup {p}
         /\ gone' \subseteq polled'
<1>1. missing' \subseteq missing \cup {p}
  BY DEF Polls
<1>2. polled' = polled \cup {p} /\ gone' \subseteq gone \cup {p}
  BY DEF Polls
<1> QED
  BY <1>1, <1>2 DEF Nodes

LEMMA PollAndReportNodes ==
  ASSUME Types, Nodes, NEW p \in tree, PollAndReport(p)
  PROVE  /\ missing' \subseteq tree /\ polled' \subseteq polled \cup {p}
         /\ gone' \subseteq polled'
<1>1. CASE Throttled(p)
  BY <1>1 DEF PollAndReport, Nodes
<1>2. CASE ~Throttled(p)
  BY <1>2, PollsNodes DEF PollAndReport
<1> QED
  BY <1>1, <1>2

LEMMA AddNodes ==
  ASSUME Types, Nodes, NEW s \in Subs, gam_poll_basic_add_subscription(s)
  PROVE  Nodes'
<1>p. PICK p \in Paths : p = SubPath[s]
  OBVIOUS
<1>r. tree \in SUBSET Paths /\ RootedTree(tree) /\ (Rooted' <=> RootedTree(tree'))
  BY DEF Nodes, Rooted, Types
<1>o. \A more \in SUBSET Paths :
        (\A q \in more : Parent[q] = p) => RootedTree(gam_tree_add_at_path(tree, p) \cup more)
  BY <1>r, AddedRooted
<1>1. /\ Rooted' /\ p \in tree' /\ tree \subseteq tree'
      /\ subs' = [subs EXCEPT ![p] = @ \cup {s}]
      /\ polled \cup {p} \subseteq polled' /\ polled' \subseteq tree' 
      /\ missing' \subseteq missing \cup {p} /\ gone' \subseteq gone \cup {p}
  <2>1. CASE AddFile(s)
    <3>1. tree' = gam_tree_add_at_path(tree, p) \cup {}
      BY <1>p, <2>1 DEF AddFile, AddNode, gam_tree_add_at_path
    <3>2. Rooted' /\ p \in tree' /\ tree \subseteq tree'
      BY <1>o, <1>r, <3>1 DEF gam_tree_add_at_path
    <3>3. /\ subs' = [subs EXCEPT ![p] = @ \cup {s}] /\ polled' = polled \cup {p}
          /\ missing' \subseteq missing \cup {p} /\ gone' \subseteq gone \cup {p}
      BY <1>p, <2>1 DEF AddFile, AddNode
    <3> QED
      BY <3>2, <3>3 DEF Nodes
  <2>2. CASE AddMissingDir(s)
    <3>1. tree' = gam_tree_add_at_path(tree, p) \cup {}
      BY <1>p, <2>2 DEF AddMissingDir, AddNode, gam_tree_add_at_path
    <3>2. Rooted' /\ p \in tree' /\ tree \subseteq tree'
      BY <1>o, <1>r, <3>1 DEF gam_tree_add_at_path
    <3>3. /\ subs' = [subs EXCEPT ![p] = @ \cup {s}] /\ polled' = polled \cup {p}
          /\ missing' \subseteq missing \cup {p} /\ gone' \subseteq gone \cup {p}
      BY <1>p, <2>2 DEF AddMissingDir, AddNode
    <3> QED
      BY <3>2, <3>3 DEF Nodes
  <2>3. CASE AddDir(s)
    <3>n. PICK nodes \in SUBSET Paths :
            nodes = (IF fs[p] = "dir" THEN Entries(fs, p) ELSE {}) \ tree
      BY DEF Entries
    <3>1. tree' = gam_tree_add_at_path(tree, p) \cup nodes
      BY <1>p, <2>3, <3>n DEF AddDir, gam_tree_add_at_path
    <3>2. \A q \in nodes : Parent[q] = p
      BY <3>n DEF Entries
    <3>3. Rooted' /\ p \in tree' /\ tree \subseteq tree'
      BY <1>o, <1>r, <3>1, <3>2 DEF gam_tree_add_at_path
    <3>4. /\ subs' = [subs EXCEPT ![p] = @ \cup {s}] /\ polled' = polled \cup {p} \cup nodes
          /\ missing' \subseteq missing \cup {p} /\ gone' = gone
      BY <1>p, <2>3, <3>n DEF AddDir
    <3> QED
      BY <3>1, <3>3, <3>4 DEF Nodes
  <2> QED
    BY <2>1, <2>2, <2>3 DEF gam_poll_basic_add_subscription
<1>2. /\ pc = "idle" /\ UNCHANGED <<pc, left, cur, kids, new>>
      /\ all' = all \cup {p}
  BY <1>p DEF gam_poll_basic_add_subscription, scanVars
<1>3. kids = {} /\ new = {}
  BY <1>2 DEF Nodes
<1>4. \A q \in Paths : subs'[q] # {} => q \in tree'
  BY <1>1 DEF Nodes, Types
<1> QED
  BY <1>1, <1>2, <1>3, <1>4 DEF Nodes

LEMMA RemoveNodes ==
  ASSUME Types, Nodes, NEW s \in Subs, gam_poll_basic_remove_subscription(s)
  PROVE  Nodes'
<1>1. PICK dead, off \in SUBSET Paths :
        /\ Frees(dead) /\ all' = all \ off /\ missing' = missing \ off
        /\ dead \subseteq off
        /\ \A q \in off : subs'[q] = {}
        /\ \A q \in tree \ dead : Above[q] \cap dead = {}
  BY Removal DEF Nodes
<1>2. subs' = [subs EXCEPT ![SubPath[s]] = @ \ {s}]
  BY Removal DEF Nodes
<1>3. Rooted'
  BY <1>1 DEF Frees, Nodes, Rooted, RootedTree
<1>4. \A q \in Paths : subs'[q] # {} => q \in tree'
  BY <1>1, <1>2 DEF Frees, Nodes, Types
<1>5. pc = "idle" /\ UNCHANGED <<pc, left, cur, kids, new>>
  BY DEF gam_poll_basic_remove_subscription, scanVars
<1>6. kids = {} /\ new = {} /\ left = {} /\ cur = Root
  BY <1>5 DEF Nodes
<1> QED
  BY <1>1, <1>3, <1>4, <1>5, <1>6 DEF Frees, Nodes

LEMMA WalkNodes ==
  ASSUME Types, Nodes, scan_callback \/ EndOfList \/ AfterVisit \/ ChildrenDone
  PROVE  Nodes'
<1>1. CASE scan_callback
  BY <1>1 DEF scan_callback, Nodes, Rooted, RootedTree, nodeVars
<1>2. CASE EndOfList
  BY <1>2 DEF EndOfList, Nodes, Rooted, RootedTree, nodeVars
<1>3. CASE AfterVisit
  <2>1. all' \subseteq tree /\ missing' \subseteq tree /\ UNCHANGED nodeVars
    BY <1>3 DEF AfterVisit, Nodes, Types
  <2>2. left' \subseteq tree
    <3>1. \E list \in SUBSET tree : left' \in NextLeft(left, list, idx)
      BY <1>3, <2>1 DEF AfterVisit
    <3> QED
      BY <3>1, NextLeftIn
  <2> QED
    BY <1>3, <2>1, <2>2 DEF AfterVisit, Nodes, Rooted, RootedTree, nodeVars
<1>4. CASE ChildrenDone
  BY <1>4 DEF ChildrenDone, Nodes, Rooted, RootedTree, nodeVars
<1> QED
  BY <1>1, <1>2, <1>3, <1>4

LEMMA VisitNodes ==
  ASSUME Types, Nodes, NEW n \in Paths, Visit(n)
  PROVE  Nodes'
<1>1. n \in tree /\ pc = "walk" /\ new = {} /\ kids = {}
  BY DEF Visit, Nodes
<1>2. /\ missing' \subseteq tree /\ polled' \subseteq polled \cup {n}
      /\ gone' \subseteq polled'
  <2>1. CASE PollAndReport(n)
    BY <1>1, <2>1, PollAndReportNodes
  <2>2. CASE UNCHANGED <<gone, polled, missing>>
    BY <2>2 DEF Nodes
  <2> QED
    BY <2>1, <2>2 DEF Visit
<1>3. kids' \subseteq tree /\ (pc' # "kids" => kids' = {}) /\ pc' \notin {"idle", "walk"}
  BY <1>1 DEF Visit, gam_tree_get_children
<1> QED
  BY <1>1, <1>2, <1>3 DEF Visit, Nodes, Rooted, RootedTree

LEMMA ReadDirectoryNodes ==
  ASSUME Types, Nodes, ReadDirectory
  PROVE  Nodes'
<1>1. cur \in tree /\ cur \in Paths /\ new = {} /\ kids = {}
  BY DEF ReadDirectory, Nodes, Types
<1>2. CASE fs[cur] = "dir"
  <2>f. PICK found \in SUBSET Paths : found = Entries(fs, cur) \ tree
    BY DEF Entries
  <2>1. /\ tree' = tree \cup found /\ new' = new \cup found /\ pc' = "kids"
        /\ kids' = gam_tree_get_children(tree \cup found, cur)
    BY <1>2, <2>f DEF ReadDirectory
  <2>2. \A q \in found : q \notin tree /\ Parent[q] = cur
    BY <2>f DEF Entries
  <2>3. Rooted'
    <3>1. \A q \in found : Above[q] \subseteq {cur} \cup Above[cur]
      BY <1>1, <2>2, TreeShape
    <3> QED
      BY <1>1, <2>1, <3>1 DEF Nodes, Rooted, RootedTree
  <2>4. new' \subseteq kids' /\ kids' \subseteq tree'
    BY <1>1, <2>1, <2>2 DEF gam_tree_get_children
  <2>5. new' \cap polled = {} /\ \A q \in new' : subs[q] = {}
    BY <1>1, <2>1, <2>2 DEF Nodes
  <2> QED
    BY <2>1, <2>3, <2>4, <2>5 DEF ReadDirectory, Nodes
<1>3. CASE fs[cur] # "dir"
  BY <1>1, <1>3 DEF ReadDirectory, Nodes, Rooted, RootedTree
<1> QED
  BY <1>2, <1>3

LEMMA PollChildNodes ==
  ASSUME Types, Nodes, NEW c \in Paths, PollChild(c)
  PROVE  Nodes'
<1>1. c \in tree
  BY DEF PollChild, Nodes
<1>2. /\ missing' \subseteq tree /\ polled' \subseteq polled \cup {c}
      /\ gone' \subseteq polled'
  <2>1. CASE c \in new
    BY <1>1, <2>1, PollsNodes DEF PollChild
  <2>2. CASE c \notin new
    BY <1>1, <2>2, PollAndReportNodes DEF PollChild
  <2> QED
    BY <2>1, <2>2
<1> QED
  BY <1>1, <1>2 DEF PollChild, Nodes, Rooted, RootedTree

LEMMA NextNodes ==
  ASSUME Types, Nodes, Next
  PROVE  Nodes'
<1>1. CASE FileSystem
  BY <1>1 DEF FileSystem, Nodes, Rooted, RootedTree, nodeVars, scanVars
<1>2. CASE \E p \in Paths : TimePasses(p)
  BY <1>2 DEF TimePasses, Nodes, Rooted, RootedTree, scanVars
<1> QED
  BY <1>1, <1>2, AddNodes, RemoveNodes, WalkNodes, VisitNodes, ReadDirectoryNodes,
     PollChildNodes DEF Next, Scan

-----------------------------------------------------------------------------
(* The lists the timer walks. *)

(* The inductive invariant under Polled: the timer is there during a scan, *)
(* and a scan that has visited nothing so far still has before it all that *)
(* is on the lists. *)
Timed ==
  /\ Running => \A p \in Paths : subs[p] # {} => p \in all
  /\ Running /\ all \cup missing # {} => timer
  /\ pc # "idle" => timer
  /\ pc = "walk" /\ ~did => /\ walk = "all" => left = all
                            /\ walk = "missing" => all = {} /\ left = missing
  /\ pc \in {"dir", "kids", "after"} => did

LEMMA AddTimed ==
  ASSUME Types, Nodes, Timed, NEW s \in Subs, gam_poll_basic_add_subscription(s)
  PROVE  Timed'
<1>1. subs' = [subs EXCEPT ![SubPath[s]] = @ \cup {s}]
  BY DEF gam_poll_basic_add_subscription, AddFile, AddMissingDir, AddDir, AddNode
<1>2. /\ pc = "idle" /\ pc' = pc /\ all' = all \cup {SubPath[s]} /\ timer' = TRUE
      /\ aborted' = aborted
  BY DEF gam_poll_basic_add_subscription, scanVars
<1> QED
  BY <1>1, <1>2 DEF Timed, Types, Running

LEMMA RemoveTimed ==
  ASSUME Types, Nodes, Timed, NEW s \in Subs, gam_poll_basic_remove_subscription(s)
  PROVE  Timed'
<1>1. PICK off \in SUBSET Paths :
        /\ all' = all \ off /\ missing' = missing \ off /\ \A q \in off : subs'[q] = {}
        /\ subs' = [subs EXCEPT ![SubPath[s]] = @ \ {s}]
  BY Removal DEF Nodes
<1>2. pc = "idle" /\ pc' = pc /\ timer' = timer /\ Running
  BY DEF gam_poll_basic_remove_subscription, scanVars
<1>3. all \cup missing # {} => timer
  BY <1>2 DEF Timed
<1>4. \A p \in Paths : subs'[p] # {} => subs[p] # {} /\ p \notin off
  BY <1>1 DEF Types
<1> QED
  BY <1>1, <1>2, <1>3, <1>4 DEF Timed

LEMMA ScanTimed ==
  ASSUME Types, Nodes, Timed, Scan
  PROVE  Timed'
<1>1. CASE scan_callback
  BY <1>1 DEF scan_callback, Timed, Running, nodeVars
<1>2. CASE EndOfList
  BY <1>2 DEF EndOfList, Timed, Types, Running, nodeVars
<1>3. CASE AfterVisit
  <2>1. did /\ timer /\ did' = did /\ timer' = timer /\ aborted' = aborted /\ subs' = subs
    BY <1>3 DEF AfterVisit, Timed, nodeVars
  <2>2. all \subseteq all'
    BY <1>3 DEF AfterVisit
  <2> QED
    BY <1>3, <2>1, <2>2 DEF AfterVisit, Timed, Running
<1>4. CASE ReadDirectory \/ ChildrenDone \/ \E n \in Paths : Visit(n) \/ PollChild(n)
  <2>1. pc # "idle" /\ pc' \in {"dir", "kids", "after"} /\ timer' = timer
    BY <1>4 DEF ReadDirectory, ChildrenDone, Visit, PollChild
  <2>2. did'
    BY <1>4 DEF ReadDirectory, ChildrenDone, Visit, PollChild, Timed
  <2>3. all' = all /\ subs' = subs /\ aborted' = aborted
    BY <1>4 DEF ReadDirectory, ChildrenDone, Visit, PollChild, nodeVars
  <2> QED
    BY <2>1, <2>2, <2>3 DEF Timed, Running
<1> QED
  BY <1>1, <1>2, <1>3, <1>4 DEF Scan

LEMMA NextTimed ==
  ASSUME Types, Nodes, Timed, Next
  PROVE  Timed'
<1>1. CASE FileSystem
  BY <1>1 DEF FileSystem, Timed, Running, nodeVars, scanVars
<1>2. CASE \E p \in Paths : TimePasses(p)
  BY <1>2 DEF TimePasses, Timed, Running, scanVars
<1> QED
  BY <1>1, <1>2, AddTimed, RemoveTimed, ScanTimed DEF Next

-----------------------------------------------------------------------------
(* The inductive invariant. *)
Inv == Types /\ Nodes /\ Timed

LEMMA InitInv == Init => Inv
<1> SUFFICES ASSUME Init PROVE Inv
  OBVIOUS
<1>1. Types
  BY DEF Init, Types
<1>2. Nodes
  BY DEF Init, Nodes, Rooted, RootedTree
<1>3. Timed
  BY DEF Init, Timed
<1> QED
  BY <1>1, <1>2, <1>3 DEF Inv

LEMMA NextInv == Inv /\ [Next]_vars => Inv'
<1>1. CASE Next
  BY <1>1, NextTypes, NextNodes, NextTimed DEF Inv, Nodes
<1>2. CASE UNCHANGED vars
  BY <1>2 DEF Inv, Types, Nodes, Rooted, RootedTree, Timed, Running, vars, fsVars, nodeVars, scanVars
<1> QED
  BY <1>1, <1>2

LEMMA SpecInv == Spec => []Inv
  BY InitInv, NextInv, PTL DEF Spec

(* In every reachable state the variables have their types, and the scan   *)
(* has a node in hand wherever it uses one.                                *)
THEOREM PollTypeCorrect == Spec => []TypeOK
<1>1. Inv => TypeOK
  BY TypesSuffice DEF Inv
<1> QED
  BY <1>1, SpecInv, PTL

(* No list, no flag and no variable of the scan ever refers to a node that *)
(* gam_poll_basic_remove_subscription freed, nor to one whose parent was   *)
(* freed (gam_tree.c, gam_poll_generic_prune_tree).                        *)
THEOREM NoFreedNodeReachable == Spec => []NoFreedNode
<1>1. Inv => NoFreedNode
  <2>1. ASSUME Inv, NEW p \in tree, Parent[p] # Root
        PROVE  Parent[p] \in tree
    <3>1. p \in Paths /\ Above[p] \subseteq tree
      BY <2>1 DEF Inv, Types, Nodes, Rooted, RootedTree
    <3> QED
      BY <2>1, <3>1, TreeShape
  <2> QED
    BY <2>1 DEF Inv, Nodes, NoFreedNode
<1> QED
  BY <1>1, SpecInv, PTL

(* A path with a subscription is on the list the timer walks, and the      *)
(* timer, which removes itself when a scan finds both lists empty, is      *)
(* there whenever one is not (gam_poll_basic_scan_callback).               *)
THEOREM SubscribedIsPolled == Spec => []Polled
<1>1. Inv => Polled
  BY DEF Inv, Timed, Polled
<1> QED
  BY <1>1, SpecInv, PTL

-----------------------------------------------------------------------------
(* The nodes are a cache of the file system. *)

Truth(p) == IF fs[p] # "none" THEN "present" ELSE "absent"

(* What is known of q is left alone, brought up to date or forgotten. *)
Fresh(q) == Known(q)' \in {Known(q), Truth(q), "unknown"}

(* A poll brings what is known of its path up to date, or leaves it alone  *)
(* (stat fails with ENOTDIR). *)
LEMMA PollIsFresh ==
  ASSUME Types, Nodes, NEW p \in Paths, NEW q \in Paths,
         polled' = polled \cup {p},
         gone' = IF FlagAfter(p, p \notin polled, p \in gone) THEN gone \cup {p} ELSE gone \ {p}
  PROVE  Fresh(q)
<1>1. CASE q # p
  BY <1>1 DEF Fresh, Known
<1>2. CASE q = p
  <2>1. q \in polled' /\ (q \in gone' <=> FlagAfter(p, p \notin polled, p \in gone))
    BY <1>2
  <2>2. FlagAfter(p, p \notin polled, p \in gone)
          <=> fs[p] = "none" /\ (p \notin polled \/ p \in gone \/ ~NotDir(fs, p))
    BY DEF FlagAfter
  <2>3. CASE fs[p] # "none"
    BY <1>2, <2>1, <2>2, <2>3 DEF Fresh, Known, Truth
  <2>4. CASE fs[p] = "none" /\ q \in gone'
    BY <1>2, <2>1, <2>4 DEF Fresh, Known, Truth
  <2>5. CASE fs[p] = "none" /\ q \notin gone'
    BY <1>2, <2>1, <2>2, <2>5 DEF Fresh, Known
  <2> QED
    BY <2>3, <2>4, <2>5
<1> QED
  BY <1>1, <1>2

LEMMA PollAndReportIsFresh ==
  ASSUME Types, Nodes, NEW p \in Paths, NEW q \in Paths,
         Polls(p) \/ PollAndReport(p)
  PROVE  Fresh(q)
<1>1. CASE Polls(p)
  BY <1>1, PollIsFresh DEF Polls
<1>2. CASE PollAndReport(p) /\ Throttled(p)
  BY <1>2 DEF PollAndReport, Fresh, Known
<1>3. CASE PollAndReport(p) /\ ~Throttled(p)
  BY <1>1, <1>3 DEF PollAndReport
<1> QED
  BY <1>1, <1>2, <1>3

LEMMA AddIsFresh ==
  ASSUME Types, Nodes, NEW s \in Subs, gam_poll_basic_add_subscription(s), NEW q \in Paths
  PROVE  Fresh(q)
<1>p. PICK p \in Paths : p = SubPath[s]
  OBVIOUS
<1>1. CASE AddFile(s)
  <2>1. CASE Throttled(p)
    <3>1. polled' = polled /\ gone' = gone
      BY <1>p, <1>1, <2>1 DEF AddFile, Throttled
    <3> QED
      BY <3>1 DEF Fresh, Known
  <2>2. CASE ~Throttled(p)
    <3>1. /\ polled' = polled \cup {p}
          /\ gone' = IF FlagAfter(p, p \notin polled, p \in gone)
                     THEN gone \cup {p} ELSE gone \ {p}
      BY <1>p, <1>1, <2>2 DEF AddFile
    <3> QED
      BY <3>1, PollIsFresh
  <2> QED
    BY <2>1, <2>2
<1>2. CASE AddMissingDir(s)
  BY <1>p, <1>2 DEF AddMissingDir, Fresh, Known, Truth
<1>3. CASE AddDir(s)
  <2>n. PICK nodes \in SUBSET Paths :
          nodes = (IF fs[p] = "dir" THEN Entries(fs, p) ELSE {}) \ tree
    BY DEF Entries
  <2>1. fs[p] # "none" /\ polled' = polled \cup {p} \cup nodes /\ gone' = gone
    BY <1>p, <1>3, <2>n DEF AddDir
  <2>2. \A x \in nodes : fs[x] # "none" /\ x \notin gone
    BY <2>n DEF Entries, Nodes
  <2>3. p \notin polled => p \notin gone
    BY DEF Nodes
  <2> QED
    BY <2>1, <2>2, <2>3 DEF Fresh, Known, Truth
<1> QED
  BY <1>1, <1>2, <1>3 DEF gam_poll_basic_add_subscription

LEMMA RemoveIsFresh ==
  ASSUME Types, Nodes, NEW s \in Subs, gam_poll_basic_remove_subscription(s), NEW q \in Paths
  PROVE  Fresh(q)
<1>1. PICK dead : Frees(dead)
  BY Removal DEF Nodes
<1> QED
  BY <1>1 DEF Frees, Fresh, Known

LEMMA ScanIsFresh ==
  ASSUME Types, Nodes, Scan, NEW q \in Paths
  PROVE  Fresh(q)
<1>1. CASE scan_callback \/ EndOfList \/ AfterVisit \/ ChildrenDone \/ ReadDirectory
  <2>1. polled' = polled /\ gone' = gone
    BY <1>1 DEF scan_callback, EndOfList, AfterVisit, ChildrenDone, ReadDirectory, nodeVars
  <2> QED
    BY <2>1 DEF Fresh, Known
<1>2. ASSUME NEW n \in Paths, Visit(n)
      PROVE  Fresh(q)
  <2>1. CASE PollAndReport(n)
    BY <2>1, PollAndReportIsFresh
  <2>2. CASE UNCHANGED <<gone, polled>>
    BY <2>2 DEF Fresh, Known
  <2> QED
    BY <1>2, <2>1, <2>2 DEF Visit
<1>3. ASSUME NEW c \in Paths, PollChild(c)
      PROVE  Fresh(q)
  BY <1>3, PollAndReportIsFresh DEF PollChild
<1> QED
  BY <1>1, <1>2, <1>3 DEF Scan

(* The nodes implement the cache of module Monitor: whatever the order of  *)
(* polls, file system changes, subscriptions and removals, MON_MISSING     *)
(* changes only to what stat shows at that moment, and a new node inherits *)
(* nothing from a freed one.                                               *)
THEOREM NodesAreACache == Spec => CacheOfFs
<1> DEFINE There == {p \in Paths : fs[p] # "none"}
           Know  == [p \in Paths |-> Known(p)]
<1>1. Init => Cache!Init
  BY DEF Init, Cache!Init, Known
<1>2. Inv /\ [Next]_vars => [Cache!Change \/ Cache!Refresh]_<<There, Know>>
  <2>1. CASE FileSystem
    <3>1. Know' = Know
      BY <2>1 DEF FileSystem, nodeVars, Known
    <3>2. There' \in SUBSET Paths
      OBVIOUS
    <3> QED
      BY <3>1, <3>2 DEF Cache!Change
  <2>2. ASSUME Inv, Next, ~FileSystem
        PROVE  Cache!Refresh
    <3>1. fs' = fs
      BY <2>2 DEF Next, Scan, TimePasses, gam_poll_basic_add_subscription,
         gam_poll_basic_remove_subscription, scan_callback, EndOfList, AfterVisit,
         ChildrenDone, ReadDirectory, Visit, PollChild, fsVars
    <3>2. ASSUME NEW q \in Paths
          PROVE  Fresh(q)
      <4>1. CASE \E p \in Paths : TimePasses(p)
        BY <4>1 DEF TimePasses, Fresh, Known
      <4> QED
        BY <2>2, <4>1, AddIsFresh, RemoveIsFresh, ScanIsFresh DEF Next, Inv
    <3>3. There' = There
      BY <3>1
    <3>4. Know' \in [Paths -> Cache!Answers]
      BY DEF Known, Cache!Answers
    <3>5. \A q \in Paths : Cache!Truth(q) = Truth(q)
      BY DEF Cache!Truth, Truth
    <3>6. \A q \in Paths : Know'[q] \in {Know[q], Cache!Truth(q), "unknown"}
      BY <3>2, <3>5 DEF Fresh
    <3> QED
      BY <3>3, <3>4, <3>6 DEF Cache!Refresh
  <2>3. CASE UNCHANGED vars
    <3>1. There' = There /\ Know' = Know
      BY <2>3 DEF vars, fsVars, nodeVars, Known
    <3> QED
      BY <3>1
  <2> QED
    BY <2>1, <2>2, <2>3
<1> QED
  BY <1>1, <1>2, SpecInv, PTL DEF Spec, CacheOfFs, Cache!Spec

-----------------------------------------------------------------------------
(* What the subscriptions are told. *)

(* The event a poll finds, and what it means for MON_MISSING. *)
LEMMA PollFile ==
  ASSUME Nodes, NEW p \in Paths
  PROVE  LET ev   == poll_file(p, p \notin polled, p \in gone)
             flag == FlagAfter(p, p \notin polled, p \in gone)
         IN  \/ ev = "Deleted" /\ flag
             \/ ev = "Created" /\ ~flag
             \/ ev = "Changed" /\ ~flag /\ p \notin gone
             \/ ev = "none" /\ (flag <=> p \in gone)
<1> DEFINE ev   == poll_file(p, p \notin polled, p \in gone)
           flag == FlagAfter(p, p \notin polled, p \in gone)
           A1 == fs[p] = "none" /\ (p \notin polled \/ (p \notin gone /\ ~NotDir(fs, p)))
           A2 == fs[p] # "none" /\ p \in polled /\ p \in gone
           A3 == fs[p] # "none" /\ p \in polled /\ p \notin gone /\ p \in stale
<1>0. flag <=> fs[p] = "none" /\ (p \notin polled \/ p \in gone \/ ~NotDir(fs, p))
  BY DEF FlagAfter
<1>1. CASE A1
  <2>1. ev = "Deleted"
    BY <1>1 DEF poll_file
  <2> QED
    BY <1>0, <1>1, <2>1
<1>2. CASE A2
  <2>1. ev = "Created"
    BY <1>2 DEF poll_file
  <2> QED
    BY <1>0, <1>2, <2>1
<1>3. CASE A3
  <2>1. ev = "Changed"
    BY <1>3 DEF poll_file
  <2> QED
    BY <1>0, <1>3, <2>1
<1>4. CASE ~A1 /\ ~A2 /\ ~A3
  <2>1. ev = "none"
    BY <1>4 DEF poll_file
  <2> QED
    BY <1>0, <1>4, <2>1 DEF Nodes
<1> QED
  BY <1>1, <1>2, <1>3, <1>4

(* A subscription knows what the node of p holds, or is excused. *)
Hears(s, p) == p \in behind[s] \/ (p \in told[s] <=> p \notin gone)

(* The inductive invariant under Informed: a node found by the scan is not *)
(* reported before it is polled. *)
Hearing ==
  Running => \A s \in Active : \A p \in (Watches(s) \cap tree) \ new : Hears(s, p)

(* Whoever watches a path is among those its creation and deletion are     *)
(* reported to. *)
LEMMA WatchersAreTold ==
  ASSUME NEW s \in Active, NEW p \in Watches(s), NEW ev, NEW d, ev # "Changed"
  PROVE  s \in Audience(subs, p, ev, d)
<1>1. s \in Subs /\ s \in subs[SubPath[s]] /\ SubPath[s] \in Paths /\ p \in Paths
  BY DEF Active, Watches
<1>2. CASE p = SubPath[s]
  BY <1>1, <1>2 DEF Audience
<1>3. CASE SubIsDir[s] /\ Parent[p] = SubPath[s]
  BY <1>1, <1>3 DEF Audience, Subscriptions
<1> QED
  BY <1>2, <1>3 DEF Watches

(* The other paths are left alone by a poll with its report. *)
LEMMA OthersHear ==
  ASSUME Types, NEW n \in Paths, NEW ev, Polls(n), Reports(n, ev),
         NEW s \in Subs, NEW q \in Paths, q # n, Hears(s, q),
         q \in behind[s] => q \in behind'[s]
  PROVE  Hears(s, q)'
<1>1. q \in gone' <=> q \in gone
  BY DEF Polls
<1>2. q \in told'[s] <=> q \in told[s]
  <2> DEFINE to == IF ev = "none" THEN {} ELSE Audience(subs, n, ev, isDir'[n])
  <2>1. told' = [x \in Subs |-> IF x \notin to THEN told[x]
                                ELSE IF ev = "Deleted" THEN told[x] \ {n}
                                ELSE told[x] \cup {n}]
    BY DEF Reports
  <2> HIDE DEF to
  <2> QED
    BY <2>1
<1> QED
  BY <1>1, <1>2 DEF Hears

LEMMA PollIsHeard ==
  ASSUME Types, Nodes, NEW n \in Paths, PollAndReport(n),
         NEW s \in Active, NEW q \in Watches(s), Hears(s, q)
  PROVE  Hears(s, q)'
<1>0. s \in Subs /\ q \in Paths
  BY DEF Active, Watches
<1>1. CASE Throttled(n)
  BY <1>1 DEF PollAndReport, Hears
<1>2. CASE ~Throttled(n)
  <2>e. PICK ev : ev = poll_file(n, n \notin polled, n \in gone)
    OBVIOUS
  <2>1. Polls(n) /\ Reports(n, ev) /\ CaughtUp(n, ev)
    BY <1>2, <2>e DEF PollAndReport
  <2>t. PICK to : to = IF ev = "none" THEN {} ELSE Audience(subs, n, ev, isDir'[n])
    OBVIOUS
  <2>2. told'[s] = IF s \notin to THEN told[s]
                   ELSE IF ev = "Deleted" THEN told[s] \ {n} ELSE told[s] \cup {n}
    BY <1>0, <2>1, <2>t DEF Reports
  <2>3. behind'[s] = IF s \in to THEN behind[s] \ {n} ELSE behind[s]
    BY <1>0, <2>1, <2>t DEF CaughtUp
  <2>4. CASE q # n
    <3>1. q \in behind[s] => q \in behind'[s]
      BY <2>3, <2>4
    <3> QED
      BY <1>0, <2>1, <2>4, <3>1, OthersHear
  <2>5. CASE q = n
    <3>1. n \in gone' <=> FlagAfter(n, n \notin polled, n \in gone)
      BY <2>1 DEF Polls
    <3>2. ev \in {"Deleted", "Created"} => s \in to
      BY <2>5, <2>t, WatchersAreTold
    <3>3. \/ ev = "Deleted" /\ n \in gone'
          \/ ev = "Created" /\ n \notin gone'
          \/ ev = "Changed" /\ n \notin gone' /\ n \notin gone
          \/ ev = "none" /\ (n \in gone' <=> n \in gone)
      BY <2>e, <3>1, PollFile
    <3>4. ev = "none" => to = {}
      BY <2>t
    <3> QED
      BY <2>2, <2>3, <2>5, <3>2, <3>3, <3>4 DEF Hears
  <2> QED
    BY <2>4, <2>5
<1> QED
  BY <1>1, <1>2

(* A node found by the scan is reported as created; whoever hears that of  *)
(* a file that is gone again is excused. *)
LEMMA NewIsHeard ==
  ASSUME Types, Nodes, NEW c \in Paths, PollChild(c), c \in new,
         NEW s \in Active, NEW q \in Watches(s), q = c \/ Hears(s, q)
  PROVE  Hears(s, q)'
<1>0. s \in Subs /\ q \in Paths
  BY DEF Active, Watches
<1>e. PICK ev : ev = poll_file(c, c \notin polled, c \in gone)
  OBVIOUS
<1>t. PICK to : to = Audience(subs, c, "Created", FALSE)
  OBVIOUS
<1>1. Polls(c) /\ Reports(c, "Created")
  BY DEF PollChild
<1>2. behind'[s] = IF s \notin to THEN behind[s]
                   ELSE IF ev = "Deleted" THEN behind[s] \cup {c} ELSE behind[s] \ {c}
  BY <1>0, <1>e, <1>t DEF PollChild
<1>3. CASE q # c
  <2>1. q \in behind[s] => q \in behind'[s]
    BY <1>2, <1>3
  <2> QED
    BY <1>0, <1>1, <1>3, <2>1, OthersHear
<1>4. CASE q = c
  <2>1. s \in to /\ s \in Audience(subs, c, "Created", isDir'[c])
    BY <1>4, <1>t, WatchersAreTold
  <2>2. c \in told'[s]
    BY <1>0, <1>1, <2>1 DEF Reports
  <2>3. c \in gone' <=> FlagAfter(c, c \notin polled, c \in gone)
    BY <1>1 DEF Polls
  <2>4. c \notin polled /\ c \notin gone
    BY DEF Nodes
  <2>5. ev # "Deleted" => c \notin gone'
    BY <1>e, <2>3, <2>4, PollFile
  <2> QED
    BY <1>2, <1>4, <2>1, <2>2, <2>5 DEF Hears
<1> QED
  BY <1>3, <1>4

LEMMA AddHearing ==
  ASSUME Types, Nodes, Hearing, NEW s \in Subs, gam_poll_basic_add_subscription(s)
  PROVE  Hearing'
<1>p. PICK p \in Paths : p = SubPath[s]
  OBVIOUS
<1>1. /\ \E says : FirstReport(s, says)
      /\ subs' = [subs EXCEPT ![p] = @ \cup {s}]
      /\ \A q \in Paths : q # p => (q \in gone' <=> q \in gone)
  BY <1>p DEF gam_poll_basic_add_subscription, AddFile, AddMissingDir, AddDir, AddNode
<1>2. Running /\ Running' /\ new = {} /\ new' = {}
  BY DEF gam_poll_basic_add_subscription, scanVars, Running, Nodes
<1>3. Active' \subseteq Active \cup {s}
  BY <1>p, <1>1 DEF Active, Types
<1> SUFFICES ASSUME NEW b \in Active', NEW q \in Watches(b), q \in tree'
             PROVE  Hears(b, q)'
  BY DEF Hearing, Watches
<1>4. b \in Subs /\ q \in Paths
  BY DEF Active, Watches
<1> DEFINE over == IF b = s THEN tree' ELSE {p} \cup (tree' \ tree)
           kept == IF b = s THEN {} ELSE behind[b]
           lag  == {x \in Watches(b) \cap over : (x \in told'[b]) # (x \notin gone')}
<1>5. behind'[b] = kept \cup lag
  BY <1>p, <1>1, <1>3, <1>4 DEF FirstReport
<1>6. CASE q \in over
  <2>1. q \in lag \/ (q \in told'[b] <=> q \notin gone')
    BY <1>6
  <2> QED
    BY <1>5, <2>1 DEF Hears
<1>7. CASE q \notin over
  <2>1. b # s /\ b \in Active /\ q # p /\ q \in tree
    BY <1>3, <1>7
  <2>2. Hears(b, q)
    BY <1>2, <2>1 DEF Hearing
  <2>3. told'[b] = told[b]
    BY <1>1, <1>4, <2>1 DEF FirstReport, Types
  <2>4. q \in behind[b] => q \in behind'[b]
    BY <1>5, <2>1
  <2> QED
    BY <1>1, <1>4, <2>1, <2>2, <2>3, <2>4 DEF Hears
<1> QED
  BY <1>6, <1>7

LEMMA RemoveHearing ==
  ASSUME Types, Nodes, Hearing, NEW s \in Subs, gam_poll_basic_remove_subscription(s)
  PROVE  Hearing'
<1>1. PICK dead : Frees(dead) /\ subs' = [subs EXCEPT ![SubPath[s]] = @ \ {s}]
  BY Removal DEF Nodes
<1>2. /\ Running /\ new' = new
      /\ told' = [told EXCEPT ![s] = {}] /\ behind' = [behind EXCEPT ![s] = {}]
  BY DEF gam_poll_basic_remove_subscription, scanVars
<1> SUFFICES ASSUME NEW b \in Active', NEW q \in Watches(b), q \in tree', q \notin new
             PROVE  Hears(b, q)'
  BY <1>2 DEF Hearing, Watches
<1>3. b \in Subs /\ b \in subs'[SubPath[b]] /\ q \in tree /\ q \notin dead
  BY <1>1 DEF Active, Frees
<1>4. b # s /\ b \in Active
  BY <1>1, <1>3 DEF Active, Types
<1>5. Hears(b, q)
  BY <1>2, <1>3, <1>4 DEF Hearing
<1>6. told'[b] = told[b] /\ behind'[b] = behind[b]
  BY <1>2, <1>3, <1>4 DEF Types
<1>7. q \in gone' <=> q \in gone
  BY <1>1, <1>3 DEF Frees
<1> QED
  BY <1>5, <1>6, <1>7 DEF Hears

LEMMA ScanHearing ==
  ASSUME Types, Nodes, Hearing, Scan
  PROVE  Hearing'
<1>1. CASE scan_callback \/ EndOfList \/ AfterVisit \/ ChildrenDone
  <2>1. UNCHANGED <<subs, tree, gone, new, aborted, told, behind>>
    BY <1>1 DEF scan_callback, EndOfList, AfterVisit, ChildrenDone, nodeVars
  <2> QED
    BY <2>1 DEF Hearing, Active, Running, Hears
<1>2. CASE ReadDirectory
  <2>1. UNCHANGED <<subs, gone, aborted, told, behind>>
    BY <1>2 DEF ReadDirectory
  <2>2. tree' \ new' \subseteq tree \ new
    <3>1. new = {}
      BY <1>2 DEF ReadDirectory, Nodes
    <3> QED
      BY <1>2, <3>1 DEF ReadDirectory
  <2> QED
    BY <2>1, <2>2 DEF Hearing, Active, Running, Hears
<1>3. ASSUME NEW n \in Paths, Visit(n)
      PROVE  Hearing'
  <2>1. UNCHANGED <<subs, tree, new, aborted>>
    BY <1>3 DEF Visit
  <2>2. CASE PollAndReport(n)
    BY <2>1, <2>2, PollIsHeard DEF Hearing, Active, Running
  <2>3. CASE UNCHANGED <<gone, told, behind>>
    BY <2>1, <2>3 DEF Hearing, Active, Running, Hears
  <2> QED
    BY <1>3, <2>2, <2>3 DEF Visit
<1>4. ASSUME NEW c \in Paths, PollChild(c)
      PROVE  Hearing'
  <2>1. UNCHANGED <<subs, tree, aborted>> /\ new' = new \ {c}
    BY <1>4 DEF PollChild
  <2>2. Active' = Active /\ (Running' <=> Running)
    BY <2>1 DEF Active, Running
  <2> SUFFICES ASSUME Running, NEW s \in Active, NEW q \in Watches(s), q \in tree, q \notin new'
               PROVE  Hears(s, q)'
    BY <2>1, <2>2 DEF Hearing
  <2>3. CASE c \in new
    <3>1. q = c \/ Hears(s, q)
      BY <2>1 DEF Hearing
    <3> QED
      BY <1>4, <2>3, <3>1, NewIsHeard
  <2>4. CASE c \notin new
    <3>1. Hears(s, q) /\ PollAndReport(c)
      BY <1>4, <2>1, <2>4 DEF Hearing, PollChild
    <3> QED
      BY <3>1, PollIsHeard
  <2> QED
    BY <2>3, <2>4
<1> QED
  BY <1>1, <1>2, <1>3, <1>4 DEF Scan

LEMMA NextHearing == Inv /\ Hearing /\ [Next]_vars => Hearing'
<1> SUFFICES ASSUME Inv, Hearing, [Next]_vars PROVE Hearing'
  OBVIOUS
<1>1. CASE FileSystem \/ (\E p \in Paths : TimePasses(p)) \/ UNCHANGED vars
  <2>1. UNCHANGED <<subs, tree, gone, new, aborted, told, behind>>
    BY <1>1 DEF FileSystem, TimePasses, vars, nodeVars, scanVars
  <2> QED
    BY <2>1 DEF Hearing, Active, Running, Hears
<1> QED
  BY <1>1, AddHearing, RemoveHearing, ScanHearing DEF Next, Inv

(* Between scans every subscription was last told of each path it watches  *)
(* what the node of the path holds, the paths of `behind' excepted:        *)
(* MON_MISSING never changes without the event for it reaching everyone    *)
(* who watches (gam_node_emit_event, gam_poll_generic_scan_directory).     *)
THEOREM SubscribersAreInformed == Spec => []Informed
<1>1. Init => Hearing
  BY DEF Init, Hearing, Active
<1>2. Inv /\ Hearing => Informed
  <2>1. ASSUME Inv, pc = "idle"
        PROVE  new = {}
    BY <2>1 DEF Inv, Nodes
  <2>2. ASSUME NEW s, NEW p, Hears(s, p)
        PROVE  p \in behind[s] \/ (p \in told[s]) = (p \notin gone)
    BY <2>2 DEF Hears
  <2> QED
    BY <2>1, <2>2 DEF Informed, Hearing
<1> QED
  BY <1>1, <1>2, NextHearing, SpecInv, PTL DEF Spec
=============================================================================
