----------------------------- MODULE PollBasic -----------------------------
(***************************************************************************)
(* The basic poll backend (gam_poll_basic.c on gam_poll_generic.c): a      *)
(* timer that walks the list of nodes with subscriptions and the list of   *)
(* missing ones, compares each with the file system and reports the        *)
(* difference.                                                             *)
(*                                                                         *)
(* The file system changes between any two nodes the scan looks at, so a   *)
(* scan is a sequence of actions; adding and removing a subscription are   *)
(* callbacks of the same main loop and happen between scans.  Of the time  *)
(* stamps the model keeps what the code asks: was the node ever polled     *)
(* (lasttime not 0), and did poll_time seconds pass since.                 *)
(***************************************************************************)
EXTENDS PollTree

CONSTANTS
  Slow,       \* paths whose file system has a poll_timeout other than 0
  FileOrDir   \* paths where both a file and a directory may appear; others keep one kind

ASSUME PollSets == Slow \subseteq Paths /\ FileOrDir \subseteq Paths

VARIABLES
  fs,         \* what is at each path
  stale,      \* polled nodes whose sbuf is not what stat would return now
  tree,       \* the nodes
  isDir,      \* node->is_dir
  subs,       \* node->subs
  gone,       \* nodes with MON_MISSING
  polled,     \* nodes with a lasttime
  waiting,    \* of these, the ones polled less than poll_time ago
  all,        \* all_resources
  missing,    \* missing_resources
  timer,      \* scan_callback_running
  pc,         \* where the scan is: "idle", "walk", "dir", "kids", "after"
  walk,       \* the list it walks: "all" or "missing"
  left,       \* the nodes of the list it has still to visit
  idx,        \* how many it visited
  cur,        \* the node it visits
  kids,       \* children of cur it has still to poll
  new,        \* nodes with FLAG_NEW_NODE
  did,        \* did_something
  aborted,    \* a g_assert failed
  told,       \* history: the paths each subscription was told exist
  behind      \* history: the paths each subscription was not told the state of

fsVars   == <<fs, stale>>
nodeVars == <<tree, isDir, subs, gone, polled, waiting>>
scanVars == <<pc, walk, left, idx, cur, kids, new, did>>
vars     == <<fsVars, nodeVars, all, missing, timer, scanVars, aborted, told, behind>>

Running == ~aborted
Active  == {s \in Subs : s \in subs[SubPath[s]]}

(* Every path a subscription is told about: its own and, for a directory,  *)
(* the ones in it. *)
Watches(s) == {p \in Paths : p = SubPath[s] \/ (SubIsDir[s] /\ Parent[p] = SubPath[s])}

-----------------------------------------------------------------------------
(* gam_poll_basic_poll_file.  The arguments are what the node holds: a     *)
(* node just made was never polled and has no flag. *)

Throttled(p) == p \in polled /\ p \in waiting

poll_file(p, isNew, flagged) ==
  CASE fs[p] = "none" /\ (isNew \/ (~flagged /\ ~NotDir(fs, p))) -> "Deleted"
    [] fs[p] # "none" /\ ~isNew /\ flagged                       -> "Created"
    [] fs[p] # "none" /\ ~isNew /\ ~flagged /\ p \in stale        -> "Changed"
    [] OTHER                                                      -> "none"

(* Faulty variants: a missing path that appears keeps its flag; the first  *)
(* poll sets none. *)
FlagAfter_Kept(p, isNew, flagged) ==
  flagged \/ (fs[p] = "none" /\ (isNew \/ ~NotDir(fs, p)))
FlagAfter_Later(p, isNew, flagged) ==
  fs[p] = "none" /\ ~isNew /\ (flagged \/ ~NotDir(fs, p))

(* MON_MISSING after the poll. *)
FlagAfter(p, isNew, flagged) ==
  fs[p] = "none" /\ (isNew \/ flagged \/ ~NotDir(fs, p))

(* What the poll of an old node, or of a new one, does to the node: is_dir, *)
(* flags, sbuf, lasttime and the missing list. *)
Polls(p) ==
  LET first == p \notin polled
      ev    == poll_file(p, first, p \in gone)
  IN  /\ isDir'   = [isDir EXCEPT ![p] = NodeKind(fs, p, isDir[p])]
      /\ gone'    = IF FlagAfter(p, first, p \in gone) THEN gone \cup {p} ELSE gone \ {p}
      /\ stale'   = stale \ {p}
      /\ polled'  = polled \cup {p}
      /\ waiting' = IF p \in Slow THEN waiting \cup {p} ELSE waiting
      /\ missing' = CASE ev = "Deleted" /\ ~first -> missing \cup {p}
                      [] ev = "Created"           -> missing \ {p}
                      [] OTHER                    -> missing

(* Reports an event on p to those who want it, gam_node_emit_event. *)
Reports(p, ev) ==
  LET to == IF ev = "none" THEN {} ELSE Audience(subs, p, ev, isDir'[p])
  IN  told' = [s \in Subs |-> IF s \notin to THEN told[s]
                              ELSE IF ev = "Deleted" THEN told[s] \ {p}
                              ELSE told[s] \cup {p}]

(* The subscriptions that hear the event know the state of p again. *)
CaughtUp(p, ev) ==
  LET to == IF ev = "none" THEN {} ELSE Audience(subs, p, ev, isDir'[p])
  IN  behind' = [s \in Subs |-> IF s \in to THEN behind[s] \ {p} ELSE behind[s]]

-----------------------------------------------------------------------------
(* The file system, changed by everybody. *)

CreateFile(p, k) ==
  /\ fs[p] = "none"
  /\ Parent[p] # Root => fs[Parent[p]] = "dir"
  /\ p \notin FileOrDir => k = (IF \E q \in Paths : Parent[q] = p THEN "dir" ELSE "file")
  /\ fs' = Created(fs, p, k)
  /\ stale' = stale \cup (polled \cap {p, Parent[p]})

RemoveFile(p) ==
  /\ fs[p] # "none"
  /\ fs' = Removed(fs, p)
  /\ stale' = stale \cup (polled \cap {Parent[p]})

ChangeFile(p) ==
  /\ fs[p] # "none" /\ p \in polled
  /\ stale' = stale \cup {p}
  /\ fs' = fs

FileSystem ==
  /\ \E p \in Paths : \/ \E k \in {"file", "dir"} : CreateFile(p, k)
                      \/ RemoveFile(p)
                      \/ ChangeFile(p)
  /\ UNCHANGED <<nodeVars, all, missing, timer, scanVars, aborted, told, behind>>

(* poll_time seconds pass since p was polled; within a scan the time does  *)
(* not move (gam_poll_generic_update_time). *)
TimePasses(p) ==
  /\ pc = "idle" /\ p \in waiting
  /\ waiting' = waiting \ {p}
  /\ UNCHANGED <<fsVars, tree, isDir, subs, gone, polled, all, missing, timer,
                 scanVars, aborted, told, behind>>

-----------------------------------------------------------------------------
(* gam_poll_basic_add_subscription. *)

(* The node of the path, made with the ones above it if need be. *)
AddNode(s) ==
  LET p     == SubPath[s]
      fresh == gam_tree_add_at_path(tree, p) \ tree
  IN  /\ tree' = tree \cup fresh
      /\ subs' = [subs EXCEPT ![p] = @ \cup {s}]

IsDirFor(s) ==
  LET p == SubPath[s] IN IF p \in tree THEN isDir[p] ELSE NodeKind(fs, p, SubIsDir[s])

(* The subscription is told that the paths of `says' exist.  Where that is *)
(* not what the node holds it is behind; so are the others who watch a     *)
(* node that was polled or made here: gam_server_emit_one_event tells      *)
(* nobody else what the poll found. *)
FirstReport(s, says) ==
  /\ told'   = [told EXCEPT ![s] = says]
  /\ behind' = [b \in Subs |->
       LET over == IF b = s THEN tree' ELSE {SubPath[s]} \cup (tree' \ tree)
           kept == IF b = s THEN {} ELSE behind[b]
       IN  IF b # s /\ b \notin Active THEN {}
           ELSE kept \cup {q \in Watches(b) \cap over : (q \in told'[b]) # (q \notin gone')}]

AddFile(s) ==
  LET p     == SubPath[s]
      fresh == gam_tree_add_at_path(tree, p) \ tree
      first == p \notin polled
      skip  == Throttled(p)
      ev    == IF skip THEN "none" ELSE poll_file(p, first, p \in gone)
      flag  == IF skip THEN p \in gone ELSE FlagAfter(p, first, p \in gone)
      says  == ev # "Deleted" /\ ~SubIsDir[s]
  IN  /\ ~IsDirFor(s)
      /\ AddNode(s)
      /\ isDir'   = [q \in Paths |-> IF q = p THEN ~skip /\ fs[p] = "dir"
                                     ELSE q \in fresh \/ isDir[q]]
      /\ gone'    = IF flag THEN gone \cup {p} ELSE gone \ {p}
      /\ stale'   = IF skip THEN stale ELSE stale \ {p}
      /\ polled'  = polled \cup {p}
      /\ waiting' = IF p \in Slow THEN waiting \cup {p} ELSE waiting
      /\ missing' = IF flag THEN missing \cup {p}
                    ELSE IF ev = "Created" THEN missing \ {p} ELSE missing
      /\ FirstReport(s, IF says THEN {p} ELSE {})

(* gam_poll_generic_first_scan_dir on a directory that is missing, or that *)
(* exists: then its entries get nodes and are reported. *)
AddMissingDir(s) ==
  LET p     == SubPath[s]
      fresh == gam_tree_add_at_path(tree, p) \ tree
  IN  /\ IsDirFor(s) /\ fs[p] = "none"
      /\ AddNode(s)
      /\ isDir'   = [q \in Paths |-> q = p \/ q \in fresh \/ isDir[q]]
      /\ gone'    = gone \cup {p}
      /\ polled'  = polled \cup {p}
      /\ waiting' = IF p \in Slow THEN waiting \cup {p} ELSE waiting
      /\ missing' = missing \cup {p}
      /\ FirstReport(s, {})
      /\ stale' = stale \ {p}

AddDir(s) ==
  LET p       == SubPath[s]
      first   == p \notin polled
      fresh   == gam_tree_add_at_path(tree, p) \ tree
      entries == IF fs[p] = "dir" THEN Entries(fs, p) ELSE {}
      nodes   == entries \ tree
      says    == (IF SubIsDir[s] THEN entries ELSE {}) \cup {p}
  IN  /\ IsDirFor(s) /\ fs[p] # "none"
      /\ tree'    = tree \cup fresh \cup nodes
      /\ subs'    = [subs EXCEPT ![p] = @ \cup {s}]
      /\ isDir'   = [q \in Paths |-> IF q \in nodes \/ (q = p /\ first) THEN fs[q] = "dir"
                                     ELSE q \in fresh \/ isDir[q]]
      /\ stale'   = stale \ (nodes \cup (IF first THEN {p} ELSE {}))
      /\ polled'  = polled \cup {p} \cup nodes
      /\ waiting' = waiting \cup (((IF first THEN {p} ELSE {}) \cup nodes) \cap Slow)
      /\ missing' = IF p \in gone THEN missing \cup {p} ELSE missing
      /\ UNCHANGED gone
      /\ FirstReport(s, says)

gam_poll_basic_add_subscription(s) ==
  /\ Running /\ pc = "idle" /\ s \notin Active
  /\ AddFile(s) \/ AddMissingDir(s) \/ AddDir(s)
  /\ all' = all \cup {SubPath[s]}
  /\ timer' = TRUE
  /\ UNCHANGED <<fs, scanVars, aborted>>

-----------------------------------------------------------------------------
(* gam_poll_basic_remove_subscription. *)

(* The nodes of `dead' are freed: unregistered from the lists and forgotten. *)
Frees(dead) ==
  /\ tree'    = tree \ dead
  /\ gone'    = gone \ dead
  /\ polled'  = polled \ dead
  /\ waiting' = waiting \ dead
  /\ stale'   = stale \ dead
  /\ isDir'   = [q \in Paths |-> isDir[q] /\ q \notin dead]

RemoveFileSub(s) ==
  LET p      == SubPath[s]
      after  == [subs EXCEPT ![p] = @ \ {s}]
      last   == after[p] = {}
      cut    == last /\ ~gam_node_has_dir_subscriptions(subs, isDir, Parent[p])
      dead   == IF cut THEN {p} \cup gam_poll_generic_prune_tree(tree \ {p}, after, Parent[p])
                ELSE {}
      broken == last /\ gam_tree_get_children(tree, p) # {}
  IN  /\ ~isDir[p]
      /\ subs' = after
      /\ aborted' = broken
      /\ Frees(IF broken THEN {} ELSE dead)
      /\ LET off == (IF last THEN {p} ELSE {}) \cup (IF broken THEN {} ELSE dead)
         IN  all' = all \ off /\ missing' = missing \ off

RemoveDirSub(s) ==
  LET p     == SubPath[s]
      after == [subs EXCEPT ![p] = @ \ {s}]
      cut   == after[p] = {} /\ ~gam_node_has_dir_subscriptions(after, isDir, Parent[p])
  IN  /\ isDir[p]
      /\ subs' = after
      /\ \E trim \in Trimmed(tree, after, p) :
           LET rest == tree \ trim
               self == IF cut /\ gam_tree_get_children(rest, p) = {} THEN {p} ELSE {}
               up   == IF cut THEN gam_poll_generic_prune_tree(rest \ self, after, Parent[p])
                       ELSE {}
               off  == trim \cup up \cup (IF cut THEN {p} ELSE {})
           IN  /\ Frees(trim \cup self \cup up)
               /\ all' = all \ off /\ missing' = missing \ off
      /\ UNCHANGED aborted

gam_poll_basic_remove_subscription(s) ==
  /\ Running /\ pc = "idle" /\ s \in Active
  /\ RemoveFileSub(s) \/ RemoveDirSub(s)
  /\ told'   = [told EXCEPT ![s] = {}]
  /\ behind' = [behind EXCEPT ![s] = {}]
  /\ UNCHANGED <<fs, timer, scanVars>>

-----------------------------------------------------------------------------
(* gam_poll_basic_scan_callback: first all_resources, then                 *)
(* missing_resources; without a node in either it removes its timer. *)

scan_callback ==
  /\ Running /\ pc = "idle" /\ timer
  /\ pc' = "walk" /\ walk' = "all" /\ left' = all /\ idx' = 0 /\ did' = FALSE
  /\ UNCHANGED <<fsVars, nodeVars, all, missing, timer, cur, kids, new, aborted, told, behind>>

(* Faulty variant: only the walk of the missing list keeps the timer. *)
EndOfList_Missing ==
  /\ pc = "walk" /\ left = {}
  /\ IF walk = "all"
     THEN walk' = "missing" /\ left' = missing /\ UNCHANGED <<pc, timer, did>>
     ELSE pc' = "idle" /\ timer' = (idx > 0) /\ did' = FALSE /\ walk' = "all" /\ UNCHANGED left
  /\ idx' = 0
  /\ UNCHANGED <<fsVars, nodeVars, all, missing, cur, kids, new, aborted, told, behind>>

EndOfList ==
  /\ pc = "walk" /\ left = {}
  /\ IF walk = "all"
     THEN walk' = "missing" /\ left' = missing /\ UNCHANGED <<pc, timer, did>>
     ELSE pc' = "idle" /\ timer' = did /\ did' = FALSE /\ walk' = "all" /\ UNCHANGED left
  /\ idx' = 0
  /\ UNCHANGED <<fsVars, nodeVars, all, missing, cur, kids, new, aborted, told, behind>>

PollAndReport(p) ==
  LET ev == poll_file(p, p \notin polled, p \in gone)
  IN  IF Throttled(p)
      THEN UNCHANGED <<stale, isDir, gone, polled, waiting, missing, told, behind>>
      ELSE Polls(p) /\ Reports(p, ev) /\ CaughtUp(p, ev)

(* A file is polled; a directory without subscription has its children     *)
(* polled; one with a subscription is polled, unless it was polled less    *)
(* than poll_time ago, and then read. *)
Visit(n) ==
  /\ pc = "walk" /\ n \in left
  /\ cur' = n /\ idx' = idx + 1 /\ left' = left \ {n} /\ did' = TRUE
  /\ \/ /\ ~isDir[n]
        /\ PollAndReport(n)
        /\ pc' = "after" /\ UNCHANGED kids
     \/ /\ isDir[n] /\ subs[n] = {}
        /\ kids' = gam_tree_get_children(tree, n) /\ pc' = "kids"
        /\ UNCHANGED <<stale, isDir, gone, polled, waiting, missing, told, behind>>
     \/ /\ isDir[n] /\ subs[n] # {}
        /\ PollAndReport(n)
        /\ pc' = (IF Throttled(n) THEN "after" ELSE "dir") /\ UNCHANGED kids
  /\ UNCHANGED <<fs, tree, subs, all, timer, walk, new, aborted>>

(* gam_poll_generic_scan_directory_internal reads the directory: every     *)
(* entry without a node gets one, with FLAG_NEW_NODE. *)
ReadDirectory ==
  LET found == Entries(fs, cur) \ tree
  IN  /\ pc = "dir"
      /\ IF fs[cur] = "dir"
         THEN /\ tree'  = tree \cup found
              /\ isDir' = [q \in Paths |-> IF q \in found THEN fs[q] = "dir" ELSE isDir[q]]
              /\ new'   = new \cup found
              /\ kids'  = gam_tree_get_children(tree \cup found, cur)
              /\ pc'    = "kids"
         ELSE pc' = "after" /\ UNCHANGED <<tree, isDir, new, kids>>
      /\ UNCHANGED <<fsVars, subs, gone, polled, waiting, all, missing, timer, walk, left,
                     idx, cur, did, aborted, told, behind>>

(* A child is polled; a new one is reported as created whatever the poll   *)
(* found.  A new node has no subscription, so that the recursive scan of   *)
(* the source is not reached (NoFreedNode). *)
PollChild(c) ==
  LET ev == poll_file(c, c \notin polled, c \in gone)
  IN  /\ pc = "kids" /\ c \in kids
      /\ kids' = kids \ {c} /\ new' = new \ {c}
      /\ IF c \in new
         THEN /\ Polls(c) /\ Reports(c, "Created")
              /\ behind' = [s \in Subs |-> IF s \notin Audience(subs, c, "Created", FALSE)
                                           THEN behind[s]
                                           ELSE IF ev = "Deleted" THEN behind[s] \cup {c}
                                           ELSE behind[s] \ {c}]
         ELSE PollAndReport(c)
      /\ UNCHANGED <<fs, tree, subs, all, timer, pc, walk, left, idx, cur, did, aborted>>

(* Faulty variant: the node is forgotten before the lists are brought up to date. *)
ChildrenDone_Forgets ==
  /\ pc = "kids" /\ kids = {} /\ pc' = "after" /\ cur' = Root
  /\ UNCHANGED <<fsVars, nodeVars, all, missing, timer, walk, left, idx, kids, new,
                 did, aborted, told, behind>>

ChildrenDone ==
  /\ pc = "kids" /\ kids = {} /\ pc' = "after"
  /\ UNCHANGED <<fsVars, nodeVars, all, missing, timer, walk, left, idx, cur, kids, new,
                 did, aborted, told, behind>>

(* A node of the missing list that exists again goes back to the other. *)
AfterVisit ==
  /\ pc = "after" /\ pc' = "walk" /\ cur' = Root
  /\ IF walk = "missing" /\ cur \notin gone
     THEN missing' = missing \ {cur} /\ all' = all \cup {cur}
     ELSE UNCHANGED <<missing, all>>
  /\ left' \in NextLeft(left, IF walk = "all" THEN all' ELSE missing', idx)
  /\ UNCHANGED <<fsVars, nodeVars, timer, walk, idx, kids, new, did, aborted, told, behind>>

Scan ==
  \/ scan_callback \/ EndOfList \/ ReadDirectory \/ ChildrenDone \/ AfterVisit
  \/ \E n \in Paths : Visit(n) \/ PollChild(n)

-----------------------------------------------------------------------------
Init ==
  /\ fs \in [Paths -> Kinds] /\ FsShape(fs)
  /\ \A p \in Paths \ FileOrDir :
       fs[p] \in {"none", IF \E q \in Paths : Parent[q] = p THEN "dir" ELSE "file"}
  /\ stale = {} /\ tree = {} /\ gone = {} /\ polled = {} /\ waiting = {}
  /\ isDir = [p \in Paths |-> FALSE] /\ subs = [p \in Paths |-> {}]
  /\ all = {} /\ missing = {} /\ timer = FALSE
  /\ pc = "idle" /\ walk = "all" /\ left = {} /\ idx = 0 /\ cur = Root
  /\ kids = {} /\ new = {} /\ did = FALSE /\ aborted = FALSE
  /\ told = [s \in Subs |-> {}] /\ behind = [s \in Subs |-> {}]

Next ==
  \/ FileSystem
  \/ \E p \in Paths : TimePasses(p)
  \/ \E s \in Subs : gam_poll_basic_add_subscription(s) \/ gam_poll_basic_remove_subscription(s)
  \/ Scan

Spec == Init /\ [][Next]_vars

(* The main loop runs the timer it installed, a second after the scan      *)
(* before: time passes between scans, not during one. *)
FairSpec ==
  /\ Spec
  /\ WF_vars(Scan)
  /\ \A p \in Paths : SF_vars(TimePasses(p))
-----------------------------------------------------------------------------
(* The types, and that the scan has a node in hand wherever                *)
(* gam_poll_generic_scan_directory_internal refers to one. *)
TypeOK ==
  /\ fs \in [Paths -> Kinds] /\ isDir \in [Paths -> BOOLEAN]
  /\ subs \in [Paths -> SUBSET Subs]
  /\ {tree, stale, gone, polled, waiting, all, missing, left, kids, new} \subseteq SUBSET Paths
  /\ {timer, did, aborted} \subseteq BOOLEAN
  /\ pc \in {"idle", "walk", "dir", "kids", "after"} /\ walk \in {"all", "missing"}
  /\ idx \in Nat /\ cur \in Paths \cup {Root} /\ (pc \in {"dir", "kids", "after"} => cur # Root)
  /\ told \in [Subs -> SUBSET Paths] /\ behind \in [Subs -> SUBSET Paths]

(* Every node a list, a flag or the scan refers to is in the tree, and so  *)
(* are the nodes above it: gam_tree_remove is never reached with a node    *)
(* that has children and frees no node that gam_poll_generic_unregister_   *)
(* node left on a list.  A node found by the scan has no subscription. *)
NoFreedNode ==
  /\ all \cup missing \cup gone \cup polled \cup left \cup kids \cup new \subseteq tree
  /\ cur # Root => cur \in tree
  /\ \A p \in tree : Parent[p] # Root => Parent[p] \in tree
  /\ \A p \in new : subs[p] = {}

(* As long as a path has a subscription its node is on the list the timer  *)
(* walks, and the timer, which removes itself when it finds nothing to do, *)
(* is installed; so is it for a node that is only missing. *)
Polled ==
  Running => /\ \A p \in Paths : subs[p] # {} => p \in all
             /\ all \cup missing # {} => timer

(* Between scans what a subscription was last told of its path, and of the *)
(* paths in its directory, is what the server last saw there: the flag     *)
(* MON_MISSING never changes behind the back of a subscription.  Excepted  *)
(* are the paths of `behind': what a subscription was told when it was     *)
(* made on a node that was known already, what adding another subscription *)
(* found, and a file that was gone again when it was polled for the first  *)
(* time. *)
Informed ==
  Running /\ pc = "idle" =>
    \A s \in Active : \A p \in Watches(s) \cap tree :
      p \in behind[s] \/ (p \in told[s]) = (p \notin gone)

(* What gam_poll_basic_remove_subscription asserts: a node that is not a   *)
(* directory has no children. *)
NoAbort == ~aborted

(* A path with a subscription whose state the server does not know: it is  *)
(* missing and not flagged, or flagged and there.  stat says ENOTDIR, not  *)
(* ENOENT, below a plain file: that is not taken as a deletion. *)
Unnoticed(p) ==
  /\ subs[p] # {}
  /\ IF fs[p] = "none" THEN p \notin gone /\ ~NotDir(fs, p) ELSE p \in gone

(* A creation or deletion at a path with a subscription is noticed, unless *)
(* undone before, whatever else changes and however often. *)
Noticed == \A p \in Paths : []<>(~Unnoticed(p) \/ aborted)

(* What the nodes hold of each path: nothing before the first poll, else   *)
(* whether MON_MISSING is set. *)
Known(p) == IF p \notin polled THEN "unknown" ELSE IF p \in gone THEN "absent" ELSE "present"

Cache == INSTANCE Monitor WITH
  Items <- Paths,
  there <- {p \in Paths : fs[p] # "none"},
  known <- [p \in Paths |-> Known(p)]

(* The nodes are a cache of the file system: MON_MISSING only ever changes *)
(* to what stat shows at that moment, and a node that is freed and made    *)
(* again does not inherit what was known of the one before. *)
CacheOfFs == Cache!Spec
=============================================================================
