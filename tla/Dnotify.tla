------------------------------ MODULE Dnotify ------------------------------
(***************************************************************************)
(* The dnotify backend (gam_poll_dnotify.c on gam_poll_generic.c and       *)
(* gam_dnotify.c): the kernel signals that something happened in a         *)
(* directory, the directory is then scanned; missing paths and paths where *)
(* the kernel is not to be used are polled every second; a path that       *)
(* changes too often has its watch suspended and is polled until it is     *)
(* quiet again.                                                            *)
(*                                                                         *)
(* As in PollBasic the file system changes between any two nodes the       *)
(* server looks at.  Events are reported as in PollBasic and are left out. *)
(* Of the times the model keeps which nodes were polled in this second and *)
(* within poll_time; whether stat shows a change, and a file modified in   *)
(* this second, is chosen freely, as anybody may touch a file at any time. *)
(* all_resources is filled but not read by this backend.                   *)
(***************************************************************************)
EXTENDS DnotifyTable

CONSTANTS
  Slow,       \* paths whose file system has a poll_timeout other than 0
  NoKernel,   \* paths that are excluded or on a file system that is only polled
  FileOrDir,  \* paths where both a file and a directory may appear
  BusyAt,     \* node->checks that switch to polling: 4
  QuietAt,    \* node->checks that must be exceeded to switch back: 5
  MaxRefs,    \* bound: no subscription is made when a use count has reached it
  MaxBusy     \* bound: nothing is removed when a suspension count has reached it

ASSUME DnotifySets ==
  /\ Slow \subseteq Paths /\ NoKernel \subseteq Paths /\ FileOrDir \subseteq Paths
  /\ IsFiniteSet(Subs)
  /\ BusyAt \in Nat \ {0} /\ QuietAt \in Nat /\ MaxRefs \in Nat /\ MaxBusy \in Nat

Flags == {"MISSING", "NOKERNEL", "BUSY"}

VARIABLES
  fs,        \* what is at each path
  tree,      \* the nodes, the root excepted
  isDir,     \* node->is_dir
  subs,      \* node->subs
  flags,     \* node->pflags
  polled,    \* nodes with a lasttime
  today,     \* of these, the ones whose lasttime is the current second
  waiting,   \* and the ones polled less than poll_time ago
  checks,    \* node->checks, up to the larger threshold
  missing,   \* missing_resources
  busy,      \* busy_resources
  dn,        \* the table of gam_dnotify.c
  queue,     \* changes: descriptors that were signalled
  pc,        \* what the main loop does: "idle", "walk", "pipe", "dir", "kids", "after"
  walk,      \* who visits: the walk of "missing" or "busy", or the "pipe" handler
  left,      \* the nodes of the list still to visit
  idx,       \* how many were visited
  cur,       \* the node visited
  kids,      \* children of cur still to poll
  new        \* nodes with FLAG_NEW_NODE

nodeVars == <<tree, isDir, subs, flags, polled, today, waiting, checks>>
scanVars == <<pc, walk, left, idx, cur, kids, new>>
vars     == <<fs, nodeVars, missing, busy, dn, queue, scanVars>>

Active  == {s \in Subs : s \in subs[SubPath[s]]}
Cap(n)  == IF n <= BusyAt \/ n <= QuietAt + 1 THEN n ELSE n - 1

(* The directory a request for node p goes to, gam_poll_generic_trigger_handler. *)
Target(p, dir) == IF dir THEN p ELSE Parent[p]

-----------------------------------------------------------------------------
(* gam_poll_dnotify_poll_file.  kd and t are is_dir and the table as the   *)
(* caller left them, sb the subscriptions. *)

Throttled(p) == p \in polled /\ p \in waiting

Event(p, changed) ==
  CASE fs[p] = "none" /\ "MISSING" \notin flags[p] /\ ~NotDir(fs, p) -> "Deleted"
    [] fs[p] # "none" /\ "MISSING" \in flags[p]                      -> "Created"
    [] fs[p] # "none" /\ "MISSING" \notin flags[p] /\ changed         -> "Changed"
    [] OTHER                                                          -> "none"

(* Faulty variant: the first poll does not look whether the path is there. *)
FirstFlags_Present(p) == IF p \in NoKernel THEN {"NOKERNEL"} ELSE {}

FirstFlags(p) == (IF fs[p] = "none" THEN {"MISSING"} ELSE {})
                   \cup (IF p \in NoKernel THEN {"NOKERNEL"} ELSE {})

FirstPoll(p, kd, t) ==
  /\ isDir'   = [kd EXCEPT ![p] = NodeKind(fs, p, @)]
  /\ flags'   = [flags EXCEPT ![p] = @ \cup FirstFlags(p)]
  /\ polled'  = polled \cup {p}
  /\ today'   = today \cup {p}
  /\ waiting' = waiting \cup ({p} \cap Slow)
  /\ dn' = t
  /\ UNCHANGED <<checks, busy>>

(* Faulty variant: a path that appears keeps MON_MISSING. *)
FlagsAfter_Kept(p, ev) == IF ev = "Deleted" THEN {"MISSING"} ELSE flags[p]

(* Deleted overwrites the flags, MON_BUSY and MON_NOKERNEL with them. *)
FlagsAfter(p, ev) ==
  CASE ev = "Deleted" -> {"MISSING"}
    [] ev = "Created" -> flags[p] \ {"MISSING"}
    [] OTHER          -> flags[p]

(* gam_poll_dnotify_delist_node: one request for each subscription. *)
Delisted(p, ev, kd, sb, t) ==
  IF ev = "Deleted" /\ p \notin NoKernel
  THEN Deactivate(t, Target(p, kd[p]), Cardinality(sb[p])) ELSE t

ChecksAfter(p, fl, ev, hot) ==
  CASE p \in today /\ "BUSY" \notin fl /\ hot /\ fs[p] # "none" -> Cap(checks[p] + 1)
    [] p \notin today /\ "BUSY" \in fl /\ ev = "none"    -> Cap(checks[p] + 1)
    [] p \notin today /\ "BUSY" \notin fl                -> 0
    [] OTHER                                             -> checks[p]

(* gam_poll_dnotify_flowon_node and gam_poll_dnotify_flowoff_node, with    *)
(* the change of MON_BUSY and of the list that goes with them.  fl, bz and *)
(* t are flags, busy_resources and the table before. *)
StartsPolling(p, fl, dir, sb, bz, t) ==
  LET up    == Parent[p]
      first == ~dir /\ "BUSY" \notin flags[up]
  IN  /\ flags' = [q \in Nodes |-> CASE q = p           -> fl \cup {"BUSY"}
                                     [] q = up /\ ~dir  -> flags[up] \cup {"BUSY"}
                                     [] OTHER           -> flags[q]]
      /\ busy'  = bz \cup {p} \cup (IF first \/ (~dir /\ Subscriptions(sb, up) # {}) THEN {up} ELSE {})
      /\ dn'    = IF dir \/ first THEN FlowStart(t, Target(p, dir)) ELSE t

StopsPolling(p, fl, dir, bz, t) ==
  LET up   == Parent[p]
      last == ~dir /\ "BUSY" \in flags[up]
  IN  /\ flags' = [q \in Nodes |-> CASE q = p           -> fl \ {"BUSY"}
                                     [] q = up /\ ~dir  -> flags[up] \ {"BUSY"}
                                     [] OTHER           -> flags[q]]
      /\ busy'  = bz \ ({p} \cup (IF last THEN {up} ELSE {}))
      /\ dn'    = IF dir \/ last THEN FlowStop(t, Target(p, dir), fs) ELSE t

LaterPoll(p, kd, sb, t, changed, hot) ==
  LET ev    == Event(p, changed)
      fl    == FlagsAfter(p, ev)
      dir   == NodeKind(fs, p, kd[p])
      bz    == IF ev = "Deleted" THEN busy \ {p} ELSE busy
      tab   == Delisted(p, ev, kd, sb, t)
      n     == ChecksAfter(p, fl, ev, hot)
      free  == sb[p] # {} /\ p \notin NoKernel
      start == free /\ n >= BusyAt /\ "BUSY" \notin fl
      stop  == free /\ n > QuietAt /\ "BUSY" \in fl /\ ev = "none"
  IN  /\ isDir' = [kd EXCEPT ![p] = dir] /\ polled' = polled
      /\ \/ /\ "NOKERNEL" \in fl
            /\ flags' = [flags EXCEPT ![p] = fl] /\ busy' = bz /\ dn' = tab
            /\ UNCHANGED <<today, waiting, checks>>
         \/ /\ "NOKERNEL" \notin fl
            /\ today' = today \cup {p} /\ waiting' = waiting \cup ({p} \cap Slow)
            /\ checks' = [checks EXCEPT ![p] = IF start \/ stop THEN 0 ELSE n]
            /\ CASE start -> StartsPolling(p, fl, dir, sb, bz, tab)
                 [] stop  -> StopsPolling(p, fl, dir, bz, tab)
                 [] OTHER -> flags' = [flags EXCEPT ![p] = fl] /\ busy' = bz /\ dn' = tab

Polls(p, kd, sb, t) ==
  \/ /\ Throttled(p) /\ isDir' = kd /\ dn' = t
     /\ UNCHANGED <<flags, polled, today, waiting, checks, busy>>
  \/ p \notin polled /\ FirstPoll(p, kd, t)
  \/ /\ p \in polled /\ ~Throttled(p)
     /\ \E changed, hot \in BOOLEAN : LaterPoll(p, kd, sb, t, changed, hot)

(* A poll in a scan: a path that is found deleted goes on the missing list. *)
PollInScan(p) ==
  /\ Polls(p, isDir, subs, dn)
  /\ missing' = IF /\ subs[p] # {} /\ p \in polled
                   /\ "MISSING" \notin flags[p] /\ "MISSING" \in flags'[p]
                THEN missing \cup {p} ELSE missing

-----------------------------------------------------------------------------
(* The file system and the kernel: each change signals the descriptor of   *)
(* the directory it happened in.  A signal is lost when the queue of the   *)
(* kernel, or the one of the server, is full. *)

Delivers(dirs) == \E got \in SUBSET Signalled(dn, dirs) : queue' = queue \cup got

CreateFile(p, k) ==
  /\ fs[p] = "none"
  /\ Parent[p] # Root => fs[Parent[p]] = "dir"
  /\ p \notin FileOrDir => k = (IF \E q \in Paths : Parent[q] = p THEN "dir" ELSE "file")
  /\ fs' = Created(fs, p, k)
  /\ Delivers({Parent[p]})
  /\ UNCHANGED dn

RemoveFile(p) ==
  LET below == {q \in Paths : (q = p \/ p \in Above[q]) /\ fs[q] # "none"}
  IN  /\ fs[p] # "none" /\ \A k \in Nodes : dn.busy[k] < MaxBusy
      /\ fs' = Removed(fs, p)
      /\ Delivers({Parent[q] : q \in below})
      /\ dn' = Removes(dn, below)

ChangeFile(p) ==
  /\ fs[p] # "none"
  /\ queue' = queue \cup Signalled(dn, {Parent[p]})
  /\ UNCHANGED <<fs, dn>>

FileSystem ==
  /\ \E p \in Paths : \/ \E k \in {"file", "dir"} : CreateFile(p, k)
                      \/ RemoveFile(p)
                      \/ ChangeFile(p)
  /\ UNCHANGED <<nodeVars, missing, busy, scanVars>>

(* The clock, which the server reads when a callback starts. *)
NewSecond ==
  /\ pc \in {"idle", "pipe"}
  /\ today' = {} /\ waiting' \in SUBSET waiting
  /\ UNCHANGED <<fs, tree, isDir, subs, flags, polled, checks, missing, busy, dn, queue, scanVars>>

-----------------------------------------------------------------------------
(* gam_poll_dnotify_add_subscription. *)

Fresh(p) == gam_tree_add_at_path(tree, p) \ tree

(* is_dir of the nodes before the path is polled. *)
KindsFor(s) ==
  LET p == SubPath[s]
  IN  [q \in Nodes |-> IF q = p /\ p \notin tree THEN NodeKind(fs, p, SubIsDir[s])
                       ELSE q \in Fresh(p) \/ isDir[q]]

SubsWith(s) == [subs EXCEPT ![SubPath[s]] = @ \cup {s}]

(* node_add_subscription asks the kernel, or polls a new node at once.     *)
TableFor(s) ==
  IF SubPath[s] \in NoKernel THEN dn
  ELSE Activate(dn, Target(SubPath[s], KindsFor(s)[SubPath[s]]), 1, fs)

(* The node is not a directory: it is polled. *)
AddFile(s) ==
  LET p == SubPath[s]
  IN  /\ ~(IF p \in NoKernel /\ p \notin polled THEN NodeKind(fs, p, KindsFor(s)[p]) ELSE KindsFor(s)[p])
      /\ tree' = tree \cup Fresh(p)
      /\ Polls(p, KindsFor(s), SubsWith(s), TableFor(s))
      /\ missing' = IF p \in NoKernel \/ flags'[p] \cap {"MISSING", "NOKERNEL"} # {}
                    THEN missing \cup {p} ELSE missing

(* gam_poll_generic_first_scan_dir of a directory that is missing, or that *)
(* exists: then it is polled if it never was, and its entries get nodes. *)
AddDir(s) ==
  LET p     == SubPath[s]
      first == p \notin polled
      kd    == [KindsFor(s) EXCEPT ![p] = IF first /\ p \in NoKernel THEN NodeKind(fs, p, @) ELSE @]
      nodes == IF fs[p] = "dir" THEN Entries(fs, p) \ tree ELSE {}
      seen  == nodes \cup (IF first \/ fs[p] = "none" THEN {p} ELSE {})
      own   == CASE fs[p] = "none" -> {"MISSING"}
                 [] fs[p] # "none" /\ first -> flags[p] \cup FirstFlags(p)
                 [] OTHER -> flags[p]
  IN  /\ kd[p]
      /\ tree'    = tree \cup Fresh(p) \cup nodes
      /\ isDir'   = [q \in Nodes |-> IF q \in nodes \/ (q = p /\ first /\ fs[p] # "none")
                                     THEN fs[q] = "dir" ELSE kd[q]]
      /\ flags'   = [q \in Nodes |-> IF q = p THEN own ELSE
                                     IF q \in nodes /\ q \in NoKernel THEN {"NOKERNEL"} ELSE flags[q]]
      /\ polled'  = polled \cup {p} \cup nodes
      /\ today'   = today \cup seen
      /\ waiting' = waiting \cup (seen \cap Slow)
      /\ dn' = TableFor(s)
      /\ missing' = IF p \in NoKernel \/ own \cap {"MISSING", "NOKERNEL"} # {}
                    THEN missing \cup {p} ELSE missing
      /\ UNCHANGED <<checks, busy>>

gam_poll_dnotify_add_subscription(s) ==
  /\ pc = "idle" /\ s \notin Active
  /\ \A k \in Nodes : dn.ref[k] < MaxRefs /\ dn.busy[k] < MaxBusy
  /\ subs' = SubsWith(s)
  /\ AddFile(s) \/ AddDir(s)
  /\ UNCHANGED <<fs, queue, scanVars>>

-----------------------------------------------------------------------------
(* gam_poll_dnotify_remove_subscription. *)

(* node_remove_subscription: the kernel is told, unless the node is        *)
(* missing or not for the kernel. *)
TableWithout(p) ==
  IF p \in NoKernel \/ flags[p] \cap {"MISSING", "NOKERNEL"} # {} THEN dn
  ELSE Deactivate(dn, Target(p, isDir[p]), 1)

Frees(dead) ==
  /\ tree'    = tree \ dead
  /\ isDir'   = [q \in Nodes |-> isDir[q] /\ q \notin dead]
  /\ flags'   = [q \in Nodes |-> IF q \in dead THEN {} ELSE flags[q]]
  /\ polled'  = polled \ dead
  /\ today'   = today \ dead
  /\ waiting' = waiting \ dead
  /\ checks'  = [q \in Paths |-> IF q \in dead THEN 0 ELSE checks[q]]

(* Faulty variant: the busy list keeps the node. *)
Unregisters_Missing(off) == missing' = missing \ off /\ busy' = busy

Unregisters(off) == missing' = missing \ off /\ busy' = busy \ off

RemoveFileSub(s) ==
  LET p     == SubPath[s]
      after == [subs EXCEPT ![p] = @ \ {s}]
      last  == after[p] = {}
      cut   == /\ last /\ gam_tree_get_children(tree, p) = {}
               /\ ~gam_node_has_dir_subscriptions(subs, isDir, Parent[p])
      dead  == IF cut THEN {p} \cup gam_poll_generic_prune_tree(tree \ {p}, after, Parent[p]) ELSE {}
  IN  /\ ~isDir[p]
      /\ subs' = after
      /\ Frees(dead)
      /\ Unregisters(dead \cup (IF last THEN {p} ELSE {}))

RemoveDirSub(s) ==
  LET p     == SubPath[s]
      after == [subs EXCEPT ![p] = @ \ {s}]
      cut   == after[p] = {} /\ ~gam_node_has_dir_subscriptions(after, isDir, Parent[p])
  IN  /\ isDir[p]
      /\ subs' = after
      /\ \E trim \in Trimmed(tree, after, p) :
           LET rest == tree \ trim
               self == IF cut /\ gam_tree_get_children(rest, p) = {} THEN {p} ELSE {}
               up   == IF cut THEN gam_poll_generic_prune_tree(rest \ self, after, Parent[p]) ELSE {}
           IN  /\ Frees(trim \cup self \cup up)
               /\ Unregisters(trim \cup up \cup (IF cut THEN {p} ELSE {}))

gam_poll_dnotify_remove_subscription(s) ==
  /\ pc = "idle" /\ s \in Active
  /\ RemoveFileSub(s) \/ RemoveDirSub(s)
  /\ dn' = TableWithout(SubPath[s])
  /\ UNCHANGED <<fs, queue, scanVars>>

-----------------------------------------------------------------------------
(* gam_poll_generic_scan_directory_internal: without subscription only the *)
(* nodes known in it are polled, else it is polled itself, unless that was *)
(* less than poll_time ago, and then read. *)

ScanDirectory(n, kd) ==
  \/ /\ Subscriptions(subs, n) = {}
     /\ kids' = gam_tree_get_children(tree, n) /\ pc' = "kids"
     /\ isDir' = kd
     /\ UNCHANGED <<flags, polled, today, waiting, checks, missing, busy, dn>>
  \/ /\ Subscriptions(subs, n) # {}
     /\ PollInScan(n)
     /\ pc' = (IF Throttled(n) THEN "after" ELSE "dir") /\ UNCHANGED kids

ReadDirectory ==
  LET found == Entries(fs, cur) \ tree
  IN  /\ pc = "dir"
      /\ IF fs[cur] = "dir"
         THEN /\ tree'  = tree \cup found
              /\ isDir' = [q \in Nodes |-> IF q \in found THEN fs[q] = "dir" ELSE isDir[q]]
              /\ new'   = new \cup found
              /\ kids'  = gam_tree_get_children(tree \cup found, cur)
              /\ pc'    = "kids"
         ELSE pc' = "after" /\ UNCHANGED <<tree, isDir, new, kids>>
      /\ UNCHANGED <<fs, subs, flags, polled, today, waiting, checks, missing, busy, dn, queue,
                     walk, left, idx, cur>>

PollChild(c) ==
  /\ pc = "kids" /\ c \in kids
  /\ kids' = kids \ {c} /\ new' = new \ {c}
  /\ PollInScan(c)
  /\ UNCHANGED <<fs, tree, subs, queue, pc, walk, left, idx, cur>>

ChildrenDone ==
  /\ pc = "kids" /\ kids = {} /\ pc' = "after"
  /\ UNCHANGED <<fs, nodeVars, missing, busy, dn, queue, walk, left, idx, cur, kids, new>>

Scan == ReadDirectory \/ ChildrenDone \/ \E c \in Paths : PollChild(c)

-----------------------------------------------------------------------------
(* gam_poll_dnotify_scan_callback, every second: the missing list, then    *)
(* the busy one. *)

scan_callback ==
  /\ pc = "idle"
  /\ pc' = "walk" /\ walk' = "missing" /\ left' = missing /\ idx' = 0
  /\ UNCHANGED <<fs, nodeVars, missing, busy, dn, queue, cur, kids, new>>

EndOfList ==
  /\ pc = "walk" /\ left = {}
  /\ IF walk = "missing" THEN walk' = "busy" /\ left' = busy /\ UNCHANGED pc
     ELSE pc' = "idle" /\ walk' = "missing" /\ UNCHANGED left
  /\ idx' = 0
  /\ UNCHANGED <<fs, nodeVars, missing, busy, dn, queue, cur, kids, new>>

Visit(n) ==
  /\ pc = "walk" /\ n \in left
  /\ cur' = n /\ idx' = idx + 1 /\ left' = left \ {n}
  /\ \/ ~isDir[n] /\ PollInScan(n) /\ pc' = "after" /\ UNCHANGED kids
     \/ isDir[n] /\ ScanDirectory(n, isDir)
  /\ UNCHANGED <<fs, tree, subs, queue, walk, new>>

(* Faulty variant: only the flags are looked at. *)
Settled_Flags == flags[cur] = {}

(* A node without flag leaves the list: gam_poll_dnotify_relist_node makes *)
(* a request for each subscription, gam_poll_dnotify_flowoff_node one. *)
Settled == flags[cur] = {} /\ cur \notin NoKernel

AfterVisit ==
  /\ pc = "after" /\ walk # "pipe" /\ pc' = "walk" /\ cur' = Root
  /\ \/ /\ ~Settled
        /\ UNCHANGED <<flags, missing, busy, dn>>
     \/ /\ Settled /\ walk = "missing"
        /\ missing' = missing \ {cur}
        /\ dn' = Activate(dn, Target(cur, isDir[cur]), Cardinality(Subscriptions(subs, cur)), fs)
        /\ UNCHANGED <<flags, busy>>
     \/ /\ Settled /\ walk = "busy"
        /\ IF Subscriptions(subs, cur) # {}
           THEN StopsPolling(cur, flags[cur], isDir[cur], busy, dn)
           ELSE busy' = busy \ {cur} /\ UNCHANGED <<flags, dn>>
        /\ UNCHANGED missing
  /\ left' \in NextLeft(left, IF walk = "missing" THEN missing' ELSE busy', idx)
  /\ UNCHANGED <<fs, tree, isDir, subs, polled, today, waiting, checks, queue, walk, idx, kids, new>>

Timer == scan_callback \/ EndOfList \/ AfterVisit \/ \E n \in Nodes : Visit(n)

-----------------------------------------------------------------------------
(* gam_dnotify_pipe_handler: each descriptor that was signalled leads to   *)
(* its directory, unless it was closed since; gam_poll_generic_scan_       *)
(* directory makes a node if there is none left.  The root of the tree is  *)
(* not in node_hash: for "/" it finds, or makes, another node, whose scan  *)
(* polls nothing as it never has a child or a subscription. *)

gam_dnotify_pipe_handler ==
  /\ pc = "idle" /\ queue # {}
  /\ pc' = "pipe" /\ walk' = "pipe"
  /\ UNCHANGED <<fs, nodeVars, missing, busy, dn, queue, left, idx, cur, kids, new>>

PopSignal(x) ==
  /\ pc = "pipe" /\ x \in queue
  /\ queue' = queue \ {x}
  /\ LET k     == dn.owner[x]
         fresh == Fresh(k)
     IN  IF k \in {None, Root}
         THEN UNCHANGED <<tree, isDir, flags, polled, today, waiting, checks, missing, busy, dn,
                          pc, cur, kids>>
         ELSE /\ tree' = tree \cup fresh /\ cur' = k
              /\ ScanDirectory(k, [q \in Nodes |-> IF q = k /\ k \in fresh THEN NodeKind(fs, k, TRUE)
                                                   ELSE q \in fresh \/ isDir[q]])
  /\ UNCHANGED <<fs, subs, walk, left, idx, new>>

SignalDone ==
  /\ pc = "after" /\ walk = "pipe" /\ pc' = "pipe" /\ cur' = Root
  /\ UNCHANGED <<fs, nodeVars, missing, busy, dn, queue, walk, left, idx, kids, new>>

PipeDone ==
  /\ pc = "pipe" /\ queue = {} /\ pc' = "idle" /\ walk' = "missing"
  /\ UNCHANGED <<fs, nodeVars, missing, busy, dn, queue, left, idx, cur, kids, new>>

Pipe == gam_dnotify_pipe_handler \/ SignalDone \/ PipeDone \/ \E x \in Fds : PopSignal(x)

-----------------------------------------------------------------------------
Init ==
  /\ fs \in [Paths -> Kinds] /\ FsShape(fs)
  /\ \A p \in Paths \ FileOrDir :
       fs[p] \in {"none", IF \E q \in Paths : Parent[q] = p THEN "dir" ELSE "file"}
  /\ tree = {} /\ polled = {} /\ today = {} /\ waiting = {} /\ missing = {} /\ busy = {}
  /\ isDir = [p \in Nodes |-> p = Root] /\ subs = [p \in Paths |-> {}]
  /\ flags = [p \in Nodes |-> {}] /\ checks = [p \in Paths |-> 0]
  /\ dn = EmptyTable /\ queue = {}
  /\ pc = "idle" /\ walk = "missing" /\ left = {} /\ idx = 0 /\ cur = Root
  /\ kids = {} /\ new = {}

Next ==
  \/ FileSystem \/ NewSecond
  \/ \E s \in Subs : gam_poll_dnotify_add_subscription(s) \/ gam_poll_dnotify_remove_subscription(s)
  \/ Scan \/ Timer \/ Pipe

Spec == Init /\ [][Next]_vars
(* Every callback ends, the timer fires every second whatever the pipe     *)
(* brings (sources of one priority are all dispatched in an iteration of   *)
(* the main loop), and poll_time passes. *)
FairSpec ==
  /\ Spec
  /\ WF_vars(Scan) /\ WF_vars(Timer) /\ SF_vars(scan_callback) /\ WF_vars(Pipe)
  /\ SF_vars(NewSecond /\ waiting' = {})
-----------------------------------------------------------------------------
(* The types, the table of gam_dnotify.c among them (its counts never fall *)
(* below zero), and that only a real node is read as a directory. *)
TypeOK ==
  /\ fs \in [Paths -> Kinds] /\ isDir \in [Nodes -> BOOLEAN]
  /\ subs \in [Paths -> SUBSET Subs] /\ flags \in [Nodes -> SUBSET Flags]
  /\ checks \in [Paths -> Nat]
  /\ {tree, polled, today, waiting, missing, kids, new} \subseteq SUBSET Paths
  /\ {busy, left} \subseteq SUBSET Nodes
  /\ TableType(dn) /\ queue \in SUBSET Fds
  /\ pc \in {"idle", "walk", "pipe", "dir", "kids", "after"} /\ walk \in {"missing", "busy", "pipe"}
  /\ idx \in Nat /\ cur \in Nodes /\ (pc = "dir" => cur # Root)

(* The two hash tables of gam_dnotify.c and the descriptors the kernel has *)
(* open agree in every state: a signal leads to the directory it came      *)
(* from, no descriptor is left open without an entry, and none is open     *)
(* while the watch is suspended. *)
HashesAgree == Consistent(dn)

(* Every node a list or the scan refers to is in the tree, and so are the  *)
(* nodes above it: none is freed while it can still be reached. *)
NoDanglingNode ==
  /\ missing \cup polled \cup kids \cup new \subseteq tree
  /\ busy \cup left \cup {cur} \subseteq tree \cup {Root}
  /\ \A p \in tree : Parent[p] # Root => Parent[p] \in tree
  /\ \A p \in new : subs[p] = {}

(* Nothing but the timer tells that a missing path appeared, and nothing   *)
(* but the timer tells anything of a path the kernel is not used for: with *)
(* a subscription both are on the list it walks. *)
Listed ==
  \A p \in Paths : subs[p] # {} /\ ("MISSING" \in flags[p] \/ p \in NoKernel) => p \in missing

(* What the nodes hold of each path. *)
Known(p) == IF p \notin polled THEN "unknown" ELSE IF "MISSING" \in flags[p] THEN "absent" ELSE "present"

Cache == INSTANCE Monitor WITH
  Items <- Paths,
  there <- {p \in Paths : fs[p] # "none"},
  known <- [p \in Paths |-> Known(p)]

(* The nodes are a cache of the file system here too: MON_MISSING changes  *)
(* only to what stat shows at that moment, though it is also set and       *)
(* cleared together with the other flags. *)
CacheOfFiles == Cache!Spec

(* A path with a subscription that was missing and exists, or one that is  *)
(* only polled and whose state is not known. *)
Unnoticed(p) ==
  /\ subs[p] # {}
  /\ IF fs[p] # "none" THEN "MISSING" \in flags[p]
     ELSE p \in NoKernel /\ "MISSING" \notin flags[p] /\ ~NotDir(fs, p)

(* Once files, subscriptions and signals come to rest, the timer notices   *)
(* that a missing path exists again, and all there is to a path the kernel *)
(* is not used for.  They must come to rest: the walk by index passes over *)
(* the next node whenever the one it visits leaves the list, and the pipe  *)
(* handler goes on as long as signals arrive. *)
NoticedAtRest ==
  <>[][fs' = fs /\ subs' = subs /\ queue' \subseteq queue]_vars
    => \A p \in Paths : <>[]~Unnoticed(p)
=============================================================================
