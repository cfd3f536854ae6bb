------------------------------ MODULE PollTree ------------------------------
(***************************************************************************)
(* The tree of nodes the poll and dnotify backends share (gam_tree.c,      *)
(* gam_node.c) and the parts of gam_poll_generic.c that only look at it.   *)
(*                                                                         *)
(* There is at most one node per path (node_hash), so a node is its path   *)
(* and the tree a set of paths; the root node is always there and is left  *)
(* out.  The lists of nodes (all_resources, missing_resources,             *)
(* busy_resources) hold a node once and are sets here: their order shows   *)
(* only in which nodes a walk by index misses or meets twice, see          *)
(* NextLeft.  The file system is a function from paths to what is there.   *)
(***************************************************************************)
EXTENDS Integers, FiniteSets

CONSTANTS
  Paths,     \* the paths that may get a node, the root directory excepted
  Root,
  Parent,    \* the directory each path is in
  Above,     \* the directories above each path, the root excepted
  Subs,      \* subscriptions
  SubPath,   \* the path each one is for
  SubIsDir   \* TRUE when it was made by FAMMonitorDirectory

ASSUME TreeShape ==
  /\ Root \notin Paths
  /\ Parent \in [Paths -> Paths \cup {Root}]
  /\ Above \in [Paths -> SUBSET Paths]
  /\ \A p \in Paths : /\ p \notin Above[p]
                      /\ Parent[p] = Root => Above[p] = {}
                      /\ Parent[p] # Root => Above[p] = {Parent[p]} \cup Above[Parent[p]]
                      /\ \A a \in Above[p] : /\ Above[a] \subseteq Above[p]
                                             /\ \E b \in {p} \cup Above[p] : Parent[b] = a
ASSUME SubShape == SubPath \in [Subs -> Paths] /\ SubIsDir \in [Subs -> BOOLEAN]

Kinds == {"none", "file", "dir"}

-----------------------------------------------------------------------------
(* The file system. *)

(* A path in a directory that is really a plain file: stat fails with      *)
(* ENOTDIR, not with ENOENT. *)
NotDir(fs, p) == \E a \in Above[p] : fs[a] = "file"

(* Nothing exists below what is not a directory. *)
FsShape(fs) ==
  \A p \in Paths : fs[p] # "none" /\ Parent[p] # Root => fs[Parent[p]] = "dir"

Created(fs, p, k) == [fs EXCEPT ![p] = k]
Removed(fs, p) == [q \in Paths |-> IF q = p \/ p \in Above[q] THEN "none" ELSE fs[q]]

Entries(fs, d) == {c \in Paths : Parent[c] = d /\ fs[c] # "none"}

-----------------------------------------------------------------------------
(* The tree. *)

gam_tree_get_children(tree, p) == {c \in tree : Parent[c] = p}

(* gam_tree_add_at_path makes the node and the ones above it. *)
gam_tree_add_at_path(tree, p) == tree \cup {p} \cup Above[p]

(* What the node of a path becomes: a directory when there is one, a file  *)
(* when there is one, else what was asked for. *)
NodeKind(fs, p, asked) == IF fs[p] # "none" THEN fs[p] = "dir" ELSE asked

Subscriptions(subs, p) == IF p = Root THEN {} ELSE subs[p]

gam_node_has_dir_subscriptions(subs, isDir, p) ==
  p # Root /\ isDir[p] /\ \E s \in subs[p] : SubIsDir[s]

(* Faulty variant: a node with children is pruned too. *)
gam_poll_generic_prune_tree_Children(tree, subs, p) ==
  {a \in tree \cap ({p} \cup (IF p = Root THEN {} ELSE Above[p])) : subs[a] = {}}

(* gam_poll_generic_prune_tree(p): the nodes it removes from the tree, from *)
(* p upwards as long as a node is left with no child and no subscription. *)
gam_poll_generic_prune_tree(tree, subs, p) ==
  IF p = Root \/ p \notin tree THEN {}
  ELSE {a \in tree \cap ({p} \cup Above[p]) :
          \A m \in tree : m = a \/ a \in Above[m]
                            => m \in {p} \cup Above[p] /\ subs[m] = {}}

(* node_remove_directory_subscription walks the children of a directory    *)
(* that has no subscription left and removes those without subscription or *)
(* children, until it meets one it must keep: then the rest stays. *)
Trimmed(tree, subs, p) ==
  LET kids == gam_tree_get_children(tree, p)
      bare == {c \in kids : subs[c] = {} /\ gam_tree_get_children(tree, c) = {}}
  IN  IF subs[p] # {} THEN {{}}
      ELSE IF bare = kids THEN {kids} ELSE SUBSET bare

-----------------------------------------------------------------------------
(* Events. *)

(* Faulty variant: the subscriptions of the directory are not asked. *)
Audience_Own(subs, p, ev, dir) == {s \in subs[p] : SubPath[s] = p}

(* gam_node_emit_event offers an event to the subscriptions of the node    *)
(* and to those of its parent; gam_subscription_wants_event takes it when  *)
(* the subscription is for a directory or for this very path, and drops    *)
(* Changed for the monitored directory itself. *)
Audience(subs, p, ev, dir) ==
  {s \in subs[p] \cup Subscriptions(subs, Parent[p]) :
     /\ SubIsDir[s] \/ SubPath[s] = p
     /\ ~(ev = "Changed" /\ SubIsDir[s] /\ dir /\ SubPath[s] = p)}

-----------------------------------------------------------------------------
(* A walk by index, "as it may be modified in the callback": after the     *)
(* visit of position idx the walk goes on at idx + 1 of the list as it is  *)
(* then.  When the visit took nodes out at or before idx the walk misses   *)
(* some; when it put nodes in front it meets some again.                   *)
NextLeft(left, list, idx) ==
  LET rest == left \cap list
      n    == Cardinality(list) - idx
  IN  {l \in SUBSET list : /\ Cardinality(l) = (IF n < 0 THEN 0 ELSE n)
                           /\ l \subseteq rest \/ rest \subseteq l}
=============================================================================
