--------------------------- MODULE PollTreeProofs ---------------------------
(***************************************************************************)
(* What the operators of PollTree do, for every tree of paths.             *)
(***************************************************************************)
EXTENDS PollTree, TLAPS

(* What the assumptions say of single paths. *)
LEMMA PathTypes ==
  /\ Root \notin Paths
  /\ Parent \in [Paths -> Paths \cup {Root}] /\ Above \in [Paths -> SUBSET Paths]
  /\ SubPath \in [Subs -> Paths] /\ SubIsDir \in [Subs -> BOOLEAN]
  BY TreeShape, SubShape

USE PathTypes

(* With each node the nodes above it are in the tree. *)
RootedTree(tr) == \A p \in tr : Above[p] \subseteq tr

(* gam_poll_generic_prune_tree takes no node above one it leaves, and none *)
(* with a subscription. *)
LEMMA Prunes ==
  ASSUME NEW tr \in SUBSET Paths, NEW sb, NEW p \in Paths \cup {Root}
  PROVE  LET d == gam_poll_generic_prune_tree(tr, sb, p)
         IN  /\ d \subseteq tr
             /\ \A a \in d : sb[a] = {}
             /\ \A q \in tr : Above[q] \cap d # {} => q \in d
<1> DEFINE d == gam_poll_generic_prune_tree(tr, sb, p)
<1>1. CASE p = Root \/ p \notin tr
  BY <1>1 DEF gam_poll_generic_prune_tree
<1>2. CASE p \in Paths /\ p \in tr
  <2>1. d = {a \in tr \cap ({p} \cup Above[p]) :
               \A m \in tr : m = a \/ a \in Above[m] => m \in {p} \cup Above[p] /\ sb[m] = {}}
    BY <1>2 DEF gam_poll_generic_prune_tree
  <2> HIDE DEF d
  <2>2. ASSUME NEW q \in tr, NEW a \in Above[q], a \in d
        PROVE  q \in d
    <3>1. q \in {p} \cup Above[p]
      BY <2>1, <2>2
    <3>2. ASSUME NEW m \in tr, m = q \/ q \in Above[m]
          PROVE  m \in {p} \cup Above[p] /\ sb[m] = {}
      <4>1. a \in Above[m]
        BY <2>2, <3>2, TreeShape
      <4> QED
        BY <2>1, <2>2, <4>1
    <3> QED
      BY <2>1, <3>1, <3>2
  <2> QED
    BY <2>1, <2>2 DEF d
<1> QED
  BY <1>1, <1>2

(* The children node_remove_directory_subscription takes have neither      *)
(* children nor subscriptions. *)
LEMMA Trims ==
  ASSUME NEW tr, NEW sb, NEW p, NEW trim \in Trimmed(tr, sb, p)
  PROVE  trim \subseteq {c \in tr : /\ Parent[c] = p /\ sb[c] = {}
                                   /\ \A x \in tr : Parent[x] # c}
<1> DEFINE kd   == gam_tree_get_children(tr, p)
           bare == {c \in kd : sb[c] = {} /\ gam_tree_get_children(tr, c) = {}}
<1>1. trim \subseteq bare
  BY DEF Trimmed
<1>2. bare \subseteq {c \in tr : /\ Parent[c] = p /\ sb[c] = {}
                                /\ \A x \in tr : Parent[x] # c}
  BY DEF gam_tree_get_children
<1> QED
  BY <1>1, <1>2

(* A node without children in the tree is above no node of it. *)
LEMMA Childless ==
  ASSUME NEW tr \in SUBSET Paths, RootedTree(tr), NEW c, \A x \in tr : Parent[x] # c, NEW q \in tr
  PROVE  c \notin Above[q]
  BY TreeShape DEF RootedTree

(* Making the node of a path with the ones above it, and nodes in it,      *)
(* keeps the tree rooted. *)
LEMMA AddedRooted ==
  ASSUME NEW tr \in SUBSET Paths, RootedTree(tr), NEW p \in Paths, NEW more \in SUBSET Paths,
         \A q \in more : Parent[q] = p
  PROVE  RootedTree(gam_tree_add_at_path(tr, p) \cup more)
<1>1. gam_tree_add_at_path(tr, p) \cup more = tr \cup {p} \cup Above[p] \cup more
  BY DEF gam_tree_add_at_path
<1>2. \A q \in more : Above[q] \subseteq {p} \cup Above[p]
  BY TreeShape
<1>3. \A q \in Above[p] : Above[q] \subseteq Above[p]
  BY TreeShape
<1> QED
  BY <1>1, <1>2, <1>3 DEF RootedTree

(* A walk goes on with nodes of the list. *)
LEMMA NextLeftIn ==
  ASSUME NEW l, NEW list, NEW i, NEW n \in NextLeft(l, list, i)
  PROVE  n \subseteq list
  BY DEF NextLeft
=============================================================================
