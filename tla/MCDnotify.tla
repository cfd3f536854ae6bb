----------------------------- MODULE MCDnotify -----------------------------
(***************************************************************************)
(* Instances of Dnotify for TLC.                                           *)
(***************************************************************************)
EXTENDS Dnotify, TLC

CONSTANTS d, f, s1, s2

(* "/d" with "/d/f". *)
PairPaths  == {d, f}
PairParent == d :> Root @@ f :> d
PairAbove  == d :> {} @@ f :> {d}

(* FAMMonitorFile on both: while the directory is missing its node is one  *)
(* of a file, and the watch asked for is that of the root.  *)
PairSubs  == {s1, s2}
PairPath  == s1 :> d @@ s2 :> f
PairIsDir == s1 :> FALSE @@ s2 :> FALSE
=============================================================================
