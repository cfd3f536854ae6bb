---------------------------- MODULE MCPollBasic ----------------------------
(***************************************************************************)
(* Instances of PollBasic for TLC.                                         *)
(***************************************************************************)
EXTENDS PollBasic, TLC

CONSTANTS d, e, f, s1, s2, s3

(* "/d" with "/d/e" with "/d/e/f": the directory e, and the file f twice. *)
NestPaths  == {d, e, f}
NestParent == d :> Root @@ e :> d @@ f :> e
NestAbove  == d :> {} @@ e :> {d} @@ f :> {d, e}
NestSubs   == {s1, s2, s3}
NestPath   == s1 :> e @@ s2 :> f @@ s3 :> f
NestIsDir  == s1 :> TRUE @@ s2 :> FALSE @@ s3 :> FALSE

(* "/d" with "/d/f": the directory and the file. *)
PairPaths  == {d, f}
PairParent == d :> Root @@ f :> d
PairAbove  == d :> {} @@ f :> {d}
PairSubs   == {s1, s2}
PairPath   == s1 :> d @@ s2 :> f
PairIsDir  == s1 :> TRUE @@ s2 :> FALSE
=============================================================================
