--------------------------- MODULE MCInotifyPath ---------------------------
(***************************************************************************)
(* Instances of InotifyPath for TLC.                                       *)
(***************************************************************************)
EXTENDS InotifyPath

CONSTANTS b1, b2, b3

TopFixed == {<<>>, <<"a">>}
BPrefix  == {<<"b", "bc">>}

(* "/a/b" and "/a/bc", each renamed to the other: two subscriptions on the *)
(* directory /a/b, which are interchangeable, and one on /a/bc.            *)
WideTree == TopFixed \cup {<<"a", "b">>, <<"a", "bc">>}
WideSubs == {b1, b2, b3}
WideDir  == b1 :> <<"a", "b">> @@ b2 :> <<"a", "b">> @@ b3 :> <<"a", "bc">>
WideFile == [b \in WideSubs |-> ""]
SameDir  == Permutations({b1, b2})

(* The file /a/b/c/f and its directory, with two levels that may be        *)
(* missing or be files; the limit on watches may be reached.               *)
DeepFiles == {<<"a", "b">>, <<"a", "b", "c">>}
DeepTree  == TopFixed \cup DeepFiles
DeepRefusable == {<<>>}
DeepSubs  == {b1, b2}
DeepDir   == [b \in DeepSubs |-> <<"a", "b", "c">>]
DeepFile  == b1 :> "f" @@ b2 :> ""

(* The directory /a and the directory /a/b below it. *)
NestTree == TopFixed \cup {<<"a", "b">>}
NestSubs == {b1, b2}
NestDir  == b1 :> <<"a">> @@ b2 :> <<"a", "b">>
NestFile == b1 :> "" @@ b2 :> ""
=============================================================================
