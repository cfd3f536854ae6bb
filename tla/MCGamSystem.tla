---------------------------- MODULE MCGamSystem ----------------------------
(***************************************************************************)
(* Instances of GamSystem for TLC.                                         *)
(***************************************************************************)
EXTENDS GamSystem

(* The kernel hands out any free socket; paths and clients only differ where *)
(* a configuration makes them. *)
SockSymmetry == Permutations(Socks)
SockPathSymmetry == Permutations(Socks) \cup Permutations(Paths)
SockClientSymmetry == Permutations(Socks) \cup Permutations(Clients)
=============================================================================
