----------------------------- MODULE MCRouting -----------------------------
(***************************************************************************)
(* An instance of Routing for TLC: the files "/n/f" and "/nd/f", and the   *)
(* mount points "/" and "/n"; the text "/n" begins both paths.             *)
(***************************************************************************)
EXTENDS Routing, TLC

CONSTANTS n, nd, root, mnt

MCLength == root :> 1 @@ mnt :> 2
MCPrefix == root :> {n, nd} @@ mnt :> {n, nd}

Fsset(t, m, s) == [type |-> t, mon |-> m, timeout |-> s]
Rule(ps, b)    == [on |-> ps, poll |-> b]

MCBuiltin == <<Fsset("ext3", "kernel", 0), Fsset("nfs", "poll", 5)>>
MCStatic  == <<Rule({nd}, TRUE)>>
MCFiles   == {<<>>, <<Rule({n, nd}, FALSE), Rule({nd}, TRUE)>>,
              <<Rule({n}, TRUE), Fsset("vfat", "poll", -1)>>,
              <<Fsset("nfs", "kernel", -1)>>,
              <<Fsset("nfs", "poll", 3), Fsset("nfs", "none", -1)>>}

Line(m, t) == [at |-> m, type |-> t]
MCTables == {<<Line(root, "ext3")>>,
             <<Line(root, "ext3"), Line(mnt, "nfs")>>,
             <<Line(mnt, "nfs"), Line(root, "ext3"), Line(mnt, "vfat")>>}
=============================================================================
