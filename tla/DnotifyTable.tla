---------------------------- MODULE DnotifyTable ----------------------------
(***************************************************************************)
(* The table of directories watched by the kernel, gam_dnotify.c: for each *)
(* directory a count of users, a descriptor, and a count of requests to    *)
(* suspend the watch (flow control); two hash tables, path_hash and        *)
(* fd_hash, lead to the entry.  The table is a value and every request of  *)
(* gam_dnotify_directory_handler_internal a function of it.                *)
(***************************************************************************)
EXTENDS PollTree

CONSTANTS
  Fds,    \* descriptors the server can have open for directories
  None,   \* no entry, or a descriptor that is closed
  Dead    \* a descriptor of what is no longer, or never was, a directory

ASSUME FdShape ==
  /\ Fds \subseteq Nat
  /\ None # Dead /\ None \notin Paths /\ Dead \notin Paths /\ Root \notin {None, Dead}

Nodes == Paths \cup {Root}

(* ref is the use count of a path, 0 without entry; fd its descriptor or   *)
(* -1; busy the count of suspensions; owner is fd_hash; open is what the   *)
(* kernel watches through a descriptor. *)
Table(ref, fd, busy, owner, open) ==
  [ref |-> ref, fd |-> fd, busy |-> busy, owner |-> owner, open |-> open]

EmptyTable ==
  Table([k \in Nodes |-> 0], [k \in Nodes |-> -1], [k \in Nodes |-> 0],
        [x \in Fds |-> None], [x \in Fds |-> None])

Free(t) == {x \in Fds : t.open[x] = None}

(* open fails when the path does not exist or no descriptor is left; a     *)
(* plain file can be opened, but then F_NOTIFY fails. *)
CanOpen(t, k, fs) == Free(t) # {} /\ (k = Root \/ fs[k] # "none")
Opened(t, k, fs) ==
  LET x == CHOOSE y \in Free(t) : TRUE
  IN  Table(t.ref, [t.fd EXCEPT ![k] = x], t.busy, [t.owner EXCEPT ![x] = k],
            [t.open EXCEPT ![x] = IF k = Root \/ fs[k] = "dir" THEN k ELSE Dead])

(* Faulty variant: fd_hash keeps the descriptor. *)
Closed_Hashed(t, k) ==
  IF t.fd[k] = -1 THEN t
  ELSE Table(t.ref, [t.fd EXCEPT ![k] = -1], t.busy, t.owner, [t.open EXCEPT ![t.fd[k]] = None])

Closed(t, k) ==
  IF t.fd[k] = -1 THEN t
  ELSE Table(t.ref, [t.fd EXCEPT ![k] = -1], t.busy, [t.owner EXCEPT ![t.fd[k]] = None],
             [t.open EXCEPT ![t.fd[k]] = None])

Counted(t, k, n) == Table([t.ref EXCEPT ![k] = n], t.fd, t.busy, t.owner, t.open)
Suspended(t, k, n) == Table(t.ref, t.fd, [t.busy EXCEPT ![k] = n], t.owner, t.open)

(* n requests GAMIN_ACTIVATE. *)
Activate(t, k, n, fs) ==
  CASE n = 0                                         -> t
    [] n > 0 /\ t.ref[k] > 0                         -> Counted(t, k, t.ref[k] + n)
    [] n > 0 /\ t.ref[k] = 0 /\ CanOpen(t, k, fs)    -> Counted(Opened(t, k, fs), k, n)
    [] OTHER                                         -> t

(* Faulty variant: a directory without entry is counted down too. *)
Deactivate_NoEntry(t, k, n) == Counted(t, k, t.ref[k] - n)

(* n requests GAMIN_DEACTIVATE: the one that brings the count to 0 closes  *)
(* the descriptor and frees the entry. *)
Deactivate(t, k, n) ==
  CASE t.ref[k] > n                    -> Counted(t, k, t.ref[k] - n)
    [] t.ref[k] \in 1 .. n             -> Suspended(Counted(Closed(t, k), k, 0), k, 0)
    [] OTHER                           -> t

(* GAMIN_FLOWCONTROLSTART and GAMIN_FLOWCONTROLSTOP. *)
FlowStart(t, k) ==
  IF t.ref[k] = 0 THEN t ELSE Suspended(Closed(t, k), k, t.busy[k] + 1)

FlowStop(t, k, fs) ==
  CASE t.ref[k] = 0 \/ t.busy[k] = 0           -> t
    [] t.ref[k] > 0 /\ t.busy[k] > 1           -> Suspended(t, k, t.busy[k] - 1)
    [] t.ref[k] > 0 /\ t.busy[k] = 1 /\ CanOpen(t, k, fs)
                                               -> Opened(Suspended(t, k, 0), k, fs)
    [] OTHER                                   -> Suspended(t, k, 0)

(* The kernel: the directories of `lost' are gone, their watches stay. *)
Removes(t, lost) ==
  Table(t.ref, t.fd, t.busy, t.owner,
        [x \in Fds |-> IF t.open[x] \in lost THEN Dead ELSE t.open[x]])

Signalled(t, dirs) == {x \in Fds : t.open[x] \in dirs}

TableType(t) ==
  /\ DOMAIN t = {"ref", "fd", "busy", "owner", "open"}
  /\ t = Table(t.ref, t.fd, t.busy, t.owner, t.open)
  /\ t.ref \in [Nodes -> Nat] /\ t.busy \in [Nodes -> Nat]
  /\ t.fd \in [Nodes -> Fds \cup {-1}]
  /\ t.owner \in [Fds -> Nodes \cup {None}]
  /\ t.open \in [Fds -> Nodes \cup {None, Dead}]

(* path_hash, fd_hash and the kernel agree: every open descriptor belongs  *)
(* to the one entry that refers to it and is found again from a signal, no *)
(* descriptor is forgotten open, and a suspended watch has none. *)
Consistent(t) ==
  /\ \A x \in Fds : IF t.owner[x] = None THEN t.open[x] = None ELSE t.open[x] \in {t.owner[x], Dead}
  /\ \A x \in Fds : \A k \in Nodes : t.owner[x] = k <=> t.fd[k] = x
  /\ \A k \in Nodes : t.ref[k] = 0 => t.fd[k] = -1 /\ t.busy[k] = 0
  /\ \A k \in Nodes : t.busy[k] > 0 => t.fd[k] = -1
=============================================================================
