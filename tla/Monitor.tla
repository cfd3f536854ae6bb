------------------------------ MODULE Monitor ------------------------------
(***************************************************************************)
(* What the backends that poll promise: a cache of the file system that is *)
(* only ever brought up to date.  For each item the cache holds nothing,   *)
(* or whether the item was there the last time it was looked at; the       *)
(* answer changes only when the item is looked at, and then to what is     *)
(* there at that very moment, or is forgotten.  PollBasic and Dnotify      *)
(* implement this with MON_MISSING (gam_poll_basic.c, gam_poll_dnotify.c). *)
(***************************************************************************)
CONSTANT Items

VARIABLES
  there,   \* the items that exist
  known    \* what the cache says of each

Answers == {"unknown", "present", "absent"}

Truth(p) == IF p \in there THEN "present" ELSE "absent"

Init == there \in SUBSET Items /\ known = [p \in Items |-> "unknown"]

(* Anything may appear and disappear. *)
Change == there' \in SUBSET Items /\ known' = known

(* Some items are looked at, some are forgotten, the others are left alone. *)
Refresh ==
  /\ known' \in [Items -> Answers]
  /\ \A p \in Items : known'[p] \in {known[p], Truth(p), "unknown"}
  /\ there' = there

Spec == Init /\ [][Change \/ Refresh]_<<there, known>>
=============================================================================
