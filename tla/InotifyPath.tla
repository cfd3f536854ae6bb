---------------------------- MODULE InotifyPath ----------------------------
(***************************************************************************)
(* The inotify backend of gam_server: subscriptions (inotify-sub.c,        *)
(* inotify-helper.c) attached to watched directories (inotify-path.c) or   *)
(* waiting on the missing list (inotify-missing.c), driven by the events   *)
(* of the kernel's queue (inotify-kernel.c).                               *)
(*                                                                         *)
(* The file system belongs to everybody: it changes between any two system *)
(* calls of the server, so a callback that makes several of them (adding a *)
(* subscription, handling an event, scanning the missing list) is a        *)
(* sequence of actions, kept in `call'; the callbacks themselves do not    *)
(* overlap.  The kernel's queue and events_to_process are one queue: the   *)
(* events move from one to the other in order.  The hold times of moves    *)
(* are 0 in the source, so a move is paired exactly when both halves were  *)
(* read by the time the first is processed.  What is reported to the       *)
(* subscriptions is GamServer's gam_inotify_event_callback.                *)
(***************************************************************************)
EXTENDS Integers, Sequences, SequencesExt

CONSTANTS
  Tree,        \* the paths: sequences of names, <<>> is the root directory
  Fixed,       \* directories that are never removed or renamed
  FilePaths,   \* paths where a plain file may appear
  Refusable,   \* where a watch may fail although the directory is there
  NamePrefix,  \* pairs of names the first of which is a string prefix of the second
  NoName,      \* the name of an event on the watched directory itself
  Subs,        \* subscriptions
  NoSub,
  SubDir,      \* ih_sub_t.dirname of each subscription
  SubFile,     \* ih_sub_t.filename, NoName for a directory
  NoWd,
  MaxGen,      \* bound: descriptors of one path in use or pending at one time
  MaxQueue     \* bound: pending events when the file system changes

ASSUME TreeAssumption ==
  /\ <<>> \in Fixed /\ Fixed \subseteq Tree /\ Refusable \subseteq Tree
  /\ \A p \in Tree : p # <<>> => Len(p) > 0 /\ Front(p) \in Tree
ASSUME SubAssumption ==
  NoSub \notin Subs /\ SubDir \in [Subs -> Tree] /\ DOMAIN SubFile = Subs
ASSUME NoWdAssumption == NoWd \notin Tree \X (1 .. MaxGen)
ASSUME InotifyBounds == MaxGen \in Nat /\ MaxQueue \in Nat

VARIABLES
  kind,      \* what is at each path: "none", "dir", "file"
  watch,     \* the kernel's watch descriptor on the directory at each path
  queue,     \* events not handled yet
  denied,    \* paths at and below which a watch may be refused at present
  dirs,      \* the ip_watched_dir_t objects; NoDir is a free one
  byPath,    \* path_dir_hash
  dirOf,     \* sub_dir_hash
  missing,   \* missing_sub_list
  scanning,  \* scan_missing_running: the 4 s timer is installed
  subList,   \* sub_list
  lost,      \* history: subscriptions an event failed to start again
  call       \* the callback under way

fsVars == <<kind, queue, denied>>
ipVars == <<watch, dirs, byPath, dirOf>>
vars   == <<fsVars, ipVars, missing, scanning, subList, lost, call>>

(* A watch descriptor is named after the path it was made for and told     *)
(* from the earlier ones of that path that are not forgotten yet.          *)
Wds == Tree \X (1 .. MaxGen)

(* Every directory object has a subscriber, so there are at most as many   *)
(* objects as subscriptions; they are named after these.                   *)
NoDir == [path |-> <<>>, wd |-> NoWd, subs |-> {}]

(* op: the callback; todo: the subscriptions it still has to start         *)
(* watching; climbing, at: the one whose directory does not exist and the  *)
(* path ip_watch_parent tried last; gone: the descriptor of a directory    *)
(* that was deleted or moved.                                              *)
Idle == [op |-> "none", todo |-> {}, climbing |-> NoSub, at |-> <<>>, gone |-> NoWd]

Free == call.op = "none"

-----------------------------------------------------------------------------
(* The tables, as a record the helpers below transform. *)

Tables == [watch |-> watch, dirs |-> dirs, byPath |-> byPath, dirOf |-> dirOf]
SetTables(t) ==
  watch' = t.watch /\ dirs' = t.dirs /\ byPath' = t.byPath /\ dirOf' = t.dirOf

Unknown(t, w) ==
  /\ \A q \in Tree : t.watch[q] # w
  /\ \A d \in Subs : t.dirs[d].wd # w
  /\ \A i \in 1 .. Len(queue) : queue[i].wd # w
  /\ call.gone # w

(* inotify_add_watch: the descriptor the directory already has, or a new   *)
(* one.                                                                    *)
ik_watch(t, p) ==
  LET new == {k \in 1 .. MaxGen : Unknown(t, <<p, k>>)}
  IN  IF t.watch[p] # NoWd THEN {t.watch[p]}
      ELSE {<<p, k>> : k \in {i \in new : \A j \in new : i <= j}}

(* inotify_rm_watch *)
ik_ignore(t, w) == [p \in Tree |-> IF t.watch[p] = w THEN NoWd ELSE t.watch[p]]

(* The new directory object d for p with descriptor w, b its first         *)
(* subscription.  An object that already had the path is no longer found   *)
(* by it.                                                                  *)
ip_watched_dir_new(t, p, b, w, d) ==
  [watch  |-> [t.watch EXCEPT ![p] = w],
   dirs   |-> [t.dirs EXCEPT ![d] = [path |-> p, wd |-> w, subs |-> {b}]],
   byPath |-> [t.byPath EXCEPT ![p] = d],
   dirOf  |-> [t.dirOf EXCEPT ![b] = d]]

(* The kernel accepts a watch on p and b is attached to a new object. *)
WatchFor(t, p, b) ==
  /\ kind[p] = "dir"
  /\ \E w \in ik_watch(t, p), d \in {x \in Subs : t.dirs[x].wd = NoWd} :
       /\ t.dirs[b].wd = NoWd => d = b
       /\ SetTables(ip_watched_dir_new(t, p, b, w, d))

ip_map_sub_dir(t, b, d) ==
  [watch  |-> t.watch,
   dirs   |-> [t.dirs EXCEPT ![d].subs = @ \cup {b}],
   byPath |-> t.byPath,
   dirOf  |-> [t.dirOf EXCEPT ![b] = d]]

(* Stop watching for b; the last subscription takes the object, its path   *)
(* and the kernel's watch with it.                                         *)
ip_stop_watching(t, b) ==
  LET d    == t.dirOf[b]
      left == t.dirs[d].subs \ {b}
      off  == [t.dirOf EXCEPT ![b] = NoSub]
  IN  IF d = NoSub THEN t
      ELSE IF left # {}
      THEN [watch  |-> t.watch,
            dirs   |-> [t.dirs EXCEPT ![d].subs = left],
            byPath |-> t.byPath,
            dirOf  |-> off]
      ELSE [watch  |-> ik_ignore(t, t.dirs[d].wd),
            dirs   |-> [t.dirs EXCEPT ![d] = NoDir],
            byPath |-> [t.byPath EXCEPT ![t.dirs[d].path] = NoSub],
            dirOf  |-> off]

(* Faulty variant: the path still leads to the freed object. *)
ip_wd_delete_PathKept(t, w) ==
  LET D == {d \in Subs : t.dirs[d].wd = w}
  IN  [watch  |-> t.watch,
       dirs   |-> [d \in Subs |-> IF d \in D THEN NoDir ELSE t.dirs[d]],
       byPath |-> t.byPath,
       dirOf  |-> [b \in Subs |-> IF t.dirOf[b] \in D THEN NoSub ELSE t.dirOf[b]]]

(* The objects on descriptor w are freed, their subscriptions unmapped.    *)
ip_wd_delete(t, w) ==
  LET D == {d \in Subs : t.dirs[d].wd = w}
  IN  [watch  |-> t.watch,
       dirs   |-> [d \in Subs |-> IF d \in D THEN NoDir ELSE t.dirs[d]],
       byPath |-> [p \in Tree |-> IF \E d \in D : t.dirs[d].path = p THEN NoSub
                                  ELSE t.byPath[p]],
       dirOf  |-> [b \in Subs |-> IF t.dirOf[b] \in D THEN NoSub ELSE t.dirOf[b]]]

-----------------------------------------------------------------------------
(* ip_start_watching for the subscriptions of the callback under way. *)

(* Faulty variants: the timer is not installed; the list is not extended. *)
im_add_NoTimer(B) == missing' = missing \cup B /\ UNCHANGED scanning
im_add_Dropped(B) == UNCHANGED missing /\ scanning' = (scanning \/ B # {})

(* The subscriptions B join the missing list, which has a timer. *)
im_add(B) ==
  missing' = missing \cup B /\ scanning' = (scanning \/ B # {})

(* b is done with, attached if ok.  Handling an event, the result is       *)
(* ignored: what could not be attached is left where nothing looks for it. *)
Started(b, ok) ==
  /\ call' = [call EXCEPT !.todo = @ \ {b}, !.climbing = NoSub, !.at = <<>>]
  /\ subList' = IF call.op = "add" THEN subList \cup {b} ELSE subList
  /\ \/ call.op = "add" /\ im_add(IF ok THEN {} ELSE {b})
     \/ /\ call.op = "scan"
        /\ missing' = IF ok THEN missing \ {b} ELSE missing
        /\ UNCHANGED scanning
     \/ call.op = "event" /\ UNCHANGED <<missing, scanning>>
  /\ lost' = IF call.op = "event" /\ ~ok THEN lost \cup {b} ELSE lost
  /\ UNCHANGED fsVars

(* A path through a plain file: the system call fails with ENOTDIR. *)
NotDir(p) == \E q \in Tree : IsPrefix(q, p) /\ kind[q] = "file"

(* Or it may fail for another reason than a missing name: no permission    *)
(* there or above (EACCES), the limit on watches (ENOSPC), which the root  *)
(* stands for.                                                             *)
Fails(p) == NotDir(p) \/ \E q \in denied : IsPrefix(q, p)

(* The lookup and the first ik_watch.  Handling an event, the subscription *)
(* is detached from its old directory first.                               *)
ip_start_watching(b) ==
  LET t == IF call.op = "event" THEN ip_stop_watching(Tables, b) ELSE Tables
      p == SubDir[b]
  IN  /\ b \in call.todo /\ call.climbing = NoSub
      /\ \/ /\ t.byPath[p] # NoSub
            /\ SetTables(ip_map_sub_dir(t, b, t.byPath[p]))
            /\ Started(b, TRUE)
         \/ /\ t.byPath[p] = NoSub /\ WatchFor(t, p, b)
            /\ Started(b, TRUE)
         \/ /\ t.byPath[p] = NoSub /\ Fails(p)
            /\ SetTables(t)
            /\ Started(b, FALSE)
         \/ /\ t.byPath[p] = NoSub /\ kind[p] = "none" /\ ~NotDir(p)
            /\ SetTables(t)
            /\ call' = [call EXCEPT !.climbing = b, !.at = p]
            /\ UNCHANGED <<fsVars, missing, scanning, subList, lost>>

(* Faulty variant: it stops one name too early. *)
Up_Early(p) == IF Len(p) > 2 THEN Front(p) ELSE p

(* The path the next round tries: a name directly under the root is not    *)
(* shortened any more.                                                     *)
Up(p) == IF Len(p) > 1 THEN Front(p) ELSE p

(* One round of the loop: the parent found is always given a new object.   *)
ip_watch_parent(b) ==
  LET p == Up(call.at)
  IN  /\ call.climbing = b /\ b # NoSub
      /\ \/ /\ WatchFor(Tables, p, b)
            /\ Started(b, TRUE)
         \/ /\ Fails(p)
            /\ Started(b, FALSE)
            /\ UNCHANGED ipVars
         \/ /\ kind[p] = "none" /\ ~NotDir(p)
            /\ call' = [call EXCEPT !.at = p]
            /\ UNCHANGED <<fsVars, ipVars, missing, scanning, subList, lost>>

-----------------------------------------------------------------------------
(* Callbacks. *)

ih_sub_add(b) ==
  /\ Free /\ b \notin subList
  /\ call' = [Idle EXCEPT !.op = "add", !.todo = {b}]
  /\ UNCHANGED <<fsVars, ipVars, missing, scanning, subList, lost>>

(* Faulty variant: it stays on the missing list. *)
ih_sub_cancel_StillMissing(b) ==
  /\ Free /\ b \in subList
  /\ SetTables(ip_stop_watching(Tables, b))
  /\ subList' = subList \ {b} /\ lost' = lost \ {b}
  /\ UNCHANGED <<fsVars, missing, scanning, call>>

ih_sub_cancel(b) ==
  /\ Free /\ b \in subList
  /\ missing' = missing \ {b}
  /\ SetTables(ip_stop_watching(Tables, b))
  /\ subList' = subList \ {b} /\ lost' = lost \ {b}
  /\ UNCHANGED <<fsVars, scanning, call>>

(* g_str_has_prefix of two paths. *)
HasPrefix(p, e) ==
  \/ IsPrefix(e, p)
  \/ /\ e # <<>> /\ Len(e) <= Len(p)
     /\ SubSeq(p, 1, Len(e) - 1) = Front(e)
     /\ <<Last(e), p[Len(e)]>> \in NamePrefix

(* The subscriptions ip_event_dispatch takes off their directory because   *)
(* the event is about a directory their own path leads through.            *)
ToResubscribe(e) ==
  {b \in Subs :
     \E d \in Subs :
       /\ dirs[d].wd = e.wd /\ b \in dirs[d].subs
       /\ SubFile[b] = NoName \/ SubFile[b] = e.name
       /\ HasPrefix(SubDir[b], IF e.name = NoName THEN dirs[d].path
                               ELSE Append(dirs[d].path, e.name))}

(* The next event, with the other half of its move when both have been     *)
(* read by now; a half that comes alone counts as a creation or deletion.  *)
ik_process_events(paired) ==
  /\ queue # <<>>
  /\ paired => Head(queue).both /\ Head(queue).mask = "MOVED_FROM"
  /\ queue' = IF paired THEN Tail(Tail(queue)) ELSE Tail(queue)

(* An event is handled; the second half of a move makes no subscription    *)
(* move.                                                                   *)
ip_event_callback(paired) ==
  LET e == Head(queue)
  IN  /\ Free
      /\ ik_process_events(paired)
      /\ call' = [Idle EXCEPT !.op = "event", !.todo = ToResubscribe(e),
                   !.gone = IF e.mask \in {"DELETE_SELF", "MOVE_SELF"}
                            THEN e.wd ELSE NoWd]
      /\ UNCHANGED <<kind, denied, ipVars, missing, scanning, subList, lost>>

(* The end of an event: what was attached to a directory that is gone      *)
(* becomes missing.                                                        *)
EventDone ==
  /\ call.op = "event" /\ call.todo = {}
  /\ IF call.gone = NoWd THEN UNCHANGED <<ipVars, missing, scanning>>
     ELSE /\ im_add(UNION {dirs[d].subs : d \in {x \in Subs : dirs[x].wd = call.gone}})
          /\ SetTables(ip_wd_delete(Tables, call.gone))
  /\ call' = Idle
  /\ UNCHANGED <<fsVars, subList, lost>>

im_scan_missing ==
  /\ Free /\ scanning
  /\ call' = [Idle EXCEPT !.op = "scan", !.todo = missing]
  /\ UNCHANGED <<fsVars, ipVars, missing, scanning, subList, lost>>

ScanDone ==
  /\ call.op = "scan" /\ call.todo = {}
  /\ scanning' = (missing # {})
  /\ call' = Idle
  /\ UNCHANGED <<fsVars, ipVars, missing, subList, lost>>

AddDone ==
  /\ call.op = "add" /\ call.todo = {}
  /\ call' = Idle
  /\ UNCHANGED <<fsVars, ipVars, missing, scanning, subList, lost>>

-----------------------------------------------------------------------------
(* The file system and the kernel's side of inotify.  The IN_IGNORED that  *)
(* ends a descriptor is left out: ip_event_callback does nothing with it.  *)

Event(w, mask, name, both) ==
  IF w = NoWd THEN <<>>
  ELSE <<[wd |-> w, mask |-> mask, name |-> name, both |-> both]>>

HasRoom == Len(queue) < MaxQueue
Empty(p) == \A q \in Tree : q # p /\ IsPrefix(p, q) => kind[q] = "none"
CanAppear(p) == p # <<>> /\ kind[p] = "none" /\ kind[Front(p)] = "dir"
Unwatched == <<dirs, byPath, dirOf, missing, scanning, subList, lost, call>>

Create(p, k) ==
  /\ HasRoom /\ CanAppear(p)
  /\ k = "file" => p \in FilePaths
  /\ kind' = [kind EXCEPT ![p] = k]
  /\ queue' = queue \o Event(watch[Front(p)], "CREATE", Last(p), FALSE)
  /\ UNCHANGED <<denied, watch, Unwatched>>

(* A deleted directory is reported on its own descriptor, which then ends, *)
(* and on its parent's; kernels differ in the order.                       *)
Delete(p, selfFirst) ==
  LET own == Event(watch[p], "DELETE_SELF", NoName, FALSE)
      up  == Event(watch[Front(p)], "DELETE", Last(p), FALSE)
  IN  /\ HasRoom /\ p \notin Fixed /\ kind[p] # "none" /\ Empty(p)
      /\ kind' = [kind EXCEPT ![p] = "none"]
      /\ watch' = [watch EXCEPT ![p] = NoWd]
      /\ queue' = queue \o (IF selfFirst THEN own \o up ELSE up \o own)
      /\ UNCHANGED <<denied, Unwatched>>

(* A directory with nothing of the tree below it is renamed. *)
Rename(p, q) ==
  LET from == watch[Front(p)]
      to   == watch[Front(q)]
      both == from # NoWd /\ to # NoWd
  IN  /\ HasRoom /\ p \notin Fixed /\ kind[p] = "dir" /\ Empty(p)
      /\ CanAppear(q) /\ ~IsPrefix(p, q)
      /\ kind' = [kind EXCEPT ![p] = "none", ![q] = "dir"]
      /\ watch' = [watch EXCEPT ![p] = NoWd, ![q] = watch[p]]
      /\ queue' = queue \o Event(from, "MOVED_FROM", Last(p), both)
                        \o Event(to, "MOVED_TO", Last(q), both)
                        \o Event(watch[p], "MOVE_SELF", NoName, FALSE)
      /\ UNCHANGED <<denied, Unwatched>>

(* chmod and the like. *)
Touch(p) ==
  /\ HasRoom /\ p # <<>> /\ kind[p] # "none"
  /\ queue' = queue \o Event(watch[Front(p)], "ATTRIB", Last(p), FALSE)
                    \o Event(watch[p], "ATTRIB", NoName, FALSE)
  /\ queue' # queue
  /\ UNCHANGED <<kind, denied, watch, Unwatched>>

(* Watches begin or cease to be refused at and below p; the event of a     *)
(* chmod is Touch.                                                         *)
SwitchRefusal(p) ==
  /\ p \in Refusable
  /\ denied' = IF p \in denied THEN denied \ {p} ELSE denied \cup {p}
  /\ UNCHANGED <<kind, queue, watch, Unwatched>>

-----------------------------------------------------------------------------
Init ==
  /\ kind \in [Tree -> {"none", "dir"}]
  /\ \A p \in Tree : p \in Fixed => kind[p] = "dir"
  /\ \A p \in Tree : kind[p] = "dir" /\ p # <<>> => kind[Front(p)] = "dir"
  /\ watch = [p \in Tree |-> NoWd]
  /\ queue = <<>>
  /\ denied = {}
  /\ dirs = [d \in Subs |-> NoDir]
  /\ byPath = [p \in Tree |-> NoSub]
  /\ dirOf = [b \in Subs |-> NoSub]
  /\ missing = {}
  /\ scanning = FALSE
  /\ subList = {} /\ lost = {}
  /\ call = Idle

(* The steps of a callback that has begun. *)
CallStep ==
  \/ \E b \in Subs : ip_start_watching(b) \/ ip_watch_parent(b)
  \/ EventDone \/ ScanDone \/ AddDone

FileSystem ==
  \/ \E p \in Tree, k \in {"dir", "file"} : Create(p, k)
  \/ \E p \in Tree, selfFirst \in BOOLEAN : Delete(p, selfFirst)
  \/ \E p, q \in Tree : Rename(p, q)
  \/ \E p \in Tree : Touch(p) \/ SwitchRefusal(p)

Next ==
  \/ CallStep
  \/ \E b \in Subs : ih_sub_add(b) \/ ih_sub_cancel(b)
  \/ \E paired \in BOOLEAN : ip_event_callback(paired)
  \/ im_scan_missing
  \/ FileSystem

Spec == Init /\ [][Next]_vars

(* The main loop runs a callback to its end, comes back to its sources,    *)
(* and the 4 s timer fires while it is installed.                          *)
FairSpec ==
  /\ Spec
  /\ WF_vars(CallStep)
  /\ SF_vars(im_scan_missing)

-----------------------------------------------------------------------------
(* A cancelled subscription is freed at once, so no list, directory or     *)
(* callback may still refer to it: every one they name is in sub_list.     *)
NoFreedSub ==
  /\ missing \subseteq subList
  /\ \A d \in Subs : dirs[d].subs \subseteq subList
  /\ call.op # "add" => call.todo \subseteq subList

(* The hash tables lead to live objects only, although objects with the    *)
(* same path displace each other in path_dir_hash and unmap each other     *)
(* when they are freed; both directions of the subscription map agree, and *)
(* an object lives exactly as long as it has subscribers.                  *)
Agree(t) ==
  /\ \A b, d \in Subs : t.dirOf[b] = d <=> b \in t.dirs[d].subs
  /\ \A d \in Subs : t.dirs[d].wd # NoWd <=> t.dirs[d].subs # {}
  /\ \A p \in Tree :
       LET d == t.byPath[p]
       IN  d # NoSub => t.dirs[d].wd # NoWd /\ t.dirs[d].path = p

(* Every state of the tables between two steps agrees in this way. *)
TablesAgree == Agree(Tables)

(* A subscription on the missing list has a timer that will look for it:   *)
(* im_add installs it, a scan that leaves the list empty removes it.       *)
ScanArmed == missing # {} => scanning

(* "Each subscription is attached to a watched directory or it is on the   *)
(* missing list" (inotify-path.c), and not both, between callbacks: the    *)
(* only ones on neither are those whose watch was refused when an event    *)
(* made ip_event_dispatch stop and start them again.                       *)
Placed ==
  Free =>
    \A b \in subList :
      \/ dirOf[b] # NoSub /\ b \notin missing \cup lost
      \/ dirOf[b] = NoSub /\ (b \in missing <=> b \notin lost)

(* That sentence with "watched" taken by its word: the kernel still        *)
(* reports on the directory, or has reported its end.                      *)
Covered ==
  Free =>
    \A b \in subList \ missing :
      /\ dirOf[b] # NoSub
      /\ LET w == dirs[dirOf[b]].wd
         IN  \/ \E p \in Tree : watch[p] = w
             \/ \E i \in 1 .. Len(queue) :
                  queue[i].wd = w /\ queue[i].mask = "DELETE_SELF"

(* Every callback returns to the main loop: the climb of ip_watch_parent   *)
(* ends although the directories it looks for come and go.                 *)
Returns == (call.op # "none") ~> (call.op = "none")

(* A missing subscription is attached again, to its directory or the       *)
(* nearest one above it, unless it is cancelled, a plain file is in the    *)
(* way or the watch may be refused: the scan timer keeps running for it,   *)
(* also after refusals that have ended.                                    *)
FoundAgain ==
  \A b \in Subs :
    (b \in missing) ~> (dirOf[b] # NoSub \/ b \notin subList \/ Fails(SubDir[b]))
=============================================================================
