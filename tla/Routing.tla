------------------------------ MODULE Routing ------------------------------
(***************************************************************************)
(* Which backend a subscription is given to, and from which one it is      *)
(* taken: the configuration files (gam_conf.c), the exclude rules          *)
(* (gam_excludes.c), the table of mounted file systems (gam_fs.c) and the  *)
(* choice made from them in gam_server.c, gam_connection.c, gam_listener.c.*)
(*                                                                         *)
(* A subscription does not remember its backend: the choice is computed    *)
(* when it is added, again when it is removed, and a third time to decide  *)
(* who frees it, each time from /etc/mtab, which other processes change.   *)
(* A configuration file is the sequence of its lines: a rule for some      *)
(* paths ("poll", "notify") or an fsset.  Patterns and path prefixes are   *)
(* constants: the sets of paths they match.                                *)
(***************************************************************************)
EXTENDS Integers, Sequences, SequencesExt

CONSTANTS
  Paths,        \* paths that are monitored
  Mounts,       \* mount points
  Length,       \* strlen of each
  Prefix,       \* the paths that begin with the text of each
  Types,        \* names of file system types
  Builtin,      \* fsset lines of gam_fs_init
  StaticRules,  \* static_excludes
  Files,        \* contents a configuration file may have
  MountTables,  \* contents /etc/mtab may have
  Subs,
  MaxTime       \* bound: mtime of /etc/mtab, in seconds

ASSUME RoutingSets ==
  /\ Length \in [Mounts -> Nat] /\ Prefix \in [Mounts -> SUBSET Paths] /\ MaxTime \in Nat

(* Two texts of one length that begin the same path are the same text. *)
ASSUME PrefixAssumption ==
  \A a, b \in Mounts : Length[a] = Length[b] /\ Prefix[a] \cap Prefix[b] # {} => a = b

Methods == {"kernel", "poll", "none"}
Rules   == [on : SUBSET Paths, poll : BOOLEAN]
Fssets  == [type : Types, mon : Methods, timeout : Int]
Props   == [mon : Methods, timeout : Int]

(* gam_exclude_init adds every static pattern as one to be polled. *)
ASSUME RoutingLines ==
  /\ Builtin \in Seq(Fssets) /\ Files \subseteq Seq(Rules \cup Fssets)
  /\ StaticRules \in Seq([on : SUBSET Paths, poll : {TRUE}])
  /\ MountTables \subseteq Seq([at : Mounts, type : Types])

(* The backend that started: inotify (with basic polling), dnotify (with   *)
(* its own polling), polling only, or polling after inotify failed to      *)
(* start, which leaves the hooks of inotify installed. *)
Backends == {"inotify", "dnotify", "poll", "failed"}
NoProps  == [mon |-> "none", timeout |-> -1]

VARIABLES
  conf,         \* the lines of the global, the user and the mandatory file
  boot,         \* how many of the files are read; 4 when the server is up
  backend,
  excludes,     \* excludes
  props,        \* fs_props by type, NoProps when there is none
  initialized,  \* gam_fs_init was called
  filesystems,  \* filesystems
  seen,         \* mtab_sbuf.st_mtime
  mtab,         \* /etc/mtab: [present, table, time]
  missed,       \* history: the list may not be the table although the times agree
  path,         \* path of each subscription
  stage,        \* of each subscription: "new", "refused", "held", "removed", "done"
  holder,       \* the backend that refers to it: "nobody", "tree", "inotify"
  freed,        \* how often gam_subscription_free was called on it
  route,        \* history: the backend it was given to
  moved         \* history: the answer for its path changed since

fsVars  == <<props, initialized, filesystems, seen, missed>>
subVars == <<path, stage, holder, freed, route, moved>>
vars    == <<conf, boot, backend, excludes, mtab, fsVars, subVars>>

-----------------------------------------------------------------------------
(* gam_excludes.c: rules are appended, the first match counts. *)

(* Faulty variant: the last rule is found first. *)
gam_exclude_add_Front(rules, r) == <<r>> \o rules

gam_exclude_add(rules, r) == Append(rules, r)

gam_exclude_check(rules, p) ==
  LET i == SelectInSeq(rules, LAMBDA r : p \in r.on) IN i # 0 /\ rules[i].poll

-----------------------------------------------------------------------------
(* gam_fs.c. *)

(* Faulty variant: a timeout that is left out resets the one before. *)
gam_fs_set_Reset(table, l) ==
  [table EXCEPT ![l.type] = [mon |-> l.mon, timeout |-> IF l.timeout >= 0 THEN l.timeout ELSE 0]]

(* An fsset overwrites the method; a timeout that is left out (-1) keeps   *)
(* the one before, or is DEFAULT_POLL_TIMEOUT, 0. *)
gam_fs_set(table, l) ==
  [table EXCEPT ![l.type] =
     [mon |-> l.mon,
      timeout |-> IF l.timeout >= 0 THEN l.timeout
                  ELSE IF table[l.type] = NoProps THEN 0 ELSE table[l.type].timeout]]

(* Faulty variant: the shortest mount point comes first. *)
gam_fs_filesystem_sort_cb_Rising(a, b) == Length[a.at] - Length[b.at]

(* g_list_prepend of every line, then a stable sort by falling length. *)
gam_fs_filesystem_sort_cb(a, b) == Length[b.at] - Length[a.at]

Sorted(list, fs) ==
  LET i == SelectInSeq(list, LAMBDA g : gam_fs_filesystem_sort_cb(fs, g) <= 0)
  IN  InsertAt(list, IF i = 0 THEN Len(list) + 1 ELSE i, fs)

gam_fs_scan_mtab(table) == FoldLeft(Sorted, <<>>, table)

gam_fs_find_fs(list, p) == SelectInSeq(list, LAMBDA fs : p \in Prefix[fs.at])

gam_fs_get_mon_type(table, list, p) ==
  LET i == gam_fs_find_fs(list, p)
  IN  IF i = 0 \/ table[list[i].type] = NoProps THEN "kernel" ELSE table[list[i].type].mon

(* gam_fs_init: the built in properties and a first scan, later a scan     *)
(* when the mtime of /etc/mtab, in seconds, is another one.  When stat     *)
(* fails the time it compares and keeps is uninitialised, and the list     *)
(* stays as it is. *)
Stats == IF mtab.present THEN {mtab.time} ELSE 0 .. MaxTime

gam_fs_init(st) ==
  LET scan == ~initialized \/ st # seen
  IN  /\ initialized' = TRUE
      /\ seen' = st
      /\ filesystems' = IF scan /\ mtab.present THEN gam_fs_scan_mtab(mtab.table)
                        ELSE filesystems
      /\ missed' = IF mtab.present THEN missed /\ ~scan ELSE TRUE

FirstProps == IF initialized THEN props ELSE FoldLeft(gam_fs_set, props, Builtin)

-----------------------------------------------------------------------------
(* gam_conf_read, then gam_exclude_init: one file at a time. *)

ReadRule(rules, l)  == IF l \in Rules THEN gam_exclude_add(rules, l) ELSE rules
ReadFsset(table, l) == IF l \in Fssets THEN gam_fs_set(table, l) ELSE table

gam_conf_read_internal ==
  LET lines == conf[boot + 1]
  IN  /\ boot < 3
      /\ boot' = boot + 1
      /\ excludes' = FoldLeft(ReadRule, excludes, lines)
      /\ IF ToSet(lines) \cap Fssets = {} THEN UNCHANGED fsVars
         ELSE /\ \E st \in Stats : gam_fs_init(st)
              /\ props' = FoldLeft(ReadFsset, FirstProps, lines)
      /\ UNCHANGED <<conf, backend, mtab, subVars>>

gam_exclude_init ==
  /\ boot = 3 /\ boot' = 4
  /\ excludes' = FoldLeft(gam_exclude_add, excludes, StaticRules)
  /\ UNCHANGED <<conf, backend, mtab, fsVars, subVars>>

(* /etc/mtab is rewritten by mount and umount, or is not there. *)
Mount(table, t) ==
  /\ t \in {mtab.time, mtab.time + 1} \cap (0 .. MaxTime)
  /\ table # mtab.table \/ ~mtab.present
  /\ mtab' = [present |-> TRUE, table |-> table, time |-> t]
  /\ missed' = (missed \/ (initialized /\ t = seen))
  /\ UNCHANGED <<conf, boot, backend, excludes, props, initialized, filesystems, seen, subVars>>

Unlink ==
  /\ mtab.present
  /\ mtab' = [mtab EXCEPT !.present = FALSE]
  /\ UNCHANGED <<conf, boot, backend, excludes, fsVars, subVars>>

-----------------------------------------------------------------------------
(* gam_server.c. *)

inotify_is_running == backend = "inotify"

(* What gam_server_install_kernel_hooks was called with; the hooks of      *)
(* dnotify call those of its polling.  The poll hooks are always there. *)
KernelHook == IF backend \in {"inotify", "failed"} THEN "inotify"
              ELSE IF backend = "dnotify" THEN "tree" ELSE "nobody"

(* The hook for a path, when the lookup in gam_fs_init gave `list': both   *)
(* gam_add_subscription and gam_remove_subscription. *)
HookFor(p, table, list) ==
  IF gam_exclude_check(excludes, p)
  THEN IF inotify_is_running THEN "tree" ELSE KernelHook
  ELSE LET type == gam_fs_get_mon_type(table, list, p)
       IN  IF type = "kernel" THEN KernelHook ELSE IF type = "poll" THEN "tree" ELSE "nobody"

(* gam_fs_get_mon_type and gam_fs_get_poll_timeout begin with gam_fs_init. *)
Look == /\ \E st \in Stats : gam_fs_init(st)
        /\ props' = FirstProps

(* A path that is not excluded is looked up. *)
Lookup(p) == IF gam_exclude_check(excludes, p) THEN UNCHANGED fsVars ELSE Look

(* Every new node of the tree, for a subscription or for an entry of a     *)
(* directory that is scanned, is looked up too, excluded or not.           *)
gam_node_new ==
  /\ boot = 4 /\ Look
  /\ UNCHANGED <<conf, boot, backend, excludes, mtab, subVars>>

(* A backend that takes the subscription also puts it on the list of its   *)
(* listener; when none does nobody knows it any more. *)
gam_add_subscription(s, p) ==
  /\ boot = 4 /\ stage[s] = "new"
  /\ Lookup(p)
  /\ LET to == HookFor(p, props', filesystems')
     IN  /\ path'   = [path EXCEPT ![s] = p]
         /\ route'  = [route EXCEPT ![s] = to]
         /\ holder' = [holder EXCEPT ![s] = to]
         /\ stage'  = [stage EXCEPT ![s] = IF to = "nobody" THEN "refused" ELSE "held"]
  /\ UNCHANGED <<conf, boot, backend, excludes, mtab, freed, moved>>

(* The tree frees what it is given, whether it has it or not; inotify      *)
(* takes it out of its lists and leaves it to the caller. *)
gam_remove_subscription(s) ==
  /\ stage[s] = "held"
  /\ Lookup(path[s])
  /\ LET from == HookFor(path[s], props', filesystems')
     IN  /\ holder' = [holder EXCEPT ![s] = IF @ = from THEN "nobody" ELSE @]
         /\ freed'  = [freed EXCEPT ![s] = IF from = "tree" THEN @ + 1 ELSE @]
         /\ moved'  = [moved EXCEPT ![s] = from # route[s]]
  /\ stage' = [stage EXCEPT ![s] = "removed"]
  /\ UNCHANGED <<conf, boot, backend, excludes, mtab, path, route>>

(* Faulty variant: the exclude rules are not looked at. *)
FreesIt_Excluded(p, table, list) ==
  inotify_is_running /\ gam_fs_get_mon_type(table, list, p) # "poll"

(* The caller (a cancel request, or the end of the connection) frees it    *)
(* when by now inotify has its path. *)
FreesIt(p, table, list) ==
  /\ inotify_is_running
  /\ ~gam_exclude_check(excludes, p)
  /\ gam_fs_get_mon_type(table, list, p) # "poll"

(* Faulty variant: the listener keeps the subscription, and removes it again. *)
gam_listener_free_subscription_Again(s) ==
  /\ stage[s] = "removed"
  /\ IF inotify_is_running THEN Lookup(path[s]) ELSE UNCHANGED fsVars
  /\ freed' = [freed EXCEPT ![s] = IF FreesIt(path[s], props', filesystems') THEN @ + 1 ELSE @]
  /\ UNCHANGED <<conf, boot, backend, excludes, mtab, path, holder, route, moved, stage>>

gam_listener_free_subscription(s) ==
  /\ stage[s] = "removed"
  /\ IF inotify_is_running THEN Lookup(path[s]) ELSE UNCHANGED fsVars
  /\ freed' = [freed EXCEPT ![s] = IF FreesIt(path[s], props', filesystems') THEN @ + 1 ELSE @]
  /\ moved' = [moved EXCEPT ![s] = @ \/ HookFor(path[s], props', filesystems') # route[s]]
  /\ stage' = [stage EXCEPT ![s] = "done"]
  /\ UNCHANGED <<conf, boot, backend, excludes, mtab, path, holder, route>>

-----------------------------------------------------------------------------
Init ==
  /\ conf \in [1 .. 3 -> Files]
  /\ boot = 0 /\ backend \in Backends /\ excludes = <<>>
  /\ props = [t \in Types |-> NoProps] /\ initialized = FALSE
  /\ filesystems = <<>> /\ seen = 0 /\ missed = FALSE
  /\ mtab \in [present : BOOLEAN, table : MountTables, time : {0}]
  /\ path \in [Subs -> Paths] /\ stage = [s \in Subs |-> "new"]
  /\ holder = [s \in Subs |-> "nobody"] /\ freed = [s \in Subs |-> 0]
  /\ route = [s \in Subs |-> "nobody"] /\ moved = [s \in Subs |-> FALSE]

Next ==
  \/ gam_conf_read_internal \/ gam_exclude_init
  \/ \E t \in MountTables, n \in 0 .. MaxTime : Mount(t, n)
  \/ Unlink
  \/ gam_node_new
  \/ \E s \in Subs : \/ gam_add_subscription(s, path[s])
                     \/ gam_remove_subscription(s)
                     \/ gam_listener_free_subscription(s)

Spec == Init /\ [][Next]_vars
-----------------------------------------------------------------------------
(* The types, and that no subscription is freed more than twice by the     *)
(* three lookups of gam_server.c. *)
TypeOK ==
  /\ boot \in 0 .. 4 /\ backend \in Backends /\ excludes \in Seq(Rules)
  /\ props \in [Types -> Props] /\ initialized \in BOOLEAN /\ missed \in BOOLEAN
  /\ filesystems \in Seq([at : Mounts, type : Types]) /\ seen \in 0 .. MaxTime
  /\ mtab \in [present : BOOLEAN, table : MountTables, time : 0 .. MaxTime]
  /\ path \in [Subs -> Paths] /\ freed \in [Subs -> 0 .. 2] /\ moved \in [Subs -> BOOLEAN]
  /\ stage \in [Subs -> {"new", "refused", "held", "removed", "done"}]
  /\ holder \in [Subs -> {"nobody", "tree", "inotify"}]
  /\ route \in [Subs -> {"nobody", "tree", "inotify"}]

AllLines == conf[1] \o conf[2] \o conf[3]

(* The rules among some lines that match a path. *)
Hits(lines, p) == {i \in DOMAIN lines : lines[i] \in Rules /\ p \in lines[i].on}

(* "gamin checks first the user provided rules in their declaration order  *)
(* within the configuration file and then check the predefined rules"      *)
(* (doc/config.html), over the three files in the order they are read.     *)
(* Excepted is a path on which the mandatory file and one before it both   *)
(* have a rule: of that the documentation says MandatoryWins. *)
FirstRuleWins ==
  boot = 4 => \A p \in Paths :
    LET all  == AllLines
        hits == Hits(all, p)
    IN  Hits(conf[1] \o conf[2], p) = {} \/ Hits(conf[3], p) = {} =>
          (gam_exclude_check(excludes, p) <=>
             IF hits = {} THEN \E r \in ToSet(StaticRules) : p \in r.on
             ELSE all[Min(hits)].poll)

(* "We read the system mandatory last, so that the system administrator    *)
(* can override potentially dangerous options" (gam_conf.c): where the     *)
(* mandatory file has rules for a path, the first of these decides. *)
MandatoryWins ==
  boot = 4 => \A p \in Paths :
    LET hits == Hits(conf[3], p)
    IN  hits # {} => (gam_exclude_check(excludes, p) <=> conf[3][Min(hits)].poll)

(* For file system types it is the other way round: the last fsset counts, *)
(* so that the mandatory file does override the user's; a line without a   *)
(* timeout keeps the last one given, else the built in one, else 0. *)
LastFssetWins ==
  boot = 4 /\ initialized => \A t \in Types :
    LET all   == Builtin \o AllLines
        mine  == {i \in DOMAIN all : all[i] \in Fssets /\ all[i].type = t}
        timed == {i \in mine : all[i].timeout >= 0}
    IN  props[t] = IF mine = {} THEN NoProps
                   ELSE [mon     |-> all[Max(mine)].mon,
                         timeout |-> IF timed = {} THEN 0 ELSE all[Max(timed)].timeout]

(* A lookup finds the file system a path is on, by its text: of the lines  *)
(* of /etc/mtab whose mount point begins the path the longest, and of      *)
(* several at one mount point the last, which hides the others.  Excepted  *)
(* is a change of /etc/mtab in the second of the last look, and a look     *)
(* while it was not there. *)
MountFound ==
  initialized /\ mtab.present /\ seen = mtab.time /\ ~missed =>
    \A p \in Paths :
      LET hits == {i \in DOMAIN mtab.table : p \in Prefix[mtab.table[i].at]}
          i    == gam_fs_find_fs(filesystems, p)
      IN  IF hits = {} THEN i = 0
          ELSE i # 0 /\ \E h \in hits :
                 /\ filesystems[i] = mtab.table[h]
                 /\ \A k \in hits : LET a == mtab.table[k].at
                                        b == mtab.table[h].at
                                    IN  Length[a] < Length[b] \/ (a = b /\ k <= h)

(* A subscription that was removed is freed once, and by then no backend   *)
(* refers to it, although three lookups decide this; unless the answer for *)
(* its path changed between them (a mount or umount while it was           *)
(* monitored), or inotify failed to start: then nobody frees it. *)
CleanRemoval ==
  \A s \in Subs : stage[s] = "done" /\ ~moved[s] =>
    /\ holder[s] = "nobody"
    /\ freed[s] = IF backend = "failed" /\ route[s] = "inotify" THEN 0 ELSE 1
=============================================================================
