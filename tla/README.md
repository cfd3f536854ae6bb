# TLA+ models of gamin

gamin is a file alteration monitor: applications link `libgamin` and use the FAM
API; one `gam_server` per user watches the file system for all of them. This
directory holds TLA+ models of the two, of what passes between them and of the
server's three Linux backends, TLC configurations for small instances, and TLAPS
proofs for every instance.

## The system

| part | source | state | operations |
|---|---|---|---|
| FAM API | `libgamin/gam_api.c`, `gam_fork.c` | the descriptor, the phase of a connection attempt | open, close, monitor, cancel, no-exists, pending, next event, reconnect, fork a server |
| client data | `libgamin/gam_data.c` | request table, request counter, `auth`, `restarted`, `noexist`, the ready event | add, search, delete, cancel, decode an event, reset |
| protocol | `libgamin/gam_protocol.h` | bytes in flight in both directions | write, read, end of file |
| channel | `server/gam_channel.c` | listening socket, GIO sources | accept, credential exchange, read, shutdown |
| connections | `server/gam_connection.c` | `gamConnList`, per connection state, flush timer, idle timer | new, close, request, acknowledgement, flush, idle check |
| event queue | `server/gam_eq.c` | queued events | queue with duplicate suppression, flush |
| listeners, subscriptions | `server/gam_listener.c`, `gam_subscription.c` | subscriptions of a connection | add, remove, find by number, wants event |
| server | `server/gam_server.c` | the process | init, emit, route to a backend, exit |
| inotify backend | `server/gam_inotify.c`, `inotify-*.c` | kernel watches, missing paths, held-back events | watch, unwatch, dispatch, rescan |
| poll backend | `server/gam_poll_generic.c`, `gam_poll_basic.c`, `gam_tree.c`, `gam_node.c` | tree of nodes with flags and stat data, `all_resources`, `missing_resources`, the scan timer | add, remove and prune, scan lists and directories, poll a file, emit |
| dnotify backend | `server/gam_poll_dnotify.c`, `gam_dnotify.c` | the same tree, `busy_resources`, `path_hash`, `fd_hash`, suspensions, queued signals | the same, and (de)activate, suspend and resume a watch, handle a signal |
| configuration | `server/gam_conf.c`, `gam_excludes.c`, `gam_fs.c` | exclude rules, properties of file system types, mount table | read the files, look up a path; which backend serves it |

**How they interact.** The client writes requests on a unix stream socket; the
server's main loop reads them, creates subscriptions in the connection's
listener, and the backend queues events for a subscription. A 100 ms timer of the
connection flushes the queue to the socket. A cancellation is acknowledged
directly, past the queue. The client looks up each event by its request number
in the table and hands it, with the request's user data, to the application.
When a read sees end of file the client forks a server if needed, connects
again, and sends every request of its table again.

**What is hard.** Events cross cancellations in flight; the acknowledgement
overtakes queued events; the server may die or leave at any point and the client
rebuilds its subscriptions on another one; several servers may be forked at once
and one wins `bind()`; two timers are installed and removed by different
callbacks; request numbers are `int` in the table and 16 bits on the wire, and
the table's binary searches need it to stay sorted. In the backends files come
and go between the system calls of one callback; lists are walked while the
visits change them; nodes, watches and subscriptions are freed while several
tables refer to them; timers remove themselves; signals are lost; and which
backend holds a subscription is not stored but computed three times from a mount
table that changes. `PROJECT.json` lists these as
hazards, each at its line, with the properties that watch it.

## Modules

| module | models |
|---|---|
| `GamSockets` | the sockets, packets and the listening address both sides share |
| `GamClient` | `libgamin`: the request table as operators on sequences, then one action per API call |
| `GamServer` | `gam_server`: one action per main loop callback, and the process's start and end |
| `GamSystem` | the composition, fairness, and all properties |
| `InotifyPath` | the inotify backend: subscriptions, watched directories, missing list, kernel watches and events |
| `PollTree` | what the poll and dnotify backends share: the file system, the tree of nodes and its pruning, who hears of an event, walks by index |
| `PollBasic` | the poll backend: subscriptions, the scan one node at a time, its two lists and timer, what subscriptions are told |
| `DnotifyTable` | `gam_dnotify.c`: the watches, their counts and the two hash tables as a value, one function per request |
| `Dnotify` | the dnotify backend: polls, signals, missing and busy lists, flow control |
| `Monitor` | what a backend that polls promises: a cache of the file system |
| `Routing` | configuration files, exclude rules, file system types, the mount table, and the choice of backend at its three places |
| `MCGamSystem`, `MCInotifyPath`, `MCPollBasic`, `MCDnotify`, `MCRouting` | symmetry sets, trees and tables for TLC |
| `GamSystemProofs`, `GamAttributionProofs`, `GamLedgerProofs`, `InotifyPathProofs`, `PollTreeProofs`, `PollBasicProofs`, `DnotifyProofs`, `RoutingProofs` | the theorems |

Definitions carry the name of the C function they stand for; the few with another
name (`Connect`, `Wanted`, `LostServer`, ...) are parts of one, named in the map of
`PROJECT.json`.

`InotifyPath` is the environment of `GamServer` seen from inside: `GamServer` lets
the backend report on any live subscription at any time, and `InotifyPath` shows
which subscriptions are alive for it (`NoFreedSub`). `PollBasic` and `Dnotify` do
the same for the other two backends and implement `Monitor`; `Routing` decides
which of them a subscription is given to, taken from and freed by.

`Monitor` has two steps: anything may appear or disappear, and some items are
looked at, others forgotten. The mapping (`Cache` in `PollBasic` and `Dnotify`) takes
an item that was never polled to "unknown" and otherwise reads `MON_MISSING`; the
refinement says that the flag changes only to what `stat` shows in that very step.

*Atomicity.* The application calls the API from one thread, so a call is one
action; only the connection attempts, which wait up to 25 × 50 ms for a server,
are split (`FAMOpen`, `gamin_fork_server`, `GiveUp`, `gamin_data_new`,
`gamin_try_reconnect`, `LostServer`). The server is one glib main loop, so a
callback is one action. A read that returns several packets handles them one by
one: on the client the rest waits in the buffer as it would have waited in the
socket; on the server the requests are handled in a row, and between two of them
nothing the client can see differs from separate reads. In `InotifyPath` other
programs change the file system between any two system calls of the server, so a
callback with several calls is a sequence of actions (`call`), among them each
round of the climb in `ip_watch_parent`; only the file system steps in between.

*Data.* Paths are model values; events about an entry of a monitored directory
appear under the directory's path. Packets are whole. What the initial report
of a path says, and when the backend reports a change, is chosen freely. With
the inotify backend running every event goes through the queue, as in the code.
The message path of a cancellation, and of the credential byte, is `NoPath`.

*Left out on purpose.* Connecting, sending the credential byte and sending the
requests again is one step: a server that dies in the middle is not told apart
from one that dies just after, although in the code the former makes the call
fail and keeps the old descriptor. Writes never block. The credential checks
always succeed. Where the code tests an uninitialised byte (end of file while the
credential byte is due) `LostServer` takes either outcome.

In `InotifyPath` a path is a sequence of names, so that parents and prefixes are
those of the code (`g_str_has_prefix` also matches `/a/b` against `/a/bc`; the pairs
of names it confuses are a constant). The kernel queue and `events_to_process` are
one queue; the hold times of moves are 0 in the source, so whether a move is
paired depends only on how far the server has read, which is chosen freely.
Descriptors and objects that nothing refers to any more are used again. Only
directories with nothing modelled below them are renamed; unmounts and queue
overflow are left out.

A watch can fail although its directory is there (`Fails`): `ENOTDIR` when a plain
file is on the way, and any other error where and as long as other programs make
it so (`denied`, switched at any moment by `SwitchRefusal`): `EACCES` at or below a
path, and `ENOSPC`, which is a refusal at the root. A refusal is never certain: the
call may then fail or succeed, which covers the watches a refusal does not reach.
`ip_start_watching` and `ip_watch_parent` return on each of these errors as they do
in the code; what an event could not start again is recorded in `lost`, a history
variable.

In `PollBasic` and `Dnotify` a node is its path (`node_hash` allows one per path) and
the lists, which hold a node once, are sets: their order shows only in which node
a walk by index misses or meets again, and `NextLeft` allows every outcome an order
could give. The file system changes between any two nodes a scan looks at; adding
and removing a subscription is one step. Of the time stamps the models keep what
the code asks of them: was the node ever polled, in this second, less than
`poll_time` ago. In `PollBasic`, `told` and `behind` are history: what each
subscription was told, and the paths about which the code leaves it uninformed.
In `Dnotify` whether `stat` shows a change, and whether a file was touched in this
second, is free, signals may be lost, and what is reported is not recorded. The
root node is in `Dnotify`, where it has a watch, and left out of `PollBasic`. The root
of the tree is not in `node_hash` (`gam_tree.c:77-79`), so a signal for it leads to a
second node for `/` that never has a child or a subscription: it polls nothing.

In `Routing` a configuration file is the sequence of its rules and `fsset` lines, a
pattern or a mount point is the set of paths its text matches, and `/etc/mtab` is a
table with a time stamp in seconds that mounts change at any moment or remove. The
table is read again by the lookups for a path that is not excluded and by those of
every new node of the tree (`gam_node_new`), which scans make at any time. A failed
`stat` leaves the compared time uninitialised: any value is taken. `moved` and
`missed` are history.

## Runs

All runs check for deadlock. Bounds are constants named in the modules and appear
in guards: `MaxReq` (numbers handed out), `MaxTab` (entries), `MaxUp` (unread
requests when another is made), `MaxPending`/`MaxReported` (unread events when
one is emitted or a subscription added), `MaxStarting`, `MaxDeaths`; in `InotifyPath` `MaxQueue` (pending events when the
file system changes again; one change makes up to three) and `MaxGen`; in `Dnotify`
`MaxRefs` and `MaxBusy` (no subscription is added while a count of a watch has
reached them, and with the counts nothing else grows); in `Routing` `MaxTime`.

| run | instance | shows |
|---|---|---|
| `protocol` | 1 client, 1 socket, 2 paths, files and directories, 3 numbers with a field of 3 values, so the number wraps | `TypeOK`, `SortedUntilReset`, `Attribution`, `Agreement`, `NoSpuriousClose` |
| `two_clients` | 2 clients, 2 sockets, two servers starting at once, one death and idle exits, one path not monitored | `IdleTimer`, `EqArmed`, `Attribution` |
| `user_nums` | numbers 1..4 chosen by the application, tables up to 4 | `UserNumsSorted`, `Findable` |
| `live` | 1 client, 2 sockets, one death at any point; a request after it has the number of one before it; `FairSpec` | `NoSpuriousClose`, `CancelAckedUntilReset`, `Resubscribed`, `Reaped` |
| `inotify` | `/a/b`, `/a/bc` come, go and are renamed to each other; two subscriptions on `/a/b` and one on `/a/bc`; watches fail only for missing names | `NoFreedSub`, `TablesAgree`, `ScanArmed`, `Placed` |
| `inotify_live` | `/a/b/c` and a file in it; both levels may be missing or plain files, any watch may be refused for a time; `FairSpec` | `Placed`, `Returns`, `FoundAgain` |
| `watched` | `/a` and `/a/b` | violation, below |
| `poll` | `/d/e/f`: `/d/e` may be a directory or a file and is monitored as a directory, `/d/e/f` twice as a file, with a poll timeout; `FairSpec` | `TypeOK`, `NoFreedNode`, `Polled`, `Informed`, `Noticed`, `CacheOfFs` |
| `poll_abort` | `/d` and `/d/f`, `/d` may be a file | violation, below |
| `dnotify` | `/d` with the kernel and one descriptor, `/d/f` polled; thresholds 1 and 0 instead of 4 and 5; `FairSpec` | `TypeOK`, `HashesAgree`, `NoDanglingNode`, `Listed`, `CacheOfFiles`, `NoticedAtRest` |
| `routing` | three files, each one of five of at most two lines, four backends, two mount points of which one hides the other, the text of one beginning a path that is not under it | `TypeOK`, `FirstRuleWins`, `LastFssetWins`, `MountFound`, `CleanRemoval` |
| `mandatory` | the same | violation, below |

Why the bounds are enough: two requests on two paths already give an event that
crosses a cancellation, a removal from the middle or the end of the table, and
the reuse of a wrapped number; four entries exercise every branch of the
insertion search; a reconnection needs two sockets (the dead one and the new
one); two clients are enough for one to be served with the other's data. One
death after another behaves as the first, since a reset leaves nothing but the
`restarted` flag behind. For inotify, two subscriptions that wait on the same
parent give two objects with one path and one descriptor, and a third on the
same directory as the first gives a shared object; refusals, which would double that
instance, are in `inotify_live`, where both subscriptions are on one directory. For the poll backend three levels
give a node that is pruned with the ones above it and one that is kept by a
subscription below, a node that changes kind, and two subscriptions of which one
is removed while the other stays. For dnotify one descriptor makes opening fail
and be reused, and a file monitored next to its directory makes two paths share
one watch; the thresholds only decide how often a node must change before flow
control starts, and the proofs hold for all of them.

**Fairness** (`FairSpec`) is weak fairness on the main loop's sources (accept,
read, flush, a starting server's `bind`), which glib dispatches while they stay
ready, and on the client's reads and connection steps, for an application that
selects on its descriptor and keeps reading. Requests, cancellations, closes,
backend events and deaths are never forced. The idle exit is off in `live`:
whether a client connects before a 30 s timer is a matter of real time. In
`InotifyPath` a callback that has begun goes on (weak fairness), and the 4 s scan
timer is strongly fair: glib dispatches every due source in each round, however
many events come in between. `Returns` is checked where the top-level directory
stays; for a missing directory directly under `/` the code does not shorten the
path any more (`Up`) and the climb lasts until the directory is created.
`FoundAgain` forces no refusal to end: it excepts a subscription whose directory a
plain file or a refusal blocks at the moment, and holds for those that were refused
before and are not any more.

In `PollBasic` the scan is weakly fair: the timer is a source of the main loop as
long as it is installed. That `poll_time` passes for a node is strongly fair, since
time stands still only during a scan. `Noticed` then holds however often files and
subscriptions change. In `Dnotify` every callback that has begun ends, the timer is
strongly fair (glib dispatches all due sources of one priority in a round, whatever
the pipe brings), and so is the passing of `poll_time`. `NoticedAtRest` needs more,
that files, subscriptions and signals come to rest: a visit that takes a node off
the missing list makes the walk by index pass over the next one, and with files
that come and go for ever this may be the same node in every scan.

**Disagreements with what the source says of itself**, each a run TLC refutes:

* `watched`: a subscription on a missing directory shares the kernel watch of its
  parent and removes it when it leaves, so a subscription on the parent goes deaf.
* `poll_abort`: the assertion that a node which is not a directory has no children
  fails, when a path below a plain file is monitored, or a monitored directory is
  replaced by a plain file; the server aborts.
* `mandatory`: the mandatory configuration file is read last so that it can override
  the user's (`gam_conf.c:125`, `doc/config.html:40`), but the first `poll` or
  `notify` rule that matches a path decides, and that is the user's. `FirstRuleWins`
  is stated where the two do not both have a rule. For `fsset` the last line counts
  and the mandatory file does override (`LastFssetWins`).

**What the models show besides**, where a property has an exception for it or a
hazard names it:

* A reset restarts the request counter at 1 and keeps the table, so a later
  request reuses a number and the table is no longer sorted: `SortedUntilReset`.
* A request cancelled but not acknowledged when the server dies is subscribed
  again, although `gam_api.c:1369` calls the cancellation permanent; and after a
  reconnection the `restarted` flag drops the acknowledgement of a cancellation:
  `CancelAckedUntilReset`.
* A subscription made on a node that is already known is told the path exists even
  if it is missing, and what its first poll finds is told to it only; an entry that
  is gone before it is first polled is reported created and never deleted:
  `behind` in `Informed`.
* A subscription that an event detaches, and whose new watch then fails, is on no
  list and is never looked for again, whether a plain file, a permission or the
  limit on watches is the reason (`inotify-path.c:450`). `Placed` names them (`lost`)
  and shows that there are no others.
* A request number past the field's width comes back cut, and its events are dropped
  or given to an older request: `Attribution` and `Agreement` are stated while the
  numbers fit. `NoSpuriousClose` is not: a cancellation finds its subscription.
* A mount point is compared as text, so `/n` is taken for the mount of `/nd/f`
  (`gam_fs.c:68`): `MountFound` is about texts.
* Where the mount under a path changes while it is monitored, its subscription may
  be removed from a backend that does not have it, freed twice or never; and an
  inotify backend that failed to start leaves its hooks, whose subscriptions
  nobody frees: the exceptions of `CleanRemoval`. With polling only, paths that
  are excluded or of type `kernel` are given to nobody.
* A subscription on a missing file that is removed while missing does not give back
  the use of the directory's watch: the count never returns to 0. `HashesAgree`
  holds meanwhile.

## Proofs

The theorems hold for any sets of clients, sockets and paths, any width of the
sequence field, any trees, subscriptions and limits of the backends, any
configuration and mount table and any bounds, from the named assumptions of the
modules, which TLC evaluates in every run. Of these `TreeShape` (`PollTree`) has the
most content: the directories above a path are its parent and those above the
parent, and each of them is the parent of the path or of another of them. `Dnotify`
counts subscriptions, so there they are finitely many.

* `TypeCorrect` (`TypeOK`): inductive as it stands; each action is a lemma, and
  most of the work is that sequences built by append, insertion, removal and
  search stay sequences of their type.
* `EqArmedAlways` (`EqArmed`): inductive together with `TypeOK`.
* `IdleTimerAlways` (`IdleTimer`): needs that there is no connection while no
  server listens (`IdleInv`), or a new server could start with its timer running
  and a connection already there.
* `SortedAlways` (`SortedUntilReset`): the counter bound is what makes appending
  keep the order.
* `EndsAlways` (`Ends`): no two clients share a socket; a client's socket is open
  at its end; a closed end, or one not yet accepted, holds no subscription, event
  or packet of an earlier life. This is what makes reusing a socket safe.
* `AttributionAlways` (`Attribution`): by the invariant `Consistent`: whatever is in
  flight for a healthy client (its own requests, the server's subscriptions, the
  queue, the packets, the ready event) carries a number already handed out, and
  the path of the entry that has the number if it is still in the table. A new
  request takes a number nothing in flight carries, so it cannot break this; the
  server only derives events from what it was sent (`NothingNew`). `Numbered`
  keeps the credential byte, whose number reads as 0, from matching a request.
* `ScanArmedAlways` (`ScanArmed`): inductive as it stands.
* `TablesAlwaysAgree` (`TablesAgree`) and `NeverFreedSub` (`NoFreedSub`): one
  lemma for each table operation says what it does to tables that agree. Adding a
  subscription to an object keeps both directions of the map in agreement only if
  the subscription was on no object, which is what the inductive invariant `IInv`
  adds (`Detached`): a new subscription is not in `sub_list`, a scanned one is on
  the missing list and nothing there is attached, an event detaches before it
  attaches, and a climb is for a detached one. `IInv` was checked with TLC on the
  instances of all three inotify runs.
* `AlwaysPlaced` (`Placed`): with `Held`, which allows one exception in the middle
  of a callback, the subscription an event has detached and is climbing for, and
  says that a lost subscription is in `sub_list` and nowhere else. It assumes nothing
  of plain files or refusals: `HeldStarted` covers a start that fails.
* Poll backend. The invariant is `Types /\ Nodes /\ Timed` (`PollBasicProofs`).
  `NoFreedNodeReachable` (`NoFreedNode`) needs that the tree is closed upwards
  (`RootedTree`) and that pruning removes only nodes above no node that stays
  (`Prunes`, `Trims`, `Childless` in `PollTreeProofs`); `SubscribedIsPolled` (`Polled`)
  needs that a scan which found something to do says so before it could stop the
  timer (`Timed`). `SubscribersAreInformed` (`Informed`) follows each poll with the
  event it returns and the subscriptions that are offered it (`Hearing`).
  `NodesAreACache` (`CacheOfFs`) is the refinement of `Monitor`: for each action,
  what a node says afterwards is what it said, what `stat` shows, or nothing.
* dnotify backend. The invariant is `Types /\ Held` (`DnotifyProofs`). The table is
  good (`Good`) if it has its type and its two hash tables agree with the kernel;
  each request of `gam_dnotify.c` maps good tables to good ones, which gives
  `HashesAlwaysAgree` (`HashesAgree`), and `DnotifyTypeCorrect`, as a count that falls
  below zero would break the type. `Outcome` says once what a poll may do, with
  flow control; the lists then hold live nodes (`NoNodeDangles`) and all that only
  the timer finds (`MissingIsListed`); and the flag is a cache (`DnotifyIsACache`).
* `RemovalIsClean` (`CleanRemoval`): what the rules and the mount table answer is
  left open; `SameQuestion` says that freeing asks what removing asked. `Life` says
  of each stage of a subscription who holds it and how often it was freed.
* `RoutingTypes` (`TypeOK` of `Routing`), `FirstRuleAlways` (`FirstRuleWins`),
  `LastFssetAlways` (`LastFssetWins`), `MountFoundAlways` (`MountFound`): the
  invariant `TablesInv` says of a server that has read some of the files what the
  theorems say of one that has read all: the rules give the answer of the first
  line read that matches (`RulesHeld`), the properties are those of the last lines
  read, or untouched as long as no `fsset` was among them (`PropsHeld`), and the
  list is the sorted mount table unless a change was missed (`MountsHeld`). Between
  these and a file of any length stand the folds: `FoldSolved` shows that the
  recursion of the community modules' `FoldLeft` has a solution, `FoldSteps` that
  each solution is reached by steps from the left, and what one line keeps
  (`RuleRead`, `FssetRead`, `LineSorted`) all lines keep, by `CountUp`.
* `UserNumsSortedAlways` (`UserNumsSorted`) and `FindableAlways` (`Findable`): the
  binary searches are recursive functions of their window. A window whose number
  is outside the entries around it shrinks to one where the answer is found
  (`LocPlace`, `IdxFinds`).
* `NoSpuriousCloseAlways` (`NoSpuriousClose`): the monitors in flight and the
  subscriptions of the listener are credits, the cancellations in flight debits.
  `Covered` says that each debit finds its credit when the server reads it,
  `Backed` that what is left covers every request the client may still cancel;
  `Handshake` keeps the credential byte first on a new socket.
* `AgreementAlways` (`Agreement`): by `Books`, which says for each number of a
  connection that never lost its server that it has at most one credit, and that
  it has a credit and no debit exactly if its request is in the table and live.

Both kinds of recursion are proved about without an induction theorem: the set of
counterexamples, as a set of numbers, has a least element
(`NatLessThanWellFounded`), and one step leads below it.

Two assumptions on `Routing` are about text: two mount points of one length that
begin the same path are the same text (`PrefixAssumption`), and the static patterns
are all of the kind that polls, as `gam_exclude_init` adds them (`RoutingLines`).

Every safety property of a passing run is proved. Only model-checked are the
liveness properties (`CancelAckedUntilReset`, `Resubscribed`, `Reaped`, `Returns`,
`FoundAgain`, `Noticed`, `NoticedAtRest`): TLAPS 1.4.5 does not reason about fairness
and `ENABLED`.

## Not modelled

* Client and protocol: blocking writes, several threads in an application, return
  values of the API, partial packets, socket directories and their ownership checks.
* inotify: what is reported to a subscription, queue overflow, read throttling,
  and following a directory that is created between two system calls of the climb.
* Poll and dnotify: the option that suppresses the initial report, a file system
  that changes within one add (`MON_WRONG_TYPE`), the branch of the scan that would
  recurse (never taken), the `..._remove_all_for` hooks, which nothing
  calls (a listener that ends removes its subscriptions one by one),
  `all_resources` in the dnotify backend (filled, never read), and the reports of
  that backend.
* Routing: the poll timeout of a file system is a constant of the poll models;
  `gam_fs_unset` is never called.
* The kqueue and Hurd backends are for other platforms and implement the same
  interface; debugging, diagnostics and the python bindings keep no state the
  rest depends on.

## Plan

1. Step invariants behind the liveness properties: what their fair actions need to
   be possible, as far as it is safety.
2. Threads and return values of the API; packet framing as an implementation of
   the whole-packet channels of `GamSockets`.
3. What the inotify and dnotify backends report, so that `Informed` can be stated for
   them, and whether a subscription follows its directory.
