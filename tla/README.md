# fsnotify: a TLA+ model of the watcher

This directory models the parts of fsnotify that keep state across calls,
goroutines and events, in all four backends: what the watcher believes about the
file tree, how that belief is repaired when the tree changes behind it, and how a
watcher ends. TLC checks the models on small instances; TLAPS proves some of the
invariants for every value of the constants. Nothing here is about the wording or
the `Op` of an event.

1. [The system](#1-the-system)
2. [Modules](#2-modules)
3. [The inotify backend](#3-the-inotify-backend)
4. [The life cycle of a watcher](#4-the-life-cycle-of-a-watcher)
5. [The Windows backend](#5-the-windows-backend)
6. [The FEN backend](#6-the-fen-backend)
7. [The kqueue backend](#7-the-kqueue-backend)
8. [Runs, bounds and regimes](#8-runs-bounds-and-regimes)
9. [Where the code and its contract part](#9-where-the-code-and-its-contract-part)
10. [Proofs](#10-proofs)
11. [What is left out](#11-what-is-left-out)
12. [Plan](#12-plan)

## 1. The system

A `Watcher` (`fsnotify.go`) is a thin shell around one backend, chosen at build
time. A backend owns a kernel object, a set of tables that say what is watched
and for whom, and one goroutine, `readEvents`, that turns kernel events into
`Event`s on a channel. A path can be added plainly or, with `/...`, recursively;
`RECURSIVE_WATCH_CONTRACT.md` states 27 rules (RC-001 to RC-027) that every
backend has to meet.

| Component | State | Operations | Shared with | What makes it correct |
|---|---|---|---|---|
| Public API, `fsnotify.go` | none of its own; the two channels | `NewWatcher`, `Add`, `AddWith`, `Remove`, `WatchList`, `Close`; `recursivePath`, `hasPathPrefix`, `Op.Has`, `String` | delegates to a backend | a call takes effect once, on an open watcher or not at all; a prefix is a whole number of components |
| `shared.go` | `done`, the mutex | `sendEvent`, `sendError`, `isClosed`, `close` | embedded in inotify, kqueue and FEN | one caller closes; a send never outlives the close |
| inotify tables, type `watches` of `backend_inotify.go` | `wd`, `path`, `byUser`, `target`, `recurse`, `owners` | `addUser`, `addOwner`, `remove`, `releaseOwner`, `detachSubtree`, `rebase`, `rollbackRegistrations`, `updatePath`, `updateFlags` | called under `w.mu` by callers and by the reader | tables inverse to each other, owners are users, flags agree with owners |
| inotify backend | tables, `pendingMoves`, the read deadline | `AddWith`, `Remove`, `Close`, `readEvents` (`prepareRead`, `handleEvent`, `expirePendingMoves`), `register`, `registerRecursiveSubtree` | file tree and kernel queue, which other processes change at any time | coverage once quiet, names current, promises kept, no leak, rollback exact |
| inotify life cycle | `done`, `doneResp`, both channels, the file | `Close`, delivery | callers, consumer | no deadlock, no use of a closed descriptor |
| kqueue backend | one descriptor per file, eight tables under `watches.mu`, `seen` | `AddWith`, `Remove`, `Close` under `opsMu`; registration under `watchMu`; `readEvents`, `dirChange`, `sendCreateIfNew`, `rebase` | directory rescans race the tree; the reader does not take `opsMu` | one descriptor per path, a rescan reports each entry once, a rename is found by identity and reported once |
| FEN backend | one-shot associations, owners, `info`, a ring of ten renames | all under `opsMu`, `handleEvent` too; notifications are sent after it | Event Ports, which forget an association when it fires | an association is renewed before the directory is read, and never for a path nobody owns |
| Windows backend | `watches` by volume and index, `roots`, `pending` overlapped operations | callers queue an `input` and wake the I/O goroutine, which does everything | completion port; a cancelled read completes later | buffers and handles live until their completion, at most one read per watch, `Close` waits for the last one |
| Other platforms | none | returns an error | | |
| `internal/` | none | `IgnoringEINTR`, constants, debug output | | |
| `cmd/fsnotify` | `dedup`: a map of timers | `watch`, `file`, `dedup`, `closewrite` | timer goroutines | a burst of events is printed once |
| `internal/ztest` | none | a line differ for the tests | | |

What is hard in this code, and hard to test:

* **The tree moves while the watcher looks at it.** A walk registers directories
  one by one while other processes create, delete and rename them; every gap in
  the walk has to be closed by an event that is still to come.
* **Events are late.** What an event says was true when it was queued. The
  watch it names may have been removed, the path may name another object, the
  descriptor may belong to a closed watcher.
* **A rename arrives in two halves** that are not adjacent, may be in different
  reads, and of which one may never come.
* **Ownership overlaps.** A directory may be watched for itself and for several
  recursive roots, and every failure, removal, rename and deletion must take
  away exactly one of these.
* **Close against everything:** a caller that waits for the mutex, a reader in a
  read, in a handler or in a send that nobody receives.

Every such place is listed, at its line, under `hazards` in `PROJECT.json`, with
the properties that would break.

## 2. Modules

```
Paths                      path names as sequences of components
  |
InotifyWatches  InotifyKernel          the tables; the file tree and the kernel
        \        /
         Inotify                       the backend: callers and readEvents
            |
       InotifyProps ---- MCInotify     what must hold; instances for TLC
            |
   InotifyTableProofs <- InotifyProofs theorems (with PathProofs)

InotifyLifecycle                       callers, mutex, reader, channels
       |            WatcherLifecycle   what every backend promises (abstract)
   MCInotifyLifecycle  --refines-->
       |
   InotifyLifecycleProofs

Paths
  |-- PathProofs                         facts about paths, for every set of components
  |
FileTree                               objects at paths, and what processes do
  |-- FileTreeProofs                   sequences and trees: facts (with PathProofs), used by
  |                                    WindowsProofs, FenProofs and KqueueProofs
  |-- CompletionPort -- WindowsWatches -- Windows -- WindowsProps -- MCWindows
  |                                                       `-- WindowsProofs
  |-- FenWatches ---- Fen ---- FenProps ---- MCFen
  |                                 `------- FenProofs
  `-- KqueueWatches - Kqueue - KqueueProps - MCKqueue
                                    `------- KqueueProofs
```

The backends are not composed with each other: a build has exactly one of them.
Within a backend everything that interacts is composed: callers, the reader, the
tables, the kernel object and the tree that other processes change.

`PROJECT.json` maps every definition that stands for code to its lines. An
operator marked *Mutant* is a plausible bug (a dropped guard, a missing update);
it is used by no specification and is there to show that a property can fail.

## 3. The inotify backend

### State

`tbl` is `w.watches`, a record with one field per Go map. `walk` is the walk that
holds the mutex, if any: `filepath.WalkDir` looks at the tree many times, so it is
one step per directory it visits and one per directory it lists, with the todo
list that the recursion of `WalkDir` amounts to. `pending` is `pendingMoves`,
`reader` the place of `readEvents`, `buf` the events it has read and not handled.
`closing` is the channel `done`, `closed` the inotify file. `promise` is a history
variable: for every path a user added, the inode it named then, until that user
removes it or the path stops naming that inode.

The kernel (`InotifyKernel`) is external: a tree of inodes, watches on inodes, a
bounded queue. It is modelled from what the code asks of it and from what its
comments rely on: a watch follows its inode when that is renamed, adding a watched
inode again returns the descriptor it has, `inotify_rm_watch` queues `IN_IGNORED`,
the halves of a rename share a cookie and are queued one after the other with
anything in between (`SplitRename`), an unlinked inode may live for a while
(`LateRelease`), and a full queue drops events.

### Actions

| Action | Code |
|---|---|
| `AddPlain`, `AddRecursive` | `AddWith`, up to the walk; `VisitDir`, `ListDir`, `Abort` are its `WalkDir`, and that of `registerRecursiveSubtree` |
| `RemoveWatch` | `Remove` with `releaseOwner` and `removeWatchDescriptors` |
| `CloseBegin`, `CloseFinish` | `shared.close`, then the rest of `Close` under the mutex |
| `PrepareRead`, `Read`, `ReadClosed`, `ExpirePendingMoves` | the head of the loop of `readEvents`, the read, and what a deadline does |
| `HandleUnknown`, `HandleGone`, `HandleMoveSelf`, `HandleMovedFrom`, `HandleMovedWithin`, `HandleNewDir`, `HandleOther` | the branches of `handleEvent` |
| `TreeStep`, `KernelStep` | other processes, and the kernel |

A method of `watches` is an operator from a table to a table, and to the
descriptors it returns to its caller where it does. Three things differ from the
text of the code, with the same result:

* Flags are computed from the owner sets before paths are deleted, not path by
  path in the loop that deletes; no flag depends on a deleted path.
* `expirePendingMoves` calls `detachSubtree` once per pending move, in the order of
  a Go map; `detachSubtrees` does all at once. The result does not depend on the
  order.
* A nil dereference sets `tbl.panicked`, after which nothing happens any more.

The `Op` a user asks for is left out: the option that would change it is not
exported, so every mask is the same, and `opForOwners` and `opForPath` choose only
what is reported.

### Properties

| Property | Meaning |
|---|---|
| `Covered` | once everything is handled, every directory below a recursive root is watched, for that root, by a watch on that very inode (RC-003, 004, 013, 015) |
| `NamesCurrent` | once everything is handled, every watch is on the object its path names; nothing is reported under an old name (RC-012, 014, 016) |
| `PromisesKept` | a path stays watched for its user, on the object it was added for, until that user removes it or the path stops naming that object (RC-008, 011, 016) |
| `TablesInverse` | `path` and `wd` are inverse |
| `OwnedIsWatched`, `NoOrphanWatch` | what is owned is watched, what is watched is owned |
| `OwnershipSound` | a path is owned only by users, and only by those whose request covers it; `SoundTables` is its inductive strengthening, which is proved and in no run |
| `FlagsAgree` | the cached bits that decide how an event is handled say what the owner sets say |
| `RollbackExact` | a walk that fails leaves users and owners as they were before the call (RC-017) |
| `NoLeakedWatch`, `DroppedIsAnnounced` | the kernel has no watch the tables have forgotten; the tables have none the kernel has dropped, unless the event that says so is on its way |
| `ClosedIsEmpty` | a call that raced Close leaves nothing in the tables or the kernel (RC-019) |
| `EventuallySettled`, `ReaderEnds` | every event is handled and every pending move resolved, once the others pause; `readEvents` returns after Close (RC-012, 014, 020) |

## 4. The life cycle of a watcher

`InotifyLifecycle` is about blocking. Callers go through the two `isClosed` tests,
the mutex and the deferred unlock one step at a time; `Close` closes `done` under
the mutex, closes the file and empties the tables under a second hold of it, and
waits for `doneResp`; `readEvents` may be in its read, wait for the mutex, or wait
in `sendEvent` or `sendError` for a consumer that stopped receiving, and closes
`Errors`, `Events` and `doneResp` in this order. What an event does to the tables
is here only whether there is still a watch, since `handleEvent` does not ask
whether the watcher is closed: it is safe only because the tables are empty.
A handled event may send nothing, an event, an error, or two events (the change,
and then the removal of a root). A reader that gives up in the middle of a buffer
is modelled here and not in `Inotify`, where delivery has no effect.

`WatcherLifecycle` is the abstract specification: a call takes effect at one
moment between its start and its return, one Close closes, channels end once and
before that Close returns, every call returns. `KeepsPromise` checks that
`InotifyLifecycle` implements it, with fairness, under the mapping `phase` = `done`
closed or not, `ended` = both channels closed, `call` = what each caller is doing.

## 5. The Windows backend

### State

`Windows` has the callers and the one I/O goroutine, `readEvents`, that works on
the watches. `io` is everything that goroutine alone writes: `watch` (the
structures, by number), `watches` (by object, where the code has volume and
index), `roots` (a recursive root, its parent and its name there), `pending`, and
the fields of the port. `CompletionPort` is external: a handle keeps what changes
below its directory from the first read on, each read ends with exactly one
packet, a cancelled one too, too many changes between two reads are dropped and the
next read says so, and NTFS does not rename a directory with an open handle below
it. A mask is a set of the three things the code tells apart: `user`, `monitor`
(`sysFSRECURSIVEPARENT`) and `provisional`.

A packet may make the goroutine read, report, remove roots, start reads on other
watches, and so on: `todo` holds these pieces in their order. Between two pieces a
caller, `Close`, the consumer or another process may come, except before a piece
that touches only the goroutine's own tables (`Busy`): nobody could tell the
difference, and the state space is a tenth.

### Actions

| Action | Code |
|---|---|
| `Call`, `Put`, `Wakeup`, `Answered` | `AddWith`, `Remove`: the `isClosed` tests, the channel `input` or `done`, the posted wakeup, the reply |
| `CloseMark`, `CloseFirst`, `CloseSecond` | `Close`, and the second caller that waits for `closeDone` |
| `TakeClosing` | `pollClose`, `beginClose`, `finishClose` |
| `TakeInput`, `TakeNothing`, `TakeRead` | a packet of `readEvents`: a wakeup with or without an input, a read that has ended |
| `DoAdded`, `DoMonitor`, `DoRecheck`, `DoUndo` | `addWatch` after its `startRead`; `addRecursiveRootMonitor` and its rollback |
| `DoDrop`, `DoReply` | `remWatch` |
| `DoRead`, `DoReport`, `DoBury` | `startRead`, the error it returns, a directory that is gone |
| `DoHandle`, `DoForget`, `DoUnroot` | one record of the buffer; `removeRecursiveRoot` |
| `DoSend` | `sendEvent`, `sendError` |

### Properties

| Property | Meaning |
|---|---|
| `ReadsOwned` | the buffer and the `OVERLAPPED` of every read the kernel has live on until its packet is taken; one read per watch, its handle open |
| `Listening` | between two packets every watch has a read, or its packet is on its way; nothing unwanted keeps one (RC-018); proved as long as no root is monitored by itself |
| `NoLeakedHandle` | every open handle is that of a watch in the table |
| `RootPaired` | a recursive root and the hidden monitor in its parent come and go together, whichever step fails (RC-012, 017) |
| `RootsExist` | once everything is handled a root is the object at its path, and what is gone has no watch (RC-012, 016) |
| `ClosedReleasesAll` | when the channels close no read is outstanding, no handle open; only then does the second Close return (RC-020) |
| `NoLostWakeup` | whoever waits for the goroutine has a packet on its way or is released by Close; Close has the packets it counts (RC-019) |

`NoLostWakeup` states as an invariant what would make the callers hang, so that it
needs no fairness.

## 6. The FEN backend

`FenWatches` keeps the maps of `fen` and, beside them, the event port (external): an
association is on an object and ends with its first event; the package that wraps the
port knows a path until `Get` returns its event; associating an object that is no
longer what the stat said gives an event at once. `t.info` is the stat kept per
directory, `t.renames` the ring that recognises a renamed directory.

`Fen` has callers of `AddWith` and `Remove`, closers, and `readEvents`. All but Close's
flag is done under `opsMu`, so there is one list of work `todo` for whoever holds it: a
visit of a walk, a directory to list, an entry of a scan. Between two of these the
tree may change and Close may set its flag. Where the code keeps a stat across calls
(`fs.DirEntry` of a listing, the `os.FileInfo` of `handleDirectory`), the piece of
work keeps it too and learns that the object has changed (`MarkChanged`).

| Action | Code |
|---|---|
| `AddWith`, `DoRoot`, `DoVisit`, `DoList`, `DoChildren`, `DoFinish`, `Error` | `AddWith`, its walk, `handleDirectory`, and the rollback |
| `RemoveWatch` | `Remove`, `releaseOwner` |
| `CloseFlag`, `ClosePort`, `CloseReturn` | `Close` |
| `Get`, `Handle`, `DoScan`, `DoEntry`, `DoUnlock`, `Send` | `readEvents`, `handleEventLocked`, `updateDirectory`, `addRecursiveSubdir` (a `Root` piece), the notifications sent after the mutex |
| `TreeChanges`, `StopReceiving` | other processes, the consumer |

| Property | Meaning |
|---|---|
| `NeverDeaf` | whenever `opsMu` is free, every owned path is associated or its event is still to be handled; proved |
| `Covered`, `Attached` | once quiet: every directory under a root associated, scanned and owned; associations are on the objects their paths name (RC-003, 004, 012 to 014) |
| `OwnersSound` | nothing is associated for nobody; a late event restores nothing (RC-008, 009, 018); proved up to `Strands` |
| `ScanExact` | a directory is scanned exactly as long as somebody needs it, after upgrades, downgrades and failures; proved up to `Strands` |
| `RollbackExact` | a failed `AddWith` leaves all five tables as they were (RC-017); proved likewise |
| `ClosedPort` | nothing is associated with a closed port; proved |
| `CloseNeverStuck` | with or without a consumer, a Close that has not returned has somebody who can move (`ENABLED`) (RC-019, 021) |

`calm` is a history variable: FALSE once an object has come to a path the tables still
had or had work for, once something with an unhandled event was renamed, or once a
call was made while events waited. `Covered`, `Attached`, `OwnersSound`, `ScanExact` and
`RollbackExact` are stated under it; section 9 says what happens without. It still
allows creation, deletion, renaming, replacement and touches during a walk, a scan
and a call. `NeverDeaf`, `ClosedPort` and `CloseNeverStuck` are unconditional.

## 7. The kqueue backend

`KqueueWatches` has the tables of `watches` and the descriptors of the kernel, apart from each
other: `wd` says under which name the code knows a descriptor, what it was opened on, what it
believes is asked for (`all`, for `dirFlags`) and its `skipRename`; `open` says what the kernel
has open, what is asked of it and the notes `kevent()` has not returned. A number that is closed
is the next one opened. `target` and `byDir` are functions of the names here, since there are no
symbolic links.

`Kqueue` has two goroutines that work at once: the caller that holds `opsMu`, and
`readEvents`, which never takes it. Each has its list in `todo`; a piece is what is done with
the mutex of the tables held, or one system call. `lock` is `watchMu`: who holds it, for which
path and descriptor, and how far. `addWatchDescriptor` is `LookUp` (the `isClosed` test, `byPath`,
`Lstat`, `open` and `EV_ADD`), `DoAdd` and `DoFlags`; `remove2` is `Shut` (`byPath`, `EV_DELETE`, `close`) and
`Unregister`. What `sendCreateIfNew` has found to be renamed is in `found` until it calls `rebase`,
which takes the mutex of the tables and neither lock, so that it comes between any two of these
steps. `crossed` records that it has then changed what the path in `lock` leads to. One tree call
gives notes to the object and to its directories in either order (`Happens`).

| Action | Code |
|---|---|
| `AddWith`, `DoStat`, `LookUp`, `DoAdd`, `DoFlags`, `DoOwn`, `DoList`, `DoFinish`, `Fail` | `AddWith` with its `WalkDir`, `addWatch`, `addWatchDescriptor`, `internalWatch`, `watchDirectoryFiles`, the rollback; those that take a goroutine also in `addRecursiveSubdir` and `sendCreateIfNew` |
| `RemoveWatch`, `Shut`, `Unregister` | `Remove`, `removePhysical`, `remove`, `remove2` |
| `Close`, `DoPipe`, `CloseReturn` | `Close` |
| `Read`, `Handle`, `DoAgain` | `readEvents` |
| `DoScan`, `DoEntry`, `DoRebase`, `DoTrack` | `dirChange`, `sendCreateIfNew` with `findRenamedDir` and `rebase`, `addRecursiveSubdir` |
| `ReaderRefused` | `addWatchDescriptor` of `readEvents` once the watcher is closed, and a directory of a walk whose Create is not delivered |
| `DoSend`, `DoCreated` | a send of `readEvents`, and one of `sendCreateIfNew`; a closed watcher delivers them or not |

What is still one step: `Lstat` with the `open` after it (left out is the object that takes the path
of another between the two, whose `fileInfo` is then the other's); `addOwner` with the `markSeen` after
it, and for a root `addUserWatch` and `recurse` (if the reader removes the path between them, it is as if
it came before them, up to the owner set of a path nobody watches, about which no property speaks); the
checks of `Remove` with `releaseOwner`, since only callers add users; the reads of `sendCreateIfNew`
up to `findRenamedDir`, each of a table of its own; the list of `removePhysical` with
`removeRootsUnder`; the flag and the list of Close, where what the reader does between the two
is as if it came before the flag. The `isClosed` test of `remove` is taken with the `byPath` of
`remove2`: the reader may drop a path just after the flag, which Close would drop anyway.

| Property | Meaning |
|---|---|
| `DescriptorsPaired` | `path` and `wd` are inverse and, with `watchMu` free, the descriptors open are those of `wd`, so every one can be found and closed; unless a rename has `crossed` an opening or a removal (section 9); proved |
| `Covered` | once quiet: directories and files under a root watched and owned, with every event asked for where needed (RC-003, 004, 013, 015) |
| `Attached` | once quiet: each descriptor is open on the object its path names; what is known exists (RC-012, 014, 016) |
| `OwnersSound` | once quiet: what is watched is owned by users that still watch (RC-008, 009, 011) |
| `NothingSkipped` | once quiet: no directory is left waiting to have a rename skipped, so no real rename is swallowed |
| `ClosedReleasesAll` | no descriptor is open once a Close has returned (RC-018), unless a path has `escaped` it or a rename has `crossed`, in one of the three ways of section 9; proved |
| `ExplicitKept` | what the contract says of an explicit directory below a root; false (section 9) |

`calm` here: no call was made while events waited, and nothing was created, deleted
or renamed while a call ran or at or below a path with something to be handled.
`DescriptorsPaired` does not depend on it. With `BatchLen` 1 and 3 `Kqueue` passes as well, and
so does `Fen` with 1.

A recursive `AddWith` of what is no directory fails. A file that vanishes between `d.Info()` and
`internalWatch` is marked as seen and skipped, one that vanishes before fails the walk, as in the
code. When the watcher is closed, a send may still be delivered; a failed one ends `readEvents`,
while a failed Create of `sendCreateIfNew` only ends the entry and `dirChange` goes on.
Adding a knote that exists does not reset its notes. An `AddWith`
of a path in `byUser` returns at once and changes nothing, so it is no action. After a
`crossed` step the model departs from the code in two places, about which no property
speaks then: `updateDirFlags` of a path whose descriptor is not in `wd` does nothing, where the
code makes an empty entry; and a plain `AddWith` whose path was renamed meanwhile keeps its name as the
target, where the code has "".

## 8. Runs, bounds and regimes

Deadlock is not checked: the bounds on calls of users and processes stop the system
for good (`CHECK_DEADLOCK FALSE`); that nothing waits for ever is what the liveness
properties, `NoLostWakeup` and `CloseNeverStuck` say.

Two or three of a kind are enough to make the cases differ: a path has at most
three components, so that a recursive root has children and grandchildren (a
subtree below what is renamed, a walk that has somewhere to go after its first
directory); two names give a directory, a sibling and a destination; two to four
calls of users and two or three of other processes give an add, a remove and a
close around a rename and a creation. Every counterexample below needs no more.

| Run | Shows | Regime |
|---|---|---|
| `InotifyNested` | two overlapping roots and an explicit watch over a tree that is created and deleted | calm walks; users add when all is quiet |
| `InotifyMoves` | renames within, out of and into a root, their halves queued apart, timeouts, an explicit watch beside them | calm walks, timely moves, adds and renames one at a time |
| `InotifyWild` | what holds whatever happens: late release, replaced targets, a failing `inotify_add_watch`, a queue of four that overflows, a deadline at any moment | none |
| `InotifyLive` | events are handled, moves resolved, the reader ends, a call that raced Close leaves nothing | `FairSpec`; no rename during a walk |
| `InotifyLife` | refinement of `WatcherLifecycle`, calls return, descriptor never reused | fair `Spec` |
| `Windows` | two callers that add, remove and close a root, its parent and a file, while the root is renamed or removed, with overflowing buffers and a consumer that leaves | none but the bounds |
| `Fen` | an explicit and a recursive watch, all six tree calls, a batch of two, a ring of one, a closer, a consumer that leaves | `calm` in the properties that name it |
| `Kqueue` | caller, reader and closer at once, with directories created, renamed and deleted | `calm` in the properties that name it |
| `InotifyPanic`, `InotifyLeak`, `InotifyStaleMove`, `KqueueExplicit` | counterexamples, section 9 | |

Bounds of the last three: `Windows` has a volume, a root and a file (two components:
a root and its parent are what `roots` relates), `MaxChanges` 2 so that two renames
overflow, three calls of two interchangeable callers. It has no creation: the handle
of a directory and a new directory at the same path are in section 9. `Fen` has a root, a
directory and a file, two calls and two tree calls, enough for a walk, a scan and a
move from one to the other; `RingSize` 1 makes the ring overwrite. `Kqueue` has the
same without files at first (they are created), two calls, Close counted among
them, and 2.2 million states. Larger instances of `Kqueue` (five tree calls, a file at first, a plain root; and
a replaced file) were run by hand without error before `watchMu` was split into its steps, at 5 and 4 million states.

The regimes of inotify are constants of `Inotify`, and each stands for behaviours
under which the property is false of the code, not for ones the model cannot do:

* `CalmWalks`: the tree calls that do not happen while a walk holds the mutex. With
  deletions during a walk, a directory that is deleted and created again is found
  watched, for its old inode, by its own event, and `Covered` fails.
* `TimelyMoves`: nothing else falls between the events of one rename, and no
  deadline passes while events wait.
* `Paced`: renames, or additions, wait until every event so far is handled. A
  directory renamed before its creation was handled is registered under the one
  name and never under the other, and what was created in it in between is not
  covered (RC-013).
* `LateRelease = FALSE`: an unlinked inode ends with its name. If a process keeps the
  directory open, `IN_DELETE_SELF` comes later, and a directory created at the same
  path in between is taken for the one that is gone.
* `Fixed`: directories nobody renames. inotify tells a watch nothing of the rename of
  a directory above it, so an explicit watch below a renamed root cannot follow it.

In `InotifyWild` no regime applies; the properties it checks are the ones that must
not depend on any.

**Fairness.** `FairSpec` asks for weak fairness of the reader, of a walk under
way, of the second half of Close, and of the kernel finishing what it began. The
reader is a goroutine of its own whose read returns when there is something to
read or the deadline passes; a walk holds the mutex and only does system calls;
nothing in the code may hold the mutex for ever (it is never held over a channel
send). In `InotifyLifecycle` the mutex is contended explicitly, so each caller
also has strong fairness for taking it, which is what the starvation mode of
`sync.Mutex` provides. `Windows` states weak fairness of its goroutines as a whole; no
run checks a liveness property of it. Nothing is assumed of users, of other processes,
or of the consumer, who may stop receiving for good at any time.

## 9. Where the code and its contract part

Four disagreements have a run that shows them, with the quoted line under
`findings`:

* `InotifyPanic`: `updatePath` deletes the watch of a path whose new inode is
  already watched under another path, and leaves that path in `path` with the
  deleted descriptor. The next `updateFlags` of the path dereferences a nil
  `*watch`. Two renames that reuse a name, and an `Add` in between, are enough.
* `InotifyLeak`: when a path gets another descriptor, the old one is forgotten
  without `inotify_rm_watch`.
* `InotifyStaleMove`: a directory moves away and a new one at its old path is added
  explicitly before the second half of the rename is handled; `rebase` takes the
  new watch for the moved one.
* `KqueueExplicit`: a directory created in a directory that is watched both plainly
  and by a root above it is given to recursive owners only, so that removing the
  root takes it from the plain watch (RC-008, RC-011).

Others are found by relaxing a constant or a condition of a passing run, and are
why that condition is there.

**inotify**

* `Covered` fails in `InotifyMoves` with `Paced = {"add"}` (a directory renamed before
  its creation was handled) and with `"replace"` in `TreeCalls` (a directory moved
  over a watched empty one is taken for that one, whose `IN_DELETE_SELF` comes
  later).
* `Covered` fails in `InotifyNested` with `LateRelease = TRUE`, for the reason given in
  section 8; with `"mkdir"` not in `CalmWalks` (a directory created below a nested root
  is registered by the walk of the outer root first, and the inner root never owns
  it); and with `Paced = {}` (a directory added explicitly between its creation and the
  handling of `IN_CREATE` does not become recursive).
* `watches.remove` deletes an owner set that becomes empty and leaves its path in
  `path` and `wd`, so a root that goes before its descendants leaves them watched for
  nobody.
* A recursive `AddWith` of a path that a watched directory has just been renamed to, before
  the second half of that rename is handled, returns nil and puts the path into `byUser` and
  `recurse`, but owns and watches nothing: the new path has the inode of the old watch, and
  `register` keeps this "a no-op" (backend_inotify.go:626-631). `OwnedIsWatched` fails with
  such a step, and is proved without it.
* A second `Close` returns while the first still waits for the reader, so that its
  caller may find `Events` open. kqueue, FEN and Windows wait in both.
  `WatcherLifecycle` allows it.

**Windows**

* A root that is removed and created again, and added again before the removal is
  dequeued, finds the old entry of `roots`: `addRecursiveRootMonitor` returns nil, the
  late "removed" then drops entry and monitor, and the next rename of the new root is
  never noticed. The same if the root was renamed away, and the new one has then neither entry
  nor monitor, against `RootPaired`. `RootsExist` fails with one caller, no file, `TreeCalls = {"mkdir",
  "unlink", "rename"}`, three tree calls and no plain path. It needs a directory that
  goes at once although a handle is open on it (POSIX delete semantics).
* `Remove` of a directory that is in the table only for a file in it, or as a hidden
  parent, returns nil although it was never added.
* `AddWith` of a file whose directory is gone when its read starts returns nil. A
  dropped buffer can leave a root that is gone; `Quiet` excludes it (`lost`).
* A root whose directory takes the place of its own parent before the first `getIno` of
  `addRecursiveRootMonitor` and is back before the second (backend_windows.go:488-559) is
  monitored by itself;
  `removeRecursiveRoot` then restarts no read, and if its directory stays watched a read
  that nobody wants goes on. It takes more renames than the bounds of a run allow; found by
  looking for the invariant of `Listening`. `ListensWhileApart` says that nothing else makes
  the watcher deaf or leaves such a read.

**FEN** (the properties exclude these by `calm`, by the size of the instance, or do not
speak of them)

* A watched directory renamed while its one-shot event is not handled: the `Lstat`
  fails and `dropPhysical(path, false)` leaves its children associated and owned, as
  after a deletion; after a rename they "must be removed immediately", says the comment
  in `handleEventLocked` (backend_fen.go:602-606; RC-014, RC-018).
* `updateDirectory` gives a new entry all owners of its directory, so that a plain
  parent comes to own grandchildren; and an entry that one user's walk associated
  first is skipped by the scans of the others (RC-004, RC-008).
* `addRecursiveSubdir` gives up at an entry that vanished and leaves its siblings
  uncovered. It associates directories only: files that were already in a directory
  that appears are not associated until that directory changes (RC-004, RC-015).
* A late DELETE or RENAME of the old object, handled after a new one was associated at
  its path, drops the tables of the new one and leaves its association (RC-016).

* The same happens without a race of its own if a directory above the watched one is
  renamed: its association hears nothing, and the next event finds no path and drops the
  root alone (RC-014). No backend that watches paths hears of such a rename; here the
  children stay owned by a root that is gone.

**kqueue** (likewise)

* `Add` of a directory that is renamed or deleted during the call leaves an entry of
  `byUser` without a descriptor, and the next `Add` is a no-op (RC-012, RC-019).
* An entry that is created while `Add` of its directory, or `Remove`, runs is watched by
  the reader for nobody and never released (RC-018).
* A directory renamed while the reader scans it: the scan is given up at the entry
  that is gone, and the new entry is never registered.
* A plain `AddWith` that fails in `watchDirectoryFiles` takes nothing back.
* Close lists the paths and removes those it has listed, while `readEvents`, which does not
  take `opsMu`, finds a renamed directory: `rebase` asks nobody whether the watcher is closed
  and gives the watches their new names, `remove2` finds nothing under the old ones, and the
  descriptors stay open after Close has returned (backend_kqueue.go:564, 1135; RC-018). One
  recursive root with one directory in it, which is renamed, is enough.
* Or the reader has passed `isClosed` in `addWatchDescriptor`, Close lists, and what the reader
  then opens is on no list. AUDIT-KQUEUE-001 (QUALITY_AUDIT.md:588) calls this resolved; it
  is for callers, who take `opsMu`. `ClosedReleasesAll` without `~escaped` fails in `Kqueue.cfg`
  in both ways.
* `addWatchDescriptor` looks a path up (800) and adds it later (862), with the mutex of the tables
  released in between; `watchMu` does not stop `rebase`. R is a recursive root, `mv R/A R/B`, and a
  caller runs `Add(R/B)`: `byPath` finds nothing and the directory is opened; the reader scans R
  and rebases R/A to R/B, so that R/B leads to the descriptor of A; then `add` writes its own
  over it. No path leads to the first descriptor any more: it reports events until its object
  ends, neither Remove nor Close closes it (RC-018). `remove2` has the same gap (727-741): a
  path that is renamed between its `close` and its `remove` goes on leading, under its new name, to a
  descriptor that is closed. `DescriptorsPaired` without `~crossed` fails in `Kqueue.cfg`, and
  `ClosedReleasesAll` without `~crossed` fails with `MaxCalls = 3`, by this history and a Close. Holding
  `watchMu` around `rebase` would close both gaps.
* A `NOTE_DELETE` takes a root out of `byUser` but not out of `recurse` and `target`: added
  again plainly, it is recursive.
* A plainly watched file that a rename overwrites is watched again for nobody: its
  events go on, `WatchList` omits it and `Remove` fails. `fsnotify.go:256` says the watch
  is removed; a script in `testdata/watch-file` expects the events. `OwnersSound` exempts it.
* An event in a batch for a descriptor that was closed and reused ends the new watch.
* A directory below a root is renamed, and the parent's note is handled in one batch, so
  that `rebase` sets `skipRename`, while the directory's own note waits for the next; it is
  renamed again before that. One note stands for both renames, and consumes one flag; the
  parent's second note has `rebase` set it again, and nothing is left to consume it: the
  next real rename is swallowed (backend_kqueue.go:432, 945). `NothingSkipped` without
  `calm` fails with `BatchLen = 1` in `Kqueue.cfg`; in the code nine other descriptors have
  to be ready first, since a batch is of ten.

## 10. Proofs

All theorems hold for every value of the constants allowed by the named assumptions
of the modules: any finite set of names, any depth, any tree, any number of calls,
failures and events, any queue or batch, and every regime. TLC evaluates the
assumptions in the runs.

* `TablesAlwaysSound == Spec => []SoundTables` (`InotifyProofs`).
* `OwnershipAlwaysSound == Spec => []OwnershipSound`: nothing is watched on behalf of
  a user that is gone, and no user owns a path that its request does not cover.
* `RollbackIsExact == Spec => RollbackExact` (`InotifyProofs`, as the next seven): a walk
  that fails leaves no trace in the users and owner sets.
* `ClosedStaysEmpty == Spec => []ClosedIsEmpty`: whatever was waiting or under way when
  Close came.
* `FlagsAlwaysAgree == Spec => []FlagsAgree`, without any condition.
* `InverseWhileAlive == Spec => [](NoPanic => TablesInverse)`.
* `OnlyClashesPanic == Spec => [][tbl'.panicked => Clashes]_vars` and `NoPanicWithoutClash ==
  Spec /\ [][~Clashes]_vars => [](NoPanic /\ TablesInverse)`. A clash is a registration of a
  path that has a watch, while the object it now names has another. So the history in
  `InotifyPanic` is the only kind that can panic.
* `NoLeakWithoutReuse == Spec /\ [][~Reuses]_vars => []NoLeakedWatch`. A reuse is the step
  in `InotifyLeak`: a path with a watch in the kernel is registered under another
  descriptor. Nothing else leaks.
* `AnnouncedUnlessOverflow == Spec /\ []NoOverflow => []DroppedIsAnnounced`: events are
  forgotten by an overflow and by nothing else.
* `OwnedUnlessAliased == Spec /\ [][~Aliases]_vars => []OwnedIsWatched` and
  `OwnedUnlessStranded == Spec /\ [][~Strands]_vars => []NoOrphanWatch` (`InotifyProofs`): every
  owned path is watched and every user owns its own path, until a walk adds a root whose
  object is watched at another path; every watch has an owner, until `watches.remove` empties
  the owner set of a path other than its own. Both steps are in section 9; nothing else does it.
* `TypesAlwaysRight == Spec => []TypeOK` (`InotifyProofs`): whatever the tree, its names and the
  bounds, every path in the tables is made of the tree's names, every pending move has the
  cookie of a rename that was made, and what exists lies in a directory.
* `DescriptorNeverReused == Spec => []DescriptorNotReused` (`InotifyLifecycleProofs`):
  for any number of callers.
* `LifecycleRefined == Spec => Promised!LifecycleSteps` (`InotifyLifecycleProofs`): every
  behaviour of the inotify life cycle is one of the abstract watcher, for any number of
  callers; `KeepsPromise` checks the same with liveness for a few.
* `ReadsAreOwned == Spec => []ReadsOwned` (`WindowsProofs`): the kernel never writes to a
  buffer that the watcher has given up, whatever is cancelled, removed or closed.
* `HandlesNotLeaked == Spec => []NoLeakedHandle`, `CloseReleasesAll == Spec =>
  []ClosedReleasesAll` (`WindowsProofs`).
* `NoWakeupLost == Spec => []NoLostWakeup` (`WindowsProofs`): in no order of callers,
  Close and I/O goroutine does anybody wait for a packet that will not come.
* `WatchesAreRead` and `ListensWhileApart == Spec /\ []RootsApart =>
  []Listening` (`WindowsProofs`): between two packets every watch has a read or its packet is
  on its way, always; no read goes on that nobody wants, as long as no root is monitored by
  itself.
* `NeverDeafAlways == Spec => []NeverDeaf` (`FenProofs`): no order of events, calls and
  changes makes the FEN watcher lose an owned path silently.
* `ClosedPortAlways == Spec => []ClosedPort` (`FenProofs`).
* `RollbackFollows == Spec /\ [](OwnersSound /\ ScanExact) => RollbackExact` (`FenProofs`): an
  `AddWith` of FEN that fails, at whichever entry and after whatever other processes did
  meanwhile, leaves users, owners and associations as it found them.
* `OwnersUnlessStranded == Spec /\ [][~Strands]_vars => []OwnersSound`, `ScansUnlessStranded`, the
  same of `ScanExact`, and `RollbackUnlessStranded`, the same of `RollbackExact` (`FenProofs`):
  through every walk, scan, failure and release, owners are users that still watch and the
  directories that are scanned are those somebody needs, until `dropPhysical` forgets a path that
  has been associated anew, or a user that owns a path it does not forget. Both are in section
  9; nothing else does it, and then the premise of `RollbackFollows` holds.
* `PairedUnlessCrossed == Spec => []DescriptorsPaired` (`KqueueProofs`): with caller
  and reader interleaved in any way, and after any rename, until `rebase` changes what a path leads
  to while another goroutine opens or closes that path. The history of section 9 is thus the only kind that breaks
  the pairing.
* `ReleasedUnlessEscaped == Spec => []ClosedReleasesAll` (`KqueueProofs`). `escaped` records
  that the watcher was closed and `DoAdd`, or `DoRebase`, changed which
  paths are watched. The invariant (`ClosingInv`) says that until then every path of the table is on the list
  Close works through, which holds nothing else, and that no Close has returned before the list
  is empty; `DescriptorsPaired` then turns the empty table into no open descriptor. So the three
  histories of section 9 are the only leaks of Close.

**Why `OwnershipSound` is not inductive.** `rebase` gives the watches below the old
path to the recursive owners of the destination, and drops the owner sets of the
paths it lists. It lists paths from `path`, not from `owners`: an owned path that
were not in `path` would keep owners that `releaseRenamed` has just removed as
users. So `OwnedIsListed` is needed. A walk registers paths for owners that were
collected when it began, so these must still be recursive users and every path it
has still to visit must lie below them: `WalkSound`. Nothing is asked of the names
in events or of the inverse of `path`, which is why the invariant survives the very
behaviours of section 9.

**How that proof goes.** `InotifyTableProofs` has one lemma per method of `watches`:
from `TableSound(t)`, and what the caller knows of the arguments, to `TableSound` of the
result. Methods that take something away share one argument: users are forgotten
(`ForgottenUsers`), paths are forgotten only together with their owner sets
(`ReleasedIsSound`), and flags are irrelevant (`UpdateFlagsIs`). `moveWatches` is the
one that adds: the new owners lie above the landed paths (`RebasedUnder`).
`InotifyProofs` then has one lemma per action, `NextSound` collects them, and PTL
concludes. For the life cycle the invariant is `ClosedIsSafe`: the caller that is
past `close` has closed `done`, and a closed file means closed `done` and empty
tables.

**`RollbackExact`** speaks of the table as it was when a walk began; `GrownTables` says how it
differs now. During `AddWith` the root is one more user and may own more paths. During
`registerRecursiveSubtree` the owners in `regs` own more, exactly where `regs` says, and where
the walk has been every owner owns: or a path visited twice would be remembered with too
few. Both need that no owner set is empty (`Full`), or undoing a first registration
would differ from never having made it. **`ClosedIsEmpty`** needs only that no walk is left
after Close (`Shut`).

**`FlagsAgree` and `TablesInverse`** are proved together, as `RightTables`. `updateFlags` finds
the watch through `path`, so flags are kept right only as long as `path` and `wd` fit; a
registration that clashes breaks the second, and the invariant keeps the first: the
path left dangling has no watch that could be wrong, and `FlagsBut(t, ex)` lets a
method be wrong about the paths `ex` it has still to update. The hard case is again
`rebase`: `clearDestination` and `releaseRenamed` make room before `moveWatches` renames,
so that no two watches land on one path (`RebasedOnce`, `RebasedPrefix`). `WdsSound` is
there because 0 stands for "no watch" in the code.

**`NoLeakedWatch` and `DroppedIsAnnounced`** need to know that a late `IN_IGNORED` never
removes a newer watch: `EventsSound` says that an event that ends a watch names a
descriptor the kernel has dropped and will not hand out again, from the queue to the
buffer to `handleEvent`. It has to speak of the notifications a rename has still to queue
(`TailSound`) and of the kernel keeping one watch per inode (`OneEach`). `NextChanges` then
sorts all steps by what they do to the watches: nothing, forget what the event at hand
ends, remove from both sides, or register one. The hypothesis of `AnnouncedUnlessOverflow` is
about the whole behaviour, as a dropped event is never repeated.

**The refinement.** The abstract step depends on where caller and reader are, so
`RefineInv` ties the abstract state to it: `CallerInv` says for each place of a caller
what its call is and whether it has had its effect, `ReaderInv` which channels are closed
(`errorsClosed`, `eventsClosed` and `doneResp` follow from the place of the reader). That a
Close returns after the channels have ended is the last line of `CallerInv`, and needs
`doneResp`. The lemmas map each action to one abstract step or to none (`Stutter`);
`LifecycleSteps` is the abstract specification without its fairness.

**`ReadsOwned`, `NoLeakedHandle`, `ClosedReleasesAll`** follow from one invariant,
`ReadsInv`. `Tables` says that the watches in the table are the structures with an open
handle, `Reads` that `pending` is exactly the reads under way and those with a packet, each
the `active` one of its watch. Within a step neither is true all the time: `readEvents`
takes a packet before it deletes the read from `pending`, so `Reads` has a parameter `held`
for reads whose packet is gone. `Good(io, {})` is what holds between steps, and there is one lemma per
operation of the tables (`startRead`, `stopRead`, `closeWatch`, `closeWatches`...) that
takes `Good` to `Good`. A packet carries the number of a structure, not a pointer: that
the structure is still valid when the packet comes is what has to be shown, since the code
deletes a watch from the table only after its last packet.

**`NoLostWakeup`** needs `WakeupInv`. `CloseInv`: the Close that works is alone, and its place
says which of `done`, `request` and `closeCh` hold. `WorkInv`: a request that is
worked on leaves pieces in `todo` whose last one answers it, so a caller is not forgotten
between two pieces; this has to be shown of every list of pieces a step can produce.
`CallsInv`: a caller that has put its request and has no answer finds it in `input` or in
`req`, or Close releases it; the property says so only of a caller that already waits.
`WakeInv` is the rest of it: one wakeup per input, however many
`TakeNothing` took. The packets that Close counts come from `ReadsInv`. The proofs assume
that `"nobody"`, which stands for no caller, is not one (`CallsAssumption`).

**`NeverDeaf`** is stated only while `opsMu` is free, but an event leaves the batch when
its handling begins. `HearsInv` therefore says of every state of an open watcher that an
owned path has an association or an event in the port or in the batch, whoever holds
the mutex: each handler renews or forgets the path in the very step that takes its event. The lemmas
say of each method of `fen` what it does to the set of paths the port or its queue
still has; those about `SubSeq` and `\o` are there because an event moves from queue to
batch. `ClosedPort` needs that the port is closed only with `opsMu` free and `closed` set,
after which nothing is associated: `ClosedInv`.

**`DescriptorsPaired`** needs to know what the goroutine that holds `watchMu` relies on (`Held`): a
path that it opens is still in no table, and one that it closes still leads to its descriptor.
Until something has crossed, every step keeps this: another goroutine cannot open or remove, since
that takes `watchMu`, and the one step that can change paths without it is `rebase` (`RebaseSound`).
There `Rebased` there and back is the identity (`RebasedBack`), so the landed paths are as many as the
moved ones, and `CanRebase` is exactly what keeps them apart from those already there. Opening
takes a number that is free (`NewFdIsNew`). `LockInv` ties the lock to the piece its holder is at,
so that a Close whose list is empty leaves it free.

**`OwnedIsWatched`**: that what is owned is watched holds without any condition (`OwnedIsListed`,
`Full`). That every user owns its own path is `UsersListed`. It speaks of the table a walk began
with, too: so `RollbackExact`, already proved, carries the case of a walk that fails, and its root
is the one user that need not own its path until it has been visited. `rebase` takes the old and
the new place from all users before `moveWatches` fills the new one. **`NoOrphanWatch`** follows
from `Owned`: each method drops the same paths from `path` and from `owners`. Only the loop of
`watches.remove` (backend_inotify.go:105-141) does not, as it deletes every owner set that becomes
empty and no more than one path; `Strands` says when that makes a difference.

**`TypeOK`** of inotify is about the whole path of a name: from the tree (`TreeSound`: what exists
has all its directories, and every inode number is below the next) into an event (`EventsNamed`,
which also bounds the cookies), over the queue and the buffer, through `EvName` into the tables
(`TablesNamed`). It does *not* say that a table holds only paths of the tree, `Path`. An earlier
form did, and is false once a tree is deep enough: a watch keeps its name when a directory above
it that nobody watches is renamed, and a watched directory that is then moved into it is named
below the old place, deeper than any path of the tree. The runs are too shallow for that; the
attempt to prove it showed it. `KernelAssumption` says that the initial directories have
their parents, without which the last conjunct is false in the first state.

**`Listening`** is false of many watches while a packet is handled. `ListenInv` says that whatever
is in the table hears (`Heard`), or has a piece of work in `todo` that will start its read or bury
it (`Given`), and `Sound` that a watch some piece is about has such a piece after it. A watch is
buried only when its object is gone (`Lost`), and what is gone does not come back: the objects of all watches are older than the next one
(`Tracked`). This needs the tree to be one (`IsTree`), which is shown for every call of
another process with the lemmas of `FileTreeProofs`. `PortAssumption` says that a file is not
given at the root of a drive, `TreeAssumption` that the initial paths form a tree.

**`RollbackFollows`** compares the tables during a call with those before it (`before`).
`GrownBy` says how they differ: the path of the call has become an owner of some paths, what it
alone owns was not owned, and the directories that have to be scanned for others still are and
are known. `releaseOwner` takes back exactly this (`ReleaseRestores`). Every step of the call keeps
it, since every piece of its work is for its path and one of them registers it (`AddPlan`), a
directory that is owned is known as one (`KnowsDirs`), and a stat that was kept is of the object
that is there (`Truthful`), the last two while `calm`. Of the moment the call begins it needs
`OwnersSound` and `ScanExact`: a path that is owned by nobody, or scanned for nobody, would not
come back. They are a hypothesis because neither holds in every history of section 9;
`Fen.cfg` checks both, and the next theorems say which steps break them.

**`OwnersSound` and `ScanExact`** are stated for a quiet watcher and hold of much less: `OwnInv` says
of every state that an associated path is owned, that owners are users, or the user of the call under
way, at the path or above it (`TablesFit`), and, while `calm`, that a known directory is scanned if
and only if one of them wants it (`ScansFit`, where the user of the call counts already). Every
piece of work has to fit this (`PieceFits`): a walk with recursive owners looks below directories
and has them scanned, one without scans the path that was given and no other. The last
needs that a directory is read into entries that are in it and below its owners
(`OrderIs`, `EntryUnder`). A call that fails and takes nothing back must have nothing to take
back: its user had been added before, or the one visit it had to make has failed (`Alone`).
`releaseOwner` gives up one owner and re-computes the scans (`ReleaseFits`, `ReleaseScans`);
`dropPhysical` is sound unless the step `Strands` (`DropFits`), which is a hypothesis about a
step and not about the tree. `FenAssumption` says that names are ordered, since `os.ReadDir`
sorts; any finite set of numbers will do.

**Only model-checked**

* Out of reach of the provers: liveness (`EventuallySettled`, `ReaderEnds`, the fair half of
  `KeepsPromise`), and `CloseNeverStuck`, which is about `ENABLED`.
* True only under a regime or `calm`, so that a theorem would need the regime as
  a hypothesis: `Covered`, `NamesCurrent`, `PromisesKept` of inotify; `Covered` and `Attached` of
  FEN; `Covered`, `Attached`, `OwnersSound` and `NothingSkipped` of kqueue.
* `RootPaired` and `RootsExist` of Windows hold in the instance of the run, which creates
  nothing, and are false with a directory made again at the path of a root (section 9).
* Of FEN, `Covered` and `Attached` without a condition: the instance of `Fen.cfg` has nothing
  above the watched paths that could be renamed. With a plain directory above a watched one,
  `OwnersSound` and `Attached` fail in `calm` states after one call and two tree calls (section
  9), so that `Attached` is no theorem about every tree, and `OwnersSound` one only without `Strands`.

## 11. What is left out

* What is reported: `newEvent`, `opForOwners`, the ring of ten rename cookies of
  inotify. They touch no table. The ring can lose the old name of a rename after ten
  unmatched ones.
* The layout of read buffers, and errors of a read or a port that the code does not
  expect (in `InotifyLifecycle` a read may fail and be reported).
* Symbolic links (`linkName` and `addLink` of kqueue among them), mount points, hard links,
  names that differ only in case: a path names one object and an object has one path.
  A watch on a hard link of inotify would alias as in `InotifyPanic`.
* `WithNoFollow`, `withOps`, `withCreate` and the other unexported options; `WithBufferSize`.
* The consumer of kqueue: nothing is sent under `opsMu` without an unexported option, and
  Close releases a send as it does in the FEN model.
* `recursivePath`, `Op.Has`, `Op.String`, `Event.String`: pure functions of characters and
  bits. `internal/`, the other-platform backend, `internal/ztest`: nothing that keeps
  state. `cmd/fsnotify`: an example; the race of its `dedup` is listed under `hazards`.

## 12. Plan

1. *Done:* tables, kernel, backend and life cycle of inotify; their invariants,
   refinement, liveness; `OwnershipSound` and `DescriptorNotReused` proved.
2. *Done:* `Windows`, `Fen`, `Kqueue` with their tables, kernel objects and races;
   `NeverDeaf`, `ClosedPort` and `DescriptorsPaired` proved.
3. *Done:* the safety part of the refinement of `WatcherLifecycle`; Windows: `ReadsOwned`,
   `NoLeakedHandle`, `ClosedReleasesAll` and `NoLostWakeup` proved.
4. *Done:* inotify: `RollbackExact`, `ClosedIsEmpty` and `FlagsAgree` proved without
   condition; `TablesInverse`, `NoPanic`, `NoLeakedWatch` and `DroppedIsAnnounced` up to the
   steps that section 9 shows to break them.
5. *Done:* `Listening` of Windows proved for roots that are not their own parent;
   `OwnedIsWatched` and `NoOrphanWatch` of inotify up to the steps of section 9; `OwnersSound`,
   `ScanExact` and `RollbackExact` of FEN up to the steps of section 9.
6. *Done:* `TypeOK` of inotify, corrected and proved.
7. *Done:* `ClosedReleasesAll` of kqueue, up to the steps of section 9. To do: `RootPaired` of
   Windows and `OwnersSound` of kqueue up to such steps; that every call of Windows returns, as
   a liveness property.
8. `WatcherLifecycle` as the abstract specification of FEN, kqueue and Windows, whose
   second Close waits.
9. `RenameCookies` and `Dedup` as small modules, and `recursivePath`, `hasPathPrefix` on
   characters as pure operators.
