------------------------------- MODULE Inotify -------------------------------
(***************************************************************************)
(* The inotify backend (backend_inotify.go): callers of AddWith, Remove    *)
(* and Close, and the goroutine readEvents, over the tables of             *)
(* InotifyWatches and the kernel of InotifyKernel.                         *)
(*                                                                         *)
(* A step is what happens under one hold of the mutex, except where the    *)
(* code looks at the file tree more than once under it: filepath.WalkDir   *)
(* is one step per directory it registers and one per directory it lists,  *)
(* and other processes change the tree between them.  Delivery on the      *)
(* channels has no effect on this state and is modelled by                 *)
(* InotifyLifecycle.                                                       *)
(***************************************************************************)
EXTENDS InotifyKernel, InotifyWatches

CONSTANTS
  PlainPaths,     \* paths users add without "/..."
  RecursivePaths, \* paths users add with "/..."
  MaxUserOps,     \* bound on the calls of users
  MaxFaults,      \* bound on the failures of inotify_add_watch (ENOSPC, EACCES)
  BufLen,         \* the events one read can return
  CalmWalks,      \* the changes of the tree that do not happen during a walk
  TimelyMoves,    \* TRUE: no timeout, no call of a user and no other change
                  \* of the tree falls between the events of a rename
  Paced           \* of "rename" and "add", the calls that are made only when
                  \* every event so far is handled

ASSUME BackendAssumption ==
  /\ PlainPaths \subseteq Path /\ RecursivePaths \subseteq Path
  /\ {MaxUserOps, MaxFaults} \subseteq Nat
  /\ BufLen \in Nat \ {0}
  /\ CalmWalks \subseteq TreeCalls /\ TimelyMoves \in BOOLEAN /\ Paced \subseteq {"rename", "add"}

VARIABLES
  tbl,      \* w.watches
  walk,     \* the walk under way, with w.mu held, or NoWalk
  pending,  \* w.pendingMoves: cookie -> path
  reader,   \* where readEvents is: "prepare", "read", "handle" or "done"
  deadline, \* w.readDeadline is set
  buf,      \* the events read and not handled
  closing,  \* w.done is closed
  closed,   \* the instance is closed
  userOps, faults, \* the calls and the failures so far
  promise   \* history: user path -> the inode it was added for, as long as
            \* the user has not removed it and the path names that inode

backendVars == <<tbl, walk, pending, reader, deadline, buf, closing, closed, userOps, faults>>
vars == <<kernelVars, backendVars, promise>>

(***************************************************************************)
(* A walk: by AddWith for the root it was given ("add"), or by             *)
(* registerRecursiveSubtree ("subtree").  todo is what is left to do:      *)
(* call the WalkDir function on a directory, or list one it was called     *)
(* on.  before is the table when the call began (used by properties only). *)
(***************************************************************************)
NoWalk == [by |-> "nobody"]
Walking == walk # NoWalk
Visit(p) == [do |-> "visit", path |-> p]
List(p) == [do |-> "list", path |-> p]
Walk(by, root, us, before) ==
  [by |-> by, root |-> root, owners |-> us, todo |-> <<Visit(root)>>, regs |-> NoFunction,
   before |-> before]

(* A nil dereference ends the program. *)
Alive == ~tbl.panicked
MuFree == Alive /\ ~Walking

(* Lstat, for a directory. *)
IsDir(p) == p \in DOMAIN fs /\ kind[fs[p]] = "dir"

(* Nothing is left to handle, but for the deadline of the next read. *)
Settled ==
  queue = <<>> /\ tail = <<>> /\ doomed = {} /\ buf = <<>> /\ pending = NoFunction /\ ~Walking

UserCall ==
  /\ userOps < MaxUserOps /\ userOps' = userOps + 1
  /\ TimelyMoves => tail = <<>>
AddCall == UserCall /\ ("add" \in Paced => Settled)
(* inotify_add_watch fails although the path exists. *)
Fault == faults < MaxFaults /\ faults' = faults + 1

(* Mutant: the caller's second isClosed, under the mutex, is dropped. *)
OpenUnchecked == TRUE

(* The watcher is still open when the call has the mutex. *)
Open == ~closing

(* Mutant: what releaseOwner returns is not removed from the kernel. *)
ReleaseUserTablesOnly(t, u) == tbl' = releaseOwner(t, u).tbl /\ UNCHANGED <<kwatch, nextWd, queue>>

(* releaseOwner and inotify_rm_watch on what it returns. *)
ReleaseUser(t, u) ==
  LET r == releaseOwner(t, u) IN tbl' = r.tbl /\ RmWatches(r.wds)

KernelQuiet == UNCHANGED <<kwatch, nextWd, queue>>
TreeQuiet == UNCHANGED <<fs, kind, tail, doomed, fsOps>>
ReaderQuiet == UNCHANGED <<pending, reader, deadline, buf>>
CloseQuiet == UNCHANGED <<closing, closed>>

-----------------------------------------------------------------------------
(* AddWith, without "/...".                                                *)
-----------------------------------------------------------------------------
AddPlain(p) ==
  LET t == addUser(tbl, p, FALSE)
  IN  /\ MuFree /\ Open /\ AddCall
      /\ p \notin tbl.byUser
      /\ \/ /\ p \in DOMAIN fs
            /\ LET t1 == register(t, p, WdFor(p), {p})
               IN  IF p \in DOMAIN t1.path THEN tbl' = t1
                   ELSE tbl' = releaseOwner(t1, p).tbl
            /\ AddWatch(p)
            /\ UNCHANGED faults
         \/ p \notin DOMAIN fs /\ ReleaseUser(t, p) /\ UNCHANGED faults
         \/ p \in DOMAIN fs /\ Fault /\ ReleaseUser(t, p)
      /\ UNCHANGED walk /\ TreeQuiet /\ ReaderQuiet /\ CloseQuiet

(* AddWith, with "/...": the mutex is held until the walk ends. *)
AddRecursive(p) ==
  LET t == addUser(tbl, p, TRUE)
  IN  /\ MuFree /\ Open /\ AddCall
      /\ p \notin tbl.byUser
      /\ IF IsDir(p)
         THEN tbl' = t /\ walk' = Walk("add", p, {p}, tbl) /\ KernelQuiet
         ELSE ReleaseUser(t, p) /\ UNCHANGED walk
      /\ UNCHANGED faults /\ TreeQuiet /\ ReaderQuiet /\ CloseQuiet

(* Remove; a name that is not in byUser changes nothing. *)
RemoveWatch(p) ==
  /\ MuFree /\ Open /\ UserCall
  /\ p \in tbl.byUser
  /\ ReleaseUser(tbl, p)
  /\ UNCHANGED <<walk, faults>> /\ TreeQuiet /\ ReaderQuiet /\ CloseQuiet

(* Close: shared.close, then the instance and the tables under the mutex. *)
CloseBegin ==
  /\ MuFree /\ ~closing /\ UserCall
  /\ closing' = TRUE
  /\ UNCHANGED <<closed, tbl, walk, faults>> /\ ReaderQuiet /\ UNCHANGED kernelVars

(* Mutant: the tables are emptied and the file stays open. *)
CloseFinishKeepsFile ==
  /\ MuFree /\ closing /\ tbl # newWatches
  /\ tbl' = newWatches
  /\ UNCHANGED <<closing, closed, walk, userOps, faults>> /\ ReaderQuiet /\ UNCHANGED kernelVars

CloseFinish ==
  /\ MuFree /\ closing /\ ~closed
  /\ closed' = TRUE
  /\ tbl' = newWatches
  /\ CloseInstance
  /\ UNCHANGED <<closing, walk, userOps, faults>> /\ ReaderQuiet

-----------------------------------------------------------------------------
(* filepath.WalkDir, by AddWith or registerRecursiveSubtree.               *)
-----------------------------------------------------------------------------
(* The directories ReadDir finds in p, in the order of their names. *)
SubDirs(p) ==
  LET names   == {n \in Names : IsDir(Join(p, n))}
      Rank(n) == Cardinality({m \in names : m <= n})
  IN  [k \in 1..Cardinality(names) |-> Visit(Join(p, CHOOSE n \in names : Rank(n) = k))]

Continue(w, todo) == walk' = IF todo = <<>> THEN NoWalk ELSE [w EXCEPT !.todo = todo]

(* Mutant: AddWith forgets the root and not what it came to own. *)
AbortKeepsOwners ==
  /\ tbl' = ForgetUsers(tbl, walk.owners)
  /\ walk' = NoWalk
  /\ KernelQuiet

(* The walk fails: AddWith releases the root, registerRecursiveSubtree     *)
(* undoes its registrations.                                               *)
Abort ==
  LET r == IF walk.by = "add" THEN releaseOwner(tbl, walk.root)
           ELSE rollbackRegistrations(tbl, walk.regs)
  IN  tbl' = r.tbl /\ RmWatches(r.wds) /\ walk' = NoWalk

(* The WalkDir function: register, and remember what was added. *)
VisitDir ==
  LET p     == Head(walk.todo).path
      added == walk.owners \ OwnersOf(tbl, p)
      t     == register(tbl, p, WdFor(p), walk.owners)
      regs  == IF added # {} /\ Watched(t, p) THEN Put(walk.regs, p, added) ELSE walk.regs
  IN  /\ Alive /\ Walking /\ Head(walk.todo).do = "visit"
      /\ \/ /\ p \in DOMAIN fs
            /\ tbl' = t
            /\ AddWatch(p)
            /\ Continue([walk EXCEPT !.regs = regs], <<List(p)>> \o Tail(walk.todo))
            /\ UNCHANGED faults
         \/ p \notin DOMAIN fs /\ Abort /\ UNCHANGED faults
         \/ p \in DOMAIN fs /\ Fault /\ Abort
      /\ UNCHANGED userOps /\ TreeQuiet /\ ReaderQuiet /\ CloseQuiet

(* ReadDir: it waits for the locks of a rename, and fails on what is no    *)
(* longer a directory.                                                     *)
ListDir ==
  LET p == Head(walk.todo).path
  IN  /\ Alive /\ Walking /\ Head(walk.todo).do = "list"
      /\ \/ /\ IsDir(p) /\ ~Locked(p)
            /\ Continue(walk, SubDirs(p) \o Tail(walk.todo))
            /\ UNCHANGED tbl /\ KernelQuiet
         \/ ~IsDir(p) /\ Abort
      /\ UNCHANGED <<userOps, faults>> /\ TreeQuiet /\ ReaderQuiet /\ CloseQuiet

-----------------------------------------------------------------------------
(* readEvents, up to handleEvent.                                          *)
-----------------------------------------------------------------------------
UsersQuiet == UNCHANGED <<userOps, faults>>

(* Mutant: the deadline is never set. *)
DeadlineNever == FALSE

Deadline == pending # NoFunction

(* prepareRead: a deadline exactly when a move waits for its other half. *)
PrepareRead ==
  /\ MuFree /\ reader = "prepare"
  /\ IF closing THEN reader' = "done" /\ UNCHANGED deadline
     ELSE reader' = "read" /\ deadline' = Deadline
  /\ UNCHANGED <<tbl, walk, pending, buf>> /\ UNCHANGED kernelVars /\ CloseQuiet /\ UsersQuiet

Read ==
  /\ Alive /\ reader = "read" /\ ~closed
  /\ queue # <<>>
  /\ LET n == IF Len(queue) < BufLen THEN Len(queue) ELSE BufLen
     IN  buf' = SubSeq(queue, 1, n) /\ queue' = SubSeq(queue, n + 1, Len(queue))
  /\ reader' = "handle"
  /\ UNCHANGED <<tbl, walk, pending, deadline, kwatch, nextWd>>
  /\ TreeQuiet /\ CloseQuiet /\ UsersQuiet

(* Reading a closed file ends the goroutine. *)
ReadClosed ==
  /\ Alive /\ reader = "read" /\ closed
  /\ reader' = "done"
  /\ UNCHANGED <<tbl, walk, pending, deadline, buf>> /\ UNCHANGED kernelVars
  /\ CloseQuiet /\ UsersQuiet

(* What every pending move has left behind. *)
DetachExpired(t) == detachSubtrees(t, Range(pending))

(* The read times out, and expirePendingMoves takes every pending move to  *)
(* have left the tree.  A deadline that passes before the read is made     *)
(* fails it even when events wait.                                         *)
ExpirePendingMoves ==
  LET r == DetachExpired(tbl)
  IN  /\ MuFree /\ reader = "read" /\ deadline /\ ~closed
      /\ TimelyMoves => queue = <<>> /\ tail = <<>>
      /\ reader' = "prepare"
      /\ IF closing THEN UNCHANGED <<tbl, pending>> /\ KernelQuiet
         ELSE pending' = NoFunction /\ tbl' = r.tbl /\ RmWatches(r.wds)
      /\ UNCHANGED <<walk, deadline, buf>> /\ TreeQuiet /\ CloseQuiet /\ UsersQuiet

-----------------------------------------------------------------------------
(* handleEvent, on the first event of buf.                                 *)
-----------------------------------------------------------------------------
Ev == Head(buf)
TheWatch == tbl.wd[Ev.wd]
EvName == Join(TheWatch.path, Ev.name)
Known(kinds) == Ev.kind \in kinds /\ Ev.wd \in DOMAIN tbl.wd

(* Mutant: the loop over the buffer runs past its last event. *)
HandleSticks ==
  /\ MuFree /\ reader = "handle" /\ buf # <<>>
  /\ buf' = Tail(buf)
  /\ UNCHANGED <<reader, deadline>> /\ TreeQuiet /\ CloseQuiet /\ UsersQuiet

Handle ==
  /\ MuFree /\ reader = "handle"
  /\ buf' = Tail(buf)
  /\ reader' = IF Tail(buf) = <<>> THEN "prepare" ELSE "handle"
  /\ UNCHANGED deadline /\ TreeQuiet /\ CloseQuiet /\ UsersQuiet

(* A descriptor the table no longer has, or an overflow. *)
HandleUnknown ==
  /\ Handle
  /\ Ev.wd \notin DOMAIN tbl.wd
  /\ UNCHANGED <<tbl, pending, walk>> /\ KernelQuiet

(* Mutant: only an explicit watch is forgotten. *)
HandleGoneExplicitOnly ==
  /\ Handle
  /\ Known({"ignored", "delete_self"})
  /\ tbl' = IF TheWatch.byUser THEN remove(tbl, Ev.wd) ELSE tbl
  /\ UNCHANGED <<pending, walk>> /\ KernelQuiet

(* IN_IGNORED and IN_DELETE_SELF: the watch is gone. *)
HandleGone ==
  /\ Handle
  /\ Known({"ignored", "delete_self"})
  /\ tbl' = remove(tbl, Ev.wd)
  /\ UNCHANGED <<pending, walk>> /\ KernelQuiet

(* IN_MOVE_SELF: an explicit watch ends; one that only a recursive root    *)
(* keeps is left to the event of the parent directory.                     *)
HandleMoveSelf ==
  /\ Handle
  /\ Known({"move_self"})
  /\ IF (TheWatch.recurse /\ ~TheWatch.byUser) \/ TheWatch.path \notin tbl.byUser
     THEN UNCHANGED tbl /\ KernelQuiet
     ELSE ReleaseUser(tbl, TheWatch.path)
  /\ UNCHANGED <<pending, walk>>

(* IN_MOVED_FROM of a watched directory: wait for IN_MOVED_TO. *)
HandleMovedFrom ==
  /\ Handle
  /\ Known({"from"})
  /\ pending' = IF TheWatch.recurse /\ Ev.dir /\ Watched(tbl, EvName)
                THEN Put(pending, Ev.cookie, EvName) ELSE pending
  /\ UNCHANGED <<tbl, walk>> /\ KernelQuiet

(* A directory appears below one that is watched recursively. *)
AppearsDir == Known({"create", "to"}) /\ TheWatch.recurse /\ Ev.dir

(* IN_MOVED_TO of a pending move: rename within the watched trees. *)
HandleMovedWithin ==
  /\ Handle
  /\ AppearsDir /\ Ev.cookie \in DOMAIN pending
  /\ LET r == rebase(tbl, pending[Ev.cookie], EvName, recursiveOwners(tbl, TheWatch.path))
     IN  tbl' = r.tbl /\ RmWatches(r.wds)
  /\ pending' = Without(pending, {Ev.cookie})
  /\ UNCHANGED walk

(* A new directory: detachPendingMoveAt, then registerRecursiveSubtree     *)
(* unless the path is watched already.                                     *)
HandleNewDir ==
  LET old == {c \in DOMAIN pending : pending[c] = EvName}
      r   == IF old = {} THEN [tbl |-> tbl, wds |-> {}] ELSE detachSubtree(tbl, EvName)
      us  == recursiveOwners(r.tbl, TheWatch.path)
  IN  /\ Handle
      /\ AppearsDir /\ Ev.cookie \notin DOMAIN pending
      /\ pending' = Without(pending, old)
      /\ tbl' = r.tbl
      /\ RmWatches(r.wds)
      /\ walk' = IF ~Watched(r.tbl, EvName) /\ us # {} /\ IsDir(EvName)
                 THEN Walk("subtree", EvName, us, r.tbl) ELSE NoWalk

(* The rest only sends an event. *)
HandleOther ==
  /\ Handle
  /\ \/ Known({"delete"})
     \/ Known({"create", "to"}) /\ ~AppearsDir
  /\ UNCHANGED <<tbl, pending, walk>> /\ KernelQuiet

-----------------------------------------------------------------------------
BackendInit ==
  /\ tbl = newWatches /\ walk = NoWalk /\ pending = NoFunction
  /\ reader = "prepare" /\ deadline = FALSE /\ buf = <<>>
  /\ closing = FALSE /\ closed = FALSE /\ userOps = 0 /\ faults = 0
  /\ promise = NoFunction

Init == KernelInit /\ BackendInit

(* Whether this change of the tree happens now. *)
Happens(call) == call \in TreeCalls /\ (call \in CalmWalks => ~Walking)

TreeStep ==
  /\ Alive
  /\ TimelyMoves => tail = <<>>
  /\ \/ \E p \in Path : Happens("mkdir") /\ Create(p, "dir")
     \/ \E p \in Path : Happens("mkfile") /\ Create(p, "file")
     \/ \E p \in DOMAIN fs : Happens("unlink") /\ Unlink(p)
     \/ \E p \in DOMAIN fs, q \in Path :
          Happens("rename") /\ ("rename" \in Paced => Settled) /\ Rename(p, q)
  /\ UNCHANGED backendVars

(* The kernel ends what the calls began. *)
KernelStep ==
  /\ Alive
  /\ RenameNotifies \/ \E i \in doomed : Release(i)
  /\ UNCHANGED backendVars

WalkStep == VisitDir \/ ListDir

ReaderStep ==
  \/ PrepareRead \/ Read \/ ReadClosed \/ ExpirePendingMoves
  \/ HandleUnknown \/ HandleGone \/ HandleMoveSelf \/ HandleMovedFrom
  \/ HandleMovedWithin \/ HandleNewDir \/ HandleOther

(* The history variable: the paths made are promised from now on, those    *)
(* ended are not, and a promise ends with the object it was about.         *)
Promise(made, ended) ==
  LET asked    == (DOMAIN promise \ ended) \cup made
      Inode(p) == IF p \in made THEN fs[p] ELSE promise[p]
  IN  promise' = [p \in {q \in asked : q \in DOMAIN fs' /\ fs'[q] = Inode(q)} |-> Inode(p)]

Next ==
  \/ (TreeStep \/ KernelStep \/ ReaderStep) /\ Promise({}, {})
  \/ WalkStep /\ Promise({}, tbl.byUser \ tbl'.byUser)
  \/ \E p \in PlainPaths : AddPlain(p) /\ Promise({p} \cap tbl'.byUser, {})
  \/ \E p \in RecursivePaths : AddRecursive(p) /\ Promise({p} \cap tbl'.byUser, {})
  \/ \E p \in Path : RemoveWatch(p) /\ Promise({}, {p})
  \/ (CloseBegin \/ CloseFinish) /\ Promise({}, DOMAIN promise)

Spec == Init /\ [][Next]_vars

(***************************************************************************)
(* Fairness: goroutines are scheduled, the mutex is not held for ever, a   *)
(* read that has something to return returns, a deadline passes, and the   *)
(* kernel ends the renames and the inodes it began to end.  Nothing is     *)
(* assumed of users and of other processes.                                *)
(***************************************************************************)
Fairness ==
  /\ WF_vars(ReaderStep /\ Promise({}, {}))
  /\ WF_vars(WalkStep /\ Promise({}, tbl.byUser \ tbl'.byUser))
  /\ WF_vars(CloseFinish /\ Promise({}, DOMAIN promise))
  /\ WF_vars(KernelStep /\ Promise({}, {}))

FairSpec == Spec /\ Fairness
=============================================================================
