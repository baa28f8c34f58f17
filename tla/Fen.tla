--------------------------------- MODULE Fen ---------------------------------
(***************************************************************************)
(* The FEN backend (backend_fen.go): goroutines that call AddWith, Remove  *)
(* and Close, and readEvents, over a tree that other processes change.     *)
(* Whoever holds opsMu works through todo: the visits of a walk, the       *)
(* entries of a directory that is scanned.  What needs no system call is   *)
(* done in one step; between two system calls the tree can change, and     *)
(* Close can set the closed flag, for which it does not take opsMu.        *)
(* A stat and the association made with it are one step, since a change in *)
(* between has its event at once; where the code keeps a stat for later    *)
(* the piece of work keeps it, too.  There are no symbolic links.          *)
(***************************************************************************)
EXTENDS FenWatches

CONSTANTS
  Closers,        \* goroutines that may call Close
  PlainPaths,     \* paths that are added without "/..."
  RecursivePaths, \* paths that are added with "/..."
  MaxCalls,       \* bound on the calls of AddWith and Remove
  BatchLen        \* events Get returns at once: 8 in the code

ASSUME FenAssumption ==
  /\ PlainPaths \cup RecursivePaths \subseteq Path
  /\ Names \subseteq Nat \* a directory is read in the order of names
  /\ MaxCalls \in Nat /\ BatchLen \in Nat \ {0}

VARIABLES
  tb,     \* tables and port: see FenWatches
  todo,   \* what the holder of opsMu has still to do; empty if it is free
  req,    \* the local variables of AddWith
  batch,  \* events Get has returned and readEvents has not handled
  reader, \* where readEvents is: "run", "send" or "ended"
  closed, \* shared.done is closed
  port,   \* "open" or "closed"
  at,     \* closer -> where it is in Close
  calls,  \* calls made
  receiving, \* someone receives from Events and Errors
  calm    \* a record of the past, for the properties: no object has come to
          \* a path the tables still had, or with an event or work to be done,
          \* or into a directory of one user during an AddWith of another;
          \* nothing with an event to be handled was renamed, and nothing was
          \* added while there were such events

vars == <<treeVars, tb, todo, req, batch, reader, closed, port, at, calls, receiving, calm>>

(* The paths with an event that is not handled. *)
Pending == {tb.queue[k].path : k \in DOMAIN tb.queue} \cup {batch[k].path : k \in DOMAIN batch}

(* The paths there is a piece of work for. *)
Planned == {todo[k].path : k \in {j \in DOMAIN todo : "path" \in DOMAIN todo[j]}}

NoRequest == [name |-> <<>>]
Unlocked == todo = <<>>
Then(pieces) == todo' = pieces \o Tail(todo)
Doing(what) == todo # <<>> /\ Head(todo).do = what
If(condition, pieces) == IF condition THEN pieces ELSE <<>>

(* Pieces of work.  deep says what a walk does below a directory: "no",    *)
(* "dirs" if it looks only for directories, "all" if for files, too.       *)
Visit(p, stat, owners, scan, deep) ==
  [do |-> "visit", path |-> p, stat |-> stat, owners |-> owners, scan |-> scan, deep |-> deep]
List(p, owners, deep) == [do |-> "list", path |-> p, stat |-> NoStat, owners |-> owners, deep |-> deep]
Root(p, owners, below, deep) ==
  [do |-> "root", path |-> p, stat |-> NoStat, owners |-> owners, below |-> below, deep |-> deep]
Entry(p, dir) == [do |-> "entry", path |-> p, stat |-> StatOf(p), dir |-> dir]
Scan(p) == [do |-> "scan", path |-> p, stat |-> NoStat]
Children(p) == [do |-> "children", path |-> p, stat |-> StatOf(p)]
Finish == [do |-> "finish", stat |-> NoStat]
Unlock == [do |-> "unlock", stat |-> NoStat]

(* os.ReadDir: the entries in the order of their names. *)
InOrder(paths) ==
  CHOOSE q \in [1..Cardinality(paths) -> paths] : \A j, k \in DOMAIN q : j < k => Last(q[j]) < Last(q[k])
EntriesOf(p) == InOrder(IF IsDir(p) THEN Entries(p) ELSE {})

-----------------------------------------------------------------------------
(* AddWith, Remove and Close.                                              *)
-----------------------------------------------------------------------------
CallOnly == UNCHANGED <<treeVars, batch, reader, closed, port, at, receiving>>
CanCall == Unlocked /\ ~closed /\ calls < MaxCalls /\ calls' = calls + 1
(* before is no variable of the code: RollbackExact looks at it.           *)
Tables(t) == <<t.dirs, t.watches, t.byUser, t.recurse, t.owners>>

(* AddWith as far as its walk, or its look at the directory. *)
AddWith(p, rec) ==
  LET exists  == p \in tb.byUser
      recurse == IF exists THEN p \in tb.recurse ELSE rec
  IN  /\ CanCall /\ (recurse \/ p \in DOMAIN fs)
      /\ req' = [name |-> p, recurse |-> recurse, rollback |-> ~exists /\ (recurse \/ IsDir(p)),
                  before |-> Tables(tb)]
      /\ todo' = (IF recurse THEN <<Root(p, {p}, {p}, "all")>>
                  ELSE IF IsDir(p) THEN <<Children(p)>>
                  ELSE <<Visit(p, StatOf(p), {p}, FALSE, "no")>>) \o <<Finish>>
      /\ calm' = (calm /\ Pending = {})
      /\ UNCHANGED tb /\ CallOnly

RemoveWatch(p, rec) ==
  /\ CanCall
  /\ p \in tb.byUser /\ (rec => p \in tb.recurse)
  /\ tb' = releaseOwner(tb, p)
  /\ UNCHANGED <<todo, req, calm>> /\ CallOnly

CloseFlag(c) ==
  /\ at[c] = "out"
  /\ closed' = TRUE /\ at' = [at EXCEPT ![c] = IF closed THEN "wait" ELSE "lock"]
  /\ UNCHANGED <<treeVars, tb, todo, req, batch, reader, port, calls, receiving, calm>>

(* Mutant: the port is closed without the mutex. *)
ClosePortAtOnce(c) ==
  /\ at[c] = "lock"
  /\ port' = "closed" /\ at' = [at EXCEPT ![c] = "wait"]
  /\ tb' = [tb EXCEPT !.assoc = <<>>, !.queue = <<>>]
  /\ UNCHANGED <<treeVars, todo, req, batch, reader, closed, calls, receiving, calm>>

ClosePort(c) ==
  /\ at[c] = "lock" /\ Unlocked
  /\ port' = "closed" /\ at' = [at EXCEPT ![c] = "wait"]
  /\ tb' = [tb EXCEPT !.assoc = <<>>, !.queue = <<>>]
  /\ UNCHANGED <<treeVars, todo, req, batch, reader, closed, calls, receiving, calm>>

CloseReturn(c) ==
  /\ at[c] = "wait" /\ reader = "ended"
  /\ at' = [at EXCEPT ![c] = "returned"]
  /\ UNCHANGED <<treeVars, tb, todo, req, batch, reader, closed, port, calls, receiving, calm>>

-----------------------------------------------------------------------------
(* The holder of opsMu.                                                    *)
-----------------------------------------------------------------------------
HolderOnly == UNCHANGED <<treeVars, batch, closed, port, at, calls, receiving, calm>>

(* An error ends a walk: all of AddWith, or one entry of a scan.           *)
Rest == LET ends == {k \in DOMAIN todo : todo[k].do \in {"entry", "unlock"}}
        IN  IF ends = {} THEN <<>> ELSE SubSeq(todo, CHOOSE k \in ends : \A j \in ends : k <= j, Len(todo))

(* Mutant: a failed AddWith leaves what it has registered. *)
ErrorLeaves ==
  /\ todo' = Rest
  /\ UNCHANGED tb /\ req' = NoRequest

Error ==
  /\ todo' = Rest
  /\ IF req = NoRequest THEN UNCHANGED <<tb, req>>
     ELSE tb' = (IF req.rollback THEN releaseOwner(tb, req.name) ELSE tb) /\ req' = NoRequest

CannotAssociate(p) == closed \/ p \notin DOMAIN fs

(* A path the walk has come to, with the stat its directory was read with. *)
DoVisit ==
  /\ Doing("visit")
  /\ LET v == Head(todo)
     IN  IF CannotAssociate(v.path) THEN Error
         ELSE /\ tb' = associateOwned(tb, v.path, v.stat, v.owners, v.scan)
              /\ Then(If(v.deep # "no" /\ v.stat.obj.dir, <<List(v.path, v.owners, v.deep)>>))
              /\ UNCHANGED req
  /\ UNCHANGED reader /\ HolderOnly

(* Where a walk begins, with a stat of its own.                            *)
DoRoot ==
  /\ Doing("root")
  /\ LET v == Head(todo)
     IN  IF v.path \in DOMAIN fs /\ ~IsDir(v.path) /\ v.deep = "dirs"
         THEN Then(<<>>) /\ UNCHANGED <<tb, req>>
         ELSE IF CannotAssociate(v.path) \/ (v.deep = "all" /\ req # NoRequest /\ ~IsDir(v.path)) THEN Error
         ELSE /\ tb' = associateOwned(tb, v.path, StatOf(v.path), v.owners, v.deep # "no")
              /\ Then(If(v.deep # "no" /\ IsDir(v.path), <<List(v.path, v.below, v.deep)>>))
              /\ UNCHANGED req
  /\ UNCHANGED reader /\ HolderOnly

DoList ==
  /\ Doing("list")
  /\ LET v == Head(todo)
         entries == InOrder({q \in Entries(v.path) : v.deep = "all" \/ IsDir(q)})
     IN  IF ~IsDir(v.path) THEN Error
         ELSE /\ Then([k \in DOMAIN entries |->
                         Visit(entries[k], StatOf(entries[k]), v.owners, IsDir(entries[k]), v.deep)])
              /\ UNCHANGED <<tb, req>>
  /\ UNCHANGED reader /\ HolderOnly

(* handleDirectory for AddWith: the children, then the directory itself.   *)
DoChildren ==
  /\ Doing("children")
  /\ LET v == Head(todo)
         entries == EntriesOf(v.path)
     IN  IF ~IsDir(v.path) THEN Error
         ELSE /\ Then([k \in DOMAIN entries |-> Visit(entries[k], StatOf(entries[k]), {req.name}, FALSE, "no")]
                       \o <<Visit(v.path, v.stat, {req.name}, TRUE, "no")>>)
              /\ UNCHANGED <<tb, req>>
  /\ UNCHANGED reader /\ HolderOnly

DoFinish ==
  /\ Doing("finish")
  /\ tb' = addUserWatch(tb, req.name, req.recurse)
  /\ todo' = <<>> /\ req' = NoRequest
  /\ UNCHANGED reader /\ HolderOnly

-----------------------------------------------------------------------------
(* readEvents.                                                             *)
-----------------------------------------------------------------------------
Get ==
  /\ reader = "run" /\ batch = <<>> /\ (todo = <<>> \/ req # NoRequest)
  /\ IF port = "closed" THEN reader' = "ended" /\ UNCHANGED <<tb, batch>>
     ELSE /\ tb.queue # <<>> /\ UNCHANGED reader
          /\ LET n == IF Len(tb.queue) < BatchLen THEN Len(tb.queue) ELSE BatchLen
             IN  batch' = SubSeq(tb.queue, 1, n) /\ tb' = [tb EXCEPT !.queue = SubSeq(@, n + 1, Len(@))]
  /\ UNCHANGED <<treeVars, todo, req, closed, port, at, calls, receiving, calm>>

(* Mutant: an event is handled although nobody owns its path any more. *)
HandleUntracked ==
  /\ reader = "run" /\ batch # <<>> /\ Unlocked
  /\ batch' = Tail(batch)
  /\ LET e == Head(batch)
     IN  IF closed \/ e.act # "modified" \/ e.path \notin DOMAIN fs THEN UNCHANGED <<tb, todo, reader>>
         ELSE /\ tb' = associateFileLocked(tb, e.path, StatOf(e.path))
              /\ reader' = "send" /\ UNCHANGED todo
  /\ UNCHANGED <<treeVars, req, closed, port, at, calls, receiving, calm>>

(* Mutant: a path that is gone when its event is handled is not dropped. *)
HandleKeepsGone ==
  /\ reader = "run" /\ batch # <<>> /\ Unlocked
  /\ batch' = Tail(batch)
  /\ LET e == Head(batch)
     IN  IF closed \/ e.path \notin DOMAIN tb.owners \/ e.act # "modified" \/ e.path \notin DOMAIN fs
         THEN UNCHANGED <<tb, todo, reader>>
         ELSE /\ tb' = associateFileLocked(tb, e.path, StatOf(e.path))
              /\ todo' = IF e.dir /\ e.path \in tb.dirs THEN <<Scan(e.path), Unlock>> ELSE <<>>
              /\ reader' = IF todo' = <<>> THEN "send" ELSE reader
  /\ UNCHANGED <<treeVars, req, closed, port, at, calls, receiving, calm>>

(* handleEventLocked as far as the new association; with no changes, an    *)
(* event that comes too late.                                              *)
Handle ==
  /\ reader = "run" /\ batch # <<>> /\ Unlocked
  /\ batch' = Tail(batch)
  /\ LET e == Head(batch)
         gone == e.act \in {"delete", "rename from", "rename to"}
     IN  IF closed \/ e.path \notin DOMAIN tb.owners THEN UNCHANGED <<tb, todo, reader>>
         ELSE IF gone
         THEN /\ tb' = dropPhysical(IF e.act = "rename from" /\ e.dir THEN rememberRename(tb, e.path) ELSE tb,
                                    e.path, e.act # "delete" /\ e.dir)
              /\ reader' = "send" /\ UNCHANGED todo
         ELSE IF e.path \notin DOMAIN fs
         THEN tb' = dropPhysical(tb, e.path, FALSE) /\ reader' = "send" /\ UNCHANGED todo
         ELSE /\ tb' = associateFileLocked(tb, e.path, StatOf(e.path))
              /\ IF e.dir /\ e.path \in tb.dirs
                 THEN todo' = <<Scan(e.path), Unlock>> /\ UNCHANGED reader
                 ELSE UNCHANGED todo /\ reader' = "send"
  /\ UNCHANGED <<treeVars, req, closed, port, at, calls, receiving, calm>>

(* updateDirectory: read the directory. *)
DoScan ==
  /\ Doing("scan")
  /\ LET p == Head(todo).path
     IN  Then([k \in DOMAIN EntriesOf(p) |-> Entry(EntriesOf(p)[k], p)])
  /\ UNCHANGED <<tb, req, reader>> /\ HolderOnly

(* One entry of it that is new; a directory is walked.                     *)
DoEntry ==
  /\ Doing("entry")
  /\ LET v == Head(todo)
         o == v.stat.obj
         owners == OwnersOf(tb, v.dir)
         recursive == recursiveOwnersFor(tb, v.dir)
     IN  IF PathIsWatched(tb, v.path) \/ (o.dir /\ tracksDirectory(tb, v.path, o))
         THEN Then(<<>>) /\ UNCHANGED tb
         ELSE IF o.dir /\ recursive # {}
         THEN IF Remembered(tb, o) # {}
              THEN tb' = takeRename(tb, o) /\ Then(<<Root(v.path, owners, recursive, "all")>>)
              ELSE UNCHANGED tb /\ Then(<<Root(v.path, owners, recursive, "dirs")>>)
         ELSE /\ Then(<<>>)
              /\ tb' = IF CannotAssociate(v.path) THEN tb
                       ELSE associateOwned(tb, v.path, v.stat, owners, FALSE)
  /\ UNCHANGED <<req, reader>> /\ HolderOnly

(* opsMu is released, and what was gathered is sent: to the consumer, or   *)
(* to nobody once the watcher is closed.                                   *)
DoUnlock ==
  /\ Doing("unlock")
  /\ todo' = <<>> /\ reader' = "send"
  /\ UNCHANGED <<tb, req>> /\ HolderOnly

(* Mutant: Close does not end the wait for a consumer. *)
SendUntilReceived ==
  /\ reader = "send" /\ receiving
  /\ reader' = "run"
  /\ UNCHANGED <<treeVars, tb, todo, req, batch, closed, port, at, calls, receiving, calm>>

Send ==
  /\ reader = "send" /\ (receiving \/ closed)
  /\ reader' = "run"
  /\ UNCHANGED <<treeVars, tb, todo, req, batch, closed, port, at, calls, receiving, calm>>

-----------------------------------------------------------------------------
(* Other processes, and the consumer.                                      *)
-----------------------------------------------------------------------------
(* What the objects of os were is not what they are. *)
MarkChanged(os) ==
  todo' = [k \in DOMAIN todo |-> IF todo[k].stat.obj \in os THEN [todo[k] EXCEPT !.stat.changed = TRUE]
                                 ELSE todo[k]]

Modified(t, ps) == Fire(t, {fs[p] : p \in ps \cap DOMAIN fs}, "modified")

(* Objects come to the paths ps.                                           *)
Takes(ps) ==
  calm' = /\ calm /\ ps \cap (DOMAIN tb.owners \cup Pending \cup Planned) = {}
          /\ req # NoRequest => \A p \in ps : OwnersOf(tb, Dir(p)) \subseteq {req.name}

TreeChanges ==
  /\ port = "open" \* afterwards nobody looks
  /\ \/ \E p \in Path, isDir \in BOOLEAN :
          Make(p, isDir) /\ Takes({p}) /\ tb' = Modified(tb, {Dir(p)}) /\ MarkChanged({fs[Dir(p)]})
     \/ \E p \in DOMAIN fs :
          /\ Unlink(p) /\ Takes({})
          /\ tb' = Modified(Fire(tb, {fs[p]}, "delete"), {Dir(p)})
          /\ MarkChanged({fs[q] : q \in {Dir(p)} \cap DOMAIN fs})
     \/ \E p \in DOMAIN fs, q \in Path :
          /\ Move(p, q) \/ Replace(p, q)
          /\ Takes(({p} \cap Pending) \cup {Rebased(x, p, q) : x \in {y \in DOMAIN fs : Under(y, p)}})
          /\ LET t == Fire(tb, {fs[y] : y \in {q} \cap DOMAIN fs}, "rename to")
             IN  tb' = Modified(Fire(t, {fs[p]}, "rename from"), {Dir(p), Dir(q)})
          /\ MarkChanged({fs[d] : d \in {Dir(p), Dir(q)} \cap DOMAIN fs})
     \/ \E p \in DOMAIN fs :
          Touch(p) /\ Takes({}) /\ tb' = Fire(tb, {fs[p]}, "modified") /\ MarkChanged({fs[p]})
  /\ UNCHANGED <<req, batch, reader, closed, port, at, calls, receiving>>

(* It makes a difference only while something is sent. *)
StopReceiving ==
  /\ reader = "send" /\ receiving /\ receiving' = FALSE
  /\ UNCHANGED <<treeVars, tb, todo, req, batch, reader, closed, port, at, calls, calm>>

-----------------------------------------------------------------------------
Init ==
  /\ TreeInit
  /\ tb = WatchesInit
  /\ todo = <<>> /\ req = NoRequest /\ batch = <<>> /\ reader = "run"
  /\ closed = FALSE /\ port = "open" /\ receiving = TRUE /\ calm = TRUE
  /\ at = [c \in Closers |-> "out"] /\ calls = 0

Holder == DoVisit \/ DoRoot \/ DoList \/ DoChildren \/ DoFinish \/ DoScan \/ DoEntry \/ DoUnlock
Reader == Get \/ Handle \/ Send
CloseStep(c) == ClosePort(c) \/ CloseReturn(c)

Next ==
  \/ Holder \/ Reader
  \/ \E c \in Closers : CloseFlag(c) \/ CloseStep(c)
  \/ \E p \in PlainPaths : AddWith(p, FALSE) \/ RemoveWatch(p, FALSE)
  \/ \E p \in RecursivePaths : AddWith(p, TRUE) \/ RemoveWatch(p, TRUE)
  \/ TreeChanges \/ StopReceiving

Spec == Init /\ [][Next]_vars
=============================================================================
