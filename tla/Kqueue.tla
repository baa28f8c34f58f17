------------------------------- MODULE Kqueue -------------------------------
(***************************************************************************)
(* The kqueue backend (backend_kqueue.go): goroutines that call AddWith,   *)
(* Remove and Close, one at a time since they hold opsMu, and readEvents,  *)
(* which does not hold it, over a tree that other processes change.  Each  *)
(* of the two works through a list of pieces: the visits of a walk, the    *)
(* entries of a directory, what there is to be removed.  A piece is what   *)
(* the goroutine does with the mutex of the tables.  What is done with     *)
(* watchMu takes several steps, since readEvents renames paths without     *)
(* that lock: byPath and the system calls, and then each of the tables.    *)
(* An addOwner and the markSeen after it are one step.                     *)
(***************************************************************************)
EXTENDS KqueueWatches

CONSTANTS
  Closers,        \* goroutines that may call Close
  PlainPaths,     \* paths that are added without "/..."
  RecursivePaths, \* paths that are added with "/..."
  MaxCalls,       \* bound on the calls of AddWith, Remove and Close
  BatchLen        \* events one kevent() returns: 10 in the code

ASSUME KqueueAssumption ==
  /\ PlainPaths \cup RecursivePaths \subseteq Path
  /\ MaxCalls \in Nat /\ BatchLen \in Nat \ {0}

VARIABLES
  tb,      \* tables and descriptors: see KqueueWatches
  todo,    \* "user", "reader" -> what it has still to do
  req,     \* the path AddWith has to roll back
  lock,    \* who holds watchMu, and what it does to which path and descriptor
  found,   \* the directory that readEvents has found to be renamed, and not yet rebased
  batch,   \* [wd, notes] that kevent() has returned and readEvents has not handled
  reader,  \* "run" or "ended"
  closed,  \* shared.done is closed
  pipe,    \* the end of closepipe that Close closes: "open" or "closed"
  at,      \* closer -> where it is in Close
  calls,   \* calls made
  calm,    \* a record of the past, for the properties: see Takes
  escaped, \* another: readEvents added a path that Close could not list any more
  crossed  \* another: it renamed a path that a caller had looked up under watchMu

vars == <<treeVars, tb, todo, req, lock, found, batch, reader, closed, pipe, at, calls, calm, escaped, crossed>>

Unlocked == todo["user"] = <<>>
Goroutine == {"user", "reader"}
Doing(g, what) == todo[g] # <<>> /\ Head(todo[g]).do = what
Holds(g, what, p, fd) == [by |-> g, what |-> what, path |-> p, fd |-> fd]
Found(p, old, us, owners) == [path |-> p, old |-> old, us |-> us, owners |-> owners]
Nothing == Found(<<>>, <<>>, {}, {})
Unheld == Holds("nobody", "nothing", <<>>, 0)

(* Where a dirChange ends, and an entry readEvents itself looks at: what   *)
(* fails goes on there.                                                    *)
ScanEnds == [do |-> "scan ends", path |-> <<>>]
EntryEnds == [do |-> "entry ends", path |-> <<>>]
Ends == {ScanEnds, EntryEnds}
Skip(pieces) == IF pieces # <<>> /\ Head(pieces) \in Ends THEN Tail(pieces) ELSE pieces
Then(g, pieces) == todo' = [todo EXCEPT ![g] = Skip(pieces \o Tail(@))]
Rest(pieces, done) == Skip(SubSeq(pieces, SelectInSeq(pieces, LAMBDA v : v.do \notin done), Len(pieces)))
If(condition, pieces) == IF condition THEN pieces ELSE <<>>

(* Pieces of work.  how says what is asked for and what follows:           *)
(*   all     every event, not only the end of the object                   *)
(*   owners  who will own the path; tree: and what is watched below it     *)
(*   next    "walk" what is below it, watch the "files" in it, or "no"     *)
(*   root    of the walk: "added" by AddWith, "found" in a directory       *)
Stat(p, how) == [do |-> "stat", path |-> p, how |-> how]
Watch(p, how) == [do |-> "watch", path |-> p, how |-> how]
Own(p, how, dir) == [do |-> "own", path |-> p, how |-> how, dir |-> dir]
List(p, how) == [do |-> "list", path |-> p, how |-> how]
Remove_(p) == [do |-> "remove", path |-> p]
Forget(p) == [do |-> "forget", path |-> p]
Drop(p, files) == [do |-> "drop", path |-> p, files |-> files]
Finish(p) == [do |-> "finish", path |-> p]
Pipe == [do |-> "pipe", path |-> <<>>]
Scan(p) == [do |-> "scan", path |-> p]
Entry(p, owner) == [do |-> "entry", path |-> p, dir |-> owner]
Track(p, isDir, isNew, owners) ==
  [do |-> "track", path |-> p, isDir |-> isDir, isNew |-> isNew, owners |-> owners]
Again(p) == [do |-> "again", path |-> p]
Created == [do |-> "created", path |-> <<>>]
Send == [do |-> "send", path |-> <<>>]

Walk(us, root) == [all |-> TRUE, owners |-> us, tree |-> FALSE, next |-> "walk", root |-> root]
Plain == [all |-> TRUE, owners |-> {}, tree |-> FALSE, next |-> "files", root |-> "no"]

(* internalWatch: a directory is asked for what it is known to be asked    *)
(* for already.                                                            *)
Internal(p, isDir, us, tree) ==
  [all |-> ~isDir \/ (Watched(tb, p) /\ byPath(tb, p).all), owners |-> us, tree |-> tree,
   next |-> "no", root |-> "no"]

(* ps, the longest first. *)
Longest(ps) ==
  LET Before(p, q) == Len(p) > Len(q) \/ (Len(p) = Len(q)
        /\ \E k \in DOMAIN p : p[k] < q[k] /\ \A j \in 1..(k - 1) : p[j] = q[j])
  IN  [k \in 1..Cardinality(ps) |-> CHOOSE p \in ps : Cardinality({q \in ps : Before(q, p)}) = k - 1]
EntriesOf(p) == IF IsDir(p) THEN SetToSortSeq(Entries(p), LAMBDA a, b : Last(a) < Last(b)) ELSE <<>>
Each(ps, Do(_)) == [k \in DOMAIN ps |-> Do(ps[k])]

-----------------------------------------------------------------------------
(* AddWith, Remove and Close.                                              *)
-----------------------------------------------------------------------------
CallOnly == UNCHANGED <<treeVars, lock, found, batch, reader, pipe, escaped, crossed>>
CanCall == Unlocked /\ ~closed /\ calls < MaxCalls /\ calls' = calls + 1

(* What is handled neither by kevent() nor by readEvents. *)
Pending == {tb.wd[f].name : f \in {g \in DOMAIN tb.wd \cap DOMAIN tb.open : tb.open[g].notes # {}}}
           \cup {tb.wd[batch[k].wd].name : k \in {j \in DOMAIN batch : batch[j].wd \in DOMAIN tb.wd}}
           \cup ({todo["reader"][k].path : k \in DOMAIN todo["reader"]} \ {<<>>})

(* Nothing is to be handled. *)
Idle == reader = "run" /\ todo["reader"] = <<>>
Still == Idle /\ batch = <<>> /\ tb.queue = <<>>

AddWith(p, rec) ==
  /\ CanCall /\ p \notin tb.byUser
  /\ req' = IF rec THEN p ELSE <<>>
  /\ todo' = [todo EXCEPT !["user"] = IF rec THEN <<Stat(p, Walk({p}, "added"))>> ELSE <<Watch(p, Plain), Finish(p)>>]
  /\ calm' = (calm /\ Still)
  /\ UNCHANGED <<tb, closed, at>> /\ CallOnly

RemoveWatch(p, rec) ==
  /\ CanCall
  /\ p \in tb.byUser /\ (rec => p \in tb.recurse)
  /\ tb' = releaseOwner(tb, p)
  /\ todo' = [todo EXCEPT !["user"] = Each(Longest(Unused(tb')), Remove_)]
  /\ calm' = (calm /\ Still)
  /\ UNCHANGED <<req, closed, at>> /\ CallOnly

(* The first one lists the paths, in no order, and drops what it has listed. *)
Close(c) ==
  /\ at[c] = "out" /\ Unlocked /\ calls < MaxCalls /\ calls' = calls + 1
  /\ closed' = TRUE /\ at' = [at EXCEPT ![c] = "wait"]
  /\ todo' = [todo EXCEPT !["user"] = IF closed THEN <<>>
                ELSE Each(SetToSeq(listPaths(tb)), LAMBDA p : Drop(p, TRUE)) \o <<Pipe>>]
  /\ UNCHANGED <<tb, req, calm>> /\ CallOnly

CloseReturn(c) ==
  /\ at[c] = "wait" /\ Unlocked /\ reader = "ended"
  /\ at' = [at EXCEPT ![c] = "returned"]
  /\ UNCHANGED <<tb, todo, req, closed, calls, calm>> /\ CallOnly

-----------------------------------------------------------------------------
(* What both goroutines do.                                                *)
-----------------------------------------------------------------------------
WorkOnly == UNCHANGED <<treeVars, req, batch, closed, pipe, at, calls, calm>>
TablesOnly == WorkOnly /\ UNCHANGED <<lock, found, reader, escaped, crossed>>

(* The end of an AddWith that fails: the recursive one takes back what it  *)
(* has registered.  A scan that fails is given up, and what is no error of *)
(* a vanished file is reported.                                            *)
Fail(g, reported) ==
  IF g = "user"
  THEN /\ tb' = releaseOwner(tb, req)
       /\ todo' = [todo EXCEPT ![g] = If(req # <<>>, Each(Longest(Unused(tb')), Remove_))]
  ELSE /\ todo' = [todo EXCEPT ![g] =
            LET end == SelectInSeq(@, LAMBDA piece : piece \in Ends)
            IN  If(reported \/ @[end] = EntryEnds, <<Send>>) \o SubSeq(@, end + 1, Len(@))]
       /\ UNCHANGED tb

(* The stat before a call that watches.  The root of a recursive AddWith   *)
(* must be a directory.                                                    *)
DoStat(g) ==
  /\ Doing(g, "stat")
  /\ LET v == Head(todo[g])
         p == v.path
         added == v.how.root = "added"
     IN  IF p \notin DOMAIN fs \/ (added /\ ~IsDir(p)) THEN Fail(g, FALSE)
         ELSE /\ Then(g, <<Watch(p, IF added THEN v.how ELSE Internal(p, IsDir(p), v.how.owners, FALSE))>>)
              /\ UNCHANGED tb
  /\ TablesOnly

(* addWatchDescriptor as far as the kernel.  Of what has vanished since    *)
(* its stat AddWith knows the name.                                        *)
LookUp(g) ==
  /\ Doing(g, "watch") /\ lock = Unheld /\ ~closed
  /\ LET v == Head(todo[g])
         p == v.path
         watched == Watched(tb, p)
         fd == IF watched THEN tb.path[p] ELSE NewFd(tb)
     IN  IF watched \/ p \in DOMAIN fs
         THEN /\ tb' = IF watched THEN Asked(tb, fd, v.how.all) ELSE Opened(tb, p, v.how.all)
              /\ lock' = Holds(g, IF watched THEN "ask" ELSE "open", p, fd)
              /\ UNCHANGED todo
         ELSE /\ IF g = "user" /\ v.how.next = "no" THEN tb' = markSeen(tb, p) /\ Then(g, <<>>) ELSE Fail(g, FALSE)
              /\ UNCHANGED lock
  /\ UNCHANGED <<found, reader, escaped, crossed>> /\ WorkOnly

(* A new descriptor comes into the tables.  What readEvents adds after     *)
(* Close has made its list escapes.                                        *)
DoAdd(g) ==
  /\ Doing(g, "watch") /\ lock.by = g /\ lock.what = "open"
  /\ tb' = add(tb, lock.path, lock.fd)
  /\ lock' = Holds(g, "ask", lock.path, lock.fd)
  /\ escaped' = (escaped \/ closed)
  /\ UNCHANGED <<todo, found, reader, crossed>> /\ WorkOnly

(* The end of addWatchDescriptor.  A directory that has no path any more   *)
(* is given to nobody.  A walk reads what it knows to be a directory, even *)
(* if a file has its path by then.                                         *)
DoFlags(g) ==
  /\ Doing(g, "watch") /\ lock.by = g /\ lock.what = "ask"
  /\ LET v == Head(todo[g])
         isDir == tb.open[lock.fd].obj.dir
         scan == ~tb.wd[lock.fd].all
         gone == isDir /\ lock.path \notin DOMAIN tb.path
         how == IF gone THEN [v.how EXCEPT !.owners = {}] ELSE v.how
         list == IF how.next = "walk" THEN isDir \/ how.root # "found" ELSE isDir /\ (how.next = "files" => scan)
     IN  /\ tb' = IF isDir THEN updateDirFlags(tb, lock.path, v.how.all) ELSE tb
         /\ Then(g, If(gone => how.next = "walk", <<Own(lock.path, how, list)>>))
  /\ lock' = Unheld
  /\ UNCHANGED <<found, reader, escaped, crossed>> /\ WorkOnly

DoOwn(g) ==
  /\ Doing(g, "own")
  /\ LET v == Head(todo[g])
         t == IF v.how.tree THEN addOwnerTree(tb, v.path, v.how.owners, v.dir)
              ELSE IF v.how.owners = {} THEN tb ELSE addOwners(tb, {v.path}, v.how.owners)
         t1 == IF v.how.next = "files" THEN t ELSE markSeen(t, v.path)
     IN  /\ tb' = IF v.how.root = "added" THEN [addUserWatch(t1, v.path) EXCEPT !.recurse = @ \cup {v.path}] ELSE t1
         /\ Then(g, If(v.dir /\ v.how.next # "no", <<List(v.path, v.how)>>))
  /\ TablesOnly

(* The next directory of a walk, or watchDirectoryFiles. *)
DoList(g) ==
  /\ Doing(g, "list")
  /\ LET v == Head(todo[g])
         walk == v.how.next = "walk"
         Below(q) == IF walk /\ IsDir(q) THEN Watch(q, [v.how EXCEPT !.root = "no"])
                     ELSE Stat(q, [v.how EXCEPT !.root = "no", !.next = "no"])
     IN  IF ~IsDir(v.path) THEN Fail(g, FALSE) ELSE Then(g, Each(EntriesOf(v.path), Below)) /\ UNCHANGED tb
  /\ TablesOnly

(* remove2 as far as close; remove does nothing once the watcher is        *)
(* closed, and Close itself removes without asking.                        *)
Shut(g) ==
  /\ lock = Unheld /\ \E what \in {"remove", "forget", "drop"} : Doing(g, what)
  /\ LET v == Head(todo[g])
     IN  IF Watched(tb, v.path) /\ (closed => v.do = "drop")
         THEN /\ tb' = Closed(tb, tb.path[v.path])
              /\ lock' = Holds(g, "close", v.path, tb.path[v.path])
              /\ UNCHANGED todo
         ELSE /\ tb' = IF v.do = "forget" THEN [tb EXCEPT !.seen = @ \ {v.path}] ELSE tb
              /\ Then(g, <<>>) /\ UNCHANGED lock
  /\ UNCHANGED <<found, reader, escaped, crossed>> /\ WorkOnly

(* The rest of it; for Close, with the files of a directory. *)
Unregister(g) ==
  /\ lock.by = g /\ lock.what = "close" /\ \E what \in {"remove", "forget", "drop"} : Doing(g, what)
  /\ tb' = remove(tb, lock.fd, lock.path)
  /\ LET v == Head(todo[g])
     IN  Then(g, If(v.do = "drop" /\ v.files /\ tb.wd[lock.fd].obj.dir,
                    Each(SetToSeq(watchesInDir(tb', lock.path)), LAMBDA p : Drop(p, FALSE))))
  /\ lock' = Unheld
  /\ UNCHANGED <<found, reader, escaped, crossed>> /\ WorkOnly

-----------------------------------------------------------------------------
(* The end of AddWith without "/...", and of Close.                        *)
-----------------------------------------------------------------------------
DoFinish ==
  /\ Doing("user", "finish")
  /\ LET p == Head(todo["user"]).path
     IN  tb' = addOwnerTree(addUserWatch(tb, p), p, {p}, FALSE)
  /\ Then("user", <<>>)
  /\ TablesOnly

DoPipe ==
  /\ Doing("user", "pipe")
  /\ pipe' = "closed" /\ Then("user", <<>>)
  /\ UNCHANGED <<treeVars, tb, req, lock, found, batch, reader, closed, at, calls, calm, escaped, crossed>>

-----------------------------------------------------------------------------
(* readEvents.                                                             *)
-----------------------------------------------------------------------------
(* What comes after the end of the pipe is not handled. *)
Read ==
  /\ Idle /\ batch = <<>>
  /\ \/ pipe = "closed" /\ reader' = "ended" /\ UNCHANGED <<tb, batch>>
     \/ /\ tb.queue # <<>> /\ UNCHANGED reader
        /\ LET n == IF Len(tb.queue) < BatchLen THEN Len(tb.queue) ELSE BatchLen
           IN  /\ batch' = [k \in 1..n |-> [wd |-> tb.queue[k], notes |-> tb.open[tb.queue[k]].notes]]
               /\ tb' = [tb EXCEPT !.queue = SubSeq(@, n + 1, Len(@)),
                           !.open = [f \in DOMAIN @ |-> IF \E k \in 1..n : tb.queue[k] = f
                                                        THEN [@[f] EXCEPT !.notes = {}] ELSE @[f]]]
  /\ UNCHANGED <<treeVars, todo, req, lock, found, closed, pipe, at, calls, calm, escaped, crossed>>

(* The removals an event asks for, the scan, and what is sent: nothing of  *)
(* a directory that was only written to.  After a removal another object   *)
(* may have the path.                                                      *)
Handle ==
  /\ Idle /\ batch # <<>>
  /\ batch' = Tail(batch)
  /\ LET e == Head(batch)
         w == tb.wd[e.wd]
         skipped == w.skip /\ "rename" \in e.notes
         notes == IF skipped THEN e.notes \ {"rename"} ELSE e.notes
         t == IF skipped THEN consumeSkippedRename(tb, e.wd) ELSE tb
         renamed == "rename" \in notes
         deleted == "delete" \in notes
     IN  IF e.wd \notin DOMAIN tb.wd THEN UNCHANGED <<tb, todo>>
         ELSE IF notes = {} THEN tb' = t /\ UNCHANGED todo
         ELSE /\ tb' = IF renamed /\ w.obj.dir THEN removeRootsUnder(t, w.name) ELSE t
              /\ todo' = [todo EXCEPT !["reader"] =
                   (IF renamed /\ w.obj.dir THEN Each(Longest({p \in DOMAIN tb.path : Under(p, w.name)}), Forget)
                    ELSE If(renamed \/ deleted, <<Forget(w.name)>>))
                   \o If(w.obj.dir /\ "write" \in notes /\ ~deleted, <<Scan(w.name), ScanEnds>>)
                   \o If(w.obj.dir => notes # {"write"}, <<Send>>)
                   \o If(deleted, IF w.obj.dir THEN <<Again(w.name), ScanEnds>>
                                  ELSE <<Entry(w.name, Dir(w.name)), EntryEnds>>)]
  /\ UNCHANGED <<treeVars, req, lock, found, reader, closed, pipe, at, calls, calm, escaped, crossed>>

DoAgain ==
  /\ Doing("reader", "again")
  /\ LET p == Head(todo["reader"]).path IN Then("reader", If(Watched(tb, p), <<Scan(p)>>))
  /\ UNCHANGED tb /\ TablesOnly

(* dirChange. *)
DoScan ==
  /\ Doing("reader", "scan")
  /\ LET p == Head(todo["reader"]).path
     IN  Then("reader", Each(EntriesOf(p), LAMBDA q : Entry(q, p)))
  /\ UNCHANGED tb /\ TablesOnly

(* sendCreateIfNew as far as the event it sends, or as rebase. *)
DoEntry ==
  /\ Doing("reader", "entry") /\ found = Nothing
  /\ LET v == Head(todo["reader"])
         p == v.path
         isNew == p \notin tb.seen
         owners == OwnersOf(tb, v.dir)
     IN  \/ /\ p \notin DOMAIN fs
            /\ todo' = [todo EXCEPT !["reader"] = Rest(@, {"entry"})] /\ UNCHANGED found
         \/ /\ p \in DOMAIN fs /\ isNew /\ isUnderRecurse(tb, p)
            /\ \E old \in RenamedFrom(tb, p, fs[p]) : found' = Found(p, old, recursiveOwnersFor(tb, p), owners)
            /\ UNCHANGED todo
         \/ /\ p \in DOMAIN fs /\ ~(isNew /\ isUnderRecurse(tb, p) /\ RenamedFrom(tb, p, fs[p]) # {})
            /\ Then("reader", If(isNew \/ ~Watched(tb, p) \/ byPath(tb, p).obj = fs[p],
                                 If(isNew, <<Created>>) \o <<Track(p, fs[p].dir, isNew, owners)>>))
            /\ UNCHANGED found
  /\ UNCHANGED <<tb, lock, reader, escaped, crossed>> /\ WorkOnly

(* What p leads to, if anything. *)
Leads(t, p) == {t.path[q] : q \in {p} \cap DOMAIN t.path}

(* rebase asks neither for opsMu nor for watchMu: the path it renames may  *)
(* be one that Close has listed, or one that a caller opens or closes.     *)
DoRebase ==
  /\ Doing("reader", "entry") /\ found # Nothing /\ found' = Nothing
  /\ LET p == found.path
     IN  IF found.old \in DOMAIN tb.path /\ CanRebase(tb, found.old, p)
         THEN /\ tb' = rebase(tb, found.old, p, found.us)
              /\ Then("reader", Each(Longest(Unused(tb')), Remove_) \o <<Created, Created>>)
         ELSE Then("reader", <<Created, Track(p, TRUE, TRUE, found.owners)>>) /\ UNCHANGED tb
  /\ escaped' = (escaped \/ (closed /\ tb'.path # tb.path))
  /\ crossed' = (crossed \/ (lock.what \in {"open", "close"} /\ Leads(tb, lock.path) # Leads(tb', lock.path)))
  /\ UNCHANGED <<lock, reader>> /\ WorkOnly

(* The rest of it: a new directory is walked, another entry watched. *)
DoTrack ==
  /\ Doing("reader", "track")
  /\ LET v == Head(todo["reader"])
     IN  Then("reader", <<Watch(v.path, IF v.isNew /\ v.isDir /\ isUnderRecurse(tb, v.path)
                                        THEN Walk(recursiveOwnersFor(tb, v.path), "found")
                                        ELSE Internal(v.path, v.isDir, v.owners, TRUE))>>)
  /\ UNCHANGED tb /\ TablesOnly

(* Once the watcher is closed: addWatchDescriptor fails.  A directory that *)
(* is found in a walk is sent first, and passed over if that fails.        *)
ReaderRefused ==
  /\ Doing("reader", "watch") /\ lock = Unheld /\ closed
  /\ LET v == Head(todo["reader"])
     IN  \/ Fail("reader", TRUE)
         \/ v.how.next = "walk" /\ v.how.root = "no" /\ Then("reader", <<List(v.path, v.how)>>) /\ UNCHANGED tb
  /\ TablesOnly

(* An event or error of readEvents.  A closed watcher may still deliver    *)
(* it, or end readEvents.                                                  *)
DoSend ==
  /\ Doing("reader", "send")
  /\ \/ Then("reader", <<>>) /\ UNCHANGED reader
     \/ closed /\ reader' = "ended" /\ todo' = [todo EXCEPT !["reader"] = <<>>]
  /\ UNCHANGED <<tb, lock, found, escaped, crossed>> /\ WorkOnly

(* An event of sendCreateIfNew, which otherwise has no more to do.         *)
DoCreated ==
  /\ Doing("reader", "created")
  /\ \/ Then("reader", <<>>)
     \/ closed /\ todo' = [todo EXCEPT !["reader"] = Rest(@, {"created", "track"})]
  /\ UNCHANGED tb /\ TablesOnly

-----------------------------------------------------------------------------
(* Other processes.                                                        *)
-----------------------------------------------------------------------------
(* Objects leave the paths from and come to the paths to.                  *)
Takes(from, to) ==
  calm' = (calm /\ Unlocked /\ \A p \in from \cup to, q \in Pending : ~Under(q, p))

(* The notes of one call come in the one or the other order. *)
Happens(ofObjects, ofDirs) ==
  \/ tb' = Fire(tb, ofObjects \o ofDirs)
  \/ tb' = Fire(tb, ofDirs \o ofObjects)

Written(ds) == Each(SetToSeq({fs[d] : d \in ds \cap DOMAIN fs}), LAMBDA o : <<o, "write">>)

TreeChanges ==
  /\ fsOps < MaxFsOps
  /\ \/ \E p \in Path, isDir \in BOOLEAN :
          Make(p, isDir) /\ Takes({}, {p}) /\ Happens(<<>>, Written({Dir(p)}))
     \/ \E p \in DOMAIN fs :
          Unlink(p) /\ Takes({p}, {}) /\ Happens(<<<<fs[p], "delete">>>>, Written({Dir(p)}))
     \/ \E p \in DOMAIN fs, q \in Path :
          /\ Move(p, q) \/ Replace(p, q)
          /\ Takes({p}, {q})
          /\ Happens(<<<<fs[p], "rename">>>> \o If(q \in DOMAIN fs, <<<<fs[q], "delete">>>>), Written({Dir(p), Dir(q)}))
  /\ UNCHANGED <<todo, req, lock, found, batch, reader, closed, pipe, at, calls, escaped, crossed>>

-----------------------------------------------------------------------------
Init ==
  /\ TreeInit
  /\ tb = WatchesInit
  /\ todo = [g \in Goroutine |-> <<>>] /\ req = <<>> /\ lock = Unheld /\ found = Nothing /\ batch = <<>>
  /\ reader = "run" /\ closed = FALSE /\ pipe = "open"
  /\ at = [c \in Closers |-> "out"] /\ calls = 0 /\ calm = TRUE /\ escaped = FALSE /\ crossed = FALSE

Work == \E g \in Goroutine :
  DoStat(g) \/ LookUp(g) \/ DoAdd(g) \/ DoFlags(g) \/ DoOwn(g) \/ DoList(g) \/ Shut(g) \/ Unregister(g)
User == DoFinish \/ DoPipe
Reader ==
  \/ Read \/ Handle \/ DoAgain \/ DoScan \/ DoEntry \/ DoRebase \/ DoTrack
  \/ ReaderRefused \/ DoSend \/ DoCreated

Next ==
  \/ Work \/ User \/ Reader
  \/ \E c \in Closers : Close(c) \/ CloseReturn(c)
  \/ \E p \in PlainPaths : AddWith(p, FALSE) \/ RemoveWatch(p, FALSE)
  \/ \E p \in RecursivePaths : AddWith(p, TRUE) \/ RemoveWatch(p, TRUE)
  \/ TreeChanges

Spec == Init /\ [][Next]_vars
=============================================================================
