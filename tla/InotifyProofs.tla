---------------------------- MODULE InotifyProofs ----------------------------
(***************************************************************************)
(* What holds of the inotify backend in every reachable state, whatever    *)
(* users, the file tree, the kernel and the reader do.  The inductive      *)
(* invariants, each resting on those before it:                            *)
(*   SoundTables  users, owners, paths and the walk under way fit together; *)
(*   GrownTables  undoing a walk restores what it began with;              *)
(*   Shut         nothing can fill the tables of a closed watcher;         *)
(*   RightTables  (and WdsSound) the flags are right, path and wd inverse; *)
(*   EventsSound  an event that ends a watch names one that is gone for good;*)
(*   UsersListed  a user that is not under way owns its own path;          *)
(*   WatchedIsOwned  what is watched is owned (if no step strands it);    *)
(*   TreeSound, EventsNamed, TablesNamed  the tree is one, and what the    *)
(*                events and the tables name is made of its names.         *)
(* Each has a lemma per step of Next, and the theorems follow from them.   *)
(***************************************************************************)
EXTENDS InotifyTableProofs, FiniteSetTheorems

-----------------------------------------------------------------------------
(* What a walk has left to do.                                             *)
-----------------------------------------------------------------------------
LEMMA TodoIsSound ==
  ASSUME NEW us, NEW S, NEW s \in Seq(S),
         \A i \in S : IsPath(i.path) /\ \A u \in us : Under(i.path, u)
  PROVE  TodoSound(s, us)
BY SeqOfRange, RangeOfSeq DEF TodoSound

(* The first entry is done and others take its place. *)
LEMMA TodoGoesOn ==
  ASSUME NEW us, NEW a, NEW b, TodoSound(a, us), TodoSound(b, us), b # <<>>
  PROVE  TodoSound(a \o Tail(b), us)
<1> DEFINE S == Range(a) \cup Range(b)
<1>1. a \in Seq(S) /\ b \in Seq(S)
  BY SeqMonotonic DEF TodoSound
<1>2. Tail(b) \in Seq(S)
  BY <1>1, HeadTailProperties
<1>3. a \o Tail(b) \in Seq(S)
  BY <1>1, <1>2, ConcatProperties
<1>4. \A i \in S : IsPath(i.path) /\ \A u \in us : Under(i.path, u)
  BY DEF TodoSound
<1> HIDE DEF S
<1> QED BY <1>3, <1>4, TodoIsSound

LEMMA OneTodoIsSound ==
  ASSUME NEW us, NEW what, NEW p, IsPath(p), \A u \in us : Under(p, u)
  PROVE  TodoSound(<<[do |-> what, path |-> p]>>, us)
<1> DEFINE S == {[do |-> what, path |-> p]}
<1>1. <<[do |-> what, path |-> p]>> \in Seq(S)
  OBVIOUS
<1>2. \A i \in S : IsPath(i.path) /\ \A u \in us : Under(i.path, u)
  OBVIOUS
<1> HIDE DEF S
<1> QED BY <1>1, <1>2, TodoIsSound

(* A path is below itself. *)
LEMMA UnderItself ==
  ASSUME NEW p, IsPath(p)
  PROVE  Under(p, p)
<1>1. Len(p) \in Nat /\ SubSeq(p, 1, Len(p)) = p
  BY LenProperties DEF IsPath
<1> QED BY <1>1 DEF Under

(* The entry the walk is at. *)
LEMMA HeadOfTodo ==
  ASSUME NEW w, NEW t, WalkSound(w, t), w # NoWalk
  PROVE  IsPath(Head(w.todo).path) /\ \A u \in w.owners : Under(Head(w.todo).path, u)
BY HeadTailProperties DEF WalkSound, TodoSound

(* The directories in one below the roots are below the roots. *)
LEMMA SubDirsSound ==
  ASSUME NEW us, NEW p, IsPath(p), \A u \in us : IsPath(u) /\ Under(p, u)
  PROVE  TodoSound(SubDirs(p), us)
<1> DEFINE names == {n \in Names : IsDir(Join(p, n))}
           N     == Cardinality(names)
           Rank(n) == Cardinality({m \in names : m <= n})
           Child(k) == Visit(Join(p, CHOOSE n \in names : Rank(n) = k))
           S     == {Child(k) : k \in 1..N}
<1>1. N \in Nat
  BY FS_Subset, FS_CardinalityType, KernelAssumption
<1>2. SubDirs(p) = [k \in 1..N |-> Child(k)]
  BY DEF SubDirs
<1>3. \A k : IsPath(Child(k).path) /\ \A u \in us : Under(Child(k).path, u)
  BY JoinIsPath, JoinUnder DEF Visit
<1> HIDE DEF N, Child
<1>4. SubDirs(p) \in Seq(S)
  BY <1>1, <1>2
<1> QED BY <1>3, <1>4, TodoIsSound

(* A walk that begins, or goes on. *)
LEMMA WalkBegins ==
  ASSUME NEW by, NEW p, NEW us, NEW t, NEW before,
         IsPath(p), us \subseteq t.recurse, \A u \in us : Under(p, u)
  PROVE  WalkSound(Walk(by, p, us, before), t)
<1>1. TodoSound(<<Visit(p)>>, us) /\ <<Visit(p)>> # <<>>
  BY OneTodoIsSound DEF Visit
<1> QED BY <1>1 DEF WalkSound, Walk

LEMMA WalkGoesOn ==
  ASSUME NEW w, NEW v, NEW todo, NEW t, WalkSound(w, t), w # NoWalk,
         TodoSound(todo, w.owners),
         v = IF todo = <<>> THEN NoWalk ELSE [w EXCEPT !.todo = todo]
  PROVE  WalkSound(v, t)
BY DEF WalkSound

-----------------------------------------------------------------------------
(* Steps.                                                                  *)
-----------------------------------------------------------------------------
(* The new table of a step that begins no walk and needs none to end.      *)
LEMMA TablesStay ==
  ASSUME SoundTables, TableSound(tbl'), walk = NoWalk, walk' = NoWalk,
         \A c \in DOMAIN pending' : IsPath(pending'[c])
  PROVE  SoundTables'
BY DEF SoundTables, WalkSound

LEMMA NothingStays ==
  ASSUME SoundTables, UNCHANGED <<tbl, walk, pending>>
  PROVE  SoundTables'
BY DEF SoundTables

(* A path of the model is a path. *)
LEMMA ModelPath ==
  ASSUME NEW p \in Path
  PROVE  IsPath(p)
<1>1. PICK n \in 1..MaxDepth : p \in [1..n -> Names]
  BY DEF Path, PathsUpTo
<1>2. p \in Seq(Names)
  BY <1>1
<1> QED BY <1>2, SeqIsPath

LEMMA InitSound == Init => SoundTables
<1> SUFFICES ASSUME Init PROVE SoundTables
  OBVIOUS
<1>1. tbl = newWatches /\ walk = NoWalk /\ pending = NoFunction
  BY DEF Init, BackendInit
<1>2. DOMAIN NoFunction = {}
  BY DEF NoFunction
<1>3. TableSound(newWatches)
  BY <1>2 DEF newWatches, TableSound, IsTable, UsersSound, PathsSound, OwnersSound, OwnedIsListed
<1> QED BY <1>1, <1>2, <1>3 DEF SoundTables, WalkSound

(* AddWith, without "/...". *)
LEMMA AddPlainSound ==
  ASSUME SoundTables, NEW p \in PlainPaths, AddPlain(p)
  PROVE  SoundTables'
<1> DEFINE t  == addUser(tbl, p, FALSE)
           t1 == register(t, p, WdFor(p), {p})
<1>1. IsPath(p) /\ p \notin tbl.byUser /\ TableSound(tbl) /\ walk = NoWalk
  BY ModelPath, BackendAssumption DEF AddPlain, SoundTables, MuFree, Walking
<1>2. TableSound(t) /\ p \in t.byUser /\ p \notin t.recurse
  <2>1. /\ TableSound(t) /\ t.byUser = tbl.byUser \cup {p}
        /\ t.recurse = IF FALSE THEN tbl.recurse \cup {p} ELSE tbl.recurse
    BY <1>1, AddUserSound, Zenon
  <2> HIDE DEF t
  <2> QED BY <1>1, <2>1 DEF TableSound, UsersSound
<1>3. pending' = pending /\ walk' = walk
  BY DEF AddPlain, ReaderQuiet
<1>4. \/ tbl' = t1 \/ tbl' = releaseOwner(t1, p).tbl \/ tbl' = releaseOwner(t, p).tbl
  BY DEF AddPlain, ReleaseUser
<1> HIDE DEF t
<1>5. TableSound(t1)
  BY <1>1, <1>2, RegisterSound DEF Owns
<1> HIDE DEF t1
<1>6. TableSound(tbl')
  BY <1>2, <1>4, <1>5, ReleaseOwnerSound
<1> QED BY <1>1, <1>3, <1>6, TablesStay DEF SoundTables

(* AddWith, with "/...": its walk is for the root it has just added. *)
LEMMA AddRecursiveSound ==
  ASSUME SoundTables, NEW p \in RecursivePaths, AddRecursive(p)
  PROVE  SoundTables'
<1> DEFINE t == addUser(tbl, p, TRUE)
<1>1. IsPath(p) /\ p \notin tbl.byUser /\ TableSound(tbl) /\ walk = NoWalk
  BY ModelPath, BackendAssumption DEF AddRecursive, SoundTables, MuFree, Walking
<1>2. TableSound(t) /\ p \in t.recurse
  <2>1. TableSound(t) /\ t.recurse = IF TRUE THEN tbl.recurse \cup {p} ELSE tbl.recurse
    BY <1>1, AddUserSound, Zenon
  <2> HIDE DEF t
  <2> QED BY <2>1
<1>3. pending' = pending
  BY DEF AddRecursive, ReaderQuiet
<1>4. \/ tbl' = t /\ walk' = Walk("add", p, {p}, tbl)
      \/ tbl' = releaseOwner(t, p).tbl /\ walk' = walk
  BY DEF AddRecursive, ReleaseUser
<1> HIDE DEF t
<1>5. CASE tbl' = t /\ walk' = Walk("add", p, {p}, tbl)
  <2>1. WalkSound(Walk("add", p, {p}, tbl), t)
    BY <1>1, <1>2, UnderItself, WalkBegins
  <2> QED BY <1>2, <1>3, <1>5, <2>1 DEF SoundTables
<1>6. CASE tbl' = releaseOwner(t, p).tbl /\ walk' = walk
  BY <1>1, <1>2, <1>3, <1>6, ReleaseOwnerSound, TablesStay DEF SoundTables
<1> QED BY <1>4, <1>5, <1>6

LEMMA RemoveWatchSound ==
  ASSUME SoundTables, NEW p, RemoveWatch(p)
  PROVE  SoundTables'
<1>1. TableSound(tbl) /\ walk = NoWalk
  BY DEF RemoveWatch, SoundTables, MuFree, Walking
<1>2. tbl' = releaseOwner(tbl, p).tbl /\ pending' = pending /\ walk' = walk
  BY DEF RemoveWatch, ReleaseUser, ReaderQuiet
<1> QED BY <1>1, <1>2, ReleaseOwnerSound, TablesStay DEF SoundTables

LEMMA CloseSound ==
  ASSUME SoundTables, CloseBegin \/ CloseFinish
  PROVE  SoundTables'
<1>1. CASE CloseBegin
  BY <1>1, NothingStays DEF CloseBegin, ReaderQuiet
<1>2. CASE CloseFinish
  <2>1. tbl' = newWatches /\ walk = NoWalk /\ walk' = walk /\ pending' = pending
    BY <1>2 DEF CloseFinish, ReaderQuiet, MuFree, Walking
  <2>2. DOMAIN NoFunction = {}
    BY DEF NoFunction
  <2>3. TableSound(newWatches)
    BY <2>2 DEF newWatches, TableSound, IsTable, UsersSound, PathsSound, OwnersSound, OwnedIsListed
  <2> QED BY <2>1, <2>3, TablesStay DEF SoundTables
<1> QED BY <1>1, <1>2

(* A walk that fails is undone. *)
LEMMA AbortSound ==
  ASSUME SoundTables, Abort, UNCHANGED pending
  PROVE  SoundTables'
<1>1. \/ tbl' = releaseOwner(tbl, walk.root).tbl
      \/ tbl' = rollbackRegistrations(tbl, walk.regs).tbl
  BY DEF Abort
<1>2. TableSound(tbl')
  BY <1>1, ReleaseOwnerSound, RollbackSound DEF SoundTables
<1>3. WalkSound(walk', tbl')
  BY DEF Abort, WalkSound
<1> QED BY <1>2, <1>3 DEF SoundTables

(* The WalkDir function registers below the roots the walk is for. *)
LEMMA VisitDirSound ==
  ASSUME SoundTables, VisitDir
  PROVE  SoundTables'
<1> DEFINE p     == Head(walk.todo).path
           added == walk.owners \ OwnersOf(tbl, p)
           t     == register(tbl, p, WdFor(p), walk.owners)
           regs  == IF added # {} /\ Watched(t, p) THEN Put(walk.regs, p, added) ELSE walk.regs
           w     == [walk EXCEPT !.regs = regs]
<1>1. walk # NoWalk /\ pending' = pending
  BY DEF VisitDir, Walking, ReaderQuiet
<1>2. \/ tbl' = t /\ Continue(w, <<List(p)>> \o Tail(walk.todo))
      \/ Abort
  BY DEF VisitDir
<1>3. CASE Abort
  BY <1>1, <1>3, AbortSound
<1>4. CASE tbl' = t /\ Continue(w, <<List(p)>> \o Tail(walk.todo))
  <2>1. /\ IsPath(p) /\ \A u \in walk.owners : Under(p, u)
        /\ TableSound(tbl) /\ walk.owners \subseteq tbl.recurse
        /\ TodoSound(walk.todo, walk.owners) /\ walk.todo # <<>>
    BY <1>1, HeadOfTodo DEF SoundTables, WalkSound
  <2>2. TodoSound(<<List(p)>> \o Tail(walk.todo), walk.owners)
    <3>1. TodoSound(<<List(p)>>, walk.owners)
      BY <2>1, OneTodoIsSound DEF List
    <3> QED BY <2>1, <3>1, TodoGoesOn
  <2>3. \A u \in walk.owners : Owns(tbl, u, p)
    BY <2>1 DEF Owns, TableSound, UsersSound
  <2> HIDE DEF p, regs
  <2>4. TableSound(t) /\ t.recurse = tbl.recurse
    BY <2>1, <2>3, RegisterSound
  <2> HIDE DEF t
  <2>5. WalkSound(w, t) /\ w # NoWalk /\ w.owners = walk.owners
    <3>1. WalkSound(walk, tbl)
      BY DEF SoundTables
    <3> QED BY <1>1, <2>4, <3>1 DEF WalkSound, NoWalk
  <2> HIDE DEF w
  <2>6. WalkSound(walk', t)
    BY <1>4, <2>2, <2>5, WalkGoesOn DEF Continue
  <2> QED BY <1>1, <1>4, <2>4, <2>6 DEF SoundTables
<1> QED BY <1>2, <1>3, <1>4

LEMMA ListDirSound ==
  ASSUME SoundTables, ListDir
  PROVE  SoundTables'
<1> DEFINE p == Head(walk.todo).path
<1>1. walk # NoWalk /\ pending' = pending
  BY DEF ListDir, Walking, ReaderQuiet
<1>2. \/ tbl' = tbl /\ Continue(walk, SubDirs(p) \o Tail(walk.todo))
      \/ Abort
  BY DEF ListDir
<1>3. CASE Abort
  BY <1>1, <1>3, AbortSound
<1>4. CASE tbl' = tbl /\ Continue(walk, SubDirs(p) \o Tail(walk.todo))
  <2>1. /\ IsPath(p) /\ \A u \in walk.owners : IsPath(u) /\ Under(p, u)
        /\ WalkSound(walk, tbl) /\ TableSound(tbl)
        /\ TodoSound(walk.todo, walk.owners) /\ walk.todo # <<>>
    BY <1>1, HeadOfTodo DEF SoundTables, WalkSound, TableSound, UsersSound
  <2> HIDE DEF p
  <2>2. TodoSound(SubDirs(p), walk.owners)
    BY <2>1, SubDirsSound
  <2>3. TodoSound(SubDirs(p) \o Tail(walk.todo), walk.owners)
    BY <2>1, <2>2, TodoGoesOn
  <2>4. WalkSound(walk', tbl)
    BY <1>1, <1>4, <2>1, <2>3, WalkGoesOn DEF Continue
  <2> QED BY <1>1, <1>4, <2>1, <2>4 DEF SoundTables
<1> QED BY <1>2, <1>3, <1>4

(* readEvents between the events it handles. *)
LEMMA ReadSound ==
  ASSUME SoundTables, PrepareRead \/ Read \/ ReadClosed \/ ExpirePendingMoves
  PROVE  SoundTables'
<1>1. CASE PrepareRead \/ Read \/ ReadClosed
  BY <1>1, NothingStays DEF PrepareRead, Read, ReadClosed
<1>2. CASE ExpirePendingMoves
  <2>1. /\ walk = NoWalk /\ walk' = walk
        /\ \/ tbl' = tbl /\ pending' = pending
           \/ tbl' = detachSubtrees(tbl, Range(pending)).tbl /\ pending' = NoFunction
    BY <1>2 DEF ExpirePendingMoves, MuFree, Walking, DetachExpired
  <2>2. DOMAIN NoFunction = {}
    BY DEF NoFunction
  <2> QED BY <2>1, <2>2, DetachSubtreesSound, TablesStay DEF SoundTables
<1> QED BY <1>1, <1>2

-----------------------------------------------------------------------------
(* handleEvent.                                                            *)
-----------------------------------------------------------------------------
(* The recursive owners of a directory are above what appears in it. *)
LEMMA OwnersAbove ==
  ASSUME NEW t, NEW p, NEW name, TableSound(t), IsPath(p)
  PROVE  \A u \in recursiveOwners(t, p) : u \in t.recurse /\ Under(Join(p, name), u)
<1>1. \A u \in recursiveOwners(t, p) : u \in t.recurse /\ IsPath(u) /\ Under(p, u)
  BY DEF recursiveOwners, OwnersOf, TableSound, OwnersSound, Owns, UsersSound
<1> QED BY <1>1, JoinUnder

LEMMA KnownWatch ==
  ASSUME SoundTables, NEW kinds, Known(kinds)
  PROVE  IsPath(TheWatch.path) /\ IsPath(EvName)
<1>1. IsPath(TheWatch.path)
  BY DEF SoundTables, TableSound, PathsSound, Known, TheWatch
<1> QED BY <1>1, JoinIsPath DEF EvName

LEMMA HandleSound ==
  ASSUME SoundTables, HandleUnknown \/ HandleGone \/ HandleMoveSelf \/ HandleOther
  PROVE  SoundTables'
<1>1. CASE HandleUnknown \/ HandleOther
  BY <1>1, NothingStays DEF HandleUnknown, HandleOther
<1>2. CASE HandleGone
  <2>1. /\ walk = NoWalk /\ walk' = walk /\ pending' = pending
        /\ tbl' = remove(tbl, Ev.wd)
    BY <1>2 DEF HandleGone, Handle, MuFree, Walking
  <2> QED BY <2>1, RemoveSound, TablesStay DEF SoundTables
<1>3. CASE HandleMoveSelf
  <2>1. /\ walk = NoWalk /\ walk' = walk /\ pending' = pending
        /\ tbl' = tbl \/ tbl' = releaseOwner(tbl, TheWatch.path).tbl
    BY <1>3 DEF HandleMoveSelf, Handle, MuFree, Walking, ReleaseUser
  <2> QED BY <2>1, ReleaseOwnerSound, TablesStay DEF SoundTables
<1> QED BY <1>1, <1>2, <1>3

LEMMA HandleMovedFromSound ==
  ASSUME SoundTables, HandleMovedFrom
  PROVE  SoundTables'
<1>1. /\ walk = NoWalk /\ walk' = walk /\ tbl' = tbl /\ IsPath(EvName)
      /\ pending' = pending \/ pending' = Put(pending, Ev.cookie, EvName)
  BY KnownWatch DEF HandleMovedFrom, Handle, MuFree, Walking
<1>2. \A c \in DOMAIN pending' : IsPath(pending'[c])
  BY <1>1 DEF SoundTables, Put
<1> QED BY <1>1, <1>2, TablesStay DEF SoundTables

LEMMA HandleMovedWithinSound ==
  ASSUME SoundTables, HandleMovedWithin
  PROVE  SoundTables'
<1> DEFINE us == recursiveOwners(tbl, TheWatch.path)
           old == pending[Ev.cookie]
<1>1. /\ walk = NoWalk /\ walk' = walk
      /\ pending' = Without(pending, {Ev.cookie}) /\ Ev.cookie \in DOMAIN pending
      /\ tbl' = rebase(tbl, old, EvName, us).tbl
      /\ Known({"create", "to"})
  BY DEF HandleMovedWithin, Handle, MuFree, Walking, AppearsDir
<1>2. TableSound(tbl) /\ IsPath(old) /\ IsPath(EvName) /\ \A u \in us : Under(EvName, u)
  BY <1>1, KnownWatch, OwnersAbove DEF SoundTables, EvName
<1> HIDE DEF us, old
<1>3. TableSound(tbl')
  BY <1>1, <1>2, RebaseSound
<1>4. \A c \in DOMAIN pending' : IsPath(pending'[c])
  BY <1>1 DEF SoundTables, Without
<1> QED BY <1>1, <1>3, <1>4, TablesStay

LEMMA HandleNewDirSound ==
  ASSUME SoundTables, HandleNewDir
  PROVE  SoundTables'
<1> DEFINE old == {c \in DOMAIN pending : pending[c] = EvName}
           r   == IF old = {} THEN [tbl |-> tbl, wds |-> {}] ELSE detachSubtree(tbl, EvName)
           us  == recursiveOwners(r.tbl, TheWatch.path)
<1>1. /\ walk = NoWalk /\ pending' = Without(pending, old) /\ tbl' = r.tbl
      /\ walk' = NoWalk \/ walk' = Walk("subtree", EvName, us, r.tbl)
      /\ Known({"create", "to"})
  BY DEF HandleNewDir, Handle, MuFree, Walking, AppearsDir
<1>2. TableSound(r.tbl)
  BY DetachSubtreesSound DEF detachSubtree, SoundTables
<1>3. IsPath(EvName) /\ IsPath(TheWatch.path)
  BY <1>1, KnownWatch
<1>4. \A c \in DOMAIN pending' : IsPath(pending'[c])
  BY <1>1 DEF SoundTables, Without
<1> HIDE DEF old, r
<1>5. us \subseteq r.tbl.recurse /\ \A u \in us : Under(EvName, u)
  BY <1>2, <1>3, OwnersAbove DEF EvName
<1> HIDE DEF us
<1>6. CASE walk' = NoWalk
  BY <1>1, <1>2, <1>4, <1>6, TablesStay
<1>7. CASE walk' = Walk("subtree", EvName, us, r.tbl)
  <2>1. WalkSound(Walk("subtree", EvName, us, r.tbl), r.tbl)
    BY <1>3, <1>5, WalkBegins
  <2> QED BY <1>1, <1>2, <1>4, <1>7, <2>1 DEF SoundTables
<1> QED BY <1>1, <1>6, <1>7

-----------------------------------------------------------------------------
(* The inductive invariant. *)
LEMMA NextSound ==
  ASSUME SoundTables, [Next]_vars
  PROVE  SoundTables'
<1>1. CASE TreeStep \/ KernelStep
  BY <1>1, NothingStays DEF TreeStep, KernelStep, backendVars
<1>2. CASE ReaderStep
  BY <1>2, ReadSound, HandleSound, HandleMovedFromSound, HandleMovedWithinSound, HandleNewDirSound
     DEF ReaderStep
<1>3. CASE WalkStep
  BY <1>3, VisitDirSound, ListDirSound DEF WalkStep
<1>4. ASSUME NEW p \in PlainPaths, AddPlain(p)
      PROVE  SoundTables'
  BY <1>4, AddPlainSound
<1>5. ASSUME NEW p \in RecursivePaths, AddRecursive(p)
      PROVE  SoundTables'
  BY <1>5, AddRecursiveSound
<1>6. ASSUME NEW p \in Path, RemoveWatch(p)
      PROVE  SoundTables'
  BY <1>6, RemoveWatchSound
<1>7. CASE CloseBegin \/ CloseFinish
  BY <1>7, CloseSound
<1>8. CASE UNCHANGED vars
  BY <1>8, NothingStays DEF vars, backendVars
<1> QED BY <1>1, <1>2, <1>3, <1>4, <1>5, <1>6, <1>7, <1>8 DEF Next

(* SoundTables is an invariant: every method of watches, and every step    *)
(* that calls one, leaves the tables sound (backend_inotify.go:105-636).   *)
THEOREM TablesAlwaysSound == Spec => []SoundTables
<1>1. Init => SoundTables
  BY InitSound
<1>2. SoundTables /\ [Next]_vars => SoundTables'
  BY NextSound
<1> QED BY <1>1, <1>2, PTL DEF Spec

(* RC-008, RC-009, RC-026: in every reachable state a path is owned only   *)
(* by users in byUser, and only by those that asked for it or, with "/..." *)
(* for something above it (the owners map of backend_inotify.go:28).       *)
THEOREM OwnershipAlwaysSound == Spec => []OwnershipSound
<1>1. SoundTables => OwnershipSound
  BY DEF SoundTables, TableSound, UsersSound, OwnersSound, Owns, OwnershipSound
<1> QED BY <1>1, TablesAlwaysSound, PTL

-----------------------------------------------------------------------------
(* What a walk has done so far, and that undoing it restores the table it  *)
(* began with.                                                             *)
-----------------------------------------------------------------------------
(* The owners a walk added at p, and remembers. *)
RegsOf(w, p) == IF p \in DOMAIN w.regs THEN w.regs[p] ELSE {}

(* The table t is the one AddWith began with, with its root as one more    *)
(* user, which may own more paths.                                         *)
GrownByAdd(w, t, b) ==
  /\ w.owners = {w.root} /\ w.root \notin b.byUser
  /\ t.byUser = b.byUser \cup {w.root} /\ t.recurse = b.recurse \cup {w.root}
  /\ \A p \in DOMAIN t.owners : t.owners[p] \ {w.root} = OwnersOf(b, p)

(* The same for registerRecursiveSubtree: the owners it remembers are the  *)
(* ones that own more, and where it has been they own the path.            *)
GrownBySubtree(w, t, b) ==
  /\ t.byUser = b.byUser /\ t.recurse = b.recurse
  /\ \A p \in DOMAIN t.owners :
       /\ t.owners[p] \ RegsOf(w, p) = OwnersOf(b, p)
       /\ p \in DOMAIN w.regs => w.owners \subseteq t.owners[p]

Grown(w, t) ==
  /\ TableSound(w.before) /\ Full(w.before)
  /\ DOMAIN w.before.owners \subseteq DOMAIN t.owners
  /\ \/ w.by = "add" /\ GrownByAdd(w, t, w.before)
     \/ w.by = "subtree" /\ GrownBySubtree(w, t, w.before)

(* The inductive invariant behind RollbackExact, beside SoundTables. *)
GrownTables == Full(tbl) /\ (Walking /\ Alive => Grown(walk, tbl))

(* No owner set of n is empty, and there is one for each of b. *)
LEMMA SameOwners ==
  ASSUME NEW own, NEW b, OwnersFull(b.owners), own = [p \in DOMAIN own |-> own[p]],
         DOMAIN b.owners \subseteq DOMAIN own,
         \A p \in DOMAIN own : own[p] = OwnersOf(b, p)
  PROVE  Without(own, Empty(own)) = b.owners
<1>1. DOMAIN own \ Empty(own) = DOMAIN b.owners
  BY DEF Empty, OwnersOf, OwnersFull
<1>2. \A p \in DOMAIN b.owners : own[p] = b.owners[p]
  BY DEF OwnersOf
<1>3. Without(own, Empty(own)) = [p \in DOMAIN b.owners |-> b.owners[p]]
  BY <1>1, <1>2 DEF Without
<1> QED BY <1>3 DEF OwnersFull

(* RC-017, for AddWith. *)
LEMMA AddUndone ==
  ASSUME NEW w, NEW t, NEW b, TableSound(t), Full(t), TableSound(b), Full(b),
         DOMAIN b.owners \subseteq DOMAIN t.owners, GrownByAdd(w, t, b)
  PROVE  OwnershipOf(releaseOwner(t, w.root).tbl) = OwnershipOf(b)
<1> DEFINE n   == releaseOwner(t, w.root).tbl
           own == Disowned(t.owners, w.root)
<1>1. /\ n.byUser = t.byUser \ {w.root} /\ n.recurse = t.recurse \ {w.root}
      /\ n.target = Without(t.target, {w.root})
      /\ n.owners = Without(own, Empty(own))
  BY ReleaseOwnerIs DEF TableSound
<1>2. n.byUser = b.byUser /\ n.recurse = b.recurse
  BY <1>1 DEF GrownByAdd, TableSound, UsersSound
<1>3. n.target = b.target
  <2>1. Without([u \in t.byUser |-> u], {w.root}) = [u \in t.byUser \ {w.root} |-> u]
    BY DEF Without
  <2> QED BY <1>1, <1>2, <2>1 DEF Full
<1>4. /\ DOMAIN own = DOMAIN t.owners /\ own = [p \in DOMAIN own |-> own[p]]
      /\ \A p \in DOMAIN own : own[p] = OwnersOf(b, p)
  BY DEF Disowned, GrownByAdd
<1> HIDE DEF n, own
<1>5. n.owners = b.owners
  BY <1>1, <1>4, SameOwners DEF Full
<1> QED BY <1>2, <1>3, <1>5 DEF OwnershipOf, n

(* RC-017, for registerRecursiveSubtree. *)
LEMMA SubtreeUndone ==
  ASSUME NEW w, NEW t, NEW b, TableSound(t), Full(t), Full(b),
         DOMAIN b.owners \subseteq DOMAIN t.owners, GrownBySubtree(w, t, b)
  PROVE  OwnershipOf(rollbackRegistrations(t, w.regs).tbl) = OwnershipOf(b)
<1> DEFINE n   == rollbackRegistrations(t, w.regs).tbl
           own == TakenBack(t.owners, w.regs)
<1>1. /\ n.byUser = t.byUser /\ n.recurse = t.recurse /\ n.target = t.target
      /\ n.owners = Without(own, Empty(own))
  <2>1. IsTable(t) /\ OwnersFull(t.owners)
    BY DEF TableSound, Full
  <2> QED BY <2>1, RollbackIs
<1>2. n.byUser = b.byUser /\ n.recurse = b.recurse
  BY <1>1 DEF GrownBySubtree
<1>3. n.target = b.target
  BY <1>1, <1>2 DEF Full
<1>4. /\ DOMAIN own = DOMAIN t.owners /\ own = [p \in DOMAIN own |-> own[p]]
      /\ \A p \in DOMAIN own : own[p] = OwnersOf(b, p)
  BY DEF TakenBack, GrownBySubtree, RegsOf
<1> HIDE DEF n, own
<1>5. n.owners = b.owners
  BY <1>1, <1>4, SameOwners DEF Full
<1> QED BY <1>2, <1>3, <1>5 DEF OwnershipOf, n

LEMMA AbortIsExact ==
  ASSUME SoundTables, GrownTables, Walking, Alive, Abort
  PROVE  OwnershipOf(tbl') = OwnershipOf(walk.before)
<1>1. Grown(walk, tbl) /\ TableSound(tbl) /\ Full(tbl)
  BY DEF GrownTables, SoundTables
<1>2. CASE walk.by = "add"
  <2>1. tbl' = releaseOwner(tbl, walk.root).tbl
    BY <1>2 DEF Abort
  <2> QED BY <1>1, <1>2, <2>1, AddUndone DEF Grown
<1>3. CASE walk.by = "subtree"
  <2>1. tbl' = rollbackRegistrations(tbl, walk.regs).tbl
    BY <1>3 DEF Abort
  <2> QED BY <1>1, <1>3, <2>1, SubtreeUndone DEF Grown
<1> QED BY <1>1, <1>2, <1>3 DEF Grown

(* A step that leaves no walk behind. *)
LEMMA GrownStays ==
  ASSUME Full(tbl'), walk' = NoWalk
  PROVE  GrownTables'
BY DEF GrownTables, Walking

LEMMA NewWatchesFull == Full(newWatches)
<1>1. NoFunction = [u \in {} |-> u] /\ DOMAIN NoFunction = {}
      /\ NoFunction = [u \in DOMAIN NoFunction |-> NoFunction[u]]
  BY DEF NoFunction
<1>2. newWatches.owners = NoFunction /\ newWatches.target = NoFunction /\ newWatches.byUser = {}
  BY DEF newWatches
<1> HIDE DEF NoFunction
<1> QED BY <1>1, <1>2 DEF Full, OwnersFull

LEMMA AddPlainGrown ==
  ASSUME SoundTables, GrownTables, NEW p \in PlainPaths, AddPlain(p)
  PROVE  GrownTables'
<1> DEFINE t  == addUser(tbl, p, FALSE)
           t1 == register(t, p, WdFor(p), {p})
<1>1. IsPath(p) /\ p \notin tbl.byUser /\ TableSound(tbl) /\ Full(tbl) /\ walk' = NoWalk
  BY ModelPath, BackendAssumption DEF AddPlain, SoundTables, GrownTables, MuFree, Walking
<1>2. TableSound(t) /\ Full(t) /\ p \in t.byUser /\ p \notin t.recurse
  <2>1. /\ TableSound(t) /\ t.byUser = tbl.byUser \cup {p}
        /\ t.recurse = IF FALSE THEN tbl.recurse \cup {p} ELSE tbl.recurse
    BY <1>1, AddUserSound, Zenon
  <2>2. Full(t)
    BY <1>1, AddUserFull DEF TableSound
  <2> HIDE DEF t
  <2> QED BY <1>1, <2>1, <2>2 DEF TableSound, UsersSound
<1>3. \/ tbl' = t1 \/ tbl' = releaseOwner(t1, p).tbl \/ tbl' = releaseOwner(t, p).tbl
  BY DEF AddPlain, ReleaseUser
<1> HIDE DEF t
<1>4. TableSound(t1) /\ Full(t1)
  BY <1>1, <1>2, RegisterSound, RegisterIs DEF Owns
<1> HIDE DEF t1
<1>5. Full(tbl')
  BY <1>2, <1>3, <1>4, ReleaseOwnerFull DEF TableSound
<1> QED BY <1>1, <1>5, GrownStays

LEMMA AddRecursiveGrown ==
  ASSUME SoundTables, GrownTables, NEW p \in RecursivePaths, AddRecursive(p)
  PROVE  GrownTables'
<1> DEFINE t == addUser(tbl, p, TRUE)
           w == Walk("add", p, {p}, tbl)
<1>1. IsPath(p) /\ p \notin tbl.byUser /\ TableSound(tbl) /\ Full(tbl) /\ walk = NoWalk
  BY ModelPath, BackendAssumption DEF AddRecursive, SoundTables, GrownTables, MuFree, Walking
<1>2. t.byUser = tbl.byUser \cup {p} /\ t.recurse = IF TRUE THEN tbl.recurse \cup {p} ELSE tbl.recurse
  BY <1>1, AddUserSound, Zenon
<1>3. Full(t) /\ t.owners = tbl.owners
  <2>1. IsTable(tbl)
    BY <1>1 DEF TableSound
  <2>2. \A r : Full(addUser(tbl, p, r))
    BY <1>1, <2>1, AddUserFull
  <2>3. \A r : addUser(tbl, p, r).owners = tbl.owners
    BY <2>1 DEF addUser, IsTable
  <2> QED BY <2>2, <2>3, Zenon
<1>4. \/ tbl' = t /\ walk' = w
      \/ tbl' = releaseOwner(t, p).tbl /\ walk' = walk
  BY DEF AddRecursive, ReleaseUser
<1>5. CASE tbl' = releaseOwner(t, p).tbl /\ walk' = walk
  <2>1. IsTable(t)
    BY <1>1, AddUserSound DEF TableSound
  <2> HIDE DEF t
  <2>2. Full(tbl')
    BY <1>3, <1>5, <2>1, ReleaseOwnerFull
  <2> QED BY <1>1, <1>5, <2>2, GrownStays
<1>6. CASE tbl' = t /\ walk' = w
  <2>1. \A q \in DOMAIN tbl.owners : tbl.owners[q] \ {p} = OwnersOf(tbl, q)
    BY <1>1 DEF TableSound, OwnersSound, Owns, OwnersOf
  <2>2. w.before = tbl /\ w.owners = {p} /\ w.root = p /\ w.by = "add"
    BY DEF Walk
  <2> HIDE DEF t, w
  <2>3. GrownByAdd(w, t, tbl)
    BY <1>1, <1>2, <1>3, <2>1, <2>2 DEF GrownByAdd
  <2> QED BY <1>1, <1>3, <1>6, <2>2, <2>3 DEF GrownTables, Grown
<1> QED BY <1>4, <1>5, <1>6

LEMMA RemoveCloseGrown ==
  ASSUME SoundTables, GrownTables, (\E p \in Path : RemoveWatch(p)) \/ CloseBegin \/ CloseFinish
  PROVE  GrownTables'
<1>1. walk' = NoWalk /\ Full(tbl) /\ IsTable(tbl)
  BY DEF RemoveWatch, CloseBegin, CloseFinish, MuFree, Walking, GrownTables, SoundTables, TableSound
<1>2. \/ \E p \in Path : tbl' = releaseOwner(tbl, p).tbl
      \/ tbl' = tbl \/ tbl' = newWatches
  BY DEF RemoveWatch, ReleaseUser, CloseBegin, CloseFinish
<1>3. Full(tbl')
  BY <1>1, <1>2, ReleaseOwnerFull, NewWatchesFull
<1> QED BY <1>1, <1>3, GrownStays

LEMMA AbortGrown ==
  ASSUME SoundTables, GrownTables, Abort
  PROVE  GrownTables'
<1>1. IsTable(tbl) /\ Full(tbl) /\ OwnersFull(tbl.owners) /\ walk' = NoWalk
  BY DEF Abort, GrownTables, SoundTables, TableSound, Full
<1>2. \/ tbl' = releaseOwner(tbl, walk.root).tbl
      \/ tbl' = rollbackRegistrations(tbl, walk.regs).tbl
  BY DEF Abort
<1>3. Full(tbl')
  BY <1>1, <1>2, ReleaseOwnerFull, RollbackFull
<1> QED BY <1>1, <1>3, GrownStays

(* The walk registers one more directory. *)
LEMMA RegisterGrown ==
  ASSUME NEW w, NEW v, NEW t, NEW p, NEW d, NEW added, TableSound(t), Full(t), Grown(w, t),
         IsPath(p), \A u \in w.owners : Owns(t, u, p),
         added = w.owners \ OwnersOf(t, p),
         v.by = w.by, v.root = w.root, v.owners = w.owners, v.before = w.before,
         v.regs = IF added # {} /\ Watched(register(t, p, d, w.owners), p)
                  THEN Put(w.regs, p, added) ELSE w.regs,
         ~register(t, p, d, w.owners).panicked
  PROVE  Grown(v, register(t, p, d, w.owners))
<1> DEFINE n == register(t, p, d, w.owners)
           b == w.before
           O == OwnersOf(t, p)
<1>1. /\ n.byUser = t.byUser /\ n.recurse = t.recurse
      /\ \/ n.owners = t.owners /\ (w.owners # {} => p \notin DOMAIN n.path)
         \/ /\ w.owners # {} /\ n.owners = Put(t.owners, p, O \cup w.owners)
            /\ Watched(n, p)
  <2>1. /\ n.byUser = t.byUser /\ n.recurse = t.recurse
        /\ \/ n.owners = t.owners /\ (w.owners # {} => p \notin DOMAIN n.path)
           \/ /\ w.owners # {} /\ n.owners = Put(t.owners, p, OwnersOf(t, p) \cup w.owners)
              /\ n.panicked \/ Watched(n, p)
    BY RegisterIs
  <2> QED BY <2>1
<1>2. DOMAIN n.owners \subseteq DOMAIN n.path
  BY RegisterSound DEF TableSound, OwnedIsListed
<1>3. DOMAIN t.owners \subseteq DOMAIN n.owners
  BY <1>1 DEF Put
<1>4. p \notin DOMAIN t.owners => O = {} /\ OwnersOf(b, p) = {}
  BY DEF OwnersOf, Grown
<1>5. v.regs = IF added # {} /\ Watched(n, p) THEN Put(w.regs, p, added) ELSE w.regs
  OBVIOUS
<1> HIDE DEF n
<1>6. CASE w.by = "add"
  <2>1. GrownByAdd(w, t, b)
    BY <1>6 DEF Grown
  <2>2. \A q \in DOMAIN n.owners : n.owners[q] \ {w.root} = OwnersOf(b, q)
    <3>1. \A q \in DOMAIN t.owners : t.owners[q] \ {w.root} = OwnersOf(b, q)
      BY <2>1 DEF GrownByAdd
    <3>2. p \in DOMAIN t.owners => O = t.owners[p]
      BY DEF OwnersOf
    <3>3. w.owners = {w.root}
      BY <2>1 DEF GrownByAdd
    <3>4. O \ {w.root} = OwnersOf(b, p)
      BY <1>4, <3>1, <3>2
    <3> HIDE DEF O
    <3> QED BY <1>1, <3>1, <3>3, <3>4 DEF Put
  <2>3. GrownByAdd(v, n, b)
    BY <1>1, <2>1, <2>2 DEF GrownByAdd
  <2> QED BY <1>3, <1>6, <2>3 DEF Grown, n
<1>7. CASE w.by = "subtree"
  <2>1. GrownBySubtree(w, t, b)
    BY <1>7 DEF Grown
  <2>2. p \in DOMAIN t.owners => O = t.owners[p]
    BY DEF OwnersOf
  <2>3. ASSUME NEW q \in DOMAIN n.owners
        PROVE  /\ n.owners[q] \ RegsOf(v, q) = OwnersOf(b, q)
               /\ q \in DOMAIN v.regs => w.owners \subseteq n.owners[q]
    <3>1. q # p => RegsOf(v, q) = RegsOf(w, q) /\ (q \in DOMAIN v.regs => q \in DOMAIN w.regs)
      BY <1>5 DEF RegsOf, Put
    <3>2. \A r \in DOMAIN t.owners :
            /\ t.owners[r] \ RegsOf(w, r) = OwnersOf(b, r)
            /\ r \in DOMAIN w.regs => w.owners \subseteq t.owners[r]
      BY <2>1 DEF GrownBySubtree
    <3>3. CASE q # p
      <4>1. q \in DOMAIN t.owners /\ n.owners[q] = t.owners[q]
        BY <1>1, <2>3, <3>3 DEF Put
      <4> QED BY <3>1, <3>2, <3>3, <4>1
    <3>4. CASE q = p /\ added = {}
      <4>1. v.regs = w.regs
        BY <1>5, <3>4
      <4>2. q \in DOMAIN t.owners /\ n.owners[q] = t.owners[q]
        BY <1>1, <1>2, <1>4, <2>2, <2>3, <3>4 DEF Put
      <4> QED BY <3>2, <4>1, <4>2 DEF RegsOf
    <3>5. CASE q = p /\ added # {}
      <4>1. w.owners # {} /\ n.owners[p] = O \cup w.owners /\ Watched(n, p)
        BY <1>1, <1>2, <2>3, <3>5 DEF Put
      <4>2. v.regs = Put(w.regs, p, added)
        BY <1>5, <3>5, <4>1
      <4>3. RegsOf(v, p) = added
        BY <4>2 DEF RegsOf, Put
      <4>4. O = OwnersOf(b, p)
        <5>1. p \in DOMAIN t.owners => p \notin DOMAIN w.regs
          BY <2>2, <3>2, <3>5
        <5> QED BY <1>4, <2>2, <3>2, <5>1 DEF RegsOf
      <4> HIDE DEF O
      <4>5. (O \cup w.owners) \ (w.owners \ O) = O
        OBVIOUS
      <4> QED BY <3>5, <4>1, <4>3, <4>4, <4>5 DEF O
    <3> QED BY <3>3, <3>4, <3>5
  <2>4. GrownBySubtree(v, n, b)
    BY <1>1, <2>1, <2>3 DEF GrownBySubtree
  <2> QED BY <1>3, <1>7, <2>4 DEF Grown, n
<1> QED BY <1>6, <1>7 DEF Grown
LEMMA VisitDirGrown ==
  ASSUME SoundTables, GrownTables, VisitDir
  PROVE  GrownTables'
<1> DEFINE p     == Head(walk.todo).path
           added == walk.owners \ OwnersOf(tbl, p)
           t     == register(tbl, p, WdFor(p), walk.owners)
           regs  == IF added # {} /\ Watched(t, p) THEN Put(walk.regs, p, added) ELSE walk.regs
           todo  == <<List(p)>> \o Tail(walk.todo)
           v     == [walk EXCEPT !.regs = regs]
<1>1. walk # NoWalk /\ Grown(walk, tbl) /\ Full(tbl)
  BY DEF VisitDir, GrownTables, Walking, Alive
<1>2. \/ tbl' = t /\ Continue(v, todo)
      \/ Abort
  BY DEF VisitDir
<1>3. CASE Abort
  BY <1>3, AbortGrown
<1>4. CASE tbl' = t /\ Continue(v, todo)
  <2>1. /\ IsPath(p) /\ \A u \in walk.owners : Under(p, u)
        /\ TableSound(tbl) /\ walk.owners \subseteq tbl.recurse
    BY <1>1, HeadOfTodo DEF SoundTables, WalkSound
  <2>2. \A u \in walk.owners : Owns(tbl, u, p)
    BY <2>1 DEF Owns, TableSound, UsersSound
  <2>3. walk \in [by : {walk.by}, root : {walk.root}, owners : {walk.owners}, todo : {walk.todo},
                  regs : {walk.regs}, before : {walk.before}]
    BY <1>1 DEF SoundTables, WalkSound
  <2> HIDE DEF p, todo
  <2>4. Full(t)
    <3>1. LET n == register(tbl, p, WdFor(p), walk.owners) IN Full(n)
      BY <1>1, <2>1, RegisterIs
    <3> QED BY <3>1
  <2>5. regs = IF added # {} /\ Watched(t, p) THEN Put(walk.regs, p, added) ELSE walk.regs
    OBVIOUS
  <2> HIDE DEF regs
  <2>6. walk' = NoWalk \/ walk' = [v EXCEPT !.todo = todo]
    BY <1>4 DEF Continue
  <2>7. walk' # NoWalk => /\ walk'.by = walk.by /\ walk'.root = walk.root /\ walk'.owners = walk.owners
                          /\ walk'.before = walk.before /\ walk'.regs = regs
    BY <2>3, <2>6
  <2>8. walk' # NoWalk /\ ~t.panicked => Grown(walk', t)
    BY <1>1, <2>1, <2>2, <2>5, <2>7, RegisterGrown
  <2> HIDE DEF t
  <2> QED BY <1>4, <2>4, <2>8 DEF GrownTables, Walking, Alive
<1> QED BY <1>2, <1>3, <1>4

LEMMA ListDirGrown ==
  ASSUME SoundTables, GrownTables, ListDir
  PROVE  GrownTables'
<1> DEFINE todo == SubDirs(Head(walk.todo).path) \o Tail(walk.todo)
<1>1. walk # NoWalk /\ Grown(walk, tbl) /\ Full(tbl)
  BY DEF ListDir, GrownTables, Walking, Alive
<1>2. \/ tbl' = tbl /\ Continue(walk, todo)
      \/ Abort
  BY DEF ListDir
<1> HIDE DEF todo
<1>3. CASE Abort
  BY <1>3, AbortGrown
<1>4. CASE tbl' = tbl /\ Continue(walk, todo)
  <2>1. walk \in [by : {walk.by}, root : {walk.root}, owners : {walk.owners}, todo : {walk.todo},
                  regs : {walk.regs}, before : {walk.before}]
    BY <1>1 DEF SoundTables, WalkSound
  <2>2. walk' = NoWalk \/ walk' = [walk EXCEPT !.todo = todo]
    BY <1>4 DEF Continue
  <2>3. walk' # NoWalk => /\ walk'.by = walk.by /\ walk'.root = walk.root /\ walk'.owners = walk.owners
                          /\ walk'.before = walk.before /\ walk'.regs = walk.regs
    BY <2>1, <2>2
  <2>4. walk' # NoWalk => Grown(walk', tbl)
    BY <1>1, <2>3 DEF Grown, GrownByAdd, GrownBySubtree, RegsOf
  <2> QED BY <1>1, <1>4, <2>4 DEF GrownTables, Walking
<1> QED BY <1>2, <1>3, <1>4

LEMMA ReaderGrown ==
  ASSUME SoundTables, GrownTables, ReaderStep
  PROVE  GrownTables'
<1>1. TableSound(tbl) /\ IsTable(tbl) /\ Full(tbl)
  BY DEF SoundTables, TableSound, GrownTables
<1>2. CASE PrepareRead \/ Read \/ ReadClosed \/ HandleUnknown \/ HandleOther \/ HandleMovedFrom
  <2>1. tbl' = tbl /\ walk' = walk
    BY <1>2 DEF PrepareRead, Read, ReadClosed, HandleUnknown, HandleOther, HandleMovedFrom
  <2> QED BY <2>1 DEF GrownTables, Walking, Alive
<1>3. CASE ExpirePendingMoves
  <2>1. /\ walk' = NoWalk
        /\ tbl' = tbl \/ tbl' = detachSubtrees(tbl, Range(pending)).tbl
    BY <1>3 DEF ExpirePendingMoves, MuFree, Walking, DetachExpired
  <2>2. \A r \in Range(pending) : IsPath(r)
    BY DEF SoundTables, Range
  <2> QED BY <1>1, <2>1, <2>2, DetachSubtreesFull, GrownStays
<1>4. CASE HandleGone
  <2>1. walk' = NoWalk /\ tbl' = remove(tbl, Ev.wd)
    BY <1>4 DEF HandleGone, Handle, MuFree, Walking
  <2> QED BY <1>1, <2>1, RemoveFull, GrownStays
<1>5. CASE HandleMoveSelf
  <2>1. walk' = NoWalk /\ (tbl' = tbl \/ tbl' = releaseOwner(tbl, TheWatch.path).tbl)
    BY <1>5 DEF HandleMoveSelf, Handle, MuFree, Walking, ReleaseUser
  <2> QED BY <1>1, <2>1, ReleaseOwnerFull, GrownStays
<1>6. CASE HandleMovedWithin
  <2> DEFINE us  == recursiveOwners(tbl, TheWatch.path)
             old == pending[Ev.cookie]
  <2>1. walk' = NoWalk /\ tbl' = rebase(tbl, old, EvName, us).tbl /\ IsPath(EvName)
    BY <1>6, KnownWatch DEF HandleMovedWithin, Handle, MuFree, Walking, AppearsDir
  <2> QED BY <1>1, <2>1, RebaseFull, GrownStays
<1>7. CASE HandleNewDir
  <2> DEFINE old == {c \in DOMAIN pending : pending[c] = EvName}
             r   == IF old = {} THEN [tbl |-> tbl, wds |-> {}] ELSE detachSubtree(tbl, EvName)
             us  == recursiveOwners(r.tbl, TheWatch.path)
             w   == Walk("subtree", EvName, us, r.tbl)
  <2>1. tbl' = r.tbl /\ (walk' = NoWalk \/ walk' = w) /\ IsPath(EvName)
    BY <1>7, KnownWatch DEF HandleNewDir, Handle, MuFree, Walking, AppearsDir
  <2>2. TableSound(r.tbl) /\ Full(r.tbl)
    BY <1>1, <2>1, DetachSubtreesSound, DetachSubtreesFull DEF detachSubtree
  <2>3. /\ w.before = r.tbl /\ w.by = "subtree" /\ w.owners = us /\ DOMAIN w.regs = {}
    BY DEF Walk, NoFunction
  <2> HIDE DEF r, w, us
  <2>4. GrownBySubtree(w, r.tbl, r.tbl)
    BY <2>3 DEF GrownBySubtree, RegsOf, OwnersOf
  <2>5. Grown(w, r.tbl)
    BY <2>2, <2>3, <2>4 DEF Grown
  <2>6. CASE walk' = NoWalk
    BY <2>1, <2>2, <2>6, GrownStays
  <2>7. CASE walk' = w
    BY <2>1, <2>2, <2>5, <2>7 DEF GrownTables
  <2> QED BY <2>1, <2>6, <2>7
<1> QED BY <1>2, <1>3, <1>4, <1>5, <1>6, <1>7 DEF ReaderStep

LEMMA NextGrown ==
  ASSUME SoundTables, GrownTables, [Next]_vars
  PROVE  GrownTables'
<1>1. CASE TreeStep \/ KernelStep \/ UNCHANGED vars
  <2>1. tbl' = tbl /\ walk' = walk
    BY <1>1 DEF TreeStep, KernelStep, vars, backendVars
  <2> QED BY <2>1 DEF GrownTables, Walking, Alive
<1>2. CASE WalkStep
  BY <1>2, VisitDirGrown, ListDirGrown DEF WalkStep
<1>3. CASE ReaderStep
  BY <1>3, ReaderGrown
<1>4. ASSUME NEW p \in PlainPaths, AddPlain(p)
      PROVE  GrownTables'
  BY <1>4, AddPlainGrown
<1>5. ASSUME NEW p \in RecursivePaths, AddRecursive(p)
      PROVE  GrownTables'
  BY <1>5, AddRecursiveGrown
<1>6. CASE (\E p \in Path : RemoveWatch(p)) \/ CloseBegin \/ CloseFinish
  BY <1>6, RemoveCloseGrown
<1> QED BY <1>1, <1>2, <1>3, <1>4, <1>5, <1>6 DEF Next

(* Nothing happens once the program has ended. *)
LEMMA NextAlive == Next => Alive
BY DEF Next, TreeStep, KernelStep, ReaderStep, WalkStep, VisitDir, ListDir, AddPlain, AddRecursive,
       RemoveWatch, CloseBegin, CloseFinish, PrepareRead, Read, ReadClosed, ExpirePendingMoves,
       HandleUnknown, HandleGone, HandleMoveSelf, HandleMovedFrom, HandleMovedWithin,
       HandleNewDir, HandleOther, Handle, MuFree

(* RC-017: a walk that fails, of AddWith or of a new subtree, leaves the   *)
(* users and the owner sets exactly what they were when it began           *)
(* (rollbackRegistrations and its callers, backend_inotify.go:280-307,     *)
(* 545-592 and 638-683).                                                   *)
THEOREM RollbackIsExact == Spec => RollbackExact
<1>1. Init => GrownTables
  <2>1. Init => tbl = newWatches /\ walk = NoWalk
    BY DEF Init, BackendInit
  <2> QED BY <2>1, NewWatchesFull DEF GrownTables, Walking
<1>2. SoundTables /\ GrownTables /\ [Next]_vars => GrownTables'
  BY NextGrown
<1>3. SoundTables /\ GrownTables /\ [Next]_vars
        => [(Walking /\ Abort) => OwnershipOf(tbl') = OwnershipOf(walk.before)]_vars
  BY NextAlive, AbortIsExact
<1> QED BY <1>1, <1>2, <1>3, TablesAlwaysSound, PTL DEF Spec, RollbackExact

-----------------------------------------------------------------------------
(* A closed watcher.                                                       *)
-----------------------------------------------------------------------------
(* The inductive invariant behind ClosedIsEmpty: the tables and the        *)
(* instance are empty, and no call is left that could fill them.           *)
Shut == closed => closing /\ walk = NoWalk /\ tbl = newWatches /\ DOMAIN kwatch = {}

(* The kernel adds no watch of its own accord. *)
LEMMA KernelOnlyDrops ==
  ASSUME TreeStep \/ KernelStep
  PROVE  DOMAIN kwatch' \subseteq DOMAIN kwatch /\ nextWd' = nextWd
<1> DEFINE Drops == DOMAIN kwatch' \subseteq DOMAIN kwatch /\ nextWd' = nextWd
<1>1. \A events, ended : Queue(events, ended) => Drops
  BY DEF Queue
<1>2. \A events, ended, later : Notify(events, ended, later) => Drops
  BY <1>1 DEF Notify
<1> HIDE DEF Drops
<1>3. ASSUME NEW p, NEW what, Create(p, what) PROVE Drops
  BY <1>2, <1>3 DEF Create
<1>4. ASSUME NEW p, Unlink(p) PROVE Drops
  BY <1>2, <1>4 DEF Unlink
<1>5. ASSUME NEW p, NEW q, Rename(p, q) PROVE Drops
  BY <1>2, <1>5 DEF Rename
<1>6. ASSUME RenameNotifies PROVE Drops
  BY <1>1, <1>6 DEF RenameNotifies
<1>7. ASSUME NEW i, Release(i) PROVE Drops
  BY <1>2, <1>7 DEF Release
<1>8. Drops
  BY <1>3, <1>4, <1>5, <1>6, <1>7 DEF TreeStep, KernelStep
<1> QED BY <1>8 DEF Drops

LEMMA NextShut ==
  ASSUME Shut, [Next]_vars
  PROVE  Shut'
<1>1. CASE TreeStep \/ KernelStep
  <2>1. UNCHANGED <<closed, closing, walk, tbl>>
    BY <1>1 DEF TreeStep, KernelStep, backendVars
  <2> QED BY <1>1, <2>1, KernelOnlyDrops DEF Shut
<1>2. CASE WalkStep
  <2>1. ~closed /\ closed' = closed
    BY <1>2 DEF Shut, WalkStep, VisitDir, ListDir, Walking, CloseQuiet
  <2> QED BY <2>1 DEF Shut
<1>3. CASE ReaderStep
  <2>1. closed' = closed /\ closing' = closing
    BY <1>3 DEF ReaderStep, PrepareRead, Read, ReadClosed, ExpirePendingMoves, HandleUnknown, HandleGone,
       HandleMoveSelf, HandleMovedFrom, HandleMovedWithin, HandleNewDir, HandleOther, Handle, CloseQuiet
  <2>2. closed => DOMAIN tbl.wd = {}
    BY DEF Shut, newWatches, NoFunction
  <2>3. closed => ~ExpirePendingMoves
    BY DEF ExpirePendingMoves
  <2>4. closed => /\ ~HandleGone /\ ~HandleMoveSelf /\ ~HandleMovedFrom /\ ~HandleMovedWithin
                  /\ ~HandleNewDir /\ ~HandleOther
    BY <2>2 DEF HandleGone, HandleMoveSelf, HandleMovedFrom, HandleMovedWithin, HandleNewDir, HandleOther,
       AppearsDir, Known
  <2>5. closed => UNCHANGED <<walk, tbl, kwatch>>
    BY <1>3, <2>3, <2>4 DEF ReaderStep, PrepareRead, Read, ReadClosed, HandleUnknown, KernelQuiet, kernelVars
  <2> QED BY <2>1, <2>5 DEF Shut
<1>4. CASE \/ \E p \in PlainPaths : AddPlain(p)
           \/ \E p \in RecursivePaths : AddRecursive(p)
           \/ \E p \in Path : RemoveWatch(p)
  <2>1. ~closing /\ closed' = closed
    BY <1>4 DEF AddPlain, AddRecursive, RemoveWatch, Open, CloseQuiet
  <2> QED BY <2>1 DEF Shut
<1>5. CASE CloseBegin
  <2>1. closed' = closed /\ closing' = TRUE /\ walk' = walk /\ tbl' = tbl /\ kwatch' = kwatch
    BY <1>5 DEF CloseBegin, kernelVars
  <2> QED BY <2>1 DEF Shut
<1>6. CASE CloseFinish
  BY <1>6 DEF CloseFinish, CloseInstance, MuFree, Walking, Shut
<1>7. CASE UNCHANGED vars
  BY <1>7 DEF Shut, vars, backendVars, kernelVars
<1> QED BY <1>1, <1>2, <1>3, <1>4, <1>5, <1>6, <1>7 DEF Next

(* RC-019: after Close nothing is left in the tables and in the instance,  *)
(* and no call that was waiting for the mutex, no walk and no event puts   *)
(* anything there (backend_inotify.go:456-476 and the closed checks of     *)
(* AddWith and Remove).                                                    *)
THEOREM ClosedStaysEmpty == Spec => []ClosedIsEmpty
<1>1. Init => Shut
  BY DEF Init, BackendInit, Shut
<1>2. Shut /\ [Next]_vars => Shut'
  BY NextShut
<1>3. Shut => ClosedIsEmpty
  BY DEF Shut, ClosedIsEmpty
<1> QED BY <1>1, <1>2, <1>3, PTL DEF Spec

-----------------------------------------------------------------------------
(* Every step leaves the tables right, or ends the program.                *)
-----------------------------------------------------------------------------
(* The descriptors of the kernel: none is 0, and each was handed out.      *)
WdsSound == nextWd \in Nat \ {0} /\ \A d \in DOMAIN kwatch : d \in Nat \ {0} /\ d < nextWd

(* The inductive invariant behind FlagsAgree and TablesInverse, next to    *)
(* SoundTables.                                                            *)
RightTables ==
  /\ FlagsBut(tbl, {}) /\ NoWd \notin DOMAIN tbl.wd
  /\ Alive => Paired(tbl)
  /\ Walking => walk.owners # {}

(* register is given the descriptor of another watch for a path that has   *)
(* one: the path and the object it now names are both watched.             *)
Clash(p) == p \in DOMAIN fs /\ ClashIn(tbl, p, WdFor(p))
Clashes ==
  \/ \E p \in PlainPaths : AddPlain(p) /\ Clash(p)
  \/ VisitDir /\ Clash(Head(walk.todo).path)

LEMMA WdForIsWd ==
  ASSUME WdsSound, NEW p
  PROVE  /\ WdFor(p) \in Nat \ {0} /\ WdFor(p) # NoWd
         /\ WdFor(p) \notin DOMAIN kwatch => WdFor(p) = nextWd
<1> DEFINE ds == WdsOf(kwatch, fs[p])
<1>1. ds \subseteq DOMAIN kwatch
  BY DEF WdsOf
<1>2. WdFor(p) = IF ds = {} THEN nextWd ELSE CHOOSE d \in ds : TRUE
  BY DEF WdFor
<1> HIDE DEF ds
<1>3. ds # {} => WdFor(p) \in ds
  BY <1>2
<1>4. WdFor(p) = nextWd \/ WdFor(p) \in DOMAIN kwatch
  BY <1>1, <1>2, <1>3
<1> QED BY <1>4 DEF WdsSound, NoWd

(* What a step may do to the instance. *)
LEMMA NextWds ==
  ASSUME WdsSound, [Next]_vars
  PROVE  WdsSound'
<1> DEFINE Drops == DOMAIN kwatch' \subseteq DOMAIN kwatch /\ nextWd' = nextWd
           Adds  == \E p : AddWatch(p)
<1>1. \A ds : RmWatches(ds) => Drops
  BY DEF RmWatches
<1>2. KernelQuiet => Drops
  BY DEF KernelQuiet
<1>3. UNCHANGED kernelVars => Drops
  BY DEF kernelVars
<1>4. CASE Drops
  BY <1>4 DEF WdsSound
<1>5. ASSUME NEW p, AddWatch(p)
      PROVE  WdsSound'
  BY <1>5, WdForIsWd DEF AddWatch, WdsSound
<1> HIDE DEF Drops
<1>6. CASE TreeStep \/ KernelStep
  BY <1>4, <1>6, KernelOnlyDrops DEF Drops
<1>7. CASE WalkStep
  BY <1>1, <1>2, <1>4, <1>5, <1>7 DEF WalkStep, VisitDir, ListDir, Abort
<1>8. CASE ReaderStep
  <2>1. Read => Drops
    BY DEF Read, Drops
  <2>2. PrepareRead \/ ReadClosed => Drops
    BY <1>3 DEF PrepareRead, ReadClosed
  <2>3. ExpirePendingMoves \/ HandleMoveSelf \/ HandleMovedWithin => Drops
    BY <1>1, <1>2 DEF ExpirePendingMoves, HandleMoveSelf, HandleMovedWithin, ReleaseUser
  <2>4. HandleNewDir => Drops
    BY <1>1 DEF HandleNewDir
  <2>5. HandleUnknown \/ HandleGone \/ HandleMovedFrom \/ HandleOther => Drops
    BY <1>2 DEF HandleUnknown, HandleGone, HandleMovedFrom, HandleOther
  <2> QED BY <1>4, <1>8, <2>1, <2>2, <2>3, <2>4, <2>5 DEF ReaderStep
<1>9. CASE \E p \in PlainPaths : AddPlain(p)
  BY <1>1, <1>4, <1>5, <1>9 DEF AddPlain, ReleaseUser
<1>10. CASE (\E p \in RecursivePaths : AddRecursive(p)) \/ (\E p \in Path : RemoveWatch(p))
  BY <1>1, <1>2, <1>4, <1>10 DEF AddRecursive, RemoveWatch, ReleaseUser
<1>11. CASE CloseBegin
  BY <1>3, <1>4, <1>11 DEF CloseBegin
<1>12. CASE CloseFinish
  <2>1. Drops
    BY <1>12 DEF CloseFinish, CloseInstance, Drops
  <2> QED BY <1>4, <2>1
<1>13. CASE UNCHANGED vars
  BY <1>3, <1>4, <1>13 DEF vars
<1> QED BY <1>6, <1>7, <1>8, <1>9, <1>10, <1>11, <1>12, <1>13 DEF Next

LEMMA RightNow ==
  ASSUME SoundTables, RightTables, Alive
  PROVE  Right(tbl) /\ ~tbl.panicked
BY DEF SoundTables, RightTables, Right, Alive

(* The new table of a step that begins no walk. *)
LEMMA RightStays ==
  ASSUME NEW ds, RightResult(tbl, tbl', ds), Alive, Walking' => walk'.owners # {}
  PROVE  RightTables' /\ ~tbl'.panicked
BY DEF RightResult, Right, RightTables, Alive

LEMMA NewWatchesRight == Right(newWatches) /\ ~newWatches.panicked
<1>1. DOMAIN NoFunction = {}
  BY DEF NoFunction
<1>2. TableSound(newWatches)
  BY <1>1 DEF newWatches, TableSound, IsTable, UsersSound, PathsSound, OwnersSound, OwnedIsListed
<1> QED BY <1>1, <1>2 DEF Right, Paired, FlagsBut, newWatches

LEMMA AddPlainRight ==
  ASSUME SoundTables, RightTables, WdsSound, NEW p \in PlainPaths, AddPlain(p)
  PROVE  RightTables' /\ (tbl'.panicked => Clash(p))
<1> DEFINE t  == addUser(tbl, p, FALSE)
           d  == WdFor(p)
           t1 == register(t, p, d, {p})
<1>1. /\ IsPath(p) /\ p \notin tbl.byUser /\ walk = NoWalk /\ walk' = walk
      /\ Right(tbl) /\ ~tbl.panicked
  BY RightNow, ModelPath, BackendAssumption DEF AddPlain, MuFree, Walking
<1>2. /\ Right(t) /\ ~t.panicked /\ p \in t.byUser /\ p \notin t.recurse
      /\ t.path = tbl.path /\ t.wd = tbl.wd
  <2>1. \A r \in BOOLEAN : RightResult(tbl, addUser(tbl, p, r), {})
    BY <1>1, AddUserRight
  <2>2. IsTable(tbl) /\ TableSound(tbl)
    BY <1>1 DEF Right, TableSound
  <2>3. \A r : /\ addUser(tbl, p, r).path = tbl.path /\ addUser(tbl, p, r).wd = tbl.wd
               /\ addUser(tbl, p, r).byUser = tbl.byUser \cup {p}
    BY <2>2 DEF addUser, IsTable
  <2>4. t.recurse = IF FALSE THEN tbl.recurse \cup {p} ELSE tbl.recurse
    BY <1>1, <2>2, AddUserSound, Zenon
  <2>5. RightResult(tbl, t, {}) /\ t.path = tbl.path /\ t.wd = tbl.wd /\ t.byUser = tbl.byUser \cup {p}
    BY <2>1, <2>3, Zenon
  <2> HIDE DEF t
  <2> QED BY <1>1, <2>2, <2>4, <2>5 DEF RightResult, TableSound, UsersSound
<1>3. \/ /\ p \in DOMAIN fs
         /\ tbl' = IF p \in DOMAIN t1.path THEN t1 ELSE releaseOwner(t1, p).tbl
      \/ tbl' = releaseOwner(t, p).tbl
  BY DEF AddPlain, ReleaseUser
<1> HIDE DEF t
<1>4. d # NoWd
  BY WdForIsWd
<1>5. ClashIn(t, p, d) = ClashIn(tbl, p, d)
  BY <1>2 DEF ClashIn
<1> HIDE DEF d
<1>6. /\ TableSound(t1) /\ FlagsBut(t1, {}) /\ NoWd \notin DOMAIN t1.wd
      /\ ClashIn(t, p, d) => p \in DOMAIN t1.path
      /\ ~ClashIn(t, p, d) => Paired(t1) /\ (t1.panicked => t.panicked)
      /\ ClashIn(t, p, d) => t1.panicked
  <2>1. {p} # {} /\ \A u \in {p} : Owns(t, u, p)
    BY <1>2 DEF Owns
  <2> QED BY <1>1, <1>2, <1>4, <2>1, RegisterRight
<1> HIDE DEF t1
<1>7. CASE tbl' = releaseOwner(t, p).tbl
  <2>1. RightResult(t, tbl', releaseOwner(t, p).wds)
    BY <1>2, <1>7, ReleaseOwnerRight
  <2> QED BY <1>1, <1>2, <2>1 DEF RightResult, Right, RightTables, Walking
<1>8. CASE p \in DOMAIN fs /\ p \in DOMAIN t1.path /\ tbl' = t1
  BY <1>1, <1>2, <1>5, <1>6, <1>8 DEF RightTables, Walking, Alive, Clash, d
<1>9. CASE p \notin DOMAIN t1.path /\ tbl' = releaseOwner(t1, p).tbl
  <2>1. Right(t1) /\ ~t1.panicked
    BY <1>2, <1>6, <1>9 DEF Right
  <2>2. RightResult(t1, tbl', releaseOwner(t1, p).wds)
    BY <1>9, <2>1, ReleaseOwnerRight
  <2> QED BY <1>1, <2>1, <2>2 DEF RightResult, Right, RightTables, Walking
<1> QED BY <1>3, <1>7, <1>8, <1>9

LEMMA AbortRight ==
  ASSUME SoundTables, RightTables, Alive, Abort
  PROVE  RightTables' /\ ~tbl'.panicked
<1>1. \E ds : RightResult(tbl, tbl', ds)
  BY RightNow, ReleaseOwnerRight, RollbackRight DEF Abort
<1>2. ~Walking'
  BY DEF Abort, Walking
<1> QED BY <1>1, <1>2, RightStays

LEMMA VisitDirRight ==
  ASSUME SoundTables, RightTables, WdsSound, VisitDir
  PROVE  RightTables' /\ (tbl'.panicked => Clash(Head(walk.todo).path))
<1> DEFINE p     == Head(walk.todo).path
           added == walk.owners \ OwnersOf(tbl, p)
           t     == register(tbl, p, WdFor(p), walk.owners)
           regs  == IF added # {} /\ Watched(t, p) THEN Put(walk.regs, p, added) ELSE walk.regs
           todo  == <<List(p)>> \o Tail(walk.todo)
           v     == [walk EXCEPT !.regs = regs]
<1>1. walk # NoWalk /\ Alive /\ Right(tbl) /\ ~tbl.panicked /\ walk.owners # {}
  BY RightNow DEF VisitDir, RightTables, Walking
<1>2. \/ p \in DOMAIN fs /\ tbl' = t /\ Continue(v, todo)
      \/ Abort
  BY DEF VisitDir
<1>3. CASE Abort
  BY <1>1, <1>3, AbortRight
<1>4. CASE p \in DOMAIN fs /\ tbl' = t /\ Continue(v, todo)
  <2>1. /\ IsPath(p) /\ \A u \in walk.owners : Under(p, u)
        /\ TableSound(tbl) /\ walk.owners \subseteq tbl.recurse
    BY <1>1, HeadOfTodo DEF SoundTables, WalkSound
  <2>2. \A u \in walk.owners : Owns(tbl, u, p)
    BY <2>1 DEF Owns, TableSound, UsersSound
  <2>3. walk \in [by : {walk.by}, root : {walk.root}, owners : {walk.owners}, todo : {walk.todo},
                  regs : {walk.regs}, before : {walk.before}]
    BY <1>1 DEF SoundTables, WalkSound
  <2> HIDE DEF p, todo, regs
  <2>4. walk' = NoWalk \/ walk' = [v EXCEPT !.todo = todo]
    BY <1>4 DEF Continue
  <2>5. walk' # NoWalk => walk'.owners = walk.owners
    BY <2>3, <2>4
  <2>6. WdFor(p) # NoWd
    BY WdForIsWd
  <2>7. /\ FlagsBut(t, {}) /\ NoWd \notin DOMAIN t.wd
        /\ ~ClashIn(tbl, p, WdFor(p)) => Paired(t) /\ (t.panicked => tbl.panicked)
        /\ ClashIn(tbl, p, WdFor(p)) => t.panicked
    BY <1>1, <2>1, <2>2, <2>6, RegisterRight
  <2> HIDE DEF t
  <2> QED BY <1>1, <1>4, <2>5, <2>7 DEF RightTables, Walking, Alive, Clash, p
<1> QED BY <1>2, <1>3, <1>4

LEMMA ListDirRight ==
  ASSUME SoundTables, RightTables, ListDir
  PROVE  RightTables' /\ ~tbl'.panicked
<1> DEFINE todo == SubDirs(Head(walk.todo).path) \o Tail(walk.todo)
<1>1. walk # NoWalk /\ Alive /\ Right(tbl) /\ ~tbl.panicked /\ walk.owners # {}
  BY RightNow DEF ListDir, RightTables, Walking
<1>2. (tbl' = tbl /\ Continue(walk, todo)) \/ Abort
  BY DEF ListDir
<1> HIDE DEF todo
<1>3. CASE Abort
  BY <1>1, <1>3, AbortRight
<1>4. CASE tbl' = tbl /\ Continue(walk, todo)
  <2>1. walk \in [by : {walk.by}, root : {walk.root}, owners : {walk.owners}, todo : {walk.todo},
                  regs : {walk.regs}, before : {walk.before}]
    BY <1>1 DEF SoundTables, WalkSound
  <2>2. walk' = NoWalk \/ walk' = [walk EXCEPT !.todo = todo]
    BY <1>4 DEF Continue
  <2>3. walk' # NoWalk => walk'.owners = walk.owners
    BY <2>1, <2>2
  <2> QED BY <1>1, <1>4, <2>3 DEF RightTables, Walking, Alive, Right
<1> QED BY <1>2, <1>3, <1>4

LEMMA CallsRight ==
  ASSUME SoundTables, RightTables,
         \/ \E p \in RecursivePaths : AddRecursive(p)
         \/ \E p \in Path : RemoveWatch(p)
         \/ CloseBegin \/ CloseFinish
  PROVE  RightTables' /\ ~tbl'.panicked
<1>1. Alive /\ walk = NoWalk /\ Right(tbl) /\ ~tbl.panicked
  BY RightNow DEF AddRecursive, RemoveWatch, CloseBegin, CloseFinish, MuFree, Walking
<1>2. ASSUME NEW p \in RecursivePaths, AddRecursive(p)
      PROVE  RightTables' /\ ~tbl'.panicked
  <2> DEFINE t == addUser(tbl, p, TRUE)
  <2>1. IsPath(p) /\ p \notin tbl.byUser
    BY <1>2, ModelPath, BackendAssumption DEF AddRecursive
  <2>2. \A r \in BOOLEAN : RightResult(tbl, addUser(tbl, p, r), {})
    BY <1>1, <2>1, AddUserRight
  <2>3. RightResult(tbl, t, {})
    BY <2>2, Zenon
  <2>4. \/ tbl' = t /\ walk' = Walk("add", p, {p}, tbl)
        \/ tbl' = releaseOwner(t, p).tbl /\ walk' = walk
    BY <1>2 DEF AddRecursive, ReleaseUser
  <2> HIDE DEF t
  <2>5. CASE tbl' = t /\ walk' = Walk("add", p, {p}, tbl)
    <3>1. walk'.owners # {}
      BY <2>5 DEF Walk
    <3> QED BY <1>1, <2>3, <2>5, <3>1, RightStays
  <2>6. CASE tbl' = releaseOwner(t, p).tbl /\ walk' = walk
    <3>1. Right(t) /\ (t.panicked => tbl.panicked)
      BY <2>3 DEF RightResult
    <3>2. RightResult(t, tbl', releaseOwner(t, p).wds)
      BY <2>6, <3>1, ReleaseOwnerRight
    <3> QED BY <1>1, <2>6, <3>1, <3>2 DEF RightResult, Right, RightTables, Walking
  <2> QED BY <2>4, <2>5, <2>6
<1>3. ASSUME NEW p \in Path, RemoveWatch(p)
      PROVE  RightTables' /\ ~tbl'.panicked
  <2>1. tbl' = releaseOwner(tbl, p).tbl /\ walk' = NoWalk
    BY <1>1, <1>3 DEF RemoveWatch, ReleaseUser
  <2> QED BY <1>1, <2>1, ReleaseOwnerRight, RightStays DEF Walking
<1>4. CASE CloseBegin \/ CloseFinish
  <2>1. (tbl' = tbl \/ tbl' = newWatches) /\ walk' = NoWalk
    BY <1>1, <1>4 DEF CloseBegin, CloseFinish
  <2> QED BY <1>1, <2>1, NewWatchesRight DEF Right, RightTables, Walking, Alive
<1> QED BY <1>2, <1>3, <1>4

LEMMA ReaderRight ==
  ASSUME SoundTables, RightTables, ReaderStep
  PROVE  RightTables' /\ ~tbl'.panicked
<1>1. Alive /\ Right(tbl) /\ ~tbl.panicked
  <2>1. Alive
    BY DEF ReaderStep, PrepareRead, Read, ReadClosed, ExpirePendingMoves,
       HandleUnknown, HandleGone, HandleMoveSelf, HandleMovedFrom, HandleMovedWithin,
       HandleNewDir, HandleOther, Handle, MuFree
  <2> QED BY <2>1, RightNow
<1>2. CASE PrepareRead \/ Read \/ ReadClosed \/ HandleUnknown \/ HandleOther \/ HandleMovedFrom
  <2>1. tbl' = tbl /\ walk' = walk
    BY <1>2 DEF PrepareRead, Read, ReadClosed, HandleUnknown, HandleOther, HandleMovedFrom
  <2> QED BY <1>1, <2>1 DEF RightTables, Walking, Alive
<1>3. CASE ExpirePendingMoves
  <2>1. /\ walk' = NoWalk
        /\ tbl' = tbl \/ tbl' = detachSubtrees(tbl, Range(pending)).tbl
    BY <1>3 DEF ExpirePendingMoves, MuFree, Walking, DetachExpired
  <2>2. CASE tbl' = tbl
    BY <1>1, <2>1, <2>2 DEF RightTables, Walking, Alive
  <2> QED BY <1>1, <2>1, <2>2, DetachSubtreesRight, RightStays DEF Walking
<1>4. CASE HandleGone
  <2>1. walk' = NoWalk /\ tbl' = remove(tbl, Ev.wd) /\ Ev.wd \in DOMAIN tbl.wd
    BY <1>4 DEF HandleGone, Handle, MuFree, Walking, Known
  <2> QED BY <1>1, <2>1, RemoveRight, RightStays DEF Walking
<1>5. CASE HandleMoveSelf
  <2>1. walk' = NoWalk /\ (tbl' = tbl \/ tbl' = releaseOwner(tbl, TheWatch.path).tbl)
    BY <1>5 DEF HandleMoveSelf, Handle, MuFree, Walking, ReleaseUser
  <2>2. CASE tbl' = tbl
    BY <1>1, <2>1, <2>2 DEF RightTables, Walking, Alive
  <2> QED BY <1>1, <2>1, <2>2, ReleaseOwnerRight, RightStays DEF Walking
<1>6. CASE HandleMovedWithin
  <2> DEFINE us  == recursiveOwners(tbl, TheWatch.path)
             old == pending[Ev.cookie]
  <2>1. /\ walk' = NoWalk /\ tbl' = rebase(tbl, old, EvName, us).tbl
        /\ Known({"create", "to"}) /\ Ev.cookie \in DOMAIN pending
    BY <1>6 DEF HandleMovedWithin, Handle, MuFree, Walking, AppearsDir
  <2>2. TableSound(tbl) /\ IsPath(old) /\ IsPath(EvName) /\ \A u \in us : Under(EvName, u)
    BY <2>1, KnownWatch, OwnersAbove DEF SoundTables, EvName
  <2> HIDE DEF us, old
  <2> QED BY <1>1, <2>1, <2>2, RebaseRight, RightStays DEF Walking
<1>7. CASE HandleNewDir
  <2> DEFINE old == {c \in DOMAIN pending : pending[c] = EvName}
             r   == IF old = {} THEN [tbl |-> tbl, wds |-> {}] ELSE detachSubtree(tbl, EvName)
             us  == recursiveOwners(r.tbl, TheWatch.path)
  <2>1. /\ tbl' = r.tbl
        /\ walk' = NoWalk \/ (us # {} /\ walk' = Walk("subtree", EvName, us, r.tbl))
    BY <1>7 DEF HandleNewDir, Handle, MuFree, Walking
  <2>2. RightResult(tbl, r.tbl, r.wds)
    <3>1. CASE old = {}
      BY <1>1, <3>1 DEF RightResult
    <3>2. CASE old # {}
      BY <1>1, <3>2, DetachSubtreesRight DEF detachSubtree
    <3> QED BY <3>1, <3>2
  <2>3. Walking' => walk'.owners # {}
    BY <2>1 DEF Walking, Walk
  <2> HIDE DEF r
  <2> QED BY <1>1, <2>1, <2>2, <2>3, RightStays
<1> QED BY <1>2, <1>3, <1>4, <1>5, <1>6, <1>7 DEF ReaderStep

LEMMA NextRight ==
  ASSUME SoundTables, RightTables, WdsSound, [Next]_vars
  PROVE  RightTables' /\ (tbl'.panicked /\ Alive => Clashes)
<1>1. CASE TreeStep \/ KernelStep \/ UNCHANGED vars
  <2>1. tbl' = tbl /\ walk' = walk
    BY <1>1 DEF TreeStep, KernelStep, vars, backendVars
  <2> QED BY <2>1 DEF RightTables, Walking, Alive
<1>2. CASE WalkStep
  BY <1>2, VisitDirRight, ListDirRight DEF WalkStep, Clashes
<1>3. CASE ReaderStep
  BY <1>3, ReaderRight
<1>4. CASE \E p \in PlainPaths : AddPlain(p)
  BY <1>4, AddPlainRight DEF Clashes
<1>5. CASE \/ \E p \in RecursivePaths : AddRecursive(p)
           \/ \E p \in Path : RemoveWatch(p)
           \/ CloseBegin \/ CloseFinish
  BY <1>5, CallsRight
<1> QED BY <1>1, <1>2, <1>3, <1>4, <1>5 DEF Next

LEMMA InitRight == Init => RightTables /\ WdsSound /\ NoPanic
<1> SUFFICES ASSUME Init PROVE RightTables /\ WdsSound /\ NoPanic
  OBVIOUS
<1>1. tbl = newWatches /\ walk = NoWalk
  BY DEF Init, BackendInit
<1>2. WdsSound
  BY DEF Init, KernelInit, WdsSound
<1> QED BY <1>1, <1>2, NewWatchesRight DEF RightTables, Right, Walking, NoPanic

LEMMA RightAgrees ==
  ASSUME RightTables
  PROVE  FlagsAgree /\ (NoPanic => TablesInverse)
<1>1. FlagsAgree
  BY DEF RightTables, FlagsBut, FlagsIn, FlagsOf, FlagsAgree
<1>2. NoPanic => TablesInverse
  BY DEF RightTables, Alive, NoPanic, Paired, TablesInverse, PathWd
<1> QED BY <1>1, <1>2

(* After every method of watches (backend_inotify.go:101-432) and every    *)
(* step that calls one, the flags of each watch are right and, unless the  *)
(* program has panicked, path and wd name each other's entries; and the    *)
(* kernel's descriptors are positive numbers it has handed out.            *)
THEOREM TablesAlwaysRight == Spec => [](RightTables /\ WdsSound)
<1>1. SoundTables /\ RightTables /\ WdsSound /\ [Next]_vars => RightTables' /\ WdsSound'
  BY NextRight, NextWds
<1> QED BY <1>1, InitRight, TablesAlwaysSound, PTL DEF Spec

(* The flags of a watch, by which handleEvent decides                      *)
(* whether to report and whether to walk, are at every moment those that   *)
(* its path's users and owners imply: no method that changes owners        *)
(* forgets to call updateFlags (backend_inotify.go:187-202).               *)
THEOREM FlagsAlwaysAgree == Spec => []FlagsAgree
BY TablesAlwaysRight, RightAgrees, PTL

(* As long as no call has panicked, path and wd are inverse to each other: *)
(* rename, removal, rollback and collisions of renamed subtrees leave no   *)
(* path with a descriptor that has no watch (backend_inotify.go:105-140,   *)
(* 309-432).                                                               *)
THEOREM InverseWhileAlive == Spec => [](NoPanic => TablesInverse)
BY TablesAlwaysRight, RightAgrees, PTL

(* RC-019: the one step that can dereference a missing watch is a          *)
(* registration whose path and object both have a watch, and not the same  *)
(* one (updatePath and then addOwner, backend_inotify.go:408-431,          *)
(* 595-636).  No removal, event, rebase, rollback or expiry can panic.     *)
THEOREM OnlyClashesPanic == Spec => [][tbl'.panicked => Clashes]_vars
<1>1. SoundTables /\ RightTables /\ WdsSound /\ [Next]_vars => [tbl'.panicked => Clashes]_vars
  BY NextRight, NextAlive
<1> QED BY <1>1, TablesAlwaysRight, TablesAlwaysSound, PTL DEF Spec

(* RC-019: an execution in which no registration clashes never panics,     *)
(* and its tables are inverse throughout.                                  *)
THEOREM NoPanicWithoutClash == Spec /\ [][~Clashes]_vars => [](NoPanic /\ TablesInverse)
<1>1. SoundTables /\ RightTables /\ WdsSound /\ NoPanic /\ [Next]_vars /\ [~Clashes]_vars => NoPanic'
  BY NextRight DEF NoPanic, Alive, vars, backendVars
<1> QED BY <1>1, InitRight, TablesAlwaysRight, TablesAlwaysSound, InverseWhileAlive, PTL DEF Spec

-----------------------------------------------------------------------------
(* The events on their way, and the watches they say are gone.             *)
-----------------------------------------------------------------------------
LEMMA ToSetSeq ==
  ASSUME NEW S, NEW s \in Seq(S)
  PROVE  s \in Seq(ToSet(s)) /\ ToSet(s) \subseteq S
<1>1. ToSet(s) = Range(s)
  BY DEF ToSet, Range
<1> QED BY <1>1, SeqOfRange, RangeOfSeq

LEMMA ToSetConcat ==
  ASSUME NEW a, NEW b, a \in Seq(ToSet(a)), b \in Seq(ToSet(b))
  PROVE  a \o b \in Seq(ToSet(a \o b)) /\ ToSet(a \o b) = ToSet(a) \cup ToSet(b)
<1> DEFINE S == ToSet(a) \cup ToSet(b)
<1>1. a \in Seq(S) /\ b \in Seq(S)
  BY SeqMonotonic
<1>2. a \o b \in Seq(S)
  BY <1>1, ConcatProperties
<1>3. Range(a \o b) = Range(a) \cup Range(b)
  BY <1>1, RangeConcatenation
<1>4. \A s : ToSet(s) = Range(s)
  BY DEF ToSet, Range
<1> QED BY <1>2, <1>3, <1>4, ToSetSeq

LEMMA ToSetTail ==
  ASSUME NEW s, s \in Seq(ToSet(s)), s # <<>>
  PROVE  /\ Tail(s) \in Seq(ToSet(Tail(s)))
         /\ ToSet(s) = {Head(s)} \cup ToSet(Tail(s))
<1>1. /\ Head(s) \in ToSet(s) /\ Tail(s) \in Seq(ToSet(s)) /\ Len(Tail(s)) = Len(s) - 1
      /\ \A i \in 1..Len(Tail(s)) : Tail(s)[i] = s[i + 1]
  BY HeadTailProperties
<1>2. Len(s) \in Nat /\ DOMAIN s = 1..Len(s) /\ DOMAIN Tail(s) = 1..(Len(s) - 1) /\ Head(s) = s[1]
  BY <1>1, LenProperties
<1>3. Tail(s) \in Seq(ToSet(Tail(s))) /\ ToSet(Tail(s)) \subseteq ToSet(s)
  BY <1>1, ToSetSeq
<1>4. ASSUME NEW e \in ToSet(s), e # Head(s)
      PROVE  e \in ToSet(Tail(s))
  <2>1. PICK i \in 1..Len(s) : e = s[i]
    BY <1>2 DEF ToSet
  <2>2. i # 1 /\ i - 1 \in 1..(Len(s) - 1) /\ i = (i - 1) + 1
    BY <1>2, <1>4, <2>1
  <2>3. Tail(s)[i - 1] = e
    BY <1>1, <2>1, <2>2
  <2> QED BY <1>2, <2>2, <2>3 DEF ToSet
<1> QED BY <1>1, <1>3, <1>4

(* A sequence cut in two. *)
LEMMA ToSetCut ==
  ASSUME NEW s, s \in Seq(ToSet(s)), NEW n \in 0..Len(s)
  PROVE  LET a == SubSeq(s, 1, n)
             b == SubSeq(s, n + 1, Len(s))
         IN  /\ a \in Seq(ToSet(a)) /\ b \in Seq(ToSet(b)) /\ Len(a) = n
             /\ ToSet(s) = ToSet(a) \cup ToSet(b)
<1> DEFINE a == SubSeq(s, 1, n)
           b == SubSeq(s, n + 1, Len(s))
<1>1. Len(s) \in Nat /\ \A i \in 1..Len(s) : s[i] \in ToSet(s)
  BY LenProperties, ElementOfSeq
<1>2. a \in Seq(ToSet(s)) /\ b \in Seq(ToSet(s)) /\ Len(a) = n
  BY <1>1, SubSeqProperties
<1>3. a \o b = s
  <2>1. 1 \in 1..Len(s) + 1 /\ n \in (1 - 1)..Len(s) /\ Len(s) \in n..Len(s)
    BY <1>1
  <2>2. a \o b = SubSeq(s, 1, Len(s))
    BY <2>1, ConcatAdjacentSubSeq
  <2> QED BY <2>2, SubSeqFull
<1>4. a \in Seq(ToSet(a)) /\ b \in Seq(ToSet(b))
  BY <1>2, ToSetSeq
<1> HIDE DEF a, b
<1>5. ToSet(s) = ToSet(a) \cup ToSet(b)
  BY <1>3, <1>4, ToSetConcat
<1> QED BY <1>2, <1>4, <1>5 DEF a, b

LEMMA ToSetEmpty == <<>> \in Seq(ToSet(<<>>)) /\ ToSet(<<>>) = {}
<1>1. ToSet(<<>>) = {}
  BY DEF ToSet
<1> QED BY <1>1

LEMMA PushIs ==
  ASSUME NEW q, NEW es, q \in Seq(ToSet(q)), es \in Seq(ToSet(es))
  PROVE  LET n == Push(q, es)
         IN  /\ n \in Seq(ToSet(n))
             /\ ToSet(q) \subseteq ToSet(n)
             /\ ToSet(n) \subseteq ToSet(q) \cup ToSet(es) \cup {Overflow}
             /\ Overflow \notin ToSet(n) => ToSet(es) \subseteq ToSet(n)
<1> DEFINE room == IF Len(q) < MaxQueue THEN MaxQueue - Len(q) ELSE 0
           k    == IF Len(es) < room THEN Len(es) ELSE room
           a    == SubSeq(es, 1, k)
           kept == q \o a
           n    == Push(q, es)
<1>1. n = IF Len(es) <= room \/ Overflow \in ToSet(kept) THEN kept ELSE Append(kept, Overflow)
  BY DEF Push
<1>2. Len(q) \in Nat /\ Len(es) \in Nat
  BY LenProperties
<1>3. room \in Nat
  BY <1>2, KernelAssumption
<1>4. k \in 0..Len(es) /\ (Len(es) <= room => k = Len(es))
  BY <1>2, <1>3
<1> HIDE DEF room, k
<1>5. a \in Seq(ToSet(a)) /\ ToSet(a) \subseteq ToSet(es)
  BY <1>4, ToSetCut
<1>6. Len(es) <= room => a = es
  BY <1>4, SubSeqFull
<1> HIDE DEF a
<1>7. kept \in Seq(ToSet(kept)) /\ ToSet(kept) = ToSet(q) \cup ToSet(a)
  BY <1>5, ToSetConcat
<1> HIDE DEF kept, n
<1>8. CASE n = kept /\ (Len(es) <= room \/ Overflow \in ToSet(kept))
  BY <1>5, <1>6, <1>7, <1>8 DEF n
<1>9. CASE n = Append(kept, Overflow)
  <2> DEFINE o == <<Overflow>>
  <2>1. o \in Seq(ToSet(o)) /\ ToSet(o) = {Overflow}
    BY DEF ToSet
  <2>2. n = kept \o o
    <3>1. kept \in Seq(ToSet(kept) \cup {Overflow})
      BY <1>7, SeqMonotonic
    <3> QED BY <1>9, <3>1, AppendIsConcat
  <2> HIDE DEF o
  <2>3. kept \o o \in Seq(ToSet(kept \o o)) /\ ToSet(kept \o o) = ToSet(kept) \cup ToSet(o)
    BY <1>7, <2>1, ToSetConcat
  <2> QED BY <1>5, <1>7, <2>1, <2>2, <2>3 DEF n
<1> QED BY <1>1, <1>8, <1>9

(* The events that say a watch is gone. *)
Ends(e) == e.kind \in {"ignored", "delete_self"}

(* The events es say what becomes of the watches of the inodes ended.      *)
Tells(es, ended) ==
  /\ es \in Seq(ToSet(es))
  /\ \A e \in ToSet(es) : Ends(e) => e.wd \in DOMAIN kwatch /\ kwatch[e.wd] \in ended
  /\ \A d \in DOMAIN kwatch : kwatch[d] \in ended => \E e \in ToSet(es) : Ends(e) /\ e.wd = d

OneEach == \A c, d \in DOMAIN kwatch : kwatch[c] = kwatch[d] => c = d

LEMMA TellsNothing == Tells(<<>>, {})
BY ToSetEmpty DEF Tells

LEMMA TellsBoth ==
  ASSUME NEW a, NEW b, NEW A, NEW B, Tells(a, A), Tells(b, B)
  PROVE  Tells(a \o b, A \cup B)
<1>1. a \o b \in Seq(ToSet(a \o b)) /\ ToSet(a \o b) = ToSet(a) \cup ToSet(b)
  BY ToSetConcat DEF Tells
<1> QED BY <1>1 DEF Tells

LEMMA EventsTell ==
  ASSUME NEW n, OneEach
  PROVE  /\ n.kind \in {"create", "delete", "from", "to", "move_self"} => Tells(EventsOf(n), {})
         /\ n.kind = "gone" => Tells(EventsOf(n), {n.ino})
<1> DEFINE ds == WdsOf(kwatch, n.ino)
           d  == CHOOSE x \in ds : TRUE
           e1 == Event("delete_self", d, n)
           e2 == Event("ignored", d, n)
           e3 == Event(n.kind, d, n)
<1>1. \A x : x \in ds <=> x \in DOMAIN kwatch /\ kwatch[x] = n.ino
  BY DEF WdsOf
<1>2. EventsOf(n) = IF ds = {} THEN <<>> ELSE IF n.kind = "gone" THEN <<e1, e2>> ELSE <<e3>>
  BY DEF EventsOf
<1>3. /\ Ends(e1) /\ e1.wd = d /\ e2.wd = d
      /\ n.kind \in {"create", "delete", "from", "to", "move_self"} => ~Ends(e3)
  BY DEF Event, Ends
<1> HIDE DEF ds, e1, e2, e3
<1>4. ds # {} => d \in ds
  OBVIOUS
<1>5. ds # {} => ds = {d}
  BY <1>1, <1>4 DEF OneEach
<1> HIDE DEF d
<1>6. CASE ds = {}
  <2>1. EventsOf(n) = <<>>
    BY <1>2, <1>6
  <2> QED BY <1>1, <1>6, <2>1, ToSetEmpty DEF Tells
<1>7. CASE ds # {} /\ n.kind = "gone"
  <2> DEFINE es == <<e1, e2>>
  <2>1. EventsOf(n) = es
    BY <1>2, <1>7
  <2>2. es \in Seq(ToSet(es)) /\ ToSet(es) = {e1, e2}
    BY DEF ToSet
  <2> HIDE DEF es
  <2> QED BY <1>1, <1>3, <1>5, <1>7, <2>1, <2>2 DEF Tells
<1>8. CASE ds # {} /\ n.kind # "gone"
  <2> DEFINE es == <<e3>>
  <2>1. EventsOf(n) = es
    BY <1>2, <1>8
  <2>2. es \in Seq(ToSet(es)) /\ ToSet(es) = {e3}
    BY DEF ToSet
  <2> HIDE DEF es
  <2> QED BY <1>3, <1>8, <2>1, <2>2 DEF Tells
<1> QED BY <1>6, <1>7, <1>8

(* A step that queues es and takes the watches gone from the instance.     *)
Drops(es, gone) ==
  /\ es \in Seq(ToSet(es)) /\ queue' = Push(queue, es) /\ nextWd' = nextWd
  /\ gone \subseteq DOMAIN kwatch
  /\ kwatch' = [d \in DOMAIN kwatch \ gone |-> kwatch[d]]
  /\ \A e \in ToSet(es) : Ends(e) => e.wd \in gone
  /\ \A d \in gone : \E e \in ToSet(es) : Ends(e) /\ e.wd = d

LEMMA QueueDrops ==
  ASSUME NEW es, NEW ended, Queue(es, ended), Tells(es, ended)
  PROVE  \E gone : Drops(es, gone)
<1> DEFINE gone == {d \in DOMAIN kwatch : kwatch[d] \in ended}
<1>1. {x \in DOMAIN kwatch : kwatch[x] \notin ended} = DOMAIN kwatch \ gone
  OBVIOUS
<1>2. kwatch' = [d \in DOMAIN kwatch \ gone |-> kwatch[d]]
  BY <1>1 DEF Queue
<1>3. Drops(es, gone)
  BY <1>2 DEF Queue, Tells, Drops
<1> QED BY <1>3

(* What the rename under way may have left to say. *)
TailSound(s) ==
  s \in Seq(ToSet(s)) /\ \A n \in ToSet(s) : n.kind \in {"from", "to", "move_self", "gone"}

LEMMA KernelDrops ==
  ASSUME OneEach, TailSound(tail), TreeStep \/ KernelStep
  PROVE  (\E es, gone : Drops(es, gone)) /\ TailSound(tail')
<1> DEFINE Fine == (\E es, gone : Drops(es, gone)) /\ TailSound(tail')
<1>1. ASSUME NEW es, NEW ended, NEW later, Notify(es, ended, later), Tells(es, ended), TailSound(later)
      PROVE  Fine
  <2>1. TailSound(tail \o later)
    BY <1>1, ToSetConcat DEF TailSound
  <2> QED BY <1>1, <2>1, QueueDrops DEF Notify
<1>2. TailSound(<<>>)
  BY ToSetEmpty DEF TailSound
<1>3. \A i : Tells(EventsOf(Gone(i)), {i})
  <2> TAKE i
  <2>1. Gone(i).kind = "gone" /\ Gone(i).ino = i
    BY DEF Gone, Note
  <2> HIDE DEF Gone
  <2> QED BY <2>1, EventsTell
<1>4. \A what \in {"create", "delete", "from", "to", "move_self"} :
        \A i, name, c, b : Tells(EventsOf(Note(what, i, name, c, b)), {})
  <2> TAKE what \in {"create", "delete", "from", "to", "move_self"}
  <2> TAKE i, name, c, b
  <2>1. Note(what, i, name, c, b).kind = what
    BY DEF Note
  <2> HIDE DEF Note
  <2> QED BY <2>1, EventsTell
<1> HIDE DEF Fine
<1>5. ASSUME NEW p, NEW what, Create(p, what) PROVE Fine
  <2>1. Tells(EventsOf(Note("create", InodeAt(Dir(p)), Last(p), 0, what = "dir")), {})
    BY <1>4, Zenon
  <2> QED BY <1>1, <1>2, <1>5, <2>1 DEF Create
<1>6. ASSUME NEW p, Unlink(p) PROVE Fine
  <2> DEFINE i      == fs[p]
             parent == EventsOf(Note("delete", InodeAt(Dir(p)), Last(p), 0, kind[i] = "dir"))
             self   == EventsOf(Gone(i))
  <2>1. \/ Notify(parent \o self, {i}, <<>>) \/ Notify(self \o parent, {i}, <<>>)
        \/ Notify(parent, {}, <<>>)
    BY <1>6 DEF Unlink
  <2>2. Tells(parent, {}) /\ Tells(self, {i})
    BY <1>3, <1>4, Zenon
  <2> HIDE DEF parent, self
  <2>3. {} \cup {i} = {i} /\ {i} \cup {} = {i}
    OBVIOUS
  <2>4. Tells(parent \o self, {i}) /\ Tells(self \o parent, {i})
    BY <2>2, <2>3, TellsBoth
  <2> QED BY <1>1, <1>2, <2>1, <2>2, <2>4
<1>7. ASSUME NEW p, NEW q, Rename(p, q) PROVE Fine
  <2> DEFINE i      == fs[p]
             isDir  == kind[i] = "dir"
             from   == Note("from", InodeAt(Dir(p)), Last(p), Cookie, isDir)
             to     == Note("to", InodeAt(Dir(q)), Last(q), Cookie, isDir)
             self   == Note("move_self", i, NoName, 0, isDir)
             gone   == Gone(fs[q])
             events == EventsOf(from) \o EventsOf(to) \o EventsOf(self)
             target == IF q \in DOMAIN fs THEN {fs[q]} ELSE {}
  <2>1. \/ Notify(<<>>, {}, <<from, to, self>>)
        \/ Notify(<<>>, {}, <<from, to, self, gone>>)
        \/ Notify(events, {}, <<>>)
        \/ Notify(events \o EventsOf(gone), target, <<>>) /\ target # {}
    BY <1>7 DEF Rename
  <2>2. Tells(EventsOf(from), {}) /\ Tells(EventsOf(to), {}) /\ Tells(EventsOf(self), {})
    BY <1>4, Zenon
  <2>3. Tells(EventsOf(gone), {fs[q]})
    BY <1>3
  <2>4. from.kind = "from" /\ to.kind = "to" /\ self.kind = "move_self" /\ gone.kind = "gone"
    BY DEF Note, Gone
  <2> HIDE DEF from, to, self, gone
  <2>5. {} \cup {} = {} /\ (target # {} => {} \cup {fs[q]} = target)
    OBVIOUS
  <2>6. Tells(EventsOf(from) \o EventsOf(to), {})
    BY <2>2, <2>5, TellsBoth
  <2>7. Tells(events, {})
    BY <2>2, <2>5, <2>6, TellsBoth
  <2> HIDE DEF events
  <2>8. target # {} => Tells(events \o EventsOf(gone), target)
    BY <2>3, <2>5, <2>7, TellsBoth
  <2> HIDE DEF target
  <2>9. TailSound(<<from, to, self>>)
    <3> DEFINE s == <<from, to, self>>
    <3>1. s \in Seq(ToSet(s)) /\ ToSet(s) = {from, to, self}
      BY DEF ToSet
    <3> HIDE DEF s
    <3>2. TailSound(s)
      BY <2>4, <3>1 DEF TailSound
    <3> QED BY <3>2 DEF s
  <2>10. TailSound(<<from, to, self, gone>>)
    <3> DEFINE s == <<from, to, self, gone>>
    <3>1. s \in Seq(ToSet(s)) /\ ToSet(s) = {from, to, self, gone}
      BY DEF ToSet
    <3> HIDE DEF s
    <3>2. TailSound(s)
      BY <2>4, <3>1 DEF TailSound
    <3> QED BY <3>2 DEF s
  <2> QED BY <1>1, <1>2, <2>1, <2>7, <2>8, <2>9, <2>10, TellsNothing
<1>8. ASSUME RenameNotifies PROVE Fine
  <2> DEFINE n     == Head(tail)
             ended == IF n.kind = "gone" THEN {n.ino} ELSE {}
  <2>1. tail # <<>> /\ Queue(EventsOf(n), ended) /\ tail' = Tail(tail)
    BY <1>8 DEF RenameNotifies
  <2>2. /\ Tail(tail) \in Seq(ToSet(Tail(tail)))
        /\ ToSet(tail) = {n} \cup ToSet(Tail(tail))
    BY <2>1, ToSetTail DEF TailSound
  <2> HIDE DEF n
  <2>3. n.kind \in {"from", "to", "move_self", "gone"} /\ TailSound(tail')
    BY <2>1, <2>2 DEF TailSound
  <2>4. Tells(EventsOf(n), ended)
    BY <2>3, EventsTell
  <2> QED BY <2>1, <2>3, <2>4, QueueDrops DEF Fine
<1>9. ASSUME NEW i, Release(i) PROVE Fine
  BY <1>1, <1>2, <1>3, <1>9 DEF Release
<1>10. Fine
  BY <1>5, <1>6, <1>7, <1>8, <1>9 DEF TreeStep, KernelStep
<1> QED BY <1>10 DEF Fine

(* The rank of a number among those of a finite set: one number for each.  *)
RankIn(S, d) == Cardinality({x \in S : x <= d})

LEMMA Ranks ==
  ASSUME NEW S \in SUBSET Nat, IsFiniteSet(S)
  PROVE  /\ Cardinality(S) \in Nat
         /\ \A d \in S : RankIn(S, d) \in 1..Cardinality(S)
         /\ \A c, d \in S : RankIn(S, c) = RankIn(S, d) => c = d
         /\ \A k \in 1..Cardinality(S) : \E d \in S : RankIn(S, d) = k
<1> DEFINE N == Cardinality(S)
<1>1. IsFiniteSet(S)
  OBVIOUS
<1>2. N \in Nat
  BY <1>1, FS_CardinalityType
<1>3. ASSUME NEW d \in S
      PROVE  RankIn(S, d) \in 1..N
  <2> DEFINE T == {x \in S : x <= d}
  <2>1. T \in SUBSET S /\ d \in T
    OBVIOUS
  <2>2. IsFiniteSet(T) /\ Cardinality(T) <= N
    BY <1>1, <2>1, FS_Subset
  <2> HIDE DEF T
  <2>3. Cardinality(T) \in Nat /\ Cardinality(T) # 0
    BY <2>1, <2>2, FS_CardinalityType, FS_EmptySet
  <2> HIDE DEF N
  <2> QED BY <1>2, <2>2, <2>3 DEF T, RankIn
<1>4. ASSUME NEW c \in S, NEW d \in S, c < d
      PROVE  RankIn(S, c) # RankIn(S, d)
  <2> DEFINE C == {x \in S : x <= c}
             D == {x \in S : x <= d}
  <2>1. \A x \in S : x <= c => x <= d
    BY <1>4
  <2>2. d \in D /\ d \notin C
    BY <1>4
  <2>3. D \in SUBSET S /\ C \in SUBSET D
    BY <2>1
  <2> HIDE DEF C, D
  <2>4. IsFiniteSet(D)
    BY <1>1, <2>3, FS_Subset
  <2>5. Cardinality(D) = Cardinality(C) => D = C
    BY <2>3, <2>4, FS_Subset
  <2> QED BY <2>2, <2>5 DEF C, D, RankIn
<1>5. \A c, d \in S : RankIn(S, c) = RankIn(S, d) => c = d
  <2> SUFFICES ASSUME NEW c \in S, NEW d \in S, RankIn(S, c) = RankIn(S, d), c # d
               PROVE  FALSE
    OBVIOUS
  <2>1. c < d \/ d < c
    OBVIOUS
  <2> QED BY <1>4, <2>1
<1>6. ASSUME NEW k \in 1..N, \A d \in S : RankIn(S, d) # k
      PROVE  FALSE
  <2> DEFINE T == (1..N) \ {k}
             f == [d \in S |-> RankIn(S, d)]
  <2>1. IsFiniteSet(T) /\ Cardinality(T) = N - 1
    <3>1. IsFiniteSet(1..N) /\ Cardinality(1..N) = N
      BY <1>2, FS_Interval
    <3> QED BY <3>1, FS_RemoveElement
  <2>2. f \in [S -> T]
    BY <1>3, <1>6
  <2>3. Cardinality(T) < Cardinality(S)
    BY <1>2, <2>1
  <2> HIDE DEF T, f
  <2>4. PICK x, y \in S : x # y /\ f[x] = f[y]
    BY <1>1, <2>1, <2>2, <2>3, FS_PigeonHole
  <2> QED BY <1>5, <2>4 DEF f
<1> QED BY <1>1, <1>2, <1>3, <1>5, <1>6

LEMMA RmWatchesDrop ==
  ASSUME WdsSound, NEW ds, RmWatches(ds)
  PROVE  \E es : Drops(es, DOMAIN kwatch \cap ds)
<1> DEFINE gone    == DOMAIN kwatch \ DOMAIN kwatch'
           N       == Cardinality(gone)
           Rank(d) == Cardinality({x \in gone : x <= d})
           Nth(k)  == CHOOSE d \in gone : Rank(d) = k
           Ignored(d) == [kind |-> "ignored", wd |-> d, name |-> NoName, cookie |-> 0, dir |-> FALSE]
           es      == [k \in 1..N |-> Ignored(Nth(k))]
<1>1. kwatch' = [d \in DOMAIN kwatch \ ds |-> kwatch[d]] /\ nextWd' = nextWd
  BY DEF RmWatches
<1>2. queue' = Push(queue, es)
  BY DEF RmWatches
<1>3. gone = DOMAIN kwatch \cap ds
  BY <1>1
<1>4. DOMAIN kwatch \ ds = DOMAIN kwatch \ (DOMAIN kwatch \cap ds)
  OBVIOUS
<1>5. gone \in SUBSET Nat /\ IsFiniteSet(gone)
  <2>1. gone \in SUBSET Nat /\ nextWd \in Nat /\ \A x \in gone : x <= nextWd
    BY DEF WdsSound
  <2> HIDE DEF gone
  <2> QED BY <2>1, FS_BoundedSetOfNaturals
<1>6. \A d : Rank(d) = RankIn(gone, d)
  BY DEF RankIn
<1> HIDE DEF gone
<1>7. N \in Nat
  BY <1>5, Ranks
<1> HIDE DEF Rank
<1>8. \A k \in 1..N : \E d \in gone : Rank(d) = k
  BY <1>5, <1>6, Ranks
<1>9. \A d \in gone : Rank(d) \in 1..N
  BY <1>5, <1>6, Ranks
<1>10. \A c, d \in gone : Rank(c) = Rank(d) => c = d
  BY <1>5, <1>6, Ranks
<1> HIDE DEF N
<1>11. \A k \in 1..N : Nth(k) \in gone /\ Rank(Nth(k)) = k
  BY <1>8
<1>12. \A d \in gone : Nth(Rank(d)) = d
  BY <1>9, <1>10, <1>11
<1> HIDE DEF Nth
<1>13. \A d : Ends(Ignored(d)) /\ Ignored(d).wd = d
  BY DEF Ends
<1> DEFINE S == {Ignored(d) : d \in gone}
<1> HIDE DEF Ignored
<1>14. es \in Seq(S)
  BY <1>7, <1>11
<1>15. DOMAIN es = 1..N /\ \A k \in 1..N : es[k] = Ignored(Nth(k))
  OBVIOUS
<1> HIDE DEF es
<1>16. es \in Seq(ToSet(es)) /\ ToSet(es) \subseteq S
  BY <1>14, ToSetSeq
<1>17. \A d \in gone : Ignored(d) \in ToSet(es)
  BY <1>9, <1>12, <1>15 DEF ToSet
<1>18. Drops(es, gone)
  BY <1>1, <1>2, <1>3, <1>4, <1>13, <1>16, <1>17 DEF Drops
<1> QED BY <1>3, <1>18

-----------------------------------------------------------------------------
(* What a step does to the watches of the tables and of the instance.      *)
-----------------------------------------------------------------------------
(* The inductive invariant behind NoLeakedWatch and DroppedIsAnnounced,    *)
(* next to SoundTables and RightTables: an event that says a watch is gone *)
(* is true, and stays true, because descriptors are not used twice.        *)
EventsSound ==
  /\ TailSound(tail) /\ OneEach
  /\ queue \in Seq(ToSet(queue)) /\ buf \in Seq(ToSet(buf))
  /\ reader = "handle" <=> buf # <<>>
  /\ \A e \in ToSet(queue) \cup ToSet(buf) :
       Ends(e) => e.wd \in Nat /\ e.wd < nextWd /\ e.wd \notin DOMAIN kwatch

(* The path has a watch in the kernel, and register is given another.      *)
Reused(p) == PathWd(tbl, p) \in DOMAIN kwatch \ {WdFor(p)}
Reuses ==
  \/ \E p \in PlainPaths : p \in DOMAIN fs /\ Reused(p) /\ AddPlain(p) /\ AddWatch(p)
  \/ VisitDir /\ LET p == Head(walk.todo).path IN p \in DOMAIN fs /\ Reused(p) /\ AddWatch(p)

Shrinks(ds) == DOMAIN tbl'.wd = DOMAIN tbl.wd \ ds

Registers(p) ==
  /\ AddWatch(p)
  /\ DOMAIN tbl'.wd = (DOMAIN tbl.wd \cup {WdFor(p)}) \ ({PathWd(tbl, p)} \ {WdFor(p)})
  /\ Reused(p) => Reuses

WatchesChange ==
  \/ KernelQuiet /\ Shrinks({})
  \/ KernelQuiet /\ Handle /\ Ends(Ev) /\ Shrinks({Ev.wd})
  \/ \E ds : RmWatches(ds) /\ Shrinks(ds)
  \/ \E p : Registers(p)

BufferStays == buf' = buf /\ (reader' = "handle" <=> reader = "handle") /\ tail' = tail

HandleDone == Handle /\ (Ends(Ev) => Ev.wd \notin DOMAIN tbl'.wd)

LEMMA AddPlainChanges ==
  ASSUME SoundTables, RightTables, GrownTables, WdsSound, NEW p \in PlainPaths, AddPlain(p)
  PROVE  WatchesChange /\ BufferStays
<1> DEFINE t  == addUser(tbl, p, FALSE)
           d  == WdFor(p)
           t1 == register(t, p, d, {p})
<1>1. /\ IsPath(p) /\ p \notin tbl.byUser /\ Right(tbl) /\ TableSound(tbl) /\ Full(tbl)
  BY RightNow, ModelPath, BackendAssumption DEF AddPlain, MuFree, SoundTables, GrownTables
<1>2. /\ Right(t) /\ TableSound(t) /\ Full(t) /\ p \in t.byUser /\ p \notin t.recurse
      /\ t.path = tbl.path /\ t.wd = tbl.wd /\ t.owners = tbl.owners
  <2>1. \A r \in BOOLEAN : RightResult(tbl, addUser(tbl, p, r), {})
    BY <1>1, AddUserRight
  <2>2. IsTable(tbl)
    BY <1>1 DEF TableSound
  <2>3. \A r : /\ addUser(tbl, p, r).path = tbl.path /\ addUser(tbl, p, r).wd = tbl.wd
               /\ addUser(tbl, p, r).owners = tbl.owners
               /\ addUser(tbl, p, r).byUser = tbl.byUser \cup {p}
               /\ Full(addUser(tbl, p, r))
    BY <1>1, <2>2, AddUserFull DEF addUser, IsTable
  <2>4. t.recurse = IF FALSE THEN tbl.recurse \cup {p} ELSE tbl.recurse
    BY <1>1, AddUserSound, Zenon
  <2>5. /\ RightResult(tbl, t, {}) /\ t.path = tbl.path /\ t.wd = tbl.wd /\ t.owners = tbl.owners
        /\ t.byUser = tbl.byUser \cup {p} /\ Full(t)
    BY <2>1, <2>3, Zenon
  <2> HIDE DEF t
  <2> QED BY <1>1, <2>4, <2>5 DEF RightResult, Right, TableSound, UsersSound
<1>3. BufferStays
  BY DEF AddPlain, ReaderQuiet, TreeQuiet, BufferStays
<1>4. \/ /\ p \in DOMAIN fs /\ AddWatch(p)
         /\ tbl' = IF p \in DOMAIN t1.path THEN t1 ELSE releaseOwner(t1, p).tbl
      \/ tbl' = releaseOwner(t, p).tbl /\ RmWatches(releaseOwner(t, p).wds)
  BY DEF AddPlain, ReleaseUser
<1> HIDE DEF t
<1>5. d # NoWd
  BY WdForIsWd
<1>6. PathWd(t, p) = PathWd(tbl, p)
  BY <1>2 DEF PathWd
<1> HIDE DEF d
<1>7. /\ TableSound(t1) /\ FlagsBut(t1, {}) /\ NoWd \notin DOMAIN t1.wd
      /\ DOMAIN t1.wd = (DOMAIN t.wd \cup {d}) \ ({PathWd(t, p)} \ {d})
      /\ ~ClashIn(t, p, d) => Paired(t1)
      /\ ClashIn(t, p, d) => p \in DOMAIN t1.path
  <2>1. {p} # {} /\ \A u \in {p} : Owns(t, u, p)
    BY <1>2 DEF Owns
  <2> QED BY <1>1, <1>2, <1>5, <2>1, RegisterRight
<1>8. /\ Full(t1)
      /\ \/ t1.owners = t.owners
         \/ t1.owners = Put(t.owners, p, OwnersOf(t, p) \cup {p})
  <2>1. /\ Full(t1)
        /\ \/ t1.owners = t.owners /\ ({p} # {} => p \notin DOMAIN t1.path)
           \/ /\ {p} # {} /\ t1.owners = Put(t.owners, p, OwnersOf(t, p) \cup {p})
              /\ t1.panicked \/ Watched(t1, p)
    BY <1>1, <1>2, RegisterIs
  <2> QED BY <2>1
<1> HIDE DEF t1
<1>9. CASE tbl' = releaseOwner(t, p).tbl /\ RmWatches(releaseOwner(t, p).wds)
  <2>1. RightResult(t, tbl', releaseOwner(t, p).wds)
    BY <1>2, <1>9, ReleaseOwnerRight
  <2>2. Shrinks(releaseOwner(t, p).wds)
    BY <1>2, <2>1 DEF RightResult, Shrinks
  <2> QED BY <1>3, <1>9, <2>2 DEF WatchesChange
<1>10. ASSUME p \in DOMAIN fs, AddWatch(p), DOMAIN tbl'.wd = DOMAIN t1.wd
       PROVE  WatchesChange
  <2>1. Reused(p) => Reuses
    BY <1>10 DEF Reuses
  <2>2. Registers(p)
    BY <1>2, <1>6, <1>7, <1>10, <2>1 DEF Registers, d
  <2> QED BY <2>2 DEF WatchesChange
<1>11. CASE p \in DOMAIN fs /\ AddWatch(p) /\ p \in DOMAIN t1.path /\ tbl' = t1
  BY <1>3, <1>10, <1>11
<1>12. CASE /\ p \in DOMAIN fs /\ AddWatch(p)
            /\ p \notin DOMAIN t1.path /\ tbl' = releaseOwner(t1, p).tbl
  <2>1. Right(t1)
    BY <1>7, <1>12 DEF Right
  <2>2. RightResult(t1, tbl', releaseOwner(t1, p).wds)
    BY <1>12, <2>1, ReleaseOwnerRight
  <2>3. t1.owners = t.owners
    BY <1>7, <1>8, <1>12 DEF TableSound, OwnedIsListed, Put
  <2>4. \A q \in DOMAIN t1.owners : t1.owners[q] # {} /\ p \notin t1.owners[q]
    BY <1>1, <1>2, <2>3 DEF Full, OwnersFull, TableSound, OwnersSound, Owns
  <2>5. releaseOwner(t1, p).wds = {}
    <3> DEFINE t0     == ForgetUsers(t1, {p})
               t2     == [t0 EXCEPT !.owners = [q \in DOMAIN t0.owners |-> t0.owners[q] \ {p}]]
               unused == {q \in DOMAIN t2.owners : t2.owners[q] = {}}
    <3>1. releaseOwner(t1, p).wds = {PathWd(t1, q) : q \in unused}
      BY DEF releaseOwner
    <3>2. IsTable(t0) /\ t0.owners = t1.owners
      BY <1>7, ForgetUsersIs DEF TableSound
    <3> HIDE DEF t0
    <3>3. t2.owners = [q \in DOMAIN t0.owners |-> t0.owners[q] \ {p}]
      BY <3>2, WithOwnersIs
    <3> HIDE DEF t2
    <3>4. unused = {}
      BY <2>4, <3>2, <3>3
    <3> QED BY <3>1, <3>4
  <2>6. DOMAIN tbl'.wd = DOMAIN t1.wd
    BY <2>2, <2>5 DEF RightResult
  <2> QED BY <1>3, <1>10, <1>12, <2>6
<1> QED BY <1>4, <1>9, <1>11, <1>12

LEMMA AbortChanges ==
  ASSUME SoundTables, RightTables, Alive, Abort
  PROVE  WatchesChange
<1> DEFINE r == IF walk.by = "add" THEN releaseOwner(tbl, walk.root)
                ELSE rollbackRegistrations(tbl, walk.regs)
<1>1. tbl' = r.tbl /\ RmWatches(r.wds)
  BY DEF Abort
<1>2. RightResult(tbl, r.tbl, r.wds)
  BY RightNow, ReleaseOwnerRight, RollbackRight
<1> HIDE DEF r
<1>3. Shrinks(r.wds)
  BY <1>1, <1>2 DEF RightResult, Shrinks
<1> QED BY <1>1, <1>3 DEF WatchesChange

LEMMA WalkChanges ==
  ASSUME SoundTables, RightTables, WdsSound, WalkStep
  PROVE  WatchesChange /\ BufferStays
<1> DEFINE p == Head(walk.todo).path
           t == register(tbl, p, WdFor(p), walk.owners)
<1>1. walk # NoWalk /\ Alive /\ Right(tbl) /\ walk.owners # {} /\ BufferStays
  BY RightNow DEF WalkStep, VisitDir, ListDir, RightTables, Walking, ReaderQuiet, TreeQuiet, BufferStays
<1>2. \/ VisitDir /\ p \in DOMAIN fs /\ tbl' = t /\ AddWatch(p)
      \/ UNCHANGED tbl /\ KernelQuiet
      \/ Abort
  BY DEF WalkStep, VisitDir, ListDir
<1>3. CASE Abort
  BY <1>1, <1>3, AbortChanges
<1>4. CASE UNCHANGED tbl /\ KernelQuiet
  BY <1>1, <1>4 DEF Shrinks, WatchesChange
<1>5. CASE VisitDir /\ p \in DOMAIN fs /\ tbl' = t /\ AddWatch(p)
  <2>1. /\ IsPath(p) /\ \A u \in walk.owners : Under(p, u)
        /\ TableSound(tbl) /\ walk.owners \subseteq tbl.recurse
    BY <1>1, HeadOfTodo DEF SoundTables, WalkSound
  <2>2. \A u \in walk.owners : Owns(tbl, u, p)
    BY <2>1 DEF Owns, TableSound, UsersSound
  <2>3. Reused(p) => Reuses
    BY <1>5 DEF Reuses
  <2> HIDE DEF p
  <2>4. WdFor(p) # NoWd
    BY WdForIsWd
  <2>5. DOMAIN t.wd = (DOMAIN tbl.wd \cup {WdFor(p)}) \ ({PathWd(tbl, p)} \ {WdFor(p)})
    BY <1>1, <2>1, <2>2, <2>4, RegisterRight
  <2>6. Registers(p)
    BY <1>5, <2>3, <2>5 DEF Registers
  <2> QED BY <1>1, <2>6 DEF WatchesChange
<1> QED BY <1>2, <1>3, <1>4, <1>5

LEMMA CallsChange ==
  ASSUME SoundTables, RightTables,
         \/ \E p \in RecursivePaths : AddRecursive(p)
         \/ \E p \in Path : RemoveWatch(p)
         \/ CloseBegin
  PROVE  WatchesChange /\ BufferStays
<1>1. Alive /\ Right(tbl)
  BY RightNow DEF AddRecursive, RemoveWatch, CloseBegin, MuFree
<1>2. BufferStays
  BY DEF AddRecursive, RemoveWatch, CloseBegin, ReaderQuiet, TreeQuiet, kernelVars, BufferStays
<1>3. ASSUME NEW p \in RecursivePaths, AddRecursive(p)
      PROVE  WatchesChange
  <2> DEFINE t == addUser(tbl, p, TRUE)
  <2>1. IsPath(p) /\ p \notin tbl.byUser
    BY <1>3, ModelPath, BackendAssumption DEF AddRecursive
  <2>2. \A r \in BOOLEAN : RightResult(tbl, addUser(tbl, p, r), {})
    BY <1>1, <2>1, AddUserRight
  <2>3. RightResult(tbl, t, {})
    BY <2>2, Zenon
  <2>4. (tbl' = t /\ KernelQuiet) \/ ReleaseUser(t, p)
    BY <1>3 DEF AddRecursive
  <2> HIDE DEF t
  <2>5. CASE tbl' = t /\ KernelQuiet
    BY <2>3, <2>5 DEF RightResult, Shrinks, WatchesChange
  <2>6. CASE ReleaseUser(t, p)
    <3>1. RightResult(t, tbl', releaseOwner(t, p).wds) /\ RmWatches(releaseOwner(t, p).wds)
      BY <2>3, <2>6, ReleaseOwnerRight DEF RightResult, ReleaseUser
    <3> QED BY <2>3, <3>1 DEF RightResult, Shrinks, WatchesChange
  <2> QED BY <2>4, <2>5, <2>6
<1>4. ASSUME NEW p \in Path, RemoveWatch(p)
      PROVE  WatchesChange
  <2>1. RightResult(tbl, tbl', releaseOwner(tbl, p).wds) /\ RmWatches(releaseOwner(tbl, p).wds)
    BY <1>1, <1>4, ReleaseOwnerRight DEF RemoveWatch, ReleaseUser
  <2> QED BY <2>1 DEF RightResult, Shrinks, WatchesChange
<1>5. CASE CloseBegin
  BY <1>2, <1>5 DEF CloseBegin, kernelVars, KernelQuiet, Shrinks, WatchesChange
<1> QED BY <1>2, <1>3, <1>4, <1>5

LEMMA HandleChanges ==
  ASSUME SoundTables, RightTables,
         \/ HandleUnknown \/ HandleGone \/ HandleMoveSelf \/ HandleMovedFrom
         \/ HandleMovedWithin \/ HandleNewDir \/ HandleOther
  PROVE  WatchesChange /\ HandleDone
<1>1. Handle /\ Right(tbl)
  <2>1. Handle
    BY DEF HandleUnknown, HandleGone, HandleMoveSelf, HandleMovedFrom, HandleMovedWithin, HandleNewDir, HandleOther
  <2> QED BY <2>1, RightNow DEF Handle, MuFree
<1>2. ASSUME NEW ds, RightResult(tbl, tbl', ds), RmWatches(ds)
      PROVE  WatchesChange
  BY <1>2 DEF RightResult, Shrinks, WatchesChange
<1>3. ASSUME NEW kinds, Known(kinds), \A k \in kinds : k \notin {"ignored", "delete_self"}
      PROVE  HandleDone
  BY <1>1, <1>3 DEF HandleDone, Known, Ends
<1>4. CASE HandleUnknown
  BY <1>1, <1>4 DEF HandleUnknown, Shrinks, WatchesChange, HandleDone
<1>5. CASE HandleGone
  <2>1. tbl' = remove(tbl, Ev.wd) /\ Ev.wd \in DOMAIN tbl.wd /\ Ends(Ev) /\ KernelQuiet
    BY <1>5 DEF HandleGone, Known, Ends
  <2>2. RightResult(tbl, tbl', {Ev.wd})
    BY <1>1, <2>1, RemoveRight
  <2> QED BY <1>1, <2>1, <2>2 DEF RightResult, Shrinks, WatchesChange, HandleDone
<1>6. CASE HandleMoveSelf
  <2>1. HandleDone
    BY <1>3, <1>6 DEF HandleMoveSelf
  <2>2. (UNCHANGED tbl /\ KernelQuiet) \/ ReleaseUser(tbl, TheWatch.path)
    BY <1>6 DEF HandleMoveSelf
  <2>3. CASE UNCHANGED tbl /\ KernelQuiet
    BY <2>1, <2>3 DEF Shrinks, WatchesChange
  <2>4. CASE ReleaseUser(tbl, TheWatch.path)
    BY <1>1, <1>2, <2>1, <2>4, ReleaseOwnerRight DEF ReleaseUser
  <2> QED BY <2>2, <2>3, <2>4
<1>7. CASE HandleMovedFrom
  <2>1. HandleDone
    BY <1>3, <1>7 DEF HandleMovedFrom
  <2> QED BY <1>7, <2>1 DEF HandleMovedFrom, Shrinks, WatchesChange
<1>8. CASE HandleMovedWithin
  <2> DEFINE us  == recursiveOwners(tbl, TheWatch.path)
             old == pending[Ev.cookie]
             r   == rebase(tbl, old, EvName, us)
  <2>1. /\ tbl' = r.tbl /\ RmWatches(r.wds)
        /\ Known({"create", "to"}) /\ Ev.cookie \in DOMAIN pending
    BY <1>8 DEF HandleMovedWithin, AppearsDir
  <2>2. TableSound(tbl) /\ IsPath(old) /\ IsPath(EvName) /\ \A u \in us : Under(EvName, u)
    BY <2>1, KnownWatch, OwnersAbove DEF SoundTables, EvName
  <2>3. HandleDone
    BY <1>3, <2>1
  <2> HIDE DEF us, old
  <2>4. RightResult(tbl, r.tbl, r.wds)
    BY <1>1, <2>2, RebaseRight
  <2> HIDE DEF r
  <2> QED BY <1>2, <2>1, <2>3, <2>4
<1>9. CASE HandleNewDir
  <2> DEFINE old == {c \in DOMAIN pending : pending[c] = EvName}
             r   == IF old = {} THEN [tbl |-> tbl, wds |-> {}] ELSE detachSubtree(tbl, EvName)
  <2>1. tbl' = r.tbl /\ RmWatches(r.wds) /\ Known({"create", "to"})
    BY <1>9 DEF HandleNewDir, AppearsDir
  <2>2. HandleDone
    BY <1>3, <2>1
  <2>3. RightResult(tbl, r.tbl, r.wds)
    <3>1. CASE old = {}
      BY <1>1, <3>1 DEF RightResult
    <3>2. CASE old # {}
      BY <1>1, <3>2, DetachSubtreesRight DEF detachSubtree
    <3> QED BY <3>1, <3>2
  <2> HIDE DEF r
  <2> QED BY <1>2, <2>1, <2>2, <2>3
<1>10. CASE HandleOther
  <2>1. HandleDone
    BY <1>3, <1>10 DEF HandleOther
  <2> QED BY <1>10, <2>1 DEF HandleOther, Shrinks, WatchesChange
<1> QED BY <1>4, <1>5, <1>6, <1>7, <1>8, <1>9, <1>10

LEMMA ExpireChanges ==
  ASSUME SoundTables, RightTables, ExpirePendingMoves
  PROVE  WatchesChange /\ BufferStays
<1> DEFINE r == DetachExpired(tbl)
<1>1. Right(tbl)
  BY RightNow DEF ExpirePendingMoves, MuFree
<1>2. BufferStays /\ ((UNCHANGED tbl /\ KernelQuiet) \/ (tbl' = r.tbl /\ RmWatches(r.wds)))
  BY DEF ExpirePendingMoves, TreeQuiet, BufferStays
<1>3. RightResult(tbl, r.tbl, r.wds)
  BY <1>1, DetachSubtreesRight DEF DetachExpired
<1> HIDE DEF r
<1> QED BY <1>2, <1>3 DEF RightResult, Shrinks, WatchesChange

(* Every step of the backend, but for a read and the end of the instance.  *)
LEMMA NextChanges ==
  ASSUME SoundTables, RightTables, GrownTables, WdsSound, [Next]_vars
  PROVE  \/ TreeStep \/ KernelStep \/ Read \/ CloseFinish
         \/ WatchesChange /\ (BufferStays \/ HandleDone)
<1>1. CASE UNCHANGED vars
  BY <1>1 DEF vars, kernelVars, backendVars, WatchesChange, KernelQuiet, Shrinks, BufferStays
<1>2. CASE PrepareRead \/ ReadClosed
  BY <1>2 DEF PrepareRead, ReadClosed, kernelVars, WatchesChange, KernelQuiet, Shrinks, BufferStays
<1>3. CASE ReaderStep
  BY <1>2, <1>3, HandleChanges, ExpireChanges DEF ReaderStep
<1>4. CASE WalkStep
  BY <1>4, WalkChanges
<1>5. ASSUME NEW p \in PlainPaths, AddPlain(p)
      PROVE  WatchesChange /\ BufferStays
  BY <1>5, AddPlainChanges
<1>6. CASE \/ \E p \in RecursivePaths : AddRecursive(p)
           \/ \E p \in Path : RemoveWatch(p)
           \/ CloseBegin
  BY <1>6, CallsChange
<1> QED BY <1>1, <1>3, <1>4, <1>5, <1>6 DEF Next

-----------------------------------------------------------------------------
(* What every step leaves of the events on their way.                      *)
-----------------------------------------------------------------------------
LEMMA DropsKeepEvents ==
  ASSUME EventsSound, WdsSound, NEW es, NEW gone, Drops(es, gone),
         TailSound(tail'), buf' \in Seq(ToSet(buf')), ToSet(buf') \subseteq ToSet(buf),
         reader' = "handle" <=> buf' # <<>>
  PROVE  EventsSound'
<1>1. /\ queue' \in Seq(ToSet(queue'))
      /\ ToSet(queue') \subseteq ToSet(queue) \cup ToSet(es) \cup {Overflow}
  BY PushIs DEF EventsSound, Drops
<1>2. OneEach'
  BY DEF EventsSound, OneEach, Drops
<1>3. DOMAIN kwatch' = DOMAIN kwatch \ gone /\ nextWd' = nextWd /\ gone \subseteq DOMAIN kwatch
  BY DEF Drops
<1>4. ~Ends(Overflow)
  BY DEF Ends, Overflow
<1>5. ASSUME NEW e \in ToSet(queue') \cup ToSet(buf'), Ends(e)
      PROVE  e.wd \in Nat /\ e.wd < nextWd' /\ e.wd \notin DOMAIN kwatch'
  <2>1. CASE e \in ToSet(es)
    BY <1>3, <1>5, <2>1 DEF Drops, WdsSound
  <2>2. CASE e \in ToSet(queue) \cup ToSet(buf)
    BY <1>3, <1>5, <2>2 DEF EventsSound
  <2> QED BY <1>1, <1>4, <1>5, <2>1, <2>2
<1> QED BY <1>1, <1>2, <1>5 DEF EventsSound

(* No event is queued, and none is taken from the buffer but the first. *)
LEMMA QuietKeepsEvents ==
  ASSUME EventsSound, WdsSound, queue' = queue, KernelQuiet \/ \E p : AddWatch(p),
         TailSound(tail'), buf' \in Seq(ToSet(buf')), ToSet(buf') \subseteq ToSet(buf),
         reader' = "handle" <=> buf' # <<>>
  PROVE  EventsSound'
<1>1. CASE KernelQuiet
  BY <1>1 DEF KernelQuiet, EventsSound, OneEach
<1>2. ASSUME NEW p, AddWatch(p)
      PROVE  EventsSound'
  <2> DEFINE d  == WdFor(p)
             ds == WdsOf(kwatch, fs[p])
  <2>1. /\ DOMAIN kwatch' = DOMAIN kwatch \cup {d} /\ kwatch'[d] = fs[p]
        /\ \A x \in DOMAIN kwatch \ {d} : kwatch'[x] = kwatch[x]
        /\ nextWd' = IF d = nextWd THEN nextWd + 1 ELSE nextWd
    BY <1>2 DEF AddWatch
  <2>2. \A x : x \in ds <=> x \in DOMAIN kwatch /\ kwatch[x] = fs[p]
    BY DEF WdsOf
  <2>3. d = IF ds = {} THEN nextWd ELSE CHOOSE x \in ds : TRUE
    BY DEF WdFor
  <2> HIDE DEF d, ds
  <2>4. ds # {} => d \in ds
    BY <2>3
  <2>5. OneEach'
    BY <2>1, <2>2, <2>3, <2>4 DEF EventsSound, OneEach
  <2>6. nextWd \in Nat /\ nextWd <= nextWd' /\ nextWd' \in Nat
    BY <2>1 DEF WdsSound
  <2>7. d \in DOMAIN kwatch \/ d = nextWd
    BY <2>2, <2>3, <2>4
  <2>8. ASSUME NEW e \in ToSet(queue') \cup ToSet(buf'), Ends(e)
        PROVE  e.wd \in Nat /\ e.wd < nextWd' /\ e.wd \notin DOMAIN kwatch'
    BY <2>1, <2>6, <2>7, <2>8 DEF EventsSound
  <2> QED BY <2>5, <2>8 DEF EventsSound
<1> QED BY <1>1, <1>2

LEMMA ReadKeepsEvents ==
  ASSUME EventsSound, WdsSound, Read
  PROVE  EventsSound' /\ ToSet(queue') \cup ToSet(buf') = ToSet(queue) \cup ToSet(buf)
<1> DEFINE n == IF Len(queue) < BufLen THEN Len(queue) ELSE BufLen
<1>1. /\ queue # <<>> /\ reader = "read" /\ reader' = "handle" /\ tail' = tail
      /\ buf' = SubSeq(queue, 1, n) /\ queue' = SubSeq(queue, n + 1, Len(queue))
      /\ kwatch' = kwatch /\ nextWd' = nextWd
  BY DEF Read, TreeQuiet
<1>2. Len(queue) \in Nat \ {0}
  BY <1>1, EmptySeq DEF EventsSound
<1>3. n \in 0..Len(queue) /\ n # 0
  BY <1>2, BackendAssumption
<1> HIDE DEF n
<1>4. /\ buf' \in Seq(ToSet(buf')) /\ queue' \in Seq(ToSet(queue')) /\ Len(buf') = n
      /\ ToSet(queue) = ToSet(buf') \cup ToSet(queue')
  BY <1>1, <1>3, ToSetCut DEF EventsSound
<1>5. buf = <<>> /\ buf' # <<>>
  BY <1>1, <1>3, <1>4 DEF EventsSound
<1>6. ToSet(buf) = {}
  BY <1>5, ToSetEmpty
<1> QED BY <1>1, <1>4, <1>5, <1>6 DEF EventsSound, OneEach

(* handleEvent takes the first event. *)
LEMMA HandleTakes ==
  ASSUME EventsSound, Handle
  PROVE  /\ TailSound(tail') /\ buf' \in Seq(ToSet(buf')) /\ ToSet(buf) = {Ev} \cup ToSet(buf')
         /\ reader' = "handle" <=> buf' # <<>>
         /\ Ev \in ToSet(buf)
<1>1. /\ buf # <<>> /\ buf' = Tail(buf) /\ tail' = tail
      /\ reader' = IF Tail(buf) = <<>> THEN "prepare" ELSE "handle"
  BY DEF EventsSound, Handle, TreeQuiet
<1> QED BY <1>1, ToSetTail DEF EventsSound, Ev

LEMMA NextEvents ==
  ASSUME SoundTables, RightTables, GrownTables, WdsSound, EventsSound, [Next]_vars
  PROVE  EventsSound'
<1>1. CASE TreeStep \/ KernelStep
  <2>1. buf' = buf /\ reader' = reader
    BY <1>1 DEF TreeStep, KernelStep, backendVars
  <2>2. TailSound(tail') /\ \E es, gone : Drops(es, gone)
    BY <1>1, KernelDrops DEF EventsSound
  <2> QED BY <2>1, <2>2, DropsKeepEvents DEF EventsSound
<1>2. CASE Read
  BY <1>2, ReadKeepsEvents
<1>3. CASE CloseFinish
  <2>1. queue' = <<>> /\ DOMAIN kwatch' = {} /\ tail' = tail /\ nextWd' = nextWd /\ buf' = buf /\ reader' = reader
    BY <1>3 DEF CloseFinish, CloseInstance, ReaderQuiet
  <2> QED BY <2>1, ToSetEmpty DEF EventsSound, OneEach
<1>4. CASE WatchesChange /\ (BufferStays \/ HandleDone)
  <2>1. /\ TailSound(tail') /\ buf' \in Seq(ToSet(buf')) /\ ToSet(buf') \subseteq ToSet(buf)
        /\ reader' = "handle" <=> buf' # <<>>
    BY <1>4, HandleTakes DEF BufferStays, HandleDone, EventsSound
  <2>2. CASE KernelQuiet \/ \E p : Registers(p)
    <3>1. queue' = queue /\ (KernelQuiet \/ \E p : AddWatch(p))
      BY <2>2 DEF KernelQuiet, Registers, AddWatch
    <3> QED BY <2>1, <3>1, QuietKeepsEvents
  <2>3. CASE \E ds : RmWatches(ds)
    <3>1. \E es, gone : Drops(es, gone)
      BY <2>3, RmWatchesDrop
    <3> QED BY <2>1, <3>1, DropsKeepEvents
  <2> QED BY <1>4, <2>2, <2>3 DEF WatchesChange
<1> QED BY <1>1, <1>2, <1>3, <1>4, NextChanges

(* A step leaks no watch unless it registers a path again.                 *)
LEMMA NextLeaksNothing ==
  ASSUME SoundTables, RightTables, GrownTables, WdsSound, EventsSound, NoLeakedWatch,
         [Next]_vars, ~Reuses
  PROVE  NoLeakedWatch'
<1>1. CASE TreeStep \/ KernelStep
  BY <1>1, KernelOnlyDrops DEF NoLeakedWatch, TreeStep, KernelStep, backendVars
<1>2. CASE Read
  BY <1>2 DEF Read, NoLeakedWatch
<1>3. CASE CloseFinish
  BY <1>3 DEF CloseFinish, CloseInstance, NoLeakedWatch
<1>4. CASE WatchesChange
  <2>1. CASE KernelQuiet /\ Shrinks({})
    BY <2>1 DEF KernelQuiet, Shrinks, NoLeakedWatch
  <2>2. CASE KernelQuiet /\ Handle /\ Ends(Ev) /\ Shrinks({Ev.wd})
    <3>1. Ev.wd \notin DOMAIN kwatch
      BY <2>2, HandleTakes DEF EventsSound
    <3> QED BY <2>2, <3>1 DEF KernelQuiet, Shrinks, NoLeakedWatch
  <2>3. ASSUME NEW ds, RmWatches(ds), Shrinks(ds)
        PROVE  NoLeakedWatch'
    <3>1. DOMAIN kwatch' = DOMAIN kwatch \ ds
      BY <2>3 DEF RmWatches
    <3> QED BY <2>3, <3>1 DEF Shrinks, NoLeakedWatch
  <2>4. ASSUME NEW p, Registers(p)
        PROVE  NoLeakedWatch'
    <3>1. DOMAIN kwatch' = DOMAIN kwatch \cup {WdFor(p)}
      BY <2>4 DEF Registers, AddWatch
    <3> QED BY <2>4, <3>1 DEF Registers, Reused, NoLeakedWatch
  <2> QED BY <1>4, <2>1, <2>2, <2>3, <2>4 DEF WatchesChange
<1> QED BY <1>1, <1>2, <1>3, <1>4, NextChanges

NoOverflow == Overflow \notin ToSet(queue)

(* What a watch that is gone still has to say is not lost. *)
LEMMA DropsAnnounce ==
  ASSUME EventsSound, DroppedIsAnnounced, NoOverflow',
         NEW es, NEW gone, Drops(es, gone), NEW d,
         d \in gone \/ (d \in DOMAIN tbl.wd \ DOMAIN kwatch)
  PROVE  \E e \in ToSet(queue') \cup ToSet(buf) : Ends(e) /\ e.wd = d
<1>1. ToSet(queue) \subseteq ToSet(queue') /\ ToSet(es) \subseteq ToSet(queue')
  BY PushIs DEF EventsSound, Drops, NoOverflow
<1> QED BY <1>1 DEF Drops, DroppedIsAnnounced, Ends

LEMMA NextAnnounces ==
  ASSUME SoundTables, RightTables, GrownTables, WdsSound, EventsSound, DroppedIsAnnounced,
         [Next]_vars, NoOverflow'
  PROVE  DroppedIsAnnounced'
<1> DEFINE Said(d) == \E e \in ToSet(queue') \cup ToSet(buf') : Ends(e) /\ e.wd = d
<1>1. SUFFICES ASSUME NEW d \in DOMAIN tbl'.wd \ DOMAIN kwatch'
               PROVE  Said(d)
  BY DEF DroppedIsAnnounced, Ends
<1>2. CASE TreeStep \/ KernelStep
  <2>1. buf' = buf /\ tbl' = tbl
    BY <1>2 DEF TreeStep, KernelStep, backendVars
  <2>2. PICK es, gone : Drops(es, gone)
    BY <1>2, KernelDrops DEF EventsSound
  <2>3. d \in gone \/ d \in DOMAIN tbl.wd \ DOMAIN kwatch
    BY <1>1, <2>1, <2>2 DEF Drops
  <2> QED BY <2>1, <2>2, <2>3, DropsAnnounce
<1>3. CASE Read
  <2>1. tbl' = tbl /\ kwatch' = kwatch
    BY <1>3 DEF Read
  <2>2. \E e \in ToSet(queue) \cup ToSet(buf) : Ends(e) /\ e.wd = d
    BY <1>1, <2>1 DEF DroppedIsAnnounced, Ends
  <2> QED BY <1>3, <2>2, ReadKeepsEvents
<1>4. CASE CloseFinish
  <2>1. DOMAIN tbl'.wd = {}
    BY <1>4 DEF CloseFinish, newWatches, NoFunction
  <2> QED BY <1>1, <2>1
<1>5. CASE WatchesChange /\ (BufferStays \/ HandleDone)
  <2>1. \A e \in ToSet(buf) : Ends(e) /\ e.wd = d => e \in ToSet(buf')
    <3>1. CASE BufferStays
      BY <3>1 DEF BufferStays
    <3>2. CASE HandleDone
      <4>1. ToSet(buf) = {Ev} \cup ToSet(buf') /\ (Ends(Ev) => Ev.wd \notin DOMAIN tbl'.wd)
        BY <3>2, HandleTakes DEF HandleDone
      <4> QED BY <1>1, <4>1
    <3> QED BY <1>5, <3>1, <3>2
  <2>2. ASSUME queue' = queue, d \in DOMAIN tbl.wd \ DOMAIN kwatch
        PROVE  Said(d)
    BY <2>1, <2>2 DEF DroppedIsAnnounced, Ends
  <2>3. CASE KernelQuiet /\ \E ds : Shrinks(ds)
    BY <1>1, <2>2, <2>3 DEF KernelQuiet, Shrinks
  <2>4. ASSUME NEW ds, RmWatches(ds), Shrinks(ds)
        PROVE  Said(d)
    <3>1. PICK es : Drops(es, DOMAIN kwatch \cap ds)
      BY <2>4, RmWatchesDrop
    <3>2. d \in DOMAIN tbl.wd \ DOMAIN kwatch
      BY <1>1, <2>4, <3>1 DEF Drops, Shrinks
    <3>3. \E e \in ToSet(queue') \cup ToSet(buf) : Ends(e) /\ e.wd = d
      BY <3>1, <3>2, DropsAnnounce
    <3> QED BY <2>1, <3>3
  <2>5. ASSUME NEW p, Registers(p)
        PROVE  Said(d)
    <3>1. queue' = queue /\ DOMAIN kwatch' = DOMAIN kwatch \cup {WdFor(p)}
      BY <2>5 DEF Registers, AddWatch
    <3> QED BY <1>1, <2>2, <2>5, <3>1 DEF Registers
  <2> QED BY <1>5, <2>3, <2>4, <2>5 DEF WatchesChange
<1> QED BY <1>2, <1>3, <1>4, <1>5, NextChanges

LEMMA InitEvents == Init => EventsSound /\ NoLeakedWatch /\ DroppedIsAnnounced
<1> SUFFICES ASSUME Init PROVE EventsSound /\ NoLeakedWatch /\ DroppedIsAnnounced
  OBVIOUS
<1>1. /\ queue = <<>> /\ buf = <<>> /\ tail = <<>> /\ reader = "prepare"
      /\ DOMAIN kwatch = {} /\ DOMAIN tbl.wd = {}
  BY DEF Init, KernelInit, BackendInit, newWatches, NoFunction
<1> QED BY <1>1, ToSetEmpty DEF EventsSound, OneEach, TailSound, NoLeakedWatch, DroppedIsAnnounced

(* An event that says a watch is gone (IN_IGNORED, IN_DELETE_SELF) names   *)
(* a descriptor the kernel has dropped and never hands out again, from the *)
(* moment it is queued until handleEvent has it                            *)
(* (backend_inotify.go:881-1000); and no owner set is empty.               *)
THEOREM EventsAlwaysSound == Spec => [](GrownTables /\ EventsSound)
<1>1. Init => GrownTables
  <2>1. Init => tbl = newWatches /\ walk = NoWalk
    BY DEF Init, BackendInit
  <2> QED BY <2>1, NewWatchesFull DEF GrownTables, Walking
<1>2. SoundTables /\ RightTables /\ WdsSound /\ GrownTables /\ EventsSound /\ [Next]_vars
        => GrownTables' /\ EventsSound'
  BY NextGrown, NextEvents
<1> QED BY <1>1, <1>2, InitEvents, TablesAlwaysSound, TablesAlwaysRight, PTL DEF Spec

(* RC-018: an execution in which register never moves a path that still    *)
(* has a watch in the kernel to another descriptor                         *)
(* (backend_inotify.go:618, 627) leaks no watch: what removeWatch, rollback, *)
(* a rename's collisions, expiry or an event take from the tables is gone  *)
(* from the kernel as well.                                                *)
THEOREM NoLeakWithoutReuse == Spec /\ [][~Reuses]_vars => []NoLeakedWatch
<1> DEFINE Inv == SoundTables /\ RightTables /\ WdsSound /\ GrownTables /\ EventsSound /\ NoLeakedWatch
<1>1. Inv /\ UNCHANGED vars => NoLeakedWatch'
  BY DEF vars, backendVars, kernelVars, NoLeakedWatch
<1>2. Inv /\ Next /\ ~Reuses => NoLeakedWatch'
  BY NextLeaksNothing
<1> QED
  BY <1>1, <1>2, InitEvents, EventsAlwaysSound, TablesAlwaysSound, TablesAlwaysRight, PTL DEF Spec

(* While the queue has not overflowed, a watch that the kernel has dropped *)
(* and the tables still hold has the event on its way that will remove it  *)
(* (backend_inotify.go:881-1000): readEvents loses none.                   *)
THEOREM AnnouncedUnlessOverflow == Spec /\ []NoOverflow => []DroppedIsAnnounced
<1>1. SoundTables /\ RightTables /\ WdsSound /\ GrownTables /\ EventsSound /\ DroppedIsAnnounced
      /\ [Next]_vars /\ NoOverflow' => DroppedIsAnnounced'
  BY NextAnnounces
<1> QED BY <1>1, InitEvents, EventsAlwaysSound, TablesAlwaysSound, TablesAlwaysRight, PTL DEF Spec

-----------------------------------------------------------------------------
(* What users added is watched for them.                                   *)
-----------------------------------------------------------------------------
(* AddWith of a recursive root has still to register the root itself.      *)
AtRoot ==
  walk.by = "add" /\ Head(walk.todo).do = "visit" /\ Head(walk.todo).path = walk.root

(* The inductive invariant behind OwnedIsWatched, beside GrownTables.      *)
UsersListed ==
  /\ ~Walking => UsersOwn(tbl, {})
  /\ Walking => UsersOwn(walk.before, {}) /\ UsersOwn(tbl, IF AtRoot THEN {walk.root} ELSE {})

(* A recursive root is registered while the directory it names is watched  *)
(* under another path.                                                     *)
Aliases ==
  /\ VisitDir /\ AtRoot
  /\ walk.root \in DOMAIN fs
  /\ WdFor(walk.root) \in DOMAIN tbl.wd /\ tbl.wd[WdFor(walk.root)].path # walk.root

LEMMA ListedStays ==
  ASSUME UsersOwn(tbl', {}), walk' = NoWalk
  PROVE  UsersListed'
BY DEF UsersListed, Walking

LEMMA UsersOwnMore ==
  ASSUME NEW t, NEW ex, UsersOwn(t, {})
  PROVE  UsersOwn(t, ex)
BY DEF UsersOwn

LEMMA AddPlainListed ==
  ASSUME SoundTables, GrownTables, UsersListed, NEW p \in PlainPaths, AddPlain(p)
  PROVE  UsersListed'
<1> DEFINE t  == addUser(tbl, p, FALSE)
           t1 == register(t, p, WdFor(p), {p})
<1>1. /\ IsPath(p) /\ TableSound(tbl) /\ Full(tbl) /\ walk' = NoWalk
      /\ UsersOwn(tbl, {}) /\ p \notin tbl.byUser
  BY ModelPath, BackendAssumption
     DEF AddPlain, SoundTables, GrownTables, MuFree, Walking, UsersListed
<1>2. TableSound(t) /\ Full(t) /\ UsersOwn(t, {p}) /\ Owns(t, p, p)
  <2>1. /\ TableSound(t) /\ t.byUser = tbl.byUser \cup {p}
        /\ t.recurse = IF FALSE THEN tbl.recurse \cup {p} ELSE tbl.recurse
    BY <1>1, AddUserSound, Zenon
  <2>2. Full(t)
    BY <1>1, AddUserFull DEF TableSound
  <2>3. UsersOwn(t, {p})
    BY <1>1, AddUserUsersOwn DEF TableSound
  <2> HIDE DEF t
  <2> QED BY <1>1, <2>1, <2>2, <2>3 DEF TableSound, UsersSound, Owns
<1>3. \/ tbl' = t1 /\ p \in DOMAIN t1.path
      \/ tbl' = releaseOwner(t1, p).tbl \/ tbl' = releaseOwner(t, p).tbl
  BY DEF AddPlain, ReleaseUser
<1> HIDE DEF t
<1>4. /\ TableSound(t1) /\ UsersOwn(t1, {p})
      /\ p \in DOMAIN t1.path => UsersOwn(t1, {p} \ {p})
  BY <1>1, <1>2, RegisterSound, RegisterUsersOwn
<1> HIDE DEF t1
<1>5. UsersOwn(tbl', {})
  BY <1>2, <1>3, <1>4, ReleaseOwnerUsersOwn DEF TableSound
<1> QED BY <1>1, <1>5, ListedStays

LEMMA AddRecursiveListed ==
  ASSUME SoundTables, UsersListed, NEW p \in RecursivePaths, AddRecursive(p)
  PROVE  UsersListed'
<1> DEFINE t == addUser(tbl, p, TRUE)
           w == Walk("add", p, {p}, tbl)
<1>1. TableSound(tbl) /\ IsPath(p) /\ walk = NoWalk /\ UsersOwn(tbl, {}) /\ p \notin tbl.byUser
  BY ModelPath, BackendAssumption DEF AddRecursive, SoundTables, MuFree, Walking, UsersListed
<1>2. IsTable(t) /\ UsersOwn(t, {p})
  BY <1>1, AddUserSound, AddUserUsersOwn DEF TableSound
<1>3. \/ tbl' = t /\ walk' = w
      \/ tbl' = releaseOwner(t, p).tbl /\ walk' = walk
  BY DEF AddRecursive, ReleaseUser
<1>4. w.by = "add" /\ w.root = p /\ w.before = tbl /\ w.todo = <<Visit(p)>>
  BY DEF Walk
<1> HIDE DEF t, w
<1>5. CASE tbl' = t /\ walk' = w
  <2>1. Head(w.todo).do = "visit" /\ Head(w.todo).path = p
    BY <1>4 DEF Visit
  <2>2. AtRoot' /\ walk'.root = p /\ walk'.before = tbl
    BY <1>4, <1>5, <2>1 DEF AtRoot
  <2>3. UsersOwn(tbl', {p}) /\ UsersOwn(walk'.before, {})
    BY <1>1, <1>2, <1>5, <2>2
  <2>4. UsersOwn(tbl', {}) \/ Walking'
    BY <1>4, <1>5 DEF Walking, NoWalk
  <2> QED BY <2>2, <2>3, <2>4 DEF UsersListed
<1>6. CASE tbl' = releaseOwner(t, p).tbl /\ walk' = walk
  BY <1>1, <1>2, <1>6, ReleaseOwnerUsersOwn, ListedStays
<1> QED BY <1>3, <1>5, <1>6

LEMMA RemoveCloseListed ==
  ASSUME SoundTables, UsersListed, (\E p \in Path : RemoveWatch(p)) \/ CloseBegin \/ CloseFinish
  PROVE  UsersListed'
<1>1. walk' = NoWalk /\ UsersOwn(tbl, {}) /\ IsTable(tbl)
  BY DEF RemoveWatch, CloseBegin, CloseFinish, MuFree, Walking, UsersListed, SoundTables, TableSound
<1>2. \/ \E p \in Path : tbl' = releaseOwner(tbl, p).tbl
      \/ tbl' = tbl \/ tbl' = newWatches
  BY DEF RemoveWatch, ReleaseUser, CloseBegin, CloseFinish
<1>3. UsersOwn(newWatches, {})
  BY DEF newWatches, UsersOwn
<1>4. UsersOwn(tbl', {})
  BY <1>1, <1>2, <1>3, UsersOwnMore, ReleaseOwnerUsersOwn
<1> QED BY <1>1, <1>4, ListedStays

(* A walk that fails restores the users and owner sets of its beginning.   *)
LEMMA AbortListed ==
  ASSUME SoundTables, GrownTables, UsersListed, Walking, Alive, Abort
  PROVE  UsersListed'
<1>1. OwnershipOf(tbl') = OwnershipOf(walk.before)
  BY AbortIsExact
<1>2. tbl'.byUser = walk.before.byUser /\ tbl'.owners = walk.before.owners
  BY <1>1 DEF OwnershipOf
<1>3. UsersOwn(tbl', {})
  BY <1>2 DEF UsersListed, UsersOwn
<1> QED BY <1>3, ListedStays DEF Abort

LEMMA VisitDirListed ==
  ASSUME SoundTables, GrownTables, RightTables, UsersListed, VisitDir, ~Aliases
  PROVE  UsersListed'
<1> DEFINE p     == Head(walk.todo).path
           added == walk.owners \ OwnersOf(tbl, p)
           t     == register(tbl, p, WdFor(p), walk.owners)
           regs  == IF added # {} /\ Watched(t, p) THEN Put(walk.regs, p, added) ELSE walk.regs
           todo  == <<List(p)>> \o Tail(walk.todo)
           v     == [walk EXCEPT !.regs = regs]
<1>1. Walking /\ Alive /\ Grown(walk, tbl) /\ Full(tbl) /\ Right(tbl) /\ TableSound(tbl)
  BY RightNow DEF VisitDir, GrownTables, SoundTables
<1>2. \/ p \in DOMAIN fs /\ tbl' = t /\ Continue(v, todo)
      \/ Abort
  BY DEF VisitDir
<1>3. CASE Abort
  BY <1>1, <1>3, AbortListed
<1>4. CASE p \in DOMAIN fs /\ tbl' = t /\ Continue(v, todo)
  <2>1. IsPath(p)
    BY <1>1, HeadOfTodo DEF SoundTables, Walking
  <2>2. /\ walk \in [by : {walk.by}, root : {walk.root}, owners : {walk.owners}, todo : {walk.todo},
                     regs : {walk.regs}, before : {walk.before}]
        /\ walk.todo # <<>> /\ walk.todo \in Seq(Range(walk.todo))
    BY <1>1 DEF SoundTables, WalkSound, TodoSound, Walking
  <2>3. Head(todo).do = "list"
    <3> DEFINE S == Range(walk.todo) \cup {List(p)}
    <3>1. Tail(walk.todo) \in Seq(S) /\ <<List(p)>> \in Seq(S)
      BY <2>2, SeqMonotonic, HeadTailProperties
    <3>2. Head(todo) = List(p)
      BY <3>1
    <3> QED BY <3>2 DEF List
  <2>4. UsersOwn(t, {})
    <3>1. CASE AtRoot
      <4>1. p = walk.root /\ p \in walk.owners
        BY <1>1, <3>1 DEF AtRoot, Grown, GrownByAdd
      <4>2. WdFor(p) \in DOMAIN tbl.wd => tbl.wd[WdFor(p)].path = p
        BY <1>4, <3>1, <4>1 DEF Aliases
      <4>3. UsersOwn(tbl, {p})
        BY <1>1, <3>1, <4>1 DEF UsersListed
      <4> HIDE DEF p
      <4>4. p \in DOMAIN t.path
        BY <1>1, <2>1, <4>2, RegisterLists
      <4>5. UsersOwn(t, {p} \ {p})
        BY <1>1, <2>1, <4>1, <4>3, <4>4, RegisterUsersOwn
      <4> QED BY <4>5
    <3>2. CASE ~AtRoot
      <4>1. UsersOwn(tbl, {})
        BY <1>1, <3>2 DEF UsersListed
      <4> HIDE DEF p
      <4> QED BY <1>1, <2>1, <4>1, RegisterUsersOwn
    <3> QED BY <3>1, <3>2
  <2> HIDE DEF t, todo, regs
  <2>5. walk' = NoWalk \/ walk' = [v EXCEPT !.todo = todo]
    BY <1>4 DEF Continue
  <2>6. walk' # NoWalk => walk'.before = walk.before
    BY <2>2, <2>5
  <2> QED BY <1>1, <1>4, <2>4, <2>6, UsersOwnMore DEF UsersListed, Walking
<1> QED BY <1>2, <1>3, <1>4

LEMMA ListDirListed ==
  ASSUME SoundTables, GrownTables, UsersListed, ListDir
  PROVE  UsersListed'
<1> DEFINE todo == SubDirs(Head(walk.todo).path) \o Tail(walk.todo)
<1>1. Walking /\ Alive
  BY DEF ListDir
<1>2. (tbl' = tbl /\ Continue(walk, todo)) \/ Abort
  BY DEF ListDir
<1> HIDE DEF todo
<1>3. CASE Abort
  BY <1>1, <1>3, AbortListed
<1>4. CASE tbl' = tbl /\ Continue(walk, todo)
  <2>1. walk \in [by : {walk.by}, root : {walk.root}, owners : {walk.owners}, todo : {walk.todo},
                  regs : {walk.regs}, before : {walk.before}]
    BY <1>1 DEF SoundTables, WalkSound, Walking
  <2>2. walk' = NoWalk \/ walk' = [walk EXCEPT !.todo = todo]
    BY <1>4 DEF Continue
  <2>3. walk' # NoWalk => walk'.before = walk.before
    BY <2>1, <2>2
  <2>4. ~AtRoot
    BY DEF ListDir, AtRoot
  <2>5. UsersOwn(tbl, {}) /\ UsersOwn(walk.before, {})
    BY <1>1, <2>4 DEF UsersListed
  <2> QED BY <1>4, <2>3, <2>5, UsersOwnMore DEF UsersListed, Walking
<1> QED BY <1>2, <1>3, <1>4

LEMMA ReaderListed ==
  ASSUME SoundTables, UsersListed, ReaderStep
  PROVE  UsersListed'
<1>1. TableSound(tbl) /\ IsTable(tbl)
  BY DEF SoundTables, TableSound
<1>2. CASE PrepareRead \/ Read \/ ReadClosed \/ HandleUnknown \/ HandleOther \/ HandleMovedFrom
  <2>1. tbl' = tbl /\ walk' = walk
    BY <1>2 DEF PrepareRead, Read, ReadClosed, HandleUnknown, HandleOther, HandleMovedFrom
  <2> QED BY <2>1 DEF UsersListed, AtRoot, Walking
<1>3. CASE ExpirePendingMoves
  <2>1. /\ UsersOwn(tbl, {}) /\ walk' = NoWalk
        /\ tbl' = tbl \/ tbl' = detachSubtrees(tbl, Range(pending)).tbl
    BY <1>3 DEF ExpirePendingMoves, MuFree, Walking, DetachExpired, UsersListed
  <2> QED BY <1>1, <2>1, DetachSubtreesUsersOwn, ListedStays
<1>4. CASE HandleGone
  <2>1. UsersOwn(tbl, {}) /\ walk' = NoWalk /\ tbl' = remove(tbl, Ev.wd)
    BY <1>4 DEF HandleGone, Handle, MuFree, Walking, UsersListed
  <2> QED BY <1>1, <2>1, RemoveUsersOwn, ListedStays
<1>5. CASE HandleMoveSelf
  <2>1. /\ UsersOwn(tbl, {}) /\ walk' = NoWalk
        /\ tbl' = tbl \/ tbl' = releaseOwner(tbl, TheWatch.path).tbl
    BY <1>5 DEF HandleMoveSelf, Handle, MuFree, Walking, ReleaseUser, UsersListed
  <2> QED BY <1>1, <2>1, UsersOwnMore, ReleaseOwnerUsersOwn, ListedStays
<1>6. CASE HandleMovedWithin
  <2> DEFINE us  == recursiveOwners(tbl, TheWatch.path)
             old == pending[Ev.cookie]
  <2>1. /\ UsersOwn(tbl, {}) /\ walk' = NoWalk /\ tbl' = rebase(tbl, old, EvName, us).tbl
        /\ Known({"create", "to"}) /\ Ev.cookie \in DOMAIN pending
    BY <1>6 DEF HandleMovedWithin, Handle, MuFree, Walking, AppearsDir, UsersListed
  <2>2. IsPath(old) /\ IsPath(EvName)
    BY <2>1, KnownWatch DEF SoundTables
  <2> HIDE DEF us, old
  <2> QED BY <1>1, <2>1, <2>2, RebaseUsersOwn, ListedStays
<1>7. CASE HandleNewDir
  <2> DEFINE old == {c \in DOMAIN pending : pending[c] = EvName}
             r   == IF old = {} THEN [tbl |-> tbl, wds |-> {}] ELSE detachSubtree(tbl, EvName)
             us  == recursiveOwners(r.tbl, TheWatch.path)
             w   == Walk("subtree", EvName, us, r.tbl)
  <2>1. UsersOwn(tbl, {}) /\ tbl' = r.tbl /\ (walk' = NoWalk \/ walk' = w)
    BY <1>7 DEF HandleNewDir, Handle, MuFree, Walking, UsersListed
  <2>2. UsersOwn(r.tbl, {})
    BY <1>1, <2>1, DetachSubtreesUsersOwn DEF detachSubtree
  <2>3. w.before = r.tbl
    BY DEF Walk
  <2> HIDE DEF r, w
  <2> QED BY <2>1, <2>2, <2>3, UsersOwnMore DEF UsersListed, Walking
<1> QED BY <1>2, <1>3, <1>4, <1>5, <1>6, <1>7 DEF ReaderStep

LEMMA NextListed ==
  ASSUME SoundTables, GrownTables, RightTables, UsersListed, [Next]_vars, [~Aliases]_vars
  PROVE  UsersListed'
<1>1. CASE TreeStep \/ KernelStep \/ UNCHANGED vars
  <2>1. tbl' = tbl /\ walk' = walk
    BY <1>1 DEF TreeStep, KernelStep, vars, backendVars
  <2> QED BY <2>1 DEF UsersListed, AtRoot, Walking
<1>2. CASE WalkStep
  <2>1. CASE UNCHANGED vars
    BY <1>1, <2>1
  <2>2. CASE ~Aliases
    BY <1>2, <2>2, VisitDirListed, ListDirListed DEF WalkStep
  <2> QED BY <2>1, <2>2
<1>3. CASE ReaderStep
  BY <1>3, ReaderListed
<1>4. ASSUME NEW p \in PlainPaths, AddPlain(p)
      PROVE  UsersListed'
  BY <1>4, AddPlainListed
<1>5. ASSUME NEW p \in RecursivePaths, AddRecursive(p)
      PROVE  UsersListed'
  BY <1>5, AddRecursiveListed
<1>6. CASE (\E p \in Path : RemoveWatch(p)) \/ CloseBegin \/ CloseFinish
  BY <1>6, RemoveCloseListed
<1> QED BY <1>1, <1>2, <1>3, <1>4, <1>5, <1>6 DEF Next

(* What a user added is watched for that user from the moment AddWith has  *)
(* returned, through every event, rename, removal, rollback and expiry,    *)
(* and nothing is owned that is not watched, unless AddWith registers a    *)
(* recursive root whose directory still has a watch under an older name    *)
(* (register and updatePath, backend_inotify.go:408-429, 595-636).         *)
THEOREM OwnedUnlessAliased == Spec /\ [][~Aliases]_vars => []OwnedIsWatched
<1>1. Init => UsersListed
  BY DEF Init, BackendInit, UsersListed, Walking, UsersOwn, newWatches
<1>2. SoundTables /\ GrownTables /\ RightTables /\ UsersListed /\ [Next]_vars /\ [~Aliases]_vars
        => UsersListed'
  BY NextListed
<1>3. SoundTables /\ GrownTables /\ UsersListed => OwnedIsWatched
  BY DEF SoundTables, TableSound, OwnedIsListed, GrownTables, Full, OwnersFull, UsersListed,
         UsersOwn, OwnersOf, OwnedIsWatched
<1> QED BY <1>1, <1>2, <1>3, TablesAlwaysSound, TablesAlwaysRight, EventsAlwaysSound, PTL DEF Spec

-----------------------------------------------------------------------------
(* What is watched is owned.                                               *)
-----------------------------------------------------------------------------
(* A root is taken out of the tables by the event that ends its watch,     *)
(* while a path below it that it alone owns is still watched.              *)
Strands ==
  HandleGone /\ \E q \in DOMAIN tbl.owners : q # TheWatch.path /\ tbl.owners[q] = {TheWatch.path}

WatchedIsOwned == Owned(tbl)

LEMMA AddPlainOwned ==
  ASSUME SoundTables, GrownTables, RightTables, Owned(tbl), NEW p \in PlainPaths, AddPlain(p)
  PROVE  Owned(tbl')
<1> DEFINE t  == addUser(tbl, p, FALSE)
           t1 == register(t, p, WdFor(p), {p})
<1>1. IsPath(p) /\ TableSound(tbl) /\ Full(tbl) /\ Right(tbl) /\ p \notin tbl.byUser
  BY ModelPath, RightNow, BackendAssumption DEF AddPlain, SoundTables, GrownTables, MuFree
<1>2. TableSound(t) /\ Full(t) /\ Paired(t)
  <2>1. TableSound(t)
    BY <1>1, AddUserSound, Zenon
  <2>2. Full(t)
    BY <1>1, AddUserFull DEF TableSound
  <2>3. Paired(t)
    <3>1. \A r \in BOOLEAN : RightResult(tbl, addUser(tbl, p, r), {})
      BY <1>1, AddUserRight
    <3>2. RightResult(tbl, t, {})
      BY <3>1
    <3> HIDE DEF t
    <3> QED BY <3>2 DEF RightResult, Right
  <2> QED BY <2>1, <2>2, <2>3
<1>3. Owned(t)
  <2> DEFINE byUser  == tbl.byUser \cup {p}
             target  == Put(tbl.target, p, p)
             recurse == IF FALSE THEN tbl.recurse \cup {p} ELSE tbl.recurse
  <2>1. t = [tbl EXCEPT !.byUser = byUser, !.target = target, !.recurse = recurse]
    BY DEF addUser
  <2> HIDE DEF t, byUser, target, recurse
  <2>2. t.path = tbl.path /\ t.owners = tbl.owners
    BY <1>1, <2>1 DEF TableSound, IsTable
  <2> QED BY <2>2 DEF Owned
<1>4. tbl' = t1 \/ tbl' = releaseOwner(t1, p).tbl \/ tbl' = releaseOwner(t, p).tbl
  BY DEF AddPlain, ReleaseUser
<1> HIDE DEF t
<1>5. TableSound(t1)
  <2>1. Owns(t, p, p)
    <3>1. t.byUser = tbl.byUser \cup {p} /\ t.recurse = tbl.recurse
      <4>1. t.byUser = tbl.byUser \cup {p}
        BY <1>1, AddUserSound, Zenon DEF t
      <4>2. t.recurse = IF FALSE THEN tbl.recurse \cup {p} ELSE tbl.recurse
        BY <1>1, AddUserSound, Zenon DEF t
      <4> QED BY <4>1, <4>2
    <3> QED BY <1>1, <3>1 DEF TableSound, UsersSound, Owns
  <2> QED BY <1>1, <1>2, <2>1, RegisterSound
<1>6. Owned(t1)
  BY <1>1, <1>2, <1>3, RegisterOwned
<1> HIDE DEF t1
<1> QED BY <1>2, <1>3, <1>4, <1>5, <1>6, ReleaseOwnerOwned DEF TableSound

LEMMA AddRecursiveOwned ==
  ASSUME SoundTables, Owned(tbl), NEW p \in RecursivePaths, AddRecursive(p)
  PROVE  Owned(tbl')
<1> DEFINE t       == addUser(tbl, p, TRUE)
           byUser  == tbl.byUser \cup {p}
           target  == Put(tbl.target, p, p)
           recurse == IF TRUE THEN tbl.recurse \cup {p} ELSE tbl.recurse
<1>1. IsTable(tbl)
  BY DEF SoundTables, TableSound
<1>2. t = [tbl EXCEPT !.byUser = byUser, !.target = target, !.recurse = recurse]
  BY DEF addUser
<1>3. tbl' = t \/ tbl' = releaseOwner(t, p).tbl
  BY DEF AddRecursive, ReleaseUser
<1> HIDE DEF t, byUser, target, recurse
<1>4. IsTable(t) /\ t.path = tbl.path /\ t.owners = tbl.owners
  BY <1>1, <1>2 DEF IsTable
<1>5. Owned(t)
  BY <1>4 DEF Owned
<1> QED BY <1>3, <1>4, <1>5, ReleaseOwnerOwned

LEMMA AbortOwned ==
  ASSUME SoundTables, Owned(tbl), Abort
  PROVE  Owned(tbl')
<1>1. tbl' = releaseOwner(tbl, walk.root).tbl \/ tbl' = rollbackRegistrations(tbl, walk.regs).tbl
  BY DEF Abort
<1> QED BY <1>1, ReleaseOwnerOwned, RollbackOwned DEF SoundTables, TableSound

LEMMA WalkOwned ==
  ASSUME SoundTables, GrownTables, RightTables, Owned(tbl), WalkStep
  PROVE  Owned(tbl')
<1> DEFINE p == Head(walk.todo).path
<1>1. CASE Abort
  BY <1>1, AbortOwned
<1>2. CASE ListDir /\ ~Abort
  BY <1>2 DEF ListDir
<1>3. CASE VisitDir /\ ~Abort
  <2>1. tbl' = register(tbl, p, WdFor(p), walk.owners)
    BY <1>3 DEF VisitDir
  <2>2. Walking /\ Alive
    BY <1>3 DEF VisitDir
  <2>3. TableSound(tbl) /\ Paired(tbl) /\ Full(tbl) /\ walk.owners # {}
    BY <2>2 DEF SoundTables, GrownTables, RightTables
  <2>4. IsPath(p)
    BY <2>2, HeadOfTodo DEF SoundTables, Walking
  <2> HIDE DEF p
  <2> QED BY <2>1, <2>3, <2>4, RegisterOwned
<1> QED BY <1>1, <1>2, <1>3 DEF WalkStep

LEMMA CallsOwned ==
  ASSUME SoundTables, Owned(tbl), (\E p \in Path : RemoveWatch(p)) \/ CloseBegin \/ CloseFinish
  PROVE  Owned(tbl')
<1>1. \/ \E p \in Path : tbl' = releaseOwner(tbl, p).tbl
      \/ tbl' = tbl \/ tbl' = newWatches
  BY DEF RemoveWatch, ReleaseUser, CloseBegin, CloseFinish
<1>2. Owned(newWatches)
  BY DEF newWatches, Owned
<1> QED BY <1>1, <1>2, ReleaseOwnerOwned DEF SoundTables, TableSound

LEMMA ReaderOwned ==
  ASSUME SoundTables, GrownTables, Owned(tbl), ReaderStep, ~Strands
  PROVE  Owned(tbl')
<1>1. TableSound(tbl) /\ IsTable(tbl) /\ Full(tbl)
  BY DEF SoundTables, TableSound, GrownTables
<1>2. CASE PrepareRead \/ Read \/ ReadClosed \/ HandleUnknown \/ HandleOther \/ HandleMovedFrom
  <2>1. tbl' = tbl
    BY <1>2 DEF PrepareRead, Read, ReadClosed, HandleUnknown, HandleOther, HandleMovedFrom
  <2> QED BY <2>1
<1>3. CASE ExpirePendingMoves
  <2>1. tbl' = tbl \/ tbl' = detachSubtrees(tbl, Range(pending)).tbl
    BY <1>3 DEF ExpirePendingMoves, DetachExpired
  <2> QED BY <1>1, <2>1, DetachSubtreesOwned
<1>4. CASE HandleGone
  <2>1. tbl' = remove(tbl, Ev.wd)
    BY <1>4 DEF HandleGone
  <2>2. \A q \in DOMAIN tbl.owners : q # tbl.wd[Ev.wd].path => tbl.owners[q] # {tbl.wd[Ev.wd].path}
    BY <1>4 DEF Strands, TheWatch
  <2> QED BY <1>1, <2>1, <2>2, RemoveOwned
<1>5. CASE HandleMoveSelf
  <2>1. tbl' = tbl \/ tbl' = releaseOwner(tbl, TheWatch.path).tbl
    BY <1>5 DEF HandleMoveSelf, ReleaseUser
  <2> QED BY <1>1, <2>1, ReleaseOwnerOwned
<1>6. CASE HandleMovedWithin
  <2> DEFINE us == recursiveOwners(tbl, TheWatch.path)
  <2>1. tbl' = rebase(tbl, pending[Ev.cookie], EvName, us).tbl /\ Known({"create", "to"})
    BY <1>6 DEF HandleMovedWithin, AppearsDir
  <2>2. IsPath(EvName)
    BY <2>1, KnownWatch DEF SoundTables
  <2> HIDE DEF us
  <2> QED BY <1>1, <2>1, <2>2, RebaseOwned
<1>7. CASE HandleNewDir
  <2>1. tbl' = tbl \/ tbl' = detachSubtrees(tbl, {EvName}).tbl
    BY <1>7 DEF HandleNewDir, detachSubtree
  <2> QED BY <1>1, <2>1, DetachSubtreesOwned
<1> QED BY <1>2, <1>3, <1>4, <1>5, <1>6, <1>7 DEF ReaderStep

LEMMA NextOwned ==
  ASSUME SoundTables, GrownTables, RightTables, WatchedIsOwned, [Next]_vars, [~Strands]_vars
  PROVE  WatchedIsOwned'
<1>1. CASE TreeStep \/ KernelStep \/ UNCHANGED vars
  <2>1. tbl' = tbl
    BY <1>1 DEF TreeStep, KernelStep, vars, backendVars
  <2> QED BY <2>1 DEF WatchedIsOwned
<1>2. CASE WalkStep
  BY <1>2, WalkOwned DEF WatchedIsOwned
<1>3. CASE ReaderStep
  BY <1>1, <1>3, ReaderOwned DEF WatchedIsOwned
<1>4. ASSUME NEW p \in PlainPaths, AddPlain(p)
      PROVE  WatchedIsOwned'
  BY <1>4, AddPlainOwned DEF WatchedIsOwned
<1>5. ASSUME NEW p \in RecursivePaths, AddRecursive(p)
      PROVE  WatchedIsOwned'
  BY <1>5, AddRecursiveOwned DEF WatchedIsOwned
<1>6. CASE (\E p \in Path : RemoveWatch(p)) \/ CloseBegin \/ CloseFinish
  BY <1>6, CallsOwned DEF WatchedIsOwned
<1> QED BY <1>1, <1>2, <1>3, <1>4, <1>5, <1>6 DEF Next

(* RC-018: no watch is left that nobody owns, whatever calls, moves,       *)
(* expiries and failing walks do, unless the watch of a root ends while a  *)
(* path below it that it alone owns is watched: watches.remove deletes     *)
(* owner sets that become empty and leaves their paths and watches         *)
(* (backend_inotify.go:105-141).                                           *)
THEOREM OwnedUnlessStranded == Spec /\ [][~Strands]_vars => []NoOrphanWatch
<1>1. Init => WatchedIsOwned
  BY DEF Init, BackendInit, Owned, newWatches, WatchedIsOwned
<1>2. SoundTables /\ GrownTables /\ RightTables /\ WatchedIsOwned /\ [Next]_vars /\ [~Strands]_vars
        => WatchedIsOwned'
  BY NextOwned
<1>3. WatchedIsOwned => NoOrphanWatch
  BY DEF WatchedIsOwned, Owned, NoOrphanWatch
<1> QED BY <1>1, <1>2, <1>3, TablesAlwaysSound, TablesAlwaysRight, EventsAlwaysSound, PTL DEF Spec

-----------------------------------------------------------------------------
(* The tree, and what everything is named after.                           *)
-----------------------------------------------------------------------------
(* A path that exists has every directory above it, and an inode number is *)
(* not used twice.                                                         *)
AreAbove(p) ==
  \A k \in 1..(Len(p) - 1) : SubSeq(p, 1, k) \in DOMAIN fs /\ kind[fs[SubSeq(p, 1, k)]] = "dir"

TreeSound ==
  /\ \E n \in Nat : Inodes = 0..n
  /\ \A p \in DOMAIN fs : p \in Path /\ fs[p] \in Inodes /\ AreAbove(p)

LEMMA PathIs ==
  ASSUME NEW p
  PROVE  p \in Path <=> p \in Seq(Names) /\ Len(p) \in 1..MaxDepth
<1>1. ASSUME p \in Path
      PROVE  p \in Seq(Names) /\ Len(p) \in 1..MaxDepth
  <2>1. PICK n \in 1..MaxDepth : p \in [1..n -> Names]
    BY <1>1 DEF Path, PathsUpTo
  <2>2. n \in Nat
    BY KernelAssumption
  <2> QED BY <2>1, <2>2
<1>2. ASSUME p \in Seq(Names), Len(p) \in 1..MaxDepth
      PROVE  p \in Path
  <2>1. p \in [1..Len(p) -> Names]
    BY <1>2
  <2> QED BY <1>2, <2>1 DEF Path, PathsUpTo
<1> QED BY <1>1, <1>2

(* What is above a path, again: the first components of one.               *)
LEMMA Above ==
  ASSUME NEW p \in Path
  PROVE  /\ p \in Seq(Names) /\ Len(p) \in 1..MaxDepth /\ Len(p) \in Nat /\ Len(p) - 1 \in Nat
         /\ Dir(p) \in Seq(Names) /\ Len(Dir(p)) = Len(p) - 1
         /\ \A k \in 0..(Len(p) - 1) : SubSeq(Dir(p), 1, k) = SubSeq(p, 1, k)
         /\ SubSeq(p, 1, Len(p) - 1) = Dir(p) /\ SubSeq(p, 1, Len(p)) = p
         /\ p[Len(p)] \in Names
<1>1. p \in Seq(Names) /\ Len(p) \in 1..MaxDepth
  BY PathIs
<1>2. Len(p) \in Nat /\ Len(p) >= 1 /\ Len(p) \in 1..Len(p)
  BY <1>1, LenProperties
<1>3. p[Len(p)] \in Names /\ SubSeq(p, 1, Len(p)) = p
  BY <1>1, <1>2, ElementOfSeq, SubSeqFull
<1> QED BY <1>1, <1>2, <1>3, DirOf DEF Dir

(* What is above a path that exists, but one component down, exists: only  *)
(* a directory with an entry has anything below it.                        *)
LEMMA HasChildren ==
  ASSUME TreeSound, NEW p \in DOMAIN fs, NEW k \in 1..(Len(p) - 1)
  PROVE  Children(SubSeq(p, 1, k)) # {}
<1>1. p \in Path /\ AreAbove(p)
  BY DEF TreeSound
<1>2. p \in Seq(Names) /\ Len(p) \in Nat /\ SubSeq(p, 1, Len(p)) = p
  BY <1>1, Above
<1>3. /\ k + 1 \in 0..Len(p) /\ k \in 0..(k + 1) /\ k \in Int
      /\ k + 1 = Len(p) \/ k + 1 \in 1..(Len(p) - 1)
  <2>1. \A n \in Nat : \A j \in 1..(n - 1) :
          /\ j + 1 \in 0..n /\ j \in 0..(j + 1) /\ j \in Int
          /\ j + 1 = n \/ j + 1 \in 1..(n - 1)
    OBVIOUS
  <2> QED BY <1>2, <2>1
<1> DEFINE c == SubSeq(p, 1, k + 1)
<1>4. c \in DOMAIN fs
  <2>1. CASE k + 1 = Len(p)
    BY <1>2, <2>1
  <2>2. CASE k + 1 \in 1..(Len(p) - 1)
    BY <1>1, <2>2 DEF AreAbove
  <2> QED BY <1>3, <2>1, <2>2
<1>5. Len(c) = k + 1 /\ SubSeq(c, 1, k) = SubSeq(p, 1, k)
  BY <1>2, <1>3, PrefixOf
<1> HIDE DEF c
<1>6. Dir(c) = SubSeq(p, 1, k)
  <2>1. Len(c) - 1 = k
    BY <1>3, <1>5
  <2> QED BY <1>5, <2>1 DEF Dir
<1> QED BY <1>4, <1>6 DEF Children

LEMMA NewInodeIsNew ==
  ASSUME TreeSound
  PROVE  NewInode \notin Inodes /\ \E n \in Nat : Inodes \cup {NewInode} = 0..n
<1>1. PICK n \in Nat : Inodes = 0..n
  BY DEF TreeSound
<1>2. Cardinality(0..n) = n - 0 + 1
  BY FS_Interval
<1>3. NewInode = n + 1
  BY <1>1, <1>2 DEF NewInode
<1>4. (0..n) \cup {n + 1} = 0..(n + 1) /\ n + 1 \notin 0..n /\ n + 1 \in Nat
  OBVIOUS
<1> QED BY <1>1, <1>3, <1>4

(* The directories above a path in an existing directory. *)
LEMMA DirsAbove ==
  ASSUME TreeSound, NEW p \in Path, Dirs(Dir(p))
  PROVE  AreAbove(p)
<1> SUFFICES ASSUME NEW k \in 1..(Len(p) - 1)
             PROVE  SubSeq(p, 1, k) \in DOMAIN fs /\ kind[fs[SubSeq(p, 1, k)]] = "dir"
  BY DEF AreAbove
<1>1. /\ Len(p) - 1 \in Nat /\ Len(Dir(p)) = Len(p) - 1 /\ k \in 0..(Len(p) - 1)
      /\ SubSeq(Dir(p), 1, k) = SubSeq(p, 1, k) /\ SubSeq(p, 1, Len(p) - 1) = Dir(p)
  BY Above
<1>2. Dir(p) # <<>>
  BY <1>1
<1>3. Dir(p) \in DOMAIN fs /\ kind[fs[Dir(p)]] = "dir" /\ AreAbove(Dir(p))
  BY <1>2 DEF Dirs, TreeSound
<1>4. CASE k = Len(p) - 1
  BY <1>1, <1>3, <1>4
<1>5. CASE k # Len(p) - 1
  <2>1. k \in 1..(Len(Dir(p)) - 1)
    BY <1>1, <1>5
  <2> QED BY <1>1, <1>3, <2>1 DEF AreAbove
<1> QED BY <1>4, <1>5

LEMMA CreateTree ==
  ASSUME TreeSound, NEW p \in Path, NEW what, Create(p, what)
  PROVE  TreeSound'
<1>1. /\ p \notin DOMAIN fs /\ Dirs(Dir(p))
      /\ kind' = [i \in Inodes \cup {NewInode} |-> IF i = NewInode THEN what ELSE kind[i]]
      /\ fs' = [q \in DOMAIN fs \cup {p} |-> IF q = p THEN NewInode ELSE fs[q]]
  BY DEF Create
<1>2. NewInode \notin Inodes /\ \E n \in Nat : Inodes \cup {NewInode} = 0..n
  BY NewInodeIsNew
<1>3. Inodes' = Inodes \cup {NewInode}
  BY <1>1 DEF Inodes
<1>4. ASSUME NEW q \in DOMAIN fs
      PROVE  q \in DOMAIN fs' /\ fs'[q] = fs[q] /\ fs'[q] \in Inodes' /\ kind'[fs'[q]] = kind[fs[q]]
  <2>1. fs[q] \in Inodes /\ q # p
    BY <1>1 DEF TreeSound
  <2> QED BY <1>1, <1>2, <1>3, <2>1
<1>5. \A q \in DOMAIN fs \cup {p} : q \in Path /\ AreAbove(q)
  BY <1>1, DirsAbove DEF TreeSound
<1>6. \A q \in DOMAIN fs \cup {p} : AreAbove(q)'
  <2> SUFFICES ASSUME NEW q \in DOMAIN fs \cup {p}, NEW k \in 1..(Len(q) - 1)
               PROVE  SubSeq(q, 1, k) \in DOMAIN fs' /\ kind'[fs'[SubSeq(q, 1, k)]] = "dir"
    BY DEF AreAbove
  <2>1. SubSeq(q, 1, k) \in DOMAIN fs /\ kind[fs[SubSeq(q, 1, k)]] = "dir"
    BY <1>5 DEF AreAbove
  <2> QED BY <1>4, <2>1
<1>7. \A q \in DOMAIN fs' : q \in DOMAIN fs \cup {p} /\ fs'[q] \in Inodes'
  BY <1>1, <1>3, <1>4
<1>8. Path' = Path
  BY DEF Path
<1> QED BY <1>2, <1>3, <1>5, <1>6, <1>7, <1>8 DEF TreeSound

LEMMA UnlinkTree ==
  ASSUME TreeSound, NEW p \in DOMAIN fs, Unlink(p)
  PROVE  TreeSound'
<1>1. Children(p) = {} /\ fs' = [q \in DOMAIN fs \ {p} |-> fs[q]] /\ kind' = kind
  BY DEF Unlink
<1>2. ASSUME NEW q \in DOMAIN fs \ {p}
      PROVE  AreAbove(q)'
  <2> SUFFICES ASSUME NEW k \in 1..(Len(q) - 1)
               PROVE  SubSeq(q, 1, k) \in DOMAIN fs' /\ kind'[fs'[SubSeq(q, 1, k)]] = "dir"
    BY DEF AreAbove
  <2>1. SubSeq(q, 1, k) \in DOMAIN fs /\ kind[fs[SubSeq(q, 1, k)]] = "dir"
    BY DEF TreeSound, AreAbove
  <2>2. SubSeq(q, 1, k) # p
    BY <1>1, HasChildren
  <2> QED BY <1>1, <2>1, <2>2
<1>3. \A q \in DOMAIN fs' : q \in DOMAIN fs \ {p} /\ q \in Path /\ fs'[q] = fs[q] /\ fs[q] \in Inodes
  BY <1>1 DEF TreeSound
<1>4. Path' = Path /\ Inodes' = Inodes
  BY <1>1 DEF Path, Inodes
<1>5. \E n \in Nat : Inodes = 0..n
  BY DEF TreeSound
<1> QED BY <1>2, <1>3, <1>4, <1>5 DEF TreeSound

(* What is renamed lands at and below the new path, with its inodes.       *)
LEMMA RenamedIs ==
  ASSUME TreeSound, NEW p \in DOMAIN fs, NEW q \in Path, Rename(p, q)
  PROVE  LET moved == {x \in DOMAIN fs : Under(x, p)}
             To(x) == Rebased(x, p, q)
         IN  /\ DOMAIN fs' = (DOMAIN fs \ moved) \cup {To(y) : y \in moved}
             /\ \A y \in moved : /\ To(y) \in Path /\ Under(To(y), q)
                                 /\ fs'[To(y)] = fs[y] /\ Len(To(y)) = Len(q) + (Len(y) - Len(p))
             /\ \A x \in DOMAIN fs \ moved : x \notin {To(y) : y \in moved} => fs'[x] = fs[x]
             /\ \A x \in DOMAIN fs \ moved : ~Under(x, p)
             /\ kind' = kind
<1> DEFINE moved == {x \in DOMAIN fs : Under(x, p)}
           To(x) == Rebased(x, p, q)
           landed == {To(y) : y \in moved}
<1>1. /\ \A x \in moved : Len(To(x)) <= MaxDepth
      /\ fs' = [x \in (DOMAIN fs \ moved) \cup landed |->
                  IF x \in landed THEN fs[Rebased(x, q, p)] ELSE fs[x]]
      /\ kind' = kind
  BY DEF Rename
<1>2. /\ p \in Seq(Names) /\ q \in Seq(Names) /\ Len(q) \in Nat /\ Len(q) >= 1
  BY Above DEF TreeSound
<1>3. ASSUME NEW y \in moved
      PROVE  /\ To(y) \in Path /\ Under(To(y), q) /\ Rebased(To(y), q, p) = y
             /\ Len(To(y)) = Len(q) + (Len(y) - Len(p))
  <2>1. y \in Seq(Names) /\ Under(y, p)
    BY PathIs DEF TreeSound
  <2>2. To(y) \in Seq(Names) /\ Under(To(y), q) /\ Rebased(To(y), q, p) = y
    BY <1>2, <2>1, RebaseBack
  <2>3. Landed(To(y), y, p, q)
    BY <1>2, <2>1, RebaseOf
  <2>4. Len(To(y)) = Len(q) + (Len(y) - Len(p))
    BY <2>3 DEF Landed
  <2>5. Len(To(y)) \in 1..MaxDepth
    <3>1. Len(To(y)) <= MaxDepth
      BY <1>1
    <3>2. Len(To(y)) \in Nat /\ Len(q) <= Len(To(y))
      BY <2>2, LenProperties DEF Under
    <3> HIDE DEF To
    <3> QED BY <1>2, <3>1, <3>2, KernelAssumption
  <2>6. To(y) \in Path
    BY <2>2, <2>5, PathIs
  <2> QED BY <2>2, <2>4, <2>6
<1>4. \A y \in moved : fs'[To(y)] = fs[y]
  <2> TAKE y \in moved
  <2>1. To(y) \in landed /\ Rebased(To(y), q, p) = y
    BY <1>3
  <2> HIDE DEF To, landed
  <2> QED BY <1>1, <2>1
<1> HIDE DEF To
<1>5. \A x \in DOMAIN fs \ moved : x \notin landed => fs'[x] = fs[x]
  BY <1>1
<1>6. DOMAIN fs' = (DOMAIN fs \ moved) \cup landed
  BY <1>1
<1> QED BY <1>1, <1>3, <1>4, <1>5, <1>6 DEF To

LEMMA RenameTree ==
  ASSUME TreeSound, NEW p \in DOMAIN fs, NEW q \in Path, Rename(p, q)
  PROVE  TreeSound'
<1> DEFINE moved == {x \in DOMAIN fs : Under(x, p)}
           To(x) == Rebased(x, p, q)
           landed == {To(y) : y \in moved}
<1>1. /\ DOMAIN fs' = (DOMAIN fs \ moved) \cup landed
      /\ \A y \in moved : /\ To(y) \in Path /\ Under(To(y), q)
                          /\ fs'[To(y)] = fs[y] /\ Len(To(y)) = Len(q) + (Len(y) - Len(p))
      /\ \A x \in DOMAIN fs \ moved : x \notin landed => fs'[x] = fs[x]
      /\ \A x \in DOMAIN fs \ moved : ~Under(x, p)
      /\ kind' = kind
  BY RenamedIs
<1>2. p \in moved /\ \A x \in moved : x \in DOMAIN fs /\ Under(x, p)
  BY UnderOf, PathIs DEF TreeSound
<1>3. ~Under(q, p) /\ Dirs(Dir(q)) /\ (q \in DOMAIN fs => Children(q) = {})
  BY DEF Rename
<1>4. /\ \A x \in DOMAIN fs : x \in Path /\ x \in Seq(Names) /\ Len(x) \in Nat /\ Len(x) >= 1
                              /\ fs[x] \in Inodes /\ AreAbove(x)
      /\ q \in Seq(Names) /\ Len(q) \in Nat /\ Len(q) >= 1 /\ p \in Seq(Names)
      /\ Len(p) \in Nat /\ Len(p) >= 1 /\ p \in DOMAIN fs
  BY Above DEF TreeSound
<1>5. AreAbove(q)
  BY <1>3, DirsAbove
<1> HIDE DEF To, moved
<1>6. \A x \in landed : x \in Path /\ fs'[x] \in Inodes
  BY <1>1, <1>2, <1>4
<1>7. \A x \in DOMAIN fs \ moved : x \in Path /\ (x \notin landed => fs'[x] \in Inodes)
  BY <1>1, <1>4
(* A directory that stays is there with its inode. *)
<1>8. ASSUME NEW z \in DOMAIN fs, kind[fs[z]] = "dir", ~Under(z, p), z \notin landed
      PROVE  z \in DOMAIN fs' /\ kind'[fs'[z]] = "dir"
  <2>1. z \in DOMAIN fs \ moved
    BY <1>2, <1>8
  <2> QED BY <1>1, <1>8, <2>1
(* What is under the new path and above something else has moved. *)
<1>9. ASSUME NEW x \in DOMAIN fs, NEW k \in 1..(Len(x) - 1), Under(SubSeq(x, 1, k), q)
      PROVE  FALSE
  <2>1. k \in 0..Len(x) /\ SubSeq(x, 1, k) \in Seq(Names) /\ Len(SubSeq(x, 1, k)) = k
        /\ \A j \in 0..k : SubSeq(SubSeq(x, 1, k), 1, j) = SubSeq(x, 1, j)
    <3>1. k \in 0..Len(x)
      BY <1>4
    <3> QED BY <1>4, <3>1, PrefixOf
  <2> DEFINE z == SubSeq(x, 1, k)
  <2>2. Len(q) <= Len(z) /\ SubSeq(z, 1, Len(q)) = q
    BY <1>9 DEF Under
  <2> HIDE DEF z
  <2>3. Len(q) \in 0..k /\ Len(q) \in 1..(Len(x) - 1)
    BY <1>4, <2>1, <2>2 DEF z
  <2>4. SubSeq(x, 1, Len(q)) = q
    BY <2>1, <2>2, <2>3 DEF z
  <2>5. q \in DOMAIN fs
    BY <1>4, <2>3, <2>4 DEF AreAbove
  <2> QED BY <1>3, <2>3, <2>4, <2>5, HasChildren
<1>10. ASSUME NEW x \in DOMAIN fs \ moved
       PROVE  AreAbove(x)'
  <2> SUFFICES ASSUME NEW k \in 1..(Len(x) - 1)
               PROVE  SubSeq(x, 1, k) \in DOMAIN fs' /\ kind'[fs'[SubSeq(x, 1, k)]] = "dir"
    BY DEF AreAbove
  <2> DEFINE z == SubSeq(x, 1, k)
  <2>1. z \in DOMAIN fs /\ kind[fs[z]] = "dir" /\ x \in DOMAIN fs
    BY <1>4 DEF AreAbove
  <2>2. ~Under(z, p)
    <3>1. k \in 0..Len(x)
      BY <1>4
    <3> QED BY <1>1, <1>4, <3>1, UnderOf
  <2>3. ~Under(z, q)
    BY <1>9, <2>1
  <2>4. z \notin landed
    BY <1>1, <2>3
  <2> HIDE DEF z
  <2>5. z \in DOMAIN fs' /\ kind'[fs'[z]] = "dir"
    BY <1>8, <2>1, <2>2, <2>4
  <2> QED BY <2>5 DEF z
<1>11. ASSUME NEW y \in moved
       PROVE  AreAbove(To(y))'
  <2> DEFINE x == To(y)
  <2> SUFFICES ASSUME NEW k \in 1..(Len(x) - 1)
               PROVE  SubSeq(x, 1, k) \in DOMAIN fs' /\ kind'[fs'[SubSeq(x, 1, k)]] = "dir"
    BY DEF AreAbove
  <2> DEFINE j == Len(p) + (k - Len(q))
             v == SubSeq(y, 1, j)
  <2>1. y \in DOMAIN fs /\ Under(y, p) /\ y \in Seq(Names) /\ Len(y) \in Nat
        /\ Len(x) = Len(q) + (Len(y) - Len(p))
    BY <1>1, <1>2, <1>4
  <2>2. k \in 1..Len(x)
    BY <1>4, <2>1
  <2>3. /\ k <= Len(q) => SubSeq(x, 1, k) = SubSeq(q, 1, k)
        /\ k >= Len(q) => /\ j \in Len(p)..Len(y) /\ Under(v, p) /\ SubSeq(x, 1, k) = To(v)
    BY <1>4, <2>1, <2>2, RebasePrefixes DEF To
  <2> HIDE DEF x, v
  <2>4. CASE k < Len(q)
    <3> DEFINE z == SubSeq(q, 1, k)
    <3>1. k \in 1..(Len(q) - 1) /\ k \in 0..Len(q)
      BY <1>4, <2>4
    <3>2. z \in DOMAIN fs /\ kind[fs[z]] = "dir"
      BY <1>5, <3>1 DEF AreAbove
    <3>3. ~Under(z, p)
      BY <1>3, <1>4, <3>1, UnderOf
    <3>4. z \notin landed
      <4>1. Len(z) = k
        BY <1>4, <3>1, PrefixOf
      <4>2. \A w \in landed : Len(w) >= Len(q)
        BY <1>1 DEF Under
      <4> HIDE DEF z
      <4> QED BY <1>4, <2>4, <4>1, <4>2
    <3> HIDE DEF z
    <3>5. z \in DOMAIN fs' /\ kind'[fs'[z]] = "dir"
      BY <1>8, <3>2, <3>3, <3>4
    <3>6. SubSeq(x, 1, k) = z
      BY <1>4, <2>3, <2>4 DEF z
    <3> QED BY <3>5, <3>6
  <2>5. CASE k >= Len(q)
    <3>1. j \in 1..(Len(y) - 1)
      BY <1>4, <2>1, <2>5
    <3>2. v \in DOMAIN fs /\ kind[fs[v]] = "dir"
      BY <1>4, <2>1, <3>1 DEF AreAbove, v
    <3>3. v \in moved
      BY <2>3, <2>5, <3>2 DEF moved
    <3>4. To(v) \in DOMAIN fs' /\ fs'[To(v)] = fs[v]
      BY <1>1, <3>3
    <3> QED BY <1>1, <2>3, <2>5, <3>2, <3>4
  <2> QED BY <1>4, <2>4, <2>5
<1>12. \A x \in DOMAIN fs' : x \in Path /\ fs'[x] \in Inodes /\ AreAbove(x)'
  BY <1>1, <1>6, <1>7, <1>10, <1>11
<1>13. Path' = Path /\ Inodes' = Inodes
  BY <1>1 DEF Path, Inodes
<1>14. \E n \in Nat : Inodes = 0..n
  BY DEF TreeSound
<1> QED BY <1>12, <1>13, <1>14 DEF TreeSound

LEMMA InitTree ==
  ASSUME KernelInit
  PROVE  TreeSound
<1> DEFINE N == Cardinality(InitDirs)
<1>1. fs = CHOOSE f \in [InitDirs -> 1..N] : IsInjective(f)
  BY DEF KernelInit
<1>2. kind = [i \in 0..N |-> "dir"]
  BY DEF KernelInit
<1>3. N \in Nat /\ ExistsBijection(1..N, InitDirs)
  BY KernelAssumption, FS_CardinalityType
<1>4. fs \in [InitDirs -> 1..N]
  <2>1. PICK g \in Bijection(1..N, InitDirs) : TRUE
    BY <1>3 DEF ExistsBijection
  <2> DEFINE f == [p \in InitDirs |-> CHOOSE k \in 1..N : g[k] = p]
  <2>2. \A p \in InitDirs : \E k \in 1..N : g[k] = p
    BY <2>1 DEF Bijection, Surjection
  <2>3. \A p \in InitDirs : f[p] \in 1..N /\ g[f[p]] = p
    BY <2>2
  <2>4. f \in [InitDirs -> 1..N] /\ IsInjective(f)
    BY <2>3 DEF IsInjective
  <2> HIDE DEF f, N
  <2> QED BY <1>1, <2>4
<1>5. Inodes = 0..N /\ \A i \in 0..N : kind[i] = "dir"
  BY <1>2 DEF Inodes
<1> HIDE DEF N
<1>6. DOMAIN fs = InitDirs /\ \A p \in InitDirs : fs[p] \in 0..N
  BY <1>3, <1>4
<1>7. \A p \in InitDirs : p \in Path /\ AreAbove(p)
  BY <1>5, <1>6, KernelAssumption DEF AreAbove, Path
<1> QED BY <1>3, <1>5, <1>6, <1>7 DEF TreeSound

-----------------------------------------------------------------------------
(* The names in events, and the cookies.                                   *)
-----------------------------------------------------------------------------
(* An event, or a notification, about an entry has the name of the entry;  *)
(* n calls were made that change the tree.                                 *)
NamedNote(e, n) ==
  /\ e.kind \in {"create", "from", "to"} => e.name \in Names
  /\ e.kind = "from" => e.cookie \in 1..n

NamedNotes(s, n) == s \in Seq(ToSet(s)) /\ \A e \in ToSet(s) : NamedNote(e, n)

LEMMA NoNotesNamed ==
  ASSUME NEW n
  PROVE  NamedNotes(<<>>, n)
BY ToSetEmpty DEF NamedNotes

LEMMA BothNamed ==
  ASSUME NEW n, NEW a, NEW b, NamedNotes(a, n), NamedNotes(b, n)
  PROVE  NamedNotes(a \o b, n)
BY ToSetConcat DEF NamedNotes

LEMMA PushNamed ==
  ASSUME NEW n, NEW q, NEW es, NamedNotes(q, n), NamedNotes(es, n)
  PROVE  NamedNotes(Push(q, es), n)
<1> DEFINE r == Push(q, es)
<1>1. r \in Seq(ToSet(r)) /\ ToSet(r) \subseteq ToSet(q) \cup ToSet(es) \cup {Overflow}
  BY PushIs DEF NamedNotes
<1>2. NamedNote(Overflow, n)
  BY DEF NamedNote, Overflow
<1> HIDE DEF r
<1>3. NamedNotes(r, n)
  BY <1>1, <1>2 DEF NamedNotes
<1> QED BY <1>3 DEF r

LEMMA LaterNamed ==
  ASSUME NEW n \in Nat, NEW m \in Nat, n <= m, NEW s, NamedNotes(s, n)
  PROVE  NamedNotes(s, m)
BY DEF NamedNotes, NamedNote

LEMMA EventsOfNamed ==
  ASSUME NEW n, NEW m, NamedNote(n, m)
  PROVE  NamedNotes(EventsOf(n), m)
<1> DEFINE ds == WdsOf(kwatch, n.ino)
           d  == CHOOSE x \in ds : TRUE
           e1 == Event("delete_self", d, n)
           e2 == Event("ignored", d, n)
           e3 == Event(n.kind, d, n)
<1>1. EventsOf(n) = IF ds = {} THEN <<>> ELSE IF n.kind = "gone" THEN <<e1, e2>> ELSE <<e3>>
  BY DEF EventsOf
<1>2. NamedNote(e1, m) /\ NamedNote(e2, m) /\ NamedNote(e3, m)
  BY DEF Event, NamedNote
<1> HIDE DEF ds, e1, e2, e3
<1>3. NamedNotes(<<e1, e2>>, m)
  <2> DEFINE es == <<e1, e2>>
  <2>1. es \in Seq(ToSet(es)) /\ ToSet(es) = {e1, e2}
    BY DEF ToSet
  <2> HIDE DEF es
  <2>2. NamedNotes(es, m)
    BY <1>2, <2>1 DEF NamedNotes
  <2> QED BY <2>2 DEF es
<1>4. NamedNotes(<<e3>>, m)
  <2> DEFINE es == <<e3>>
  <2>1. es \in Seq(ToSet(es)) /\ ToSet(es) = {e3}
    BY DEF ToSet
  <2> HIDE DEF es
  <2>2. NamedNotes(es, m)
    BY <1>2, <2>1 DEF NamedNotes
  <2> QED BY <2>2 DEF es
<1> QED BY <1>1, <1>3, <1>4, NoNotesNamed

(* The events and notifications on their way. *)
EventsNamed ==
  /\ fsOps \in 0..MaxFsOps
  /\ NamedNotes(queue, fsOps) /\ NamedNotes(buf, fsOps) /\ NamedNotes(tail, fsOps)

(* The last component of a path is the name of an entry. *)
LEMMA LastIsName ==
  ASSUME NEW p \in Path
  PROVE  Last(p) \in Names
BY Above DEF Last

LEMMA KernelNames ==
  ASSUME TreeSound, EventsNamed, TreeStep \/ KernelStep
  PROVE  fsOps' \in 0..MaxFsOps /\ fsOps <= fsOps' /\ NamedNotes(queue', fsOps') /\ NamedNotes(tail', fsOps')
<1> DEFINE Named(s) == NamedNotes(s, fsOps')
           Fine     == fsOps' \in 0..MaxFsOps /\ fsOps <= fsOps' /\ Named(queue') /\ Named(tail')
<1>1. fsOps \in Nat /\ MaxFsOps \in Nat /\ fsOps <= MaxFsOps
  BY KernelAssumption DEF EventsNamed
<1>2. CanChange => fsOps' = fsOps + 1 /\ fsOps' \in 0..MaxFsOps /\ fsOps' \in Nat /\ fsOps <= fsOps'
  BY <1>1 DEF CanChange
<1>3. ASSUME CanChange, NEW es, NEW ended, NEW later, Notify(es, ended, later), Named(es), Named(later)
      PROVE  Fine
  <2>1. Named(queue) /\ Named(tail)
    BY <1>1, <1>2, <1>3, LaterNamed DEF EventsNamed
  <2>2. queue' = Push(queue, es) /\ tail' = tail \o later
    BY <1>3 DEF Notify, Queue
  <2> QED BY <1>2, <1>3, <2>1, <2>2, PushNamed, BothNamed
<1>4. Named(<<>>)
  BY NoNotesNamed
<1>5. \A i : NamedNote(Gone(i), fsOps')
  BY DEF Gone, Note, NamedNote
<1>6. \A i, name, c, b : /\ NamedNote(Note("delete", i, name, c, b), fsOps')
                         /\ NamedNote(Note("move_self", i, name, c, b), fsOps')
  BY DEF Note, NamedNote
<1>7. \A i, c, b : \A name \in Names : /\ NamedNote(Note("create", i, name, c, b), fsOps')
                                       /\ NamedNote(Note("to", i, name, c, b), fsOps')
  BY DEF Note, NamedNote
<1>8. CanChange => \A i, b : \A name \in Names : NamedNote(Note("from", i, name, Cookie, b), fsOps')
  <2>1. CanChange => Cookie \in 1..fsOps'
    BY <1>1, <1>2 DEF Cookie
  <2> QED BY <2>1 DEF Note, NamedNote
<1>9. \A x : NamedNote(x, fsOps') => Named(EventsOf(x))
  BY EventsOfNamed
<1> HIDE DEF Fine, Named
<1>10. ASSUME NEW p \in Path, NEW what, Create(p, what) PROVE Fine
  <2> DEFINE x == Note("create", InodeAt(Dir(p)), Last(p), 0, what = "dir")
  <2>1. NamedNote(x, fsOps')
    <3>1. Last(p) \in Names
      BY LastIsName
    <3> QED BY <1>7, <3>1, Zenon
  <2>2. CanChange /\ Notify(EventsOf(x), {}, <<>>)
    BY <1>10 DEF Create
  <2> HIDE DEF x
  <2> QED BY <1>3, <1>4, <1>9, <2>1, <2>2
<1>11. ASSUME NEW p, Unlink(p) PROVE Fine
  <2> DEFINE i      == fs[p]
             x      == Note("delete", InodeAt(Dir(p)), Last(p), 0, kind[i] = "dir")
             parent == EventsOf(x)
             self   == EventsOf(Gone(i))
  <2>1. /\ CanChange
        /\ \/ Notify(parent \o self, {i}, <<>>) \/ Notify(self \o parent, {i}, <<>>)
           \/ Notify(parent, {}, <<>>)
    BY <1>11 DEF Unlink
  <2>2. NamedNote(x, fsOps') /\ NamedNote(Gone(i), fsOps')
    BY <1>5, <1>6, Zenon
  <2> HIDE DEF x
  <2>3. Named(parent) /\ Named(self)
    BY <1>9, <2>2
  <2> HIDE DEF parent, self
  <2>4. Named(parent \o self) /\ Named(self \o parent)
    BY <2>3, BothNamed DEF Named
  <2> QED BY <1>3, <1>4, <2>1, <2>3, <2>4
<1>12. ASSUME NEW p \in Path, NEW q \in Path, Rename(p, q) PROVE Fine
  <2> DEFINE i      == fs[p]
             isDir  == kind[i] = "dir"
             from   == Note("from", InodeAt(Dir(p)), Last(p), Cookie, isDir)
             to     == Note("to", InodeAt(Dir(q)), Last(q), Cookie, isDir)
             self   == Note("move_self", i, NoName, 0, isDir)
             gone   == Gone(fs[q])
             events == EventsOf(from) \o EventsOf(to) \o EventsOf(self)
             target == IF q \in DOMAIN fs THEN {fs[q]} ELSE {}
  <2>1. \/ Notify(<<>>, {}, <<from, to, self>>)
        \/ Notify(<<>>, {}, <<from, to, self, gone>>)
        \/ Notify(events, {}, <<>>)
        \/ Notify(events \o EventsOf(gone), target, <<>>)
    BY <1>12 DEF Rename
  <2>2. CanChange
    BY <1>12 DEF Rename
  <2>3. Last(p) \in Names /\ Last(q) \in Names
    BY LastIsName
  <2>4. NamedNote(from, fsOps')
    BY <1>8, <2>2, <2>3, Zenon
  <2>5. NamedNote(to, fsOps') /\ NamedNote(self, fsOps') /\ NamedNote(gone, fsOps')
    BY <1>5, <1>6, <1>7, <2>3, Zenon
  <2> HIDE DEF from, to, self, gone
  <2>6. /\ Named(EventsOf(from)) /\ Named(EventsOf(to))
        /\ Named(EventsOf(self)) /\ Named(EventsOf(gone))
    BY <1>9, <2>4, <2>5
  <2>7. Named(events)
    BY <2>6, BothNamed DEF Named
  <2> HIDE DEF events
  <2>8. Named(events \o EventsOf(gone))
    BY <2>6, <2>7, BothNamed DEF Named
  <2>9. Named(<<from, to, self>>)
    <3> DEFINE s == <<from, to, self>>
    <3>1. s \in Seq(ToSet(s)) /\ ToSet(s) = {from, to, self}
      BY DEF ToSet
    <3> HIDE DEF s
    <3>2. Named(s)
      BY <2>4, <2>5, <3>1 DEF Named, NamedNotes
    <3> QED BY <3>2 DEF s
  <2>10. Named(<<from, to, self, gone>>)
    <3> DEFINE s == <<from, to, self, gone>>
    <3>1. s \in Seq(ToSet(s)) /\ ToSet(s) = {from, to, self, gone}
      BY DEF ToSet
    <3> HIDE DEF s
    <3>2. Named(s)
      BY <2>4, <2>5, <3>1 DEF Named, NamedNotes
    <3> QED BY <3>2 DEF s
  <2> HIDE DEF target
  <2> QED BY <1>3, <1>4, <2>1, <2>2, <2>7, <2>8, <2>9, <2>10
(* The kernel's own steps make no call. *)
<1>13. ASSUME NEW es, NEW later, fsOps' = fsOps, queue' = Push(queue, es), tail' = later,
              Named(es), Named(later)
       PROVE  Fine
  <2>1. Named(queue)
    BY <1>13 DEF EventsNamed, Named
  <2> QED BY <1>1, <1>13, <2>1, PushNamed DEF Fine, Named
<1>14. ASSUME RenameNotifies PROVE Fine
  <2> DEFINE n     == Head(tail)
  <2>1. tail # <<>> /\ queue' = Push(queue, EventsOf(n)) /\ tail' = Tail(tail) /\ fsOps' = fsOps
    BY <1>14 DEF RenameNotifies, Queue
  <2>2. /\ Tail(tail) \in Seq(ToSet(Tail(tail)))
        /\ ToSet(tail) = {n} \cup ToSet(Tail(tail))
    BY <2>1, ToSetTail DEF EventsNamed, NamedNotes
  <2> HIDE DEF n
  <2>3. NamedNote(n, fsOps') /\ Named(Tail(tail))
    BY <2>1, <2>2 DEF EventsNamed, NamedNotes, Named
  <2> QED BY <1>9, <1>13, <2>1, <2>3
<1>15. ASSUME NEW i, Release(i) PROVE Fine
  <2>1. fsOps' = fsOps /\ queue' = Push(queue, EventsOf(Gone(i))) /\ tail' = tail \o <<>>
    BY <1>15 DEF Release, Notify, Queue
  <2>2. Named(tail)
    BY <2>1 DEF EventsNamed, Named
  <2>3. Named(tail \o <<>>)
    BY <1>4, <2>2, BothNamed DEF Named
  <2> QED BY <1>5, <1>9, <1>13, <2>1, <2>3
<1>16. \A p \in DOMAIN fs : p \in Path
  BY DEF TreeSound
<1>17. Fine
  BY <1>10, <1>11, <1>12, <1>14, <1>15, <1>16 DEF TreeStep, KernelStep
<1> QED BY <1>17 DEF Fine, Named

(* What removing watches queues names no entry. *)
LEMMA RmWatchesNames ==
  ASSUME WdsSound, NEW n, NamedNotes(queue, n), NEW ds, RmWatches(ds)
  PROVE  NamedNotes(queue', n)
<1> DEFINE gone    == DOMAIN kwatch \ DOMAIN kwatch'
           N       == Cardinality(gone)
           Rank(d) == Cardinality({x \in gone : x <= d})
           Ignored(d) == [kind |-> "ignored", wd |-> d, name |-> NoName, cookie |-> 0, dir |-> FALSE]
           E(k)    == Ignored(CHOOSE d \in gone : Rank(d) = k)
           es      == [k \in 1..N |-> E(k)]
           S       == {E(k) : k \in 1..N}
<1>1. queue' = Push(queue, es)
  BY DEF RmWatches
<1>2. gone \in SUBSET Nat /\ IsFiniteSet(gone)
  <2>1. gone \in SUBSET Nat /\ nextWd \in Nat /\ \A x \in gone : x <= nextWd
    BY DEF WdsSound
  <2> HIDE DEF gone
  <2> QED BY <2>1, FS_BoundedSetOfNaturals
<1>3. \A k : NamedNote(E(k), n)
  BY DEF NamedNote
<1> HIDE DEF gone
<1>4. N \in Nat
  BY <1>2, Ranks
<1> HIDE DEF N, E
<1>5. es \in Seq(S)
  BY <1>4
<1>6. \A e \in S : NamedNote(e, n)
  BY <1>3
<1> HIDE DEF es, S
<1>7. NamedNotes(es, n)
  BY <1>5, <1>6, ToSetSeq DEF NamedNotes
<1> QED BY <1>1, <1>7, PushNamed

-----------------------------------------------------------------------------
(* The tree and the events, at every step. *)
LEMMA NextTree ==
  ASSUME TreeSound, [Next]_vars
  PROVE  TreeSound'
<1> DEFINE Same == fs' = fs /\ kind' = kind
<1>1. CASE Same
  <2>1. TreeSound' <=> TreeSound
    BY <1>1 DEF TreeSound, AreAbove, Inodes, Path
  <2> QED BY <2>1
<1>2. TreeQuiet \/ UNCHANGED kernelVars => Same
  BY DEF TreeQuiet, kernelVars
<1> HIDE DEF Same
<1>3. CASE TreeStep
  <2>1. \/ \E p \in Path : Create(p, "dir") \/ Create(p, "file")
        \/ \E p \in DOMAIN fs : Unlink(p)
        \/ \E p \in DOMAIN fs, q \in Path : Rename(p, q)
    BY <1>3 DEF TreeStep
  <2> QED BY <2>1, CreateTree, UnlinkTree, RenameTree
<1>4. CASE KernelStep
  <2>1. fs' = fs /\ kind' = kind
    BY <1>4 DEF KernelStep, RenameNotifies, Release
  <2> QED BY <1>1, <2>1 DEF Same
<1>5. CASE ReaderStep
  BY <1>1, <1>2, <1>5
     DEF ReaderStep, PrepareRead, Read, ReadClosed, ExpirePendingMoves, HandleUnknown, HandleGone,
         HandleMoveSelf, HandleMovedFrom, HandleMovedWithin, HandleNewDir, HandleOther, Handle
<1>6. CASE WalkStep
  BY <1>1, <1>2, <1>6 DEF WalkStep, VisitDir, ListDir
<1>7. CASE (\E p \in PlainPaths : AddPlain(p)) \/ (\E p \in RecursivePaths : AddRecursive(p))
  BY <1>1, <1>2, <1>7 DEF AddPlain, AddRecursive
<1>8. CASE (\E p \in Path : RemoveWatch(p)) \/ CloseBegin
  BY <1>1, <1>2, <1>8 DEF RemoveWatch, CloseBegin
<1>9. CASE CloseFinish
  <2>1. fs' = fs /\ kind' = kind
    BY <1>9 DEF CloseFinish, CloseInstance
  <2> QED BY <1>1, <2>1 DEF Same
<1>10. CASE UNCHANGED vars
  <2>1. UNCHANGED kernelVars
    BY <1>10 DEF vars
  <2> QED BY <1>1, <1>2, <2>1
<1> QED BY <1>3, <1>4, <1>5, <1>6, <1>7, <1>8, <1>9, <1>10 DEF Next

(* A step that is not the kernel's queues what removing watches does, and  *)
(* takes events from the buffer.                                           *)
TakesEvents ==
  /\ queue' = queue \/ \E ds : RmWatches(ds)
  /\ buf' = buf \/ Handle
  /\ tail' = tail /\ fsOps' = fsOps

LEMMA NextTakes ==
  ASSUME Next
  PROVE  TreeStep \/ KernelStep \/ Read \/ CloseFinish \/ TakesEvents
<1> DEFINE Queued == queue' = queue \/ \E ds : RmWatches(ds)
<1>1. KernelQuiet \/ UNCHANGED kernelVars => Queued
  BY DEF KernelQuiet, kernelVars
<1>2. \A p : AddWatch(p) => Queued
  BY DEF AddWatch
<1>3. \A t, u : ReleaseUser(t, u) => Queued
  BY DEF ReleaseUser
<1>4. Abort => Queued
  BY DEF Abort
<1>5. TreeQuiet \/ UNCHANGED kernelVars => tail' = tail /\ fsOps' = fsOps
  BY DEF TreeQuiet, kernelVars
<1>6. ReaderQuiet => buf' = buf
  BY DEF ReaderQuiet
<1> HIDE DEF Queued
<1>7. CASE (\E p \in PlainPaths : AddPlain(p)) \/ (\E p \in RecursivePaths : AddRecursive(p))
  <2>1. Queued /\ TreeQuiet /\ ReaderQuiet
    BY <1>1, <1>2, <1>3, <1>7 DEF AddPlain, AddRecursive
  <2> QED BY <1>5, <1>6, <2>1 DEF TakesEvents, Queued
<1>8. CASE (\E p \in Path : RemoveWatch(p)) \/ CloseBegin
  <2>1. Queued /\ (TreeQuiet \/ UNCHANGED kernelVars) /\ ReaderQuiet
    BY <1>1, <1>3, <1>8 DEF RemoveWatch, CloseBegin
  <2> QED BY <1>5, <1>6, <2>1 DEF TakesEvents, Queued
<1>9. CASE WalkStep
  <2>1. Queued /\ TreeQuiet /\ ReaderQuiet
    BY <1>1, <1>2, <1>4, <1>9 DEF WalkStep, VisitDir, ListDir
  <2> QED BY <1>5, <1>6, <2>1 DEF TakesEvents, Queued
<1>10. CASE PrepareRead \/ ReadClosed \/ ExpirePendingMoves
  <2>1. Queued /\ (TreeQuiet \/ UNCHANGED kernelVars) /\ buf' = buf
    BY <1>1, <1>10 DEF PrepareRead, ReadClosed, ExpirePendingMoves, Queued
  <2> QED BY <1>5, <2>1 DEF TakesEvents, Queued
<1>11. CASE HandleUnknown \/ HandleGone \/ HandleMoveSelf \/ HandleMovedFrom
            \/ HandleMovedWithin \/ HandleNewDir \/ HandleOther
  <2>1. Queued
    BY <1>1, <1>3, <1>11
       DEF HandleUnknown, HandleGone, HandleMoveSelf, HandleMovedFrom, HandleMovedWithin, HandleNewDir,
           HandleOther, Queued
  <2>2. Handle
    BY <1>11 DEF HandleUnknown, HandleGone, HandleMoveSelf, HandleMovedFrom, HandleMovedWithin,
                 HandleNewDir, HandleOther
  <2>3. TreeQuiet
    BY <2>2 DEF Handle
  <2> QED BY <1>5, <2>1, <2>2, <2>3 DEF TakesEvents, Queued
<1> QED BY <1>7, <1>8, <1>9, <1>10, <1>11 DEF Next, ReaderStep

LEMMA NextEventsNamed ==
  ASSUME TreeSound, EventsNamed, EventsSound, WdsSound, [Next]_vars
  PROVE  EventsNamed' /\ fsOps <= fsOps'
<1>1. fsOps \in Nat /\ MaxFsOps \in Nat /\ fsOps <= fsOps
  BY KernelAssumption DEF EventsNamed
<1>2. CASE TreeStep \/ KernelStep
  <2>1. buf' = buf
    BY <1>2 DEF TreeStep, KernelStep, backendVars
  <2>2. /\ fsOps' \in 0..MaxFsOps /\ fsOps <= fsOps'
        /\ NamedNotes(queue', fsOps') /\ NamedNotes(tail', fsOps')
    BY <1>2, KernelNames
  <2>3. fsOps' \in Nat
    BY <1>1, <2>2
  <2>4. NamedNotes(buf', fsOps')
    BY <1>1, <2>1, <2>2, <2>3, LaterNamed DEF EventsNamed
  <2> QED BY <2>2, <2>4 DEF EventsNamed
<1>3. CASE Read
  <2>1. EventsSound' /\ ToSet(queue') \cup ToSet(buf') = ToSet(queue) \cup ToSet(buf)
    BY <1>3, ReadKeepsEvents
  <2>2. tail' = tail /\ fsOps' = fsOps
    BY <1>3 DEF Read, TreeQuiet
  <2>3. queue' \in Seq(ToSet(queue')) /\ buf' \in Seq(ToSet(buf'))
    BY <2>1 DEF EventsSound
  <2> QED BY <1>1, <2>1, <2>2, <2>3 DEF EventsNamed, NamedNotes
<1>4. CASE CloseFinish
  <2>1. queue' = <<>> /\ tail' = tail /\ buf' = buf /\ fsOps' = fsOps
    BY <1>4 DEF CloseFinish, CloseInstance, ReaderQuiet
  <2> QED BY <1>1, <2>1, NoNotesNamed DEF EventsNamed
<1>5. CASE TakesEvents
  <2>1. NamedNotes(queue', fsOps)
    BY <1>5, RmWatchesNames DEF TakesEvents, EventsNamed
  <2>2. NamedNotes(buf', fsOps)
    <3>1. CASE Handle
      BY <3>1, HandleTakes DEF EventsNamed, NamedNotes
    <3>2. CASE buf' = buf
      BY <3>2 DEF EventsNamed
    <3> QED BY <1>5, <3>1, <3>2 DEF TakesEvents
  <2> QED BY <1>1, <1>5, <2>1, <2>2 DEF TakesEvents, EventsNamed
<1>6. CASE UNCHANGED vars
  <2>1. queue' = queue /\ tail' = tail /\ buf' = buf /\ fsOps' = fsOps
    BY <1>6 DEF vars, kernelVars, backendVars
  <2> QED BY <1>1, <2>1 DEF EventsNamed
<1> QED BY <1>2, <1>3, <1>4, <1>5, <1>6, NextTakes

-----------------------------------------------------------------------------
(* The names in the tables, in the moves that wait and in the walk.        *)
-----------------------------------------------------------------------------
NamedTodo(s) == s \in Seq(ToSet(s)) /\ \A i \in ToSet(s) : i.path \in Seq(Names)

NamedWalk(w) == w # NoWalk => NamedTodo(w.todo)

NamedMoves(moves, n) == \A c \in DOMAIN moves : c \in 1..n /\ moves[c] \in Seq(Names)

TablesNamed ==
  /\ NamedTable(tbl) /\ NamedWalk(walk) /\ NamedMoves(pending, fsOps)
  /\ reader \in {"prepare", "read", "handle", "done"}

LEMMA OneTodoNamed ==
  ASSUME NEW what, NEW p \in Seq(Names)
  PROVE  NamedTodo(<<[do |-> what, path |-> p]>>)
<1> DEFINE i == [do |-> what, path |-> p]
           s == <<i>>
<1>1. i.path = p
  OBVIOUS
<1> HIDE DEF i
<1>2. s \in Seq(ToSet(s)) /\ ToSet(s) = {i}
  BY DEF ToSet
<1> HIDE DEF s
<1>3. NamedTodo(s)
  BY <1>1, <1>2 DEF NamedTodo
<1> QED BY <1>3 DEF s, i

(* The first entry is done and others take its place. *)
LEMMA TodoNamed ==
  ASSUME NEW a, NEW b, NamedTodo(a), NamedTodo(b), b # <<>>
  PROVE  NamedTodo(a \o Tail(b)) /\ Head(b).path \in Seq(Names)
<1>1. Tail(b) \in Seq(ToSet(Tail(b))) /\ ToSet(b) = {Head(b)} \cup ToSet(Tail(b))
  BY ToSetTail DEF NamedTodo
<1>2. /\ a \o Tail(b) \in Seq(ToSet(a \o Tail(b)))
      /\ ToSet(a \o Tail(b)) = ToSet(a) \cup ToSet(Tail(b))
  BY <1>1, ToSetConcat DEF NamedTodo
<1> QED BY <1>1, <1>2 DEF NamedTodo

LEMMA JoinNamed ==
  ASSUME NEW p \in Seq(Names), NEW n \in Names
  PROVE  Join(p, n) \in Seq(Names)
BY AppendProperties DEF Join

LEMMA SubDirsNamed ==
  ASSUME NEW p \in Seq(Names)
  PROVE  NamedTodo(SubDirs(p))
<1> DEFINE names == {n \in Names : IsDir(Join(p, n))}
           N     == Cardinality(names)
           Rank(n) == Cardinality({m \in names : m <= n})
           Nth(k) == CHOOSE n \in names : Rank(n) = k
           Child(k) == Visit(Join(p, Nth(k)))
           S     == {Child(k) : k \in 1..N}
<1>1. SubDirs(p) = [k \in 1..N |-> Child(k)]
  BY DEF SubDirs
<1>2. names \in SUBSET Names /\ IsFiniteSet(names)
  BY FS_Subset, KernelAssumption
<1> HIDE DEF names
<1>3. N \in Nat /\ \A k \in 1..N : Nth(k) \in names
  <2>1. N \in Nat /\ \A k \in 1..N : \E n \in names : RankIn(names, n) = k
    BY <1>2, Ranks, KernelAssumption
  <2>2. \A n : Rank(n) = RankIn(names, n)
    BY DEF RankIn
  <2> HIDE DEF Rank, N
  <2> QED BY <2>1, <2>2
<1> HIDE DEF Nth, N
<1>4. \A k \in 1..N : Child(k).path \in Seq(Names)
  BY <1>2, <1>3, JoinNamed DEF Visit
<1> HIDE DEF Child
<1>5. SubDirs(p) \in Seq(S)
  BY <1>1, <1>3
<1>6. \A i \in S : i.path \in Seq(Names)
  BY <1>4
<1> HIDE DEF S
<1> QED BY <1>5, <1>6, ToSetSeq DEF NamedTodo

(* What a step makes of them, by the inodes and cookies so far. *)
StaysNamed ==
  /\ NamedTable(tbl') /\ NamedWalk(walk') /\ NamedMoves(pending', fsOps)
  /\ reader' \in {"prepare", "read", "handle", "done"}

LEMMA NothingNamed ==
  ASSUME TablesNamed, UNCHANGED <<tbl, walk, pending, reader>>
  PROVE  StaysNamed
BY DEF TablesNamed, StaysNamed

LEMMA NoWalkNamed == NamedWalk(NoWalk)
BY DEF NamedWalk

LEMMA NewWatchesNamed == NamedTable(newWatches)
<1>1. DOMAIN NoFunction = {}
  BY DEF NoFunction
<1>2. newWatches.wd = NoFunction /\ newWatches.path = NoFunction /\ newWatches.byUser = {}
  BY DEF newWatches
<1> QED BY <1>1, <1>2 DEF NamedTable

LEMMA NoMovesNamed ==
  ASSUME NEW n
  PROVE  NamedMoves(NoFunction, n)
BY DEF NamedMoves, NoFunction

LEMMA WithoutMovesNamed ==
  ASSUME NEW n, NEW m, NEW S, NamedMoves(m, n)
  PROVE  NamedMoves(Without(m, S), n)
BY DEF NamedMoves, Without

(* A walk begins at a path, and goes on with what is left to do. *)
LEMMA WalkBeginsNamed ==
  ASSUME NEW by, NEW p \in Seq(Names), NEW us, NEW before
  PROVE  NamedWalk(Walk(by, p, us, before))
<1>1. NamedTodo(<<Visit(p)>>)
  BY OneTodoNamed DEF Visit
<1> QED BY <1>1 DEF NamedWalk, Walk

LEMMA WalkGoesOnNamed ==
  ASSUME NEW w, NEW v, NEW todo, NEW t, WalkSound(w, t), w # NoWalk, NamedTodo(todo),
         v = IF todo = <<>> THEN NoWalk ELSE [w EXCEPT !.todo = todo]
  PROVE  NamedWalk(v)
<1>1. CASE todo = <<>>
  BY <1>1, NoWalkNamed
<1>2. CASE todo # <<>>
  <2>1. v.todo = todo
    BY <1>2 DEF WalkSound
  <2> QED BY <2>1 DEF NamedWalk
<1> QED BY <1>1, <1>2

(* AddWith, Remove and Close. *)
LEMMA AddPlainNamed ==
  ASSUME SoundTables, WdsSound, TablesNamed, NEW p \in PlainPaths, AddPlain(p)
  PROVE  StaysNamed
<1> DEFINE t  == addUser(tbl, p, FALSE)
           t1 == register(t, p, WdFor(p), {p})
<1>1. /\ p \in Path /\ IsPath(p) /\ p \in Seq(Names) /\ p \notin tbl.byUser
      /\ TableSound(tbl) /\ NamedTable(tbl) /\ WdFor(p) \in Nat
  BY ModelPath, NamedIsPath, WdForIsWd, BackendAssumption DEF AddPlain, SoundTables, TablesNamed
<1>2. TableSound(t)
  BY <1>1, AddUserSound, Zenon
<1>3. NamedTable(t)
  BY <1>1, AddUserNamed, Zenon DEF TableSound
<1>4. pending' = pending /\ walk' = walk /\ reader' = reader
  BY DEF AddPlain, ReaderQuiet
<1>5. \/ tbl' = t1 \/ tbl' = releaseOwner(t1, p).tbl \/ tbl' = releaseOwner(t, p).tbl
  BY DEF AddPlain, ReleaseUser
<1>6. p \in t.byUser /\ p \notin t.recurse
  <2>1. /\ t.byUser = tbl.byUser \cup {p}
        /\ t.recurse = IF FALSE THEN tbl.recurse \cup {p} ELSE tbl.recurse
    BY <1>1, AddUserSound, Zenon
  <2> HIDE DEF t
  <2> QED BY <1>1, <2>1 DEF TableSound, UsersSound
<1> HIDE DEF t
<1>7. NamedTable(t1)
  BY <1>1, <1>2, <1>3, RegisterNamed
<1>8. TableSound(t1)
  BY <1>1, <1>2, <1>6, RegisterSound DEF Owns
<1> HIDE DEF t1
<1>9. NamedTable(tbl')
  BY <1>2, <1>3, <1>5, <1>7, <1>8, ReleaseOwnerNamed DEF TableSound
<1> QED BY <1>4, <1>9 DEF TablesNamed, StaysNamed

LEMMA AddRecursiveNamed ==
  ASSUME SoundTables, TablesNamed, NEW p \in RecursivePaths, AddRecursive(p)
  PROVE  StaysNamed
<1> DEFINE t == addUser(tbl, p, TRUE)
<1>1. /\ p \in Path /\ IsPath(p) /\ p \in Seq(Names) /\ p \notin tbl.byUser
      /\ TableSound(tbl) /\ NamedTable(tbl)
  BY ModelPath, NamedIsPath, BackendAssumption DEF AddRecursive, SoundTables, TablesNamed
<1>2. TableSound(t)
  BY <1>1, AddUserSound, Zenon
<1>3. NamedTable(t)
  BY <1>1, AddUserNamed, Zenon DEF TableSound
<1>4. pending' = pending /\ reader' = reader
  BY DEF AddRecursive, ReaderQuiet
<1>5. \/ tbl' = t /\ walk' = Walk("add", p, {p}, tbl)
      \/ tbl' = releaseOwner(t, p).tbl /\ walk' = walk
  BY DEF AddRecursive, ReleaseUser
<1> HIDE DEF t
<1>6. NamedTable(tbl')
  BY <1>2, <1>3, <1>5, ReleaseOwnerNamed DEF TableSound
<1>7. NamedWalk(walk')
  <2>1. NamedWalk(Walk("add", p, {p}, tbl))
    BY <1>1, WalkBeginsNamed
  <2> QED BY <1>5, <2>1 DEF TablesNamed
<1> QED BY <1>4, <1>6, <1>7 DEF TablesNamed, StaysNamed

LEMMA RemoveCloseNamed ==
  ASSUME SoundTables, TablesNamed, (\E p \in Path : RemoveWatch(p)) \/ CloseBegin \/ CloseFinish
  PROVE  StaysNamed
<1>1. /\ pending' = pending /\ walk' = walk /\ reader' = reader
      /\ \/ \E p \in Path : tbl' = releaseOwner(tbl, p).tbl
         \/ tbl' = tbl \/ tbl' = newWatches
  BY DEF RemoveWatch, ReleaseUser, CloseBegin, CloseFinish, ReaderQuiet
<1>2. NamedTable(tbl')
  BY <1>1, ReleaseOwnerNamed, NewWatchesNamed DEF SoundTables, TableSound, TablesNamed
<1> QED BY <1>1, <1>2 DEF TablesNamed, StaysNamed

(* The walks. *)
LEMMA AbortNamed ==
  ASSUME SoundTables, TablesNamed, Abort, UNCHANGED <<pending, reader>>
  PROVE  StaysNamed
<1>1. /\ walk' = NoWalk
      /\ \/ tbl' = releaseOwner(tbl, walk.root).tbl
         \/ tbl' = rollbackRegistrations(tbl, walk.regs).tbl
  BY DEF Abort
<1>2. NamedTable(tbl')
  BY <1>1, ReleaseOwnerNamed, RollbackNamed DEF SoundTables, TableSound, TablesNamed
<1> QED BY <1>1, <1>2, NoWalkNamed DEF TablesNamed, StaysNamed

LEMMA VisitDirNamed ==
  ASSUME SoundTables, WdsSound, TablesNamed, VisitDir
  PROVE  StaysNamed
<1> DEFINE p     == Head(walk.todo).path
           added == walk.owners \ OwnersOf(tbl, p)
           t     == register(tbl, p, WdFor(p), walk.owners)
           regs  == IF added # {} /\ Watched(t, p) THEN Put(walk.regs, p, added) ELSE walk.regs
           w     == [walk EXCEPT !.regs = regs]
           todo  == <<List(p)>> \o Tail(walk.todo)
<1>1. walk # NoWalk /\ pending' = pending /\ reader' = reader
  BY DEF VisitDir, Walking, ReaderQuiet
<1>2. (tbl' = t /\ Continue(w, todo)) \/ Abort
  BY DEF VisitDir
<1>3. CASE Abort
  BY <1>1, <1>3, AbortNamed
<1>4. CASE tbl' = t /\ Continue(w, todo)
  <2>1. /\ WalkSound(walk, tbl) /\ TableSound(tbl) /\ NamedTable(tbl)
        /\ NamedTodo(walk.todo) /\ walk.todo # <<>>
    BY <1>1 DEF SoundTables, WalkSound, TablesNamed, NamedWalk
  <2>2. NamedTodo(todo) /\ p \in Seq(Names)
    <3>1. p \in Seq(Names)
      BY <2>1, TodoNamed
    <3>2. NamedTodo(<<List(p)>>)
      <4> HIDE DEF p
      <4> QED BY <3>1, OneTodoNamed DEF List
    <3> QED BY <2>1, <3>1, <3>2, TodoNamed
  <2>3. NamedTable(t)
    <3>1. WdFor(p) \in Nat
      BY WdForIsWd
    <3> HIDE DEF p
    <3> QED BY <2>1, <2>2, <3>1, RegisterNamed
  <2> HIDE DEF p, regs, t, todo
  <2>4. WalkSound(w, tbl) /\ w # NoWalk
    BY <1>1, <2>1 DEF WalkSound, NoWalk
  <2> HIDE DEF w
  <2>5. NamedWalk(walk')
    BY <1>4, <2>2, <2>4, WalkGoesOnNamed DEF Continue
  <2> QED BY <1>1, <1>4, <2>3, <2>5 DEF TablesNamed, StaysNamed
<1> QED BY <1>2, <1>3, <1>4

LEMMA ListDirNamed ==
  ASSUME SoundTables, TablesNamed, ListDir
  PROVE  StaysNamed
<1> DEFINE p    == Head(walk.todo).path
           todo == SubDirs(p) \o Tail(walk.todo)
<1>1. walk # NoWalk /\ pending' = pending /\ reader' = reader
  BY DEF ListDir, Walking, ReaderQuiet
<1>2. (tbl' = tbl /\ Continue(walk, todo)) \/ Abort
  BY DEF ListDir
<1>3. CASE Abort
  BY <1>1, <1>3, AbortNamed
<1>4. CASE tbl' = tbl /\ Continue(walk, todo)
  <2>1. WalkSound(walk, tbl) /\ NamedTodo(walk.todo) /\ walk.todo # <<>>
    BY <1>1 DEF SoundTables, WalkSound, TablesNamed, NamedWalk
  <2>2. p \in Seq(Names)
    BY <2>1, TodoNamed
  <2> HIDE DEF p
  <2>3. NamedTodo(todo)
    BY <2>1, <2>2, SubDirsNamed, TodoNamed
  <2> HIDE DEF todo
  <2>4. NamedWalk(walk')
    BY <1>1, <1>4, <2>1, <2>3, WalkGoesOnNamed DEF Continue
  <2> QED BY <1>1, <1>4, <2>4 DEF TablesNamed, StaysNamed
<1> QED BY <1>2, <1>3, <1>4

(* readEvents. *)
LEMMA ReadNamed ==
  ASSUME SoundTables, TablesNamed, PrepareRead \/ Read \/ ReadClosed \/ ExpirePendingMoves
  PROVE  StaysNamed
<1>1. /\ walk' = walk /\ reader' \in {"prepare", "read", "handle", "done"}
      /\ \/ tbl' = tbl /\ pending' = pending
         \/ tbl' = detachSubtrees(tbl, Range(pending)).tbl /\ pending' = NoFunction
  BY DEF PrepareRead, Read, ReadClosed, ExpirePendingMoves, DetachExpired
<1>2. NamedTable(tbl')
  BY <1>1, DetachSubtreesNamed DEF SoundTables, TableSound, TablesNamed
<1>3. NamedMoves(pending', fsOps)
  BY <1>1, NoMovesNamed DEF TablesNamed
<1> QED BY <1>1, <1>2, <1>3 DEF TablesNamed, StaysNamed

LEMMA HandleReader ==
  ASSUME Handle
  PROVE  reader' \in {"prepare", "read", "handle", "done"}
BY DEF Handle

(* The path an event is about. *)
LEMMA EventNamed ==
  ASSUME EventsSound, EventsNamed, TablesNamed, Handle, NEW kinds, Known(kinds),
         kinds \subseteq {"create", "from", "to"}
  PROVE  EvName \in Seq(Names) /\ (Ev.kind = "from" => Ev.cookie \in 1..fsOps)
<1>1. Ev \in ToSet(buf)
  BY HandleTakes
<1>2. NamedNote(Ev, fsOps)
  BY <1>1 DEF EventsNamed, NamedNotes
<1>3. Ev.name \in Names /\ TheWatch.path \in Seq(Names)
  BY <1>2 DEF Known, NamedNote, TablesNamed, NamedTable, TheWatch
<1>4. EvName \in Seq(Names)
  BY <1>3, JoinNamed DEF EvName
<1> QED BY <1>2, <1>4 DEF NamedNote

LEMMA HandleNamed ==
  ASSUME SoundTables, TablesNamed, HandleUnknown \/ HandleGone \/ HandleMoveSelf \/ HandleOther
  PROVE  StaysNamed
<1>1. /\ walk' = walk /\ pending' = pending /\ Handle
      /\ \/ tbl' = tbl \/ tbl' = remove(tbl, Ev.wd)
         \/ tbl' = releaseOwner(tbl, TheWatch.path).tbl
  BY DEF HandleUnknown, HandleGone, HandleMoveSelf, HandleOther, ReleaseUser
<1>2. NamedTable(tbl')
  BY <1>1, RemoveNamed, ReleaseOwnerNamed DEF SoundTables, TableSound, TablesNamed
<1> QED BY <1>1, <1>2, HandleReader DEF TablesNamed, StaysNamed

LEMMA HandleMovedFromNamed ==
  ASSUME EventsSound, EventsNamed, TablesNamed, HandleMovedFrom
  PROVE  StaysNamed
<1>1. /\ walk' = walk /\ tbl' = tbl /\ Handle /\ Known({"from"}) /\ Ev.kind = "from"
      /\ pending' = pending \/ pending' = Put(pending, Ev.cookie, EvName)
  BY DEF HandleMovedFrom, Known
<1>2. EvName \in Seq(Names) /\ Ev.cookie \in 1..fsOps
  BY <1>1, EventNamed
<1>3. NamedMoves(pending', fsOps)
  BY <1>1, <1>2 DEF TablesNamed, NamedMoves, Put
<1> QED BY <1>1, <1>3, HandleReader DEF TablesNamed, StaysNamed

LEMMA HandleMovedWithinNamed ==
  ASSUME SoundTables, EventsSound, EventsNamed, TablesNamed, HandleMovedWithin
  PROVE  StaysNamed
<1> DEFINE us  == recursiveOwners(tbl, TheWatch.path)
           old == pending[Ev.cookie]
<1>1. /\ walk' = walk /\ Handle /\ Known({"create", "to"})
      /\ pending' = Without(pending, {Ev.cookie}) /\ Ev.cookie \in DOMAIN pending
      /\ tbl' = rebase(tbl, old, EvName, us).tbl
  BY DEF HandleMovedWithin, AppearsDir
<1>2. /\ TableSound(tbl) /\ NamedTable(tbl) /\ old \in Seq(Names) /\ EvName \in Seq(Names)
      /\ NamedMoves(pending, fsOps)
  BY <1>1, EventNamed DEF SoundTables, TablesNamed, NamedMoves
<1> HIDE DEF us, old
<1>3. NamedTable(tbl')
  BY <1>1, <1>2, RebaseNamed
<1>4. NamedMoves(pending', fsOps)
  BY <1>1, <1>2, WithoutMovesNamed
<1> QED BY <1>1, <1>3, <1>4, HandleReader DEF TablesNamed, StaysNamed

LEMMA HandleNewDirNamed ==
  ASSUME SoundTables, EventsSound, EventsNamed, TablesNamed, HandleNewDir
  PROVE  StaysNamed
<1> DEFINE old == {c \in DOMAIN pending : pending[c] = EvName}
           r   == IF old = {} THEN [tbl |-> tbl, wds |-> {}] ELSE detachSubtree(tbl, EvName)
           us  == recursiveOwners(r.tbl, TheWatch.path)
<1>1. /\ Handle /\ Known({"create", "to"})
      /\ pending' = Without(pending, old) /\ tbl' = r.tbl
      /\ walk' = NoWalk \/ walk' = Walk("subtree", EvName, us, r.tbl)
  BY DEF HandleNewDir, AppearsDir
<1>2. NamedTable(r.tbl)
  BY DetachSubtreesNamed DEF detachSubtree, SoundTables, TableSound, TablesNamed
<1>3. EvName \in Seq(Names)
  BY <1>1, EventNamed
<1> HIDE DEF old, us
<1>4. NamedMoves(pending', fsOps)
  BY <1>1, WithoutMovesNamed DEF TablesNamed
<1> HIDE DEF r
<1>5. NamedWalk(walk')
  BY <1>1, <1>3, NoWalkNamed, WalkBeginsNamed
<1> QED BY <1>1, <1>2, <1>4, <1>5, HandleReader DEF StaysNamed

LEMMA NextTablesNamed ==
  ASSUME SoundTables, WdsSound, EventsSound, EventsNamed, TablesNamed,
         EventsNamed', fsOps <= fsOps', [Next]_vars
  PROVE  TablesNamed'
<1> SUFFICES StaysNamed
  <2>1. fsOps \in Int /\ fsOps' \in Int
    BY KernelAssumption DEF EventsNamed
  <2>2. NamedMoves(pending', fsOps) => NamedMoves(pending', fsOps')
    BY <2>1 DEF NamedMoves
  <2> QED BY <2>2 DEF StaysNamed, TablesNamed
<1>1. CASE TreeStep \/ KernelStep
  BY <1>1, NothingNamed DEF TreeStep, KernelStep, backendVars
<1>2. CASE ReaderStep
  BY <1>2, ReadNamed, HandleNamed, HandleMovedFromNamed, HandleMovedWithinNamed,
     HandleNewDirNamed DEF ReaderStep
<1>3. CASE WalkStep
  BY <1>3, VisitDirNamed, ListDirNamed DEF WalkStep
<1>4. ASSUME NEW p \in PlainPaths, AddPlain(p)
      PROVE  StaysNamed
  BY <1>4, AddPlainNamed
<1>5. ASSUME NEW p \in RecursivePaths, AddRecursive(p)
      PROVE  StaysNamed
  BY <1>5, AddRecursiveNamed
<1>6. CASE (\E p \in Path : RemoveWatch(p)) \/ CloseBegin \/ CloseFinish
  BY <1>6, RemoveCloseNamed
<1>7. CASE UNCHANGED vars
  BY <1>7, NothingNamed DEF vars, backendVars
<1> QED BY <1>1, <1>2, <1>3, <1>4, <1>5, <1>6, <1>7 DEF Next

LEMMA InitNamed == Init => TreeSound /\ EventsNamed /\ TablesNamed
<1> SUFFICES ASSUME Init PROVE TreeSound /\ EventsNamed /\ TablesNamed
  OBVIOUS
<1>1. /\ queue = <<>> /\ tail = <<>> /\ buf = <<>> /\ fsOps = 0 /\ tbl = newWatches
      /\ walk = NoWalk /\ pending = NoFunction /\ reader = "prepare"
  BY DEF Init, KernelInit, BackendInit
<1>2. TreeSound
  BY InitTree DEF Init
<1>3. EventsNamed
  BY <1>1, NoNotesNamed, KernelAssumption DEF EventsNamed
<1>4. TablesNamed
  BY <1>1, NewWatchesNamed, NoWalkNamed, NoMovesNamed DEF TablesNamed
<1> QED BY <1>2, <1>3, <1>4

LEMMA TypesOfNamed ==
  ASSUME SoundTables, EventsSound, TreeSound, EventsNamed, TablesNamed
  PROVE  TypeOK
<1>1. \A d \in DOMAIN tbl.wd : d \in Nat /\ tbl.wd[d].path \in Seq(Names)
  BY DEF TablesNamed, NamedTable
<1>2. /\ DOMAIN tbl.path \subseteq Seq(Names) /\ DOMAIN tbl.owners \subseteq DOMAIN tbl.path
      /\ tbl.recurse \subseteq tbl.byUser /\ tbl.byUser \subseteq Path
  BY DEF TablesNamed, NamedTable, SoundTables, TableSound, OwnedIsListed, UsersSound
<1>3. \A c \in DOMAIN pending : c \in 1..MaxFsOps /\ pending[c] \in Seq(Names)
  <2>1. fsOps \in 0..MaxFsOps /\ MaxFsOps \in Nat
    BY KernelAssumption DEF EventsNamed
  <2>2. 1..fsOps \subseteq 1..MaxFsOps
    BY <2>1
  <2> QED BY <2>2 DEF TablesNamed, NamedMoves
<1>4. reader \in {"prepare", "read", "handle", "done"} /\ (reader = "handle" => buf # <<>>)
  BY DEF TablesNamed, EventsSound
<1>5. DOMAIN fs \subseteq Path
  BY DEF TreeSound
<1>6. ASSUME NEW p \in DOMAIN fs
      PROVE  Dirs(Dir(p))
  <2>1. p \in Seq(Names) /\ Len(p) \in 1..MaxDepth /\ AreAbove(p) /\ Len(p) \in Nat
    BY <1>5, PathIs DEF TreeSound
  <2>2. CASE Len(p) = 1
    <3>1. Dir(p) = <<>>
      <4>1. Len(Dir(p)) = 0 /\ Dir(p) \in Seq(Names)
        BY <2>1, <2>2 DEF Dir
      <4> QED BY <4>1
    <3> QED BY <3>1 DEF Dirs
  <2>3. CASE Len(p) # 1
    <3>1. \A n \in Nat : n \in 1..MaxDepth /\ n # 1 => n - 1 \in 1..(n - 1)
      BY KernelAssumption
    <3>2. Len(p) - 1 \in 1..(Len(p) - 1)
      BY <2>1, <2>3, <3>1
    <3> QED BY <2>1, <3>2 DEF AreAbove, Dirs, Dir
  <2> QED BY <2>2, <2>3
<1> QED BY <1>1, <1>2, <1>3, <1>4, <1>5, <1>6 DEF TypeOK

(* The tables hold paths made of names and descriptors, the users are      *)
(* paths that were added (backend_inotify.go:20-51); a pending move has    *)
(* the cookie of a rename that was made and waits under a path; the loop   *)
(* over the buffer runs only while it holds an event (:774-826); and the   *)
(* tree is one: what is in it lies in a directory.                         *)
THEOREM TypesAlwaysRight == Spec => []TypeOK
<1>1. Init => TreeSound /\ EventsNamed /\ TablesNamed
  BY InitNamed
<1>2. /\ SoundTables /\ WdsSound /\ EventsSound /\ TreeSound /\ EventsNamed /\ TablesNamed
      /\ [Next]_vars
      => TreeSound' /\ EventsNamed' /\ TablesNamed'
  BY NextTree, NextEventsNamed, NextTablesNamed
<1>3. SoundTables /\ EventsSound /\ TreeSound /\ EventsNamed /\ TablesNamed => TypeOK
  BY TypesOfNamed
<1> QED BY <1>1, <1>2, <1>3, TablesAlwaysSound, TablesAlwaysRight, EventsAlwaysSound, PTL DEF Spec
=============================================================================
