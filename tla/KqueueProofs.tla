------------------------------ MODULE KqueueProofs ------------------------------
(***************************************************************************)
(* The descriptors of the kqueue backend: whatever users, other processes  *)
(* and the two goroutines do, and in whatever order, a descriptor is open  *)
(* for exactly one path and the tables lead from each to the other, unless *)
(* readEvents renames the very path a caller has looked up under watchMu;  *)
(* and Close closes them all, but for that and for the two ways readEvents *)
(* has to keep one from it.                                                *)
(***************************************************************************)
EXTENDS KqueueProps, FileTreeProofs

-----------------------------------------------------------------------------
(* What the proof needs to know of the state.                              *)
-----------------------------------------------------------------------------
IsTable(t) ==
  t \in [path : {t.path}, wd : {t.wd}, seen : {t.seen}, byUser : {t.byUser}, target : {t.target},
         recurse : {t.recurse}, owners : {t.owners}, open : {t.open}, queue : {t.queue}]

IsWatch(w) == w \in [name : {w.name}, obj : {w.obj}, all : {w.all}, skip : {w.skip}]

(* The two tables, and the paths they are about. *)
Paired(path, wd) ==
  /\ \A p \in DOMAIN path : path[p] \in DOMAIN wd /\ wd[path[p]].name = p
  /\ \A f \in DOMAIN wd : IsWatch(wd[f]) /\ wd[f].name \in DOMAIN path /\ path[wd[f].name] = f

(* What is open, and what whoever holds watchMu relies on: a path that is  *)
(* opened has not been added by anybody else, and one that is closed still *)
(* leads to its descriptor.                                                *)
Held(path, wd, open, l) ==
  /\ l.what = "open" => l.path \notin DOMAIN path /\ IsPath(l.path) /\ l.fd \notin DOMAIN wd
  /\ l.what = "close" => l.path \in DOMAIN path /\ path[l.path] = l.fd
  /\ DOMAIN open = IF l.what = "open" THEN DOMAIN wd \cup {l.fd}
                   ELSE IF l.what = "close" THEN DOMAIN wd \ {l.fd} ELSE DOMAIN wd

Sound(t, l) ==
  /\ IsTable(t) /\ Paired(t.path, t.wd) /\ Held(t.path, t.wd, t.open, l)
  /\ IsFiniteSet(DOMAIN t.wd) /\ \A p \in DOMAIN t.path : IsPath(p)

-----------------------------------------------------------------------------
(* Methods that leave the two tables alone, or change neither a name nor   *)
(* what is a descriptor.                                                   *)
-----------------------------------------------------------------------------
LEMMA OthersSound ==
  ASSUME NEW t, NEW r, NEW l, Sound(t, l), IsTable(r), r.path = t.path, r.wd = t.wd, DOMAIN r.open = DOMAIN t.open
  PROVE  Sound(r, l)
BY DEF Sound, Held

LEMMA SameNamesSound ==
  ASSUME NEW t, NEW r, NEW l, Sound(t, l), IsTable(r), r.path = t.path, DOMAIN r.wd = DOMAIN t.wd,
         DOMAIN r.open = DOMAIN t.open,
         \A f \in DOMAIN t.wd : IsWatch(r.wd[f]) /\ r.wd[f].name = t.wd[f].name
  PROVE  Sound(r, l)
BY DEF Sound, Paired, Held

LEMMA OwnerMethods ==
  ASSUME NEW t, NEW l, NEW p, NEW ps, NEW us, NEW b, Sound(t, l)
  PROVE  /\ Sound(markSeen(t, p), l) /\ Sound(addUserWatch(t, p), l) /\ Sound(addOwners(t, ps, us), l)
         /\ Sound(addOwnerTree(t, p, us, b), l) /\ Sound(Without(t, us), l) /\ Sound(releaseOwner(t, p), l)
         /\ Sound(removeRootsUnder(t, p), l)
<1>1. \A r : IsTable(r) /\ r.path = t.path /\ r.wd = t.wd /\ r.open = t.open => Sound(r, l)
  BY OthersSound
<1>2. /\ Sound(markSeen(t, p), l) /\ Sound(addUserWatch(t, p), l)
  BY <1>1 DEF markSeen, addUserWatch, Sound, IsTable
<1>3. \A x, y : Sound(addOwners(t, x, y), l)
  BY <1>1 DEF addOwners, Sound, IsTable
<1>4. Sound(addOwnerTree(t, p, us, b), l)
  BY <1>3 DEF addOwnerTree
<1>5. \A x : /\ Without(t, x).path = t.path /\ Without(t, x).wd = t.wd /\ Without(t, x).open = t.open
             /\ IsTable(Without(t, x))
  BY DEF Without, Sound, IsTable
<1>6. Sound(Without(t, us), l) /\ Sound(removeRootsUnder(t, p), l)
  BY <1>1, <1>5 DEF removeRootsUnder
<1>7. Sound(releaseOwner(t, p), l)
  <2> DEFINE x == Without(t, {p} \cap t.target)
             r == [x EXCEPT !.owners = [q \in DOMAIN @ |-> @[q] \ ({p} \cap t.target)]]
  <2>1. x.path = t.path /\ x.wd = t.wd /\ x.open = t.open /\ IsTable(x)
    BY <1>5
  <2>2. releaseOwner(t, p) = r
    BY DEF releaseOwner
  <2> HIDE DEF x
  <2>3. r.path = t.path /\ r.wd = t.wd /\ r.open = t.open /\ IsTable(r)
    BY <2>1 DEF IsTable
  <2> QED BY <1>1, <2>2, <2>3
<1> QED BY <1>2, <1>3, <1>4, <1>6, <1>7

LEMMA FireSound ==
  ASSUME NEW t, NEW l, NEW happened, Sound(t, l)
  PROVE  Sound(Fire(t, happened), l)
<1> DEFINE r == Fire(t, happened)
<1>1. r.path = t.path /\ r.wd = t.wd /\ DOMAIN r.open = DOMAIN t.open /\ IsTable(r)
  BY DEF Fire, Sound, IsTable
<1> HIDE DEF r
<1>2. Sound(r, l)
  BY <1>1, OthersSound
<1> QED BY <1>2 DEF r

LEMMA SkipSound ==
  ASSUME NEW t, NEW l, NEW fd \in DOMAIN t.wd, Sound(t, l)
  PROVE  Sound(consumeSkippedRename(t, fd), l)
<1> DEFINE r == consumeSkippedRename(t, fd)
<1>1. r.path = t.path /\ r.wd = [t.wd EXCEPT ![fd].skip = FALSE] /\ r.open = t.open /\ IsTable(r)
  BY DEF consumeSkippedRename, Sound, IsTable
<1> HIDE DEF r
<1>2. DOMAIN r.wd = DOMAIN t.wd
      /\ \A f \in DOMAIN t.wd : r.wd[f] = IF f = fd THEN [t.wd[fd] EXCEPT !.skip = FALSE] ELSE t.wd[f]
  BY <1>1
<1>3. \A f \in DOMAIN t.wd : IsWatch(r.wd[f]) /\ r.wd[f].name = t.wd[f].name
  BY <1>2 DEF Sound, Paired, IsWatch
<1>4. Sound(r, l)
  BY <1>1, <1>2, <1>3, SameNamesSound
<1> QED BY <1>4 DEF r

LEMMA FlagsSound ==
  ASSUME NEW t, NEW l, NEW p, NEW all, Sound(t, l)
  PROVE  Sound(updateDirFlags(t, p, all), l)
<1> DEFINE r == updateDirFlags(t, p, all)
           fd == t.path[p]
<1>1. CASE Watched(t, p)
  <2>1. fd \in DOMAIN t.wd
    BY <1>1 DEF Watched
  <2>2. r.path = t.path /\ r.wd = [t.wd EXCEPT ![fd].all = all] /\ r.open = t.open /\ IsTable(r)
    BY <1>1 DEF updateDirFlags, Sound, IsTable
  <2> HIDE DEF r, fd
  <2>3. DOMAIN r.wd = DOMAIN t.wd
        /\ \A f \in DOMAIN t.wd : r.wd[f] = IF f = fd THEN [t.wd[fd] EXCEPT !.all = all] ELSE t.wd[f]
    BY <2>2
  <2>4. \A f \in DOMAIN t.wd : IsWatch(r.wd[f]) /\ r.wd[f].name = t.wd[f].name
    BY <2>3 DEF Sound, Paired, IsWatch
  <2>5. Sound(r, l)
    BY <2>2, <2>3, <2>4, SameNamesSound
  <2> QED BY <2>5 DEF r
<1>2. CASE ~Watched(t, p)
  BY <1>2 DEF updateDirFlags
<1> QED BY <1>1, <1>2

-----------------------------------------------------------------------------
(* Opening and closing: nobody holds watchMu, then l does.                 *)
-----------------------------------------------------------------------------
LEMMA PairedIsWatched ==
  ASSUME NEW t, NEW l, Sound(t, l), NEW p
  PROVE  Watched(t, p) <=> p \in DOMAIN t.path
BY DEF Sound, Paired, Watched

(* There is always a number that is free. *)
LEMMA NewFdIsNew ==
  ASSUME NEW t, Sound(t, Unheld)
  PROVE  NewFd(t) \notin DOMAIN t.open
<1> DEFINE n == Cardinality(DOMAIN t.open)
<1>1. IsFiniteSet(DOMAIN t.open) /\ n \in Nat
  BY FS_CardinalityType DEF Sound, Held, Unheld, Holds
<1>2. Cardinality(1..(n + 1)) = n + 1
  <2>1. 1 \in Int /\ n + 1 \in Int /\ ~(1 > n + 1) /\ (n + 1) - 1 + 1 = n + 1
    BY <1>1
  <2> QED BY <2>1, FS_Interval
<1>3. \E f \in 1..(n + 1) : f \notin DOMAIN t.open
  <2> SUFFICES ASSUME 1..(n + 1) \subseteq DOMAIN t.open
               PROVE  FALSE
    OBVIOUS
  <2>1. n + 1 <= n
    BY <1>1, <1>2, FS_Subset
  <2> QED BY <1>1, <2>1
<1> QED BY <1>3 DEF NewFd

LEMMA AskedSound ==
  ASSUME NEW t, NEW l, NEW fd, NEW all, Sound(t, Unheld), l.what = "ask"
  PROVE  Sound(Asked(t, fd, all), l)
<1> DEFINE r == Asked(t, fd, all)
<1>1. r.path = t.path /\ r.wd = t.wd /\ DOMAIN r.open = DOMAIN t.open /\ IsTable(r)
  BY DEF Asked, Sound, IsTable
<1> HIDE DEF r
<1>2. Sound(r, l)
  BY <1>1 DEF Sound, Held, Unheld, Holds
<1> QED BY <1>2 DEF r

LEMMA OpenedSound ==
  ASSUME NEW t, NEW l, NEW p, NEW all, Sound(t, Unheld), IsPath(p), ~Watched(t, p),
         l.what = "open", l.path = p, l.fd = NewFd(t)
  PROVE  Sound(Opened(t, p, all), l)
<1> DEFINE r == Opened(t, p, all)
           fd == NewFd(t)
<1>1. r.path = t.path /\ r.wd = t.wd /\ DOMAIN r.open = DOMAIN t.open \cup {fd} /\ IsTable(r)
  BY DEF Opened, Assign, Sound, IsTable
<1>2. fd \notin DOMAIN t.open /\ DOMAIN t.open = DOMAIN t.wd /\ p \notin DOMAIN t.path
  BY NewFdIsNew, PairedIsWatched DEF Sound, Held, Unheld, Holds
<1> HIDE DEF r, fd
<1>3. Held(r.path, r.wd, r.open, l)
  BY <1>1, <1>2 DEF Held, fd
<1>4. Sound(r, l)
  BY <1>1, <1>3 DEF Sound
<1> QED BY <1>4 DEF r

LEMMA AddSound ==
  ASSUME NEW t, NEW l, Sound(t, l), l.what = "open"
  PROVE  Sound(add(t, l.path, l.fd), Unheld)
<1> DEFINE p == l.path
           fd == l.fd
           w == [name |-> p, obj |-> t.open[fd].obj, all |-> FALSE, skip |-> FALSE]
           r == add(t, p, fd)
<1>1. r.path = Assign(t.path, p, fd) /\ r.wd = Assign(t.wd, fd, w) /\ r.open = t.open /\ IsTable(r)
  BY DEF add, Sound, IsTable
<1>2. fd \notin DOMAIN t.wd /\ p \notin DOMAIN t.path /\ IsPath(p) /\ DOMAIN t.open = DOMAIN t.wd \cup {fd}
  BY DEF Sound, Held
<1>3. IsWatch(w) /\ w.name = p
  BY DEF IsWatch
<1> HIDE DEF r, fd, w, p
<1>4. /\ DOMAIN r.path = DOMAIN t.path \cup {p} /\ DOMAIN r.wd = DOMAIN t.wd \cup {fd}
      /\ r.path[p] = fd /\ \A q \in DOMAIN t.path : q # p => r.path[q] = t.path[q]
      /\ r.wd[fd] = w /\ \A f \in DOMAIN t.wd : f # fd => r.wd[f] = t.wd[f]
  BY <1>1 DEF Assign
<1>5. Paired(r.path, r.wd)
  BY <1>2, <1>3, <1>4 DEF Sound, Paired
<1>6. IsFiniteSet(DOMAIN r.wd) /\ \A q \in DOMAIN r.path : IsPath(q)
  BY <1>2, <1>4, FS_AddElement DEF Sound
<1>7. Held(r.path, r.wd, r.open, Unheld)
  BY <1>1, <1>2, <1>4 DEF Held, Unheld, Holds
<1>8. Sound(r, Unheld)
  BY <1>1, <1>5, <1>6, <1>7 DEF Sound
<1> QED BY <1>8 DEF r, p, fd

LEMMA ClosedSound ==
  ASSUME NEW t, NEW l, NEW p, Sound(t, Unheld), Watched(t, p), l.what = "close", l.path = p, l.fd = t.path[p]
  PROVE  Sound(Closed(t, t.path[p]), l)
<1> DEFINE fd == t.path[p]
           r == Closed(t, fd)
<1>1. r.path = t.path /\ r.wd = t.wd /\ DOMAIN r.open = DOMAIN t.open \ {fd} /\ IsTable(r)
  BY DEF Closed, Restrict, Sound, IsTable
<1>2. DOMAIN t.open = DOMAIN t.wd /\ p \in DOMAIN t.path
  BY DEF Sound, Held, Unheld, Holds, Watched
<1> HIDE DEF r
<1>3. Held(r.path, r.wd, r.open, l)
  BY <1>1, <1>2 DEF Held
<1>4. Sound(r, l)
  BY <1>1, <1>3 DEF Sound
<1> QED BY <1>4 DEF r

LEMMA RemoveSound ==
  ASSUME NEW t, NEW l, Sound(t, l), l.what = "close"
  PROVE  Sound(remove(t, l.fd, l.path), Unheld)
<1> DEFINE p == l.path
           fd == l.fd
           r == remove(t, fd, p)
<1>1. /\ r.path = Restrict(t.path, DOMAIN t.path \ {p}) /\ r.wd = Restrict(t.wd, DOMAIN t.wd \ {fd})
      /\ r.open = t.open /\ IsTable(r)
  BY DEF remove, Sound, IsTable
<1>2. p \in DOMAIN t.path /\ t.path[p] = fd /\ DOMAIN t.open = DOMAIN t.wd \ {fd}
  BY DEF Sound, Held
<1>3. fd \in DOMAIN t.wd /\ t.wd[fd].name = p
  BY <1>2 DEF Sound, Paired
<1> HIDE DEF r, fd, p
<1>4. /\ DOMAIN r.path = DOMAIN t.path \ {p} /\ DOMAIN r.wd = DOMAIN t.wd \ {fd}
      /\ \A q \in DOMAIN r.path : r.path[q] = t.path[q]
      /\ \A f \in DOMAIN r.wd : r.wd[f] = t.wd[f]
  BY <1>1 DEF Restrict
<1>5. Paired(r.path, r.wd)
  BY <1>2, <1>3, <1>4 DEF Sound, Paired
<1>6. IsFiniteSet(DOMAIN r.wd) /\ \A q \in DOMAIN r.path : IsPath(q)
  BY <1>4, FS_RemoveElement DEF Sound
<1>7. Held(r.path, r.wd, r.open, Unheld)
  BY <1>1, <1>2, <1>4 DEF Held, Unheld, Holds
<1>8. Sound(r, Unheld)
  BY <1>1, <1>5, <1>6, <1>7 DEF Sound
<1> QED BY <1>8 DEF r, p, fd

-----------------------------------------------------------------------------
(* Renames.                                                                *)
-----------------------------------------------------------------------------
(* A tree of paths moves onto paths that were free, or moved themselves:   *)
(* land says where each path is afterwards, from where a new one was.      *)
Moves(path, wd, path1, wd1, moving, to, land, from) ==
  /\ moving \subseteq DOMAIN path /\ to = {land[p] : p \in moving}
  /\ \A p \in moving : from[land[p]] = p
  /\ \A p \in DOMAIN path \ moving : land[p] = p
  /\ \A p \in moving : land[p] \in DOMAIN path => land[p] \in moving
  /\ path1 = [p \in (DOMAIN path \ moving) \cup to |-> IF p \in to THEN path[from[p]] ELSE path[p]]
  /\ DOMAIN wd1 = DOMAIN wd
  /\ \A f \in DOMAIN wd : IsWatch(wd1[f]) /\ wd1[f].name = land[wd[f].name]

LEMMA MoveSound ==
  ASSUME NEW path, NEW wd, NEW path1, NEW wd1, NEW moving, NEW to, NEW land, NEW from,
         Paired(path, wd), Moves(path, wd, path1, wd1, moving, to, land, from)
  PROVE  Paired(path1, wd1)
<1> USE DEF Moves
<1>1. \A p \in DOMAIN path \ moving : p \notin to
  OBVIOUS
<1>2. /\ DOMAIN path1 = (DOMAIN path \ moving) \cup to
      /\ \A p \in moving : land[p] \in DOMAIN path1 /\ path1[land[p]] = path[p]
      /\ \A p \in DOMAIN path \ moving : p \in DOMAIN path1 /\ path1[p] = path[p]
  BY <1>1
<1>3. \A p \in DOMAIN path : land[p] \in DOMAIN path1 /\ path1[land[p]] = path[p]
  BY <1>2
<1>4. \A f \in DOMAIN wd1 :
        IsWatch(wd1[f]) /\ wd1[f].name \in DOMAIN path1 /\ path1[wd1[f].name] = f
  BY <1>3 DEF Paired
<1>5. \A q \in DOMAIN path1 : \E p \in DOMAIN path : q = land[p]
  BY <1>2
<1>6. \A q \in DOMAIN path1 : path1[q] \in DOMAIN wd1 /\ wd1[path1[q]].name = q
  BY <1>3, <1>5 DEF Paired
<1> QED BY <1>4, <1>6 DEF Paired

(* The lock is still held for the same path if rebase has not renamed it.  *)
LEMMA HeldStays ==
  ASSUME NEW t, NEW r, NEW l, Held(t.path, t.wd, t.open, l), DOMAIN r.wd = DOMAIN t.wd, r.open = t.open,
         l.what \in {"open", "close"} => Leads(t, l.path) = Leads(r, l.path)
  PROVE  Held(r.path, r.wd, r.open, l)
<1>1. CASE l.what = "open"
  <2>1. l.path \notin DOMAIN r.path
    BY <1>1 DEF Held, Leads
  <2> QED BY <1>1, <2>1 DEF Held
<1>2. CASE l.what = "close"
  <2>1. l.fd \in Leads(r, l.path)
    BY <1>2 DEF Held, Leads
  <2>2. l.path \in DOMAIN r.path /\ r.path[l.path] = l.fd
    BY <2>1 DEF Leads
  <2> QED BY <1>2, <2>2 DEF Held
<1>3. CASE l.what \notin {"open", "close"}
  BY <1>3 DEF Held
<1> QED BY <1>1, <1>2, <1>3

LEMMA RebaseSound ==
  ASSUME NEW t, NEW l, NEW old \in DOMAIN t.path, NEW new, NEW us, Sound(t, l), IsPath(new),
         CanRebase(t, old, new),
         l.what \in {"open", "close"} => Leads(t, l.path) = Leads(rebase(t, old, new, us), l.path)
  PROVE  Sound(rebase(t, old, new, us), l)
<1> DEFINE moving == Moving(t, old)
           gone == {u \in t.target : Under(u, old)}
           t1 == [Without(t, gone) EXCEPT
                    !.owners = [p \in DOMAIN @ |-> IF Under(p, old) THEN @[p] ELSE @[p] \ gone]]
           owners == us \cap t1.recurse
           Back(p) == IF Under(p, new) THEN Rebased(p, new, old) ELSE p
           To(p) == IF Under(p, old) THEN Rebased(p, old, new) ELSE p
           to == {To(p) : p \in moving}
           Moved(f) == t.wd[f].name \in moving /\ t.path[t.wd[f].name] = f
           Named(f) == IF Moved(f) THEN [t1.wd[f] EXCEPT !.name = To(@), !.skip = @ \/ f = t.path[old]]
                       ELSE t1.wd[f]
           stays == [t1 EXCEPT !.owners = [p \in DOMAIN @ \cup moving |-> IF p \in moving THEN {} ELSE @[p]],
                               !.seen = {p \in @ : ~Under(p, old)}]
           goes == [t1 EXCEPT
                      !.path = [p \in (DOMAIN @ \ moving) \cup to |-> IF p \in to THEN @[Back(p)] ELSE @[p]],
                      !.wd = [f \in DOMAIN @ |-> Named(f)],
                      !.owners = [p \in (DOMAIN @ \ moving) \cup to |-> IF p \in to THEN owners ELSE @[p]],
                      !.seen = {To(p) : p \in @}]
<1>1. rebase(t, old, new, us) \in {stays, goes}
  BY DEF rebase
<1>2. t1.path = t.path /\ t1.wd = t.wd /\ t1.open = t.open /\ IsTable(t1)
  BY DEF Without, Sound, IsTable
<1> HIDE DEF t1
<1>3. Sound(stays, l)
  <2>1. stays.path = t.path /\ stays.wd = t.wd /\ stays.open = t.open /\ IsTable(stays)
    BY <1>2 DEF IsTable
  <2> HIDE DEF stays
  <2> QED BY <2>1, OthersSound
<1>4. ASSUME rebase(t, old, new, us) = goes
      PROVE  Sound(goes, l)
  <2>1. /\ goes.path = [p \in (DOMAIN t.path \ moving) \cup to |-> IF p \in to THEN t.path[Back(p)] ELSE t.path[p]]
        /\ goes.wd = [f \in DOMAIN t.wd |-> Named(f)] /\ goes.open = t.open /\ IsTable(goes)
    BY <1>2 DEF IsTable
  <2>2. \A f \in DOMAIN t.wd : IsWatch(Named(f)) /\ Named(f).name = To(t.wd[f].name)
    <3> SUFFICES ASSUME NEW f \in DOMAIN t.wd
                 PROVE  IsWatch(Named(f)) /\ Named(f).name = To(t.wd[f].name)
      OBVIOUS
    <3>1. IsWatch(t.wd[f]) /\ t.wd[f].name \in DOMAIN t.path /\ t.path[t.wd[f].name] = f
      BY DEF Sound, Paired
    <3>2. CASE Moved(f)
      <4>1. Named(f) = [t.wd[f] EXCEPT !.name = To(@), !.skip = @ \/ f = t.path[old]]
        BY <1>2, <3>2
      <4> HIDE DEF Named, To
      <4> QED BY <3>1, <4>1 DEF IsWatch
    <3>3. CASE ~Moved(f)
      <4>1. ~Under(t.wd[f].name, old)
        BY <3>1, <3>3 DEF Moving
      <4> QED BY <1>2, <3>1, <3>3, <4>1
    <3> QED BY <3>2, <3>3
  <2>3. moving \subseteq DOMAIN t.path /\ \A p \in moving : IsPath(p) /\ Under(p, old)
    BY DEF Moving, Sound
  <2>4. IsPath(old)
    BY DEF Sound
  <2>5. \A p \in moving : IsPath(To(p)) /\ Back(To(p)) = p
    BY <2>3, <2>4, RebasedBack
  <2>6. \A p \in DOMAIN t.path \ moving : To(p) = p
    BY DEF Moving
  <2>7. \A p \in moving : To(p) \in DOMAIN t.path => To(p) \in moving
    BY <2>3 DEF CanRebase
  <2> DEFINE path1 == goes.path
             wd1 == goes.wd
  <2> HIDE DEF goes, Named, To, Back
  <2>8. DOMAIN wd1 = DOMAIN t.wd /\ \A f \in DOMAIN t.wd : IsWatch(wd1[f]) /\ wd1[f].name = To(t.wd[f].name)
    BY <2>1, <2>2
  <2>9. path1 = [p \in (DOMAIN t.path \ moving) \cup to |-> IF p \in to THEN t.path[Back(p)] ELSE t.path[p]]
    BY <2>1
  <2>10. Paired(t.path, t.wd)
    BY DEF Sound
  <2>11. DOMAIN path1 = (DOMAIN t.path \ moving) \cup to
    BY <2>9
  <2>12. \A p \in DOMAIN path1 : IsPath(p)
    BY <2>5, <2>11 DEF Sound
  <2>13. Held(path1, wd1, goes.open, l)
    BY <1>4, <2>1, <2>8, HeldStays DEF Sound
  <2> HIDE DEF path1, wd1, moving
  <2>14. Paired(path1, wd1)
    <3> DEFINE land == [p \in DOMAIN t.path |-> To(p)]
               from == [p \in to |-> Back(p)]
    <3>1. \A p \in DOMAIN t.path : land[p] = To(p)
      OBVIOUS
    <3>2. \A p \in to : from[p] = Back(p)
      OBVIOUS
    <3> HIDE DEF land, from
    <3>3. to = {land[p] : p \in moving}
      BY <2>3, <3>1
    <3>4. /\ \A p \in moving : from[land[p]] = p
          /\ \A p \in moving : land[p] \in DOMAIN t.path => land[p] \in moving
      BY <2>3, <2>5, <2>7, <3>1, <3>2
    <3>5. \A p \in DOMAIN t.path \ moving : land[p] = p
      BY <2>6, <3>1
    <3>6. path1 = [p \in (DOMAIN t.path \ moving) \cup to |-> IF p \in to THEN t.path[from[p]] ELSE t.path[p]]
      BY <2>9, <3>2
    <3>7. \A f \in DOMAIN t.wd : IsWatch(wd1[f]) /\ wd1[f].name = land[t.wd[f].name]
      BY <2>8, <2>10, <3>1 DEF Paired
    <3> HIDE DEF to
    <3>8. moving \in SUBSET DOMAIN t.path /\ DOMAIN wd1 = DOMAIN t.wd
      BY <2>3, <2>8
    <3>9. Moves(t.path, t.wd, path1, wd1, moving, to, land, from)
      BY <3>3, <3>4, <3>5, <3>6, <3>7, <3>8 DEF Moves
    <3> QED BY <2>10, <3>9, MoveSound
  <2> QED BY <2>1, <2>8, <2>12, <2>13, <2>14 DEF Sound, path1, wd1
<1> QED BY <1>1, <1>3, <1>4

-----------------------------------------------------------------------------
(* The tree.                                                               *)
-----------------------------------------------------------------------------
TreeIsPaths == \A p \in DOMAIN fs : IsPath(p)

LEMMA TreeStaysPaths ==
  ASSUME TreeIsPaths, NEW p, NEW q, NEW isDir,
         \/ p \in Path /\ Make(p, isDir)
         \/ Unlink(p)
         \/ q \in Path /\ (Move(p, q) \/ Replace(p, q))
  PROVE  TreeIsPaths'
<1>1. CASE p \in Path /\ Make(p, isDir)
  <2>1. DOMAIN fs' = DOMAIN fs \cup {p} /\ IsPath(p)
    BY <1>1, PathsArePaths DEF Make, Path
  <2> QED BY <2>1 DEF TreeIsPaths, IsPath
<1>2. CASE Unlink(p)
  BY <1>2 DEF Unlink, Restrict, TreeIsPaths, IsPath
<1>3. CASE q \in Path /\ Move(p, q)
  <2> DEFINE moved == {x \in DOMAIN fs : Under(x, p)}
             to == {Rebased(y, p, q) : y \in moved}
  <2>1. p \in DOMAIN fs /\ DOMAIN fs' = (DOMAIN fs \ moved) \cup to
    BY <1>3 DEF Move
  <2>2. IsPath(p) /\ IsPath(q) /\ \A x \in moved : IsPath(x) /\ Under(x, p)
    BY <1>3, <2>1, PathsArePaths DEF TreeIsPaths, Path
  <2>3. \A x \in to : IsPath(x)
    BY <2>2, RebasedBack
  <2> QED BY <2>1, <2>3 DEF TreeIsPaths, IsPath
<1>4. CASE Replace(p, q)
  BY <1>4 DEF Replace, TreeIsPaths, IsPath
<1> QED BY <1>1, <1>2, <1>3, <1>4

-----------------------------------------------------------------------------
(* One lemma per action.                                                   *)
-----------------------------------------------------------------------------
SoundInv == TreeIsPaths /\ (found # Nothing => IsPath(found.path)) /\ (~crossed => Sound(tb, lock))

LEMMA TablesStep ==
  ASSUME SoundInv, fs' = fs, crossed => crossed', found' = found \/ found' = Nothing \/ IsPath(found'.path),
         Sound(tb, lock) /\ ~crossed' => Sound(tb', lock')
  PROVE  SoundInv'
<1>1. TreeIsPaths' /\ (found # Nothing => IsPath(found.path))'
  BY DEF SoundInv, TreeIsPaths, IsPath, Nothing
<1>2. ~crossed' => Sound(tb', lock')
  BY DEF SoundInv
<1>3. ~crossed' => Sound(tb, lock)'
  BY <1>2 DEF Sound, Held, Paired, IsTable, IsWatch, IsPath
<1> QED BY <1>1, <1>3 DEF SoundInv

LEMMA FailSound ==
  ASSUME NEW l, Sound(tb, l), NEW g, NEW reported, Fail(g, reported)
  PROVE  Sound(tb', l)
BY OwnerMethods DEF Fail

LEMMA LookUpSound ==
  ASSUME Sound(tb, lock), TreeIsPaths, NEW g, LookUp(g)
  PROVE  Sound(tb', lock')
<1> DEFINE v == Head(todo[g])
           p == v.path
           watched == Watched(tb, p)
           fd == IF watched THEN tb.path[p] ELSE NewFd(tb)
<1>1. lock = Unheld
  BY DEF LookUp
<1>2. \/ /\ watched /\ tb' = Asked(tb, fd, v.how.all)
         /\ lock' = Holds(g, "ask", p, fd)
      \/ /\ ~watched /\ p \in DOMAIN fs /\ tb' = Opened(tb, p, v.how.all)
         /\ lock' = Holds(g, "open", p, fd)
      \/ lock' = lock /\ (tb' = markSeen(tb, p) \/ Fail(g, FALSE))
  BY DEF LookUp
<1>3. CASE watched /\ tb' = Asked(tb, fd, v.how.all) /\ lock' = Holds(g, "ask", p, fd)
  <2>1. lock'.what = "ask"
    BY <1>3 DEF Holds
  <2> QED BY <1>1, <1>3, <2>1, AskedSound
<1>4. CASE /\ ~watched /\ p \in DOMAIN fs /\ tb' = Opened(tb, p, v.how.all)
           /\ lock' = Holds(g, "open", p, fd)
  <2>1. lock'.what = "open" /\ lock'.path = p /\ lock'.fd = NewFd(tb) /\ IsPath(p)
    BY <1>4 DEF TreeIsPaths, Holds
  <2>2. ~Watched(tb, p) /\ tb' = Opened(tb, p, v.how.all)
    BY <1>4
  <2> HIDE DEF v, p, watched, fd
  <2> QED BY <1>1, <2>1, <2>2, OpenedSound
<1>5. CASE lock' = lock /\ (tb' = markSeen(tb, p) \/ Fail(g, FALSE))
  <2> HIDE DEF v, p, watched, fd
  <2>1. Sound(markSeen(tb, p), lock)
    BY OwnerMethods
  <2>2. Fail(g, FALSE) => Sound(tb', lock)
    BY FailSound
  <2> QED BY <1>5, <2>1, <2>2
<1> HIDE DEF v, p, watched, fd
<1> QED BY <1>2, <1>3, <1>4, <1>5

(* Nothing depends on a lock that is held only to ask. *)
LEMMA AskingSound ==
  ASSUME NEW t, NEW k, NEW l, Sound(t, k), {k.what, l.what} \subseteq {"ask", "nothing"}
  PROVE  Sound(t, l)
BY DEF Sound, Held

LEMMA DoAddSound ==
  ASSUME Sound(tb, lock), NEW g, DoAdd(g)
  PROVE  Sound(tb', lock')
<1>1. lock.what = "open" /\ tb' = add(tb, lock.path, lock.fd) /\ lock'.what = "ask"
  BY DEF DoAdd, Holds
<1>2. Sound(tb', Unheld)
  BY <1>1, AddSound
<1> QED BY <1>1, <1>2, AskingSound DEF Unheld, Holds

LEMMA DoFlagsSound ==
  ASSUME Sound(tb, lock), NEW g, DoFlags(g)
  PROVE  Sound(tb', lock')
<1> DEFINE v == Head(todo[g])
<1>1. lock.what = "ask" /\ lock' = Unheld /\ (tb' = tb \/ tb' = updateDirFlags(tb, lock.path, v.how.all))
  BY DEF DoFlags
<1>2. Sound(tb, Unheld)
  BY <1>1, AskingSound DEF Unheld, Holds
<1> HIDE DEF v
<1> QED BY <1>1, <1>2, FlagsSound

LEMMA DoOwnSound ==
  ASSUME Sound(tb, lock), NEW g, DoOwn(g)
  PROVE  Sound(tb', lock)
<1> DEFINE v == Head(todo[g])
           t == IF v.how.tree THEN addOwnerTree(tb, v.path, v.how.owners, v.dir)
                ELSE IF v.how.owners = {} THEN tb ELSE addOwners(tb, {v.path}, v.how.owners)
           t1 == IF v.how.next = "files" THEN t ELSE markSeen(t, v.path)
           t2 == addUserWatch(t1, v.path)
           t3 == [t2 EXCEPT !.recurse = @ \cup {v.path}]
<1>1. tb' \in {t1, t3}
  BY DEF DoOwn
<1>2. Sound(t, lock)
  BY OwnerMethods
<1> HIDE DEF t
<1>3. Sound(t1, lock)
  BY <1>2, OwnerMethods
<1> HIDE DEF t1
<1>4. Sound(t2, lock)
  BY <1>3, OwnerMethods
<1> HIDE DEF t2
<1>5. t3.path = t2.path /\ t3.wd = t2.wd /\ t3.open = t2.open /\ IsTable(t3)
  BY <1>4 DEF Sound, IsTable
<1> HIDE DEF t3
<1>6. Sound(t3, lock)
  BY <1>4, <1>5, OthersSound
<1> QED BY <1>1, <1>3, <1>6

LEMMA ShutSound ==
  ASSUME Sound(tb, lock), NEW g, Shut(g)
  PROVE  Sound(tb', lock')
<1> DEFINE v == Head(todo[g])
           r == [tb EXCEPT !.seen = @ \ {v.path}]
<1>1. lock = Unheld
  BY DEF Shut
<1>2. \/ /\ Watched(tb, v.path) /\ tb' = Closed(tb, tb.path[v.path])
         /\ lock' = Holds(g, "close", v.path, tb.path[v.path])
      \/ lock' = lock /\ tb' \in {tb, r}
  BY DEF Shut
<1>3. CASE /\ Watched(tb, v.path) /\ tb' = Closed(tb, tb.path[v.path])
           /\ lock' = Holds(g, "close", v.path, tb.path[v.path])
  <2>1. lock'.what = "close" /\ lock'.path = v.path /\ lock'.fd = tb.path[v.path]
    BY <1>3 DEF Holds
  <2> QED BY <1>1, <1>3, <2>1, ClosedSound
<1>4. CASE lock' = lock /\ tb' \in {tb, r}
  <2>1. r.path = tb.path /\ r.wd = tb.wd /\ r.open = tb.open /\ IsTable(r)
    BY DEF Sound, IsTable
  <2> HIDE DEF r
  <2>2. Sound(r, lock)
    BY <2>1, OthersSound
  <2> QED BY <1>4, <2>2
<1> QED BY <1>2, <1>3, <1>4

LEMMA UnregisterSound ==
  ASSUME Sound(tb, lock), NEW g, Unregister(g)
  PROVE  Sound(tb', lock')
BY RemoveSound DEF Unregister

LEMMA ReadSound ==
  ASSUME Sound(tb, lock), Read
  PROVE  Sound(tb', lock)
<1>1. CASE tb' = tb
  BY <1>1
<1>2. CASE tb' # tb
  <2> DEFINE n == IF Len(tb.queue) < BatchLen THEN Len(tb.queue) ELSE BatchLen
             Cleared(f) == IF \E k \in 1..n : tb.queue[k] = f THEN [tb.open[f] EXCEPT !.notes = {}] ELSE tb.open[f]
             r == [tb EXCEPT !.queue = SubSeq(@, n + 1, Len(@)), !.open = [f \in DOMAIN @ |-> Cleared(f)]]
  <2>1. tb' = r
    BY <1>2 DEF Read
  <2>2. r.path = tb.path /\ r.wd = tb.wd /\ DOMAIN r.open = DOMAIN tb.open /\ IsTable(r)
    BY DEF Sound, IsTable
  <2> HIDE DEF r
  <2> QED BY <2>1, <2>2, OthersSound
<1> QED BY <1>1, <1>2

LEMMA HandleSound ==
  ASSUME Sound(tb, lock), Handle
  PROVE  Sound(tb', lock)
<1> DEFINE e == Head(batch)
           w == tb.wd[e.wd]
           t == IF w.skip /\ "rename" \in e.notes THEN consumeSkippedRename(tb, e.wd) ELSE tb
<1>1. tb' = tb \/ (e.wd \in DOMAIN tb.wd /\ tb' \in {t, removeRootsUnder(t, w.name)})
  BY DEF Handle
<1>2. e.wd \in DOMAIN tb.wd => Sound(t, lock)
  BY SkipSound
<1> HIDE DEF t
<1> QED BY <1>1, <1>2, OwnerMethods

LEMMA DoRebaseSound ==
  ASSUME SoundInv, Sound(tb, lock), DoRebase, ~crossed'
  PROVE  Sound(tb', lock')
<1>1. \/ tb' = tb
      \/ /\ found.old \in DOMAIN tb.path /\ CanRebase(tb, found.old, found.path)
         /\ tb' = rebase(tb, found.old, found.path, found.us) /\ IsPath(found.path)
  BY DEF DoRebase, SoundInv
<1>2. lock' = lock /\ (lock.what \in {"open", "close"} => Leads(tb, lock.path) = Leads(tb', lock.path))
  BY DEF DoRebase
<1> QED BY <1>1, <1>2, RebaseSound

LEMMA TreeSound ==
  ASSUME SoundInv, TreeChanges
  PROVE  SoundInv'
<1>1. lock' = lock /\ crossed' = crossed /\ found' = found /\ \E happened : tb' = Fire(tb, happened)
  BY DEF TreeChanges, Happens
<1>2. ~crossed' => Sound(tb', lock')
  BY <1>1, FireSound DEF SoundInv
<1>3. TreeIsPaths'
  BY TreeStaysPaths DEF TreeChanges, SoundInv
<1>4. (~crossed' => Sound(tb, lock)') /\ TreeIsPaths' /\ (found # Nothing => IsPath(found.path))'
  BY <1>1, <1>2, <1>3 DEF Sound, Held, Paired, IsTable, IsWatch, IsPath, SoundInv, Nothing
<1> QED BY <1>4 DEF SoundInv

-----------------------------------------------------------------------------
(* The inductive invariant.                                                *)
-----------------------------------------------------------------------------
LEMMA InitSound ==
  ASSUME Init
  PROVE  SoundInv
<1>1. tb.path = <<>> /\ tb.wd = <<>> /\ tb.open = <<>> /\ IsTable(tb) /\ lock.what = "nothing"
  BY DEF Init, WatchesInit, IsTable, Unheld, Holds
<1>2. DOMAIN tb.path = {} /\ DOMAIN tb.wd = {} /\ DOMAIN tb.open = {}
  BY <1>1
<1>3. Sound(tb, lock)
  BY <1>1, <1>2, FS_EmptySet DEF Sound, Paired, Held
<1>4. DOMAIN fs = InitDirs \cup InitFiles
  BY DEF Init, TreeInit
<1>5. TreeIsPaths
  BY <1>4, TreeAssumption, PathsArePaths DEF TreeIsPaths
<1> QED BY <1>3, <1>5 DEF SoundInv, Init

LEMMA NextSound ==
  ASSUME SoundInv, [Next]_vars
  PROVE  SoundInv'
<1>1. TreeIsPaths
  BY DEF SoundInv
<1>2. ASSUME NEW g \in Goroutine,
             \/ DoStat(g) \/ LookUp(g) \/ DoAdd(g) \/ DoFlags(g) \/ DoOwn(g) \/ DoList(g)
             \/ Shut(g) \/ Unregister(g)
      PROVE  SoundInv'
  <2>1. CASE DoStat(g) \/ DoList(g)
    <3>1. tb' = tb \/ Fail(g, FALSE)
      BY <2>1 DEF DoStat, DoList
    <3>2. fs' = fs /\ lock' = lock /\ found' = found /\ crossed' = crossed
      BY <2>1 DEF DoStat, DoList, TablesOnly, WorkOnly, treeVars
    <3> QED BY <3>1, <3>2, FailSound, TablesStep
  <2>2. CASE LookUp(g)
    BY <1>1, <2>2, LookUpSound, TablesStep DEF LookUp, WorkOnly, treeVars
  <2>3. CASE DoAdd(g) \/ DoFlags(g)
    <3>1. fs' = fs /\ found' = found /\ crossed' = crossed
      BY <2>3 DEF DoAdd, DoFlags, WorkOnly, treeVars
    <3> QED BY <2>3, <3>1, DoAddSound, DoFlagsSound, TablesStep
  <2>4. CASE DoOwn(g)
    BY <2>4, DoOwnSound, TablesStep DEF DoOwn, TablesOnly, WorkOnly, treeVars
  <2>5. CASE Shut(g)
    BY <2>5, ShutSound, TablesStep DEF Shut, WorkOnly, treeVars
  <2>6. CASE Unregister(g)
    BY <2>6, UnregisterSound, TablesStep DEF Unregister, WorkOnly, treeVars
  <2> QED BY <1>2, <2>1, <2>2, <2>3, <2>4, <2>5, <2>6
<1>3. CASE User
  <2>1. CASE DoFinish
    <3>1. Sound(tb, lock) => Sound(tb', lock)
      BY <2>1, OwnerMethods DEF DoFinish
    <3> QED BY <2>1, <3>1, TablesStep DEF DoFinish, TablesOnly, WorkOnly, treeVars
  <2>2. CASE DoPipe
    BY <2>2, TablesStep DEF DoPipe, treeVars
  <2> QED BY <1>3, <2>1, <2>2 DEF User
<1>4. CASE Reader
  <2>1. CASE Read
    BY <2>1, ReadSound, TablesStep DEF Read, treeVars
  <2>2. CASE Handle
    BY <2>2, HandleSound, TablesStep DEF Handle, treeVars
  <2>3. CASE DoRebase
    <3>1. fs' = fs /\ found' = Nothing /\ (crossed => crossed')
      BY <2>3 DEF DoRebase, WorkOnly, treeVars
    <3> QED BY <2>3, <3>1, DoRebaseSound, TablesStep
  <2>5. CASE DoEntry
    <3> DEFINE p == Head(todo["reader"]).path
    <3>1. \/ found' = found
          \/ p \in DOMAIN fs /\ \E old, us, owners : found' = Found(p, old, us, owners)
      BY <2>5 DEF DoEntry
    <3>2. found' = found \/ IsPath(found'.path)
      BY <1>1, <3>1 DEF Found, TreeIsPaths
    <3>3. fs' = fs /\ tb' = tb /\ lock' = lock /\ crossed' = crossed
      BY <2>5 DEF DoEntry, WorkOnly, treeVars
    <3> QED BY <3>2, <3>3, TablesStep
  <2>4. CASE DoAgain \/ DoScan \/ DoTrack \/ ReaderRefused \/ DoSend \/ DoCreated
    <3>1. tb' = tb
      BY <2>4 DEF DoAgain, DoScan, DoTrack, ReaderRefused, DoSend, DoCreated, Fail
    <3>2. fs' = fs /\ lock' = lock /\ found' = found /\ crossed' = crossed
      BY <2>4 DEF DoAgain, DoScan, DoTrack, ReaderRefused, DoSend, DoCreated, TablesOnly, WorkOnly, treeVars
    <3> QED BY <3>1, <3>2, TablesStep
  <2> QED BY <1>4, <2>1, <2>2, <2>3, <2>4, <2>5 DEF Reader
<1>5. ASSUME NEW c \in Closers, Close(c) \/ CloseReturn(c)
      PROVE  SoundInv'
  <2>1. fs' = fs /\ tb' = tb /\ lock' = lock /\ found' = found /\ crossed' = crossed
    BY <1>5 DEF Close, CloseReturn, CallOnly, treeVars
  <2> QED BY <2>1, TablesStep
<1>6. ASSUME NEW p, NEW rec, AddWith(p, rec) \/ RemoveWatch(p, rec)
      PROVE  SoundInv'
  <2>1. fs' = fs /\ lock' = lock /\ found' = found /\ crossed' = crossed /\ (tb' = tb \/ tb' = releaseOwner(tb, p))
    BY <1>6 DEF AddWith, RemoveWatch, CallOnly, treeVars
  <2> QED BY <2>1, OwnerMethods, TablesStep
<1>7. CASE TreeChanges
  BY <1>7, TreeSound
<1>8. CASE UNCHANGED vars
  BY <1>8, TablesStep DEF vars, treeVars
<1> QED BY <1>2, <1>3, <1>4, <1>5, <1>6, <1>7, <1>8 DEF Next, Work

(* However directories are renamed, removed and made again while both      *)
(* goroutines work on the tables, and whoever calls what: a descriptor is  *)
(* never lost and never shared by two paths, as long as readEvents does    *)
(* not change what a path leads to while a caller is between byPath and    *)
(* add or remove for that path (backend_kqueue.go: addWatchDescriptor      *)
(* 793-882, remove2 723-754, rebase 347-464).  Then it can: see README.    *)
THEOREM PairedUnlessCrossed == Spec => []DescriptorsPaired
<1>1. Init => SoundInv
  BY InitSound
<1>2. SoundInv /\ [Next]_vars => SoundInv'
  BY NextSound
<1>3. SoundInv => DescriptorsPaired
  <2> SUFFICES ASSUME Sound(tb, lock)
               PROVE  DescriptorsPaired
    BY DEF SoundInv, DescriptorsPaired
  <2>1. lock = Unheld => DOMAIN tb.open = DOMAIN tb.wd
    BY DEF Sound, Held, Unheld, Holds
  <2> QED BY <2>1 DEF Sound, Paired, DescriptorsPaired, Watched, byPath
<1> QED BY <1>1, <1>2, <1>3, PTL DEF Spec
-----------------------------------------------------------------------------
(* Close.                                                                  *)
-----------------------------------------------------------------------------
CloseWork == {Drop(p, files) : p \in Seq(Names), files \in BOOLEAN} \cup {Pipe}

(* Every path in ps has still to be dropped. *)
Listed(ps, work) ==
  /\ work \in Seq(CloseWork)
  /\ \A p \in ps : \E k \in DOMAIN work : work[k].do = "drop" /\ work[k].path = p

(* What Close has to drop, if nothing has escaped it. *)
ToDrop == IF escaped THEN {} ELSE DOMAIN tb.path

(* Whoever holds watchMu is at the piece it holds it for. *)
LockInv ==
  /\ todo = [g \in Goroutine |-> todo[g]]
  /\ lock = Unheld \/ /\ lock.by \in Goroutine /\ todo[lock.by] # <<>>
                      /\ Head(todo[lock.by]).path = lock.path
                      /\ Head(todo[lock.by]).do \in {"watch", "remove", "forget", "drop"}

ClosingInv ==
  /\ at = [c \in Closers |-> at[c]]
  /\ closed /\ ~crossed => Listed(ToDrop, todo["user"])
  /\ \A c \in Closers : at[c] # "out" => closed
  /\ \A c \in Closers : at[c] = "returned" => Unlocked /\ reader = "ended"
  /\ reader = "ended" => todo["reader"] = <<>>

(* A piece that is done, and those that take its place. *)
LEMMA ThenIs ==
  ASSUME todo = [g \in Goroutine |-> todo[g]], NEW g \in Goroutine, NEW pieces, Then(g, pieces)
  PROVE  /\ todo' = [h \in Goroutine |-> todo'[h]]
         /\ todo'[g] = Skip(pieces \o Tail(todo[g]))
         /\ \A h \in Goroutine : h # g => todo'[h] = todo[h]
BY DEF Then

(* What one goroutine has to do is its own. *)
OnlyOf(g) == todo' = [h \in Goroutine |-> todo'[h]] /\ \A h \in Goroutine : h # g => todo'[h] = todo[h]

LEMMA OnlyOfOne ==
  ASSUME LockInv, NEW g \in Goroutine,
         \/ \E pieces : Then(g, pieces)
         \/ \E reported : Fail(g, reported)
         \/ \E pieces : todo' = [todo EXCEPT ![g] = pieces]
         \/ todo' = todo
  PROVE  OnlyOf(g)
BY DEF Then, Fail, LockInv, OnlyOf

-----------------------------------------------------------------------------
(* Who holds watchMu.                                                      *)
-----------------------------------------------------------------------------
(* It is taken at a piece that stays.                                      *)
LEMMA LockTaken ==
  ASSUME LockInv, todo' = todo, NEW g \in Goroutine, lock'.by = g, todo[g] # <<>>,
         Head(todo[g]).path = lock'.path, Head(todo[g]).do \in {"watch", "remove", "forget", "drop"}
  PROVE  LockInv'
BY DEF LockInv, Goroutine

(* It is kept at a piece that stays: whoever goes on does not hold it.     *)
LEMMA LockKept ==
  ASSUME LockInv, lock' \in {lock, Unheld}, NEW g \in Goroutine, OnlyOf(g),
         lock' = Unheld \/ todo[g] = <<>> \/ todo' = todo
           \/ Head(todo[g]).do \notin {"watch", "remove", "forget", "drop"}
  PROVE  LockInv'
<1>1. CASE lock' = Unheld
  BY <1>1 DEF LockInv, OnlyOf, Goroutine, Unheld, Holds
<1>2. CASE lock' = lock /\ lock # Unheld
  <2>1. lock.by \in Goroutine /\ todo'[lock.by] = todo[lock.by]
    BY <1>2 DEF LockInv, OnlyOf
  <2> QED BY <1>2, <2>1 DEF LockInv, OnlyOf, Goroutine
<1> QED BY <1>1, <1>2

LEMMA NextLock ==
  ASSUME LockInv, [Next]_vars
  PROVE  LockInv'
<1>1. ASSUME NEW g \in Goroutine, DoStat(g) \/ DoOwn(g) \/ DoList(g)
      PROVE  LockInv'
  <2>1. lock' = lock /\ ((\E pieces : Then(g, pieces)) \/ \E reported : Fail(g, reported))
    BY <1>1 DEF DoStat, DoOwn, DoList, TablesOnly
  <2>2. Head(todo[g]).do \in {"stat", "own", "list"}
    BY <1>1 DEF DoStat, DoOwn, DoList, Doing
  <2>3. OnlyOf(g)
    BY <2>1, OnlyOfOne
  <2> QED BY <2>1, <2>2, <2>3, LockKept
<1>2. ASSUME NEW g \in Goroutine, LookUp(g)
      PROVE  LockInv'
  <2> DEFINE p == Head(todo[g]).path
             watched == Watched(tb, p)
             fd == IF watched THEN tb.path[p] ELSE NewFd(tb)
             taken == Holds(g, IF watched THEN "ask" ELSE "open", p, fd)
  <2>1. /\ todo[g] # <<>> /\ Head(todo[g]).do = "watch" /\ lock = Unheld
        /\ \/ lock' = taken /\ todo' = todo
           \/ lock' = lock /\ ((\E pieces : Then(g, pieces)) \/ \E reported : Fail(g, reported))
    BY <1>2 DEF LookUp, Doing
  <2>2. taken.by = g /\ taken.path = Head(todo[g]).path
    BY DEF Holds
  <2> HIDE DEF taken
  <2>3. CASE lock' = taken /\ todo' = todo
    BY <2>1, <2>2, <2>3, LockTaken
  <2>4. CASE lock' = lock /\ ((\E pieces : Then(g, pieces)) \/ \E reported : Fail(g, reported))
    BY <2>1, <2>4, OnlyOfOne, LockKept
  <2> QED BY <2>1, <2>3, <2>4
<1>3. ASSUME NEW g \in Goroutine, Shut(g)
      PROVE  LockInv'
  <2> DEFINE p == Head(todo[g]).path
             taken == Holds(g, "close", p, tb.path[p])
  <2>1. /\ todo[g] # <<>> /\ Head(todo[g]).do \in {"remove", "forget", "drop"} /\ lock = Unheld
        /\ \/ lock' = taken /\ todo' = todo
           \/ lock' = lock /\ \E pieces : Then(g, pieces)
    BY <1>3 DEF Shut, Doing
  <2>2. taken.by = g /\ taken.path = Head(todo[g]).path
    BY DEF Holds
  <2> HIDE DEF taken
  <2>3. CASE lock' = taken /\ todo' = todo
    BY <2>1, <2>2, <2>3, LockTaken
  <2>4. CASE lock' = lock /\ \E pieces : Then(g, pieces)
    BY <2>1, <2>4, OnlyOfOne, LockKept
  <2> QED BY <2>1, <2>3, <2>4
<1>4. ASSUME NEW g \in Goroutine, DoAdd(g) \/ DoFlags(g) \/ Unregister(g)
      PROVE  LockInv'
  <2>1. CASE DoAdd(g)
    <3>1. /\ todo' = todo /\ todo[g] # <<>> /\ Head(todo[g]).do = "watch" /\ lock.by = g /\ lock.what = "open"
          /\ lock'.by = g /\ lock'.path = lock.path
      BY <2>1 DEF DoAdd, Holds, Doing
    <3>2. Head(todo[g]).path = lock.path
      BY <3>1 DEF LockInv, Unheld, Holds
    <3> QED BY <3>1, <3>2, LockTaken
  <2>2. CASE DoFlags(g) \/ Unregister(g)
    <3>1. lock' = Unheld /\ \E pieces : Then(g, pieces)
      BY <2>2 DEF DoFlags, Unregister
    <3> QED BY <3>1, OnlyOfOne, LockKept
  <2> QED BY <1>4, <2>1, <2>2
<1>5. CASE User
  <2>1. lock' = lock /\ (\E pieces : Then("user", pieces)) /\ Head(todo["user"]).do \in {"finish", "pipe"}
    BY <1>5 DEF User, DoFinish, DoPipe, Doing, TablesOnly
  <2>2. OnlyOf("user")
    BY <2>1, OnlyOfOne DEF Goroutine
  <2> QED BY <2>1, <2>2, LockKept DEF Goroutine
<1>6. CASE Reader
  <2>1. CASE Read \/ Handle
    <3>1. lock' = lock /\ todo["reader"] = <<>> /\ (todo' = todo \/ \E pieces : todo' = [todo EXCEPT !["reader"] = pieces])
      BY <2>1 DEF Read, Handle, Idle
    <3>2. OnlyOf("reader")
      BY <3>1, OnlyOfOne DEF Goroutine
    <3> QED BY <3>1, <3>2, LockKept DEF Goroutine
  <2>2. CASE ReaderRefused
    <3>1. lock' = lock /\ lock = Unheld /\ ((\E pieces : Then("reader", pieces)) \/ \E reported : Fail("reader", reported))
      BY <2>2 DEF ReaderRefused, TablesOnly
    <3>2. OnlyOf("reader")
      BY <3>1, OnlyOfOne DEF Goroutine
    <3> QED BY <3>1, <3>2, LockKept DEF Goroutine
  <2>3. CASE DoEntry \/ DoRebase \/ DoAgain \/ DoScan \/ DoTrack \/ DoSend \/ DoCreated
    <3>1. lock' = lock /\ Head(todo["reader"]).do \in {"entry", "again", "scan", "track", "send", "created"}
      BY <2>3 DEF DoEntry, DoRebase, DoAgain, DoScan, DoTrack, DoSend, DoCreated, Doing, TablesOnly
    <3>2. \/ todo' = todo \/ \E pieces : Then("reader", pieces)
          \/ \E pieces : todo' = [todo EXCEPT !["reader"] = pieces]
      BY <2>3 DEF DoEntry, DoRebase, DoAgain, DoScan, DoTrack, DoSend, DoCreated
    <3>3. OnlyOf("reader")
      BY <3>2, OnlyOfOne DEF Goroutine
    <3> QED BY <3>1, <3>3, LockKept DEF Goroutine
  <2> QED BY <1>6, <2>1, <2>2, <2>3 DEF Reader
<1>7. ASSUME NEW c \in Closers, Close(c) \/ CloseReturn(c)
      PROVE  LockInv'
  <2>1. /\ lock' = lock /\ todo["user"] = <<>>
        /\ todo' = todo \/ \E pieces : todo' = [todo EXCEPT !["user"] = pieces]
    BY <1>7 DEF Close, CloseReturn, CallOnly, Unlocked
  <2>2. OnlyOf("user")
    BY <2>1, OnlyOfOne DEF Goroutine
  <2> QED BY <2>1, <2>2, LockKept DEF Goroutine
<1>8. ASSUME NEW p, NEW rec, AddWith(p, rec) \/ RemoveWatch(p, rec)
      PROVE  LockInv'
  <2>1. lock' = lock /\ todo["user"] = <<>> /\ \E pieces : todo' = [todo EXCEPT !["user"] = pieces]
    BY <1>8 DEF AddWith, RemoveWatch, CanCall, CallOnly, Unlocked
  <2>2. OnlyOf("user")
    BY <2>1, OnlyOfOne DEF Goroutine
  <2> QED BY <2>1, <2>2, LockKept DEF Goroutine
<1>9. CASE TreeChanges \/ UNCHANGED vars
  <2>1. lock' = lock /\ todo' = todo
    BY <1>9 DEF TreeChanges, vars
  <2> QED BY <2>1 DEF LockInv
<1> QED BY <1>1, <1>2, <1>3, <1>4, <1>5, <1>6, <1>7, <1>8, <1>9 DEF Next, Work

-----------------------------------------------------------------------------
(* What Close has listed.                                                  *)
-----------------------------------------------------------------------------
(* The list that Close makes has every path. *)
LEMMA ListedAtFirst ==
  ASSUME NEW ps, IsFiniteSet(ps), \A p \in ps : IsPath(p), NEW files \in BOOLEAN
  PROVE  LET work == Each(SetToSeq(ps), LAMBDA p : Drop(p, files))
         IN  Listed(ps, work) /\ work \in Seq(CloseWork)
<1> DEFINE s == SetToSeq(ps)
           work == [k \in DOMAIN s |-> Drop(s[k], files)]
<1>1. s \in Seq(ps) /\ \A p \in ps : \E k \in DOMAIN s : s[k] = p
  BY SetToSeqCovers
<1> HIDE DEF s
<1>2. PICK n \in Nat : DOMAIN s = 1..n /\ \A k \in 1..n : s[k] \in ps
  BY <1>1
<1>3. \A p \in ps : Drop(p, files) \in CloseWork
  BY DEF CloseWork, IsPath
<1>4. work \in [1..n -> CloseWork]
  BY <1>2, <1>3
<1>5. work \in Seq(CloseWork)
  BY <1>2, <1>4
<1>6. \A p \in ps : \E k \in DOMAIN work : work[k].do = "drop" /\ work[k].path = p
  BY <1>1 DEF Drop
<1> QED BY <1>5, <1>6 DEF Listed, Each, s

(* More pieces, before or behind. *)
LEMMA ListedWithMore ==
  ASSUME NEW ps, NEW work, Listed(ps, work), NEW more \in Seq(CloseWork)
  PROVE  Listed(ps, more \o work) /\ Listed(ps, work \o more)
<1>1. work \in Seq(CloseWork) /\ \A p \in ps : \E k \in DOMAIN work : work[k].do = "drop" /\ work[k].path = p
  BY DEF Listed
<1> DEFINE a == more \o work
           b == work \o more
<1>2. /\ a \in Seq(CloseWork)
      /\ \A k \in DOMAIN work : Len(more) + k \in DOMAIN a /\ a[Len(more) + k] = work[k]
  BY <1>1, ConcatParts
<1>3. b \in Seq(CloseWork) /\ \A k \in DOMAIN work : k \in DOMAIN b /\ b[k] = work[k]
  BY <1>1, ConcatParts
<1> HIDE DEF a, b
<1>4. \A p \in ps : \E k \in DOMAIN a : a[k].do = "drop" /\ a[k].path = p
  <2> SUFFICES ASSUME NEW p \in ps
               PROVE  \E k \in DOMAIN a : a[k].do = "drop" /\ a[k].path = p
    OBVIOUS
  <2>1. PICK k \in DOMAIN work : work[k].do = "drop" /\ work[k].path = p
    BY <1>1
  <2>2. Len(more) + k \in DOMAIN a /\ a[Len(more) + k].do = "drop" /\ a[Len(more) + k].path = p
    BY <1>2, <2>1
  <2> QED BY <2>2
<1>5. \A p \in ps : \E k \in DOMAIN b : b[k].do = "drop" /\ b[k].path = p
  BY <1>1, <1>3
<1> QED BY <1>2, <1>3, <1>4, <1>5 DEF Listed, a, b

LEMMA ListedTail ==
  ASSUME NEW ps, NEW work, Listed(ps, work), work # <<>>,
         NEW ps1 \in SUBSET ps, Head(work).do = "drop" => Head(work).path \notin ps1
  PROVE  Listed(ps1, Tail(work))
<1>1. /\ Tail(work) \in Seq(CloseWork) /\ Head(work) = work[1]
      /\ \A i \in DOMAIN Tail(work) : Tail(work)[i] = work[i + 1]
      /\ \A i \in DOMAIN work : i = 1 \/ \E j \in DOMAIN Tail(work) : i = j + 1
  BY TailParts DEF Listed
<1> DEFINE rest == Tail(work)
<1> HIDE DEF rest
<1>2. ASSUME NEW p \in ps1
      PROVE  \E j \in DOMAIN rest : rest[j].do = "drop" /\ rest[j].path = p
  <2>1. PICK k \in DOMAIN work : work[k].do = "drop" /\ work[k].path = p
    BY DEF Listed
  <2>2. k # 1
    BY <1>1, <2>1
  <2>3. PICK j \in DOMAIN rest : k = j + 1
    BY <1>1, <2>2 DEF rest
  <2> QED BY <1>1, <2>1, <2>3 DEF rest
<1> QED BY <1>1, <1>2 DEF Listed, rest

LEMMA NothingToSkip ==
  ASSUME NEW work \in Seq(CloseWork)
  PROVE  Skip(work) = work
<1>1. work # <<>> => Head(work) \in CloseWork
  BY HeadTailProperties
<1>2. \A piece \in CloseWork : piece.do \in {"drop", "pipe"}
  BY DEF CloseWork, Drop, Pipe
<1>3. ScanEnds.do = "scan ends" /\ EntryEnds.do = "entry ends"
  BY DEF ScanEnds, EntryEnds
<1>4. work # <<>> => Head(work) \notin Ends
  BY <1>1, <1>2, <1>3 DEF Ends
<1> QED BY <1>4 DEF Skip

LEMMA FinitelyMany ==
  ASSUME NEW t, NEW l, Sound(t, l)
  PROVE  IsFiniteSet(DOMAIN t.path)
<1> DEFINE f == [d \in DOMAIN t.wd |-> t.wd[d].name]
<1>1. f \in [DOMAIN t.wd -> DOMAIN t.path] /\ \A p \in DOMAIN t.path : \E d \in DOMAIN t.wd : f[d] = p
  BY DEF Sound, Paired
<1>2. f \in Surjection(DOMAIN t.wd, DOMAIN t.path)
  BY <1>1 DEF Surjection
<1> QED BY <1>2, FS_Surjection DEF Sound

(* A caller does nothing but drop once the watcher is closed. *)
LEMMA OnlyDrops ==
  ASSUME ClosingInv, closed, ~crossed, NEW what, Doing("user", what)
  PROVE  what \in {"drop", "pipe"}
<1>1. Head(todo["user"]) \in CloseWork
  BY HeadTailProperties DEF ClosingInv, Listed, Doing
<1> QED BY <1>1 DEF CloseWork, Drop, Pipe, Doing

-----------------------------------------------------------------------------
(* Whose step it is.                                                       *)
-----------------------------------------------------------------------------
(* What does not concern Close: what readEvents and other processes do,    *)
(* and what readEvents adds escapes.                                       *)
LEMMA OthersClosing ==
  ASSUME ClosingInv, closed' = closed, at' = at, OnlyOf("reader"), crossed => crossed',
         closed /\ ~crossed' => ToDrop' \subseteq ToDrop,
         reader' = reader \/ reader' = "ended",
         reader' = "ended" => todo'["reader"] = <<>>
  PROVE  ClosingInv'
<1>1. todo'["user"] = todo["user"]
  BY DEF OnlyOf, Goroutine
<1>2. closed' /\ ~crossed' => Listed(ToDrop', todo'["user"])
  BY <1>1 DEF ClosingInv, Listed
<1>3. \A c \in Closers : at'[c] = "returned" => todo'["user"] = <<>> /\ reader' = "ended"
  BY <1>1 DEF ClosingInv, Unlocked
<1> QED BY <1>2, <1>3 DEF ClosingInv, Unlocked

(* A caller that holds opsMu: no Close has returned. *)
LEMMA CallerClosing ==
  ASSUME ClosingInv, todo["user"] # <<>>, closed' = closed, at' = at, reader' = reader, OnlyOf("user"),
         crossed => crossed', closed /\ ~crossed' => Listed(ToDrop', todo'["user"])
  PROVE  ClosingInv'
<1>1. todo'["reader"] = todo["reader"]
  BY DEF OnlyOf, Goroutine
<1>2. \A c \in Closers : at'[c] # "returned"
  BY DEF ClosingInv, Unlocked
<1> QED BY <1>1, <1>2 DEF ClosingInv

LEMMA CloseLists ==
  ASSUME LockInv, ClosingInv, SoundInv, NEW c \in Closers, Close(c)
  PROVE  ClosingInv'
<1> DEFINE list == Each(SetToSeq(DOMAIN tb.path), LAMBDA p : Drop(p, TRUE))
           work == IF closed THEN <<>> ELSE list \o <<Pipe>>
<1>1. /\ Unlocked /\ closed' = TRUE /\ tb' = tb /\ reader' = reader /\ escaped' = escaped /\ crossed' = crossed
      /\ at' = [at EXCEPT ![c] = "wait"]
      /\ todo' = [todo EXCEPT !["user"] = work]
  BY DEF Close, CallOnly, listPaths
<1> HIDE DEF work
<1>2. todo'["reader"] = todo["reader"] /\ todo'["user"] = work
  BY <1>1 DEF LockInv, Goroutine
<1>3. /\ at' = [d \in Closers |-> at'[d]] /\ at'[c] = "wait"
      /\ \A d \in Closers : d # c => at'[d] = at[d]
  BY <1>1 DEF ClosingInv
<1>4. CASE closed
  <2>1. work = <<>>
    BY <1>4 DEF work
  <2>2. todo'["user"] = todo["user"] /\ todo["user"] = <<>> /\ ToDrop' = ToDrop
    BY <1>1, <1>2, <2>1 DEF Unlocked, ToDrop
  <2>3. closed' /\ ~crossed' => Listed(ToDrop', todo'["user"])
    BY <1>1, <1>4, <2>2 DEF ClosingInv, Listed
  <2>4. \A d \in Closers : at'[d] = "returned" => todo'["user"] = <<>> /\ reader' = "ended"
    BY <1>1, <1>3, <2>2 DEF ClosingInv
  <2> HIDE DEF list
  <2> QED BY <1>1, <1>2, <1>3, <2>3, <2>4 DEF ClosingInv, Unlocked
<1>5. CASE ~closed
  <2>1. ~crossed => Listed(DOMAIN tb.path, work)
    <3> SUFFICES ASSUME Sound(tb, lock)
                 PROVE  Listed(DOMAIN tb.path, work)
      BY DEF SoundInv
    <3>1. Listed(DOMAIN tb.path, list) /\ list \in Seq(CloseWork)
      BY FinitelyMany, ListedAtFirst DEF Sound
    <3>2. <<Pipe>> \in Seq(CloseWork)
      BY DEF CloseWork
    <3> HIDE DEF list
    <3>3. Listed(DOMAIN tb.path, list \o <<Pipe>>)
      BY <3>1, <3>2, ListedWithMore
    <3> QED BY <1>5, <3>3 DEF work
  <2>2. ~crossed' => Listed(ToDrop', todo'["user"])
    BY <1>1, <1>2, <2>1 DEF Listed, ToDrop
  <2>3. \A d \in Closers : at'[d] # "returned"
    BY <1>3, <1>5 DEF ClosingInv
  <2> QED BY <1>1, <1>2, <1>3, <2>2, <2>3 DEF ClosingInv
<1> QED BY <1>4, <1>5

(* Close takes a piece off its list, and perhaps puts others before.       *)
LEMMA ListGoesOn ==
  ASSUME LockInv, Listed(ToDrop, todo["user"]), todo["user"] # <<>>, ToDrop' \subseteq ToDrop,
         Head(todo["user"]).do = "drop" => Head(todo["user"]).path \notin ToDrop',
         NEW pieces \in Seq(CloseWork), Then("user", pieces)
  PROVE  Listed(ToDrop', todo'["user"])
<1> DEFINE rest == Tail(todo["user"])
<1>1. todo'["user"] = Skip(pieces \o rest)
  BY ThenIs DEF LockInv, Goroutine
<1>2. Listed(ToDrop', rest)
  BY ListedTail
<1> HIDE DEF rest
<1>3. Listed(ToDrop', pieces \o rest)
  BY <1>2, ListedWithMore
<1>4. Skip(pieces \o rest) = pieces \o rest
  BY <1>3, NothingToSkip DEF Listed
<1> QED BY <1>1, <1>3, <1>4

LEMMA ShutCloses ==
  ASSUME LockInv, ClosingInv, SoundInv, closed, ~crossed', Shut("user")
  PROVE  Listed(ToDrop', todo'["user"])
<1> DEFINE v == Head(todo["user"])
<1>1. ~crossed /\ Sound(tb, lock) /\ todo["user"] # <<>> /\ escaped' = escaped
  BY DEF Shut, SoundInv, Doing
<1>2. v.do = "drop"
  BY <1>1, OnlyDrops DEF Shut, Doing
<1>3. Listed(ToDrop, todo["user"])
  BY <1>1 DEF ClosingInv
<1>4. \/ tb' = Closed(tb, tb.path[v.path]) /\ todo' = todo
      \/ ~Watched(tb, v.path) /\ tb' = tb /\ Then("user", <<>>)
  BY <1>2 DEF Shut
<1>5. tb'.path = tb.path
  BY <1>1, <1>4 DEF Closed, Sound, IsTable
<1>6. ToDrop' = ToDrop
  BY <1>1, <1>5 DEF ToDrop
<1>7. CASE todo' = todo
  BY <1>3, <1>6, <1>7 DEF Listed
<1>8. CASE ~Watched(tb, v.path) /\ Then("user", <<>>)
  <2>1. v.path \notin ToDrop
    BY <1>1, <1>8, PairedIsWatched DEF ToDrop
  <2>2. <<>> \in Seq(CloseWork)
    OBVIOUS
  <2> HIDE DEF v
  <2> QED BY <1>1, <1>3, <1>6, <1>8, <2>1, <2>2, ListGoesOn DEF v
<1> QED BY <1>4, <1>7, <1>8

LEMMA UnregisterCloses ==
  ASSUME LockInv, ClosingInv, SoundInv, closed, ~crossed', Unregister("user")
  PROVE  Listed(ToDrop', todo'["user"])
<1> DEFINE v == Head(todo["user"])
           files == watchesInDir(tb', lock.path)
           list == Each(SetToSeq(files), LAMBDA p : Drop(p, FALSE))
           more == If(v.do = "drop" /\ v.files /\ tb.wd[lock.fd].obj.dir, list)
<1>1. /\ ~crossed /\ Sound(tb, lock) /\ todo["user"] # <<>> /\ escaped' = escaped
      /\ lock.by = "user" /\ tb' = remove(tb, lock.fd, lock.path) /\ Then("user", more)
  BY DEF Unregister, SoundInv, Doing
<1>2. lock.what = "close" /\ v.path = lock.path
  BY <1>1 DEF Unregister, LockInv, Unheld, Holds
<1>3. Listed(ToDrop, todo["user"])
  BY <1>1 DEF ClosingInv
<1>4. DOMAIN tb'.path = DOMAIN tb.path \ {lock.path}
  <2>1. tb'.path = Restrict(tb.path, DOMAIN tb.path \ {lock.path})
    BY <1>1 DEF remove, Sound, IsTable
  <2> QED BY <2>1 DEF Restrict
<1>5. ToDrop' \subseteq ToDrop /\ v.path \notin ToDrop'
  BY <1>1, <1>2, <1>4 DEF ToDrop
<1>6. more \in Seq(CloseWork)
  <2>1. Sound(tb', Unheld)
    BY <1>1, <1>2, RemoveSound
  <2>2. files \subseteq DOMAIN tb'.path
    BY <2>1 DEF watchesInDir, Sound, Paired
  <2>3. IsFiniteSet(files) /\ \A p \in files : IsPath(p)
    <3>1. IsFiniteSet(DOMAIN tb'.path)
      BY <2>1, FinitelyMany
    <3> QED BY <2>1, <2>2, <3>1, FS_Subset DEF Sound
  <2> HIDE DEF files
  <2>4. list \in Seq(CloseWork)
    BY <2>3, ListedAtFirst
  <2> HIDE DEF list
  <2>5. <<>> \in Seq(CloseWork)
    OBVIOUS
  <2> QED BY <2>4, <2>5 DEF If
<1> HIDE DEF more, v
<1> QED BY <1>1, <1>3, <1>5, <1>6, ListGoesOn DEF v

LEMMA PipeCloses ==
  ASSUME LockInv, ClosingInv, closed, ~crossed', DoPipe
  PROVE  Listed(ToDrop', todo'["user"])
<1>1. /\ ~crossed /\ todo["user"] # <<>> /\ Head(todo["user"]).do = "pipe" /\ Then("user", <<>>)
      /\ ToDrop' = ToDrop
  BY DEF DoPipe, Doing, ToDrop
<1>2. Listed(ToDrop, todo["user"]) /\ <<>> \in Seq(CloseWork)
  BY <1>1 DEF ClosingInv
<1> QED BY <1>1, <1>2, ListGoesOn

(* Owners and events do not concern the table of paths. *)
LEMMA OwnKeepsPaths ==
  ASSUME NEW l, Sound(tb, l), NEW g, DoOwn(g)
  PROVE  tb'.path = tb.path
<1> DEFINE v == Head(todo[g])
           t == IF v.how.tree THEN addOwnerTree(tb, v.path, v.how.owners, v.dir)
                ELSE IF v.how.owners = {} THEN tb ELSE addOwners(tb, {v.path}, v.how.owners)
           t1 == IF v.how.next = "files" THEN t ELSE markSeen(t, v.path)
           t2 == addUserWatch(t1, v.path)
<1>1. tb' \in {t1, [t2 EXCEPT !.recurse = @ \cup {v.path}]}
  BY DEF DoOwn
<1>2. t.path = tb.path /\ IsTable(t)
  BY DEF addOwnerTree, addOwners, Sound, IsTable
<1> HIDE DEF t
<1>3. t1.path = tb.path /\ IsTable(t1)
  BY <1>2 DEF markSeen, IsTable
<1> HIDE DEF t1
<1>4. t2.path = tb.path /\ IsTable(t2)
  BY <1>3 DEF addUserWatch, IsTable
<1> HIDE DEF t2
<1> QED BY <1>1, <1>3, <1>4 DEF IsTable

LEMMA EventsKeepPaths ==
  ASSUME NEW l, Sound(tb, l), Read \/ Handle
  PROVE  tb'.path = tb.path
<1>1. IsTable(tb)
  BY DEF Sound
<1>2. CASE Read
  BY <1>1, <1>2 DEF Read, IsTable
<1>3. CASE Handle
  <2> DEFINE e == Head(batch)
             w == tb.wd[e.wd]
             t == IF w.skip /\ "rename" \in e.notes THEN consumeSkippedRename(tb, e.wd) ELSE tb
  <2>1. tb' = tb \/ tb' \in {t, removeRootsUnder(t, w.name)}
    BY <1>3 DEF Handle
  <2>2. t.path = tb.path /\ IsTable(t)
    BY <1>1 DEF consumeSkippedRename, IsTable
  <2> HIDE DEF t
  <2>3. removeRootsUnder(t, w.name).path = tb.path
    BY <2>2 DEF removeRootsUnder, Without, IsTable
  <2> QED BY <2>1, <2>2, <2>3
<1> QED BY <1>2, <1>3

(* Nor does an addWatchDescriptor but for its add, nor the first part of a *)
(* remove2; and a removal makes it smaller.                                *)
LEMMA LocksKeepPaths ==
  ASSUME NEW l, Sound(tb, l), LookUp("reader") \/ DoFlags("reader") \/ Shut("reader") \/ Unregister("reader")
  PROVE  DOMAIN tb'.path \subseteq DOMAIN tb.path
<1>1. IsTable(tb)
  BY DEF Sound
<1>2. CASE LookUp("reader")
  <2>1. \/ tb' = tb
        \/ \E p, fd, all : tb' = Asked(tb, fd, all) \/ tb' = Opened(tb, p, all)
    BY <1>2 DEF LookUp, Fail
  <2> QED BY <1>1, <2>1 DEF Asked, Opened, IsTable
<1>3. CASE Shut("reader")
  <2>1. tb' = tb \/ \E p, fd : tb' = Closed(tb, fd) \/ tb' = [tb EXCEPT !.seen = @ \ {p}]
    BY <1>3 DEF Shut
  <2> QED BY <1>1, <2>1 DEF Closed, IsTable
<1>4. CASE Unregister("reader")
  <2>1. tb'.path = Restrict(tb.path, DOMAIN tb.path \ {lock.path})
    BY <1>1, <1>4 DEF Unregister, remove, IsTable
  <2> QED BY <2>1 DEF Restrict
<1>5. CASE DoFlags("reader")
  <2>1. tb' = tb \/ \E p, all : tb' = updateDirFlags(tb, p, all)
    BY <1>5 DEF DoFlags
  <2> QED BY <1>1, <2>1 DEF updateDirFlags, IsTable
<1> QED BY <1>2, <1>3, <1>4, <1>5

-----------------------------------------------------------------------------
(* The inductive invariant.                                                *)
-----------------------------------------------------------------------------
LEMMA InitClosing ==
  ASSUME Init
  PROVE  LockInv /\ ClosingInv
BY DEF Init, LockInv, ClosingInv, Goroutine

LEMMA NextClosing ==
  ASSUME LockInv, ClosingInv, SoundInv, [Next]_vars
  PROVE  ClosingInv'
<1>1. \A what : Doing("reader", what) => reader # "ended"
  BY DEF Doing, ClosingInv
<1>2. CASE DoStat("user") \/ LookUp("user") \/ DoAdd("user") \/ DoFlags("user") \/ DoOwn("user") \/ DoList("user") \/ DoFinish
  <2>1. /\ todo["user"] # <<>> /\ closed' = closed /\ at' = at /\ reader' = reader /\ crossed' = crossed
        /\ \E what \in {"stat", "watch", "own", "list", "finish"} : Doing("user", what)
    BY <1>2 DEF DoStat, LookUp, DoAdd, DoFlags, DoOwn, DoList, DoFinish, TablesOnly, WorkOnly, Doing
  <2>2. \/ todo' = todo \/ \E pieces : Then("user", pieces)
        \/ \E reported : Fail("user", reported)
    BY <1>2 DEF DoStat, LookUp, DoAdd, DoFlags, DoOwn, DoList, DoFinish
  <2>3. OnlyOf("user")
    BY <2>2, OnlyOfOne DEF Goroutine
  <2>4. closed => crossed
    BY <2>1, OnlyDrops
  <2> QED BY <2>1, <2>3, <2>4, CallerClosing
<1>3. CASE Shut("user") \/ Unregister("user") \/ DoPipe
  <2>1. todo["user"] # <<>> /\ closed' = closed /\ at' = at /\ reader' = reader /\ crossed' = crossed
    BY <1>3 DEF Shut, Unregister, DoPipe, WorkOnly, Doing
  <2>2. todo' = todo \/ \E pieces : Then("user", pieces)
    BY <1>3 DEF Shut, Unregister, DoPipe
  <2>3. OnlyOf("user")
    BY <2>2, OnlyOfOne DEF Goroutine
  <2>4. closed /\ ~crossed' => Listed(ToDrop', todo'["user"])
    BY <1>3, ShutCloses, UnregisterCloses, PipeCloses
  <2> QED BY <2>1, <2>3, <2>4, CallerClosing
<1>4. CASE DoStat("reader") \/ DoList("reader") \/ DoOwn("reader")
  <2>1. /\ closed' = closed /\ at' = at /\ reader' = reader /\ crossed' = crossed /\ escaped' = escaped
        /\ reader # "ended"
    BY <1>1, <1>4 DEF DoStat, DoOwn, DoList, TablesOnly, WorkOnly
  <2>2. (\E pieces : Then("reader", pieces)) \/ \E reported : Fail("reader", reported)
    BY <1>4 DEF DoStat, DoOwn, DoList
  <2>3. OnlyOf("reader")
    BY <2>2, OnlyOfOne DEF Goroutine
  <2>4. tb' = tb \/ DoOwn("reader")
    BY <1>4 DEF DoStat, DoList, Fail
  <2>5. ~crossed => tb'.path = tb.path
    BY <2>4, OwnKeepsPaths DEF SoundInv
  <2>6. ~crossed' => ToDrop' \subseteq ToDrop
    BY <2>1, <2>5 DEF ToDrop
  <2> QED BY <2>1, <2>3, <2>6, OthersClosing
<1>5. CASE LookUp("reader") \/ DoFlags("reader") \/ Shut("reader") \/ Unregister("reader")
  <2>1. /\ closed' = closed /\ at' = at /\ reader' = reader /\ crossed' = crossed /\ escaped' = escaped
        /\ reader # "ended"
    BY <1>1, <1>5 DEF LookUp, DoFlags, Shut, Unregister, WorkOnly
  <2>2. \/ todo' = todo \/ \E pieces : Then("reader", pieces)
        \/ \E reported : Fail("reader", reported)
    BY <1>5 DEF LookUp, DoFlags, Shut, Unregister
  <2>3. OnlyOf("reader")
    BY <2>2, OnlyOfOne DEF Goroutine
  <2>4. ~crossed' => ToDrop' \subseteq ToDrop
    BY <1>5, <2>1, LocksKeepPaths DEF SoundInv, ToDrop
  <2> QED BY <2>1, <2>3, <2>4, OthersClosing
<1>6. CASE DoAdd("reader") \/ DoRebase
  <2>1. /\ closed' = closed /\ at' = at /\ reader' = reader /\ (crossed => crossed') /\ reader # "ended"
        /\ escaped => escaped'
        /\ closed /\ tb'.path # tb.path => escaped'
    <3>1. CASE DoAdd("reader")
      BY <1>1, <3>1 DEF DoAdd, WorkOnly
    <3>2. CASE DoRebase
      <4>1. reader # "ended"
        BY <1>1, <3>2 DEF DoRebase
      <4>2. /\ closed' = closed /\ at' = at /\ reader' = reader /\ (crossed => crossed')
            /\ escaped' = (escaped \/ (closed /\ tb'.path # tb.path))
        BY <3>2 DEF DoRebase, WorkOnly
      <4> QED BY <4>1, <4>2
    <3> QED BY <1>6, <3>1, <3>2
  <2>2. todo' = todo \/ \E pieces : Then("reader", pieces)
    BY <1>6 DEF DoAdd, DoRebase
  <2>3. OnlyOf("reader")
    BY <2>2, OnlyOfOne DEF Goroutine
  <2>4. closed => ToDrop' \subseteq ToDrop
    <3>1. CASE escaped'
      <4>1. ToDrop' = {}
        BY <3>1 DEF ToDrop
      <4> QED BY <4>1
    <3>2. CASE closed /\ ~escaped'
      <4>1. ~escaped /\ tb'.path = tb.path
        BY <2>1, <3>2
      <4> QED BY <3>2, <4>1 DEF ToDrop
    <3> QED BY <3>1, <3>2
  <2> QED BY <2>1, <2>3, <2>4, OthersClosing
<1>7. CASE Read \/ Handle
  <2>1. /\ closed' = closed /\ at' = at /\ crossed' = crossed /\ escaped' = escaped
        /\ todo' = todo \/ \E pieces : todo' = [todo EXCEPT !["reader"] = pieces]
        /\ (Read /\ todo' = todo /\ todo["reader"] = <<>> /\ reader' \in {reader, "ended"})
           \/ (reader' = reader /\ reader # "ended")
    BY <1>7 DEF Read, Handle, Idle
  <2>2. OnlyOf("reader")
    BY <2>1, OnlyOfOne DEF Goroutine
  <2>3. ~crossed => tb'.path = tb.path
    BY <1>7, EventsKeepPaths DEF SoundInv
  <2>4. ~crossed' => ToDrop' \subseteq ToDrop
    BY <2>1, <2>3 DEF ToDrop
  <2> QED BY <2>1, <2>2, <2>4, OthersClosing
<1>8. CASE DoEntry \/ DoAgain \/ DoScan \/ DoTrack \/ ReaderRefused \/ DoSend \/ DoCreated
  <2>1. closed' = closed /\ at' = at /\ crossed' = crossed /\ escaped' = escaped /\ tb' = tb /\ reader # "ended"
    BY <1>1, <1>8
       DEF DoEntry, DoAgain, DoScan, DoTrack, ReaderRefused, DoSend, DoCreated, TablesOnly, WorkOnly, Fail
  <2>2. reader' = reader \/ (DoSend /\ reader' = "ended" /\ todo' = [todo EXCEPT !["reader"] = <<>>])
    BY <1>8 DEF DoEntry, DoAgain, DoScan, DoTrack, ReaderRefused, DoSend, DoCreated, TablesOnly
  <2>3. \/ todo' = todo \/ \E pieces : Then("reader", pieces)
        \/ \E reported : Fail("reader", reported)
        \/ \E pieces : todo' = [todo EXCEPT !["reader"] = pieces]
    BY <1>8 DEF DoEntry, DoAgain, DoScan, DoTrack, ReaderRefused, DoSend, DoCreated
  <2>4. OnlyOf("reader")
    BY <2>3, OnlyOfOne DEF Goroutine
  <2>5. reader' = "ended" => todo'["reader"] = <<>>
    BY <2>1, <2>2 DEF LockInv, Goroutine
  <2>6. ToDrop' = ToDrop
    BY <2>1 DEF ToDrop
  <2> QED BY <2>1, <2>2, <2>4, <2>5, <2>6, OthersClosing
<1>9. ASSUME NEW c \in Closers, Close(c) \/ CloseReturn(c)
      PROVE  ClosingInv'
  <2>1. CASE Close(c)
    BY <2>1, CloseLists
  <2>2. CASE CloseReturn(c)
    <3>1. /\ tb' = tb /\ todo' = todo /\ closed' = closed /\ reader' = reader /\ escaped' = escaped
          /\ crossed' = crossed /\ Unlocked /\ reader = "ended" /\ at[c] = "wait"
          /\ at' = [at EXCEPT ![c] = "returned"]
      BY <2>2 DEF CloseReturn, CallOnly
    <3>2. at' = [d \in Closers |-> at'[d]] /\ \A d \in Closers : d # c => at'[d] = at[d]
      BY <3>1 DEF ClosingInv
    <3> QED BY <3>1, <3>2 DEF ClosingInv, Unlocked, ToDrop, Listed
  <2> QED BY <1>9, <2>1, <2>2
<1>10. ASSUME NEW p, NEW rec, AddWith(p, rec) \/ RemoveWatch(p, rec)
       PROVE  ClosingInv'
  <2>1. /\ ~closed /\ closed' = closed /\ at' = at /\ reader' = reader
        /\ \E pieces : todo' = [todo EXCEPT !["user"] = pieces]
    BY <1>10 DEF AddWith, RemoveWatch, CanCall, CallOnly
  <2>2. todo'["reader"] = todo["reader"]
    BY <2>1 DEF LockInv, Goroutine
  <2>3. \A c \in Closers : at'[c] # "returned"
    BY <2>1 DEF ClosingInv
  <2> QED BY <2>1, <2>2, <2>3 DEF ClosingInv
<1>11. CASE TreeChanges
  <2>1. /\ closed' = closed /\ at' = at /\ todo' = todo /\ reader' = reader /\ crossed' = crossed
        /\ escaped' = escaped /\ \E happened : tb' = Fire(tb, happened)
    BY <1>11 DEF TreeChanges, Happens
  <2>2. ~crossed => tb'.path = tb.path
    BY <2>1 DEF Fire, SoundInv, Sound, IsTable
  <2>3. ~crossed' => ToDrop' \subseteq ToDrop
    BY <2>1, <2>2 DEF ToDrop
  <2>4. OnlyOf("reader")
    BY <2>1, OnlyOfOne DEF Goroutine
  <2>5. reader' = "ended" => todo'["reader"] = <<>>
    BY <2>1 DEF ClosingInv
  <2> QED BY <2>1, <2>3, <2>4, <2>5, OthersClosing
<1>12. CASE UNCHANGED vars
  BY <1>12 DEF vars, ClosingInv, ToDrop, Unlocked, Listed
<1> QED
  BY <1>2, <1>3, <1>4, <1>5, <1>6, <1>7, <1>8, <1>9, <1>10, <1>11, <1>12 DEF Next, Work, User, Reader, Goroutine

(* Whatever callers, readEvents and other processes do: when a Close       *)
(* returns no descriptor is open, unless readEvents has opened one, or     *)
(* given what is watched another name, after Close had listed the paths,   *)
(* or changed what a path leads to while a caller was between byPath and   *)
(* add or remove for it (backend_kqueue.go: Close 561-574, remove2         *)
(* 723-754, addWatchDescriptor 793-882, sendCreateIfNew 1117-1171).  It    *)
(* can do all three: see README.                                           *)
THEOREM ReleasedUnlessEscaped == Spec => []ClosedReleasesAll
<1>1. Init => SoundInv /\ LockInv /\ ClosingInv
  BY InitSound, InitClosing
<1>2. SoundInv /\ LockInv /\ ClosingInv /\ [Next]_vars => SoundInv' /\ LockInv' /\ ClosingInv'
  BY NextSound, NextLock, NextClosing
<1>3. SoundInv /\ LockInv /\ ClosingInv => ClosedReleasesAll
  <2> SUFFICES ASSUME SoundInv, LockInv, ClosingInv, ~escaped, ~crossed, NEW c \in Closers, at[c] = "returned"
               PROVE  DOMAIN tb.open = {}
    BY DEF ClosedReleasesAll
  <2>1. closed /\ todo["user"] = <<>> /\ todo["reader"] = <<>> /\ Sound(tb, lock)
    BY DEF ClosingInv, Unlocked, SoundInv
  <2>2. lock = Unheld
    BY <2>1 DEF LockInv, Goroutine
  <2>3. DOMAIN tb.path = {}
    BY <2>1 DEF ClosingInv, Listed, ToDrop
  <2>4. DOMAIN tb.wd = {}
    BY <2>1, <2>3 DEF Sound, Paired
  <2> QED BY <2>1, <2>2, <2>4 DEF Sound, Held, Unheld, Holds
<1> QED BY <1>1, <1>2, <1>3, PTL DEF Spec
=============================================================================
