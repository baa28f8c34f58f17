------------------------------ MODULE FenProofs ------------------------------
(***************************************************************************)
(* Five results about the FEN backend, whatever users, other processes,    *)
(* the consumer and the order of the steps are: a watch is never deaf,     *)
(* nothing happens to a port that is closed, and, unless an event strands  *)
(* a path or a user, owners and scans are those the users asked for, and a *)
(* call that fails leaves the tables as they were.                         *)
(***************************************************************************)
EXTENDS FenProps, FileTreeProofs

-----------------------------------------------------------------------------
(* What the proofs need to know of the state.                              *)
-----------------------------------------------------------------------------
IsEvent(e) == e \in [path : {e.path}, act : {e.act}, dir : {e.dir}, held : {e.held}]

IsQueue(q) == q \in Seq(Range(q)) /\ \A k \in DOMAIN q : IsEvent(q[k])

IsTable(t) ==
  t \in [dirs : {t.dirs}, watches : {t.watches}, byUser : {t.byUser}, recurse : {t.recurse},
         owners : {t.owners}, info : {t.info}, renames : {t.renames}, renameIndex : {t.renameIndex},
         assoc : {t.assoc}, queue : {t.queue}]

Sound(t) == IsTable(t) /\ IsQueue(t.queue) /\ IsFiniteSet(DOMAIN t.assoc)

PathsOf(q) == {q[k].path : k \in DOMAIN q}

(* The paths that can still have an event. *)
Alive(t) == DOMAIN t.assoc \cup PathsOf(t.queue)

(* The paths that are owned, and never hear of a change again. *)
Deaf(t) == DOMAIN t.owners \ Alive(t)

-----------------------------------------------------------------------------
(* Queues of events.                                                       *)
-----------------------------------------------------------------------------
LEMMA QueueOver ==
  ASSUME NEW S, NEW q \in Seq(S), \A e \in S : IsEvent(e)
  PROVE  IsQueue(q)
<1>1. Len(q) \in Nat /\ q \in [1..Len(q) -> S] /\ DOMAIN q = 1..Len(q)
  BY LenProperties
<1>2. \A k \in 1..Len(q) : q[k] \in Range(q) /\ IsEvent(q[k])
  BY <1>1 DEF Range
<1>3. q \in Seq(Range(q))
  BY <1>1, <1>2
<1> QED BY <1>1, <1>2, <1>3 DEF IsQueue

LEMMA FunctionQueue ==
  ASSUME NEW n \in Nat, NEW S, NEW q \in [1..n -> S], \A k \in 1..n : IsEvent(q[k])
  PROVE  IsQueue(q)
<1>1. DOMAIN q = 1..n /\ \A k \in 1..n : q[k] \in Range(q)
  BY DEF Range
<1>2. q \in [1..n -> Range(q)]
  BY <1>1
<1>3. q \in Seq(Range(q))
  BY <1>2
<1> QED BY <1>1, <1>3 DEF IsQueue

LEMMA QueueIs ==
  ASSUME NEW q, IsQueue(q)
  PROVE  /\ q \in Seq(Range(q)) /\ \A e \in Range(q) : IsEvent(e)
         /\ Len(q) \in Nat /\ DOMAIN q = 1..Len(q)
BY LenProperties DEF IsQueue, Range

LEMMA ConcatQueue ==
  ASSUME NEW a, NEW b, IsQueue(a), IsQueue(b)
  PROVE  IsQueue(a \o b) /\ PathsOf(a \o b) = PathsOf(a) \cup PathsOf(b)
<1> DEFINE S == Range(a) \cup Range(b)
<1>1. a \in Seq(S) /\ b \in Seq(S) /\ \A e \in S : IsEvent(e)
  BY QueueIs, SeqMonotonic
<1>2. Len(a) \in Nat /\ Len(b) \in Nat /\ DOMAIN a = 1..Len(a) /\ DOMAIN b = 1..Len(b)
  BY QueueIs
<1>3. /\ a \o b \in Seq(S) /\ Len(a \o b) = Len(a) + Len(b)
      /\ \A i \in 1..Len(a) + Len(b) : (a \o b)[i] = IF i <= Len(a) THEN a[i] ELSE b[i - Len(a)]
  BY <1>1, ConcatProperties
<1>4. DOMAIN (a \o b) = 1..(Len(a) + Len(b))
  BY <1>3, LenProperties
<1>5. IsQueue(a \o b)
  BY <1>1, <1>3, QueueOver
<1>6. \A i \in 1..Len(a) : (a \o b)[i] = a[i]
  BY <1>2, <1>3
<1>7. \A i \in 1..Len(b) : Len(a) + i \in 1..(Len(a) + Len(b)) /\ (a \o b)[Len(a) + i] = b[i]
  BY <1>2, <1>3
<1>8. \A i \in 1..(Len(a) + Len(b)) : i \in 1..Len(a) \/ \E j \in 1..Len(b) : i = Len(a) + j
  <2> SUFFICES ASSUME NEW i \in 1..(Len(a) + Len(b)), i \notin 1..Len(a)
               PROVE  \E j \in 1..Len(b) : i = Len(a) + j
    OBVIOUS
  <2>1. i - Len(a) \in 1..Len(b) /\ i = Len(a) + (i - Len(a))
    BY <1>2
  <2> QED BY <2>1
<1> DEFINE c == a \o b
<1>9. /\ DOMAIN c = 1..(Len(a) + Len(b))
      /\ \A i \in 1..Len(a) : i \in DOMAIN c /\ c[i] = a[i]
      /\ \A i \in 1..Len(b) : Len(a) + i \in DOMAIN c /\ c[Len(a) + i] = b[i]
      /\ \A i \in DOMAIN c : i \in 1..Len(a) \/ \E j \in 1..Len(b) : i = Len(a) + j
  BY <1>2, <1>4, <1>6, <1>7, <1>8
<1> HIDE DEF c
<1>10. \A i \in DOMAIN a : \E j \in DOMAIN c : c[j] = a[i]
  BY <1>2, <1>9
<1>11. \A i \in DOMAIN b : \E j \in DOMAIN c : c[j] = b[i]
  BY <1>2, <1>9
<1>12. \A j \in DOMAIN c : (\E i \in DOMAIN a : c[j] = a[i]) \/ (\E i \in DOMAIN b : c[j] = b[i])
  BY <1>2, <1>9
<1>13. PathsOf(c) = PathsOf(a) \cup PathsOf(b)
  BY <1>10, <1>11, <1>12 DEF PathsOf
<1> QED BY <1>5, <1>13 DEF c

LEMMA OneEvent ==
  ASSUME NEW e, IsEvent(e)
  PROVE  IsQueue(<<e>>) /\ PathsOf(<<e>>) = {e.path}
<1> DEFINE S == {e}
           q == <<e>>
<1>1. q \in Seq(S) /\ DOMAIN q = {1} /\ q[1] = e
  OBVIOUS
<1>2. \A x \in S : IsEvent(x)
  OBVIOUS
<1>3. PathsOf(q) = {e.path}
  BY DEF PathsOf
<1> HIDE DEF S, q
<1>4. IsQueue(q)
  BY <1>1, <1>2, QueueOver
<1> QED BY <1>3, <1>4 DEF q

LEMMA AppendEvent ==
  ASSUME NEW q, NEW e, IsQueue(q), IsEvent(e)
  PROVE  IsQueue(Append(q, e)) /\ PathsOf(Append(q, e)) = PathsOf(q) \cup {e.path}
<1>1. Append(q, e) = q \o <<e>>
  <2> DEFINE S == Range(q) \cup {e}
  <2>1. q \in Seq(S)
    BY QueueIs, SeqMonotonic
  <2> QED BY <2>1, AppendIsConcat
<1> QED BY <1>1, OneEvent, ConcatQueue

LEMMA SplitQueue ==
  ASSUME NEW q, NEW n \in Nat, IsQueue(q), n <= Len(q)
  PROVE  /\ IsQueue(SubSeq(q, 1, n)) /\ IsQueue(SubSeq(q, n + 1, Len(q)))
         /\ PathsOf(q) = PathsOf(SubSeq(q, 1, n)) \cup PathsOf(SubSeq(q, n + 1, Len(q)))
<1> DEFINE a == SubSeq(q, 1, n)
           b == SubSeq(q, n + 1, Len(q))
<1>1. q \in Seq(Range(q)) /\ Len(q) \in Nat /\ \A k \in 1..Len(q) : q[k] \in Range(q)
  BY QueueIs, ElementOfSeq
<1>2. a \in Seq(Range(q)) /\ b \in Seq(Range(q))
  BY <1>1, SubSeqProperties
<1>3. IsQueue(a) /\ IsQueue(b)
  BY <1>2, QueueIs, QueueOver
<1>4. q = a \o b
  <2>1. 1 \in 1..Len(q) + 1 /\ n \in (1 - 1)..Len(q) /\ Len(q) \in n..Len(q)
    BY <1>1
  <2>2. a \o b = SubSeq(q, 1, Len(q))
    BY <1>1, <2>1, ConcatAdjacentSubSeq
  <2> QED BY <1>1, <2>2, SubSeqFull
<1>5. PathsOf(q) = PathsOf(a) \cup PathsOf(b)
  BY <1>3, <1>4, ConcatQueue
<1> QED BY <1>3, <1>5

LEMMA HeadOfQueue ==
  ASSUME NEW q, IsQueue(q), q # <<>>
  PROVE  /\ IsQueue(Tail(q)) /\ IsEvent(Head(q))
         /\ PathsOf(q) \subseteq PathsOf(Tail(q)) \cup {Head(q).path}
<1>1. q \in Seq(Range(q)) /\ Head(q) \in Range(q) /\ Tail(q) \in Seq(Range(q))
      /\ q = <<Head(q)>> \o Tail(q)
  BY QueueIs, HeadTailProperties
<1>2. IsEvent(Head(q)) /\ IsQueue(Tail(q))
  BY <1>1, QueueIs, QueueOver
<1>3. PathsOf(<<Head(q)>> \o Tail(q)) = {Head(q).path} \cup PathsOf(Tail(q))
  BY <1>2, OneEvent, ConcatQueue
<1> QED BY <1>1, <1>2, <1>3

-----------------------------------------------------------------------------
(* The port.                                                               *)
-----------------------------------------------------------------------------
LEMMA FireSound ==
  ASSUME NEW t, NEW os, NEW act, Sound(t)
  PROVE  /\ Sound(Fire(t, os, act))
         /\ Fire(t, os, act).owners = t.owners
         /\ Alive(t) \subseteq Alive(Fire(t, os, act))
<1> DEFINE ps == {p \in DOMAIN t.assoc : t.assoc[p].obj \in os}
           fired == SetToSeq(ps)
           q == [k \in DOMAIN fired |-> Event(fired[k], act, t.assoc[fired[k]].dir)]
           r == Fire(t, os, act)
<1>1. IsFiniteSet(ps)
  BY FS_Subset DEF Sound
<1>2. /\ fired \in Seq(ps) /\ \A x \in ps : \E k \in DOMAIN fired : fired[k] = x
  BY <1>1, SetToSeqCovers
<1>3. Len(fired) \in Nat /\ DOMAIN fired = 1..Len(fired)
  BY <1>2, LenProperties
<1>4. /\ r.assoc = Restrict(t.assoc, DOMAIN t.assoc \ ps)
      /\ r.queue = t.queue \o q
      /\ r.owners = t.owners
      /\ IsTable(r)
  BY DEF Sound, IsTable, Fire
<1> HIDE DEF r
<1>5. /\ q \in [1..Len(fired) -> {Event(fired[k], act, t.assoc[fired[k]].dir) : k \in 1..Len(fired)}]
      /\ \A k \in 1..Len(fired) : q[k] = Event(fired[k], act, t.assoc[fired[k]].dir)
  BY <1>3
<1> HIDE DEF q, fired
<1>6. \A k \in 1..Len(fired) : IsEvent(q[k]) /\ q[k].path = fired[k]
  BY <1>5 DEF Event, IsEvent
<1>7. DOMAIN q = 1..Len(fired) /\ ps \subseteq PathsOf(q)
  BY <1>2, <1>3, <1>5, <1>6 DEF PathsOf
<1>8. IsQueue(q)
  BY <1>3, <1>5, <1>6, FunctionQueue
<1>9. IsQueue(r.queue) /\ PathsOf(r.queue) = PathsOf(t.queue) \cup PathsOf(q)
  BY <1>4, <1>8, ConcatQueue DEF Sound
<1>10. DOMAIN r.assoc = DOMAIN t.assoc \ ps
  BY <1>4 DEF Restrict
<1>11. IsFiniteSet(DOMAIN r.assoc)
  BY <1>10, FS_Subset DEF Sound
<1>12. Sound(r)
  BY <1>4, <1>9, <1>11 DEF Sound
<1>13. Alive(t) \subseteq Alive(r)
  BY <1>7, <1>9, <1>10 DEF Alive
<1> QED BY <1>4, <1>12, <1>13 DEF r

LEMMA DissociateSound ==
  ASSUME NEW t, NEW ps, Sound(t)
  PROVE  LET r == dissociate(t, ps)
         IN  /\ Sound(r) /\ r.owners = t.owners
             /\ DOMAIN r.assoc = DOMAIN t.assoc \ ps /\ PathsOf(r.queue) = PathsOf(t.queue)
<1> DEFINE r == dissociate(t, ps)
           old == t.queue
           Un(e) == IF e.path \in ps THEN [e EXCEPT !.held = FALSE] ELSE e
           new == [k \in DOMAIN old |-> Un(old[k])]
<1>1. IsQueue(old)
  BY DEF Sound
<1>2. Len(old) \in Nat /\ DOMAIN old = 1..Len(old) /\ \A k \in 1..Len(old) : IsEvent(old[k])
  BY <1>1, QueueIs DEF IsQueue
<1>3. \A e : IsEvent(e) => IsEvent(Un(e)) /\ Un(e).path = e.path
  BY DEF IsEvent
<1>4. /\ r.assoc = Restrict(t.assoc, DOMAIN t.assoc \ ps) /\ r.queue = new
      /\ r.owners = t.owners /\ IsTable(r)
  BY DEF Sound, IsTable, dissociate
<1> HIDE DEF r, old, Un
<1>5. new \in [1..Len(old) -> {Un(old[k]) : k \in 1..Len(old)}]
      /\ \A k \in 1..Len(old) : new[k] = Un(old[k])
  BY <1>2
<1> HIDE DEF new
<1>6. \A k \in 1..Len(old) : IsEvent(new[k]) /\ new[k].path = old[k].path
  BY <1>2, <1>3, <1>5
<1>7. IsQueue(new)
  BY <1>2, <1>5, <1>6, FunctionQueue
<1>8. DOMAIN new = 1..Len(old)
  BY <1>5
<1>9. PathsOf(new) = PathsOf(old)
  BY <1>2, <1>6, <1>8 DEF PathsOf
<1>10. DOMAIN r.assoc = DOMAIN t.assoc \ ps
  BY <1>4 DEF Restrict
<1>11. IsFiniteSet(DOMAIN r.assoc)
  BY <1>10, FS_Subset DEF Sound
<1> QED BY <1>4, <1>7, <1>9, <1>10, <1>11 DEF Sound, r, old

LEMMA AssociateSound ==
  ASSUME NEW t, NEW p, NEW stat, Sound(t)
  PROVE  LET r == associateFileLocked(t, p, stat)
         IN  Sound(r) /\ r.owners = t.owners /\ Deaf(r) \subseteq Deaf(t) /\ p \in Alive(r)
<1> DEFINE r == associateFileLocked(t, p, stat)
           d == dissociate(t, {p})
           now == [obj |-> fs[p], dir |-> stat.obj.dir]
           e == Event(p, "modified", stat.obj.dir)
<1>1. /\ Sound(d) /\ d.owners = t.owners
      /\ DOMAIN d.assoc = DOMAIN t.assoc \ {p} /\ PathsOf(d.queue) = PathsOf(t.queue)
  BY DissociateSound
<1> HIDE DEF d
<1>2. r = [d EXCEPT !.queue = Append(@, e)] \/ r = [d EXCEPT !.assoc = Assign(@, p, now)]
  BY DEF associateFileLocked, d
<1> HIDE DEF r, now, e
<1>3. CASE r = [d EXCEPT !.queue = Append(@, e)]
  <2>1. IsEvent(e) /\ e.path = p
    BY DEF e, Event, IsEvent
  <2>2. r.queue = Append(d.queue, e) /\ r.assoc = d.assoc /\ r.owners = d.owners /\ IsTable(r)
    BY <1>1, <1>3 DEF Sound, IsTable
  <2>3. IsQueue(r.queue) /\ PathsOf(r.queue) = PathsOf(d.queue) \cup {p}
    BY <1>1, <2>1, <2>2, AppendEvent DEF Sound
  <2>4. Sound(r) /\ Deaf(r) \subseteq Deaf(t) /\ p \in Alive(r)
    BY <1>1, <2>2, <2>3 DEF Sound, Deaf, Alive
  <2> QED BY <1>1, <2>2, <2>4 DEF r
<1>4. CASE r = [d EXCEPT !.assoc = Assign(@, p, now)]
  <2>1. r.queue = d.queue /\ r.assoc = Assign(d.assoc, p, now) /\ r.owners = d.owners /\ IsTable(r)
    BY <1>1, <1>4 DEF Sound, IsTable
  <2>3. DOMAIN r.assoc = DOMAIN d.assoc \cup {p}
    BY <2>1 DEF Assign
  <2>4. IsFiniteSet(DOMAIN r.assoc)
    BY <1>1, <2>3, FS_AddElement DEF Sound
  <2>5. Sound(r) /\ Deaf(r) \subseteq Deaf(t) /\ p \in Alive(r)
    BY <1>1, <2>1, <2>3, <2>4 DEF Sound, Deaf, Alive
  <2> QED BY <1>1, <2>1, <2>5 DEF r
<1> QED BY <1>2, <1>3, <1>4

-----------------------------------------------------------------------------
(* The tables.                                                             *)
-----------------------------------------------------------------------------
LEMMA AssociateOwnedSound ==
  ASSUME NEW t, NEW p, NEW stat, NEW owners, NEW scan, Sound(t)
  PROVE  LET r == associateOwned(t, p, stat, owners, scan)
         IN  Sound(r) /\ Deaf(r) \subseteq Deaf(t)
<1> DEFINE r == associateOwned(t, p, stat, owners, scan)
           t1 == associateFileLocked(t, p, stat)
           t2 == IF stat.obj.dir THEN [t1 EXCEPT !.info = Assign(@, p, stat.obj)] ELSE t1
           now == OwnersOf(t, p) \cup owners
<1>1. Sound(t1) /\ t1.owners = t.owners /\ Deaf(t1) \subseteq Deaf(t) /\ p \in Alive(t1)
  BY AssociateSound
<1>2. r = [t2 EXCEPT !.dirs = IF stat.obj.dir /\ scan THEN @ \cup {p} ELSE @, !.owners = Assign(@, p, now)]
  BY DEF associateOwned
<1> HIDE DEF t1, r, now
<1>3. t2.assoc = t1.assoc /\ t2.queue = t1.queue /\ t2.owners = t1.owners /\ IsTable(t2)
  BY <1>1 DEF Sound, IsTable
<1> HIDE DEF t2
<1>4. r.assoc = t2.assoc /\ r.queue = t2.queue /\ r.owners = Assign(t2.owners, p, now) /\ IsTable(r)
  BY <1>2, <1>3 DEF IsTable
<1>5. DOMAIN r.owners = DOMAIN t1.owners \cup {p}
  BY <1>3, <1>4 DEF Assign
<1> QED BY <1>1, <1>3, <1>4, <1>5 DEF Sound, Deaf, Alive, r

LEMMA ForgetSound ==
  ASSUME NEW t, NEW ps, NEW gone \in SUBSET ps, Sound(t)
  PROVE  LET r == Forget(t, ps, gone)
         IN  Sound(r) /\ Deaf(r) \subseteq Deaf(t) \ ps
<1> DEFINE r == Forget(t, ps, gone)
           d == [t EXCEPT !.dirs = @ \ ps, !.watches = @ \ ps,
                          !.owners = Restrict(@, DOMAIN @ \ ps), !.info = Restrict(@, DOMAIN @ \ ps)]
<1>1. /\ d.assoc = t.assoc /\ d.queue = t.queue /\ IsTable(d)
      /\ d.owners = Restrict(t.owners, DOMAIN t.owners \ ps)
  BY DEF Sound, IsTable
<1>2. r = dissociate(d, gone)
  BY DEF Forget
<1> HIDE DEF d, r
<1>3. Sound(d) /\ DOMAIN d.owners = DOMAIN t.owners \ ps
  BY <1>1 DEF Sound, Restrict
<1>4. /\ Sound(r) /\ r.owners = d.owners
      /\ DOMAIN r.assoc = DOMAIN d.assoc \ gone /\ PathsOf(r.queue) = PathsOf(d.queue)
  BY <1>2, <1>3, DissociateSound
<1>5. Deaf(r) \subseteq Deaf(t) \ ps
  BY <1>1, <1>3, <1>4 DEF Deaf, Alive
<1> QED BY <1>4, <1>5 DEF r

(* Steps that leave port and owners alone. *)
LEMMA SameIsSound ==
  ASSUME NEW t, NEW r, Sound(t), IsTable(r),
         r.assoc = t.assoc, r.queue = t.queue, DOMAIN r.owners = DOMAIN t.owners
  PROVE  Sound(r) /\ Deaf(r) = Deaf(t)
BY DEF Sound, Deaf, Alive

LEMMA ReleaseOwnerSound ==
  ASSUME NEW t, NEW u, Sound(t)
  PROVE  LET r == releaseOwner(t, u)
         IN  Sound(r) /\ Deaf(r) \subseteq Deaf(t)
<1> DEFINE r == releaseOwner(t, u)
           t1 == [t EXCEPT !.byUser = @ \ {u}, !.recurse = @ \ {u}, !.watches = @ \ {u},
                           !.owners = [p \in DOMAIN @ |-> @[p] \ {u}]]
           unused == {p \in DOMAIN t1.owners : t1.owners[p] = {}}
           t2 == [t1 EXCEPT !.dirs = {p \in @ : p \in DOMAIN t1.owners => directoryNeedsScan(t1, p)}]
<1>1. /\ t1.assoc = t.assoc /\ t1.queue = t.queue /\ IsTable(t1)
      /\ t1.owners = [p \in DOMAIN t.owners |-> t.owners[p] \ {u}]
  BY DEF Sound, IsTable
<1>2. r = Forget(t2, unused, unused)
  BY DEF releaseOwner
<1> HIDE DEF t1, r
<1>3. t2.assoc = t1.assoc /\ t2.queue = t1.queue /\ IsTable(t2) /\ t2.owners = t1.owners
  BY <1>1 DEF IsTable
<1> HIDE DEF t2, unused
<1>4. DOMAIN t2.owners = DOMAIN t.owners
  BY <1>1, <1>3
<1>5. Sound(t2) /\ Deaf(t2) = Deaf(t)
  BY <1>1, <1>3, <1>4, SameIsSound
<1>6. Sound(r) /\ Deaf(r) \subseteq Deaf(t2) \ unused
  BY <1>2, <1>5, ForgetSound
<1> QED BY <1>5, <1>6 DEF r

LEMMA DropPhysicalSound ==
  ASSUME NEW t, NEW p, NEW tree, Sound(t)
  PROVE  LET r == dropPhysical(t, p, tree)
         IN  Sound(r) /\ Deaf(r) \subseteq Deaf(t) \ {p}
<1> DEFINE r == dropPhysical(t, p, tree)
           Hit(q) == q = p \/ (tree /\ Under(q, p))
           ps == {q \in DOMAIN t.owners : Hit(q)}
           t1 == Forget(t, ps, ps \ {p})
<1>1. Sound(t1) /\ Deaf(t1) \subseteq Deaf(t) \ ps
  BY ForgetSound
<1>2. r = [t1 EXCEPT !.byUser = {u \in @ : ~Hit(u)}, !.recurse = {u \in @ : ~Hit(u)}]
  BY DEF dropPhysical
<1>3. Deaf(t) \ ps \subseteq Deaf(t) \ {p}
  BY DEF Deaf
<1> HIDE DEF t1, r, ps
<1>4. r.assoc = t1.assoc /\ r.queue = t1.queue /\ IsTable(r) /\ r.owners = t1.owners
  BY <1>1, <1>2 DEF Sound, IsTable
<1>5. Sound(r) /\ Deaf(r) = Deaf(t1)
  BY <1>1, <1>4, SameIsSound
<1> QED BY <1>1, <1>3, <1>5 DEF r

(* The ring of renames, and what a user is given, are no part of it. *)
LEMMA RingSound ==
  ASSUME NEW t, NEW p, NEW o, Sound(t)
  PROVE  /\ Sound(rememberRename(t, p)) /\ Deaf(rememberRename(t, p)) = Deaf(t)
         /\ Sound(takeRename(t, o)) /\ Deaf(takeRename(t, o)) = Deaf(t)
<1> DEFINE a == rememberRename(t, p)
           b == takeRename(t, o)
<1>1. a.assoc = t.assoc /\ a.queue = t.queue /\ a.owners = t.owners /\ IsTable(a)
  BY DEF rememberRename, Sound, IsTable
<1>2. b.assoc = t.assoc /\ b.queue = t.queue /\ b.owners = t.owners /\ IsTable(b)
  BY DEF takeRename, Sound, IsTable
<1> HIDE DEF a, b
<1>3. Sound(a) /\ Deaf(a) = Deaf(t) /\ Sound(b) /\ Deaf(b) = Deaf(t)
  BY <1>1, <1>2, SameIsSound
<1> QED BY <1>3 DEF a, b

LEMMA AddUserWatchSound ==
  ASSUME NEW t, NEW p, NEW recursive, Sound(t)
  PROVE  LET r == addUserWatch(t, p, recursive)
         IN  Sound(r) /\ Deaf(r) = Deaf(t)
<1> DEFINE r == addUserWatch(t, p, recursive)
<1>1. r.assoc = t.assoc /\ r.queue = t.queue /\ r.owners = t.owners /\ IsTable(r)
  BY DEF addUserWatch, Sound, IsTable
<1> HIDE DEF r
<1>2. Sound(r) /\ Deaf(r) = Deaf(t)
  BY <1>1, SameIsSound
<1> QED BY <1>2 DEF r

-----------------------------------------------------------------------------
(* A watch is never deaf.                                                  *)
-----------------------------------------------------------------------------
(* NeverDeaf says something of the moments at which the mutex is free and  *)
(* the watcher is open; what is inductive needs no mutex.                  *)
Hears(t, q, over) == Sound(t) /\ IsQueue(q) /\ (~over => Deaf(t) \subseteq PathsOf(q))
HearsInv == Hears(tb, batch, closed)

(* What most steps do to the tables. *)
Keeps(t, r) == Sound(r) /\ Deaf(r) \subseteq Deaf(t)

LEMMA HearsStep ==
  ASSUME HearsInv, Keeps(tb, tb'), batch' = batch, closed => closed'
  PROVE  HearsInv'
<1>1. Hears(tb', batch', closed')
  BY DEF HearsInv, Hears, Keeps
<1> QED BY <1>1 DEF HearsInv

LEMMA SameKeeps ==
  ASSUME NEW t, Sound(t)
  PROVE  Keeps(t, t)
BY DEF Keeps

LEMMA HearsSound ==
  ASSUME HearsInv
  PROVE  Sound(tb) /\ Keeps(tb, tb)
BY DEF HearsInv, Hears, Keeps

LEMMA CallHears ==
  ASSUME HearsInv, NEW p, NEW rec, AddWith(p, rec) \/ RemoveWatch(p, rec)
  PROVE  HearsInv'
<1>1. Keeps(tb, tb')
  <2>1. CASE AddWith(p, rec)
    BY <2>1, HearsSound DEF AddWith
  <2>2. CASE RemoveWatch(p, rec)
    BY <2>2, HearsSound, ReleaseOwnerSound DEF RemoveWatch, Keeps
  <2> QED BY <2>1, <2>2
<1> QED BY <1>1, HearsStep DEF AddWith, RemoveWatch, CallOnly

LEMMA CloseHears ==
  ASSUME HearsInv, NEW c, CloseFlag(c) \/ ClosePort(c) \/ CloseReturn(c), at[c] = "lock" => closed
  PROVE  HearsInv'
<1>1. CASE CloseFlag(c)
  BY <1>1, HearsSound, HearsStep DEF CloseFlag
<1>2. CASE CloseReturn(c)
  BY <1>2, HearsSound, HearsStep DEF CloseReturn
<1>3. CASE ClosePort(c)
  <2> DEFINE r == [tb EXCEPT !.assoc = <<>>, !.queue = <<>>]
  <2>1. Sound(tb) /\ IsQueue(batch) /\ closed
    BY <1>3 DEF ClosePort, HearsInv, Hears
  <2>2. r.assoc = <<>> /\ r.queue = <<>> /\ IsTable(r)
    BY <2>1 DEF Sound, IsTable
  <2> HIDE DEF r
  <2>3. IsQueue(<<>>)
    BY FunctionQueue DEF IsQueue
  <2>4. IsFiniteSet(DOMAIN r.assoc)
    <3>1. DOMAIN r.assoc = {}
      BY <2>2
    <3> QED BY <3>1, FS_EmptySet
  <2>5. Hears(r, batch, closed)
    BY <2>1, <2>2, <2>3, <2>4 DEF Hears, Sound
  <2>6. tb' = r /\ batch' = batch /\ closed' = closed
    BY <1>3 DEF ClosePort, r
  <2> QED BY <2>5, <2>6 DEF HearsInv
<1> QED BY <1>1, <1>2, <1>3

LEMMA ErrorKeeps ==
  ASSUME Sound(tb), Error
  PROVE  Keeps(tb, tb')
BY ReleaseOwnerSound DEF Error, Keeps

LEMMA HolderHears ==
  ASSUME HearsInv, Holder
  PROVE  HearsInv'
<1>1. Sound(tb) /\ Keeps(tb, tb)
  BY HearsSound
<1>2. CASE DoVisit
  BY <1>1, <1>2, ErrorKeeps, AssociateOwnedSound, HearsStep DEF DoVisit, HolderOnly, Keeps
<1>3. CASE DoRoot
  BY <1>1, <1>3, ErrorKeeps, AssociateOwnedSound, HearsStep DEF DoRoot, HolderOnly, Keeps
<1>4. CASE DoList
  BY <1>1, <1>4, ErrorKeeps, HearsStep DEF DoList, HolderOnly
<1>5. CASE DoChildren
  BY <1>1, <1>5, ErrorKeeps, HearsStep DEF DoChildren, HolderOnly
<1>6. CASE DoFinish
  BY <1>1, <1>6, AddUserWatchSound, HearsStep DEF DoFinish, HolderOnly, Keeps
<1>7. CASE DoScan \/ DoUnlock
  BY <1>1, <1>7, HearsStep DEF DoScan, DoUnlock, HolderOnly
<1>8. CASE DoEntry
  <2>1. \/ tb' = tb
        \/ \E o : tb' = takeRename(tb, o)
        \/ \E p, stat, owners : tb' = associateOwned(tb, p, stat, owners, FALSE)
    BY <1>8 DEF DoEntry
  <2>2. Keeps(tb, tb')
    <3>1. CASE tb' = tb
      BY <1>1, <3>1
    <3>2. CASE \E o : tb' = takeRename(tb, o)
      BY <1>1, <3>2, RingSound DEF Keeps
    <3>3. CASE \E p, stat, owners : tb' = associateOwned(tb, p, stat, owners, FALSE)
      BY <1>1, <3>3, AssociateOwnedSound DEF Keeps
    <3> QED BY <2>1, <3>1, <3>2, <3>3
  <2> QED BY <1>8, <2>2, HearsStep DEF DoEntry, HolderOnly
<1> QED BY <1>2, <1>3, <1>4, <1>5, <1>6, <1>7, <1>8 DEF Holder

LEMMA GetHears ==
  ASSUME HearsInv, Get
  PROVE  HearsInv'
<1>1. Sound(tb) /\ Keeps(tb, tb)
  BY HearsSound
<1>2. CASE port = "closed"
  BY <1>1, <1>2, HearsStep DEF Get
<1>3. CASE port # "closed"
  <2> DEFINE n == IF Len(tb.queue) < BatchLen THEN Len(tb.queue) ELSE BatchLen
             first == SubSeq(tb.queue, 1, n)
             rest == SubSeq(tb.queue, n + 1, Len(tb.queue))
             r == [tb EXCEPT !.queue = rest]
  <2>1. batch = <<>> /\ batch' = first /\ tb' = r /\ closed' = closed
    BY <1>3 DEF Get
  <2>2. IsQueue(tb.queue) /\ Len(tb.queue) \in Nat
    BY <1>1, QueueIs DEF Sound
  <2>3. n \in Nat /\ n <= Len(tb.queue)
    BY <2>2, FenAssumption
  <2> HIDE DEF n
  <2>4. IsQueue(first) /\ IsQueue(rest) /\ PathsOf(tb.queue) = PathsOf(first) \cup PathsOf(rest)
    BY <2>2, <2>3, SplitQueue
  <2>5. r.queue = rest /\ r.assoc = tb.assoc /\ r.owners = tb.owners /\ IsTable(r)
    BY <1>1 DEF Sound, IsTable
  <2> HIDE DEF r, first, rest
  <2>6. ~closed => Deaf(tb) = {}
    BY <2>1 DEF HearsInv, Hears, PathsOf
  <2>7. Deaf(r) \subseteq Deaf(tb) \cup PathsOf(first)
    BY <2>4, <2>5 DEF Deaf, Alive
  <2>8. Hears(r, first, closed)
    BY <1>1, <2>4, <2>5, <2>6, <2>7 DEF Hears, Sound
  <2> QED BY <2>1, <2>8 DEF HearsInv
<1> QED BY <1>2, <1>3

LEMMA HandleHears ==
  ASSUME HearsInv, Handle
  PROVE  HearsInv'
<1> DEFINE e == Head(batch)
<1>1. Sound(tb) /\ IsQueue(batch) /\ batch # <<>> /\ (~closed => Deaf(tb) \subseteq PathsOf(batch))
  BY DEF HearsInv, Hears, Handle
<1>2. IsQueue(Tail(batch)) /\ PathsOf(batch) \subseteq PathsOf(Tail(batch)) \cup {e.path}
  BY <1>1, HeadOfQueue
<1>3. batch' = Tail(batch) /\ closed' = closed
  BY DEF Handle
<1> HIDE DEF e
<1>4. Sound(tb') /\ (~closed => Deaf(tb') \subseteq Deaf(tb) \ {e.path})
  <2>1. CASE closed \/ e.path \notin DOMAIN tb.owners
    <3>1. tb' = tb
      BY <2>1 DEF Handle, e
    <3> QED BY <1>1, <2>1, <3>1 DEF Deaf
  <2>2. CASE ~closed /\ e.path \in DOMAIN tb.owners
    <3> DEFINE t == IF e.act = "rename from" /\ e.dir THEN rememberRename(tb, e.path) ELSE tb
    <3>1. \/ tb' = dropPhysical(t, e.path, e.act # "delete" /\ e.dir)
          \/ tb' = dropPhysical(tb, e.path, FALSE)
          \/ tb' = associateFileLocked(tb, e.path, StatOf(e.path))
      BY <2>2 DEF Handle, e
    <3>2. Sound(t) /\ Deaf(t) = Deaf(tb)
      BY <1>1, RingSound
    <3> HIDE DEF t
    <3>3. CASE tb' = dropPhysical(t, e.path, e.act # "delete" /\ e.dir)
      BY <3>2, <3>3, DropPhysicalSound
    <3>4. CASE tb' = dropPhysical(tb, e.path, FALSE)
      BY <1>1, <3>4, DropPhysicalSound
    <3>5. CASE tb' = associateFileLocked(tb, e.path, StatOf(e.path))
      BY <1>1, <3>5, AssociateSound DEF Deaf
    <3> QED BY <3>1, <3>3, <3>4, <3>5
  <2> QED BY <2>1, <2>2
<1>5. Hears(tb', Tail(batch), closed)
  BY <1>1, <1>2, <1>4 DEF Hears
<1> QED BY <1>3, <1>5 DEF HearsInv

LEMMA FireKeeps ==
  ASSUME NEW t, NEW os, NEW act, Sound(t)
  PROVE  Keeps(t, Fire(t, os, act))
BY FireSound DEF Keeps, Deaf

LEMMA ModifiedKeeps ==
  ASSUME NEW t, NEW ps, Sound(t)
  PROVE  Keeps(t, Modified(t, ps))
BY FireKeeps DEF Modified

LEMMA TreeHears ==
  ASSUME HearsInv, TreeChanges
  PROVE  HearsInv'
<1>1. Sound(tb)
  BY HearsSound
<1>2. Keeps(tb, tb')
  <2>1. CASE \E ps : tb' = Modified(tb, ps)
    BY <1>1, <2>1, ModifiedKeeps
  <2>2. CASE \E os, act, ps : tb' = Modified(Fire(tb, os, act), ps)
    BY <1>1, <2>2, FireKeeps, ModifiedKeeps DEF Keeps
  <2>3. CASE \E os, act : tb' = Fire(tb, os, act)
    BY <1>1, <2>3, FireKeeps
  <2>4. CASE \E os, act, os2, act2, ps : tb' = Modified(Fire(Fire(tb, os, act), os2, act2), ps)
    BY <1>1, <2>4, FireKeeps, ModifiedKeeps DEF Keeps
  <2>5. \/ \E ps : tb' = Modified(tb, ps)
        \/ \E os, act, ps : tb' = Modified(Fire(tb, os, act), ps)
        \/ \E os, act : tb' = Fire(tb, os, act)
        \/ \E os, act, os2, act2, ps : tb' = Modified(Fire(Fire(tb, os, act), os2, act2), ps)
    BY DEF TreeChanges
  <2> QED BY <2>1, <2>2, <2>3, <2>4, <2>5
<1> QED BY <1>2, HearsStep DEF TreeChanges

-----------------------------------------------------------------------------
(* After Close.                                                            *)
-----------------------------------------------------------------------------
(* Close sets the closed flag before it asks for the mutex, so whoever     *)
(* takes the mutex after it sees the flag.                                 *)
ClosedInv ==
  /\ at \in [Closers -> {"out", "lock", "wait", "returned"}]
  /\ \A c \in Closers : at[c] = "lock" => closed
  /\ port = "closed" => closed
  /\ ClosedPort

LEMMA ClosedStep ==
  ASSUME ClosedInv, HearsInv, [Next]_vars
  PROVE  ClosedInv'
<1> USE DEF ClosedInv, ClosedPort, Unlocked
<1>1. CASE Holder
  <2>1. port # "closed"
    BY <1>1 DEF Holder, DoVisit, DoRoot, DoList, DoChildren, DoFinish, DoScan, DoEntry, DoUnlock, Doing
  <2>2. HolderOnly
    BY <1>1 DEF Holder, DoVisit, DoRoot, DoList, DoChildren, DoFinish, DoScan, DoEntry, DoUnlock
  <2> QED BY <2>1, <2>2 DEF HolderOnly
<1>2. CASE Get
  BY <1>2 DEF Get
<1>3. CASE Handle
  BY <1>3 DEF Handle
<1>4. CASE Send \/ StopReceiving
  BY <1>4 DEF Send, StopReceiving
<1>5. ASSUME NEW c \in Closers, CloseFlag(c)
      PROVE  ClosedInv'
  BY <1>5 DEF CloseFlag
<1>6. ASSUME NEW c \in Closers, ClosePort(c)
      PROVE  ClosedInv'
  <2>1. IsTable(tb)
    BY DEF HearsInv, Hears, Sound
  <2>2. tb'.assoc = <<>> /\ tb'.queue = <<>>
    BY <1>6, <2>1 DEF ClosePort, IsTable
  <2> QED BY <1>6, <2>2 DEF ClosePort
<1>7. ASSUME NEW c \in Closers, CloseReturn(c)
      PROVE  ClosedInv'
  BY <1>7 DEF CloseReturn
<1>8. ASSUME NEW p, NEW rec, AddWith(p, rec) \/ RemoveWatch(p, rec)
      PROVE  ClosedInv'
  BY <1>8 DEF AddWith, RemoveWatch, CanCall, CallOnly
<1>9. CASE TreeChanges
  BY <1>9 DEF TreeChanges
<1>10. CASE UNCHANGED vars
  BY <1>10 DEF vars
<1> QED BY <1>1, <1>2, <1>3, <1>4, <1>5, <1>6, <1>7, <1>8, <1>9, <1>10 DEF Next, Reader, CloseStep

LEMMA NextHears ==
  ASSUME HearsInv, ClosedInv, [Next]_vars
  PROVE  HearsInv'
<1>1. Sound(tb) /\ Keeps(tb, tb)
  BY HearsSound
<1>2. CASE Holder
  BY <1>2, HolderHears
<1>3. CASE Reader
  <2>1. CASE Send
    BY <1>1, <2>1, HearsStep DEF Send
  <2> QED BY <1>3, <2>1, GetHears, HandleHears DEF Reader
<1>4. ASSUME NEW c \in Closers, CloseFlag(c) \/ CloseStep(c)
      PROVE  HearsInv'
  BY <1>4, CloseHears DEF CloseStep, ClosedInv
<1>5. ASSUME NEW p, NEW rec, AddWith(p, rec) \/ RemoveWatch(p, rec)
      PROVE  HearsInv'
  BY <1>5, CallHears
<1>6. CASE TreeChanges
  BY <1>6, TreeHears
<1>7. CASE StopReceiving \/ UNCHANGED vars
  BY <1>1, <1>7, HearsStep DEF StopReceiving, vars
<1> QED BY <1>2, <1>3, <1>4, <1>5, <1>6, <1>7 DEF Next

LEMMA InitHears ==
  ASSUME Init
  PROVE  HearsInv /\ ClosedInv
<1>1. /\ tb.assoc = <<>> /\ tb.queue = <<>> /\ tb.owners = <<>> /\ IsTable(tb)
      /\ batch = <<>> /\ todo = <<>> /\ port = "open" /\ at = [c \in Closers |-> "out"]
  BY DEF Init, WatchesInit, IsTable
<1>2. IsQueue(<<>>)
  BY FunctionQueue DEF IsQueue
<1>3. DOMAIN tb.assoc = {} /\ DOMAIN tb.owners = {}
  BY <1>1
<1>4. Sound(tb) /\ Deaf(tb) = {}
  BY <1>1, <1>2, <1>3, FS_EmptySet DEF Sound, Deaf
<1> QED BY <1>1, <1>2, <1>4 DEF HearsInv, Hears, ClosedInv, ClosedPort

(* Both are invariants. *)
LEMMA InvAlways == Spec => [](HearsInv /\ ClosedInv)
<1>1. Init => HearsInv /\ ClosedInv
  BY InitHears
<1>2. HearsInv /\ ClosedInv /\ [Next]_vars => (HearsInv /\ ClosedInv)'
  BY NextHears, ClosedStep
<1> QED BY <1>1, <1>2, PTL DEF Spec

(* No watch is ever deaf: whenever the mutex is free, a path that is owned *)
(* is associated with the port, or its one event is still to be handled    *)
(* (backend_fen.go: handleEventLocked 546-677, updateDirectory 682-742).   *)
THEOREM NeverDeafAlways == Spec => []NeverDeaf
<1>1. HearsInv => NeverDeaf
  BY DEF HearsInv, Hears, NeverDeaf, Deaf, Alive, PathsOf, Pending
<1> QED BY <1>1, InvAlways, PTL

(* RC-020: after Close has closed the port nothing is associated with it,  *)
(* and nobody is left at work with the mutex (backend_fen.go:92-107).      *)
THEOREM ClosedPortAlways == Spec => []ClosedPort
<1>1. ClosedInv => ClosedPort
  BY DEF ClosedInv
<1> QED BY <1>1, InvAlways, PTL

-----------------------------------------------------------------------------
(* A failed AddWith undoes what it did.  What the methods of the tables do *)
(* to each field.                                                          *)
-----------------------------------------------------------------------------
SameTables(t, r) ==
  /\ r.dirs = t.dirs /\ r.watches = t.watches /\ r.byUser = t.byUser /\ r.recurse = t.recurse
  /\ r.owners = t.owners /\ r.info = t.info

LEMMA PortFields ==
  ASSUME NEW t, IsTable(t), NEW ps, NEW os, NEW act
  PROVE  /\ IsTable(dissociate(t, ps)) /\ SameTables(t, dissociate(t, ps))
         /\ IsTable(Fire(t, os, act)) /\ SameTables(t, Fire(t, os, act))
BY DEF IsTable, SameTables, dissociate, Fire

LEMMA AssociateFields ==
  ASSUME NEW t, IsTable(t), NEW p, NEW stat
  PROVE  LET r == associateFileLocked(t, p, stat)
         IN  IsTable(r) /\ SameTables(t, r)
<1> DEFINE d == dissociate(t, {p})
           r == associateFileLocked(t, p, stat)
           now == [obj |-> fs[p], dir |-> stat.obj.dir]
           e == Event(p, "modified", stat.obj.dir)
<1>1. IsTable(d) /\ SameTables(t, d)
  BY PortFields
<1>2. r = [d EXCEPT !.queue = Append(@, e)] \/ r = [d EXCEPT !.assoc = Assign(@, p, now)]
  BY DEF associateFileLocked
<1> HIDE DEF d, r, now, e
<1>3. IsTable(r) /\ SameTables(d, r)
  BY <1>1, <1>2 DEF IsTable, SameTables
<1> QED BY <1>1, <1>3 DEF SameTables, r

Associated(t, r, p, stat, owners, scan) ==
  /\ r.watches = t.watches /\ r.byUser = t.byUser /\ r.recurse = t.recurse
  /\ r.dirs = (IF stat.obj.dir /\ scan THEN t.dirs \cup {p} ELSE t.dirs)
  /\ r.owners = Assign(t.owners, p, OwnersOf(t, p) \cup owners)
  /\ r.info = (IF stat.obj.dir THEN Assign(t.info, p, stat.obj) ELSE t.info)

LEMMA AssociateOwnedFields ==
  ASSUME NEW t, IsTable(t), NEW p, NEW stat, NEW owners, NEW scan
  PROVE  Associated(t, associateOwned(t, p, stat, owners, scan), p, stat, owners, scan)
<1> DEFINE t1 == associateFileLocked(t, p, stat)
           t2 == IF stat.obj.dir THEN [t1 EXCEPT !.info = Assign(@, p, stat.obj)] ELSE t1
           r == associateOwned(t, p, stat, owners, scan)
           now == OwnersOf(t, p) \cup owners
<1>1. IsTable(t1) /\ SameTables(t, t1)
  BY AssociateFields
<1>2. r = [t2 EXCEPT !.dirs = IF stat.obj.dir /\ scan THEN @ \cup {p} ELSE @, !.owners = Assign(@, p, now)]
  BY DEF associateOwned
<1> HIDE DEF t1, r, now
<1>3. /\ IsTable(t2) /\ t2.dirs = t.dirs /\ t2.watches = t.watches /\ t2.byUser = t.byUser
      /\ t2.recurse = t.recurse /\ t2.owners = t.owners
      /\ t2.info = (IF stat.obj.dir THEN Assign(t.info, p, stat.obj) ELSE t.info)
  BY <1>1 DEF IsTable, SameTables
<1> HIDE DEF t2
<1>4. /\ r.watches = t2.watches /\ r.byUser = t2.byUser /\ r.recurse = t2.recurse /\ r.info = t2.info
      /\ r.dirs = (IF stat.obj.dir /\ scan THEN t2.dirs \cup {p} ELSE t2.dirs)
      /\ r.owners = Assign(t2.owners, p, now)
  BY <1>2, <1>3 DEF IsTable
<1> QED BY <1>3, <1>4 DEF r, now, Associated

Without(f, ps) == Restrict(f, DOMAIN f \ ps)

Forgot(t, r, ps) ==
  /\ IsTable(r) /\ r.byUser = t.byUser /\ r.recurse = t.recurse
  /\ r.dirs = t.dirs \ ps /\ r.watches = t.watches \ ps
  /\ r.owners = Without(t.owners, ps) /\ r.info = Without(t.info, ps)

LEMMA ForgetFields ==
  ASSUME NEW t, IsTable(t), NEW ps, NEW gone
  PROVE  Forgot(t, Forget(t, ps, gone), ps)
<1> DEFINE d == [t EXCEPT !.dirs = @ \ ps, !.watches = @ \ ps,
                          !.owners = Restrict(@, DOMAIN @ \ ps), !.info = Restrict(@, DOMAIN @ \ ps)]
           r == Forget(t, ps, gone)
<1>1. /\ IsTable(d) /\ d.byUser = t.byUser /\ d.recurse = t.recurse
      /\ d.dirs = t.dirs \ ps /\ d.watches = t.watches \ ps
      /\ d.owners = Without(t.owners, ps)
      /\ d.info = Without(t.info, ps)
  BY DEF IsTable, Without
<1>2. r = dissociate(d, gone)
  BY DEF Forget
<1> HIDE DEF d, r
<1>3. IsTable(r) /\ SameTables(d, r)
  BY <1>1, <1>2, PortFields
<1> QED BY <1>1, <1>3 DEF SameTables, r, Forgot

(* The paths that only u owns. *)
OnlyOwned(t, u) == {p \in DOMAIN t.owners : t.owners[p] \ {u} = {}}

(* The owners of the others without u, and what is still scanned then. *)
OtherOwners(t, u) == [p \in DOMAIN t.owners \ OnlyOwned(t, u) |-> t.owners[p] \ {u}]
StillScanned(t, u) ==
  {p \in t.dirs : p \in DOMAIN t.owners =>
     /\ InfoOf(t, p).dir
     /\ p \in t.byUser \ {u} \/ (t.owners[p] \ {u}) \cap (t.recurse \ {u}) # {}}

Released(t, r, u) ==
  /\ r.byUser = t.byUser \ {u} /\ r.recurse = t.recurse \ {u}
  /\ r.watches = (t.watches \ {u}) \ OnlyOwned(t, u)
  /\ r.owners = OtherOwners(t, u) /\ r.info = Without(t.info, OnlyOwned(t, u))
  /\ r.dirs = StillScanned(t, u) \ OnlyOwned(t, u)

LEMMA ReleaseOwnerFields ==
  ASSUME NEW t, IsTable(t), NEW u
  PROVE  Released(t, releaseOwner(t, u), u)
<1> DEFINE r == releaseOwner(t, u)
           t1 == [t EXCEPT !.byUser = @ \ {u}, !.recurse = @ \ {u}, !.watches = @ \ {u},
                           !.owners = [p \in DOMAIN @ |-> @[p] \ {u}]]
           none == {p \in DOMAIN t1.owners : t1.owners[p] = {}}
           kept == {p \in t1.dirs : p \in DOMAIN t1.owners => directoryNeedsScan(t1, p)}
           t2 == [t1 EXCEPT !.dirs = kept]
<1>1. /\ IsTable(t1) /\ t1.byUser = t.byUser \ {u} /\ t1.recurse = t.recurse \ {u}
      /\ t1.watches = t.watches \ {u} /\ t1.dirs = t.dirs /\ t1.info = t.info
      /\ t1.owners = [p \in DOMAIN t.owners |-> t.owners[p] \ {u}]
  BY DEF IsTable
<1>2. r = Forget(t2, none, none)
  BY DEF releaseOwner
<1> HIDE DEF t1, r
<1>3. /\ IsTable(t2) /\ t2.byUser = t1.byUser /\ t2.recurse = t1.recurse /\ t2.watches = t1.watches
      /\ t2.dirs = kept /\ t2.info = t1.info /\ t2.owners = t1.owners
  BY <1>1 DEF IsTable
<1>4. none = OnlyOwned(t, u)
  BY <1>1 DEF OnlyOwned
<1>5. kept = StillScanned(t, u)
  <2>1. \A p : InfoOf(t1, p) = InfoOf(t, p)
    BY <1>1 DEF InfoOf
  <2>2. \A p \in DOMAIN t.owners : recursiveOwnersFor(t1, p) = (t.owners[p] \ {u}) \cap (t.recurse \ {u})
    BY <1>1 DEF recursiveOwnersFor, OwnersOf
  <2>3. \A p \in DOMAIN t.owners :
           directoryNeedsScan(t1, p) <=> /\ InfoOf(t, p).dir
                                         /\ \/ p \in t.byUser \ {u}
                                            \/ (t.owners[p] \ {u}) \cap (t.recurse \ {u}) # {}
    BY <1>1, <2>1, <2>2 DEF directoryNeedsScan
  <2>4. t1.dirs = t.dirs /\ DOMAIN t1.owners = DOMAIN t.owners
    BY <1>1
  <2> QED BY <2>3, <2>4 DEF StillScanned
<1> HIDE DEF t2, none, kept
<1>6. /\ r.byUser = t2.byUser /\ r.recurse = t2.recurse
      /\ r.dirs = t2.dirs \ none /\ r.watches = t2.watches \ none
      /\ r.owners = Without(t2.owners, none)
      /\ r.info = Without(t2.info, none)
  BY <1>2, <1>3, ForgetFields DEF Forgot
<1>7. r.owners = OtherOwners(t, u)
  BY <1>1, <1>3, <1>4, <1>6 DEF Without, Restrict, OtherOwners
<1> QED BY <1>1, <1>3, <1>4, <1>5, <1>6, <1>7 DEF r, Released

(* What dropPhysical drops. *)
HitBy(q, p, tree) == q = p \/ (tree /\ Under(q, p))
Dropped(t, p, tree) == {q \in DOMAIN t.owners : HitBy(q, p, tree)}
Unhit(S, p, tree) == {u \in S : ~HitBy(u, p, tree)}

HasDropped(t, r, p, tree) ==
  /\ r.byUser = Unhit(t.byUser, p, tree) /\ r.watches = t.watches \ Dropped(t, p, tree)
  /\ r.owners = Without(t.owners, Dropped(t, p, tree))
  /\ r.info = Without(t.info, Dropped(t, p, tree))

LEMMA DropPhysicalFields ==
  ASSUME NEW t, IsTable(t), NEW p, NEW tree
  PROVE  HasDropped(t, dropPhysical(t, p, tree), p, tree)
<1> DEFINE r == dropPhysical(t, p, tree)
           ps == Dropped(t, p, tree)
           t1 == Forget(t, ps, ps \ {p})
<1>1. r = [t1 EXCEPT !.byUser = Unhit(@, p, tree), !.recurse = Unhit(@, p, tree)]
  BY DEF dropPhysical, Unhit, HitBy, Dropped
<1> HIDE DEF ps, r
<1>2. /\ IsTable(t1) /\ t1.byUser = t.byUser /\ t1.watches = t.watches \ ps
      /\ t1.owners = Without(t.owners, ps) /\ t1.info = Without(t.info, ps)
  BY ForgetFields DEF Forgot
<1> HIDE DEF t1
<1>3. /\ r.byUser = Unhit(t1.byUser, p, tree) /\ r.watches = t1.watches /\ r.owners = t1.owners
      /\ r.info = t1.info
  BY <1>1, <1>2 DEF IsTable
<1> QED BY <1>2, <1>3 DEF r, ps, HasDropped

LEMMA RingFields ==
  ASSUME NEW t, IsTable(t), NEW p, NEW o
  PROVE  /\ IsTable(rememberRename(t, p)) /\ SameTables(t, rememberRename(t, p))
         /\ SameTables(t, takeRename(t, o))
BY DEF IsTable, SameTables, rememberRename, takeRename

UserAdded(t, r, p) ==
  /\ r.byUser = t.byUser \cup {p} /\ r.owners = t.owners /\ r.info = t.info
  /\ r.watches = (IF p \in t.dirs THEN t.watches ELSE t.watches \cup {p})

LEMMA AddUserWatchFields ==
  ASSUME NEW t, IsTable(t), NEW p, NEW recursive
  PROVE  UserAdded(t, addUserWatch(t, p, recursive), p)
BY DEF IsTable, addUserWatch, UserAdded

-----------------------------------------------------------------------------
(* What stays true of the tables.                                          *)
-----------------------------------------------------------------------------
IsMap(f) == f = [x \in DOMAIN f |-> f[x]]

(* The paths of watches are those of users, and owned. *)
UsersListed(t) ==
  /\ IsTable(t) /\ IsMap(t.owners)
  /\ t.watches \subseteq t.byUser /\ t.watches \subseteq DOMAIN t.owners

(* A directory that is owned is known to be one. *)
KnowsDirs(t, f) == \A p \in DOMAIN t.owners \cap DOMAIN f : f[p].dir => InfoOf(t, p).dir

(* Since the tables were b, u has become an owner of some paths; what u    *)
(* alone owns was not owned, and what is scanned for others still is.      *)
GrownBy(t, b, u) ==
  /\ b = <<b[1], b[2], b[3], b[4], b[5]>> /\ IsMap(b[5])
  /\ t.watches = b[2] /\ t.byUser = b[3] /\ t.recurse = b[4]
  /\ u \notin b[2] /\ u \notin b[3] /\ u \notin b[4] /\ b[2] \subseteq DOMAIN b[5]
  /\ DOMAIN b[5] \subseteq DOMAIN t.owners
  /\ \A p \in DOMAIN b[5] : u \notin b[5][p] /\ b[5][p] # {} /\ t.owners[p] \ {u} = b[5][p]
  /\ \A p \in DOMAIN t.owners : p \notin DOMAIN b[5] => t.owners[p] = {u}
  /\ b[1] \subseteq DOMAIN b[5] /\ b[1] \subseteq t.dirs /\ t.dirs \subseteq DOMAIN t.owners
  /\ \A p \in DOMAIN b[5] : p \in b[1] <=> InfoOf(t, p).dir /\ (p \in b[3] \/ b[5][p] \cap b[4] # {})

IsWithout(g, f, ps) ==
  /\ IsMap(g) /\ DOMAIN g = DOMAIN f \ ps
  /\ \A p \in DOMAIN f : p \notin ps => g[p] = f[p]

LEMMA WithoutIs ==
  ASSUME NEW f, NEW ps
  PROVE  IsWithout(Without(f, ps), f, ps)
BY DEF IsWithout, IsMap, Without, Restrict

IsAssigned(g, f, x, value) ==
  /\ IsMap(g) /\ DOMAIN g = DOMAIN f \cup {x} /\ g[x] = value
  /\ \A y \in DOMAIN f : y # x => g[y] = f[y]

LEMMA AssignIs ==
  ASSUME NEW f, NEW x, NEW value
  PROVE  IsAssigned(Assign(f, x, value), f, x, value)
BY DEF IsAssigned, IsMap, Assign

(* A step that keeps both. *)
Preserves(t, r) ==
  /\ IsTable(r) => UsersListed(r)
  /\ \A f : KnowsDirs(t, f) => KnowsDirs(r, f)

LEMMA SameTablesKeep ==
  ASSUME NEW t, NEW r, IsTable(r), SameTables(t, r)
  PROVE  /\ UsersListed(t) => UsersListed(r)
         /\ \A f : KnowsDirs(t, f) => KnowsDirs(r, f)
         /\ \A b, u : GrownBy(t, b, u) => GrownBy(r, b, u)
<1>1. \A p : InfoOf(r, p) = InfoOf(t, p)
  BY DEF SameTables, InfoOf
<1>2. \A f : KnowsDirs(t, f) => KnowsDirs(r, f)
  BY <1>1 DEF SameTables, KnowsDirs
<1>3. UsersListed(t) => UsersListed(r)
  BY DEF SameTables, UsersListed
<1>4. ASSUME NEW b, NEW u, GrownBy(t, b, u) PROVE GrownBy(r, b, u)
  BY <1>1, <1>4 DEF SameTables, GrownBy
<1> QED BY <1>2, <1>3, <1>4

OwnedNow(t, r, p, stat, owners) ==
  /\ IsTable(r) => UsersListed(r)
  /\ DOMAIN r.owners = DOMAIN t.owners \cup {p}
  /\ r.owners[p] = OwnersOf(t, p) \cup owners
  /\ \A q \in DOMAIN t.owners : q # p => r.owners[q] = t.owners[q]
  /\ \A q : q # p => InfoOf(r, q) = InfoOf(t, q)
  /\ InfoOf(r, p) = IF stat.obj.dir THEN stat.obj ELSE InfoOf(t, p)

LEMMA AssociateKeeps ==
  ASSUME NEW t, UsersListed(t), NEW p, NEW stat, NEW owners, NEW scan
  PROVE  OwnedNow(t, associateOwned(t, p, stat, owners, scan), p, stat, owners)
<1> DEFINE r == associateOwned(t, p, stat, owners, scan)
           now == OwnersOf(t, p) \cup owners
<1>1. /\ r.watches = t.watches /\ r.byUser = t.byUser
      /\ r.owners = Assign(t.owners, p, now)
      /\ r.info = (IF stat.obj.dir THEN Assign(t.info, p, stat.obj) ELSE t.info)
  <2>1. Associated(t, r, p, stat, owners, scan)
    BY AssociateOwnedFields DEF UsersListed
  <2> QED BY <2>1 DEF Associated
<1> HIDE DEF r, now
<1>2. /\ IsMap(r.owners) /\ DOMAIN r.owners = DOMAIN t.owners \cup {p} /\ r.owners[p] = now
      /\ \A q \in DOMAIN t.owners : q # p => r.owners[q] = t.owners[q]
  <2>1. IsAssigned(r.owners, t.owners, p, now)
    BY <1>1, AssignIs
  <2> QED BY <2>1 DEF IsAssigned
<1>3. IsTable(r) => UsersListed(r)
  BY <1>1, <1>2 DEF UsersListed
<1>4. /\ \A q : q # p => InfoOf(r, q) = InfoOf(t, q)
      /\ InfoOf(r, p) = IF stat.obj.dir THEN stat.obj ELSE InfoOf(t, p)
  <2>1. CASE stat.obj.dir
    <3>1. r.info = Assign(t.info, p, stat.obj)
      BY <1>1, <2>1
    <3>2. /\ DOMAIN r.info = DOMAIN t.info \cup {p} /\ r.info[p] = stat.obj
          /\ \A q \in DOMAIN t.info : q # p => r.info[q] = t.info[q]
      <4>1. IsAssigned(r.info, t.info, p, stat.obj)
        BY <3>1, AssignIs
      <4> QED BY <4>1 DEF IsAssigned
    <3> QED BY <2>1, <3>2 DEF InfoOf
  <2>2. CASE ~stat.obj.dir
    BY <1>1, <2>2 DEF InfoOf
  <2> QED BY <2>1, <2>2
<1> QED BY <1>2, <1>3, <1>4 DEF r, now, OwnedNow

LEMMA AssociateKnows ==
  ASSUME NEW t, UsersListed(t), NEW f, KnowsDirs(t, f),
         NEW p, NEW stat, NEW owners, NEW scan, p \in DOMAIN f => stat.obj = f[p]
  PROVE  KnowsDirs(associateOwned(t, p, stat, owners, scan), f)
<1> DEFINE r == associateOwned(t, p, stat, owners, scan)
<1>1. /\ DOMAIN r.owners = DOMAIN t.owners \cup {p}
      /\ \A q : q # p => InfoOf(r, q) = InfoOf(t, q)
      /\ InfoOf(r, p) = IF stat.obj.dir THEN stat.obj ELSE InfoOf(t, p)
  <2>1. OwnedNow(t, r, p, stat, owners)
    BY AssociateKeeps
  <2> QED BY <2>1 DEF OwnedNow
<1> HIDE DEF r
<1>2. KnowsDirs(r, f)
  BY <1>1 DEF KnowsDirs
<1> QED BY <1>2 DEF r

LEMMA AssociateGrows ==
  ASSUME NEW t, UsersListed(t), NEW f, KnowsDirs(t, f), NEW b, NEW u, GrownBy(t, b, u),
         NEW p, NEW stat, NEW scan, p \in DOMAIN f, stat.obj = f[p]
  PROVE  GrownBy(associateOwned(t, p, stat, {u}, scan), b, u)
<1> DEFINE r == associateOwned(t, p, stat, {u}, scan)
<1>1. /\ DOMAIN r.owners = DOMAIN t.owners \cup {p}
      /\ r.owners[p] = OwnersOf(t, p) \cup {u}
      /\ \A q \in DOMAIN t.owners : q # p => r.owners[q] = t.owners[q]
      /\ \A q : q # p => InfoOf(r, q) = InfoOf(t, q)
      /\ InfoOf(r, p) = IF stat.obj.dir THEN stat.obj ELSE InfoOf(t, p)
  <2>1. OwnedNow(t, r, p, stat, {u})
    BY AssociateKeeps
  <2> QED BY <2>1 DEF OwnedNow
<1>2. /\ r.watches = t.watches /\ r.byUser = t.byUser /\ r.recurse = t.recurse
      /\ t.dirs \subseteq r.dirs /\ r.dirs \subseteq t.dirs \cup {p}
  <2>1. Associated(t, r, p, stat, {u}, scan)
    BY AssociateOwnedFields DEF UsersListed
  <2> QED BY <2>1 DEF Associated
<1> HIDE DEF r
<1>3. ASSUME NEW q \in DOMAIN b[5]
      PROVE  u \notin b[5][q] /\ b[5][q] # {} /\ r.owners[q] \ {u} = b[5][q]
  BY <1>1 DEF GrownBy, OwnersOf
<1>4. ASSUME NEW q \in DOMAIN r.owners, q \notin DOMAIN b[5]
      PROVE  r.owners[q] = {u}
  BY <1>1, <1>4 DEF GrownBy, OwnersOf
<1>5. ASSUME NEW q \in DOMAIN b[5]
      PROVE  InfoOf(r, q).dir <=> InfoOf(t, q).dir
  <2>1. CASE q # p
    BY <1>1, <2>1
  <2>2. CASE q = p /\ ~stat.obj.dir
    BY <1>1, <2>2
  <2>3. CASE q = p /\ stat.obj.dir
    <3>1. p \in DOMAIN t.owners
      BY <2>3 DEF GrownBy
    <3>2. InfoOf(t, p).dir
      BY <2>3, <3>1 DEF KnowsDirs
    <3> QED BY <1>1, <2>3, <3>2
  <2> QED BY <2>1, <2>2, <2>3
<1>6. ASSUME NEW q \in DOMAIN b[5]
      PROVE  q \in b[1] <=> InfoOf(r, q).dir /\ (q \in b[3] \/ b[5][q] \cap b[4] # {})
  BY <1>5 DEF GrownBy
<1>7. r.dirs \subseteq DOMAIN r.owners /\ b[1] \subseteq r.dirs /\ DOMAIN b[5] \subseteq DOMAIN r.owners
  BY <1>1, <1>2 DEF GrownBy
<1>8. GrownBy(r, b, u)
  BY <1>2, <1>3, <1>4, <1>6, <1>7 DEF GrownBy
<1> QED BY <1>8 DEF r

LEMMA ReleaseKeeps ==
  ASSUME NEW t, UsersListed(t), NEW u
  PROVE  Preserves(t, releaseOwner(t, u))
<1> DEFINE r == releaseOwner(t, u)
           unused == OnlyOwned(t, u)
<1>1. /\ r.byUser = t.byUser \ {u} /\ r.watches = (t.watches \ {u}) \ unused
      /\ r.owners = OtherOwners(t, u) /\ r.info = Without(t.info, unused)
  <2>1. Released(t, r, u)
    BY ReleaseOwnerFields DEF UsersListed
  <2> QED BY <2>1 DEF Released
<1> HIDE DEF r
<1>2. IsMap(r.owners) /\ DOMAIN r.owners = DOMAIN t.owners \ unused
  BY <1>1 DEF OtherOwners, IsMap
<1> HIDE DEF unused
<1>3. IsTable(r) => UsersListed(r)
  BY <1>1, <1>2 DEF UsersListed
<1>4. \A p : p \notin unused => InfoOf(r, p) = InfoOf(t, p)
  <2>1. IsWithout(r.info, t.info, unused)
    BY <1>1, WithoutIs
  <2> QED BY <2>1 DEF InfoOf, IsWithout
<1>5. \A f : KnowsDirs(t, f) => KnowsDirs(r, f)
  BY <1>2, <1>4 DEF KnowsDirs
<1> QED BY <1>3, <1>5 DEF r, Preserves

(* If the tables have only grown since, releasing u restores them. *)
LEMMA ReleaseRestores ==
  ASSUME NEW t, UsersListed(t), NEW b, NEW u, GrownBy(t, b, u)
  PROVE  Tables(releaseOwner(t, u)) = b
<1> DEFINE r == releaseOwner(t, u)
           unused == OnlyOwned(t, u)
<1>1. /\ r.byUser = t.byUser \ {u} /\ r.recurse = t.recurse \ {u}
      /\ r.watches = (t.watches \ {u}) \ unused
      /\ r.owners = OtherOwners(t, u) /\ r.dirs = StillScanned(t, u) \ unused
  <2>1. Released(t, r, u)
    BY ReleaseOwnerFields DEF UsersListed
  <2> QED BY <2>1 DEF Released
<1> HIDE DEF r
<1>2. unused = DOMAIN t.owners \ DOMAIN b[5]
  BY DEF OnlyOwned, GrownBy
<1>3. DOMAIN t.owners \ unused = DOMAIN b[5]
  BY <1>2 DEF GrownBy
<1> HIDE DEF unused
<1>4. r.owners = b[5]
  <2>1. r.owners = [p \in DOMAIN t.owners \ unused |-> t.owners[p] \ {u}]
    BY <1>1 DEF OtherOwners, unused
  <2>2. r.owners = [p \in DOMAIN b[5] |-> b[5][p]]
    BY <1>3, <2>1 DEF GrownBy
  <2> QED BY <2>2 DEF GrownBy, IsMap
<1>5. r.byUser = b[3] /\ r.recurse = b[4]
  BY <1>1 DEF GrownBy
<1>6. r.watches = b[2]
  BY <1>1, <1>2 DEF GrownBy
<1>7. r.dirs = b[1]
  <2>1. ASSUME NEW p PROVE p \in r.dirs <=> p \in b[1]
    <3>1. p \in r.dirs <=> p \in StillScanned(t, u) /\ p \notin unused
      BY <1>1
    <3>2. CASE p \in DOMAIN b[5]
      <4>1. p \in DOMAIN t.owners /\ p \notin unused /\ t.owners[p] \ {u} = b[5][p]
        BY <1>3, <3>2 DEF GrownBy
      <4>2. p \in StillScanned(t, u) <=>
              p \in t.dirs /\ InfoOf(t, p).dir /\ (p \in b[3] \/ b[5][p] \cap b[4] # {})
        BY <4>1 DEF StillScanned, GrownBy
      <4>3. /\ p \in b[1] <=> InfoOf(t, p).dir /\ (p \in b[3] \/ b[5][p] \cap b[4] # {})
            /\ p \in b[1] => p \in t.dirs
        BY <3>2 DEF GrownBy
      <4> QED BY <3>1, <4>1, <4>2, <4>3
    <3>3. CASE p \notin DOMAIN b[5]
      <4>1. p \notin b[1]
        BY <3>3 DEF GrownBy
      <4>2. p \in t.dirs => p \in unused
        BY <1>2, <3>3 DEF GrownBy
      <4> QED BY <3>1, <4>1, <4>2 DEF StillScanned
    <3> QED BY <3>2, <3>3
  <2> QED BY <2>1
<1>8. b = <<b[1], b[2], b[3], b[4], b[5]>>
  BY DEF GrownBy
<1>9. Tables(r) = b
  BY <1>4, <1>5, <1>6, <1>7, <1>8 DEF Tables
<1> QED BY <1>9 DEF r

LEMMA DropKeeps ==
  ASSUME NEW t, UsersListed(t), NEW p, NEW tree
  PROVE  Preserves(t, dropPhysical(t, p, tree))
<1> DEFINE r == dropPhysical(t, p, tree)
           ps == Dropped(t, p, tree)
<1>1. /\ r.byUser = Unhit(t.byUser, p, tree) /\ r.watches = t.watches \ ps
      /\ r.owners = Without(t.owners, ps) /\ r.info = Without(t.info, ps)
  <2>1. HasDropped(t, r, p, tree)
    BY DropPhysicalFields DEF UsersListed
  <2> QED BY <2>1 DEF HasDropped
<1> HIDE DEF r
<1>2. IsMap(r.owners) /\ DOMAIN r.owners = DOMAIN t.owners \ ps
  <2>1. IsWithout(r.owners, t.owners, ps)
    BY <1>1, WithoutIs
  <2> QED BY <2>1 DEF IsWithout
<1>3. t.watches \ ps \subseteq Unhit(t.byUser, p, tree)
  BY DEF Dropped, Unhit, UsersListed
<1> HIDE DEF ps
<1>4. IsTable(r) => UsersListed(r)
  BY <1>1, <1>2, <1>3 DEF UsersListed
<1>5. \A q : q \notin ps => InfoOf(r, q) = InfoOf(t, q)
  <2>1. IsWithout(r.info, t.info, ps)
    BY <1>1, WithoutIs
  <2> QED BY <2>1 DEF InfoOf, IsWithout
<1>6. \A f : KnowsDirs(t, f) => KnowsDirs(r, f)
  BY <1>2, <1>5 DEF KnowsDirs
<1> QED BY <1>4, <1>6 DEF r, Preserves

LEMMA AddUserKeeps ==
  ASSUME NEW t, UsersListed(t), NEW p, NEW recursive, p \in DOMAIN t.owners
  PROVE  Preserves(t, addUserWatch(t, p, recursive))
<1> DEFINE r == addUserWatch(t, p, recursive)
<1>1. /\ r.byUser = t.byUser \cup {p} /\ r.owners = t.owners /\ r.info = t.info
      /\ r.watches = (IF p \in t.dirs THEN t.watches ELSE t.watches \cup {p})
  <2>1. UserAdded(t, r, p)
    BY AddUserWatchFields DEF UsersListed
  <2> QED BY <2>1 DEF UserAdded
<1> HIDE DEF r
<1>2. IsTable(r) => UsersListed(r)
  BY <1>1 DEF UsersListed
<1>3. \A q : InfoOf(r, q) = InfoOf(t, q)
  BY <1>1 DEF InfoOf
<1>4. \A f : KnowsDirs(t, f) => KnowsDirs(r, f)
  BY <1>1, <1>3 DEF KnowsDirs
<1> QED BY <1>2, <1>4 DEF r, Preserves

-----------------------------------------------------------------------------
(* The work of the holder of the mutex.                                    *)
-----------------------------------------------------------------------------
IsPiece(v) ==
  /\ v = [x \in DOMAIN v |-> v[x]] /\ {"do", "stat"} \subseteq DOMAIN v
  /\ v.stat \in [obj : {v.stat.obj}, changed : {v.stat.changed}]
  /\ v.do \notin {"finish", "unlock"} => "path" \in DOMAIN v
  /\ v.do \in {"visit", "root", "list"} => {"owners", "deep"} \subseteq DOMAIN v
  /\ v.do = "root" => "below" \in DOMAIN v
  /\ v.do = "visit" => "scan" \in DOMAIN v
  /\ v.do = "entry" => "dir" \in DOMAIN v

IsPlan(q) == q \in Seq(Range(q)) /\ \A v \in Range(q) : IsPiece(v)

(* AddWith has finish as its last piece of work, and only there. *)
Ends(q) == q # <<>> /\ \A k \in DOMAIN q : q[k].do = "finish" <=> k = Len(q)

LEMMA LeastOf ==
  ASSUME NEW T, T \subseteq Nat, T # {}
  PROVE  \E x \in T : \A y \in T : x <= y
<1> DEFINE R == OpToRel(<, Nat)
<1>1. \A a, b \in Nat : a < b => <<a, b>> \in R
  BY DEF OpToRel
<1>2. IsWellFoundedOn(R, Nat)
  BY NatLessThanWellFounded
<1> HIDE DEF R
<1>3. PICK x \in T : \A y \in T : ~ (<<y, x>> \in R)
  BY <1>2, WFMin
<1>4. \A y \in T : ~(y < x)
  BY <1>1, <1>3
<1> QED BY <1>3, <1>4

LEMMA StatIs ==
  ASSUME NEW p
  PROVE  /\ StatOf(p).obj = fs[p] /\ StatOf(p) \in [obj : {StatOf(p).obj}, changed : {StatOf(p).changed}]
         /\ NoStat \in [obj : {NoStat.obj}, changed : {NoStat.changed}]
BY DEF StatOf, NoStat

LEMMA PiecesAre ==
  ASSUME NEW p, NEW owners, NEW scan, NEW deep, NEW below, NEW dir
  PROVE  /\ IsPiece(Visit(p, StatOf(p), owners, scan, deep)) /\ IsPiece(List(p, owners, deep))
         /\ IsPiece(Root(p, owners, below, deep)) /\ IsPiece(Entry(p, dir))
         /\ IsPiece(Scan(p)) /\ IsPiece(Children(p)) /\ IsPiece(Finish) /\ IsPiece(Unlock)
BY StatIs DEF IsPiece, Visit, List, Root, Entry, Scan, Children, Finish, Unlock

LEMMA VisitIs ==
  ASSUME NEW p, NEW stat, NEW owners, NEW scan, NEW deep,
         stat \in [obj : {stat.obj}, changed : {stat.changed}]
  PROVE  IsPiece(Visit(p, stat, owners, scan, deep))
BY DEF IsPiece, Visit

LEMMA PlanIs ==
  ASSUME NEW q, IsPlan(q)
  PROVE  /\ Len(q) \in Nat /\ DOMAIN q = 1..Len(q)
         /\ \A k \in DOMAIN q : q[k] \in Range(q) /\ IsPiece(q[k])
         /\ \A v \in Range(q) : \E k \in DOMAIN q : q[k] = v
BY LenProperties DEF IsPlan, Range

LEMMA PlanOver ==
  ASSUME NEW S, NEW q \in Seq(S), \A v \in S : IsPiece(v)
  PROVE  IsPlan(q) /\ Range(q) \subseteq S
<1>1. Len(q) \in Nat /\ q \in [1..Len(q) -> S] /\ DOMAIN q = 1..Len(q)
  BY LenProperties
<1>2. \A k \in 1..Len(q) : q[k] \in Range(q)
  BY <1>1 DEF Range
<1>3. q \in Seq(Range(q)) /\ Range(q) \subseteq S
  BY <1>1, <1>2 DEF Range
<1> QED BY <1>3 DEF IsPlan

LEMMA FunctionPlan ==
  ASSUME NEW n \in Nat, NEW S, NEW q \in [1..n -> S], \A v \in S : IsPiece(v)
  PROVE  IsPlan(q) /\ Range(q) \subseteq S /\ DOMAIN q = 1..n
<1>1. q \in Seq(S)
  OBVIOUS
<1> QED BY <1>1, PlanOver

LEMMA OnePiece ==
  ASSUME NEW v, IsPiece(v)
  PROVE  IsPlan(<<v>>) /\ Range(<<v>>) = {v} /\ DOMAIN <<v>> = {1} /\ <<v>>[1] = v /\ Len(<<v>>) = 1
<1>1. <<v>> \in Seq({v})
  OBVIOUS
<1>2. Range(<<v>>) = {v}
  BY DEF Range
<1>3. \A x \in {v} : IsPiece(x)
  OBVIOUS
<1>4. IsPlan(<<v>>)
  <2> DEFINE S == {v}
             q == <<v>>
  <2>1. q \in Seq(S) /\ \A x \in S : IsPiece(x)
    BY <1>1, <1>3
  <2> HIDE DEF S, q
  <2>2. IsPlan(q)
    BY <2>1, PlanOver
  <2> QED BY <2>2 DEF q
<1> QED BY <1>2, <1>4

LEMMA NoPieces == IsPlan(<<>>) /\ Range(<<>>) = {}
<1>1. <<>> \in Seq({})
  OBVIOUS
<1>2. \A v \in {} : IsPiece(v)
  OBVIOUS
<1> DEFINE q == <<>>
<1> HIDE DEF q
<1>3. IsPlan(q) /\ Range(q) \subseteq {}
  <2>1. q \in Seq({})
    BY <1>1 DEF q
  <2> QED BY <1>2, <2>1, PlanOver
<1> QED BY <1>3 DEF q

Joins(c, a, b) ==
  /\ IsPlan(c) /\ Range(c) = Range(a) \cup Range(b)
  /\ DOMAIN a = 1..Len(a) /\ DOMAIN b = 1..Len(b) /\ Len(a) \in Nat /\ Len(b) \in Nat
  /\ DOMAIN c = 1..(Len(a) + Len(b)) /\ Len(c) = Len(a) + Len(b)
  /\ \A i \in DOMAIN a : c[i] = a[i]
  /\ \A i \in DOMAIN b : c[Len(a) + i] = b[i]
  /\ \A i \in DOMAIN c : i \in DOMAIN a \/ \E j \in DOMAIN b : i = Len(a) + j

LEMMA JoinPlans ==
  ASSUME NEW a, NEW b, IsPlan(a), IsPlan(b)
  PROVE  Joins(a \o b, a, b)
<1> DEFINE S == Range(a) \cup Range(b)
           c == a \o b
<1>1. a \in Seq(S) /\ b \in Seq(S) /\ \A v \in S : IsPiece(v)
  BY SeqMonotonic DEF IsPlan
<1> HIDE DEF S
<1>2. /\ c \in Seq(S) /\ Len(a) \in Nat /\ Len(b) \in Nat
      /\ DOMAIN a = 1..Len(a) /\ DOMAIN b = 1..Len(b)
      /\ DOMAIN c = 1..(Len(a) + Len(b))
      /\ \A i \in DOMAIN a : i \in DOMAIN c /\ c[i] = a[i]
      /\ \A i \in DOMAIN b : Len(a) + i \in DOMAIN c /\ c[Len(a) + i] = b[i]
      /\ \A i \in DOMAIN c : i \in DOMAIN a \/ \E j \in DOMAIN b : i = Len(a) + j
  BY <1>1, ConcatParts
<1>3. Len(c) = Len(a) + Len(b)
  BY <1>1, ConcatProperties
<1> HIDE DEF c
<1>4. IsPlan(c)
  BY <1>1, <1>2, PlanOver
<1>5. Range(c) = Range(a) \cup Range(b)
  <2>1. ASSUME NEW v \in Range(c) PROVE v \in Range(a) \cup Range(b)
    BY <1>2, <2>1 DEF Range
  <2>2. ASSUME NEW v \in Range(a) PROVE v \in Range(c)
    BY <1>2, <2>2 DEF Range
  <2>3. ASSUME NEW v \in Range(b) PROVE v \in Range(c)
    BY <1>2, <2>3 DEF Range
  <2> QED BY <2>1, <2>2, <2>3
<1> QED BY <1>2, <1>3, <1>4, <1>5 DEF Joins, c

Heads(q) ==
  /\ IsPlan(Tail(q)) /\ Head(q) \in Range(q) /\ IsPiece(Head(q)) /\ Head(q) = q[1]
  /\ Range(q) = {Head(q)} \cup Range(Tail(q))
  /\ Len(Tail(q)) = Len(q) - 1 /\ Len(q) \in Nat /\ Len(q) > 0 /\ DOMAIN q = 1..Len(q)
  /\ \A i \in DOMAIN Tail(q) : i + 1 \in DOMAIN q /\ Tail(q)[i] = q[i + 1]

LEMMA HeadOfPlan ==
  ASSUME NEW q, IsPlan(q), q # <<>>
  PROVE  Heads(q)
<1> DEFINE S == Range(q)
           t == Tail(q)
           h == Head(q)
<1>1. q \in Seq(S) /\ \A v \in S : IsPiece(v)
  BY DEF IsPlan
<1>2. /\ t \in Seq(S) /\ h = q[1] /\ 1 \in DOMAIN q
      /\ \A i \in DOMAIN t : i + 1 \in DOMAIN q /\ t[i] = q[i + 1]
      /\ \A i \in DOMAIN q : i = 1 \/ \E j \in DOMAIN t : i = j + 1
  BY <1>1, TailParts
<1>3. Len(q) \in Nat /\ DOMAIN q = 1..Len(q) /\ Len(t) = Len(q) - 1 /\ Len(q) > 0
  BY <1>1, HeadTailProperties, LenProperties, EmptySeq
<1> HIDE DEF t, h, S
<1>4. IsPlan(t)
  BY <1>1, <1>2, PlanOver
<1>5. Range(q) = {h} \cup Range(t)
  BY <1>2 DEF Range
<1>6. h \in Range(q) /\ IsPiece(h)
  BY <1>1, <1>5 DEF S
<1> QED BY <1>2, <1>3, <1>4, <1>5, <1>6 DEF Heads, t, h

(* What one piece of work is replaced by. *)
Continues(n, a, q) ==
  /\ IsPlan(n) /\ Range(n) = Range(a) \cup Range(Tail(q)) /\ Range(q) = {Head(q)} \cup Range(Tail(q))

LEMMA ContinuePlan ==
  ASSUME NEW q, NEW a, IsPlan(q), q # <<>>, IsPlan(a)
  PROVE  /\ Continues(a \o Tail(q), a, q)
         /\ Ends(q) /\ Head(q).do # "finish" /\ (\A v \in Range(a) : v.do # "finish") => Ends(a \o Tail(q))
<1> DEFINE t == Tail(q)
           n == a \o t
<1>1. Heads(q)
  BY HeadOfPlan
<1>2. IsPlan(t)
  BY <1>1 DEF Heads
<1>3. Joins(n, a, t)
  BY <1>2, JoinPlans
<1> HIDE DEF n
<1>4. Continues(n, a, q)
  BY <1>1, <1>3 DEF Heads, Joins, Continues
<1>5. ASSUME Ends(q), Head(q).do # "finish", \A v \in Range(a) : v.do # "finish"
      PROVE  Ends(n)
  <2>1. Len(q) \in Nat /\ Len(t) = Len(q) - 1 /\ DOMAIN q = 1..Len(q) /\ q # <<>> /\ q[1].do # "finish"
    BY <1>1, <1>5 DEF Heads, Ends
  <2>2. /\ \A i \in DOMAIN t : i + 1 \in DOMAIN q /\ t[i] = q[i + 1]
        /\ Len(q) > 0
    BY <1>1 DEF Heads
  <2>3. \A k \in DOMAIN q : q[k].do = "finish" <=> k = Len(q)
    BY <1>5 DEF Ends
  <2>4. Len(q) # 1
    BY <2>1, <2>2, <2>3
  <2>5. Len(t) \in Nat /\ Len(t) > 0 /\ DOMAIN t = 1..Len(t)
    BY <1>3, <2>1, <2>2, <2>4 DEF Joins
  <2>6. \A i \in DOMAIN t : t[i].do = "finish" <=> i = Len(t)
    <3> SUFFICES ASSUME NEW i \in DOMAIN t PROVE t[i].do = "finish" <=> i = Len(t)
      OBVIOUS
    <3>1. t[i].do = "finish" <=> i + 1 = Len(q)
      BY <2>2, <2>3
    <3>2. i + 1 = Len(q) <=> i = Len(t)
      BY <2>1, <2>5
    <3> QED BY <3>1, <3>2
  <2>7. \A i \in DOMAIN a : a[i].do # "finish"
    BY <1>5 DEF Range
  <2> HIDE DEF t
  <2>8. ASSUME NEW k \in DOMAIN n PROVE n[k].do = "finish" <=> k = Len(n)
    <3>1. CASE k \in DOMAIN a
      BY <1>3, <2>5, <2>7, <3>1 DEF Joins
    <3>2. CASE \E j \in DOMAIN t : k = Len(a) + j
      <4>1. PICK j \in DOMAIN t : k = Len(a) + j
        BY <3>2
      <4>2. n[k].do = "finish" <=> j = Len(t)
        BY <1>3, <2>6, <4>1 DEF Joins
      <4>3. j = Len(t) <=> k = Len(n)
        BY <1>3, <2>5, <4>1 DEF Joins
      <4> QED BY <4>2, <4>3
    <3> QED BY <1>3, <2>8, <3>1, <3>2 DEF Joins
  <2>9. n # <<>>
    <3>1. Len(n) > 0 /\ Len(n) \in Nat
      BY <1>3, <2>5 DEF Joins
    <3> QED BY <3>1
  <2> QED BY <2>8, <2>9 DEF Ends
<1> QED BY <1>4, <1>5 DEF n

LEMMA RestIs ==
  ASSUME IsPlan(todo)
  PROVE  IsPlan(Rest) /\ Range(Rest) \subseteq Range(todo)
<1> DEFINE ends == {k \in DOMAIN todo : todo[k].do \in {"entry", "unlock"}}
           First(k) == \A j \in ends : k <= j
           first == CHOOSE k \in ends : First(k)
<1>1. Len(todo) \in Nat /\ DOMAIN todo = 1..Len(todo) /\ todo \in Seq(Range(todo))
  BY PlanIs DEF IsPlan
<1>2. CASE ends = {}
  BY <1>2, NoPieces DEF Rest
<1>3. CASE ends # {}
  <2>1. Rest = SubSeq(todo, first, Len(todo))
    BY <1>3 DEF Rest
  <2>2. ends \subseteq Nat
    BY <1>1
  <2>3. \E k \in ends : First(k)
    BY <1>3, <2>2, LeastOf
  <2>4. first \in ends
    BY <2>3
  <2> HIDE DEF first
  <2>5. first \in 1..Len(todo)
    BY <1>1, <2>4
  <2>6. Rest \in Seq(Range(todo))
    BY <1>1, <2>1, <2>5, SubSeqProperties
  <2> QED BY <2>6, PlanOver DEF IsPlan
<1> QED BY <1>2, <1>3

(* A piece whose stat may be out of date. *)
Alike(v, w) ==
  /\ IsPiece(w) /\ w.do = v.do /\ w.stat.obj = v.stat.obj /\ DOMAIN w = DOMAIN v
  /\ \A x \in DOMAIN v : x # "stat" => w[x] = v[x]

LEMMA AlikeIs ==
  ASSUME NEW v, IsPiece(v)
  PROVE  Alike(v, v) /\ Alike(v, [v EXCEPT !.stat.changed = TRUE])
<1> DEFINE w == [v EXCEPT !.stat.changed = TRUE]
           s == [v.stat EXCEPT !.changed = TRUE]
<1>1. w = [x \in DOMAIN v |-> IF x = "stat" THEN s ELSE v[x]]
  BY DEF IsPiece
<1>2. s.obj = v.stat.obj /\ s \in [obj : {s.obj}, changed : {s.changed}]
  BY DEF IsPiece
<1> HIDE DEF w, s
<1>3. /\ DOMAIN w = DOMAIN v /\ w = [x \in DOMAIN w |-> w[x]] /\ w.stat = s
      /\ \A x \in DOMAIN v : x # "stat" => w[x] = v[x]
  BY <1>1 DEF IsPiece
<1>4. w.do = v.do
  BY <1>3 DEF IsPiece
<1>5. IsPiece(w)
  BY <1>2, <1>3, <1>4 DEF IsPiece
<1>6. Alike(v, v)
  BY DEF Alike
<1>7. Alike(v, w)
  BY <1>2, <1>3, <1>4, <1>5 DEF Alike
<1> QED BY <1>6, <1>7 DEF w

AlikePlans(q, n) ==
  /\ IsPlan(n) /\ DOMAIN n = DOMAIN q /\ Len(n) = Len(q) /\ \A k \in DOMAIN q : Alike(q[k], n[k])

LEMMA MarkedPlan ==
  ASSUME IsPlan(todo), NEW os, MarkChanged(os)
  PROVE  AlikePlans(todo, todo')
<1>1. Len(todo) \in Nat /\ DOMAIN todo = 1..Len(todo) /\ \A k \in DOMAIN todo : IsPiece(todo[k])
  BY PlanIs
<1>2. /\ DOMAIN todo' = DOMAIN todo /\ todo' = [k \in DOMAIN todo |-> todo'[k]]
      /\ \A k \in DOMAIN todo : todo'[k] = [todo[k] EXCEPT !.stat.changed = TRUE] \/ todo'[k] = todo[k]
  BY DEF MarkChanged
<1>3. \A k \in DOMAIN todo : Alike(todo[k], todo'[k])
  BY <1>1, <1>2, AlikeIs
<1>4. \A k \in DOMAIN todo : IsPiece(todo'[k])
  BY <1>3 DEF Alike
<1> DEFINE S == {todo'[k] : k \in 1..Len(todo)}
<1>5. todo' \in [1..Len(todo) -> S]
  BY <1>1, <1>2
<1>6. \A v \in S : IsPiece(v)
  BY <1>1, <1>4
<1> HIDE DEF S
<1>7. IsPlan(todo')
  BY <1>1, <1>5, <1>6, FunctionPlan
<1>8. Len(todo') = Len(todo)
  BY <1>1, <1>5
<1> QED BY <1>2, <1>3, <1>7, <1>8 DEF AlikePlans

-----------------------------------------------------------------------------
(* The tree, and what comes to a path of it.                               *)
-----------------------------------------------------------------------------
HasTree == IsTree /\ Grounded

(* Outside ps everything that exists is what it was. *)
OnlyAt(ps) == \A x \in DOMAIN fs' : x \notin ps => x \in DOMAIN fs /\ fs'[x] = fs[x]

LEMMA MoveTakes ==
  ASSUME HasTree, NEW p \in DOMAIN fs, NEW q \in Path, Move(p, q) \/ Replace(p, q)
  PROVE  HasTree' /\ OnlyAt({Rebased(x, p, q) : x \in {y \in DOMAIN fs : Under(y, p)}})
<1>1. CASE Move(p, q)
  <2>1. HasTree'
    BY <1>1, MoveTree, MoveGrounded DEF HasTree
  <2>2. ASSUME NEW x \in DOMAIN fs'
        PROVE  \/ x \in DOMAIN fs /\ fs'[x] = fs[x]
               \/ \E y \in {z \in DOMAIN fs : Under(z, p)} : x = Rebased(y, p, q)
    BY <1>1, <2>2, MoveIs DEF HasTree
  <2> QED BY <2>1, <2>2 DEF OnlyAt
<1>2. CASE Replace(p, q)
  <2>1. HasTree'
    BY <1>2, ReplaceTree DEF HasTree
  <2>2. p \in Seq(Names) /\ q \in Seq(Names) /\ Len(p) \in Nat
    BY PathNotEmpty, UnderIs DEF HasTree, IsTree, IsPath
  <2>3. Under(p, p)
    BY <2>2, SubSeqFull DEF Under
  <2>4. Rebased(p, p, q) = q
    <3>1. SubSeq(p, Len(p) + 1, Len(p)) = <<>>
      BY <2>2, SubSeqEmpty
    <3> QED BY <2>2, <3>1, ConcatEmptySeq DEF Rebased
  <2>5. \A x \in DOMAIN fs' : x # q => x \in DOMAIN fs /\ fs'[x] = fs[x]
    BY <1>2 DEF Replace
  <2> QED BY <2>1, <2>3, <2>4, <2>5 DEF OnlyAt
<1> QED BY <1>1, <1>2

LEMMA TreeTakes ==
  ASSUME HasTree, TreeChanges
  PROVE  HasTree' /\ \E ps : Takes(ps) /\ OnlyAt(ps)
<1>1. ASSUME NEW p \in Path, NEW isDir \in BOOLEAN, Make(p, isDir), Takes({p})
      PROVE  HasTree' /\ Takes({p}) /\ OnlyAt({p})
  <2>1. HasTree'
    BY <1>1, MakeTree, MakeGrounded DEF HasTree
  <2>2. OnlyAt({p})
    BY <1>1 DEF Make, OnlyAt
  <2> QED BY <1>1, <2>1, <2>2
<1>2. ASSUME NEW p \in DOMAIN fs, Unlink(p), Takes({})
      PROVE  HasTree' /\ Takes({}) /\ OnlyAt({})
  <2>1. HasTree'
    BY <1>2, UnlinkTree, UnlinkGrounded DEF HasTree
  <2>2. OnlyAt({})
    BY <1>2 DEF Unlink, Restrict, OnlyAt
  <2> QED BY <1>2, <2>1, <2>2
<1>3. ASSUME NEW p \in DOMAIN fs, NEW q \in Path, Move(p, q) \/ Replace(p, q), NEW s,
             Takes(s \cup {Rebased(x, p, q) : x \in {y \in DOMAIN fs : Under(y, p)}})
      PROVE  HasTree' /\ \E ps : Takes(ps) /\ OnlyAt(ps)
  BY <1>3, MoveTakes DEF OnlyAt
<1>4. ASSUME NEW p \in DOMAIN fs, Touch(p), Takes({})
      PROVE  HasTree' /\ Takes({}) /\ OnlyAt({})
  <2>1. HasTree'
    BY <1>4, TouchTree DEF HasTree
  <2>2. OnlyAt({})
    BY <1>4 DEF Touch, OnlyAt
  <2> QED BY <1>4, <2>1, <2>2
<1> QED BY <1>1, <1>2, <1>3, <1>4 DEF TreeChanges

LEMMA TreeFields ==
  ASSUME Sound(tb), TreeChanges
  PROVE  SameTables(tb, tb') /\ \E os : MarkChanged(os)
<1>1. \A t, os, act : IsTable(t) => IsTable(Fire(t, os, act)) /\ SameTables(t, Fire(t, os, act))
  BY PortFields
<1>2. \A t, ps : IsTable(t) => IsTable(Modified(t, ps)) /\ SameTables(t, Modified(t, ps))
  BY <1>1 DEF Modified
<1>3. IsTable(tb)
  BY DEF Sound
<1>4. SameTables(tb, tb')
  <2>1. CASE \E ps : tb' = Modified(tb, ps)
    BY <1>2, <1>3, <2>1
  <2>2. CASE \E os, act, ps : tb' = Modified(Fire(tb, os, act), ps)
    BY <1>1, <1>2, <1>3, <2>2 DEF SameTables
  <2>3. CASE \E os, act : tb' = Fire(tb, os, act)
    BY <1>1, <1>3, <2>3
  <2>4. CASE \E os, act, os2, act2, ps : tb' = Modified(Fire(Fire(tb, os, act), os2, act2), ps)
    <3>1. PICK os, act, os2, act2, ps : tb' = Modified(Fire(Fire(tb, os, act), os2, act2), ps)
      BY <2>4
    <3> DEFINE a == Fire(tb, os, act)
               b == Fire(a, os2, act2)
    <3>2. IsTable(a) /\ SameTables(tb, a)
      BY <1>1, <1>3
    <3> HIDE DEF a
    <3>3. IsTable(b) /\ SameTables(a, b)
      BY <1>1, <3>2
    <3> HIDE DEF b
    <3>4. SameTables(b, tb')
      BY <1>2, <3>1, <3>3 DEF a, b
    <3> QED BY <3>2, <3>3, <3>4 DEF SameTables
  <2>5. \/ \E ps : tb' = Modified(tb, ps)
        \/ \E os, act, ps : tb' = Modified(Fire(tb, os, act), ps)
        \/ \E os, act : tb' = Fire(tb, os, act)
        \/ \E os, act, os2, act2, ps : tb' = Modified(Fire(Fire(tb, os, act), os2, act2), ps)
    BY DEF TreeChanges
  <2> QED BY <2>1, <2>2, <2>3, <2>4, <2>5
<1>5. \E os : MarkChanged(os)
  BY DEF TreeChanges
<1> QED BY <1>4, <1>5

-----------------------------------------------------------------------------
(* The work of a call of AddWith is for the path it adds, and registers    *)
(* that path before it finishes.                                           *)
-----------------------------------------------------------------------------
WorksFor(v, u) ==
  /\ v.do \in {"visit", "root", "list", "children", "finish"}
  /\ v.do \in {"visit", "root", "list"} => v.owners = {u}
  /\ v.do = "root" => v.below = {u} /\ v.deep = "all"

Registers(v, u) == v.do \in {"visit", "root", "children"} /\ v.path = u

AddPlan(q, u, t) ==
  /\ Ends(q) /\ \A v \in Range(q) : WorksFor(v, u)
  /\ u \in DOMAIN t.owners \/ \E v \in Range(q) : Registers(v, u)

(* A stat that was kept is of the object that is there, if one is. *)
Truthful(v, f) ==
  v.do \in {"visit", "children", "entry"} => (v.path \in DOMAIN f => v.stat.obj = f[v.path])

RollbackInv ==
  /\ HasTree /\ IsPlan(todo) /\ UsersListed(tb)
  /\ req = NoRequest => \A v \in Range(todo) : v.do # "finish"
  /\ req # NoRequest => AddPlan(todo, req.name, tb)
  /\ calm => KnowsDirs(tb, fs)
  /\ calm => \A v \in Range(todo) : Truthful(v, fs)
  /\ calm /\ req # NoRequest /\ req.rollback => GrownBy(tb, req.before, req.name)

(* One piece of work, done and replaced by others. *)
Piecewise(a) ==
  /\ IsPlan(a) /\ todo # <<>> /\ todo' = a \o Tail(todo)
  /\ req' = req /\ UsersListed(tb') /\ DOMAIN tb.owners \subseteq DOMAIN tb'.owners
  /\ Head(todo).do # "finish" /\ \A v \in Range(a) : v.do # "finish"
  /\ calm => KnowsDirs(tb', fs)
  /\ calm => \A v \in Range(a) : Truthful(v, fs)
  /\ req # NoRequest => \A v \in Range(a) : WorksFor(v, req.name)
  /\ req # NoRequest /\ Registers(Head(todo), req.name) =>
       req.name \in DOMAIN tb'.owners \/ \E v \in Range(a) : Registers(v, req.name)
  /\ calm /\ req # NoRequest /\ req.rollback => GrownBy(tb', req.before, req.name)

LEMMA PieceStep ==
  ASSUME RollbackInv, HolderOnly, NEW a, Piecewise(a)
  PROVE  RollbackInv'
<1>1. /\ IsPlan(todo) /\ IsPlan(a) /\ todo # <<>> /\ todo' = a \o Tail(todo)
      /\ Head(todo).do # "finish" /\ \A v \in Range(a) : v.do # "finish"
  BY DEF RollbackInv, Piecewise
<1>2. Continues(todo', a, todo)
  BY <1>1, ContinuePlan
<1>3. /\ IsPlan(todo') /\ Range(todo') = Range(a) \cup Range(Tail(todo))
      /\ Range(todo) = {Head(todo)} \cup Range(Tail(todo))
  BY <1>2 DEF Continues
<1>4. fs' = fs /\ fsOps' = fsOps /\ calm' = calm /\ req' = req
  BY DEF HolderOnly, treeVars, Piecewise
<1>5. HasTree'
  BY <1>4 DEF RollbackInv, HasTree, IsTree, Grounded, LastNo
<1>6. req = NoRequest => \A v \in Range(todo') : v.do # "finish"
  BY <1>1, <1>3 DEF RollbackInv
<1>7. ASSUME req # NoRequest PROVE AddPlan(todo', req.name, tb')
  <2>1. /\ Ends(todo) /\ \A v \in Range(todo) : WorksFor(v, req.name)
        /\ req.name \in DOMAIN tb.owners \/ \E v \in Range(todo) : Registers(v, req.name)
    BY <1>7 DEF RollbackInv, AddPlan
  <2>2. Ends(todo')
    BY <1>1, <2>1, ContinuePlan
  <2>3. \A v \in Range(todo') : WorksFor(v, req.name)
    BY <1>3, <1>7, <2>1 DEF Piecewise
  <2>4. req.name \in DOMAIN tb'.owners \/ \E v \in Range(todo') : Registers(v, req.name)
    BY <1>3, <1>7, <2>1 DEF Piecewise
  <2> QED BY <2>2, <2>3, <2>4 DEF AddPlan
<1>8. calm => \A v \in Range(todo') : Truthful(v, fs)
  BY <1>3 DEF RollbackInv, Piecewise
<1>9. UsersListed(tb')
  BY DEF Piecewise
<1>10. calm => KnowsDirs(tb', fs)
  BY DEF Piecewise
<1>11. calm /\ req # NoRequest /\ req.rollback => GrownBy(tb', req.before, req.name)
  BY DEF Piecewise
<1> QED BY <1>3, <1>4, <1>5, <1>6, <1>7, <1>8, <1>9, <1>10, <1>11 DEF RollbackInv

(* A call that fails does not leave anything to do. *)
LEMMA ErrorStep ==
  ASSUME RollbackInv, Sound(tb'), HolderOnly, Error
  PROVE  RollbackInv'
<1>1. IsPlan(Rest) /\ Range(Rest) \subseteq Range(todo) /\ todo' = Rest
  BY RestIs DEF RollbackInv, Error
<1>2. fs' = fs /\ fsOps' = fsOps /\ calm' = calm
  BY DEF HolderOnly, treeVars
<1>3. HasTree'
  BY <1>2 DEF RollbackInv, HasTree, IsTree, Grounded, LastNo
<1>4. UsersListed(tb) /\ (calm => KnowsDirs(tb, fs)) /\ IsTable(tb')
  BY DEF RollbackInv, Sound
<1>5. tb' = tb \/ tb' = releaseOwner(tb, req.name)
  BY DEF Error
<1>6. UsersListed(tb') /\ (calm => KnowsDirs(tb', fs))
  <2>1. CASE tb' = tb
    BY <1>4, <2>1
  <2>2. CASE tb' = releaseOwner(tb, req.name)
    <3>1. Preserves(tb, tb')
      BY <1>4, <2>2, ReleaseKeeps
    <3> QED BY <1>4, <3>1 DEF Preserves
  <2> QED BY <1>5, <2>1, <2>2
<1>7. calm => \A v \in Range(todo') : Truthful(v, fs)
  BY <1>1 DEF RollbackInv
<1>8. req' = NoRequest
  BY DEF Error
<1>9. \A v \in Range(todo') : v.do # "finish"
  <2>1. CASE req = NoRequest
    BY <1>1, <2>1 DEF RollbackInv
  <2>2. CASE req # NoRequest
    <3>1. \A v \in Range(todo) : WorksFor(v, req.name)
      BY <2>2 DEF RollbackInv, AddPlan
    <3>2. \A k \in DOMAIN todo : todo[k].do \notin {"entry", "unlock"}
      BY <3>1 DEF Range, WorksFor
    <3>3. Rest = <<>>
      BY <3>2 DEF Rest
    <3> QED BY <1>1, <3>3, NoPieces
  <2> QED BY <2>1, <2>2
<1> QED BY <1>1, <1>2, <1>3, <1>6, <1>7, <1>8, <1>9 DEF RollbackInv

-----------------------------------------------------------------------------
(* One lemma for each step.                                                *)
-----------------------------------------------------------------------------
(* What an association does to what is kept. *)
Adds(p) ==
  /\ UsersListed(tb') /\ DOMAIN tb.owners \subseteq DOMAIN tb'.owners /\ p \in DOMAIN tb'.owners
  /\ calm => KnowsDirs(tb', fs)
  /\ calm /\ req # NoRequest /\ req.rollback => GrownBy(tb', req.before, req.name)

LEMMA AssociateAdds ==
  ASSUME RollbackInv, Sound(tb'), NEW p \in DOMAIN fs, NEW stat, calm => stat.obj = fs[p],
         NEW owners, req # NoRequest => owners = {req.name},
         NEW scan, tb' = associateOwned(tb, p, stat, owners, scan)
  PROVE  Adds(p)
<1>1. UsersListed(tb) /\ IsTable(tb') /\ (calm => KnowsDirs(tb, fs))
  BY DEF RollbackInv, Sound
<1>2. OwnedNow(tb, tb', p, stat, owners)
  BY <1>1, AssociateKeeps
<1>3. UsersListed(tb') /\ DOMAIN tb.owners \subseteq DOMAIN tb'.owners /\ p \in DOMAIN tb'.owners
  BY <1>1, <1>2 DEF OwnedNow
<1>4. calm => KnowsDirs(tb', fs)
  BY <1>1, AssociateKnows
<1>5. ASSUME calm, req # NoRequest, req.rollback
      PROVE  GrownBy(tb', req.before, req.name)
  <2>1. GrownBy(tb, req.before, req.name)
    BY <1>5 DEF RollbackInv
  <2> QED BY <1>1, <1>5, <2>1, AssociateGrows
<1> QED BY <1>3, <1>4, <1>5 DEF Adds

(* The same of a step that associates nothing. *)
LEMMA SameAdds ==
  ASSUME RollbackInv, UNCHANGED tb
  PROVE  /\ UsersListed(tb') /\ DOMAIN tb.owners \subseteq DOMAIN tb'.owners
         /\ calm => KnowsDirs(tb', fs)
         /\ calm /\ req # NoRequest /\ req.rollback => GrownBy(tb', req.before, req.name)
BY DEF RollbackInv

LEMMA HeadWorks ==
  ASSUME RollbackInv, todo # <<>>
  PROVE  /\ IsPiece(Head(todo)) /\ Head(todo) \in Range(todo)
         /\ calm => Truthful(Head(todo), fs)
         /\ req # NoRequest => WorksFor(Head(todo), req.name)
         /\ req = NoRequest => Head(todo).do # "finish"
<1>1. Heads(todo)
  BY HeadOfPlan DEF RollbackInv
<1>2. IsPiece(Head(todo)) /\ Head(todo) \in Range(todo)
  BY <1>1 DEF Heads
<1> QED BY <1>2 DEF RollbackInv, AddPlan

LEMMA VisitKeeps ==
  ASSUME RollbackInv, Sound(tb'), DoVisit
  PROVE  RollbackInv'
<1> DEFINE v == Head(todo)
           l == List(v.path, v.owners, v.deep)
           a == If(v.deep # "no" /\ v.stat.obj.dir, <<l>>)
<1>1. todo # <<>> /\ v.do = "visit" /\ HolderOnly
  BY DEF DoVisit, Doing
<1>2. (calm => Truthful(v, fs)) /\ (req # NoRequest => WorksFor(v, req.name))
  BY <1>1, HeadWorks
<1>3. CASE CannotAssociate(v.path)
  BY <1>1, <1>3, ErrorStep DEF DoVisit
<1>4. CASE ~CannotAssociate(v.path)
  <2>1. /\ tb' = associateOwned(tb, v.path, v.stat, v.owners, v.scan) /\ req' = req
        /\ todo' = a \o Tail(todo) /\ v.path \in DOMAIN fs
    BY <1>4 DEF DoVisit, Then, CannotAssociate
  <2>2. calm => v.stat.obj = fs[v.path]
    BY <1>1, <1>2, <2>1 DEF Truthful
  <2>3. req # NoRequest => v.owners = {req.name}
    BY <1>1, <1>2 DEF WorksFor
  <2>4. IsPiece(l) /\ l.do = "list" /\ l.owners = v.owners
    BY PiecesAre DEF List
  <2> HIDE DEF v, l
  <2>5. Adds(v.path)
    BY <2>1, <2>2, <2>3, AssociateAdds
  <2>6. IsPlan(a) /\ Range(a) \subseteq {l}
    BY <2>4, OnePiece, NoPieces DEF If
  <2> HIDE DEF a
  <2>7. \A w \in Range(a) : w.do # "finish" /\ Truthful(w, fs) /\ (req # NoRequest => WorksFor(w, req.name))
    BY <2>3, <2>4, <2>6 DEF Truthful, WorksFor
  <2>8. Head(todo).do # "finish" /\ Head(todo).path = v.path
    BY <1>1 DEF v
  <2>9. Piecewise(a)
    BY <1>1, <2>1, <2>5, <2>6, <2>7, <2>8 DEF Piecewise, Adds, Registers
  <2> QED BY <1>1, <2>9, PieceStep
<1> QED BY <1>3, <1>4

LEMMA RootKeeps ==
  ASSUME RollbackInv, Sound(tb'), DoRoot
  PROVE  RollbackInv'
<1> DEFINE v == Head(todo)
           l == List(v.path, v.below, v.deep)
           a == If(v.deep # "no" /\ IsDir(v.path), <<l>>)
<1>1. todo # <<>> /\ v.do = "root" /\ HolderOnly
  BY DEF DoRoot, Doing
<1>2. req # NoRequest => WorksFor(v, req.name)
  BY <1>1, HeadWorks
<1>3. req # NoRequest => v.owners = {req.name} /\ v.below = {req.name} /\ v.deep = "all"
  BY <1>1, <1>2 DEF WorksFor
<1> HIDE DEF v
<1>4. Head(todo).do # "finish" /\ Head(todo).path = v.path
  BY <1>1 DEF v
<1>5. CASE Error
  BY <1>1, <1>5, ErrorStep
<1>6. CASE Then(<<>>) /\ UNCHANGED <<tb, req>> /\ v.deep = "dirs"
  <2>1. req = NoRequest
    BY <1>3, <1>6
  <2> DEFINE e == <<>>
  <2>2. IsPlan(e) /\ Range(e) = {} /\ todo' = e \o Tail(todo)
    BY <1>6, NoPieces DEF Then
  <2> HIDE DEF e
  <2>3. Piecewise(e)
    BY <1>1, <1>4, <1>6, <2>1, <2>2, SameAdds DEF Piecewise
  <2> QED BY <1>1, <2>3, PieceStep
<1>7. CASE /\ tb' = associateOwned(tb, v.path, StatOf(v.path), v.owners, v.deep # "no")
           /\ todo' = a \o Tail(todo) /\ req' = req /\ v.path \in DOMAIN fs
  <2>1. StatOf(v.path).obj = fs[v.path]
    BY StatIs
  <2>2. IsPiece(l) /\ l.do = "list" /\ l.owners = v.below
    BY PiecesAre DEF List
  <2> HIDE DEF l
  <2>3. Adds(v.path)
    BY <1>3, <1>7, <2>1, AssociateAdds
  <2>4. IsPlan(a) /\ Range(a) \subseteq {l}
    BY <2>2, OnePiece, NoPieces DEF If
  <2> HIDE DEF a
  <2>5. \A w \in Range(a) : w.do # "finish" /\ Truthful(w, fs) /\ (req # NoRequest => WorksFor(w, req.name))
    BY <1>3, <2>2, <2>4 DEF Truthful, WorksFor
  <2>6. Piecewise(a)
    BY <1>1, <1>4, <1>7, <2>3, <2>4, <2>5 DEF Piecewise, Adds, Registers
  <2> QED BY <1>1, <2>6, PieceStep
<1> QED BY <1>5, <1>6, <1>7 DEF DoRoot, Then, CannotAssociate, v, a, l

(* Work that associates nothing itself: a directory is read. *)
LEMMA ReadStep ==
  ASSUME RollbackInv, HolderOnly, UNCHANGED <<tb, req>>, todo # <<>>, Head(todo).do # "finish",
         NEW a, IsPlan(a), todo' = a \o Tail(todo),
         \A w \in Range(a) : /\ w.do # "finish" /\ (calm => Truthful(w, fs))
                             /\ req # NoRequest => WorksFor(w, req.name),
         req # NoRequest /\ Registers(Head(todo), req.name) => \E w \in Range(a) : Registers(w, req.name)
  PROVE  RollbackInv'
<1>1. Piecewise(a)
  BY SameAdds DEF Piecewise
<1> QED BY <1>1, PieceStep

(* A finite set of paths with names of their own has an order, and only    *)
(* its own paths are in it.                                                *)
Ordered(q) == \A j, k \in DOMAIN q : j < k => Last(q[j]) < Last(q[k])
HasOrder(S) == \E q \in [1..Cardinality(S) -> S] : Ordered(q)
Nameable(S) == (\A p \in S : Last(p) \in Nat) /\ \A p, q \in S : Last(p) = Last(q) => p = q

LEMMA OneMore ==
  ASSUME NEW S, Nameable(S), NEW n \in Nat, NEW p \in S, NEW f \in [1..n -> S \ {p}], Ordered(f),
         \A q \in S : Last(p) <= Last(q)
  PROVE  \E g \in [1..(n + 1) -> S] : Ordered(g)
<1> DEFINE g == [k \in 1..(n + 1) |-> IF k = 1 THEN p ELSE f[k - 1]]
<1>1. g \in [1..(n + 1) -> S] /\ DOMAIN g = 1..(n + 1)
  OBVIOUS
<1>2. g[1] = p /\ \A k \in 1..(n + 1) : k # 1 => k - 1 \in 1..n /\ g[k] = f[k - 1] /\ g[k] \in S \ {p}
  OBVIOUS
<1>3. DOMAIN f = 1..n
  OBVIOUS
<1> HIDE DEF g
<1>4. ASSUME NEW j \in 1..(n + 1), NEW k \in 1..(n + 1), j < k
      PROVE  Last(g[j]) < Last(g[k])
  <2>1. k # 1
    BY <1>4
  <2>2. CASE j = 1
    <3>1. g[k] \in S /\ g[k] # p /\ Last(p) \in Nat /\ Last(g[k]) \in Nat
      BY <1>2, <2>1 DEF Nameable
    <3>2. Last(p) # Last(g[k]) /\ Last(p) <= Last(g[k])
      BY <3>1 DEF Nameable
    <3> QED BY <1>2, <2>2, <3>1, <3>2
  <2>3. CASE j # 1
    <3>1. j - 1 \in 1..n /\ k - 1 \in 1..n /\ j - 1 < k - 1
      BY <1>4, <2>1, <2>3
    <3>2. Last(f[j - 1]) < Last(f[k - 1])
      BY <1>3, <3>1 DEF Ordered
    <3> QED BY <1>2, <2>1, <2>3, <3>2
  <2> QED BY <2>2, <2>3
<1>5. Ordered(g)
  BY <1>1, <1>4 DEF Ordered
<1> QED BY <1>1, <1>5

LEMMA OrderExists ==
  ASSUME NEW S, IsFiniteSet(S), Nameable(S)
  PROVE  HasOrder(S)
<1> DEFINE Bad(n) == \E T \in SUBSET S : Cardinality(T) = n /\ ~HasOrder(T)
           Ns == {n \in Nat : Bad(n)}
<1>1. \A T \in SUBSET S : IsFiniteSet(T) /\ Cardinality(T) \in Nat /\ Nameable(T)
  BY FS_Subset, FS_CardinalityType DEF Nameable
<1>2. ASSUME Ns # {} PROVE FALSE
  <2>1. PICK n \in Ns : \A m \in Ns : n <= m
    BY <1>2, LeastOf
  <2>2. PICK T \in SUBSET S : Cardinality(T) = n /\ ~HasOrder(T)
    BY <2>1
  <2>3. n \in Nat /\ IsFiniteSet(T) /\ Nameable(T)
    BY <1>1, <2>1, <2>2
  <2>4. CASE T = {}
    <3> DEFINE q == [k \in 1..0 |-> 0]
    <3>1. Cardinality(T) = 0
      BY <2>4, FS_EmptySet
    <3>2. q \in [1..0 -> T] /\ Ordered(q)
      BY DEF Ordered
    <3> QED BY <2>2, <3>1, <3>2 DEF HasOrder
  <2>5. CASE T # {}
    <3> DEFINE names == {Last(p) : p \in T}
    <3>1. names \subseteq Nat /\ names # {}
      BY <2>3, <2>5 DEF Nameable
    <3>2. PICK x \in names : \A y \in names : x <= y
      BY <3>1, LeastOf
    <3>3. PICK p \in T : x = Last(p)
      BY <3>2
    <3>4. \A q \in T : Last(p) <= Last(q)
      BY <3>2, <3>3
    <3> DEFINE R == T \ {p}
    <3>5. IsFiniteSet(R) /\ Cardinality(R) = n - 1 /\ n - 1 \in Nat /\ R \in SUBSET S
      <4>1. IsFiniteSet(R) /\ Cardinality(R) = Cardinality(T) - 1
        BY <2>3, FS_RemoveElement
      <4>2. R \in SUBSET S /\ Cardinality(R) \in Nat
        BY <1>1
      <4> QED BY <2>2, <4>1, <4>2
    <3>6. HasOrder(R)
      <4>1. n - 1 \notin Ns
        BY <2>1, <2>3, <3>5
      <4> HIDE DEF R
      <4> QED BY <3>5, <4>1
    <3>7. PICK f \in [1..(n - 1) -> R] : Ordered(f)
      BY <3>5, <3>6 DEF HasOrder
    <3>8. \E g \in [1..(n - 1 + 1) -> T] : Ordered(g)
      BY <2>3, <3>4, <3>5, <3>7, OneMore
    <3> QED BY <2>2, <2>3, <3>8 DEF HasOrder
  <2> QED BY <2>4, <2>5
<1>3. S \in SUBSET S /\ Cardinality(S) \in Nat
  BY <1>1
<1> QED BY <1>2, <1>3

(* The entries of a directory differ in their names. *)
LEMMA EntriesNamed ==
  ASSUME HasTree, NEW x
  PROVE  Nameable(Entries(x))
<1>1. ASSUME NEW p \in Entries(x)
      PROVE  /\ p \in Seq(Names) /\ Len(p) \in Nat /\ Len(p) >= 1 /\ Len(p) = Len(x) + 1 /\ Len(x) \in Nat
             /\ Last(p) = p[Len(p)] /\ \A i \in 1..(Len(p) - 1) : p[i] = x[i]
  <2>1. IsPath(p) /\ p # <<>> /\ Dir(p) = x
    BY DEF Entries, HasTree, IsTree
  <2>2. p \in Seq(Names) /\ Len(p) \in Nat /\ Len(p) >= 1
    BY <2>1, EmptySeq, LenProperties DEF IsPath
  <2>3. Len(p) - 1 \in 0..Len(p)
    BY <2>2
  <2>4. Len(x) = Len(p) - 1 /\ \A i \in 1..(Len(p) - 1) : x[i] = p[i]
    BY <2>1, <2>3, PrefixIs DEF Dir
  <2> QED BY <2>2, <2>4 DEF Last
<1>2. ASSUME NEW p \in Entries(x)
      PROVE  Last(p) \in Nat
  <2>1. p \in Seq(Names) /\ Len(p) \in 1..Len(p) /\ Last(p) = p[Len(p)]
    BY <1>1
  <2>2. p[Len(p)] \in Names
    BY <2>1, ElementOfSeq
  <2> QED BY <2>1, <2>2, FenAssumption
<1>3. ASSUME NEW p \in Entries(x), NEW q \in Entries(x), Last(p) = Last(q)
      PROVE  p = q
  <2>1. Len(p) = Len(q) /\ \A i \in 1..Len(p) : p[i] = q[i]
    BY <1>1, <1>3
  <2> QED BY <1>1, <2>1, SeqEqual
<1> QED BY <1>2, <1>3 DEF Nameable

LEMMA OrderIs ==
  ASSUME HasTree, NEW x, NEW paths, paths \subseteq Entries(x)
  PROVE  /\ Cardinality(paths) \in Nat /\ DOMAIN InOrder(paths) = 1..Cardinality(paths)
         /\ \A k \in DOMAIN InOrder(paths) : InOrder(paths)[k] \in paths
<1>1. IsFiniteSet(paths)
  BY FS_Subset DEF HasTree, Grounded, Entries
<1>2. Cardinality(paths) \in Nat
  BY <1>1, FS_CardinalityType
<1>3. Nameable(paths)
  BY EntriesNamed DEF Nameable
<1>4. HasOrder(paths)
  BY <1>1, <1>3, OrderExists
<1>5. InOrder(paths) = CHOOSE q \in [1..Cardinality(paths) -> paths] : Ordered(q)
  BY DEF InOrder, Ordered
<1>6. InOrder(paths) \in [1..Cardinality(paths) -> paths]
  BY <1>4, <1>5 DEF HasOrder
<1> QED BY <1>2, <1>6

LEMMA EntriesAre ==
  ASSUME HasTree, NEW p
  PROVE  \E n \in Nat : DOMAIN EntriesOf(p) = 1..n /\ \A k \in 1..n : EntriesOf(p)[k] \in Entries(p)
<1> DEFINE paths == IF IsDir(p) THEN Entries(p) ELSE {}
<1>1. paths \subseteq Entries(p)
  OBVIOUS
<1>2. EntriesOf(p) = InOrder(paths)
  BY DEF EntriesOf
<1> HIDE DEF paths
<1> QED BY <1>1, <1>2, OrderIs

(* What a directory is read for, with a stat of each entry. *)
AreVisits(q, n, entries, owners, deep) ==
  /\ q = [k \in 1..n |-> q[k]]
  /\ \A k \in 1..n : \E scan : q[k] = Visit(entries[k], StatOf(entries[k]), owners, scan, deep)

VisitsFor(q, owners) ==
  IsPlan(q) /\ \A w \in Range(q) : w.do = "visit" /\ w.owners = owners /\ Truthful(w, fs)

LEMMA VisitsAre ==
  ASSUME NEW n \in Nat, NEW entries, NEW owners, NEW deep, NEW q, AreVisits(q, n, entries, owners, deep)
  PROVE  VisitsFor(q, owners)
<1> DEFINE S == {q[k] : k \in 1..n}
<1>1. \A k \in 1..n : IsPiece(q[k])
  BY PiecesAre DEF AreVisits
<1>2. \A k \in 1..n : q[k].do = "visit" /\ q[k].owners = owners /\ Truthful(q[k], fs)
  BY StatIs DEF AreVisits, Visit, Truthful
<1>3. q \in [1..n -> S] /\ \A w \in S : IsPiece(w)
  BY <1>1 DEF AreVisits
<1>4. IsPlan(q) /\ Range(q) \subseteq S
  BY <1>3, FunctionPlan
<1> QED BY <1>2, <1>4 DEF VisitsFor

LEMMA ListKeeps ==
  ASSUME RollbackInv, DoList, Sound(tb')
  PROVE  RollbackInv'
<1> DEFINE v == Head(todo)
           paths == {q \in Entries(v.path) : v.deep = "all" \/ IsDir(q)}
           entries == InOrder(paths)
           a == [k \in DOMAIN entries |->
                   Visit(entries[k], StatOf(entries[k]), v.owners, IsDir(entries[k]), v.deep)]
<1>1. todo # <<>> /\ v.do = "list" /\ HolderOnly
  BY DEF DoList, Doing
<1>2. req # NoRequest => WorksFor(v, req.name)
  BY <1>1, HeadWorks
<1>3. CASE ~IsDir(v.path)
  BY <1>1, <1>3, ErrorStep DEF DoList
<1>4. CASE IsDir(v.path)
  <2>1. todo' = a \o Tail(todo) /\ UNCHANGED <<tb, req>>
    BY <1>4 DEF DoList, Then
  <2>2. paths \subseteq Entries(v.path)
    OBVIOUS
  <2>3. req # NoRequest => v.owners = {req.name}
    BY <1>1, <1>2 DEF WorksFor
  <2>4. Head(todo).do # "finish" /\ ~Registers(Head(todo), req.name)
    BY <1>1 DEF Registers
  <2> HIDE DEF paths, v
  <2>5. Cardinality(paths) \in Nat /\ DOMAIN entries = 1..Cardinality(paths)
    BY <2>2, OrderIs DEF RollbackInv
  <2> HIDE DEF entries
  <2> DEFINE n == Cardinality(paths)
  <2>6. AreVisits(a, n, entries, v.owners, v.deep)
    BY <2>5 DEF AreVisits
  <2> HIDE DEF a
  <2>7. VisitsFor(a, v.owners)
    BY <2>5, <2>6, VisitsAre
  <2>8. \A w \in Range(a) : w.do # "finish" /\ (req # NoRequest => WorksFor(w, req.name))
    BY <2>3, <2>7 DEF WorksFor, VisitsFor
  <2> QED BY <1>1, <2>1, <2>4, <2>7, <2>8, ReadStep DEF VisitsFor
<1> QED BY <1>3, <1>4

LEMMA ChildrenKeep ==
  ASSUME RollbackInv, DoChildren, Sound(tb')
  PROVE  RollbackInv'
<1> DEFINE v == Head(todo)
           u == req.name
           entries == EntriesOf(v.path)
           a == [k \in DOMAIN entries |-> Visit(entries[k], StatOf(entries[k]), {u}, FALSE, "no")]
           w == Visit(v.path, v.stat, {u}, TRUE, "no")
           b == <<w>>
           c == a \o b
<1>1. todo # <<>> /\ v.do = "children" /\ HolderOnly
  BY DEF DoChildren, Doing
<1>2. (calm => Truthful(v, fs)) /\ IsPiece(v)
  BY <1>1, HeadWorks
<1>3. CASE ~IsDir(v.path)
  BY <1>1, <1>3, ErrorStep DEF DoChildren
<1>4. CASE IsDir(v.path)
  <2>1. todo' = c \o Tail(todo) /\ UNCHANGED <<tb, req>>
    BY <1>4 DEF DoChildren, Then
  <2>2. Head(todo).do # "finish" /\ Head(todo).path = v.path
    BY <1>1
  <2>3. IsPiece(w)
    <3>1. v.stat \in [obj : {v.stat.obj}, changed : {v.stat.changed}]
      BY <1>2 DEF IsPiece
    <3> HIDE DEF v
    <3> QED BY <3>1, VisitIs
  <2>4. w.do = "visit" /\ w.owners = {u} /\ w.path = v.path /\ (calm => Truthful(w, fs))
    BY <1>1, <1>2 DEF Visit, Truthful
  <2> HIDE DEF v, u, w
  <2>5. PICK n \in Nat : DOMAIN entries = 1..n
    BY EntriesAre DEF RollbackInv
  <2> HIDE DEF entries
  <2>6. AreVisits(a, n, entries, {u}, "no")
    BY <2>5 DEF AreVisits
  <2> HIDE DEF a
  <2>7. VisitsFor(a, {u})
    BY <2>5, <2>6, VisitsAre
  <2>8. IsPlan(b) /\ Range(b) = {w}
    BY <2>3, OnePiece
  <2> HIDE DEF b
  <2>9. IsPlan(c) /\ Range(c) = Range(a) \cup {w}
    BY <2>7, <2>8, JoinPlans DEF Joins, VisitsFor
  <2> HIDE DEF c
  <2>10. \A x \in Range(c) : x.do = "visit" /\ x.owners = {u} /\ (calm => Truthful(x, fs))
    BY <2>4, <2>7, <2>9 DEF VisitsFor
  <2>11. \A x \in Range(c) : x.do # "finish" /\ (req # NoRequest => WorksFor(x, req.name))
    BY <2>10 DEF WorksFor, u
  <2>12. Registers(Head(todo), req.name) => Registers(w, req.name)
    BY <2>2, <2>4 DEF Registers
  <2> QED BY <1>1, <2>1, <2>2, <2>9, <2>10, <2>11, <2>12, ReadStep
<1> QED BY <1>3, <1>4

(* What ends the work: nothing is left of it. *)
LEMMA OverStep ==
  ASSUME RollbackInv, HolderOnly, UsersListed(tb'), calm => KnowsDirs(tb', fs), todo' = <<>>, req' = NoRequest
  PROVE  RollbackInv'
<1>1. fs' = fs /\ fsOps' = fsOps /\ calm' = calm
  BY DEF HolderOnly, treeVars
<1>2. HasTree'
  BY <1>1 DEF RollbackInv, HasTree, IsTree, Grounded, LastNo
<1>3. IsPlan(todo') /\ Range(todo') = {}
  BY NoPieces
<1> QED BY <1>1, <1>2, <1>3 DEF RollbackInv

LEMMA FinishKeeps ==
  ASSUME RollbackInv, Sound(tb'), DoFinish
  PROVE  RollbackInv'
<1>1. todo # <<>> /\ Head(todo).do = "finish" /\ HolderOnly
  BY DEF DoFinish, Doing
<1>2. req # NoRequest
  BY <1>1, HeadWorks
<1>3. AddPlan(todo, req.name, tb) /\ UsersListed(tb) /\ (calm => KnowsDirs(tb, fs)) /\ IsPlan(todo)
  BY <1>2 DEF RollbackInv
<1>4. Heads(todo)
  BY <1>1, <1>3, HeadOfPlan
<1>5. Range(Tail(todo)) = {}
  <2>1. Len(todo) = 1
    BY <1>1, <1>3, <1>4 DEF AddPlan, Ends, Heads
  <2> DEFINE r == Tail(todo)
  <2>2. IsPlan(r) /\ Len(r) = 0
    BY <1>4, <2>1 DEF Heads
  <2> HIDE DEF r
  <2>3. DOMAIN r = {}
    BY <2>2, PlanIs
  <2>4. Range(r) = {}
    BY <2>3 DEF Range
  <2> QED BY <2>4 DEF r
<1>6. req.name \in DOMAIN tb.owners
  BY <1>1, <1>3, <1>4, <1>5 DEF AddPlan, Heads, Registers
<1>7. tb' = addUserWatch(tb, req.name, req.recurse) /\ todo' = <<>> /\ req' = NoRequest
  BY DEF DoFinish
<1>8. Preserves(tb, tb')
  BY <1>3, <1>6, <1>7, AddUserKeeps
<1>9. UsersListed(tb') /\ (calm => KnowsDirs(tb', fs))
  BY <1>3, <1>8 DEF Preserves, Sound
<1> QED BY <1>1, <1>7, <1>9, OverStep

LEMMA UnlockKeeps ==
  ASSUME RollbackInv, DoUnlock
  PROVE  RollbackInv'
<1>1. todo # <<>> /\ Head(todo).do = "unlock" /\ HolderOnly /\ todo' = <<>> /\ UNCHANGED <<tb, req>>
  BY DEF DoUnlock, Doing
<1>2. req = NoRequest
  BY <1>1, HeadWorks DEF WorksFor
<1> QED BY <1>1, <1>2, OverStep DEF RollbackInv

AreEntries(q, n, entries, p) ==
  q = [k \in 1..n |-> q[k]] /\ \A k \in 1..n : q[k] = Entry(entries[k], p)

EntriesFor(q) == IsPlan(q) /\ \A w \in Range(q) : w.do = "entry" /\ Truthful(w, fs)

LEMMA EntryPlan ==
  ASSUME NEW n \in Nat, NEW entries, NEW p, NEW q, AreEntries(q, n, entries, p)
  PROVE  EntriesFor(q)
<1> DEFINE S == {q[k] : k \in 1..n}
<1>1. \A k \in 1..n : IsPiece(q[k])
  BY PiecesAre DEF AreEntries
<1>2. \A k \in 1..n : q[k].do = "entry" /\ Truthful(q[k], fs)
  BY StatIs DEF AreEntries, Entry, Truthful
<1>3. q \in [1..n -> S] /\ \A w \in S : IsPiece(w)
  BY <1>1 DEF AreEntries
<1>4. IsPlan(q) /\ Range(q) \subseteq S
  BY <1>3, FunctionPlan
<1> QED BY <1>2, <1>4 DEF EntriesFor

LEMMA ScanKeeps ==
  ASSUME RollbackInv, DoScan
  PROVE  RollbackInv'
<1> DEFINE p == Head(todo).path
           entries == EntriesOf(p)
           a == [k \in DOMAIN entries |-> Entry(entries[k], p)]
<1>1. /\ todo # <<>> /\ Head(todo).do = "scan" /\ HolderOnly /\ UNCHANGED <<tb, req>>
      /\ todo' = a \o Tail(todo)
  BY DEF DoScan, Doing, Then
<1>2. req = NoRequest
  BY <1>1, HeadWorks DEF WorksFor
<1>3. PICK n \in Nat : DOMAIN entries = 1..n
  BY EntriesAre DEF RollbackInv
<1> HIDE DEF entries, p
<1>4. AreEntries(a, n, entries, p)
  BY <1>3 DEF AreEntries
<1> HIDE DEF a
<1>5. EntriesFor(a)
  BY <1>4, EntryPlan
<1> QED BY <1>1, <1>2, <1>5, ReadStep DEF EntriesFor

LEMMA EntryKeeps ==
  ASSUME RollbackInv, Sound(tb'), DoEntry
  PROVE  RollbackInv'
<1> DEFINE v == Head(todo)
           o == v.stat.obj
           owners == OwnersOf(tb, v.dir)
           recursive == recursiveOwnersFor(tb, v.dir)
           e == <<>>
<1>1. todo # <<>> /\ v.do = "entry" /\ HolderOnly /\ UNCHANGED req
  BY DEF DoEntry, Doing
<1>2. req = NoRequest /\ (calm => Truthful(v, fs))
  BY <1>1, HeadWorks DEF WorksFor
<1>3. IsPlan(e) /\ Range(e) = {} /\ (Then(<<>>) => todo' = e \o Tail(todo))
  BY NoPieces DEF Then
<1>4. /\ UsersListed(tb) /\ IsTable(tb) /\ IsTable(tb') /\ (calm => KnowsDirs(tb, fs))
  BY DEF RollbackInv, Sound, UsersListed
<1>5. Head(todo).do # "finish"
  BY <1>1
<1>6. CASE Then(<<>>) /\ UNCHANGED tb
  <2> HIDE DEF e
  <2>1. Piecewise(e)
    BY <1>1, <1>2, <1>3, <1>5, <1>6, SameAdds DEF Piecewise
  <2> QED BY <1>1, <2>1, PieceStep
<1>7. CASE /\ Then(<<>>) /\ v.path \in DOMAIN fs
           /\ tb' = associateOwned(tb, v.path, v.stat, owners, FALSE)
  <2>1. calm => v.stat.obj = fs[v.path]
    BY <1>1, <1>2, <1>7 DEF Truthful
  <2> HIDE DEF v, owners, e
  <2>2. Adds(v.path)
    BY <1>2, <1>7, <2>1, AssociateAdds
  <2>3. Piecewise(e)
    BY <1>1, <1>2, <1>3, <1>5, <1>7, <2>2 DEF Piecewise, Adds
  <2> QED BY <1>1, <2>3, PieceStep
<1>8. CASE /\ tb' = tb \/ tb' = takeRename(tb, o)
           /\ \E deep : Then(<<Root(v.path, owners, recursive, deep)>>)
  <2>1. PICK deep : Then(<<Root(v.path, owners, recursive, deep)>>)
    BY <1>8
  <2> DEFINE r == Root(v.path, owners, recursive, deep)
             a == <<r>>
  <2>2. IsPiece(r) /\ r.do = "root" /\ todo' = a \o Tail(todo)
    BY <2>1, PiecesAre DEF Root, Then
  <2> HIDE DEF v, o, owners, recursive, e, r
  <2>3. IsPlan(a) /\ Range(a) = {r}
    BY <2>2, OnePiece
  <2> HIDE DEF a
  <2>4. SameTables(tb, tb')
    BY <1>4, <1>8, RingFields DEF SameTables
  <2>5. UsersListed(tb') /\ (calm => KnowsDirs(tb', fs)) /\ DOMAIN tb.owners \subseteq DOMAIN tb'.owners
    BY <1>4, <2>4, SameTablesKeep DEF SameTables
  <2>6. \A w \in Range(a) : w.do # "finish" /\ Truthful(w, fs)
    BY <2>2, <2>3 DEF Truthful
  <2>7. Piecewise(a)
    BY <1>1, <1>2, <1>5, <2>2, <2>3, <2>5, <2>6 DEF Piecewise
  <2> QED BY <1>1, <2>7, PieceStep
<1>9. \/ Then(<<>>) /\ UNCHANGED tb
      \/ /\ Then(<<>>) /\ v.path \in DOMAIN fs
         /\ tb' = associateOwned(tb, v.path, v.stat, owners, FALSE)
      \/ /\ tb' = tb \/ tb' = takeRename(tb, o)
         /\ \E deep : Then(<<Root(v.path, owners, recursive, deep)>>)
  BY DEF DoEntry, CannotAssociate
<1> QED BY <1>6, <1>7, <1>8, <1>9

LEMMA HolderKeeps ==
  ASSUME RollbackInv, Sound(tb'), Holder
  PROVE  RollbackInv'
BY VisitKeeps, RootKeeps, ListKeeps, ChildrenKeep, FinishKeeps, ScanKeeps, EntryKeeps, UnlockKeeps DEF Holder

(* The step leaves the tree and the work alone. *)
LEMMA IdleStep ==
  ASSUME RollbackInv, UNCHANGED <<treeVars, todo, req, calm>>, UsersListed(tb'),
         calm => KnowsDirs(tb', fs), req # NoRequest => SameTables(tb, tb')
  PROVE  RollbackInv'
<1>1. fs' = fs /\ fsOps' = fsOps /\ calm' = calm /\ todo' = todo /\ req' = req
  BY DEF treeVars
<1>2. HasTree'
  BY <1>1 DEF RollbackInv, HasTree, IsTree, Grounded, LastNo
<1>3. req # NoRequest => AddPlan(todo, req.name, tb')
  BY DEF RollbackInv, AddPlan, SameTables
<1>4. calm /\ req # NoRequest /\ req.rollback => GrownBy(tb', req.before, req.name)
  <2>1. UsersListed(tb') => IsTable(tb')
    BY DEF UsersListed
  <2> QED BY <2>1, SameTablesKeep DEF RollbackInv
<1> QED BY <1>1, <1>2, <1>3, <1>4 DEF RollbackInv

LEMMA SameStep ==
  ASSUME RollbackInv, UNCHANGED <<treeVars, todo, req, calm>>, IsTable(tb'), SameTables(tb, tb')
  PROVE  RollbackInv'
<1>1. UsersListed(tb') /\ (calm => KnowsDirs(tb', fs))
  BY SameTablesKeep DEF RollbackInv
<1> QED BY <1>1, IdleStep

(* Once every event is handled the tables say who has watched what. *)
LEMMA QuietTables ==
  ASSUME RollbackInv, HearsInv, OwnersSound, ScanExact, Unlocked, ~closed, calm, Pending = {},
         NEW p, p \notin tb.byUser
  PROVE  GrownBy(tb, Tables(tb), p)
<1>1. IsQueue(tb.queue) /\ IsQueue(batch)
  BY DEF HearsInv, Hears, Sound
<1>2. \A q : IsQueue(q) /\ DOMAIN q = {} => q = <<>>
  <2>1. ASSUME NEW q, IsQueue(q), DOMAIN q = {}
        PROVE  q = <<>>
    <3>1. q \in Seq(Range(q)) /\ Len(q) \in Nat /\ DOMAIN q = 1..Len(q)
      BY <2>1, QueueIs
    <3>2. Len(q) = 0
      BY <2>1, <3>1
    <3> QED BY <3>1, <3>2, EmptySeq
  <2> QED BY <2>1
<1>3. DOMAIN tb.queue = {} /\ DOMAIN batch = {}
  BY DEF Pending
<1>4. Quiet
  BY <1>1, <1>2, <1>3 DEF Quiet
<1>5. /\ \A q \in DOMAIN tb.owners : tb.owners[q] # {} /\ tb.owners[q] \subseteq tb.byUser
      /\ tb.recurse \subseteq tb.byUser
      /\ tb.dirs = {q \in DOMAIN tb.owners : directoryNeedsScan(tb, q)}
  BY <1>4 DEF OwnersSound, ScanExact
<1>6. /\ IsMap(tb.owners) /\ tb.watches \subseteq tb.byUser /\ tb.watches \subseteq DOMAIN tb.owners
  BY DEF RollbackInv, UsersListed
<1> DEFINE b == Tables(tb)
<1>7. /\ b[1] = tb.dirs /\ b[2] = tb.watches /\ b[3] = tb.byUser /\ b[4] = tb.recurse /\ b[5] = tb.owners
      /\ b = <<b[1], b[2], b[3], b[4], b[5]>>
  BY DEF Tables
<1> HIDE DEF b
<1>8. \A q \in DOMAIN b[5] : p \notin b[5][q] /\ b[5][q] # {} /\ tb.owners[q] \ {p} = b[5][q]
  BY <1>5, <1>7
<1>9. \A q \in DOMAIN b[5] : q \in b[1] <=> InfoOf(tb, q).dir /\ (q \in b[3] \/ b[5][q] \cap b[4] # {})
  BY <1>5, <1>7 DEF directoryNeedsScan, recursiveOwnersFor, OwnersOf
<1>10. GrownBy(tb, b, p)
  BY <1>5, <1>6, <1>7, <1>8, <1>9 DEF GrownBy
<1> QED BY <1>10 DEF b

LEMMA AddWithKeeps ==
  ASSUME RollbackInv, HearsInv, OwnersSound, ScanExact, NEW p \in Path, NEW rec, AddWith(p, rec)
  PROVE  RollbackInv'
<1> DEFINE recurse == IF p \in tb.byUser THEN p \in tb.recurse ELSE rec
           v == IF recurse THEN Root(p, {p}, {p}, "all")
                ELSE IF IsDir(p) THEN Children(p) ELSE Visit(p, StatOf(p), {p}, FALSE, "no")
           a == <<v>>
           b == <<Finish>>
           c == a \o b
<1>1. todo' = c
  BY DEF AddWith
<1>2. /\ UNCHANGED tb /\ fs' = fs /\ fsOps' = fsOps /\ Unlocked /\ ~closed
      /\ calm' = (calm /\ Pending = {})
  BY DEF AddWith, CanCall, CallOnly, treeVars
<1>3. req'.name = p /\ req'.before = Tables(tb) /\ (req'.rollback => p \notin tb.byUser)
  BY DEF AddWith
<1>4. req' # NoRequest
  BY <1>3, PathNotEmpty DEF NoRequest
<1>5. v = Root(p, {p}, {p}, "all") \/ v = Children(p) \/ v = Visit(p, StatOf(p), {p}, FALSE, "no")
  OBVIOUS
<1> HIDE DEF v
<1>6. IsPiece(v) /\ Truthful(v, fs) /\ WorksFor(v, p) /\ Registers(v, p) /\ v.do # "finish"
  <2>1. CASE v = Root(p, {p}, {p}, "all")
    <3>1. IsPiece(v)
      BY <2>1, PiecesAre
    <3>2. v.do = "root" /\ v.owners = {p} /\ v.below = {p} /\ v.deep = "all" /\ v.path = p
      BY <2>1 DEF Root
    <3> QED BY <3>1, <3>2 DEF Truthful, WorksFor, Registers
  <2>2. CASE v = Children(p)
    <3>1. IsPiece(v)
      BY <2>2, PiecesAre
    <3>2. v.do = "children" /\ v.path = p /\ v.stat.obj = fs[p]
      BY <2>2, StatIs DEF Children
    <3> QED BY <3>1, <3>2 DEF Truthful, WorksFor, Registers
  <2>3. CASE v = Visit(p, StatOf(p), {p}, FALSE, "no")
    <3>1. IsPiece(v)
      BY <2>3, PiecesAre
    <3>2. v.do = "visit" /\ v.owners = {p} /\ v.path = p /\ v.stat.obj = fs[p]
      BY <2>3, StatIs DEF Visit
    <3> QED BY <3>1, <3>2 DEF Truthful, WorksFor, Registers
  <2> QED BY <1>5, <2>1, <2>2, <2>3
<1>7. /\ IsPlan(a) /\ Range(a) = {v} /\ DOMAIN a = {1} /\ a[1] = v /\ Len(a) = 1
  BY <1>6, OnePiece
<1>8. IsPiece(Finish) /\ Finish.do = "finish"
  BY PiecesAre DEF Finish
<1>9. /\ IsPlan(b) /\ Range(b) = {Finish} /\ DOMAIN b = {1} /\ b[1] = Finish /\ Len(b) = 1
  BY <1>8, OnePiece
<1> HIDE DEF a, b
<1>10. Joins(c, a, b)
  BY <1>7, <1>9, JoinPlans
<1> HIDE DEF c
<1>11. IsPlan(c) /\ Range(c) = {v, Finish}
  BY <1>7, <1>9, <1>10 DEF Joins
<1>12. Ends(c)
  <2>1. DOMAIN c = 1..2 /\ Len(c) = 2 /\ c[1] = v /\ c[1 + 1] = Finish
    BY <1>7, <1>9, <1>10 DEF Joins
  <2>2. c # <<>>
    BY <2>1
  <2>3. \A k \in 1..2 : c[k].do = "finish" <=> k = 2
    BY <1>6, <1>8, <2>1
  <2> QED BY <2>1, <2>2, <2>3 DEF Ends
<1>13. AddPlan(c, p, tb)
  BY <1>6, <1>8, <1>11, <1>12 DEF AddPlan, WorksFor
<1>14. \A w \in Range(c) : Truthful(w, fs)
  BY <1>6, <1>8, <1>11 DEF Truthful
<1>15. calm' /\ req'.rollback => GrownBy(tb, Tables(tb), p)
  BY <1>2, <1>3, QuietTables
<1>16. HasTree'
  BY <1>2 DEF RollbackInv, HasTree, IsTree, Grounded, LastNo
<1>17. UsersListed(tb) /\ (calm' => KnowsDirs(tb, fs))
  BY <1>2 DEF RollbackInv
<1> QED BY <1>1, <1>2, <1>3, <1>4, <1>11, <1>13, <1>14, <1>15, <1>16, <1>17 DEF RollbackInv

LEMMA RemoveKeeps ==
  ASSUME RollbackInv, Sound(tb'), NEW p, NEW rec, RemoveWatch(p, rec)
  PROVE  RollbackInv'
<1>1. /\ UNCHANGED <<treeVars, todo, req, calm>> /\ todo = <<>> /\ tb' = releaseOwner(tb, p)
  BY DEF RemoveWatch, CanCall, CallOnly, Unlocked
<1>2. req = NoRequest
  BY <1>1 DEF RollbackInv, AddPlan, Ends
<1>3. UsersListed(tb) /\ (calm => KnowsDirs(tb, fs))
  BY DEF RollbackInv
<1>4. Preserves(tb, tb')
  BY <1>1, <1>3, ReleaseKeeps
<1>5. UsersListed(tb') /\ (calm => KnowsDirs(tb', fs))
  BY <1>3, <1>4 DEF Preserves, Sound
<1> QED BY <1>1, <1>2, <1>5, IdleStep

LEMMA FreeStep ==
  ASSUME RollbackInv, Unlocked
  PROVE  req = NoRequest
BY DEF RollbackInv, AddPlan, Ends, Unlocked

LEMMA GetKeeps ==
  ASSUME RollbackInv, IsTable(tb), Get
  PROVE  RollbackInv'
<1>1. UNCHANGED <<treeVars, todo, req, calm>>
  BY DEF Get
<1>2. \A q : LET r == [tb EXCEPT !.queue = q] IN IsTable(r) /\ SameTables(tb, r)
  BY DEF IsTable, SameTables
<1>3. tb' = tb \/ \E q : tb' = [tb EXCEPT !.queue = q]
  BY DEF Get
<1>4. IsTable(tb') /\ SameTables(tb, tb')
  <2>1. CASE tb' = tb
    BY <2>1 DEF SameTables
  <2>2. CASE \E q : tb' = [tb EXCEPT !.queue = q]
    BY <1>2, <2>2
  <2> QED BY <1>3, <2>1, <2>2
<1> QED BY <1>1, <1>4, SameStep

LEMMA PortClosed ==
  ASSUME RollbackInv, IsTable(tb), NEW c, ClosePort(c)
  PROVE  RollbackInv'
<1>1. UNCHANGED <<treeVars, todo, req, calm>>
  BY DEF ClosePort
<1>2. IsTable(tb') /\ SameTables(tb, tb')
  BY DEF ClosePort, IsTable, SameTables
<1> QED BY <1>1, <1>2, SameStep

LEMMA ScanPlan ==
  ASSUME NEW p, NEW f
  PROVE  LET q == <<Scan(p), Unlock>>
         IN  IsPlan(q) /\ \A v \in Range(q) : v.do # "finish" /\ Truthful(v, f)
<1> DEFINE s == Scan(p)
           S == {s, Unlock}
           q == <<s, Unlock>>
<1>1. IsPiece(s) /\ IsPiece(Unlock)
  BY PiecesAre
<1>2. s.do = "scan" /\ Unlock.do = "unlock"
  BY DEF Scan, Unlock
<1> HIDE DEF s
<1>3. q \in Seq(S)
  OBVIOUS
<1> HIDE DEF q
<1>4. IsPlan(q) /\ Range(q) \subseteq S
  BY <1>1, <1>3, PlanOver
<1>5. IsPlan(q) /\ \A v \in Range(q) : v.do # "finish" /\ Truthful(v, f)
  BY <1>2, <1>4 DEF Truthful
<1> QED BY <1>5 DEF q, s

LEMMA HandleKeeps ==
  ASSUME RollbackInv, Sound(tb'), Handle
  PROVE  RollbackInv'
<1> DEFINE e == Head(batch)
           t == IF e.act = "rename from" /\ e.dir THEN rememberRename(tb, e.path) ELSE tb
<1>1. UNCHANGED <<treeVars, req, calm>> /\ Unlocked /\ req = NoRequest
  BY FreeStep DEF Handle
<1>2. UsersListed(tb) /\ IsTable(tb) /\ IsTable(tb') /\ (calm => KnowsDirs(tb, fs))
  BY DEF RollbackInv, UsersListed, Sound
<1>3. /\ todo' = todo \/ \E p : todo' = <<Scan(p), Unlock>>
      /\ \/ tb' = tb
         \/ tb' = dropPhysical(t, e.path, e.act # "delete" /\ e.dir)
         \/ tb' = dropPhysical(tb, e.path, FALSE)
         \/ tb' = associateFileLocked(tb, e.path, StatOf(e.path))
  BY DEF Handle
<1>4. IsTable(t) /\ SameTables(tb, t)
  BY <1>2, RingFields DEF SameTables
<1> HIDE DEF t, e
<1>5. UsersListed(t) /\ (calm => KnowsDirs(t, fs))
  BY <1>2, <1>4, SameTablesKeep
<1>6. UsersListed(tb') /\ (calm => KnowsDirs(tb', fs))
  <2>1. CASE tb' = tb
    BY <1>2, <2>1
  <2>2. CASE tb' = dropPhysical(t, e.path, e.act # "delete" /\ e.dir)
    <3>1. Preserves(t, tb')
      BY <1>5, <2>2, DropKeeps
    <3> QED BY <1>2, <1>5, <3>1 DEF Preserves
  <2>3. CASE tb' = dropPhysical(tb, e.path, FALSE)
    <3>1. Preserves(tb, tb')
      BY <1>2, <2>3, DropKeeps
    <3> QED BY <1>2, <3>1 DEF Preserves
  <2>4. CASE tb' = associateFileLocked(tb, e.path, StatOf(e.path))
    <3>1. SameTables(tb, tb')
      BY <1>2, <2>4, AssociateFields
    <3> QED BY <1>2, <3>1, SameTablesKeep
  <2> QED BY <1>3, <2>1, <2>2, <2>3, <2>4
<1>7. fs' = fs /\ fsOps' = fsOps /\ calm' = calm /\ req' = NoRequest
  BY <1>1 DEF treeVars
<1>8. HasTree'
  BY <1>7 DEF RollbackInv, HasTree, IsTree, Grounded, LastNo
<1>9. IsPlan(todo') /\ \A v \in Range(todo') : v.do # "finish" /\ (calm => Truthful(v, fs))
  <2>1. CASE todo' = todo
    BY <1>1, <2>1 DEF RollbackInv
  <2>2. CASE \E p : todo' = <<Scan(p), Unlock>>
    BY <2>2, ScanPlan
  <2> QED BY <1>3, <2>1, <2>2
<1> QED BY <1>6, <1>7, <1>8, <1>9 DEF RollbackInv

LEMMA AlikeWorks ==
  ASSUME NEW v, NEW w, IsPiece(v), Alike(v, w), NEW u
  PROVE  /\ WorksFor(v, u) => WorksFor(w, u)
         /\ Registers(v, u) => Registers(w, u)
<1>1. w.do = v.do
  BY DEF Alike
<1>2. v.do \in {"visit", "root", "list"} => w.owners = v.owners
  BY DEF Alike, IsPiece
<1>3. v.do = "root" => w.below = v.below /\ w.deep = v.deep
  BY DEF Alike, IsPiece
<1>4. v.do \notin {"finish", "unlock"} => w.path = v.path
  BY DEF Alike, IsPiece
<1>5. WorksFor(v, u) => WorksFor(w, u)
  BY <1>1, <1>2, <1>3 DEF WorksFor
<1>6. Registers(v, u) => Registers(w, u)
  BY <1>1, <1>4 DEF Registers
<1> QED BY <1>5, <1>6

LEMMA TreeKeeps ==
  ASSUME RollbackInv, Sound(tb), Sound(tb'), TreeChanges
  PROVE  RollbackInv'
<1>1. HasTree'
  BY TreeTakes DEF RollbackInv
<1>2. PICK ps : Takes(ps) /\ OnlyAt(ps)
  BY TreeTakes DEF RollbackInv
<1>3. SameTables(tb, tb') /\ IsTable(tb')
  BY TreeFields DEF Sound
<1>4. PICK os : MarkChanged(os)
  BY TreeFields
<1>5. IsPlan(todo) /\ AlikePlans(todo, todo')
  BY <1>4, MarkedPlan DEF RollbackInv
<1>6. /\ IsPlan(todo') /\ DOMAIN todo' = DOMAIN todo /\ Len(todo') = Len(todo)
      /\ \A k \in DOMAIN todo : Alike(todo[k], todo'[k]) /\ IsPiece(todo[k]) /\ todo[k] \in Range(todo)
      /\ \A w \in Range(todo') : \E k \in DOMAIN todo : todo'[k] = w
      /\ \A v \in Range(todo) : \E k \in DOMAIN todo : todo[k] = v
      /\ \A k \in DOMAIN todo : todo'[k] \in Range(todo')
  BY <1>5, PlanIs DEF AlikePlans
<1>7. \A k \in DOMAIN todo : todo'[k].do = todo[k].do
  BY <1>6 DEF Alike
<1>8. req' = req
  BY DEF TreeChanges
<1>9. calm' => calm /\ ps \cap (DOMAIN tb.owners \cup Planned) = {}
  BY <1>2 DEF Takes
<1>10. req = NoRequest => \A v \in Range(todo') : v.do # "finish"
  BY <1>6, <1>7 DEF RollbackInv
<1>11. ASSUME req # NoRequest PROVE AddPlan(todo', req.name, tb')
  <2>1. AddPlan(todo, req.name, tb)
    BY <1>11 DEF RollbackInv
  <2>2. Ends(todo')
    <3>1. todo # <<>> => todo' # <<>>
      BY <1>4 DEF MarkChanged
    <3> QED BY <1>6, <1>7, <2>1, <3>1 DEF AddPlan, Ends
  <2>3. \A v \in Range(todo') : WorksFor(v, req.name)
    BY <1>6, <2>1, AlikeWorks DEF AddPlan
  <2>4. req.name \in DOMAIN tb'.owners \/ \E v \in Range(todo') : Registers(v, req.name)
    BY <1>3, <1>6, <2>1, AlikeWorks DEF AddPlan, SameTables
  <2> QED BY <2>2, <2>3, <2>4 DEF AddPlan
<1>12. calm' => KnowsDirs(tb', fs')
  BY <1>2, <1>3, <1>9 DEF RollbackInv, KnowsDirs, OnlyAt, SameTables, InfoOf
<1>13. ASSUME calm', NEW k \in DOMAIN todo
       PROVE  Truthful(todo'[k], fs')
  <2> DEFINE v == todo[k]
             w == todo'[k]
  <2>1. CASE v.do \in {"visit", "children", "entry"}
    <3>1. "path" \in DOMAIN v /\ Truthful(v, fs) /\ Alike(v, w)
      BY <1>6, <1>9, <1>13, <2>1 DEF RollbackInv, IsPiece
    <3>2. v.path \notin ps
      BY <1>9, <1>13, <3>1 DEF Planned
    <3> HIDE DEF v, w
    <3>3. w.path = v.path /\ w.stat.obj = v.stat.obj
      BY <3>1 DEF Alike
    <3>4. v.path \in DOMAIN fs' => v.path \in DOMAIN fs /\ fs'[v.path] = fs[v.path]
      BY <1>2, <3>2 DEF OnlyAt
    <3> QED BY <2>1, <3>1, <3>3, <3>4 DEF Truthful, w
  <2>2. CASE v.do \notin {"visit", "children", "entry"}
    BY <1>7, <2>2 DEF Truthful
  <2> QED BY <2>1, <2>2
<1>14. calm' => \A v \in Range(todo') : Truthful(v, fs')
  BY <1>6, <1>13
<1>15. UsersListed(tb')
  BY <1>3, SameTablesKeep DEF RollbackInv
<1>16. calm' /\ req # NoRequest /\ req.rollback => GrownBy(tb', req.before, req.name)
  BY <1>3, <1>9, SameTablesKeep DEF RollbackInv
<1> QED BY <1>1, <1>6, <1>8, <1>10, <1>11, <1>12, <1>14, <1>15, <1>16 DEF RollbackInv

LEMMA NextKeeps ==
  ASSUME RollbackInv, HearsInv, HearsInv', OwnersSound, ScanExact, [Next]_vars
  PROVE  RollbackInv'
<1>1. Sound(tb) /\ Sound(tb') /\ IsTable(tb)
  BY DEF HearsInv, Hears, Sound
<1>2. CASE Holder
  BY <1>1, <1>2, HolderKeeps
<1>3. CASE Get \/ Handle
  BY <1>1, <1>3, GetKeeps, HandleKeeps
<1>4. ASSUME NEW c, ClosePort(c) PROVE RollbackInv'
  BY <1>1, <1>4, PortClosed
<1>5. ASSUME UNCHANGED <<treeVars, tb, todo, req, calm>> PROVE RollbackInv'
  BY <1>1, <1>5, SameStep DEF SameTables
<1>6. ASSUME NEW c, CloseFlag(c) \/ CloseReturn(c) PROVE RollbackInv'
  BY <1>5, <1>6 DEF CloseFlag, CloseReturn
<1>7. CASE Send \/ StopReceiving \/ UNCHANGED vars
  BY <1>5, <1>7 DEF Send, StopReceiving, vars
<1>8. ASSUME NEW p \in PlainPaths \cup RecursivePaths, NEW rec, AddWith(p, rec) \/ RemoveWatch(p, rec)
      PROVE  RollbackInv'
  <2>1. p \in Path
    BY FenAssumption
  <2> QED BY <1>1, <1>8, <2>1, AddWithKeeps, RemoveKeeps
<1>9. CASE TreeChanges
  BY <1>1, <1>9, TreeKeeps
<1> QED BY <1>2, <1>3, <1>4, <1>6, <1>7, <1>8, <1>9 DEF Next, Reader, CloseStep

LEMMA InitRolls ==
  ASSUME Init
  PROVE  RollbackInv
<1>1. HasTree
  BY InitTree, InitGrounded DEF Init, HasTree
<1>2. /\ tb.owners = <<>> /\ IsTable(tb) /\ tb.watches = {} /\ todo = <<>> /\ req = NoRequest
  BY DEF Init, WatchesInit, IsTable
<1>3. UsersListed(tb)
  BY <1>2 DEF UsersListed, IsMap
<1>4. KnowsDirs(tb, fs)
  BY <1>2 DEF KnowsDirs
<1>5. IsPlan(todo) /\ Range(todo) = {}
  BY <1>2, NoPieces
<1> QED BY <1>1, <1>2, <1>3, <1>4, <1>5 DEF RollbackInv

LEMMA ErrorRestores ==
  ASSUME RollbackInv, calm, req # NoRequest, Error, req.rollback
  PROVE  Tables(tb') = req.before
<1>1. UsersListed(tb) /\ GrownBy(tb, req.before, req.name)
  BY DEF RollbackInv
<1>2. tb' = releaseOwner(tb, req.name)
  BY DEF Error
<1> QED BY <1>1, <1>2, ReleaseRestores

(* RC-017: an AddWith that fails leaves every table as it was before the   *)
(* call, however far its walk has come and whatever Close and the tree do  *)
(* meanwhile, if the tables were exact when it began: whoever owns a path  *)
(* still watches, and the directories that are scanned are those that have *)
(* to be (backend_fen.go: AddWith and addRecursive 326-411, releaseOwner   *)
(* 197-238).                                                               *)
THEOREM RollbackFollows == Spec /\ [](OwnersSound /\ ScanExact) => RollbackExact
<1> DEFINE Step == calm /\ req # NoRequest /\ Error /\ req.rollback => Tables(tb') = req.before
<1>1. Init => RollbackInv
  BY InitRolls
<1>2. RollbackInv /\ HearsInv /\ HearsInv' /\ OwnersSound /\ ScanExact /\ [Next]_vars => RollbackInv'
  BY NextKeeps
<1>3. RollbackInv => [Step]_vars
  BY ErrorRestores
<1>4. Spec => []HearsInv
  BY InvAlways, PTL
<1>5. Spec /\ [](OwnersSound /\ ScanExact) => [][Step]_vars
  <2> HIDE DEF Step
  <2> QED BY <1>1, <1>2, <1>3, <1>4, PTL DEF Spec
<1> QED BY <1>5 DEF RollbackExact

-----------------------------------------------------------------------------
(* Owners and scans as long as no event strands anything.                  *)
-----------------------------------------------------------------------------
Fit(owners, p, S) == owners # {} /\ owners \subseteq S /\ \A u \in owners : Under(p, u)

(* What is kept is kept for an owned path; owners are in S and above it.   *)
TablesFit(t, S) ==
  /\ DOMAIN t.assoc \subseteq DOMAIN t.owners
  /\ DOMAIN t.info \subseteq DOMAIN t.owners /\ t.dirs \subseteq DOMAIN t.owners
  /\ t.recurse \subseteq t.byUser
  /\ \A u \in t.byUser : u \in OwnersOf(t, u)
  /\ \A p \in DOMAIN t.owners : Fit(t.owners[p], p, S)

(* The directories that are known as such are scanned if a user wants it:  *)
(* one that gave the path itself, of U or not, or a recursive one in R.    *)
Wants(t, p, owners, R, U) == p \in t.byUser \/ owners \cap R # {} \/ (p \in U /\ p \in owners)
ScanFits(t, p, f, R, U) ==
  /\ p \in DOMAIN f /\ InfoOf(t, p).dir => f[p].dir
  /\ p \in t.dirs <=> InfoOf(t, p).dir /\ Wants(t, p, t.owners[p], R, U)
ScansFit(t, f, R, U) == \A p \in DOMAIN t.owners : ScanFits(t, p, f, R, U)

MoreOwners(t, r) ==
  /\ r.byUser = t.byUser /\ r.recurse = t.recurse
  /\ \A p \in DOMAIN t.owners : p \in DOMAIN r.owners /\ t.owners[p] \subseteq r.owners[p]

(* The associations of a table that is changed. *)
LEMMA PortAssocs ==
  ASSUME NEW t, IsTable(t), NEW ps, NEW os, NEW act
  PROVE  /\ DOMAIN dissociate(t, ps).assoc = DOMAIN t.assoc \ ps
         /\ DOMAIN Fire(t, os, act).assoc \subseteq DOMAIN t.assoc
<1>1. dissociate(t, ps).assoc = Restrict(t.assoc, DOMAIN t.assoc \ ps)
  BY DEF IsTable, dissociate
<1>2. \E qs : Fire(t, os, act).assoc = Restrict(t.assoc, DOMAIN t.assoc \ qs)
  BY DEF IsTable, Fire
<1> QED BY <1>1, <1>2 DEF Restrict

LEMMA AssociateAssocs ==
  ASSUME NEW t, IsTable(t), NEW p, NEW stat, NEW owners, NEW scan
  PROVE  /\ DOMAIN associateFileLocked(t, p, stat).assoc \subseteq DOMAIN t.assoc \cup {p}
         /\ associateOwned(t, p, stat, owners, scan).assoc = associateFileLocked(t, p, stat).assoc
<1> DEFINE d == dissociate(t, {p})
           r == associateFileLocked(t, p, stat)
           s == associateOwned(t, p, stat, owners, scan)
           r1 == IF stat.obj.dir THEN [r EXCEPT !.info = Assign(@, p, stat.obj)] ELSE r
           now == [obj |-> fs[p], dir |-> stat.obj.dir]
           e == Event(p, "modified", stat.obj.dir)
<1>1. IsTable(d) /\ DOMAIN d.assoc \subseteq DOMAIN t.assoc
  BY PortFields, PortAssocs
<1>2. r = [d EXCEPT !.queue = Append(@, e)] \/ r = [d EXCEPT !.assoc = Assign(@, p, now)]
  BY DEF associateFileLocked
<1>3. s = [r1 EXCEPT !.dirs = IF stat.obj.dir /\ scan THEN @ \cup {p} ELSE @,
                     !.owners = Assign(@, p, OwnersOf(t, p) \cup owners)]
  BY DEF associateOwned
<1>4. IsTable(r)
  BY AssociateFields
<1> HIDE DEF d, r, s, now, e
<1>5. DOMAIN r.assoc \subseteq DOMAIN t.assoc \cup {p}
  BY <1>1, <1>2 DEF IsTable, Assign
<1>6. IsTable(r1) /\ r1.assoc = r.assoc
  BY <1>4 DEF IsTable
<1> HIDE DEF r1
<1>7. s.assoc = r.assoc
  BY <1>3, <1>6 DEF IsTable
<1> QED BY <1>5, <1>7 DEF r, s

LEMMA ForgetAssocs ==
  ASSUME NEW t, IsTable(t), NEW ps, NEW gone
  PROVE  DOMAIN Forget(t, ps, gone).assoc = DOMAIN t.assoc \ gone
<1> DEFINE d == [t EXCEPT !.dirs = @ \ ps, !.watches = @ \ ps,
                          !.owners = Restrict(@, DOMAIN @ \ ps), !.info = Restrict(@, DOMAIN @ \ ps)]
<1>1. IsTable(d) /\ d.assoc = t.assoc
  BY DEF IsTable
<1>2. Forget(t, ps, gone) = dissociate(d, gone)
  BY DEF Forget
<1> HIDE DEF d
<1> QED BY <1>1, <1>2, PortAssocs

LEMMA ReleaseAssocs ==
  ASSUME NEW t, IsTable(t), NEW u
  PROVE  DOMAIN releaseOwner(t, u).assoc = DOMAIN t.assoc \ OnlyOwned(t, u)
<1> DEFINE t1 == [t EXCEPT !.byUser = @ \ {u}, !.recurse = @ \ {u}, !.watches = @ \ {u},
                           !.owners = [p \in DOMAIN @ |-> @[p] \ {u}]]
           none == {p \in DOMAIN t1.owners : t1.owners[p] = {}}
           kept == {p \in t1.dirs : p \in DOMAIN t1.owners => directoryNeedsScan(t1, p)}
           t2 == [t1 EXCEPT !.dirs = kept]
<1>1. /\ IsTable(t1) /\ t1.assoc = t.assoc
      /\ t1.owners = [p \in DOMAIN t.owners |-> t.owners[p] \ {u}]
  BY DEF IsTable
<1>2. releaseOwner(t, u) = Forget(t2, none, none)
  BY DEF releaseOwner
<1> HIDE DEF t1
<1>3. none = OnlyOwned(t, u)
  BY <1>1 DEF OnlyOwned
<1> HIDE DEF kept, none
<1>4. IsTable(t2) /\ t2.assoc = t1.assoc
  BY <1>1 DEF IsTable
<1> HIDE DEF t2
<1> QED BY <1>1, <1>2, <1>3, <1>4, ForgetAssocs

DropsMore(t, r, p, tree) ==
  /\ DOMAIN r.assoc = DOMAIN t.assoc \ (Dropped(t, p, tree) \ {p})
  /\ r.dirs = t.dirs \ Dropped(t, p, tree) /\ r.recurse = Unhit(t.recurse, p, tree)

LEMMA DropAssocs ==
  ASSUME NEW t, IsTable(t), NEW p, NEW tree
  PROVE  DropsMore(t, dropPhysical(t, p, tree), p, tree)
<1> DEFINE r == dropPhysical(t, p, tree)
           ps == Dropped(t, p, tree)
           t1 == Forget(t, ps, ps \ {p})
<1>1. r = [t1 EXCEPT !.byUser = Unhit(@, p, tree), !.recurse = Unhit(@, p, tree)]
  BY DEF dropPhysical, Unhit, HitBy, Dropped
<1> HIDE DEF ps, r
<1>2. /\ IsTable(t1) /\ t1.recurse = t.recurse /\ t1.dirs = t.dirs \ ps
      /\ DOMAIN t1.assoc = DOMAIN t.assoc \ (ps \ {p})
  BY ForgetFields, ForgetAssocs DEF Forgot
<1> HIDE DEF t1
<1>3. r.recurse = Unhit(t1.recurse, p, tree) /\ r.dirs = t1.dirs /\ r.assoc = t1.assoc
  BY <1>1, <1>2 DEF IsTable
<1> QED BY <1>2, <1>3 DEF r, ps, DropsMore

(* What an association does. *)
LEMMA AssociateFits ==
  ASSUME NEW t, IsTable(t), NEW S, TablesFit(t, S), NEW p, NEW stat, NEW owners, Fit(owners, p, S), NEW scan
  PROVE  LET r == associateOwned(t, p, stat, owners, scan)
         IN  TablesFit(r, S) /\ MoreOwners(t, r)
<1> DEFINE r == associateOwned(t, p, stat, owners, scan)
           now == OwnersOf(t, p) \cup owners
<1>1. Associated(t, r, p, stat, owners, scan)
  BY AssociateOwnedFields
<1>2. DOMAIN r.assoc \subseteq DOMAIN t.assoc \cup {p}
  BY AssociateAssocs
<1> HIDE DEF r
<1>3. /\ r.byUser = t.byUser /\ r.recurse = t.recurse
      /\ r.owners = Assign(t.owners, p, now) /\ r.dirs \subseteq t.dirs \cup {p}
  BY <1>1 DEF Associated
<1>4. DOMAIN r.info \subseteq DOMAIN t.info \cup {p}
  <2>1. r.info = Assign(t.info, p, stat.obj) \/ r.info = t.info
    BY <1>1 DEF Associated
  <2>2. DOMAIN Assign(t.info, p, stat.obj) = DOMAIN t.info \cup {p}
    BY DEF Assign
  <2> QED BY <2>1, <2>2
<1>5. IsAssigned(r.owners, t.owners, p, now)
  BY <1>3, AssignIs
<1>6. Fit(now, p, S)
  BY DEF OwnersOf, TablesFit, Fit
<1>7. \A q \in DOMAIN t.owners : t.owners[q] \subseteq r.owners[q]
  BY <1>5 DEF IsAssigned, OwnersOf
<1> HIDE DEF now
<1>8. MoreOwners(t, r)
  BY <1>3, <1>5, <1>7 DEF MoreOwners, IsAssigned
<1>9. \A q \in DOMAIN r.owners : Fit(r.owners[q], q, S)
  BY <1>5, <1>6 DEF IsAssigned, TablesFit
<1>10. \A u \in r.byUser : u \in OwnersOf(r, u)
  BY <1>3, <1>8 DEF MoreOwners, OwnersOf, TablesFit
<1>11. /\ DOMAIN r.assoc \subseteq DOMAIN r.owners
       /\ DOMAIN r.info \subseteq DOMAIN r.owners /\ r.dirs \subseteq DOMAIN r.owners
       /\ r.recurse \subseteq r.byUser
  BY <1>2, <1>3, <1>4, <1>5 DEF IsAssigned, TablesFit
<1>12. TablesFit(r, S)
  BY <1>9, <1>10, <1>11 DEF TablesFit
<1> QED BY <1>8, <1>12 DEF r

LEMMA AssociateScans ==
  ASSUME NEW t, IsTable(t), NEW S, TablesFit(t, S), NEW f, NEW R, NEW U, ScansFit(t, f, R, U),
         NEW p \in DOMAIN f, NEW stat, stat.obj = f[p], NEW owners, NEW scan,
         stat.obj.dir => (scan \/ p \in t.dirs <=> Wants(t, p, OwnersOf(t, p) \cup owners, R, U))
  PROVE  ScansFit(associateOwned(t, p, stat, owners, scan), f, R, U)
<1> DEFINE r == associateOwned(t, p, stat, owners, scan)
           now == OwnersOf(t, p) \cup owners
<1>1. Associated(t, r, p, stat, owners, scan)
  BY AssociateOwnedFields
<1> HIDE DEF r
<1>2. /\ r.byUser = t.byUser
      /\ r.owners = Assign(t.owners, p, now)
      /\ r.dirs = (IF stat.obj.dir /\ scan THEN t.dirs \cup {p} ELSE t.dirs)
      /\ r.info = (IF stat.obj.dir THEN Assign(t.info, p, stat.obj) ELSE t.info)
  BY <1>1 DEF Associated
<1>3. IsAssigned(r.owners, t.owners, p, now)
  BY <1>2, AssignIs
<1>4. \A q : q # p => InfoOf(r, q) = InfoOf(t, q)
  BY <1>2 DEF InfoOf, Assign
<1>5. InfoOf(r, p) = IF stat.obj.dir THEN stat.obj ELSE InfoOf(t, p)
  BY <1>2 DEF InfoOf, Assign
<1>6. \A q : Wants(r, q, OwnersOf(r, q), R, U) <=> Wants(t, q, OwnersOf(r, q), R, U)
  BY <1>2 DEF Wants
<1>7. ASSUME NEW q \in DOMAIN r.owners, q # p
      PROVE  ScanFits(r, q, f, R, U)
  <2>1. q \in DOMAIN t.owners /\ r.owners[q] = t.owners[q] /\ InfoOf(r, q) = InfoOf(t, q)
    BY <1>3, <1>4, <1>7 DEF IsAssigned
  <2>2. q \in r.dirs <=> q \in t.dirs
    BY <1>2, <1>7
  <2> QED BY <1>2, <2>1, <2>2 DEF ScansFit, ScanFits, Wants
<1>8. ASSUME stat.obj.dir PROVE ScanFits(r, p, f, R, U)
  <2>1. InfoOf(r, p).dir /\ f[p].dir
    BY <1>5, <1>8
  <2>2. p \in r.dirs <=> scan \/ p \in t.dirs
    BY <1>2, <1>8
  <2>3. p \in r.dirs <=> Wants(r, p, now, R, U)
    BY <1>2, <1>8, <2>2 DEF Wants
  <2>4. r.owners[p] = now
    BY <1>3 DEF IsAssigned
  <2> QED BY <2>1, <2>3, <2>4 DEF ScanFits
<1>9. ASSUME ~stat.obj.dir PROVE ScanFits(r, p, f, R, U)
  <2>1. InfoOf(r, p) = InfoOf(t, p) /\ r.dirs = t.dirs /\ ~f[p].dir
    BY <1>2, <1>5, <1>9
  <2>2. ~InfoOf(t, p).dir /\ p \notin t.dirs
    <3>1. CASE p \in DOMAIN t.owners
      BY <2>1, <3>1 DEF ScansFit, ScanFits
    <3>2. CASE p \notin DOMAIN t.owners
      BY <3>2 DEF TablesFit, InfoOf, NoInfo
    <3> QED BY <3>1, <3>2
  <2> QED BY <2>1, <2>2 DEF ScanFits
<1>10. ScansFit(r, f, R, U)
  BY <1>7, <1>8, <1>9 DEF ScansFit
<1> QED BY <1>10 DEF r

(* An owner that does not have its paths scanned makes no difference.      *)
LEMMA WantedBefore ==
  ASSUME NEW t, NEW S, TablesFit(t, S), NEW f, NEW R, NEW U, ScansFit(t, f, R, U), KnowsDirs(t, f),
         NEW p \in DOMAIN f, f[p].dir, p \notin U, NEW owners, owners \cap R = {}
  PROVE  p \in t.dirs <=> Wants(t, p, OwnersOf(t, p) \cup owners, R, U)
<1>1. CASE p \in DOMAIN t.owners
  <2>1. InfoOf(t, p).dir
    BY <1>1 DEF KnowsDirs
  <2>2. p \in t.dirs <=> Wants(t, p, t.owners[p], R, U)
    BY <1>1, <2>1 DEF ScansFit, ScanFits
  <2>3. OwnersOf(t, p) = t.owners[p]
    BY <1>1 DEF OwnersOf
  <2> QED BY <2>2, <2>3 DEF Wants
<1>2. CASE p \notin DOMAIN t.owners
  BY <1>2 DEF TablesFit, Wants, OwnersOf
<1> QED BY <1>1, <1>2

(* What is released, dropped, or said to be given by a user.               *)
LEMMA ReleaseFits ==
  ASSUME NEW t, IsTable(t), NEW S, TablesFit(t, S), NEW u
  PROVE  TablesFit(releaseOwner(t, u), S \ {u})
<1> DEFINE r == releaseOwner(t, u)
           none == OnlyOwned(t, u)
<1>1. Released(t, r, u) /\ DOMAIN r.assoc = DOMAIN t.assoc \ none
  BY ReleaseOwnerFields, ReleaseAssocs
<1> HIDE DEF r
<1>2. /\ r.byUser = t.byUser \ {u} /\ r.recurse = t.recurse \ {u}
      /\ r.owners = OtherOwners(t, u) /\ r.info = Without(t.info, none)
      /\ r.dirs \subseteq t.dirs \ none
  BY <1>1 DEF Released, StillScanned
<1>3. DOMAIN r.owners = DOMAIN t.owners \ none /\ \A p \in DOMAIN r.owners : r.owners[p] = t.owners[p] \ {u}
  BY <1>2 DEF OtherOwners
<1>4. DOMAIN r.info = DOMAIN t.info \ none
  <2>1. IsWithout(r.info, t.info, none)
    BY <1>2, WithoutIs
  <2> QED BY <2>1 DEF IsWithout
<1>5. \A p \in DOMAIN t.owners : p \notin none => t.owners[p] \ {u} # {}
  BY DEF OnlyOwned
<1> HIDE DEF none
<1>6. \A p \in DOMAIN r.owners : Fit(r.owners[p], p, S \ {u})
  BY <1>3, <1>5 DEF TablesFit, Fit
<1>7. ASSUME NEW w \in r.byUser PROVE w \in OwnersOf(r, w)
  <2>1. w \in DOMAIN t.owners /\ w \in t.owners[w] \ {u}
    BY <1>2 DEF TablesFit, OwnersOf
  <2>2. w \notin none
    BY <2>1 DEF none, OnlyOwned
  <2> QED BY <1>3, <2>1, <2>2 DEF OwnersOf
<1>8. /\ DOMAIN r.assoc \subseteq DOMAIN r.owners
      /\ DOMAIN r.info \subseteq DOMAIN r.owners /\ r.dirs \subseteq DOMAIN r.owners
      /\ r.recurse \subseteq r.byUser
  BY <1>1, <1>2, <1>3, <1>4 DEF TablesFit
<1>9. TablesFit(r, S \ {u})
  BY <1>6, <1>7, <1>8 DEF TablesFit
<1> QED BY <1>9 DEF r

LEMMA ReleaseScans ==
  ASSUME NEW t, IsTable(t), NEW S, TablesFit(t, S), NEW f, NEW R, NEW U, ScansFit(t, f, R, U),
         t.recurse \subseteq R, NEW u
  PROVE  ScansFit(releaseOwner(t, u), f, releaseOwner(t, u).recurse, {})
<1> DEFINE r == releaseOwner(t, u)
           none == OnlyOwned(t, u)
<1>1. Released(t, r, u)
  BY ReleaseOwnerFields
<1> HIDE DEF r
<1>2. /\ r.byUser = t.byUser \ {u} /\ r.recurse = t.recurse \ {u}
      /\ r.owners = OtherOwners(t, u) /\ r.info = Without(t.info, none)
      /\ r.dirs = StillScanned(t, u) \ none
  BY <1>1 DEF Released
<1>3. DOMAIN r.owners = DOMAIN t.owners \ none /\ \A p \in DOMAIN r.owners : r.owners[p] = t.owners[p] \ {u}
  BY <1>2 DEF OtherOwners
<1>4. \A p : p \notin none => InfoOf(r, p) = InfoOf(t, p)
  <2>1. IsWithout(r.info, t.info, none)
    BY <1>2, WithoutIs
  <2> HIDE DEF none
  <2> QED BY <2>1 DEF IsWithout, InfoOf
<1> HIDE DEF none
<1>5. ASSUME NEW p \in DOMAIN r.owners
      PROVE  ScanFits(r, p, f, r.recurse, {})
  <2>1. p \in DOMAIN t.owners /\ p \notin none /\ r.owners[p] = t.owners[p] \ {u} /\ InfoOf(r, p) = InfoOf(t, p)
    BY <1>3, <1>4
  <2>2. ScanFits(t, p, f, R, U)
    BY <2>1 DEF ScansFit
  <2>3. p \in r.dirs <=> p \in t.dirs /\ InfoOf(t, p).dir /\ Wants(r, p, r.owners[p], r.recurse, {})
    BY <1>2, <2>1 DEF StillScanned, Wants
  <2>4. Wants(r, p, r.owners[p], r.recurse, {}) => Wants(t, p, t.owners[p], R, U)
    BY <1>2, <2>1 DEF Wants
  <2> QED BY <2>1, <2>2, <2>3, <2>4 DEF ScanFits
<1>6. ScansFit(r, f, r.recurse, {})
  BY <1>5 DEF ScansFit
<1> QED BY <1>6 DEF r

(* Nothing is left to a user that is forgotten. *)
Spares(t, r) == \A q \in DOMAIN r.owners : \A u \in t.owners[q] : u \in t.byUser => u \in r.byUser

LEMMA DropFits ==
  ASSUME NEW t, IsTable(t), TablesFit(t, t.byUser), NEW p, NEW tree, NEW r, r = dropPhysical(t, p, tree),
         p \notin DOMAIN t.assoc, Spares(t, r)
  PROVE  /\ TablesFit(r, r.byUser)
         /\ \A f : ScansFit(t, f, t.recurse, {}) => ScansFit(r, f, r.recurse, {})
<1> DEFINE ps == Dropped(t, p, tree)
<1>1. HasDropped(t, r, p, tree) /\ DropsMore(t, r, p, tree)
  BY DropPhysicalFields, DropAssocs
<1>2. /\ r.byUser = Unhit(t.byUser, p, tree) /\ r.recurse = Unhit(t.recurse, p, tree)
      /\ r.dirs = t.dirs \ ps /\ DOMAIN r.assoc = DOMAIN t.assoc \ (ps \ {p})
      /\ r.owners = Without(t.owners, ps) /\ r.info = Without(t.info, ps)
  BY <1>1 DEF HasDropped, DropsMore
<1>3. IsWithout(r.owners, t.owners, ps) /\ IsWithout(r.info, t.info, ps)
  BY <1>2, WithoutIs
<1>4. \A q : q \notin ps => InfoOf(r, q) = InfoOf(t, q)
  BY <1>3 DEF IsWithout, InfoOf
<1>5. \A q \in DOMAIN r.owners : q \in DOMAIN t.owners /\ q \notin ps /\ r.owners[q] = t.owners[q]
  BY <1>3 DEF IsWithout
<1>6. \A q \in DOMAIN t.owners : q \in ps <=> HitBy(q, p, tree)
  BY DEF Dropped
<1> HIDE DEF ps
<1>7. \A q \in DOMAIN r.owners : Fit(r.owners[q], q, r.byUser)
  BY <1>5 DEF TablesFit, Fit, Spares
<1>8. ASSUME NEW u \in r.byUser PROVE u \in OwnersOf(r, u)
  <2>1. u \in t.byUser /\ ~HitBy(u, p, tree) /\ u \in DOMAIN t.owners /\ u \in t.owners[u]
    BY <1>2 DEF Unhit, TablesFit, OwnersOf
  <2>2. u \in DOMAIN r.owners
    BY <1>3, <1>6, <2>1 DEF IsWithout
  <2> QED BY <1>5, <2>1, <2>2 DEF OwnersOf
<1>9. /\ DOMAIN r.assoc \subseteq DOMAIN r.owners
      /\ DOMAIN r.info \subseteq DOMAIN r.owners /\ r.dirs \subseteq DOMAIN r.owners
      /\ r.recurse \subseteq r.byUser
  BY <1>2, <1>3 DEF IsWithout, TablesFit, Unhit
<1>10. TablesFit(r, r.byUser)
  BY <1>7, <1>8, <1>9 DEF TablesFit
<1>11. ASSUME NEW f, ScansFit(t, f, t.recurse, {}), NEW q \in DOMAIN r.owners
       PROVE  ScanFits(r, q, f, r.recurse, {})
  <2>1. q \in DOMAIN t.owners /\ q \notin ps /\ r.owners[q] = t.owners[q] /\ InfoOf(r, q) = InfoOf(t, q)
    BY <1>4, <1>5
  <2>2. ScanFits(t, q, f, t.recurse, {})
    BY <1>11, <2>1 DEF ScansFit
  <2>3. q \in r.byUser <=> q \in t.byUser
    BY <1>2, <1>6, <2>1 DEF Unhit
  <2>4. r.owners[q] \cap r.recurse = t.owners[q] \cap t.recurse
    <3>1. r.owners[q] \subseteq r.byUser
      BY <1>7 DEF Fit
    <3> QED BY <1>2, <2>1, <3>1 DEF Unhit
  <2>5. q \in r.dirs <=> q \in t.dirs
    BY <1>2, <2>1
  <2> QED BY <2>1, <2>2, <2>3, <2>4, <2>5 DEF ScanFits, Wants
<1>12. \A f : ScansFit(t, f, t.recurse, {}) => ScansFit(r, f, r.recurse, {})
  BY <1>11 DEF ScansFit
<1> QED BY <1>10, <1>12

UserFits(t, r, S, u, recursive) ==
  /\ TablesFit(r, S) /\ r.byUser = t.byUser \cup {u}
  /\ r.recurse = (IF recursive THEN t.recurse \cup {u} ELSE t.recurse)
  /\ \A f, R : ScansFit(t, f, R, {u}) => ScansFit(r, f, R, {})

LEMMA AddUserFits ==
  ASSUME NEW t, IsTable(t), NEW S, TablesFit(t, S), NEW u, u \in OwnersOf(t, u), NEW recursive
  PROVE  UserFits(t, addUserWatch(t, u, recursive), S, u, recursive)
<1> DEFINE r == addUserWatch(t, u, recursive)
<1>1. /\ r.byUser = t.byUser \cup {u} /\ r.owners = t.owners /\ r.info = t.info
      /\ r.dirs = t.dirs /\ r.assoc = t.assoc
      /\ r.recurse = (IF recursive THEN t.recurse \cup {u} ELSE t.recurse)
  BY DEF IsTable, addUserWatch
<1> HIDE DEF r
<1>2. TablesFit(r, S)
  BY <1>1 DEF TablesFit, OwnersOf
<1>3. \A p : InfoOf(r, p) = InfoOf(t, p)
  BY <1>1 DEF InfoOf
<1>4. ASSUME NEW f, NEW R, ScansFit(t, f, R, {u}), NEW p \in DOMAIN r.owners
      PROVE  ScanFits(r, p, f, R, {})
  <2>1. p \in DOMAIN t.owners /\ ScanFits(t, p, f, R, {u})
    BY <1>1, <1>4 DEF ScansFit
  <2>2. p = u => p \in t.owners[p]
    BY <2>1 DEF OwnersOf
  <2>3. Wants(r, p, r.owners[p], R, {}) <=> Wants(t, p, t.owners[p], R, {u})
    BY <1>1, <2>2 DEF Wants
  <2> QED BY <1>1, <1>3, <2>1, <2>3 DEF ScanFits
<1>5. \A f, R : ScansFit(t, f, R, {u}) => ScansFit(r, f, R, {})
  BY <1>4 DEF ScansFit
<1>6. UserFits(t, r, S, u, recursive)
  BY <1>1, <1>2, <1>5 DEF UserFits
<1> QED BY <1>6 DEF r

(* Only the port changes. *)
LEMMA PortFits ==
  ASSUME NEW t, NEW r, SameTables(t, r)
  PROVE  /\ \A S : DOMAIN r.assoc \subseteq DOMAIN t.owners /\ TablesFit(t, S) => TablesFit(r, S)
         /\ \A f, R, U : ScansFit(t, f, R, U) => ScansFit(r, f, R, U)
         /\ MoreOwners(t, r)
<1>1. \A p : InfoOf(r, p) = InfoOf(t, p) /\ OwnersOf(r, p) = OwnersOf(t, p)
  BY DEF SameTables, InfoOf, OwnersOf
<1>2. \A S : DOMAIN r.assoc \subseteq DOMAIN t.owners /\ TablesFit(t, S) => TablesFit(r, S)
  BY <1>1 DEF SameTables, TablesFit
<1>3. \A f, R, U : ScansFit(t, f, R, U) => ScansFit(r, f, R, U)
  BY <1>1 DEF SameTables, ScansFit, ScanFits, Wants
<1>4. MoreOwners(t, r)
  BY DEF SameTables, MoreOwners
<1> QED BY <1>2, <1>3, <1>4

-----------------------------------------------------------------------------
(* The call under way, and the work it has left.                           *)
-----------------------------------------------------------------------------
UserOf(q) == IF q = NoRequest THEN {} ELSE {q.name}
Asked(q)  == IF q = NoRequest THEN {} ELSE IF q.recurse THEN {q.name} ELSE {}

(* Who may own a path, and who has directories scanned. *)
Someone(t, q) == t.byUser \cup UserOf(q)
Roots(t, q) == t.recurse \cup Asked(q)

PieceFits(v, t, q) ==
  /\ v.do \in {"visit", "root", "list"} => Fit(v.owners, v.path, Someone(t, q))
  /\ v.do \in {"root", "list"} => v.deep # "no" /\ v.owners \cap Roots(t, q) # {}
  /\ v.do = "root" => v.below \subseteq v.owners /\ v.below \cap Roots(t, q) # {}
  /\ v.do = "visit" /\ v.deep # "no" => (v.scan <=> v.stat.obj.dir) /\ v.owners \cap Roots(t, q) # {}
  /\ v.do = "visit" /\ v.deep = "no" =>
       /\ q # NoRequest /\ ~q.recurse
       /\ IF v.path = q.name THEN v.stat.obj.dir => v.scan ELSE ~v.scan
  /\ v.do = "children" => q # NoRequest /\ ~q.recurse /\ v.path = q.name
  /\ v.do = "entry" => v.dir \in DOMAIN t.owners /\ Dir(v.path) = v.dir /\ IsPath(v.path) /\ v.path # <<>>
  /\ v.do = "scan" => v.path \in DOMAIN t.owners

(* A call that takes nothing back when it fails has nothing to take back.  *)
Alone(t, u, plan) ==
  \/ Len(plan) = 1
  \/ /\ Len(plan) = 2 /\ plan[1].do = "visit" /\ plan[1].deep = "no"
     /\ \A p \in DOMAIN t.owners : u \notin t.owners[p]

RequestFits(t, q, plan) ==
  q # NoRequest =>
    /\ q.rollback => q.name \notin t.byUser
    /\ q.name \in t.byUser => (q.recurse <=> q.name \in t.recurse)
    /\ q.rollback \/ q.name \in t.byUser \/ Alone(t, q.name, plan)
    /\ q.name \in OwnersOf(t, q.name) \/ \E v \in Range(plan) : Registers(v, q.name)

OwnInv ==
  /\ TablesFit(tb, Someone(tb, req))
  /\ \A v \in Range(todo) : PieceFits(v, tb, req)
  /\ RequestFits(tb, req, todo)
  /\ calm => ScansFit(tb, fs, Roots(tb, req), UserOf(req))

LEMMA NobodyAsks ==
  \A t : /\ Someone(t, NoRequest) = t.byUser /\ Roots(t, NoRequest) = t.recurse
         /\ UserOf(NoRequest) = {}
<1>1. UserOf(NoRequest) = {} /\ Asked(NoRequest) = {}
  BY DEF UserOf, Asked
<1> QED BY <1>1 DEF Someone, Roots

LEMMA MoreFits ==
  ASSUME NEW v, NEW t, NEW r, NEW q, MoreOwners(t, r), PieceFits(v, t, q)
  PROVE  PieceFits(v, r, q)
<1>1. Someone(r, q) = Someone(t, q) /\ Roots(r, q) = Roots(t, q)
  BY DEF MoreOwners, Someone, Roots
<1>2. DOMAIN t.owners \subseteq DOMAIN r.owners
  BY DEF MoreOwners
<1> QED BY <1>1, <1>2 DEF PieceFits

LEMMA HeadFits ==
  ASSUME RollbackInv, OwnInv, todo # <<>>
  PROVE  /\ PieceFits(Head(todo), tb, req)
         /\ req # NoRequest /\ Head(todo).do # "finish" /\ Alone(tb, req.name, todo) =>
              /\ Len(todo) = 2 /\ Head(todo).do = "visit" /\ Head(todo).deep = "no"
              /\ \A p \in DOMAIN tb.owners : req.name \notin tb.owners[p]
<1>1. Heads(todo)
  BY HeadOfPlan DEF RollbackInv
<1>2. Head(todo) \in Range(todo) /\ Head(todo) = todo[1] /\ 1 \in DOMAIN todo
  BY <1>1 DEF Heads
<1>3. ASSUME req # NoRequest, Head(todo).do # "finish" PROVE Len(todo) # 1
  BY <1>2, <1>3 DEF RollbackInv, AddPlan, Ends
<1> QED BY <1>2, <1>3 DEF OwnInv, Alone

(* Without its user a call leaves tables that fit. *)
LEMMA LetGo ==
  ASSUME NEW t, NEW q, q # NoRequest, TablesFit(t, Someone(t, q)),
         \/ q.name \in t.byUser /\ (q.recurse <=> q.name \in t.recurse)
         \/ \A p \in DOMAIN t.owners : q.name \notin t.owners[p]
  PROVE  /\ TablesFit(t, t.byUser)
         /\ \A f : ScansFit(t, f, Roots(t, q), UserOf(q)) => ScansFit(t, f, t.recurse, {})
<1>1. Someone(t, q) = t.byUser \cup {q.name} /\ UserOf(q) = {q.name}
  BY DEF Someone, UserOf
<1>2. \A p \in DOMAIN t.owners : Fit(t.owners[p], p, t.byUser)
  BY <1>1 DEF TablesFit, Fit
<1>3. \A p \in DOMAIN t.owners : t.owners[p] \cap Roots(t, q) = t.owners[p] \cap t.recurse
  BY DEF Roots, Asked
<1>4. \A p \in DOMAIN t.owners :
        Wants(t, p, t.owners[p], Roots(t, q), UserOf(q)) <=> Wants(t, p, t.owners[p], t.recurse, {})
  BY <1>1, <1>3 DEF Wants
<1>5. \A f : ScansFit(t, f, Roots(t, q), UserOf(q)) => ScansFit(t, f, t.recurse, {})
  BY <1>4 DEF ScansFit, ScanFits
<1>6. TablesFit(t, t.byUser)
  BY <1>2 DEF TablesFit
<1> QED BY <1>5, <1>6

(* One piece of work, done and replaced by others. *)
PieceOwns(a) ==
  /\ IsPlan(a) /\ todo # <<>> /\ todo' = a \o Tail(todo) /\ req' = req /\ Head(todo).do # "finish"
  /\ MoreOwners(tb, tb') /\ TablesFit(tb', Someone(tb, req))
  /\ calm => ScansFit(tb', fs, Roots(tb, req), UserOf(req))
  /\ \A v \in Range(a) : PieceFits(v, tb', req)
  /\ req # NoRequest /\ Alone(tb, req.name, todo) => a = <<>>
  /\ req # NoRequest /\ Registers(Head(todo), req.name) =>
       req.name \in OwnersOf(tb', req.name) \/ \E v \in Range(a) : Registers(v, req.name)

LEMMA PieceOwn ==
  ASSUME RollbackInv, OwnInv, HolderOnly, NEW a, PieceOwns(a)
  PROVE  OwnInv'
<1>1. /\ IsPlan(todo) /\ IsPlan(a) /\ todo # <<>> /\ todo' = a \o Tail(todo)
      /\ MoreOwners(tb, tb') /\ req' = req /\ Head(todo).do # "finish"
  BY DEF RollbackInv, PieceOwns
<1>2. Continues(todo', a, todo)
  BY <1>1, ContinuePlan
<1>3. Range(todo') = Range(a) \cup Range(Tail(todo)) /\ Range(todo) = {Head(todo)} \cup Range(Tail(todo))
  BY <1>2 DEF Continues
<1>4. fs' = fs /\ calm' = calm
  BY DEF HolderOnly, treeVars
<1>5. Someone(tb', req') = Someone(tb, req) /\ Roots(tb', req') = Roots(tb, req)
  BY <1>1 DEF MoreOwners, Someone, Roots
<1>6. \A v \in Range(todo') : PieceFits(v, tb', req')
  <2>1. \A v \in Range(Tail(todo)) : PieceFits(v, tb', req)
    BY <1>1, <1>3, MoreFits DEF OwnInv
  <2> QED BY <1>1, <1>3, <2>1 DEF PieceOwns
<1>7. ASSUME req # NoRequest
      PROVE  RequestFits(tb', req, todo')
  <2>1. /\ req.rollback => req.name \notin tb.byUser
        /\ req.name \in tb.byUser => (req.recurse <=> req.name \in tb.recurse)
        /\ req.rollback \/ req.name \in tb.byUser \/ Alone(tb, req.name, todo)
        /\ req.name \in OwnersOf(tb, req.name) \/ \E v \in Range(todo) : Registers(v, req.name)
    BY <1>7 DEF OwnInv, RequestFits
  <2>2. tb'.byUser = tb.byUser /\ tb'.recurse = tb.recurse
    BY <1>1 DEF MoreOwners
  <2>3. req.name \in OwnersOf(tb, req.name) => req.name \in OwnersOf(tb', req.name)
    BY <1>1 DEF MoreOwners, OwnersOf
  <2>4. req.name \in OwnersOf(tb', req.name) \/ \E v \in Range(todo') : Registers(v, req.name)
    BY <1>3, <1>7, <2>1, <2>3 DEF PieceOwns
  <2>5. ASSUME Alone(tb, req.name, todo) PROVE Len(todo') = 1
    <3>1. a = <<>> /\ Len(todo) = 2
      BY <1>1, <1>7, <2>5, HeadFits DEF PieceOwns
    <3>2. Heads(todo)
      BY <1>1, HeadOfPlan
    <3> DEFINE n == Tail(todo)
    <3>3. IsPlan(n) /\ Len(n) = 1
      BY <3>1, <3>2 DEF Heads
    <3>4. todo' = a \o n
      BY <1>1
    <3> HIDE DEF n
    <3>5. Joins(todo', a, n)
      BY <1>1, <3>3, <3>4, JoinPlans
    <3>6. Len(todo') = Len(a) + Len(n)
      BY <3>5 DEF Joins
    <3> QED BY <3>1, <3>3, <3>6
  <2>6. req.rollback \/ req.name \in tb.byUser \/ Alone(tb', req.name, todo')
    BY <2>1, <2>5 DEF Alone
  <2> QED BY <2>1, <2>2, <2>4, <2>6 DEF RequestFits
<1>8. RequestFits(tb', req', todo')
  BY <1>1, <1>7 DEF RequestFits
<1>9. TablesFit(tb', Someone(tb', req')) /\ (calm' => ScansFit(tb', fs', Roots(tb', req'), UserOf(req')))
  BY <1>1, <1>4, <1>5 DEF PieceOwns
<1> QED BY <1>6, <1>8, <1>9 DEF OwnInv

LEMMA IdleOwn ==
  ASSUME req' = NoRequest, TablesFit(tb', tb'.byUser), calm' => ScansFit(tb', fs', tb'.recurse, {}),
         \A v \in Range(todo') : PieceFits(v, tb', NoRequest)
  PROVE  OwnInv'
<1>1. /\ Someone(tb', NoRequest) = tb'.byUser /\ Roots(tb', NoRequest) = tb'.recurse
      /\ UserOf(NoRequest) = {}
  BY NobodyAsks
<1>2. RequestFits(tb', req', todo')
  BY DEF RequestFits
<1>3. TablesFit(tb', Someone(tb', req')) /\ (calm' => ScansFit(tb', fs', Roots(tb', req'), UserOf(req')))
  BY <1>1
<1>4. \A v \in Range(todo') : PieceFits(v, tb', req')
  OBVIOUS
<1> QED BY <1>2, <1>3, <1>4 DEF OwnInv

LEMMA ErrorOwn ==
  ASSUME RollbackInv, OwnInv, IsTable(tb), HolderOnly, Error, todo # <<>>, Head(todo).do # "finish"
  PROVE  OwnInv'
<1>1. IsPlan(Rest) /\ Range(Rest) \subseteq Range(todo) /\ todo' = Rest
  BY RestIs DEF RollbackInv, Error
<1>2. fs' = fs /\ calm' = calm
  BY DEF HolderOnly, treeVars
<1>3. CASE req = NoRequest
  <2>1. tb' = tb /\ req' = req
    BY <1>3 DEF Error
  <2>2. RequestFits(tb', req', todo')
    BY <1>3, <2>1 DEF RequestFits
  <2> QED BY <1>1, <1>2, <2>1, <2>2 DEF OwnInv
<1>4. CASE req # NoRequest
  <2>1. \A v \in Range(todo) : WorksFor(v, req.name)
    BY <1>4 DEF RollbackInv, AddPlan
  <2>2. \A k \in DOMAIN todo : todo[k].do \notin {"entry", "unlock"}
    BY <2>1 DEF Range, WorksFor
  <2>3. Rest = <<>>
    BY <2>2 DEF Rest
  <2>4. Range(todo') = {} /\ req' = NoRequest
    BY <1>1, <1>4, <2>3, NoPieces DEF Error
  <2>5. /\ TablesFit(tb, Someone(tb, req)) /\ (calm => ScansFit(tb, fs, Roots(tb, req), UserOf(req)))
        /\ req.rollback => req.name \notin tb.byUser
        /\ req.name \in tb.byUser => (req.recurse <=> req.name \in tb.recurse)
        /\ req.rollback \/ req.name \in tb.byUser \/ Alone(tb, req.name, todo)
    BY <1>4 DEF OwnInv, RequestFits
  <2>6. CASE req.rollback
    <3>1. tb' = releaseOwner(tb, req.name)
      BY <1>4, <2>6 DEF Error
    <3>2. TablesFit(tb', Someone(tb, req) \ {req.name})
      BY <2>5, <3>1, ReleaseFits
    <3>3. tb'.byUser = tb.byUser \ {req.name}
      <4>1. Released(tb, tb', req.name)
        BY <3>1, ReleaseOwnerFields
      <4> QED BY <4>1 DEF Released
    <3>4. Someone(tb, req) \ {req.name} = tb'.byUser
      BY <1>4, <2>5, <2>6, <3>3 DEF Someone, UserOf
    <3>5. calm => ScansFit(tb', fs, tb'.recurse, {})
      BY <2>5, <3>1, ReleaseScans DEF Roots
    <3>6. TablesFit(tb', tb'.byUser)
      BY <3>2, <3>4
    <3> QED BY <1>2, <2>4, <3>5, <3>6, IdleOwn
  <2>7. CASE ~req.rollback
    <3>1. tb' = tb
      BY <1>4, <2>7 DEF Error
    <3>2. \/ req.name \in tb.byUser /\ (req.recurse <=> req.name \in tb.recurse)
          \/ \A p \in DOMAIN tb.owners : req.name \notin tb.owners[p]
      BY <1>4, <2>5, <2>7, HeadFits
    <3>3. TablesFit(tb, tb.byUser) /\ (calm => ScansFit(tb, fs, tb.recurse, {}))
      BY <1>4, <2>5, <3>2, LetGo
    <3> QED BY <1>2, <2>4, <3>1, <3>3, IdleOwn
  <2> QED BY <2>6, <2>7
<1> QED BY <1>3, <1>4

-----------------------------------------------------------------------------
(* The steps of the holder.                                                *)
-----------------------------------------------------------------------------
OwnsMore ==
  /\ MoreOwners(tb, tb') /\ TablesFit(tb', Someone(tb, req))
  /\ calm => ScansFit(tb', fs, Roots(tb, req), UserOf(req))

LEMMA AssociateOwn ==
  ASSUME OwnInv, IsTable(tb), NEW p \in DOMAIN fs, NEW stat, calm => stat.obj = fs[p],
         NEW owners, Fit(owners, p, Someone(tb, req)), NEW scan,
         tb' = associateOwned(tb, p, stat, owners, scan),
         calm /\ stat.obj.dir =>
           (scan \/ p \in tb.dirs <=> Wants(tb, p, OwnersOf(tb, p) \cup owners, Roots(tb, req), UserOf(req)))
  PROVE  OwnsMore /\ owners \subseteq OwnersOf(tb', p)
<1>1. TablesFit(tb, Someone(tb, req)) /\ (calm => ScansFit(tb, fs, Roots(tb, req), UserOf(req)))
  BY DEF OwnInv
<1>2. TablesFit(tb', Someone(tb, req)) /\ MoreOwners(tb, tb')
  BY <1>1, AssociateFits
<1>3. calm => ScansFit(tb', fs, Roots(tb, req), UserOf(req))
  BY <1>1, AssociateScans
<1>4. owners \subseteq OwnersOf(tb', p)
  <2>1. Associated(tb, tb', p, stat, owners, scan)
    BY AssociateOwnedFields
  <2>2. tb'.owners = Assign(tb.owners, p, OwnersOf(tb, p) \cup owners)
    BY <2>1 DEF Associated
  <2>3. p \in DOMAIN tb'.owners /\ tb'.owners[p] = OwnersOf(tb, p) \cup owners
    BY <2>2 DEF Assign
  <2> QED BY <2>3 DEF OwnersOf
<1> QED BY <1>2, <1>3, <1>4 DEF OwnsMore

LEMMA SameOwn ==
  ASSUME OwnInv, UNCHANGED tb
  PROVE  OwnsMore
<1>1. MoreOwners(tb, tb')
  BY DEF MoreOwners
<1> QED BY <1>1 DEF OwnInv, OwnsMore

(* A user that does not ask for the directories below has none scanned.    *)
LEMMA NoRoot ==
  ASSUME OwnInv, req # NoRequest, ~req.recurse
  PROVE  {req.name} \cap Roots(tb, req) = {} /\ UserOf(req) = {req.name}
<1>1. tb.recurse \subseteq tb.byUser /\ (req.name \in tb.byUser => (req.recurse <=> req.name \in tb.recurse))
  BY DEF OwnInv, TablesFit, RequestFits
<1> QED BY <1>1 DEF Roots, Asked, UserOf

LEMMA VisitOwn ==
  ASSUME RollbackInv, OwnInv, IsTable(tb), DoVisit
  PROVE  OwnInv'
<1> DEFINE v == Head(todo)
           l == List(v.path, v.owners, v.deep)
           a == If(v.deep # "no" /\ v.stat.obj.dir, <<l>>)
           R == Roots(tb, req)
           U == UserOf(req)
           all == OwnersOf(tb, v.path) \cup v.owners
<1>1. todo # <<>> /\ v.do = "visit" /\ HolderOnly
  BY DEF DoVisit, Doing
<1>2. (calm => Truthful(v, fs)) /\ (req # NoRequest => WorksFor(v, req.name)) /\ PieceFits(v, tb, req)
  BY <1>1, HeadWorks, HeadFits
<1>3. /\ Fit(v.owners, v.path, Someone(tb, req))
      /\ v.deep # "no" => (v.scan <=> v.stat.obj.dir) /\ v.owners \cap R # {}
      /\ v.deep = "no" => /\ req # NoRequest /\ ~req.recurse
                          /\ IF v.path = req.name THEN v.stat.obj.dir => v.scan ELSE ~v.scan
  BY <1>1, <1>2 DEF PieceFits
<1>4. CASE CannotAssociate(v.path)
  BY <1>1, <1>4, ErrorOwn DEF DoVisit
<1>5. CASE ~CannotAssociate(v.path)
  <2>1. /\ tb' = associateOwned(tb, v.path, v.stat, v.owners, v.scan) /\ req' = req
        /\ todo' = a \o Tail(todo) /\ v.path \in DOMAIN fs
    BY <1>5 DEF DoVisit, Then, CannotAssociate
  <2>2. calm => v.stat.obj = fs[v.path]
    BY <1>1, <1>2, <2>1 DEF Truthful
  <2>3. req # NoRequest => v.owners = {req.name}
    BY <1>1, <1>2 DEF WorksFor
  <2>4. IsPiece(l) /\ l.do = "list" /\ l.owners = v.owners /\ l.path = v.path /\ l.deep = v.deep
    BY PiecesAre DEF List
  <2>5. Head(todo).do = "visit" /\ Head(todo).path = v.path /\ Head(todo).deep = v.deep
    BY <1>1
  <2> HIDE DEF v, l
  <2>6. ASSUME calm, v.stat.obj.dir
        PROVE  v.scan \/ v.path \in tb.dirs <=> Wants(tb, v.path, all, R, U)
    <3>1. CASE v.deep # "no"
      BY <1>3, <2>6, <3>1 DEF Wants
    <3>2. CASE v.deep = "no" /\ v.path = req.name
      <4>1. v.scan /\ v.path \in v.owners /\ v.path \in U
        BY <1>3, <2>3, <2>6, <3>2, NoRoot
      <4> QED BY <4>1 DEF Wants
    <3>3. CASE v.deep = "no" /\ v.path # req.name
      <4>1. ~v.scan /\ v.path \notin U /\ v.owners \cap R = {}
        BY <1>3, <2>3, <3>3, NoRoot
      <4>2. TablesFit(tb, Someone(tb, req)) /\ ScansFit(tb, fs, R, U) /\ KnowsDirs(tb, fs)
        BY <2>6 DEF OwnInv, RollbackInv
      <4>3. v.path \in DOMAIN fs /\ fs[v.path].dir
        BY <2>1, <2>2, <2>6
      <4> HIDE DEF R, U
      <4>4. v.path \in tb.dirs <=> Wants(tb, v.path, all, R, U)
        BY <4>1, <4>2, <4>3, WantedBefore
      <4> QED BY <4>1, <4>4
    <3> QED BY <3>1, <3>2, <3>3
  <2>7. OwnsMore /\ v.owners \subseteq OwnersOf(tb', v.path)
    BY <1>3, <2>1, <2>2, <2>6, AssociateOwn
  <2>8. IsPlan(a) /\ Range(a) \subseteq {l} /\ (v.deep = "no" => a = <<>>)
    BY <2>4, OnePiece, NoPieces DEF If
  <2>9. v.deep # "no" => PieceFits(l, tb, req)
    BY <1>3, <2>4 DEF PieceFits
  <2>10. \A w \in Range(a) : PieceFits(w, tb', req)
    <3>1. v.deep = "no" => Range(a) = {}
      BY <2>8, NoPieces
    <3>2. MoreOwners(tb, tb')
      BY <2>7 DEF OwnsMore
    <3> HIDE DEF a
    <3> QED BY <2>8, <2>9, <3>1, <3>2, MoreFits
  <2> HIDE DEF a
  <2>11. req # NoRequest /\ Alone(tb, req.name, todo) => a = <<>>
    BY <1>1, <2>5, <2>8, HeadFits
  <2>12. req # NoRequest /\ Registers(Head(todo), req.name) => req.name \in OwnersOf(tb', req.name)
    BY <2>3, <2>5, <2>7 DEF Registers
  <2>13. PieceOwns(a)
    BY <1>1, <2>1, <2>5, <2>7, <2>8, <2>10, <2>11, <2>12 DEF PieceOwns, OwnsMore
  <2> QED BY <1>1, <2>13, PieceOwn
<1> QED BY <1>4, <1>5

LEMMA RootOwn ==
  ASSUME RollbackInv, OwnInv, IsTable(tb), DoRoot
  PROVE  OwnInv'
<1> DEFINE v == Head(todo)
           l == List(v.path, v.below, v.deep)
           a == If(v.deep # "no" /\ IsDir(v.path), <<l>>)
           R == Roots(tb, req)
           U == UserOf(req)
           all == OwnersOf(tb, v.path) \cup v.owners
<1>1. todo # <<>> /\ v.do = "root" /\ HolderOnly
  BY DEF DoRoot, Doing
<1>2. (req # NoRequest => WorksFor(v, req.name)) /\ PieceFits(v, tb, req)
  BY <1>1, HeadWorks, HeadFits
<1>3. req # NoRequest => v.owners = {req.name} /\ v.deep = "all"
  BY <1>1, <1>2 DEF WorksFor
<1>4. /\ Fit(v.owners, v.path, Someone(tb, req)) /\ v.deep # "no" /\ v.owners \cap R # {}
      /\ v.below \subseteq v.owners /\ v.below \cap R # {}
  BY <1>1, <1>2 DEF PieceFits
<1>5. req # NoRequest => ~Alone(tb, req.name, todo)
  BY <1>1, HeadFits
<1>6. Head(todo).do = "root" /\ Head(todo).path = v.path
  BY <1>1
<1> HIDE DEF v
<1>7. CASE Error
  BY <1>1, <1>6, <1>7, ErrorOwn
<1>8. CASE Then(<<>>) /\ UNCHANGED <<tb, req>> /\ v.deep = "dirs"
  <2>1. req = NoRequest
    BY <1>3, <1>8
  <2> DEFINE e == <<>>
  <2>2. IsPlan(e) /\ Range(e) = {} /\ todo' = e \o Tail(todo)
    BY <1>8, NoPieces DEF Then
  <2> HIDE DEF e
  <2>3. PieceOwns(e)
    BY <1>1, <1>6, <1>8, <2>1, <2>2, SameOwn DEF PieceOwns, OwnsMore
  <2> QED BY <1>1, <2>3, PieceOwn
<1>9. CASE /\ tb' = associateOwned(tb, v.path, StatOf(v.path), v.owners, v.deep # "no")
           /\ todo' = a \o Tail(todo) /\ req' = req /\ v.path \in DOMAIN fs
  <2>1. StatOf(v.path).obj = fs[v.path]
    BY StatIs
  <2>2. IsPiece(l) /\ l.do = "list" /\ l.owners = v.below /\ l.path = v.path /\ l.deep = v.deep
    BY PiecesAre DEF List
  <2> HIDE DEF l
  <2>3. v.deep # "no" \/ v.path \in tb.dirs <=> Wants(tb, v.path, all, R, U)
    BY <1>4 DEF Wants
  <2>4. OwnsMore /\ v.owners \subseteq OwnersOf(tb', v.path)
    BY <1>4, <1>9, <2>1, <2>3, AssociateOwn
  <2>5. IsPlan(a) /\ Range(a) \subseteq {l}
    BY <2>2, OnePiece, NoPieces DEF If
  <2> HIDE DEF a
  <2>6. Fit(v.below, v.path, Someone(tb, req))
    BY <1>4 DEF Fit
  <2>7. PieceFits(l, tb, req) /\ MoreOwners(tb, tb')
    BY <1>4, <2>2, <2>4, <2>6 DEF PieceFits, OwnsMore
  <2>8. \A w \in Range(a) : PieceFits(w, tb', req)
    BY <2>5, <2>7, MoreFits
  <2>9. req # NoRequest /\ Registers(Head(todo), req.name) => req.name \in OwnersOf(tb', req.name)
    BY <1>3, <1>6, <2>4 DEF Registers
  <2>10. PieceOwns(a)
    BY <1>1, <1>5, <1>6, <1>9, <2>4, <2>5, <2>8, <2>9 DEF PieceOwns, OwnsMore
  <2> QED BY <1>1, <2>10, PieceOwn
<1> QED BY <1>7, <1>8, <1>9 DEF DoRoot, Then, CannotAssociate, v, a, l

(* A directory is read. *)
LEMMA ReadOwn ==
  ASSUME RollbackInv, OwnInv, HolderOnly, UNCHANGED <<tb, req>>, todo # <<>>,
         Head(todo).do \notin {"finish", "visit"},
         NEW a, IsPlan(a), todo' = a \o Tail(todo), \A w \in Range(a) : PieceFits(w, tb, req),
         req # NoRequest /\ Registers(Head(todo), req.name) => \E w \in Range(a) : Registers(w, req.name)
  PROVE  OwnInv'
<1>1. req # NoRequest => ~Alone(tb, req.name, todo)
  BY HeadFits
<1>2. OwnsMore
  BY SameOwn
<1>3. PieceOwns(a)
  BY <1>1, <1>2 DEF PieceOwns, OwnsMore
<1> QED BY <1>3, PieceOwn

(* Whoever is above a directory is above its entries. *)
LEMMA EntryUnder ==
  ASSUME NEW q, IsPath(q), q # <<>>, NEW p, p = Dir(q), NEW u, Under(p, u)
  PROVE  Under(q, u) /\ q # p
<1>1. Len(q) \in Nat /\ Len(q) >= 1
  BY EmptySeq, LenProperties DEF IsPath
<1>2. IsPath(p) /\ Len(p) = Len(q) - 1 /\ \A k \in 0..(Len(q) - 1) : SubSeq(p, 1, k) = SubSeq(q, 1, k)
  BY <1>1, DirIs
<1>3. Len(u) <= Len(p) /\ SubSeq(p, 1, Len(u)) = u
  BY DEF Under
<1>4. Len(u) \in Nat
  BY <1>2, <1>3 DEF IsPath
<1>5. Len(u) <= Len(q) /\ SubSeq(q, 1, Len(u)) = u
  BY <1>1, <1>2, <1>3, <1>4
<1>6. q # p
  BY <1>1, <1>2
<1> QED BY <1>5, <1>6 DEF Under

LEMMA EntryPath ==
  ASSUME HasTree, NEW p, NEW q \in Entries(p)
  PROVE  q \in DOMAIN fs /\ IsPath(q) /\ q # <<>> /\ Dir(q) = p
BY DEF HasTree, IsTree, Entries

LEMMA VisitFits ==
  ASSUME HasTree, NEW p, NEW q \in Entries(p), NEW owners, Fit(owners, p, Someone(tb, req)), NEW deep
  PROVE  /\ deep # "no" /\ owners \cap Roots(tb, req) # {} =>
              PieceFits(Visit(q, StatOf(q), owners, IsDir(q), deep), tb, req)
         /\ req # NoRequest /\ ~req.recurse /\ req.name = p =>
              PieceFits(Visit(q, StatOf(q), owners, FALSE, "no"), tb, req)
<1>1. Fit(owners, q, Someone(tb, req))
  BY EntryPath, EntryUnder DEF Fit
<1>2. q # p /\ q \in DOMAIN fs
  <2>1. PICK u \in owners : Under(p, u)
    BY DEF Fit
  <2> QED BY <2>1, EntryPath, EntryUnder
<1>3. StatOf(q).obj = fs[q] /\ (IsDir(q) <=> fs[q].dir)
  BY <1>2, StatIs DEF IsDir
<1>4. ASSUME deep # "no", owners \cap Roots(tb, req) # {}
      PROVE  PieceFits(Visit(q, StatOf(q), owners, IsDir(q), deep), tb, req)
  BY <1>1, <1>3, <1>4 DEF PieceFits, Visit
<1>5. ASSUME req # NoRequest, ~req.recurse, req.name = p
      PROVE  PieceFits(Visit(q, StatOf(q), owners, FALSE, "no"), tb, req)
  BY <1>1, <1>2, <1>5 DEF PieceFits, Visit
<1> QED BY <1>4, <1>5

LEMMA ListOwn ==
  ASSUME RollbackInv, OwnInv, IsTable(tb), DoList
  PROVE  OwnInv'
<1> DEFINE v == Head(todo)
           paths == {q \in Entries(v.path) : v.deep = "all" \/ IsDir(q)}
           entries == InOrder(paths)
           a == [k \in DOMAIN entries |->
                   Visit(entries[k], StatOf(entries[k]), v.owners, IsDir(entries[k]), v.deep)]
<1>1. todo # <<>> /\ v.do = "list" /\ HolderOnly
  BY DEF DoList, Doing
<1>2. PieceFits(v, tb, req)
  BY <1>1, HeadFits
<1>3. CASE ~IsDir(v.path)
  BY <1>1, <1>3, ErrorOwn DEF DoList
<1>4. CASE IsDir(v.path)
  <2>1. todo' = a \o Tail(todo) /\ UNCHANGED <<tb, req>>
    BY <1>4 DEF DoList, Then
  <2>2. paths \subseteq Entries(v.path)
    OBVIOUS
  <2>3. Fit(v.owners, v.path, Someone(tb, req)) /\ v.deep # "no" /\ v.owners \cap Roots(tb, req) # {}
    BY <1>1, <1>2 DEF PieceFits
  <2>4. Head(todo).do \notin {"finish", "visit"} /\ ~Registers(Head(todo), req.name)
    BY <1>1 DEF Registers
  <2> HIDE DEF paths, v
  <2>5. /\ Cardinality(paths) \in Nat /\ DOMAIN entries = 1..Cardinality(paths)
        /\ \A k \in DOMAIN entries : entries[k] \in Entries(v.path)
    BY <2>2, OrderIs DEF RollbackInv
  <2> HIDE DEF entries
  <2> DEFINE n == Cardinality(paths)
  <2>6. AreVisits(a, n, entries, v.owners, v.deep)
    BY <2>5 DEF AreVisits
  <2>7. \A k \in DOMAIN a : PieceFits(a[k], tb, req)
    BY <2>3, <2>5, VisitFits DEF RollbackInv
  <2> HIDE DEF a
  <2>8. IsPlan(a)
    BY <2>5, <2>6, VisitsAre DEF VisitsFor
  <2>9. \A w \in Range(a) : PieceFits(w, tb, req)
    BY <2>7, <2>8, PlanIs
  <2> QED BY <1>1, <2>1, <2>4, <2>8, <2>9, ReadOwn
<1> QED BY <1>3, <1>4

LEMMA ChildrenOwn ==
  ASSUME RollbackInv, OwnInv, IsTable(tb), DoChildren
  PROVE  OwnInv'
<1> DEFINE v == Head(todo)
           u == req.name
           entries == EntriesOf(v.path)
           a == [k \in DOMAIN entries |-> Visit(entries[k], StatOf(entries[k]), {u}, FALSE, "no")]
           w == Visit(v.path, v.stat, {u}, TRUE, "no")
           b == <<w>>
           c == a \o b
<1>1. todo # <<>> /\ v.do = "children" /\ HolderOnly
  BY DEF DoChildren, Doing
<1>2. PieceFits(v, tb, req) /\ IsPiece(v)
  BY <1>1, HeadWorks, HeadFits
<1>3. CASE ~IsDir(v.path)
  BY <1>1, <1>3, ErrorOwn DEF DoChildren
<1>4. CASE IsDir(v.path)
  <2>1. todo' = c \o Tail(todo) /\ UNCHANGED <<tb, req>>
    BY <1>4 DEF DoChildren, Then
  <2>2. Head(todo).do \notin {"finish", "visit"} /\ Head(todo).path = v.path
    BY <1>1
  <2>3. IsPiece(w)
    <3>1. v.stat \in [obj : {v.stat.obj}, changed : {v.stat.changed}]
      BY <1>2 DEF IsPiece
    <3> HIDE DEF v
    <3> QED BY <3>1, VisitIs
  <2>4. w.do = "visit" /\ w.owners = {u} /\ w.path = v.path /\ w.deep = "no" /\ w.scan = TRUE
    BY DEF Visit
  <2>5. req # NoRequest /\ ~req.recurse /\ v.path = u
    BY <1>1, <1>2 DEF PieceFits
  <2> HIDE DEF v, w
  <2>6. IsPath(u)
    BY <1>4, <2>5 DEF RollbackInv, HasTree, IsTree, IsDir
  <2>7. Fit({u}, v.path, Someone(tb, req))
    BY <2>5, <2>6, UnderIs DEF Fit, Someone, UserOf
  <2>8. PieceFits(w, tb, req)
    BY <2>4, <2>5, <2>7 DEF PieceFits
  <2>9. PICK n \in Nat : DOMAIN entries = 1..n /\ \A k \in 1..n : entries[k] \in Entries(v.path)
    BY EntriesAre DEF RollbackInv
  <2> HIDE DEF entries
  <2>10. AreVisits(a, n, entries, {u}, "no")
    BY <2>9 DEF AreVisits
  <2>11. \A k \in DOMAIN a : PieceFits(a[k], tb, req)
    BY <2>5, <2>7, <2>9, VisitFits DEF RollbackInv
  <2> HIDE DEF a, u
  <2>12. IsPlan(a)
    BY <2>9, <2>10, VisitsAre DEF VisitsFor
  <2>13. \A x \in Range(a) : PieceFits(x, tb, req)
    BY <2>11, <2>12, PlanIs
  <2>14. IsPlan(b) /\ Range(b) = {w}
    BY <2>3, OnePiece
  <2> HIDE DEF b
  <2>15. IsPlan(c) /\ Range(c) = Range(a) \cup {w}
    BY <2>12, <2>14, JoinPlans DEF Joins
  <2> HIDE DEF c
  <2>16. Registers(Head(todo), req.name) => Registers(w, req.name)
    BY <2>2, <2>4 DEF Registers
  <2>17. \A x \in Range(c) : PieceFits(x, tb, req)
    BY <2>8, <2>13, <2>15
  <2> QED BY <1>1, <2>1, <2>2, <2>15, <2>16, <2>17, ReadOwn
<1> QED BY <1>3, <1>4

LEMMA FinishOwn ==
  ASSUME RollbackInv, OwnInv, IsTable(tb), DoFinish
  PROVE  OwnInv'
<1> DEFINE u == req.name
           S == Someone(tb, req)
           R == Roots(tb, req)
<1>1. todo # <<>> /\ Head(todo).do = "finish" /\ HolderOnly
  BY DEF DoFinish, Doing
<1>2. req # NoRequest
  BY <1>1, HeadWorks
<1>3. AddPlan(todo, u, tb) /\ IsPlan(todo)
  BY <1>2 DEF RollbackInv
<1>4. Heads(todo)
  BY <1>1, <1>3, HeadOfPlan
<1>5. \A v \in Range(todo) : ~Registers(v, u)
  <2>1. Len(todo) = 1
    BY <1>1, <1>3, <1>4 DEF AddPlan, Ends, Heads
  <2>2. \A v \in Range(todo) : \E k \in 1..Len(todo) : todo[k] = v
    BY <1>3, PlanIs
  <2>3. \A v \in Range(todo) : v = Head(todo)
    BY <1>4, <2>1, <2>2 DEF Heads
  <2> QED BY <1>1, <2>3 DEF Registers
<1>6. u \in OwnersOf(tb, u)
  BY <1>2, <1>5 DEF OwnInv, RequestFits
<1>7. tb' = addUserWatch(tb, u, req.recurse) /\ todo' = <<>> /\ req' = NoRequest
  BY DEF DoFinish
<1>8. TablesFit(tb, S) /\ (calm => ScansFit(tb, fs, R, {u})) /\ S = tb.byUser \cup {u}
      /\ R = (IF req.recurse THEN tb.recurse \cup {u} ELSE tb.recurse)
  BY <1>2 DEF OwnInv, UserOf, Someone, Roots, Asked
<1> HIDE DEF S, R
<1>9. TablesFit(tb', tb'.byUser) /\ (calm => ScansFit(tb', fs, tb'.recurse, {}))
  <2>1. UserFits(tb, tb', S, u, req.recurse)
    BY <1>6, <1>7, <1>8, AddUserFits
  <2>2. tb'.byUser = S /\ tb'.recurse = R
    BY <1>8, <2>1 DEF UserFits
  <2> QED BY <1>8, <2>1, <2>2 DEF UserFits
<1>10. fs' = fs /\ calm' = calm
  BY <1>1 DEF HolderOnly, treeVars
<1>11. Range(todo') = {}
  BY <1>7, NoPieces
<1> QED BY <1>7, <1>9, <1>10, <1>11, IdleOwn

LEMMA UnlockOwn ==
  ASSUME RollbackInv, OwnInv, DoUnlock
  PROVE  OwnInv'
<1>1. todo # <<>> /\ Head(todo).do = "unlock" /\ HolderOnly /\ todo' = <<>> /\ UNCHANGED <<tb, req>>
  BY DEF DoUnlock, Doing
<1>2. req = NoRequest
  BY <1>1, HeadWorks DEF WorksFor
<1>3. Range(todo') = {}
  BY <1>1, NoPieces
<1>4. fs' = fs /\ calm' = calm
  BY <1>1 DEF HolderOnly, treeVars
<1>5. TablesFit(tb, tb.byUser) /\ (calm => ScansFit(tb, fs, tb.recurse, {}))
  BY <1>2, NobodyAsks DEF OwnInv
<1> QED BY <1>1, <1>2, <1>3, <1>4, <1>5, IdleOwn

LEMMA ScanOwn ==
  ASSUME RollbackInv, OwnInv, DoScan
  PROVE  OwnInv'
<1> DEFINE p == Head(todo).path
           entries == EntriesOf(p)
           a == [k \in DOMAIN entries |-> Entry(entries[k], p)]
<1>1. /\ todo # <<>> /\ Head(todo).do = "scan" /\ HolderOnly /\ UNCHANGED <<tb, req>>
      /\ todo' = a \o Tail(todo)
  BY DEF DoScan, Doing, Then
<1>2. p \in DOMAIN tb.owners
  BY <1>1, HeadFits DEF PieceFits
<1>3. PICK n \in Nat : DOMAIN entries = 1..n /\ \A k \in 1..n : entries[k] \in Entries(p)
  BY EntriesAre DEF RollbackInv
<1> HIDE DEF entries, p
<1>4. AreEntries(a, n, entries, p)
  BY <1>3 DEF AreEntries
<1>5. \A k \in DOMAIN a : PieceFits(a[k], tb, req)
  <2>1. \A q \in Entries(p) : IsPath(q) /\ q # <<>> /\ Dir(q) = p
    BY EntryPath DEF RollbackInv
  <2>2. \A q \in Entries(p) : PieceFits(Entry(q, p), tb, req)
    BY <1>2, <2>1 DEF PieceFits, Entry
  <2> QED BY <1>3, <2>2
<1> HIDE DEF a
<1>6. IsPlan(a)
  BY <1>4, EntryPlan DEF EntriesFor
<1>7. \A w \in Range(a) : PieceFits(w, tb, req)
  BY <1>5, <1>6, PlanIs
<1>8. ~Registers(Head(todo), req.name)
  BY <1>1 DEF Registers
<1> QED BY <1>1, <1>6, <1>7, <1>8, ReadOwn

LEMMA RingAssocs ==
  ASSUME NEW t, IsTable(t), NEW p, NEW o
  PROVE  rememberRename(t, p).assoc = t.assoc /\ takeRename(t, o).assoc = t.assoc
BY DEF IsTable, rememberRename, takeRename

LEMMA EntryOwn ==
  ASSUME RollbackInv, OwnInv, IsTable(tb), DoEntry
  PROVE  OwnInv'
<1> DEFINE v == Head(todo)
           o == v.stat.obj
           owners == OwnersOf(tb, v.dir)
           recursive == recursiveOwnersFor(tb, v.dir)
           e == <<>>
           U == UserOf(req)
           R == Roots(tb, req)
<1>1. todo # <<>> /\ v.do = "entry" /\ HolderOnly /\ UNCHANGED req
  BY DEF DoEntry, Doing
<1>2. req = NoRequest /\ (calm => Truthful(v, fs)) /\ PieceFits(v, tb, req)
  BY <1>1, HeadWorks, HeadFits DEF WorksFor
<1>3. IsPlan(e) /\ Range(e) = {} /\ (Then(<<>>) => todo' = e \o Tail(todo))
  BY NoPieces DEF Then
<1>4. Head(todo).do = "entry"
  BY <1>1
<1>5. Fit(owners, v.path, Someone(tb, req)) /\ R = tb.recurse /\ U = {} /\ recursive = owners \cap R
  <2>1. v.dir \in DOMAIN tb.owners /\ Dir(v.path) = v.dir /\ IsPath(v.path) /\ v.path # <<>>
    BY <1>1, <1>2 DEF PieceFits
  <2>2. Fit(owners, v.dir, Someone(tb, req))
    BY <2>1 DEF OwnInv, TablesFit, OwnersOf
  <2>3. Fit(owners, v.path, Someone(tb, req))
    BY <2>1, <2>2, EntryUnder DEF Fit
  <2> QED BY <1>2, <2>3, NobodyAsks DEF recursiveOwnersFor
<1>6. CASE Then(<<>>) /\ UNCHANGED tb
  <2> HIDE DEF e
  <2>1. PieceOwns(e)
    BY <1>1, <1>2, <1>3, <1>4, <1>6, SameOwn DEF PieceOwns, OwnsMore
  <2> QED BY <1>1, <2>1, PieceOwn
<1>7. CASE /\ Then(<<>>) /\ v.path \in DOMAIN fs /\ ~(o.dir /\ recursive # {})
           /\ tb' = associateOwned(tb, v.path, v.stat, owners, FALSE)
  <2>1. calm => v.stat.obj = fs[v.path]
    BY <1>1, <1>2, <1>7 DEF Truthful
  <2>2. calm /\ v.stat.obj.dir =>
          (FALSE \/ v.path \in tb.dirs <=> Wants(tb, v.path, OwnersOf(tb, v.path) \cup owners, R, U))
    <3> SUFFICES ASSUME calm, v.stat.obj.dir
                 PROVE  v.path \in tb.dirs <=> Wants(tb, v.path, OwnersOf(tb, v.path) \cup owners, R, U)
      OBVIOUS
    <3>1. TablesFit(tb, Someone(tb, req)) /\ ScansFit(tb, fs, R, U) /\ KnowsDirs(tb, fs)
      BY DEF OwnInv, RollbackInv
    <3>2. v.path \in DOMAIN fs /\ fs[v.path].dir /\ v.path \notin U /\ owners \cap R = {}
      BY <1>5, <1>7, <2>1
    <3> HIDE DEF v, owners, R, U
    <3> QED BY <3>1, <3>2, WantedBefore
  <2> HIDE DEF v, owners, e, R, U, recursive, o
  <2>3. OwnsMore
    BY <1>5, <1>7, <2>1, <2>2, AssociateOwn DEF R, U
  <2>4. PieceOwns(e)
    BY <1>1, <1>2, <1>3, <1>4, <1>7, <2>3 DEF PieceOwns, OwnsMore
  <2> QED BY <1>1, <2>4, PieceOwn
<1>8. CASE /\ tb' = tb \/ tb' = takeRename(tb, o)
           /\ recursive # {} /\ \E deep \in {"all", "dirs"} : Then(<<Root(v.path, owners, recursive, deep)>>)
  <2>1. PICK deep \in {"all", "dirs"} : Then(<<Root(v.path, owners, recursive, deep)>>)
    BY <1>8
  <2> DEFINE r == Root(v.path, owners, recursive, deep)
             a == <<r>>
  <2>2. IsPiece(r) /\ todo' = a \o Tail(todo)
    BY <2>1, PiecesAre DEF Then
  <2>3. r.do = "root" /\ r.path = v.path /\ r.owners = owners /\ r.below = recursive /\ r.deep = deep
    BY DEF Root
  <2> HIDE DEF v, o, owners, recursive, e, r
  <2>4. IsPlan(a) /\ Range(a) = {r}
    BY <2>2, OnePiece
  <2> HIDE DEF a
  <2>5. SameTables(tb, tb') /\ tb'.assoc = tb.assoc
    BY <1>8, RingFields, RingAssocs DEF SameTables
  <2>6. OwnsMore
    <3>1. DOMAIN tb'.assoc \subseteq DOMAIN tb.owners
      BY <2>5 DEF OwnInv, TablesFit
    <3>2. MoreOwners(tb, tb') /\ TablesFit(tb', Someone(tb, req))
      BY <2>5, <3>1, PortFits DEF OwnInv
    <3>3. calm => ScansFit(tb', fs, Roots(tb, req), UserOf(req))
      BY <2>5, PortFits DEF OwnInv
    <3> QED BY <3>2, <3>3 DEF OwnsMore
  <2>7. PieceFits(r, tb, req)
    <3>1. recursive \subseteq owners /\ recursive \cap R # {} /\ owners \cap R # {}
      BY <1>5, <1>8
    <3> QED BY <1>5, <2>1, <2>3, <3>1 DEF PieceFits, R
  <2>8. \A w \in Range(a) : PieceFits(w, tb', req)
    BY <2>4, <2>6, <2>7, MoreFits DEF OwnsMore
  <2>9. PieceOwns(a)
    BY <1>1, <1>2, <1>4, <2>2, <2>4, <2>6, <2>8 DEF PieceOwns, OwnsMore
  <2> QED BY <1>1, <2>9, PieceOwn
<1>9. \/ Then(<<>>) /\ UNCHANGED tb
      \/ /\ Then(<<>>) /\ v.path \in DOMAIN fs /\ ~(o.dir /\ recursive # {})
         /\ tb' = associateOwned(tb, v.path, v.stat, owners, FALSE)
      \/ /\ tb' = tb \/ tb' = takeRename(tb, o)
         /\ recursive # {} /\ \E deep \in {"all", "dirs"} : Then(<<Root(v.path, owners, recursive, deep)>>)
  BY DEF DoEntry, CannotAssociate
<1> QED BY <1>6, <1>7, <1>8, <1>9

LEMMA HolderOwn ==
  ASSUME RollbackInv, OwnInv, IsTable(tb), Holder
  PROVE  OwnInv'
BY VisitOwn, RootOwn, ListOwn, ChildrenOwn, FinishOwn, ScanOwn, EntryOwn, UnlockOwn DEF Holder

-----------------------------------------------------------------------------
(* The steps of readEvents, of the callers, and of other processes.        *)
-----------------------------------------------------------------------------
(* An event that says its path is gone makes the watcher forget a path     *)
(* that has been associated anew since, or a user that owns another path,  *)
(* which is not forgotten with it.                                         *)
Strands ==
  /\ Handle
  /\ LET p == Head(batch).path
     IN  /\ p \in DOMAIN tb.owners \ DOMAIN tb'.owners
         /\ \/ p \in DOMAIN tb.assoc
            \/ \E q \in DOMAIN tb'.owners : \E u \in tb.owners[q] : u \in tb.byUser \ tb'.byUser

LEMMA ForgetsOwn ==
  ASSUME OwnInv, IsTable(tb), req = NoRequest, Handle, ~Strands,
         NEW t, IsTable(t), SameTables(tb, t), t.assoc = tb.assoc,
         NEW p, p = Head(batch).path, p \in DOMAIN tb.owners, NEW tree, tb' = dropPhysical(t, p, tree)
  PROVE  TablesFit(tb', tb'.byUser) /\ (calm => ScansFit(tb', fs, tb'.recurse, {}))
<1>1. TablesFit(tb, tb.byUser) /\ (calm => ScansFit(tb, fs, tb.recurse, {}))
  BY NobodyAsks DEF OwnInv
<1>2. /\ t.owners = tb.owners /\ t.byUser = tb.byUser /\ t.recurse = tb.recurse
  BY DEF SameTables
<1>3. TablesFit(t, t.byUser) /\ (calm => ScansFit(t, fs, t.recurse, {}))
  <2>1. DOMAIN t.assoc \subseteq DOMAIN tb.owners
    BY <1>1 DEF TablesFit
  <2> QED BY <1>1, <1>2, <2>1, PortFits
<1>4. p \notin DOMAIN tb'.owners
  <2>1. HasDropped(t, tb', p, tree)
    BY DropPhysicalFields
  <2>2. IsWithout(tb'.owners, t.owners, Dropped(t, p, tree))
    BY <2>1, WithoutIs DEF HasDropped
  <2>3. p \in Dropped(t, p, tree)
    BY <1>2 DEF Dropped, HitBy
  <2> QED BY <2>2, <2>3 DEF IsWithout
<1>5. /\ p \notin DOMAIN tb.assoc
      /\ \A q \in DOMAIN tb'.owners : \A u \in tb.owners[q] : u \notin tb.byUser \ tb'.byUser
  BY <1>4 DEF Strands
<1>6. Spares(t, tb')
  BY <1>2, <1>5 DEF Spares
<1>7. TablesFit(tb', tb'.byUser) /\ \A f : ScansFit(t, f, t.recurse, {}) => ScansFit(tb', f, tb'.recurse, {})
  BY <1>3, <1>5, <1>6, DropFits
<1> QED BY <1>3, <1>7

LEMMA HandleOwn ==
  ASSUME RollbackInv, OwnInv, IsTable(tb), Handle, ~Strands
  PROVE  OwnInv'
<1> DEFINE e == Head(batch)
           p == e.path
           t == IF e.act = "rename from" /\ e.dir THEN rememberRename(tb, p) ELSE tb
           n == <<Scan(p), Unlock>>
<1>1. UNCHANGED <<treeVars, req, calm>> /\ Unlocked /\ req = NoRequest
  BY FreeStep DEF Handle
<1>2. \/ todo' = todo /\ tb' = tb
      \/ /\ todo' = todo /\ p \in DOMAIN tb.owners
         /\ tb' = dropPhysical(t, p, e.act # "delete" /\ e.dir)
      \/ todo' = todo /\ p \in DOMAIN tb.owners /\ tb' = dropPhysical(tb, p, FALSE)
      \/ /\ todo' = todo \/ todo' = n
         /\ p \in DOMAIN tb.owners /\ tb' = associateFileLocked(tb, p, StatOf(p))
  BY DEF Handle
<1>3. IsTable(t) /\ SameTables(tb, t) /\ t.assoc = tb.assoc
  BY RingFields, RingAssocs DEF SameTables
<1>4. SameTables(tb, tb)
  BY DEF SameTables
<1>5. TablesFit(tb, tb.byUser) /\ (calm => ScansFit(tb, fs, tb.recurse, {}))
  BY <1>1, NobodyAsks DEF OwnInv
<1>6. p = Head(batch).path
  OBVIOUS
<1> HIDE DEF t, p, n
<1>7. TablesFit(tb', tb'.byUser) /\ (calm => ScansFit(tb', fs, tb'.recurse, {}))
  <2>1. CASE tb' = tb
    BY <1>5, <2>1
  <2>2. CASE p \in DOMAIN tb.owners /\ \E tree : tb' = dropPhysical(t, p, tree)
    BY <1>1, <1>3, <1>6, <2>2, ForgetsOwn
  <2>3. CASE p \in DOMAIN tb.owners /\ tb' = dropPhysical(tb, p, FALSE)
    BY <1>1, <1>4, <1>6, <2>3, ForgetsOwn
  <2>4. CASE p \in DOMAIN tb.owners /\ tb' = associateFileLocked(tb, p, StatOf(p))
    <3>1. SameTables(tb, tb') /\ DOMAIN tb'.assoc \subseteq DOMAIN tb.assoc \cup {p}
      BY <2>4, AssociateFields, AssociateAssocs
    <3>2. DOMAIN tb'.assoc \subseteq DOMAIN tb.owners
      BY <1>5, <2>4, <3>1 DEF TablesFit
    <3>3. tb'.byUser = tb.byUser /\ tb'.recurse = tb.recurse
      BY <3>1 DEF SameTables
    <3> QED BY <1>5, <3>1, <3>2, <3>3, PortFits
  <2> QED BY <1>2, <2>1, <2>2, <2>3, <2>4
<1>8. \A v \in Range(todo') : PieceFits(v, tb', NoRequest)
  <2>1. CASE todo' = todo
    BY <1>1, <2>1, NoPieces DEF Unlocked
  <2>2. CASE todo' = n /\ p \in DOMAIN tb.owners /\ tb' = associateFileLocked(tb, p, StatOf(p))
    <3>1. p \in DOMAIN tb'.owners
      BY <2>2, AssociateFields DEF SameTables
    <3>2. PieceFits(Scan(p), tb', NoRequest) /\ PieceFits(Unlock, tb', NoRequest)
      BY <3>1 DEF PieceFits, Scan, Unlock
    <3>3. Range(n) \subseteq {Scan(p), Unlock}
      <4> DEFINE s == Scan(p)
                 m == <<s, Unlock>>
      <4>1. DOMAIN m = 1..2 /\ m[1] = s /\ m[2] = Unlock
        OBVIOUS
      <4>2. m = n
        BY DEF n
      <4> HIDE DEF m, s
      <4>3. Range(m) \subseteq {s, Unlock}
        BY <4>1 DEF Range
      <4> QED BY <4>2, <4>3 DEF s
    <3> QED BY <2>2, <3>2, <3>3
  <2> QED BY <1>2, <2>1, <2>2
<1>9. fs' = fs /\ calm' = calm /\ req' = NoRequest
  BY <1>1 DEF treeVars
<1> QED BY <1>7, <1>8, <1>9, IdleOwn

(* Only the port changes. *)
LEMMA PortOwn ==
  ASSUME OwnInv, UNCHANGED <<treeVars, todo, req, calm>>, SameTables(tb, tb'),
         DOMAIN tb'.assoc \subseteq DOMAIN tb.assoc
  PROVE  OwnInv'
<1>1. fs' = fs /\ calm' = calm /\ todo' = todo /\ req' = req
  BY DEF treeVars
<1>2. DOMAIN tb'.assoc \subseteq DOMAIN tb.owners
  BY DEF OwnInv, TablesFit
<1>3. TablesFit(tb', Someone(tb, req)) /\ (calm => ScansFit(tb', fs, Roots(tb, req), UserOf(req)))
  BY <1>2, PortFits DEF OwnInv
<1>4. Someone(tb', req) = Someone(tb, req) /\ Roots(tb', req) = Roots(tb, req)
  BY DEF SameTables, Someone, Roots
<1>5. \A v \in Range(todo) : PieceFits(v, tb', req)
  BY PortFits, MoreFits DEF OwnInv
<1>6. RequestFits(tb', req, todo)
  BY DEF OwnInv, RequestFits, Alone, OwnersOf, SameTables
<1> QED BY <1>1, <1>3, <1>4, <1>5, <1>6 DEF OwnInv

LEMMA GetOwn ==
  ASSUME OwnInv, IsTable(tb), Get
  PROVE  OwnInv'
<1>1. UNCHANGED <<treeVars, todo, req, calm>>
  BY DEF Get
<1>2. \A q : LET r == [tb EXCEPT !.queue = q] IN r.assoc = tb.assoc /\ SameTables(tb, r)
  BY DEF IsTable, SameTables
<1>3. tb' = tb \/ \E q : tb' = [tb EXCEPT !.queue = q]
  BY DEF Get
<1>4. SameTables(tb, tb') /\ tb'.assoc = tb.assoc
  BY <1>2, <1>3 DEF SameTables
<1> QED BY <1>1, <1>4, PortOwn

LEMMA ClosePortOwn ==
  ASSUME OwnInv, IsTable(tb), NEW c, ClosePort(c)
  PROVE  OwnInv'
<1>1. UNCHANGED <<treeVars, todo, req, calm>>
  BY DEF ClosePort
<1>2. SameTables(tb, tb') /\ tb'.assoc = <<>>
  BY DEF ClosePort, IsTable, SameTables
<1> QED BY <1>1, <1>2, PortOwn

LEMMA RemoveOwn ==
  ASSUME RollbackInv, OwnInv, IsTable(tb), NEW p, NEW rec, RemoveWatch(p, rec)
  PROVE  OwnInv'
<1>1. /\ UNCHANGED <<treeVars, todo, req, calm>> /\ Unlocked /\ tb' = releaseOwner(tb, p)
  BY DEF RemoveWatch, CanCall, CallOnly
<1>2. req = NoRequest /\ fs' = fs
  BY <1>1, FreeStep DEF treeVars
<1>3. TablesFit(tb, tb.byUser) /\ (calm => ScansFit(tb, fs, tb.recurse, {}))
  BY <1>2, NobodyAsks DEF OwnInv
<1>4. TablesFit(tb', tb.byUser \ {p}) /\ (calm => ScansFit(tb', fs, tb'.recurse, {}))
  BY <1>1, <1>3, ReleaseFits, ReleaseScans
<1>5. tb'.byUser = tb.byUser \ {p}
  BY <1>1, ReleaseOwnerFields DEF Released
<1>6. Range(todo') = {}
  BY <1>1, NoPieces DEF Unlocked
<1> QED BY <1>1, <1>2, <1>4, <1>5, <1>6, IdleOwn

(* A call begins. *)
LEMMA MayOwn ==
  ASSUME NEW t, TablesFit(t, t.byUser), NEW u, NEW R,
         u \in R => R = t.recurse \/ (u \notin t.byUser /\ R = t.recurse \cup {u}),
         u \notin R => R = t.recurse
  PROVE  /\ TablesFit(t, t.byUser \cup {u})
         /\ \A f : ScansFit(t, f, t.recurse, {}) => ScansFit(t, f, R, {u})
<1>1. TablesFit(t, t.byUser \cup {u})
  BY DEF TablesFit, Fit
<1>2. \A p \in DOMAIN t.owners : t.owners[p] \subseteq t.byUser
  BY DEF TablesFit, Fit
<1>3. \A p \in DOMAIN t.owners : t.owners[p] \cap R = t.owners[p] \cap t.recurse
  BY <1>2
<1>4. \A p \in DOMAIN t.owners : Wants(t, p, t.owners[p], R, {u}) <=> Wants(t, p, t.owners[p], t.recurse, {})
  BY <1>2, <1>3 DEF Wants
<1>5. \A f : ScansFit(t, f, t.recurse, {}) => ScansFit(t, f, R, {u})
  BY <1>4 DEF ScansFit, ScanFits
<1> QED BY <1>1, <1>5

Begins(v, q, t) ==
  /\ IsPiece(v) /\ Registers(v, q.name) /\ PieceFits(v, t, q)
  /\ v.do = "visit" => v.deep = "no"

LEMMA AddWithOwn ==
  ASSUME RollbackInv, OwnInv, NEW p \in Path, NEW rec \in BOOLEAN, AddWith(p, rec)
  PROVE  OwnInv'
<1> DEFINE recurse == IF p \in tb.byUser THEN p \in tb.recurse ELSE rec
           v == IF recurse THEN Root(p, {p}, {p}, "all")
                ELSE IF IsDir(p) THEN Children(p) ELSE Visit(p, StatOf(p), {p}, FALSE, "no")
           a == <<v>>
           b == <<Finish>>
           c == a \o b
           R == Roots(tb, req')
           S == Someone(tb, req')
<1>1. todo' = c
  BY DEF AddWith
<1>2. /\ UNCHANGED tb /\ fs' = fs /\ Unlocked /\ (calm' => calm) /\ (recurse \/ p \in DOMAIN fs)
  BY DEF AddWith, CanCall, CallOnly, treeVars
<1>3. /\ req'.name = p /\ (req'.recurse <=> recurse)
      /\ req'.rollback <=> p \notin tb.byUser /\ (recurse \/ IsDir(p))
  BY DEF AddWith
<1>4. req' # NoRequest
  BY <1>3, PathNotEmpty DEF NoRequest
<1>5. UserOf(req') = {p} /\ S = tb.byUser \cup {p} /\ R = (IF recurse THEN tb.recurse \cup {p} ELSE tb.recurse)
  BY <1>3, <1>4 DEF UserOf, Someone, Roots, Asked
<1>6. TablesFit(tb, tb.byUser) /\ (calm => ScansFit(tb, fs, tb.recurse, {})) /\ tb.recurse \subseteq tb.byUser
  BY <1>2, FreeStep, NobodyAsks DEF OwnInv, TablesFit
<1>7. TablesFit(tb, S) /\ (calm => ScansFit(tb, fs, R, {p}))
  <2>1. p \in R => R = tb.recurse \/ (p \notin tb.byUser /\ R = tb.recurse \cup {p})
    BY <1>5, <1>6
  <2>2. p \notin R => R = tb.recurse
    BY <1>5
  <2> HIDE DEF R, S
  <2> QED BY <1>5, <1>6, <2>1, <2>2, MayOwn
<1>8. Fit({p}, p, S)
  BY <1>5, PathNotEmpty, UnderIs DEF Fit
<1>9. Begins(v, req', tb) /\ (v.do = "visit" \/ req'.rollback \/ p \in tb.byUser)
  <2>1. CASE recurse
    <3> DEFINE w == Root(p, {p}, {p}, "all")
    <3>1. IsPiece(w) /\ w = v
      BY <2>1, PiecesAre
    <3>2. w.do = "root" /\ w.owners = {p} /\ w.below = {p} /\ w.deep = "all" /\ w.path = p
      BY DEF Root
    <3>3. p \in R
      BY <1>5, <2>1
    <3> HIDE DEF v, w
    <3>4. PieceFits(w, tb, req')
      BY <1>8, <3>2, <3>3 DEF PieceFits
    <3> QED BY <1>3, <2>1, <3>1, <3>2, <3>4 DEF Begins, Registers
  <2>2. CASE ~recurse /\ IsDir(p)
    <3> DEFINE w == Children(p)
    <3>1. IsPiece(w) /\ w = v
      BY <2>2, PiecesAre
    <3>2. w.do = "children" /\ w.path = p
      BY DEF Children
    <3> HIDE DEF v, w
    <3>3. PieceFits(w, tb, req')
      BY <1>3, <1>4, <2>2, <3>2 DEF PieceFits
    <3> QED BY <1>3, <2>2, <3>1, <3>2, <3>3 DEF Begins, Registers
  <2>3. CASE ~recurse /\ ~IsDir(p)
    <3> DEFINE w == Visit(p, StatOf(p), {p}, FALSE, "no")
    <3>1. IsPiece(w) /\ w = v
      BY <2>3, PiecesAre
    <3>2. /\ w.do = "visit" /\ w.owners = {p} /\ w.path = p /\ w.deep = "no" /\ w.stat.obj = fs[p]
      BY StatIs DEF Visit
    <3>3. ~fs[p].dir
      BY <1>2, <2>3 DEF IsDir
    <3> HIDE DEF v, w
    <3>4. PieceFits(w, tb, req')
      BY <1>3, <1>4, <1>8, <2>3, <3>2, <3>3 DEF PieceFits
    <3> QED BY <1>3, <3>1, <3>2, <3>4 DEF Begins, Registers
  <2> QED BY <2>1, <2>2, <2>3
<1> HIDE DEF v
<1>10. /\ IsPlan(a) /\ Range(a) = {v} /\ DOMAIN a = {1} /\ a[1] = v /\ Len(a) = 1
  BY <1>9, OnePiece DEF Begins
<1>11. IsPiece(Finish) /\ Finish.do = "finish"
  BY PiecesAre DEF Finish
<1>12. /\ IsPlan(b) /\ Range(b) = {Finish} /\ Len(b) = 1
  BY <1>11, OnePiece
<1> HIDE DEF a, b
<1>13. Joins(c, a, b)
  BY <1>10, <1>12, JoinPlans
<1> HIDE DEF c
<1>14. Range(c) = {v, Finish} /\ Len(c) = 2 /\ c[1] = v
  BY <1>10, <1>12, <1>13 DEF Joins
<1>15. \A w \in Range(c) : PieceFits(w, tb, req')
  BY <1>9, <1>11, <1>14 DEF PieceFits, Begins
<1>16. RequestFits(tb, req', c)
  <2>1. req'.rollback \/ p \in tb.byUser \/ Alone(tb, p, c)
    <3> SUFFICES ASSUME ~req'.rollback, p \notin tb.byUser PROVE Alone(tb, p, c)
      OBVIOUS
    <3>1. v.do = "visit" /\ v.deep = "no"
      BY <1>9 DEF Begins
    <3>2. \A q \in DOMAIN tb.owners : p \notin tb.owners[q]
      BY <1>6 DEF TablesFit, Fit
    <3> QED BY <1>14, <3>1, <3>2 DEF Alone
  <2>2. \E w \in Range(c) : Registers(w, p)
    BY <1>3, <1>9, <1>14 DEF Begins
  <2>3. p \in tb.byUser => (req'.recurse <=> p \in tb.recurse)
    BY <1>3
  <2> HIDE DEF recurse
  <2> QED BY <1>3, <2>1, <2>2, <2>3 DEF RequestFits
<1> HIDE DEF R, S, recurse
<1>17. TablesFit(tb', Someone(tb', req')) /\ (calm' => ScansFit(tb', fs', Roots(tb', req'), UserOf(req')))
  BY <1>2, <1>5, <1>7 DEF R, S
<1>18. (\A w \in Range(todo') : PieceFits(w, tb', req')) /\ RequestFits(tb', req', todo')
  BY <1>1, <1>2, <1>15, <1>16
<1> QED BY <1>17, <1>18 DEF OwnInv

LEMMA TreeAssocs ==
  ASSUME IsTable(tb), TreeChanges
  PROVE  DOMAIN tb'.assoc \subseteq DOMAIN tb.assoc
<1> DEFINE Fewer(t, r) == IsTable(r) /\ DOMAIN r.assoc \subseteq DOMAIN t.assoc
<1>1. \A t, os, act : IsTable(t) => Fewer(t, Fire(t, os, act))
  BY PortFields, PortAssocs
<1>2. \A t, ps : IsTable(t) => Fewer(t, Modified(t, ps))
  BY <1>1 DEF Modified
<1>3. \A t, os, act, ps : IsTable(t) => Fewer(t, Modified(Fire(t, os, act), ps))
  BY <1>1, <1>2
<1>4. \A t, os, act, os2, act2, ps :
        IsTable(t) => Fewer(t, Modified(Fire(Fire(t, os, act), os2, act2), ps))
  BY <1>1, <1>3
<1>5. \/ \E ps : tb' = Modified(tb, ps)
      \/ \E os, act, ps : tb' = Modified(Fire(tb, os, act), ps)
      \/ \E os, act : tb' = Fire(tb, os, act)
      \/ \E os, act, os2, act2, ps : tb' = Modified(Fire(Fire(tb, os, act), os2, act2), ps)
  BY DEF TreeChanges
<1> HIDE DEF Fewer
<1>6. Fewer(tb, tb')
  BY <1>1, <1>2, <1>3, <1>4, <1>5
<1> QED BY <1>6 DEF Fewer

LEMMA AlikeFits ==
  ASSUME NEW v, NEW w, IsPiece(v), Alike(v, w), NEW t, NEW q, PieceFits(v, t, q)
  PROVE  PieceFits(w, t, q)
<1>1. w.do = v.do /\ w.stat.obj = v.stat.obj
  BY DEF Alike
<1>2. v.do \in {"visit", "root", "list"} => w.owners = v.owners /\ w.deep = v.deep
  BY DEF Alike, IsPiece
<1>3. v.do = "root" => w.below = v.below
  BY DEF Alike, IsPiece
<1>4. v.do = "visit" => w.scan = v.scan
  BY DEF Alike, IsPiece
<1>5. v.do = "entry" => w.dir = v.dir
  BY DEF Alike, IsPiece
<1>6. v.do \notin {"finish", "unlock"} => w.path = v.path
  BY DEF Alike, IsPiece
<1> QED BY <1>1, <1>2, <1>3, <1>4, <1>5, <1>6 DEF PieceFits

LEMMA TreeOwn ==
  ASSUME RollbackInv, OwnInv, Sound(tb), TreeChanges
  PROVE  OwnInv'
<1>1. PICK ps : Takes(ps) /\ OnlyAt(ps)
  BY TreeTakes DEF RollbackInv
<1>2. SameTables(tb, tb') /\ DOMAIN tb'.assoc \subseteq DOMAIN tb.assoc
  BY TreeFields, TreeAssocs DEF Sound
<1>3. PICK os : MarkChanged(os)
  BY TreeFields
<1>4. IsPlan(todo) /\ AlikePlans(todo, todo')
  BY <1>3, MarkedPlan DEF RollbackInv
<1>5. /\ IsPlan(todo') /\ DOMAIN todo' = DOMAIN todo /\ Len(todo') = Len(todo)
      /\ \A k \in DOMAIN todo : Alike(todo[k], todo'[k]) /\ IsPiece(todo[k]) /\ todo[k] \in Range(todo)
      /\ \A w \in Range(todo') : \E k \in DOMAIN todo : todo'[k] = w
      /\ \A v \in Range(todo) : \E k \in DOMAIN todo : todo[k] = v
      /\ \A k \in DOMAIN todo : todo'[k] \in Range(todo')
  BY <1>4, PlanIs DEF AlikePlans
<1>6. req' = req
  BY DEF TreeChanges
<1>7. calm' => calm /\ ps \cap DOMAIN tb.owners = {}
  BY <1>1 DEF Takes
<1>8. MoreOwners(tb, tb') /\ Someone(tb', req) = Someone(tb, req) /\ Roots(tb', req) = Roots(tb, req)
  BY <1>2, PortFits DEF SameTables, Someone, Roots
<1>9. TablesFit(tb', Someone(tb, req))
  <2>1. DOMAIN tb'.assoc \subseteq DOMAIN tb.owners
    BY <1>2 DEF OwnInv, TablesFit
  <2> QED BY <1>2, <2>1, PortFits DEF OwnInv
<1>10. \A w \in Range(todo') : PieceFits(w, tb', req)
  <2>1. \A k \in DOMAIN todo : PieceFits(todo'[k], tb, req)
    BY <1>5, AlikeFits DEF OwnInv
  <2> QED BY <1>5, <1>8, <2>1, MoreFits
<1>11. RequestFits(tb', req, todo')
  <2> SUFFICES ASSUME req # NoRequest PROVE RequestFits(tb', req, todo')
    BY DEF RequestFits
  <2>1. RequestFits(tb, req, todo)
    BY DEF OwnInv
  <2>2. Alone(tb, req.name, todo) => Alone(tb', req.name, todo')
    <3>1. CASE Len(todo) = 1
      BY <1>5, <3>1 DEF Alone
    <3>2. CASE Len(todo) = 2 /\ todo[1].do = "visit" /\ todo[1].deep = "no"
      <4>1. 1 \in DOMAIN todo
        BY <1>4, <3>2, PlanIs
      <4>2. todo'[1].do = "visit" /\ todo'[1].deep = "no"
        BY <1>5, <3>2, <4>1 DEF Alike, IsPiece
      <4> QED BY <1>2, <1>5, <3>2, <4>2 DEF Alone, SameTables
    <3> QED BY <3>1, <3>2 DEF Alone
  <2>3. (\E v \in Range(todo) : Registers(v, req.name)) => \E w \in Range(todo') : Registers(w, req.name)
    BY <1>5, AlikeWorks
  <2> QED BY <1>2, <2>1, <2>2, <2>3 DEF RequestFits, SameTables, OwnersOf
<1>12. ASSUME calm' PROVE ScansFit(tb', fs', Roots(tb, req), UserOf(req))
  <2>1. ScansFit(tb', fs, Roots(tb, req), UserOf(req)) /\ DOMAIN tb'.owners = DOMAIN tb.owners
    BY <1>2, <1>7, <1>12, PortFits DEF OwnInv, SameTables
  <2>2. \A p \in DOMAIN tb'.owners : p \in DOMAIN fs' => p \in DOMAIN fs /\ fs'[p] = fs[p]
    BY <1>1, <1>7, <1>12, <2>1 DEF OnlyAt
  <2> QED BY <2>1, <2>2 DEF ScansFit, ScanFits
<1> QED BY <1>6, <1>8, <1>9, <1>10, <1>11, <1>12 DEF OwnInv

-----------------------------------------------------------------------------
(* What follows of it.                                                     *)
-----------------------------------------------------------------------------
LEMMA OwnStep ==
  ASSUME RollbackInv, OwnInv, HearsInv, [Next]_vars, ~Strands
  PROVE  OwnInv'
<1>1. Sound(tb) /\ IsTable(tb)
  BY DEF HearsInv, Hears, Sound
<1>2. CASE Holder
  BY <1>1, <1>2, HolderOwn
<1>3. CASE Get \/ Handle
  BY <1>1, <1>3, GetOwn, HandleOwn
<1>4. ASSUME NEW c, ClosePort(c) PROVE OwnInv'
  BY <1>1, <1>4, ClosePortOwn
<1>5. ASSUME UNCHANGED <<treeVars, tb, todo, req, calm>> PROVE OwnInv'
  BY <1>5, PortOwn DEF SameTables
<1>6. ASSUME NEW c, CloseFlag(c) \/ CloseReturn(c) PROVE OwnInv'
  BY <1>5, <1>6 DEF CloseFlag, CloseReturn
<1>7. CASE Send \/ StopReceiving \/ UNCHANGED vars
  BY <1>5, <1>7 DEF Send, StopReceiving, vars
<1>8. ASSUME NEW p \in PlainPaths \cup RecursivePaths, NEW rec \in BOOLEAN,
             AddWith(p, rec) \/ RemoveWatch(p, rec)
      PROVE  OwnInv'
  <2>1. p \in Path
    BY FenAssumption
  <2> QED BY <1>1, <1>8, <2>1, AddWithOwn, RemoveOwn
<1>9. CASE TreeChanges
  BY <1>1, <1>9, TreeOwn
<1> QED BY <1>2, <1>3, <1>4, <1>6, <1>7, <1>8, <1>9 DEF Next, Reader, CloseStep

LEMMA InitOwn ==
  ASSUME Init
  PROVE  OwnInv
<1>1. /\ tb.owners = <<>> /\ tb.assoc = <<>> /\ tb.info = <<>> /\ tb.dirs = {}
      /\ tb.recurse = {} /\ tb.byUser = {} /\ todo = <<>> /\ req = NoRequest
  BY DEF Init, WatchesInit
<1>2. DOMAIN tb.owners = {} /\ DOMAIN tb.assoc = {} /\ DOMAIN tb.info = {}
  BY <1>1
<1>3. TablesFit(tb, Someone(tb, req)) /\ ScansFit(tb, fs, Roots(tb, req), UserOf(req))
  BY <1>1, <1>2 DEF TablesFit, ScansFit
<1>4. Range(todo) = {} /\ RequestFits(tb, req, todo)
  BY <1>1, NoPieces DEF RequestFits
<1> QED BY <1>3, <1>4 DEF OwnInv

LEMMA OwnSound ==
  ASSUME RollbackInv, OwnInv
  PROVE  OwnersSound
<1>1. CASE Unlocked
  <2>1. TablesFit(tb, tb.byUser)
    BY <1>1, FreeStep, NobodyAsks DEF OwnInv
  <2> QED BY <2>1 DEF TablesFit, Fit, OwnersSound
<1>2. CASE ~Unlocked
  BY <1>2 DEF OwnersSound, Quiet
<1> QED BY <1>1, <1>2

LEMMA OwnScans ==
  ASSUME RollbackInv, OwnInv
  PROVE  ScanExact
<1> SUFFICES ASSUME Unlocked, calm
             PROVE  tb.dirs = {p \in DOMAIN tb.owners : directoryNeedsScan(tb, p)}
  BY DEF ScanExact, Quiet
<1>1. ScansFit(tb, fs, tb.recurse, {}) /\ tb.dirs \subseteq DOMAIN tb.owners
  BY FreeStep, NobodyAsks DEF OwnInv, TablesFit
<1>2. \A p \in DOMAIN tb.owners : p \in tb.dirs <=> directoryNeedsScan(tb, p)
  <2> SUFFICES ASSUME NEW p \in DOMAIN tb.owners PROVE p \in tb.dirs <=> directoryNeedsScan(tb, p)
    OBVIOUS
  <2>1. p \in tb.dirs <=> InfoOf(tb, p).dir /\ Wants(tb, p, tb.owners[p], tb.recurse, {})
    BY <1>1 DEF ScansFit, ScanFits
  <2> QED BY <2>1 DEF Wants, directoryNeedsScan, recursiveOwnersFor, OwnersOf
<1> QED BY <1>1, <1>2

OwnedInv == RollbackInv /\ OwnInv

LEMMA OwnedKeeps ==
  ASSUME OwnedInv, HearsInv, HearsInv', [Next]_vars, [~Strands]_vars
  PROVE  OwnedInv'
<1>1. ~Strands
  <2>1. UNCHANGED vars => ~Strands
    BY DEF vars, Strands
  <2> QED BY <2>1
<1>2. OwnersSound /\ ScanExact
  BY OwnSound, OwnScans DEF OwnedInv
<1>3. RollbackInv'
  BY <1>2, NextKeeps DEF OwnedInv
<1>4. OwnInv'
  BY <1>1, OwnStep DEF OwnedInv
<1> QED BY <1>3, <1>4 DEF OwnedInv

LEMMA OwnedAlways == Spec /\ [][~Strands]_vars => []OwnedInv
<1>1. Init => OwnedInv
  BY InitRolls, InitOwn DEF OwnedInv
<1>2. OwnedInv /\ HearsInv /\ HearsInv' /\ [Next]_vars /\ [~Strands]_vars => OwnedInv'
  BY OwnedKeeps
<1>3. Spec => []HearsInv
  BY InvAlways, PTL
<1> QED BY <1>1, <1>2, <1>3, PTL DEF Spec

(* RC-008, RC-009, RC-018: as long as no event strands a path or a user,   *)
(* what nobody owns is not associated, and the owners of a path are users  *)
(* that still watch, each at the path or above it: whatever walks, scans,  *)
(* failures and calls of Remove have come in between, and whatever Close   *)
(* and the tree did during them (backend_fen.go: associateOwned 131-154,   *)
(* releaseOwner 197-238, dropPhysical 256-287, updateDirectory 682-742).   *)
THEOREM OwnersUnlessStranded == Spec /\ [][~Strands]_vars => []OwnersSound
<1>1. OwnedInv => OwnersSound
  BY OwnSound DEF OwnedInv
<1> QED BY <1>1, OwnedAlways, PTL

(* The directories that are scanned are then those that a user gave or     *)
(* that a recursive root owns, after every upgrade and every release       *)
(* (backend_fen.go: releaseOwner and directoryNeedsScanLocked 197-254).    *)
THEOREM ScansUnlessStranded == Spec /\ [][~Strands]_vars => []ScanExact
<1>1. OwnedInv => ScanExact
  BY OwnScans DEF OwnedInv
<1> QED BY <1>1, OwnedAlways, PTL

(* RC-017: so an AddWith that fails leaves the tables as they were: what   *)
(* RollbackFollows assumes of them has been shown.                         *)
THEOREM RollbackUnlessStranded == Spec /\ [][~Strands]_vars => RollbackExact
BY OwnersUnlessStranded, ScansUnlessStranded, RollbackFollows, PTL
=============================================================================
