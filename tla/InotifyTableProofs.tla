------------------------- MODULE InotifyTableProofs -------------------------
(***************************************************************************)
(* What every operation on the tables of the inotify backend preserves,    *)
(* one lemma per method of the type watches and per property: the tables   *)
(* stay sound (...Sound), no owner set is left empty (...Full), the flags  *)
(* of each watch stay right and path and wd inverse to each other          *)
(* (...Right), what is watched stays owned (...Owned), and paths stay made *)
(* of names (...Named).                                                    *)
(***************************************************************************)
EXTENDS InotifyProps, PathProofs, SequenceTheorems, TLAPS

-----------------------------------------------------------------------------
(* Paths.                                                                  *)
-----------------------------------------------------------------------------
(* A sequence over any set is a path. *)
LEMMA SeqIsPath ==
  ASSUME NEW S, NEW p \in Seq(S)
  PROVE  IsPath(p)
BY SeqOfRange DEF IsPath

(* The first components of a path, then anything, is a path again. *)
LEMMA JoinIsPath ==
  ASSUME NEW p, NEW n, IsPath(p)
  PROVE  IsPath(Join(p, n))
<1> DEFINE S == Range(p) \cup {n}
<1>1. p \in Seq(S)
  BY SeqMonotonic DEF IsPath
<1>2. Append(p, n) \in Seq(S)
  BY <1>1, AppendProperties
<1> QED BY <1>2, SeqIsPath DEF Join

(* What is below a directory's path is below what that is below. *)
LEMMA JoinUnder ==
  ASSUME NEW p, NEW n, NEW u, IsPath(p), IsPath(u), Under(p, u)
  PROVE  Under(Join(p, n), u)
<1> DEFINE S == Range(p) \cup Range(u) \cup {n}
<1>1. p \in Seq(S) /\ u \in Seq(S)
  BY SeqMonotonic DEF IsPath
<1>2. /\ Append(p, n) \in Seq(S)
      /\ Len(Append(p, n)) = Len(p) + 1
      /\ \A i \in 1..Len(p) : Append(p, n)[i] = p[i]
  BY <1>1, AppendProperties
<1>3. Len(u) \in Nat /\ Len(p) \in Nat /\ Len(u) <= Len(p)
  BY <1>1, LenProperties DEF Under
<1>4. SubSeq(Append(p, n), 1, Len(u)) = SubSeq(p, 1, Len(u))
  <2>1. \A i \in 1..Len(u) : Append(p, n)[i] = p[i] /\ p[i] \in S
    BY <1>1, <1>2, <1>3, ElementOfSeq
  <2> QED BY <1>2, <1>3, <2>1
<1> QED BY <1>2, <1>3, <1>4 DEF Under, Join

(* A path below a renamed directory, under the new name: it is below what  *)
(* the new name is below.                                                  *)
LEMMA RebasedUnder ==
  ASSUME NEW p, NEW old, NEW new, IsPath(p), IsPath(old), IsPath(new)
  PROVE  /\ IsPath(Rebased(p, old, new))
         /\ \A u : IsPath(u) /\ Under(new, u) => Under(Rebased(p, old, new), u)
<1> DEFINE S == Range(p) \cup Range(new)
           rest == SubSeq(p, Len(old) + 1, Len(p))
<1>1. p \in Seq(S) /\ new \in Seq(S) /\ Len(old) \in Nat
  BY SeqMonotonic, LenProperties DEF IsPath
<1>2. \A i \in (Len(old) + 1)..Len(p) : p[i] \in S
  BY <1>1, ElementOfSeq, LenProperties
<1>3. rest \in Seq(S)
  BY <1>1, <1>2, LenProperties, SubSeqProperties
<1>4. /\ new \o rest \in Seq(S)
      /\ Len(new \o rest) = Len(new) + Len(rest)
      /\ \A i \in 1..Len(new) : (new \o rest)[i] = new[i]
  BY <1>1, <1>3, ConcatProperties, LenProperties
<1>5. ASSUME NEW u, IsPath(u), Under(new, u)
      PROVE  Under(new \o rest, u)
  <2>1. Len(u) \in Nat /\ Len(new) \in Nat /\ Len(rest) \in Nat /\ Len(u) <= Len(new)
    BY <1>1, <1>3, <1>5, LenProperties DEF Under, IsPath
  <2>2. SubSeq(new \o rest, 1, Len(u)) = SubSeq(new, 1, Len(u))
    <3>1. \A i \in 1..Len(u) : (new \o rest)[i] = new[i] /\ new[i] \in S
      BY <1>1, <1>4, <2>1, ElementOfSeq
    <3> QED BY <1>4, <2>1, <3>1
  <2> QED BY <1>4, <1>5, <2>1, <2>2 DEF Under
<1> QED BY <1>4, <1>5, SeqIsPath DEF Rebased

-----------------------------------------------------------------------------
(* Tables.                                                                 *)
-----------------------------------------------------------------------------
(* What two tables share that ownership depends on. *)
SameOwnership(t, n) ==
  /\ n.path = t.path /\ n.byUser = t.byUser /\ n.target = t.target
  /\ n.recurse = t.recurse /\ n.owners = t.owners

LEMMA ReflagIs ==
  ASSUME NEW t, NEW w, NEW p, IsWatch(w)
  PROVE  IsWatch(Reflag(t, w, p)) /\ Reflag(t, w, p).path = w.path
<1> DEFINE a == FlaggedByUser(t, p)
           b == FlaggedRecurse(t, p)
<1>1. Reflag(t, w, p) = [w EXCEPT !.byUser = a, !.recurse = b]
  BY DEF Reflag
<1> HIDE DEF a, b
<1> QED BY <1>1 DEF IsWatch

(* updateFlags changes nothing but the flags. *)
LEMMA UpdateFlagsIs ==
  ASSUME NEW t, NEW ps, IsTable(t)
  PROVE  LET n == updateFlags(t, ps)
         IN  IsTable(n) /\ SameOwnership(t, n) /\ (PathsSound(t) => PathsSound(n))
<1> DEFINE listed   == ps \cap DOMAIN t.path
           live     == {p \in listed : t.path[p] \in DOMAIN t.wd}
           Named(d) == {p \in live : t.path[p] = d}
           R(d)     == Reflag(t, t.wd[d], CHOOSE p \in Named(d) : TRUE)
           wd       == [d \in DOMAIN t.wd |-> IF Named(d) = {} THEN t.wd[d] ELSE R(d)]
           pan      == t.panicked \/ live # listed
           n        == updateFlags(t, ps)
<1>1. n = [t EXCEPT !.wd = wd, !.panicked = pan]
  BY DEF updateFlags
<1>2. ASSUME PathsSound(t), NEW d \in DOMAIN t.wd
      PROVE  IsWatch(wd[d]) /\ IsPath(wd[d].path)
  <2>1. IsWatch(t.wd[d]) /\ IsPath(t.wd[d].path)
    BY <1>2 DEF PathsSound
  <2>2. IsWatch(R(d)) /\ R(d).path = t.wd[d].path
    BY <2>1, ReflagIs
  <2> HIDE DEF R, Named
  <2> QED BY <2>1, <2>2
<1>3. DOMAIN wd = DOMAIN t.wd
  OBVIOUS
<1> HIDE DEF wd, pan, n
<1>4. IsTable(n) /\ SameOwnership(t, n) /\ n.wd = wd
  BY <1>1 DEF IsTable, SameOwnership
<1>5. PathsSound(t) => PathsSound(n)
  BY <1>2, <1>3, <1>4 DEF PathsSound, SameOwnership
<1> QED BY <1>4, <1>5 DEF n

-----------------------------------------------------------------------------
(* Users and paths that go.                                                *)
-----------------------------------------------------------------------------
(* ForgetUsers and ForgetPaths, field by field. *)
LEMMA ForgetUsersIs ==
  ASSUME NEW t, NEW us, IsTable(t)
  PROVE  LET n == ForgetUsers(t, us)
         IN  /\ IsTable(n)
             /\ n.byUser = t.byUser \ us /\ n.recurse = t.recurse \ us
             /\ n.target = Without(t.target, us)
             /\ n.wd = t.wd /\ n.path = t.path /\ n.owners = t.owners
<1> DEFINE target == Without(t.target, us)
<1>1. ForgetUsers(t, us)
        = [t EXCEPT !.byUser = t.byUser \ us, !.target = target, !.recurse = t.recurse \ us]
  BY DEF ForgetUsers
<1> HIDE DEF target
<1>2. /\ IsTable(ForgetUsers(t, us))
      /\ ForgetUsers(t, us).byUser = t.byUser \ us
      /\ ForgetUsers(t, us).recurse = t.recurse \ us
      /\ ForgetUsers(t, us).target = target
      /\ ForgetUsers(t, us).wd = t.wd /\ ForgetUsers(t, us).path = t.path
      /\ ForgetUsers(t, us).owners = t.owners
  BY <1>1 DEF IsTable
<1> QED BY <1>2 DEF target

LEMMA ForgetPathsIs ==
  ASSUME NEW t, NEW ps, NEW ds, IsTable(t)
  PROVE  LET n == ForgetPaths(t, ps, ds)
         IN  /\ IsTable(n)
             /\ n.byUser = t.byUser /\ n.recurse = t.recurse /\ n.target = t.target
             /\ n.path = Without(t.path, ps) /\ n.owners = Without(t.owners, ps)
             /\ PathsSound(t) => PathsSound(n)
<1> DEFINE path   == Without(t.path, ps)
           owners == Without(t.owners, ps)
           wd     == Without(t.wd, ds)
           n      == ForgetPaths(t, ps, ds)
<1>1. n = [t EXCEPT !.path = path, !.owners = owners, !.wd = wd]
  BY DEF ForgetPaths
<1>2. /\ DOMAIN path \subseteq DOMAIN t.path /\ DOMAIN wd \subseteq DOMAIN t.wd
      /\ \A d \in DOMAIN wd : wd[d] = t.wd[d]
  BY DEF Without
<1> HIDE DEF path, owners, wd, n
<1>3. /\ IsTable(n)
      /\ n.byUser = t.byUser /\ n.recurse = t.recurse /\ n.target = t.target
      /\ n.path = path /\ n.owners = owners /\ n.wd = wd
  BY <1>1 DEF IsTable
<1>4. PathsSound(t) => PathsSound(n)
  BY <1>2, <1>3 DEF PathsSound
<1> QED BY <1>3, <1>4 DEF n, path, owners

(* A table with other owner sets. *)
LEMMA WithOwnersIs ==
  ASSUME NEW t, NEW f, IsTable(t)
  PROVE  LET n == [t EXCEPT !.owners = f]
         IN  /\ IsTable(n) /\ n.owners = f
             /\ n.byUser = t.byUser /\ n.recurse = t.recurse /\ n.target = t.target
             /\ n.path = t.path /\ n.wd = t.wd
BY DEF IsTable

(* The users of n are those of t that are not in us. *)
UsersWithout(t, n, us) ==
  /\ n.byUser = t.byUser \ us /\ n.recurse = t.recurse \ us
  /\ DOMAIN n.target = DOMAIN t.target \ us
  /\ \A u \in DOMAIN t.target \ us : n.target[u] = t.target[u]

LEMMA ForgottenUsers ==
  ASSUME NEW t, NEW us, IsTable(t), PathsSound(t)
  PROVE  LET n == ForgetUsers(t, us)
         IN  /\ IsTable(n) /\ PathsSound(n) /\ UsersWithout(t, n, us)
             /\ n.path = t.path /\ n.owners = t.owners
<1> DEFINE n == ForgetUsers(t, us)
<1>1. /\ IsTable(n)
      /\ n.byUser = t.byUser \ us /\ n.recurse = t.recurse \ us
      /\ n.target = Without(t.target, us)
      /\ n.wd = t.wd /\ n.path = t.path /\ n.owners = t.owners
  BY ForgetUsersIs
<1> HIDE DEF n
<1>2. PathsSound(n)
  BY <1>1 DEF PathsSound
<1>3. UsersWithout(t, n, us)
  BY <1>1 DEF UsersWithout, Without
<1> QED BY <1>1, <1>2, <1>3 DEF n

(* n is t without the users us and without some of the owners: what is     *)
(* left is sound.                                                          *)
Released(t, n, us) ==
  /\ IsTable(n) /\ PathsSound(n) /\ OwnedIsListed(n) /\ UsersWithout(t, n, us)
  /\ DOMAIN n.owners \subseteq DOMAIN t.owners
  /\ \A p \in DOMAIN n.owners : n.owners[p] \subseteq t.owners[p] \ us

LEMMA ReleasedIsSound ==
  ASSUME NEW t, NEW n, NEW us, TableSound(t), Released(t, n, us)
  PROVE  TableSound(n)
<1>1. UsersSound(n)
  BY DEF TableSound, Released, UsersWithout, UsersSound
<1>2. OwnersSound(n)
  BY DEF TableSound, Released, UsersWithout, OwnersSound, Owns
<1> QED BY <1>1, <1>2 DEF TableSound, Released

(* The steps the releasing methods share: without the users us, with the   *)
(* owner sets own, with flags computed again, without the paths ps.        *)
Shed(t, own, fl, ps, ds) ==
  ForgetPaths(updateFlags([t EXCEPT !.owners = own], fl), ps, ds)

LEMMA ReleaseSteps ==
  ASSUME NEW t, NEW t0, NEW us, NEW own, NEW fl, NEW ps, NEW ds,
         IsTable(t0), PathsSound(t0), UsersWithout(t, t0, us), t0.path = t.path
  PROVE  LET n == Shed(t0, own, fl, ps, ds)
         IN  /\ IsTable(n) /\ PathsSound(n) /\ UsersWithout(t, n, us)
             /\ n.path = Without(t.path, ps) /\ n.owners = Without(own, ps)
<1> DEFINE t1 == [t0 EXCEPT !.owners = own]
           t2 == updateFlags(t1, fl)
           n  == ForgetPaths(t2, ps, ds)
<1>1. /\ IsTable(t1) /\ PathsSound(t1) /\ t1.owners = own
      /\ t1.byUser = t0.byUser /\ t1.recurse = t0.recurse /\ t1.target = t0.target
      /\ t1.path = t.path
  BY WithOwnersIs DEF PathsSound
<1> HIDE DEF t1
<1>2. IsTable(t2) /\ SameOwnership(t1, t2) /\ PathsSound(t2)
  BY <1>1, UpdateFlagsIs
<1> HIDE DEF t2
<1>3. /\ IsTable(n) /\ PathsSound(n)
      /\ n.byUser = t2.byUser /\ n.recurse = t2.recurse /\ n.target = t2.target
      /\ n.path = Without(t2.path, ps) /\ n.owners = Without(t2.owners, ps)
  BY <1>2, ForgetPathsIs
<1> HIDE DEF n
<1>4. UsersWithout(t, n, us)
  BY <1>1, <1>2, <1>3 DEF UsersWithout, SameOwnership
<1>5. n.path = Without(t.path, ps) /\ n.owners = Without(own, ps)
  BY <1>1, <1>2, <1>3 DEF SameOwnership
<1> QED BY <1>3, <1>4, <1>5 DEF t1, t2, n, Shed

-----------------------------------------------------------------------------
(* The methods that release.                                               *)
-----------------------------------------------------------------------------
(* remove: the watch's path goes, and its users everywhere.                *)
LEMMA RemoveSound ==
  ASSUME NEW t, NEW d, TableSound(t)
  PROVE  TableSound(remove(t, d))
<1> DEFINE p    == t.wd[d].path
           gone == {u \in OwnersOf(t, p) : u \in DOMAIN t.target /\ t.target[u] = p}
           t0   == ForgetUsers(t, gone)
           t1   == ForgetPaths(t0, {p}, {d})
           hit  == {q \in DOMAIN t1.owners : t1.owners[q] \cap gone # {}}
           kept == {q \in DOMAIN t1.owners : q \in hit => ~(t1.owners[q] \subseteq gone)}
           own  == [q \in kept |-> t1.owners[q] \ gone]
           t2   == [t1 EXCEPT !.owners = own]
           n    == updateFlags(t2, hit)
<1>1. remove(t, d) = n
  BY DEF remove
<1> HIDE DEF gone, p
<1>2. /\ IsTable(t0) /\ PathsSound(t0) /\ UsersWithout(t, t0, gone)
      /\ t0.path = t.path /\ t0.owners = t.owners
  BY ForgottenUsers DEF TableSound
<1> HIDE DEF t0
<1>3. /\ IsTable(t1) /\ PathsSound(t1)
      /\ t1.byUser = t0.byUser /\ t1.recurse = t0.recurse /\ t1.target = t0.target
      /\ t1.path = Without(t.path, {p}) /\ t1.owners = Without(t.owners, {p})
  BY <1>2, ForgetPathsIs
<1> HIDE DEF t1
<1>4. /\ kept \subseteq DOMAIN t.owners \ {p} /\ DOMAIN own = kept
      /\ \A q \in kept : own[q] \subseteq t.owners[q] \ gone
  BY <1>3 DEF Without
<1> HIDE DEF own, hit, kept
<1>5. /\ IsTable(t2) /\ PathsSound(t2) /\ t2.owners = own
      /\ t2.byUser = t1.byUser /\ t2.recurse = t1.recurse /\ t2.target = t1.target
      /\ t2.path = t1.path
  BY <1>3, WithOwnersIs DEF PathsSound
<1> HIDE DEF t2
<1>6. IsTable(n) /\ SameOwnership(t2, n) /\ PathsSound(n)
  BY <1>5, UpdateFlagsIs
<1> HIDE DEF n
<1>7. OwnedIsListed(n)
  BY <1>3, <1>4, <1>5, <1>6 DEF SameOwnership, TableSound, OwnedIsListed, Without
<1>8. UsersWithout(t, n, gone)
  BY <1>2, <1>3, <1>5, <1>6 DEF UsersWithout, SameOwnership
<1>9. Released(t, n, gone)
  BY <1>4, <1>5, <1>6, <1>7, <1>8 DEF Released, SameOwnership
<1> QED BY <1>1, <1>9, ReleasedIsSound

(* releaseOwner: one user goes, and the paths it alone owned.              *)
LEMMA ReleaseOwnerSound ==
  ASSUME NEW t, NEW u, TableSound(t)
  PROVE  /\ TableSound(releaseOwner(t, u).tbl)
         /\ releaseOwner(t, u).tbl.recurse = t.recurse \ {u}
<1> DEFINE t0     == ForgetUsers(t, {u})
           own    == [p \in DOMAIN t0.owners |-> t0.owners[p] \ {u}]
           t1     == [t0 EXCEPT !.owners = own]
           unused == {p \in DOMAIN t1.owners : t1.owners[p] = {}}
           fl     == DOMAIN t1.owners \ unused
           wds    == {PathWd(t, p) : p \in unused}
           n      == Shed(t0, own, fl, unused, wds)
<1>1. releaseOwner(t, u).tbl = n
  BY DEF releaseOwner, Shed
<1>2. /\ IsTable(t0) /\ PathsSound(t0) /\ UsersWithout(t, t0, {u})
      /\ t0.path = t.path /\ t0.owners = t.owners
  BY ForgottenUsers DEF TableSound
<1> HIDE DEF t0
<1>3. DOMAIN own = DOMAIN t.owners /\ \A p \in DOMAIN own : own[p] \subseteq t.owners[p] \ {u}
  BY <1>2
<1> HIDE DEF own, unused, wds, fl
<1>4. /\ IsTable(n) /\ PathsSound(n) /\ UsersWithout(t, n, {u})
      /\ n.path = Without(t.path, unused) /\ n.owners = Without(own, unused)
  BY <1>2, ReleaseSteps
<1> HIDE DEF n
<1>5. OwnedIsListed(n)
  BY <1>3, <1>4 DEF TableSound, OwnedIsListed, Without
<1>6. Released(t, n, {u})
  BY <1>3, <1>4, <1>5 DEF Released, Without
<1> QED BY <1>1, <1>4, <1>6, ReleasedIsSound DEF UsersWithout

(* detachSubtrees: what is at or below a root goes, with its users.        *)
LEMMA DetachSubtreesSound ==
  ASSUME NEW t, NEW roots, TableSound(t)
  PROVE  TableSound(detachSubtrees(t, roots).tbl)
<1> DEFINE InRoots(p) == \E root \in roots : hasPathPrefix(p, root)
           users == Targeting(t, InRoots)
           hit   == {p \in DOMAIN t.owners : t.owners[p] \cap users # {} /\ ~InRoots(p)}
           t0    == ForgetUsers(t, users)
           own   == [p \in DOMAIN t0.owners |-> t0.owners[p] \ users]
           ps    == {p \in DOMAIN t.path : InRoots(p)}
           wds   == {t.path[p] : p \in ps}
           n     == Shed(t0, own, hit, ps, wds)
<1>1. detachSubtrees(t, roots).tbl = n
  BY DEF detachSubtrees, Shed
<1> HIDE DEF users, hit, ps, wds
<1>2. /\ IsTable(t0) /\ PathsSound(t0) /\ UsersWithout(t, t0, users)
      /\ t0.path = t.path /\ t0.owners = t.owners
  BY ForgottenUsers DEF TableSound
<1> HIDE DEF t0
<1>3. DOMAIN own = DOMAIN t.owners /\ \A p \in DOMAIN own : own[p] \subseteq t.owners[p] \ users
  BY <1>2
<1> HIDE DEF own
<1>4. /\ IsTable(n) /\ PathsSound(n) /\ UsersWithout(t, n, users)
      /\ n.path = Without(t.path, ps) /\ n.owners = Without(own, ps)
  BY <1>2, ReleaseSteps
<1> HIDE DEF n
<1>5. OwnedIsListed(n)
  BY <1>3, <1>4 DEF TableSound, OwnedIsListed, Without
<1>6. Released(t, n, users)
  BY <1>3, <1>4, <1>5 DEF Released, Without
<1> QED BY <1>1, <1>6, ReleasedIsSound

(* rollbackRegistrations: owners go, no user does.                         *)
LEMMA RollbackSound ==
  ASSUME NEW t, NEW regs, TableSound(t)
  PROVE  TableSound(rollbackRegistrations(t, regs).tbl)
<1> DEFINE ps     == DOMAIN regs \cap DOMAIN t.owners
           own    == [p \in DOMAIN t.owners |->
                        IF p \in ps THEN t.owners[p] \ regs[p] ELSE t.owners[p]]
           t1     == [t EXCEPT !.owners = own]
           unused == {p \in ps : t1.owners[p] = {}}
           fl     == ps \ unused
           wds    == {t.path[p] : p \in unused \cap DOMAIN t.path}
           n      == Shed(t, own, fl, unused, wds)
<1>1. rollbackRegistrations(t, regs).tbl = n
  BY DEF rollbackRegistrations, Shed
<1>2. DOMAIN own = DOMAIN t.owners /\ \A p \in DOMAIN own : own[p] \subseteq t.owners[p]
  OBVIOUS
<1>3. IsTable(t) /\ PathsSound(t) /\ UsersWithout(t, t, {})
  BY DEF TableSound, UsersWithout
<1> HIDE DEF own, fl, unused, wds, ps
<1>4. /\ IsTable(n) /\ PathsSound(n) /\ UsersWithout(t, n, {})
      /\ n.path = Without(t.path, unused) /\ n.owners = Without(own, unused)
  BY <1>3, ReleaseSteps
<1> HIDE DEF n
<1>5. OwnedIsListed(n)
  BY <1>2, <1>4 DEF TableSound, OwnedIsListed, Without
<1>6. Released(t, n, {})
  BY <1>2, <1>4, <1>5 DEF Released, Without
<1> QED BY <1>1, <1>6, ReleasedIsSound

-----------------------------------------------------------------------------
(* The methods that add.                                                   *)
-----------------------------------------------------------------------------
(* addUser, for a path that is not a user's yet.                           *)
LEMMA AddUserSound ==
  ASSUME NEW t, NEW p, NEW r \in BOOLEAN, TableSound(t), IsPath(p), p \notin t.byUser
  PROVE  LET n == addUser(t, p, r)
         IN  /\ TableSound(n) /\ n.byUser = t.byUser \cup {p}
             /\ n.recurse = IF r THEN t.recurse \cup {p} ELSE t.recurse
<1> DEFINE n       == addUser(t, p, r)
           target  == Put(t.target, p, p)
           recurse == IF r THEN t.recurse \cup {p} ELSE t.recurse
<1>1. n = [t EXCEPT !.byUser = t.byUser \cup {p}, !.target = target, !.recurse = recurse]
  BY DEF addUser
<1>2. /\ DOMAIN target = DOMAIN t.target \cup {p} /\ target[p] = p
      /\ \A u \in DOMAIN t.target \ {p} : target[u] = t.target[u]
  BY DEF Put
<1>3. recurse \subseteq t.recurse \cup {p} /\ t.recurse \subseteq recurse
  OBVIOUS
<1> HIDE DEF n, target, recurse
<1>4. /\ IsTable(n) /\ n.byUser = t.byUser \cup {p} /\ n.target = target
      /\ n.recurse = recurse /\ n.path = t.path /\ n.wd = t.wd /\ n.owners = t.owners
  BY <1>1 DEF TableSound, IsTable
<1>5. UsersSound(n)
  BY <1>2, <1>3, <1>4 DEF TableSound, UsersSound
<1>6. PathsSound(n) /\ OwnedIsListed(n)
  BY <1>4 DEF TableSound, PathsSound, OwnedIsListed
<1>7. OwnersSound(n)
  BY <1>3, <1>4 DEF TableSound, OwnersSound, Owns
<1> QED BY <1>4, <1>5, <1>6, <1>7 DEF TableSound, n, recurse

(* addOwners, for users that may own the path.                             *)
LEMMA AddOwnersSound ==
  ASSUME NEW t, NEW p, NEW us, TableSound(t), p \in DOMAIN t.path,
         \A u \in us : Owns(t, u, p)
  PROVE  TableSound(addOwners(t, p, us)) /\ addOwners(t, p, us).recurse = t.recurse
<1>1. CASE us = {}
  BY <1>1 DEF addOwners
<1>2. CASE us # {}
  <2> DEFINE own == Put(t.owners, p, OwnersOf(t, p) \cup us)
             t1  == [t EXCEPT !.owners = own]
             n   == updateFlags(t1, {p})
  <2>1. addOwners(t, p, us) = n
    BY <1>2 DEF addOwners
  <2>2. DOMAIN own \subseteq DOMAIN t.path
    BY DEF Put, TableSound, OwnedIsListed
  <2>3. \A q \in DOMAIN own : \A u \in own[q] : Owns(t, u, q)
    <3>1. \A u \in OwnersOf(t, p) : Owns(t, u, p)
      BY DEF TableSound, OwnersSound, OwnersOf
    <3> QED BY <3>1 DEF TableSound, OwnersSound, Put
  <2> HIDE DEF own
  <2>4. /\ IsTable(t1) /\ PathsSound(t1) /\ t1.owners = own
        /\ t1.byUser = t.byUser /\ t1.recurse = t.recurse /\ t1.target = t.target
        /\ t1.path = t.path
    BY WithOwnersIs DEF TableSound, PathsSound
  <2> HIDE DEF t1
  <2>5. IsTable(n) /\ SameOwnership(t1, n) /\ PathsSound(n)
    BY <2>4, UpdateFlagsIs
  <2> HIDE DEF n
  <2>6. UsersSound(n) /\ OwnedIsListed(n) /\ n.recurse = t.recurse
    BY <2>2, <2>4, <2>5 DEF SameOwnership, TableSound, UsersSound, OwnedIsListed
  <2>7. OwnersSound(n)
    BY <2>3, <2>4, <2>5 DEF SameOwnership, OwnersSound, Owns
  <2> QED BY <2>1, <2>5, <2>6, <2>7 DEF TableSound
<1> QED BY <1>1, <1>2

(* updatePath, for a path: no owner set and no user changes.               *)
LEMMA UpdatePathSound ==
  ASSUME NEW t, NEW p, NEW d, TableSound(t), IsPath(p)
  PROVE  LET n == updatePath(t, p, d)
         IN  TableSound(n) /\ n.byUser = t.byUser /\ n.recurse = t.recurse
<1> DEFINE old   == PathWd(t, p)
           fresh == [path |-> p, byUser |-> FALSE, recurse |-> FALSE]
           upd   == IF d \in DOMAIN t.wd THEN t.wd[d]
                    ELSE IF old \in DOMAIN t.wd THEN t.wd[old] ELSE fresh
           wd    == Without(Put(t.wd, d, upd), {old} \ {d})
           path  == Put(t.path, upd.path, d)
           n     == updatePath(t, p, d)
<1>1. n = [t EXCEPT !.wd = wd, !.path = path]
  BY DEF updatePath
<1>2. IsWatch(fresh) /\ IsPath(fresh.path)
  BY DEF IsWatch
<1> HIDE DEF fresh
<1>3. IsWatch(upd) /\ IsPath(upd.path)
  BY <1>2 DEF TableSound, PathsSound
<1> HIDE DEF upd
<1>4. \A x \in DOMAIN wd : IsWatch(wd[x]) /\ IsPath(wd[x].path)
  BY <1>3 DEF TableSound, PathsSound, Put, Without
<1>5. DOMAIN path = DOMAIN t.path \cup {upd.path}
  BY DEF Put
<1> HIDE DEF wd, path, n
<1>6. /\ IsTable(n) /\ n.wd = wd /\ n.path = path
      /\ n.byUser = t.byUser /\ n.recurse = t.recurse /\ n.target = t.target
      /\ n.owners = t.owners
  BY <1>1 DEF TableSound, IsTable
<1>7. PathsSound(n) /\ OwnedIsListed(n)
  BY <1>3, <1>4, <1>5, <1>6 DEF TableSound, PathsSound, OwnedIsListed
<1>8. UsersSound(n) /\ OwnersSound(n)
  BY <1>6 DEF TableSound, UsersSound, OwnersSound, Owns
<1> QED BY <1>6, <1>7, <1>8 DEF TableSound, n

(* register, for users that may own the path.                              *)
LEMMA RegisterSound ==
  ASSUME NEW t, NEW p, NEW d, NEW us, TableSound(t), IsPath(p),
         \A u \in us : Owns(t, u, p)
  PROVE  TableSound(register(t, p, d, us)) /\ register(t, p, d, us).recurse = t.recurse
<1> DEFINE t1 == updatePath(t, p, d)
<1>1. TableSound(t1) /\ t1.byUser = t.byUser /\ t1.recurse = t.recurse
  BY UpdatePathSound
<1>2. register(t, p, d, us) = IF p \in DOMAIN t1.path THEN addOwners(t1, p, us) ELSE t1
  BY DEF register
<1> HIDE DEF t1
<1>3. \A u \in us : Owns(t1, u, p)
  BY <1>1 DEF Owns
<1> QED BY <1>1, <1>2, <1>3, AddOwnersSound

-----------------------------------------------------------------------------
(* rebase.                                                                 *)
-----------------------------------------------------------------------------
(* Between releaseRenamed and moveWatches, what is at or below the old     *)
(* path may still be owned by users that are gone.                         *)
SoundBut(t, oldPath) ==
  /\ IsTable(t) /\ UsersSound(t) /\ PathsSound(t) /\ OwnedIsListed(t)
  /\ \A p \in DOMAIN t.owners :
       ~hasPathPrefix(p, oldPath) => \A u \in t.owners[p] : Owns(t, u, p)

LEMMA ClearDestinationSound ==
  ASSUME NEW t, NEW oldPath, NEW newPath, TableSound(t)
  PROVE  TableSound(clearDestination(t, oldPath, newPath).tbl)
BY DetachSubtreesSound DEF clearDestination, detachSubtree

LEMMA ReleaseRenamedSound ==
  ASSUME NEW t, NEW oldPath, TableSound(t)
  PROVE  SoundBut(releaseRenamed(t, oldPath).tbl, oldPath)
<1> DEFINE InOld(p) == hasPathPrefix(p, oldPath)
           users  == Targeting(t, InOld)
           t0     == ForgetUsers(t, users)
           others == {p \in DOMAIN t.owners : ~InOld(p)}
           own    == [p \in DOMAIN t0.owners |->
                        IF p \in others THEN t0.owners[p] \ users ELSE t0.owners[p]]
           t2     == [t0 EXCEPT !.owners = own]
           unused == {p \in others : t2.owners[p] = {}}
           fl     == others \ unused
           wds    == {PathWd(t, p) : p \in unused}
           n      == Shed(t0, own, fl, unused, wds)
<1>1. CASE users = {}
  BY <1>1 DEF releaseRenamed, SoundBut, TableSound, OwnersSound
<1>2. CASE users # {}
  <2>1. releaseRenamed(t, oldPath).tbl = n
    BY <1>2 DEF releaseRenamed, Shed
  <2>2. \A p \in DOMAIN t.owners : ~hasPathPrefix(p, oldPath) => p \in others
    OBVIOUS
  <2> HIDE DEF users, others
  <2>3. /\ IsTable(t0) /\ PathsSound(t0) /\ UsersWithout(t, t0, users)
        /\ t0.path = t.path /\ t0.owners = t.owners
    BY ForgottenUsers DEF TableSound
  <2> HIDE DEF t0
  <2>4. /\ DOMAIN own = DOMAIN t.owners
        /\ \A p \in others \cap DOMAIN own : own[p] = t.owners[p] \ users
    BY <2>3
  <2> HIDE DEF own, fl, unused, wds
  <2>5. /\ IsTable(n) /\ PathsSound(n) /\ UsersWithout(t, n, users)
        /\ n.path = Without(t.path, unused) /\ n.owners = Without(own, unused)
    BY <2>3, ReleaseSteps
  <2> HIDE DEF n
  <2>6. UsersSound(n) /\ OwnedIsListed(n)
    BY <2>4, <2>5 DEF TableSound, UsersSound, UsersWithout, OwnedIsListed, Without
  <2>7. ASSUME NEW p \in DOMAIN n.owners, ~hasPathPrefix(p, oldPath), NEW u \in n.owners[p]
        PROVE  Owns(n, u, p)
    <3>1. p \in DOMAIN t.owners /\ u \in t.owners[p] /\ u \notin users
      BY <2>2, <2>4, <2>5, <2>7 DEF Without
    <3> QED BY <2>5, <3>1 DEF TableSound, OwnersSound, Owns, UsersWithout
  <2> QED BY <2>1, <2>5, <2>6, <2>7 DEF SoundBut
<1> QED BY <1>1, <1>2

(* moveWatches: what is below the old path gets its new path, and the      *)
(* owners of the destination, which are recursive and above it.            *)
LEMMA MoveWatchesSound ==
  ASSUME NEW t, NEW oldPath, NEW newPath, NEW newOwners,
         SoundBut(t, oldPath), IsPath(oldPath), IsPath(newPath),
         newOwners \subseteq t.recurse,
         \A u \in newOwners : Under(newPath, u)
  PROVE  TableSound(moveWatches(t, oldPath, newPath, newOwners).tbl)
<1> DEFINE moved  == {p \in DOMAIN t.path : hasPathPrefix(p, oldPath)}
           wds    == {t.path[p] : p \in moved}
           To(p)  == Rebased(p, oldPath, newPath)
           From(d) == CHOOSE p \in moved : t.path[p] = d
           landed == {To(p) : p \in moved}
           Origin(q) == CHOOSE p \in moved : To(p) = q
           path1  == Without(t.path, moved)
           own1   == Without(t.owners, moved)
           wd1    == Without(t.wd, wds)
           path2  == PutAll(path1, [q \in landed |-> t.path[Origin(q)]])
           own2   == PutAll(own1, [q \in landed |-> newOwners])
           wd2    == [d \in DOMAIN t.wd |->
                        IF d \in wds THEN [t.wd[d] EXCEPT !.path = To(From(d))] ELSE t.wd[d]]
           pan2   == t.panicked \/ wds \ DOMAIN t.wd # {}
           n1     == [t EXCEPT !.path = path1, !.owners = own1, !.wd = wd1]
           t2     == [t EXCEPT !.path = path2, !.owners = own2, !.wd = wd2, !.panicked = pan2]
           n2     == updateFlags(t2, landed)
<1> USE DEF SoundBut
<1>1. /\ DOMAIN own1 \subseteq DOMAIN path1
      /\ \A p \in DOMAIN own1 : /\ p \in DOMAIN t.owners /\ ~hasPathPrefix(p, oldPath)
                                /\ own1[p] = t.owners[p]
  BY DEF OwnedIsListed, Without
<1>2. DOMAIN path1 \subseteq DOMAIN t.path
  BY DEF Without
<1>3. CASE newOwners = {}
  <2>1. moveWatches(t, oldPath, newPath, newOwners).tbl = n1
    BY <1>3 DEF moveWatches, IsTable
  <2>2. DOMAIN wd1 \subseteq DOMAIN t.wd /\ \A d \in DOMAIN wd1 : wd1[d] = t.wd[d]
    BY DEF Without
  <2> HIDE DEF path1, own1, wd1
  <2>3. /\ IsTable(n1) /\ n1.path = path1 /\ n1.owners = own1 /\ n1.wd = wd1
        /\ n1.byUser = t.byUser /\ n1.recurse = t.recurse /\ n1.target = t.target
    BY DEF IsTable
  <2> HIDE DEF n1
  <2>4. UsersSound(n1) /\ PathsSound(n1) /\ OwnedIsListed(n1)
    BY <1>1, <1>2, <2>2, <2>3 DEF UsersSound, PathsSound, OwnedIsListed
  <2>5. OwnersSound(n1)
    BY <1>1, <2>3 DEF OwnersSound, Owns
  <2> QED BY <2>1, <2>3, <2>4, <2>5 DEF TableSound
<1>4. CASE newOwners # {}
  <2>1. moveWatches(t, oldPath, newPath, newOwners).tbl = n2
    BY <1>4 DEF moveWatches, IsTable
  <2>2. ASSUME NEW p \in moved
        PROVE  IsPath(To(p)) /\ \A u \in newOwners : Under(To(p), u)
    <3>1. IsPath(p) /\ \A u \in newOwners : IsPath(u)
      BY DEF PathsSound, UsersSound
    <3> QED BY <3>1, RebasedUnder
  <2>3. DOMAIN path2 = DOMAIN path1 \cup landed
    BY DEF PutAll
  <2>4. /\ DOMAIN own2 = DOMAIN own1 \cup landed
        /\ \A q \in landed : own2[q] = newOwners
        /\ \A q \in DOMAIN own1 \ landed : own2[q] = own1[q]
    BY DEF PutAll
  <2>5. \A q \in landed : IsPath(q) /\ \A u \in newOwners : Under(q, u)
    BY <2>2
  <2>6. ASSUME NEW d \in DOMAIN t.wd
        PROVE  IsWatch(wd2[d]) /\ IsPath(wd2[d].path)
    <3>1. IsWatch(t.wd[d]) /\ IsPath(t.wd[d].path)
      BY DEF PathsSound
    <3>2. CASE d \in wds
      <4>1. IsPath(To(From(d)))
        <5>1. From(d) \in moved
          BY <3>2
        <5> QED BY <5>1, <2>2
      <4>2. wd2[d] = [t.wd[d] EXCEPT !.path = To(From(d))]
        BY <3>2
      <4> HIDE DEF To, From, wd2
      <4> QED BY <3>1, <4>1, <4>2 DEF IsWatch
    <3>3. CASE d \notin wds
      BY <3>1, <3>3
    <3> QED BY <3>2, <3>3
  <2>7. DOMAIN wd2 = DOMAIN t.wd
    OBVIOUS
  <2> HIDE DEF path2, own2, wd2, pan2, landed
  <2>8. /\ IsTable(t2) /\ t2.path = path2 /\ t2.owners = own2 /\ t2.wd = wd2
        /\ t2.byUser = t.byUser /\ t2.recurse = t.recurse /\ t2.target = t.target
    BY DEF IsTable
  <2> HIDE DEF t2, path1, own1
  <2>9. PathsSound(t2)
    BY <1>2, <2>3, <2>5, <2>6, <2>7, <2>8 DEF PathsSound
  <2>10. IsTable(n2) /\ SameOwnership(t2, n2) /\ PathsSound(n2)
    BY <2>8, <2>9, UpdateFlagsIs
  <2> HIDE DEF n2
  <2>11. UsersSound(n2)
    BY <2>8, <2>10 DEF UsersSound, SameOwnership
  <2>12. OwnedIsListed(n2)
    BY <1>1, <2>3, <2>4, <2>8, <2>10 DEF OwnedIsListed, SameOwnership
  <2>13. ASSUME NEW q \in DOMAIN own2, NEW u \in own2[q]
         PROVE  Owns(t, u, q)
    <3>1. CASE q \in landed
      BY <2>4, <2>5, <2>13, <3>1 DEF Owns, UsersSound
    <3>2. CASE q \notin landed
      BY <1>1, <2>4, <2>13, <3>2
    <3> QED BY <3>1, <3>2
  <2>14. OwnersSound(n2)
    BY <2>8, <2>10, <2>13 DEF OwnersSound, Owns, SameOwnership
  <2> QED BY <2>1, <2>10, <2>11, <2>12, <2>14 DEF TableSound
<1> QED BY <1>3, <1>4

(* rebase, for owners that are above the destination.                      *)
LEMMA RebaseSound ==
  ASSUME NEW t, NEW oldPath, NEW newPath, NEW us, TableSound(t),
         IsPath(oldPath), IsPath(newPath), \A u \in us : Under(newPath, u)
  PROVE  TableSound(rebase(t, oldPath, newPath, us).tbl)
<1> DEFINE cleared  == clearDestination(t, oldPath, newPath)
           released == releaseRenamed(cleared.tbl, oldPath)
           owners   == us \cap released.tbl.recurse
           moved    == moveWatches(released.tbl, oldPath, newPath, owners)
<1>1. TableSound(cleared.tbl)
  BY ClearDestinationSound
<1> HIDE DEF cleared
<1>2. SoundBut(released.tbl, oldPath)
  BY <1>1, ReleaseRenamedSound
<1> HIDE DEF released
<1>3. TableSound(moved.tbl)
  BY <1>2, MoveWatchesSound
<1>4. rebase(t, oldPath, newPath, us).tbl = moved.tbl
  BY DEF rebase, cleared, released
<1> QED BY <1>3, <1>4

-----------------------------------------------------------------------------
(* Owner sets that are never empty, and what the releasing methods leave.  *)
-----------------------------------------------------------------------------
OwnersFull(f) == f = [p \in DOMAIN f |-> f[p]] /\ \A p \in DOMAIN f : f[p] # {}

(* Every owner set has an owner, and every user its own path as target. *)
Full(t) == OwnersFull(t.owners) /\ t.target = [u \in t.byUser |-> u]

LEMMA UnderTransitive ==
  ASSUME NEW p, NEW q, NEW r, IsPath(p), IsPath(q), IsPath(r), Under(p, q), Under(q, r)
  PROVE  Under(p, r)
<1> DEFINE S == Range(p) \cup Range(q) \cup Range(r)
<1>1. p \in Seq(S) /\ q \in Seq(S) /\ r \in Seq(S)
  BY SeqMonotonic DEF IsPath
<1>2. /\ Len(p) \in Nat /\ Len(q) \in Nat /\ Len(r) \in Nat
      /\ Len(r) <= Len(q) /\ Len(q) <= Len(p)
      /\ SubSeq(p, 1, Len(q)) = q /\ SubSeq(q, 1, Len(r)) = r
  BY <1>1, LenProperties DEF Under
<1>3. \A i \in 1..Len(p) : p[i] \in S
  BY <1>1, ElementOfSeq
<1>4. \A i \in 1..Len(r) : q[i] = p[i]
  BY <1>1, <1>2, <1>3
<1>5. SubSeq(p, 1, Len(r)) = SubSeq(q, 1, Len(r))
  BY <1>1, <1>2, <1>3, <1>4
<1> QED BY <1>2, <1>5 DEF Under

(* Shed, field by field. *)
LEMMA ShedIs ==
  ASSUME NEW t, NEW own, NEW fl, NEW ps, NEW ds, IsTable(t)
  PROVE  LET n == Shed(t, own, fl, ps, ds)
         IN  /\ n.byUser = t.byUser /\ n.recurse = t.recurse /\ n.target = t.target
             /\ n.path = Without(t.path, ps) /\ n.owners = Without(own, ps)
<1> DEFINE t1 == [t EXCEPT !.owners = own]
           t2 == updateFlags(t1, fl)
           n  == ForgetPaths(t2, ps, ds)
<1>1. /\ IsTable(t1) /\ t1.owners = own /\ t1.path = t.path
      /\ t1.byUser = t.byUser /\ t1.recurse = t.recurse /\ t1.target = t.target
  BY WithOwnersIs
<1> HIDE DEF t1
<1>2. IsTable(t2) /\ SameOwnership(t1, t2)
  BY <1>1, UpdateFlagsIs
<1> HIDE DEF t2
<1>3. /\ n.byUser = t2.byUser /\ n.recurse = t2.recurse /\ n.target = t2.target
      /\ n.path = Without(t2.path, ps) /\ n.owners = Without(t2.owners, ps)
  BY <1>2, ForgetPathsIs
<1> HIDE DEF n
<1> QED BY <1>1, <1>2, <1>3 DEF Shed, n, t2, t1, SameOwnership

LEMMA TargetsWithout ==
  ASSUME NEW t, NEW us, IsTable(t), t.target = [u \in t.byUser |-> u]
  PROVE  ForgetUsers(t, us).target = [u \in ForgetUsers(t, us).byUser |-> u]
<1>1. ForgetUsers(t, us).byUser = t.byUser \ us /\ ForgetUsers(t, us).target = Without(t.target, us)
  BY ForgetUsersIs
<1>2. Without(t.target, us) = [u \in t.byUser \ us |-> u]
  BY DEF Without
<1> QED BY <1>1, <1>2

LEMMA WithoutFull ==
  ASSUME NEW f, NEW ps, \A p \in DOMAIN f \ ps : f[p] # {}
  PROVE  OwnersFull(Without(f, ps))
BY DEF OwnersFull, Without

(* Without the users us, and with owner sets that are all in use. *)
LEMMA ShedFull ==
  ASSUME NEW t, NEW us, NEW own, NEW fl, NEW ps, NEW ds, IsTable(t), Full(t),
         \A p \in DOMAIN own \ ps : own[p] # {}
  PROVE  Full(Shed(ForgetUsers(t, us), own, fl, ps, ds))
<1> DEFINE t0 == ForgetUsers(t, us)
           n  == Shed(t0, own, fl, ps, ds)
<1>1. IsTable(t0) /\ t0.target = [u \in t0.byUser |-> u]
  BY ForgetUsersIs, TargetsWithout DEF Full
<1> HIDE DEF t0
<1>2. n.byUser = t0.byUser /\ n.target = t0.target /\ n.owners = Without(own, ps)
  BY <1>1, ShedIs
<1> HIDE DEF n
<1> QED BY <1>1, <1>2, WithoutFull DEF Full, n, t0

(* The owner sets without the owner u, and the paths it alone owned. *)
Disowned(f, u) == [p \in DOMAIN f |-> f[p] \ {u}]
Empty(f) == {p \in DOMAIN f : f[p] = {}}

LEMMA ReleaseOwnerIs ==
  ASSUME NEW t, NEW u, IsTable(t)
  PROVE  LET n   == releaseOwner(t, u).tbl
             own == Disowned(t.owners, u)
         IN  /\ n.byUser = t.byUser \ {u} /\ n.recurse = t.recurse \ {u}
             /\ n.target = Without(t.target, {u})
             /\ n.owners = Without(own, Empty(own))
             /\ Full(t) => Full(n)
<1> DEFINE t0  == ForgetUsers(t, {u})
           own == Disowned(t.owners, u)
           t1  == [t0 EXCEPT !.owners = own]
           unused == {p \in DOMAIN t1.owners : t1.owners[p] = {}}
           fl  == DOMAIN t1.owners \ unused
           wds == {PathWd(t, p) : p \in unused}
           n   == Shed(t0, own, fl, unused, wds)
<1>1. /\ IsTable(t0) /\ t0.owners = t.owners
      /\ t0.byUser = t.byUser \ {u} /\ t0.recurse = t.recurse \ {u}
      /\ t0.target = Without(t.target, {u})
  BY ForgetUsersIs
<1>2. releaseOwner(t, u).tbl = n
  BY <1>1 DEF releaseOwner, Shed, Disowned
<1>3. Full(t) /\ (\A p \in DOMAIN own \ Empty(own) : own[p] # {}) => Full(Shed(t0, own, fl, Empty(own), wds))
  BY ShedFull
<1> HIDE DEF t0, own
<1>4. t1.owners = own
  BY <1>1, WithOwnersIs
<1>5. unused = Empty(own)
  BY <1>4 DEF Empty
<1> HIDE DEF t1, unused, fl, wds
<1>6. /\ n.byUser = t0.byUser /\ n.recurse = t0.recurse /\ n.target = t0.target
      /\ n.owners = Without(own, unused)
  BY <1>1, ShedIs
<1>7. \A p \in DOMAIN own \ Empty(own) : own[p] # {}
  BY DEF Empty
<1> HIDE DEF n
<1>8. Full(t) => Full(n)
  BY <1>3, <1>5, <1>7 DEF n
<1> QED BY <1>1, <1>2, <1>5, <1>6, <1>8 DEF own

(* The owner sets when the owners of regs are taken back. *)
TakenBack(f, regs) ==
  [p \in DOMAIN f |-> IF p \in DOMAIN regs THEN f[p] \ regs[p] ELSE f[p]]

LEMMA RollbackIs ==
  ASSUME NEW t, NEW regs, IsTable(t), OwnersFull(t.owners)
  PROVE  LET n   == rollbackRegistrations(t, regs).tbl
             own == TakenBack(t.owners, regs)
         IN  /\ n.byUser = t.byUser /\ n.recurse = t.recurse /\ n.target = t.target
             /\ n.owners = Without(own, Empty(own))
             /\ Full(t) => Full(n)
<1> DEFINE ps     == DOMAIN regs \cap DOMAIN t.owners
           own    == [p \in DOMAIN t.owners |->
                        IF p \in ps THEN t.owners[p] \ regs[p] ELSE t.owners[p]]
           t1     == [t EXCEPT !.owners = own]
           unused == {p \in ps : t1.owners[p] = {}}
           fl     == ps \ unused
           wds    == {t.path[p] : p \in unused \cap DOMAIN t.path}
           n      == Shed(t, own, fl, unused, wds)
<1>1. rollbackRegistrations(t, regs).tbl = n
  BY DEF rollbackRegistrations, Shed
<1>2. own = TakenBack(t.owners, regs)
  BY DEF TakenBack
<1>3. t1.owners = own
  BY WithOwnersIs
<1>4. unused = Empty(own)
  BY <1>3 DEF Empty, OwnersFull
<1> HIDE DEF unused, fl, wds, t1, own
<1>5. /\ n.byUser = t.byUser /\ n.recurse = t.recurse /\ n.target = t.target
      /\ n.owners = Without(own, unused)
  BY ShedIs
<1> HIDE DEF n
<1>6. OwnersFull(Without(own, unused))
  BY <1>4, WithoutFull DEF Empty
<1> QED BY <1>1, <1>2, <1>4, <1>5, <1>6 DEF Full

LEMMA RemoveFull ==
  ASSUME NEW t, NEW d, IsTable(t), Full(t)
  PROVE  Full(remove(t, d))
<1> DEFINE p    == t.wd[d].path
           gone == {u \in OwnersOf(t, p) : u \in DOMAIN t.target /\ t.target[u] = p}
           t0   == ForgetUsers(t, gone)
           t1   == ForgetPaths(t0, {p}, {d})
           hit  == {q \in DOMAIN t1.owners : t1.owners[q] \cap gone # {}}
           kept == {q \in DOMAIN t1.owners : q \in hit => ~(t1.owners[q] \subseteq gone)}
           own  == [q \in kept |-> t1.owners[q] \ gone]
           t2   == [t1 EXCEPT !.owners = own]
           n    == updateFlags(t2, hit)
<1>1. remove(t, d) = n
  BY DEF remove
<1> HIDE DEF gone, p
<1>2. IsTable(t0) /\ t0.owners = t.owners /\ t0.target = [u \in t0.byUser |-> u]
  BY ForgetUsersIs, TargetsWithout DEF Full
<1> HIDE DEF t0
<1>3. /\ IsTable(t1) /\ t1.byUser = t0.byUser /\ t1.target = t0.target
      /\ t1.owners = Without(t.owners, {p})
  BY <1>2, ForgetPathsIs
<1> HIDE DEF t1
<1>4. OwnersFull(own)
  <2>1. \A q \in DOMAIN t1.owners : t1.owners[q] # {}
    BY <1>3 DEF Full, OwnersFull, Without
  <2>2. \A q \in kept : t1.owners[q] \ gone # {}
    BY <2>1
  <2> QED BY <2>2 DEF OwnersFull
<1> HIDE DEF own, hit, kept
<1>5. IsTable(t2) /\ t2.owners = own /\ t2.byUser = t1.byUser /\ t2.target = t1.target
  BY <1>3, WithOwnersIs
<1> HIDE DEF t2
<1>6. SameOwnership(t2, n)
  BY <1>5, UpdateFlagsIs
<1> HIDE DEF n
<1> QED BY <1>1, <1>2, <1>3, <1>4, <1>5, <1>6 DEF Full, SameOwnership

(* A path that is owned by a user at or below a root is below it too. *)
LEMMA OwnedInRoots ==
  ASSUME NEW t, TableSound(t), NEW p \in DOMAIN t.owners, NEW u \in t.owners[p],
         NEW root, IsPath(root), hasPathPrefix(u, root)
  PROVE  hasPathPrefix(p, root)
<1>1. Owns(t, u, p) /\ IsPath(u) /\ IsPath(p)
  BY DEF TableSound, OwnersSound, OwnedIsListed, PathsSound, Owns, UsersSound
<1>2. u = root \/ Under(u, root)
  BY DEF hasPathPrefix
<1>3. p = u \/ Under(p, u)
  BY <1>1 DEF Owns
<1> QED BY <1>1, <1>2, <1>3, UnderTransitive DEF hasPathPrefix

LEMMA DetachSubtreesFull ==
  ASSUME NEW t, NEW roots, TableSound(t), Full(t), \A r \in roots : IsPath(r)
  PROVE  Full(detachSubtrees(t, roots).tbl)
<1> DEFINE InRoots(p) == \E root \in roots : hasPathPrefix(p, root)
           users == Targeting(t, InRoots)
           hit   == {p \in DOMAIN t.owners : t.owners[p] \cap users # {} /\ ~InRoots(p)}
           t0    == ForgetUsers(t, users)
           own   == [p \in DOMAIN t0.owners |-> t0.owners[p] \ users]
           ps    == {p \in DOMAIN t.path : InRoots(p)}
           wds   == {t.path[p] : p \in ps}
           n     == Shed(t0, own, hit, ps, wds)
<1>1. detachSubtrees(t, roots).tbl = n
  BY DEF detachSubtrees, Shed
<1>2. \A u \in users : u \in DOMAIN t.target /\ InRoots(t.target[u])
  BY DEF Targeting
<1>3. \A u \in users : \E root \in roots : hasPathPrefix(u, root)
  BY <1>2 DEF TableSound, UsersSound
<1>4. t0.owners = t.owners
  BY ForgetUsersIs DEF TableSound
<1>5. \A p \in DOMAIN t.owners \ ps : t.owners[p] \cap users = {}
  <2> SUFFICES ASSUME NEW p \in DOMAIN t.owners, p \notin ps, NEW u \in t.owners[p], u \in users
               PROVE  FALSE
    OBVIOUS
  <2>1. PICK root \in roots : hasPathPrefix(u, root)
    BY <1>3
  <2>2. hasPathPrefix(p, root)
    BY <2>1, OwnedInRoots
  <2> QED BY <2>2 DEF TableSound, OwnedIsListed
<1> HIDE DEF users, hit, ps, wds
<1>6. \A p \in DOMAIN own \ ps : own[p] # {}
  BY <1>4, <1>5 DEF Full, OwnersFull
<1>7. Full(n)
  BY <1>6, ShedFull DEF TableSound
<1> QED BY <1>1, <1>7

LEMMA AddUserFull ==
  ASSUME NEW t, NEW p, NEW r, IsTable(t), Full(t)
  PROVE  LET n == addUser(t, p, r)
         IN  Full(n) /\ n.owners = t.owners /\ n.target = [u \in t.byUser \cup {p} |-> u]
<1> DEFINE n       == addUser(t, p, r)
           target  == Put(t.target, p, p)
           recurse == IF r THEN t.recurse \cup {p} ELSE t.recurse
<1>1. n = [t EXCEPT !.byUser = t.byUser \cup {p}, !.target = target, !.recurse = recurse]
  BY DEF addUser
<1>2. target = [u \in t.byUser \cup {p} |-> u]
  BY DEF Put, Full
<1> HIDE DEF n, target, recurse
<1>3. n.byUser = t.byUser \cup {p} /\ n.target = target /\ n.owners = t.owners
  BY <1>1 DEF IsTable
<1> QED BY <1>2, <1>3 DEF Full, n

(* register changes the owner set of its path, or none. *)
LEMMA RegisterIs ==
  ASSUME NEW t, NEW p, NEW d, NEW us, TableSound(t), Full(t), IsPath(p)
  PROVE  LET n == register(t, p, d, us)
         IN  /\ Full(n) /\ n.byUser = t.byUser /\ n.recurse = t.recurse /\ n.target = t.target
             /\ \/ n.owners = t.owners /\ (us # {} => p \notin DOMAIN n.path)
                \/ /\ us # {} /\ n.owners = Put(t.owners, p, OwnersOf(t, p) \cup us)
                   /\ n.panicked \/ Watched(n, p)
<1> DEFINE old   == PathWd(t, p)
           fresh == [path |-> p, byUser |-> FALSE, recurse |-> FALSE]
           upd   == IF d \in DOMAIN t.wd THEN t.wd[d]
                    ELSE IF old \in DOMAIN t.wd THEN t.wd[old] ELSE fresh
           wd    == Without(Put(t.wd, d, upd), {old} \ {d})
           path  == Put(t.path, upd.path, d)
           t1    == updatePath(t, p, d)
           own   == Put(t.owners, p, OwnersOf(t, p) \cup us)
           t2    == [t1 EXCEPT !.owners = own]
           n     == register(t, p, d, us)
<1>1. t1 = [t EXCEPT !.wd = wd, !.path = path]
  BY DEF updatePath
<1>2. TableSound(t1)
  BY UpdatePathSound
<1> HIDE DEF wd, path, t1
<1>3. /\ IsTable(t1) /\ t1.owners = t.owners
      /\ t1.byUser = t.byUser /\ t1.recurse = t.recurse /\ t1.target = t.target
  BY <1>1 DEF TableSound, IsTable
<1>4. Full(t1)
  BY <1>3 DEF Full
<1>5. n = IF p \in DOMAIN t1.path THEN addOwners(t1, p, us) ELSE t1
  BY DEF register, t1
<1>6. CASE p \notin DOMAIN t1.path \/ us = {}
  BY <1>3, <1>4, <1>5, <1>6 DEF addOwners
<1>7. CASE p \in DOMAIN t1.path /\ us # {}
  <2>1. n = updateFlags(t2, {p})
    BY <1>3, <1>5, <1>7 DEF addOwners, OwnersOf
  <2>2. OwnersFull(own)
    BY <1>7 DEF OwnersFull, Full, Put
  <2> HIDE DEF own, n
  <2>3. /\ IsTable(t2) /\ t2.owners = own /\ t2.byUser = t1.byUser /\ t2.recurse = t1.recurse
        /\ t2.target = t1.target /\ t2.path = t1.path /\ t2.wd = t1.wd
    BY <1>3, WithOwnersIs
  <2> HIDE DEF t2
  <2>4. SameOwnership(t2, n)
    BY <2>1, <2>3, UpdateFlagsIs
  <2>5. n.panicked \/ Watched(n, p)
    <3> DEFINE listed   == {p} \cap DOMAIN t2.path
               live     == {q \in listed : t2.path[q] \in DOMAIN t2.wd}
               Named(x) == {q \in live : t2.path[q] = x}
               wd2      == [x \in DOMAIN t2.wd |-> IF Named(x) = {} THEN t2.wd[x]
                              ELSE Reflag(t2, t2.wd[x], CHOOSE q \in Named(x) : TRUE)]
               pan2     == t2.panicked \/ live # listed
    <3>1. n = [t2 EXCEPT !.wd = wd2, !.panicked = pan2]
      BY <2>1 DEF updateFlags
    <3>2. DOMAIN wd2 = DOMAIN t2.wd
      OBVIOUS
    <3>3. t2.path[p] \notin DOMAIN t2.wd => pan2
      BY <1>7, <2>3
    <3> HIDE DEF wd2, pan2
    <3>4. n.wd = wd2 /\ n.panicked = pan2 /\ n.path = t2.path
      BY <2>3, <3>1 DEF IsTable
    <3> QED BY <1>7, <2>3, <3>2, <3>3, <3>4 DEF Watched, PathWd
  <2> QED BY <1>3, <1>4, <1>7, <2>2, <2>3, <2>4, <2>5 DEF Full, SameOwnership, n, own
<1> QED BY <1>6, <1>7

LEMMA ReleaseRenamedFull ==
  ASSUME NEW t, NEW oldPath, IsTable(t), Full(t)
  PROVE  Full(releaseRenamed(t, oldPath).tbl)
<1> DEFINE InOld(p) == hasPathPrefix(p, oldPath)
           users  == Targeting(t, InOld)
           t0     == ForgetUsers(t, users)
           others == {p \in DOMAIN t.owners : ~InOld(p)}
           own    == [p \in DOMAIN t0.owners |->
                        IF p \in others THEN t0.owners[p] \ users ELSE t0.owners[p]]
           t2     == [t0 EXCEPT !.owners = own]
           unused == {p \in others : t2.owners[p] = {}}
           fl     == others \ unused
           wds    == {PathWd(t, p) : p \in unused}
           n      == Shed(t0, own, fl, unused, wds)
<1>1. CASE users = {}
  BY <1>1 DEF releaseRenamed
<1>2. CASE users # {}
  <2>1. releaseRenamed(t, oldPath).tbl = n
    BY <1>2 DEF releaseRenamed, Shed
  <2>2. IsTable(t0) /\ t0.owners = t.owners
    BY ForgetUsersIs
  <2>3. t2.owners = own
    BY <2>2, WithOwnersIs
  <2> HIDE DEF t2, users, others
  <2>4. \A p \in DOMAIN own \ unused : own[p] # {}
    BY <2>2, <2>3 DEF Full, OwnersFull
  <2> HIDE DEF own, fl, unused, wds
  <2>5. Full(n)
    BY <2>4, ShedFull
  <2> QED BY <2>1, <2>5
<1> QED BY <1>1, <1>2

LEMMA MoveWatchesFull ==
  ASSUME NEW t, NEW oldPath, NEW newPath, NEW newOwners, IsTable(t), Full(t)
  PROVE  Full(moveWatches(t, oldPath, newPath, newOwners).tbl)
<1> DEFINE moved  == {p \in DOMAIN t.path : hasPathPrefix(p, oldPath)}
           wds    == {t.path[p] : p \in moved}
           To(p)  == Rebased(p, oldPath, newPath)
           From(d) == CHOOSE p \in moved : t.path[p] = d
           landed == {To(p) : p \in moved}
           Origin(q) == CHOOSE p \in moved : To(p) = q
           path1  == Without(t.path, moved)
           own1   == Without(t.owners, moved)
           wd1    == Without(t.wd, wds)
           path2  == PutAll(path1, [q \in landed |-> t.path[Origin(q)]])
           own2   == PutAll(own1, [q \in landed |-> newOwners])
           wd2    == [d \in DOMAIN t.wd |->
                        IF d \in wds THEN [t.wd[d] EXCEPT !.path = To(From(d))] ELSE t.wd[d]]
           pan2   == t.panicked \/ wds \ DOMAIN t.wd # {}
           n1     == [t EXCEPT !.path = path1, !.owners = own1, !.wd = wd1]
           t2     == [t EXCEPT !.path = path2, !.owners = own2, !.wd = wd2, !.panicked = pan2]
           n2     == updateFlags(t2, landed)
<1>1. OwnersFull(own1)
  <2>1. \A p \in DOMAIN t.owners : t.owners[p] # {}
    BY DEF Full, OwnersFull
  <2> HIDE DEF moved
  <2> QED BY <2>1, WithoutFull
<1>2. CASE newOwners = {}
  <2>1. moveWatches(t, oldPath, newPath, newOwners).tbl = n1
    BY <1>2 DEF moveWatches, IsTable
  <2> HIDE DEF path1, own1, wd1
  <2>2. n1.owners = own1 /\ n1.byUser = t.byUser /\ n1.target = t.target
    BY DEF IsTable
  <2> QED BY <1>1, <2>1, <2>2 DEF Full
<1>3. CASE newOwners # {}
  <2>1. moveWatches(t, oldPath, newPath, newOwners).tbl = n2
    BY <1>3 DEF moveWatches, IsTable
  <2>2. OwnersFull(own2)
    BY <1>1, <1>3 DEF OwnersFull, PutAll
  <2> HIDE DEF path2, own2, wd2, pan2, landed
  <2>3. IsTable(t2) /\ t2.owners = own2 /\ t2.byUser = t.byUser /\ t2.target = t.target
    BY DEF IsTable
  <2> HIDE DEF t2
  <2>4. SameOwnership(t2, n2)
    BY <2>3, UpdateFlagsIs
  <2> QED BY <2>1, <2>2, <2>3, <2>4 DEF Full, SameOwnership
<1> QED BY <1>2, <1>3

LEMMA RebaseFull ==
  ASSUME NEW t, NEW oldPath, NEW newPath, NEW us, TableSound(t), Full(t), IsPath(newPath)
  PROVE  Full(rebase(t, oldPath, newPath, us).tbl)
<1> DEFINE cleared  == clearDestination(t, oldPath, newPath)
           released == releaseRenamed(cleared.tbl, oldPath)
           owners   == us \cap released.tbl.recurse
           moved    == moveWatches(released.tbl, oldPath, newPath, owners)
<1>1. TableSound(cleared.tbl) /\ Full(cleared.tbl)
  BY ClearDestinationSound, DetachSubtreesFull DEF clearDestination, detachSubtree
<1> HIDE DEF cleared
<1>2. IsTable(released.tbl) /\ Full(released.tbl)
  BY <1>1, ReleaseRenamedSound, ReleaseRenamedFull DEF SoundBut, TableSound
<1> HIDE DEF released
<1>3. Full(moved.tbl)
  BY <1>2, MoveWatchesFull
<1>4. rebase(t, oldPath, newPath, us).tbl = moved.tbl
  BY DEF rebase, cleared, released
<1> QED BY <1>3, <1>4

(* What is released or rolled back leaves no empty owner set behind.       *)
LEMMA ReleaseOwnerFull ==
  ASSUME NEW t, NEW u, IsTable(t), Full(t)
  PROVE  Full(releaseOwner(t, u).tbl)
<1> DEFINE n == releaseOwner(t, u).tbl
<1>1. Full(t) => Full(n)
  BY ReleaseOwnerIs
<1> QED BY <1>1

LEMMA RollbackFull ==
  ASSUME NEW t, NEW regs, IsTable(t), Full(t)
  PROVE  Full(rollbackRegistrations(t, regs).tbl)
<1> DEFINE n == rollbackRegistrations(t, regs).tbl
<1>1. OwnersFull(t.owners)
  BY DEF Full
<1>2. Full(t) => Full(n)
  BY <1>1, RollbackIs
<1> QED BY <1>2

-----------------------------------------------------------------------------
(* Tables that are inverse to each other, and flags that are right.        *)
-----------------------------------------------------------------------------
(* Every listed path has the watch its descriptor names, and every watch   *)
(* is listed under its path.                                               *)
Paired(t) ==
  /\ \A p \in DOMAIN t.path : t.path[p] \in DOMAIN t.wd /\ t.wd[t.path[p]].path = p
  /\ \A d \in DOMAIN t.wd : t.wd[d].path \in DOMAIN t.path /\ t.path[t.wd[d].path] = d

FlagsOf(t, p) == <<FlaggedByUser(t, p), FlaggedRecurse(t, p)>>
FlagsIn(w) == <<w.byUser, w.recurse>>

(* The flags agree with the owners, but for the paths of ex. *)
FlagsBut(t, ex) ==
  \A d \in DOMAIN t.wd : t.wd[d].path \in ex \/ FlagsIn(t.wd[d]) = FlagsOf(t, t.wd[d].path)

LEMMA ReflagFlags ==
  ASSUME NEW t, NEW w, NEW p, IsWatch(w)
  PROVE  FlagsIn(Reflag(t, w, p)) = FlagsOf(t, p)
<1> DEFINE a == FlaggedByUser(t, p)
           b == FlaggedRecurse(t, p)
<1>1. Reflag(t, w, p) = [w EXCEPT !.byUser = a, !.recurse = b]
  BY DEF Reflag
<1> HIDE DEF a, b
<1>2. Reflag(t, w, p).byUser = a /\ Reflag(t, w, p).recurse = b
  BY <1>1 DEF IsWatch
<1> QED BY <1>2 DEF FlagsIn, FlagsOf, a, b

LEMMA SameFlags ==
  ASSUME NEW t, NEW n, NEW p, OwnersOf(n, p) = OwnersOf(t, p),
         \A u \in OwnersOf(t, p) :
           /\ u \in n.recurse <=> u \in t.recurse
           /\ u \in DOMAIN n.target <=> u \in DOMAIN t.target
           /\ u \in DOMAIN t.target => n.target[u] = t.target[u]
  PROVE  FlagsOf(n, p) = FlagsOf(t, p)
<1>1. FlaggedByUser(n, p) <=> FlaggedByUser(t, p)
  BY DEF FlaggedByUser
<1>2. FlaggedRecurse(n, p) <=> FlaggedRecurse(t, p)
  BY DEF FlaggedRecurse
<1> QED BY <1>1, <1>2 DEF FlagsOf, FlaggedByUser, FlaggedRecurse

LEMMA UpdateFlagsPaired ==
  ASSUME NEW t, NEW ps, IsTable(t), PathsSound(t), Paired(t)
  PROVE  LET n == updateFlags(t, ps)
         IN  /\ Paired(n) /\ (n.panicked => t.panicked) /\ DOMAIN n.wd = DOMAIN t.wd
             /\ \A ex : FlagsBut(t, ps \cup ex) => FlagsBut(n, ex)
<1> DEFINE listed   == ps \cap DOMAIN t.path
           live     == {p \in listed : t.path[p] \in DOMAIN t.wd}
           Named(d) == {p \in live : t.path[p] = d}
           R(d)     == Reflag(t, t.wd[d], CHOOSE p \in Named(d) : TRUE)
           wd       == [d \in DOMAIN t.wd |-> IF Named(d) = {} THEN t.wd[d] ELSE R(d)]
           pan      == t.panicked \/ live # listed
           n        == updateFlags(t, ps)
<1>1. n = [t EXCEPT !.wd = wd, !.panicked = pan]
  BY DEF updateFlags
<1>2. live = listed
  BY DEF Paired
<1>3. ASSUME NEW d \in DOMAIN t.wd
      PROVE  /\ wd[d].path = t.wd[d].path
             /\ t.wd[d].path \notin ps => wd[d] = t.wd[d]
             /\ t.wd[d].path \in ps => FlagsIn(wd[d]) = FlagsOf(t, t.wd[d].path)
  <2>1. \A p \in Named(d) : p = t.wd[d].path
    BY DEF Paired
  <2>2. t.wd[d].path \in ps => t.wd[d].path \in Named(d)
    BY <1>2 DEF Paired
  <2>3. IsWatch(t.wd[d])
    BY DEF PathsSound
  <2>4. CASE Named(d) = {}
    BY <2>2, <2>4
  <2>5. CASE Named(d) # {}
    <3>1. (CHOOSE p \in Named(d) : TRUE) = t.wd[d].path /\ t.wd[d].path \in ps
      BY <2>1, <2>5
    <3>2. wd[d] = R(d)
      BY <2>5
    <3>3. R(d) = Reflag(t, t.wd[d], t.wd[d].path)
      BY <3>1
    <3> HIDE DEF wd, Named, R
    <3> QED BY <2>3, <3>1, <3>2, <3>3, ReflagIs, ReflagFlags
  <2> QED BY <2>4, <2>5
<1>4. DOMAIN wd = DOMAIN t.wd
  OBVIOUS
<1>5. n.panicked = pan
  BY <1>1 DEF IsTable
<1>6. pan => t.panicked
  BY <1>2
<1> HIDE DEF wd, pan, n
<1>7. n.wd = wd /\ SameOwnership(t, n)
  BY <1>1 DEF IsTable, SameOwnership
<1>8. Paired(n)
  BY <1>3, <1>4, <1>7 DEF Paired, SameOwnership
<1>9. \A p : FlagsOf(n, p) = FlagsOf(t, p)
  BY <1>7, SameFlags DEF SameOwnership, OwnersOf
<1>10. ASSUME NEW ex, FlagsBut(t, ps \cup ex)
       PROVE  FlagsBut(n, ex)
  BY <1>3, <1>4, <1>7, <1>9, <1>10 DEF FlagsBut
<1> QED BY <1>4, <1>5, <1>6, <1>7, <1>8, <1>10 DEF n

(* The paths ps go with the descriptors they have. *)
LEMMA ForgetPathsPaired ==
  ASSUME NEW t, NEW ps, NEW ds, IsTable(t), Paired(t),
         \A p \in DOMAIN t.path : p \in ps <=> t.path[p] \in ds
  PROVE  LET n == ForgetPaths(t, ps, ds)
         IN  /\ Paired(n) /\ n.panicked = t.panicked /\ DOMAIN n.wd = DOMAIN t.wd \ ds
             /\ \A ex : FlagsBut(t, ps \cup ex) => FlagsBut(n, ex)
<1> DEFINE path   == Without(t.path, ps)
           owners == Without(t.owners, ps)
           wd     == Without(t.wd, ds)
           n      == ForgetPaths(t, ps, ds)
<1>1. n = [t EXCEPT !.path = path, !.owners = owners, !.wd = wd]
  BY DEF ForgetPaths
<1>2. /\ DOMAIN path = DOMAIN t.path \ ps /\ \A p \in DOMAIN path : path[p] = t.path[p]
      /\ DOMAIN owners = DOMAIN t.owners \ ps /\ \A p \in DOMAIN owners : owners[p] = t.owners[p]
      /\ DOMAIN wd = DOMAIN t.wd \ ds /\ \A d \in DOMAIN wd : wd[d] = t.wd[d]
  BY DEF Without
<1> HIDE DEF path, owners, wd, n
<1>3. /\ n.byUser = t.byUser /\ n.recurse = t.recurse /\ n.target = t.target
      /\ n.path = path /\ n.owners = owners /\ n.wd = wd /\ n.panicked = t.panicked
  BY <1>1 DEF IsTable
<1>4. \A d \in DOMAIN wd : t.wd[d].path \notin ps
  BY <1>2 DEF Paired
<1>5. Paired(n)
  BY <1>2, <1>3, <1>4 DEF Paired
<1>6. \A p : p \notin ps => FlagsOf(n, p) = FlagsOf(t, p)
  <2>1. \A p : p \notin ps => OwnersOf(n, p) = OwnersOf(t, p)
    BY <1>2, <1>3 DEF OwnersOf
  <2> QED BY <1>3, <2>1, SameFlags
<1>7. ASSUME NEW ex, FlagsBut(t, ps \cup ex)
      PROVE  FlagsBut(n, ex)
  BY <1>2, <1>3, <1>4, <1>6, <1>7 DEF FlagsBut
<1> QED BY <1>2, <1>3, <1>5, <1>7 DEF n

(* The owners f gives a path. *)
OwnersIn(f, p) == IF p \in DOMAIN f THEN f[p] ELSE {}

(* Flags are computed again for every path that loses an owner and stays,  *)
(* but for those of ex.                                                    *)
LEMMA ShedPaired ==
  ASSUME NEW t, NEW t0, NEW us, NEW own, NEW fl, NEW ps, NEW ds, NEW ex,
         IsTable(t0), PathsSound(t0), UsersWithout(t, t0, us),
         t0.path = t.path, t0.wd = t.wd, t0.panicked = t.panicked, Paired(t), FlagsBut(t, ex),
         \A p \in DOMAIN t.path : p \in ps <=> t.path[p] \in ds,
         \A p \in DOMAIN t.path :
           \/ p \in fl \cup ps \cup ex
           \/ OwnersIn(own, p) = OwnersOf(t, p) /\ OwnersOf(t, p) \cap us = {}
  PROVE  LET n == Shed(t0, own, fl, ps, ds)
         IN  /\ Paired(n) /\ (n.panicked => t.panicked) /\ DOMAIN n.wd = DOMAIN t.wd \ ds
             /\ FlagsBut(n, ex)
<1> DEFINE t1 == [t0 EXCEPT !.owners = own]
           t2 == updateFlags(t1, fl)
           n  == ForgetPaths(t2, ps, ds)
<1>1. /\ IsTable(t1) /\ PathsSound(t1) /\ t1.owners = own /\ t1.panicked = t.panicked
      /\ t1.byUser = t0.byUser /\ t1.recurse = t0.recurse /\ t1.target = t0.target
      /\ t1.path = t.path /\ t1.wd = t.wd
  <2>1. t1.panicked = t0.panicked
    BY DEF IsTable
  <2> QED BY <2>1, WithOwnersIs DEF PathsSound
<1> HIDE DEF t1
<1>2. Paired(t1)
  BY <1>1 DEF Paired
<1>3. FlagsBut(t1, fl \cup (ps \cup ex))
  <2> SUFFICES ASSUME NEW d \in DOMAIN t.wd, t.wd[d].path \notin fl \cup ps \cup ex
               PROVE  FlagsIn(t.wd[d]) = FlagsOf(t1, t.wd[d].path)
    BY <1>1 DEF FlagsBut
  <2> DEFINE p == t.wd[d].path
  <2>1. OwnersIn(own, p) = OwnersOf(t, p) /\ OwnersOf(t, p) \cap us = {}
    BY DEF Paired
  <2>2. OwnersOf(t1, p) = OwnersOf(t, p)
    BY <1>1, <2>1 DEF OwnersOf, OwnersIn
  <2>3. FlagsIn(t.wd[d]) = FlagsOf(t, p)
    BY DEF FlagsBut
  <2> HIDE DEF p
  <2>4. FlagsOf(t1, p) = FlagsOf(t, p)
    BY <1>1, <2>1, <2>2, SameFlags DEF UsersWithout
  <2> QED BY <2>3, <2>4 DEF p
<1>4. /\ IsTable(t2) /\ SameOwnership(t1, t2) /\ Paired(t2) /\ (t2.panicked => t.panicked)
      /\ DOMAIN t2.wd = DOMAIN t.wd /\ FlagsBut(t2, ps \cup ex)
  <2>1. IsTable(t2) /\ SameOwnership(t1, t2)
    BY <1>1, UpdateFlagsIs
  <2>2. /\ Paired(t2) /\ (t2.panicked => t1.panicked) /\ DOMAIN t2.wd = DOMAIN t1.wd
        /\ FlagsBut(t2, ps \cup ex)
    BY <1>1, <1>2, <1>3, UpdateFlagsPaired
  <2> QED BY <1>1, <2>1, <2>2
<1> HIDE DEF t2
<1>5. \A p \in DOMAIN t2.path : p \in ps <=> t2.path[p] \in ds
  BY <1>1, <1>4 DEF SameOwnership
<1>6. /\ Paired(n) /\ n.panicked = t2.panicked /\ DOMAIN n.wd = DOMAIN t2.wd \ ds
      /\ FlagsBut(n, ex)
  BY <1>4, <1>5, ForgetPathsPaired
<1> QED BY <1>4, <1>6 DEF Shed, n, t2, t1

(* The descriptors of the paths ps are those of no other path. *)
LEMMA WdsOfPaths ==
  ASSUME NEW t, NEW ps, Paired(t), NoWd \notin DOMAIN t.wd
  PROVE  /\ \A p \in DOMAIN t.path : p \in ps <=> t.path[p] \in {PathWd(t, q) : q \in ps}
         /\ \A p \in DOMAIN t.path : p \in ps <=> t.path[p] \in {t.path[q] : q \in ps \cap DOMAIN t.path}
BY DEF Paired, PathWd

(* The table is right: what every method of watches keeps true. *)
Right(t) == TableSound(t) /\ Paired(t) /\ FlagsBut(t, {}) /\ NoWd \notin DOMAIN t.wd

(* A method returns a right table, and the descriptors that left it. *)
RightResult(t, n, ds) ==
  Right(n) /\ DOMAIN n.wd = DOMAIN t.wd \ ds /\ (n.panicked => t.panicked)

LEMMA ReleaseOwnerRight ==
  ASSUME NEW t, NEW u, Right(t)
  PROVE  RightResult(t, releaseOwner(t, u).tbl, releaseOwner(t, u).wds)
<1> DEFINE t0     == ForgetUsers(t, {u})
           own    == [p \in DOMAIN t0.owners |-> t0.owners[p] \ {u}]
           t1     == [t0 EXCEPT !.owners = own]
           unused == {p \in DOMAIN t1.owners : t1.owners[p] = {}}
           fl     == DOMAIN t1.owners \ unused
           wds    == {PathWd(t, p) : p \in unused}
           n      == Shed(t0, own, fl, unused, wds)
<1>1. releaseOwner(t, u).tbl = n /\ releaseOwner(t, u).wds = wds
  BY DEF releaseOwner, Shed
<1>2. TableSound(t) /\ Paired(t) /\ FlagsBut(t, {}) /\ NoWd \notin DOMAIN t.wd
  BY DEF Right
<1>3. /\ IsTable(t0) /\ PathsSound(t0) /\ UsersWithout(t, t0, {u})
      /\ t0.path = t.path /\ t0.owners = t.owners /\ t0.wd = t.wd /\ t0.panicked = t.panicked
  <2>1. t0.panicked = t.panicked
    BY <1>2 DEF ForgetUsers, TableSound, IsTable
  <2> QED BY <1>2, <2>1, ForgottenUsers, ForgetUsersIs DEF TableSound
<1> HIDE DEF t0
<1>4. DOMAIN t1.owners = DOMAIN t.owners /\ DOMAIN own = DOMAIN t.owners
  BY <1>3, WithOwnersIs
<1>5. \A p \in DOMAIN t.path : p \in unused <=> t.path[p] \in wds
  <2> HIDE DEF unused
  <2> QED BY <1>2, WdsOfPaths
<1>6. \A p : p \in fl \cup unused \/ (OwnersIn(own, p) = OwnersOf(t, p) /\ OwnersOf(t, p) \cap {u} = {})
  BY <1>4 DEF OwnersIn, OwnersOf
<1> HIDE DEF own, unused, fl, wds
<1>7. /\ Paired(n) /\ (n.panicked => t.panicked) /\ DOMAIN n.wd = DOMAIN t.wd \ wds
      /\ FlagsBut(n, {})
  BY <1>2, <1>3, <1>5, <1>6, ShedPaired
<1> HIDE DEF n
<1> QED BY <1>1, <1>2, <1>7, ReleaseOwnerSound DEF Right, RightResult

LEMMA DetachSubtreesRight ==
  ASSUME NEW t, NEW roots, Right(t)
  PROVE  RightResult(t, detachSubtrees(t, roots).tbl, detachSubtrees(t, roots).wds)
<1> DEFINE InRoots(p) == \E root \in roots : hasPathPrefix(p, root)
           users == Targeting(t, InRoots)
           hit   == {p \in DOMAIN t.owners : t.owners[p] \cap users # {} /\ ~InRoots(p)}
           t0    == ForgetUsers(t, users)
           own   == [p \in DOMAIN t0.owners |-> t0.owners[p] \ users]
           ps    == {p \in DOMAIN t.path : InRoots(p)}
           wds   == {t.path[p] : p \in ps}
           n     == Shed(t0, own, hit, ps, wds)
<1>1. detachSubtrees(t, roots).tbl = n /\ detachSubtrees(t, roots).wds = wds
  BY DEF detachSubtrees, Shed
<1>2. TableSound(t) /\ Paired(t) /\ FlagsBut(t, {}) /\ NoWd \notin DOMAIN t.wd
  BY DEF Right
<1>3. \A p \in DOMAIN t.path : p \in ps <=> t.path[p] \in wds
  BY <1>2 DEF Paired
<1> HIDE DEF users
<1>4. /\ IsTable(t0) /\ PathsSound(t0) /\ UsersWithout(t, t0, users)
      /\ t0.path = t.path /\ t0.owners = t.owners /\ t0.wd = t.wd /\ t0.panicked = t.panicked
  <2>1. t0.panicked = t.panicked
    BY <1>2 DEF ForgetUsers, TableSound, IsTable
  <2> QED BY <1>2, <2>1, ForgottenUsers, ForgetUsersIs DEF TableSound
<1> HIDE DEF t0
<1>5. DOMAIN own = DOMAIN t.owners
  BY <1>4
<1>6. \A p \in DOMAIN t.path :
        \/ p \in hit \cup ps
        \/ OwnersIn(own, p) = OwnersOf(t, p) /\ OwnersOf(t, p) \cap users = {}
  <2> SUFFICES ASSUME NEW p \in DOMAIN t.path, p \notin hit, p \notin ps
               PROVE  OwnersIn(own, p) = OwnersOf(t, p) /\ OwnersOf(t, p) \cap users = {}
    OBVIOUS
  <2>1. ~InRoots(p)
    OBVIOUS
  <2>2. p \in DOMAIN t.owners => t.owners[p] \cap users = {}
    BY <2>1
  <2> HIDE DEF hit, ps
  <2> QED BY <1>4, <2>2 DEF OwnersIn, OwnersOf
<1> HIDE DEF own, hit, ps, wds
<1>7. /\ Paired(n) /\ (n.panicked => t.panicked) /\ DOMAIN n.wd = DOMAIN t.wd \ wds
      /\ FlagsBut(n, {})
  BY <1>2, <1>3, <1>4, <1>6, ShedPaired
<1> HIDE DEF n
<1> QED BY <1>1, <1>2, <1>7, DetachSubtreesSound DEF Right, RightResult

LEMMA RollbackRight ==
  ASSUME NEW t, NEW regs, Right(t)
  PROVE  RightResult(t, rollbackRegistrations(t, regs).tbl, rollbackRegistrations(t, regs).wds)
<1> DEFINE ps     == DOMAIN regs \cap DOMAIN t.owners
           own    == [p \in DOMAIN t.owners |->
                        IF p \in ps THEN t.owners[p] \ regs[p] ELSE t.owners[p]]
           t1     == [t EXCEPT !.owners = own]
           unused == {p \in ps : t1.owners[p] = {}}
           fl     == ps \ unused
           wds    == {t.path[p] : p \in unused \cap DOMAIN t.path}
           n      == Shed(t, own, fl, unused, wds)
<1>1. rollbackRegistrations(t, regs).tbl = n /\ rollbackRegistrations(t, regs).wds = wds
  BY DEF rollbackRegistrations, Shed
<1>2. TableSound(t) /\ Paired(t) /\ FlagsBut(t, {}) /\ NoWd \notin DOMAIN t.wd
  BY DEF Right
<1>3. IsTable(t) /\ PathsSound(t) /\ UsersWithout(t, t, {})
  BY <1>2 DEF TableSound, UsersWithout
<1>4. \A p : p \in fl \cup unused \/ (OwnersIn(own, p) = OwnersOf(t, p) /\ OwnersOf(t, p) \cap {} = {})
  BY DEF OwnersIn, OwnersOf
<1> HIDE DEF unused
<1>5. \A p \in DOMAIN t.path : p \in unused <=> t.path[p] \in wds
  BY <1>2, WdsOfPaths
<1> HIDE DEF own, fl, wds, ps
<1>6. /\ Paired(n) /\ (n.panicked => t.panicked) /\ DOMAIN n.wd = DOMAIN t.wd \ wds
      /\ FlagsBut(n, {})
  BY <1>2, <1>3, <1>4, <1>5, ShedPaired
<1> HIDE DEF n
<1> QED BY <1>1, <1>2, <1>6, RollbackSound DEF Right, RightResult

LEMMA RemoveRight ==
  ASSUME NEW t, NEW d, Right(t), d \in DOMAIN t.wd
  PROVE  RightResult(t, remove(t, d), {d})
<1> DEFINE p    == t.wd[d].path
           gone == {u \in OwnersOf(t, p) : u \in DOMAIN t.target /\ t.target[u] = p}
           t0   == ForgetUsers(t, gone)
           t1   == ForgetPaths(t0, {p}, {d})
           hit  == {q \in DOMAIN t1.owners : t1.owners[q] \cap gone # {}}
           kept == {q \in DOMAIN t1.owners : q \in hit => ~(t1.owners[q] \subseteq gone)}
           own  == [q \in kept |-> t1.owners[q] \ gone]
           t2   == [t1 EXCEPT !.owners = own]
           n    == updateFlags(t2, hit)
<1>1. remove(t, d) = n
  BY DEF remove
<1>2. /\ TableSound(t) /\ IsTable(t) /\ PathsSound(t) /\ Paired(t) /\ FlagsBut(t, {})
      /\ NoWd \notin DOMAIN t.wd
  BY DEF Right, TableSound
<1>3. \A q \in DOMAIN t.path : q \in {p} <=> t.path[q] \in {d}
  BY <1>2 DEF Paired
<1> HIDE DEF gone, p
<1>4. /\ IsTable(t0) /\ PathsSound(t0) /\ UsersWithout(t, t0, gone)
      /\ t0.path = t.path /\ t0.owners = t.owners /\ t0.wd = t.wd /\ t0.panicked = t.panicked
  <2>1. t0.panicked = t.panicked
    BY <1>2 DEF ForgetUsers, IsTable
  <2> QED BY <1>2, <2>1, ForgottenUsers, ForgetUsersIs
<1> HIDE DEF t0
<1>5. Paired(t0)
  BY <1>2, <1>4 DEF Paired
<1>6. /\ IsTable(t1) /\ PathsSound(t1) /\ UsersWithout(t, t1, gone)
      /\ t1.path = Without(t.path, {p}) /\ t1.owners = Without(t.owners, {p})
  <2>1. /\ IsTable(t1) /\ PathsSound(t1)
        /\ t1.byUser = t0.byUser /\ t1.recurse = t0.recurse /\ t1.target = t0.target
        /\ t1.path = Without(t.path, {p}) /\ t1.owners = Without(t.owners, {p})
    BY <1>4, ForgetPathsIs
  <2> QED BY <1>4, <2>1 DEF UsersWithout
<1>7. Paired(t1) /\ t1.panicked = t.panicked /\ DOMAIN t1.wd = DOMAIN t.wd \ {d}
  <2>1. \A q \in DOMAIN t0.path : q \in {p} <=> t0.path[q] \in {d}
    BY <1>3, <1>4
  <2> QED BY <1>4, <1>5, <2>1, ForgetPathsPaired
<1>8. \A x \in DOMAIN t1.wd : t1.wd[x] = t.wd[x]
  <2> DEFINE path   == Without(t0.path, {p})
             owners == Without(t0.owners, {p})
             wd     == Without(t0.wd, {d})
  <2>1. t1 = [t0 EXCEPT !.path = path, !.owners = owners, !.wd = wd]
    BY DEF ForgetPaths
  <2>2. \A x \in DOMAIN wd : wd[x] = t.wd[x]
    BY <1>4 DEF Without
  <2> HIDE DEF path, owners, wd, t1
  <2>3. t1.wd = wd
    BY <1>4, <2>1 DEF IsTable
  <2> QED BY <2>2, <2>3
<1> HIDE DEF t1
<1>9. \A q : q = p \/ q \in hit \/ (OwnersIn(own, q) = OwnersOf(t, q) /\ OwnersOf(t, q) \cap gone = {})
  BY <1>6 DEF OwnersIn, OwnersOf, Without
<1> HIDE DEF own, hit, kept
<1>10. /\ IsTable(t2) /\ PathsSound(t2) /\ UsersWithout(t, t2, gone) /\ t2.owners = own
       /\ t2.path = t1.path /\ t2.wd = t1.wd /\ t2.panicked = t.panicked
  <2>1. t2.panicked = t1.panicked
    BY <1>6 DEF IsTable
  <2>2. /\ IsTable(t2) /\ t2.owners = own
        /\ t2.byUser = t1.byUser /\ t2.recurse = t1.recurse /\ t2.target = t1.target
        /\ t2.path = t1.path /\ t2.wd = t1.wd
    BY <1>6, WithOwnersIs
  <2> QED BY <1>6, <1>7, <2>1, <2>2 DEF UsersWithout, PathsSound
<1> HIDE DEF t2
<1>11. Paired(t2)
  BY <1>7, <1>10 DEF Paired
<1>12. FlagsBut(t2, hit \cup {})
  <2> SUFFICES ASSUME NEW x \in DOMAIN t1.wd, t1.wd[x].path \notin hit
               PROVE  FlagsIn(t1.wd[x]) = FlagsOf(t2, t1.wd[x].path)
    BY <1>10 DEF FlagsBut
  <2> DEFINE q == t1.wd[x].path
  <2>1. q # p
    BY <1>6, <1>7 DEF Paired, Without
  <2>2. OwnersIn(own, q) = OwnersOf(t, q) /\ OwnersOf(t, q) \cap gone = {}
    BY <1>9, <2>1
  <2>3. OwnersOf(t2, q) = OwnersOf(t, q)
    BY <1>10, <2>2 DEF OwnersOf, OwnersIn
  <2>4. FlagsIn(t1.wd[x]) = FlagsOf(t, q)
    BY <1>2, <1>7, <1>8 DEF FlagsBut
  <2> HIDE DEF q
  <2>5. FlagsOf(t2, q) = FlagsOf(t, q)
    BY <1>10, <2>2, <2>3, SameFlags DEF UsersWithout
  <2> QED BY <2>4, <2>5 DEF q
<1>13. /\ Paired(n) /\ (n.panicked => t2.panicked) /\ DOMAIN n.wd = DOMAIN t2.wd
       /\ FlagsBut(n, {})
  BY <1>10, <1>11, <1>12, UpdateFlagsPaired
<1> HIDE DEF n
<1> QED BY <1>1, <1>2, <1>7, <1>10, <1>13, RemoveSound DEF Right, RightResult

LEMMA AddUserRight ==
  ASSUME NEW t, NEW p, NEW r, Right(t), IsPath(p), p \notin t.byUser, r \in BOOLEAN
  PROVE  RightResult(t, addUser(t, p, r), {})
<1> DEFINE n       == addUser(t, p, r)
           target  == Put(t.target, p, p)
           recurse == IF r THEN t.recurse \cup {p} ELSE t.recurse
<1>1. n = [t EXCEPT !.byUser = t.byUser \cup {p}, !.target = target, !.recurse = recurse]
  BY DEF addUser
<1>2. TableSound(t) /\ IsTable(t) /\ Paired(t) /\ FlagsBut(t, {}) /\ NoWd \notin DOMAIN t.wd
  BY DEF Right, TableSound
<1>3. /\ DOMAIN target = DOMAIN t.target \cup {p}
      /\ \A u \in DOMAIN t.target \ {p} : target[u] = t.target[u]
      /\ \A u : u # p => (u \in recurse <=> u \in t.recurse)
  BY DEF Put
<1>4. TableSound(n)
  BY <1>2, AddUserSound
<1> HIDE DEF n, target, recurse
<1>5. /\ n.target = target /\ n.recurse = recurse /\ n.panicked = t.panicked
      /\ n.path = t.path /\ n.wd = t.wd /\ n.owners = t.owners
  BY <1>1, <1>2 DEF IsTable
<1>6. Paired(n)
  BY <1>2, <1>5 DEF Paired
<1>7. \A q : FlagsOf(n, q) = FlagsOf(t, q)
  <2> TAKE q
  <2>1. \A u \in OwnersOf(t, q) : u # p
    BY <1>2 DEF TableSound, OwnersSound, Owns, OwnersOf
  <2>2. OwnersOf(n, q) = OwnersOf(t, q)
    BY <1>5 DEF OwnersOf
  <2> QED BY <1>3, <1>5, <2>1, <2>2, SameFlags
<1>8. FlagsBut(n, {})
  BY <1>2, <1>5, <1>7 DEF FlagsBut
<1> QED BY <1>2, <1>4, <1>5, <1>6, <1>8 DEF Right, RightResult, n

(* The path and the object it names are both watched, each by a descriptor *)
(* of its own.                                                             *)
ClashIn(t, p, d) == p \in DOMAIN t.path /\ d \in DOMAIN t.wd /\ t.path[p] # d

LEMMA UpdatePathRight ==
  ASSUME NEW t, NEW p, NEW d, Right(t), IsPath(p), d # NoWd
  PROVE  LET n == updatePath(t, p, d)
         IN  /\ FlagsBut(n, {}) /\ n.panicked = t.panicked
             /\ DOMAIN n.wd = (DOMAIN t.wd \cup {d}) \ ({PathWd(t, p)} \ {d})
             /\ ~ClashIn(t, p, d) => Paired(n)
             /\ ClashIn(t, p, d) =>
                  /\ p \in DOMAIN n.path /\ n.path[p] \notin DOMAIN n.wd
                  /\ \A x \in DOMAIN n.wd : n.wd[x].path # p
<1> DEFINE old   == PathWd(t, p)
           fresh == [path |-> p, byUser |-> FALSE, recurse |-> FALSE]
           upd   == IF d \in DOMAIN t.wd THEN t.wd[d]
                    ELSE IF old \in DOMAIN t.wd THEN t.wd[old] ELSE fresh
           wd    == Without(Put(t.wd, d, upd), {old} \ {d})
           path  == Put(t.path, upd.path, d)
           n     == updatePath(t, p, d)
<1>1. n = [t EXCEPT !.wd = wd, !.path = path]
  BY DEF updatePath
<1>2. /\ TableSound(t) /\ IsTable(t) /\ OwnedIsListed(t) /\ Paired(t) /\ FlagsBut(t, {})
      /\ NoWd \notin DOMAIN t.wd
  BY DEF Right, TableSound
<1>3. fresh.path = p /\ FlagsIn(fresh) = <<FALSE, FALSE>>
  BY DEF FlagsIn
<1>4. p \in DOMAIN t.path => old = t.path[p] /\ old \in DOMAIN t.wd /\ t.wd[old].path = p
  BY <1>2 DEF Paired, PathWd
<1>5. p \notin DOMAIN t.path => old \notin DOMAIN t.wd /\ OwnersOf(t, p) = {}
  BY <1>2 DEF PathWd, OwnedIsListed, OwnersOf
<1>6. FlagsIn(upd) = FlagsOf(t, upd.path)
  <2>1. CASE d \in DOMAIN t.wd
    BY <1>2, <2>1 DEF FlagsBut
  <2>2. CASE d \notin DOMAIN t.wd /\ old \in DOMAIN t.wd
    BY <1>2, <2>2 DEF FlagsBut
  <2>3. CASE d \notin DOMAIN t.wd /\ old \notin DOMAIN t.wd
    <3>1. upd = fresh /\ OwnersOf(t, p) = {}
      BY <1>4, <1>5, <2>3
    <3>2. FlagsOf(t, p) = <<FALSE, FALSE>>
      BY <3>1 DEF FlagsOf, FlaggedByUser, FlaggedRecurse
    <3> QED BY <1>3, <3>1, <3>2
  <2> QED BY <2>1, <2>2, <2>3
<1>7. /\ d \in DOMAIN t.wd => upd.path \in DOMAIN t.path /\ t.path[upd.path] = d
      /\ d \notin DOMAIN t.wd => upd.path = p
  BY <1>2, <1>3, <1>4, <1>5 DEF Paired
<1> HIDE DEF fresh, upd, old
<1>8. /\ DOMAIN wd = (DOMAIN t.wd \cup {d}) \ ({old} \ {d})
      /\ wd[d] = upd /\ \A x \in DOMAIN wd \ {d} : wd[x] = t.wd[x]
      /\ DOMAIN path = DOMAIN t.path \cup {upd.path}
      /\ path[upd.path] = d /\ \A q \in DOMAIN path \ {upd.path} : path[q] = t.path[q]
  BY DEF Put, Without
<1> HIDE DEF wd, path, n
<1>9. /\ n.wd = wd /\ n.path = path /\ n.panicked = t.panicked
      /\ n.recurse = t.recurse /\ n.target = t.target /\ n.owners = t.owners
  BY <1>1, <1>2 DEF IsTable
<1>10. FlagsBut(n, {})
  <2>1. \A q : FlagsOf(n, q) = FlagsOf(t, q)
    BY <1>9, SameFlags DEF OwnersOf
  <2> QED BY <1>2, <1>6, <1>8, <1>9, <2>1 DEF FlagsBut
<1>11. ASSUME ~ClashIn(t, p, d)
       PROVE  Paired(n)
  <2>1. CASE d \in DOMAIN t.wd
    <3>1. old = d \/ old \notin DOMAIN t.wd
      BY <1>4, <1>5, <1>11, <2>1 DEF ClashIn
    <3>2. DOMAIN wd = DOMAIN t.wd /\ DOMAIN path = DOMAIN t.path
      BY <1>7, <1>8, <2>1, <3>1
    <3>3. \A q \in DOMAIN path : path[q] = t.path[q]
      BY <1>7, <1>8, <2>1
    <3>4. upd = t.wd[d]
      BY <2>1 DEF upd
    <3>5. \A x \in DOMAIN wd : wd[x] = t.wd[x]
      BY <1>8, <3>4
    <3> QED BY <1>2, <1>9, <3>2, <3>3, <3>5 DEF Paired
  <2>2. CASE d \notin DOMAIN t.wd
    <3>1. /\ DOMAIN wd = (DOMAIN t.wd \ {old}) \cup {d} /\ wd[d].path = p
          /\ DOMAIN path = DOMAIN t.path \cup {p} /\ path[p] = d
          /\ \A q \in DOMAIN path \ {p} : path[q] = t.path[q]
      BY <1>7, <1>8, <2>2
    <3>2. \A q \in DOMAIN t.path \ {p} : t.path[q] \in DOMAIN t.wd \ {old} /\ t.wd[t.path[q]].path = q
      BY <1>2, <1>4, <1>5 DEF Paired
    <3>3. \A x \in DOMAIN t.wd \ {old} : /\ t.wd[x].path \in DOMAIN t.path \ {p}
                                         /\ t.path[t.wd[x].path] = x
      BY <1>2, <1>4, <1>5 DEF Paired
    <3> QED BY <1>8, <1>9, <2>2, <3>1, <3>2, <3>3 DEF Paired
  <2> QED BY <2>1, <2>2
<1>12. ASSUME ClashIn(t, p, d)
       PROVE  /\ p \in DOMAIN n.path /\ n.path[p] \notin DOMAIN n.wd
              /\ \A x \in DOMAIN n.wd : n.wd[x].path # p
  <2>1. old # d /\ p # upd.path /\ old = t.path[p] /\ d \in DOMAIN t.wd /\ p \in DOMAIN t.path
    BY <1>4, <1>7, <1>12 DEF ClashIn
  <2>2. p \in DOMAIN n.path /\ n.path[p] = old /\ old \notin DOMAIN n.wd
    BY <1>8, <1>9, <2>1
  <2>3. upd = t.wd[d]
    BY <2>1 DEF upd
  <2>4. \A x \in DOMAIN n.wd : n.wd[x].path # p
    BY <1>2, <1>8, <1>9, <2>1, <2>3 DEF Paired
  <2> QED BY <2>2, <2>4
<1> QED BY <1>8, <1>9, <1>10, <1>11, <1>12 DEF n, old

LEMMA RegisterRight ==
  ASSUME NEW t, NEW p, NEW d, NEW us, Right(t), IsPath(p), d # NoWd, us # {},
         \A u \in us : Owns(t, u, p)
  PROVE  LET n == register(t, p, d, us)
         IN  /\ TableSound(n) /\ FlagsBut(n, {}) /\ NoWd \notin DOMAIN n.wd
             /\ DOMAIN n.wd = (DOMAIN t.wd \cup {d}) \ ({PathWd(t, p)} \ {d})
             /\ ~ClashIn(t, p, d) => Paired(n) /\ (n.panicked => t.panicked)
             /\ ClashIn(t, p, d) => n.panicked /\ p \in DOMAIN n.path
<1> DEFINE t1  == updatePath(t, p, d)
           own == Put(t1.owners, p, OwnersOf(t1, p) \cup us)
           t2  == [t1 EXCEPT !.owners = own]
           n   == register(t, p, d, us)
<1>1. TableSound(t) /\ NoWd \notin DOMAIN t.wd
  BY DEF Right
<1>2. TableSound(n)
  BY <1>1, RegisterSound
<1>3. TableSound(t1) /\ IsTable(t1) /\ PathsSound(t1)
  BY <1>1, UpdatePathSound DEF TableSound
<1>4. /\ FlagsBut(t1, {}) /\ t1.panicked = t.panicked
      /\ DOMAIN t1.wd = (DOMAIN t.wd \cup {d}) \ ({PathWd(t, p)} \ {d})
      /\ ~ClashIn(t, p, d) => Paired(t1)
      /\ ClashIn(t, p, d) =>
           /\ p \in DOMAIN t1.path /\ t1.path[p] \notin DOMAIN t1.wd
           /\ \A x \in DOMAIN t1.wd : t1.wd[x].path # p
  BY UpdatePathRight
<1>5. n = IF p \in DOMAIN t1.path THEN addOwners(t1, p, us) ELSE t1
  BY DEF register
<1> HIDE DEF t1
<1>6. CASE p \notin DOMAIN t1.path
  BY <1>1, <1>2, <1>4, <1>5, <1>6
<1>7. CASE p \in DOMAIN t1.path
  <2>1. n = updateFlags(t2, {p})
    BY <1>5, <1>7 DEF addOwners
  <2>2. \A q : q # p => OwnersIn(own, q) = OwnersOf(t1, q)
    BY DEF OwnersIn, OwnersOf, Put
  <2> HIDE DEF own, n
  <2>3. /\ IsTable(t2) /\ PathsSound(t2) /\ t2.owners = own /\ t2.panicked = t.panicked
        /\ t2.recurse = t1.recurse /\ t2.target = t1.target /\ t2.path = t1.path /\ t2.wd = t1.wd
    <3>1. t2.panicked = t1.panicked
      BY <1>3 DEF IsTable
    <3>2. /\ IsTable(t2) /\ t2.owners = own
          /\ t2.recurse = t1.recurse /\ t2.target = t1.target /\ t2.path = t1.path /\ t2.wd = t1.wd
      BY <1>3, WithOwnersIs
    <3> QED BY <1>3, <1>4, <3>1, <3>2 DEF PathsSound
  <2> HIDE DEF t2
  <2>4. \A q : q # p => FlagsOf(t2, q) = FlagsOf(t1, q)
    <3>1. \A q : q # p => OwnersOf(t2, q) = OwnersOf(t1, q)
      BY <2>2, <2>3 DEF OwnersIn, OwnersOf
    <3> QED BY <2>3, <3>1, SameFlags
  <2>5. FlagsBut(t2, {p} \cup {})
    BY <1>4, <2>3, <2>4 DEF FlagsBut
  <2>6. CASE ~ClashIn(t, p, d)
    <3>1. Paired(t2)
      BY <1>4, <2>3, <2>6 DEF Paired
    <3>2. /\ Paired(n) /\ (n.panicked => t2.panicked) /\ DOMAIN n.wd = DOMAIN t2.wd
          /\ FlagsBut(n, {})
      BY <2>1, <2>3, <2>5, <3>1, UpdateFlagsPaired
    <3> QED BY <1>1, <1>2, <1>4, <2>3, <2>6, <3>2 DEF n
  <2>7. CASE ClashIn(t, p, d)
    <3> DEFINE listed   == {p} \cap DOMAIN t2.path
               live     == {q \in listed : t2.path[q] \in DOMAIN t2.wd}
               Named(x) == {q \in live : t2.path[q] = x}
               wd       == [x \in DOMAIN t2.wd |-> IF Named(x) = {} THEN t2.wd[x]
                              ELSE Reflag(t2, t2.wd[x], CHOOSE q \in Named(x) : TRUE)]
               pan      == t2.panicked \/ live # listed
    <3>1. n = [t2 EXCEPT !.wd = wd, !.panicked = pan]
      BY <2>1 DEF updateFlags
    <3>2. live = {} /\ listed = {p}
      BY <1>4, <1>7, <2>3, <2>7
    <3>3. pan
      BY <3>2
    <3>4. DOMAIN wd = DOMAIN t2.wd /\ \A x \in DOMAIN wd : wd[x] = t2.wd[x]
      BY <3>2
    <3> HIDE DEF wd, pan
    <3>5. n.wd = wd /\ n.panicked /\ SameOwnership(t2, n)
      BY <2>3, <3>1, <3>3 DEF IsTable, SameOwnership
    <3>6. \A q : FlagsOf(n, q) = FlagsOf(t2, q)
      BY <3>5, SameFlags DEF SameOwnership, OwnersOf
    <3>7. FlagsBut(n, {})
      BY <1>4, <2>3, <2>5, <2>7, <3>4, <3>5, <3>6 DEF FlagsBut
    <3>8. NoWd \notin DOMAIN n.wd /\ p \in DOMAIN n.path /\ DOMAIN n.wd = DOMAIN t1.wd
      BY <1>1, <1>4, <1>7, <2>3, <3>4, <3>5 DEF SameOwnership
    <3> QED BY <1>2, <1>4, <2>7, <3>5, <3>7, <3>8 DEF n
  <2> QED BY <2>6, <2>7
<1> QED BY <1>6, <1>7

-----------------------------------------------------------------------------
(* rebase.                                                                 *)
-----------------------------------------------------------------------------
(* What becomes the same path was the same path. *)
LEMMA RebasedOnce ==
  ASSUME NEW p, NEW q, NEW old, NEW new, IsPath(p), IsPath(q), IsPath(old), IsPath(new),
         hasPathPrefix(p, old), hasPathPrefix(q, old), Rebased(p, old, new) = Rebased(q, old, new)
  PROVE  p = q
<1> DEFINE S == Range(p) \cup Range(q) \cup Range(old) \cup Range(new)
           Rest(x) == SubSeq(x, Len(old) + 1, Len(x))
<1>1. p \in Seq(S) /\ q \in Seq(S) /\ old \in Seq(S) /\ new \in Seq(S)
  BY SeqMonotonic DEF IsPath
<1> HIDE DEF S
<1>2. ASSUME NEW x \in Seq(S), hasPathPrefix(x, old)
      PROVE  Rest(x) \in Seq(S) /\ old \o Rest(x) = x
  <2>1. /\ Len(x) \in Nat /\ Len(old) \in Nat /\ Len(old) <= Len(x)
        /\ SubSeq(x, 1, Len(old)) = old
    <3>1. CASE x = old
      BY <1>1, <3>1, LenProperties, SubSeqFull
    <3>2. CASE Under(x, old)
      BY <1>1, <3>2, LenProperties DEF Under
    <3> QED BY <1>2, <3>1, <3>2 DEF hasPathPrefix
  <2>2. Rest(x) \in Seq(S)
    BY <2>1, ElementOfSeq, SubSeqProperties
  <2>3. 1 \in 1..Len(x) + 1 /\ Len(old) \in (1 - 1)..Len(x) /\ Len(x) \in Len(old)..Len(x)
    BY <2>1
  <2>4. SubSeq(x, 1, Len(old)) \o Rest(x) = SubSeq(x, 1, Len(x))
    BY <2>1, <2>3, ConcatAdjacentSubSeq
  <2> QED BY <2>1, <2>2, <2>4, SubSeqFull
<1>3. Rest(p) \in Seq(S) /\ Rest(q) \in Seq(S) /\ old \o Rest(p) = p /\ old \o Rest(q) = q
  BY <1>1, <1>2
<1>4. new \o Rest(p) = new \o Rest(q)
  BY DEF Rebased
<1> HIDE DEF Rest
<1>5. Rest(p) = Rest(q)
  BY <1>1, <1>3, <1>4, ConcatSimplifications
<1> QED BY <1>3, <1>5

(* A path under its new name is at or below that name. *)
LEMMA RebasedPrefix ==
  ASSUME NEW p, NEW old, NEW new, IsPath(p), IsPath(old), IsPath(new)
  PROVE  hasPathPrefix(Rebased(p, old, new), new)
<1>1. Under(new, new)
  <2>1. Len(new) \in Nat /\ SubSeq(new, 1, Len(new)) = new
    BY LenProperties DEF IsPath
  <2> QED BY <2>1 DEF Under
<1> QED BY <1>1, RebasedUnder DEF hasPathPrefix

(* The listed paths at or below a path. *)
Within(t, root) == {p \in DOMAIN t.path : hasPathPrefix(p, root)}

LEMMA ClearDestinationRight ==
  ASSUME NEW t, NEW oldPath, NEW newPath, Right(t)
  PROVE  LET r == clearDestination(t, oldPath, newPath)
         IN  /\ RightResult(t, r.tbl, r.wds)
             /\ \A p \in DOMAIN r.tbl.path : hasPathPrefix(p, newPath) => hasPathPrefix(p, oldPath)
<1>1. CASE \E p \in DOMAIN t.path : hasPathPrefix(p, newPath) /\ ~hasPathPrefix(p, oldPath)
  <2> DEFINE InRoots(p) == \E root \in {newPath} : hasPathPrefix(p, root)
             users == Targeting(t, InRoots)
             hit   == {p \in DOMAIN t.owners : t.owners[p] \cap users # {} /\ ~InRoots(p)}
             t0    == ForgetUsers(t, users)
             own   == [p \in DOMAIN t0.owners |-> t0.owners[p] \ users]
             ps    == {p \in DOMAIN t.path : InRoots(p)}
             wds   == {t.path[p] : p \in ps}
             n     == Shed(t0, own, hit, ps, wds)
  <2>1. clearDestination(t, oldPath, newPath) = detachSubtrees(t, {newPath})
    BY <1>1 DEF clearDestination, detachSubtree
  <2>2. detachSubtrees(t, {newPath}).tbl = n
    BY DEF detachSubtrees, Shed
  <2>3. IsTable(t0) /\ t0.path = t.path
    BY ForgetUsersIs DEF Right, TableSound
  <2> HIDE DEF t0, own, hit, wds, users
  <2>4. n.path = Without(t.path, ps)
    BY <2>3, ShedIs
  <2>5. \A p \in DOMAIN n.path : ~hasPathPrefix(p, newPath)
    BY <2>4 DEF Without
  <2> HIDE DEF n
  <2> QED BY <2>1, <2>2, <2>5, DetachSubtreesRight
<1>2. CASE ~\E p \in DOMAIN t.path : hasPathPrefix(p, newPath) /\ ~hasPathPrefix(p, oldPath)
  BY <1>2 DEF clearDestination, RightResult
<1> QED BY <1>1, <1>2

LEMMA ReleaseRenamedRight ==
  ASSUME NEW t, NEW oldPath, Right(t)
  PROVE  LET r == releaseRenamed(t, oldPath)
         IN  /\ Paired(r.tbl) /\ (r.tbl.panicked => t.panicked)
             /\ DOMAIN r.tbl.wd = DOMAIN t.wd \ r.wds
             /\ FlagsBut(r.tbl, Within(r.tbl, oldPath))
             /\ DOMAIN r.tbl.path \subseteq DOMAIN t.path
<1> DEFINE InOld(p) == hasPathPrefix(p, oldPath)
           users  == Targeting(t, InOld)
           t0     == ForgetUsers(t, users)
           others == {p \in DOMAIN t.owners : ~InOld(p)}
           own    == [p \in DOMAIN t0.owners |->
                        IF p \in others THEN t0.owners[p] \ users ELSE t0.owners[p]]
           t2     == [t0 EXCEPT !.owners = own]
           unused == {p \in others : t2.owners[p] = {}}
           fl     == others \ unused
           wds    == {PathWd(t, p) : p \in unused}
           n      == Shed(t0, own, fl, unused, wds)
           ex     == Within(t, oldPath)
<1>1. /\ IsTable(t) /\ PathsSound(t) /\ Paired(t) /\ FlagsBut(t, {}) /\ NoWd \notin DOMAIN t.wd
      /\ OwnedIsListed(t)
  BY DEF Right, TableSound
<1>2. CASE users = {}
  BY <1>1, <1>2 DEF releaseRenamed, FlagsBut
<1>3. CASE users # {}
  <2>1. releaseRenamed(t, oldPath).tbl = n /\ releaseRenamed(t, oldPath).wds = wds
    BY <1>3 DEF releaseRenamed, Shed
  <2>2. /\ \A p \in DOMAIN t.path : p \in DOMAIN t.owners /\ p \notin ex => p \in others
        /\ others \subseteq DOMAIN t.owners
    BY DEF Within
  <2>3. \A p \in ex : p \in DOMAIN t.path /\ hasPathPrefix(p, oldPath)
    BY DEF Within
  <2> HIDE DEF users, others, ex
  <2>4. /\ IsTable(t0) /\ PathsSound(t0) /\ UsersWithout(t, t0, users)
        /\ t0.path = t.path /\ t0.owners = t.owners /\ t0.wd = t.wd /\ t0.panicked = t.panicked
    <3>1. t0.panicked = t.panicked
      BY <1>1 DEF ForgetUsers, IsTable
    <3> QED BY <1>1, <3>1, ForgottenUsers, ForgetUsersIs
  <2> HIDE DEF t0
  <2>5. \A p \in DOMAIN t.path : p \in unused <=> t.path[p] \in wds
    <3> HIDE DEF unused
    <3> QED BY <1>1, WdsOfPaths
  <2>6. ASSUME NEW p \in DOMAIN t.path
        PROVE  \/ p \in fl \cup unused \cup ex
               \/ OwnersIn(own, p) = OwnersOf(t, p) /\ OwnersOf(t, p) \cap users = {}
    <3>1. CASE p \notin DOMAIN t.owners
      BY <2>4, <3>1 DEF OwnersIn, OwnersOf
    <3>2. CASE p \in DOMAIN t.owners /\ p \notin ex
      <4>1. p \in others
        BY <2>2, <3>2
      <4> QED BY <4>1
    <3> QED BY <3>1, <3>2
  <2> HIDE DEF own, fl, unused, wds
  <2>7. FlagsBut(t, ex)
    BY <1>1 DEF FlagsBut
  <2>8. /\ Paired(n) /\ (n.panicked => t.panicked) /\ DOMAIN n.wd = DOMAIN t.wd \ wds
        /\ FlagsBut(n, ex)
    BY <1>1, <2>4, <2>5, <2>6, <2>7, ShedPaired
  <2>9. n.path = Without(t.path, unused)
    BY <2>4, ShedIs
  <2> HIDE DEF n
  <2>10. DOMAIN n.path \subseteq DOMAIN t.path
    BY <2>9 DEF Without
  <2>11. FlagsBut(n, Within(n, oldPath))
    BY <2>3, <2>8 DEF FlagsBut, Within, Paired
  <2> QED BY <2>1, <2>8, <2>10, <2>11
<1> QED BY <1>2, <1>3

(* The listed paths move together, to places that are free. *)
LEMMA MoveWatchesRight ==
  ASSUME NEW t, NEW oldPath, NEW newPath, NEW newOwners,
         IsTable(t), PathsSound(t), Paired(t), FlagsBut(t, Within(t, oldPath)),
         IsPath(oldPath), IsPath(newPath),
         \A p \in DOMAIN t.path : hasPathPrefix(p, newPath) => hasPathPrefix(p, oldPath)
  PROVE  LET r == moveWatches(t, oldPath, newPath, newOwners)
         IN  /\ Paired(r.tbl) /\ (r.tbl.panicked => t.panicked)
             /\ DOMAIN r.tbl.wd = DOMAIN t.wd \ r.wds
             /\ FlagsBut(r.tbl, {})
<1> DEFINE moved  == {p \in DOMAIN t.path : hasPathPrefix(p, oldPath)}
           wds    == {t.path[p] : p \in moved}
           To(p)  == Rebased(p, oldPath, newPath)
           From(d) == CHOOSE p \in moved : t.path[p] = d
           landed == {To(p) : p \in moved}
           Origin(q) == CHOOSE p \in moved : To(p) = q
           path1  == Without(t.path, moved)
           own1   == Without(t.owners, moved)
           wd1    == Without(t.wd, wds)
           path2  == PutAll(path1, [q \in landed |-> t.path[Origin(q)]])
           own2   == PutAll(own1, [q \in landed |-> newOwners])
           wd2    == [d \in DOMAIN t.wd |->
                        IF d \in wds THEN [t.wd[d] EXCEPT !.path = To(From(d))] ELSE t.wd[d]]
           pan2   == t.panicked \/ wds \ DOMAIN t.wd # {}
           n1     == [t EXCEPT !.path = path1, !.owners = own1, !.wd = wd1]
           t2     == [t EXCEPT !.path = path2, !.owners = own2, !.wd = wd2, !.panicked = pan2]
           n2     == updateFlags(t2, landed)
<1>1. moved = Within(t, oldPath)
  BY DEF Within
<1>2. \A p \in moved : p \in DOMAIN t.path /\ t.path[p] \in wds /\ t.path[p] \in DOMAIN t.wd
  BY DEF Paired
<1>3. \A d \in wds : d \in DOMAIN t.wd /\ t.wd[d].path \in moved /\ t.path[t.wd[d].path] = d
  BY DEF Paired
<1>4. \A d \in DOMAIN t.wd \ wds : t.wd[d].path \in DOMAIN t.path \ moved
  BY DEF Paired
<1>5. /\ DOMAIN path1 = DOMAIN t.path \ moved /\ \A p \in DOMAIN path1 : path1[p] = t.path[p]
      /\ DOMAIN own1 = DOMAIN t.owners \ moved /\ \A p \in DOMAIN own1 : own1[p] = t.owners[p]
      /\ DOMAIN wd1 = DOMAIN t.wd \ wds /\ \A d \in DOMAIN wd1 : wd1[d] = t.wd[d]
  BY DEF Without
<1>6. CASE newOwners = {}
  <2>1. /\ moveWatches(t, oldPath, newPath, newOwners).tbl = n1
        /\ moveWatches(t, oldPath, newPath, newOwners).wds = wds
    BY <1>6 DEF moveWatches, IsTable
  <2> HIDE DEF path1, own1, wd1, moved, wds
  <2>2. /\ n1.path = path1 /\ n1.owners = own1 /\ n1.wd = wd1 /\ n1.panicked = t.panicked
        /\ n1.recurse = t.recurse /\ n1.target = t.target
    BY DEF IsTable
  <2> HIDE DEF n1
  <2>3. \A p \in DOMAIN t.path \ moved : FlagsOf(n1, p) = FlagsOf(t, p)
    <3>1. \A p \in DOMAIN t.path \ moved : OwnersOf(n1, p) = OwnersOf(t, p)
      BY <1>5, <2>2 DEF OwnersOf
    <3> QED BY <2>2, <3>1, SameFlags
  <2>4. FlagsBut(n1, {})
    BY <1>1, <1>4, <1>5, <2>2, <2>3 DEF FlagsBut
  <2>5. Paired(n1)
    <3>1. \A p \in DOMAIN t.path \ moved : t.path[p] \notin wds
      BY <1>3 DEF Paired
    <3> QED BY <1>4, <1>5, <2>2, <3>1 DEF Paired
  <2> QED BY <1>5, <2>1, <2>2, <2>4, <2>5
<1>7. CASE newOwners # {}
  <2>1. /\ moveWatches(t, oldPath, newPath, newOwners).tbl = n2
        /\ moveWatches(t, oldPath, newPath, newOwners).wds = {}
    BY <1>7 DEF moveWatches, IsTable
  <2>2. \A p \in moved : IsPath(p) /\ IsPath(To(p)) /\ hasPathPrefix(To(p), newPath)
    BY RebasedUnder, RebasedPrefix DEF PathsSound
  <2>3. \A p, q \in moved : To(p) = To(q) => p = q
    BY RebasedOnce DEF PathsSound
  <2>4. \A q \in landed : q \notin DOMAIN path1 /\ IsPath(q)
    BY <1>5, <2>2
  <2>5. \A p \in moved : To(p) \in landed /\ Origin(To(p)) = p
    BY <2>3
  <2>6. \A q \in landed : Origin(q) \in moved /\ To(Origin(q)) = q
    OBVIOUS
  <2>7. \A d \in wds : From(d) = t.wd[d].path
    BY <1>3 DEF Paired
  <2>8. /\ DOMAIN path2 = DOMAIN path1 \cup landed
        /\ \A q \in landed : path2[q] = t.path[Origin(q)]
        /\ \A q \in DOMAIN path1 : path2[q] = t.path[q]
    BY <1>5, <2>4 DEF PutAll
  <2>9. \A q : q \notin landed => OwnersIn(own2, q) = OwnersIn(own1, q)
    BY DEF OwnersIn, PutAll
  <2>10. DOMAIN wd2 = DOMAIN t.wd
    OBVIOUS
  <2>11. ASSUME NEW d \in DOMAIN t.wd
         PROVE  /\ IsWatch(wd2[d]) /\ IsPath(wd2[d].path)
                /\ d \in wds => wd2[d].path = To(t.wd[d].path)
                /\ d \notin wds => wd2[d] = t.wd[d]
    <3>1. IsWatch(t.wd[d]) /\ IsPath(t.wd[d].path)
      BY DEF PathsSound
    <3>2. CASE d \in wds
      <4>1. wd2[d] = [t.wd[d] EXCEPT !.path = To(t.wd[d].path)]
        BY <2>7, <3>2
      <4>2. IsPath(To(t.wd[d].path))
        BY <1>3, <2>2, <3>2
      <4> HIDE DEF To, From, wd2
      <4> QED BY <3>1, <3>2, <4>1, <4>2 DEF IsWatch
    <3>3. CASE d \notin wds
      BY <3>1, <3>3
    <3> QED BY <3>2, <3>3
  <2>12. pan2 => t.panicked
    BY <1>3
  <2> HIDE DEF path2, own2, wd2, pan2, To, From, Origin
  <2>13. /\ IsTable(t2) /\ t2.path = path2 /\ t2.owners = own2 /\ t2.wd = wd2 /\ t2.panicked = pan2
         /\ t2.recurse = t.recurse /\ t2.target = t.target
    BY DEF IsTable
  <2> HIDE DEF t2, path1, own1, moved, wds, landed
  <2>14. PathsSound(t2)
    <3>1. \A p \in DOMAIN path1 : IsPath(p)
      BY <1>5 DEF PathsSound
    <3> QED BY <2>4, <2>8, <2>10, <2>11, <2>13, <3>1 DEF PathsSound
  <2>15. Paired(t2)
    <3>1. ASSUME NEW p \in DOMAIN path2
          PROVE  path2[p] \in DOMAIN wd2 /\ wd2[path2[p]].path = p
      <4>1. CASE p \in landed
        <5>1. path2[p] = t.path[Origin(p)] /\ Origin(p) \in moved /\ To(Origin(p)) = p
          BY <2>6, <2>8, <4>1
        <5>2. path2[p] \in wds /\ path2[p] \in DOMAIN t.wd /\ t.wd[path2[p]].path = Origin(p)
          BY <1>2, <5>1 DEF Paired
        <5> QED BY <2>10, <2>11, <5>1, <5>2
      <4>2. CASE p \in DOMAIN path1
        <5>1. path2[p] = t.path[p] /\ p \in DOMAIN t.path /\ p \notin moved
          BY <1>5, <2>8, <4>2
        <5>2. path2[p] \in DOMAIN t.wd /\ t.wd[path2[p]].path = p /\ path2[p] \notin wds
          BY <1>3, <5>1 DEF Paired
        <5> QED BY <2>10, <2>11, <5>2
      <4> QED BY <2>8, <3>1, <4>1, <4>2
    <3>2. ASSUME NEW d \in DOMAIN wd2
          PROVE  wd2[d].path \in DOMAIN path2 /\ path2[wd2[d].path] = d
      <4>1. CASE d \in wds
        <5>1. t.wd[d].path \in moved /\ t.path[t.wd[d].path] = d /\ wd2[d].path = To(t.wd[d].path)
          BY <1>3, <2>10, <2>11, <3>2, <4>1
        <5>2. wd2[d].path \in landed /\ Origin(wd2[d].path) = t.wd[d].path
          BY <2>5, <5>1
        <5> QED BY <2>8, <5>1, <5>2
      <4>2. CASE d \notin wds
        <5>1. wd2[d] = t.wd[d] /\ t.wd[d].path \in DOMAIN path1 /\ t.path[t.wd[d].path] = d
          BY <1>4, <1>5, <2>10, <2>11, <3>2, <4>2 DEF Paired
        <5> QED BY <2>8, <5>1
      <4> QED BY <4>1, <4>2
    <3> QED BY <2>13, <3>1, <3>2 DEF Paired
  <2>16. FlagsBut(t2, landed \cup {})
    <3> SUFFICES ASSUME NEW d \in DOMAIN wd2, wd2[d].path \notin landed
                 PROVE  FlagsIn(wd2[d]) = FlagsOf(t2, wd2[d].path)
      BY <2>13 DEF FlagsBut
    <3> DEFINE p == t.wd[d].path
    <3>1. d \notin wds
      BY <1>3, <2>5, <2>10, <2>11
    <3>2. wd2[d] = t.wd[d] /\ p \in DOMAIN t.path \ moved
      BY <1>4, <2>10, <2>11, <3>1
    <3>3. FlagsIn(t.wd[d]) = FlagsOf(t, p)
      BY <1>1, <2>10, <3>2 DEF FlagsBut
    <3>4. OwnersOf(t2, p) = OwnersOf(t, p)
      BY <1>5, <2>9, <2>13, <3>2 DEF OwnersOf, OwnersIn
    <3> HIDE DEF p
    <3>5. FlagsOf(t2, p) = FlagsOf(t, p)
      BY <2>13, <3>4, SameFlags
    <3> QED BY <3>2, <3>3, <3>5 DEF p
  <2>17. /\ Paired(n2) /\ (n2.panicked => t2.panicked) /\ DOMAIN n2.wd = DOMAIN t2.wd
         /\ FlagsBut(n2, {})
    BY <2>13, <2>14, <2>15, <2>16, UpdateFlagsPaired
  <2> HIDE DEF n2
  <2> QED BY <2>1, <2>10, <2>12, <2>13, <2>17
<1> QED BY <1>6, <1>7

LEMMA RebaseRight ==
  ASSUME NEW t, NEW oldPath, NEW newPath, NEW us, Right(t),
         IsPath(oldPath), IsPath(newPath), \A u \in us : Under(newPath, u)
  PROVE  LET r == rebase(t, oldPath, newPath, us)
         IN  RightResult(t, r.tbl, r.wds)
<1> DEFINE cleared  == clearDestination(t, oldPath, newPath)
           released == releaseRenamed(cleared.tbl, oldPath)
           owners   == us \cap released.tbl.recurse
           moved    == moveWatches(released.tbl, oldPath, newPath, owners)
           r        == rebase(t, oldPath, newPath, us)
<1>1. r.tbl = moved.tbl /\ r.wds = cleared.wds \cup released.wds \cup moved.wds
  BY DEF rebase, cleared, released
<1>2. TableSound(r.tbl)
  BY RebaseSound DEF Right
<1>3. /\ RightResult(t, cleared.tbl, cleared.wds)
      /\ \A p \in DOMAIN cleared.tbl.path : hasPathPrefix(p, newPath) => hasPathPrefix(p, oldPath)
  BY ClearDestinationRight
<1> HIDE DEF cleared, r
<1>4. Right(cleared.tbl) /\ TableSound(cleared.tbl)
  BY <1>3 DEF RightResult, Right
<1>5. /\ Paired(released.tbl) /\ (released.tbl.panicked => cleared.tbl.panicked)
      /\ DOMAIN released.tbl.wd = DOMAIN cleared.tbl.wd \ released.wds
      /\ FlagsBut(released.tbl, Within(released.tbl, oldPath))
      /\ DOMAIN released.tbl.path \subseteq DOMAIN cleared.tbl.path
  BY <1>4, ReleaseRenamedRight
<1>6. SoundBut(released.tbl, oldPath)
  BY <1>4, ReleaseRenamedSound
<1> HIDE DEF released
<1>7. /\ Paired(moved.tbl) /\ (moved.tbl.panicked => released.tbl.panicked)
      /\ DOMAIN moved.tbl.wd = DOMAIN released.tbl.wd \ moved.wds
      /\ FlagsBut(moved.tbl, {})
  BY <1>3, <1>5, <1>6, MoveWatchesRight DEF SoundBut
<1> HIDE DEF moved
<1> QED BY <1>1, <1>2, <1>3, <1>5, <1>7 DEF Right, RightResult, r

-----------------------------------------------------------------------------
(* Users that own their own path.                                          *)
-----------------------------------------------------------------------------
UsersOwn(t, ex) == \A u \in t.byUser \ ex : u \in DOMAIN t.owners /\ u \in t.owners[u]

(* A user that stays keeps its path, so it owns it still. *)
LEMMA ShedUsersOwn ==
  ASSUME NEW t, NEW us, NEW own, NEW fl, NEW ps, NEW ds, IsTable(t), UsersOwn(t, {}),
         \A u \in t.byUser \ us : u \in DOMAIN t.owners /\ u \in t.owners[u]
                                    => u \in DOMAIN own \ ps /\ u \in own[u]
  PROVE  UsersOwn(Shed(ForgetUsers(t, us), own, fl, ps, ds), {})
<1> DEFINE t0 == ForgetUsers(t, us)
           n  == Shed(t0, own, fl, ps, ds)
<1>1. IsTable(t0) /\ t0.byUser = t.byUser \ us
  BY ForgetUsersIs
<1> HIDE DEF t0
<1>2. n.byUser = t0.byUser /\ n.owners = Without(own, ps)
  BY <1>1, ShedIs
<1> HIDE DEF n
<1> QED BY <1>1, <1>2 DEF UsersOwn, Without, n, t0

LEMMA ReleaseOwnerUsersOwn ==
  ASSUME NEW t, NEW u, IsTable(t), UsersOwn(t, {u})
  PROVE  UsersOwn(releaseOwner(t, u).tbl, {})
<1> DEFINE n   == releaseOwner(t, u).tbl
           own == Disowned(t.owners, u)
<1>1. n.byUser = t.byUser \ {u} /\ n.owners = Without(own, Empty(own))
  BY ReleaseOwnerIs
<1>2. \A v \in t.byUser \ {u} : v \in DOMAIN own \ Empty(own) /\ v \in own[v]
  BY DEF UsersOwn, Disowned, Empty
<1> HIDE DEF n, own
<1> QED BY <1>1, <1>2 DEF UsersOwn, Without, n

LEMMA DetachSubtreesUsersOwn ==
  ASSUME NEW t, NEW roots, TableSound(t), UsersOwn(t, {})
  PROVE  LET n == detachSubtrees(t, roots).tbl
         IN  /\ UsersOwn(n, {})
             /\ \A u \in n.byUser : ~\E r \in roots : hasPathPrefix(u, r)
<1> DEFINE InRoots(p) == \E root \in roots : hasPathPrefix(p, root)
           users == Targeting(t, InRoots)
           hit   == {p \in DOMAIN t.owners : t.owners[p] \cap users # {} /\ ~InRoots(p)}
           t0    == ForgetUsers(t, users)
           own   == [p \in DOMAIN t0.owners |-> t0.owners[p] \ users]
           ps    == {p \in DOMAIN t.path : InRoots(p)}
           wds   == {t.path[p] : p \in ps}
           n     == Shed(t0, own, hit, ps, wds)
<1>1. detachSubtrees(t, roots).tbl = n
  BY DEF detachSubtrees, Shed
<1>2. \A u \in t.byUser : InRoots(u) => u \in users
  BY DEF Targeting, TableSound, UsersSound
<1>3. \A p \in ps : InRoots(p)
  OBVIOUS
<1> HIDE DEF users, hit, ps, wds, InRoots
<1>4. IsTable(t0) /\ t0.owners = t.owners /\ t0.byUser = t.byUser \ users
  BY ForgetUsersIs DEF TableSound
<1>5. UsersOwn(n, {})
  <2>1. \A u \in t.byUser \ users : u \in DOMAIN t.owners /\ u \in t.owners[u]
                                      => u \in DOMAIN own \ ps /\ u \in own[u]
    BY <1>2, <1>3, <1>4
  <2> HIDE DEF own
  <2> QED BY <2>1, ShedUsersOwn DEF TableSound
<1>6. n.byUser = t0.byUser
  BY <1>4, ShedIs
<1> HIDE DEF n
<1> QED BY <1>1, <1>2, <1>4, <1>5, <1>6 DEF InRoots

LEMMA RemoveUsersOwn ==
  ASSUME NEW t, NEW d, TableSound(t), UsersOwn(t, {})
  PROVE  UsersOwn(remove(t, d), {})
<1> DEFINE p    == t.wd[d].path
           gone == {u \in OwnersOf(t, p) : u \in DOMAIN t.target /\ t.target[u] = p}
           t0   == ForgetUsers(t, gone)
           t1   == ForgetPaths(t0, {p}, {d})
           hit  == {q \in DOMAIN t1.owners : t1.owners[q] \cap gone # {}}
           kept == {q \in DOMAIN t1.owners : q \in hit => ~(t1.owners[q] \subseteq gone)}
           own  == [q \in kept |-> t1.owners[q] \ gone]
           t2   == [t1 EXCEPT !.owners = own]
           n    == updateFlags(t2, hit)
<1>1. remove(t, d) = n
  BY DEF remove
<1>2. \A u \in t.byUser : u = p => u \in gone
  BY DEF UsersOwn, OwnersOf, TableSound, UsersSound
<1> HIDE DEF gone, p
<1>3. IsTable(t0) /\ t0.owners = t.owners /\ t0.byUser = t.byUser \ gone
  BY ForgetUsersIs DEF TableSound
<1> HIDE DEF t0
<1>4. IsTable(t1) /\ t1.byUser = t0.byUser /\ t1.owners = Without(t.owners, {p})
  BY <1>3, ForgetPathsIs
<1> HIDE DEF t1
<1>5. ASSUME NEW u \in t.byUser \ gone
      PROVE  u \in DOMAIN own /\ u \in own[u]
  <2>1. u \in DOMAIN t.owners /\ u \in t.owners[u] /\ u # p
    BY <1>2, <1>5 DEF UsersOwn
  <2>2. u \in DOMAIN t1.owners /\ u \in t1.owners[u]
    BY <1>4, <2>1 DEF Without
  <2> QED BY <1>5, <2>2
<1> HIDE DEF own, hit, kept
<1>6. IsTable(t2) /\ t2.owners = own /\ t2.byUser = t1.byUser
  BY <1>4, WithOwnersIs
<1> HIDE DEF t2
<1>7. SameOwnership(t2, n)
  BY <1>6, UpdateFlagsIs
<1> HIDE DEF n
<1> QED BY <1>1, <1>3, <1>4, <1>5, <1>6, <1>7 DEF UsersOwn, SameOwnership

LEMMA AddUserUsersOwn ==
  ASSUME NEW t, NEW p, NEW r, IsTable(t), UsersOwn(t, {})
  PROVE  UsersOwn(addUser(t, p, r), {p})
<1> DEFINE n       == addUser(t, p, r)
           target  == Put(t.target, p, p)
           recurse == IF r THEN t.recurse \cup {p} ELSE t.recurse
<1>1. n = [t EXCEPT !.byUser = t.byUser \cup {p}, !.target = target, !.recurse = recurse]
  BY DEF addUser
<1> HIDE DEF n, target, recurse
<1>2. n.byUser = t.byUser \cup {p} /\ n.owners = t.owners
  BY <1>1 DEF IsTable
<1> QED BY <1>2 DEF UsersOwn, n

(* register only adds owners; if its path ends up listed it adds them all. *)
LEMMA RegisterUsersOwn ==
  ASSUME NEW t, NEW p, NEW d, NEW us, NEW ex, TableSound(t), Full(t), IsPath(p), UsersOwn(t, ex)
  PROVE  LET n == register(t, p, d, us)
         IN  /\ UsersOwn(n, ex)
             /\ p \in us /\ p \in DOMAIN n.path => UsersOwn(n, ex \ {p})
<1> DEFINE n == register(t, p, d, us)
           O == OwnersOf(t, p)
<1>1. /\ n.byUser = t.byUser
      /\ \/ n.owners = t.owners /\ (us # {} => p \notin DOMAIN n.path)
         \/ n.owners = Put(t.owners, p, O \cup us)
  <2>1. /\ Full(n) /\ n.byUser = t.byUser /\ n.recurse = t.recurse /\ n.target = t.target
        /\ \/ n.owners = t.owners /\ (us # {} => p \notin DOMAIN n.path)
           \/ /\ us # {} /\ n.owners = Put(t.owners, p, O \cup us)
              /\ n.panicked \/ Watched(n, p)
    BY RegisterIs, Zenon
  <2> QED BY <2>1
<1>2. p \in DOMAIN t.owners => O = t.owners[p]
  BY DEF OwnersOf
<1> HIDE DEF n, O
<1>3. CASE n.owners = t.owners /\ (us # {} => p \notin DOMAIN n.path)
  BY <1>1, <1>3 DEF UsersOwn, n
<1>4. CASE n.owners = Put(t.owners, p, O \cup us)
  <2>1. \A u \in DOMAIN t.owners : u \in DOMAIN n.owners /\ t.owners[u] \subseteq n.owners[u]
    BY <1>2, <1>4 DEF Put
  <2>2. p \in DOMAIN n.owners /\ us \subseteq n.owners[p]
    BY <1>4 DEF Put
  <2> QED BY <1>1, <2>1, <2>2 DEF UsersOwn, n
<1> QED BY <1>1, <1>3, <1>4

LEMMA ReleaseRenamedUsersOwn ==
  ASSUME NEW t, NEW oldPath, TableSound(t), UsersOwn(t, {})
  PROVE  LET n == releaseRenamed(t, oldPath).tbl
         IN  /\ UsersOwn(n, {}) /\ n.byUser \subseteq t.byUser
             /\ \A u \in n.byUser : ~hasPathPrefix(u, oldPath)
<1> DEFINE InOld(p) == hasPathPrefix(p, oldPath)
           users  == Targeting(t, InOld)
           t0     == ForgetUsers(t, users)
           others == {p \in DOMAIN t.owners : ~InOld(p)}
           own    == [p \in DOMAIN t0.owners |->
                        IF p \in others THEN t0.owners[p] \ users ELSE t0.owners[p]]
           t2     == [t0 EXCEPT !.owners = own]
           unused == {p \in others : t2.owners[p] = {}}
           fl     == others \ unused
           wds    == {PathWd(t, p) : p \in unused}
           n      == Shed(t0, own, fl, unused, wds)
<1>1. \A u \in t.byUser : hasPathPrefix(u, oldPath) => u \in users
  BY DEF Targeting, TableSound, UsersSound
<1>2. CASE users = {}
  BY <1>1, <1>2 DEF releaseRenamed
<1>3. CASE users # {}
  <2>1. releaseRenamed(t, oldPath).tbl = n
    BY <1>3 DEF releaseRenamed, Shed
  <2> HIDE DEF users, others
  <2>2. IsTable(t0) /\ t0.owners = t.owners /\ t0.byUser = t.byUser \ users
    BY ForgetUsersIs DEF TableSound
  <2>3. t2.owners = own
    BY <2>2, WithOwnersIs
  <2> HIDE DEF t2
  <2>4. \A u \in t.byUser \ users : u \in DOMAIN t.owners /\ u \in t.owners[u]
                                      => u \in DOMAIN own \ unused /\ u \in own[u]
    BY <2>2, <2>3
  <2> HIDE DEF own, fl, unused, wds
  <2>5. UsersOwn(n, {})
    BY <2>4, ShedUsersOwn DEF TableSound
  <2>6. n.byUser = t0.byUser
    BY <2>2, ShedIs
  <2> HIDE DEF n
  <2> QED BY <1>1, <2>1, <2>2, <2>5, <2>6
<1> QED BY <1>2, <1>3

(* What moves, moves from where no user is to where no user is. *)
LEMMA MoveWatchesUsersOwn ==
  ASSUME NEW t, NEW oldPath, NEW newPath, NEW newOwners, IsTable(t), PathsSound(t), UsersOwn(t, {}),
         IsPath(oldPath), IsPath(newPath),
         \A u \in t.byUser : ~hasPathPrefix(u, oldPath) /\ ~hasPathPrefix(u, newPath)
  PROVE  UsersOwn(moveWatches(t, oldPath, newPath, newOwners).tbl, {})
<1> DEFINE moved  == {p \in DOMAIN t.path : hasPathPrefix(p, oldPath)}
           wds    == {t.path[p] : p \in moved}
           To(p)  == Rebased(p, oldPath, newPath)
           From(d) == CHOOSE p \in moved : t.path[p] = d
           landed == {To(p) : p \in moved}
           Origin(q) == CHOOSE p \in moved : To(p) = q
           path1  == Without(t.path, moved)
           own1   == Without(t.owners, moved)
           wd1    == Without(t.wd, wds)
           path2  == PutAll(path1, [q \in landed |-> t.path[Origin(q)]])
           own2   == PutAll(own1, [q \in landed |-> newOwners])
           wd2    == [d \in DOMAIN t.wd |->
                        IF d \in wds THEN [t.wd[d] EXCEPT !.path = To(From(d))] ELSE t.wd[d]]
           pan2   == t.panicked \/ wds \ DOMAIN t.wd # {}
           n1     == [t EXCEPT !.path = path1, !.owners = own1, !.wd = wd1]
           t2     == [t EXCEPT !.path = path2, !.owners = own2, !.wd = wd2, !.panicked = pan2]
           n2     == updateFlags(t2, landed)
<1>1. \A u \in t.byUser : u \notin moved /\ u \notin landed
  BY RebasedPrefix DEF PathsSound
<1> HIDE DEF moved
<1>2. \A u \in t.byUser : u \in DOMAIN own1 /\ u \in own1[u]
  BY <1>1 DEF UsersOwn, Without
<1>3. CASE newOwners = {}
  <2>1. moveWatches(t, oldPath, newPath, newOwners).tbl = n1
    BY <1>3 DEF moveWatches, IsTable, moved
  <2> HIDE DEF path1, own1, wd1
  <2>2. n1.owners = own1 /\ n1.byUser = t.byUser
    BY DEF IsTable
  <2> QED BY <1>2, <2>1, <2>2 DEF UsersOwn
<1>4. CASE newOwners # {}
  <2>1. moveWatches(t, oldPath, newPath, newOwners).tbl = n2
    BY <1>4 DEF moveWatches, IsTable, moved
  <2> HIDE DEF own1, landed
  <2>2. \A u \in t.byUser : u \in DOMAIN own2 /\ u \in own2[u]
    BY <1>1, <1>2 DEF PutAll
  <2> HIDE DEF path2, own2, wd2, pan2
  <2>3. IsTable(t2) /\ t2.owners = own2 /\ t2.byUser = t.byUser
    BY DEF IsTable
  <2> HIDE DEF t2
  <2>4. SameOwnership(t2, n2)
    BY <2>3, UpdateFlagsIs
  <2> QED BY <2>1, <2>2, <2>3, <2>4 DEF UsersOwn, SameOwnership
<1> QED BY <1>3, <1>4

(* rebase: the users of the destination and of what moved are gone before  *)
(* a watch changes its path.                                               *)
LEMMA RebaseUsersOwn ==
  ASSUME NEW t, NEW oldPath, NEW newPath, NEW us, TableSound(t), UsersOwn(t, {}),
         IsPath(oldPath), IsPath(newPath)
  PROVE  UsersOwn(rebase(t, oldPath, newPath, us).tbl, {})
<1> DEFINE cleared  == clearDestination(t, oldPath, newPath)
           released == releaseRenamed(cleared.tbl, oldPath)
           owners   == us \cap released.tbl.recurse
           moved    == moveWatches(released.tbl, oldPath, newPath, owners)
<1>1. rebase(t, oldPath, newPath, us).tbl = moved.tbl
  BY DEF rebase, cleared, released
<1>2. /\ TableSound(cleared.tbl) /\ UsersOwn(cleared.tbl, {})
      /\ \A u \in cleared.tbl.byUser : hasPathPrefix(u, newPath) => hasPathPrefix(u, oldPath)
  <2>1. TableSound(cleared.tbl)
    BY ClearDestinationSound
  <2>2. CASE \E p \in DOMAIN t.path : hasPathPrefix(p, newPath) /\ ~hasPathPrefix(p, oldPath)
    <3>1. cleared = detachSubtrees(t, {newPath})
      BY <2>2 DEF clearDestination, detachSubtree
    <3> HIDE DEF cleared
    <3>2. /\ UsersOwn(cleared.tbl, {})
          /\ \A u \in cleared.tbl.byUser : ~\E r \in {newPath} : hasPathPrefix(u, r)
      BY <3>1, DetachSubtreesUsersOwn
    <3> QED BY <2>1, <3>2 DEF cleared
  <2>3. CASE ~\E p \in DOMAIN t.path : hasPathPrefix(p, newPath) /\ ~hasPathPrefix(p, oldPath)
    <3>1. cleared.tbl = t
      BY <2>3 DEF clearDestination
    <3>2. t.byUser \subseteq DOMAIN t.path
      BY DEF UsersOwn, TableSound, OwnedIsListed
    <3> QED BY <2>3, <3>1, <3>2
  <2> QED BY <2>2, <2>3
<1> HIDE DEF cleared
<1>3. /\ UsersOwn(released.tbl, {}) /\ released.tbl.byUser \subseteq cleared.tbl.byUser
      /\ \A u \in released.tbl.byUser : ~hasPathPrefix(u, oldPath)
  BY <1>2, ReleaseRenamedUsersOwn
<1>4. SoundBut(released.tbl, oldPath)
  BY <1>2, ReleaseRenamedSound
<1> HIDE DEF released
<1>5. UsersOwn(moved.tbl, {})
  BY <1>2, <1>3, <1>4, MoveWatchesUsersOwn DEF SoundBut
<1> QED BY <1>1, <1>5

(* Unless its descriptor is that of a watch under another path, a path     *)
(* that is registered is listed.                                           *)
LEMMA RegisterLists ==
  ASSUME NEW t, NEW p, NEW d, NEW us, Right(t), IsPath(p),
         d \in DOMAIN t.wd => t.wd[d].path = p
  PROVE  p \in DOMAIN register(t, p, d, us).path
<1> DEFINE old   == PathWd(t, p)
           fresh == [path |-> p, byUser |-> FALSE, recurse |-> FALSE]
           upd   == IF d \in DOMAIN t.wd THEN t.wd[d]
                    ELSE IF old \in DOMAIN t.wd THEN t.wd[old] ELSE fresh
           wd    == Without(Put(t.wd, d, upd), {old} \ {d})
           path  == Put(t.path, upd.path, d)
           t1    == updatePath(t, p, d)
           own   == Put(t1.owners, p, OwnersOf(t1, p) \cup us)
           t2    == [t1 EXCEPT !.owners = own]
           n     == register(t, p, d, us)
<1>1. old \in DOMAIN t.wd => t.wd[old].path = p
  BY DEF PathWd, Right, Paired
<1>2. upd.path = p
  BY <1>1
<1>3. t1 = [t EXCEPT !.wd = wd, !.path = path]
  BY DEF updatePath
<1> HIDE DEF upd, wd, t1
<1>4. t1.path = path
  BY <1>3 DEF Right, TableSound, IsTable
<1>5. p \in DOMAIN t1.path
  BY <1>2, <1>4 DEF Put
<1>6. IsTable(t1)
  BY UpdatePathSound DEF Right, TableSound, t1
<1>7. n = IF us = {} THEN t1 ELSE updateFlags(t2, {p})
  BY <1>5 DEF register, addOwners, t1
<1> HIDE DEF own, n
<1>8. IsTable(t2) /\ t2.path = t1.path
  BY <1>6, WithOwnersIs
<1> HIDE DEF t2
<1>9. updateFlags(t2, {p}).path = t2.path
  BY <1>8, UpdateFlagsIs DEF SameOwnership
<1> QED BY <1>5, <1>7, <1>8, <1>9 DEF n

-----------------------------------------------------------------------------
(* Tables in which every listed path is owned.                             *)
-----------------------------------------------------------------------------
Owned(t) == DOMAIN t.path \subseteq DOMAIN t.owners

(* What the releasing methods drop goes from both maps. *)
LEMMA ShedOwned ==
  ASSUME NEW t, NEW us, NEW own, NEW fl, NEW ps, NEW ds, IsTable(t), Owned(t),
         DOMAIN t.owners \subseteq DOMAIN own
  PROVE  Owned(Shed(ForgetUsers(t, us), own, fl, ps, ds))
<1> DEFINE t0 == ForgetUsers(t, us)
           n  == Shed(t0, own, fl, ps, ds)
<1>1. IsTable(t0) /\ t0.path = t.path
  BY ForgetUsersIs
<1> HIDE DEF t0
<1>2. n.path = Without(t0.path, ps) /\ n.owners = Without(own, ps)
  BY <1>1, ShedIs
<1> HIDE DEF n
<1> QED BY <1>1, <1>2 DEF Owned, Without, n, t0

LEMMA ReleaseOwnerOwned ==
  ASSUME NEW t, NEW u, IsTable(t), Owned(t)
  PROVE  Owned(releaseOwner(t, u).tbl)
<1> DEFINE t0     == ForgetUsers(t, {u})
           own    == [p \in DOMAIN t0.owners |-> t0.owners[p] \ {u}]
           t1     == [t0 EXCEPT !.owners = own]
           unused == {p \in DOMAIN t1.owners : t1.owners[p] = {}}
           fl     == DOMAIN t1.owners \ unused
           wds    == {PathWd(t, p) : p \in unused}
           n      == Shed(t0, own, fl, unused, wds)
<1>1. releaseOwner(t, u).tbl = n
  BY DEF releaseOwner, Shed
<1>2. t0.owners = t.owners
  BY ForgetUsersIs
<1>3. DOMAIN own = DOMAIN t.owners
  BY <1>2
<1> HIDE DEF own, unused, fl, wds
<1>4. Owned(n)
  BY <1>3, ShedOwned
<1> QED BY <1>1, <1>4

LEMMA DetachSubtreesOwned ==
  ASSUME NEW t, NEW roots, IsTable(t), Owned(t)
  PROVE  Owned(detachSubtrees(t, roots).tbl)
<1> DEFINE InRoots(p) == \E root \in roots : hasPathPrefix(p, root)
           users == Targeting(t, InRoots)
           hit   == {p \in DOMAIN t.owners : t.owners[p] \cap users # {} /\ ~InRoots(p)}
           t0    == ForgetUsers(t, users)
           own   == [p \in DOMAIN t0.owners |-> t0.owners[p] \ users]
           ps    == {p \in DOMAIN t.path : InRoots(p)}
           wds   == {t.path[p] : p \in ps}
           n     == Shed(t0, own, hit, ps, wds)
<1>1. detachSubtrees(t, roots).tbl = n
  BY DEF detachSubtrees, Shed
<1> HIDE DEF users, hit, ps, wds
<1>2. t0.owners = t.owners
  BY ForgetUsersIs
<1>3. DOMAIN own = DOMAIN t.owners
  BY <1>2
<1> HIDE DEF own
<1>4. Owned(n)
  BY <1>3, ShedOwned
<1> QED BY <1>1, <1>4

LEMMA RollbackOwned ==
  ASSUME NEW t, NEW regs, IsTable(t), Owned(t)
  PROVE  Owned(rollbackRegistrations(t, regs).tbl)
<1> DEFINE ps     == DOMAIN regs \cap DOMAIN t.owners
           own    == [p \in DOMAIN t.owners |->
                        IF p \in ps THEN t.owners[p] \ regs[p] ELSE t.owners[p]]
           t1     == [t EXCEPT !.owners = own]
           unused == {p \in ps : t1.owners[p] = {}}
           fl     == ps \ unused
           wds    == {t.path[p] : p \in unused \cap DOMAIN t.path}
           n      == Shed(t, own, fl, unused, wds)
<1>1. rollbackRegistrations(t, regs).tbl = n
  BY DEF rollbackRegistrations, Shed
<1>2. DOMAIN own = DOMAIN t.owners
  OBVIOUS
<1> HIDE DEF own, unused, fl, wds
<1>3. n.path = Without(t.path, unused) /\ n.owners = Without(own, unused)
  BY ShedIs
<1> HIDE DEF n
<1> QED BY <1>1, <1>2, <1>3 DEF Owned, Without

(* remove also drops the owner sets that the users of its path leave       *)
(* empty: these paths stay listed.                                         *)
LEMMA RemoveOwned ==
  ASSUME NEW t, NEW d, TableSound(t), Full(t), Owned(t),
         \A q \in DOMAIN t.owners : q # t.wd[d].path => t.owners[q] # {t.wd[d].path}
  PROVE  Owned(remove(t, d))
<1> DEFINE p    == t.wd[d].path
           gone == {u \in OwnersOf(t, p) : u \in DOMAIN t.target /\ t.target[u] = p}
           t0   == ForgetUsers(t, gone)
           t1   == ForgetPaths(t0, {p}, {d})
           hit  == {q \in DOMAIN t1.owners : t1.owners[q] \cap gone # {}}
           kept == {q \in DOMAIN t1.owners : q \in hit => ~(t1.owners[q] \subseteq gone)}
           own  == [q \in kept |-> t1.owners[q] \ gone]
           t2   == [t1 EXCEPT !.owners = own]
           n    == updateFlags(t2, hit)
<1>1. remove(t, d) = n
  BY DEF remove
<1>2. gone \subseteq {p}
  BY DEF Full
<1>3. \A q \in DOMAIN t.owners : t.owners[q] # {} /\ (q # p => t.owners[q] # {p})
  BY DEF Full, OwnersFull
<1> HIDE DEF gone, p
<1>4. IsTable(t0) /\ t0.owners = t.owners /\ t0.path = t.path
  BY ForgetUsersIs DEF TableSound
<1> HIDE DEF t0
<1>5. IsTable(t1) /\ t1.owners = Without(t.owners, {p}) /\ t1.path = Without(t.path, {p})
  BY <1>4, ForgetPathsIs
<1> HIDE DEF t1
<1>6. DOMAIN own = DOMAIN t1.owners
  <2> SUFFICES ASSUME NEW q \in DOMAIN t1.owners, t1.owners[q] \subseteq gone
               PROVE  FALSE
    OBVIOUS
  <2>1. q \in DOMAIN t.owners /\ q # p /\ t1.owners[q] = t.owners[q]
    BY <1>5 DEF Without
  <2>2. t.owners[q] \subseteq {p}
    BY <1>2, <2>1
  <2> QED BY <1>3, <2>1, <2>2
<1> HIDE DEF own, hit
<1>7. IsTable(t2) /\ t2.owners = own /\ t2.path = t1.path
  BY <1>5, WithOwnersIs
<1> HIDE DEF t2
<1>8. n.path = t2.path /\ n.owners = t2.owners
  BY <1>7, UpdateFlagsIs DEF SameOwnership
<1> HIDE DEF n
<1> QED BY <1>1, <1>5, <1>6, <1>7, <1>8 DEF Owned, Without

(* updatePath lists its path, which gets its owners then, or lists again   *)
(* the path of a watch.                                                    *)
LEMMA RegisterOwned ==
  ASSUME NEW t, NEW p, NEW d, NEW us, TableSound(t), Paired(t), Full(t), Owned(t), IsPath(p), us # {}
  PROVE  Owned(register(t, p, d, us))
<1> DEFINE old   == PathWd(t, p)
           fresh == [path |-> p, byUser |-> FALSE, recurse |-> FALSE]
           upd   == IF d \in DOMAIN t.wd THEN t.wd[d]
                    ELSE IF old \in DOMAIN t.wd THEN t.wd[old] ELSE fresh
           wd    == Without(Put(t.wd, d, upd), {old} \ {d})
           path  == Put(t.path, upd.path, d)
           t1    == updatePath(t, p, d)
           own   == Put(t1.owners, p, OwnersOf(t1, p) \cup us)
           t2    == [t1 EXCEPT !.owners = own]
           n     == register(t, p, d, us)
<1>1. upd.path = p \/ upd.path \in DOMAIN t.path
  BY DEF Paired
<1>2. t1 = [t EXCEPT !.wd = wd, !.path = path]
  BY DEF updatePath
<1> HIDE DEF upd, wd, t1
<1>3. t1.path = path /\ t1.owners = t.owners
  BY <1>2 DEF TableSound, IsTable
<1>4. DOMAIN t1.path \subseteq DOMAIN t.owners \cup {p}
  BY <1>1, <1>3 DEF Put, Owned
<1>5. IsTable(t1)
  BY UpdatePathSound DEF TableSound, t1
<1>6. n = IF p \in DOMAIN t1.path THEN updateFlags(t2, {p}) ELSE t1
  BY DEF register, addOwners, t1
<1>7. DOMAIN own = DOMAIN t.owners \cup {p}
  BY <1>3 DEF Put
<1> HIDE DEF own, n, path
<1>8. IsTable(t2) /\ t2.path = t1.path /\ t2.owners = own
  BY <1>5, WithOwnersIs
<1> HIDE DEF t2
<1>9. updateFlags(t2, {p}).path = t2.path /\ updateFlags(t2, {p}).owners = t2.owners
  BY <1>8, UpdateFlagsIs DEF SameOwnership
<1> QED BY <1>3, <1>4, <1>6, <1>7, <1>8, <1>9 DEF Owned, n

LEMMA ReleaseRenamedOwned ==
  ASSUME NEW t, NEW oldPath, IsTable(t), Owned(t)
  PROVE  Owned(releaseRenamed(t, oldPath).tbl)
<1> DEFINE InOld(p) == hasPathPrefix(p, oldPath)
           users  == Targeting(t, InOld)
           t0     == ForgetUsers(t, users)
           others == {p \in DOMAIN t.owners : ~InOld(p)}
           own    == [p \in DOMAIN t0.owners |->
                        IF p \in others THEN t0.owners[p] \ users ELSE t0.owners[p]]
           t2     == [t0 EXCEPT !.owners = own]
           unused == {p \in others : t2.owners[p] = {}}
           fl     == others \ unused
           wds    == {PathWd(t, p) : p \in unused}
           n      == Shed(t0, own, fl, unused, wds)
<1>1. CASE users = {}
  BY <1>1 DEF releaseRenamed
<1>2. CASE users # {}
  <2>1. releaseRenamed(t, oldPath).tbl = n
    BY <1>2 DEF releaseRenamed, Shed
  <2> HIDE DEF users, others
  <2>2. t0.owners = t.owners
    BY ForgetUsersIs
  <2>3. DOMAIN own = DOMAIN t.owners
    BY <2>2
  <2> HIDE DEF own, fl, unused, wds
  <2>4. Owned(n)
    BY <2>3, ShedOwned
  <2> QED BY <2>1, <2>4
<1> QED BY <1>1, <1>2

LEMMA MoveWatchesOwned ==
  ASSUME NEW t, NEW oldPath, NEW newPath, NEW newOwners, IsTable(t), Owned(t)
  PROVE  Owned(moveWatches(t, oldPath, newPath, newOwners).tbl)
<1> DEFINE moved  == {p \in DOMAIN t.path : hasPathPrefix(p, oldPath)}
           wds    == {t.path[p] : p \in moved}
           To(p)  == Rebased(p, oldPath, newPath)
           From(d) == CHOOSE p \in moved : t.path[p] = d
           landed == {To(p) : p \in moved}
           Origin(q) == CHOOSE p \in moved : To(p) = q
           path1  == Without(t.path, moved)
           own1   == Without(t.owners, moved)
           wd1    == Without(t.wd, wds)
           path2  == PutAll(path1, [q \in landed |-> t.path[Origin(q)]])
           own2   == PutAll(own1, [q \in landed |-> newOwners])
           wd2    == [d \in DOMAIN t.wd |->
                        IF d \in wds THEN [t.wd[d] EXCEPT !.path = To(From(d))] ELSE t.wd[d]]
           pan2   == t.panicked \/ wds \ DOMAIN t.wd # {}
           n1     == [t EXCEPT !.path = path1, !.owners = own1, !.wd = wd1]
           t2     == [t EXCEPT !.path = path2, !.owners = own2, !.wd = wd2, !.panicked = pan2]
           n2     == updateFlags(t2, landed)
<1> HIDE DEF moved
<1>1. DOMAIN path1 \subseteq DOMAIN own1
  BY DEF Owned, Without
<1>2. CASE newOwners = {}
  <2>1. moveWatches(t, oldPath, newPath, newOwners).tbl = n1
    BY <1>2 DEF moveWatches, IsTable, moved
  <2> HIDE DEF path1, own1, wd1
  <2>2. n1.owners = own1 /\ n1.path = path1
    BY DEF IsTable
  <2> QED BY <1>1, <2>1, <2>2 DEF Owned
<1>3. CASE newOwners # {}
  <2>1. moveWatches(t, oldPath, newPath, newOwners).tbl = n2
    BY <1>3 DEF moveWatches, IsTable, moved
  <2> HIDE DEF path1, own1, landed, Origin
  <2>2. DOMAIN path2 \subseteq DOMAIN own2
    BY <1>1 DEF PutAll
  <2> HIDE DEF path2, own2, wd2, pan2
  <2>3. IsTable(t2) /\ t2.owners = own2 /\ t2.path = path2
    BY DEF IsTable
  <2> HIDE DEF t2
  <2>4. SameOwnership(t2, n2)
    BY <2>3, UpdateFlagsIs
  <2> QED BY <2>1, <2>2, <2>3, <2>4 DEF Owned, SameOwnership
<1> QED BY <1>2, <1>3

LEMMA RebaseOwned ==
  ASSUME NEW t, NEW oldPath, NEW newPath, NEW us, TableSound(t), IsPath(newPath), Owned(t)
  PROVE  Owned(rebase(t, oldPath, newPath, us).tbl)
<1> DEFINE cleared  == clearDestination(t, oldPath, newPath)
           released == releaseRenamed(cleared.tbl, oldPath)
           owners   == us \cap released.tbl.recurse
           moved    == moveWatches(released.tbl, oldPath, newPath, owners)
<1>1. rebase(t, oldPath, newPath, us).tbl = moved.tbl
  BY DEF rebase, cleared, released
<1>2. TableSound(cleared.tbl) /\ Owned(cleared.tbl)
  BY ClearDestinationSound, DetachSubtreesOwned DEF TableSound, clearDestination, detachSubtree
<1> HIDE DEF cleared
<1>3. IsTable(released.tbl) /\ Owned(released.tbl)
  BY <1>2, ReleaseRenamedSound, ReleaseRenamedOwned DEF SoundBut, TableSound
<1> HIDE DEF released
<1>4. Owned(moved.tbl)
  BY <1>3, MoveWatchesOwned
<1> QED BY <1>1, <1>4

-----------------------------------------------------------------------------
(* Tables whose paths are made of names, and whose users are paths of the  *)
(* model.                                                                  *)
-----------------------------------------------------------------------------
NamedTable(t) ==
  /\ DOMAIN t.path \subseteq Seq(Names) /\ t.byUser \subseteq Path
  /\ \A d \in DOMAIN t.wd : d \in Nat /\ t.wd[d].path \in Seq(Names)

LEMMA NamedIsPath ==
  ASSUME NEW p \in Path
  PROVE  p \in Seq(Names)
BY DEF Path, PathsUpTo

(* updateFlags names nothing anew. *)
LEMMA UpdateFlagsNamed ==
  ASSUME NEW t, NEW ps, IsTable(t), PathsSound(t), NamedTable(t)
  PROVE  NamedTable(updateFlags(t, ps))
<1> DEFINE listed   == ps \cap DOMAIN t.path
           live     == {p \in listed : t.path[p] \in DOMAIN t.wd}
           Named(d) == {p \in live : t.path[p] = d}
           R(d)     == Reflag(t, t.wd[d], CHOOSE p \in Named(d) : TRUE)
           wd       == [d \in DOMAIN t.wd |-> IF Named(d) = {} THEN t.wd[d] ELSE R(d)]
           pan      == t.panicked \/ live # listed
           n        == updateFlags(t, ps)
<1>1. n = [t EXCEPT !.wd = wd, !.panicked = pan]
  BY DEF updateFlags
<1>2. ASSUME NEW d \in DOMAIN t.wd
      PROVE  wd[d].path = t.wd[d].path
  <2>1. IsWatch(t.wd[d])
    BY DEF PathsSound
  <2>2. R(d).path = t.wd[d].path
    BY <2>1, ReflagIs
  <2> HIDE DEF R, Named
  <2> QED BY <2>1, <2>2
<1>3. DOMAIN wd = DOMAIN t.wd
  OBVIOUS
<1> HIDE DEF wd, pan, n
<1>4. n.path = t.path /\ n.byUser = t.byUser /\ n.wd = wd
  BY <1>1 DEF IsTable
<1> QED BY <1>2, <1>3, <1>4 DEF NamedTable, n

(* What the releasing methods drop. *)
LEMMA ForgetPathsNamed ==
  ASSUME NEW t, NEW ps, NEW ds, IsTable(t), NamedTable(t)
  PROVE  NamedTable(ForgetPaths(t, ps, ds))
<1> DEFINE path   == Without(t.path, ps)
           owners == Without(t.owners, ps)
           wd     == Without(t.wd, ds)
           n      == ForgetPaths(t, ps, ds)
<1>1. n = [t EXCEPT !.path = path, !.owners = owners, !.wd = wd]
  BY DEF ForgetPaths
<1>2. /\ DOMAIN path \subseteq DOMAIN t.path /\ DOMAIN wd \subseteq DOMAIN t.wd
      /\ \A d \in DOMAIN wd : wd[d] = t.wd[d]
  BY DEF Without
<1> HIDE DEF path, owners, wd, n
<1>3. n.path = path /\ n.wd = wd /\ n.byUser = t.byUser
  BY <1>1 DEF IsTable
<1>4. DOMAIN n.path \subseteq Seq(Names) /\ n.byUser \subseteq Path
  BY <1>2, <1>3 DEF NamedTable
<1>5. ASSUME NEW d \in DOMAIN n.wd
      PROVE  d \in Nat /\ n.wd[d].path \in Seq(Names)
  BY <1>2, <1>3 DEF NamedTable
<1> QED BY <1>4, <1>5 DEF NamedTable, n

LEMMA ForgetUsersNamed ==
  ASSUME NEW t, NEW us, IsTable(t), NamedTable(t)
  PROVE  NamedTable(ForgetUsers(t, us))
<1> DEFINE n == ForgetUsers(t, us)
<1>1. n.byUser = t.byUser \ us /\ n.wd = t.wd /\ n.path = t.path
  BY ForgetUsersIs
<1> HIDE DEF n
<1> QED BY <1>1 DEF NamedTable, n

LEMMA WithOwnersNamed ==
  ASSUME NEW t, NEW own, IsTable(t), PathsSound(t), NamedTable(t)
  PROVE  LET n == [t EXCEPT !.owners = own]
         IN  IsTable(n) /\ PathsSound(n) /\ NamedTable(n)
<1> DEFINE n == [t EXCEPT !.owners = own]
<1>1. IsTable(n) /\ n.byUser = t.byUser /\ n.path = t.path /\ n.wd = t.wd
  BY WithOwnersIs
<1> HIDE DEF n
<1> QED BY <1>1 DEF NamedTable, PathsSound, n

LEMMA ShedNamed ==
  ASSUME NEW t, NEW us, NEW own, NEW fl, NEW ps, NEW ds, IsTable(t), PathsSound(t), NamedTable(t)
  PROVE  NamedTable(Shed(ForgetUsers(t, us), own, fl, ps, ds))
<1> DEFINE t0 == ForgetUsers(t, us)
           t1 == [t0 EXCEPT !.owners = own]
           t2 == updateFlags(t1, fl)
<1>1. IsTable(t0) /\ PathsSound(t0) /\ NamedTable(t0)
  BY ForgottenUsers, ForgetUsersNamed
<1> HIDE DEF t0
<1>2. IsTable(t1) /\ PathsSound(t1) /\ NamedTable(t1)
  BY <1>1, WithOwnersNamed
<1> HIDE DEF t1
<1>3. IsTable(t2) /\ NamedTable(t2)
  BY <1>2, UpdateFlagsIs, UpdateFlagsNamed
<1> HIDE DEF t2
<1>4. NamedTable(ForgetPaths(t2, ps, ds))
  BY <1>3, ForgetPathsNamed
<1> QED BY <1>4 DEF Shed, t2, t1, t0

LEMMA ReleaseOwnerNamed ==
  ASSUME NEW t, NEW u, IsTable(t), PathsSound(t), NamedTable(t)
  PROVE  NamedTable(releaseOwner(t, u).tbl)
<1> DEFINE t0     == ForgetUsers(t, {u})
           own    == [p \in DOMAIN t0.owners |-> t0.owners[p] \ {u}]
           t1     == [t0 EXCEPT !.owners = own]
           unused == {p \in DOMAIN t1.owners : t1.owners[p] = {}}
           fl     == DOMAIN t1.owners \ unused
           wds    == {PathWd(t, p) : p \in unused}
           n      == Shed(t0, own, fl, unused, wds)
<1>1. releaseOwner(t, u).tbl = n
  BY DEF releaseOwner, Shed
<1> HIDE DEF own, unused, fl, wds
<1>2. NamedTable(n)
  BY ShedNamed
<1> QED BY <1>1, <1>2

LEMMA DetachSubtreesNamed ==
  ASSUME NEW t, NEW roots, IsTable(t), PathsSound(t), NamedTable(t)
  PROVE  NamedTable(detachSubtrees(t, roots).tbl)
<1> DEFINE InRoots(p) == \E root \in roots : hasPathPrefix(p, root)
           users == Targeting(t, InRoots)
           hit   == {p \in DOMAIN t.owners : t.owners[p] \cap users # {} /\ ~InRoots(p)}
           t0    == ForgetUsers(t, users)
           own   == [p \in DOMAIN t0.owners |-> t0.owners[p] \ users]
           ps    == {p \in DOMAIN t.path : InRoots(p)}
           wds   == {t.path[p] : p \in ps}
           n     == Shed(t0, own, hit, ps, wds)
<1>1. detachSubtrees(t, roots).tbl = n
  BY DEF detachSubtrees, Shed
<1> HIDE DEF users, hit, ps, wds, own
<1>2. NamedTable(n)
  BY ShedNamed
<1> QED BY <1>1, <1>2

LEMMA RollbackNamed ==
  ASSUME NEW t, NEW regs, IsTable(t), PathsSound(t), NamedTable(t)
  PROVE  NamedTable(rollbackRegistrations(t, regs).tbl)
<1> DEFINE ps     == DOMAIN regs \cap DOMAIN t.owners
           own    == [p \in DOMAIN t.owners |->
                        IF p \in ps THEN t.owners[p] \ regs[p] ELSE t.owners[p]]
           t1     == [t EXCEPT !.owners = own]
           unused == {p \in ps : t1.owners[p] = {}}
           fl     == ps \ unused
           wds    == {t.path[p] : p \in unused \cap DOMAIN t.path}
           t2     == updateFlags(t1, fl)
           n      == ForgetPaths(t2, unused, wds)
<1>1. rollbackRegistrations(t, regs).tbl = n
  BY DEF rollbackRegistrations
<1> HIDE DEF own, unused, fl, wds, ps
<1>2. IsTable(t1) /\ PathsSound(t1) /\ NamedTable(t1)
  BY WithOwnersNamed
<1> HIDE DEF t1
<1>3. IsTable(t2) /\ NamedTable(t2)
  BY <1>2, UpdateFlagsIs, UpdateFlagsNamed
<1> HIDE DEF t2
<1>4. NamedTable(n)
  BY <1>3, ForgetPathsNamed
<1> QED BY <1>1, <1>4

LEMMA RemoveNamed ==
  ASSUME NEW t, NEW d, IsTable(t), PathsSound(t), NamedTable(t)
  PROVE  NamedTable(remove(t, d))
<1> DEFINE p    == t.wd[d].path
           gone == {u \in OwnersOf(t, p) : u \in DOMAIN t.target /\ t.target[u] = p}
           t0   == ForgetUsers(t, gone)
           t1   == ForgetPaths(t0, {p}, {d})
           hit  == {q \in DOMAIN t1.owners : t1.owners[q] \cap gone # {}}
           kept == {q \in DOMAIN t1.owners : q \in hit => ~(t1.owners[q] \subseteq gone)}
           own  == [q \in kept |-> t1.owners[q] \ gone]
           t2   == [t1 EXCEPT !.owners = own]
           n    == updateFlags(t2, hit)
<1>1. remove(t, d) = n
  BY DEF remove
<1> HIDE DEF gone, p
<1>2. IsTable(t0) /\ PathsSound(t0) /\ NamedTable(t0)
  BY ForgottenUsers, ForgetUsersNamed
<1> HIDE DEF t0
<1>3. IsTable(t1) /\ PathsSound(t1) /\ NamedTable(t1)
  BY <1>2, ForgetPathsIs, ForgetPathsNamed
<1> HIDE DEF t1, own, hit
<1>4. IsTable(t2) /\ PathsSound(t2) /\ NamedTable(t2)
  BY <1>3, WithOwnersNamed
<1> HIDE DEF t2
<1>5. NamedTable(n)
  BY <1>4, UpdateFlagsNamed
<1> QED BY <1>1, <1>5

LEMMA AddUserNamed ==
  ASSUME NEW t, NEW p \in Path, NEW r, IsTable(t), NamedTable(t)
  PROVE  NamedTable(addUser(t, p, r))
<1> DEFINE n       == addUser(t, p, r)
           target  == Put(t.target, p, p)
           recurse == IF r THEN t.recurse \cup {p} ELSE t.recurse
<1>1. n = [t EXCEPT !.byUser = t.byUser \cup {p}, !.target = target, !.recurse = recurse]
  BY DEF addUser
<1> HIDE DEF n, target, recurse
<1>2. n.byUser = t.byUser \cup {p} /\ n.path = t.path /\ n.wd = t.wd
  BY <1>1 DEF IsTable
<1> QED BY <1>2 DEF NamedTable, n

LEMMA RegisterNamed ==
  ASSUME NEW t, NEW p \in Seq(Names), NEW d \in Nat, NEW us, TableSound(t), NamedTable(t)
  PROVE  NamedTable(register(t, p, d, us))
<1> DEFINE old   == PathWd(t, p)
           fresh == [path |-> p, byUser |-> FALSE, recurse |-> FALSE]
           upd   == IF d \in DOMAIN t.wd THEN t.wd[d]
                    ELSE IF old \in DOMAIN t.wd THEN t.wd[old] ELSE fresh
           wd    == Without(Put(t.wd, d, upd), {old} \ {d})
           path  == Put(t.path, upd.path, d)
           t1    == updatePath(t, p, d)
           own   == Put(t1.owners, p, OwnersOf(t1, p) \cup us)
           t2    == [t1 EXCEPT !.owners = own]
<1>1. upd.path \in Seq(Names)
  BY DEF NamedTable
<1>2. t1 = [t EXCEPT !.wd = wd, !.path = path]
  BY DEF updatePath
<1>3. IsPath(p)
  BY SeqIsPath
<1>4. IsTable(t1) /\ PathsSound(t1)
  BY <1>3, UpdatePathSound DEF TableSound
<1> HIDE DEF upd, t1
<1>5. DOMAIN path = DOMAIN t.path \cup {upd.path}
  BY DEF Put
<1>6. /\ DOMAIN wd \subseteq DOMAIN t.wd \cup {d}
      /\ \A x \in DOMAIN wd : wd[x] = IF x = d THEN upd ELSE t.wd[x]
  BY DEF Put, Without
<1> HIDE DEF wd, path
<1>7. t1.wd = wd /\ t1.path = path /\ t1.byUser = t.byUser
  BY <1>2 DEF TableSound, IsTable
<1>8. NamedTable(t1)
  <2>1. DOMAIN t1.path \subseteq Seq(Names) /\ t1.byUser \subseteq Path
    BY <1>1, <1>5, <1>7 DEF NamedTable
  <2>2. ASSUME NEW x \in DOMAIN t1.wd
        PROVE  x \in Nat /\ t1.wd[x].path \in Seq(Names)
    <3>1. CASE x = d
      BY <1>1, <1>6, <1>7, <3>1
    <3>2. CASE x # d
      BY <1>6, <1>7, <3>2 DEF NamedTable
    <3> QED BY <3>1, <3>2
  <2> QED BY <2>1, <2>2 DEF NamedTable
<1>9. register(t, p, d, us) = t1 \/ register(t, p, d, us) = updateFlags(t2, {p})
  BY DEF register, addOwners, t1
<1> HIDE DEF own
<1>10. IsTable(t2) /\ PathsSound(t2) /\ NamedTable(t2)
  BY <1>4, <1>8, WithOwnersNamed
<1> HIDE DEF t2
<1>11. NamedTable(updateFlags(t2, {p}))
  BY <1>10, UpdateFlagsNamed
<1> QED BY <1>8, <1>9, <1>11

LEMMA ReleaseRenamedNamed ==
  ASSUME NEW t, NEW oldPath, IsTable(t), PathsSound(t), NamedTable(t)
  PROVE  NamedTable(releaseRenamed(t, oldPath).tbl)
<1> DEFINE InOld(p) == hasPathPrefix(p, oldPath)
           users  == Targeting(t, InOld)
           t0     == ForgetUsers(t, users)
           others == {p \in DOMAIN t.owners : ~InOld(p)}
           own    == [p \in DOMAIN t0.owners |->
                        IF p \in others THEN t0.owners[p] \ users ELSE t0.owners[p]]
           t2     == [t0 EXCEPT !.owners = own]
           unused == {p \in others : t2.owners[p] = {}}
           fl     == others \ unused
           wds    == {PathWd(t, p) : p \in unused}
           n      == Shed(t0, own, fl, unused, wds)
<1>1. CASE users = {}
  BY <1>1 DEF releaseRenamed
<1>2. CASE users # {}
  <2>1. releaseRenamed(t, oldPath).tbl = n
    BY <1>2 DEF releaseRenamed, Shed
  <2> HIDE DEF users, others, own, fl, unused, wds
  <2>2. NamedTable(n)
    BY ShedNamed
  <2> QED BY <2>1, <2>2
<1> QED BY <1>1, <1>2

(* What moves is named after the new path. *)
LEMMA MoveWatchesNamed ==
  ASSUME NEW t, NEW oldPath \in Seq(Names), NEW newPath \in Seq(Names), NEW newOwners,
         IsTable(t), PathsSound(t), NamedTable(t)
  PROVE  NamedTable(moveWatches(t, oldPath, newPath, newOwners).tbl)
<1> DEFINE moved  == {p \in DOMAIN t.path : hasPathPrefix(p, oldPath)}
           wds    == {t.path[p] : p \in moved}
           To(p)  == Rebased(p, oldPath, newPath)
           From(d) == CHOOSE p \in moved : t.path[p] = d
           landed == {To(p) : p \in moved}
           Origin(q) == CHOOSE p \in moved : To(p) = q
           path1  == Without(t.path, moved)
           own1   == Without(t.owners, moved)
           wd1    == Without(t.wd, wds)
           path2  == PutAll(path1, [q \in landed |-> t.path[Origin(q)]])
           own2   == PutAll(own1, [q \in landed |-> newOwners])
           wd2    == [d \in DOMAIN t.wd |->
                        IF d \in wds THEN [t.wd[d] EXCEPT !.path = To(From(d))] ELSE t.wd[d]]
           pan2   == t.panicked \/ wds \ DOMAIN t.wd # {}
           n1     == [t EXCEPT !.path = path1, !.owners = own1, !.wd = wd1]
           t2     == [t EXCEPT !.path = path2, !.owners = own2, !.wd = wd2, !.panicked = pan2]
           n2     == updateFlags(t2, landed)
<1>1. ASSUME NEW p \in moved
      PROVE  To(p) \in Seq(Names)
  <2>1. p \in Seq(Names) /\ Under(p, oldPath)
    BY UnderOf DEF NamedTable, hasPathPrefix
  <2> QED BY <2>1, RebaseOf
<1>2. DOMAIN path1 \subseteq DOMAIN t.path
  BY DEF Without
<1>3. CASE newOwners = {}
  <2>1. moveWatches(t, oldPath, newPath, newOwners).tbl = n1
    BY <1>3 DEF moveWatches, IsTable
  <2>2. DOMAIN wd1 \subseteq DOMAIN t.wd /\ \A d \in DOMAIN wd1 : wd1[d] = t.wd[d]
    BY DEF Without
  <2> HIDE DEF path1, own1, wd1
  <2>3. n1.path = path1 /\ n1.wd = wd1 /\ n1.byUser = t.byUser
    BY DEF IsTable
  <2> HIDE DEF n1
  <2>4. DOMAIN n1.path \subseteq Seq(Names) /\ n1.byUser \subseteq Path
    BY <1>2, <2>3 DEF NamedTable
  <2>5. ASSUME NEW d \in DOMAIN n1.wd
        PROVE  d \in Nat /\ n1.wd[d].path \in Seq(Names)
    BY <2>2, <2>3 DEF NamedTable
  <2>6. NamedTable(n1)
    BY <2>4, <2>5 DEF NamedTable
  <2> QED BY <2>1, <2>6
<1>4. CASE newOwners # {}
  <2>1. moveWatches(t, oldPath, newPath, newOwners).tbl = n2
    BY <1>4 DEF moveWatches, IsTable
  <2>2. DOMAIN path2 = DOMAIN path1 \cup landed
    BY DEF PutAll
  <2>3. landed \subseteq Seq(Names)
    BY <1>1
  <2>4. ASSUME NEW d \in DOMAIN t.wd
        PROVE  IsWatch(wd2[d]) /\ wd2[d].path \in Seq(Names)
    <3>1. IsWatch(t.wd[d]) /\ t.wd[d].path \in Seq(Names)
      BY DEF PathsSound, NamedTable
    <3>2. CASE d \in wds
      <4>1. To(From(d)) \in Seq(Names)
        <5>1. From(d) \in moved
          BY <3>2
        <5> QED BY <5>1, <1>1
      <4>2. wd2[d] = [t.wd[d] EXCEPT !.path = To(From(d))]
        BY <3>2
      <4> HIDE DEF To, From, wd2
      <4> QED BY <3>1, <4>1, <4>2 DEF IsWatch
    <3>3. CASE d \notin wds
      BY <3>1, <3>3
    <3> QED BY <3>2, <3>3
  <2>5. DOMAIN wd2 = DOMAIN t.wd
    OBVIOUS
  <2> HIDE DEF path2, own2, wd2, pan2, landed
  <2>6. IsTable(t2) /\ t2.path = path2 /\ t2.wd = wd2 /\ t2.byUser = t.byUser
    BY DEF IsTable
  <2> HIDE DEF t2, path1, own1
  <2>7. DOMAIN t2.path \subseteq Seq(Names) /\ t2.byUser \subseteq Path
    BY <1>2, <2>2, <2>3, <2>6 DEF NamedTable
  <2>8. ASSUME NEW d \in DOMAIN t2.wd
        PROVE  d \in Nat /\ IsWatch(t2.wd[d]) /\ t2.wd[d].path \in Seq(Names)
    BY <2>4, <2>5, <2>6 DEF NamedTable
  <2>9. NamedTable(t2) /\ PathsSound(t2)
    BY <2>7, <2>8, SeqIsPath DEF NamedTable, PathsSound
  <2> QED BY <2>1, <2>6, <2>9, UpdateFlagsNamed
<1> QED BY <1>3, <1>4

LEMMA RebaseNamed ==
  ASSUME NEW t, NEW oldPath \in Seq(Names), NEW newPath \in Seq(Names), NEW us,
         TableSound(t), NamedTable(t)
  PROVE  NamedTable(rebase(t, oldPath, newPath, us).tbl)
<1> DEFINE cleared  == clearDestination(t, oldPath, newPath)
           released == releaseRenamed(cleared.tbl, oldPath)
           owners   == us \cap released.tbl.recurse
           moved    == moveWatches(released.tbl, oldPath, newPath, owners)
<1>1. rebase(t, oldPath, newPath, us).tbl = moved.tbl
  BY DEF rebase, cleared, released
<1>2. TableSound(cleared.tbl) /\ NamedTable(cleared.tbl)
  BY ClearDestinationSound, DetachSubtreesNamed DEF TableSound, clearDestination, detachSubtree
<1> HIDE DEF cleared
<1>3. IsTable(released.tbl) /\ PathsSound(released.tbl) /\ NamedTable(released.tbl)
  BY <1>2, ReleaseRenamedSound, ReleaseRenamedNamed DEF SoundBut, TableSound
<1> HIDE DEF released
<1>4. NamedTable(moved.tbl)
  BY <1>3, MoveWatchesNamed
<1> QED BY <1>1, <1>4
=============================================================================
