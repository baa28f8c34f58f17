--------------------------- MODULE InotifyWatches ---------------------------
(***************************************************************************)
(* The tables of the inotify backend: the type watches of                  *)
(* backend_inotify.go and its methods, as operators from a table to a      *)
(* table.  Where a method returns the descriptors it no longer needs, the  *)
(* operator returns [tbl |-> the new table, wds |-> those descriptors].    *)
(*                                                                         *)
(* A table is a record of partial functions:                               *)
(*   wd       descriptor -> [path, byUser, recurse], the physical watch    *)
(*            and the two bits of its watchFlags;                          *)
(*   path     physical path -> descriptor;                                 *)
(*   byUser   the paths the user added (their Op is the default one: the   *)
(*            option that changes it is not exported);                     *)
(*   target   user path -> its physical path;                              *)
(*   recurse  the user paths added with "/...";                            *)
(*   owners   physical path -> the user paths that keep it watched;        *)
(*   panicked TRUE once a nil *watch has been dereferenced.                *)
(* The Go maps are changed in place; deleting an absent key does nothing   *)
(* and reading one gives the zero value, here the descriptor NoWd.         *)
(***************************************************************************)
EXTENDS Integers, FiniteSets, Functions, Paths

(* Mutant: strings.HasPrefix without the separator, which takes a name for *)
(* the prefix of every longer one, here of every greater one.              *)
hasPathPrefixOfString(path, root) ==
  /\ root # <<>> /\ Len(root) <= Len(path)
  /\ Dir(SubSeq(path, 1, Len(root))) = Dir(root)
  /\ root[Len(root)] <= path[Len(root)]

(* hasPathPrefix compares up to a separator, that is, whole components. *)
hasPathPrefix(path, root) == path = root \/ Under(path, root)

NoWd == 0

NoFunction == [x \in {} |-> {}]

newWatches ==
  [wd |-> NoFunction, path |-> NoFunction, byUser |-> {}, target |-> NoFunction,
   recurse |-> {}, owners |-> NoFunction, panicked |-> FALSE]

(* Go maps: delete, an assignment, and several at once. *)
Without(f, S) == [x \in DOMAIN f \ S |-> f[x]]
Put(f, k, v) == [x \in DOMAIN f \cup {k} |-> IF x = k THEN v ELSE f[x]]
PutAll(f, g) == [x \in DOMAIN f \cup DOMAIN g |-> IF x \in DOMAIN g THEN g[x] ELSE f[x]]

PathWd(t, p) == IF p \in DOMAIN t.path THEN t.path[p] ELSE NoWd
OwnersOf(t, p) == IF p \in DOMAIN t.owners THEN t.owners[p] ELSE {}

(* byPath(path) # nil *)
Watched(t, p) == PathWd(t, p) \in DOMAIN t.wd

(* The user paths whose physical path satisfies Test. *)
Targeting(t, Test(_)) == {u \in DOMAIN t.target : Test(t.target[u])}

recursiveOwners(t, p) == OwnersOf(t, p) \cap t.recurse

(* Forget the users us as users; the owner sets are left to the caller. *)
ForgetUsers(t, us) ==
  [t EXCEPT !.byUser = @ \ us, !.target = Without(@, us), !.recurse = @ \ us]

(* Drop the entries of the paths ps and of the descriptors ds. *)
ForgetPaths(t, ps, ds) ==
  [t EXCEPT !.path = Without(@, ps), !.owners = Without(@, ps), !.wd = Without(@, ds)]

(***************************************************************************)
(* updateFlags, on every path of ps.  A path whose descriptor has no watch *)
(* is where the code dereferences nil.                                     *)
(***************************************************************************)
FlaggedByUser(t, p) == \E u \in OwnersOf(t, p) : u \in DOMAIN t.target /\ t.target[u] = p
FlaggedRecurse(t, p) == OwnersOf(t, p) \cap t.recurse # {}

Reflag(t, w, p) == [w EXCEPT !.byUser = FlaggedByUser(t, p), !.recurse = FlaggedRecurse(t, p)]

updateFlags(t, ps) ==
  LET listed   == ps \cap DOMAIN t.path
      live     == {p \in listed : t.path[p] \in DOMAIN t.wd}
      Named(d) == {p \in live : t.path[p] = d}
  IN  [t EXCEPT
         !.wd = [d \in DOMAIN @ |->
                   IF Named(d) = {} THEN @[d] ELSE Reflag(t, @[d], CHOOSE p \in Named(d) : TRUE)],
         !.panicked = @ \/ live # listed]

addUser(t, p, recursive) ==
  [t EXCEPT !.byUser = @ \cup {p},
            !.target = Put(@, p, p),
            !.recurse = IF recursive THEN @ \cup {p} ELSE @]

(* Mutant: the new owners replace the ones the path had. *)
addOwnersReplaces(t, p, us) ==
  IF us = {} THEN t ELSE updateFlags([t EXCEPT !.owners = Put(@, p, us)], {p})

addOwners(t, p, us) ==
  IF us = {} THEN t
  ELSE updateFlags([t EXCEPT !.owners = Put(@, p, OwnersOf(t, p) \cup us)], {p})

(* Mutant: the users whose own watch this was stay users. *)
removeKeepsUsers(t, d) == ForgetPaths(t, {t.wd[d].path}, {d})

(***************************************************************************)
(* remove(watch), for the watch with descriptor d: its path goes, and so   *)
(* do the users whose target it was, everywhere they own a path.           *)
(***************************************************************************)
remove(t, d) ==
  LET p    == t.wd[d].path
      gone == {u \in OwnersOf(t, p) : u \in DOMAIN t.target /\ t.target[u] = p}
      t1   == ForgetPaths(ForgetUsers(t, gone), {p}, {d})
      hit  == {q \in DOMAIN t1.owners : t1.owners[q] \cap gone # {}}
      kept == {q \in DOMAIN t1.owners : q \in hit => ~(t1.owners[q] \subseteq gone)}
  IN  updateFlags([t1 EXCEPT !.owners = [q \in kept |-> @[q] \ gone]], hit)

(* Mutant: a path that others own too keeps the released owner. *)
releaseOwnerLeavesShared(t, u) ==
  LET unused == {p \in DOMAIN t.owners : t.owners[p] = {u}}
      wds    == {PathWd(t, p) : p \in unused}
  IN  [tbl |-> ForgetPaths(ForgetUsers(t, {u}), unused, wds), wds |-> wds]

(* Mutant: the flags of the paths that stay are not computed again. *)
releaseOwnerKeepsFlags(t, u) ==
  LET t1     == [ForgetUsers(t, {u}) EXCEPT !.owners = [p \in DOMAIN @ |-> @[p] \ {u}]]
      unused == {p \in DOMAIN t1.owners : t1.owners[p] = {}}
      wds    == {PathWd(t, p) : p \in unused}
  IN  [tbl |-> ForgetPaths(t1, unused, wds), wds |-> wds]

(* Mutant: the whole subtree of a root goes with it. *)
releaseOwnerTakesSubtree(t, u) ==
  LET below == {p \in DOMAIN t.path : Under(p, u)}
      wds   == {t.path[p] : p \in below}
  IN  [tbl |-> ForgetPaths(ForgetUsers(t, {u}), below, wds), wds |-> wds]

(* Mutant: a path nobody owns any more stays in owners. *)
releaseOwnerLeavesEmpty(t, u) ==
  LET t1     == [ForgetUsers(t, {u}) EXCEPT !.owners = [p \in DOMAIN @ |-> @[p] \ {u}]]
      unused == {p \in DOMAIN t1.owners : t1.owners[p] = {}}
      wds    == {PathWd(t, p) : p \in unused}
  IN  [tbl |-> [ForgetPaths(t1, unused, wds) EXCEPT !.owners = t1.owners], wds |-> wds]

(* Mutant: a path nobody owns any more keeps its watch. *)
releaseOwnerKeepsWatch(t, u) ==
  LET t1     == [ForgetUsers(t, {u}) EXCEPT !.owners = [p \in DOMAIN @ |-> @[p] \ {u}]]
      unused == {p \in DOMAIN t1.owners : t1.owners[p] = {}}
  IN  [tbl |-> [updateFlags(t1, DOMAIN t1.owners \ unused) EXCEPT !.owners = Without(@, unused)],
       wds |-> {}]

(***************************************************************************)
(* releaseOwner(owner), for an owner in byUser: every path it alone owned  *)
(* is dropped.                                                             *)
(***************************************************************************)
releaseOwner(t, u) ==
  LET t1     == [ForgetUsers(t, {u}) EXCEPT !.owners = [p \in DOMAIN @ |-> @[p] \ {u}]]
      unused == {p \in DOMAIN t1.owners : t1.owners[p] = {}}
      wds    == {PathWd(t, p) : p \in unused}
  IN  [tbl |-> ForgetPaths(updateFlags(t1, DOMAIN t1.owners \ unused), unused, wds), wds |-> wds]

(***************************************************************************)
(* detachSubtree, for several roots in a row: everything at or below one   *)
(* goes, with the users whose target is there.                             *)
(***************************************************************************)
detachSubtrees(t, roots) ==
  LET InRoots(p) == \E root \in roots : hasPathPrefix(p, root)
      users == Targeting(t, InRoots)
      hit   == {p \in DOMAIN t.owners : t.owners[p] \cap users # {} /\ ~InRoots(p)}
      t1    == [ForgetUsers(t, users) EXCEPT !.owners = [p \in DOMAIN @ |-> @[p] \ users]]
      ps    == {p \in DOMAIN t.path : InRoots(p)}
      wds   == {t.path[p] : p \in ps}
  IN  [tbl |-> ForgetPaths(updateFlags(t1, hit), ps, wds), wds |-> wds]

detachSubtree(t, root) == detachSubtrees(t, {root})

(***************************************************************************)
(* rollbackRegistrations: regs maps each path the failed walk registered   *)
(* to the owners it added there.  The walk visits a path once, so the      *)
(* order in which the entries are undone does not matter.                  *)
(***************************************************************************)
rollbackRegistrations(t, regs) ==
  LET ps     == DOMAIN regs \cap DOMAIN t.owners
      t1     == [t EXCEPT !.owners = [p \in DOMAIN @ |-> IF p \in ps THEN @[p] \ regs[p] ELSE @[p]]]
      unused == {p \in ps : t1.owners[p] = {}}
      wds    == {t.path[p] : p \in unused \cap DOMAIN t.path}
  IN  [tbl |-> ForgetPaths(updateFlags(t1, ps \ unused), unused, wds), wds |-> wds]

(***************************************************************************)
(* rebase(oldPath, newPath, destinationOwners): a watched directory was    *)
(* renamed.  What was watched at the destination goes; the explicit        *)
(* watches at or below the old path go; the physical watches below it move *)
(* and are owned by the recursive owners of the destination, or go if      *)
(* there are none.                                                         *)
(***************************************************************************)
clearDestination(t, oldPath, newPath) ==
  IF \E p \in DOMAIN t.path : hasPathPrefix(p, newPath) /\ ~hasPathPrefix(p, oldPath)
  THEN detachSubtree(t, newPath)
  ELSE [tbl |-> t, wds |-> {}]

releaseRenamed(t, oldPath) ==
  LET InOld(p) == hasPathPrefix(p, oldPath)
      users  == Targeting(t, InOld)
      t1     == ForgetUsers(t, users)
      others == {p \in DOMAIN t.owners : ~InOld(p)}
      t2     == [t1 EXCEPT !.owners = [p \in DOMAIN @ |-> IF p \in others THEN @[p] \ users ELSE @[p]]]
      unused == {p \in others : t2.owners[p] = {}}
      wds    == {PathWd(t, p) : p \in unused}
  IN  IF users = {} THEN [tbl |-> t, wds |-> {}]
      ELSE [tbl |-> ForgetPaths(updateFlags(t2, others \ unused), unused, wds), wds |-> wds]

(* Mutant: only the renamed directory moves, not what is below it. *)
moveWatchesTopOnly(t, oldPath, newPath, newOwners) ==
  LET d  == PathWd(t, oldPath)
      t1 == [t EXCEPT !.path = Put(Without(@, {oldPath}), newPath, d),
                      !.owners = Put(Without(@, {oldPath}), newPath, newOwners),
                      !.wd = [x \in DOMAIN @ |-> IF x = d THEN [@[x] EXCEPT !.path = newPath] ELSE @[x]]]
  IN  [tbl |-> updateFlags(t1, {newPath}), wds |-> {}]

moveWatches(t, oldPath, newPath, newOwners) ==
  LET moved    == {p \in DOMAIN t.path : hasPathPrefix(p, oldPath)}
      wds      == {t.path[p] : p \in moved}
      To(p)    == Rebased(p, oldPath, newPath)
      From(d)  == CHOOSE p \in moved : t.path[p] = d
      landed   == {To(p) : p \in moved}
      Origin(q) == CHOOSE p \in moved : To(p) = q
      t1       == [t EXCEPT !.path = Without(@, moved), !.owners = Without(@, moved)]
      t2       == [t1 EXCEPT
                     !.path = PutAll(@, [q \in landed |-> t.path[Origin(q)]]),
                     !.owners = PutAll(@, [q \in landed |-> newOwners]),
                     !.wd = [d \in DOMAIN @ |-> IF d \in wds THEN [@[d] EXCEPT !.path = To(From(d))] ELSE @[d]],
                     !.panicked = @ \/ wds \ DOMAIN t.wd # {}]
  IN  IF newOwners = {} THEN [tbl |-> [t1 EXCEPT !.wd = Without(@, wds)], wds |-> wds]
      ELSE [tbl |-> updateFlags(t2, landed), wds |-> {}]

rebase(t, oldPath, newPath, destinationOwners) ==
  LET cleared  == clearDestination(t, oldPath, newPath)
      released == releaseRenamed(cleared.tbl, oldPath)
      moved    == moveWatches(released.tbl, oldPath, newPath,
                              destinationOwners \cap released.tbl.recurse)
  IN  [tbl |-> moved.tbl, wds |-> cleared.wds \cup released.wds \cup moved.wds]

(***************************************************************************)
(* updatePath, with the closure that register gives it: d is the           *)
(* descriptor inotify_add_watch returned for p.  A descriptor the table    *)
(* already has keeps its watch; otherwise p gets a new watch, or the       *)
(* watch it had is given the new descriptor.                               *)
(***************************************************************************)
updatePath(t, p, d) ==
  LET old == PathWd(t, p)
      upd == IF d \in DOMAIN t.wd THEN t.wd[d]
             ELSE IF old \in DOMAIN t.wd THEN t.wd[old]
             ELSE [path |-> p, byUser |-> FALSE, recurse |-> FALSE]
  IN  [t EXCEPT !.wd = Without(Put(@, d, upd), {old} \ {d}),
                !.path = Put(@, upd.path, d)]

(* register, once the kernel has answered: a path that only aliases a      *)
(* watched inode is not listed, and gets no owner.                         *)
register(t, p, d, us) ==
  LET t1 == updatePath(t, p, d)
  IN  IF p \in DOMAIN t1.path THEN addOwners(t1, p, us) ELSE t1
=============================================================================
