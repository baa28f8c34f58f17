---------------------------- MODULE KqueueWatches ----------------------------
(***************************************************************************)
(* The tables of the kqueue backend (backend_kqueue.go: watches) and the   *)
(* methods that work on them, with the descriptors the kernel has.  t has  *)
(*   path     path -> descriptor                                           *)
(*   wd       descriptor -> [name, obj, all, skip]                         *)
(*   seen     the paths that are known to exist                            *)
(*   byUser, target, recurse   the keys of the maps of that name           *)
(*   owners   path -> the paths given to Add() it is watched for           *)
(*   open     descriptor -> [obj, all, notes], of the kernel               *)
(*   queue    the descriptors with notes, the oldest first                 *)
(* obj is the object the descriptor is open on; all, in open, whether      *)
(* every event is asked for or only the end of the object and, in wd, for  *)
(* a directory, what is known of that (dirFlags with NOTE_WRITE); skip is  *)
(* skipRename; notes are what kevent() has not returned.  The kernel and   *)
(* the two maps need not agree: a descriptor can be open before wd has it, *)
(* and a path can lead to one that is closed.  There are no symbolic       *)
(* links, so the target of a user watch is its path; byDir is Dir of the   *)
(* names.                                                                  *)
(***************************************************************************)
EXTENDS FileTree

WatchesInit ==
  [path |-> <<>>, wd |-> <<>>, seen |-> {}, byUser |-> {}, target |-> {}, recurse |-> {}, owners |-> <<>>,
   open |-> <<>>, queue |-> <<>>]

(* The ok of byPath. *)
Watched(t, p) == p \in DOMAIN t.path /\ t.path[p] \in DOMAIN t.wd
byPath(t, p) == t.wd[t.path[p]]
OwnersOf(t, p) == IF p \in DOMAIN t.owners THEN t.owners[p] ELSE {}

-----------------------------------------------------------------------------
(* The kernel: open, EV_ADD of a descriptor that has been added before,    *)
(* and close, which takes its notes along.  A number that is closed is     *)
(* free for the next open().                                               *)
-----------------------------------------------------------------------------
NewFd(t) == CHOOSE n \in 1..(Cardinality(DOMAIN t.open) + 1) : n \notin DOMAIN t.open
Opened(t, p, all) == [t EXCEPT !.open = Assign(@, NewFd(t), [obj |-> fs[p], all |-> all, notes |-> {}])]
Asked(t, fd, all) == [t EXCEPT !.open[fd].all = all]
Closed(t, fd) == [t EXCEPT !.open = Restrict(@, DOMAIN @ \ {fd}), !.queue = SelectSeq(@, LAMBDA f : f # fd)]

(* The descriptors open on an object that asked for it take a note and     *)
(* queue up.  What happens at once are pairs of an object and a note, in   *)
(* order.                                                                  *)
Fire(t, happened) ==
  LET Heard(f) == {k \in DOMAIN happened :
                     happened[k][1] = t.open[f].obj /\ (t.open[f].all \/ happened[k][2] # "write")}
      Noted(f) == [t.open[f] EXCEPT !.notes = @ \cup {happened[k][2] : k \in Heard(f)}]
      Woken(k) == {f \in DOMAIN t.open : t.open[f].notes = {} /\ k \in Heard(f) /\ \A j \in Heard(f) : k <= j}
  IN  [t EXCEPT !.open = [f \in DOMAIN @ |-> Noted(f)],
                !.queue = @ \o FlattenSeq([k \in DOMAIN happened |-> SetToSeq(Woken(k))])]

-----------------------------------------------------------------------------
(* add. *)
add(t, p, fd) ==
  [t EXCEPT !.path = Assign(@, p, fd),
            !.wd = Assign(@, fd, [name |-> p, obj |-> t.open[fd].obj, all |-> FALSE, skip |-> FALSE])]

updateDirFlags(t, p, all) == IF Watched(t, p) THEN [t EXCEPT !.wd[t.path[p]].all = all] ELSE t

(* Mutant: the descriptor is not taken out of wd. *)
removeKeepsDescriptor(t, fd, p) ==
  [t EXCEPT !.path = Restrict(@, DOMAIN @ \ {p}), !.owners = Restrict(@, DOMAIN @ \ {p}),
            !.byUser = @ \ {p}, !.seen = @ \ {p}]

(* remove: the path, and the descriptor it led to when it was looked up. *)
remove(t, fd, p) ==
  [t EXCEPT !.path = Restrict(@, DOMAIN @ \ {p}), !.wd = Restrict(@, DOMAIN @ \ {fd}),
            !.owners = Restrict(@, DOMAIN @ \ {p}), !.byUser = @ \ {p}, !.seen = @ \ {p}]

(* Mutant: what nobody gave to Add() is not listed. *)
listPathsOfUsers(t) == t.byUser

(* listPaths(false). *)
listPaths(t) == DOMAIN t.path

(* watchesInDir. *)
watchesInDir(t, p) == {q \in {t.wd[f].name : f \in DOMAIN t.wd} \ t.byUser : Dir(q) = p}

markSeen(t, p) == [t EXCEPT !.seen = @ \cup {p}]
addUserWatch(t, p) == [t EXCEPT !.byUser = @ \cup {p}, !.target = @ \cup {p}]

addOwners(t, ps, us) ==
  [t EXCEPT !.owners = [p \in DOMAIN @ \cup ps |-> OwnersOf(t, p) \cup (IF p \in ps THEN us ELSE {})]]

(* addOwnerTree for each of us. *)
addOwnerTree(t, p, us, recursive) ==
  LET ps == {q \in DOMAIN t.path : IF recursive THEN Under(q, p) ELSE q = p \/ Dir(q) = p}
  IN  IF us = {} THEN t ELSE addOwners(t, ps, us)

(* Mutant: of the roots only the parent owns what is new. *)
recursiveOwnersForEntries(t, p) == {u \in t.recurse \cap t.target : Dir(p) = u}

isUnderRecurse(t, p) == \E u \in t.recurse \cap t.target : Under(p, u)
recursiveOwnersFor(t, p) == {u \in t.recurse \cap t.target : Under(p, u)}

Without(t, us) == [t EXCEPT !.byUser = @ \ us, !.target = @ \ us, !.recurse = @ \ us]
Unused(t) == {p \in DOMAIN t.owners : t.owners[p] = {}}

(* Mutant: what is owned below the path is not released. *)
releaseOwnerOfItself(t, u) ==
  LET us == {u} \cap t.target
  IN  [Without(t, us) EXCEPT !.owners = [p \in DOMAIN @ |-> IF p = u THEN @[p] \ us ELSE @[p]]]

(* The user watch goes; what nobody owns then is Unused. *)
releaseOwner(t, u) ==
  LET us == {u} \cap t.target
  IN  [Without(t, us) EXCEPT !.owners = [p \in DOMAIN @ |-> @[p] \ us]]

removeRootsUnder(t, p) == Without(t, {u \in t.target : Under(u, p)})

(* The path where the directory o, now found at p, is watched. *)
RenamedFrom(t, p, o) ==
  {q \in DOMAIN t.path \ ({p} \cup t.byUser \cup t.recurse) :
     Watched(t, q) /\ byPath(t, q).obj = o /\ o.dir /\ isUnderRecurse(t, q)}

(* Mutant: what is watched below the directory stays behind. *)
MovingAlone(t, old) == {p \in DOMAIN t.path : p = old}

Moving(t, old) == {p \in DOMAIN t.path : Under(p, old)}
CanRebase(t, old, new) == \A p \in Moving(t, old) :
  Rebased(p, old, new) \in DOMAIN t.path => Rebased(p, old, new) \in Moving(t, old)

(* rebase, if CanRebase: the user watches below old go.  With an owner at  *)
(* the destination the watches move, and the directory's own rename will   *)
(* be skipped; without one they are Unused.                                *)
rebase(t, old, new, us) ==
  LET moving == Moving(t, old)
      gone == {u \in t.target : Under(u, old)}
      t1 == [Without(t, gone) EXCEPT !.owners = [p \in DOMAIN @ |-> IF Under(p, old) THEN @[p] ELSE @[p] \ gone]]
      owners == us \cap t1.recurse
      Back(p) == IF Under(p, new) THEN Rebased(p, new, old) ELSE p
      To(p) == IF Under(p, old) THEN Rebased(p, old, new) ELSE p
      to == {To(p) : p \in moving}
      Moved(f) == t.wd[f].name \in moving /\ t.path[t.wd[f].name] = f
      Named(f) == IF Moved(f) THEN [t1.wd[f] EXCEPT !.name = To(@), !.skip = @ \/ f = t.path[old]] ELSE t1.wd[f]
  IN  IF owners = {}
      THEN [t1 EXCEPT !.owners = [p \in DOMAIN @ \cup moving |-> IF p \in moving THEN {} ELSE @[p]],
                      !.seen = {p \in @ : ~Under(p, old)}]
      ELSE [t1 EXCEPT !.path = [p \in (DOMAIN @ \ moving) \cup to |-> IF p \in to THEN @[Back(p)] ELSE @[p]],
                      !.wd = [f \in DOMAIN @ |-> Named(f)],
                      !.owners = [p \in (DOMAIN @ \ moving) \cup to |-> IF p \in to THEN owners ELSE @[p]],
                      !.seen = {To(p) : p \in @}]

(* Mutant: the flag is not reset. *)
consumeSkippedRenameAgain(t, fd) == t

(* consumeSkippedRename, for a flag that is set. *)
consumeSkippedRename(t, fd) == [t EXCEPT !.wd[fd].skip = FALSE]
=============================================================================
