----------------------------- MODULE FenWatches -----------------------------
(***************************************************************************)
(* The tables of the FEN backend (backend_fen.go: fen) and the methods     *)
(* that work on them, with the event port they keep in step with.  t has   *)
(*   dirs, watches, byUser, recurse   the keys of the maps of that name    *)
(*   owners   path -> the paths given to Add() it is associated for        *)
(*   info     path -> the object last associated at it                     *)
(*   renames, renameIndex   the ring of renamed directories                *)
(*   assoc    path -> [obj, dir], the associations of the port             *)
(*   queue    the events the port has and Get has not returned             *)
(* A stat is [obj, changed]: the object a path had, and whether it has     *)
(* been changed since.                                                     *)
(***************************************************************************)
EXTENDS FileTree

CONSTANT RingSize \* entries of the ring of renames: 10 in the code

ASSUME RingAssumption == RingSize \in Nat \ {0}

NoInfo == [no |-> 0, dir |-> FALSE]
NoStat == [obj |-> NoInfo, changed |-> FALSE]
StatOf(p) == [obj |-> fs[p], changed |-> FALSE]

-----------------------------------------------------------------------------
(* The event port.  An association is good for one event; the package that *)
(* wraps it knows a path (held) until Get returns its event.               *)
-----------------------------------------------------------------------------
Event(p, act, dir) == [path |-> p, act |-> act, dir |-> dir, held |-> TRUE]
Queued(t, p) == \E k \in DOMAIN t.queue : t.queue[k].path = p /\ t.queue[k].held
PathIsWatched(t, p) == p \in DOMAIN t.assoc \/ Queued(t, p)

(* Something happens to objects: each association of theirs has its event. *)
Fire(t, os, act) ==
  LET ps == {p \in DOMAIN t.assoc : t.assoc[p].obj \in os}
      fired == SetToSeq(ps)
  IN  [t EXCEPT !.assoc = Restrict(@, DOMAIN @ \ ps),
                !.queue = @ \o [k \in DOMAIN fired |-> Event(fired[k], act, t.assoc[fired[k]].dir)]]

(* dissociatePathLocked for each of ps; an event in the queue stays there. *)
dissociate(t, ps) ==
  [t EXCEPT !.assoc = Restrict(@, DOMAIN @ \ ps),
            !.queue = [k \in DOMAIN @ |-> IF @[k].path \in ps THEN [@[k] EXCEPT !.held = FALSE] ELSE @[k]]]

(* associateFileLocked, for a path that exists and a port that is open: an *)
(* object that is not what the stat says has its event at once.            *)
associateFileLocked(t, p, stat) ==
  LET t1 == dissociate(t, {p})
      t2 == [t1 EXCEPT !.assoc = Assign(@, p, [obj |-> fs[p], dir |-> stat.obj.dir])]
  IN  IF stat.changed \/ fs[p] # stat.obj
      THEN [t1 EXCEPT !.queue = Append(@, Event(p, "modified", stat.obj.dir))]
      ELSE t2

-----------------------------------------------------------------------------
OwnersOf(t, p) == IF p \in DOMAIN t.owners THEN t.owners[p] ELSE {}
InfoOf(t, p) == IF p \in DOMAIN t.info THEN t.info[p] ELSE NoInfo
recursiveOwnersFor(t, p) == OwnersOf(t, p) \cap t.recurse

tracksDirectory(t, p, o) == InfoOf(t, p) = o

(* Mutant: the owners of a path are replaced. *)
associateOwnedReplaces(t, p, stat, owners, scan) ==
  LET t1 == associateFileLocked(t, p, stat)
      t2 == IF stat.obj.dir THEN [t1 EXCEPT !.info = Assign(@, p, stat.obj)] ELSE t1
  IN  [t2 EXCEPT !.dirs = IF stat.obj.dir /\ scan THEN @ \cup {p} ELSE @,
                 !.owners = Assign(@, p, owners)]

associateOwned(t, p, stat, owners, scan) ==
  LET t1 == associateFileLocked(t, p, stat)
      t2 == IF stat.obj.dir THEN [t1 EXCEPT !.info = Assign(@, p, stat.obj)] ELSE t1
  IN  [t2 EXCEPT !.dirs = IF stat.obj.dir /\ scan THEN @ \cup {p} ELSE @,
                 !.owners = Assign(@, p, OwnersOf(t, p) \cup owners)]

addUserWatch(t, p, recursive) ==
  [t EXCEPT !.byUser = @ \cup {p},
            !.watches = IF p \in t.dirs THEN @ ELSE @ \cup {p},
            !.recurse = IF recursive THEN @ \cup {p} ELSE @]

directoryNeedsScan(t, p) ==
  InfoOf(t, p).dir /\ (p \in t.byUser \/ recursiveOwnersFor(t, p) # {})

(* Forget some paths; the associations of gone are dissociated.            *)
Forget(t, ps, gone) ==
  dissociate([t EXCEPT !.dirs = @ \ ps, !.watches = @ \ ps,
                       !.owners = Restrict(@, DOMAIN @ \ ps), !.info = Restrict(@, DOMAIN @ \ ps)], gone)

(* Mutant: a directory that was upgraded to a scan keeps it. *)
releaseOwnerKeepsScan(t, u) ==
  LET t1 == [t EXCEPT !.byUser = @ \ {u}, !.recurse = @ \ {u}, !.watches = @ \ {u},
                      !.owners = [p \in DOMAIN @ |-> @[p] \ {u}]]
      unused == {p \in DOMAIN t1.owners : t1.owners[p] = {}}
  IN  Forget(t1, unused, unused)

releaseOwner(t, u) ==
  LET t1 == [t EXCEPT !.byUser = @ \ {u}, !.recurse = @ \ {u}, !.watches = @ \ {u},
                      !.owners = [p \in DOMAIN @ |-> @[p] \ {u}]]
      unused == {p \in DOMAIN t1.owners : t1.owners[p] = {}}
      t2 == [t1 EXCEPT !.dirs = {p \in @ : p \in DOMAIN t1.owners => directoryNeedsScan(t1, p)}]
  IN  Forget(t2, unused, unused)

(* Mutant: below a directory that moved, the associations stay. *)
dropPhysicalTablesOnly(t, p, tree) ==
  LET Hit(q) == q = p \/ (tree /\ Under(q, p))
      ps     == {q \in DOMAIN t.owners : Hit(q)}
      t1     == Forget(t, ps, {})
  IN  [t1 EXCEPT !.byUser = {u \in @ : ~Hit(u)}, !.recurse = {u \in @ : ~Hit(u)}]

dropPhysical(t, p, tree) ==
  LET Hit(q) == q = p \/ (tree /\ Under(q, p))
      ps     == {q \in DOMAIN t.owners : Hit(q)}
      t1     == Forget(t, ps, ps \ {p})
  IN  [t1 EXCEPT !.byUser = {u \in @ : ~Hit(u)}, !.recurse = {u \in @ : ~Hit(u)}]

rememberRename(t, p) ==
  IF (OwnersOf(t, p) \ {p}) \cap t.recurse # {} /\ p \in DOMAIN t.info
  THEN [t EXCEPT !.renames[t.renameIndex] = t.info[p], !.renameIndex = (@ + 1) % RingSize]
  ELSE t

Remembered(t, o) == {k \in DOMAIN t.renames : t.renames[k] = o}

(* takeRename empties the newest entry of the object.                      *)
takeRename(t, o) ==
  LET k == CHOOSE i \in Remembered(t, o) : \A j \in Remembered(t, o) :
             (t.renameIndex + RingSize - 1 - i) % RingSize <= (t.renameIndex + RingSize - 1 - j) % RingSize
  IN  [t EXCEPT !.renames[k] = NoInfo]

WatchesInit ==
  [dirs |-> {}, watches |-> {}, byUser |-> {}, recurse |-> {}, owners |-> <<>>, info |-> <<>>,
   renames |-> [k \in 0..(RingSize - 1) |-> NoInfo], renameIndex |-> 0,
   assoc |-> <<>>, queue |-> <<>>]
=============================================================================
