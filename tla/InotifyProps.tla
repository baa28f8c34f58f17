---------------------------- MODULE InotifyProps ----------------------------
(***************************************************************************)
(* What the inotify backend must keep true.  RC-nnn names the rule of      *)
(* RECURSIVE_WATCH_CONTRACT.md a property formalises.                      *)
(***************************************************************************)
EXTENDS Inotify

(* Shape of the state: every table maps paths, descriptors and users of    *)
(* the model, the reader is at one of its four places, and other processes *)
(* leave a tree.  What users watch is in Path; the name of a watch need    *)
(* not be, since the watch of a directory that came to lie less deep with  *)
(* one above it, of which nobody heard, keeps its name, and what is moved  *)
(* into that directory is named after it.                                  *)
TypeOK ==
  /\ \A d \in DOMAIN tbl.wd : d \in Nat /\ tbl.wd[d].path \in Seq(Names)
  /\ DOMAIN tbl.path \subseteq Seq(Names) /\ DOMAIN tbl.owners \subseteq DOMAIN tbl.path
  /\ tbl.recurse \subseteq tbl.byUser /\ tbl.byUser \subseteq Path
  /\ \A c \in DOMAIN pending : c \in 1..MaxFsOps /\ pending[c] \in Seq(Names)
  /\ reader \in {"prepare", "read", "handle", "done"}
  /\ reader = "handle" => buf # <<>>
  /\ DOMAIN fs \subseteq Path /\ \A p \in DOMAIN fs : Dirs(Dir(p))

(* RC-008, RC-009, RC-026: a path is kept watched only by users that are   *)
(* in byUser, and a user keeps only its own path, or paths below it if it  *)
(* is recursive.                                                           *)
OwnershipSound ==
  /\ DOMAIN tbl.target = tbl.byUser
  /\ \A u \in tbl.byUser : tbl.target[u] = u
  /\ \A p \in DOMAIN tbl.owners : \A u \in tbl.owners[p] :
       /\ u \in tbl.byUser
       /\ IF u \in tbl.recurse THEN Under(p, u) ELSE p = u

(***************************************************************************)
(* The inductive invariant behind OwnershipSound.  A path is a sequence,   *)
(* of whatever components: the names in events are not looked into.        *)
(***************************************************************************)
IsPath(p) == p \in Seq(Range(p))

IsTable(t) ==
  t \in [wd : {t.wd}, path : {t.path}, byUser : {t.byUser}, target : {t.target},
         recurse : {t.recurse}, owners : {t.owners}, panicked : {t.panicked}]

IsWatch(w) == w \in [path : {w.path}, byUser : {w.byUser}, recurse : {w.recurse}]

UsersSound(t) ==
  /\ DOMAIN t.target = t.byUser /\ t.recurse \subseteq t.byUser
  /\ \A u \in t.byUser : IsPath(u) /\ t.target[u] = u

PathsSound(t) ==
  /\ \A p \in DOMAIN t.path : IsPath(p)
  /\ \A d \in DOMAIN t.wd : IsWatch(t.wd[d]) /\ IsPath(t.wd[d].path)

Owns(t, u, p) == u \in t.byUser /\ IF u \in t.recurse THEN Under(p, u) ELSE p = u

OwnersSound(t) == \A p \in DOMAIN t.owners : \A u \in t.owners[p] : Owns(t, u, p)

(* An owned path is listed, or rebase would not see it.                    *)
OwnedIsListed(t) == DOMAIN t.owners \subseteq DOMAIN t.path

TableSound(t) ==
  IsTable(t) /\ UsersSound(t) /\ PathsSound(t) /\ OwnersSound(t) /\ OwnedIsListed(t)

(* A walk visits paths below the recursive roots it registers them for.    *)
TodoSound(todo, us) ==
  /\ todo \in Seq(Range(todo))
  /\ \A i \in Range(todo) : IsPath(i.path) /\ \A u \in us : Under(i.path, u)

WalkSound(w, t) ==
  w # NoWalk =>
    /\ w \in [by : {w.by}, root : {w.root}, owners : {w.owners}, todo : {w.todo},
              regs : {w.regs}, before : {w.before}]
    /\ w.owners \subseteq t.recurse
    /\ w.todo # <<>> /\ TodoSound(w.todo, w.owners)

(* OwnershipSound with what it takes to be preserved by every step.        *)
SoundTables ==
  /\ TableSound(tbl) /\ WalkSound(walk, tbl)
  /\ \A c \in DOMAIN pending : IsPath(pending[c])

(* path and wd are inverse to each other: a path is never left with a      *)
(* descriptor that has no watch, which updateFlags would dereference.      *)
TablesInverse ==
  /\ \A p \in DOMAIN tbl.path :
       tbl.path[p] \in DOMAIN tbl.wd /\ tbl.wd[tbl.path[p]].path = p
  /\ \A d \in DOMAIN tbl.wd : PathWd(tbl, tbl.wd[d].path) = d

(* What is owned is watched, and what a user added is owned by that user;  *)
(* only while AddWith walks may its root still lack its watch.             *)
OwnedIsWatched ==
  /\ DOMAIN tbl.owners \subseteq DOMAIN tbl.path
  /\ \A p \in DOMAIN tbl.owners : tbl.owners[p] # {}
  /\ ~Walking => \A u \in tbl.byUser : u \in OwnersOf(tbl, u)

(* RC-018: what is watched is owned.  One window is open: a recursive root *)
(* deleted while a directory moved out of it is still a pending move       *)
(* leaves that subtree watched for nobody until the move expires.          *)
NoOrphanWatch ==
  \A p \in DOMAIN tbl.path \ DOMAIN tbl.owners :
    \E c \in DOMAIN pending : Under(p, pending[c])

(* The flags that decide how an event is handled agree with the owners.    *)
FlagsAgree ==
  \A d \in DOMAIN tbl.wd :
    /\ tbl.wd[d].byUser = FlaggedByUser(tbl, tbl.wd[d].path)
    /\ tbl.wd[d].recurse = FlaggedRecurse(tbl, tbl.wd[d].path)

(* RC-018: the kernel holds no watch that the tables have forgotten: it    *)
(* would never be removed.                                                 *)
NoLeakedWatch == DOMAIN kwatch \subseteq DOMAIN tbl.wd

(* A watch the kernel has dropped is still in the tables only while the    *)
(* event that says so is on its way (and the queue never overflowed).      *)
DroppedIsAnnounced ==
  \A d \in DOMAIN tbl.wd \ DOMAIN kwatch :
    \E e \in ToSet(queue) \cup ToSet(buf) : e.wd = d /\ e.kind \in {"ignored", "delete_self"}

(***************************************************************************)
(* Nothing is left to handle: the kernel has no event, the reader waits    *)
(* without a deadline, no call is under way.                               *)
(***************************************************************************)
Quiescent ==
  /\ queue = <<>> /\ tail = <<>> /\ doomed = {} /\ pending = NoFunction
  /\ reader = "read" /\ ~Walking /\ ~closing

(* RC-003, RC-004, RC-013, RC-015: once everything is handled, every       *)
(* directory below a recursive root is watched, for that root.             *)
Covered ==
  Quiescent => \A u \in tbl.recurse : \A p \in DOMAIN fs :
    IsDir(p) /\ Under(p, u) /\ IsDir(u)
      => /\ u \in OwnersOf(tbl, p)
         /\ Watched(tbl, p) /\ tbl.path[p] \in DOMAIN kwatch
         /\ kwatch[tbl.path[p]] = fs[p]

(* RC-012, RC-014, RC-016: once everything is handled, a watch is on the   *)
(* object that its path names, so nothing moved away or deleted is         *)
(* reported under an old name, and no user path outlives its object.       *)
NamesCurrent ==
  Quiescent =>
    /\ \A d \in DOMAIN tbl.wd :
         /\ d \in DOMAIN kwatch
         /\ tbl.wd[d].path \in DOMAIN fs /\ fs[tbl.wd[d].path] = kwatch[d]
    /\ tbl.byUser \subseteq DOMAIN fs

(* RC-008, RC-011, RC-016: a path stays watched for its user, on the       *)
(* object it was added for, until that user removes it or the path no      *)
(* longer names that object; no event about another object ends it.        *)
PromisesKept ==
  ~Walking => \A p \in DOMAIN promise :
    p \in tbl.byUser /\ Watched(tbl, p) /\ tbl.path[p] \in DOMAIN kwatch
      /\ kwatch[tbl.path[p]] = promise[p]

(* RC-017: when the walk of AddWith or of a new subtree fails, the users   *)
(* and the owner sets are what they were when it began.                    *)
OwnershipOf(t) == [users |-> t.byUser, targets |-> t.target, recurse |-> t.recurse, owners |-> t.owners]
RollbackExact ==
  [][(Walking /\ Abort) => OwnershipOf(tbl') = OwnershipOf(walk.before)]_vars

(* RC-019: no call and no event dereferences a watch that is not there.    *)
NoPanic == ~tbl.panicked

(* RC-019: a call that waited for the mutex while the watcher was closed   *)
(* leaves nothing behind in it.                                            *)
ClosedIsEmpty == closed => tbl = newWatches /\ DOMAIN kwatch = {}

(* RC-012, RC-014: when users and other processes pause for good, every    *)
(* event is handled and no move stays pending.                             *)
EventuallySettled == <>[](Settled \/ closing)

(* RC-020: once Close has begun, readEvents returns.                       *)
ReaderEnds == closing ~> (reader = "done")
=============================================================================
