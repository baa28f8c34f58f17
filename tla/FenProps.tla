------------------------------ MODULE FenProps ------------------------------
(***************************************************************************)
(* What the FEN backend must keep true.  RC-nnn names the rule of          *)
(* RECURSIVE_WATCH_CONTRACT.md a property formalises.                      *)
(***************************************************************************)
EXTENDS Fen

(* An association is good for one event: whenever the mutex is free, a     *)
(* path that is owned is associated, or its event has still to be handled. *)
NeverDeaf == Unlocked /\ ~closed => DOMAIN tb.owners \subseteq DOMAIN tb.assoc \cup Pending

Quiet == Unlocked /\ tb.queue = <<>> /\ batch = <<>> /\ ~closed

(* RC-003, RC-004, RC-013: once every event is handled each directory      *)
(* below a recursive root is associated, scanned and owned by the root;    *)
(* each entry of a directory that is watched alone is associated for it.   *)
Covered ==
  Quiet /\ calm => \A u \in tb.byUser :
    /\ u \in tb.recurse => \A d \in DirsUnder(u) :
         d \in DOMAIN tb.assoc \cap tb.dirs /\ u \in OwnersOf(tb, d)
    /\ u \notin tb.recurse => \A q \in Entries(u) : q \in DOMAIN tb.assoc /\ u \in OwnersOf(tb, q)

(* RC-012, RC-014: once every event is handled an association is on the    *)
(* object its path names, and what users watch exists.                     *)
Attached ==
  Quiet /\ calm => /\ \A p \in DOMAIN tb.assoc : p \in DOMAIN fs /\ tb.assoc[p].obj = fs[p]
           /\ tb.byUser \subseteq DOMAIN fs

(* RC-008, RC-009, RC-018: what nobody owns is not associated, so an event *)
(* that outlives the last owner has not restored it; and once every event  *)
(* is handled the owners of a path are users that still watch, each at the *)
(* path or above it.                                                       *)
OwnersSound ==
  /\ Unlocked /\ calm => DOMAIN tb.assoc \subseteq DOMAIN tb.owners
  /\ Quiet /\ calm =>
           /\ \A p \in DOMAIN tb.owners : tb.owners[p] # {} /\ tb.owners[p] \subseteq tb.byUser
           /\ \A p \in DOMAIN tb.owners : \A u \in tb.owners[p] : Under(p, u)
           /\ tb.recurse \subseteq tb.byUser

(* A directory is scanned for new entries if and only if a user asked for  *)
(* it or some recursive root owns it: not for longer than that, even if it *)
(* was upgraded for a while, or by an AddWith that failed.                 *)
ScanExact ==
  Quiet /\ calm => tb.dirs = {p \in DOMAIN tb.owners : directoryNeedsScan(tb, p)}

(* RC-017: a failed AddWith leaves the tables as they were. *)
RollbackExact ==
  [][calm /\ req # NoRequest /\ Error /\ req.rollback => Tables(tb') = req.before]_vars

(* RC-020: nothing is associated with a port that is closed, although      *)
(* events that Get returned before are handled after it.                   *)
ClosedPort == port = "closed" => tb.assoc = <<>> /\ tb.queue = <<>> /\ Unlocked

(* RC-019, RC-021: whether or not anyone receives, as long as a call of     *)
(* Close has not returned somebody can take a step that brings it closer:  *)
(* the holder of the mutex, readEvents, or a closer.                       *)
CloseNeverStuck ==
  (\E c \in Closers : at[c] \in {"lock", "wait"}) =>
    ENABLED (Holder \/ Reader \/ \E c \in Closers : CloseStep(c))
=============================================================================
