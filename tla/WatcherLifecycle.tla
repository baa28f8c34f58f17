--------------------------- MODULE WatcherLifecycle ---------------------------
(***************************************************************************)
(* What every backend promises about the life of a Watcher (fsnotify.go:   *)
(* Add, Remove, WatchList, Close; RECURSIVE_WATCH_CONTRACT.md RC-019 to    *)
(* RC-021), whatever it does inside:                                       *)
(*   - a call takes effect at one moment between its start and its return, *)
(*     on an open watcher or not at all (ErrClosed, or nothing to return); *)
(*   - one Close closes the watcher, and does not return before the        *)
(*     channels are closed; another one finds it closed;                   *)
(*   - the channels are closed only after that, and once;                  *)
(*   - every call returns, whether or not anyone receives.                 *)
(***************************************************************************)
CONSTANT Callers

VARIABLES
  phase, \* "open" or "closed"
  ended, \* the channels are closed
  call   \* caller -> [op, res], its call and how far that is

abstractVars == <<phase, ended, call>>

Ops == {"add", "remove", "list", "close"}
Idle == [op |-> "none", res |-> "none"]
Calls == {Idle} \cup [op : Ops, res : {"pending", "done", "refused"}]

LifecycleInit ==
  /\ phase = "open"
  /\ ended = FALSE
  /\ call = [c \in Callers |-> Idle]

Begin(c, op) ==
  /\ call[c] = Idle
  /\ call' = [call EXCEPT ![c] = [op |-> op, res |-> "pending"]]
  /\ UNCHANGED <<phase, ended>>

(* The moment the call takes effect, or finds the watcher closed. *)
Decide(c) ==
  /\ call[c].res = "pending"
  /\ call' = [call EXCEPT ![c].res = IF phase = "open" THEN "done" ELSE "refused"]
  /\ phase' = IF call[c].op = "close" THEN "closed" ELSE phase
  /\ UNCHANGED ended

End ==
  /\ phase = "closed" /\ ~ended
  /\ ended' = TRUE
  /\ UNCHANGED <<phase, call>>

Return(c) ==
  /\ call[c].res \in {"done", "refused"}
  /\ call[c] = [op |-> "close", res |-> "done"] => ended
  /\ call' = [call EXCEPT ![c] = Idle]
  /\ UNCHANGED <<phase, ended>>

LifecycleNext ==
  \/ \E c \in Callers, op \in Ops : Begin(c, op)
  \/ \E c \in Callers : Decide(c) \/ Return(c)
  \/ End

LifecycleSteps == LifecycleInit /\ [][LifecycleNext]_abstractVars

LifecycleSpec ==
  /\ LifecycleSteps
  /\ WF_abstractVars(End)
  /\ \A c \in Callers : WF_abstractVars(Decide(c)) /\ WF_abstractVars(Return(c))
=============================================================================
