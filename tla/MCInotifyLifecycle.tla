-------------------------- MODULE MCInotifyLifecycle --------------------------
(***************************************************************************)
(* The promises of WatcherLifecycle, kept by InotifyLifecycle, and what is *)
(* particular to this backend.                                             *)
(***************************************************************************)
EXTENDS InotifyLifecycle

(* The abstract state: the watcher is closed when done is, the channels    *)
(* have ended when both are closed.                                        *)
Promised == INSTANCE WatcherLifecycle WITH
  phase <- IF done THEN "closed" ELSE "open",
  ended <- errorsClosed /\ eventsClosed,
  call <- [c \in Callers |-> [op |-> op[c], res |-> res[c]]]

(* RC-019, RC-020, RC-021: the calls, the reader and a consumer that may   *)
(* stop receiving keep to the life cycle every backend promises.           *)
KeepsPromise == Promised!LifecycleSpec

(* The comment of Close (backend_inotify.go:465-467): no watch is added to *)
(* or removed from the descriptor once it is closed, when the kernel may   *)
(* have given it to another watcher.                                       *)
DescriptorNotReused == ~misused

(* RC-021: Close, and every other call, returns although nobody receives.  *)
CallsReturn == \A c \in Callers : at[c] # "idle" ~> at[c] = "idle"
=============================================================================
