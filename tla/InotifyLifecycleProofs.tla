------------------------ MODULE InotifyLifecycleProofs ------------------------
(***************************************************************************)
(* For any number of callers, whatever the consumer and the kernel do: the *)
(* descriptor of a closed inotify instance is never used, and each step of *)
(* the life cycle is a step of the abstract watcher or none.               *)
(***************************************************************************)
EXTENDS MCInotifyLifecycle, TLAPS

(* Once the file is closed, isClosed says so to whoever would add or       *)
(* remove a watch, and the tables hold none that an event could end.       *)
ClosedIsSafe ==
  /\ at \in [Callers -> {"idle", "check", "lock", "work", "return", "closeLock", "closeDone",
                         "fileLock", "closeFile", "wait"}]
  /\ \A c \in Callers : at[c] \in {"fileLock", "closeFile", "wait"} => done
  /\ file = "closed" => done /\ ~watching
  /\ ~misused

LEMMA InitIsSafe == Init => ClosedIsSafe
BY DEF Init, ClosedIsSafe

LEMMA CallIsSafe ==
  ASSUME ClosedIsSafe, NEW c \in Callers, NEW k \in Kinds, Call(c, k)
  PROVE  ClosedIsSafe'
BY DEF ClosedIsSafe, Call, Go

LEMMA CallerIsSafe ==
  ASSUME ClosedIsSafe, NEW c \in Callers, CallerStep(c)
  PROVE  ClosedIsSafe'
<1> USE DEF ClosedIsSafe, Go
<1>1. CASE Check(c)
  BY <1>1 DEF Check
<1>2. CASE LockCall(c)
  BY <1>2 DEF LockCall
<1>3. CASE Work(c)
  <2>1. done' = done /\ file' = file /\ at' = [at EXCEPT ![c] = "return"]
    BY <1>3 DEF Work
  <2>2. CASE done
    BY <1>3, <2>1, <2>2 DEF Work
  <2>3. CASE ~done
    <3>1. file # "closed"
      BY <2>3
    <3>2. misused' = (misused \/ (file = "closed" /\ op[c] # "list"))
      BY <1>3, <2>3 DEF Work
    <3> QED BY <2>1, <3>1, <3>2
  <2> QED BY <2>2, <2>3
<1>4. CASE Return(c)
  BY <1>4 DEF Return
<1>5. CASE CloseLock(c)
  BY <1>5 DEF CloseLock
<1>6. CASE CloseDone(c)
  BY <1>6 DEF CloseDone
<1>7. CASE CloseFile(c)
  BY <1>7 DEF CloseFile
<1>8. CASE CloseWait(c)
  BY <1>8 DEF CloseWait
<1> QED BY <1>1, <1>2, <1>3, <1>4, <1>5, <1>6, <1>7, <1>8 DEF CallerStep

LEMMA ReaderIsSafe ==
  ASSUME ClosedIsSafe, ReaderStep
  PROVE  ClosedIsSafe'
<1>1. at' = at /\ done' = done /\ file' = file
  BY DEF ReaderStep, ReaderOnly, callVars, ReaderLock, Prepare, Read, Handle, Expire, Deliver,
         GiveUp, NextEvent, CloseErrors, CloseEvents, CloseResp
<1>2. CASE Handle
  BY <1>1, <1>2 DEF ClosedIsSafe, Handle
<1>3. CASE Expire
  BY <1>1, <1>3 DEF ClosedIsSafe, Expire
<1>4. CASE watching' = watching /\ misused' = misused
  BY <1>1, <1>4 DEF ClosedIsSafe
<1>5. Handle \/ Expire \/ (watching' = watching /\ misused' = misused)
  BY DEF ReaderStep, ReaderLock, Prepare, Read, Deliver, GiveUp, NextEvent, CloseErrors,
         CloseEvents, CloseResp
<1> QED BY <1>2, <1>3, <1>4, <1>5

LEMMA NextIsSafe == ClosedIsSafe /\ [Next]_vars => ClosedIsSafe'
<1> SUFFICES ASSUME ClosedIsSafe, [Next]_vars PROVE ClosedIsSafe'
  OBVIOUS
<1>1. ASSUME NEW c \in Callers, NEW k \in Kinds, Call(c, k)
      PROVE  ClosedIsSafe'
  BY <1>1, CallIsSafe
<1>2. ASSUME NEW c \in Callers, CallerStep(c)
      PROVE  ClosedIsSafe'
  BY <1>2, CallerIsSafe
<1>3. CASE ReaderStep
  BY <1>3, ReaderIsSafe
<1>4. CASE Arrive \/ Receive \/ StopReceiving
  BY <1>4 DEF ClosedIsSafe, Arrive, Receive, StopReceiving, callVars
<1>5. CASE UNCHANGED vars
  BY <1>5 DEF ClosedIsSafe, vars, callVars
<1> QED BY <1>1, <1>2, <1>3, <1>4, <1>5 DEF Next

(* No call and no event uses the inotify descriptor once Close has closed  *)
(* it, when another watcher may own its number (Close,                     *)
(* backend_inotify.go:461-469; isClosed, shared.go:46-53).                 *)
THEOREM DescriptorNeverReused == Spec => []DescriptorNotReused
<1>1. ClosedIsSafe => DescriptorNotReused
  BY DEF ClosedIsSafe, DescriptorNotReused
<1> QED BY <1>1, InitIsSafe, NextIsSafe, PTL DEF Spec

-----------------------------------------------------------------------------
(* The refinement: where a caller is says what its abstract call is, and   *)
(* where the reader is, which channels are closed.                         *)
-----------------------------------------------------------------------------
CallerInv(c) ==
  \/ at[c] = "idle" /\ op[c] = "none" /\ res[c] = "none"
  \/ at[c] \in {"check", "lock", "work"} /\ op[c] \in Kinds \ {"close"} /\ res[c] = "pending"
  \/ at[c] \in {"closeLock", "closeDone"} /\ op[c] = "close" /\ res[c] = "pending"
  \/ at[c] \in {"fileLock", "closeFile", "wait"} /\ op[c] = "close" /\ res[c] = "done"
  \/ /\ at[c] = "return" /\ op[c] \in Kinds /\ res[c] \in {"done", "refused"}
     /\ op[c] = "close" /\ res[c] = "done" => errorsClosed /\ eventsClosed

ReaderInv ==
  /\ <<errorsClosed, eventsClosed, doneResp>> =
       CASE reader = "closeEvents" -> <<TRUE, FALSE, FALSE>>
         [] reader = "closeResp" -> <<TRUE, TRUE, FALSE>>
         [] reader = "gone" -> <<TRUE, TRUE, TRUE>>
         [] OTHER -> <<FALSE, FALSE, FALSE>>
  /\ reader \in {"closeErrors", "closeEvents", "closeResp", "gone"} => done

RefineInv ==
  /\ ClosedIsSafe
  /\ op \in [Callers -> Kinds \cup {"none"}] /\ res \in [Callers -> {"none", "pending", "done", "refused"}]
  /\ \A c \in Callers : CallerInv(c)
  /\ ReaderInv

LEMMA InitRefines == Init => RefineInv /\ Promised!LifecycleInit
<1> SUFFICES ASSUME Init PROVE RefineInv /\ Promised!LifecycleInit
  OBVIOUS
<1>1. RefineInv
  BY InitIsSafe DEF Init, RefineInv, CallerInv, ReaderInv
<1>2. Promised!LifecycleInit
  BY DEF Init, Promised!LifecycleInit, Promised!Idle
<1> QED BY <1>1, <1>2

(* The abstract step of each concrete one, or none.                        *)
Mapped == [Promised!LifecycleNext]_(Promised!abstractVars)

LEMMA Stutter ==
  ASSUME op' = op, res' = res, done' = done, errorsClosed' = errorsClosed,
         eventsClosed' = eventsClosed
  PROVE  Mapped
BY DEF Mapped, Promised!abstractVars

LEMMA CallRefines ==
  ASSUME RefineInv, NEW c \in Callers, NEW k \in Kinds, Call(c, k)
  PROVE  RefineInv' /\ Mapped
<1>1. ClosedIsSafe'
  BY CallIsSafe DEF RefineInv
<1>2. RefineInv'
  BY <1>1 DEF RefineInv, ClosedIsSafe, CallerInv, ReaderInv, Call, Go, Answer, Kinds, readerVars, chanVars
<1>3. Promised!Begin(c, k)
  BY DEF RefineInv, ClosedIsSafe, CallerInv, Call, Go, Answer, Promised!Begin, Promised!Idle, chanVars
<1>4. Mapped
  BY <1>3 DEF Mapped, Promised!LifecycleNext, Promised!Ops, Kinds
<1> QED BY <1>2, <1>4

LEMMA CallerKeeps ==
  ASSUME RefineInv, NEW c \in Callers, CallerStep(c)
  PROVE  RefineInv'
<1>1. ClosedIsSafe'
  BY CallerIsSafe DEF RefineInv
<1>2. /\ errorsClosed' = errorsClosed /\ eventsClosed' = eventsClosed /\ doneResp' = doneResp
      /\ reader' = reader /\ (done' = done \/ done' = TRUE)
  <2> USE DEF readerVars, chanVars
  <2>1. CASE Check(c) \/ LockCall(c) \/ Work(c) \/ Return(c)
    BY <2>1 DEF Check, LockCall, Work, Return
  <2>2. CASE CloseLock(c) \/ CloseDone(c) \/ CloseFile(c) \/ CloseWait(c)
    BY <2>2 DEF CloseLock, CloseDone, CloseFile, CloseWait
  <2> QED BY <2>1, <2>2 DEF CallerStep
<1>3. ReaderInv'
  BY <1>2 DEF RefineInv, ReaderInv
<1>4. /\ op' \in [Callers -> Kinds \cup {"none"}]
      /\ res' \in [Callers -> {"none", "pending", "done", "refused"}]
      /\ \A d \in Callers \ {c} : at'[d] = at[d] /\ op'[d] = op[d] /\ res'[d] = res[d]
  BY DEF RefineInv, ClosedIsSafe, CallerStep, Check, LockCall, Work, Return, CloseLock, CloseDone,
         CloseFile, CloseWait, Go, Answer
<1>5. CallerInv(c)'
  <2> USE DEF RefineInv, ClosedIsSafe, CallerInv, Go, Answer
  <2>1. CASE Check(c) \/ LockCall(c) \/ CloseLock(c)
    BY <1>2, <2>1 DEF Check, LockCall, CloseLock
  <2>2. CASE Work(c)
    BY <1>2, <2>2 DEF Work
  <2>3. CASE Return(c) \/ CloseDone(c) \/ CloseFile(c)
    BY <1>2, <2>3 DEF Return, CloseDone, CloseFile
  <2>4. CASE CloseWait(c)
    BY <1>2, <2>4 DEF CloseWait, ReaderInv
  <2> QED BY <2>1, <2>2, <2>3, <2>4 DEF CallerStep
<1>6. \A d \in Callers \ {c} : CallerInv(d)'
  BY <1>2, <1>4 DEF RefineInv, CallerInv
<1> QED BY <1>1, <1>3, <1>4, <1>5, <1>6 DEF RefineInv

LEMMA CallerRefines ==
  ASSUME RefineInv, NEW c \in Callers, CallerStep(c)
  PROVE  Mapped
<1> USE DEF RefineInv, ClosedIsSafe, CallerInv, Go, Answer
<1>1. CASE (Check(c) /\ ~done) \/ LockCall(c) \/ CloseLock(c) \/ CloseFile(c) \/ CloseWait(c)
  BY <1>1, Stutter DEF Check, LockCall, CloseLock, CloseFile, CloseWait, chanVars
<1>2. CASE Check(c) /\ done
  <2>1. Promised!Decide(c)
    BY <1>2 DEF Check, chanVars, Promised!Decide
  <2> QED BY <2>1 DEF Mapped, Promised!LifecycleNext
<1>3. CASE Work(c)
  <2>1. Promised!Decide(c)
    BY <1>3 DEF Work, chanVars, Promised!Decide
  <2> QED BY <2>1 DEF Mapped, Promised!LifecycleNext
<1>4. CASE CloseDone(c)
  <2>1. /\ op' = op /\ op[c] = "close" /\ res[c] = "pending" /\ done' = TRUE
        /\ errorsClosed' = errorsClosed /\ eventsClosed' = eventsClosed
    BY <1>4 DEF CloseDone, chanVars
  <2>2. res' = [res EXCEPT ![c] = IF done THEN "refused" ELSE "done"]
    BY <1>4 DEF CloseDone
  <2>3. Promised!Decide(c)
    BY <2>1, <2>2 DEF Promised!Decide
  <2> QED BY <2>3 DEF Mapped, Promised!LifecycleNext
<1>5. CASE Return(c)
  <2>1. Promised!Return(c)
    BY <1>5 DEF Return, chanVars, Promised!Return, Promised!Idle
  <2> QED BY <2>1 DEF Mapped, Promised!LifecycleNext
<1> QED BY <1>1, <1>2, <1>3, <1>4, <1>5 DEF CallerStep

LEMMA ReaderRefines ==
  ASSUME RefineInv, ReaderStep
  PROVE  RefineInv' /\ Mapped
<1>1. ClosedIsSafe'
  BY ReaderIsSafe DEF RefineInv
<1>2. at' = at /\ op' = op /\ res' = res /\ done' = done /\ file' = file
  BY DEF ReaderStep, ReaderOnly, callVars, ReaderLock, Prepare, Read, Handle, Expire, Deliver,
         GiveUp, NextEvent, CloseErrors, CloseEvents, CloseResp
<1>3. ReaderInv'
  <2> USE DEF RefineInv, ClosedIsSafe, ReaderInv
  <2>1. CASE ReaderLock \/ Prepare \/ Handle \/ Expire \/ NextEvent
    BY <1>2, <2>1 DEF ReaderLock, Prepare, Handle, Expire, NextEvent, chanVars
  <2>2. CASE Read \/ Deliver \/ GiveUp
    BY <1>2, <2>2 DEF Read, Deliver, GiveUp, chanVars
  <2>3. CASE CloseErrors \/ CloseEvents \/ CloseResp
    BY <1>2, <2>3 DEF CloseErrors, CloseEvents, CloseResp
  <2> QED BY <2>1, <2>2, <2>3 DEF ReaderStep
<1>4. (errorsClosed' = errorsClosed \/ errorsClosed' = TRUE) /\ (eventsClosed' = eventsClosed \/ eventsClosed' = TRUE)
  <2>1. CASE CloseErrors \/ CloseEvents \/ CloseResp
    BY <2>1 DEF CloseErrors, CloseEvents, CloseResp
  <2>2. CASE ~(CloseErrors \/ CloseEvents \/ CloseResp)
    BY <2>2 DEF ReaderStep, chanVars, ReaderLock, Prepare, Read, Handle, Expire, Deliver, GiveUp, NextEvent
  <2> QED BY <2>1, <2>2
<1>5. RefineInv'
  BY <1>1, <1>2, <1>3, <1>4 DEF RefineInv, CallerInv
<1>6. CASE CloseEvents
  <2>1. Promised!End
    BY <1>2, <1>6 DEF CloseEvents, RefineInv, ReaderInv, Promised!End
  <2> QED BY <1>5, <2>1 DEF Mapped, Promised!LifecycleNext
<1>7. CASE CloseErrors
  <2>1. ~eventsClosed /\ ~eventsClosed'
    BY <1>7 DEF CloseErrors, RefineInv, ReaderInv
  <2>2. Mapped
    BY <1>2, <2>1 DEF Mapped, Promised!abstractVars
  <2> QED BY <1>5, <2>2
<1>8. CASE errorsClosed' = errorsClosed /\ eventsClosed' = eventsClosed
  BY <1>2, <1>5, <1>8, Stutter
<1>9. CloseEvents \/ CloseErrors \/ (errorsClosed' = errorsClosed /\ eventsClosed' = eventsClosed)
  BY DEF ReaderStep, chanVars, ReaderLock, Prepare, Read, Handle, Expire, Deliver, GiveUp, NextEvent,
         CloseResp
<1> QED BY <1>6, <1>7, <1>8, <1>9

LEMMA NextRefines == RefineInv /\ [Next]_vars => RefineInv' /\ Mapped
<1> SUFFICES ASSUME RefineInv, [Next]_vars PROVE RefineInv' /\ Mapped
  OBVIOUS
<1>1. ASSUME NEW c \in Callers, NEW k \in Kinds, Call(c, k)
      PROVE  RefineInv' /\ Mapped
  BY <1>1, CallRefines
<1>2. ASSUME NEW c \in Callers, CallerStep(c)
      PROVE  RefineInv' /\ Mapped
  BY <1>2, CallerKeeps, CallerRefines
<1>3. CASE ReaderStep
  BY <1>3, ReaderRefines
<1>4. CASE Arrive \/ Receive \/ StopReceiving \/ UNCHANGED vars
  <2>1. /\ at' = at /\ op' = op /\ res' = res /\ done' = done /\ reader' = reader
        /\ errorsClosed' = errorsClosed /\ eventsClosed' = eventsClosed /\ doneResp' = doneResp
    BY <1>4 DEF Arrive, Receive, StopReceiving, vars, callVars, readerVars, chanVars
  <2>2. ClosedIsSafe'
    BY NextIsSafe DEF RefineInv
  <2>3. RefineInv'
    BY <2>1, <2>2 DEF RefineInv, CallerInv, ReaderInv
  <2> QED BY <2>1, <2>3, Stutter
<1> QED BY <1>1, <1>2, <1>3, <1>4 DEF Next

(* RC-019, RC-020: every behaviour of the inotify life cycle is one of the *)
(* abstract watcher: each call takes effect at one moment, the channels    *)
(* are closed once and only by a Close, which returns after that (Close,   *)
(* backend_inotify.go:457-480; readEvents and its deferred function,       *)
(* backend_inotify.go:762-767; shared.go).                                 *)
THEOREM LifecycleRefined == Spec => Promised!LifecycleSteps
<1>1. RefineInv /\ [Next]_vars => [Promised!LifecycleNext]_(Promised!abstractVars)
  BY NextRefines DEF Mapped
<1> QED BY <1>1, InitRefines, NextRefines, PTL DEF Spec, Promised!LifecycleSteps
=============================================================================
