--------------------------- MODULE InotifyLifecycle ---------------------------
(***************************************************************************)
(* The life of an inotify watcher (backend_inotify.go, shared.go): calls   *)
(* of several goroutines, the goroutine readEvents, the mutex, the channel *)
(* done, the inotify file, and a consumer that may stop receiving.  What   *)
(* the calls do to the tables is in Inotify; here it only matters whether  *)
(* the tables hold a watch, that is, whether handling an event may use the *)
(* file descriptor.                                                        *)
(***************************************************************************)
EXTENDS Integers, Sequences

CONSTANTS
  Callers,   \* goroutines that use the watcher
  Capacity,  \* of the channel Events
  MaxCalls,  \* bound on the calls of all of them
  MaxEvents  \* bound on the events the kernel has for the watcher

ASSUME LifecycleAssumption ==
  /\ {Capacity, MaxCalls, MaxEvents} \subseteq Nat
  /\ "reader" \notin Callers /\ "nobody" \notin Callers

VARIABLES
  at,        \* caller -> where it is in its call
  op, res,   \* caller -> the call it makes, and what it will return
  mu,        \* who holds w.mu: a caller, "reader" or "nobody"
  done,      \* the channel done is closed
  file,      \* "open" or "closed": w.inotifyFile
  watching,  \* w.watches holds a watch
  reader,    \* where readEvents is
  sends,     \* what it has still to send for the event it handled
  moves,     \* w.pendingMoves is not empty
  arrived,   \* events the kernel has made
  unread,    \* events the kernel has and readEvents has not handled
  inEvents,  \* events in the buffer of Events
  receiving, \* someone receives from both channels
  errorsClosed, eventsClosed, doneResp, \* channels that are closed
  misused,   \* a descriptor was used after the file was closed
  calls      \* calls made so far

callVars == <<at, op, res, calls>>
readerVars == <<reader, sends, moves>>
chanVars == <<inEvents, errorsClosed, eventsClosed, doneResp>>
vars == <<callVars, readerVars, chanVars, mu, done, file, watching, arrived, unread, receiving, misused>>

Kinds == {"add", "remove", "list", "close"}

Init ==
  /\ at = [c \in Callers |-> "idle"]
  /\ op = [c \in Callers |-> "none"] /\ res = [c \in Callers |-> "none"]
  /\ mu = "nobody" /\ done = FALSE /\ file = "open" /\ watching = FALSE
  /\ reader = "prepare" /\ sends = <<>> /\ moves = FALSE
  /\ arrived = 0 /\ unread = 0 /\ inEvents = 0 /\ receiving = TRUE
  /\ errorsClosed = FALSE /\ eventsClosed = FALSE /\ doneResp = FALSE
  /\ misused = FALSE /\ calls = 0

Lock(who) == mu = "nobody" /\ mu' = who
Unlock(who) == mu = who /\ mu' = "nobody"
Go(c, place) == at' = [at EXCEPT ![c] = place]
Answer(c, r) == res' = [res EXCEPT ![c] = r]

-----------------------------------------------------------------------------
(* AddWith, Remove and WatchList.                                          *)
-----------------------------------------------------------------------------
Call(c, kind) ==
  /\ at[c] = "idle" /\ calls < MaxCalls
  /\ calls' = calls + 1
  /\ op' = [op EXCEPT ![c] = kind]
  /\ Answer(c, "pending")
  /\ Go(c, IF kind = "close" THEN "closeLock" ELSE "check")
  /\ UNCHANGED <<readerVars, chanVars, mu, done, file, watching, arrived, unread, receiving, misused>>

(* The first isClosed, without the mutex. *)
Check(c) ==
  /\ at[c] = "check"
  /\ IF done THEN Answer(c, "refused") /\ Go(c, "return")
     ELSE UNCHANGED res /\ Go(c, "lock")
  /\ UNCHANGED <<op, calls, readerVars, chanVars, mu, done, file, watching, arrived, unread, receiving, misused>>

LockCall(c) ==
  /\ at[c] = "lock"
  /\ Lock(c)
  /\ Go(c, "work")
  /\ UNCHANGED <<op, res, calls, readerVars, chanVars, done, file, watching, arrived, unread, receiving, misused>>

(* Mutant: no second isClosed. *)
WorkUnchecked(c) ==
  /\ at[c] = "work"
  /\ Answer(c, "done")
  /\ watching' \in (IF op[c] = "add" THEN {watching, TRUE} ELSE {watching})
  /\ misused' = (misused \/ (file = "closed" /\ op[c] = "add"))
  /\ Unlock(c) /\ Go(c, "return")
  /\ UNCHANGED <<op, calls, readerVars, chanVars, done, file, arrived, unread, receiving>>

(* The second isClosed, the work, and the deferred unlock. *)
Work(c) ==
  /\ at[c] = "work"
  /\ IF done THEN Answer(c, "refused") /\ UNCHANGED <<watching, misused>>
     ELSE /\ Answer(c, "done")
          /\ watching' \in CASE op[c] = "add" -> {watching, TRUE}
                             [] op[c] = "remove" -> {watching, FALSE}
                             [] OTHER -> {watching}
          /\ misused' = (misused \/ (file = "closed" /\ op[c] # "list"))
  /\ Unlock(c) /\ Go(c, "return")
  /\ UNCHANGED <<op, calls, readerVars, chanVars, done, file, arrived, unread, receiving>>

Return(c) ==
  /\ at[c] = "return"
  /\ Go(c, "idle")
  /\ op' = [op EXCEPT ![c] = "none"] /\ Answer(c, "none")
  /\ UNCHANGED <<calls, readerVars, chanVars, mu, done, file, watching, arrived, unread, receiving, misused>>

-----------------------------------------------------------------------------
(* Close: shared.close, which says whether the watcher was closed already, *)
(* then the file and the tables, then the wait for readEvents.             *)
-----------------------------------------------------------------------------
CloseLock(c) ==
  /\ at[c] \in {"closeLock", "fileLock"}
  /\ Lock(c)
  /\ Go(c, IF at[c] = "closeLock" THEN "closeDone" ELSE "closeFile")
  /\ UNCHANGED <<op, res, calls, readerVars, chanVars, done, file, watching, arrived, unread, receiving, misused>>

CloseDone(c) ==
  /\ at[c] = "closeDone"
  /\ IF done THEN Answer(c, "refused") /\ Go(c, "return")
     ELSE Answer(c, "done") /\ Go(c, "fileLock")
  /\ done' = TRUE
  /\ Unlock(c)
  /\ UNCHANGED <<op, calls, readerVars, chanVars, file, watching, arrived, unread, receiving, misused>>

(* Mutant: the tables keep their watches when the file is closed. *)
CloseFileKeepsWatches(c) ==
  /\ at[c] = "closeFile"
  /\ file' = "closed" /\ unread' = 0
  /\ Unlock(c) /\ Go(c, "wait")
  /\ UNCHANGED <<op, res, calls, readerVars, chanVars, done, watching, arrived, receiving, misused>>

CloseFile(c) ==
  /\ at[c] = "closeFile"
  /\ file' = "closed" /\ watching' = FALSE /\ unread' = 0
  /\ Unlock(c) /\ Go(c, "wait")
  /\ UNCHANGED <<op, res, calls, readerVars, chanVars, done, arrived, receiving, misused>>

CloseWait(c) ==
  /\ at[c] = "wait" /\ doneResp
  /\ Go(c, "return")
  /\ UNCHANGED <<op, res, calls, readerVars, chanVars, mu, done, file, watching, arrived, unread, receiving, misused>>

-----------------------------------------------------------------------------
(* readEvents.                                                             *)
-----------------------------------------------------------------------------
ReaderOnly == UNCHANGED <<callVars, done, file, arrived, receiving>>

(* The mutex for prepareRead, handleEvent and expirePendingMoves. *)
ReaderLock ==
  /\ reader \in {"prepare", "handle", "expire"}
  /\ Lock("reader")
  /\ reader' = CASE reader = "prepare" -> "preparing"
                 [] reader = "handle" -> "handling"
                 [] reader = "expire" -> "expiring"
  /\ UNCHANGED <<sends, moves, chanVars, watching, unread, misused>> /\ ReaderOnly

Prepare ==
  /\ reader = "preparing"
  /\ reader' = IF done THEN "closeErrors" ELSE "read"
  /\ Unlock("reader")
  /\ UNCHANGED <<sends, moves, chanVars, watching, unread, misused>> /\ ReaderOnly

(* Read returns an event, the deadline of a pending move, ErrClosed, or    *)
(* some other error (a short read is one), which is reported.              *)
Read ==
  /\ reader = "read"
  /\ \/ /\ file = "open" /\ unread > 0
        /\ unread' = unread - 1 /\ reader' = "handle" /\ UNCHANGED sends
     \/ file = "open" /\ moves /\ reader' = "expire" /\ UNCHANGED <<unread, sends>>
     \/ file = "closed" /\ reader' = "closeErrors" /\ UNCHANGED <<unread, sends>>
     \/ file = "open" /\ reader' = "report" /\ sends' = <<"error">> /\ UNCHANGED unread
  /\ UNCHANGED <<moves, chanVars, mu, watching, misused>> /\ ReaderOnly

(* handleEvent does not ask whether the watcher is closed: it finds no     *)
(* watch in tables that were emptied.                                      *)
Outcomes == {<<>>, <<"event">>, <<"event", "event">>, <<"error">>}

Handle ==
  /\ reader = "handling"
  /\ reader' = "send"
  /\ IF watching
     THEN /\ sends' \in Outcomes /\ moves' \in BOOLEAN /\ watching' \in BOOLEAN
          /\ misused' = (misused \/ file = "closed")
     ELSE sends' = <<>> /\ UNCHANGED <<moves, watching, misused>>
  /\ Unlock("reader")
  /\ UNCHANGED <<chanVars, unread>> /\ ReaderOnly

Expire ==
  /\ reader = "expiring"
  /\ reader' = "prepare"
  /\ IF done THEN UNCHANGED <<moves, watching, misused>>
     ELSE moves' = FALSE /\ watching' \in {watching, FALSE}
          /\ misused' = (misused \/ (watching /\ file = "closed"))
  /\ Unlock("reader")
  /\ UNCHANGED <<sends, chanVars, unread>> /\ ReaderOnly

(* sendError and sendEvent: whichever of the two cases is ready. *)
Deliver ==
  /\ reader \in {"send", "report"} /\ sends # <<>>
  /\ IF Head(sends) = "error" THEN receiving /\ UNCHANGED inEvents
     ELSE \/ receiving /\ inEvents = 0 /\ UNCHANGED inEvents
          \/ inEvents < Capacity /\ inEvents' = inEvents + 1
  /\ sends' = Tail(sends)
  /\ UNCHANGED <<reader, moves, mu, errorsClosed, eventsClosed, doneResp, watching, unread, misused>>
  /\ ReaderOnly

(* Mutant: a delivery that waits does not look at done. *)
GiveUpNever == FALSE

GiveUp ==
  /\ reader \in {"send", "report"} /\ sends # <<>> /\ done
  /\ reader' = "closeErrors" /\ sends' = <<>>
  /\ UNCHANGED <<moves, chanVars, mu, watching, unread, misused>> /\ ReaderOnly

(* The next event of the buffer, or the next read. *)
NextEvent ==
  /\ reader \in {"send", "report"} /\ sends = <<>>
  /\ \/ reader' = "prepare" /\ UNCHANGED unread
     \/ reader = "send" /\ unread > 0 /\ unread' = unread - 1 /\ reader' = "handle"
  /\ UNCHANGED <<sends, moves, chanVars, mu, watching, misused>> /\ ReaderOnly

(* The deferred function: Errors, Events, doneResp. *)
CloseErrors ==
  /\ reader = "closeErrors"
  /\ errorsClosed' = TRUE /\ reader' = "closeEvents"
  /\ UNCHANGED <<sends, moves, inEvents, eventsClosed, doneResp, mu, watching, unread, misused>> /\ ReaderOnly
CloseEvents ==
  /\ reader = "closeEvents"
  /\ eventsClosed' = TRUE /\ reader' = "closeResp"
  /\ UNCHANGED <<sends, moves, inEvents, errorsClosed, doneResp, mu, watching, unread, misused>> /\ ReaderOnly
CloseResp ==
  /\ reader = "closeResp"
  /\ doneResp' = TRUE /\ reader' = "gone"
  /\ UNCHANGED <<sends, moves, inEvents, errorsClosed, eventsClosed, mu, watching, unread, misused>> /\ ReaderOnly

-----------------------------------------------------------------------------
(* The kernel and the consumer.                                            *)
-----------------------------------------------------------------------------
Arrive ==
  /\ file = "open" /\ watching /\ arrived < MaxEvents
  /\ arrived' = arrived + 1 /\ unread' = unread + 1
  /\ UNCHANGED <<callVars, readerVars, chanVars, mu, done, file, watching, receiving, misused>>

Receive ==
  /\ receiving /\ inEvents > 0
  /\ inEvents' = inEvents - 1
  /\ UNCHANGED <<callVars, readerVars, errorsClosed, eventsClosed, doneResp, mu, done, file, watching, arrived, unread, receiving, misused>>

StopReceiving ==
  /\ receiving /\ receiving' = FALSE
  /\ UNCHANGED <<callVars, readerVars, chanVars, mu, done, file, watching, arrived, unread, misused>>

-----------------------------------------------------------------------------
CallerStep(c) ==
  \/ Check(c) \/ LockCall(c) \/ Work(c) \/ Return(c)
  \/ CloseLock(c) \/ CloseDone(c) \/ CloseFile(c) \/ CloseWait(c)

ReaderStep ==
  \/ ReaderLock \/ Prepare \/ Read \/ Handle \/ Expire \/ Deliver \/ GiveUp \/ NextEvent
  \/ CloseErrors \/ CloseEvents \/ CloseResp

Next ==
  \/ \E c \in Callers, kind \in Kinds : Call(c, kind)
  \/ \E c \in Callers : CallerStep(c)
  \/ ReaderStep
  \/ Arrive \/ Receive \/ StopReceiving

(***************************************************************************)
(* A goroutine that can take a step takes one, and sync.Mutex is fair to   *)
(* those that wait for it.  Nothing is assumed of the consumer, of the     *)
(* kernel or of who makes calls.                                           *)
(***************************************************************************)
Spec ==
  /\ Init /\ [][Next]_vars
  /\ WF_vars(ReaderStep)
  /\ \A c \in Callers : WF_vars(CallerStep(c)) /\ SF_vars(LockCall(c)) /\ SF_vars(CloseLock(c))
=============================================================================
