------------------------------- MODULE Windows -------------------------------
(***************************************************************************)
(* The Windows backend (backend_windows.go): goroutines that call AddWith, *)
(* Remove and Close, and the one I/O goroutine, readEvents, which alone    *)
(* works on the watches.  The I/O goroutine takes a packet from the port   *)
(* and does what it asks for piece by piece (todo).  Between two pieces    *)
(* Close, the consumer or another process can interfere, except before a   *)
(* piece that only works on what is the goroutine's own: it looks neither  *)
(* at the file tree nor at w.closed and sends nothing, so nothing that     *)
(* happens between it and the piece before can be told from what happens   *)
(* after it.                                                               *)
(***************************************************************************)
EXTENDS WindowsWatches

CONSTANTS
  Callers,        \* goroutines that use the watcher
  PlainPaths,     \* paths they add without "\..."
  RecursivePaths, \* paths they add with "\..."
  MaxCalls        \* bound on their calls

ASSUME CallsAssumption ==
  /\ MaxCalls \in Nat /\ PlainPaths \cup RecursivePaths \subseteq Path
  /\ "nobody" \notin Callers

VARIABLES
  io,        \* what the I/O goroutine alone writes: see WindowsWatches
  todo,      \* the pieces of the packet it has still to do
  req,       \* the local variables of its addWatch or remWatch
  closeCh,   \* it has taken the close request
  input,     \* the channel input, with room for one
  request,   \* the close request is in its channel
  closed,    \* w.closed
  done, closeDone, \* channels that are closed
  at,        \* caller -> where it is in its call
  reply,     \* caller -> what is in the reply channel of its call
  calls,     \* calls made
  receiving  \* someone receives from Events and Errors

loopVars == <<todo, req, closeCh>>
closeVars == <<closed, done, closeDone>>
vars == <<treeVars, io, loopVars, input, request, closeVars, at, reply, calls, receiving>>

NoRequest == [c |-> "nobody"]

Read(id) == [do |-> "read", id |-> id]
Bury(id, starting) == [do |-> "bury", id |-> id, starting |-> starting]
Unroot(p, isEvent, processing) ==
  [do |-> "unroot", path |-> p, isEvent |-> isEvent, processing |-> processing]
Handle(id, change) == [do |-> "handle", id |-> id, change |-> change]
Forget(id, change) == [do |-> "forget", id |-> id, change |-> change]
Piece(what) == [do |-> what]
Send == Piece("send")
ReadAndReport(id) == <<Read(id), Piece("report")>>
If(condition, pieces) == IF condition THEN pieces ELSE <<>>

-----------------------------------------------------------------------------
(* The callers.                                                            *)
-----------------------------------------------------------------------------
Requests ==
  [op : {"add"}, path : PlainPaths, rec : {FALSE}] \cup [op : {"add"}, path : RecursivePaths, rec : {TRUE}]
    \cup [op : {"remove"}, path : PlainPaths \cup RecursivePaths, rec : {FALSE}]
    \cup [op : {"remove"}, path : RecursivePaths, rec : {TRUE}]

(* The input: what is asked, and the reply channel. *)
Request(c, q) == [c |-> c, op |-> q.op, path |-> q.path, rec |-> q.rec]

Go(c, place) == at' = [at EXCEPT ![c] = [pc |-> place]]
CallerOnly == UNCHANGED <<treeVars, loopVars, receiving>>

(* AddWith and Remove: the first isClosed, the channel input, the wakeup,  *)
(* the reply.                                                              *)
Call(c, q) ==
  /\ at[c].pc = "idle" /\ calls < MaxCalls /\ calls' = calls + 1
  /\ IF closed THEN UNCHANGED at
     ELSE at' = [at EXCEPT ![c] = [pc |-> "put", q |-> q]]
  /\ UNCHANGED <<io, input, request, closeVars, reply>> /\ CallerOnly

Put(c) ==
  /\ at[c].pc = "put"
  /\ \/ input = <<>> /\ input' = <<Request(c, at[c].q)>> /\ Go(c, "wake")
     \/ done /\ UNCHANGED input /\ Go(c, "idle")
  /\ UNCHANGED <<io, request, closeVars, reply, calls>> /\ CallerOnly

Wakeup(c) ==
  /\ at[c].pc = "wake"
  /\ IF io.port = "open" THEN io' = Post(io, Wake) /\ Go(c, "wait")
     ELSE UNCHANGED io /\ Go(c, "idle")
  /\ UNCHANGED <<input, request, closeVars, reply, calls>> /\ CallerOnly

Answered(c) ==
  /\ at[c].pc = "wait" /\ (reply[c] # "none" \/ done)
  /\ Go(c, "idle") /\ reply' = [reply EXCEPT ![c] = "none"]
  /\ UNCHANGED <<io, input, request, closeVars, calls>> /\ CallerOnly

(* Close: only the first one does more than wait for closeDone. *)
CloseMark(c) ==
  /\ at[c].pc = "idle" /\ calls < MaxCalls /\ calls' = calls + 1
  /\ closed' = TRUE
  /\ Go(c, IF closed THEN "closeSecond" ELSE "closeDone")
  /\ UNCHANGED <<io, input, request, done, closeDone, reply>> /\ CallerOnly

CloseFirst(c) ==
  /\ \/ at[c].pc = "closeDone" /\ done' = TRUE /\ UNCHANGED <<io, request, closeDone>> /\ Go(c, "closeRequest")
     \/ at[c].pc = "closeRequest" /\ request' = TRUE /\ UNCHANGED <<io, done, closeDone>> /\ Go(c, "closeWake")
     \/ /\ at[c].pc = "closeWake" /\ UNCHANGED <<request, done, closeDone>> /\ Go(c, "closeReply")
        /\ io' = IF io.port = "open" THEN Post(io, Wake) ELSE io
     \/ /\ at[c].pc = "closeReply" /\ io.port = "closed"
        /\ closeDone' = TRUE /\ UNCHANGED <<io, request, done>> /\ Go(c, "idle")
  /\ UNCHANGED <<input, closed, reply, calls>> /\ CallerOnly

CloseSecond(c) ==
  /\ at[c].pc = "closeSecond" /\ closeDone
  /\ Go(c, "idle")
  /\ UNCHANGED <<io, input, request, closeVars, reply, calls>> /\ CallerOnly

-----------------------------------------------------------------------------
(* The I/O goroutine takes a packet, and looks for a close request first   *)
(* (pollClose).                                                            *)
-----------------------------------------------------------------------------
IoOnly == UNCHANGED <<treeVars, closeVars, at, calls, receiving>>

CanTake == todo = <<>> /\ io.port = "open" /\ io.queue # <<>>
Taken == [io EXCEPT !.queue = Tail(@)]
Closing == closeCh \/ request

(* An answer that nobody waits for any more is left in its channel. *)
Answer(c, r) == reply' = IF at[c].pc \in {"wake", "wait"} THEN [reply EXCEPT ![c] = r] ELSE reply

(* clearWatch, and closeWatch, on every watch of some. *)
clearWatches(x, ids) ==
  [x EXCEPT !.watch = [id \in DOMAIN @ |-> IF id \in ids THEN [@[id] EXCEPT !.names = <<>>, !.mask = {}] ELSE @[id]]]
closeWatches(x, ids) ==
  [x EXCEPT !.watches = Restrict(@, {o \in DOMAIN @ : @[o] \notin ids}), !.handle = Restrict(@, DOMAIN @ \ ids)]

InTable(x) == Range(x.watches)
Unread(x) == {id \in InTable(x) : x.watch[id].active = NoRead}

(* Mutant: the reads are left to end by themselves. *)
beginClosePassive(x) == clearWatches([x EXCEPT !.roots = <<>>], InTable(x))

(* stopRead on every watch: one that has no read is closed at once. *)
beginClose(x) ==
  LET y == closeWatches(clearWatches([x EXCEPT !.roots = <<>>], InTable(x)), Unread(x))
      stopped == {op \in x.reading : op.id \in InTable(x) /\ op = x.watch[op.id].active}
  IN  EndReads(y, [op \in stopped |-> Packet(op, "aborted", <<>>)])

(* Mutant: the port is closed although cancelled reads have not ended. *)
finishCloseAtOnce(x) == [closeWatches(x, Unread(x)) EXCEPT !.port = "closed", !.queue = <<>>]

finishClose(x) ==
  IF x.pending # {} THEN x
  ELSE [closeWatches(x, Unread(x)) EXCEPT !.port = "closed", !.queue = <<>>]

(* A read has ended. *)
Dequeue(x, op) ==
  LET y == [x EXCEPT !.pending = @ \ {op}]
  IN  IF y.watch[op.id].active = op THEN [y EXCEPT !.watch[op.id].active = NoRead] ELSE y

TakeClosing ==
  LET op     == Head(io.queue).op
      polled == IF closeCh THEN Taken ELSE beginClose(Taken)
  IN  /\ CanTake /\ Closing
      /\ closeCh' = TRUE /\ request' = FALSE
      /\ IF op = NoRead
         THEN /\ io' = finishClose(polled)
              /\ input' = <<>>
              /\ IF input = <<>> THEN UNCHANGED reply ELSE Answer(input[1].c, "closed")
         ELSE io' = finishClose(stopRead(Dequeue(polled, op), op.id)) /\ UNCHANGED <<input, reply>>
      /\ UNCHANGED <<todo, req>> /\ IoOnly

(* A wakeup without a request: an earlier one has taken it. *)
TakeNothing ==
  /\ CanTake /\ ~Closing /\ Head(io.queue) = Wake /\ input = <<>>
  /\ io' = Taken
  /\ UNCHANGED <<loopVars, input, request, reply>> /\ IoOnly

(* addWatch, as far as its startRead. *)
addWatch(q) ==
  LET dir     == IF IsDir(q.path) THEN q.path ELSE Dir(q.path)
      name    == IF IsDir(q.path) THEN <<>> ELSE <<Last(q.path)>>
      created == fs[dir] \notin DOMAIN io.watches
      x       == Ensured(Taken, fs[dir], dir, q.rec)
      id      == x.watches[fs[dir]]
      w       == x.watch[id]
      flags   == {"user"} \cup (IF created THEN {"provisional"} ELSE {})
      hadUser == "user" \in w.mask
  IN  /\ io' = [x EXCEPT !.watch[id] =
                  IF name # <<>> THEN SetName(w, name, NameMask(w, name) \cup flags)
                  ELSE [w EXCEPT !.mask = @ \cup flags, !.recurse = @ \/ (q.rec /\ ~hadUser)]]
      /\ req' = [c |-> q.c, path |-> q.path, id |-> id, name |-> name, parent |-> 0,
                 monitor |-> q.rec /\ ~hadUser, oldMask |-> w.mask, oldRecurse |-> ~created /\ w.recurse]
      /\ todo' = <<Read(id), Piece("added")>>

(* remWatch, as far as removeRecursiveRoot. *)
remWatch(q) ==
  LET dir == IF IsDir(q.path) THEN q.path ELSE Dir(q.path)
      id  == io.watches[fs[dir]]
  IN  /\ io' = Taken
      /\ req' = [c |-> q.c, path |-> q.path, id |-> id,
                 name |-> IF IsDir(q.path) THEN <<>> ELSE <<Last(q.path)>>]
      /\ todo' = <<Unroot(q.path, FALSE, 0), Piece("drop"), Read(id), Piece("removed")>>

(* addWatch or remWatch returns an error at once. *)
Refused(q) ==
  IF q.path \notin DOMAIN fs THEN TRUE
  ELSE IF q.op = "add" THEN q.rec /\ ~IsDir(q.path)
  ELSE LET dir == IF IsDir(q.path) THEN q.path ELSE Dir(q.path)
       IN  fs[dir] \notin DOMAIN io.watches \/ (q.rec /\ ~io.watch[io.watches[fs[dir]]].recurse)

TakeInput ==
  /\ CanTake /\ ~Closing /\ Head(io.queue) = Wake /\ input # <<>>
  /\ input' = <<>>
  /\ LET q == input[1]
     IN  IF closed \/ Refused(q)
         THEN io' = Taken /\ Answer(q.c, IF closed THEN "closed" ELSE "error") /\ UNCHANGED <<todo, req>>
         ELSE (IF q.op = "add" THEN addWatch(q) ELSE remWatch(q)) /\ UNCHANGED reply
  /\ UNCHANGED <<closeCh, request>> /\ IoOnly

Unroots(p, processing) ==
  [k \in 1..Cardinality(RootsAt(io, p)) |-> Unroot(RootsUnder(io, p)[k], TRUE, processing)]

(* A read has ended: what to do depends on how. *)
TakeRead ==
  /\ CanTake /\ ~Closing /\ Head(io.queue) # Wake
  /\ LET packet == Head(io.queue)
         id     == packet.op.id
     IN  /\ io' = Dequeue(Taken, packet.op)
         /\ todo' =
              IF packet.op \notin io.pending THEN <<Send>>
              ELSE If(io.watch[id].active # packet.op, <<Send>>) \o
                CASE packet.err = "more data" -> <<Send>> \o ReadAndReport(id)
                  [] packet.err = "aborted" -> ReadAndReport(id)
                  [] packet.err = "denied" ->
                       Unroots(io.watch[id].path, id) \o <<Bury(id, FALSE), Piece("report")>>
                  [] OTHER -> [k \in DOMAIN packet.recs |-> Handle(id, packet.recs[k])] \o ReadAndReport(id)
  /\ UNCHANGED <<req, closeCh, input, request, reply>> /\ IoOnly

-----------------------------------------------------------------------------
(* The pieces.                                                             *)
-----------------------------------------------------------------------------
Doing(what) == todo # <<>> /\ Head(todo).do = what
Then(pieces) == todo' = pieces \o Tail(todo)
PieceOnly == UNCHANGED <<closeCh, input, request>> /\ IoOnly
TablesOnly == UNCHANGED <<req, reply>> /\ PieceOnly

(* sendEvent and sendError wait for the consumer, or for Close. *)
DoSend ==
  /\ Doing("send") /\ (receiving \/ done)
  /\ Then(<<>>) /\ UNCHANGED io /\ TablesOnly

DoReport ==
  /\ Doing("report")
  /\ Then(If(io.err # "nil", <<Send>>)) /\ UNCHANGED io /\ TablesOnly

DoRead ==
  /\ Doing("read")
  /\ LET id == Head(todo).id
     IN  IF Denied(io, id, closed)
         THEN Then(Unroots(io.watch[id].path, id) \o <<Bury(id, TRUE)>>) /\ UNCHANGED io
         ELSE Then(<<>>) /\ io' = startRead(io, id, closed)
  /\ TablesOnly

(* The directory of the watch is gone: sendEvent, deleteWatch, closeWatch. *)
DoBury ==
  /\ Doing("bury")
  /\ LET id    == Head(todo).id
         mask  == io.watch[id].mask
         fails == Head(todo).starting /\ "provisional" \in mask
         x     == closeWatch(clearWatch(io, id), id)
     IN  /\ io' = IF fails THEN [x EXCEPT !.err = "error"] ELSE x
         /\ Then(If("user" \in mask /\ ~fails, <<Send>>))
  /\ TablesOnly

(* removeRecursiveRoot. *)
DoUnroot ==
  /\ Doing("unroot")
  /\ LET h == Head(todo)
     IN  IF h.path \notin DOMAIN io.roots THEN Then(<<>>) /\ UNCHANGED io
         ELSE LET r == io.roots[h.path]
              IN  /\ io' = WithoutRoot(io, h.path, h.isEvent)
                  /\ Then(If(h.isEvent /\ "user" \in io.watch[r.root].mask, <<Send>>)
                          \o If(h.isEvent /\ r.root # h.processing, ReadAndReport(r.root))
                          \o If(r.parent \notin {h.processing, r.root}, ReadAndReport(r.parent)))
  /\ TablesOnly

(* One record of the buffer, up to the look at the masks: a root that is   *)
(* removed or renamed ends, and so do those below it; watches follow a     *)
(* rename of anything else.                                                *)
DoHandle ==
  /\ Doing("handle")
  /\ LET id   == Head(todo).id
         ch   == Head(todo).change
         root == recursiveRootPath(io, id, ch.name)
     IN  /\ io' = CASE ch.act = "old name" ->
                         [io EXCEPT !.watch[id].rename = ch.name, !.watch[id].rootRename = root # <<>>]
                    [] ch.act = "new name" /\ ~io.watch[id].rootRename -> Renamed(io, id, ch.name)
                    [] OTHER -> io
         /\ Then(If(ch.act \in {"removed", "old name"} /\ root # <<>>, Unroots(root, id)) \o <<Forget(id, ch)>>)
  /\ TablesOnly

(* The rest of it: events for the directory and for the name. *)
DoForget ==
  /\ Doing("forget")
  /\ LET id == Head(todo).id
         ch == Head(todo).change
         w  == io.watch[id]
     IN  /\ io' = [io EXCEPT !.watch[id] =
                     CASE ch.act = "removed" -> SetName(w, ch.name, {})
                       [] ch.act = "new name" -> [w EXCEPT !.rename = <<>>, !.rootRename = FALSE]
                       [] OTHER -> w]
         /\ Then(If("user" \in w.mask \cup NameMask(w, ch.name), <<Send>>))
  /\ TablesOnly

Finish(r) == Answer(req.c, r) /\ req' = NoRequest /\ todo' = <<>>
Continue(pieces) == todo' = pieces /\ UNCHANGED reply

(* addWatch after its startRead. *)
DoAdded ==
  /\ Doing("added")
  /\ LET w == io.watch[req.id]
         w1 == IF req.name = <<>> THEN [w EXCEPT !.mask = @ \ {"provisional"}]
               ELSE SetName(w, req.name, NameMask(w, req.name) \ {"provisional"})
     IN  IF io.err # "nil" THEN UNCHANGED io /\ Finish("error")
         ELSE /\ io' = [io EXCEPT !.watch[req.id] = w1]
              /\ IF req.monitor THEN Continue(<<Piece("monitor")>>) /\ UNCHANGED req ELSE Finish("nil")
  /\ PieceOnly

(* addRecursiveRootMonitor, as far as its startRead: the parent of a root  *)
(* is watched, or the rename or the removal of the root would not be seen. *)
DoMonitor ==
  /\ Doing("monitor")
  /\ LET p == req.path
         x == Ensured(io, fs[Dir(p)], Dir(p), FALSE)
         parent == x.watches[fs[Dir(p)]]
         w == x.watch[parent]
     IN  IF p \in DOMAIN io.roots \/ Len(p) = 1 THEN UNCHANGED io /\ Finish("nil")
         ELSE IF Dir(p) \notin DOMAIN fs THEN UNCHANGED <<io, req>> /\ Continue(<<Piece("undo")>>)
         ELSE /\ io' = [x EXCEPT !.watch[parent] =
                          SetName(w, <<Last(p)>>, NameMask(w, <<Last(p)>>) \cup {"monitor"})]
              /\ req' = [req EXCEPT !.parent = parent]
              /\ Continue(<<Read(parent), Piece("recheck")>>)
  /\ PieceOnly

(* The parent is read: is the root still at its path? *)
SameRootUnchecked == TRUE \* mutant
SameRoot == req.path \in DOMAIN fs /\ fs[req.path] = io.watch[req.id].obj
ParentLive ==
  LET o == io.watch[req.parent].obj
  IN  Valid(io, req.parent) /\ o \in DOMAIN io.watches /\ io.watches[o] = req.parent

DoRecheck ==
  /\ Doing("recheck")
  /\ LET name == <<Last(req.path)>>
         w == io.watch[req.parent]
     IN  IF io.err = "nil" /\ SameRoot /\ ParentLive
         THEN /\ io' = [io EXCEPT !.roots =
                          Assign(@, req.path, [root |-> req.id, parent |-> req.parent, name |-> name])]
              /\ Finish("nil")
         ELSE /\ io' = [io EXCEPT !.watch[req.parent] = SetName(w, name, NameMask(w, name) \ {"monitor"})]
              /\ Continue(<<Read(req.parent), Piece("undo")>>) /\ UNCHANGED req
  /\ PieceOnly

DoUndo ==
  /\ Doing("undo")
  /\ io' = [io EXCEPT !.watch[req.id].mask = req.oldMask, !.watch[req.id].recurse = req.oldRecurse]
  /\ Continue(<<Read(req.id), Piece("failed")>>) /\ UNCHANGED req
  /\ PieceOnly

(* remWatch after removeRecursiveRoot. *)
DoDrop ==
  /\ Doing("drop")
  /\ LET w == io.watch[req.id]
     IN  io' = [io EXCEPT !.watch[req.id] =
                  IF req.name = <<>> THEN [w EXCEPT !.mask = {}] ELSE SetName(w, req.name, {})]
  /\ Then(<<>>) /\ TablesOnly

DoReply ==
  /\ Doing("failed") \/ Doing("removed")
  /\ Finish(IF Doing("failed") THEN "error" ELSE io.err) /\ UNCHANGED io
  /\ PieceOnly

-----------------------------------------------------------------------------
(* Other processes, and the consumer.                                      *)
-----------------------------------------------------------------------------
OthersOnly == UNCHANGED <<loopVars, input, request, closeVars, at, reply, calls>>

TreeChanges ==
  /\ \/ \E p \in Path, isDir \in BOOLEAN : Make(p, isDir) /\ io' = MakeHeard(io, p)
     \/ \E p \in DOMAIN fs : Len(p) > 1 /\ Unlink(p) /\ io' = UnlinkHeard(io, p)
     \/ \E p \in DOMAIN fs, q \in Path : MayMove(io, p) /\ Move(p, q) /\ io' = MoveHeard(io, p, q)
  /\ io.port = "open" \* afterwards nobody looks
  /\ OthersOnly /\ UNCHANGED receiving

(* A consumer that has gone makes a difference when something is sent. *)
StopReceiving ==
  /\ Doing("send") /\ receiving /\ receiving' = FALSE
  /\ OthersOnly /\ UNCHANGED <<treeVars, io>>

-----------------------------------------------------------------------------
Init ==
  /\ TreeInit
  /\ io = WatchesInit
  /\ todo = <<>> /\ req = NoRequest /\ closeCh = FALSE
  /\ input = <<>> /\ request = FALSE
  /\ closed = FALSE /\ done = FALSE /\ closeDone = FALSE
  /\ at = [c \in Callers |-> [pc |-> "idle"]] /\ reply = [c \in Callers |-> "none"]
  /\ calls = 0 /\ receiving = TRUE

CallerStep(c) ==
  Put(c) \/ Wakeup(c) \/ Answered(c) \/ CloseFirst(c) \/ CloseSecond(c)

IoStep ==
  \/ TakeClosing \/ TakeNothing \/ TakeInput \/ TakeRead
  \/ DoSend \/ DoRead \/ DoMonitor \/ DoRecheck

(* The pieces that only work on what is the goroutine's own. *)
Busy == todo # <<>> /\ Head(todo).do \notin {"send", "read", "monitor", "recheck"}
OwnStep ==
  \/ DoReport \/ DoBury \/ DoUnroot \/ DoHandle \/ DoForget
  \/ DoAdded \/ DoUndo \/ DoDrop \/ DoReply

GoroutineStep == OwnStep \/ (~Busy /\ (IoStep \/ \E c \in Callers : CallerStep(c)))

Next ==
  \/ GoroutineStep
  \/ /\ ~Busy
     /\ \/ \E c \in Callers, q \in Requests : Call(c, q)
        \/ \E c \in Callers : CloseMark(c)
        \/ TreeChanges \/ StopReceiving

(***************************************************************************)
(* As long as some goroutine can take a step, one does; every step of      *)
(* theirs ends one of finitely many calls, packets and pieces, so none can *)
(* be passed over for ever.  Nothing is assumed of the consumer, of other  *)
(* processes or of who makes calls.                                        *)
(***************************************************************************)
Spec == Init /\ [][Next]_vars /\ WF_vars(GoroutineStep)
=============================================================================
