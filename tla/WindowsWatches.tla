--------------------------- MODULE WindowsWatches ---------------------------
(***************************************************************************)
(* The tables of the Windows backend (backend_windows.go: watch, watchMap, *)
(* roots, pending) and the methods that work on them and on the handles.   *)
(* io is everything the I/O goroutine alone writes:                        *)
(*   watch    number -> the watch structure with that number               *)
(*   watches  object -> number, the table w.watches                        *)
(*   roots    path -> [root, parent, name], the table w.roots              *)
(*   pending  the reads in w.pending                                       *)
(*   err      what the last startRead or closeWatch returned               *)
(* and the fields of CompletionPort.  A mask is a set: "user" stands for   *)
(* sysFSALLEVENTS, the only flags AddWith passes, which never include      *)
(* sysFSIGNORED.  The handle of a watch is InvalidHandle when the port     *)
(* has no handle of that number.  Names are relative paths, <<>> is "".    *)
(***************************************************************************)
EXTENDS CompletionPort

NewWatch(o, path, rec) ==
  [obj |-> o, path |-> path, mask |-> {}, names |-> <<>>, recurse |-> rec,
   rename |-> <<>>, rootRename |-> FALSE, active |-> NoRead]

(* A watch of its own for an object that has none, with its open handle.   *)
Created(io, o, path, rec) ==
  LET id == Cardinality(DOMAIN io.watch) + 1
  IN  OpenHandle([io EXCEPT !.watch = Assign(@, id, NewWatch(o, path, rec)),
                            !.watches = Assign(@, o, id)], id, o)

(* The watch of an object, created if need be.                             *)
Ensured(io, o, path, rec) == IF o \in DOMAIN io.watches THEN io ELSE Created(io, o, path, rec)

NameMask(w, name) == IF name \in DOMAIN w.names THEN w.names[name] ELSE {}
SetName(w, name, mask) ==
  [w EXCEPT !.names = IF mask = {} THEN Restrict(@, DOMAIN @ \ {name}) ELSE Assign(@, name, mask)]

(* toWindowsFlags of every mask of the watch is not 0. *)
Wanted(w) ==
  "user" \in w.mask \/ \E n \in DOMAIN w.names : w.names[n] \cap {"user", "monitor"} # {}

(* The explicit paths of a watch, as WatchList reports them. *)
Listed(w) ==
  {w.path : m \in w.mask} \cup
  {w.path \o n : n \in {x \in DOMAIN w.names : w.names[x] \ {"monitor"} # {}}}

WatchList(io) == UNION {Listed(io.watch[io.watches[o]]) : o \in DOMAIN io.watches}

removeWatchEntry(io, id) ==
  LET o == io.watch[id].obj
  IN  IF o \in DOMAIN io.watches /\ io.watches[o] = id
      THEN [io EXCEPT !.watches = Restrict(@, DOMAIN @ \ {o})] ELSE io

(* Mutant: CloseHandle is forgotten. *)
closeWatchKeepsHandle(io, id) ==
  IF io.watch[id].active # NoRead THEN [io EXCEPT !.err = "error"]
  ELSE [removeWatchEntry(io, id) EXCEPT !.err = "nil"]

closeWatch(io, id) ==
  IF io.watch[id].active # NoRead THEN [io EXCEPT !.err = "error"]
  ELSE [CloseHandle(removeWatchEntry(io, id), id) EXCEPT !.err = "nil"]

clearWatch(io, id) == [io EXCEPT !.watch[id] = [@ EXCEPT !.names = <<>>, !.mask = {}]]

(* A read the kernel accepts or refuses, set up. *)
NewRead(io, id) ==
  LET n == CHOOSE k \in 1..(Cardinality(io.pending) + 1) : [id |-> id, n |-> k] \notin io.pending
      op == [id |-> id, n |-> n]
  IN  Submit([io EXCEPT !.watch[id].active = op, !.pending = @ \cup {op}, !.err = "nil"],
             op, io.watch[id].recurse)

CancelActive(io, id) ==
  IF Valid(io, id) THEN [Cancel(io, io.watch[id].active) EXCEPT !.err = "nil"]
  ELSE [io EXCEPT !.err = "error"]

(* startRead finds the directory gone: ERROR_ACCESS_DENIED. *)
Denied(io, id, closed) ==
  LET w == io.watch[id]
  IN  /\ w.active = NoRead /\ ~closed /\ Wanted(w) /\ Valid(io, id)
      /\ ~Exists(w.obj)

(* Mutant: a read that is active is not looked for. *)
startReadAgain(io, id, closed) ==
  LET w == io.watch[id]
  IN  IF closed \/ ~Wanted(w) THEN closeWatch(io, id)
      ELSE IF ~Valid(io, id) THEN [io EXCEPT !.err = "error"]
      ELSE NewRead(io, id)

(* Mutant: an empty mask does not end the watch. *)
startReadUnwanted(io, id, closed) ==
  LET w == io.watch[id]
  IN  IF w.active # NoRead THEN CancelActive(io, id)
      ELSE IF closed THEN closeWatch(io, id)
      ELSE IF ~Valid(io, id) THEN [io EXCEPT !.err = "error"]
      ELSE NewRead(io, id)

(* startRead, but for a directory that is gone. *)
startRead(io, id, closed) ==
  LET w == io.watch[id]
  IN  IF w.active # NoRead THEN CancelActive(io, id)
      ELSE IF closed \/ ~Wanted(w) THEN closeWatch(io, id)
      ELSE IF ~Valid(io, id) THEN [io EXCEPT !.err = "error"]
      ELSE NewRead(io, id)

stopRead(io, id) ==
  IF io.watch[id].active = NoRead THEN closeWatch(io, id) ELSE CancelActive(io, id)

(* Mutant: the hidden monitor stays in the parent. *)
WithoutRootKeepsMonitor(io, p, isEvent) ==
  LET r == io.roots[p]
      io1 == [io EXCEPT !.roots = Restrict(@, DOMAIN @ \ {p})]
      io2 == IF isEvent THEN [io1 EXCEPT !.watch[r.root].mask = {}] ELSE io1
  IN  [io2 EXCEPT !.watch[r.root].recurse = FALSE]

(* The part of removeRecursiveRoot under the mutex. *)
WithoutRoot(io, p, isEvent) ==
  LET r == io.roots[p]
      parent == io.watch[r.parent]
      io1 == [io EXCEPT !.roots = Restrict(@, DOMAIN @ \ {p}),
                        !.watch[r.parent] = SetName(parent, r.name, NameMask(parent, r.name) \ {"monitor"})]
      io2 == IF isEvent THEN [io1 EXCEPT !.watch[r.root].mask = {}] ELSE io1
  IN  [io2 EXCEPT !.watch[r.root].recurse = FALSE]

(* The root an event of parent's entry name is about, <<>> if none. *)
recursiveRootPath(io, parent, name) ==
  LET path == io.watch[parent].path \o name
      Mine(p) == io.roots[p].parent = parent /\ io.roots[p].name = name
  IN  IF path \in DOMAIN io.roots /\ io.roots[path].parent = parent THEN path
      ELSE IF \E p \in DOMAIN io.roots : Mine(p) THEN CHOOSE p \in DOMAIN io.roots : Mine(p)
      ELSE <<>>

(* removeRecursiveTree: the roots at or below a path, the deepest first. *)
RootsAt(io, p) == {r \in DOMAIN io.roots : Under(r, p)}
RootsUnder(io, p) == SetToSortSeq(RootsAt(io, p), LAMBDA a, b : Len(a) > Len(b))

(* FILE_ACTION_RENAMED_NEW_NAME: the watches and the name that move along. *)
Renamed(io, id, name) ==
  LET w    == io.watch[id]
      old  == w.path \o w.rename
      new  == w.path \o name
      ids  == {io.watches[o] : o \in DOMAIN io.watches}
      io1  == [io EXCEPT !.watch = [k \in DOMAIN @ |->
                 IF k \in ids /\ Under(@[k].path, old)
                 THEN [io.watch[k] EXCEPT !.path = Rebased(@, old, new)] ELSE @[k]]]
      w1   == io1.watch[id]
      mask == NameMask(w1, w.rename)
      w2   == IF mask = {} THEN w1
              ELSE SetName(SetName(w1, name, NameMask(w1, name) \cup mask), w.rename, {})
  IN  [io1 EXCEPT !.watch[id] = w2]

WatchesInit ==
  [watch |-> <<>>, watches |-> <<>>, roots |-> <<>>, pending |-> {}, err |-> "nil",
   handle |-> <<>>, reading |-> {}, queue |-> <<>>, port |-> "open", lost |-> FALSE]
=============================================================================
