--------------------------- MODULE CompletionPort ---------------------------
(***************************************************************************)
(* What backend_windows.go relies on and does not implement: directory     *)
(* handles, asynchronous ReadDirectoryChangesW, CancelIoEx and an I/O      *)
(* completion port.  Modelled from how the backend uses them:              *)
(*   - a handle keeps what changes below its directory from the first read *)
(*     on; a read ends when there is something to return, when it is       *)
(*     cancelled, or when the directory is removed, and each read ends     *)
(*     with one packet;                                                    *)
(*   - too many changes between two reads are dropped, and the next read   *)
(*     says so;                                                            *)
(*   - a directory with an open handle strictly below it is not renamed.   *)
(* The packets, handles and reads are fields of the record io that the     *)
(* backend's tables are in, too.                                           *)
(***************************************************************************)
EXTENDS FileTree

CONSTANT MaxChanges \* changes a handle keeps between two reads

ASSUME PortAssumption ==
  /\ MaxChanges \in Nat
  /\ \A p \in InitFiles : Len(p) > 1 \* a path of one component is a volume

NoRead == [id |-> 0, n |-> 0]
Packet(op, err, recs) == [op |-> op, err |-> err, recs |-> recs]
Wake == Packet(NoRead, "none", <<>>)
Change(act, name) == [act |-> act, name |-> name]

(* Packets of reads that have ended, not dequeued yet. *)
Ended(io) == {io.queue[k].op : k \in DOMAIN io.queue} \ {NoRead}

Valid(io, id) == id \in DOMAIN io.handle
Post(io, packet) == [io EXCEPT !.queue = Append(@, packet)]

OpenHandle(io, id, o) ==
  [io EXCEPT !.handle = Assign(@, id, [obj |-> o, on |-> FALSE, tree |-> FALSE, kept |-> <<>>])]
CloseHandle(io, id) == [io EXCEPT !.handle = Restrict(@, DOMAIN @ \ {id})]

(* End a read with everything the handle has kept. *)
Complete(io, op) ==
  LET kept == io.handle[op.id].kept
      packet == IF Len(kept) > MaxChanges THEN Packet(op, "more data", <<>>)
                ELSE Packet(op, "none", kept)
  IN  Post([io EXCEPT !.reading = @ \ {op}, !.handle[op.id].kept = <<>>,
                      !.lost = @ \/ Len(kept) > MaxChanges], packet)

(* ReadDirectoryChangesW, on a directory that exists. *)
Submit(io, op, tree) ==
  LET h  == [io.handle[op.id] EXCEPT !.on = TRUE, !.tree = tree]
      io1 == [io EXCEPT !.handle[op.id] = h, !.reading = @ \cup {op}]
  IN  IF h.kept = <<>> THEN io1 ELSE Complete(io1, op)

(* CancelIoEx: nothing happens to a read that has ended. *)
Cancel(io, op) ==
  IF op \in io.reading
  THEN Post([io EXCEPT !.reading = @ \ {op}], Packet(op, "aborted", <<>>))
  ELSE io

(* The reads the kernel has on a handle. *)
ReadsOn(io, id) == {op \in io.reading : op.id = id}

(* Reads end, each with its packet; which one is the first does not matter *)
(* to a watcher that sees one packet after the other.                      *)
EndReads(io, packets) ==
  LET ops == SetToSeq(DOMAIN packets)
  IN  [io EXCEPT !.reading = @ \ DOMAIN packets,
                 !.queue = @ \o [k \in DOMAIN ops |-> packets[ops[k]]]]

(* Tell every handle that is concerned of acts, the changes of entries of  *)
(* the directory d with the last components names.                         *)
Tell(io, d, acts, names) ==
  LET Hears(id) == LET h == io.handle[id]
                   IN  h.on /\ Exists(h.obj) /\ Under(d, At(h.obj)) /\ (h.tree \/ At(h.obj) = d)
      hearers == {id \in DOMAIN io.handle : Hears(id)}
      Rel(id) == SubSeq(d, Len(At(io.handle[id].obj)) + 1, Len(d))
      All(id) == io.handle[id].kept \o [k \in DOMAIN acts |-> Change(acts[k], Append(Rel(id), names[k]))]
      Overflows(id) == Len(All(id)) > MaxChanges
      ended == {op \in io.reading : op.id \in hearers}
      Kept(id) == IF ReadsOn(io, id) # {} THEN <<>>
                  ELSE IF Overflows(id) THEN SubSeq(All(id), 1, MaxChanges + 1) ELSE All(id)
      io1 == [io EXCEPT !.handle = [id \in DOMAIN @ |-> IF id \in hearers THEN [@[id] EXCEPT !.kept = Kept(id)]
                                                         ELSE @[id]],
                        !.lost = @ \/ \E op \in ended : Overflows(op.id)]
  IN  EndReads(io1, [op \in ended |-> IF Overflows(op.id) THEN Packet(op, "more data", <<>>)
                                      ELSE Packet(op, "none", All(op.id))])

(* The object is removed: reads of its handles fail. *)
Vanish(io, o) ==
  LET dead == {op \in io.reading : io.handle[op.id].obj = o}
  IN  EndReads(io, [op \in dead |-> Packet(op, "denied", <<>>)])

MakeHeard(io, p) == Tell(io, Dir(p), <<"added">>, <<Last(p)>>)
UnlinkHeard(io, p) == Vanish(Tell(io, Dir(p), <<"removed">>, <<Last(p)>>), fs[p])
MoveHeard(io, p, q) ==
  IF Dir(p) = Dir(q) THEN Tell(io, Dir(p), <<"old name", "new name">>, <<Last(p), Last(q)>>)
  ELSE Tell(Tell(io, Dir(p), <<"removed">>, <<Last(p)>>), Dir(q), <<"added">>, <<Last(q)>>)

(* NTFS refuses to rename a directory with an open handle below it; paths  *)
(* of one component are volumes, which stay.                               *)
MayMove(io, p) ==
  Len(p) > 1 /\ \A id \in DOMAIN io.handle :
    LET o == io.handle[id].obj IN Exists(o) => ~(Under(At(o), p) /\ At(o) # p)
=============================================================================
