---------------------------- MODULE WindowsProofs ----------------------------
(***************************************************************************)
(* Results about the Windows backend, whatever callers, other processes,   *)
(* the consumer and the order of the steps are.  The watcher owns every    *)
(* read that is under way, no handle is left open, and Close ends with     *)
(* nothing outstanding.  No wakeup is lost: whoever puts a request in the  *)
(* input or asks for the close has a packet behind it, and whoever waits   *)
(* for an answer is answered or released.  And the watcher is never deaf:  *)
(* between two packets each watch of the table has a read, or the packet   *)
(* of one on its way.                                                      *)
(***************************************************************************)
EXTENDS WindowsProps, FileTreeProofs

-----------------------------------------------------------------------------
(* The inductive invariant of the tables, the reads and the queue.         *)
-----------------------------------------------------------------------------
Ops(q) == {q[k].op : k \in DOMAIN q} \ {NoRead}

(* A read that has ended has one packet, and all other packets are wakeups.*)
Packets(q) ==
  /\ q \in Seq(Range(q))
  /\ \A k \in DOMAIN q : q[k].op = NoRead => q[k] = Wake
  /\ \A j, k \in DOMAIN q : j # k /\ q[j].op = q[k].op => q[j].op = NoRead

IsIo(x) ==
  x \in [watch : {x.watch}, watches : {x.watches}, roots : {x.roots}, pending : {x.pending},
         err : {x.err}, handle : {x.handle}, reading : {x.reading}, queue : {x.queue},
         port : {x.port}, lost : {x.lost}]

IsWatch(w) ==
  w \in [obj : {w.obj}, path : {w.path}, mask : {w.mask}, names : {w.names}, recurse : {w.recurse},
         rename : {w.rename}, rootRename : {w.rootRename}, active : {w.active}]

(* The watches of the table are the ones with an open handle. *)
Tables(x) ==
  /\ IsIo(x) /\ (\E n \in Nat : DOMAIN x.watch = 1..n) /\ IsFiniteSet(DOMAIN x.roots)
  /\ \A id \in DOMAIN x.watch : IsWatch(x.watch[id])
  /\ \A o \in DOMAIN x.watches : x.watches[o] \in DOMAIN x.watch /\ x.watch[x.watches[o]].obj = o
  /\ DOMAIN x.handle = InTable(x)
  /\ x.err \in {"nil", "error"}

(* The reads in pending are the ones that the kernel has, the ones that    *)
(* have a packet and the ones in held, whose packets have been taken.      *)
Reads(x, held) ==
  /\ Packets(x.queue) /\ IsFiniteSet(x.pending) /\ NoRead \notin x.pending
  /\ x.pending = x.reading \cup Ended(x) \cup held
  /\ x.reading \cap Ended(x) = {} /\ held \cap (x.reading \cup Ended(x)) = {}
  /\ \A op \in x.pending : Valid(x, op.id) /\ x.watch[op.id].active = op
  /\ \A id \in DOMAIN x.watch : LET op == x.watch[id].active
                                IN  op = NoRead \/ (op \in x.pending /\ op.id = id)

Good(x, held) == Tables(x) /\ Reads(x, held)

(* When the port is closed, everything is. *)
Released ==
  io.port = "closed" =>
    /\ closeCh /\ todo = <<>> /\ io.queue = <<>>
    /\ io.handle = <<>> /\ io.reading = {} /\ io.pending = {} /\ io.watches = <<>>

ReadsInv ==
  /\ Good(io, {}) /\ io.port \in {"open", "closed"}
  /\ Released /\ (closeDone => io.port = "closed")
  /\ closeCh => todo = <<>> /\ io.reading = {} /\ (io.port = "open" => io.queue # <<>>)

-----------------------------------------------------------------------------
(* The queue of packets.                                                   *)
-----------------------------------------------------------------------------
(* Packets q with the packets more behind them. *)
LEMMA PacketsJoined ==
  ASSUME NEW S, NEW q, NEW more \in Seq(S), Packets(q),
         \A k \in DOMAIN more : more[k].op = NoRead => more[k] = Wake,
         \A j, k \in DOMAIN more : j # k /\ more[j].op = more[k].op => more[j].op = NoRead,
         Ops(q) \cap Ops(more) = {}
  PROVE  /\ Packets(q \o more) /\ Ops(q \o more) = Ops(q) \cup Ops(more)
         /\ Range(q) \subseteq Range(q \o more) /\ Range(more) \subseteq Range(q \o more)
<1> DEFINE T == Range(q) \cup S
           r == q \o more
<1>1. q \in Seq(T) /\ more \in Seq(T)
  BY SeqMonotonic DEF Packets
<1>2. /\ r \in Seq(T) /\ Len(q) \in Nat /\ DOMAIN q = 1..Len(q) /\ DOMAIN more = 1..Len(more) /\ Len(more) \in Nat
      /\ \A i \in DOMAIN q : i \in DOMAIN r /\ r[i] = q[i]
      /\ \A i \in DOMAIN more : Len(q) + i \in DOMAIN r /\ r[Len(q) + i] = more[i]
      /\ \A i \in DOMAIN r : i \in DOMAIN q \/ \E j \in DOMAIN more : i = Len(q) + j
  BY <1>1, ConcatParts
<1>3. r \in Seq(Range(r))
  BY <1>2, SeqOfRange
<1> HIDE DEF r, T
<1>4. \A i \in DOMAIN r : (\E j \in DOMAIN q : i = j /\ r[i] = q[j])
                          \/ (\E j \in DOMAIN more : i = Len(q) + j /\ r[i] = more[j])
  BY <1>2
<1>5. \A k \in DOMAIN r : r[k].op = NoRead => r[k] = Wake
  BY <1>4 DEF Packets
<1>6. \A i \in DOMAIN q, j \in DOMAIN more : q[i].op = more[j].op => q[i].op = NoRead
  BY DEF Ops
<1>7. \A j, k \in DOMAIN r : j # k /\ r[j].op = r[k].op => r[j].op = NoRead
  <2> SUFFICES ASSUME NEW j \in DOMAIN r, NEW k \in DOMAIN r, j # k, r[j].op = r[k].op
               PROVE  r[j].op = NoRead
    OBVIOUS
  <2>1. CASE j \in DOMAIN q /\ k \in DOMAIN q
    BY <1>2, <2>1 DEF Packets
  <2>2. CASE j \in DOMAIN q /\ k \notin DOMAIN q
    BY <1>2, <1>4, <1>6, <2>2
  <2>3. CASE j \notin DOMAIN q /\ k \in DOMAIN q
    BY <1>2, <1>4, <1>6, <2>3
  <2>4. CASE j \notin DOMAIN q /\ k \notin DOMAIN q
    <3>1. PICK a \in DOMAIN more, b \in DOMAIN more :
            j = Len(q) + a /\ r[j] = more[a] /\ k = Len(q) + b /\ r[k] = more[b]
      BY <1>4, <2>4
    <3> QED BY <3>1
  <2> QED BY <2>1, <2>2, <2>3, <2>4
<1>8. Packets(r)
  BY <1>3, <1>5, <1>7 DEF Packets
<1>9. Range(q) \subseteq Range(r) /\ Range(more) \subseteq Range(r) /\ Range(r) \subseteq Range(q) \cup Range(more)
  BY <1>2, <1>4 DEF Range
<1>10. \A s : Ops(s) = {p.op : p \in Range(s)} \ {NoRead}
  BY DEF Ops, Range
<1>11. Ops(r) = Ops(q) \cup Ops(more)
  BY <1>9, <1>10
<1> QED BY <1>8, <1>9, <1>11 DEF r

LEMMA PacketPosted ==
  ASSUME NEW q, NEW p, Packets(q), p.op = NoRead => p = Wake, p.op \notin Ops(q)
  PROVE  /\ Packets(Append(q, p)) /\ Ops(Append(q, p)) = (Ops(q) \cup {p.op}) \ {NoRead}
         /\ Range(q) \subseteq Range(Append(q, p)) /\ p \in Range(Append(q, p)) /\ Append(q, p) # <<>>
<1> DEFINE more == <<p>>
<1>1. more \in Seq({p}) /\ DOMAIN more = {1} /\ more[1] = p
  OBVIOUS
<1>2. Append(q, p) = q \o more /\ Append(q, p) # <<>>
  <2>1. q \in Seq(Range(q) \cup {p})
    BY SeqMonotonic DEF Packets
  <2> QED BY <2>1, AppendIsConcat, AppendProperties
<1> HIDE DEF more
<1>3. Ops(more) = {p.op} \ {NoRead} /\ Range(more) = {p}
  BY <1>1 DEF Ops, Range
<1>4. Ops(q) \cap Ops(more) = {} /\ NoRead \notin Ops(q)
  BY <1>3 DEF Ops
<1>5. /\ Packets(q \o more) /\ Ops(q \o more) = Ops(q) \cup Ops(more)
      /\ Range(q) \subseteq Range(q \o more) /\ Range(more) \subseteq Range(q \o more)
  BY <1>1, <1>4, PacketsJoined
<1> QED BY <1>2, <1>3, <1>4, <1>5

LEMMA PacketTaken ==
  ASSUME NEW q, Packets(q), q # <<>>
  PROVE  /\ Packets(Tail(q)) /\ Ops(Tail(q)) = Ops(q) \ {Head(q).op}
         /\ Range(q) \subseteq Range(Tail(q)) \cup {Head(q)}
         /\ Head(q).op = NoRead => Head(q) = Wake
         /\ Head(q).op # NoRead => Head(q).op \in Ops(q)
<1> DEFINE r == Tail(q)
<1>1. /\ r \in Seq(Range(q)) /\ Head(q) = q[1] /\ 1 \in DOMAIN q
      /\ \A i \in DOMAIN r : i + 1 \in DOMAIN q /\ i + 1 # 1 /\ r[i] = q[i + 1]
      /\ \A i \in DOMAIN q : i = 1 \/ \E j \in DOMAIN r : i = j + 1
  BY TailParts DEF Packets
<1> HIDE DEF r
<1>2. r \in Seq(Range(r)) /\ DOMAIN r \subseteq Nat
  <2>1. r \in Seq(Range(r))
    BY <1>1, SeqOfRange
  <2>2. Len(r) \in Nat /\ DOMAIN r = 1..Len(r)
    BY <1>1, LenProperties
  <2> QED BY <2>1, <2>2
<1>3. \A j, k \in DOMAIN r : j # k => j + 1 # k + 1
  BY <1>2
<1>4. Packets(r)
  BY <1>1, <1>2, <1>3 DEF Packets
<1>5. \A i \in DOMAIN r : r[i].op \in Ops(q) \ {q[1].op} \/ r[i].op = NoRead
  BY <1>1 DEF Packets, Ops
<1>6. \A i \in DOMAIN q : q[i] = q[1] \/ \E j \in DOMAIN r : q[i] = r[j]
  BY <1>1
<1>7. Range(q) \subseteq Range(r) \cup {q[1]}
  BY <1>6 DEF Range
<1>8. Ops(r) = Ops(q) \ {q[1].op}
  BY <1>5, <1>6 DEF Ops
<1> QED BY <1>1, <1>4, <1>7, <1>8 DEF Packets, Ops, r

-----------------------------------------------------------------------------
(* The port and the tables.                                                *)
-----------------------------------------------------------------------------
(* The port stays as it is, and no packet is lost. *)
Grows(x, y) == y.port = x.port /\ Range(x.queue) \subseteq Range(y.queue)

(* Only what the masks, names and roots of watches are changes. *)
SameReads(x, y) ==
  /\ IsIo(y) /\ DOMAIN y.watch = DOMAIN x.watch /\ IsFiniteSet(DOMAIN y.roots) /\ y.err \in {"nil", "error"}
  /\ \A id \in DOMAIN y.watch : /\ IsWatch(y.watch[id]) /\ y.watch[id].obj = x.watch[id].obj
                                /\ y.watch[id].active = x.watch[id].active
  /\ y.watches = x.watches /\ DOMAIN y.handle = DOMAIN x.handle /\ y.pending = x.pending
  /\ y.reading = x.reading /\ y.queue = x.queue /\ y.port = x.port

LEMMA SameReadsGood ==
  ASSUME NEW x, NEW y, NEW held, Good(x, held), SameReads(x, y)
  PROVE  Good(y, held) /\ Grows(x, y)
<1>1. InTable(y) = InTable(x) /\ Ended(y) = Ended(x) /\ \A id : Valid(y, id) <=> Valid(x, id)
  BY DEF SameReads, InTable, Ended, Valid
<1>2. Tables(y)
  BY <1>1 DEF Good, Tables, SameReads
<1>3. \A op \in x.pending : op.id \in DOMAIN x.watch
  BY DEF Good, Tables, Reads, Valid, InTable, Range
<1>4. Reads(y, held)
  BY <1>1, <1>3 DEF Good, Reads, SameReads
<1> QED BY <1>2, <1>4 DEF Good, Grows, SameReads

(* A read of a watch is the only one of it, and its watch is in the table. *)
LEMMA ReadOfWatch ==
  ASSUME NEW x, NEW held, Good(x, held), NEW op \in x.pending
  PROVE  /\ op.id \in DOMAIN x.watch /\ x.watch[op.id].active = op /\ op # NoRead
         /\ op.id \in InTable(x) /\ op.id \in DOMAIN x.handle
BY DEF Good, Tables, Reads, Valid, InTable, Range

LEMMA PostGood ==
  ASSUME NEW x, NEW held, NEW p, Good(x, held), p.op = NoRead => p = Wake,
         p.op # NoRead => p.op \in held
  PROVE  LET y == Post(x, p)
         IN  /\ Good(y, held \ {p.op}) /\ Grows(x, y) /\ p \in Range(y.queue) /\ y.queue # <<>>
             /\ y.reading = x.reading /\ y.pending = x.pending /\ y.watch = x.watch
<1> DEFINE y == Post(x, p)
<1>1. /\ IsIo(y) /\ y.queue = Append(x.queue, p) /\ y.watch = x.watch /\ y.watches = x.watches
      /\ y.roots = x.roots /\ y.pending = x.pending /\ y.err = x.err /\ y.handle = x.handle
      /\ y.reading = x.reading /\ y.port = x.port
  BY DEF Good, Tables, IsIo, Post
<1> HIDE DEF y
<1>2. Ended(x) = Ops(x.queue) /\ Ended(y) = Ops(y.queue)
  BY DEF Ended, Ops
<1>3. p.op \notin Ops(x.queue)
  BY <1>2 DEF Good, Reads, Ops
<1>4. /\ Packets(y.queue) /\ Ops(y.queue) = (Ops(x.queue) \cup {p.op}) \ {NoRead}
      /\ Range(x.queue) \subseteq Range(y.queue) /\ p \in Range(y.queue) /\ y.queue # <<>>
  BY <1>1, <1>3, PacketPosted DEF Good, Reads
<1>5. Ended(y) = Ended(x) \cup ({p.op} \ {NoRead})
  BY <1>2, <1>4 DEF Ops
<1>6. Tables(y)
  BY <1>1 DEF Good, Tables, InTable
<1>7. NoRead \notin held /\ held \subseteq x.pending
  BY DEF Good, Reads
<1>8. /\ y.pending = y.reading \cup Ended(y) \cup (held \ {p.op})
      /\ y.reading \cap Ended(y) = {} /\ (held \ {p.op}) \cap (y.reading \cup Ended(y)) = {}
  BY <1>1, <1>5, <1>7 DEF Good, Reads
<1>9. Reads(y, held \ {p.op})
  BY <1>1, <1>4, <1>8 DEF Good, Reads, Valid
<1> QED BY <1>1, <1>4, <1>6, <1>9 DEF Good, Grows, y

(* The head of the queue is taken: its read is in nobody's hands. *)
LEMMA TakenGood ==
  ASSUME NEW x, Good(x, {}), x.queue # <<>>
  PROVE  LET p == Head(x.queue)
             y == [x EXCEPT !.queue = Tail(@)]
         IN  /\ Good(y, {p.op} \ {NoRead}) /\ y.reading = x.reading /\ y.pending = x.pending
             /\ y.watch = x.watch /\ y.port = x.port /\ y.err = x.err /\ y.watches = x.watches
             /\ Range(x.queue) \subseteq Range(y.queue) \cup {p}
             /\ p.op = NoRead => p = Wake
             /\ p.op # NoRead => p.op \in x.pending
<1> DEFINE y == [x EXCEPT !.queue = Tail(@)]
           p == Head(x.queue)
<1>1. /\ IsIo(y) /\ y.queue = Tail(x.queue) /\ y.watch = x.watch /\ y.watches = x.watches
      /\ y.roots = x.roots /\ y.pending = x.pending /\ y.err = x.err /\ y.handle = x.handle
      /\ y.reading = x.reading /\ y.port = x.port
  BY DEF Good, Tables, IsIo
<1> HIDE DEF y
<1>2. Ended(x) = Ops(x.queue) /\ Ended(y) = Ops(y.queue)
  BY DEF Ended, Ops
<1>3. /\ Packets(y.queue) /\ Ops(y.queue) = Ops(x.queue) \ {p.op}
      /\ Range(x.queue) \subseteq Range(y.queue) \cup {p}
      /\ p.op = NoRead => p = Wake
      /\ p.op # NoRead => p.op \in Ops(x.queue)
  BY <1>1, PacketTaken DEF Good, Reads
<1>4. Tables(y)
  BY <1>1 DEF Good, Tables, InTable
<1> HIDE DEF p
<1>5. NoRead \notin x.pending
  BY DEF Good, Reads
<1>6. /\ y.pending = y.reading \cup Ended(y) \cup ({p.op} \ {NoRead})
      /\ y.reading \cap Ended(y) = {} /\ ({p.op} \ {NoRead}) \cap (y.reading \cup Ended(y)) = {}
  BY <1>1, <1>2, <1>3, <1>5 DEF Good, Reads
<1>7. Reads(y, {p.op} \ {NoRead})
  BY <1>1, <1>3, <1>6 DEF Good, Reads, Valid
<1>8. p.op # NoRead => p.op \in x.pending
  BY <1>2, <1>3 DEF Good, Reads
<1> QED BY <1>1, <1>3, <1>4, <1>7, <1>8 DEF Good, y, p

(* Reads end, each with its own packet. *)
LEMMA EndReadsOnly ==
  ASSUME NEW x, NEW packets, IsIo(x)
  PROVE  LET y == EndReads(x, packets)
         IN  /\ IsIo(y) /\ y.watch = x.watch /\ y.watches = x.watches /\ y.port = x.port
             /\ y.roots = x.roots /\ y.pending = x.pending /\ y.err = x.err /\ y.handle = x.handle
             /\ y.reading = x.reading \ DOMAIN packets
BY DEF IsIo, EndReads

LEMMA EndReadsGood ==
  ASSUME NEW x, NEW held, NEW packets, Good(x, held), DOMAIN packets \subseteq x.reading,
         \A op \in DOMAIN packets : packets[op].op = op
  PROVE  LET y == EndReads(x, packets) IN Good(y, held) /\ Grows(x, y)
<1> DEFINE ops == SetToSeq(DOMAIN packets)
           more == [k \in DOMAIN ops |-> packets[ops[k]]]
           y == EndReads(x, packets)
<1>1. /\ IsIo(y) /\ y.queue = x.queue \o more /\ y.watch = x.watch /\ y.watches = x.watches
      /\ y.roots = x.roots /\ y.pending = x.pending /\ y.err = x.err /\ y.handle = x.handle
      /\ y.reading = x.reading \ DOMAIN packets /\ y.port = x.port
  BY DEF Good, Tables, IsIo, EndReads
<1>2. IsFiniteSet(DOMAIN packets)
  <2>1. DOMAIN packets \in SUBSET x.pending
    BY DEF Good, Reads
  <2> QED BY <2>1, FS_Subset DEF Good, Reads
<1>3. /\ ops \in Seq(DOMAIN packets)
      /\ \A op \in DOMAIN packets : \E k \in DOMAIN ops : ops[k] = op
      /\ \A j, k \in DOMAIN ops : j # k => ops[j] # ops[k]
  BY <1>2, SetToSeqCovers
<1> HIDE DEF y, ops
<1>4. Len(ops) \in Nat /\ DOMAIN ops = 1..Len(ops) /\ \A k \in DOMAIN ops : ops[k] \in DOMAIN packets
  BY <1>3, LenProperties, ElementOfSeq
<1> DEFINE S == {packets[op] : op \in DOMAIN packets}
<1>5. more \in Seq(S) /\ DOMAIN more = DOMAIN ops
  BY <1>4
<1>6. \A k \in DOMAIN ops : more[k].op = ops[k]
  BY <1>4
<1> HIDE DEF more, S
<1>7. NoRead \notin DOMAIN packets
  BY DEF Good, Reads
<1>8. Ops(more) = DOMAIN packets
  <2>1. \A k \in DOMAIN more : more[k].op \in DOMAIN packets
    BY <1>4, <1>5, <1>6
  <2>2. \A op \in DOMAIN packets : \E k \in DOMAIN more : more[k].op = op
    BY <1>3, <1>5, <1>6
  <2> QED BY <1>7, <2>1, <2>2 DEF Ops
<1>9. Ended(x) = Ops(x.queue) /\ Ended(y) = Ops(y.queue)
  BY DEF Ended, Ops
<1>10. Ops(x.queue) \cap Ops(more) = {}
  BY <1>8, <1>9 DEF Good, Reads
<1>11. /\ Packets(y.queue) /\ Ops(y.queue) = Ops(x.queue) \cup Ops(more)
       /\ Range(x.queue) \subseteq Range(y.queue)
  <2>1. \A k \in DOMAIN more : more[k].op # NoRead
    BY <1>4, <1>5, <1>6, <1>7
  <2>2. \A j, k \in DOMAIN more : j # k => more[j].op # more[k].op
    BY <1>3, <1>5, <1>6
  <2>3. Packets(x.queue)
    BY DEF Good, Reads
  <2>4. /\ \A k \in DOMAIN more : more[k].op = NoRead => more[k] = Wake
        /\ \A j, k \in DOMAIN more : j # k /\ more[j].op = more[k].op => more[j].op = NoRead
    BY <2>1, <2>2
  <2>5. /\ Packets(x.queue \o more) /\ Ops(x.queue \o more) = Ops(x.queue) \cup Ops(more)
        /\ Range(x.queue) \subseteq Range(x.queue \o more)
    BY <1>5, <1>10, <2>3, <2>4, PacketsJoined
  <2> QED BY <1>1, <2>5
<1>12. Tables(y)
  BY <1>1 DEF Good, Tables, InTable
<1>13. /\ y.pending = y.reading \cup Ended(y) \cup held
       /\ y.reading \cap Ended(y) = {} /\ held \cap (y.reading \cup Ended(y)) = {}
  BY <1>1, <1>8, <1>9, <1>11 DEF Good, Reads
<1>14. Reads(y, held)
  BY <1>1, <1>11, <1>13 DEF Good, Reads, Valid
<1> QED BY <1>1, <1>11, <1>12, <1>14 DEF Good, Grows, y

SameQueue(x, y) ==
  y.reading = x.reading /\ y.queue = x.queue /\ y.pending = x.pending /\ y.port = x.port

(* Watches without a read leave the table, with their handles. *)
LEMMA LeaveTable ==
  ASSUME NEW x, NEW y, NEW held, NEW ids, Good(x, held), IsIo(y), SameQueue(x, y),
         y.watch = x.watch, DOMAIN y.roots = DOMAIN x.roots, y.err \in {"nil", "error"},
         DOMAIN y.watches = {o \in DOMAIN x.watches : x.watches[o] \notin ids},
         \A o \in DOMAIN y.watches : y.watches[o] = x.watches[o],
         DOMAIN y.handle = DOMAIN x.handle \ ids,
         \A op \in x.pending : op.id \notin ids
  PROVE  Good(y, held) /\ InTable(y) = InTable(x) \ ids
<1>2. InTable(y) = InTable(x) \ ids
  BY DEF InTable, Range
<1>3. Tables(y)
  BY <1>2 DEF Good, Tables
<1>4. Ended(y) = Ended(x) /\ \A op \in x.pending : Valid(y, op.id) <=> Valid(x, op.id)
  BY DEF Ended, Valid, SameQueue
<1>5. Reads(y, held)
  BY <1>4 DEF Good, Reads, SameQueue
<1> QED BY <1>2, <1>3, <1>5 DEF Good

LEMMA CloseWatchesGood ==
  ASSUME NEW x, NEW held, NEW ids, Good(x, held), ids \subseteq Unread(x)
  PROVE  LET y == closeWatches(x, ids)
         IN  /\ Good(y, held) /\ SameQueue(x, y) /\ y.watch = x.watch
             /\ InTable(y) = InTable(x) \ ids /\ DOMAIN y.handle = InTable(y)
<1> DEFINE y == closeWatches(x, ids)
<1>1. /\ IsIo(y) /\ SameQueue(x, y) /\ y.watch = x.watch /\ y.roots = x.roots /\ y.err = x.err
      /\ y.watches = Restrict(x.watches, {o \in DOMAIN x.watches : x.watches[o] \notin ids})
      /\ y.handle = Restrict(x.handle, DOMAIN x.handle \ ids)
  BY DEF Good, Tables, IsIo, closeWatches, SameQueue
<1> HIDE DEF y
<1>2. /\ DOMAIN y.handle = DOMAIN x.handle \ ids
      /\ DOMAIN y.watches = {o \in DOMAIN x.watches : x.watches[o] \notin ids}
      /\ \A o \in DOMAIN y.watches : y.watches[o] = x.watches[o]
  BY <1>1 DEF Restrict
<1>3. \A op \in x.pending : op.id \notin ids
  BY ReadOfWatch DEF Unread
<1>4. y.err \in {"nil", "error"}
  BY <1>1 DEF Good, Tables
<1>5. Good(y, held) /\ InTable(y) = InTable(x) \ ids
  BY <1>1, <1>2, <1>3, <1>4, LeaveTable
<1> QED BY <1>1, <1>5 DEF Good, Tables, y

LEMMA CloseWatchGood ==
  ASSUME NEW x, NEW held, NEW id, Good(x, held)
  PROVE  LET y == closeWatch(x, id)
         IN  Good(y, held) /\ SameQueue(x, y) /\ Grows(x, y)
<1> DEFINE y == closeWatch(x, id)
<1>1. CASE x.watch[id].active # NoRead
  <2>1. y = [x EXCEPT !.err = "error"]
    BY <1>1 DEF closeWatch
  <2>2. SameReads(x, y)
    BY <2>1 DEF Good, Tables, IsIo, SameReads
  <2> QED BY <2>2, SameReadsGood DEF SameReads, SameQueue
<1>2. CASE x.watch[id].active = NoRead
  <2> DEFINE r == removeWatchEntry(x, id)
             o == x.watch[id].obj
  <2>1. /\ IsIo(y) /\ SameQueue(x, y) /\ y.watch = x.watch /\ y.roots = x.roots /\ y.err = "nil"
        /\ y.watches = r.watches /\ y.handle = Restrict(x.handle, DOMAIN x.handle \ {id})
    BY <1>2 DEF Good, Tables, IsIo, closeWatch, CloseHandle, removeWatchEntry, SameQueue
  <2>2. r.watches = IF o \in DOMAIN x.watches /\ x.watches[o] = id
                    THEN Restrict(x.watches, DOMAIN x.watches \ {o}) ELSE x.watches
    BY DEF Good, Tables, IsIo, removeWatchEntry
  <2>3. \A u \in DOMAIN x.watches : x.watches[u] = id => u = o
    BY DEF Good, Tables
  <2> HIDE DEF y, r, o
  <2>4. /\ DOMAIN y.watches = {u \in DOMAIN x.watches : x.watches[u] \notin {id}}
        /\ \A u \in DOMAIN y.watches : y.watches[u] = x.watches[u]
    <3>1. CASE o \in DOMAIN x.watches /\ x.watches[o] = id
      BY <2>1, <2>2, <2>3, <3>1 DEF Restrict
    <3>2. CASE ~(o \in DOMAIN x.watches /\ x.watches[o] = id)
      BY <2>1, <2>2, <2>3, <3>2
    <3> QED BY <3>1, <3>2
  <2>5. \A op \in x.pending : op.id \notin {id}
    BY <1>2, ReadOfWatch
  <2>6. DOMAIN y.handle = DOMAIN x.handle \ {id}
    BY <2>1 DEF Restrict
  <2>7. Good(y, held)
    BY <2>1, <2>4, <2>5, <2>6, LeaveTable
  <2> QED BY <2>1, <2>7 DEF y, SameQueue, Grows
<1> QED BY <1>1, <1>2

(* A read the kernel has ends; its packet is still to be posted. *)
LEMMA ReadEnds ==
  ASSUME NEW x, NEW y, NEW held, NEW op \in x.reading, Good(x, held), IsIo(y),
         y.reading = x.reading \ {op}, DOMAIN y.handle = DOMAIN x.handle, y.watch = x.watch,
         y.watches = x.watches, y.roots = x.roots, y.pending = x.pending, y.err \in {"nil", "error"},
         y.queue = x.queue, y.port = x.port
  PROVE  Good(y, held \cup {op})
<1>1. Ended(y) = Ended(x) /\ (\A id : Valid(y, id) <=> Valid(x, id)) /\ InTable(y) = InTable(x)
  BY DEF Ended, Valid, InTable
<1>2. Tables(y)
  BY <1>1 DEF Good, Tables
<1>3. Reads(y, held \cup {op})
  BY <1>1 DEF Good, Reads
<1> QED BY <1>2, <1>3 DEF Good

LEMMA CancelGood ==
  ASSUME NEW x, NEW held, NEW op, Good(x, held)
  PROVE  LET y == Cancel(x, op)
         IN  Good(y, held) /\ Grows(x, y) /\ y.reading = x.reading \ {op}
<1>1. CASE op \notin x.reading
  BY <1>1 DEF Cancel, Grows
<1>2. CASE op \in x.reading
  <2> DEFINE z == [x EXCEPT !.reading = @ \ {op}]
             p == Packet(op, "aborted", <<>>)
  <2>1. /\ IsIo(z) /\ z.reading = x.reading \ {op} /\ z.handle = x.handle /\ z.watch = x.watch
        /\ z.watches = x.watches /\ z.roots = x.roots /\ z.pending = x.pending /\ z.err = x.err
        /\ z.queue = x.queue /\ z.port = x.port
    BY DEF Good, Tables, IsIo
  <2>2. Cancel(x, op) = Post(z, p)
    BY <1>2 DEF Cancel
  <2> HIDE DEF z
  <2>3. p.op = op /\ op # NoRead /\ op \notin held
    BY <1>2 DEF Packet, Good, Reads
  <2> HIDE DEF p
  <2>4. z.err \in {"nil", "error"}
    BY <2>1 DEF Good, Tables
  <2>5. Good(z, held \cup {op})
    BY <1>2, <2>1, <2>4, ReadEnds
  <2>6. /\ Good(Post(z, p), (held \cup {op}) \ {op}) /\ Grows(z, Post(z, p))
        /\ Post(z, p).reading = z.reading
    BY <2>3, <2>5, PostGood
  <2>7. (held \cup {op}) \ {op} = held
    BY <2>3
  <2> QED BY <2>1, <2>2, <2>6, <2>7 DEF Grows
<1> QED BY <1>1, <1>2

LEMMA CancelActiveGood ==
  ASSUME NEW x, NEW held, NEW id, Good(x, held)
  PROVE  LET y == CancelActive(x, id)
         IN  Good(y, held) /\ Grows(x, y) /\ y.reading \subseteq x.reading
<1> DEFINE y == CancelActive(x, id)
           z == IF Valid(x, id) THEN Cancel(x, x.watch[id].active) ELSE x
           err == IF Valid(x, id) THEN "nil" ELSE "error"
<1>1. Good(z, held) /\ Grows(x, z) /\ z.reading \subseteq x.reading
  <2> DEFINE d == Cancel(x, x.watch[id].active)
  <2>1. CASE Valid(x, id)
    <3>1. Good(d, held) /\ Grows(x, d) /\ d.reading = x.reading \ {x.watch[id].active}
      BY CancelGood
    <3>2. z = d
      BY <2>1
    <3> HIDE DEF d, z
    <3> QED BY <3>1, <3>2
  <2>2. CASE ~Valid(x, id)
    BY <2>2 DEF Grows
  <2> QED BY <2>1, <2>2
<1>2. y = [z EXCEPT !.err = err] /\ err \in {"nil", "error"}
  BY DEF CancelActive
<1> HIDE DEF y, z, err
<1>3. SameReads(z, y)
  BY <1>1, <1>2 DEF Good, Tables, IsIo, SameReads
<1>4. Good(y, held) /\ Grows(z, y)
  BY <1>1, <1>3, SameReadsGood
<1> QED BY <1>1, <1>3, <1>4 DEF Grows, SameReads, y

(* A read is made on the open handle of a watch that has none: it is new,  *)
(* and the kernel has it or has ended it with a packet.                    *)
LEMMA NewReadGood ==
  ASSUME NEW x, NEW held, NEW id, Good(x, held), Valid(x, id), x.watch[id].active = NoRead
  PROVE  LET y == NewRead(x, id)
         IN  Good(y, held) /\ Grows(x, y)
<1> DEFINE Free(k) == [id |-> id, n |-> k] \notin x.pending
           n == CHOOSE k \in 1..(Cardinality(x.pending) + 1) : Free(k)
           op == [id |-> id, n |-> n]
           z == [x EXCEPT !.watch[id].active = op, !.pending = @ \cup {op}, !.err = "nil"]
           h == [z.handle[id] EXCEPT !.on = TRUE, !.tree = x.watch[id].recurse]
           z1 == [z EXCEPT !.handle[id] = h, !.reading = @ \cup {op}]
<1>1. \A o \in x.pending : o.id # id
  BY ReadOfWatch
<1>2. Free(1)
  BY <1>1
<1>3. IsFiniteSet(x.pending) /\ Cardinality(x.pending) \in Nat
  BY FS_CardinalityType DEF Good, Reads
<1>4. n \in 1..(Cardinality(x.pending) + 1) /\ Free(n)
  <2>1. 1 \in 1..(Cardinality(x.pending) + 1)
    BY <1>3
  <2> QED BY <1>2, <2>1
<1>5. op.id = id /\ op \notin x.pending /\ op # NoRead
  <2> HIDE DEF n
  <2>1. n # 0
    BY <1>3, <1>4
  <2> QED BY <1>4, <2>1 DEF NoRead
<1>6. id \in DOMAIN x.watch /\ id \in DOMAIN x.handle
  BY DEF Good, Tables, Valid, InTable, Range
<1>7. NewRead(x, id) = IF h.kept = <<>> THEN z1 ELSE Complete(z1, op)
  BY DEF NewRead, Submit
<1> HIDE DEF n, op
<1>8. /\ IsIo(z) /\ z.watch = [x.watch EXCEPT ![id].active = op] /\ z.pending = x.pending \cup {op}
      /\ z.err = "nil" /\ z.handle = x.handle /\ z.reading = x.reading /\ z.watches = x.watches
      /\ z.roots = x.roots /\ z.queue = x.queue /\ z.port = x.port
  BY DEF Good, Tables, IsIo
<1> HIDE DEF z, h
<1>9. /\ IsIo(z1) /\ z1.watch = z.watch /\ z1.pending = z.pending
      /\ z1.err = z.err /\ DOMAIN z1.handle = DOMAIN z.handle /\ z1.reading = x.reading \cup {op}
      /\ z1.watches = z.watches /\ z1.roots = z.roots /\ z1.queue = z.queue /\ z1.port = z.port
  BY <1>8 DEF IsIo
<1> HIDE DEF z1
<1>10. /\ DOMAIN z1.watch = DOMAIN x.watch /\ \A k \in DOMAIN x.watch : k # id => z1.watch[k] = x.watch[k]
       /\ IsWatch(z1.watch[id]) /\ z1.watch[id].obj = x.watch[id].obj /\ z1.watch[id].active = op
  BY <1>6, <1>8, <1>9 DEF Good, Tables, IsWatch
<1>11. Ended(z1) = Ended(x) /\ InTable(z1) = InTable(x) /\ \A k : Valid(z1, k) <=> Valid(x, k)
  BY <1>8, <1>9 DEF Ended, InTable, Valid
<1>12. Tables(z1)
  BY <1>6, <1>8, <1>9, <1>10, <1>11 DEF Good, Tables
<1>13. IsFiniteSet(z1.pending)
  BY <1>3, <1>8, <1>9, FS_AddElement
<1>14. Reads(z1, held)
  <2>1. /\ Packets(z1.queue) /\ NoRead \notin z1.pending
        /\ z1.pending = z1.reading \cup Ended(z1) \cup held
        /\ z1.reading \cap Ended(z1) = {} /\ held \cap (z1.reading \cup Ended(z1)) = {}
    BY <1>5, <1>8, <1>9, <1>11 DEF Good, Reads
  <2>2. \A o \in z1.pending : Valid(z1, o.id) /\ z1.watch[o.id].active = o
    BY <1>1, <1>5, <1>8, <1>9, <1>10, <1>11, ReadOfWatch DEF Valid
  <2>3. \A k \in DOMAIN z1.watch : LET a == z1.watch[k].active
                                   IN  a = NoRead \/ (a \in z1.pending /\ a.id = k)
    BY <1>5, <1>8, <1>9, <1>10 DEF Good, Reads
  <2> QED BY <1>13, <2>1, <2>2, <2>3 DEF Reads
<1>15. Good(z1, held) /\ Grows(x, z1)
  BY <1>8, <1>9, <1>12, <1>14 DEF Good, Grows
<1>16. Good(Complete(z1, op), held) /\ Grows(z1, Complete(z1, op))
  <2> DEFINE kept == z1.handle[op.id].kept
             p == IF Len(kept) > MaxChanges THEN Packet(op, "more data", <<>>)
                  ELSE Packet(op, "none", kept)
             e == [z1 EXCEPT !.reading = @ \ {op}, !.handle[op.id].kept = <<>>,
                             !.lost = @ \/ Len(kept) > MaxChanges]
  <2>1. Complete(z1, op) = Post(e, p)
    BY DEF Complete
  <2>2. p.op = op
    BY DEF Packet
  <2> HIDE DEF p, kept
  <2>3. /\ IsIo(e) /\ e.reading = z1.reading \ {op} /\ DOMAIN e.handle = DOMAIN z1.handle /\ e.watch = z1.watch
        /\ e.watches = z1.watches /\ e.roots = z1.roots /\ e.pending = z1.pending /\ e.err = z1.err
        /\ e.queue = z1.queue /\ e.port = z1.port
    BY <1>9 DEF IsIo
  <2> HIDE DEF e
  <2>4. op \in z1.reading /\ e.err \in {"nil", "error"}
    BY <1>8, <1>9, <2>3
  <2>5. Good(e, held \cup {op})
    BY <1>15, <2>3, <2>4, ReadEnds
  <2>6. Good(Post(e, p), (held \cup {op}) \ {op}) /\ Grows(e, Post(e, p))
    BY <1>5, <2>2, <2>5, PostGood
  <2>7. op \notin held
    BY <1>5 DEF Good, Reads
  <2>8. (held \cup {op}) \ {op} = held
    BY <2>7
  <2> QED BY <2>1, <2>3, <2>6, <2>8 DEF Grows
<1> QED BY <1>7, <1>15, <1>16 DEF Grows

LEMMA StartReadGood ==
  ASSUME NEW x, NEW held, NEW id, NEW isClosed, Good(x, held)
  PROVE  LET y == startRead(x, id, isClosed) IN Good(y, held) /\ Grows(x, y)
<1> DEFINE y == startRead(x, id, isClosed)
           w == x.watch[id]
<1>1. \/ w.active # NoRead /\ y = CancelActive(x, id)
      \/ y = closeWatch(x, id)
      \/ y = [x EXCEPT !.err = "error"]
      \/ w.active = NoRead /\ Valid(x, id) /\ y = NewRead(x, id)
  BY DEF startRead
<1> HIDE DEF y
<1>2. CASE y = CancelActive(x, id)
  BY <1>2, CancelActiveGood DEF y
<1>3. CASE y = closeWatch(x, id)
  BY <1>3, CloseWatchGood DEF y
<1>4. CASE y = [x EXCEPT !.err = "error"]
  <2>1. SameReads(x, y)
    BY <1>4 DEF Good, Tables, IsIo, SameReads
  <2> QED BY <2>1, SameReadsGood DEF y
<1>5. CASE w.active = NoRead /\ Valid(x, id) /\ y = NewRead(x, id)
  BY <1>5, NewReadGood DEF y
<1> QED BY <1>1, <1>2, <1>3, <1>4, <1>5

LEMMA StopReadGood ==
  ASSUME NEW x, NEW held, NEW id, Good(x, held)
  PROVE  LET y == stopRead(x, id)
         IN  Good(y, held) /\ Grows(x, y) /\ y.reading \subseteq x.reading
<1>1. LET y == closeWatch(x, id) IN Good(y, held) /\ Grows(x, y) /\ y.reading \subseteq x.reading
  BY CloseWatchGood DEF SameQueue
<1>2. LET y == CancelActive(x, id) IN Good(y, held) /\ Grows(x, y) /\ y.reading \subseteq x.reading
  BY CancelActiveGood
<1> QED BY <1>1, <1>2 DEF stopRead

(* A read that was taken from the queue is no longer the one of its watch. *)
LEMMA DequeueGood ==
  ASSUME NEW x, NEW op, Good(x, {op})
  PROVE  LET y == Dequeue(x, op) IN Good(y, {}) /\ Grows(x, y) /\ y.reading = x.reading
<1> DEFINE y == Dequeue(x, op)
           z == [x EXCEPT !.pending = @ \ {op}]
<1>1. op \in x.pending
  BY DEF Good, Reads
<1>2. op.id \in DOMAIN x.watch /\ x.watch[op.id].active = op /\ op # NoRead
  BY <1>1, ReadOfWatch
<1>3. /\ IsIo(z) /\ z.watch = x.watch /\ z.watches = x.watches /\ z.pending = x.pending \ {op}
      /\ z.err = x.err /\ z.handle = x.handle /\ z.reading = x.reading /\ z.queue = x.queue
      /\ z.roots = x.roots /\ z.port = x.port
  BY DEF Good, Tables, IsIo
<1>4. y = [z EXCEPT !.watch[op.id].active = NoRead]
  BY <1>2, <1>3 DEF Dequeue
<1> HIDE DEF y, z
<1>5. /\ IsIo(y) /\ y.watch = [x.watch EXCEPT ![op.id].active = NoRead] /\ y.watches = x.watches
      /\ y.pending = x.pending \ {op}
      /\ y.err = x.err /\ y.handle = x.handle /\ y.reading = x.reading /\ y.queue = x.queue
      /\ y.roots = x.roots /\ y.port = x.port
  BY <1>3, <1>4 DEF IsIo
<1>6. /\ DOMAIN y.watch = DOMAIN x.watch /\ \A k \in DOMAIN x.watch : k # op.id => y.watch[k] = x.watch[k]
      /\ IsWatch(y.watch[op.id]) /\ y.watch[op.id].obj = x.watch[op.id].obj
      /\ y.watch[op.id].active = NoRead
  BY <1>2, <1>5 DEF Good, Tables, IsWatch
<1>7. Ended(y) = Ended(x) /\ InTable(y) = InTable(x) /\ \A k : Valid(y, k) <=> Valid(x, k)
  BY <1>5 DEF Ended, InTable, Valid
<1>8. Tables(y)
  BY <1>2, <1>5, <1>6, <1>7 DEF Good, Tables
<1>9. \A o \in y.pending : o.id # op.id
  BY <1>2, <1>5, ReadOfWatch
<1>10. IsFiniteSet(y.pending)
  BY <1>5, FS_RemoveElement DEF Good, Reads
<1>11. Reads(y, {})
  <2>1. /\ Packets(y.queue) /\ NoRead \notin y.pending
        /\ y.pending = y.reading \cup Ended(y)
        /\ y.reading \cap Ended(y) = {}
    BY <1>5, <1>7 DEF Good, Reads
  <2>2. \A o \in y.pending : Valid(y, o.id) /\ y.watch[o.id].active = o
    BY <1>5, <1>6, <1>7, <1>9, ReadOfWatch DEF Valid
  <2>3. \A k \in DOMAIN y.watch : LET a == y.watch[k].active
                                  IN  a = NoRead \/ (a \in y.pending /\ a.id = k)
    BY <1>5, <1>6 DEF Good, Reads
  <2> QED BY <1>10, <2>1, <2>2, <2>3 DEF Reads
<1> QED BY <1>5, <1>8, <1>11 DEF Good, Grows, y

(* A new watch has a number of its own. *)
LEMMA CreatedGood ==
  ASSUME NEW x, NEW held, NEW o, NEW path, NEW rec, Good(x, held), o \notin DOMAIN x.watches
  PROVE  LET y == Created(x, o, path, rec) IN Good(y, held) /\ SameQueue(x, y)
<1> DEFINE id == Cardinality(DOMAIN x.watch) + 1
           w == NewWatch(o, path, rec)
           h == [obj |-> o, on |-> FALSE, tree |-> FALSE, kept |-> <<>>]
           y == Created(x, o, path, rec)
<1>1. PICK n \in Nat : DOMAIN x.watch = 1..n
  BY DEF Good, Tables
<1>2. id = n + 1
  <2>1. 1 \in Int /\ n \in Int
    OBVIOUS
  <2>2. Cardinality(1..n) = IF 1 > n THEN 0 ELSE n - 1 + 1
    BY <2>1, FS_Interval
  <2> QED BY <1>1, <2>2
<1>3. /\ IsIo(y) /\ y.watch = Assign(x.watch, id, w) /\ y.watches = Assign(x.watches, o, id)
      /\ y.pending = x.pending /\ y.err = x.err /\ y.handle = Assign(x.handle, id, h)
      /\ y.reading = x.reading /\ y.queue = x.queue /\ y.roots = x.roots /\ y.port = x.port
  BY DEF Good, Tables, IsIo, Created, OpenHandle
<1>4. IsWatch(w) /\ w.obj = o /\ w.active = NoRead
  BY DEF NewWatch, IsWatch
<1> HIDE DEF y, id, w, h
<1>5. id \notin DOMAIN x.watch /\ (DOMAIN x.watch) \cup {id} = 1..(n + 1) /\ n + 1 \in Nat
  BY <1>1, <1>2
<1>6. /\ DOMAIN y.watch = (DOMAIN x.watch) \cup {id} /\ \A k \in DOMAIN x.watch : y.watch[k] = x.watch[k]
      /\ y.watch[id] = w
      /\ DOMAIN y.watches = (DOMAIN x.watches) \cup {o} /\ y.watches[o] = id
      /\ \A u \in DOMAIN x.watches : y.watches[u] = x.watches[u]
      /\ DOMAIN y.handle = (DOMAIN x.handle) \cup {id}
  BY <1>3, <1>5 DEF Assign
<1>7. InTable(y) = InTable(x) \cup {id}
  BY <1>6 DEF InTable, Range
<1>8. Tables(y)
  <2>1. \E m \in Nat : DOMAIN y.watch = 1..m
    BY <1>5, <1>6
  <2>2. DOMAIN y.handle = InTable(y) /\ y.err \in {"nil", "error"} /\ IsFiniteSet(DOMAIN y.roots)
    BY <1>3, <1>6, <1>7 DEF Good, Tables
  <2>3. \A k \in DOMAIN y.watch : IsWatch(y.watch[k])
    BY <1>4, <1>6 DEF Good, Tables
  <2>4. \A u \in DOMAIN y.watches : y.watches[u] \in DOMAIN y.watch /\ y.watch[y.watches[u]].obj = u
    BY <1>4, <1>6 DEF Good, Tables
  <2> QED BY <1>3, <2>1, <2>2, <2>3, <2>4 DEF Tables
<1>9. Reads(y, held)
  <2>1. Ended(y) = Ended(x)
    BY <1>3 DEF Ended
  <2>2. \A op \in y.pending : Valid(y, op.id) /\ y.watch[op.id].active = op
    BY <1>3, <1>6, ReadOfWatch DEF Valid
  <2>3. \A k \in DOMAIN y.watch : LET a == y.watch[k].active
                                  IN  a = NoRead \/ (a \in y.pending /\ a.id = k)
    BY <1>3, <1>4, <1>6 DEF Good, Reads
  <2> QED BY <1>3, <2>1, <2>2, <2>3 DEF Good, Reads
<1> QED BY <1>3, <1>8, <1>9 DEF Good, SameQueue, y

LEMMA EnsuredGood ==
  ASSUME NEW x, NEW held, NEW o, NEW path, NEW rec, Good(x, held)
  PROVE  LET y == Ensured(x, o, path, rec) IN Good(y, held) /\ SameQueue(x, y) /\ Grows(x, y)
<1> DEFINE y == Ensured(x, o, path, rec)
<1>1. CASE o \in DOMAIN x.watches
  BY <1>1 DEF Ensured, SameQueue, Grows
<1>2. CASE o \notin DOMAIN x.watches
  <2>1. Good(y, held) /\ SameQueue(x, y)
    BY <1>2, CreatedGood DEF Ensured
  <2> HIDE DEF y
  <2> QED BY <2>1 DEF SameQueue, Grows, y
<1> QED BY <1>1, <1>2

-----------------------------------------------------------------------------
(* Close.                                                                  *)
-----------------------------------------------------------------------------
(* beginClose cancels every read the kernel has. *)
LEMMA BeginCloseGood ==
  ASSUME NEW x, NEW held, Good(x, held)
  PROVE  LET y == beginClose(x)
         IN  Good(y, held) /\ Grows(x, y) /\ y.reading = {} /\ y.pending = x.pending
<1> DEFINE u == clearWatches([x EXCEPT !.roots = <<>>], InTable(x))
           v == closeWatches(u, Unread(x))
           stopped == {op \in x.reading : op.id \in InTable(x) /\ op = x.watch[op.id].active}
           packets == [op \in stopped |-> Packet(op, "aborted", <<>>)]
           y == beginClose(x)
<1>1. y = EndReads(v, packets)
  BY DEF beginClose
<1>2. /\ IsIo(u) /\ u.watches = x.watches /\ u.roots = <<>> /\ u.pending = x.pending /\ u.err = x.err
      /\ u.handle = x.handle /\ u.reading = x.reading /\ u.queue = x.queue /\ u.port = x.port
      /\ DOMAIN u.watch = DOMAIN x.watch
      /\ \A id \in DOMAIN x.watch : u.watch[id] = x.watch[id]
                                   \/ u.watch[id] = [x.watch[id] EXCEPT !.names = <<>>, !.mask = {}]
  BY DEF Good, Tables, IsIo, clearWatches
<1> HIDE DEF u
<1>3. SameReads(x, u)
  <2>1. \A id \in DOMAIN u.watch : /\ IsWatch(u.watch[id]) /\ u.watch[id].obj = x.watch[id].obj
                                   /\ u.watch[id].active = x.watch[id].active
    <3> SUFFICES ASSUME NEW id \in DOMAIN x.watch
                 PROVE  /\ IsWatch(u.watch[id]) /\ u.watch[id].obj = x.watch[id].obj
                        /\ u.watch[id].active = x.watch[id].active
      BY <1>2
    <3>1. IsWatch(x.watch[id])
      BY DEF Good, Tables
    <3> QED BY <1>2, <3>1 DEF IsWatch
  <2>2. IsFiniteSet(DOMAIN u.roots)
    <3>1. u.roots = <<>>
      BY <1>2
    <3>2. DOMAIN <<>> = {}
      OBVIOUS
    <3> QED BY <3>1, <3>2, FS_EmptySet
  <2> QED BY <1>2, <2>1, <2>2 DEF Good, Tables, SameReads
<1>4. Good(u, held)
  BY <1>3, SameReadsGood
<1>5. InTable(u) = InTable(x) /\ Unread(u) = Unread(x)
  <2>1. InTable(u) = InTable(x)
    BY <1>2 DEF InTable
  <2>2. InTable(x) \subseteq DOMAIN x.watch
    BY DEF Good, Tables, InTable, Range
  <2> QED BY <1>3, <2>1, <2>2 DEF Unread, SameReads
<1>6. Good(v, held) /\ SameQueue(u, v)
  BY <1>4, <1>5, CloseWatchesGood
<1> HIDE DEF v
<1>7. stopped = x.reading
  <2>1. x.reading \subseteq x.pending
    BY DEF Good, Reads
  <2> QED BY <2>1, ReadOfWatch
<1>8. DOMAIN packets = x.reading /\ \A op \in DOMAIN packets : packets[op].op = op
  BY <1>7 DEF Packet
<1> HIDE DEF packets
<1>9. v.reading = x.reading /\ v.pending = x.pending /\ v.queue = x.queue /\ v.port = x.port
  BY <1>2, <1>6 DEF SameQueue
<1>10. Good(EndReads(v, packets), held) /\ Grows(v, EndReads(v, packets))
  BY <1>6, <1>8, <1>9, EndReadsGood
<1>11. y.reading = v.reading \ DOMAIN packets /\ y.pending = v.pending
  BY <1>1, <1>6, EndReadsOnly DEF Good, Tables
<1> QED BY <1>1, <1>8, <1>9, <1>10, <1>11 DEF Grows

(* finishClose closes the port when no read is outstanding, and nothing is *)
(* left then.                                                              *)
LEMMA FinishCloseGood ==
  ASSUME NEW x, Good(x, {}), x.port = "open", x.reading = {}
  PROVE  LET y == finishClose(x)
         IN  /\ Good(y, {}) /\ y.reading = {}
             /\ \/ y.port = "open" /\ y.queue # <<>>
                \/ /\ y.port = "closed" /\ y.queue = <<>>
                   /\ y.handle = <<>> /\ y.pending = {} /\ y.watches = <<>>
<1> DEFINE y == finishClose(x)
           v == closeWatches(x, Unread(x))
<1>1. CASE x.pending # {}
  <2>1. y = x
    BY <1>1 DEF finishClose
  <2>2. Ended(x) # {}
    BY <1>1 DEF Good, Reads
  <2>3. x.queue # <<>>
    BY <2>2 DEF Ended
  <2> QED BY <2>1, <2>3
<1>2. CASE x.pending = {}
  <2>1. y = [v EXCEPT !.port = "closed", !.queue = <<>>]
    BY <1>2 DEF finishClose
  <2>2. /\ Good(v, {}) /\ SameQueue(x, v) /\ v.watch = x.watch
        /\ InTable(v) = InTable(x) \ Unread(x) /\ DOMAIN v.handle = InTable(v)
    BY CloseWatchesGood
  <2>3. v.watches = Restrict(x.watches, {o \in DOMAIN x.watches : x.watches[o] \notin Unread(x)})
        /\ v.handle = Restrict(x.handle, DOMAIN x.handle \ Unread(x))
    BY DEF Good, Tables, IsIo, closeWatches
  <2>4. InTable(x) = Unread(x)
    BY <1>2 DEF Good, Tables, Reads, Unread, InTable, Range
  <2>5. v.watches = <<>> /\ v.handle = <<>>
    <3>1. {o \in DOMAIN x.watches : x.watches[o] \notin Unread(x)} = {}
      BY <2>4 DEF InTable, Range
    <3>2. DOMAIN x.handle \ Unread(x) = {}
      BY <2>4 DEF Good, Tables
    <3>3. \A f : Restrict(f, {}) = <<>>
      BY DEF Restrict
    <3> QED BY <2>3, <3>1, <3>2, <3>3
  <2> HIDE DEF v, y
  <2>6. /\ IsIo(y) /\ y.watch = v.watch /\ y.watches = v.watches /\ y.roots = v.roots
        /\ y.pending = {} /\ y.err = v.err /\ y.handle = v.handle /\ y.reading = {}
        /\ y.queue = <<>> /\ y.port = "closed"
    BY <1>2, <2>1, <2>2 DEF Good, Tables, IsIo, SameQueue
  <2>7. InTable(y) = InTable(v) /\ Ended(y) = {}
    BY <2>6 DEF InTable, Ended
  <2>8. Tables(y)
    BY <2>2, <2>6, <2>7 DEF Good, Tables
  <2>9. Packets(y.queue) /\ IsFiniteSet(y.pending)
    BY <2>6, FS_EmptySet DEF Packets, Range
  <2>10. \A id \in DOMAIN y.watch : y.watch[id].active = NoRead
    BY <1>2, <2>2, <2>6 DEF Good, Reads
  <2>11. Reads(y, {})
    BY <2>6, <2>7, <2>9, <2>10 DEF Reads
  <2> QED BY <2>5, <2>6, <2>8, <2>11 DEF Good, y
<1> QED BY <1>1, <1>2

-----------------------------------------------------------------------------
(* What pieces do to masks, names and roots.                               *)
-----------------------------------------------------------------------------
(* A watch keeps its object and its read. *)
Alike(w, v) == IsWatch(w) => IsWatch(v) /\ v.obj = w.obj /\ v.active = w.active

LEMMA SetNameAlike == \A w, name, mask : Alike(w, SetName(w, name, mask))
BY DEF Alike, IsWatch, SetName

LEMMA AlikeTwice == \A u, v, w : Alike(u, v) /\ Alike(v, w) => Alike(u, w)
BY DEF Alike

LEMMA WatchSet ==
  ASSUME NEW x, NEW held, NEW id, NEW w, Good(x, held), Alike(x.watch[id], w)
  PROVE  LET y == [x EXCEPT !.watch[id] = w]
         IN  Good(y, held) /\ Grows(x, y) /\ SameQueue(x, y)
<1> DEFINE y == [x EXCEPT !.watch[id] = w]
<1>1. /\ IsIo(y) /\ y.watch = [x.watch EXCEPT ![id] = w] /\ y.watches = x.watches /\ y.roots = x.roots
      /\ y.pending = x.pending /\ y.err = x.err /\ y.handle = x.handle /\ y.reading = x.reading
      /\ y.queue = x.queue /\ y.port = x.port
  BY DEF Good, Tables, IsIo
<1> HIDE DEF y
<1>2. SameReads(x, y)
  <2>1. \A k \in DOMAIN y.watch : /\ IsWatch(y.watch[k]) /\ y.watch[k].obj = x.watch[k].obj
                                  /\ y.watch[k].active = x.watch[k].active
    BY <1>1 DEF Good, Tables, Alike
  <2> QED BY <1>1, <2>1 DEF Good, Tables, SameReads
<1> QED BY <1>1, <1>2, SameReadsGood DEF SameQueue, y

LEMMA RootsSet ==
  ASSUME NEW x, NEW held, NEW roots, Good(x, held), IsFiniteSet(DOMAIN roots)
  PROVE  LET y == [x EXCEPT !.roots = roots] IN Good(y, held) /\ Grows(x, y)
<1> DEFINE y == [x EXCEPT !.roots = roots]
<1>1. SameReads(x, y)
  BY DEF Good, Tables, IsIo, SameReads
<1> HIDE DEF y
<1> QED BY <1>1, SameReadsGood DEF y

LEMMA ClearWatchGood ==
  ASSUME NEW x, NEW held, NEW id, Good(x, held)
  PROVE  Good(clearWatch(x, id), held) /\ Grows(x, clearWatch(x, id))
<1> DEFINE w == [x.watch[id] EXCEPT !.names = <<>>, !.mask = {}]
<1>1. clearWatch(x, id) = [x EXCEPT !.watch[id] = w]
  BY DEF clearWatch, Good, Tables, IsIo
<1>2. Alike(x.watch[id], w)
  BY DEF Alike, IsWatch
<1> HIDE DEF w
<1> QED BY <1>1, <1>2, WatchSet

LEMMA WithoutRootGood ==
  ASSUME NEW x, NEW held, NEW p, NEW isEvent, Good(x, held)
  PROVE  LET y == WithoutRoot(x, p, isEvent) IN Good(y, held) /\ Grows(x, y)
<1> DEFINE r == x.roots[p]
           roots == Restrict(x.roots, DOMAIN x.roots \ {p})
           x0 == [x EXCEPT !.roots = roots]
           w1 == SetName(x.watch[r.parent], r.name, NameMask(x.watch[r.parent], r.name) \ {"monitor"})
           x1 == [x0 EXCEPT !.watch[r.parent] = w1]
           w2 == [x1.watch[r.root] EXCEPT !.mask = {}]
           x2 == IF isEvent THEN [x1 EXCEPT !.watch[r.root] = w2] ELSE x1
           w3 == [x2.watch[r.root] EXCEPT !.recurse = FALSE]
           x3 == [x2 EXCEPT !.watch[r.root] = w3]
<1>1. x1 = [x EXCEPT !.roots = roots, !.watch[r.parent] = w1]
  BY DEF Good, Tables, IsIo
<1>2. WithoutRoot(x, p, isEvent) = x3
  BY <1>1 DEF WithoutRoot
<1>3. Good(x0, held) /\ Grows(x, x0) /\ x0.watch = x.watch
  <2>1. DOMAIN roots = DOMAIN x.roots \ {p}
    BY DEF Restrict
  <2> HIDE DEF roots
  <2>2. IsFiniteSet(DOMAIN roots)
    <3>1. IsFiniteSet(DOMAIN x.roots)
      BY DEF Good, Tables
    <3>2. IsFiniteSet(DOMAIN x.roots \ {p})
      BY <3>1, FS_RemoveElement
    <3> QED BY <2>1, <3>2
  <2> QED BY <2>2, RootsSet DEF Good, Tables, IsIo
<1> HIDE DEF x0, w1
<1>4. Good(x1, held) /\ Grows(x0, x1)
  <2>1. Alike(x0.watch[r.parent], w1)
    BY <1>3, SetNameAlike DEF w1
  <2> QED BY <1>3, <2>1, WatchSet
<1> HIDE DEF x1
<1>5. Good(x2, held) /\ Grows(x1, x2)
  <2>1. Alike(x1.watch[r.root], w2)
    BY DEF Alike, IsWatch
  <2> HIDE DEF w2
  <2> QED BY <1>4, <2>1, WatchSet DEF Grows
<1> HIDE DEF x2
<1>6. Good(x3, held) /\ Grows(x2, x3)
  <2>1. Alike(x2.watch[r.root], w3)
    BY DEF Alike, IsWatch
  <2> HIDE DEF w3
  <2> QED BY <1>5, <2>1, WatchSet
<1> HIDE DEF x3
<1> QED BY <1>2, <1>3, <1>4, <1>5, <1>6 DEF Grows

LEMMA RenamedGood ==
  ASSUME NEW x, NEW held, NEW id, NEW name, Good(x, held)
  PROVE  LET y == Renamed(x, id, name) IN Good(y, held) /\ Grows(x, y)
<1> DEFINE w    == x.watch[id]
           old  == w.path \o w.rename
           new  == w.path \o name
           ids  == {x.watches[o] : o \in DOMAIN x.watches}
           x1   == [x EXCEPT !.watch = [k \in DOMAIN @ |->
                      IF k \in ids /\ Under(@[k].path, old)
                      THEN [x.watch[k] EXCEPT !.path = Rebased(@, old, new)] ELSE @[k]]]
           w1   == x1.watch[id]
           mask == NameMask(w1, w.rename)
           w2   == IF mask = {} THEN w1
                   ELSE SetName(SetName(w1, name, NameMask(w1, name) \cup mask), w.rename, {})
<1>1. Renamed(x, id, name) = [x1 EXCEPT !.watch[id] = w2]
  BY DEF Renamed
<1>2. Good(x1, held) /\ Grows(x, x1)
  <2>1. /\ IsIo(x1) /\ DOMAIN x1.watch = DOMAIN x.watch /\ x1.watches = x.watches /\ x1.roots = x.roots
        /\ x1.pending = x.pending /\ x1.err = x.err /\ x1.handle = x.handle /\ x1.reading = x.reading
        /\ x1.queue = x.queue /\ x1.port = x.port
        /\ \A k \in DOMAIN x.watch : \/ x1.watch[k] = x.watch[k]
                                     \/ x1.watch[k] = [x.watch[k] EXCEPT !.path = Rebased(@, old, new)]
    BY DEF Good, Tables, IsIo
  <2> HIDE DEF x1, old, new
  <2>2. \A k \in DOMAIN x.watch : Alike(x.watch[k], x1.watch[k])
    <3> SUFFICES ASSUME NEW k \in DOMAIN x.watch
                 PROVE  Alike(x.watch[k], x1.watch[k])
      OBVIOUS
    <3>1. \A v, path : Alike(v, v) /\ Alike(v, [v EXCEPT !.path = path])
      BY DEF Alike, IsWatch
    <3> DEFINE path == Rebased(x.watch[k].path, old, new)
    <3>2. x1.watch[k] = x.watch[k] \/ x1.watch[k] = [x.watch[k] EXCEPT !.path = path]
      BY <2>1
    <3> HIDE DEF path
    <3> QED BY <3>1, <3>2
  <2>3. SameReads(x, x1)
    BY <2>1, <2>2 DEF Good, Tables, SameReads, Alike
  <2> QED BY <2>3, SameReadsGood
<1> HIDE DEF x1
<1>3. Alike(x1.watch[id], w2)
  <2>1. \A v : Alike(v, v)
    BY DEF Alike
  <2> QED BY <2>1, SetNameAlike, AlikeTwice
<1> HIDE DEF w2
<1>4. Good([x1 EXCEPT !.watch[id] = w2], held) /\ Grows(x1, [x1 EXCEPT !.watch[id] = w2])
  BY <1>2, <1>3, WatchSet
<1> QED BY <1>1, <1>2, <1>4 DEF Grows

-----------------------------------------------------------------------------
(* The pieces keep the tables and the reads sound, and lose no packet.     *)
-----------------------------------------------------------------------------
Kept == Good(io', {}) /\ Grows(io, io')

LEMMA UnchangedKept == ASSUME Good(io, {}), UNCHANGED io PROVE Kept
BY DEF Kept, Grows

LEMMA DoReadKept == ASSUME Good(io, {}), DoRead PROVE Kept
<1>1. UNCHANGED io \/ \E id : io' = startRead(io, id, closed)
  BY DEF DoRead
<1>2. ASSUME NEW id, io' = startRead(io, id, closed) PROVE Kept
  BY <1>2, StartReadGood DEF Kept
<1> QED BY <1>1, <1>2, UnchangedKept

LEMMA DoBuryKept == ASSUME Good(io, {}), DoBury PROVE Kept
<1> DEFINE id == Head(todo).id
           x1 == clearWatch(io, id)
           x2 == closeWatch(x1, id)
<1>1. Good(x1, {}) /\ Grows(io, x1)
  BY ClearWatchGood
<1> HIDE DEF x1
<1>2. Good(x2, {}) /\ Grows(x1, x2)
  BY <1>1, CloseWatchGood
<1>3. io' = x2 \/ io' = [x2 EXCEPT !.err = "error"]
  BY DEF DoBury, x1
<1> HIDE DEF x2
<1>4. LET y == [x2 EXCEPT !.err = "error"] IN Good(y, {}) /\ Grows(x2, y)
  <2> DEFINE y == [x2 EXCEPT !.err = "error"]
  <2>1. SameReads(x2, y)
    BY <1>2 DEF Good, Tables, IsIo, SameReads
  <2> HIDE DEF y
  <2> QED BY <1>2, <2>1, SameReadsGood DEF y
<1> QED BY <1>1, <1>2, <1>3, <1>4 DEF Kept, Grows

LEMMA DoUnrootKept == ASSUME Good(io, {}), DoUnroot PROVE Kept
<1>1. UNCHANGED io \/ io' = WithoutRoot(io, Head(todo).path, Head(todo).isEvent)
  BY DEF DoUnroot
<1>2. ASSUME io' = WithoutRoot(io, Head(todo).path, Head(todo).isEvent) PROVE Kept
  BY <1>2, WithoutRootGood DEF Kept
<1> QED BY <1>1, <1>2, UnchangedKept

LEMMA DoHandleKept == ASSUME Good(io, {}), DoHandle PROVE Kept
<1> DEFINE id   == Head(todo).id
           ch   == Head(todo).change
           root == recursiveRootPath(io, id, ch.name)
           w1   == [io.watch[id] EXCEPT !.rename = ch.name]
           x1   == [io EXCEPT !.watch[id] = w1]
           w2   == [x1.watch[id] EXCEPT !.rootRename = root # <<>>]
           x2   == [x1 EXCEPT !.watch[id] = w2]
<1>1. \/ UNCHANGED io \/ io' = Renamed(io, id, ch.name)
      \/ io' = [io EXCEPT !.watch[id].rename = ch.name, !.watch[id].rootRename = root # <<>>]
  BY DEF DoHandle
<1>2. ASSUME io' = Renamed(io, id, ch.name) PROVE Kept
  BY <1>2, RenamedGood DEF Kept
<1>3. ASSUME io' = [io EXCEPT !.watch[id].rename = ch.name, !.watch[id].rootRename = root # <<>>]
      PROVE  Kept
  <2>1. io' = x2
    BY <1>3
  <2> HIDE DEF root
  <2>2. Good(x1, {}) /\ Grows(io, x1)
    <3>1. Alike(io.watch[id], w1)
      BY DEF Alike, IsWatch
    <3> HIDE DEF w1
    <3> QED BY <3>1, WatchSet
  <2> HIDE DEF x1
  <2>3. Good(x2, {}) /\ Grows(x1, x2)
    <3>1. Alike(x1.watch[id], w2)
      BY DEF Alike, IsWatch
    <3> HIDE DEF w2
    <3> QED BY <2>2, <3>1, WatchSet
  <2> QED BY <2>1, <2>2, <2>3 DEF Kept, Grows
<1> QED BY <1>1, <1>2, <1>3, UnchangedKept

LEMMA WatchSetKept ==
  ASSUME Good(io, {}), NEW id, NEW w, io' = [io EXCEPT !.watch[id] = w], Alike(io.watch[id], w)
  PROVE  Kept
BY WatchSet DEF Kept

LEMMA DoForgetKept == ASSUME Good(io, {}), DoForget PROVE Kept
<1> DEFINE id == Head(todo).id
           ch == Head(todo).change
           w  == io.watch[id]
           v  == CASE ch.act = "removed" -> SetName(w, ch.name, {})
                   [] ch.act = "new name" -> [w EXCEPT !.rename = <<>>, !.rootRename = FALSE]
                   [] OTHER -> w
<1>1. io' = [io EXCEPT !.watch[id] = v]
  BY DEF DoForget
<1>2. Alike(w, v)
  <2>1. v \in {SetName(w, ch.name, {}), [w EXCEPT !.rename = <<>>, !.rootRename = FALSE], w}
    OBVIOUS
  <2> HIDE DEF v
  <2>2. Alike(w, [w EXCEPT !.rename = <<>>, !.rootRename = FALSE]) /\ Alike(w, w)
    BY DEF Alike, IsWatch
  <2> QED BY <2>1, <2>2, SetNameAlike
<1> HIDE DEF v
<1> QED BY <1>1, <1>2, WatchSetKept

LEMMA DoDropKept == ASSUME Good(io, {}), DoDrop PROVE Kept
<1> DEFINE w == io.watch[req.id]
           v == IF req.name = <<>> THEN [w EXCEPT !.mask = {}] ELSE SetName(w, req.name, {})
<1>1. io' = [io EXCEPT !.watch[req.id] = v]
  BY DEF DoDrop
<1>2. Alike(w, v)
  <2>1. Alike(w, [w EXCEPT !.mask = {}])
    BY DEF Alike, IsWatch
  <2> QED BY <2>1, SetNameAlike
<1> HIDE DEF v
<1> QED BY <1>1, <1>2, WatchSetKept

LEMMA DoAddedKept == ASSUME Good(io, {}), DoAdded PROVE Kept
<1> DEFINE w == io.watch[req.id]
           v == IF req.name = <<>> THEN [w EXCEPT !.mask = @ \ {"provisional"}]
                ELSE SetName(w, req.name, NameMask(w, req.name) \ {"provisional"})
<1>1. UNCHANGED io \/ io' = [io EXCEPT !.watch[req.id] = v]
  BY DEF DoAdded
<1>2. Alike(w, v)
  <2>1. Alike(w, [w EXCEPT !.mask = @ \ {"provisional"}])
    BY DEF Alike, IsWatch
  <2> QED BY <2>1, SetNameAlike
<1> HIDE DEF v
<1> QED BY <1>1, <1>2, WatchSetKept, UnchangedKept

LEMMA DoUndoKept == ASSUME Good(io, {}), DoUndo PROVE Kept
<1> DEFINE id == req.id
           w1 == [io.watch[id] EXCEPT !.mask = req.oldMask]
           x1 == [io EXCEPT !.watch[id] = w1]
           w2 == [x1.watch[id] EXCEPT !.recurse = req.oldRecurse]
           x2 == [x1 EXCEPT !.watch[id] = w2]
<1>1. io' = x2
  BY DEF DoUndo
<1>2. Good(x1, {}) /\ Grows(io, x1)
  <2>1. Alike(io.watch[id], w1)
    BY DEF Alike, IsWatch
  <2> HIDE DEF w1
  <2> QED BY <2>1, WatchSet
<1> HIDE DEF x1
<1>3. Good(x2, {}) /\ Grows(x1, x2)
  <2>1. Alike(x1.watch[id], w2)
    BY DEF Alike, IsWatch
  <2> HIDE DEF w2
  <2> QED BY <1>2, <2>1, WatchSet
<1> QED BY <1>1, <1>2, <1>3 DEF Kept, Grows

LEMMA DoMonitorKept == ASSUME Good(io, {}), DoMonitor PROVE Kept
<1> DEFINE p == req.path
           x == Ensured(io, fs[Dir(p)], Dir(p), FALSE)
           parent == x.watches[fs[Dir(p)]]
           w == x.watch[parent]
           v == SetName(w, <<Last(p)>>, NameMask(w, <<Last(p)>>) \cup {"monitor"})
<1>1. UNCHANGED io \/ io' = [x EXCEPT !.watch[parent] = v]
  BY DEF DoMonitor
<1>2. Good(x, {}) /\ Grows(io, x)
  BY EnsuredGood
<1>3. Alike(w, v)
  BY SetNameAlike
<1> HIDE DEF x, v
<1>4. LET y == [x EXCEPT !.watch[parent] = v] IN Good(y, {}) /\ Grows(x, y)
  BY <1>2, <1>3, WatchSet
<1> QED BY <1>1, <1>2, <1>4, UnchangedKept DEF Kept, Grows

LEMMA DoRecheckKept == ASSUME Good(io, {}), DoRecheck PROVE Kept
<1> DEFINE name == <<Last(req.path)>>
           w == io.watch[req.parent]
           v == SetName(w, name, NameMask(w, name) \ {"monitor"})
           roots == Assign(io.roots, req.path, [root |-> req.id, parent |-> req.parent, name |-> name])
<1>1. \/ io' = [io EXCEPT !.roots = roots]
      \/ io' = [io EXCEPT !.watch[req.parent] = v]
  BY DEF DoRecheck
<1>2. DOMAIN roots = (DOMAIN io.roots) \cup {req.path}
  BY DEF Assign
<1> HIDE DEF roots, name
<1>3. IsFiniteSet(DOMAIN roots)
  <2>1. IsFiniteSet(DOMAIN io.roots)
    BY DEF Good, Tables
  <2> QED BY <1>2, <2>1, FS_AddElement
<1>4. LET y == [io EXCEPT !.roots = roots] IN Good(y, {}) /\ Grows(io, y)
  BY <1>3, RootsSet
<1>5. Alike(w, v)
  BY SetNameAlike
<1> HIDE DEF v
<1> QED BY <1>1, <1>4, <1>5, WatchSetKept DEF Kept

-----------------------------------------------------------------------------
(* The steps that take a packet, and the other processes.                  *)
-----------------------------------------------------------------------------
LEMMA TakeClosingGood ==
  ASSUME ReadsInv, TakeClosing
  PROVE  /\ Good(io', {}) /\ io'.reading = {}
         /\ \/ io'.port = "open" /\ io'.queue # <<>>
            \/ /\ io'.port = "closed" /\ io'.queue = <<>>
               /\ io'.handle = <<>> /\ io'.pending = {} /\ io'.watches = <<>>
<1> DEFINE op == Head(io.queue).op
           held == {op} \ {NoRead}
           polled == IF closeCh THEN Taken ELSE beginClose(Taken)
           x == IF op = NoRead THEN polled ELSE stopRead(Dequeue(polled, op), op.id)
<1>1. io.queue # <<>> /\ io.port = "open" /\ Good(io, {})
  BY DEF TakeClosing, CanTake, ReadsInv
<1>2. Good(Taken, held) /\ Taken.reading = io.reading /\ Taken.port = "open"
  BY <1>1, TakenGood DEF Taken
<1>3. Good(polled, held) /\ polled.reading = {} /\ polled.port = "open"
  <2>1. CASE closeCh
    BY <1>2, <2>1 DEF ReadsInv
  <2>2. CASE ~closeCh
    BY <1>2, <2>2, BeginCloseGood DEF Grows
  <2> QED BY <2>1, <2>2
<1>4. io' = finishClose(x)
  BY DEF TakeClosing
<1> HIDE DEF polled
<1>5. Good(x, {}) /\ x.reading = {} /\ x.port = "open"
  <2>1. CASE op = NoRead
    BY <1>3, <2>1
  <2>2. CASE op # NoRead
    <3> DEFINE d == Dequeue(polled, op)
    <3>1. Good(polled, {op})
      BY <1>3, <2>2
    <3>2. Good(d, {}) /\ d.reading = polled.reading /\ Grows(polled, d)
      BY <3>1, DequeueGood
    <3> HIDE DEF d
    <3>3. /\ Good(stopRead(d, op.id), {}) /\ Grows(d, stopRead(d, op.id))
          /\ stopRead(d, op.id).reading \subseteq d.reading
      BY <3>2, StopReadGood
    <3>4. x = stopRead(d, op.id)
      BY <2>2 DEF d
    <3> QED BY <1>3, <3>2, <3>3, <3>4 DEF Grows
  <2> QED BY <2>1, <2>2
<1> HIDE DEF x
<1> QED BY <1>4, <1>5, FinishCloseGood

(* Any other packet is taken and nothing else is lost. *)
LEMMA TakeOtherGood ==
  ASSUME Good(io, {}), TakeNothing \/ TakeInput \/ TakeRead
  PROVE  /\ Good(io', {}) /\ io'.port = io.port
         /\ Range(io.queue) \subseteq Range(io'.queue) \cup {Head(io.queue)}
<1> DEFINE p == Head(io.queue)
           held == {p.op} \ {NoRead}
<1>1. io.queue # <<>>
  BY DEF TakeNothing, TakeInput, TakeRead, CanTake
<1>2. /\ Good(Taken, held) /\ Taken.port = io.port
      /\ Range(io.queue) \subseteq Range(Taken.queue) \cup {p}
      /\ p.op = NoRead => p = Wake
  BY <1>1, TakenGood DEF Taken
<1>3. CASE p = Wake
  <2>1. Good(Taken, {})
    <3>1. p.op = NoRead
      BY <1>3 DEF Wake, Packet
    <3>2. held = {}
      BY <3>1
    <3> HIDE DEF held
    <3> QED BY <1>2, <3>2
  <2>2. ASSUME NEW q, addWatch(q) PROVE Good(io', {}) /\ Grows(Taken, io')
    <3> DEFINE dir     == IF IsDir(q.path) THEN q.path ELSE Dir(q.path)
               name    == IF IsDir(q.path) THEN <<>> ELSE <<Last(q.path)>>
               created == fs[dir] \notin DOMAIN io.watches
               x       == Ensured(Taken, fs[dir], dir, q.rec)
               id      == x.watches[fs[dir]]
               w       == x.watch[id]
               flags   == {"user"} \cup (IF created THEN {"provisional"} ELSE {})
               hadUser == "user" \in w.mask
               v == IF name # <<>> THEN SetName(w, name, NameMask(w, name) \cup flags)
                    ELSE [w EXCEPT !.mask = @ \cup flags, !.recurse = @ \/ (q.rec /\ ~hadUser)]
    <3>1. io' = [x EXCEPT !.watch[id] = v]
      BY <2>2 DEF addWatch
    <3>2. Good(x, {}) /\ Grows(Taken, x)
      BY <2>1, EnsuredGood
    <3> HIDE DEF x, name, flags, hadUser
    <3>3. Alike(w, v)
      <4>1. Alike(w, [w EXCEPT !.mask = @ \cup flags, !.recurse = @ \/ (q.rec /\ ~hadUser)])
        BY DEF Alike, IsWatch
      <4> QED BY <4>1, SetNameAlike
    <3> HIDE DEF v
    <3>4. LET y == [x EXCEPT !.watch[id] = v] IN Good(y, {}) /\ Grows(x, y)
      BY <3>2, <3>3, WatchSet
    <3> QED BY <3>1, <3>2, <3>4 DEF Grows
  <2>3. io' = Taken \/ \E q : addWatch(q)
    BY <1>3, <2>1 DEF TakeNothing, TakeInput, TakeRead, remWatch
  <2> QED BY <1>2, <2>1, <2>2, <2>3 DEF Grows
<1>4. CASE p # Wake
  <2>1. p.op # NoRead
    BY <1>2, <1>4
  <2>2. Good(Taken, {p.op})
    BY <1>2, <2>1
  <2>3. io' = Dequeue(Taken, p.op)
    BY <1>4 DEF TakeNothing, TakeInput, TakeRead
  <2>4. LET y == Dequeue(Taken, p.op) IN Good(y, {}) /\ Grows(Taken, y)
    BY <2>2, DequeueGood
  <2> QED BY <1>2, <2>3, <2>4 DEF Grows
<1> QED BY <1>3, <1>4

LEMMA TellGood ==
  ASSUME NEW x, NEW d, NEW acts, NEW names, Good(x, {})
  PROVE  LET y == Tell(x, d, acts, names)
         IN  Good(y, {}) /\ Grows(x, y) /\ y.reading \subseteq x.reading
<1> DEFINE Hears(id) == LET h == x.handle[id]
                        IN  h.on /\ Exists(h.obj) /\ Under(d, At(h.obj)) /\ (h.tree \/ At(h.obj) = d)
           hearers == {id \in DOMAIN x.handle : Hears(id)}
           Rel(id) == SubSeq(d, Len(At(x.handle[id].obj)) + 1, Len(d))
           All(id) == x.handle[id].kept \o [k \in DOMAIN acts |-> Change(acts[k], Append(Rel(id), names[k]))]
           Overflows(id) == Len(All(id)) > MaxChanges
           ended == {op \in x.reading : op.id \in hearers}
           New(id) == IF ReadsOn(x, id) # {} THEN <<>>
                      ELSE IF Overflows(id) THEN SubSeq(All(id), 1, MaxChanges + 1) ELSE All(id)
           handle == [id \in DOMAIN x.handle |-> IF id \in hearers THEN [x.handle[id] EXCEPT !.kept = New(id)]
                                                  ELSE x.handle[id]]
           lost == x.lost \/ \E op \in ended : Overflows(op.id)
           x1 == [x EXCEPT !.handle = handle, !.lost = lost]
           packets == [op \in ended |-> IF Overflows(op.id) THEN Packet(op, "more data", <<>>)
                                         ELSE Packet(op, "none", All(op.id))]
<1>1. Tell(x, d, acts, names) = EndReads(x1, packets)
  BY DEF Tell
<1>2. DOMAIN handle = DOMAIN x.handle
  OBVIOUS
<1>3. DOMAIN packets = ended /\ \A op \in ended : packets[op].op = op
  BY DEF Packet
<1>4. ended \subseteq x.reading
  OBVIOUS
<1> HIDE DEF handle, lost, packets, ended
<1>5. SameReads(x, x1)
  BY <1>2 DEF Good, Tables, IsIo, SameReads
<1> HIDE DEF x1
<1>6. Good(x1, {}) /\ Grows(x, x1) /\ x1.reading = x.reading
  BY <1>5, SameReadsGood DEF SameReads
<1>7. DOMAIN packets \subseteq x1.reading /\ \A op \in DOMAIN packets : packets[op].op = op
  BY <1>3, <1>4, <1>6
<1>8. Good(EndReads(x1, packets), {}) /\ Grows(x1, EndReads(x1, packets))
  BY <1>6, <1>7, EndReadsGood
<1>9. EndReads(x1, packets).reading = x1.reading \ DOMAIN packets
  BY <1>6, EndReadsOnly DEF Good, Tables
<1> QED BY <1>1, <1>6, <1>8, <1>9 DEF Grows

LEMMA VanishGood ==
  ASSUME NEW x, NEW o, Good(x, {})
  PROVE  LET y == Vanish(x, o) IN Good(y, {}) /\ Grows(x, y) /\ y.reading \subseteq x.reading
<1> DEFINE dead == {op \in x.reading : x.handle[op.id].obj = o}
           packets == [op \in dead |-> Packet(op, "denied", <<>>)]
<1>1. Vanish(x, o) = EndReads(x, packets)
  BY DEF Vanish
<1>2. DOMAIN packets \subseteq x.reading /\ \A op \in DOMAIN packets : packets[op].op = op
  BY DEF Packet
<1> HIDE DEF packets
<1>3. Good(EndReads(x, packets), {}) /\ Grows(x, EndReads(x, packets))
  BY <1>2, EndReadsGood
<1>4. EndReads(x, packets).reading = x.reading \ DOMAIN packets
  BY EndReadsOnly DEF Good, Tables
<1> QED BY <1>1, <1>3, <1>4

LEMMA TreeChangesKept ==
  ASSUME Good(io, {}), TreeChanges
  PROVE  Kept /\ io'.reading \subseteq io.reading
<1> DEFINE Fine(y) == Good(y, {}) /\ Grows(io, y) /\ y.reading \subseteq io.reading
<1>1. ASSUME NEW y, Fine(y), NEW d, NEW acts, NEW names PROVE Fine(Tell(y, d, acts, names))
  BY <1>1, TellGood DEF Grows
<1>2. Fine(io)
  BY DEF Grows
<1>3. \/ \E p : io' = MakeHeard(io, p)
      \/ \E p : io' = UnlinkHeard(io, p)
      \/ \E p, q : io' = MoveHeard(io, p, q)
  BY DEF TreeChanges
<1>4. ASSUME NEW p, io' = MakeHeard(io, p) PROVE Fine(io')
  BY <1>1, <1>2, <1>4 DEF MakeHeard
<1>5. ASSUME NEW p, io' = UnlinkHeard(io, p) PROVE Fine(io')
  <2> DEFINE y == Tell(io, Dir(p), <<"removed">>, <<Last(p)>>)
  <2>1. Fine(y)
    BY <1>1, <1>2
  <2> HIDE DEF y
  <2>2. Good(Vanish(y, fs[p]), {}) /\ Grows(y, Vanish(y, fs[p])) /\ Vanish(y, fs[p]).reading \subseteq y.reading
    BY <2>1, VanishGood
  <2>3. io' = Vanish(y, fs[p])
    BY <1>5 DEF UnlinkHeard, y
  <2> QED BY <2>1, <2>2, <2>3 DEF Grows
<1>6. ASSUME NEW p, NEW q, io' = MoveHeard(io, p, q) PROVE Fine(io')
  <2>1. Fine(Tell(io, Dir(p), <<"old name", "new name">>, <<Last(p), Last(q)>>))
    BY <1>1, <1>2
  <2>2. Fine(Tell(io, Dir(p), <<"removed">>, <<Last(p)>>))
    BY <1>1, <1>2
  <2>3. Fine(Tell(Tell(io, Dir(p), <<"removed">>, <<Last(p)>>), Dir(q), <<"added">>, <<Last(q)>>))
    BY <1>1, <2>2
  <2> HIDE DEF Fine
  <2> QED BY <1>6, <2>1, <2>3 DEF MoveHeard
<1> QED BY <1>3, <1>4, <1>5, <1>6 DEF Kept

-----------------------------------------------------------------------------
(* The watcher owns its reads, leaks no handle, and Close releases all.    *)
-----------------------------------------------------------------------------
Piecework == OwnStep \/ DoSend \/ DoRead \/ DoMonitor \/ DoRecheck

LEMMA PieceKept ==
  ASSUME Good(io, {}), Piecework
  PROVE  Kept /\ todo # <<>> /\ UNCHANGED <<closeCh, closeDone>>
<1> USE DEF PieceOnly, TablesOnly, IoOnly, Doing, closeVars
<1>1. CASE DoSend
  BY <1>1, UnchangedKept DEF DoSend
<1>2. CASE DoRead
  BY <1>2, DoReadKept DEF DoRead
<1>3. CASE DoMonitor
  BY <1>3, DoMonitorKept DEF DoMonitor
<1>4. CASE DoRecheck
  BY <1>4, DoRecheckKept DEF DoRecheck
<1>5. CASE OwnStep
  <2>1. CASE DoReport
    BY <2>1, UnchangedKept DEF DoReport
  <2>2. CASE DoBury
    BY <2>2, DoBuryKept DEF DoBury
  <2>3. CASE DoUnroot
    BY <2>3, DoUnrootKept DEF DoUnroot
  <2>4. CASE DoHandle
    BY <2>4, DoHandleKept DEF DoHandle
  <2>5. CASE DoForget
    BY <2>5, DoForgetKept DEF DoForget
  <2>6. CASE DoAdded
    BY <2>6, DoAddedKept DEF DoAdded
  <2>7. CASE DoUndo
    BY <2>7, DoUndoKept DEF DoUndo
  <2>8. CASE DoDrop
    BY <2>8, DoDropKept DEF DoDrop
  <2>9. CASE DoReply
    BY <2>9, UnchangedKept DEF DoReply
  <2> QED BY <1>5, <2>1, <2>2, <2>3, <2>4, <2>5, <2>6, <2>7, <2>8, <2>9 DEF OwnStep
<1> QED BY <1>1, <1>2, <1>3, <1>4, <1>5 DEF Piecework

LEMMA InitReads == ASSUME Init PROVE ReadsInv
<1>1. /\ io.watch = <<>> /\ io.watches = <<>> /\ io.roots = <<>> /\ io.pending = {} /\ io.err = "nil"
      /\ io.handle = <<>> /\ io.reading = {} /\ io.queue = <<>> /\ io.port = "open" /\ IsIo(io)
  BY DEF Init, WatchesInit, IsIo
<1>2. DOMAIN <<>> = {} /\ 1..0 = {} /\ 0 \in Nat
  OBVIOUS
<1>3. IsFiniteSet({})
  BY FS_EmptySet
<1>4. InTable(io) = {} /\ Ended(io) = {} /\ Packets(io.queue)
  BY <1>1, <1>2 DEF InTable, Ended, Packets, Range
<1>5. Tables(io)
  BY <1>1, <1>2, <1>3, <1>4 DEF Tables
<1>6. Reads(io, {})
  BY <1>1, <1>2, <1>3, <1>4 DEF Reads
<1> QED BY <1>1, <1>5, <1>6 DEF Init, ReadsInv, Good, Released

(* A step while the port is open that leaves it open. *)
LEMMA OpenStep ==
  ASSUME ReadsInv, io.port = "open", Kept, UNCHANGED <<closeCh, closeDone>>,
         closeCh => todo' = <<>> /\ io'.reading \subseteq io.reading
  PROVE  ReadsInv'
<1>1. Good(io', {}) /\ io'.port = "open"
  BY DEF Kept, Grows
<1>2. io.queue # <<>> => io'.queue # <<>>
  <2>1. io.queue \in Seq(Range(io.queue)) /\ io'.queue \in Seq(Range(io'.queue))
    BY <1>1 DEF ReadsInv, Good, Reads, Packets
  <2>2. io.queue # <<>> => io.queue[1] \in Range(io.queue)
    BY <2>1, TailParts DEF Range
  <2>3. Range(<<>>) = {}
    BY DEF Range
  <2>4. Range(io.queue) \subseteq Range(io'.queue)
    BY DEF Kept, Grows
  <2> QED BY <2>2, <2>3, <2>4
<1> QED BY <1>1, <1>2 DEF ReadsInv, Released

LEMMA WakeKept ==
  ASSUME Good(io, {}), io' = Post(io, Wake)
  PROVE  Kept /\ io'.reading = io.reading /\ Wake \in Range(io'.queue)
<1>1. Wake.op = NoRead
  BY DEF Wake, Packet
<1>2. /\ Good(Post(io, Wake), {} \ {Wake.op}) /\ Grows(io, Post(io, Wake))
      /\ Post(io, Wake).reading = io.reading /\ Wake \in Range(Post(io, Wake).queue)
  BY <1>1, PostGood
<1>3. {} \ {Wake.op} = {}
  OBVIOUS
<1> QED BY <1>2, <1>3 DEF Kept

LEMMA SameStep == ASSUME ReadsInv, UNCHANGED <<io, todo, closeCh, closeDone>> PROVE ReadsInv'
BY DEF ReadsInv, Released

LEMMA CallerReads ==
  ASSUME ReadsInv, NEW c, CallerStep(c) \/ CloseMark(c) \/ \E q \in Requests : Call(c, q)
  PROVE  ReadsInv'
<1> USE DEF CallerOnly, loopVars, closeVars
<1>1. CASE (\E q \in Requests : Call(c, q)) \/ Put(c) \/ Answered(c) \/ CloseSecond(c) \/ CloseMark(c)
  BY <1>1, SameStep DEF Call, Put, Answered, CloseSecond, CloseMark
<1>2. CASE Wakeup(c)
  <2>1. CASE io.port = "open"
    BY <1>2, <2>1, WakeKept, OpenStep DEF Wakeup, ReadsInv
  <2>2. CASE io.port # "open"
    BY <1>2, <2>2, SameStep DEF Wakeup
  <2> QED BY <2>1, <2>2
<1>3. CASE CloseFirst(c)
  <2>1. CASE at[c].pc = "closeDone" \/ at[c].pc = "closeRequest"
    BY <1>3, <2>1, SameStep DEF CloseFirst
  <2>2. CASE at[c].pc = "closeWake"
    <3>1. CASE io.port = "open"
      BY <1>3, <2>2, <3>1, WakeKept, OpenStep DEF CloseFirst, ReadsInv
    <3>2. CASE io.port # "open"
      BY <1>3, <2>2, <3>2, SameStep DEF CloseFirst
    <3> QED BY <3>1, <3>2
  <2>3. CASE at[c].pc = "closeReply"
    BY <1>3, <2>3 DEF CloseFirst, ReadsInv, Released
  <2> QED BY <1>3, <2>1, <2>2, <2>3 DEF CloseFirst
<1> QED BY <1>1, <1>2, <1>3 DEF CallerStep

LEMMA NextReads == ASSUME ReadsInv, [Next]_vars PROVE ReadsInv'
<1> USE DEF IoOnly, closeVars, loopVars
<1>1. CASE Piecework
  <2>1. todo # <<>> /\ Kept /\ UNCHANGED <<closeCh, closeDone>>
    BY <1>1, PieceKept DEF ReadsInv
  <2>2. io.port = "open" /\ ~closeCh
    BY <2>1 DEF ReadsInv, Released
  <2> QED BY <2>1, <2>2, OpenStep
<1>2. CASE TakeClosing
  <2>1. /\ todo' = <<>> /\ closeCh' /\ closeDone' = closeDone /\ io.port = "open"
    BY <1>2 DEF TakeClosing, CanTake
  <2>2. ~closeDone
    BY <2>1 DEF ReadsInv
  <2> QED BY <1>2, <2>1, <2>2, TakeClosingGood DEF ReadsInv, Released
<1>3. CASE TakeNothing \/ TakeInput \/ TakeRead
  <2>1. io.port = "open" /\ UNCHANGED <<closeCh, closeDone>> /\ ~closeCh
    BY <1>3 DEF TakeNothing, TakeInput, TakeRead, CanTake, Closing
  <2>2. Good(io', {}) /\ io'.port = "open"
    BY <1>3, <2>1, TakeOtherGood DEF ReadsInv
  <2> QED BY <2>1, <2>2 DEF ReadsInv, Released
<1>4. CASE TreeChanges
  <2>1. io.port = "open" /\ UNCHANGED <<todo, closeCh, closeDone>>
    BY <1>4 DEF TreeChanges, OthersOnly
  <2>2. Kept /\ io'.reading \subseteq io.reading
    BY <1>4, TreeChangesKept DEF ReadsInv
  <2> QED BY <2>1, <2>2, OpenStep DEF ReadsInv
<1>5. CASE StopReceiving
  BY <1>5, SameStep DEF StopReceiving, OthersOnly
<1>6. ASSUME NEW c, CallerStep(c) \/ CloseMark(c) \/ \E q \in Requests : Call(c, q) PROVE ReadsInv'
  BY <1>6, CallerReads
<1>7. CASE UNCHANGED vars
  BY <1>7, SameStep DEF vars
<1> QED BY <1>1, <1>2, <1>3, <1>4, <1>5, <1>6, <1>7 DEF Next, GoroutineStep, IoStep, Piecework

LEMMA ReadsInvHolds == Spec => []ReadsInv
BY InitReads, NextReads, PTL DEF Spec

(* The watcher owns every read that is under way or whose packet is not    *)
(* dequeued: it is in pending, alone on its watch, on an open handle       *)
(* (backend_windows.go, startRead, stopRead, readEvents).                  *)
THEOREM ReadsAreOwned == Spec => []ReadsOwned
<1>1. ReadsInv => ReadsOwned
  BY DEF ReadsInv, Good, Reads, Packets, ReadsOwned
<1> QED BY <1>1, ReadsInvHolds, PTL

(* The open handles are those of the watches in the table, whatever order  *)
(* of creation, failure, removal and Close (backend_windows.go, getIno,    *)
(* startRead, closeWatch): none is leaked, none is closed too early.       *)
THEOREM HandlesNotLeaked == Spec => []NoLeakedHandle
<1>1. ReadsInv => NoLeakedHandle
  BY DEF ReadsInv, Good, Tables, InTable, Range, NoLeakedHandle
<1> QED BY <1>1, ReadsInvHolds, PTL

(* When the port is closed there is no read, no handle and no watch left,  *)
(* and a Close that waits for another returns only then                    *)
(* (backend_windows.go, beginClose, finishClose, Close).                   *)
THEOREM CloseReleasesAll == Spec => []ClosedReleasesAll
<1>1. ReadsInv => ClosedReleasesAll
  BY DEF ReadsInv, Released, ClosedReleasesAll
<1> QED BY <1>1, ReadsInvHolds, PTL

-----------------------------------------------------------------------------
(* The inductive invariant of calls, wakeups and answers.                  *)
-----------------------------------------------------------------------------
InClose(c) == at[c].pc \in {"closeDone", "closeRequest", "closeWake", "closeReply"}
Closers == {"added", "monitor", "recheck", "undo", "failed", "removed"}

(* The Close that does the work is alone, and how far it is. *)
CloseInv ==
  /\ \A c, d \in Callers : InClose(c) /\ InClose(d) => c = d
  /\ \A c \in Callers : InClose(c) => closed
  /\ \A c \in Callers : at[c].pc \in {"closeRequest", "closeWake", "closeReply"} => done
  /\ request \/ closeCh => done /\ closed
  /\ request \/ closeCh => \A c \in Callers : at[c].pc \notin {"closeDone", "closeRequest"}
  /\ io.port = "closed" => closeCh /\ ~request

IsSeq(s) == s \in Seq(Range(s))
Ends(s) == IsSeq(s) /\ s # <<>> /\ s[Len(s)].do \in Closers

(* A request that is worked on ends with a piece that answers it. *)
WorkInv ==
  /\ "c" \in DOMAIN req
  /\ req # NoRequest => Ends(todo)

CallsInv ==
  /\ DOMAIN at = Callers /\ DOMAIN reply = Callers
  /\ \A c \in Callers : at[c].pc = "put" => at[c].q \in Requests
  /\ input = <<>> \/ \E c \in Callers, q \in Requests : input = <<Request(c, q)>>
  /\ \A c \in Callers : at[c].pc \in {"wake", "wait"} /\ reply[c] = "none" =>
       done \/ req.c = c \/ (input # <<>> /\ input[1].c = c)

WakeInv ==
  LET waking == Wake \in Range(io.queue)
  IN  /\ input # <<>> /\ ~done => waking \/ \E c \in Callers : at[c].pc = "wake"
      /\ request => waking \/ \E c \in Callers : at[c].pc = "closeWake"

WakeupInv == CloseInv /\ WorkInv /\ CallsInv /\ WakeInv

-----------------------------------------------------------------------------
(* Sequences of pieces.                                                    *)
-----------------------------------------------------------------------------
LEMMA SeqIs ==
  ASSUME NEW S, NEW s \in Seq(S)
  PROVE  IsSeq(s)
BY SeqOfRange DEF IsSeq

LEMMA SeqJoined ==
  ASSUME NEW a, NEW b, IsSeq(a), IsSeq(b)
  PROVE  IsSeq(a \o b)
<1> DEFINE S == Range(a) \cup Range(b)
<1>1. a \in Seq(S) /\ b \in Seq(S)
  BY SeqMonotonic DEF IsSeq
<1> HIDE DEF S
<1>2. a \o b \in Seq(S)
  BY <1>1, ConcatParts
<1> QED BY <1>2, SeqIs

LEMMA Tuples ==
  /\ IsSeq(<<>>)
  /\ \A x : IsSeq(<<x>>)
  /\ \A x, y : IsSeq(<<x, y>>)
  /\ \A x, y, z, u : IsSeq(<<x, y, z, u>>)
<1>1. IsSeq(<<>>)
  BY DEF IsSeq
<1>2. ASSUME NEW x PROVE IsSeq(<<x>>)
  <2>1. <<x>> \in Seq({x})
    OBVIOUS
  <2> QED BY <2>1, SeqIs
<1>3. ASSUME NEW x, NEW y PROVE IsSeq(<<x, y>>)
  <2>1. <<x, y>> \in Seq({x, y})
    OBVIOUS
  <2> QED BY <2>1, SeqIs
<1>4. ASSUME NEW x, NEW y, NEW z, NEW u PROVE IsSeq(<<x, y, z, u>>)
  <2>1. <<x, y, z, u>> \in Seq({x, y, z, u})
    OBVIOUS
  <2> QED BY <2>1, SeqIs
<1> QED BY <1>1, <1>2, <1>3, <1>4

LEMMA IfIsSeq == ASSUME NEW b, NEW s, IsSeq(s) PROVE IsSeq(If(b, s))
BY Tuples DEF If

LEMMA UnrootsIsSeq ==
  ASSUME Good(io, {}), NEW p, NEW processing
  PROVE  IsSeq(Unroots(p, processing))
<1> DEFINE n == Cardinality(RootsAt(io, p))
           f == [k \in 1..n |-> Unroot(RootsUnder(io, p)[k], TRUE, processing)]
<1>1. IsFiniteSet(RootsAt(io, p))
  <2>1. IsFiniteSet(DOMAIN io.roots) /\ RootsAt(io, p) \in SUBSET (DOMAIN io.roots)
    BY DEF Good, Tables, RootsAt
  <2> QED BY <2>1, FS_Subset
<1>2. n \in Nat
  BY <1>1, FS_CardinalityType
<1> HIDE DEF n
<1> DEFINE S == {f[k] : k \in 1..n}
<1>3. f \in [1..n -> S]
  OBVIOUS
<1> HIDE DEF f, S
<1>4. f \in Seq(S)
  BY <1>2, <1>3
<1>5. IsSeq(f)
  BY <1>4, SeqIs
<1> QED BY <1>5 DEF Unroots, n, f

(* What is put before the rest does not touch the last piece. *)
LEMMA RestEnds ==
  ASSUME NEW s, NEW pieces, Ends(s), Head(s).do \notin Closers, IsSeq(pieces)
  PROVE  Ends(pieces \o Tail(s))
<1> DEFINE S == Range(s) \cup Range(pieces)
           t == Tail(s)
           r == pieces \o t
<1>1. s \in Seq(S) /\ pieces \in Seq(S)
  BY SeqMonotonic DEF IsSeq, Ends
<1> HIDE DEF S
<1>2. t \in Seq(S) /\ Len(t) = Len(s) - 1 /\ \A i \in 1..Len(t) : t[i] = s[i + 1]
  BY <1>1, HeadTailProperties DEF Ends
<1>3. Len(s) \in Nat /\ Len(s) > 0 /\ Head(s) = s[1]
  BY <1>1, EmptySeq, LenProperties, TailParts DEF Ends
<1>4. Len(s) # 1
  BY <1>3 DEF Ends
<1>5. Len(t) \in Nat /\ Len(t) > 0 /\ t[Len(t)] = s[Len(s)]
  BY <1>2, <1>3, <1>4
<1> HIDE DEF t
<1>6. /\ r \in Seq(S) /\ Len(r) = Len(pieces) + Len(t) /\ Len(pieces) \in Nat
      /\ \A i \in 1..Len(pieces) + Len(t) : r[i] = IF i <= Len(pieces) THEN pieces[i] ELSE t[i - Len(pieces)]
  BY <1>1, <1>2, ConcatProperties, LenProperties
<1> HIDE DEF r
<1>7. r[Len(r)] = t[Len(t)]
  BY <1>5, <1>6
<1>8. r # <<>>
  <2>1. Len(r) > 0
    BY <1>5, <1>6
  <2> QED BY <2>1
<1> QED BY <1>5, <1>6, <1>7, <1>8, SeqIs DEF Ends, r, t

LEMMA ThenEnds ==
  ASSUME WorkInv, NEW pieces, IsSeq(pieces), todo # <<>>, Head(todo).do \notin Closers,
         Then(pieces), UNCHANGED req
  PROVE  WorkInv'
BY RestEnds DEF WorkInv, Then

-----------------------------------------------------------------------------
(* The steps of the callers.                                               *)
-----------------------------------------------------------------------------
LEMMA AtSet ==
  ASSUME CallsInv, NEW c \in Callers, NEW v, at' = [at EXCEPT ![c] = v]
  PROVE  DOMAIN at' = Callers /\ at'[c] = v /\ \A d \in Callers : d # c => at'[d] = at[d]
BY DEF CallsInv

(* What does not move a Close leaves it alone. *)
LEMMA CloseFrame ==
  ASSUME CloseInv, \A d \in Callers : at'[d] = at[d] \/ at'[d].pc \in {"idle", "put", "wake", "wait", "closeSecond"},
         UNCHANGED <<closed, done, request, closeCh>>, io'.port = io.port
  PROVE  CloseInv'
BY DEF CloseInv, InClose

(* What leaves the work alone and no caller waiting for more. *)
LEMMA CallsFrame ==
  ASSUME CallsInv, DOMAIN at' = Callers, UNCHANGED <<reply, input, req>>, done' = done \/ done' = TRUE,
         \A d \in Callers : at'[d] = at[d] \/ at'[d].pc \notin {"put", "wake", "wait"}
  PROVE  CallsInv'
BY DEF CallsInv

LEMMA CallKept ==
  ASSUME WakeupInv, NEW c \in Callers, NEW q \in Requests, Call(c, q)
  PROVE  WakeupInv'
<1> USE DEF CallerOnly, loopVars, closeVars, WakeupInv
<1>1. WorkInv'
  BY DEF Call, WorkInv
<1>2. CASE closed
  <2>1. UNCHANGED <<at, io, input, request, closed, done, closeDone, reply, todo, req, closeCh>>
    BY <1>2 DEF Call
  <2> QED BY <1>1, <2>1 DEF CloseInv, InClose, CallsInv, WakeInv
<1>3. CASE ~closed
  <2>1. UNCHANGED <<io, input, request, closed, done, closeDone, reply, todo, req, closeCh>>
    BY DEF Call
  <2>2. at[c].pc = "idle" /\ at' = [at EXCEPT ![c] = [pc |-> "put", q |-> q]]
    BY <1>3 DEF Call
  <2>3. DOMAIN at' = Callers /\ at'[c].pc = "put" /\ at'[c].q = q /\ \A d \in Callers : d # c => at'[d] = at[d]
    BY <2>2, AtSet
  <2>4. CloseInv'
    BY <2>1, <2>3, CloseFrame
  <2>5. CallsInv'
    BY <2>1, <2>2, <2>3 DEF CallsInv
  <2>6. WakeInv'
    BY <2>1, <2>2, <2>3 DEF WakeInv
  <2> QED BY <1>1, <2>4, <2>5, <2>6
<1> QED BY <1>2, <1>3

LEMMA PutKept ==
  ASSUME WakeupInv, NEW c \in Callers, Put(c)
  PROVE  WakeupInv'
<1> USE DEF CallerOnly, loopVars, closeVars, WakeupInv
<1>1. /\ UNCHANGED <<io, request, closed, done, closeDone, reply, todo, req, closeCh>>
      /\ at[c].pc = "put" /\ at[c].q \in Requests
  BY DEF Put, CallsInv
<1>2. WorkInv'
  BY <1>1 DEF WorkInv
<1>3. CASE input = <<>> /\ input' = <<Request(c, at[c].q)>> /\ Go(c, "wake")
  <2>1. DOMAIN at' = Callers /\ at'[c].pc = "wake" /\ \A d \in Callers : d # c => at'[d] = at[d]
    BY <1>3, AtSet DEF Go
  <2>2. CloseInv'
    BY <1>1, <2>1, CloseFrame
  <2>3. input'[1].c = c /\ input' # <<>> /\ \E d \in Callers, q \in Requests : input' = <<Request(d, q)>>
    BY <1>1, <1>3 DEF Request
  <2>4. CallsInv'
    <3>1. \A d \in Callers : at'[d].pc = "put" => at'[d].q \in Requests
      BY <2>1 DEF CallsInv
    <3>2. \A d \in Callers : d # c /\ at[d].pc \in {"wake", "wait"} /\ reply[d] = "none" => done \/ req.c = d
      BY <1>3 DEF CallsInv
    <3>3. \A d \in Callers : at'[d].pc \in {"wake", "wait"} /\ reply'[d] = "none" =>
            done' \/ req'.c = d \/ (input' # <<>> /\ input'[1].c = d)
      BY <1>1, <2>1, <2>3, <3>2
    <3> QED BY <1>1, <2>1, <2>3, <3>1, <3>3 DEF CallsInv
  <2>5. WakeInv'
    BY <1>1, <1>3, <2>1 DEF WakeInv
  <2> QED BY <1>2, <2>2, <2>4, <2>5
<1>4. CASE done /\ UNCHANGED input /\ Go(c, "idle")
  <2>1. DOMAIN at' = Callers /\ at'[c].pc = "idle" /\ \A d \in Callers : d # c => at'[d] = at[d]
    BY <1>4, AtSet DEF Go
  <2>2. CloseInv' /\ CallsInv'
    BY <1>1, <1>4, <2>1, CloseFrame, CallsFrame
  <2>3. WakeInv'
    BY <1>1, <1>4, <2>1 DEF WakeInv
  <2> QED BY <1>2, <2>2, <2>3
<1> QED BY <1>3, <1>4 DEF Put

LEMMA WakeupKept ==
  ASSUME ReadsInv, WakeupInv, NEW c \in Callers, Wakeup(c)
  PROVE  WakeupInv'
<1> USE DEF CallerOnly, loopVars, closeVars, WakeupInv
<1>1. /\ UNCHANGED <<input, request, closed, done, closeDone, reply, todo, req, closeCh>> /\ at[c].pc = "wake"
  BY DEF Wakeup
<1>2. WorkInv'
  BY <1>1 DEF WorkInv
<1>3. CASE io.port = "open"
  <2>1. io' = Post(io, Wake) /\ Go(c, "wait")
    BY <1>3 DEF Wakeup
  <2>2. DOMAIN at' = Callers /\ at'[c].pc = "wait" /\ \A d \in Callers : d # c => at'[d] = at[d]
    BY <2>1, AtSet DEF Go
  <2>3. io'.port = io.port /\ Wake \in Range(io'.queue)
    BY <2>1, WakeKept DEF Kept, Grows, ReadsInv
  <2>4. CloseInv'
    BY <1>1, <2>2, <2>3, CloseFrame
  <2>5. CallsInv'
    BY <1>1, <2>2 DEF CallsInv
  <2>6. WakeInv'
    BY <2>3 DEF WakeInv
  <2> QED BY <1>2, <2>4, <2>5, <2>6
<1>4. CASE io.port # "open"
  <2>1. io' = io /\ Go(c, "idle")
    BY <1>4 DEF Wakeup
  <2>2. DOMAIN at' = Callers /\ at'[c].pc = "idle" /\ \A d \in Callers : d # c => at'[d] = at[d]
    BY <2>1, AtSet DEF Go
  <2>3. CloseInv' /\ CallsInv'
    BY <1>1, <2>1, <2>2, CloseFrame, CallsFrame
  <2>4. done
    BY <1>4 DEF ReadsInv, CloseInv
  <2>5. WakeInv'
    BY <1>1, <2>1, <2>2, <2>4 DEF WakeInv
  <2> QED BY <1>2, <2>3, <2>5
<1> QED BY <1>3, <1>4

LEMMA AnsweredKept ==
  ASSUME WakeupInv, NEW c \in Callers, Answered(c)
  PROVE  WakeupInv'
<1> USE DEF CallerOnly, loopVars, closeVars, WakeupInv
<1>1. /\ UNCHANGED <<io, input, request, closed, done, closeDone, todo, req, closeCh>> /\ at[c].pc = "wait"
      /\ Go(c, "idle") /\ reply' = [reply EXCEPT ![c] = "none"]
  BY DEF Answered
<1>2. DOMAIN at' = Callers /\ at'[c].pc = "idle" /\ \A d \in Callers : d # c => at'[d] = at[d]
  BY <1>1, AtSet DEF Go
<1>3. DOMAIN reply' = Callers /\ \A d \in Callers : d # c => reply'[d] = reply[d]
  BY <1>1 DEF CallsInv
<1>4. CloseInv'
  BY <1>1, <1>2, CloseFrame
<1>5. WorkInv' /\ CallsInv' /\ WakeInv'
  BY <1>1, <1>2, <1>3 DEF WorkInv, CallsInv, WakeInv
<1> QED BY <1>4, <1>5

LEMMA CloseMarkKept ==
  ASSUME WakeupInv, NEW c \in Callers, CloseMark(c)
  PROVE  WakeupInv'
<1> USE DEF CallerOnly, loopVars, WakeupInv
<1> DEFINE place == IF closed THEN "closeSecond" ELSE "closeDone"
<1>1. /\ UNCHANGED <<io, input, request, done, closeDone, reply, todo, req, closeCh>> /\ at[c].pc = "idle"
      /\ Go(c, place) /\ closed' = TRUE
  BY DEF CloseMark
<1>2. DOMAIN at' = Callers /\ at'[c].pc = place /\ \A d \in Callers : d # c => at'[d] = at[d]
  BY <1>1, AtSet DEF Go
<1>3. WorkInv' /\ CallsInv' /\ WakeInv'
  BY <1>1, <1>2, CallsFrame DEF WorkInv, WakeInv
<1>4. CloseInv'
  <2>1. CASE closed
    BY <1>1, <1>2, <2>1 DEF CloseInv, InClose
  <2>2. CASE ~closed
    <3>1. ~request /\ ~closeCh /\ io.port # "closed" /\ \A d \in Callers : ~InClose(d)
      BY <2>2 DEF CloseInv
    <3>2. at'[c].pc = "closeDone" /\ \A d \in Callers : d # c => ~InClose(d)'
      BY <1>2, <2>2, <3>1 DEF InClose
    <3>3. \A d \in Callers : at'[d].pc \in {"closeRequest", "closeWake", "closeReply"} => InClose(d)'
      BY DEF InClose
    <3>4. \A d \in Callers : at'[d].pc \notin {"closeRequest", "closeWake", "closeReply"}
      BY <3>2, <3>3
    <3> QED BY <1>1, <3>1, <3>2, <3>4 DEF CloseInv
  <2> QED BY <2>1, <2>2
<1> QED BY <1>3, <1>4

LEMMA CloseFirstKept ==
  ASSUME ReadsInv, WakeupInv, NEW c \in Callers, CloseFirst(c)
  PROVE  WakeupInv'
<1> USE DEF CallerOnly, loopVars, WakeupInv
<1>1. UNCHANGED <<input, closed, reply, todo, req, closeCh>>
  BY DEF CloseFirst
<1>2. WorkInv'
  BY <1>1 DEF WorkInv
<1>3. ASSUME NEW v, Go(c, v)
      PROVE  DOMAIN at' = Callers /\ at'[c].pc = v /\ \A d \in Callers : d # c => at'[d] = at[d]
  BY <1>3, AtSet DEF Go
<1>4. InClose(c) => \A d \in Callers : d # c => ~InClose(d)
  BY DEF CloseInv
<1>5. CASE at[c].pc = "closeDone"
  <2>1. done' = TRUE /\ UNCHANGED <<io, request, closeDone>> /\ Go(c, "closeRequest")
    BY <1>5 DEF CloseFirst
  <2>2. DOMAIN at' = Callers /\ at'[c].pc = "closeRequest" /\ \A d \in Callers : d # c => at'[d] = at[d]
    BY <1>3, <2>1
  <2>3. closed /\ ~request /\ ~closeCh /\ io.port # "closed"
    BY <1>5 DEF CloseInv, InClose
  <2>4. CloseInv'
    BY <1>1, <1>4, <1>5, <2>1, <2>2, <2>3 DEF CloseInv, InClose
  <2>5. CallsInv'
    BY <1>1, <2>1, <2>2, CallsFrame
  <2>6. WakeInv'
    BY <2>1, <2>3 DEF WakeInv
  <2> QED BY <1>2, <2>4, <2>5, <2>6
<1>6. CASE at[c].pc = "closeRequest"
  <2>1. request' = TRUE /\ UNCHANGED <<io, done, closeDone>> /\ Go(c, "closeWake")
    BY <1>6 DEF CloseFirst
  <2>2. DOMAIN at' = Callers /\ at'[c].pc = "closeWake" /\ \A d \in Callers : d # c => at'[d] = at[d]
    BY <1>3, <2>1
  <2>3. closed /\ done /\ ~closeCh /\ io.port # "closed"
    BY <1>6 DEF CloseInv, InClose
  <2>4. CloseInv'
    BY <1>1, <1>4, <1>6, <2>1, <2>2, <2>3 DEF CloseInv, InClose
  <2>5. CallsInv'
    BY <1>1, <2>1, <2>2, CallsFrame
  <2>6. WakeInv'
    BY <2>1, <2>2, <2>3 DEF WakeInv
  <2> QED BY <1>2, <2>4, <2>5, <2>6
<1>7. CASE at[c].pc = "closeWake"
  <2>1. UNCHANGED <<request, done, closeDone>> /\ Go(c, "closeReply") /\ io' = IF io.port = "open" THEN Post(io, Wake) ELSE io
    BY <1>7 DEF CloseFirst
  <2>2. DOMAIN at' = Callers /\ at'[c].pc = "closeReply" /\ \A d \in Callers : d # c => at'[d] = at[d]
    BY <1>3, <2>1
  <2>3. closed /\ done
    BY <1>7 DEF CloseInv, InClose
  <2>4. io'.port = io.port /\ (io.port = "open" => Wake \in Range(io'.queue))
    <3>1. CASE io.port = "open"
      BY <2>1, <3>1, WakeKept DEF Kept, Grows, ReadsInv
    <3>2. CASE io.port # "open"
      BY <2>1, <3>2
    <3> QED BY <3>1, <3>2
  <2>5. CloseInv'
    BY <1>1, <1>4, <1>7, <2>1, <2>2, <2>3, <2>4 DEF CloseInv, InClose
  <2>6. CallsInv'
    BY <1>1, <2>1, <2>2, CallsFrame
  <2>7. request => io.port = "open"
    BY DEF ReadsInv, CloseInv
  <2>8. WakeInv'
    BY <2>1, <2>3, <2>4, <2>7 DEF WakeInv
  <2> QED BY <1>2, <2>5, <2>6, <2>8
<1>8. CASE at[c].pc = "closeReply"
  <2>1. io.port = "closed" /\ UNCHANGED <<io, request, done>> /\ Go(c, "idle")
    BY <1>8 DEF CloseFirst
  <2>2. DOMAIN at' = Callers /\ at'[c].pc = "idle" /\ \A d \in Callers : d # c => at'[d] = at[d]
    BY <1>3, <2>1
  <2>3. ~request /\ done
    BY <2>1 DEF CloseInv
  <2>4. CloseInv' /\ CallsInv'
    BY <1>1, <2>1, <2>2, CloseFrame, CallsFrame
  <2>5. WakeInv'
    BY <2>1, <2>3 DEF WakeInv
  <2> QED BY <1>2, <2>4, <2>5
<1> QED BY <1>5, <1>6, <1>7, <1>8 DEF CloseFirst

LEMMA CloseSecondKept ==
  ASSUME WakeupInv, NEW c \in Callers, CloseSecond(c)
  PROVE  WakeupInv'
<1> USE DEF CallerOnly, loopVars, closeVars, WakeupInv
<1>1. /\ UNCHANGED <<io, input, request, closed, done, closeDone, reply, todo, req, closeCh>>
      /\ at[c].pc = "closeSecond" /\ Go(c, "idle")
  BY DEF CloseSecond
<1>2. DOMAIN at' = Callers /\ at'[c].pc = "idle" /\ \A d \in Callers : d # c => at'[d] = at[d]
  BY <1>1, AtSet DEF Go
<1>3. CloseInv' /\ CallsInv'
  BY <1>1, <1>2, CloseFrame, CallsFrame
<1>4. WorkInv' /\ WakeInv'
  BY <1>1, <1>2 DEF WorkInv, WakeInv
<1> QED BY <1>3, <1>4
-----------------------------------------------------------------------------
(* The pieces of the I/O goroutine.                                        *)
-----------------------------------------------------------------------------
(* An answer is for the caller it is for, and it is one. *)
LEMMA AnswerIs ==
  ASSUME CallsInv, NEW c, NEW r, r # "none", Answer(c, r)
  PROVE  /\ DOMAIN reply' = Callers
         /\ \A d \in Callers : reply'[d] = reply[d] \/ reply'[d] # "none"
         /\ \A d \in Callers : d = c /\ at[d].pc \in {"wake", "wait"} => reply'[d] # "none"
BY DEF Answer, CallsInv

(* A piece that leaves the request where it is. *)
LEMMA RestKept ==
  ASSUME WakeupInv, Kept, PieceOnly, UNCHANGED <<req, reply>>, WorkInv'
  PROVE  WakeupInv'
<1>1. UNCHANGED <<closeCh, input, request, closed, done, closeDone, at, req, reply>>
  BY DEF PieceOnly, IoOnly, closeVars
<1>2. CloseInv' /\ CallsInv' /\ WakeInv'
  BY <1>1 DEF WakeupInv, CloseInv, InClose, CallsInv, WakeInv, Kept, Grows
<1> QED BY <1>2 DEF WakeupInv

(* A piece that goes on with the same request. *)
LEMMA ContinueKept ==
  ASSUME WakeupInv, Kept, PieceOnly, reply' = reply, Ends(todo'), req'.c = req.c, "c" \in DOMAIN req'
  PROVE  WakeupInv'
<1>1. UNCHANGED <<closeCh, input, request, closed, done, closeDone, at, reply>>
  BY DEF PieceOnly, IoOnly, closeVars
<1>2. CloseInv' /\ CallsInv' /\ WakeInv'
  BY <1>1 DEF WakeupInv, CloseInv, InClose, CallsInv, WakeInv, Kept, Grows
<1> QED BY <1>2 DEF WakeupInv, WorkInv

(* A piece that answers. *)
LEMMA FinishKept ==
  ASSUME WakeupInv, Kept, PieceOnly, NEW r, r # "none", Finish(r)
  PROVE  WakeupInv'
<1>1. UNCHANGED <<closeCh, input, request, closed, done, closeDone, at>>
  BY DEF PieceOnly, IoOnly, closeVars
<1>2. Answer(req.c, r) /\ req' = NoRequest
  BY DEF Finish
<1>3. /\ DOMAIN reply' = Callers
      /\ \A d \in Callers : reply'[d] = reply[d] \/ reply'[d] # "none"
      /\ \A d \in Callers : d = req.c /\ at[d].pc \in {"wake", "wait"} => reply'[d] # "none"
  BY <1>2, AnswerIs DEF WakeupInv
<1>4. \A d \in Callers : at'[d].pc \in {"wake", "wait"} /\ reply'[d] = "none" =>
        done' \/ req'.c = d \/ (input' # <<>> /\ input'[1].c = d)
  BY <1>1, <1>3 DEF WakeupInv, CallsInv
<1>5. WorkInv'
  BY <1>2 DEF WorkInv, NoRequest
<1>6. CloseInv' /\ CallsInv' /\ WakeInv'
  BY <1>1, <1>3, <1>4 DEF WakeupInv, CloseInv, InClose, CallsInv, WakeInv, Kept, Grows
<1> QED BY <1>5, <1>6 DEF WakeupInv

LEMMA ThenKept ==
  ASSUME WakeupInv, Kept, NEW pieces, IsSeq(pieces), todo # <<>>, Head(todo).do \notin Closers,
         Then(pieces), TablesOnly
  PROVE  WakeupInv'
<1>1. PieceOnly /\ UNCHANGED <<req, reply>>
  BY DEF TablesOnly
<1>2. WorkInv'
  BY <1>1, ThenEnds DEF WakeupInv
<1> QED BY <1>1, <1>2, RestKept

(* A request that is worked on ends with these pieces. *)
LEMMA Endings ==
  /\ \A x : x.do \in Closers => Ends(<<x>>)
  /\ \A x, y : y.do \in Closers => Ends(<<x, y>>)
  /\ \A x, y, z, u : u.do \in Closers => Ends(<<x, y, z, u>>)
BY Tuples DEF Ends

LEMMA TablePiecesKept ==
  ASSUME ReadsInv, WakeupInv,
         DoSend \/ DoReport \/ DoRead \/ DoBury \/ DoUnroot \/ DoHandle \/ DoForget \/ DoDrop
  PROVE  WakeupInv'
<1>1. Kept /\ todo # <<>> /\ Good(io, {})
  BY PieceKept DEF Piecework, OwnStep, ReadsInv
<1>2. Head(todo).do \notin Closers
  BY DEF DoSend, DoReport, DoRead, DoBury, DoUnroot, DoHandle, DoForget, DoDrop, Doing, Closers
<1>3. TablesOnly
  BY DEF DoSend, DoReport, DoRead, DoBury, DoUnroot, DoHandle, DoForget, DoDrop
<1>4. \E pieces : IsSeq(pieces) /\ Then(pieces)
  <2>1. CASE DoSend \/ DoDrop
    BY <2>1, Tuples DEF DoSend, DoDrop
  <2>2. CASE DoReport
    BY <2>2, Tuples, IfIsSeq DEF DoReport
  <2>3. CASE DoRead
    <3> DEFINE id == Head(todo).id
               roots == Unroots(io.watch[id].path, id)
               last == <<Bury(id, TRUE)>>
    <3>1. Then(roots \o last) \/ Then(<<>>)
      BY <2>3 DEF DoRead
    <3>2. IsSeq(roots)
      BY <1>1, UnrootsIsSeq
    <3>3. IsSeq(last) /\ IsSeq(<<>>)
      BY Tuples
    <3> HIDE DEF roots, last
    <3>4. IsSeq(roots \o last)
      BY <3>2, <3>3, SeqJoined
    <3> QED BY <3>1, <3>3, <3>4
  <2>4. CASE DoBury
    BY <2>4, Tuples, IfIsSeq DEF DoBury
  <2>5. CASE DoUnroot
    <3> DEFINE h == Head(todo)
               r == io.roots[h.path]
               a == If(h.isEvent /\ "user" \in io.watch[r.root].mask, <<Send>>)
               b == If(h.isEvent /\ r.root # h.processing, ReadAndReport(r.root))
               d == If(r.parent \notin {h.processing, r.root}, ReadAndReport(r.parent))
    <3>1. Then((a \o b) \o d) \/ Then(<<>>)
      BY <2>5 DEF DoUnroot
    <3>2. IsSeq(a) /\ IsSeq(b) /\ IsSeq(d) /\ IsSeq(<<>>)
      BY Tuples, IfIsSeq DEF ReadAndReport
    <3> HIDE DEF a, b, d
    <3>3. IsSeq((a \o b) \o d)
      BY <3>2, SeqJoined
    <3> QED BY <3>1, <3>2, <3>3
  <2>6. CASE DoHandle
    <3> DEFINE id == Head(todo).id
               ch == Head(todo).change
               root == recursiveRootPath(io, id, ch.name)
               roots == Unroots(root, id)
               cond == ch.act \in {"removed", "old name"} /\ root # <<>>
               last == <<Forget(id, ch)>>
    <3>1. Then(If(cond, roots) \o last)
      BY <2>6 DEF DoHandle
    <3>2. IsSeq(roots)
      BY <1>1, UnrootsIsSeq
    <3>3. IsSeq(last)
      BY Tuples
    <3> HIDE DEF roots, last, cond
    <3>4. IsSeq(If(cond, roots) \o last)
      BY <3>2, <3>3, SeqJoined, IfIsSeq
    <3> QED BY <3>1, <3>4
  <2>7. CASE DoForget
    BY <2>7, Tuples, IfIsSeq DEF DoForget
  <2> QED BY <2>1, <2>2, <2>3, <2>4, <2>5, <2>6, <2>7
<1> QED BY <1>1, <1>2, <1>3, <1>4, ThenKept

(* DoMonitor, DoRecheck and the others that carry the request on. *)
LEMMA RequestPiecesKept ==
  ASSUME ReadsInv, WakeupInv, DoAdded \/ DoMonitor \/ DoRecheck \/ DoUndo \/ DoReply
  PROVE  WakeupInv'
<1>1. Kept /\ io.err \in {"nil", "error"}
  BY PieceKept DEF Piecework, OwnStep, ReadsInv, Good, Tables
<1>2. PieceOnly
  BY DEF DoAdded, DoMonitor, DoRecheck, DoUndo, DoReply
<1>3. "c" \in DOMAIN req
  BY DEF WakeupInv, WorkInv
<1>4. ASSUME NEW r, r # "none", Finish(r) PROVE WakeupInv'
  BY <1>1, <1>2, <1>4, FinishKept
<1>5. ASSUME NEW pieces, Ends(pieces), Continue(pieces), req' = req PROVE WakeupInv'
  BY <1>1, <1>2, <1>3, <1>5, ContinueKept DEF Continue
<1>6. /\ \A what \in Closers : Ends(<<Piece(what)>>)
      /\ \A id, what : what \in Closers => Ends(<<Read(id), Piece(what)>>)
  BY Endings DEF Piece
<1>7. CASE DoAdded
  <2>1. Finish("error") \/ Finish("nil") \/ (Continue(<<Piece("monitor")>>) /\ req' = req)
    BY <1>7 DEF DoAdded
  <2>2. Ends(<<Piece("monitor")>>)
    BY <1>6 DEF Closers
  <2> QED BY <1>4, <1>5, <2>1, <2>2
<1>8. CASE DoMonitor
  <2>1. \/ Finish("nil")
        \/ Continue(<<Piece("undo")>>) /\ req' = req
        \/ \E parent : req' = [req EXCEPT !.parent = parent] /\ Continue(<<Read(parent), Piece("recheck")>>)
    BY <1>8 DEF DoMonitor
  <2>2. Ends(<<Piece("undo")>>) /\ \A parent : Ends(<<Read(parent), Piece("recheck")>>)
    BY <1>6 DEF Closers
  <2>3. ASSUME NEW parent, req' = [req EXCEPT !.parent = parent], Continue(<<Read(parent), Piece("recheck")>>)
        PROVE  WakeupInv'
    <3>1. req'.c = req.c /\ "c" \in DOMAIN req'
      BY <1>3, <2>3
    <3> QED BY <1>1, <1>2, <2>2, <2>3, <3>1, ContinueKept DEF Continue
  <2> QED BY <1>4, <1>5, <2>1, <2>2, <2>3
<1>9. CASE DoRecheck
  <2>1. Finish("nil") \/ (Continue(<<Read(req.parent), Piece("undo")>>) /\ req' = req)
    BY <1>9 DEF DoRecheck
  <2>2. Ends(<<Read(req.parent), Piece("undo")>>)
    BY <1>6 DEF Closers
  <2> QED BY <1>4, <1>5, <2>1, <2>2
<1>10. CASE DoUndo
  <2>1. Continue(<<Read(req.id), Piece("failed")>>) /\ req' = req
    BY <1>10 DEF DoUndo
  <2>2. Ends(<<Read(req.id), Piece("failed")>>)
    BY <1>6 DEF Closers
  <2> QED BY <1>5, <2>1, <2>2
<1>11. CASE DoReply
  <2>1. Finish("error") \/ Finish(io.err)
    BY <1>11 DEF DoReply
  <2>2. io.err # "none"
    BY <1>1
  <2> QED BY <1>4, <2>1, <2>2
<1> QED BY <1>7, <1>8, <1>9, <1>10, <1>11

-----------------------------------------------------------------------------
(* A packet is taken.                                                      *)
-----------------------------------------------------------------------------
LEMMA TakeClosingKept ==
  ASSUME WakeupInv, TakeClosing
  PROVE  WakeupInv'
<1>1. /\ UNCHANGED <<closed, done, at, todo, req>> /\ closeCh' = TRUE /\ request' = FALSE
      /\ closeCh \/ request
  BY DEF TakeClosing, IoOnly, closeVars, Closing
<1>2. done /\ closed /\ \A c \in Callers : at[c].pc \notin {"closeDone", "closeRequest"}
  BY <1>1 DEF WakeupInv, CloseInv
<1>3. CloseInv'
  BY <1>1, <1>2 DEF WakeupInv, CloseInv, InClose
<1>4. WorkInv' /\ WakeInv'
  BY <1>1, <1>2 DEF WakeupInv, WorkInv, WakeInv
<1>5. CallsInv'
  <2>1. (input' = <<>> \/ input' = input) /\ (reply' = reply \/ Answer(input[1].c, "closed"))
    BY DEF TakeClosing
  <2>2. DOMAIN reply' = Callers
    BY <2>1, AnswerIs DEF WakeupInv, CallsInv
  <2> QED BY <1>1, <1>2, <2>1, <2>2 DEF WakeupInv, CallsInv
<1> QED BY <1>3, <1>4, <1>5 DEF WakeupInv

(* Between two packets no request is worked on. *)
LEMMA Unworked == ASSUME WorkInv, todo = <<>> PROVE req = NoRequest
BY DEF WorkInv, Ends

LEMMA TakeInputKept ==
  ASSUME ReadsInv, WakeupInv, TakeInput
  PROVE  WakeupInv'
<1>1. /\ UNCHANGED <<closed, done, at, closeCh, request>> /\ input' = <<>> /\ input # <<>> /\ ~request
      /\ todo = <<>> /\ io'.port = io.port
  BY TakeOtherGood DEF TakeInput, IoOnly, closeVars, Closing, CanTake, ReadsInv
<1>2. req = NoRequest /\ NoRequest.c \notin Callers
  BY <1>1, Unworked, CallsAssumption DEF WakeupInv, NoRequest
<1>3. CloseInv' /\ WakeInv'
  BY <1>1 DEF WakeupInv, CloseInv, InClose, WakeInv
<1>4. PICK c \in Callers, q \in Requests : input = <<Request(c, q)>>
  BY <1>1 DEF WakeupInv, CallsInv
<1>5. input[1] = Request(c, q) /\ input[1].c = c
  BY <1>4 DEF Request
<1>6. \A d \in Callers : d # c /\ at[d].pc \in {"wake", "wait"} /\ reply[d] = "none" => done
  BY <1>2, <1>5 DEF WakeupInv, CallsInv
<1>7. \/ UNCHANGED <<todo, req>> /\ (Answer(c, "closed") \/ Answer(c, "error"))
      \/ (addWatch(input[1]) \/ remWatch(input[1])) /\ reply' = reply
  BY <1>5 DEF TakeInput
<1>8. CASE UNCHANGED <<todo, req>> /\ (Answer(c, "closed") \/ Answer(c, "error"))
  <2>1. WorkInv'
    BY <1>8 DEF WakeupInv, WorkInv
  <2>2. /\ DOMAIN reply' = Callers
        /\ \A d \in Callers : reply'[d] = reply[d] \/ reply'[d] # "none"
        /\ \A d \in Callers : d = c /\ at[d].pc \in {"wake", "wait"} => reply'[d] # "none"
    BY <1>8, AnswerIs DEF WakeupInv
  <2>3. CallsInv'
    BY <1>1, <1>6, <2>2 DEF WakeupInv, CallsInv
  <2> QED BY <1>3, <2>1, <2>3 DEF WakeupInv
<1>9. CASE (addWatch(input[1]) \/ remWatch(input[1])) /\ reply' = reply
  <2>1. /\ req'.c = c /\ "c" \in DOMAIN req'
        /\ \/ \E x, y : todo' = <<x, y>> /\ y.do = "added"
           \/ \E x, y, z, u : todo' = <<x, y, z, u>> /\ u.do = "removed"
    <3>1. CASE addWatch(input[1])
      <4>1. req'.c = c /\ "c" \in DOMAIN req'
        BY <1>5, <3>1 DEF addWatch
      <4>2. \E id : todo' = <<Read(id), Piece("added")>>
        BY <3>1 DEF addWatch
      <4>3. Piece("added").do = "added"
        BY DEF Piece
      <4> QED BY <4>1, <4>2, <4>3
    <3>2. CASE remWatch(input[1])
      <4>1. req'.c = c /\ "c" \in DOMAIN req'
        BY <1>5, <3>2 DEF remWatch
      <4>2. \E id : todo' = <<Unroot(input[1].path, FALSE, 0), Piece("drop"), Read(id), Piece("removed")>>
        BY <3>2 DEF remWatch
      <4>3. Piece("removed").do = "removed"
        BY DEF Piece
      <4> QED BY <4>1, <4>2, <4>3
    <3> QED BY <1>9, <3>1, <3>2
  <2>2. Ends(todo')
    BY <2>1, Endings DEF Closers
  <2>3. WorkInv'
    BY <2>1, <2>2 DEF WorkInv
  <2>4. CallsInv'
    BY <1>1, <1>6, <1>9, <2>1 DEF WakeupInv, CallsInv
  <2> QED BY <1>3, <2>3, <2>4 DEF WakeupInv
<1> QED BY <1>7, <1>8, <1>9

LEMMA TakeOtherKept ==
  ASSUME ReadsInv, WakeupInv, TakeNothing \/ TakeRead
  PROVE  WakeupInv'
<1>1. /\ UNCHANGED <<closed, done, at, closeCh, request, input, reply, req>> /\ ~request /\ todo = <<>>
      /\ input = <<>> \/ Head(io.queue) # Wake
  BY DEF TakeNothing, TakeRead, IoOnly, closeVars, loopVars, Closing, CanTake
<1>2. io'.port = io.port /\ Range(io.queue) \subseteq Range(io'.queue) \cup {Head(io.queue)}
  BY TakeOtherGood DEF ReadsInv
<1>3. req = NoRequest
  BY <1>1, Unworked DEF WakeupInv
<1>4. CloseInv' /\ WorkInv' /\ CallsInv'
  BY <1>1, <1>2, <1>3 DEF WakeupInv, CloseInv, InClose, WorkInv, CallsInv
<1>5. WakeInv'
  <2>1. input # <<>> /\ Wake \in Range(io.queue) => Wake \in Range(io'.queue)
    BY <1>1, <1>2
  <2> QED BY <1>1, <2>1 DEF WakeupInv, WakeInv
<1> QED BY <1>4, <1>5 DEF WakeupInv

-----------------------------------------------------------------------------
(* No wakeup is lost.                                                      *)
-----------------------------------------------------------------------------
LEMMA InitWakeups == ASSUME Init PROVE WakeupInv
<1>1. /\ io.port = "open" /\ todo = <<>> /\ req = NoRequest /\ ~closeCh /\ input = <<>> /\ ~request
      /\ ~closed /\ ~done /\ DOMAIN at = Callers /\ DOMAIN reply = Callers
      /\ \A c \in Callers : at[c].pc = "idle"
  BY DEF Init, WatchesInit
<1> QED BY <1>1 DEF WakeupInv, CloseInv, InClose, WorkInv, NoRequest, CallsInv, WakeInv

LEMMA NextWakeups == ASSUME ReadsInv, WakeupInv, [Next]_vars PROVE WakeupInv'
<1>1. CASE OwnStep \/ DoSend \/ DoRead \/ DoMonitor \/ DoRecheck
  BY <1>1, TablePiecesKept, RequestPiecesKept DEF OwnStep
<1>2. CASE TakeClosing \/ TakeNothing \/ TakeInput \/ TakeRead
  BY <1>2, TakeClosingKept, TakeInputKept, TakeOtherKept
<1>3. ASSUME NEW c \in Callers, CallerStep(c) \/ CloseMark(c) \/ \E q \in Requests : Call(c, q) PROVE WakeupInv'
  BY <1>3, CallKept, PutKept, WakeupKept, AnsweredKept, CloseMarkKept, CloseFirstKept, CloseSecondKept
  DEF CallerStep
<1>4. CASE TreeChanges
  <2>1. Kept
    BY <1>4, TreeChangesKept DEF ReadsInv
  <2>2. UNCHANGED <<todo, req, closeCh, input, request, closed, done, closeDone, at, reply>>
    BY <1>4 DEF TreeChanges, OthersOnly, loopVars, closeVars
  <2> QED BY <2>1, <2>2 DEF WakeupInv, CloseInv, InClose, WorkInv, CallsInv, WakeInv, Kept, Grows
<1>5. CASE StopReceiving \/ UNCHANGED vars
  <2>1. UNCHANGED <<io, todo, req, closeCh, input, request, closed, done, closeDone, at, reply>>
    BY <1>5 DEF StopReceiving, OthersOnly, loopVars, closeVars, vars
  <2> QED BY <2>1 DEF WakeupInv, CloseInv, InClose, WorkInv, CallsInv, WakeInv
<1> QED BY <1>1, <1>2, <1>3, <1>4, <1>5 DEF Next, GoroutineStep, IoStep

LEMMA WakeupInvHolds == Spec => []WakeupInv
BY InitWakeups, NextWakeups, ReadsInvHolds, PTL DEF Spec

(* RC-019: a request in the input and the close request have a packet      *)
(* behind them, whoever waits for an answer has a request that waits or is *)
(* worked on or Close releases it, and a Close that has begun has a packet *)
(* to go on with (backend_windows.go, AddWith, Remove, Close, readEvents). *)
THEOREM NoWakeupLost == Spec => []NoLostWakeup
<1>1. ReadsInv /\ WakeupInv => NoLostWakeup
  BY DEF ReadsInv, WakeupInv, CallsInv, WakeInv, NoLostWakeup
<1> QED BY <1>1, ReadsInvHolds, WakeupInvHolds, PTL

-----------------------------------------------------------------------------
(* What the I/O goroutine has still to do.                                 *)
-----------------------------------------------------------------------------
(* The watches a piece reads again, or ends. *)
Given(s) == {u.id : u \in {v \in Range(s) : v.do \in {"read", "bury"}}}

(* The watches a piece may leave without a read: a later piece must see to *)
(* them.  r is the request that is worked on.                              *)
Needs(u, r) ==
  IF u.do \in {"handle", "forget"} THEN {u.id}
  ELSE IF u.do = "unroot" THEN {u.processing} \ {0}
  ELSE IF u.do = "drop" THEN {r.id} ELSE {}

(* Pieces each of which leaves what it needs to a later one, or to what    *)
(* comes behind and gives ids; only the watches in gone are buried; a      *)
(* piece that ends a request is the last.                                  *)
Sound(s, r, ids, gone) ==
  /\ IsSeq(s)
  /\ \A k \in DOMAIN s :
       /\ \A id \in Needs(s[k], r) : id \in ids \/ \E j \in DOMAIN s :
            j > k /\ s[j].do \in {"read", "bury"} /\ s[j].id = id
       /\ s[k].do \in Closers => k = Len(s)
       /\ s[k].do = "bury" => s[k].id \in gone

Open(s) == \A u \in Range(s) : u.do \notin Closers

LEMMA SoundMore ==
  ASSUME NEW s, NEW r, NEW ids, NEW gone, NEW ids2, NEW gone2, Sound(s, r, ids, gone),
         ids \subseteq ids2, gone \subseteq gone2
  PROVE  Sound(s, r, ids2, gone2)
BY DEF Sound

(* c is a with b behind it. *)
IsJoin(c, a, b) ==
  /\ IsSeq(c) /\ Len(a) \in Nat /\ Len(b) \in Nat /\ DOMAIN a = 1..Len(a) /\ DOMAIN b = 1..Len(b)
  /\ Len(c) = Len(a) + Len(b) /\ DOMAIN c = 1..(Len(a) + Len(b))
  /\ \A i \in 1..Len(a) : i \in DOMAIN c /\ c[i] = a[i]
  /\ \A i \in 1..Len(b) : Len(a) + i \in DOMAIN c /\ c[Len(a) + i] = b[i]
  /\ \A i \in 1..(Len(a) + Len(b)) : i \in 1..Len(a) \/ \E j \in 1..Len(b) : i = Len(a) + j

LEMMA Joining ==
  ASSUME NEW a, NEW b, IsSeq(a), IsSeq(b)
  PROVE  IsJoin(a \o b, a, b)
<1> DEFINE S == Range(a) \cup Range(b)
           c == a \o b
<1>1. a \in Seq(S) /\ b \in Seq(S)
  BY SeqMonotonic DEF IsSeq
<1> HIDE DEF S
<1>2. Len(c) = Len(a) + Len(b)
  BY <1>1, ConcatProperties
<1>3. IsSeq(c)
  BY SeqJoined
<1>4. Len(a) \in Nat /\ Len(b) \in Nat /\ DOMAIN a = 1..Len(a) /\ DOMAIN b = 1..Len(b)
  BY <1>1, LenProperties
<1>5. /\ DOMAIN c = 1..(Len(a) + Len(b))
      /\ \A i \in DOMAIN a : i \in DOMAIN c /\ c[i] = a[i]
      /\ \A i \in DOMAIN b : Len(a) + i \in DOMAIN c /\ c[Len(a) + i] = b[i]
      /\ \A i \in DOMAIN c : i \in DOMAIN a \/ \E j \in DOMAIN b : i = Len(a) + j
  BY <1>1, ConcatParts
<1> HIDE DEF c
<1>6. \A i \in 1..(Len(a) + Len(b)) : i \in 1..Len(a) \/ \E j \in 1..Len(b) : i = Len(a) + j
  BY <1>4, <1>5
<1> QED BY <1>2, <1>3, <1>4, <1>5, <1>6 DEF IsJoin, c

LEMMA RangeJoined ==
  ASSUME NEW a, NEW b, IsSeq(a), IsSeq(b)
  PROVE  Range(a \o b) = Range(a) \cup Range(b)
<1> DEFINE c == a \o b
<1>1. IsJoin(c, a, b)
  BY Joining
<1> HIDE DEF c
<1>2. \A i \in DOMAIN a : i \in DOMAIN c /\ c[i] = a[i]
  BY <1>1 DEF IsJoin
<1>3. \A i \in DOMAIN b : \E k \in DOMAIN c : c[k] = b[i]
  BY <1>1 DEF IsJoin
<1>4. \A k \in DOMAIN c : (\E i \in DOMAIN a : c[k] = a[i]) \/ \E i \in DOMAIN b : c[k] = b[i]
  <2> SUFFICES ASSUME NEW k \in DOMAIN c, k \notin DOMAIN a
               PROVE  \E i \in DOMAIN b : c[k] = b[i]
    BY <1>2
  <2>1. PICK i \in DOMAIN b : k = Len(a) + i
    BY <1>1 DEF IsJoin
  <2>2. c[Len(a) + i] = b[i]
    BY <1>1 DEF IsJoin
  <2> QED BY <2>1, <2>2
<1>5. Range(c) = Range(a) \cup Range(b)
  BY <1>2, <1>3, <1>4 DEF Range
<1> QED BY <1>5 DEF c

LEMMA GivenJoined ==
  ASSUME NEW a, NEW b, IsSeq(a), IsSeq(b)
  PROVE  Given(a \o b) = Given(a) \cup Given(b)
BY RangeJoined DEF Given

(* What comes behind gives what is not given before. *)
LEMMA SoundJoined ==
  ASSUME NEW a, NEW b, NEW r, NEW ids, NEW gone, Open(a),
         Sound(a, r, ids \cup Given(b), gone), Sound(b, r, ids, gone)
  PROVE  Sound(a \o b, r, ids, gone)
<1> DEFINE c == a \o b
           n == Len(a)
<1>1. /\ IsSeq(c) /\ n \in Nat /\ Len(b) \in Nat /\ DOMAIN a = 1..n /\ DOMAIN b = 1..Len(b)
      /\ Len(c) = n + Len(b) /\ DOMAIN c = 1..(n + Len(b))
      /\ \A i \in 1..n : i \in DOMAIN c /\ c[i] = a[i]
      /\ \A i \in 1..Len(b) : n + i \in DOMAIN c /\ c[n + i] = b[i]
      /\ \A i \in 1..(n + Len(b)) : i \in 1..n \/ \E j \in 1..Len(b) : i = n + j
  <2>1. IsJoin(c, a, b)
    BY Joining DEF Sound
  <2> HIDE DEF c
  <2> QED BY <2>1 DEF IsJoin
<1> HIDE DEF c, n
<1>2. ASSUME NEW k \in DOMAIN a
      PROVE  /\ \A id \in Needs(c[k], r) : id \in ids \/ \E j \in DOMAIN c :
                  j > k /\ c[j].do \in {"read", "bury"} /\ c[j].id = id
             /\ c[k].do \in Closers => k = Len(c)
             /\ c[k].do = "bury" => c[k].id \in gone
  <2>1. c[k] = a[k]
    BY <1>1
  <2>2. ASSUME NEW id \in Needs(c[k], r), id \notin ids
        PROVE  \E j \in DOMAIN c : j > k /\ c[j].do \in {"read", "bury"} /\ c[j].id = id
    <3>1. CASE \E j \in DOMAIN a : j > k /\ a[j].do \in {"read", "bury"} /\ a[j].id = id
      BY <1>1, <3>1
    <3>2. CASE id \in Given(b)
      <4>1. PICK j \in DOMAIN b : b[j].do \in {"read", "bury"} /\ b[j].id = id
        BY <3>2 DEF Given, Range
      <4>2. n + j \in DOMAIN c /\ c[n + j] = b[j] /\ n + j > k
        BY <1>1
      <4> QED BY <4>1, <4>2
    <3> QED BY <2>1, <2>2, <3>1, <3>2 DEF Sound
  <2> QED BY <2>1, <2>2 DEF Sound, Open, Range
<1>3. ASSUME NEW i \in DOMAIN b, NEW k, k = n + i
      PROVE  /\ \A id \in Needs(c[k], r) : id \in ids \/ \E j \in DOMAIN c :
                  j > k /\ c[j].do \in {"read", "bury"} /\ c[j].id = id
             /\ c[k].do \in Closers => k = Len(c)
             /\ c[k].do = "bury" => c[k].id \in gone
  <2>1. c[k] = b[i]
    BY <1>1, <1>3
  <2>2. ASSUME NEW id \in Needs(c[k], r), id \notin ids
        PROVE  \E j \in DOMAIN c : j > k /\ c[j].do \in {"read", "bury"} /\ c[j].id = id
    <3>1. PICK j \in DOMAIN b : j > i /\ b[j].do \in {"read", "bury"} /\ b[j].id = id
      BY <2>1, <2>2 DEF Sound
    <3>2. n + j \in DOMAIN c /\ c[n + j] = b[j] /\ n + j > k
      BY <1>1, <1>3, <3>1
    <3> QED BY <3>1, <3>2
  <2>3. c[k].do \in Closers => k = Len(c)
    BY <1>1, <1>3, <2>1 DEF Sound
  <2> QED BY <2>1, <2>2, <2>3 DEF Sound
<1>4. ASSUME NEW k \in DOMAIN c
      PROVE  /\ \A id \in Needs(c[k], r) : id \in ids \/ \E j \in DOMAIN c :
                  j > k /\ c[j].do \in {"read", "bury"} /\ c[j].id = id
             /\ c[k].do \in Closers => k = Len(c)
             /\ c[k].do = "bury" => c[k].id \in gone
  <2>1. k \in DOMAIN a \/ \E i \in DOMAIN b : k = n + i
    BY <1>1
  <2> QED BY <1>2, <1>3, <2>1
<1>5. Sound(c, r, ids, gone)
  BY <1>1, <1>4 DEF Sound
<1> QED BY <1>5 DEF c

LEMMA OpenJoined ==
  ASSUME NEW a, NEW b, IsSeq(a), IsSeq(b), Open(a), Open(b)
  PROVE  Open(a \o b)
BY RangeJoined DEF Open

(* The first piece, and what is left to do after it. *)
LEMMA SoundTail ==
  ASSUME NEW s, NEW r, NEW gone, Sound(s, r, {}, gone), s # <<>>
  PROVE  LET u == Head(s)
             t == Tail(s)
         IN  /\ Sound(t, r, {}, gone)
             /\ Needs(u, r) \subseteq Given(t)
             /\ Given(s) \subseteq Given(t) \cup {id \in {u.id} : u.do \in {"read", "bury"}}
             /\ u.do \in Closers => t = <<>>
             /\ u.do = "bury" => u.id \in gone
<1> DEFINE u == Head(s)
           t == Tail(s)
<1>1. s \in Seq(Range(s))
  BY DEF Sound, IsSeq
<1>2. /\ t \in Seq(Range(s)) /\ Head(s) = s[1] /\ 1 \in DOMAIN s
      /\ \A i \in DOMAIN t : i + 1 \in DOMAIN s /\ i + 1 # 1 /\ t[i] = s[i + 1]
      /\ \A i \in DOMAIN s : i = 1 \/ \E j \in DOMAIN t : i = j + 1
  BY <1>1, TailParts
<1>3. Len(t) = Len(s) - 1 /\ Len(t) \in Nat /\ Len(s) \in Nat /\ DOMAIN t = 1..Len(t) /\ DOMAIN s = 1..Len(s)
  BY <1>1, <1>2, HeadTailProperties, LenProperties
<1>4. IsSeq(t)
  BY <1>2, SeqIs
<1>5. Len(t) = 0 => t = <<>>
  BY <1>2
<1> HIDE DEF t
<1>6. \A id, k, l : k \in DOMAIN t /\ l \in DOMAIN s /\ l > k + 1 /\ s[l].id = id /\ s[l].do \in {"read", "bury"} =>
        \E j \in DOMAIN t : j > k /\ t[j].id = id /\ t[j].do \in {"read", "bury"}
  <2> SUFFICES ASSUME NEW id, NEW k \in DOMAIN t, NEW l \in DOMAIN s, l > k + 1, s[l].id = id,
                      s[l].do \in {"read", "bury"}
               PROVE  \E j \in DOMAIN t : j > k /\ t[j].id = id /\ t[j].do \in {"read", "bury"}
    OBVIOUS
  <2>1. PICK j \in DOMAIN t : l = j + 1
    BY <1>2, <1>3
  <2>2. t[j] = s[l] /\ j > k
    BY <1>2, <1>3, <2>1
  <2> QED BY <2>2
<1>7. ASSUME NEW k \in DOMAIN t
      PROVE  /\ \A id \in Needs(t[k], r) : \E j \in DOMAIN t :
                  j > k /\ t[j].do \in {"read", "bury"} /\ t[j].id = id
             /\ t[k].do \in Closers => k = Len(t)
             /\ t[k].do = "bury" => t[k].id \in gone
  <2>1. k + 1 \in DOMAIN s /\ t[k] = s[k + 1]
    BY <1>2
  <2>2. \A id \in Needs(t[k], r) : \E j \in DOMAIN t :
          j > k /\ t[j].do \in {"read", "bury"} /\ t[j].id = id
    BY <1>6, <2>1 DEF Sound
  <2>3. t[k].do \in Closers => k = Len(t)
    BY <1>3, <2>1 DEF Sound
  <2> QED BY <2>1, <2>2, <2>3 DEF Sound
<1>8. Sound(t, r, {}, gone)
  BY <1>4, <1>7 DEF Sound
<1>9. Needs(u, r) \subseteq Given(t)
  <2> SUFFICES ASSUME NEW id \in Needs(u, r) PROVE id \in Given(t)
    OBVIOUS
  <2>1. PICK l \in DOMAIN s : l > 1 /\ s[l].do \in {"read", "bury"} /\ s[l].id = id
    BY <1>2 DEF Sound
  <2>2. PICK j \in DOMAIN t : l = j + 1
    BY <1>2, <2>1
  <2> QED BY <1>2, <2>1, <2>2 DEF Given, Range
<1>10. Given(s) \subseteq Given(t) \cup {id \in {u.id} : u.do \in {"read", "bury"}}
  <2> SUFFICES ASSUME NEW k \in DOMAIN s, s[k].do \in {"read", "bury"}
               PROVE  s[k].id \in Given(t) \cup {id \in {u.id} : u.do \in {"read", "bury"}}
    BY DEF Given, Range
  <2>1. CASE k = 1
    BY <1>2, <2>1
  <2>2. CASE k # 1
    <3>1. PICK j \in DOMAIN t : k = j + 1
      BY <1>2, <2>2
    <3> QED BY <1>2, <3>1 DEF Given, Range
  <2> QED BY <2>1, <2>2
<1>11. u.do \in Closers => t = <<>>
  BY <1>2, <1>3, <1>5 DEF Sound
<1> QED BY <1>2, <1>8, <1>9, <1>10, <1>11 DEF Sound, t

(* Pieces that neither bury a watch nor carry a request on. *)
Mild(s, ids) ==
  /\ IsSeq(s)
  /\ \A u \in Range(s) : u.do \notin Closers \cup {"bury", "drop"} /\ Needs(u, NoRequest) \subseteq ids

LEMMA MildSound ==
  ASSUME NEW s, NEW ids, Mild(s, ids), NEW r, NEW gone
  PROVE  Sound(s, r, ids, gone) /\ Open(s) /\ IsSeq(s)
<1>1. \A u : u.do # "drop" => Needs(u, r) = Needs(u, NoRequest)
  BY DEF Needs
<1>2. \A k \in DOMAIN s : s[k] \in Range(s)
  BY DEF Range
<1> QED BY <1>1, <1>2 DEF Mild, Sound, Open

LEMMA MildJoined ==
  ASSUME NEW a, NEW b, NEW ids, Mild(a, ids), Mild(b, ids)
  PROVE  Mild(a \o b, ids) /\ Given(a \o b) = Given(a) \cup Given(b)
BY RangeJoined, GivenJoined, SeqJoined DEF Mild

LEMMA Ranges ==
  /\ Range(<<>>) = {}
  /\ \A x : Range(<<x>>) = {x}
  /\ \A x, y : Range(<<x, y>>) = {x, y} /\ <<x>> \o <<y>> = <<x, y>>
<1>1. Range(<<>>) = {} /\ \A x : Range(<<x>>) = {x}
  BY DEF Range
<1>2. ASSUME NEW x, NEW y PROVE Range(<<x, y>>) = {x, y} /\ <<x>> \o <<y>> = <<x, y>>
  <2>1. DOMAIN <<x, y>> = {1, 2} /\ <<x, y>>[1] = x /\ <<x, y>>[2] = y
    OBVIOUS
  <2>2. Range(<<x, y>>) = {x, y}
    BY <2>1 DEF Range
  <2>3. <<x>> \o <<y>> = <<x, y>>
    <3> DEFINE S == {x, y}
               a == <<x>>
               b == <<y>>
               c == <<x, y>>
    <3>1. /\ a \in Seq(S) /\ Len(a) = 1 /\ a[1] = x /\ b \in Seq(S) /\ Len(b) = 1 /\ b[1] = y
          /\ c \in Seq(S) /\ Len(c) = 2 /\ c[1] = x /\ c[2] = y
      OBVIOUS
    <3> HIDE DEF S, a, b, c
    <3>2. /\ a \o b \in Seq(S) /\ Len(a \o b) = Len(a) + Len(b)
          /\ \A i \in 1..Len(a) + Len(b) : (a \o b)[i] = IF i <= Len(a) THEN a[i] ELSE b[i - Len(a)]
      BY <3>1, ConcatProperties
    <3>3. \A i \in 1..2 : i = 1 \/ i = 2
      OBVIOUS
    <3>4. (a \o b)[1] = x /\ (a \o b)[2] = y
      BY <3>1, <3>2
    <3>5. \A i \in 1..2 : (a \o b)[i] = c[i]
      BY <3>1, <3>3, <3>4
    <3>6. a \o b = c
      BY <3>1, <3>2, <3>5, SeqEqual
    <3> QED BY <3>6 DEF a, b, c
  <2> QED BY <2>2, <2>3
<1> QED BY <1>1, <1>2

LEMMA RangeAppended ==
  ASSUME NEW q, NEW p, q \in Seq(Range(q))
  PROVE  Range(Append(q, p)) \subseteq Range(q) \cup {p}
<1> DEFINE S == Range(q) \cup {p}
<1>1. q \in Seq(S) /\ p \in S
  BY SeqMonotonic
<1> HIDE DEF S
<1>2. Append(q, p) \in Seq(S)
  BY <1>1, AppendProperties
<1>3. \A k \in DOMAIN Append(q, p) : Append(q, p)[k] \in S
  BY <1>2, ElementOfSeq, LenProperties
<1> QED BY <1>3 DEF Range, S

LEMMA MildIf ==
  ASSUME NEW b, NEW s, NEW ids, b => Mild(s, ids)
  PROVE  Mild(If(b, s), ids) /\ (b => Given(s) \subseteq Given(If(b, s)))
<1>1. Mild(<<>>, ids)
  BY Tuples, Ranges DEF Mild
<1> QED BY <1>1 DEF If

LEMMA MildPieces ==
  ASSUME NEW ids
  PROVE  /\ Mild(<<>>, ids) /\ Mild(<<Send>>, ids) /\ Mild(<<Piece("report")>>, ids)
         /\ \A id : Mild(ReadAndReport(id), ids) /\ Given(ReadAndReport(id)) = {id}
         /\ \A id, ch : id \in ids => Mild(<<Forget(id, ch)>>, ids)
         /\ \A p, isEvent : Mild(<<Unroot(p, isEvent, 0)>>, ids)
<1>1. \A u : u.do \in {"send", "report", "read"} => u.do \notin Closers \cup {"bury", "drop"} /\ Needs(u, NoRequest) \subseteq ids
  BY DEF Closers, Needs
<1>2. Send.do = "send" /\ Piece("report").do = "report" /\ \A id : Read(id).do = "read" /\ Read(id).id = id
  BY DEF Send, Piece, Read
<1>3. Mild(<<>>, ids) /\ Mild(<<Send>>, ids) /\ Mild(<<Piece("report")>>, ids)
  BY <1>1, <1>2, Tuples, Ranges DEF Mild
<1>4. ASSUME NEW id
      PROVE  Mild(ReadAndReport(id), ids) /\ Given(ReadAndReport(id)) = {id}
  <2>1. Range(ReadAndReport(id)) = {Read(id), Piece("report")} /\ IsSeq(ReadAndReport(id))
    BY Ranges, Tuples DEF ReadAndReport
  <2>2. Read(id).do = "read" /\ Read(id).id = id /\ Piece("report").do = "report"
    BY <1>2
  <2> QED BY <1>1, <2>1, <2>2 DEF Mild, Given
<1>5. ASSUME NEW id \in ids, NEW ch
      PROVE  Mild(<<Forget(id, ch)>>, ids)
  <2>1. Forget(id, ch).do = "forget" /\ Forget(id, ch).id = id
    BY DEF Forget
  <2>2. Needs(Forget(id, ch), NoRequest) = {id} /\ Forget(id, ch).do \notin Closers \cup {"bury", "drop"}
    BY <2>1 DEF Needs, Closers
  <2> QED BY <2>2, Tuples, Ranges DEF Mild
<1>6. ASSUME NEW p, NEW isEvent
      PROVE  Mild(<<Unroot(p, isEvent, 0)>>, ids)
  <2> DEFINE u == Unroot(p, isEvent, 0)
  <2>1. u.do = "unroot" /\ u.processing = 0
    BY DEF Unroot
  <2> HIDE DEF u
  <2>2. Needs(u, NoRequest) = {} /\ u.do \notin Closers \cup {"bury", "drop"}
    BY <2>1 DEF Needs, Closers
  <2>3. Mild(<<u>>, ids)
    BY <2>2, Tuples, Ranges DEF Mild
  <2> QED BY <2>3 DEF u
<1> QED BY <1>3, <1>4, <1>5, <1>6

LEMMA MildUnroots ==
  ASSUME Good(io, {}), NEW p, NEW id, NEW ids, id \in ids
  PROVE  Mild(Unroots(p, id), ids)
<1>1. IsSeq(Unroots(p, id))
  BY UnrootsIsSeq
<1>2. \A u \in Range(Unroots(p, id)) : u.do = "unroot" /\ u.processing = id
  BY DEF Unroots, Unroot, Range
<1>3. \A u \in Range(Unroots(p, id)) : Needs(u, NoRequest) \subseteq ids
  BY <1>2 DEF Needs
<1>4. \A u \in Range(Unroots(p, id)) : u.do \notin Closers \cup {"bury", "drop"}
  BY <1>2 DEF Closers
<1> QED BY <1>1, <1>3, <1>4 DEF Mild

LEMMA SoundOne ==
  ASSUME NEW u, NEW r, NEW ids, NEW gone, Needs(u, r) \subseteq ids, u.do = "bury" => u.id \in gone
  PROVE  Sound(<<u>>, r, ids, gone) /\ Range(<<u>>) = {u}
<1>1. IsSeq(<<u>>) /\ DOMAIN <<u>> = {1} /\ <<u>>[1] = u /\ Len(<<u>>) = 1
  BY Tuples
<1> QED BY <1>1, Ranges DEF Sound

(* What carries a request on, or ends it, comes last. *)
LEMMA LastPieces ==
  ASSUME NEW r, NEW gone, NEW what \in Closers
  PROVE  /\ Sound(<<Piece(what)>>, r, {}, gone)
         /\ \A id : Sound(<<Read(id), Piece(what)>>, r, {}, gone) /\ Given(<<Read(id), Piece(what)>>) = {id}
<1>1. Piece(what).do = what /\ what \notin {"bury", "read"} /\ Needs(Piece(what), r) = {}
  BY DEF Piece, Closers, Needs
<1>2. Sound(<<Piece(what)>>, r, {}, gone) /\ Range(<<Piece(what)>>) = {Piece(what)}
  BY <1>1, SoundOne
<1>3. ASSUME NEW id
      PROVE  Sound(<<Read(id), Piece(what)>>, r, {}, gone) /\ Given(<<Read(id), Piece(what)>>) = {id}
  <2> DEFINE a == <<Read(id)>>
             b == <<Piece(what)>>
  <2>1. Read(id).do = "read" /\ Read(id).id = id
    BY DEF Read
  <2>2. Needs(Read(id), r) = {} /\ Read(id).do \notin Closers
    BY <2>1 DEF Needs, Closers
  <2>3. Sound(a, r, {} \cup Given(b), gone) /\ Range(a) = {Read(id)}
    BY <2>1, <2>2, SoundOne
  <2>4. Open(a)
    BY <2>2, <2>3 DEF Open
  <2>5. Given(a) = {id} /\ Given(b) = {}
    BY <1>1, <1>2, <2>1, <2>3 DEF Given
  <2>6. a \o b = <<Read(id), Piece(what)>>
    BY Ranges
  <2> HIDE DEF a
  <2>7. Sound(b, r, {}, gone) /\ IsSeq(a) /\ IsSeq(b)
    BY <1>2, <2>3 DEF Sound
  <2> HIDE DEF b
  <2>8. Sound(a \o b, r, {}, gone) /\ Given(a \o b) = {id}
    BY <2>3, <2>4, <2>5, <2>7, SoundJoined, GivenJoined
  <2> QED BY <2>6, <2>8
<1> QED BY <1>2, <1>3


-----------------------------------------------------------------------------
(* What the tables say about who listens.                                  *)
-----------------------------------------------------------------------------
(* A watch that is read, and for something that is wanted. *)
Heard(x, strict) ==
  {id \in DOMAIN x.watch :
     LET w == x.watch[id] IN w.active # NoRead /\ (strict /\ w.active \in x.reading => Wanted(w))}

(* A watch of a directory that is gone, and that the kernel does not read. *)
Lost(x) == {id \in DOMAIN x.watch : x.watch[id].obj \notin Objects /\ x.watch[id].active \notin x.reading}

(* Watches a packet says are gone. *)
Denying(x) == {p.op.id : p \in {u \in Range(x.queue) : u.err = "denied"}}

(* A handle is on the directory of its watch; what it keeps and what a     *)
(* packet brings are sequences of changes.                                 *)
Matched(x) ==
  /\ \A id \in DOMAIN x.handle :
       x.handle[id].obj = x.watch[id].obj /\ "kept" \in DOMAIN x.handle[id] /\ IsSeq(x.handle[id].kept)
  /\ \A p \in Range(x.queue) : IsSeq(p.recs)

(* Only the watches ids may listen less after the tables x have become y. *)
Follows(x, y, ids) ==
  /\ \A id \in DOMAIN x.watch : id \in DOMAIN y.watch /\ y.watch[id].obj = x.watch[id].obj
  /\ \A id \in DOMAIN y.watch \ DOMAIN x.watch : y.watch[id].obj \in Objects
  /\ Lost(x) \subseteq Lost(y) /\ InTable(y) \ ids \subseteq InTable(x)
  /\ \A strict \in BOOLEAN : Heard(x, strict) \ ids \subseteq Heard(y, strict)
  /\ Matched(x) => Matched(y)

(* And no packet has come that denies a watch. *)
Alters(x, y, ids) == Follows(x, y, ids) /\ Denying(y) \subseteq Denying(x)

LEMMA AltersMore ==
  ASSUME NEW x, NEW y, NEW ids, NEW more, Alters(x, y, ids), ids \subseteq more
  PROVE  Alters(x, y, more)
BY DEF Alters, Follows

LEMMA AltersTwice ==
  ASSUME NEW x, NEW y, NEW z, NEW a, NEW b, Alters(x, y, a), Alters(y, z, b)
  PROVE  Alters(x, z, a \cup b)
BY DEF Alters, Follows

LEMMA AltersNot == ASSUME NEW x, NEW ids PROVE Alters(x, x, ids)
BY DEF Alters, Follows

LEMMA AltersIf ==
  ASSUME NEW x, NEW y, NEW held, NEW ids, Good(x, held), DOMAIN y.watch = DOMAIN x.watch,
         \A id \in DOMAIN x.watch :
           /\ y.watch[id].obj = x.watch[id].obj /\ y.watch[id].active = x.watch[id].active
           /\ id \in ids \/ (Wanted(x.watch[id]) => Wanted(y.watch[id])),
         y.reading \subseteq x.reading, InTable(y) \subseteq InTable(x),
         \A p \in Range(y.queue) : p \in Range(x.queue) \/ (p.err # "denied" /\ IsSeq(p.recs)),
         \A id \in DOMAIN y.handle : id \in DOMAIN x.handle /\ y.handle[id] = x.handle[id]
  PROVE  Alters(x, y, ids)
<1>1. DOMAIN x.handle \subseteq DOMAIN x.watch
  BY DEF Good, Tables, InTable, Range
<1>2. Matched(x) => Matched(y)
  BY <1>1 DEF Matched
<1>5. Denying(y) \subseteq Denying(x)
  BY DEF Denying
<1>3. Lost(x) \subseteq Lost(y)
  BY DEF Lost
<1>4. \A strict \in BOOLEAN : Heard(x, strict) \ ids \subseteq Heard(y, strict)
  BY DEF Heard
<1> QED BY <1>2, <1>3, <1>4, <1>5 DEF Alters, Follows

LEMMA WatchAlters ==
  ASSUME NEW x, NEW held, NEW id, NEW w, NEW ids, Good(x, held), Alike(x.watch[id], w),
         IsWatch(x.watch[id]) => id \in ids \/ (Wanted(x.watch[id]) => Wanted(w))
  PROVE  Alters(x, [x EXCEPT !.watch[id] = w], ids)
<1> DEFINE y == [x EXCEPT !.watch[id] = w]
<1>1. /\ y.watch = [x.watch EXCEPT ![id] = w] /\ y.watches = x.watches
      /\ y.handle = x.handle /\ y.reading = x.reading /\ y.queue = x.queue
  BY DEF Good, Tables, IsIo
<1> HIDE DEF y
<1>2. \A k \in DOMAIN x.watch : IsWatch(x.watch[k])
  BY DEF Good, Tables
<1>3. \A k \in DOMAIN x.watch :
        /\ y.watch[k].obj = x.watch[k].obj /\ y.watch[k].active = x.watch[k].active
        /\ k \in ids \/ (Wanted(x.watch[k]) => Wanted(y.watch[k]))
  <2> SUFFICES ASSUME NEW k \in DOMAIN x.watch
               PROVE  /\ y.watch[k].obj = x.watch[k].obj /\ y.watch[k].active = x.watch[k].active
                      /\ k \in ids \/ (Wanted(x.watch[k]) => Wanted(y.watch[k]))
    OBVIOUS
  <2>1. CASE k = id
    <3>1. y.watch[k] = w
      BY <1>1, <2>1
    <3> QED BY <1>2, <2>1, <3>1 DEF Alike
  <2>2. CASE k # id
    <3>1. y.watch[k] = x.watch[k]
      BY <1>1, <2>2
    <3> QED BY <3>1
  <2> QED BY <2>1, <2>2
<1>4. InTable(y) = InTable(x) /\ Denying(y) = Denying(x) /\ DOMAIN y.watch = DOMAIN x.watch
  BY <1>1 DEF InTable, Denying
<1>5. Alters(x, y, ids)
  BY <1>1, <1>3, <1>4, AltersIf
<1> QED BY <1>5 DEF y

LEMMA RootsAlter ==
  ASSUME NEW x, NEW held, NEW roots, Good(x, held)
  PROVE  Alters(x, [x EXCEPT !.roots = roots], {})
<1> DEFINE y == [x EXCEPT !.roots = roots]
<1>1. y.watch = x.watch /\ y.watches = x.watches /\ y.handle = x.handle /\ y.reading = x.reading /\ y.queue = x.queue
  BY DEF Good, Tables, IsIo
<1> HIDE DEF y
<1>2. InTable(y) = InTable(x) /\ Denying(y) = Denying(x)
  BY <1>1 DEF InTable, Denying
<1>3. Alters(x, y, {})
  BY <1>1, <1>2, AltersIf
<1> QED BY <1>3 DEF y

LEMMA ErrAlters ==
  ASSUME NEW x, NEW held, NEW err, Good(x, held)
  PROVE  Alters(x, [x EXCEPT !.err = err], {})
<1> DEFINE y == [x EXCEPT !.err = err]
<1>1. y.watch = x.watch /\ y.watches = x.watches /\ y.handle = x.handle /\ y.reading = x.reading /\ y.queue = x.queue
  BY DEF Good, Tables, IsIo
<1> HIDE DEF y
<1>2. InTable(y) = InTable(x) /\ Denying(y) = Denying(x)
  BY <1>1 DEF InTable, Denying
<1>3. Alters(x, y, {})
  BY <1>1, <1>2, AltersIf
<1> QED BY <1>3 DEF y

(* closeWatch ends a watch that has no read. *)
LEMMA CloseAlters ==
  ASSUME NEW x, NEW held, NEW id, Good(x, held)
  PROVE  LET y == closeWatch(x, id)
         IN  Alters(x, y, {}) /\ (x.watch[id].active = NoRead => id \notin InTable(y))
<1> DEFINE y == closeWatch(x, id)
<1>1. CASE x.watch[id].active # NoRead
  <2>1. y = [x EXCEPT !.err = "error"]
    BY <1>1 DEF closeWatch
  <2>2. Alters(x, [x EXCEPT !.err = "error"], {})
    BY ErrAlters
  <2> HIDE DEF y
  <2>3. Alters(x, y, {})
    BY <2>1, <2>2
  <2> QED BY <1>1, <2>3 DEF y
<1>2. CASE x.watch[id].active = NoRead
  <2> DEFINE r == removeWatchEntry(x, id)
             o == x.watch[id].obj
  <2>1. /\ y.watch = x.watch /\ y.watches = r.watches /\ y.handle = Restrict(x.handle, DOMAIN x.handle \ {id})
        /\ y.reading = x.reading /\ y.queue = x.queue
    BY <1>2 DEF Good, Tables, IsIo, closeWatch, CloseHandle, removeWatchEntry
  <2>2. r.watches = IF o \in DOMAIN x.watches /\ x.watches[o] = id
                    THEN Restrict(x.watches, DOMAIN x.watches \ {o}) ELSE x.watches
    BY DEF Good, Tables, IsIo, removeWatchEntry
  <2>3. \A u \in DOMAIN x.watches : x.watches[u] = id => u = o
    BY DEF Good, Tables
  <2> HIDE DEF y, r, o
  <2>4. /\ \A u \in DOMAIN y.watches : u \in DOMAIN x.watches /\ y.watches[u] = x.watches[u] /\ y.watches[u] # id
        /\ \A k \in DOMAIN y.handle : k \in DOMAIN x.handle /\ y.handle[k] = x.handle[k]
    <3>1. CASE o \in DOMAIN x.watches /\ x.watches[o] = id
      BY <2>1, <2>2, <2>3, <3>1 DEF Restrict
    <3>2. CASE ~(o \in DOMAIN x.watches /\ x.watches[o] = id)
      BY <2>1, <2>2, <2>3, <3>2 DEF Restrict
    <3> QED BY <3>1, <3>2
  <2>5. InTable(y) \subseteq InTable(x) /\ id \notin InTable(y) /\ Denying(y) = Denying(x)
    BY <2>1, <2>4 DEF InTable, Denying, Range
  <2>6. Alters(x, y, {})
    BY <2>1, <2>4, <2>5, AltersIf
  <2> QED BY <2>5, <2>6 DEF y
<1> QED BY <1>1, <1>2


(* CancelIoEx leaves the watch a read that has ended. *)
LEMMA CancelAlters ==
  ASSUME NEW x, NEW held, NEW id, Good(x, held)
  PROVE  LET y == CancelActive(x, id)
         IN  /\ Alters(x, y, {})
             /\ x.watch[id].active # NoRead /\ id \in InTable(y) =>
                  \A strict \in BOOLEAN : id \in Heard(y, strict)
<1> DEFINE y == CancelActive(x, id)
           op == x.watch[id].active
           p == Packet(op, "aborted", <<>>)
<1>1. /\ y.watch = x.watch /\ y.watches = x.watches /\ y.handle = x.handle
      /\ y.reading = IF Valid(x, id) THEN x.reading \ {op} ELSE x.reading
      /\ y.queue = x.queue \/ y.queue = Append(x.queue, p)
  <2>1. IsIo(x)
    BY DEF Good, Tables
  <2>2. CASE Valid(x, id) /\ op \in x.reading
    BY <2>1, <2>2 DEF IsIo, CancelActive, Cancel, Post
  <2>3. CASE Valid(x, id) /\ op \notin x.reading
    BY <2>1, <2>3 DEF IsIo, CancelActive, Cancel, Post
  <2>4. CASE ~Valid(x, id)
    BY <2>1, <2>4 DEF IsIo, CancelActive, Cancel, Post
  <2> QED BY <2>2, <2>3, <2>4
<1> HIDE DEF y
<1>2. p.err # "denied" /\ IsSeq(p.recs)
  BY Tuples DEF Packet
<1> HIDE DEF p
<1>3. \A u \in Range(y.queue) : u \in Range(x.queue) \/ (u.err # "denied" /\ IsSeq(u.recs))
  <2>1. Range(Append(x.queue, p)) \subseteq Range(x.queue) \cup {p}
    BY RangeAppended DEF Good, Reads, Packets
  <2> QED BY <1>1, <1>2, <2>1
<1>4. InTable(y) = InTable(x)
  BY <1>1 DEF InTable
<1>5. Alters(x, y, {})
  BY <1>1, <1>3, <1>4, AltersIf
<1>6. id \in InTable(y) => Valid(x, id) /\ id \in DOMAIN x.watch
  BY <1>4 DEF Good, Tables, Valid, InTable, Range
<1>7. op # NoRead /\ id \in InTable(y) => \A strict \in BOOLEAN : id \in Heard(y, strict)
  BY <1>1, <1>6 DEF Heard
<1> QED BY <1>5, <1>7 DEF y

(* A new read of a directory that exists. *)
LEMMA NewReadAlters ==
  ASSUME NEW x, NEW held, NEW id, Good(x, held), Valid(x, id), x.watch[id].active = NoRead,
         x.watch[id].obj \in Objects
  PROVE  LET y == NewRead(x, id)
         IN  /\ Alters(x, y, {id}) /\ DOMAIN y.watch = DOMAIN x.watch
             /\ y.watch[id].active # NoRead /\ (Wanted(x.watch[id]) => Wanted(y.watch[id]))
<1> DEFINE Free(k) == [id |-> id, n |-> k] \notin x.pending
           n == CHOOSE k \in 1..(Cardinality(x.pending) + 1) : Free(k)
           op == [id |-> id, n |-> n]
           z == [x EXCEPT !.watch[id].active = op, !.pending = @ \cup {op}, !.err = "nil"]
           h == [z.handle[id] EXCEPT !.on = TRUE, !.tree = x.watch[id].recurse]
           z1 == [z EXCEPT !.handle[id] = h, !.reading = @ \cup {op}]
           y == NewRead(x, id)
           kept == z1.handle[op.id].kept
           p == IF Len(kept) > MaxChanges THEN Packet(op, "more data", <<>>)
                ELSE Packet(op, "none", kept)
<1>1. \A o \in x.pending : o.id # id
  BY ReadOfWatch
<1>2. Free(1)
  BY <1>1
<1>3. IsFiniteSet(x.pending) /\ Cardinality(x.pending) \in Nat
  BY FS_CardinalityType DEF Good, Reads
<1>4. n \in 1..(Cardinality(x.pending) + 1) /\ Free(n)
  <2>1. 1 \in 1..(Cardinality(x.pending) + 1)
    BY <1>3
  <2> QED BY <1>2, <2>1
<1>5. op.id = id /\ op \notin x.pending /\ op # NoRead
  <2> HIDE DEF n
  <2>1. n # 0
    BY <1>3, <1>4
  <2> QED BY <1>4, <2>1 DEF NoRead
<1>6. id \in DOMAIN x.watch /\ id \in DOMAIN x.handle
  BY DEF Good, Tables, Valid, InTable, Range
<1>7. y = IF h.kept = <<>> THEN z1 ELSE Complete(z1, op)
  BY DEF NewRead, Submit
<1> HIDE DEF n, op, y
<1>8. /\ IsIo(z) /\ z.watch = [x.watch EXCEPT ![id].active = op] /\ z.handle = x.handle /\ z.reading = x.reading
      /\ z.watches = x.watches /\ z.queue = x.queue
  BY DEF Good, Tables, IsIo
<1> HIDE DEF z
<1>9. h.obj = x.handle[id].obj /\ h.kept = x.handle[id].kept /\ DOMAIN h = DOMAIN x.handle[id]
  BY <1>8
<1> HIDE DEF h
<1>10. /\ IsIo(z1) /\ z1.watch = z.watch /\ z1.handle = [x.handle EXCEPT ![id] = h]
       /\ z1.reading = x.reading \cup {op} /\ z1.watches = z.watches /\ z1.queue = z.queue
  BY <1>8 DEF IsIo
<1> HIDE DEF z1, kept
<1>11. p.err # "denied" /\ (IsSeq(kept) => IsSeq(p.recs))
  BY Tuples DEF Packet
<1> HIDE DEF p
<1>12. /\ y.watch = z1.watch /\ y.watches = z1.watches /\ y.reading \subseteq z1.reading
       /\ DOMAIN y.handle = DOMAIN x.handle
       /\ \A k \in DOMAIN x.handle : /\ y.handle[k].obj = z1.handle[k].obj
                                     /\ y.handle[k].kept \in {<<>>, z1.handle[k].kept}
                                     /\ DOMAIN y.handle[k] = DOMAIN z1.handle[k]
       /\ y.queue = z1.queue \/ y.queue = Append(z1.queue, p)
  <2>1. CASE y = z1
    BY <1>10, <2>1
  <2>2. CASE y = Complete(z1, op)
    <3> DEFINE e == [z1 EXCEPT !.reading = @ \ {op}, !.handle[op.id].kept = <<>>, !.lost = @ \/ Len(kept) > MaxChanges]
    <3>1. y = Post(e, p)
      BY <2>2 DEF Complete, p, kept
    <3>2. /\ IsIo(e) /\ e.watch = z1.watch /\ e.watches = z1.watches /\ e.reading \subseteq z1.reading
          /\ e.handle = [z1.handle EXCEPT ![op.id].kept = <<>>] /\ e.queue = z1.queue
      BY <1>10 DEF IsIo
    <3> HIDE DEF e
    <3>3. /\ y.watch = e.watch /\ y.watches = e.watches /\ y.reading = e.reading /\ y.handle = e.handle
          /\ y.queue = Append(e.queue, p)
      BY <3>1, <3>2 DEF IsIo, Post
    <3>4. /\ DOMAIN e.handle = DOMAIN z1.handle
          /\ \A k \in DOMAIN z1.handle : /\ e.handle[k].obj = z1.handle[k].obj
                                         /\ e.handle[k].kept \in {<<>>, z1.handle[k].kept}
                                         /\ DOMAIN e.handle[k] = DOMAIN z1.handle[k]
      BY <3>2
    <3> QED BY <1>10, <3>2, <3>3, <3>4
  <2> QED BY <1>7, <2>1, <2>2
<1>13. /\ DOMAIN y.watch = DOMAIN x.watch /\ y.watch[id] = [x.watch[id] EXCEPT !.active = op]
       /\ \A k \in DOMAIN x.watch : k # id => y.watch[k] = x.watch[k]
       /\ y.reading \subseteq x.reading \cup {op} /\ y.watches = x.watches
  BY <1>6, <1>8, <1>10, <1>12
<1>14. IsWatch(x.watch[id])
  BY <1>6 DEF Good, Tables
<1>15. /\ y.watch[id].obj = x.watch[id].obj /\ y.watch[id].active = op
       /\ y.watch[id].mask = x.watch[id].mask /\ y.watch[id].names = x.watch[id].names
  BY <1>13, <1>14 DEF IsWatch
<1>16. Range(y.queue) \subseteq Range(x.queue) \cup {p}
  <2>1. Range(Append(x.queue, p)) \subseteq Range(x.queue) \cup {p}
    BY RangeAppended DEF Good, Reads, Packets
  <2>2. y.queue = x.queue \/ y.queue = Append(x.queue, p)
    BY <1>8, <1>10, <1>12
  <2>3. Range(y.queue) \subseteq Range(x.queue) \cup {p}
    BY <2>1, <2>2
  <2> QED BY <2>3
<1>26. Denying(y) \subseteq Denying(x)
  BY <1>11, <1>16 DEF Denying
<1>17. InTable(y) = InTable(x)
  BY <1>13 DEF InTable
<1>18. /\ \A k \in DOMAIN y.handle : /\ y.handle[k].obj = x.handle[k].obj
                                     /\ y.handle[k].kept \in {<<>>, x.handle[k].kept}
                                     /\ DOMAIN y.handle[k] = DOMAIN x.handle[k]
       /\ kept = x.handle[id].kept
  <2>1. kept = x.handle[id].kept
    BY <1>5, <1>6, <1>9, <1>10 DEF kept
  <2> QED BY <2>1, <1>9, <1>10, <1>12
<1>19. DOMAIN x.handle \subseteq DOMAIN x.watch
  BY DEF Good, Tables, InTable, Range
<1>20. Matched(x) => Matched(y)
  <2> SUFFICES ASSUME Matched(x) PROVE Matched(y)
    OBVIOUS
  <2>1. \A u \in Range(y.queue) : IsSeq(u.recs)
    BY <1>6, <1>11, <1>16, <1>18 DEF Matched
  <2>2. \A k \in DOMAIN y.handle : y.handle[k].obj = y.watch[k].obj
    BY <1>12, <1>13, <1>15, <1>18, <1>19 DEF Matched
  <2>3. \A k \in DOMAIN y.handle : "kept" \in DOMAIN y.handle[k] /\ IsSeq(y.handle[k].kept)
    BY <1>12, <1>18, Tuples DEF Matched
  <2> QED BY <2>1, <2>2, <2>3 DEF Matched
<1>21. \A k \in DOMAIN x.watch : k # id => x.watch[k].active # op
  BY <1>5 DEF Good, Reads
<1>22. Lost(x) \subseteq Lost(y)
  BY <1>13, <1>15, <1>21 DEF Lost
<1>23. \A strict \in BOOLEAN : Heard(x, strict) \ {id} \subseteq Heard(y, strict)
  BY <1>13, <1>21 DEF Heard
<1>24. Alters(x, y, {id})
  BY <1>13, <1>15, <1>17, <1>20, <1>22, <1>23, <1>26 DEF Alters, Follows
<1>25. Wanted(x.watch[id]) => Wanted(y.watch[id])
  BY <1>15 DEF Wanted
<1> QED BY <1>5, <1>13, <1>15, <1>24, <1>25 DEF y

(* startRead leaves the watch listening, or out of the table. *)
LEMMA StartReadAlters ==
  ASSUME NEW x, NEW held, NEW id, Good(x, held), ~Denied(x, id, FALSE)
  PROVE  LET y == startRead(x, id, FALSE)
         IN  /\ Alters(x, y, {id})
             /\ id \in InTable(y) => \A strict \in BOOLEAN : id \in Heard(y, strict)
<1> DEFINE y == startRead(x, id, FALSE)
           w == x.watch[id]
<1>1. CASE w.active # NoRead
  <2>1. y = CancelActive(x, id)
    BY <1>1 DEF startRead
  <2>2. LET u == CancelActive(x, id)
        IN  Alters(x, u, {}) /\ (id \in InTable(u) => \A strict \in BOOLEAN : id \in Heard(u, strict))
    BY <1>1, CancelAlters
  <2> HIDE DEF y
  <2>3. Alters(x, y, {}) /\ (id \in InTable(y) => \A strict \in BOOLEAN : id \in Heard(y, strict))
    BY <2>1, <2>2
  <2>4. Alters(x, y, {id})
    BY <2>3, AltersMore
  <2> QED BY <2>3, <2>4 DEF y
<1>2. CASE w.active = NoRead /\ ~Wanted(w)
  <2>1. y = closeWatch(x, id)
    BY <1>2 DEF startRead
  <2>2. LET u == closeWatch(x, id) IN Alters(x, u, {}) /\ id \notin InTable(u)
    BY <1>2, CloseAlters
  <2> HIDE DEF y
  <2>3. Alters(x, y, {}) /\ id \notin InTable(y)
    BY <2>1, <2>2
  <2>4. Alters(x, y, {id})
    BY <2>3, AltersMore
  <2> QED BY <2>3, <2>4 DEF y
<1>3. CASE w.active = NoRead /\ Wanted(w) /\ ~Valid(x, id)
  <2>1. y = [x EXCEPT !.err = "error"]
    BY <1>3 DEF startRead
  <2>2. Alters(x, [x EXCEPT !.err = "error"], {})
    BY ErrAlters
  <2>3. InTable(y) = InTable(x) /\ InTable(x) = DOMAIN x.handle
    BY <2>1 DEF Good, Tables, IsIo, InTable
  <2> HIDE DEF y
  <2>4. Alters(x, y, {id})
    BY <2>1, <2>2, AltersMore
  <2>5. id \notin InTable(y)
    BY <1>3, <2>3 DEF Valid
  <2> QED BY <2>4, <2>5 DEF y
<1>4. CASE w.active = NoRead /\ Wanted(w) /\ Valid(x, id)
  <2>1. y = NewRead(x, id) /\ w.obj \in Objects
    BY <1>4 DEF startRead, Denied, Exists
  <2>2. LET u == NewRead(x, id)
        IN  /\ Alters(x, u, {id}) /\ DOMAIN u.watch = DOMAIN x.watch
            /\ u.watch[id].active # NoRead /\ Wanted(u.watch[id])
    BY <1>4, <2>1, NewReadAlters
  <2> HIDE DEF y
  <2>3. /\ Alters(x, y, {id}) /\ DOMAIN y.watch = DOMAIN x.watch
        /\ y.watch[id].active # NoRead /\ Wanted(y.watch[id])
    BY <2>1, <2>2
  <2>4. id \in DOMAIN x.watch
    BY <1>4 DEF Good, Tables, Valid, InTable, Range
  <2>5. \A strict \in BOOLEAN : id \in Heard(y, strict)
    BY <2>3, <2>4 DEF Heard
  <2> QED BY <2>3, <2>5 DEF y
<1> QED BY <1>1, <1>2, <1>3, <1>4


LEMMA TakenAlters ==
  ASSUME NEW x, Good(x, {}), x.queue # <<>>
  PROVE  Alters(x, [x EXCEPT !.queue = Tail(@)], {})
<1> DEFINE y == [x EXCEPT !.queue = Tail(@)]
<1>1. /\ y.watch = x.watch /\ y.watches = x.watches /\ y.handle = x.handle /\ y.reading = x.reading
      /\ y.queue = Tail(x.queue)
  BY DEF Good, Tables, IsIo
<1> HIDE DEF y
<1>2. Range(Tail(x.queue)) \subseteq Range(x.queue)
  <2>1. \A i \in DOMAIN Tail(x.queue) : i + 1 \in DOMAIN x.queue /\ Tail(x.queue)[i] = x.queue[i + 1]
    BY TailParts DEF Good, Reads, Packets
  <2> QED BY <2>1 DEF Range
<1>3. InTable(y) = InTable(x)
  BY <1>1 DEF InTable
<1>4. Alters(x, y, {})
  BY <1>1, <1>2, <1>3, AltersIf
<1> QED BY <1>4 DEF y

(* A read has ended: its watch has none. *)
LEMMA DequeueAlters ==
  ASSUME NEW x, NEW op, Good(x, {op})
  PROVE  LET y == Dequeue(x, op)
         IN  /\ Alters(x, y, {op.id}) /\ op.id \in DOMAIN y.watch /\ y.watch[op.id].active = NoRead
             /\ y.reading = x.reading /\ InTable(y) = InTable(x)
<1> DEFINE y == Dequeue(x, op)
<1>1. op \in x.pending
  BY DEF Good, Reads
<1>2. op.id \in DOMAIN x.watch /\ x.watch[op.id].active = op /\ op # NoRead /\ IsWatch(x.watch[op.id])
  BY <1>1, ReadOfWatch DEF Good, Tables
<1>3. /\ y.watch = [x.watch EXCEPT ![op.id].active = NoRead] /\ y.watches = x.watches
      /\ y.handle = x.handle /\ y.reading = x.reading /\ y.queue = x.queue
  BY <1>2 DEF Good, Tables, IsIo, Dequeue
<1> HIDE DEF y
<1>4. /\ DOMAIN y.watch = DOMAIN x.watch /\ \A k \in DOMAIN x.watch : k # op.id => y.watch[k] = x.watch[k]
      /\ y.watch[op.id].obj = x.watch[op.id].obj /\ y.watch[op.id].active = NoRead
  BY <1>2, <1>3 DEF IsWatch
<1>5. Denying(y) = Denying(x) /\ InTable(y) = InTable(x)
  BY <1>3 DEF Denying, InTable
<1>6. DOMAIN x.handle \subseteq DOMAIN x.watch
  BY DEF Good, Tables, InTable, Range
<1>7. Matched(x) => Matched(y)
  BY <1>3, <1>4, <1>6 DEF Matched
<1>8. NoRead \notin x.reading
  BY DEF Good, Reads
<1>9. Lost(x) \subseteq Lost(y)
  BY <1>3, <1>4, <1>8 DEF Lost
<1>10. \A strict \in BOOLEAN : Heard(x, strict) \ {op.id} \subseteq Heard(y, strict)
  BY <1>3, <1>4 DEF Heard
<1>11. Alters(x, y, {op.id})
  BY <1>4, <1>5, <1>7, <1>9, <1>10 DEF Alters, Follows
<1> QED BY <1>2, <1>3, <1>4, <1>5, <1>11 DEF y

LEMMA EnsuredAlters ==
  ASSUME NEW x, NEW held, NEW o, NEW path, NEW rec, Good(x, held), o \in Objects
  PROVE  LET y == Ensured(x, o, path, rec) IN Alters(x, y, {y.watches[o]})
<1> DEFINE id == Cardinality(DOMAIN x.watch) + 1
           w == NewWatch(o, path, rec)
           h == [obj |-> o, on |-> FALSE, tree |-> FALSE, kept |-> <<>>]
           y == Ensured(x, o, path, rec)
<1>1. CASE o \in DOMAIN x.watches
  <2>1. y = x
    BY <1>1 DEF Ensured
  <2>2. \A ids : Alters(x, x, ids)
    BY AltersNot
  <2> QED BY <2>1, <2>2
<1>2. CASE o \notin DOMAIN x.watches
  <2>1. PICK n \in Nat : DOMAIN x.watch = 1..n
    BY DEF Good, Tables
  <2>2. id = n + 1
    <3>1. 1 \in Int /\ n \in Int
      OBVIOUS
    <3>2. Cardinality(1..n) = IF 1 > n THEN 0 ELSE n - 1 + 1
      BY <3>1, FS_Interval
    <3> QED BY <2>1, <3>2
  <2>3. /\ y.watch = Assign(x.watch, id, w) /\ y.watches = Assign(x.watches, o, id)
        /\ y.handle = Assign(x.handle, id, h) /\ y.reading = x.reading /\ y.queue = x.queue
    BY <1>2 DEF Good, Tables, IsIo, Ensured, Created, OpenHandle
  <2>4. w.obj = o /\ h.obj = o /\ "kept" \in DOMAIN h /\ IsSeq(h.kept)
    BY Tuples DEF NewWatch
  <2> HIDE DEF y, id, w, h
  <2>5. id \notin DOMAIN x.watch
    BY <2>1, <2>2
  <2>6. /\ DOMAIN y.watch = (DOMAIN x.watch) \cup {id} /\ \A k \in DOMAIN x.watch : y.watch[k] = x.watch[k]
        /\ y.watch[id] = w
        /\ DOMAIN y.watches = (DOMAIN x.watches) \cup {o} /\ y.watches[o] = id
        /\ \A u \in DOMAIN x.watches : y.watches[u] = x.watches[u]
        /\ DOMAIN y.handle = (DOMAIN x.handle) \cup {id} /\ y.handle[id] = h
        /\ \A k \in DOMAIN x.handle : k # id => y.handle[k] = x.handle[k]
    BY <1>2, <2>3, <2>5 DEF Assign
  <2>7. InTable(y) \ {id} \subseteq InTable(x) /\ Denying(y) = Denying(x)
    BY <2>3, <2>6 DEF InTable, Denying, Range
  <2>8. DOMAIN x.handle \subseteq DOMAIN x.watch
    BY DEF Good, Tables, InTable, Range
  <2>9. Matched(x) => Matched(y)
    BY <2>3, <2>4, <2>5, <2>6, <2>8 DEF Matched
  <2>10. Lost(x) \subseteq Lost(y)
    BY <2>3, <2>6 DEF Lost
  <2>11. \A strict \in BOOLEAN : Heard(x, strict) \ {id} \subseteq Heard(y, strict)
    BY <2>3, <2>6 DEF Heard
  <2>12. Alters(x, y, {id})
    BY <2>4, <2>6, <2>7, <2>9, <2>10, <2>11 DEF Alters, Follows
  <2> QED BY <2>6, <2>12 DEF y
<1> QED BY <1>1, <1>2

LEMMA ClearAlters ==
  ASSUME NEW x, NEW held, NEW id, Good(x, held)
  PROVE  LET y == clearWatch(x, id)
         IN  /\ Alters(x, y, {id}) /\ DOMAIN y.watch = DOMAIN x.watch /\ y.reading = x.reading
             /\ id \in DOMAIN x.watch => y.watch[id].active = x.watch[id].active
<1> DEFINE w == [x.watch[id] EXCEPT !.names = <<>>, !.mask = {}]
           y == [x EXCEPT !.watch[id] = w]
<1>1. clearWatch(x, id) = y
  BY DEF clearWatch, Good, Tables, IsIo
<1>2. Alike(x.watch[id], w)
  BY DEF Alike, IsWatch
<1> HIDE DEF w
<1>3. Alters(x, y, {id})
  BY <1>2, WatchAlters
<1>4. y.watch = [x.watch EXCEPT ![id] = w] /\ y.reading = x.reading
  BY DEF Good, Tables, IsIo
<1> HIDE DEF y
<1>5. id \in DOMAIN x.watch => y.watch[id].active = x.watch[id].active
  BY <1>2, <1>4 DEF Alike, Good, Tables
<1> QED BY <1>1, <1>3, <1>4, <1>5

SameActive(x, y) == DOMAIN y.watch = DOMAIN x.watch /\ \A id \in DOMAIN x.watch : y.watch[id].active = x.watch[id].active

LEMMA WatchSetActive ==
  ASSUME NEW x, NEW held, NEW id, NEW w, Good(x, held), Alike(x.watch[id], w)
  PROVE  SameActive(x, [x EXCEPT !.watch[id] = w]) /\ [x EXCEPT !.watch[id] = w].reading = x.reading
<1> DEFINE y == [x EXCEPT !.watch[id] = w]
<1>1. y.watch = [x.watch EXCEPT ![id] = w] /\ y.reading = x.reading
  BY DEF Good, Tables, IsIo
<1> HIDE DEF y
<1>2. \A k \in DOMAIN x.watch : y.watch[k].active = x.watch[k].active
  BY <1>1 DEF Good, Tables, Alike
<1> QED BY <1>1, <1>2 DEF SameActive, y

(* removeRecursiveRoot: the parent may have nothing left to be read for,   *)
(* and after an event neither has the root.                                *)
LEMMA WithoutRootAlters ==
  ASSUME NEW x, NEW held, NEW p, NEW isEvent, Good(x, held)
  PROVE  LET y == WithoutRoot(x, p, isEvent)
             r == x.roots[p]
         IN  /\ Alters(x, y, {r.parent} \cup IF isEvent THEN {r.root} ELSE {})
             /\ SameActive(x, y)
<1> DEFINE r == x.roots[p]
           roots == Restrict(x.roots, DOMAIN x.roots \ {p})
           x0 == [x EXCEPT !.roots = roots]
           w1 == SetName(x.watch[r.parent], r.name, NameMask(x.watch[r.parent], r.name) \ {"monitor"})
           x1 == [x0 EXCEPT !.watch[r.parent] = w1]
           w2 == [x1.watch[r.root] EXCEPT !.mask = {}]
           x2 == IF isEvent THEN [x1 EXCEPT !.watch[r.root] = w2] ELSE x1
           w3 == [x2.watch[r.root] EXCEPT !.recurse = FALSE]
           x3 == [x2 EXCEPT !.watch[r.root] = w3]
           ids == IF isEvent THEN {r.root} ELSE {}
<1>1. x1 = [x EXCEPT !.roots = roots, !.watch[r.parent] = w1]
  BY DEF Good, Tables, IsIo
<1>2. WithoutRoot(x, p, isEvent) = x3
  BY <1>1 DEF WithoutRoot
<1>3. Good(x0, held) /\ x0.watch = x.watch /\ Alters(x, x0, {})
  <2>1. DOMAIN roots = DOMAIN x.roots \ {p}
    BY DEF Restrict
  <2> HIDE DEF roots
  <2>2. IsFiniteSet(DOMAIN roots)
    <3>1. IsFiniteSet(DOMAIN x.roots)
      BY DEF Good, Tables
    <3>2. IsFiniteSet(DOMAIN x.roots \ {p})
      BY <3>1, FS_RemoveElement
    <3> QED BY <2>1, <3>2
  <2>3. Good([x EXCEPT !.roots = roots], held)
    BY <2>2, RootsSet
  <2>4. Alters(x, [x EXCEPT !.roots = roots], {})
    BY RootsAlter
  <2>5. [x EXCEPT !.roots = roots].watch = x.watch
    BY DEF Good, Tables, IsIo
  <2> QED BY <2>3, <2>4, <2>5
<1> HIDE DEF x0, w1
<1>4. Good(x1, held) /\ Alters(x0, x1, {r.parent}) /\ SameActive(x0, x1)
  <2>1. Alike(x0.watch[r.parent], w1)
    BY <1>3, SetNameAlike DEF w1
  <2> QED BY <1>3, <2>1, WatchSet, WatchAlters, WatchSetActive
<1> HIDE DEF x1
<1>5. Good(x2, held) /\ Alters(x1, x2, ids) /\ SameActive(x1, x2)
  <2>1. Alike(x1.watch[r.root], w2)
    BY DEF Alike, IsWatch
  <2> HIDE DEF w2, r
  <2>2. CASE isEvent
    <3> DEFINE z == [x1 EXCEPT !.watch[r.root] = w2]
    <3>1. Good(z, held) /\ Alters(x1, z, {r.root}) /\ SameActive(x1, z)
      BY <1>4, <2>1, WatchSet, WatchAlters, WatchSetActive
    <3>2. x2 = z /\ ids = {r.root}
      BY <2>2
    <3> HIDE DEF z, x2, ids
    <3> QED BY <3>1, <3>2
  <2>3. CASE ~isEvent
    BY <1>4, <2>3, AltersNot DEF SameActive
  <2> QED BY <2>2, <2>3
<1> HIDE DEF x2, ids
<1>6. Alters(x2, x3, {}) /\ SameActive(x2, x3)
  <2>1. Alike(x2.watch[r.root], w3)
    BY DEF Alike, IsWatch
  <2>2. IsWatch(x2.watch[r.root]) => (Wanted(x2.watch[r.root]) => Wanted(w3))
    BY DEF IsWatch, Wanted
  <2> HIDE DEF w3
  <2> QED BY <1>5, <2>1, <2>2, WatchAlters, WatchSetActive
<1> HIDE DEF x3
<1>7. Alters(x, x1, {} \cup {r.parent})
  BY <1>3, <1>4, AltersTwice
<1>8. Alters(x, x2, ({} \cup {r.parent}) \cup ids)
  BY <1>5, <1>7, AltersTwice
<1>9. Alters(x, x3, (({} \cup {r.parent}) \cup ids) \cup {})
  BY <1>6, <1>8, AltersTwice
<1>10. (({} \cup {r.parent}) \cup ids) \cup {} = {r.parent} \cup ids
  OBVIOUS
<1>11. SameActive(x, x3)
  BY <1>3, <1>4, <1>5, <1>6 DEF SameActive
<1> QED BY <1>2, <1>9, <1>10, <1>11 DEF ids

(* Reads end, and only their packets are new. *)
LEMMA EndReadsAre ==
  ASSUME NEW x, NEW packets, Good(x, {}), DOMAIN packets \subseteq x.reading
  PROVE  LET y == EndReads(x, packets)
         IN  /\ y.watch = x.watch /\ y.watches = x.watches /\ y.handle = x.handle
             /\ y.reading \subseteq x.reading
             /\ \A p \in Range(y.queue) : p \in Range(x.queue) \/ \E op \in DOMAIN packets : p = packets[op]
<1> DEFINE ops == SetToSeq(DOMAIN packets)
           more == [k \in DOMAIN ops |-> packets[ops[k]]]
           y == EndReads(x, packets)
<1>1. /\ y.queue = x.queue \o more /\ y.watch = x.watch /\ y.watches = x.watches /\ y.handle = x.handle
      /\ y.reading = x.reading \ DOMAIN packets
  BY DEF Good, Tables, IsIo, EndReads
<1>2. IsFiniteSet(DOMAIN packets)
  <2>1. DOMAIN packets \in SUBSET x.pending
    BY DEF Good, Reads
  <2> QED BY <2>1, FS_Subset DEF Good, Reads
<1>3. ops \in Seq(DOMAIN packets)
  BY <1>2, SetToSeqCovers
<1>4. Len(ops) \in Nat /\ DOMAIN ops = 1..Len(ops) /\ \A k \in DOMAIN ops : ops[k] \in DOMAIN packets
  BY <1>3, LenProperties, ElementOfSeq
<1> HIDE DEF ops
<1> DEFINE S == {packets[op] : op \in DOMAIN packets}
<1>5. more \in [1..Len(ops) -> S]
  BY <1>4
<1>6. more \in Seq(S)
  BY <1>4, <1>5
<1>7. \A p \in Range(more) : p \in S
  BY <1>4, <1>5 DEF Range
<1> HIDE DEF more, y
<1>8. IsSeq(more)
  BY <1>6, SeqIs
<1>9. IsSeq(x.queue)
  BY DEF Good, Reads, Packets, IsSeq
<1>10. Range(y.queue) = Range(x.queue) \cup Range(more)
  BY <1>1, <1>8, <1>9, RangeJoined
<1>11. y.reading \subseteq x.reading
  BY <1>1
<1>12. \A p \in Range(y.queue) : p \in Range(x.queue) \/ \E op \in DOMAIN packets : p = packets[op]
  BY <1>7, <1>10
<1> QED BY <1>1, <1>11, <1>12 DEF y

LEMMA SeqOver ==
  ASSUME NEW n \in Nat, NEW f, f = [k \in 1..n |-> f[k]]
  PROVE  IsSeq(f)
<1> DEFINE S == {f[k] : k \in 1..n}
<1>1. f \in [1..n -> S]
  OBVIOUS
<1> HIDE DEF S
<1>2. f \in Seq(S)
  BY <1>1
<1> QED BY <1>2, SeqIs

LEMMA FrontIsSeq ==
  ASSUME NEW s, IsSeq(s), NEW n \in Nat, Len(s) >= n
  PROVE  IsSeq(SubSeq(s, 1, n))
<1>1. s \in Seq(Range(s))
  BY DEF IsSeq
<1>2. \A i \in 1..n : s[i] \in Range(s)
  BY <1>1, LenProperties DEF Range
<1>3. SubSeq(s, 1, n) \in Seq(Range(s))
  BY <1>2, SubSeqProperties
<1> QED BY <1>3, SeqIs

LEMMA TellsNone ==
  ASSUME NEW p, NEW op, NEW a, p = Packet(op, "more data", <<>>) \/ p = Packet(op, "none", a)
  PROVE  p.err # "denied" /\ (p.recs = <<>> \/ p.recs = a)
<1>1. CASE p = Packet(op, "more data", <<>>)
  <2>1. p.recs = <<>> /\ p.err = "more data"
    BY <1>1 DEF Packet
  <2> QED BY <2>1
<1>2. CASE p = Packet(op, "none", a)
  <2>1. p.recs = a /\ p.err = "none"
    BY <1>2 DEF Packet
  <2> QED BY <2>1
<1> QED BY <1>1, <1>2

LEMMA KeepsMore ==
  ASSUME NEW h, NEW g, NEW kept, "kept" \in DOMAIN h, g = h \/ g = [h EXCEPT !.kept = kept]
  PROVE  g.obj = h.obj /\ (g.kept = h.kept \/ g.kept = kept) /\ "kept" \in DOMAIN g
<1> DEFINE v == [h EXCEPT !.kept = kept]
<1>1. v.obj = h.obj /\ v.kept = kept /\ DOMAIN v = DOMAIN h
  OBVIOUS
<1>2. g = h \/ g = v
  OBVIOUS
<1> HIDE DEF v
<1> QED BY <1>1, <1>2

(* Whoever hears of a change still listens: a read that ends has a packet. *)
LEMMA TellAlters ==
  ASSUME NEW x, NEW d, NEW acts, NEW names, Good(x, {}), IsSeq(acts)
  PROVE  LET y == Tell(x, d, acts, names)
         IN  Alters(x, y, {}) /\ DOMAIN y.watch = DOMAIN x.watch
<1> DEFINE Hears(id) == LET h == x.handle[id]
                        IN  h.on /\ Exists(h.obj) /\ Under(d, At(h.obj)) /\ (h.tree \/ At(h.obj) = d)
           hearers == {id \in DOMAIN x.handle : Hears(id)}
           Rel(id) == SubSeq(d, Len(At(x.handle[id].obj)) + 1, Len(d))
           All(id) == x.handle[id].kept \o [k \in DOMAIN acts |-> Change(acts[k], Append(Rel(id), names[k]))]
           Overflows(id) == Len(All(id)) > MaxChanges
           ended == {op \in x.reading : op.id \in hearers}
           New(id) == IF ReadsOn(x, id) # {} THEN <<>>
                      ELSE IF Overflows(id) THEN SubSeq(All(id), 1, MaxChanges + 1) ELSE All(id)
           handle == [id \in DOMAIN x.handle |-> IF id \in hearers THEN [x.handle[id] EXCEPT !.kept = New(id)]
                                                  ELSE x.handle[id]]
           lost == x.lost \/ \E op \in ended : Overflows(op.id)
           x1 == [x EXCEPT !.handle = handle, !.lost = lost]
           packets == [op \in ended |-> IF Overflows(op.id) THEN Packet(op, "more data", <<>>)
                                         ELSE Packet(op, "none", All(op.id))]
           y == Tell(x, d, acts, names)
<1>1. y = EndReads(x1, packets)
  BY DEF Tell
<1>2. DOMAIN packets = ended /\ ended \subseteq x.reading
  OBVIOUS
<1>3. ASSUME NEW id, IsSeq(x.handle[id].kept)
      PROVE  IsSeq(All(id)) /\ IsSeq(New(id))
  <2>1. Len(acts) \in Nat /\ DOMAIN acts = 1..Len(acts)
    BY LenProperties DEF IsSeq
  <2> DEFINE news == [k \in DOMAIN acts |-> Change(acts[k], Append(Rel(id), names[k]))]
             a == All(id)
  <2>2. news = [k \in 1..Len(acts) |-> news[k]]
    BY <2>1
  <2> HIDE DEF news
  <2>3. IsSeq(news)
    BY <2>1, <2>2, SeqOver
  <2>4. IsSeq(a)
    BY <1>3, <2>3, SeqJoined DEF news
  <2>5. New(id) = IF ReadsOn(x, id) # {} THEN <<>>
                  ELSE IF Len(a) > MaxChanges THEN SubSeq(a, 1, MaxChanges + 1) ELSE a
    OBVIOUS
  <2> HIDE DEF a, New
  <2>6. Len(a) > MaxChanges => IsSeq(SubSeq(a, 1, MaxChanges + 1))
    <3>1. MaxChanges \in Nat /\ Len(a) \in Nat
      BY <2>4, PortAssumption, LenProperties DEF IsSeq
    <3>2. MaxChanges + 1 \in Nat /\ (Len(a) > MaxChanges => Len(a) >= MaxChanges + 1)
      BY <3>1
    <3> QED BY <2>4, <3>2, FrontIsSeq
  <2>7. IsSeq(New(id))
    BY <2>4, <2>5, <2>6, Tuples
  <2> QED BY <2>4, <2>7 DEF a
<1>4. /\ DOMAIN handle = DOMAIN x.handle
      /\ \A id \in DOMAIN x.handle : handle[id] = x.handle[id] \/ handle[id] = [x.handle[id] EXCEPT !.kept = New(id)]
  OBVIOUS
<1>5. \A op \in ended : packets[op] = Packet(op, "more data", <<>>) \/ packets[op] = Packet(op, "none", All(op.id))
  OBVIOUS
<1> HIDE DEF handle, lost, packets, ended, New, All, y
<1>6. /\ x1.watch = x.watch /\ x1.watches = x.watches /\ x1.handle = handle /\ x1.reading = x.reading
      /\ x1.queue = x.queue
  BY DEF Good, Tables, IsIo
<1>7. SameReads(x, x1)
  BY <1>4 DEF Good, Tables, IsIo, SameReads
<1> HIDE DEF x1
<1>8. Good(x1, {})
  BY <1>7, SameReadsGood
<1>9. /\ y.watch = x.watch /\ y.watches = x.watches /\ y.handle = handle /\ y.reading \subseteq x.reading
      /\ \A p \in Range(y.queue) : p \in Range(x.queue) \/ \E op \in ended : p = packets[op]
  BY <1>1, <1>2, <1>6, <1>8, EndReadsAre
<1>10. ASSUME NEW op \in ended
       PROVE  packets[op].err # "denied" /\ (Matched(x) => IsSeq(packets[op].recs))
  <2>1. op.id \in DOMAIN x.handle
    BY <1>2 DEF Good, Reads, Valid
  <2>2. Matched(x) => IsSeq(All(op.id))
    BY <1>3, <2>1 DEF Matched
  <2> DEFINE a == All(op.id)
  <2>3. packets[op] = Packet(op, "more data", <<>>) \/ packets[op] = Packet(op, "none", a)
    BY <1>5
  <2> HIDE DEF a
  <2>4. packets[op].err # "denied" /\ (packets[op].recs = <<>> \/ packets[op].recs = a)
    BY <2>3, TellsNone
  <2> QED BY <2>2, <2>4, Tuples DEF a
<1>11. Denying(y) \subseteq Denying(x)
  BY <1>9, <1>10 DEF Denying
<1>12. Matched(x) => Matched(y)
  <2> SUFFICES ASSUME Matched(x) PROVE Matched(y)
    OBVIOUS
  <2>1. ASSUME NEW id \in DOMAIN y.handle
        PROVE  y.handle[id].obj = y.watch[id].obj /\ "kept" \in DOMAIN y.handle[id] /\ IsSeq(y.handle[id].kept)
    <3>1. id \in DOMAIN x.handle /\ IsSeq(New(id)) /\ IsSeq(x.handle[id].kept) /\ x.handle[id].obj = x.watch[id].obj
      BY <1>3, <1>4, <1>9, <2>1 DEF Matched
    <3> DEFINE h == x.handle[id]
               n == New(id)
    <3>2. (handle[id] = h \/ handle[id] = [h EXCEPT !.kept = n]) /\ "kept" \in DOMAIN h /\ IsSeq(n)
      BY <1>4, <3>1 DEF Matched
    <3> HIDE DEF h, n
    <3>3. /\ handle[id].obj = h.obj /\ (handle[id].kept = h.kept \/ handle[id].kept = n)
          /\ "kept" \in DOMAIN handle[id]
      BY <3>2, KeepsMore
    <3> QED BY <1>9, <3>1, <3>2, <3>3 DEF h
  <2>2. \A p \in Range(y.queue) : IsSeq(p.recs)
    BY <1>9, <1>10 DEF Matched
  <2> QED BY <2>1, <2>2 DEF Matched
<1>13. InTable(y) = InTable(x) /\ Lost(x) \subseteq Lost(y) /\ \A strict \in BOOLEAN : Heard(x, strict) \subseteq Heard(y, strict)
  BY <1>9 DEF InTable, Lost, Heard
<1>14. Alters(x, y, {})
  BY <1>9, <1>11, <1>12, <1>13 DEF Alters, Follows
<1> QED BY <1>9, <1>14 DEF y

(* The reads of a directory that is gone are denied, and no others. *)
LEMMA VanishFollows ==
  ASSUME NEW x, NEW o, Good(x, {})
  PROVE  LET y == Vanish(x, o)
         IN  /\ Follows(x, y, {}) /\ DOMAIN y.watch = DOMAIN x.watch
             /\ \A id \in Denying(y) : id \in Denying(x) \/ (id \in DOMAIN x.handle /\ x.handle[id].obj = o)
<1> DEFINE dead == {op \in x.reading : x.handle[op.id].obj = o}
           packets == [op \in dead |-> Packet(op, "denied", <<>>)]
           y == Vanish(x, o)
<1>1. y = EndReads(x, packets)
  BY DEF Vanish
<1>2. DOMAIN packets \subseteq x.reading /\ \A op \in DOMAIN packets : packets[op].op = op /\ packets[op].recs = <<>>
  BY DEF Packet
<1>3. \A op \in DOMAIN packets : op.id \in DOMAIN x.handle /\ x.handle[op.id].obj = o
  BY DEF Good, Reads, Valid
<1> HIDE DEF packets, y
<1>4. /\ y.watch = x.watch /\ y.watches = x.watches /\ y.handle = x.handle /\ y.reading \subseteq x.reading
      /\ \A p \in Range(y.queue) : p \in Range(x.queue) \/ \E op \in DOMAIN packets : p = packets[op]
  BY <1>1, <1>2, EndReadsAre
<1>5. \A id \in Denying(y) : id \in Denying(x) \/ (id \in DOMAIN x.handle /\ x.handle[id].obj = o)
  BY <1>2, <1>3, <1>4 DEF Denying
<1>6. Matched(x) => Matched(y)
  BY <1>2, <1>4, Tuples DEF Matched
<1>7. InTable(y) = InTable(x) /\ Lost(x) \subseteq Lost(y) /\ \A strict \in BOOLEAN : Heard(x, strict) \subseteq Heard(y, strict)
  BY <1>4 DEF InTable, Lost, Heard
<1>8. Follows(x, y, {})
  BY <1>4, <1>6, <1>7 DEF Follows
<1> QED BY <1>4, <1>5, <1>8 DEF y

-----------------------------------------------------------------------------
(* The inductive invariant of listening.                                   *)
-----------------------------------------------------------------------------
(* The numbers of objects are given once, and who is denied is gone. *)
Tracked(x) ==
  /\ Matched(x)
  /\ \A id \in DOMAIN x.watch : x.watch[id].obj.no \in Nat /\ x.watch[id].obj.no <= LastNo
  /\ \A id \in Denying(x) : id \in DOMAIN x.watch /\ x.watch[id].obj \notin Objects

(* A watch of the table listens, or a piece that is still to do sees to it *)
(* that it does.                                                           *)
ListenInv(strict) ==
  /\ IsTree /\ \A p \in DOMAIN fs : Len(p) = 1 => fs[p].dir
  /\ ~closed =>
       /\ Tracked(io) /\ Sound(todo, req, {}, Lost(io))
       /\ InTable(io) \subseteq Given(todo) \cup Heard(io, strict)

LEMMA TrackedKept ==
  ASSUME NEW x, NEW y, NEW ids, IsTree, Tracked(x), Alters(x, y, ids)
  PROVE  Tracked(y)
<1>1. Matched(y)
  BY DEF Tracked, Alters, Follows
<1>2. \A o \in Objects : o.no \in Nat /\ o.no <= LastNo
  BY DEF IsTree, Objects
<1>3. \A id \in DOMAIN y.watch : \/ id \in DOMAIN x.watch /\ y.watch[id].obj = x.watch[id].obj
                                 \/ y.watch[id].obj \in Objects
  BY DEF Alters, Follows
<1>4. \A id \in DOMAIN y.watch : y.watch[id].obj.no \in Nat /\ y.watch[id].obj.no <= LastNo
  BY <1>2, <1>3 DEF Tracked
<1>5. \A id \in Denying(y) : id \in DOMAIN y.watch /\ y.watch[id].obj \notin Objects
  BY DEF Tracked, Alters, Follows
<1> QED BY <1>1, <1>4, <1>5 DEF Tracked

(* What other processes do is heard, or denies the watches of what is      *)
(* gone.                                                                   *)
LEMMA TreeFollows ==
  ASSUME Good(io, {}), IsTree, Matched(io), TreeChanges
  PROVE  /\ Follows(io, io', {}) /\ DOMAIN io'.watch = DOMAIN io.watch
         /\ \A id \in Denying(io') :
              id \in Denying(io) \/ (id \in DOMAIN io.watch /\ io.watch[id].obj \notin Objects')
<1> DEFINE Fine(y) == Good(y, {}) /\ Alters(io, y, {}) /\ DOMAIN y.watch = DOMAIN io.watch
<1>1. ASSUME NEW y, Fine(y), NEW d, NEW acts, NEW names, IsSeq(acts)
      PROVE  Fine(Tell(y, d, acts, names))
  <2> DEFINE z == Tell(y, d, acts, names)
  <2>1. Good(z, {}) /\ Alters(y, z, {}) /\ DOMAIN z.watch = DOMAIN y.watch
    BY <1>1, TellGood, TellAlters
  <2> HIDE DEF z
  <2>2. Alters(io, z, {} \cup {})
    BY <1>1, <2>1, AltersTwice
  <2>3. {} \cup {} = {}
    OBVIOUS
  <2>4. Fine(z)
    BY <1>1, <2>1, <2>2, <2>3
  <2> QED BY <2>4 DEF z
<1>2. Fine(io)
  BY AltersNot
<1>3. IsSeq(<<"added">>) /\ IsSeq(<<"removed">>) /\ IsSeq(<<"old name", "new name">>)
  BY Tuples
<1>4. ASSUME Fine(io')
      PROVE  /\ Follows(io, io', {}) /\ DOMAIN io'.watch = DOMAIN io.watch
             /\ Denying(io') \subseteq Denying(io)
  BY <1>4 DEF Alters
<1>5. ASSUME NEW p, io' = MakeHeard(io, p) PROVE Fine(io')
  BY <1>1, <1>2, <1>3, <1>5 DEF MakeHeard
<1>6. ASSUME NEW p, NEW q, io' = MoveHeard(io, p, q) PROVE Fine(io')
  <2>1. Fine(Tell(io, Dir(p), <<"old name", "new name">>, <<Last(p), Last(q)>>))
    BY <1>1, <1>2, <1>3
  <2>2. Fine(Tell(io, Dir(p), <<"removed">>, <<Last(p)>>))
    BY <1>1, <1>2, <1>3
  <2>3. Fine(Tell(Tell(io, Dir(p), <<"removed">>, <<Last(p)>>), Dir(q), <<"added">>, <<Last(q)>>))
    BY <1>1, <1>3, <2>2
  <2> HIDE DEF Fine
  <2> QED BY <1>6, <2>1, <2>3 DEF MoveHeard
<1>7. ASSUME NEW p, Unlink(p), io' = UnlinkHeard(io, p)
      PROVE  /\ Follows(io, io', {}) /\ DOMAIN io'.watch = DOMAIN io.watch
             /\ \A id \in Denying(io') :
                  id \in Denying(io) \/ (id \in DOMAIN io.watch /\ io.watch[id].obj \notin Objects')
  <2> DEFINE y == Tell(io, Dir(p), <<"removed">>, <<Last(p)>>)
  <2>1. Fine(y)
    BY <1>1, <1>2, <1>3
  <2>2. io' = Vanish(y, fs[p]) /\ fs[p] \notin Objects'
    BY <1>7, UnlinkTree DEF UnlinkHeard
  <2> HIDE DEF y
  <2>3. /\ Follows(y, io', {}) /\ DOMAIN io'.watch = DOMAIN y.watch
        /\ \A id \in Denying(io') : id \in Denying(y) \/ (id \in DOMAIN y.handle /\ y.handle[id].obj = fs[p])
    BY <2>1, <2>2, VanishFollows
  <2>4. Matched(y) /\ DOMAIN y.handle \subseteq DOMAIN y.watch
    BY <2>1 DEF Alters, Follows, Good, Tables, InTable, Range
  <2>5. \A id \in DOMAIN y.handle : id \in DOMAIN io.watch /\ y.handle[id].obj = io.watch[id].obj
    BY <2>1, <2>4 DEF Matched, Alters, Follows
  <2>6. \A id \in Denying(io') : id \in Denying(io) \/ (id \in DOMAIN io.watch /\ io.watch[id].obj \notin Objects')
    BY <2>1, <2>2, <2>3, <2>5 DEF Alters
  <2>7. Follows(io, io', {})
    BY <2>1, <2>3 DEF Alters, Follows
  <2> QED BY <2>1, <2>3, <2>6, <2>7
<1> HIDE DEF Fine
<1> QED BY <1>4, <1>5, <1>6, <1>7 DEF TreeChanges

LEMMA TreeChangesTree ==
  ASSUME IsTree, TreeChanges
  PROVE  IsTree' /\ Renewed /\ VolumesStay
<1>1. ASSUME NEW p \in Path, NEW isDir \in BOOLEAN, Make(p, isDir) PROVE IsTree' /\ Renewed /\ VolumesStay
  BY <1>1, MakeTree
<1>2. ASSUME NEW p, Unlink(p) PROVE IsTree' /\ Renewed /\ VolumesStay
  BY <1>2, UnlinkTree
<1>3. ASSUME NEW p, NEW q \in Path, Move(p, q) PROVE IsTree' /\ Renewed /\ VolumesStay
  BY <1>3, MoveTree
<1> QED BY <1>1, <1>2, <1>3 DEF TreeChanges

LEMMA TreeListens ==
  ASSUME NEW strict \in BOOLEAN, Good(io, {}), ListenInv(strict), TreeChanges
  PROVE  ListenInv(strict)'
<1>1. IsTree /\ IsTree' /\ Renewed /\ VolumesStay
  BY TreeChangesTree DEF ListenInv
<1>2. \A p \in DOMAIN fs' : Len(p) = 1 => fs'[p].dir
  BY <1>1 DEF ListenInv, VolumesStay
<1>3. UNCHANGED <<todo, req, closed>>
  BY DEF TreeChanges, OthersOnly, loopVars, closeVars
<1>4. ASSUME ~closed
      PROVE  /\ Tracked(io)' /\ Sound(todo, req, {}, Lost(io))'
             /\ InTable(io') \subseteq Given(todo') \cup Heard(io', strict)
  <2>1. /\ Tracked(io) /\ Sound(todo, req, {}, Lost(io))
        /\ InTable(io) \subseteq Given(todo) \cup Heard(io, strict)
    BY <1>4 DEF ListenInv
  <2>2. /\ Follows(io, io', {}) /\ DOMAIN io'.watch = DOMAIN io.watch
        /\ \A id \in Denying(io') :
             id \in Denying(io) \/ (id \in DOMAIN io.watch /\ io.watch[id].obj \notin Objects')
    BY <1>1, <2>1, TreeFollows DEF Tracked
  <2>3. \A id \in DOMAIN io.watch : io'.watch[id].obj = io.watch[id].obj
    BY <2>2 DEF Follows
  <2>4. ASSUME NEW o, o.no \in Nat, o.no <= LastNo, o \notin Objects
        PROVE  o \notin Objects'
    BY <1>1, <2>4 DEF Renewed, IsTree
  <2>5. \A id \in DOMAIN io.watch : io.watch[id].obj \notin Objects => io.watch[id].obj \notin Objects'
    BY <2>1, <2>4 DEF Tracked
  <2>6. \A id \in Denying(io') : id \in DOMAIN io'.watch /\ io'.watch[id].obj \notin Objects'
    BY <2>1, <2>2, <2>3, <2>5 DEF Tracked
  <2>7. \A id \in DOMAIN io'.watch : io'.watch[id].obj.no \in Nat /\ io'.watch[id].obj.no <= LastNo'
    <3>1. LastNo \in Nat /\ LastNo' = LastNo + 1
      BY <1>1 DEF Renewed, IsTree
    <3> QED BY <2>1, <2>2, <2>3, <3>1 DEF Tracked
  <2>8. Matched(io')
    BY <2>1, <2>2 DEF Tracked, Follows
  <2>9. Matched(io)' /\ Denying(io)' = Denying(io')
    BY <2>8 DEF Matched, Denying
  <2>10. Tracked(io)'
    BY <2>6, <2>7, <2>9 DEF Tracked
  <2>11. Lost(io) \subseteq Lost(io)'
    BY <2>2, <2>3, <2>5 DEF Follows, Lost
  <2>12. Sound(todo, req, {}, Lost(io)')
    BY <2>1, <2>11, SoundMore
  <2>13. Sound(todo, req, {}, Lost(io))'
    BY <1>3, <2>12 DEF Sound, IsSeq, Needs
  <2>14. InTable(io') \subseteq Given(todo') \cup Heard(io', strict)
    BY <1>3, <2>1, <2>2 DEF Follows
  <2> QED BY <2>10, <2>13, <2>14
<1>5. Heard(io, strict)' = Heard(io', strict) /\ InTable(io)' = InTable(io') /\ Given(todo)' = Given(todo')
  BY DEF Heard, InTable, Given
<1> QED BY <1>1, <1>2, <1>3, <1>4, <1>5 DEF ListenInv

-----------------------------------------------------------------------------
(* The pieces.                                                             *)
-----------------------------------------------------------------------------
LEMMA TreeSame ==
  ASSUME NEW strict, ListenInv(strict), UNCHANGED treeVars
  PROVE  /\ IsTree' /\ \A p \in DOMAIN fs' : Len(p) = 1 => fs'[p].dir
         /\ (closed' => ListenInv(strict)')
<1>1. fs' = fs /\ fsOps' = fsOps
  BY DEF treeVars
<1>2. IsTree' /\ \A p \in DOMAIN fs' : Len(p) = 1 => fs'[p].dir
  BY <1>1 DEF ListenInv, IsTree, LastNo
<1> QED BY <1>2 DEF ListenInv

(* Nobody else's tables, nor the tree, change in a piece. *)
LEMMA RestListens ==
  ASSUME NEW strict \in BOOLEAN, ListenInv(strict), ~closed, UNCHANGED treeVars, closed' = closed,
         NEW ids, Alters(io, io', ids), Sound(todo', req', {}, Lost(io')),
         Given(todo) \ ids \subseteq Given(todo'),
         ids \cap InTable(io') \subseteq Given(todo') \cup Heard(io', strict)
  PROVE  ListenInv(strict)'
<1>1. fs' = fs /\ fsOps' = fsOps
  BY DEF treeVars
<1>2. IsTree' /\ \A p \in DOMAIN fs' : Len(p) = 1 => fs'[p].dir
  BY TreeSame
<1>3. Tracked(io')
  BY TrackedKept DEF ListenInv
<1>4. Tracked(io)'
  BY <1>1, <1>3 DEF Tracked, Matched, Denying, LastNo, Objects
<1>5. Lost(io)' = Lost(io')
  BY <1>1 DEF Lost, Objects
<1>6. Sound(todo', req', {}, Lost(io)')
  BY <1>5
<1>7. Sound(todo, req, {}, Lost(io))'
  BY <1>6 DEF Sound, IsSeq, Needs
<1>8. InTable(io') \subseteq Given(todo') \cup Heard(io', strict)
  BY DEF ListenInv, Alters, Follows
<1>9. Heard(io, strict)' = Heard(io', strict) /\ InTable(io)' = InTable(io') /\ Given(todo)' = Given(todo')
  BY DEF Heard, InTable, Given
<1> QED BY <1>2, <1>4, <1>7, <1>8, <1>9 DEF ListenInv

LEMMA PieceListens ==
  ASSUME NEW strict \in BOOLEAN, ListenInv(strict), ~closed, TablesOnly, todo # <<>>,
         NEW ids, Alters(io, io', ids),
         NEW pieces, Then(pieces), Open(pieces), Sound(pieces, req, Given(Tail(todo)), Lost(io')),
         Head(todo).do \in {"read", "bury"} => Head(todo).id \in ids,
         ids \cap InTable(io') \subseteq Given(pieces) \cup Given(Tail(todo)) \cup Heard(io', strict)
  PROVE  ListenInv(strict)'
<1> DEFINE u == Head(todo)
           t == Tail(todo)
<1>1. /\ Sound(t, req, {}, Lost(io)) /\ Given(todo) \subseteq Given(t) \cup {id \in {u.id} : u.do \in {"read", "bury"}}
  BY SoundTail DEF ListenInv
<1>2. UNCHANGED treeVars /\ closed' = closed /\ req' = req /\ todo' = pieces \o t
  BY DEF TablesOnly, PieceOnly, IoOnly, closeVars, Then
<1> HIDE DEF t, u
<1>3. Sound(t, req, {}, Lost(io'))
  BY <1>1, SoundMore DEF Alters, Follows
<1>4. {} \cup Given(t) = Given(t)
  OBVIOUS
<1>5. Sound(pieces, req, {} \cup Given(t), Lost(io'))
  BY <1>4 DEF t
<1>6. Sound(todo', req', {}, Lost(io'))
  BY <1>2, <1>3, <1>5, SoundJoined
<1>7. Given(todo') = Given(pieces) \cup Given(t)
  BY <1>2, <1>3, <1>5, GivenJoined DEF Sound
<1>8. Given(todo) \ ids \subseteq Given(todo')
  BY <1>1, <1>7 DEF u
<1>9. ids \cap InTable(io') \subseteq Given(todo') \cup Heard(io', strict)
  BY <1>7 DEF t
<1> QED BY <1>2, <1>6, <1>8, <1>9, RestListens

(* A piece that only leaves mild ones. *)
LEMMA MildListens ==
  ASSUME NEW strict \in BOOLEAN, ListenInv(strict), ~closed, TablesOnly, todo # <<>>,
         NEW ids, Alters(io, io', ids), NEW pieces, Then(pieces), NEW due, Mild(pieces, due),
         due \subseteq Given(Tail(todo)),
         Head(todo).do \in {"read", "bury"} => Head(todo).id \in ids,
         ids \cap InTable(io') \subseteq Given(pieces) \cup Given(Tail(todo)) \cup Heard(io', strict)
  PROVE  ListenInv(strict)'
<1>1. Sound(pieces, req, due, Lost(io')) /\ Open(pieces)
  BY MildSound
<1>2. Sound(pieces, req, Given(Tail(todo)), Lost(io'))
  BY <1>1, SoundMore
<1> QED BY <1>1, <1>2, PieceListens

(* The last piece of a request. *)
LEMMA LastListens ==
  ASSUME NEW strict \in BOOLEAN, ListenInv(strict), ~closed, PieceOnly, todo # <<>>, Head(todo).do \in Closers,
         NEW ids, Alters(io, io', ids), Sound(todo', req', {}, Lost(io')),
         ids \cap InTable(io') \subseteq Given(todo') \cup Heard(io', strict)
  PROVE  ListenInv(strict)'
<1>1. Given(Tail(todo)) = {} /\ Given(todo) \subseteq Given(Tail(todo))
  <2>1. /\ Tail(todo) = <<>>
        /\ Given(todo) \subseteq Given(Tail(todo)) \cup {id \in {Head(todo).id} : Head(todo).do \in {"read", "bury"}}
    BY SoundTail DEF ListenInv
  <2>2. Head(todo).do \notin {"read", "bury"}
    BY DEF Closers
  <2>3. Given(<<>>) = {}
    BY Ranges DEF Given
  <2> QED BY <2>1, <2>2, <2>3
<1>2. UNCHANGED treeVars /\ closed' = closed
  BY DEF PieceOnly, IoOnly, closeVars
<1> QED BY <1>1, <1>2, RestListens

LEMMA FinishListens ==
  ASSUME NEW strict \in BOOLEAN, ListenInv(strict), ~closed, PieceOnly, todo # <<>>, Head(todo).do \in Closers,
         NEW r, Finish(r), Alters(io, io', {})
  PROVE  ListenInv(strict)'
<1>1. todo' = <<>>
  BY DEF Finish
<1>2. Mild(<<>>, {})
  BY MildPieces
<1>3. Sound(<<>>, req', {}, Lost(io'))
  BY <1>2, MildSound
<1>4. Sound(todo', req', {}, Lost(io'))
  BY <1>1, <1>3
<1> QED BY <1>4, LastListens

LEMMA DoSendListens ==
  ASSUME NEW strict \in BOOLEAN, ListenInv(strict), Good(io, {}), ~closed, DoSend \/ DoReport
  PROVE  ListenInv(strict)'
<1>1. /\ todo # <<>> /\ TablesOnly /\ UNCHANGED io /\ Head(todo).do \notin {"read", "bury"}
      /\ \E pieces : Then(pieces) /\ pieces \in {<<>>, If(io.err # "nil", <<Send>>)}
  BY DEF DoSend, DoReport, Doing
<1>2. PICK pieces : Then(pieces) /\ pieces \in {<<>>, If(io.err # "nil", <<Send>>)}
  BY <1>1
<1>3. Mild(pieces, {})
  BY <1>2, MildPieces, MildIf
<1>4. Alters(io, io', {})
  BY <1>1, AltersNot
<1> QED BY <1>1, <1>2, <1>3, <1>4, MildListens

(* startRead, or the directory of the watch is gone. *)
LEMMA DoReadListens ==
  ASSUME NEW strict \in BOOLEAN, ListenInv(strict), Good(io, {}), ~closed, DoRead
  PROVE  ListenInv(strict)'
<1> DEFINE id == Head(todo).id
<1>1. todo # <<>> /\ TablesOnly /\ Head(todo).do = "read" /\ closed = FALSE
  BY DEF DoRead, Doing
<1>2. CASE Denied(io, id, closed)
  <2> DEFINE a == Unroots(io.watch[id].path, id)
             b == <<Bury(id, TRUE)>>
  <2>1. Then(a \o b) /\ UNCHANGED io
    BY <1>2 DEF DoRead
  <2>2. Mild(a, {id})
    BY MildUnroots
  <2>3. Bury(id, TRUE).do = "bury" /\ Bury(id, TRUE).id = id
    BY DEF Bury
  <2>4. Bury(id, TRUE).do \notin Closers /\ Needs(Bury(id, TRUE), req) = {}
    BY <2>3 DEF Closers, Needs
  <2>5. id \in Lost(io')
    <3>1. Valid(io, id) /\ io.watch[id].obj \notin Objects /\ io.watch[id].active = NoRead
      BY <1>2 DEF Denied, Exists
    <3>2. id \in DOMAIN io.watch /\ NoRead \notin io.reading
      BY <3>1 DEF Good, Tables, Reads, Valid, InTable, Range
    <3> QED BY <2>1, <3>1, <3>2 DEF Lost
  <2>6. Sound(b, req, {}, Lost(io')) /\ Range(b) = {Bury(id, TRUE)}
    BY <2>3, <2>4, <2>5, SoundOne
  <2> HIDE DEF a, b
  <2>7. Open(b) /\ Given(b) = {id} /\ IsSeq(b)
    <3> HIDE DEF id
    <3>1. {v \in Range(b) : v.do \in {"read", "bury"}} = {Bury(id, TRUE)}
      BY <2>3, <2>6
    <3>2. Given(b) = {id}
      BY <2>3, <3>1 DEF Given
    <3>3. Open(b) /\ IsSeq(b)
      BY <2>4, <2>6 DEF Open, Sound
    <3> QED BY <3>2, <3>3
  <2>8. Sound(a, req, {} \cup Given(b), Lost(io')) /\ Open(a) /\ IsSeq(a)
    BY <2>2, <2>7, MildSound
  <2>9. Sound(a \o b, req, {}, Lost(io')) /\ Open(a \o b) /\ id \in Given(a \o b)
    BY <2>6, <2>7, <2>8, SoundJoined, OpenJoined, GivenJoined
  <2>10. Sound(a \o b, req, Given(Tail(todo)), Lost(io'))
    BY <2>9, SoundMore
  <2>11. Alters(io, io', {id})
    BY <2>1, AltersNot
  <2> QED BY <1>1, <2>1, <2>9, <2>10, <2>11, PieceListens
<1>3. CASE ~Denied(io, id, closed)
  <2>1. Then(<<>>) /\ io' = startRead(io, id, FALSE) /\ ~Denied(io, id, FALSE)
    BY <1>1, <1>3 DEF DoRead
  <2>2. LET y == startRead(io, id, FALSE)
        IN  Alters(io, y, {id}) /\ (id \in InTable(y) => \A s \in BOOLEAN : id \in Heard(y, s))
    BY <2>1, StartReadAlters
  <2>3. Alters(io, io', {id}) /\ (id \in InTable(io') => id \in Heard(io', strict))
    BY <2>1, <2>2
  <2>4. Mild(<<>>, {})
    BY MildPieces
  <2>5. {id} \cap InTable(io') \subseteq Given(<<>>) \cup Given(Tail(todo)) \cup Heard(io', strict)
    BY <2>3
  <2> HIDE DEF id
  <2>6. {} \subseteq Given(Tail(todo)) /\ Head(todo).id \in {id}
    BY DEF id
  <2> QED BY <1>1, <2>1, <2>3, <2>4, <2>5, <2>6, MildListens
<1> QED BY <1>2, <1>3

(* The watch of what is gone leaves the table, or the packet that ended    *)
(* its read is still to be taken.                                          *)
LEMMA DoBuryListens ==
  ASSUME NEW strict \in BOOLEAN, ListenInv(strict), Good(io, {}), ~closed, DoBury
  PROVE  ListenInv(strict)'
<1> DEFINE id == Head(todo).id
           x1 == clearWatch(io, id)
           x2 == closeWatch(x1, id)
           x3 == [x2 EXCEPT !.err = "error"]
<1>1. todo # <<>> /\ TablesOnly /\ Head(todo).do = "bury"
  BY DEF DoBury, Doing
<1>2. id \in Lost(io)
  BY <1>1, SoundTail DEF ListenInv
<1>3. io' = x2 \/ io' = x3
  BY DEF DoBury
<1>4. \E c : Then(If(c, <<Send>>))
  BY DEF DoBury
<1>5. PICK pieces : Then(pieces) /\ Mild(pieces, {})
  BY <1>4, MildPieces, MildIf
<1>6. /\ Good(x1, {}) /\ Alters(io, x1, {id}) /\ x1.reading = io.reading /\ id \in DOMAIN x1.watch
      /\ x1.watch[id].active = io.watch[id].active
  BY <1>2, ClearWatchGood, ClearAlters DEF Lost
<1> HIDE DEF x1
<1>7. Good(x2, {}) /\ Alters(x1, x2, {}) /\ (x1.watch[id].active = NoRead => id \notin InTable(x2))
  BY <1>6, CloseWatchGood, CloseAlters
<1> HIDE DEF x2
<1>8. Alters(x2, x3, {})
  BY <1>7, ErrAlters
<1> HIDE DEF x3
<1>9. Alters(x1, io', {} \cup {}) /\ (x1.watch[id].active = NoRead => id \notin InTable(io'))
  <2>1. Alters(x1, x3, {} \cup {})
    BY <1>7, <1>8, AltersTwice
  <2>2. Alters(x1, x2, {} \cup {})
    BY <1>7, AltersMore
  <2>3. InTable(x3) \subseteq InTable(x2)
    BY <1>8 DEF Alters, Follows
  <2> QED BY <1>3, <1>7, <2>1, <2>2, <2>3
<1>10. Alters(io, io', {id} \cup ({} \cup {}))
  BY <1>6, <1>9, AltersTwice
<1>11. {id} \cup ({} \cup {}) = {id}
  OBVIOUS
<1>12. x1.watch[id].active # NoRead => id \in Heard(x1, strict)
  BY <1>2, <1>6 DEF Heard, Lost
<1>13. id \in InTable(io') => id \in Heard(io', strict)
  BY <1>9, <1>12 DEF Alters, Follows
<1> QED BY <1>1, <1>5, <1>10, <1>11, <1>13, MildListens

(* A watch stays wanted when a name keeps what it is wanted for. *)
LEMMA SetNameWanted ==
  ASSUME NEW w, IsWatch(w), NEW name, NEW mask, NameMask(w, name) \cap {"user", "monitor"} \subseteq mask, Wanted(w)
  PROVE  Wanted(SetName(w, name, mask))
<1> DEFINE v == SetName(w, name, mask)
<1>1. v.mask = w.mask /\ v.names = IF mask = {} THEN Restrict(w.names, DOMAIN w.names \ {name}) ELSE Assign(w.names, name, mask)
  BY DEF IsWatch, SetName
<1> HIDE DEF v
<1>2. CASE "user" \in w.mask
  BY <1>1, <1>2 DEF Wanted, v
<1>3. ASSUME NEW n \in DOMAIN w.names, w.names[n] \cap {"user", "monitor"} # {}
      PROVE  Wanted(v)
  <2>1. CASE n = name
    <3>1. mask \cap {"user", "monitor"} # {} /\ mask # {}
      BY <1>3, <2>1 DEF NameMask
    <3>2. name \in DOMAIN v.names /\ v.names[name] = mask
      BY <1>1, <3>1 DEF Assign
    <3> QED BY <3>1, <3>2 DEF Wanted
  <2>2. CASE n # name
    <3>1. n \in DOMAIN v.names /\ v.names[n] = w.names[n]
      BY <1>1, <1>3, <2>2 DEF Assign, Restrict
    <3> QED BY <1>3, <3>1 DEF Wanted
  <2> QED BY <2>1, <2>2
<1> QED BY <1>2, <1>3 DEF Wanted, v

LEMMA InTableIs ==
  ASSUME NEW x, NEW held, Good(x, held)
  PROVE  InTable(x) \subseteq DOMAIN x.watch /\ 0 \notin InTable(x)
<1>1. InTable(x) \subseteq DOMAIN x.watch
  BY DEF Good, Tables, InTable, Range
<1>2. 0 \notin DOMAIN x.watch
  BY DEF Good, Tables
<1> QED BY <1>1, <1>2

(* The watches that follow a rename are wanted for what they were. *)
LEMMA RenamedAlters ==
  ASSUME NEW x, NEW held, NEW id, NEW name, Good(x, held)
  PROVE  Alters(x, Renamed(x, id, name), {id})
<1> DEFINE w    == x.watch[id]
           old  == w.path \o w.rename
           new  == w.path \o name
           ids  == {x.watches[o] : o \in DOMAIN x.watches}
           x1   == [x EXCEPT !.watch = [k \in DOMAIN @ |->
                      IF k \in ids /\ Under(@[k].path, old)
                      THEN [x.watch[k] EXCEPT !.path = Rebased(@, old, new)] ELSE @[k]]]
           w1   == x1.watch[id]
           mask == NameMask(w1, w.rename)
           w2   == IF mask = {} THEN w1
                   ELSE SetName(SetName(w1, name, NameMask(w1, name) \cup mask), w.rename, {})
<1>1. Renamed(x, id, name) = [x1 EXCEPT !.watch[id] = w2]
  BY DEF Renamed
<1>2. /\ IsIo(x1) /\ DOMAIN x1.watch = DOMAIN x.watch /\ x1.watches = x.watches /\ x1.roots = x.roots
      /\ x1.pending = x.pending /\ x1.err = x.err /\ x1.handle = x.handle /\ x1.reading = x.reading
      /\ x1.queue = x.queue /\ x1.port = x.port
      /\ \A k \in DOMAIN x.watch : \/ x1.watch[k] = x.watch[k]
                                   \/ x1.watch[k] = [x.watch[k] EXCEPT !.path = Rebased(@, old, new)]
  BY DEF Good, Tables, IsIo
<1> HIDE DEF x1, old, new
<1>3. \A k \in DOMAIN x.watch : Alike(x.watch[k], x1.watch[k]) /\ (Wanted(x.watch[k]) => Wanted(x1.watch[k]))
  <2> SUFFICES ASSUME NEW k \in DOMAIN x.watch
               PROVE  Alike(x.watch[k], x1.watch[k]) /\ (Wanted(x.watch[k]) => Wanted(x1.watch[k]))
    OBVIOUS
  <2>1. \A v, path : IsWatch(v) => LET u == [v EXCEPT !.path = path] IN Alike(v, u) /\ (Wanted(v) => Wanted(u))
    BY DEF Alike, IsWatch, Wanted
  <2> DEFINE path == Rebased(x.watch[k].path, old, new)
             v == [x.watch[k] EXCEPT !.path = path]
  <2>2. IsWatch(x.watch[k]) /\ (x1.watch[k] = x.watch[k] \/ x1.watch[k] = v)
    BY <1>2 DEF Good, Tables
  <2>3. Alike(x.watch[k], v) /\ (Wanted(x.watch[k]) => Wanted(v))
    BY <2>1, <2>2
  <2>4. Alike(x.watch[k], x.watch[k])
    BY DEF Alike
  <2> HIDE DEF v
  <2> QED BY <2>2, <2>3, <2>4
<1>4. SameReads(x, x1)
  BY <1>2, <1>3 DEF Good, Tables, SameReads, Alike
<1>5. Good(x1, held)
  BY <1>4, SameReadsGood
<1>6. InTable(x1) = InTable(x) /\ \A k \in DOMAIN x.watch : IsWatch(x.watch[k])
  BY <1>2 DEF InTable, Good, Tables
<1>7. Alters(x, x1, {})
  BY <1>2, <1>3, <1>6, AltersIf DEF Alike
<1>8. Alike(x1.watch[id], w2)
  <2>1. \A v : Alike(v, v)
    BY DEF Alike
  <2> QED BY <2>1, SetNameAlike, AlikeTwice
<1> HIDE DEF w2
<1>9. Alters(x1, [x1 EXCEPT !.watch[id] = w2], {id})
  BY <1>5, <1>8, WatchAlters
<1>10. Alters(x, [x1 EXCEPT !.watch[id] = w2], {} \cup {id})
  BY <1>7, <1>9, AltersTwice
<1>11. {} \cup {id} = {id}
  OBVIOUS
<1> QED BY <1>1, <1>10, <1>11

LEMMA DoHandleListens ==
  ASSUME NEW strict \in BOOLEAN, ListenInv(strict), Good(io, {}), ~closed, DoHandle
  PROVE  ListenInv(strict)'
<1> DEFINE id   == Head(todo).id
           ch   == Head(todo).change
           root == recursiveRootPath(io, id, ch.name)
           c    == ch.act \in {"removed", "old name"} /\ root # <<>>
           a    == Unroots(root, id)
           b    == <<Forget(id, ch)>>
           w1   == [io.watch[id] EXCEPT !.rename = ch.name]
           x1   == [io EXCEPT !.watch[id] = w1]
           w2   == [x1.watch[id] EXCEPT !.rootRename = root # <<>>]
           x2   == [x1 EXCEPT !.watch[id] = w2]
<1>1. todo # <<>> /\ TablesOnly /\ Head(todo).do = "handle" /\ Then(If(c, a) \o b)
  BY DEF DoHandle, Doing
<1>2. \/ UNCHANGED io \/ io' = Renamed(io, id, ch.name)
      \/ io' = [io EXCEPT !.watch[id].rename = ch.name, !.watch[id].rootRename = root # <<>>]
  BY DEF DoHandle
<1>3. {id} \subseteq Given(Tail(todo))
  <2>1. Needs(Head(todo), req) \subseteq Given(Tail(todo))
    BY <1>1, SoundTail DEF ListenInv
  <2> QED BY <1>1, <2>1 DEF Needs
<1>4. Alters(io, io', {id})
  <2>1. CASE UNCHANGED io
    BY <2>1, AltersNot
  <2>2. CASE io' = Renamed(io, id, ch.name)
    BY <2>2, RenamedAlters
  <2>3. CASE io' = [io EXCEPT !.watch[id].rename = ch.name, !.watch[id].rootRename = root # <<>>]
    <3>1. io' = x2
      BY <2>3
    <3> HIDE DEF root
    <3>2. Good(x1, {}) /\ Alters(io, x1, {id})
      <4>1. Alike(io.watch[id], w1)
        BY DEF Alike, IsWatch
      <4> HIDE DEF w1
      <4> QED BY <4>1, WatchSet, WatchAlters
    <3> HIDE DEF x1
    <3>3. Alters(x1, x2, {id})
      <4>1. Alike(x1.watch[id], w2)
        BY DEF Alike, IsWatch
      <4> HIDE DEF w2
      <4> QED BY <3>2, <4>1, WatchAlters
    <3> HIDE DEF x2
    <3>4. Alters(io, x2, {id} \cup {id})
      BY <3>2, <3>3, AltersTwice
    <3>5. {id} \cup {id} = {id}
      OBVIOUS
    <3> QED BY <3>1, <3>4, <3>5
  <2> QED BY <1>2, <2>1, <2>2, <2>3
<1>5. Mild(If(c, a), {id}) /\ Mild(b, {id})
  <2>1. Mild(a, {id})
    BY MildUnroots
  <2>2. id \in {id}
    OBVIOUS
  <2>3. Mild(b, {id})
    <3> HIDE DEF id, ch
    <3>1. \A k, change : k \in {id} => Mild(<<Forget(k, change)>>, {id})
      BY MildPieces
    <3> QED BY <3>1
  <2> HIDE DEF a, b, c
  <2>4. Mild(If(c, a), {id})
    BY <2>1, MildIf
  <2> QED BY <2>3, <2>4
<1> DEFINE pieces == If(c, a) \o b
<1>6. Mild(pieces, {id})
  BY <1>5, MildJoined
<1> HIDE DEF pieces
<1>7. {id} \cap InTable(io') \subseteq Given(pieces) \cup Given(Tail(todo)) \cup Heard(io', strict)
  BY <1>3
<1> QED BY <1>1, <1>3, <1>4, <1>6, <1>7, MildListens DEF pieces

LEMMA DoForgetListens ==
  ASSUME NEW strict \in BOOLEAN, ListenInv(strict), Good(io, {}), ~closed, DoForget
  PROVE  ListenInv(strict)'
<1> DEFINE id == Head(todo).id
           ch == Head(todo).change
           w  == io.watch[id]
           v  == CASE ch.act = "removed" -> SetName(w, ch.name, {})
                   [] ch.act = "new name" -> [w EXCEPT !.rename = <<>>, !.rootRename = FALSE]
                   [] OTHER -> w
<1>1. todo # <<>> /\ TablesOnly /\ Head(todo).do = "forget" /\ \E c : Then(If(c, <<Send>>))
  BY DEF DoForget, Doing
<1>2. io' = [io EXCEPT !.watch[id] = v]
  BY DEF DoForget
<1>3. Alike(w, v)
  <2>1. v \in {SetName(w, ch.name, {}), [w EXCEPT !.rename = <<>>, !.rootRename = FALSE], w}
    OBVIOUS
  <2> HIDE DEF v
  <2>2. Alike(w, [w EXCEPT !.rename = <<>>, !.rootRename = FALSE]) /\ Alike(w, w)
    BY DEF Alike, IsWatch
  <2> QED BY <2>1, <2>2, SetNameAlike
<1> HIDE DEF v
<1>4. Alters(io, [io EXCEPT !.watch[id] = v], {id})
  BY <1>3, WatchAlters
<1>5. {id} \subseteq Given(Tail(todo))
  <2>1. Needs(Head(todo), req) \subseteq Given(Tail(todo))
    BY <1>1, SoundTail DEF ListenInv
  <2> QED BY <1>1, <2>1 DEF Needs
<1>6. PICK pieces : Then(pieces) /\ Mild(pieces, {id})
  BY <1>1, MildPieces, MildIf
<1>7. {id} \cap InTable(io') \subseteq Given(pieces) \cup Given(Tail(todo)) \cup Heard(io', strict)
  BY <1>5
<1> QED BY <1>1, <1>2, <1>4, <1>5, <1>6, <1>7, MildListens

LEMMA DoDropListens ==
  ASSUME NEW strict \in BOOLEAN, ListenInv(strict), Good(io, {}), ~closed, DoDrop
  PROVE  ListenInv(strict)'
<1> DEFINE id == req.id
           w == io.watch[req.id]
           v == IF req.name = <<>> THEN [w EXCEPT !.mask = {}] ELSE SetName(w, req.name, {})
<1>1. todo # <<>> /\ TablesOnly /\ Head(todo).do = "drop" /\ Then(<<>>)
  BY DEF DoDrop, Doing
<1>2. io' = [io EXCEPT !.watch[id] = v]
  BY DEF DoDrop
<1>3. Alike(w, v)
  <2>1. Alike(w, [w EXCEPT !.mask = {}])
    BY DEF Alike, IsWatch
  <2> QED BY <2>1, SetNameAlike
<1> HIDE DEF v
<1>4. Alters(io, [io EXCEPT !.watch[id] = v], {id})
  BY <1>3, WatchAlters
<1>5. {id} \subseteq Given(Tail(todo))
  <2>1. Needs(Head(todo), req) \subseteq Given(Tail(todo))
    BY <1>1, SoundTail DEF ListenInv
  <2> QED BY <1>1, <2>1 DEF Needs
<1>6. Mild(<<>>, {id})
  BY MildPieces
<1>7. {id} \cap InTable(io') \subseteq Given(<<>>) \cup Given(Tail(todo)) \cup Heard(io', strict)
  BY <1>5
<1> QED BY <1>1, <1>2, <1>4, <1>5, <1>6, <1>7, MildListens

(* No root is its own parent. *)
RootsApart == \A p \in DOMAIN io.roots : io.roots[p].root # io.roots[p].parent

(* removeRecursiveRoot reads both again, the root and its parent, but for  *)
(* the one the caller reads.                                               *)
LEMMA DoUnrootListens ==
  ASSUME NEW strict \in BOOLEAN, ListenInv(strict), strict => RootsApart, Good(io, {}), ~closed, DoUnroot
  PROVE  ListenInv(strict)'
<1> DEFINE h == Head(todo)
           t == Tail(todo)
           r == io.roots[h.path]
<1>1. todo # <<>> /\ TablesOnly /\ h.do = "unroot"
  BY DEF DoUnroot, Doing
<1>2. {h.processing} \ {0} \subseteq Given(t)
  <2>1. Needs(h, req) \subseteq Given(t)
    BY <1>1, SoundTail DEF ListenInv
  <2> QED BY <1>1, <2>1 DEF Needs
<1>3. Given(todo) \subseteq Given(t)
  <2>1. Given(todo) \subseteq Given(t) \cup {id \in {h.id} : h.do \in {"read", "bury"}}
    BY <1>1, SoundTail DEF ListenInv
  <2> QED BY <1>1, <2>1
<1>4. h.do \notin {"read", "bury"}
  BY <1>1
<1>5. CASE h.path \notin DOMAIN io.roots
  <2>1. Then(<<>>) /\ UNCHANGED io
    BY <1>5 DEF DoUnroot
  <2>2. Mild(<<>>, {}) /\ Alters(io, io', {})
    BY <2>1, MildPieces, AltersNot
  <2> QED BY <1>1, <2>1, <2>2, MildListens
<1>6. CASE h.path \in DOMAIN io.roots
  <2> DEFINE a == If(h.isEvent /\ "user" \in io.watch[r.root].mask, <<Send>>)
             b == If(h.isEvent /\ r.root # h.processing, ReadAndReport(r.root))
             c == If(r.parent \notin {h.processing, r.root}, ReadAndReport(r.parent))
             pieces == a \o b \o c
             ids == {r.parent} \cup IF h.isEvent THEN {r.root} ELSE {}
  <2>1. Then(pieces) /\ io' = WithoutRoot(io, h.path, h.isEvent)
    BY <1>6 DEF DoUnroot
  <2>2. Alters(io, io', ids) /\ SameActive(io, io') /\ Good(io', {})
    BY <2>1, WithoutRootAlters, WithoutRootGood
  <2>3. io'.watches = io.watches
    BY <2>1 DEF WithoutRoot, Good, Tables, IsIo
  <2>4. /\ Mild(a, {}) /\ Mild(b, {}) /\ Mild(c, {})
        /\ h.isEvent /\ r.root # h.processing => r.root \in Given(b)
        /\ r.parent \notin {h.processing, r.root} => r.parent \in Given(c)
    <3>1. /\ \A id : Mild(ReadAndReport(id), {}) /\ Given(ReadAndReport(id)) = {id}
          /\ Mild(<<Send>>, {})
      BY MildPieces
    <3>2. \A q, id : Mild(If(q, ReadAndReport(id)), {}) /\ (q => id \in Given(If(q, ReadAndReport(id))))
      BY <3>1, MildIf
    <3>3. Mild(a, {})
      BY <3>1, MildIf
    <3> QED BY <3>2, <3>3
  <2> HIDE DEF a, b, c
  <2>5. Mild(pieces, {}) /\ Given(pieces) = Given(a) \cup Given(b) \cup Given(c)
    <3> DEFINE d == a \o b
    <3>1. Mild(d, {}) /\ Given(d) = Given(a) \cup Given(b)
      BY <2>4, MildJoined
    <3> HIDE DEF d
    <3>2. Mild(d \o c, {}) /\ Given(d \o c) = Given(d) \cup Given(c)
      BY <2>4, <3>1, MildJoined
    <3> QED BY <3>1, <3>2 DEF d
  <2>6. ids \cap InTable(io') \subseteq Given(pieces) \cup Given(t) \cup Heard(io', strict)
    <3> SUFFICES ASSUME NEW id \in ids, id \in InTable(io')
                 PROVE  id \in Given(pieces) \cup Given(t) \cup Heard(io', strict)
      OBVIOUS
    <3>1. id # 0
      BY <2>2, InTableIs
    <3>2. CASE id = h.processing
      BY <1>2, <3>1, <3>2
    <3>3. CASE id # h.processing /\ h.isEvent /\ id = r.root
      BY <2>4, <2>5, <3>3
    <3>4. CASE id # h.processing /\ id = r.parent /\ r.parent # r.root
      BY <2>4, <2>5, <3>4
    <3>5. CASE ~h.isEvent /\ id = r.parent /\ r.parent = r.root
      <4>1. strict = FALSE
        BY <1>6, <3>5 DEF RootsApart
      <4>2. id \in Given(todo) \cup Heard(io, FALSE)
        BY <2>3, <4>1 DEF ListenInv, InTable
      <4>3. id \in Heard(io, FALSE) => id \in Heard(io', FALSE)
        BY <2>2 DEF Heard, SameActive
      <4> QED BY <1>3, <4>1, <4>2, <4>3
    <3> QED BY <3>2, <3>3, <3>4, <3>5
  <2> HIDE DEF pieces, ids
  <2> QED BY <1>1, <1>4, <2>1, <2>2, <2>5, <2>6, MildListens
<1> QED BY <1>5, <1>6

LEMMA SameListens ==
  ASSUME NEW strict \in BOOLEAN, ListenInv(strict), ~closed, PieceOnly, todo # <<>>, Head(todo).do \in Closers,
         UNCHANGED io, NEW r, Finish(r)
  PROVE  ListenInv(strict)'
<1>1. Alters(io, io', {})
  BY AltersNot
<1> QED BY <1>1, FinishListens

(* A request goes on with a read of what it has altered. *)
LEMMA GoesOn ==
  ASSUME NEW strict \in BOOLEAN, ListenInv(strict), ~closed, PieceOnly, todo # <<>>, Head(todo).do \in Closers,
         NEW id, NEW what \in Closers, Alters(io, io', {id}), todo' = <<Read(id), Piece(what)>>
  PROVE  ListenInv(strict)'
<1>1. Sound(todo', req', {}, Lost(io')) /\ Given(todo') = {id}
  BY LastPieces
<1>2. {id} \cap InTable(io') \subseteq Given(todo') \cup Heard(io', strict)
  BY <1>1
<1> QED BY <1>1, <1>2, LastListens

LEMMA DoAddedListens ==
  ASSUME NEW strict \in BOOLEAN, ListenInv(strict), Good(io, {}), ~closed, DoAdded
  PROVE  ListenInv(strict)'
<1> DEFINE w == io.watch[req.id]
           v == IF req.name = <<>> THEN [w EXCEPT !.mask = @ \ {"provisional"}]
                ELSE SetName(w, req.name, NameMask(w, req.name) \ {"provisional"})
<1>1. todo # <<>> /\ PieceOnly /\ Head(todo).do = "added" /\ "added" \in Closers
  BY DEF DoAdded, Doing, Closers
<1>2. CASE io.err # "nil"
  <2>1. UNCHANGED io /\ Finish("error")
    BY <1>2 DEF DoAdded
  <2> QED BY <1>1, <2>1, SameListens
<1>3. CASE io.err = "nil"
  <2>1. /\ io' = [io EXCEPT !.watch[req.id] = v]
        /\ todo' = <<Piece("monitor")>> \/ Finish("nil")
    BY <1>3 DEF DoAdded, Continue
  <2>2. Alike(w, v)
    <3>1. Alike(w, [w EXCEPT !.mask = @ \ {"provisional"}])
      BY DEF Alike, IsWatch
    <3> QED BY <3>1, SetNameAlike
  <2>3. IsWatch(w) => (Wanted(w) => Wanted(v))
    <3> SUFFICES ASSUME IsWatch(w), Wanted(w) PROVE Wanted(v)
      OBVIOUS
    <3>1. Wanted([w EXCEPT !.mask = @ \ {"provisional"}])
      BY DEF IsWatch, Wanted
    <3> DEFINE mask == NameMask(w, req.name) \ {"provisional"}
    <3>2. NameMask(w, req.name) \cap {"user", "monitor"} \subseteq mask
      OBVIOUS
    <3> HIDE DEF mask
    <3>3. Wanted(SetName(w, req.name, mask))
      BY <3>2, SetNameWanted
    <3> QED BY <3>1, <3>3 DEF mask
  <2> HIDE DEF v
  <2>4. Alters(io, [io EXCEPT !.watch[req.id] = v], {})
    BY <2>2, <2>3, WatchAlters
  <2>5. CASE Finish("nil")
    BY <1>1, <2>1, <2>4, <2>5, FinishListens
  <2>6. CASE todo' = <<Piece("monitor")>>
    <3>1. "monitor" \in Closers
      BY DEF Closers
    <3>2. Sound(<<Piece("monitor")>>, req', {}, Lost(io'))
      BY <3>1, LastPieces
    <3>3. Sound(todo', req', {}, Lost(io'))
      BY <2>6, <3>2
    <3> QED BY <1>1, <2>1, <2>4, <3>3, LastListens
  <2> QED BY <2>1, <2>5, <2>6
<1> QED BY <1>2, <1>3

LEMMA DoMonitorListens ==
  ASSUME NEW strict \in BOOLEAN, ListenInv(strict), Good(io, {}), ~closed, DoMonitor
  PROVE  ListenInv(strict)'
<1> DEFINE p == req.path
           o == fs[Dir(p)]
           x == Ensured(io, o, Dir(p), FALSE)
           parent == x.watches[o]
           w == x.watch[parent]
           mask == NameMask(w, <<Last(p)>>) \cup {"monitor"}
           v == SetName(w, <<Last(p)>>, mask)
<1>1. todo # <<>> /\ PieceOnly /\ Head(todo).do = "monitor"
  BY DEF DoMonitor, Doing
<1>2. {"monitor", "recheck", "undo"} \subseteq Closers
  BY DEF Closers
<1>3. CASE p \in DOMAIN io.roots \/ Len(p) = 1
  <2>1. UNCHANGED io /\ Finish("nil")
    BY <1>3 DEF DoMonitor
  <2> QED BY <1>1, <1>2, <2>1, SameListens
<1>4. CASE ~(p \in DOMAIN io.roots \/ Len(p) = 1) /\ Dir(p) \notin DOMAIN fs
  <2>1. UNCHANGED io /\ todo' = <<Piece("undo")>>
    BY <1>4 DEF DoMonitor, Continue
  <2>2. Sound(<<Piece("undo")>>, req', {}, Lost(io')) /\ Alters(io, io', {})
    BY <1>2, <2>1, LastPieces, AltersNot
  <2>3. Sound(todo', req', {}, Lost(io'))
    BY <2>1, <2>2
  <2> QED BY <1>1, <1>2, <2>2, <2>3, LastListens
<1>5. CASE ~(p \in DOMAIN io.roots \/ Len(p) = 1) /\ Dir(p) \in DOMAIN fs
  <2>1. io' = [x EXCEPT !.watch[parent] = v] /\ todo' = <<Read(parent), Piece("recheck")>>
    BY <1>5 DEF DoMonitor, Continue
  <2>2. o \in Objects
    BY <1>5 DEF Objects
  <2>3. Good(x, {}) /\ Alters(io, x, {parent})
    BY <2>2, EnsuredGood, EnsuredAlters
  <2>4. Alike(w, v)
    BY SetNameAlike
  <2> HIDE DEF x, v
  <2>5. Alters(x, [x EXCEPT !.watch[parent] = v], {parent})
    BY <2>3, <2>4, WatchAlters
  <2>6. Alters(io, [x EXCEPT !.watch[parent] = v], {parent} \cup {parent})
    BY <2>3, <2>5, AltersTwice
  <2>7. Alters(io, io', {parent})
    <3>1. {parent} \cup {parent} = {parent}
      OBVIOUS
    <3> QED BY <2>1, <2>6, <3>1
  <2> HIDE DEF parent
  <2> QED BY <1>1, <1>2, <2>1, <2>7, GoesOn
<1> QED BY <1>3, <1>4, <1>5

LEMMA DoRecheckListens ==
  ASSUME NEW strict \in BOOLEAN, ListenInv(strict), Good(io, {}), ~closed, DoRecheck
  PROVE  ListenInv(strict)'
<1> DEFINE name == <<Last(req.path)>>
           id == req.parent
           w == io.watch[id]
           v == SetName(w, name, NameMask(w, name) \ {"monitor"})
           roots == Assign(io.roots, req.path, [root |-> req.id, parent |-> req.parent, name |-> name])
<1>1. todo # <<>> /\ PieceOnly /\ Head(todo).do = "recheck"
  BY DEF DoRecheck, Doing
<1>2. {"recheck", "undo"} \subseteq Closers
  BY DEF Closers
<1>3. \/ io' = [io EXCEPT !.roots = roots] /\ Finish("nil")
      \/ io' = [io EXCEPT !.watch[id] = v] /\ todo' = <<Read(id), Piece("undo")>>
  BY DEF DoRecheck, Continue
<1> HIDE DEF roots
<1>4. Alters(io, [io EXCEPT !.roots = roots], {})
  BY RootsAlter
<1>5. Alike(w, v)
  BY SetNameAlike
<1> HIDE DEF v
<1>6. Alters(io, [io EXCEPT !.watch[id] = v], {id})
  BY <1>5, WatchAlters
<1>7. CASE io' = [io EXCEPT !.roots = roots] /\ Finish("nil")
  BY <1>1, <1>2, <1>4, <1>7, FinishListens
<1>8. CASE io' = [io EXCEPT !.watch[id] = v] /\ todo' = <<Read(id), Piece("undo")>>
  BY <1>1, <1>2, <1>6, <1>8, GoesOn
<1> QED BY <1>3, <1>7, <1>8

LEMMA DoUndoListens ==
  ASSUME NEW strict \in BOOLEAN, ListenInv(strict), Good(io, {}), ~closed, DoUndo
  PROVE  ListenInv(strict)'
<1> DEFINE id == req.id
           w1 == [io.watch[id] EXCEPT !.mask = req.oldMask]
           x1 == [io EXCEPT !.watch[id] = w1]
           w2 == [x1.watch[id] EXCEPT !.recurse = req.oldRecurse]
           x2 == [x1 EXCEPT !.watch[id] = w2]
<1>1. /\ todo # <<>> /\ PieceOnly /\ Head(todo).do = "undo" /\ {"undo", "failed"} \subseteq Closers
      /\ todo' = <<Read(id), Piece("failed")>>
  BY DEF DoUndo, Doing, Closers, Continue
<1>2. io' = x2
  BY DEF DoUndo
<1>3. Good(x1, {}) /\ Alters(io, x1, {id})
  <2>1. Alike(io.watch[id], w1)
    BY DEF Alike, IsWatch
  <2> HIDE DEF w1
  <2> QED BY <2>1, WatchSet, WatchAlters
<1> HIDE DEF x1
<1>4. Alters(x1, x2, {id})
  <2>1. Alike(x1.watch[id], w2)
    BY DEF Alike, IsWatch
  <2> HIDE DEF w2
  <2> QED BY <1>3, <2>1, WatchAlters
<1> HIDE DEF x2
<1>5. Alters(io, x2, {id} \cup {id})
  BY <1>3, <1>4, AltersTwice
<1>6. {id} \cup {id} = {id}
  OBVIOUS
<1>7. Alters(io, io', {id})
  BY <1>2, <1>5, <1>6
<1> HIDE DEF id
<1> QED BY <1>1, <1>7, GoesOn

LEMMA DoReplyListens ==
  ASSUME NEW strict \in BOOLEAN, ListenInv(strict), ~closed, DoReply
  PROVE  ListenInv(strict)'
<1>1. /\ todo # <<>> /\ PieceOnly /\ Head(todo).do \in {"failed", "removed"} /\ UNCHANGED io
      /\ \E r : Finish(r)
  BY DEF DoReply, Doing
<1>2. {"failed", "removed"} \subseteq Closers
  BY DEF Closers
<1> QED BY <1>1, <1>2, SameListens

-----------------------------------------------------------------------------
(* A packet is taken.                                                      *)
-----------------------------------------------------------------------------
LEMMA WakeAlters ==
  ASSUME NEW x, NEW held, Good(x, held)
  PROVE  Alters(x, Post(x, Wake), {})
<1> DEFINE y == Post(x, Wake)
<1>1. /\ y.watch = x.watch /\ y.watches = x.watches /\ y.handle = x.handle /\ y.reading = x.reading
      /\ y.queue = Append(x.queue, Wake)
  BY DEF Post, Good, Tables, IsIo
<1>2. Wake.err # "denied" /\ IsSeq(Wake.recs)
  BY Tuples DEF Wake, Packet
<1>3. Range(Append(x.queue, Wake)) \subseteq Range(x.queue) \cup {Wake}
  BY RangeAppended DEF Good, Reads, Packets
<1> HIDE DEF y
<1>4. \A p \in Range(y.queue) : p \in Range(x.queue) \/ (p.err # "denied" /\ IsSeq(p.recs))
  BY <1>1, <1>2, <1>3
<1>5. InTable(y) \subseteq InTable(x)
  BY <1>1 DEF InTable
<1>6. Alters(x, y, {})
  BY <1>1, <1>4, <1>5, AltersIf
<1> QED BY <1>6 DEF y

(* A step that leaves the pieces as they are. *)
LEMMA StillListens ==
  ASSUME NEW strict \in BOOLEAN, ListenInv(strict), ~closed, UNCHANGED <<treeVars, closed, todo, req>>,
         Alters(io, io', {})
  PROVE  ListenInv(strict)'
<1>1. Sound(todo, req, {}, Lost(io'))
  BY SoundMore DEF ListenInv, Alters, Follows
<1>2. Sound(todo', req', {}, Lost(io'))
  BY <1>1
<1>3. Given(todo) \ {} \subseteq Given(todo') /\ {} \cap InTable(io') \subseteq Given(todo') \cup Heard(io', strict)
  OBVIOUS
<1> QED BY <1>2, <1>3, RestListens

(* Between two packets there is nothing to do, and then what there is. *)
LEMMA TakeListens ==
  ASSUME NEW strict \in BOOLEAN, ListenInv(strict), ~closed, todo = <<>>, UNCHANGED <<treeVars, closed>>,
         NEW ids, Alters(io, io', ids), Sound(todo', req', {}, Lost(io')),
         ids \cap InTable(io') \subseteq Given(todo')
  PROVE  ListenInv(strict)'
<1>1. Given(todo) = {}
  BY Ranges DEF Given
<1>2. Given(todo) \ ids \subseteq Given(todo')
  BY <1>1
<1> QED BY <1>2, RestListens

LEMMA TakeNothingListens ==
  ASSUME NEW strict \in BOOLEAN, ListenInv(strict), Good(io, {}), ~closed, TakeNothing
  PROVE  ListenInv(strict)'
<1>1. io.queue # <<>> /\ io' = Taken /\ UNCHANGED <<treeVars, closed, todo, req>>
  BY DEF TakeNothing, CanTake, IoOnly, closeVars, loopVars
<1>2. Alters(io, Taken, {})
  BY <1>1, TakenAlters DEF Taken
<1> QED BY <1>1, <1>2, StillListens

(* The directory AddWith watches exists. *)
LEMMA DirExists ==
  ASSUME NEW strict, ListenInv(strict), NEW p \in DOMAIN fs
  PROVE  fs[IF IsDir(p) THEN p ELSE Dir(p)] \in Objects
<1>1. CASE IsDir(p)
  BY <1>1 DEF Objects
<1>2. CASE ~IsDir(p)
  <2>1. IsPath(p) /\ p # <<>>
    BY DEF ListenInv, IsTree
  <2>2. Len(p) \in Nat /\ Len(p) # 0 /\ Len(p) # 1
    BY <1>2, <2>1 DEF IsPath, ListenInv, IsDir
  <2>3. \A n \in Nat : n # 0 /\ n # 1 => n - 1 \in 1..n
    OBVIOUS
  <2>4. Dir(p) \in DOMAIN fs
    BY <2>2, <2>3 DEF ListenInv, IsTree, Dir
  <2> QED BY <1>2, <2>4 DEF Objects
<1> QED BY <1>1, <1>2

LEMMA RemovePieces ==
  ASSUME NEW r, NEW p, NEW gone
  PROVE  Sound(<<Unroot(p, FALSE, 0), Piece("drop"), Read(r.id), Piece("removed")>>, r, {}, gone)
<1> DEFINE a == Unroot(p, FALSE, 0)
           b == Piece("drop")
           d == Read(r.id)
           e == Piece("removed")
           s == <<a, b, d, e>>
<1>1. /\ a.do = "unroot" /\ a.processing = 0 /\ b.do = "drop" /\ d.do = "read" /\ d.id = r.id
      /\ e.do = "removed"
  BY DEF Unroot, Piece, Read
<1> HIDE DEF a, b, d, e
<1>2. IsSeq(s)
  BY Tuples
<1>3. DOMAIN s = 1..4 /\ Len(s) = 4 /\ s[1] = a /\ s[2] = b /\ s[3] = d /\ s[4] = e
  OBVIOUS
<1> HIDE DEF s
<1>4. Needs(a, r) = {} /\ Needs(b, r) = {r.id} /\ Needs(d, r) = {} /\ Needs(e, r) = {}
  BY <1>1 DEF Needs
<1>5. \A k \in DOMAIN s : (k = 1 /\ s[k] = a) \/ (k = 2 /\ s[k] = b) \/ (k = 3 /\ s[k] = d)
                          \/ (k = 4 /\ s[k] = e)
  BY <1>3
<1>6. \A k \in DOMAIN s : \A id \in Needs(s[k], r) : k = 2 /\ id = r.id
  BY <1>4, <1>5
<1>7. 3 \in DOMAIN s /\ s[3].do = "read" /\ s[3].id = r.id
  BY <1>1, <1>3
<1>8. \A k \in DOMAIN s : \A id \in Needs(s[k], r) : \E j \in DOMAIN s :
        j > k /\ s[j].do \in {"read", "bury"} /\ s[j].id = id
  BY <1>6, <1>7
<1>9. \A k \in DOMAIN s : (s[k].do \in Closers => k = Len(s)) /\ s[k].do # "bury"
  BY <1>1, <1>3, <1>5 DEF Closers
<1>10. Sound(s, r, {}, gone)
  BY <1>2, <1>8, <1>9 DEF Sound
<1> QED BY <1>10 DEF s, a, b, d, e

LEMMA AddListens ==
  ASSUME NEW strict \in BOOLEAN, ListenInv(strict), Good(io, {}), ~closed, todo = <<>>,
         UNCHANGED <<treeVars, closed>>, Alters(io, Taken, {}), Good(Taken, {}),
         NEW q, q.path \in DOMAIN fs, addWatch(q)
  PROVE  ListenInv(strict)'
<1> DEFINE dir     == IF IsDir(q.path) THEN q.path ELSE Dir(q.path)
           name    == IF IsDir(q.path) THEN <<>> ELSE <<Last(q.path)>>
           created == fs[dir] \notin DOMAIN io.watches
           x       == Ensured(Taken, fs[dir], dir, q.rec)
           id      == x.watches[fs[dir]]
           w       == x.watch[id]
           flags   == {"user"} \cup (IF created THEN {"provisional"} ELSE {})
           hadUser == "user" \in w.mask
           v == IF name # <<>> THEN SetName(w, name, NameMask(w, name) \cup flags)
                ELSE [w EXCEPT !.mask = @ \cup flags, !.recurse = @ \/ (q.rec /\ ~hadUser)]
<1>1. io' = [x EXCEPT !.watch[id] = v] /\ todo' = <<Read(id), Piece("added")>>
  BY DEF addWatch
<1>2. fs[dir] \in Objects
  BY DirExists
<1>3. Good(x, {})
  BY EnsuredGood
<1>4. Alters(Taken, x, {id})
  BY <1>2, EnsuredAlters
<1> HIDE DEF x, name, flags, hadUser, dir
<1>5. Alike(w, v)
  <2>1. Alike(w, [w EXCEPT !.mask = @ \cup flags, !.recurse = @ \/ (q.rec /\ ~hadUser)])
    BY DEF Alike, IsWatch
  <2> QED BY <2>1, SetNameAlike
<1> HIDE DEF v
<1>6. Alters(x, [x EXCEPT !.watch[id] = v], {id})
  BY <1>3, <1>5, WatchAlters
<1> HIDE DEF id
<1>7. Alters(Taken, io', {id} \cup {id})
  BY <1>1, <1>4, <1>6, AltersTwice
<1>8. {} \cup ({id} \cup {id}) = {id}
  OBVIOUS
<1>9. Alters(io, io', {id})
  <2>1. Alters(io, io', {} \cup ({id} \cup {id}))
    BY <1>7, AltersTwice
  <2> QED BY <2>1, <1>8
<1>10. Sound(<<Read(id), Piece("added")>>, req', {}, Lost(io')) /\ Given(<<Read(id), Piece("added")>>) = {id}
  BY LastPieces DEF Closers
<1>11. Sound(todo', req', {}, Lost(io')) /\ {id} \cap InTable(io') \subseteq Given(todo')
  BY <1>1, <1>10
<1> QED BY <1>9, <1>11, TakeListens

LEMMA TakeInputListens ==
  ASSUME NEW strict \in BOOLEAN, ListenInv(strict), Good(io, {}), ~closed, TakeInput
  PROVE  ListenInv(strict)'
<1> DEFINE q == input[1]
<1>1. /\ todo = <<>> /\ io.queue # <<>> /\ Head(io.queue) = Wake /\ UNCHANGED <<treeVars, closed>>
  BY DEF TakeInput, CanTake, IoOnly, closeVars
<1>2. Alters(io, Taken, {})
  BY <1>1, TakenAlters DEF Taken
<1>3. Good(Taken, {})
  <2>1. Good(Taken, {Head(io.queue).op} \ {NoRead})
    BY <1>1, TakenGood DEF Taken
  <2>2. Head(io.queue).op = NoRead
    BY <1>1 DEF Wake, Packet
  <2>3. {Head(io.queue).op} \ {NoRead} = {}
    BY <2>2
  <2> QED BY <2>1, <2>3
<1>4. \/ Refused(q) /\ io' = Taken /\ UNCHANGED <<todo, req>>
      \/ ~Refused(q) /\ (addWatch(q) \/ remWatch(q))
  BY DEF TakeInput
<1>5. CASE Refused(q) /\ io' = Taken /\ UNCHANGED <<todo, req>>
  BY <1>1, <1>2, <1>5, StillListens
<1>6. CASE ~Refused(q) /\ addWatch(q)
  <2>1. q.path \in DOMAIN fs
    BY <1>6 DEF Refused
  <2> QED BY <1>1, <1>2, <1>3, <1>6, <2>1, AddListens
<1>7. CASE remWatch(q)
  <2>1. io' = Taken
    BY <1>7 DEF remWatch
  <2>2. todo' = <<Unroot(q.path, FALSE, 0), Piece("drop"), Read(req'.id), Piece("removed")>>
    BY <1>7 DEF remWatch
  <2>3. Sound(todo', req', {}, Lost(io'))
    BY <2>2, RemovePieces
  <2>4. {} \cap InTable(io') \subseteq Given(todo')
    OBVIOUS
  <2> QED BY <1>1, <1>2, <2>1, <2>3, <2>4, TakeListens
<1> QED BY <1>4, <1>5, <1>6, <1>7

(* A read that is denied: the roots below its directory end, then it does. *)
LEMMA BuryPieces ==
  ASSUME NEW id, NEW r, NEW gone, id \in gone
  PROVE  LET b == <<Bury(id, FALSE), Piece("report")>>
         IN  Sound(b, r, {}, gone) /\ IsSeq(b) /\ Given(b) = {id}
<1> DEFINE u == Bury(id, FALSE)
           v == Piece("report")
           b == <<u, v>>
<1>1. u.do = "bury" /\ u.id = id /\ v.do = "report"
  BY DEF Bury, Piece
<1>2. Needs(u, r) = {} /\ Needs(v, r) = {}
  BY <1>1 DEF Needs
<1>3. IsSeq(b) /\ DOMAIN b = {1, 2} /\ b[1] = u /\ b[2] = v
  BY Tuples
<1>4. Range(b) = {u, v}
  BY Ranges
<1> HIDE DEF u, v, b
<1>5. Given(b) = {id}
  BY <1>1, <1>4 DEF Given
<1>6. \A k \in DOMAIN b : Needs(b[k], r) = {} /\ b[k].do \notin Closers /\ (b[k].do = "bury" => b[k].id \in gone)
  BY <1>1, <1>2, <1>3 DEF Closers
<1>7. Sound(b, r, {}, gone)
  BY <1>3, <1>6 DEF Sound
<1> QED BY <1>3, <1>5, <1>7 DEF b, u, v

(* The changes a packet brings, one after the other. *)
LEMMA HandlePieces ==
  ASSUME NEW id, NEW recs, IsSeq(recs)
  PROVE  Mild([k \in DOMAIN recs |-> Handle(id, recs[k])], {id})
<1> DEFINE f == [k \in DOMAIN recs |-> Handle(id, recs[k])]
<1>1. Len(recs) \in Nat /\ DOMAIN recs = 1..Len(recs)
  BY LenProperties DEF IsSeq
<1>2. f = [k \in 1..Len(recs) |-> f[k]]
  BY <1>1
<1>3. \A u \in Range(f) : u.do = "handle" /\ u.id = id
  BY DEF Range, Handle
<1> HIDE DEF f
<1>4. IsSeq(f)
  BY <1>1, <1>2, SeqOver
<1>5. \A u \in Range(f) : Needs(u, NoRequest) = {id} /\ u.do \notin Closers \cup {"bury", "drop"}
  BY <1>3 DEF Needs, Closers
<1>6. Mild(f, {id})
  BY <1>4, <1>5 DEF Mild
<1> QED BY <1>6 DEF f

(* Pieces behind which one reads the watch again, or ends it. *)
LEMMA MildBefore ==
  ASSUME NEW a, NEW b, NEW id, NEW r, NEW gone, Mild(a, {id}), Sound(b, r, {}, gone), Given(b) = {id}
  PROVE  Sound(a \o b, r, {}, gone) /\ id \in Given(a \o b)
<1>1. Sound(a, r, {id}, gone) /\ Open(a) /\ IsSeq(a) /\ IsSeq(b)
  BY MildSound DEF Sound
<1>2. {} \cup Given(b) = {id}
  OBVIOUS
<1>3. Sound(a, r, {} \cup Given(b), gone)
  BY <1>1, <1>2
<1>4. Sound(a \o b, r, {}, gone)
  BY <1>1, <1>3, SoundJoined
<1>5. Given(a \o b) = Given(a) \cup Given(b)
  BY <1>1, GivenJoined
<1> QED BY <1>4, <1>5

LEMMA TakeReadListens ==
  ASSUME NEW strict \in BOOLEAN, ListenInv(strict), Good(io, {}), ~closed, TakeRead
  PROVE  ListenInv(strict)'
<1> DEFINE p == Head(io.queue)
           op == p.op
           id == op.id
           gone == Lost(io')
<1>1. /\ todo = <<>> /\ io.queue # <<>> /\ p # Wake /\ UNCHANGED <<treeVars, closed, req>>
      /\ io' = Dequeue(Taken, op)
  BY DEF TakeRead, CanTake, IoOnly, closeVars
<1>2. /\ Good(Taken, {op} \ {NoRead}) /\ Taken.watch = io.watch /\ Taken.reading = io.reading
      /\ Taken.pending = io.pending
      /\ p.op = NoRead => p = Wake
  <2>1. Taken.watch = io.watch
    BY DEF Taken, Good, Tables, IsIo
  <2> QED BY <1>1, <2>1, TakenGood DEF Taken
<1>3. op # NoRead /\ Good(Taken, {op})
  <2>1. op # NoRead
    BY <1>1, <1>2
  <2>2. {op} \ {NoRead} = {op}
    BY <2>1
  <2> QED BY <1>2, <2>1, <2>2
<1>4. p \in Range(io.queue) /\ op \in io.pending
  <2>1. p \in Range(io.queue)
    BY <1>1, TailParts DEF Good, Reads, Packets, Range
  <2>2. op \in Ended(io)
    BY <1>3, <2>1 DEF Ended, Range
  <2> QED BY <2>1, <2>2 DEF Good, Reads
<1>5. /\ id \in DOMAIN io.watch /\ io.watch[id].active = op /\ id \in InTable(io)
  BY <1>4, ReadOfWatch
<1>6. /\ Alters(Taken, io', {id}) /\ id \in DOMAIN io'.watch /\ io'.watch[id].active = NoRead
      /\ io'.reading = io.reading
  BY <1>1, <1>2, <1>3, DequeueAlters
<1>7. Alters(io, io', {id})
  <2>1. Alters(io, Taken, {})
    BY <1>1, TakenAlters DEF Taken
  <2>2. Alters(io, io', {} \cup {id})
    BY <1>6, <2>1, AltersTwice
  <2>3. {} \cup {id} = {id}
    OBVIOUS
  <2> QED BY <2>2, <2>3
<1> DEFINE handles == [k \in DOMAIN p.recs |-> Handle(id, p.recs[k])]
           roots == Unroots(io.watch[id].path, id)
           last == <<Bury(id, FALSE), Piece("report")>>
           rest == CASE p.err = "more data" -> <<Send>> \o ReadAndReport(id)
                     [] p.err = "aborted" -> ReadAndReport(id)
                     [] p.err = "denied" -> roots \o last
                     [] OTHER -> handles \o ReadAndReport(id)
<1>8. todo' = If(io.watch[id].active # op, <<Send>>) \o rest
  BY <1>4 DEF TakeRead
<1>9. /\ Sound(ReadAndReport(id), req, {}, gone) /\ Given(ReadAndReport(id)) = {id}
      /\ IsSeq(ReadAndReport(id))
  <2>1. Mild(ReadAndReport(id), {}) /\ Given(ReadAndReport(id)) = {id}
    BY MildPieces
  <2> QED BY <2>1, MildSound
<1>10. Sound(rest, req, {}, gone) /\ id \in Given(rest)
  <2>1. Sound(<<Send>> \o ReadAndReport(id), req, {}, gone) /\ id \in Given(<<Send>> \o ReadAndReport(id))
    BY <1>9, MildBefore, MildPieces
  <2>2. Sound(handles \o ReadAndReport(id), req, {}, gone) /\ id \in Given(handles \o ReadAndReport(id))
    <3>1. IsSeq(p.recs)
      BY <1>4 DEF ListenInv, Tracked, Matched
    <3>2. Mild(handles, {id})
      BY <3>1, HandlePieces
    <3> QED BY <1>9, <3>2, MildBefore
  <2>3. ASSUME p.err = "denied" PROVE Sound(roots \o last, req, {}, gone) /\ id \in Given(roots \o last)
    <3>1. id \in Denying(io)
      BY <1>4, <2>3 DEF Denying
    <3>2. io.watch[id].obj \notin Objects
      BY <3>1 DEF ListenInv, Tracked
    <3>3. io'.watch[id].obj = io.watch[id].obj
      BY <1>5, <1>7 DEF Alters, Follows
    <3>4. NoRead \notin io'.reading
      BY <1>6 DEF Good, Reads
    <3>5. id \in gone
      BY <1>6, <3>2, <3>3, <3>4 DEF Lost
    <3>6. Mild(roots, {id})
      BY MildUnroots
    <3>7. Sound(last, req, {}, gone) /\ Given(last) = {id}
      BY <3>5, BuryPieces
    <3> HIDE DEF roots, last, gone
    <3> QED BY <3>6, <3>7, MildBefore
  <2> HIDE DEF handles, roots, last, gone
  <2> QED BY <1>9, <2>1, <2>2, <2>3
<1> HIDE DEF rest
<1>11. Mild(If(io.watch[id].active # op, <<Send>>), {})
  BY MildPieces, MildIf
<1> DEFINE a == If(io.watch[id].active # op, <<Send>>)
<1>12. Sound(a \o rest, req, {}, gone) /\ id \in Given(a \o rest)
  <2>1. Sound(a, req, {} \cup Given(rest), gone) /\ Open(a) /\ IsSeq(a) /\ IsSeq(rest)
    <3>1. Sound(a, req, {}, gone) /\ Open(a) /\ IsSeq(a)
      BY <1>11, MildSound
    <3> HIDE DEF a, gone
    <3>2. Sound(a, req, {} \cup Given(rest), gone)
      BY <3>1, SoundMore
    <3> QED BY <1>10, <3>1, <3>2 DEF Sound
  <2> HIDE DEF a, gone
  <2>2. Sound(a \o rest, req, {}, gone)
    BY <1>10, <2>1, SoundJoined
  <2>3. Given(a \o rest) = Given(a) \cup Given(rest)
    BY <2>1, GivenJoined
  <2> QED BY <1>10, <2>2, <2>3
<1>13. Sound(todo', req', {}, gone) /\ {id} \cap InTable(io') \subseteq Given(todo')
  BY <1>1, <1>8, <1>12
<1> HIDE DEF id
<1> QED BY <1>1, <1>7, <1>13, TakeListens

-----------------------------------------------------------------------------
(* The watcher listens.                                                    *)
-----------------------------------------------------------------------------
LEMMA InitListens == ASSUME Init, NEW strict \in BOOLEAN PROVE ListenInv(strict)
<1>1. /\ io.watch = <<>> /\ io.watches = <<>> /\ io.handle = <<>> /\ io.queue = <<>> /\ todo = <<>>
  BY DEF Init, WatchesInit
<1>2. IsTree
  BY InitTree DEF Init
<1>3. \A p \in DOMAIN fs : Len(p) = 1 => fs[p].dir
  <2>1. DOMAIN fs = InitDirs \cup InitFiles /\ \A p \in InitDirs : fs[p].dir = TRUE
    BY DEF Init, TreeInit
  <2>2. \A p \in InitFiles : Len(p) # 1
    <3>1. \A p \in InitFiles : Len(p) \in Nat
      BY TreeAssumption, PathNotEmpty DEF Path
    <3>2. \A n \in Nat : n > 1 => n # 1
      OBVIOUS
    <3>3. \A p \in InitFiles : Len(p) > 1
      BY PortAssumption
    <3> QED BY <3>1, <3>2, <3>3, Zenon
  <2> QED BY <2>1, <2>2
<1>4. DOMAIN <<>> = {} /\ Range(<<>>) = {}
  BY Ranges
<1>5. Tracked(io) /\ InTable(io) = {}
  BY <1>1, <1>4 DEF Tracked, Matched, Denying, InTable
<1>6. Sound(todo, req, {}, Lost(io))
  BY <1>1, MildPieces, MildSound
<1> QED BY <1>2, <1>3, <1>5, <1>6 DEF ListenInv

LEMMA CallerListens ==
  ASSUME NEW strict \in BOOLEAN, ListenInv(strict), Good(io, {}), NEW c,
         CallerStep(c) \/ CloseMark(c) \/ \E q \in Requests : Call(c, q)
  PROVE  ListenInv(strict)'
<1>1. UNCHANGED <<treeVars, todo, req>> /\ (closed' = closed \/ closed' = TRUE)
  BY DEF CallerStep, CloseMark, Call, Put, Wakeup, Answered, CloseFirst, CloseSecond, CallerOnly,
         loopVars, closeVars
<1>2. io' = io \/ io' = Post(io, Wake)
  BY DEF CallerStep, CloseMark, Call, Put, Wakeup, Answered, CloseFirst, CloseSecond
<1>3. CASE closed'
  BY <1>1, <1>3, TreeSame
<1>4. CASE ~closed'
  <2>1. ~closed /\ closed' = closed
    BY <1>1, <1>4
  <2>2. Alters(io, io', {})
    BY <1>2, WakeAlters, AltersNot
  <2> QED BY <1>1, <2>1, <2>2, StillListens
<1> QED BY <1>3, <1>4

LEMMA PiecesListen ==
  ASSUME NEW strict \in BOOLEAN, ListenInv(strict), strict => RootsApart, ReadsInv, ~closed, Piecework
  PROVE  ListenInv(strict)'
<1>1. Good(io, {})
  BY DEF ReadsInv
<1> QED BY <1>1, DoSendListens, DoReadListens, DoMonitorListens, DoRecheckListens, DoBuryListens,
           DoUnrootListens, DoHandleListens, DoForgetListens, DoAddedListens, DoUndoListens,
           DoDropListens, DoReplyListens DEF Piecework, OwnStep

LEMMA NextListens ==
  ASSUME NEW strict \in BOOLEAN, ReadsInv, WakeupInv, ListenInv(strict), strict => RootsApart, [Next]_vars
  PROVE  ListenInv(strict)'
<1>1. Good(io, {})
  BY DEF ReadsInv
<1>2. CASE Piecework \/ TakeClosing \/ TakeNothing \/ TakeInput \/ TakeRead
  <2>1. UNCHANGED <<treeVars, closed>>
    BY <1>2 DEF Piecework, OwnStep, TakeClosing, TakeNothing, TakeInput, TakeRead, DoSend, DoRead,
       DoMonitor, DoRecheck, DoReport, DoBury, DoUnroot, DoHandle, DoForget, DoAdded, DoUndo, DoDrop,
       DoReply, TablesOnly, PieceOnly, IoOnly, closeVars
  <2>2. CASE closed
    BY <2>1, <2>2, TreeSame
  <2>3. CASE ~closed
    <3>1. ~TakeClosing
      BY <2>3 DEF TakeClosing, Closing, WakeupInv, CloseInv
    <3> QED BY <1>1, <1>2, <2>3, <3>1, PiecesListen, TakeNothingListens, TakeInputListens, TakeReadListens
  <2> QED BY <2>2, <2>3
<1>3. ASSUME NEW c \in Callers, CallerStep(c) \/ CloseMark(c) \/ \E q \in Requests : Call(c, q)
      PROVE  ListenInv(strict)'
  BY <1>1, <1>3, CallerListens
<1>4. CASE TreeChanges
  BY <1>1, <1>4, TreeListens
<1>5. CASE StopReceiving \/ UNCHANGED vars
  <2>1. UNCHANGED <<treeVars, io, todo, req, closed>>
    BY <1>5 DEF StopReceiving, OthersOnly, loopVars, closeVars, vars
  <2>2. CASE closed
    BY <2>1, <2>2, TreeSame
  <2>3. CASE ~closed
    BY <2>1, <2>3, AltersNot, StillListens
  <2> QED BY <2>2, <2>3
<1> QED BY <1>2, <1>3, <1>4, <1>5 DEF Next, GoroutineStep, IoStep, Piecework

(* Between two packets no watch of the table is without a read, unless     *)
(* Close is at work: whatever fails, is cancelled, renamed or removed, a   *)
(* read is under way or its packet is on its way (backend_windows.go,      *)
(* readEvents, startRead).                                                 *)
THEOREM WatchesAreRead ==
  Spec => [](todo = <<>> /\ ~closed => \A o \in DOMAIN io.watches : io.watch[io.watches[o]].active # NoRead)
<1> DEFINE P == todo = <<>> /\ ~closed => \A o \in DOMAIN io.watches : io.watch[io.watches[o]].active # NoRead
           I == ListenInv(FALSE)
<1>1. Init => I
  BY InitListens
<1>2. ReadsInv /\ WakeupInv /\ I /\ [Next]_vars => I'
  BY NextListens
<1>3. I => P
  BY Ranges DEF ListenInv, Given, Heard, InTable, Range
<1> HIDE DEF I, P
<1>4. Spec => []P
  BY <1>1, <1>2, <1>3, ReadsInvHolds, WakeupInvHolds, PTL DEF Spec
<1> QED BY <1>4 DEF P

(* RC-018: and nothing that is no longer wanted keeps a read, as long as   *)
(* no recursive root is registered as its own parent (backend_windows.go,  *)
(* readEvents, startRead, removeRecursiveRoot).                            *)
THEOREM ListensWhileApart == Spec /\ []RootsApart => []Listening
<1> DEFINE I == ListenInv(TRUE)
<1>1. Init => I
  BY InitListens
<1>2. RootsApart /\ ReadsInv /\ WakeupInv /\ I /\ [Next]_vars => I'
  BY NextListens
<1>3. I => Listening
  BY Ranges DEF ListenInv, Given, Heard, InTable, Range, Listening
<1> HIDE DEF I
<1> QED BY <1>1, <1>2, <1>3, ReadsInvHolds, WakeupInvHolds, PTL DEF Spec
=============================================================================
