---------------------------- MODULE WindowsProps ----------------------------
(***************************************************************************)
(* What the Windows backend must keep true.  RC-nnn names the rule of      *)
(* RECURSIVE_WATCH_CONTRACT.md a property formalises.                      *)
(***************************************************************************)
EXTENDS Windows

(* A read the kernel has, or that has ended and is not dequeued, is kept   *)
(* in pending, so its OVERLAPPED and its buffer live on; it is the only    *)
(* one of its watch, and the handle it was made on is still open.          *)
ReadsOwned ==
  /\ io.pending = io.reading \cup Ended(io)
  /\ \A op \in io.pending : io.watch[op.id].active = op /\ Valid(io, op.id)
  /\ io.reading \cap Ended(io) = {}
  /\ \A j, k \in DOMAIN io.queue : j # k /\ io.queue[j] # Wake => io.queue[j].op # io.queue[k].op

(* Between two packets the watcher is never deaf: every watch of the table *)
(* has a read under way or a packet on its way, or Close is waiting to     *)
(* stop it; and nothing that is no longer wanted keeps a read (RC-018).    *)
Listening ==
  todo = <<>> /\ ~closed =>
    \A o \in DOMAIN io.watches :
      LET w == io.watch[io.watches[o]]
      IN  w.active # NoRead /\ (w.active \in io.reading => Wanted(w))

(* No handle stays open for a watch the table does not have (RC-018).      *)
NoLeakedHandle == DOMAIN io.handle = {io.watches[o] : o \in DOMAIN io.watches}

(* Nothing is left to do, and no change was dropped. *)
Quiet ==
  /\ todo = <<>> /\ io.queue = <<>> /\ ~closed /\ ~io.lost
  /\ \A id \in DOMAIN io.handle : io.handle[id].kept = <<>>

(* RC-012, RC-017: once everything is handled a recursive root and the     *)
(* hidden monitor in its parent are there together or not at all,          *)
(* whichever step of AddWith or Remove failed.                             *)
RootPaired ==
  Quiet =>
    /\ \A p \in DOMAIN io.roots :
         LET r == io.roots[p]
         IN  /\ io.watch[r.root].recurse /\ "user" \in io.watch[r.root].mask
             /\ "monitor" \in NameMask(io.watch[r.parent], r.name)
             /\ Valid(io, r.root) /\ Valid(io, r.parent)
    /\ \A o \in DOMAIN io.watches :
         LET id == io.watches[o]
             w == io.watch[id]
         IN  /\ \A n \in DOMAIN w.names : "monitor" \in w.names[n] =>
                  \E p \in DOMAIN io.roots : io.roots[p].parent = id /\ io.roots[p].name = n
             /\ w.recurse /\ "user" \in w.mask /\ Len(w.path) > 1 =>
                  \E p \in DOMAIN io.roots : io.roots[p].root = id
             /\ "provisional" \notin w.mask

(* RC-012, RC-016: a recursive root that was renamed or removed is         *)
(* forgotten, the one that is watched is the object at its path, and a     *)
(* directory that is gone has no watch.                                    *)
RootsExist ==
  Quiet =>
    /\ \A p \in DOMAIN io.roots : p \in DOMAIN fs /\ fs[p] = io.watch[io.roots[p].root].obj
    /\ \A o \in DOMAIN io.watches :
         LET w == io.watch[io.watches[o]]
         IN  Exists(o) /\ (w.recurse /\ "user" \in w.mask => At(o) = w.path)

(* RC-020: when Close has closed the channels, no read is outstanding and  *)
(* no handle is open; and only then the Close of another goroutine returns.*)
ClosedReleasesAll ==
  /\ io.port = "closed" =>
       io.handle = <<>> /\ io.reading = {} /\ io.pending = {} /\ io.watches = <<>>
  /\ closeDone => io.port = "closed"

(* RC-019: nobody waits for a packet that will not come.  A request has a  *)
(* wakeup behind it, however many were taken by others; whoever waits for  *)
(* an answer has a request that waits or is worked on, or Close releases   *)
(* it; and Close, which needs a packet for each read it cancelled and one  *)
(* for itself, has them.                                                   *)
NoLostWakeup ==
  LET waking == Wake \in Range(io.queue)
  IN  /\ input # <<>> /\ ~done => waking \/ \E c \in Callers : at[c].pc = "wake"
      /\ \A c \in Callers : at[c].pc = "wait" /\ reply[c] = "none" =>
           done \/ req.c = c \/ (input # <<>> /\ input[1].c = c)
      /\ request => waking \/ \E c \in Callers : at[c].pc = "closeWake"
      /\ closeCh /\ io.port = "open" => io.reading = {} /\ io.queue # <<>>
=============================================================================
