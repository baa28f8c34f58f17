----------------------------- MODULE KqueueProps -----------------------------
(***************************************************************************)
(* What the kqueue backend must keep true.  RC-nnn names the rule of       *)
(* RECURSIVE_WATCH_CONTRACT.md a property formalises.                      *)
(***************************************************************************)
EXTENDS Kqueue

(* Every descriptor is open for one path, which leads to it: there is none *)
(* that a removal could not find and close, whatever was renamed.  The one *)
(* exception is a path that readEvents renames, or gives to a directory    *)
(* that was renamed, while a caller is between byPath and add or remove    *)
(* for that very path (see README).                                        *)
DescriptorsPaired ==
  ~crossed =>
    /\ \A p \in DOMAIN tb.path : Watched(tb, p) /\ byPath(tb, p).name = p
    /\ \A f \in DOMAIN tb.wd : tb.wd[f].name \in DOMAIN tb.path /\ tb.path[tb.wd[f].name] = f
    /\ lock = Unheld => DOMAIN tb.open = DOMAIN tb.wd

Quiet == Unlocked /\ Still /\ ~closed

(* RC-003, RC-004, RC-013, RC-015: once every event is handled each        *)
(* directory below a recursive root is watched for every event, each file  *)
(* is watched, and the root owns them.                                     *)
Covered ==
  Quiet /\ calm => \A u \in tb.byUser :
    /\ u \in tb.recurse => \A p \in DOMAIN fs : Under(p, u) =>
         Watched(tb, p) /\ tb.open[tb.path[p]].all /\ u \in OwnersOf(tb, p)
    /\ ~isUnderRecurse(tb, u) => \A p \in Entries(u) : Watched(tb, p) /\ u \in OwnersOf(tb, p)

(* RC-008, RC-011: "removing the recursive root preserves the explicit     *)
(* child in WatchList and preserves its coverage": the entries of a        *)
(* directory a user watches alone stay watched.  They do not (see README). *)
ExplicitKept ==
  Quiet /\ calm => \A u \in tb.byUser \ tb.recurse : \A p \in Entries(u) : Watched(tb, p)

(* RC-012, RC-014, RC-016: once every event is handled each descriptor is  *)
(* open on the object its path names, what users watch exists, and so does *)
(* what is known, or the creation of what comes next would not be sent.    *)
Attached ==
  Quiet /\ calm =>
    /\ \A p \in DOMAIN tb.path : p \in DOMAIN fs /\ tb.open[tb.path[p]].obj = fs[p]
    /\ tb.byUser \subseteq DOMAIN tb.path
    /\ tb.seen \subseteq DOMAIN fs

(* RC-008, RC-009, RC-011: once every event is handled everything that is  *)
(* watched is owned by users that still watch, so that Remove releases it. *)
(* The exception is a file that took the path of one that only its user    *)
(* watched: it is watched for nobody (testdata/watch-file/overwrite-       *)
(* watched-file).                                                          *)
OwnersSound ==
  Quiet /\ calm => \A p \in DOMAIN tb.path :
    /\ OwnersOf(tb, p) \subseteq tb.byUser
    /\ OwnersOf(tb, p) # {} \/ (~byPath(tb, p).obj.dir /\ OwnersOf(tb, Dir(p)) = {})

(* Once every event is handled no directory still waits for a rename of    *)
(* its own to be skipped: its next rename is not swallowed.  Two renames   *)
(* that one note stands for may leave one waiting (see README).            *)
NothingSkipped == Quiet /\ calm => \A f \in DOMAIN tb.wd : ~tb.wd[f].skip

(* RC-018: "Close MUST release all exclusive recursive ownership and       *)
(* operating-system resources": once a Close has returned no descriptor is *)
(* open.  The exceptions are a path that readEvents adds after Close had   *)
(* listed the paths, by opening or by renaming it, and the one of          *)
(* DescriptorsPaired (see README).                                         *)
ClosedReleasesAll ==
  ~escaped /\ ~crossed => \A c \in Closers : at[c] = "returned" => DOMAIN tb.open = {}
=============================================================================
