---------------------------- MODULE InotifyKernel ----------------------------
(***************************************************************************)
(* What the inotify backend relies on and does not implement: a tree of    *)
(* files and directories, and one inotify instance of the Linux kernel.    *)
(* Modelled from how backend_inotify.go uses it (inotify_add_watch,        *)
(* inotify_rm_watch, read, Lstat and ReadDir) and from the behaviour its   *)
(* comments rely on:                                                       *)
(*   - a watch belongs to an inode, not to a path: adding a path whose     *)
(*     inode is watched returns the descriptor it has, and a watch follows *)
(*     its inode when that is renamed;                                     *)
(*   - descriptors are never used twice;                                   *)
(*   - removing a watch queues IN_IGNORED, and so does the end of the      *)
(*     inode, after IN_DELETE_SELF;                                        *)
(*   - the two halves of a rename carry the same cookie but are not queued *)
(*     atomically;                                                         *)
(*   - a full queue drops events and says so once.                         *)
(* Every mask the backend asks for is the same one, because the only       *)
(* option that changes it is not exported; events that touch no table      *)
(* (IN_MODIFY, IN_ATTRIB...) are left out.                                 *)
(***************************************************************************)
EXTENDS Integers, FiniteSets, SequencesExt, Paths

CONSTANTS
  Names,       \* the names an entry can have: numbers, listed in their order
  MaxDepth,    \* components of the longest path
  InitDirs,    \* the directories that exist at first
  MaxFsOps,    \* bound on the calls that change the tree
  MaxQueue,    \* max_queued_events
  TreeCalls,   \* which of "mkdir", "mkfile", "unlink", "rename" and "replace"
               \* other processes make ("replace": rename over what is there)
  Fixed,       \* directories nobody renames: inotify does not tell a watch of
               \* the rename of a directory above it
  SplitRename, \* TRUE: the events of a rename are queued one at a time
  LateRelease  \* TRUE: an unlinked inode may outlive its name for a while

ASSUME KernelAssumption ==
  /\ Names \subseteq Nat /\ IsFiniteSet(Names)
  /\ {MaxDepth, MaxFsOps, MaxQueue} \subseteq Nat
  /\ TreeCalls \subseteq {"mkdir", "mkfile", "unlink", "rename", "replace"}
  /\ Fixed \subseteq PathsUpTo(Names, MaxDepth)
  /\ SplitRename \in BOOLEAN /\ LateRelease \in BOOLEAN
  /\ InitDirs \subseteq PathsUpTo(Names, MaxDepth)
  /\ IsFiniteSet(InitDirs) /\ \A p \in InitDirs : \A k \in 1..(Len(p) - 1) : SubSeq(p, 1, k) \in InitDirs

VARIABLES
  fs,       \* path -> inode, for every path that exists
  kind,     \* inode -> "dir" or "file", for every inode there has been
  kwatch,   \* descriptor -> inode, the watches of the instance
  nextWd,   \* the next descriptor
  queue,    \* the events that wait to be read
  tail,     \* the notifications the rename under way has still to make
  doomed,   \* inodes without a name that are not released yet
  fsOps     \* calls made, and the source of the cookies

kernelVars == <<fs, kind, kwatch, nextWd, queue, tail, doomed, fsOps>>

Base == 0
NoName == -1
Path == PathsUpTo(Names, MaxDepth)
Inodes == DOMAIN kind
Dirs(p) == p = <<>> \/ (p \in DOMAIN fs /\ kind[fs[p]] = "dir")
InodeAt(p) == IF p = <<>> THEN Base ELSE fs[p]
NewInode == Cardinality(Inodes)
Cookie == fsOps + 1

(* The path of an inode that has a name. *)
Linked(i) == \E p \in DOMAIN fs : fs[p] = i
PathOf(i) == CHOOSE p \in DOMAIN fs : fs[p] = i

Children(p) == {q \in DOMAIN fs : Dir(q) = p}

(* Directories whose lock the rename under way holds: nobody lists them. *)
Locked(p) == \E k \in DOMAIN tail : tail[k].kind \in {"from", "to"} /\ tail[k].ino = InodeAt(p)

-----------------------------------------------------------------------------
(* Events.  ino is the inode a notification is about, its watch decides    *)
(* whether an event is queued.                                             *)
-----------------------------------------------------------------------------
Note(what, i, name, cookie, dir) ==
  [kind |-> what, ino |-> i, name |-> name, cookie |-> cookie, dir |-> dir]

Overflow == [kind |-> "overflow", wd |-> -1, name |-> NoName, cookie |-> 0, dir |-> FALSE]

(* The queue q with the events es behind it: those that find no room are   *)
(* dropped, and the queue says so once.                                    *)
Push(q, es) ==
  LET room == IF Len(q) < MaxQueue THEN MaxQueue - Len(q) ELSE 0
      kept == q \o SubSeq(es, 1, IF Len(es) < room THEN Len(es) ELSE room)
  IN  IF Len(es) <= room \/ Overflow \in ToSet(kept) THEN kept ELSE Append(kept, Overflow)

Event(what, d, n) ==
  [kind |-> what, wd |-> d, name |-> n.name, cookie |-> n.cookie, dir |-> n.dir]

WdsOf(watches, i) == {d \in DOMAIN watches : watches[d] = i}

(* The events of one notification: none if its inode has no watch. *)
EventsOf(n) ==
  LET ds == WdsOf(kwatch, n.ino)
      d  == CHOOSE x \in ds : TRUE
  IN  IF ds = {} THEN <<>>
      ELSE IF n.kind = "gone" THEN <<Event("delete_self", d, n), Event("ignored", d, n)>>
      ELSE <<Event(n.kind, d, n)>>

(* Queue these events; the watches of the inodes that ended go.            *)
Queue(events, ended) ==
  /\ kwatch' = [d \in {x \in DOMAIN kwatch : kwatch[x] \notin ended} |-> kwatch[d]]
  /\ queue' = Push(queue, events)
  /\ UNCHANGED nextWd

(* The same, by a call that leaves the notifications of later in flight.   *)
Notify(events, ended, later) == Queue(events, ended) /\ tail' = tail \o later

-----------------------------------------------------------------------------
(* The calls other processes make.                                         *)
-----------------------------------------------------------------------------
Gone(i) == Note("gone", i, NoName, 0, kind[i] = "dir")

CanChange == fsOps < MaxFsOps /\ fsOps' = fsOps + 1

(* mkdir, or the creation of a file. *)
Create(p, what) ==
  /\ CanChange
  /\ p \notin DOMAIN fs /\ Dirs(Dir(p)) /\ ~Locked(Dir(p))
  /\ kind' = [i \in Inodes \cup {NewInode} |-> IF i = NewInode THEN what ELSE kind[i]]
  /\ fs' = [q \in DOMAIN fs \cup {p} |-> IF q = p THEN NewInode ELSE fs[q]]
  /\ Notify(EventsOf(Note("create", InodeAt(Dir(p)), Last(p), 0, what = "dir")), {}, <<>>)
  /\ UNCHANGED doomed

(* rmdir or unlink: the parent's IN_DELETE and the end of the inode come in *)
(* either order, and the inode may be held for a while after the call.      *)
Unlink(p) ==
  LET i      == fs[p]
      parent == EventsOf(Note("delete", InodeAt(Dir(p)), Last(p), 0, kind[i] = "dir"))
      self   == EventsOf(Gone(i))
  IN  /\ CanChange
      /\ Children(p) = {} /\ ~Locked(Dir(p)) /\ ~Locked(p)
      /\ fs' = [q \in DOMAIN fs \ {p} |-> fs[q]]
      /\ \/ Notify(parent \o self, {i}, <<>>) /\ UNCHANGED doomed
         \/ Notify(self \o parent, {i}, <<>>) /\ UNCHANGED doomed
         \/ LateRelease /\ Notify(parent, {}, <<>>) /\ doomed' = doomed \cup {i}
      /\ UNCHANGED kind

(* rename: q may name an empty directory, or a file, that p then replaces. *)
Rename(p, q) ==
  LET i      == fs[p]
      isDir  == kind[i] = "dir"
      from   == Note("from", InodeAt(Dir(p)), Last(p), Cookie, isDir)
      to     == Note("to", InodeAt(Dir(q)), Last(q), Cookie, isDir)
      self   == Note("move_self", i, NoName, 0, isDir)
      events == EventsOf(from) \o EventsOf(to) \o EventsOf(self)
      target == IF q \in DOMAIN fs THEN {fs[q]} ELSE {}
      moved  == {x \in DOMAIN fs : Under(x, p)}
      To(x)  == Rebased(x, p, q)
  IN  /\ CanChange
      /\ tail = <<>> /\ p \notin Fixed
      /\ ~Under(q, p) /\ Dirs(Dir(q)) /\ ~Under(p, q)
      /\ q \in DOMAIN fs => "replace" \in TreeCalls /\ kind[fs[q]] = kind[i] /\ Children(q) = {}
      /\ \A x \in moved : Len(To(x)) <= MaxDepth
      /\ fs' = [x \in (DOMAIN fs \ moved) \cup {To(y) : y \in moved} |->
                  IF x \in {To(y) : y \in moved} THEN fs[Rebased(x, q, p)] ELSE fs[x]]
      /\ \/ SplitRename /\ target = {} /\ Notify(<<>>, {}, <<from, to, self>>)
         \/ SplitRename /\ target # {} /\ Notify(<<>>, {}, <<from, to, self, Gone(fs[q])>>)
         \/ ~SplitRename /\ target = {} /\ Notify(events, {}, <<>>)
         \/ ~SplitRename /\ target # {} /\ Notify(events \o EventsOf(Gone(fs[q])), target, <<>>)
      /\ UNCHANGED <<kind, doomed>>

(* The rename under way queues its next event. *)
RenameNotifies ==
  /\ tail # <<>>
  /\ Queue(EventsOf(Head(tail)), IF Head(tail).kind = "gone" THEN {Head(tail).ino} ELSE {})
  /\ tail' = Tail(tail)
  /\ UNCHANGED <<fs, kind, doomed, fsOps>>

(* The last user of an unlinked inode lets go of it. *)
Release(i) ==
  /\ i \in doomed
  /\ doomed' = doomed \ {i}
  /\ Notify(EventsOf(Gone(i)), {i}, <<>>)
  /\ UNCHANGED <<fs, kind, fsOps>>

-----------------------------------------------------------------------------
(* The calls the watcher makes.                                            *)
-----------------------------------------------------------------------------
(* The descriptor inotify_add_watch returns for an existing path. *)
WdFor(p) ==
  LET ds == WdsOf(kwatch, fs[p])
  IN  IF ds = {} THEN nextWd ELSE CHOOSE d \in ds : TRUE

AddWatch(p) ==
  /\ kwatch' = [d \in DOMAIN kwatch \cup {WdFor(p)} |-> IF d = WdFor(p) THEN fs[p] ELSE kwatch[d]]
  /\ nextWd' = IF WdFor(p) = nextWd THEN nextWd + 1 ELSE nextWd
  /\ UNCHANGED queue

(* inotify_rm_watch on every descriptor of ds: EINVAL, and nothing else,   *)
(* for one the kernel no longer has.  Each queues its own IN_IGNORED.      *)
RmWatches(ds) ==
  LET gone    == DOMAIN kwatch \ DOMAIN kwatch'
      Rank(d) == Cardinality({x \in gone : x <= d})
      Ignored(d) == [kind |-> "ignored", wd |-> d, name |-> NoName, cookie |-> 0, dir |-> FALSE]
  IN  /\ kwatch' = [d \in DOMAIN kwatch \ ds |-> kwatch[d]]
      /\ queue' = Push(queue, [k \in 1..Cardinality(gone) |-> Ignored(CHOOSE d \in gone : Rank(d) = k)])
      /\ UNCHANGED nextWd

(* Closing the descriptor of the instance. *)
CloseInstance ==
  /\ kwatch' = [d \in {} |-> Base]
  /\ queue' = <<>>
  /\ UNCHANGED <<fs, kind, nextWd, tail, doomed, fsOps>>

-----------------------------------------------------------------------------
KernelInit ==
  /\ fs = CHOOSE f \in [InitDirs -> 1..Cardinality(InitDirs)] : IsInjective(f)
  /\ kind = [i \in 0..Cardinality(InitDirs) |-> "dir"]
  /\ kwatch = [d \in {} |-> Base]
  /\ nextWd = 1
  /\ queue = <<>> /\ tail = <<>> /\ doomed = {} /\ fsOps = 0
=============================================================================
