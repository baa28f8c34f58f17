------------------------------ MODULE FileTree ------------------------------
(***************************************************************************)
(* The tree of files and directories the backends of Windows, illumos and  *)
(* the BSDs watch, and what other processes do to it.  An object has a     *)
(* number of its own, so that another object at a path it once had is      *)
(* another object.                                                         *)
(***************************************************************************)
EXTENDS Naturals, FiniteSets, Functions, SequencesExt, Paths

CONSTANTS
  Names,     \* the names an entry can have
  MaxDepth,  \* components of the longest path
  InitDirs,  \* the directories that exist at first
  InitFiles, \* and the files
  TreeCalls, \* which happen: see TreeAssumption
  MaxFsOps   \* bound on them

ASSUME TreeAssumption ==
  /\ IsFiniteSet(Names) /\ {MaxDepth, MaxFsOps} \subseteq Nat
  /\ IsFiniteSet(InitDirs) /\ IsFiniteSet(InitFiles)
  /\ InitDirs \cup InitFiles \subseteq PathsUpTo(Names, MaxDepth)
  /\ \A p \in InitDirs \cup InitFiles : \A k \in 1..(Len(p) - 1) : SubSeq(p, 1, k) \in InitDirs
  /\ InitDirs \cap InitFiles = {}
  /\ TreeCalls \subseteq {"mkdir", "mkfile", "unlink", "rename", "replace", "touch"}

VARIABLES
  fs,    \* path -> [no, dir], the object of every path that exists
  fsOps  \* calls made

Path == PathsUpTo(Names, MaxDepth)
Objects == {fs[p] : p \in DOMAIN fs}
IsDir(p) == p \in DOMAIN fs /\ fs[p].dir
Entries(p) == {q \in DOMAIN fs : Dir(q) = p}
At(o) == CHOOSE p \in DOMAIN fs : fs[p] = o
Exists(o) == o \in Objects

(* The directories at or below p. *)
DirsUnder(p) == {q \in DOMAIN fs : Under(q, p) /\ fs[q].dir}

TreeInit ==
  /\ LET Start == InitDirs \cup InitFiles
         number == CHOOSE f \in [Start -> 1..Cardinality(Start)] : IsInjective(f)
     IN  fs = [p \in Start |-> [no |-> number[p], dir |-> p \in InitDirs]]
  /\ fsOps = 0

CanChange == fsOps < MaxFsOps /\ fsOps' = fsOps + 1

NewObject(isDir) ==
  [no |-> Cardinality(InitDirs) + Cardinality(InitFiles) + fsOps + 1, dir |-> isDir]

(* mkdir, or the creation of a file. *)
Make(p, isDir) ==
  /\ CanChange /\ (IF isDir THEN "mkdir" ELSE "mkfile") \in TreeCalls
  /\ p \notin DOMAIN fs /\ IsDir(Dir(p))
  /\ fs' = [q \in DOMAIN fs \cup {p} |-> IF q = p THEN NewObject(isDir) ELSE fs[q]]

(* rmdir, or unlink. *)
Unlink(p) ==
  /\ CanChange /\ "unlink" \in TreeCalls
  /\ p \in DOMAIN fs /\ Entries(p) = {}
  /\ fs' = Restrict(fs, DOMAIN fs \ {p})

(* rename to a path that does not exist. *)
Move(p, q) ==
  LET moved == {x \in DOMAIN fs : Under(x, p)}
      To(x) == Rebased(x, p, q)
  IN  /\ CanChange /\ "rename" \in TreeCalls
      /\ p \in DOMAIN fs /\ q \notin DOMAIN fs /\ IsDir(Dir(q)) /\ ~Under(q, p)
      /\ \A x \in moved : Len(To(x)) <= MaxDepth
      /\ fs' = [x \in (DOMAIN fs \ moved) \cup {To(y) : y \in moved} |->
                  IF Under(x, q) THEN fs[Rebased(x, q, p)] ELSE fs[x]]

(* rename of a file to the path of another file, which is removed by it. *)
Replace(p, q) ==
  /\ CanChange /\ "replace" \in TreeCalls
  /\ {p, q} \subseteq DOMAIN fs /\ p # q /\ ~fs[p].dir /\ ~fs[q].dir
  /\ fs' = [x \in DOMAIN fs \ {p} |-> IF x = q THEN fs[p] ELSE fs[x]]

(* chmod, or a write. *)
Touch(p) == CanChange /\ "touch" \in TreeCalls /\ p \in DOMAIN fs /\ UNCHANGED fs

treeVars == <<fs, fsOps>>

(* An assignment to an entry of a map. *)
Assign(f, x, value) == [y \in DOMAIN f \cup {x} |-> IF y = x THEN value ELSE f[y]]
=============================================================================
