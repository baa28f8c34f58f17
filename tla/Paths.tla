------------------------------- MODULE Paths -------------------------------
(***************************************************************************)
(* Cleaned path names as sequences of components.  The empty sequence is   *)
(* the directory every path of a model hangs from; it is never watched.    *)
(***************************************************************************)
EXTENDS Naturals, Sequences

(* filepath.Dir and filepath.Join with a single entry. *)
Dir(p) == SubSeq(p, 1, Len(p) - 1)
Join(p, name) == Append(p, name)

(* path is root or lies below it. *)
Under(path, root) ==
  /\ Len(root) <= Len(path)
  /\ SubSeq(path, 1, Len(root)) = root

(* The path that path gets when oldPath, at or above it, becomes newPath. *)
Rebased(path, oldPath, newPath) ==
  newPath \o SubSeq(path, Len(oldPath) + 1, Len(path))

(* Every path of at most depth components. *)
PathsUpTo(Names, depth) == UNION {[1..n -> Names] : n \in 1..depth}
=============================================================================
