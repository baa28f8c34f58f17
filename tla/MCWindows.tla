------------------------------ MODULE MCWindows ------------------------------
(***************************************************************************)
(* Small instances of the Windows backend: a volume V, a directory R in it *)
(* that users watch as a recursive root, and what can come up beside and   *)
(* below it.                                                               *)
(***************************************************************************)
EXTENDS WindowsProps

V == <<1>>
R == <<1, 1>>
F == <<1, 2>>
VR == {V, R}
OnlyR == {R}
OnlyV == {V}
OnlyF == {F}
VAndF == {V, F}
Symmetry == Permutations(Callers)
NoPath == {}
=============================================================================
