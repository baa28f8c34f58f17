-------------------------------- MODULE MCFen --------------------------------
(***************************************************************************)
(* Small instances of the FEN backend: R is the directory users watch, O   *)
(* one beside it, the others lie below R.                                  *)
(***************************************************************************)
EXTENDS FenProps

R == <<1>>
O == <<2>>
A == <<1, 1>>
OB == <<2, 2>>
None == {}
OnlyR == {R}
OnlyA == {A}
F == <<1, 2>>
OnlyF == {F}
RA == {R, A}
RAO == {R, A, O}
RAOB == {R, A, O, OB}
=============================================================================
