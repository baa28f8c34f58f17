-------------------------------- MODULE MCKqueue --------------------------------
(***************************************************************************)
(* Small instances of the kqueue backend: R is the directory users watch, O   *)
(* one beside it, the others lie below R.                                  *)
(***************************************************************************)
EXTENDS KqueueProps

R == <<1>>
O == <<2>>
A == <<1, 1>>
OB == <<2, 2>>
None == {}
OnlyR == {R}
OnlyA == {A}
F == <<1, 2>>
OnlyF == {F}
AF == <<1, 1, 1>>
OnlyAF == {AF}
RA == {R, A}
RAO == {R, A, O}
RAOB == {R, A, O, OB}
=============================================================================
