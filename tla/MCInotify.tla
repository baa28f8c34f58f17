------------------------------ MODULE MCInotify ------------------------------
(***************************************************************************)
(* Small instances of the inotify backend.  Paths are sequences of         *)
(* numbers; <<1>> is the directory the users watch, <<2>> one beside it.   *)
(***************************************************************************)
EXTENDS InotifyProps

R == <<1>>         \* the tree the users watch
O == <<2>>         \* a directory beside it
A == <<1, 1>>
B == <<1, 2>>
NoPaths == {}
OnlyR == {R}
OnlyA == {A}
OnlyB == {B}
RAndA == {R, A}
RAndAB == {R, A, B}
NoWayBack == {R, O, B}
=============================================================================
