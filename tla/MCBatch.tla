------------------------------- MODULE MCBatch -------------------------------
(* Small instances of Batch for TLC. *)
EXTENDS BatchStore, TLC

CONSTANTS i1, i2, d1, d2, p1, p2, p3, p4, p5

OneImage == <<i1>>
TwoImages == <<i1, i2>>

OwnFolder == i1 :> d1 @@ i2 :> d2
OnlyFolder == i1 :> d1
SameFolder == i1 :> d1 @@ i2 :> d1

FullList == {<<p1, p2>>}
OneList == {<<p1>>}

(* p3 is a name no collector has; p5 was done in the old layout. *)
MixedLists == {<<p3, p1>>, <<p5, p1, p2>>}
OldLayout == {<<d1, p5>>}

(* p4 is the built-in that p1 supersedes; an older run left its output. *)
NewOverOld == {<<p1, p4>>}
OldOutput == {<<d1, p4>>}
None == {}

=============================================================================
