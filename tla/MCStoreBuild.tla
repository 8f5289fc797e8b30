---------------------------- MODULE MCStoreBuild ----------------------------
(* Small instance of StoreBuild for TLC. *)
EXTENDS StoreBuildCar

CONSTANTS
    new, old,   \* a native collector and the built-in it supersedes
    info,       \* a plugin without a CAR map
    malfind     \* the trigger

CONSTANT thread \* the object of both

Successor == {<<new, old>>}
ToThread == [p \in {new, old} |-> thread]

(* A first run over everything, then runs of subsets. *)
SomeLists == {{new, info}, {old, malfind}}

=============================================================================
