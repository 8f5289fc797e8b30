------------------------------ MODULE BatchStore ------------------------------
(* Batch implements CarStore. *)
EXTENDS BatchLedger

CONSTANT Folder \* any output folder

ASSUME FolderAssumption == Folder \in Dests

CarRaw == [p \in Plugins |-> file[<<Folder, p>>]]
CarHeld == {l \in Plugins \X (Kinds \ {"absent"}) : rows[<<Folder, l[1]>>] = l[2]}
CarBuilding == pc \in {"schema", "fill"} /\ Dest = Folder

C == INSTANCE CarStore WITH
        Contents <- Kinds,
        Present <- Kinds \ {"absent"},
        Usable <- {k \in Kinds : Valid(k)},
        MaySkip <- FALSE,
        MayStay <- FALSE,
        raw <- CarRaw,
        store <- store[Folder],
        held <- CarHeld,
        building <- CarBuilding

(* Over any sequence of processes, kills and reruns, and with two images in    *)
(* one folder too, car.db is rebuilt as a whole or left unfinished: no raw     *)
(* output changes under a build, and a store once complete holds just what     *)
(* could be loaded then, until the next build drops it.                        *)
ImplementsCarStore == C!Spec

=============================================================================
