----------------------------- MODULE StoreBuildCar -----------------------------
(***************************************************************************)
(* StoreBuild implements CarStore.  No file says whether car.db came from  *)
(* a build that reached its end, so a history variable does.               *)
(***************************************************************************)
EXTENDS StoreBuild

VARIABLE whole  \* the last build of car.db returned no error

carvars == <<vars, whole>>

CarInit == Init /\ whole = FALSE

(* BuildStore returns, or the store is gone, or open again.                    *)
CarNext ==
    /\ Next
    /\ whole' = (Built \/ (whole /\ db'.made /\ pc' # "events"))

CarSpec == CarInit /\ [][CarNext]_carvars

(* A source as an output and what it held.                                     *)
AsLoad(s) == <<s.plugin, [kind |-> s.kind, by |-> s.by]>>

CarHeld == {AsLoad(r.src) : r \in db.rows}
CarState == IF ~db.made THEN "none" ELSE IF whole THEN "complete" ELSE "partial"

C == INSTANCE CarStore WITH
        Contents <- Outputs,
        Present <- {c \in Outputs : c.kind # "absent"},
        Usable <- {c \in Outputs : HasRecords(c)},
        MaySkip <- "read" \in Faults,
        MayStay <- "remove" \in Faults,
        store <- CarState,
        held <- CarHeld,
        building <- pc \in BuildStates \ {"rm_db"}

(* Runs of the command line and of the batch, whatever fails and wherever they *)
(* are killed, treat the folder as CarStore allows: a store drops the one      *)
(* before it or, when it cannot, is added to, and counts as complete only      *)
(* with all that the raw outputs had to give.                                  *)
ImplementsCarStore == C!Spec

=============================================================================
