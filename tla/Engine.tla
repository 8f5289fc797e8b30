-------------------------------- MODULE Engine --------------------------------
(***************************************************************************)
(* The engine's Processes as a whole: the recovery pre-pass and the pool   *)
(* sweep it makes possible.  poolScanProcesses runs once the process list  *)
(* is built, and only with the two recoveries that let it tell an object   *)
(* from an echo of the tag: object typing and the PID offset.              *)
(***************************************************************************)
EXTENDS Recovery, PoolSweep

CONSTANT ScanEnabled    \* ANAMNESIS_POOLSCAN

ASSUME EngineAssumption == Memories \subseteq Memory /\ ScanEnabled \in BOOLEAN

engineVars == <<vars, sweepVars>>

EngineInit == Init /\ SweepInit

Typed == rec.typing /\ rec.pid

BeginSweep ==
    /\ pc = "scan" /\ ScanEnabled /\ Typed /\ pass = "off"
    /\ StartSweep(img.memory)
    /\ UNCHANGED vars

DuringSweep == pc = "scan" /\ SweepNext /\ UNCHANGED vars

Scanned ==
    /\ \/ ~ScanEnabled \/ ~Typed
       \/ pass = "done"
    /\ Scan /\ EndSweep

(* Everything before the scan and after it, and the end of the process.       *)
Elsewhere ==
    /\ RecoveryNext /\ (pc = "scan" => pc' = "idle")
    /\ EndSweep

EngineNext == BeginSweep \/ DuringSweep \/ Scanned \/ Elsewhere

EngineSpec == EngineInit /\ [][EngineNext]_engineVars

EngineTypeOK == RecoveryTypeOK /\ SweepTypeOK
=============================================================================
