--------------------------- MODULE StoreBuildProofs ---------------------------
(***************************************************************************)
(* Theorems about one output folder, for any plugins, objects, supersede   *)
(* rules, modes, lists of collectors, failures, runs and kills: what is    *)
(* rendered agrees with car.db, and car.db with the raw output; the folder *)
(* is a CarStore.                                                          *)
(***************************************************************************)
EXTENDS StoreBuildCar, TLAPS

(* What the loop in progress has left, by kind.                                *)
LeftOK ==
    /\ pc \in {"engine", "collect", "reap"} => left \subseteq Plugins
    /\ pc \in {"rm_csv", "csv"} => left \subseteq Objects
    /\ pc = "context" => left \subseteq context

(* Whatever has records was written by a run.                                  *)
RawDated ==
    /\ pc # "idle" => run # 0
    /\ \A p \in Plugins : HasRecords(raw[p]) => raw[p].by # 0

Inv1 == TypeOK /\ LeftOK /\ RawDated

(* From the load to the end of the run what is loaded is what is on disk.      *)
AfterLoad == BuildStates \cup {"json", "csv", "status"}

LoadedFromDisk ==
    pc \in AfterLoad =>
      /\ events = {Source(p) : p \in (Wanted \ missed) \cap Mapped}
      /\ context = {Source(p) : p \in (Wanted \ missed) \ Mapped}

(* No row is of a later run; until rows are added, none is of this one.        *)
Unfilled == {"engine", "collect", "rm_db", "rm_timeline", "rm_csv", "events"}

Older ==
    \A r \in db.rows : r.build <= run /\ (pc \in Unfilled => r.build # run)

(* What this run has added, so far and in the end.                             *)
Added == {r \in db.rows : r.build = run}

Filled ==
    /\ pc = "context" => Added = Stamp(events \cup (context \ left), run)
    /\ pc \in {"json", "csv", "status"} => Added = Stamp(events \cup context, run)

(* A store that could be removed holds nothing else.                           *)
Fresh ==
    pc \in {"rm_timeline", "rm_csv", "events", "context"} /\ "db" \notin stuck => db.rows = Added

Inv2 == LoadedFromDisk /\ Older /\ Filled /\ Fresh

(* Views that could be removed are gone when rows are added.                   *)
Waiting == IF pc = "rm_csv" THEN left ELSE {}

Cleared ==
    pc \in {"rm_csv", "events", "context"} =>
      /\ "timeline" \notin stuck => timeline = NoView
      /\ \A o \in Objects \ (stuck \cup Waiting) : csv[o] = NoView

AbsentIsEmpty == \A o \in Objects : csv[o].kind = "absent" => csv[o] = NoView

Inv3 == Cleared /\ AbsentIsEmpty /\ ViewsMatchStore

-----------------------------------------------------------------------------
(* Types. *)

(* A file with records is a source.                                            *)
LEMMA SourceType ==
    ASSUME Inv1, NEW p \in Wanted
    PROVE  p \in Plugins /\ Source(p) \in Sources
<1>1. p \in Plugins /\ raw[p] \in Outputs /\ raw[p].by # 0 /\ raw[p].kind \in {"cut", "full"}
  BY DEF Inv1, TypeOK, RawDated, Wanted, HasRecords
<1>2. raw[p].by \in 1 .. MaxRuns
  BY <1>1, StoreBuildAssumption DEF Outputs
<1> QED BY <1>1, <1>2 DEF Source, Sources

(* Rows made of sources are rows.                                              *)
LEMMA StampType ==
    ASSUME NEW s \in SUBSET Sources, NEW b \in 1 .. MaxRuns
    PROVE  Stamp(s, b) \subseteq Rows
BY DEF Stamp, Rows

(* Stores and views, taken apart and put together.                             *)
LEMMA StoreType ==
    /\ NoDb \in Stores
    /\ \A d \in Stores : d.rows \in SUBSET Rows /\ d.made \in BOOLEAN
    /\ \A rs \in SUBSET Rows : [made |-> TRUE, rows |-> rs] \in Stores
BY DEF Stores, NoDb

LEMMA ViewType ==
    /\ NoView \in Views
    /\ \A k \in {"torn", "whole"}, rs \in SUBSET Rows : [kind |-> k, of |-> rs] \in Views
BY DEF Views, NoView

LEMMA Init1 == Init => Inv1
<1> SUFFICES ASSUME Init PROVE Inv1
  OBVIOUS
<1> USE StoreBuildAssumption DEF Init
<1>1. raw \in [Plugins -> Outputs] /\ RawDated
  BY DEF Outputs, Kinds, Gone, RawDated, HasRecords
<1>2. db \in Stores /\ timeline \in Views /\ csv \in [Objects -> Views]
  BY StoreType, ViewType
<1>3. LeftOK
  BY DEF LeftOK
<1> QED BY <1>1, <1>2, <1>3 DEF Inv1, TypeOK, PcStates, BuildStates

(* A failure keeps types: it ends the run, or leaves the list to be reaped.    *)
LEMMA FailsType ==
    ASSUME Inv1, Fails
    PROVE  /\ pc' \in {"idle", "reap"} /\ left' \in SUBSET (Plugins \cup Objects \cup Sources)
           /\ exit' \in {0, 1, 137}
           /\ pc' = "reap" => left' \subseteq Plugins
BY DEF Inv1, TypeOK, Fails, Exit

(* What the ends of a build and the writing of one table do.                   *)
LEMMA BuiltChoice ==
    Built => \/ pc' = "reap" /\ left' = list
             \/ pc' \in {"json", "status"} /\ left' = left
             \/ pc' = "csv" /\ left' = Counted
BY DEF Built

LEMMA CsvChoice ==
    WriteObjectCSV \/ WriteObjectCSVFails =>
      \E o \in left :
        /\ \/ csv' = [csv EXCEPT ![o] = [kind |-> "whole", of |-> ObjectRows(db.rows, o)]]
           \/ csv' = [csv EXCEPT ![o] = [kind |-> "torn", of |-> ObjectRows(db.rows, o)]]
           \/ UNCHANGED csv
        /\ \/ left' = left \ {o} /\ UNCHANGED pc
           \/ UNCHANGED left /\ pc' = "status"
        /\ stuck' = stuck \ {o} \/ UNCHANGED stuck
<1>1. CASE WriteObjectCSV
  BY <1>1 DEF WriteObjectCSV, Unstick
<1>2. CASE WriteObjectCSVFails
  BY <1>2 DEF WriteObjectCSVFails, Unstick
<1> QED BY <1>1, <1>2

LEMMA Next1 == Inv1 /\ [Next]_vars => Inv1'
<1> SUFFICES ASSUME Inv1, [Next]_vars PROVE Inv1'
  OBVIOUS
<1> USE StoreBuildAssumption
<1> DEFINE
      Folder == /\ raw \in [Plugins -> Outputs]
                /\ db \in Stores
                /\ timeline \in Views /\ csv \in [Objects -> Views]
                /\ \A p \in Plugins : HasRecords(raw[p]) => raw[p].by # 0
      Process == /\ pc \in PcStates /\ mode \in Modes \cup {"bare"}
                 /\ list \subseteq Plugins /\ left \subseteq Plugins \cup Objects \cup Sources
                 /\ events \subseteq Sources /\ context \subseteq Sources
                 /\ LeftOK
      Operator == /\ run \in 0 .. MaxRuns /\ kills \in 0 .. MaxKills /\ exit \in {0, 1, 137}
                  /\ stuck \subseteq {"db", "timeline"} \cup Objects /\ missed \subseteq Plugins
                  /\ pc # "idle" => run # 0
<1>0. Inv1 <=> Folder /\ Process /\ Operator
  BY DEF Inv1, TypeOK, RawDated
<1>0a. (Folder' /\ Process' /\ Operator') => Inv1'
  BY DEF Inv1, TypeOK, RawDated
<1>0b. Folder /\ UNCHANGED folder => Folder'
  BY DEF folder, HasRecords
<1>0c. Folder /\ Process /\ Operator
  BY <1>0
<1> HIDE DEF Folder
<1> USE DEF PcStates, BuildStates, LeftOK
<1>1. CASE Invoke
  <2>1. PICK m \in Modes, l \in Lists :
          LET todo == IF m = "batch" THEN {p \in l : ~HasRecords(raw[p])} ELSE l IN
          /\ mode' = m /\ list' = todo /\ left' = todo
          /\ IF m = "batch" /\ todo = {} THEN Exit(0) ELSE pc' = "engine" /\ UNCHANGED exit
    BY <1>1 DEF Invoke
  <2>2. l \subseteq Plugins
    OBVIOUS
  <2>3. Process' /\ Operator'
    BY <1>0c, <1>1, <2>1, <2>2 DEF Invoke, Exit, loaded
  <2> QED BY <1>0a, <1>0b, <1>0c, <1>1, <2>3 DEF Invoke
<1>2. CASE OpenEngine
  <2>1. Process' /\ Operator'
    BY <1>0c, <1>2, FailsType DEF OpenEngine, loaded
  <2> QED BY <1>0a, <1>0b, <1>0c, <1>2, <2>1 DEF OpenEngine
<1>3. CASE Collect
  <2>1. Process' /\ Operator'
    BY <1>0c, <1>3 DEF Collect, loaded
  <2>2. run \in 1 .. MaxRuns
    BY <1>0c, <1>3 DEF Collect
  <2>3. PICK p \in left : \/ \E k \in Kinds \ {"absent"} : raw' = [raw EXCEPT ![p] = [kind |-> k, by |-> run]]
                          \/ UNCHANGED raw
    BY <1>3 DEF Collect
  <2>4. Folder'
    <3>1. db' = db /\ timeline' = timeline /\ csv' = csv
      BY <1>3 DEF Collect, views
    <3>2. raw' \in [Plugins -> Outputs]
      BY <1>0c, <2>2, <2>3 DEF Folder, Outputs
    <3>3. ASSUME NEW q \in Plugins, HasRecords(raw'[q]) PROVE raw'[q].by # 0
      BY <1>0c, <2>2, <2>3, <3>3 DEF Folder, HasRecords
    <3> QED BY <1>0c, <3>1, <3>2, <3>3 DEF Folder, HasRecords
  <2> QED BY <1>0a, <2>1, <2>4
<1>4. CASE Stalled
  <2>1. Process' /\ Operator'
    BY <1>0c, <1>4 DEF Stalled, Exit, loaded
  <2> QED BY <1>0a, <1>0b, <1>0c, <1>4, <2>1 DEF Stalled
<1>5. CASE Load
  <2>1. PICK m \in (IF "read" \in Faults THEN SUBSET Wanted ELSE {{}}) :
          /\ missed' = m
          /\ events' = {Source(p) : p \in (Wanted \ m) \cap Mapped}
          /\ context' = {Source(p) : p \in (Wanted \ m) \ Mapped}
    BY <1>5 DEF Load
  <2>2. m \subseteq Plugins /\ events' \subseteq Sources /\ context' \subseteq Sources
    BY <2>1, SourceType
  <2>3. Process' /\ Operator'
    BY <1>0c, <1>5, <2>1, <2>2 DEF Load
  <2> QED BY <1>0a, <1>0b, <1>0c, <1>5, <2>3 DEF Load
<1>6. CASE RemoveDb
  <2>1. Process' /\ Operator'
    BY <1>0c, <1>6 DEF RemoveDb, Unstick, loaded
  <2>2. Folder'
    BY <1>0c, <1>6, StoreType DEF RemoveDb, Folder, views
  <2> QED BY <1>0a, <2>1, <2>2
<1>7. CASE RemoveTimeline
  <2>1. Process' /\ Operator'
    BY <1>0c, <1>7 DEF RemoveTimeline, Unstick, loaded
  <2>2. Folder'
    BY <1>0c, <1>7, ViewType DEF RemoveTimeline, Folder
  <2> QED BY <1>0a, <2>1, <2>2
<1>8. CASE RemoveCsv
  <2>1. PICK o \in left : /\ left' = left \ {o}
                          /\ csv' = [csv EXCEPT ![o] = NoView] \/ UNCHANGED csv
                          /\ stuck' = stuck \cup {o} \/ stuck' = stuck \ {o}
    BY <1>8 DEF RemoveCsv, Unstick
  <2>2. o \in Objects
    BY <1>0c, <1>8, <2>1 DEF RemoveCsv
  <2>3. Process'
    BY <1>0c, <1>8, <2>1, <2>2 DEF RemoveCsv, loaded
  <2>3b. stuck' \subseteq {"db", "timeline"} \cup Objects
    <3>1. stuck' \subseteq stuck \cup {o}
      BY <2>1
    <3>2. stuck \subseteq {"db", "timeline"} \cup Objects
      BY <1>0c
    <3> QED BY <2>2, <3>1, <3>2
  <2>3a. Operator'
    BY <1>0c, <1>8, <2>3b DEF RemoveCsv
  <2>4. Folder'
    BY <1>0c, <1>8, <2>1, <2>2, ViewType DEF RemoveCsv, Folder
  <2> QED BY <1>0a, <2>3, <2>3a, <2>4
<1>9. CASE OpenStore
  <2>1. Process' /\ Operator'
    BY <1>0c, <1>9, FailsType DEF OpenStore, loaded
  <2>2. Folder'
    BY <1>0c, <1>9, StoreType DEF OpenStore, Folder, views
  <2> QED BY <1>0a, <2>1, <2>2
<1>10. CASE InsertEvents
  <2>1. Process' /\ Operator'
    BY <1>0c, <1>10, FailsType DEF InsertEvents, loaded
  <2>2. Stamp(events, run) \subseteq Rows
    BY <1>0c, <1>10, StampType DEF InsertEvents
  <2>3. Folder'
    BY <1>0c, <1>10, <2>2, StoreType DEF InsertEvents, Folder, views
  <2> QED BY <1>0a, <2>1, <2>3
<1>11. CASE InsertContext
  <2>1. Process' /\ Operator'
    BY <1>0c, <1>11, FailsType DEF InsertContext, loaded
  <2>2. \A s \in left : Stamp({s}, run) \subseteq Rows
    BY <1>0c, <1>11, StampType DEF InsertContext
  <2>3. Folder'
    BY <1>0c, <1>11, <2>2, StoreType DEF InsertContext, Folder, views
  <2> QED BY <1>0a, <2>1, <2>3
<1>12. CASE Built
  <2>0. Counted \subseteq Objects
    BY DEF Counted
  <2>1. Process' /\ Operator'
    BY <1>0c, <1>12, <2>0, BuiltChoice DEF Built, loaded
  <2> QED BY <1>0a, <1>0b, <1>0c, <1>12, <2>1 DEF Built
<1>13. CASE WriteTimelineJSON
  <2>1. Process' /\ Operator'
    BY <1>0c, <1>13 DEF WriteTimelineJSON, Unstick, loaded
  <2>2. EventRows(db.rows) \subseteq Rows
    BY <1>0c, StoreType DEF Folder, EventRows
  <2>3. timeline' \in Views
    BY <1>0c, <1>13, <2>2, ViewType DEF WriteTimelineJSON, Render, Folder
  <2>4. Folder'
    BY <1>0c, <1>13, <2>3 DEF WriteTimelineJSON, Folder
  <2> QED BY <1>0a, <2>1, <2>4
<1>14. CASE WriteObjectCSV \/ WriteObjectCSVFails
  <2>1. PICK o \in left :
          /\ \/ csv' = [csv EXCEPT ![o] = [kind |-> "whole", of |-> ObjectRows(db.rows, o)]]
             \/ csv' = [csv EXCEPT ![o] = [kind |-> "torn", of |-> ObjectRows(db.rows, o)]]
             \/ UNCHANGED csv
          /\ \/ left' = left \ {o} /\ UNCHANGED pc
             \/ UNCHANGED left /\ pc' = "status"
          /\ stuck' = stuck \ {o} \/ UNCHANGED stuck
    BY <1>14, CsvChoice
  <2>2. /\ pc = "csv" /\ o \in Objects
        /\ UNCHANGED <<raw, db, timeline, mode, list, events, context, run, kills, exit, missed>>
    BY <1>0c, <1>14 DEF WriteObjectCSV, WriteObjectCSVFails, loaded
  <2>3. Process' /\ Operator'
    BY <1>0c, <2>1, <2>2
  <2>4. ObjectRows(db.rows, o) \subseteq Rows
    BY <1>0c, StoreType DEF Folder, EventRows, ObjectRows
  <2>5. Folder'
    BY <1>0c, <2>1, <2>2, <2>4, ViewType DEF Folder
  <2> QED BY <1>0a, <2>3, <2>5
<1>15. CASE Status
  <2>1. Process' /\ Operator'
    BY <1>0c, <1>15 DEF Status, loaded
  <2> QED BY <1>0a, <1>0b, <1>0c, <1>15, <2>1 DEF Status
<1>16. CASE Reap
  <2>1. Process' /\ Operator'
    BY <1>0c, <1>16 DEF Reap, loaded
  <2>2. Folder'
    BY <1>0c, <1>16 DEF Reap, Folder, views, HasRecords, Gone, Outputs, Kinds
  <2> QED BY <1>0a, <2>1, <2>2
<1>17. CASE EndImage
  <2>1. Process' /\ Operator'
    BY <1>0c, <1>17 DEF EndImage, Exit, loaded
  <2> QED BY <1>0a, <1>0b, <1>0c, <1>17, <2>1 DEF EndImage
<1>18. CASE Kill
  <2>1. Process' /\ Operator'
    BY <1>0c, <1>18 DEF Kill, Exit, loaded
  <2> QED BY <1>0a, <1>0b, <1>0c, <1>18, <2>1 DEF Kill
<1>19. CASE UNCHANGED vars
  <2>1. Process' /\ Operator'
    BY <1>0c, <1>19 DEF vars
  <2> QED BY <1>0a, <1>0b, <1>0c, <1>19, <2>1 DEF vars, folder
<1> QED
  BY <1>1, <1>2, <1>3, <1>4, <1>5, <1>6, <1>7, <1>8, <1>9, <1>10, <1>11, <1>12, <1>13, <1>14,
     <1>15, <1>16, <1>17, <1>18, <1>19 DEF Next

-----------------------------------------------------------------------------
(* Which steps reach and leave a build, and touch the store.                   *)

LEMMA BuildFrame ==
    ASSUME [Next]_vars, ~Load, pc' \in AfterLoad
    PROVE  pc \in AfterLoad /\ UNCHANGED <<raw, events, context, missed, run>>
<1> USE DEF AfterLoad, BuildStates
<1>1. CASE Invoke \/ OpenEngine \/ Collect \/ Stalled
  BY <1>1 DEF Invoke, OpenEngine, Collect, Stalled, Exit, Fails
<1>2. CASE RemoveDb \/ RemoveTimeline \/ RemoveCsv
  BY <1>2 DEF RemoveDb, RemoveTimeline, RemoveCsv, loaded
<1>3. CASE OpenStore \/ InsertEvents \/ InsertContext
  BY <1>3 DEF OpenStore, InsertEvents, InsertContext, loaded
<1>4. CASE Built \/ WriteTimelineJSON \/ WriteObjectCSV \/ WriteObjectCSVFails
  BY <1>4 DEF Built, WriteTimelineJSON, WriteObjectCSV, WriteObjectCSVFails, folder, loaded
<1>5. CASE Status \/ Reap \/ EndImage \/ Kill
  BY <1>5 DEF Status, Reap, EndImage, Kill, Exit
<1>6. CASE UNCHANGED vars
  BY <1>6 DEF vars
<1> QED BY <1>1, <1>2, <1>3, <1>4, <1>5, <1>6 DEF Next

LEMMA DbFrame ==
    ASSUME [Next]_vars, ~RemoveDb, ~OpenStore, ~InsertEvents, ~InsertContext
    PROVE  UNCHANGED db
<1>1. CASE Invoke \/ OpenEngine \/ Collect \/ Stalled \/ Load
  BY <1>1 DEF Invoke, OpenEngine, Collect, Stalled, Load, folder
<1>2. CASE RemoveTimeline \/ RemoveCsv
  BY <1>2 DEF RemoveTimeline, RemoveCsv
<1>3. CASE Built \/ WriteTimelineJSON \/ WriteObjectCSV \/ WriteObjectCSVFails
  BY <1>3 DEF Built, WriteTimelineJSON, WriteObjectCSV, WriteObjectCSVFails, folder
<1>4. CASE Status \/ Reap \/ EndImage \/ Kill
  BY <1>4 DEF Status, Reap, EndImage, Kill, folder
<1>5. CASE UNCHANGED vars
  BY <1>5 DEF vars
<1> QED BY <1>1, <1>2, <1>3, <1>4, <1>5 DEF Next

(* Only the removal of car.db makes it stuck or not.                           *)
LEMMA StuckFrame ==
    ASSUME Inv1, [Next]_vars, ~RemoveDb
    PROVE  "db" \in stuck' <=> "db" \in stuck
<1>0. \A o \in Objects : o # "db"
  BY StoreBuildAssumption
<1>1. CASE Invoke \/ OpenEngine \/ Collect \/ Stalled \/ Load
  BY <1>1 DEF Invoke, OpenEngine, Collect, Stalled, Load
<1>2. CASE RemoveTimeline
  BY <1>2 DEF RemoveTimeline, Unstick
<1>3. CASE RemoveCsv \/ WriteObjectCSV \/ WriteObjectCSVFails
  <2>1. \A o \in left : o # "db"
    BY <1>0, <1>3 DEF Inv1, LeftOK, RemoveCsv, WriteObjectCSV, WriteObjectCSVFails
  <2> QED BY <1>3, <2>1 DEF RemoveCsv, WriteObjectCSV, WriteObjectCSVFails, Unstick
<1>4. CASE OpenStore \/ InsertEvents \/ InsertContext \/ Built
  BY <1>4 DEF OpenStore, InsertEvents, InsertContext, Built
<1>5. CASE WriteTimelineJSON
  BY <1>5 DEF WriteTimelineJSON, Unstick
<1>6. CASE Status \/ Reap \/ EndImage \/ Kill
  BY <1>6 DEF Status, Reap, EndImage, Kill
<1>7. CASE UNCHANGED vars
  BY <1>7 DEF vars
<1> QED BY <1>1, <1>2, <1>3, <1>4, <1>5, <1>6, <1>7 DEF Next

(* A run starts from nothing else than an invocation.                          *)
LEMMA RunFrame ==
    ASSUME [Next]_vars, ~Invoke
    PROVE  /\ UNCHANGED run
           /\ pc' \in Unfilled => pc \in Unfilled
<1> USE DEF Unfilled
<1>1. CASE OpenEngine \/ Collect \/ Stalled \/ Load
  BY <1>1 DEF OpenEngine, Collect, Stalled, Load, Exit, Fails
<1>2. CASE RemoveDb \/ RemoveTimeline \/ RemoveCsv
  BY <1>2 DEF RemoveDb, RemoveTimeline, RemoveCsv
<1>3. CASE OpenStore \/ InsertEvents \/ InsertContext
  BY <1>3 DEF OpenStore, InsertEvents, InsertContext, Fails, Exit
<1>4. CASE Built \/ WriteTimelineJSON \/ WriteObjectCSV \/ WriteObjectCSVFails
  BY <1>4 DEF Built, WriteTimelineJSON, WriteObjectCSV, WriteObjectCSVFails
<1>5. CASE Status \/ Reap \/ EndImage \/ Kill
  BY <1>5 DEF Status, Reap, EndImage, Kill, Exit
<1>6. CASE UNCHANGED vars
  BY <1>6 DEF vars
<1> QED BY <1>1, <1>2, <1>3, <1>4, <1>5, <1>6 DEF Next

-----------------------------------------------------------------------------
(* What is loaded, and what the build adds.                                    *)

LEMMA DiskKept ==
    ASSUME UNCHANGED raw
    PROVE  Wanted' = Wanted /\ \A p \in Plugins : Source(p)' = Source(p)
BY DEF Wanted, Superseded, HasRecords, Source

LEMMA NextLoaded == Inv1 /\ LoadedFromDisk /\ [Next]_vars => LoadedFromDisk'
<1> SUFFICES ASSUME Inv1, LoadedFromDisk, [Next]_vars, pc' \in AfterLoad
             PROVE  /\ events' = {Source(p)' : p \in (Wanted' \ missed') \cap Mapped}
                    /\ context' = {Source(p)' : p \in (Wanted' \ missed') \ Mapped}
  BY DEF LoadedFromDisk
<1>0. UNCHANGED raw
  BY BuildFrame DEF Load, folder
<1>1. Wanted' = Wanted /\ \A p \in Wanted : Source(p)' = Source(p)
  BY <1>0, DiskKept DEF Wanted
<1>2. CASE Load
  <2>1. /\ events' = {Source(p) : p \in (Wanted \ missed') \cap Mapped}
        /\ context' = {Source(p) : p \in (Wanted \ missed') \ Mapped}
    BY <1>2 DEF Load
  <2> QED BY <1>1, <2>1
<1>3. CASE ~Load
  <2>1. pc \in AfterLoad /\ UNCHANGED <<events, context, missed>>
    BY <1>3, BuildFrame
  <2>2. /\ events = {Source(p) : p \in (Wanted \ missed) \cap Mapped}
        /\ context = {Source(p) : p \in (Wanted \ missed) \ Mapped}
    BY <2>1 DEF LoadedFromDisk
  <2> QED BY <1>1, <2>1, <2>2
<1> QED BY <1>2, <1>3

LEMMA NextOlder == Inv1 /\ Older /\ [Next]_vars => Older'
<1> SUFFICES ASSUME Inv1, Older, [Next]_vars, NEW r \in db'.rows
             PROVE  r.build <= run' /\ (pc' \in Unfilled => r.build # run')
  BY DEF Older
<1>0. run \in Nat /\ \A x \in db.rows : x.build \in Nat
  BY StoreType, StoreBuildAssumption DEF Inv1, TypeOK, Rows
<1>1. CASE Invoke
  <2>1. r \in db.rows /\ run' = run + 1
    BY <1>1 DEF Invoke, folder
  <2> QED BY <1>0, <2>1 DEF Older
<1>2. CASE RemoveDb \/ OpenStore
  <2>1. r \in db.rows /\ UNCHANGED run /\ pc \in Unfilled
    BY <1>2 DEF RemoveDb, OpenStore, NoDb, Unfilled
  <2> QED BY <2>1 DEF Older
<1>3. CASE InsertEvents \/ InsertContext
  <2>1. r \in db.rows \/ r.build = run
    BY <1>3 DEF InsertEvents, InsertContext, Stamp
  <2>2. UNCHANGED run /\ pc' \notin Unfilled
    BY <1>3 DEF InsertEvents, InsertContext, Fails, Exit, Unfilled
  <2> QED BY <1>0, <2>1, <2>2 DEF Older
<1>4. CASE ~(Invoke \/ RemoveDb \/ OpenStore \/ InsertEvents \/ InsertContext)
  BY <1>4, DbFrame, RunFrame DEF Older
<1> QED BY <1>1, <1>2, <1>3, <1>4

LEMMA StampUnion ==
    \A s, t, b : Stamp(s \cup t, b) = Stamp(s, b) \cup Stamp(t, b)
BY DEF Stamp

LEMMA StampSources ==
    \A s, b : {r.src : r \in Stamp(s, b)} = s
<1>1. ASSUME NEW s, NEW b, NEW x \in s PROVE x \in {r.src : r \in Stamp(s, b)}
  <2>1. [src |-> x, build |-> b] \in Stamp(s, b) /\ [src |-> x, build |-> b].src = x
    BY DEF Stamp
  <2> QED BY <2>1
<1>2. ASSUME NEW s, NEW b, NEW r \in Stamp(s, b) PROVE r.src \in s
  BY DEF Stamp
<1> QED BY <1>1, <1>2

LEMMA AddedMore ==
    ASSUME NEW rs, NEW s
    PROVE  {r \in rs \cup Stamp(s, run) : r.build = run} = {r \in rs : r.build = run} \cup Stamp(s, run)
BY DEF Stamp

LEMMA NextFilled == Inv1 /\ Older /\ Filled /\ [Next]_vars => Filled'
<1> SUFFICES ASSUME Inv1, Older, Filled, [Next]_vars PROVE Filled'
  OBVIOUS
<1>1. CASE InsertEvents
  <2>1. CASE db' = [made |-> TRUE, rows |-> db.rows \cup Stamp(events, run)] /\ pc' = "context" /\ left' = context
    <3>1. Added = {} /\ UNCHANGED <<events, context, run>>
      BY <1>1 DEF InsertEvents, Older, Added, Unfilled, loaded
    <3>2. Added' = Stamp(events, run)
      BY <2>1, <3>1, AddedMore DEF Added
    <3> QED BY <2>1, <3>1, <3>2 DEF Filled
  <2>2. CASE Fails
    BY <2>2 DEF Fails, Exit, Filled
  <2> QED BY <1>1, <2>1, <2>2 DEF InsertEvents
<1>2. CASE InsertContext
  <2>1. UNCHANGED <<events, context, run>> /\ pc = "context" /\ left \subseteq context
    BY <1>2 DEF InsertContext, loaded, Inv1, LeftOK
  <2>2. ASSUME NEW s \in left, db' = [made |-> TRUE, rows |-> db.rows \cup Stamp({s}, run)],
               left' = left \ {s}, UNCHANGED pc
        PROVE  Filled'
    <3>1. Added' = Added \cup Stamp({s}, run)
      BY <2>1, <2>2, AddedMore DEF Added
    <3>2. events' \cup (context' \ left') = (events \cup (context \ left)) \cup {s}
      BY <2>1, <2>2
    <3>3. Added' = Stamp(events' \cup (context' \ left'), run')
      BY <2>1, <3>1, <3>2, StampUnion DEF Filled
    <3> QED BY <2>1, <2>2, <3>3 DEF Filled
  <2>3. CASE Fails
    BY <2>3 DEF Fails, Exit, Filled
  <2> QED BY <1>2, <2>2, <2>3 DEF InsertContext
<1>3. CASE Built
  <2>1. /\ UNCHANGED <<db, events, context, run>> /\ pc = "context" /\ left = {}
        /\ pc' # "context"
    BY <1>3 DEF Built, folder, loaded
  <2>2. context \ left = context
    BY <2>1
  <2> QED BY <2>1, <2>2 DEF Filled, Added
<1>4. CASE ~(InsertEvents \/ InsertContext \/ Built)
  <2>1. SUFFICES ASSUME pc' \in {"context", "json", "csv", "status"}
                 PROVE  Filled'
    BY DEF Filled
  <2>2. UNCHANGED <<db, events, context, run>>
    <3>1. ~Load /\ ~RemoveDb /\ ~OpenStore
      BY <2>1 DEF Load, RemoveDb, OpenStore, Fails, Exit
    <3> QED BY <1>4, <2>1, <3>1, BuildFrame, DbFrame DEF AfterLoad, BuildStates
  <2>3. /\ pc' = "context" => pc = "context" /\ UNCHANGED left
        /\ pc' # "context" => pc \in {"json", "csv", "status"}
    <3>1. CASE Invoke \/ OpenEngine \/ Collect \/ Stalled \/ Load
      BY <2>1, <3>1 DEF Invoke, OpenEngine, Collect, Stalled, Load, Exit, Fails
    <3>2. CASE RemoveDb \/ RemoveTimeline \/ RemoveCsv \/ OpenStore
      BY <2>1, <3>2 DEF RemoveDb, RemoveTimeline, RemoveCsv, OpenStore, Fails, Exit
    <3>3. CASE WriteTimelineJSON \/ WriteObjectCSV \/ WriteObjectCSVFails \/ Status
      BY <3>3 DEF WriteTimelineJSON, WriteObjectCSV, WriteObjectCSVFails, Status
    <3>4. CASE Reap \/ EndImage \/ Kill
      BY <2>1, <3>4 DEF Reap, EndImage, Kill, Exit
    <3>5. CASE UNCHANGED vars
      BY <2>1, <3>5 DEF vars
    <3> QED BY <1>4, <3>1, <3>2, <3>3, <3>4, <3>5 DEF Next
  <2> QED BY <2>1, <2>2, <2>3 DEF Filled, Added
<1> QED BY <1>1, <1>2, <1>3, <1>4

LEMMA NextFresh == Inv1 /\ Older /\ Fresh /\ [Next]_vars => Fresh'
<1> DEFINE Building == {"rm_timeline", "rm_csv", "events", "context"}
<1> SUFFICES ASSUME Inv1, Older, Fresh, [Next]_vars, pc' \in Building, "db" \notin stuck'
             PROVE  \A r \in db'.rows : r.build = run'
  BY DEF Fresh, Added
<1>1. CASE RemoveDb
  BY <1>1 DEF RemoveDb, NoDb
<1>2. CASE ~RemoveDb
  <2>1. "db" \notin stuck
    BY <1>2, StuckFrame
  <2>2. pc \in Building /\ UNCHANGED run
    <3>1. CASE Invoke \/ OpenEngine \/ Collect \/ Stalled \/ Load
      BY <3>1 DEF Invoke, OpenEngine, Collect, Stalled, Load, Exit, Fails
    <3>2. CASE RemoveTimeline \/ RemoveCsv \/ OpenStore \/ InsertEvents \/ InsertContext
      BY <3>2 DEF RemoveTimeline, RemoveCsv, OpenStore, InsertEvents, InsertContext
    <3>3. CASE Built \/ WriteTimelineJSON \/ WriteObjectCSV \/ WriteObjectCSVFails \/ Status
      BY <3>3 DEF Built, WriteTimelineJSON, WriteObjectCSV, WriteObjectCSVFails, Status
    <3>4. CASE Reap \/ EndImage \/ Kill
      BY <3>4 DEF Reap, EndImage, Kill, Exit
    <3>5. CASE UNCHANGED vars
      BY <3>5 DEF vars
    <3> QED BY <1>2, <3>1, <3>2, <3>3, <3>4, <3>5 DEF Next
  <2>3. \A r \in db.rows : r.build = run
    BY <2>1, <2>2 DEF Fresh, Added
  <2>4. \A r \in db'.rows : r \in db.rows \/ r.build = run
    <3>1. CASE OpenStore \/ InsertEvents \/ InsertContext
      BY <3>1 DEF OpenStore, InsertEvents, InsertContext, Stamp
    <3> QED BY <1>2, <3>1, DbFrame
  <2> QED BY <2>2, <2>3, <2>4
<1> QED BY <1>1, <1>2

LEMMA Init2 == Init => Inv2
BY DEF Init, Inv2, LoadedFromDisk, Older, Filled, Fresh, AfterLoad, BuildStates, NoDb

LEMMA Next2 == Inv1 /\ Inv2 /\ [Next]_vars => Inv2'
BY NextLoaded, NextOlder, NextFilled, NextFresh DEF Inv2

-----------------------------------------------------------------------------
(* One build, without double views.                                            *)

LEMMA NextOneBuild == Inv1 /\ Inv2 /\ OneBuild /\ [Next]_vars => OneBuild'
<1> SUFFICES ASSUME Inv1, Inv2, OneBuild, [Next]_vars, "db" \notin stuck'
             PROVE  \A r, s \in db'.rows : r.build = s.build
  BY DEF OneBuild
<1>1. CASE RemoveDb
  BY <1>1 DEF RemoveDb, NoDb
<1>2. CASE InsertEvents \/ InsertContext
  <2>1. "db" \notin stuck /\ pc \in {"events", "context"}
    BY <1>2, StuckFrame DEF InsertEvents, InsertContext, RemoveDb
  <2>2. \A r \in db.rows : r.build = run
    BY <2>1 DEF Inv2, Fresh, Added
  <2>3. \A r \in db'.rows : r \in db.rows \/ r.build = run
    BY <1>2 DEF InsertEvents, InsertContext, Stamp
  <2> QED BY <2>2, <2>3
<1>3. CASE ~(RemoveDb \/ InsertEvents \/ InsertContext)
  <2>1. "db" \notin stuck
    BY <1>3, StuckFrame
  <2>2. db'.rows = db.rows
    BY <1>3, DbFrame DEF OpenStore
  <2> QED BY <2>1, <2>2 DEF OneBuild
<1> QED BY <1>1, <1>2, <1>3

(* What is wanted together holds no built-in next to its successor.            *)
LEMMA WantedApart ==
    \A p, q \in Wanted : <<p, q>> \notin Supersedes
BY DEF Wanted, Superseded, HasRecords

LEMMA NextNoDoubleView == Inv1 /\ Inv2 /\ Inv2' /\ NoDoubleView /\ [Next]_vars => NoDoubleView'
<1> SUFFICES ASSUME Inv1, Inv2, Inv2', NoDoubleView, [Next]_vars, "db" \notin stuck'
             PROVE  \A r, s \in db'.rows : <<r.src.plugin, s.src.plugin>> \notin Supersedes
  BY DEF NoDoubleView
<1>1. CASE RemoveDb
  BY <1>1 DEF RemoveDb, NoDb
<1>2. CASE (InsertEvents \/ InsertContext) /\ pc' = "context"
  <2>1. \A r \in db'.rows : r \in Added'
    BY <1>2 DEF Inv2, Fresh
  <2>2. \A r \in db'.rows : r.src.plugin \in Wanted'
    <3>1. ASSUME NEW r \in db'.rows PROVE r.src.plugin \in Wanted'
      <4>1. r \in Stamp(events' \cup (context' \ left'), run')
        BY <1>2, <2>1, <3>1 DEF Inv2, Filled
      <4>2. r.src \in events' \cup context'
        BY <4>1 DEF Stamp
      <4>3. PICK p \in Wanted' : r.src = Source(p)'
        BY <1>2, <4>2 DEF Inv2, LoadedFromDisk, AfterLoad, BuildStates
      <4> QED BY <4>3 DEF Source
    <3> QED BY <3>1
  <2>3. \A p, q \in Wanted' : <<p, q>> \notin Supersedes
    BY DEF Wanted, Superseded, HasRecords
  <2> QED BY <2>2, <2>3
<1>3. CASE (InsertEvents \/ InsertContext) /\ pc' # "context"
  <2>1. UNCHANGED db
    BY <1>3 DEF InsertEvents, InsertContext
  <2>2. "db" \notin stuck
    BY <1>3, StuckFrame DEF InsertEvents, InsertContext, RemoveDb
  <2> QED BY <2>1, <2>2 DEF NoDoubleView
<1>4. CASE ~(RemoveDb \/ InsertEvents \/ InsertContext)
  <2>1. "db" \notin stuck
    BY <1>4, StuckFrame
  <2>2. db'.rows = db.rows
    BY <1>4, DbFrame DEF OpenStore
  <2> QED BY <2>1, <2>2 DEF NoDoubleView
<1> QED BY <1>1, <1>2, <1>3, <1>4

(* A complete build holds what was loaded, which is what is on disk.           *)
LEMMA DiskInStore == Inv2 => StoreFromDisk
<1> SUFFICES ASSUME Inv2, Complete PROVE BuiltNow = {Source(p) : p \in Wanted \ missed}
  BY DEF StoreFromDisk
<1>1. Added = Stamp(events \cup context, run)
  <2>1. CASE pc = "context" /\ left = {}
    <3>1. context \ left = context
      BY <2>1
    <3> QED BY <2>1, <3>1 DEF Inv2, Filled
  <2> QED BY <2>1 DEF Inv2, Filled, Complete
<1>2. BuiltNow = events \cup context
  <2>1. BuiltNow = {r.src : r \in Added}
    BY DEF BuiltNow, Added
  <2> QED BY <1>1, <2>1, StampSources
<1>3. /\ events = {Source(p) : p \in (Wanted \ missed) \cap Mapped}
      /\ context = {Source(p) : p \in (Wanted \ missed) \ Mapped}
  BY DEF Inv2, LoadedFromDisk, Complete, AfterLoad, BuildStates
<1> QED BY <1>2, <1>3

-----------------------------------------------------------------------------
(* The views.                                                                  *)

LEMMA NothingShown == \A rs : Shows(NoView, rs)
BY DEF Shows, NoView

LEMMA CsvFrame ==
    ASSUME [Next]_vars, ~RemoveCsv, ~WriteObjectCSV, ~WriteObjectCSVFails
    PROVE  UNCHANGED csv
<1>1. CASE Invoke \/ OpenEngine \/ Collect \/ Stalled \/ Load
  BY <1>1 DEF Invoke, OpenEngine, Collect, Stalled, Load, folder, views
<1>2. CASE RemoveDb \/ RemoveTimeline \/ OpenStore \/ InsertEvents \/ InsertContext
  BY <1>2 DEF RemoveDb, RemoveTimeline, OpenStore, InsertEvents, InsertContext, views
<1>3. CASE Built \/ WriteTimelineJSON \/ Status \/ Reap \/ EndImage \/ Kill
  BY <1>3 DEF Built, WriteTimelineJSON, Status, Reap, EndImage, Kill, folder, views
<1>4. CASE UNCHANGED vars
  BY <1>4 DEF vars
<1> QED BY <1>1, <1>2, <1>3, <1>4 DEF Next

LEMMA TimelineFrame ==
    ASSUME [Next]_vars, ~RemoveDb, ~RemoveTimeline, ~RemoveCsv, ~WriteTimelineJSON,
           ~WriteObjectCSV, ~WriteObjectCSVFails
    PROVE  UNCHANGED <<timeline, stuck>>
<1>1. CASE Invoke \/ OpenEngine \/ Collect \/ Stalled \/ Load
  BY <1>1 DEF Invoke, OpenEngine, Collect, Stalled, Load, folder, views
<1>2. CASE OpenStore \/ InsertEvents \/ InsertContext
  BY <1>2 DEF OpenStore, InsertEvents, InsertContext, views
<1>3. CASE Built \/ Status \/ Reap \/ EndImage \/ Kill
  BY <1>3 DEF Built, Status, Reap, EndImage, Kill, folder, views
<1>4. CASE UNCHANGED vars
  BY <1>4 DEF vars
<1> QED BY <1>1, <1>2, <1>3, <1>4 DEF Next

LEMMA NextAbsent == Inv1 /\ AbsentIsEmpty /\ [Next]_vars => AbsentIsEmpty'
<1> SUFFICES ASSUME Inv1, AbsentIsEmpty, [Next]_vars, NEW o \in Objects, csv'[o].kind = "absent"
             PROVE  csv'[o] = NoView
  BY DEF AbsentIsEmpty
<1>0. csv \in [Objects -> Views]
  BY DEF Inv1, TypeOK
<1>1. CASE RemoveCsv
  BY <1>0, <1>1 DEF RemoveCsv, AbsentIsEmpty
<1>2. CASE WriteObjectCSV \/ WriteObjectCSVFails
  BY <1>0, <1>2, CsvChoice DEF AbsentIsEmpty
<1>3. CASE ~(RemoveCsv \/ WriteObjectCSV \/ WriteObjectCSVFails)
  BY <1>3, CsvFrame DEF AbsentIsEmpty
<1> QED BY <1>1, <1>2, <1>3

LEMMA NextCleared == Inv1 /\ AbsentIsEmpty /\ Cleared /\ [Next]_vars => Cleared'
<1> SUFFICES ASSUME Inv1, AbsentIsEmpty, Cleared, [Next]_vars,
                    pc' \in {"rm_csv", "events", "context"}
             PROVE  /\ "timeline" \notin stuck' => timeline' = NoView
                    /\ \A o \in Objects \ (stuck' \cup Waiting') : csv'[o] = NoView
  BY DEF Cleared
<1>0. csv \in [Objects -> Views] /\ \A o \in Objects : o # "timeline"
  BY StoreBuildAssumption DEF Inv1, TypeOK
<1>1. CASE RemoveTimeline
  <2>1. "timeline" \notin stuck' => timeline' = NoView
    BY <1>1 DEF RemoveTimeline
  <2>2. Waiting' = {o \in Objects : csv[o].kind # "absent"} /\ UNCHANGED csv
    BY <1>1 DEF RemoveTimeline, Waiting
  <2> QED BY <2>1, <2>2 DEF AbsentIsEmpty
<1>2. CASE RemoveCsv
  <2>1. PICK o \in left : /\ \/ csv' = [csv EXCEPT ![o] = NoView] /\ stuck' = stuck \ {o}
                             \/ UNCHANGED csv /\ stuck' = stuck \cup {o}
                          /\ left' = left \ {o}
    BY <1>2 DEF RemoveCsv, Unstick
  <2>2. /\ pc = "rm_csv" /\ UNCHANGED <<pc, timeline>> /\ o \in Objects
        /\ Waiting = left /\ Waiting' = left \ {o}
    BY <1>2, <2>1 DEF RemoveCsv, Waiting, Inv1, LeftOK
  <2>3. /\ "timeline" \notin stuck => timeline = NoView
        /\ \A x \in Objects \ (stuck \cup left) : csv[x] = NoView
    BY <2>2 DEF Cleared
  <2>4. "timeline" \notin stuck' => timeline' = NoView
    BY <1>0, <2>1, <2>2, <2>3
  <2>5. ASSUME NEW x \in Objects \ (stuck' \cup Waiting') PROVE csv'[x] = NoView
    <3>1. CASE x = o
      BY <1>0, <2>1, <2>2, <2>5, <3>1
    <3>2. CASE x # o
      BY <1>0, <2>1, <2>2, <2>3, <2>5, <3>2
    <3> QED BY <3>1, <3>2
  <2> QED BY <2>4, <2>5
<1>3. CASE OpenStore \/ InsertEvents \/ InsertContext \/ UNCHANGED vars
  <2>1. /\ UNCHANGED <<timeline, csv, stuck>> /\ pc \in {"rm_csv", "events", "context"}
        /\ Waiting' = Waiting
    <3>1. CASE OpenStore
      BY <3>1 DEF OpenStore, Waiting, Fails, Exit, views
    <3>2. CASE InsertEvents
      BY <3>2 DEF InsertEvents, Waiting, Fails, Exit, views
    <3>3. CASE InsertContext
      BY <3>3 DEF InsertContext, Waiting, Fails, Exit, views
    <3>4. CASE UNCHANGED vars
      BY <3>4 DEF vars, Waiting
    <3> QED BY <1>3, <3>1, <3>2, <3>3, <3>4
  <2> QED BY <2>1 DEF Cleared
<1>4. CASE ~(RemoveTimeline \/ RemoveCsv \/ OpenStore \/ InsertEvents \/ InsertContext \/ UNCHANGED vars)
  <2>1. CASE Invoke \/ OpenEngine \/ Collect \/ Stalled \/ Load \/ RemoveDb
    BY <2>1 DEF Invoke, OpenEngine, Collect, Stalled, Load, RemoveDb, Exit, Fails
  <2>2. CASE Built \/ WriteTimelineJSON \/ WriteObjectCSV \/ WriteObjectCSVFails
    BY <2>2 DEF Built, WriteTimelineJSON, WriteObjectCSV, WriteObjectCSVFails
  <2>3. CASE Status \/ Reap \/ EndImage \/ Kill
    BY <2>3 DEF Status, Reap, EndImage, Kill, Exit
  <2> QED BY <1>4, <2>1, <2>2, <2>3 DEF Next
<1> QED BY <1>1, <1>2, <1>3, <1>4

LEMMA NextViews ==
    Inv1 /\ AbsentIsEmpty /\ Cleared /\ ViewsMatchStore /\ [Next]_vars => ViewsMatchStore'
<1> SUFFICES ASSUME Inv1, AbsentIsEmpty, Cleared, ViewsMatchStore, [Next]_vars, db'.made
             PROVE  /\ "timeline" \notin stuck' => Shows(timeline', EventRows(db'.rows))
                    /\ \A o \in Objects \ stuck' : Shows(csv'[o], ObjectRows(db'.rows, o))
  BY DEF ViewsMatchStore, Shows, EventRows, ObjectRows
<1>0. csv \in [Objects -> Views] /\ \A o \in Objects : o # "timeline" /\ o # "db"
  BY StoreBuildAssumption DEF Inv1, TypeOK
<1>1. CASE RemoveDb
  <2>1. UNCHANGED <<db, timeline, csv>> /\ stuck' = stuck \cup {"db"}
    BY <1>1 DEF RemoveDb, NoDb, views
  <2> QED BY <2>1 DEF ViewsMatchStore
<1>2. CASE RemoveTimeline
  <2>1. UNCHANGED <<db, csv>>
    BY <1>2 DEF RemoveTimeline
  <2>2. /\ stuck' \subseteq stuck \cup {"timeline"} /\ stuck \subseteq stuck' \cup {"timeline"}
        /\ "timeline" \notin stuck' => timeline' = NoView
    BY <1>2 DEF RemoveTimeline, Unstick
  <2> QED BY <1>0, <2>1, <2>2, NothingShown DEF ViewsMatchStore
<1>3. CASE RemoveCsv
  <2>1. PICK o \in left : \/ csv' = [csv EXCEPT ![o] = NoView] /\ stuck' = stuck \ {o}
                          \/ UNCHANGED csv /\ stuck' = stuck \cup {o}
    BY <1>3 DEF RemoveCsv, Unstick
  <2>2. UNCHANGED <<db, timeline>> /\ o \in Objects
    BY <1>3, <2>1 DEF RemoveCsv, Inv1, LeftOK
  <2>3. "timeline" \in stuck' <=> "timeline" \in stuck
    BY <1>0, <2>1, <2>2
  <2>4. ASSUME NEW x \in Objects \ stuck' PROVE Shows(csv'[x], ObjectRows(db'.rows, x))
    <3>1. CASE x = o
      <4>1. csv'[x] = NoView
        BY <1>0, <2>1, <2>2, <2>4, <3>1
      <4> QED BY <4>1, NothingShown
    <3>2. CASE x # o
      <4>1. x \notin stuck /\ csv'[x] = csv[x]
        BY <1>0, <2>1, <2>2, <2>4, <3>2
      <4> QED BY <2>2, <4>1 DEF ViewsMatchStore
    <3> QED BY <3>1, <3>2
  <2> QED BY <2>2, <2>3, <2>4 DEF ViewsMatchStore
<1>4. CASE OpenStore \/ InsertEvents \/ InsertContext
  <2>1. UNCHANGED <<timeline, csv, stuck>>
    BY <1>4 DEF OpenStore, InsertEvents, InsertContext, views
  <2>2. CASE UNCHANGED db
    BY <2>1, <2>2 DEF ViewsMatchStore
  <2>3. CASE ~UNCHANGED db
    <3>1. pc \in {"rm_csv", "events", "context"} /\ Waiting = {}
      BY <1>4, <2>3 DEF OpenStore, InsertEvents, InsertContext, Waiting
    <3>2. /\ "timeline" \notin stuck => timeline = NoView
          /\ \A o \in Objects \ stuck : csv[o] = NoView
      BY <3>1 DEF Cleared
    <3> QED BY <2>1, <3>2, NothingShown
  <2> QED BY <2>2, <2>3
<1>5. CASE WriteTimelineJSON
  <2>1. UNCHANGED <<db, csv>> /\ \A o \in Objects : o \in stuck' <=> o \in stuck
    BY <1>0, <1>5 DEF WriteTimelineJSON, Unstick
  <2>2. \/ timeline' \in Render(EventRows(db.rows))
        \/ UNCHANGED <<timeline, stuck>>
    BY <1>5 DEF WriteTimelineJSON
  <2>3. \A rs : \A v \in Render(rs) : Shows(v, rs)
    BY DEF Render, Shows
  <2> QED BY <2>1, <2>2, <2>3 DEF ViewsMatchStore
<1>6. CASE WriteObjectCSV \/ WriteObjectCSVFails
  <2>1. PICK o \in left :
          \/ /\ csv' = [csv EXCEPT ![o] = [kind |-> "whole", of |-> ObjectRows(db.rows, o)]]
             /\ stuck' = stuck \ {o}
          \/ /\ csv' = [csv EXCEPT ![o] = [kind |-> "torn", of |-> ObjectRows(db.rows, o)]]
             /\ stuck' = stuck \ {o}
          \/ UNCHANGED <<csv, stuck>>
    <3>1. CASE WriteObjectCSV
      BY <3>1 DEF WriteObjectCSV, Unstick
    <3>2. CASE WriteObjectCSVFails
      BY <3>2 DEF WriteObjectCSVFails, Unstick
    <3> QED BY <1>6, <3>1, <3>2
  <2>2. UNCHANGED <<db, timeline>> /\ o \in Objects
    BY <1>6, <2>1 DEF WriteObjectCSV, WriteObjectCSVFails, Inv1, LeftOK
  <2>3. "timeline" \in stuck' <=> "timeline" \in stuck
    BY <1>0, <2>1, <2>2
  <2>4. ASSUME NEW x \in Objects \ stuck' PROVE Shows(csv'[x], ObjectRows(db.rows, x))
    <3>1. CASE UNCHANGED <<csv, stuck>>
      BY <2>2, <2>4, <3>1 DEF ViewsMatchStore
    <3>2. CASE x # o /\ ~UNCHANGED <<csv, stuck>>
      <4>1. x \notin stuck /\ csv'[x] = csv[x]
        BY <1>0, <2>1, <2>4, <3>2
      <4> QED BY <2>2, <4>1 DEF ViewsMatchStore
    <3>3. CASE x = o /\ ~UNCHANGED <<csv, stuck>>
      <4>1. \E k \in {"whole", "torn"} : csv'[x] = [kind |-> k, of |-> ObjectRows(db.rows, x)]
        BY <1>0, <2>1, <2>2, <3>3
      <4> QED BY <4>1 DEF Shows
    <3> QED BY <3>1, <3>2, <3>3
  <2> QED BY <2>2, <2>3, <2>4 DEF ViewsMatchStore
<1>7. CASE ~(RemoveDb \/ RemoveTimeline \/ RemoveCsv \/ OpenStore \/ InsertEvents \/ InsertContext
             \/ WriteTimelineJSON \/ WriteObjectCSV \/ WriteObjectCSVFails)
  <2>1. UNCHANGED <<db, timeline, csv, stuck>>
    BY <1>7, DbFrame, CsvFrame, TimelineFrame
  <2> QED BY <2>1 DEF ViewsMatchStore
<1> QED BY <1>1, <1>2, <1>3, <1>4, <1>5, <1>6, <1>7

LEMMA Init3 == Init => Inv3
BY DEF Init, Inv3, Cleared, AbsentIsEmpty, ViewsMatchStore, NoDb

LEMMA Next3 == Inv1 /\ Inv3 /\ [Next]_vars => Inv3'
BY NextAbsent, NextCleared, NextViews DEF Inv3

-----------------------------------------------------------------------------
(* The theorems.                                                               *)

(* Every state of an output folder and of the run over it is one the types      *)
(* describe: what each loop of the run has left is of the kind it goes over.    *)
THEOREM TypeCorrect == Spec => []TypeOK
<1>1. Inv1 => TypeOK
  BY DEF Inv1
<1> QED BY Init1, Next1, <1>1, PTL DEF Spec

LEMMA Inductive == Spec => [](Inv1 /\ Inv2)
BY Init1, Init2, Next1, Next2, PTL DEF Spec

(* The rows of a store whose old file could be removed are of one build         *)
(* (BuildStore makes "a fresh <out>/car.db"), whatever was killed or failed.    *)
LEMMA StoreFromOneBuild == Spec => []OneBuild
<1>1. Init => OneBuild
  BY DEF Init, OneBuild, NoDb
<1> QED BY Inductive, <1>1, NextOneBuild, PTL DEF Spec

(* A store built afresh never holds a built-in's rows next to those of the      *)
(* collector that supersedes it, in any mix of runs that produced the two.      *)
LEMMA NoFactTwice == Spec => []NoDoubleView
<1>1. Init => NoDoubleView
  BY DEF Init, NoDoubleView, NoDb
<1>2. (Inv1 /\ Inv2) /\ (Inv1 /\ Inv2)' /\ NoDoubleView /\ [Next]_vars => NoDoubleView'
  BY NextNoDoubleView
<1> QED BY Inductive, <1>1, <1>2, PTL DEF Spec

(* A store whose old file could be removed has nothing twice.                  *)
THEOREM NoRowTwice == Spec => []NothingTwice
BY StoreFromOneBuild, NoFactTwice, PTL DEF NothingTwice

(* A complete build holds exactly the whole records on disk that it could read, *)
(* those of earlier runs included.                                             *)
THEOREM StoreIsDisk == Spec => []StoreFromDisk
BY Inductive, DiskInStore, PTL

(* While there is a car.db, timeline.json and the tables under car/ show what   *)
(* is in it, unless one of them could not be removed.                          *)
THEOREM ViewsAgree == Spec => []ViewsMatchStore
<1>1. Inv3 => ViewsMatchStore
  BY DEF Inv3
<1>2. Inv1 /\ Inv3 /\ [Next]_vars => (Inv1 /\ Inv3)'
  BY Next1, Next3
<1> QED BY Init1, Init3, <1>1, <1>2, PTL DEF Spec

-----------------------------------------------------------------------------
(* The folder is a CarStore. *)

(* What is being filled is open and not complete; only failed reads are missed.*)
Opening ==
    /\ pc \in {"events", "context"} => db.made /\ ~whole
    /\ missed # {} => "read" \in Faults

Recorded == whole' = (Built \/ (whole /\ db'.made /\ pc' # "events"))

(* BuildStore returns from the insertion of context rows, to nothing killed.   *)
LEMMA BuiltOnly == pc # "context" \/ left # {} \/ pc' = "idle" => ~Built
BY DEF Built

LEMMA NextOpening ==
    ASSUME Inv1, Opening, [Next]_vars, Recorded \/ UNCHANGED carvars PROVE Opening'
<1> DEFINE Read == missed # {} => "read" \in Faults
           Open == pc \in {"events", "context"} => db.made /\ ~whole
<1>0. Read /\ Open
  BY DEF Opening
<1>1. CASE UNCHANGED carvars
  BY <1>1 DEF carvars, vars, Opening
<1>2. CASE Next /\ Recorded
  <2>1. Read'
    <3>1. CASE Load
      BY <3>1 DEF Load
    <3>2. CASE Invoke \/ OpenEngine \/ Collect \/ Stalled \/ RemoveDb \/ RemoveTimeline \/ RemoveCsv
      BY <1>0, <3>2 DEF Invoke, OpenEngine, Collect, Stalled, RemoveDb, RemoveTimeline, RemoveCsv
    <3>3. CASE OpenStore \/ InsertEvents \/ InsertContext \/ Built \/ WriteTimelineJSON
      BY <1>0, <3>3 DEF OpenStore, InsertEvents, InsertContext, Built, WriteTimelineJSON
    <3>4. CASE WriteObjectCSV \/ WriteObjectCSVFails \/ Status \/ Reap \/ EndImage \/ Kill
      BY <1>0, <3>4 DEF WriteObjectCSV, WriteObjectCSVFails, Status, Reap, EndImage, Kill
    <3> QED BY <1>2, <3>1, <3>2, <3>3, <3>4 DEF Next
  <2>2. Open'
    <3>1. CASE OpenStore
      <4>1. pc # "context" /\ pc' # "context"
        BY <3>1 DEF OpenStore, Fails, Exit
      <4>2. pc' = "events" => db'.made
        BY <3>1 DEF OpenStore, Fails, Exit
      <4> QED BY <1>2, <4>1, <4>2, BuiltOnly DEF Recorded
    <3>2. CASE InsertEvents
      <4>1. pc = "events" /\ pc' # "events" /\ (pc' = "context" => db'.made)
        BY <3>2 DEF InsertEvents, Fails, Exit
      <4> QED BY <1>0, <1>2, <4>1, BuiltOnly DEF Recorded
    <3>3. CASE InsertContext
      <4>1. pc = "context" /\ left # {} /\ pc' # "events" /\ (pc' = "context" => db'.made)
        BY <1>0, <3>3 DEF InsertContext, Fails, Exit
      <4> QED BY <1>0, <1>2, <4>1, BuiltOnly DEF Recorded
    <3>4. CASE Invoke \/ OpenEngine \/ Collect \/ Stalled \/ Load \/ RemoveDb \/ RemoveTimeline \/ RemoveCsv
      <4>1. pc' \notin {"events", "context"}
        BY <3>4 DEF Invoke, OpenEngine, Collect, Stalled, Load, RemoveDb, RemoveTimeline,
                    RemoveCsv, Exit, Fails
      <4> QED BY <4>1
    <3>5. CASE Built \/ WriteTimelineJSON \/ WriteObjectCSV \/ WriteObjectCSVFails
      <4>1. pc' \notin {"events", "context"}
        BY <3>5 DEF Built, WriteTimelineJSON, WriteObjectCSV, WriteObjectCSVFails
      <4> QED BY <4>1
    <3>6. CASE Status \/ Reap \/ EndImage \/ Kill
      <4>1. pc' \notin {"events", "context"}
        BY <3>6 DEF Status, Reap, EndImage, Kill, Exit
      <4> QED BY <4>1
    <3> QED BY <1>2, <3>1, <3>2, <3>3, <3>4, <3>5, <3>6 DEF Next
  <2> QED BY <2>1, <2>2 DEF Opening
<1>3. CASE ~Next
  <2>1. UNCHANGED vars
    BY <1>3
  <2>2. CASE Recorded
    <3>1. missed' = missed /\ db' = db /\ pc' = pc
      BY <2>1 DEF vars
    <3>2. ~Built
      BY <2>1 DEF vars, Built
    <3> QED BY <1>0, <2>2, <3>1, <3>2 DEF Opening, Recorded
  <2> QED BY <1>1, <2>2
<1> QED BY <1>1, <1>2, <1>3

(* What CarStore loads are the outputs BuildStore wants.                       *)
LEMMA LoadsAreWanted ==
    ASSUME Inv1 PROVE C!Loads = {AsLoad(Source(p)) : p \in Wanted}
<1>1. \A p \in Plugins : raw[p] \in Outputs
  BY DEF Inv1, TypeOK
<1>2. \A p \in Plugins : AsLoad(Source(p)) = <<p, raw[p]>>
  BY <1>1 DEF AsLoad, Source, Outputs
<1>3. \A p \in Plugins : C!Superseded(p) <=> Superseded(p)
  BY <1>1 DEF C!Superseded, Superseded
<1>4. Wanted = {p \in Plugins \ Triggers :
                  raw[p] \in {c \in Outputs : HasRecords(c)} /\ ~C!Superseded(p)}
  BY <1>1, <1>3 DEF Wanted
<1>5. C!Loads = {<<p, raw[p]>> : p \in Wanted}
  BY <1>4 DEF C!Loads
<1>6. \A p \in Wanted : p \in Plugins
  BY DEF Wanted
<1> QED BY <1>2, <1>5, <1>6

LEMMA LoadedIsLoads ==
    ASSUME Inv1, Inv2, pc \in BuildStates
    PROVE  /\ events \cup context = {Source(p) : p \in Wanted \ missed}
           /\ \A s \in events \cup context : AsLoad(s) \in C!Loads
<1>1. /\ events = {Source(p) : p \in (Wanted \ missed) \cap Mapped}
      /\ context = {Source(p) : p \in (Wanted \ missed) \ Mapped}
  BY DEF Inv2, LoadedFromDisk, AfterLoad
<1>2. events \cup context = {Source(p) : p \in Wanted \ missed}
  BY <1>1
<1>3. ASSUME NEW s \in events \cup context PROVE AsLoad(s) \in C!Loads
  <2>1. PICK p \in Wanted : s = Source(p)
    BY <1>2
  <2> QED BY <2>1, LoadsAreWanted
<1> QED BY <1>2, <1>3

(* Rows put in are loads added.                                                *)
LEMMA RowsAdded ==
    ASSUME NEW s, NEW b, db'.rows = db.rows \cup Stamp(s, b)
    PROVE  CarHeld' = CarHeld \cup {AsLoad(x) : x \in s}
<1>1. CarHeld' = {AsLoad(r.src) : r \in db'.rows}
  BY DEF CarHeld
<1>2. {AsLoad(r.src) : r \in Stamp(s, b)} = {AsLoad(x) : x \in s}
  BY StampSources
<1> QED BY <1>1, <1>2 DEF CarHeld

(* A step that leaves car.db alone.                                            *)
LEMMA StoreKept ==
    ASSUME Opening, Recorded, ~Built, UNCHANGED db, pc' = "events" => pc = "events"
    PROVE  CarState' = CarState /\ CarHeld' = CarHeld
<1>1. CarHeld' = CarHeld
  BY DEF CarHeld
<1>2. db.made => (whole' <=> whole)
  BY DEF Recorded, Opening
<1> QED BY <1>1, <1>2 DEF CarState

CarBuilding == pc \in BuildStates \ {"rm_db"}

(* ... and the raw outputs.                                                    *)
LEMMA FolderKept ==
    ASSUME CarState' = CarState, CarHeld' = CarHeld, UNCHANGED raw, CarBuilding' => CarBuilding
    PROVE  [C!Next]_(C!folder)
<1>1. CASE CarBuilding' <=> CarBuilding
  BY <1>1 DEF C!folder, CarBuilding
<1>2. CASE CarBuilding /\ ~CarBuilding'
  <2>1. C!Abandon
    BY <1>2 DEF C!Abandon, CarBuilding
  <2> QED BY <2>1 DEF C!Next
<1> QED BY <1>1, <1>2

LEMMA OutputPut ==
    ASSUME CarState' = CarState, CarHeld' = CarHeld, ~CarBuilding, ~CarBuilding',
           NEW p \in Plugins, NEW c \in Outputs, raw' = [raw EXCEPT ![p] = c]
    PROVE  [C!Next]_(C!folder)
<1>1. CarBuilding' = CarBuilding
  BY DEF CarBuilding
<1>2. UNCHANGED <<CarState, CarHeld, CarBuilding>>
  BY <1>1
<1>3. C!Extract
  BY <1>2 DEF C!Extract, CarBuilding
<1> QED BY <1>3 DEF C!Next

LEMMA StepIsCarStores ==
    ASSUME Inv1, Inv2, Opening, Next, Recorded PROVE [C!Next]_(C!folder)
<1> USE DEF BuildStates
<1>1. CASE Collect \/ Reap
  <2>1. /\ db' = db /\ ~CarBuilding /\ ~CarBuilding' /\ pc # "context" /\ pc' # "events"
        /\ \/ UNCHANGED raw
           \/ \E p \in Plugins, c \in Outputs : raw' = [raw EXCEPT ![p] = c]
    <3>1. left \subseteq Plugins
      BY <1>1 DEF Inv1, LeftOK, Collect, Reap
    <3>2. Gone \in Outputs
      BY StoreBuildAssumption DEF Gone, Outputs, Kinds
    <3>3. \A k \in Kinds : [kind |-> k, by |-> run] \in Outputs
      BY DEF Outputs, Inv1, TypeOK
    <3>4. \/ UNCHANGED raw
          \/ \E p \in Plugins, c \in Outputs : raw' = [raw EXCEPT ![p] = c]
      BY <1>1, <3>1, <3>2, <3>3 DEF Collect, Reap
    <3> QED BY <1>1, <3>4 DEF Collect, Reap, CarBuilding
  <2>2. CarState' = CarState /\ CarHeld' = CarHeld
    BY <2>1, StoreKept, BuiltOnly
  <2> QED BY <2>1, <2>2, OutputPut, FolderKept
<1>2. CASE Invoke \/ OpenEngine \/ Stalled \/ Load
  <2>1. db' = db /\ raw' = raw /\ pc # "context" /\ pc' # "events" /\ ~CarBuilding'
    BY <1>2 DEF Invoke, OpenEngine, Stalled, Load, folder, Exit, Fails, CarBuilding
  <2> QED BY <2>1, StoreKept, BuiltOnly, FolderKept
<1>3. CASE RemoveTimeline \/ RemoveCsv
  <2>1. /\ db' = db /\ raw' = raw /\ pc # "context" /\ pc' # "events"
        /\ CarBuilding' = CarBuilding
    BY <1>3 DEF RemoveTimeline, RemoveCsv, CarBuilding
  <2> QED BY <2>1, StoreKept, BuiltOnly, FolderKept
<1>4. CASE WriteTimelineJSON \/ WriteObjectCSV \/ WriteObjectCSVFails \/ Status \/ EndImage \/ Kill
  <2>1. db' = db /\ raw' = raw /\ (pc # "context" \/ pc' = "idle") /\ pc' # "events" /\ ~CarBuilding'
    BY <1>4 DEF WriteTimelineJSON, WriteObjectCSV, WriteObjectCSVFails, Status, EndImage, Kill,
                folder, Exit, CarBuilding
  <2> QED BY <2>1, StoreKept, BuiltOnly, FolderKept
<1>5. CASE RemoveDb
  <2>1. pc = "rm_db" /\ pc' = "rm_timeline" /\ raw' = raw
    BY <1>5 DEF RemoveDb
  <2>2. ~CarBuilding /\ CarBuilding' = TRUE
    BY <2>1 DEF CarBuilding
  <2>3. CASE db' = NoDb
    <3>1. CarState' = "none" /\ CarHeld' = {}
      BY <2>3 DEF CarState, CarHeld, NoDb
    <3>2. C!Begin
      BY <2>1, <2>2, <3>1 DEF C!Begin, CarBuilding
    <3> QED BY <3>2 DEF C!Next
  <2>4. CASE "remove" \in Faults /\ db.made /\ UNCHANGED db
    <3>1. CarState' = CarState /\ CarHeld' = CarHeld /\ CarState # "none"
      BY <2>1, <2>4, StoreKept, BuiltOnly DEF CarState
    <3>2. C!Begin
      BY <2>1, <2>2, <2>4, <3>1 DEF C!Begin, CarBuilding
    <3> QED BY <3>2 DEF C!Next
  <2> QED BY <1>5, <2>3, <2>4 DEF RemoveDb
<1>6. CASE OpenStore
  <2>1. pc = "rm_csv" /\ raw' = raw /\ ~Built
    BY <1>6, BuiltOnly DEF OpenStore
  <2>2. CASE db' = [made |-> TRUE, rows |-> db.rows] /\ pc' = "events"
    <3>1. CarState' = "partial" /\ CarHeld' = CarHeld
      BY <2>1, <2>2 DEF CarState, CarHeld, Recorded
    <3>2. CarBuilding /\ CarBuilding' = CarBuilding
      BY <2>1, <2>2 DEF CarBuilding
    <3>3. C!Create
      BY <2>1, <3>1, <3>2 DEF C!Create, CarBuilding
    <3> QED BY <3>3 DEF C!Next
  <2>3. CASE Fails /\ UNCHANGED db
    <3>1. pc' \notin BuildStates
      BY <2>3 DEF Fails, Exit
    <3>2. CarState' = CarState /\ CarHeld' = CarHeld
      BY <2>1, <2>3, <3>1, StoreKept
    <3> QED BY <2>1, <3>1, <3>2, FolderKept DEF CarBuilding
  <2> QED BY <1>6, <2>2, <2>3 DEF OpenStore
<1>7. CASE InsertEvents \/ InsertContext
  <2>1. /\ pc \in {"events", "context"} /\ raw' = raw /\ ~Built
        /\ \/ Fails /\ UNCHANGED db
           \/ \E s \in SUBSET (events \cup context) :
                pc' = "context" /\ db' = [made |-> TRUE, rows |-> db.rows \cup Stamp(s, run)]
    <3>1. CASE InsertEvents
      BY <3>1, BuiltOnly DEF InsertEvents
    <3>2. CASE InsertContext
      <4>1. left \subseteq context /\ left # {} /\ pc = "context" /\ raw' = raw
        BY <3>2 DEF InsertContext, Inv1, LeftOK
      <4>2. \/ Fails /\ UNCHANGED db
            \/ \E s \in left : pc' = pc /\ db' = [made |-> TRUE, rows |-> db.rows \cup Stamp({s}, run)]
        BY <3>2 DEF InsertContext
      <4>3. \A s \in left : {s} \in SUBSET (events \cup context)
        BY <4>1
      <4> QED BY <4>1, <4>2, <4>3, BuiltOnly
    <3> QED BY <1>7, <3>1, <3>2
  <2>2. CASE Fails /\ UNCHANGED db
    <3>1. pc' \notin BuildStates
      BY <2>2 DEF Fails, Exit
    <3>2. CarState' = CarState /\ CarHeld' = CarHeld
      BY <2>1, <2>2, <3>1, StoreKept
    <3> QED BY <2>1, <3>1, <3>2, FolderKept DEF CarBuilding
  <2>3. ASSUME NEW s \in SUBSET (events \cup context), pc' = "context",
               db' = [made |-> TRUE, rows |-> db.rows \cup Stamp(s, run)]
        PROVE  C!Add
    <3>1. CarState = "partial" /\ CarState' = "partial"
      BY <2>1, <2>3 DEF CarState, Opening, Recorded
    <3>2. CarBuilding /\ CarBuilding' = CarBuilding
      BY <2>1, <2>3 DEF CarBuilding
    <3>3. CarHeld' = CarHeld \cup {AsLoad(x) : x \in s}
      BY <2>3, RowsAdded
    <3>4. {AsLoad(x) : x \in s} \in SUBSET C!Loads
      BY <2>1, LoadedIsLoads
    <3> QED BY <2>1, <3>1, <3>2, <3>3, <3>4 DEF C!Add, CarBuilding
  <2> QED BY <2>1, <2>2, <2>3 DEF C!Next
<1>8. CASE Built
  <2>1. /\ pc = "context" /\ left = {} /\ raw' = raw /\ db' = db
        /\ CarBuilding /\ CarBuilding' = FALSE
    BY <1>8 DEF Built, folder, CarBuilding
  <2>2. CarState = "partial" /\ CarState' = "complete"
    BY <1>8, <2>1 DEF CarState, Opening, Recorded
  <2>3. CarHeld' = CarHeld
    BY <2>1 DEF CarHeld
  <2>4. \A p \in Wanted \ missed : AsLoad(Source(p)) \in CarHeld
    <3>1. BuiltNow = {Source(p) : p \in Wanted \ missed}
      BY <2>1, DiskInStore DEF StoreFromDisk, Complete
    <3>2. \A x \in BuiltNow : AsLoad(x) \in CarHeld
      BY DEF BuiltNow, CarHeld
    <3> QED BY <3>1, <3>2
  <2>5. missed \in C!Unread
    BY DEF C!Unread, Opening, Inv1, TypeOK
  <2>6. CarHeld' = CarHeld \cup {l \in C!Loads : l[1] \notin missed}
    <3>1. ASSUME NEW l \in C!Loads, l[1] \notin missed PROVE l \in CarHeld
      <4>1. PICK p \in Wanted : l = AsLoad(Source(p))
        BY LoadsAreWanted
      <4>2. l[1] = p
        BY <4>1 DEF AsLoad, Source
      <4> QED BY <2>4, <3>1, <4>1, <4>2
    <3> QED BY <2>3, <3>1
  <2>7. C!Finish
    BY <2>1, <2>2, <2>5, <2>6 DEF C!Finish, CarBuilding
  <2> QED BY <2>7 DEF C!Next
<1> QED BY <1>1, <1>2, <1>3, <1>4, <1>5, <1>6, <1>7, <1>8 DEF Next

LEMMA InitIsCarStores == Init => C!Init
<1> SUFFICES ASSUME Init PROVE C!Init
  OBVIOUS
<1>1. raw \in [Plugins -> Outputs]
  BY Init1 DEF Inv1, TypeOK
<1>2. CarState = "none" /\ CarHeld = {} /\ ~CarBuilding
  BY DEF Init, NoDb, CarState, CarHeld, CarBuilding, BuildStates
<1> QED BY <1>1, <1>2 DEF C!Init, CarBuilding

(* Whatever fails and wherever it is killed, the command line and the batch     *)
(* treat car.db as CarStore allows: a build drops the store before it or, when  *)
(* that cannot be removed, adds to it (pipeline.go:47), puts in nothing but     *)
(* what the raw outputs hold, and counts as complete only with all that could   *)
(* be read of them; no raw output changes meanwhile.                           *)
THEOREM BuildImplementsCarStore == CarSpec => ImplementsCarStore
<1> DEFINE I == Inv1 /\ Inv2 /\ Opening
<1>1. CarInit => I /\ C!Init
  <2>1. Init => Inv1 /\ Inv2 /\ C!Init
    BY Init1, Init2, InitIsCarStores
  <2>2. CarInit => Opening
    BY DEF CarInit, Init, Opening
  <2> QED BY <2>1, <2>2 DEF CarInit
<1>2. I /\ [CarNext]_carvars => I'
  <2> SUFFICES ASSUME I, [CarNext]_carvars PROVE I'
    OBVIOUS
  <2>1. [Next]_vars /\ (Recorded \/ UNCHANGED carvars)
    BY DEF CarNext, carvars, Recorded
  <2> QED BY <2>1, Next1, Next2, NextOpening
<1>3. I /\ [CarNext]_carvars => [C!Next]_(C!folder)
  <2> SUFFICES ASSUME I, [CarNext]_carvars PROVE [C!Next]_(C!folder)
    OBVIOUS
  <2>1. CASE Next /\ Recorded
    BY <2>1, StepIsCarStores
  <2>2. CASE UNCHANGED carvars
    BY <2>2 DEF carvars, vars, C!folder, CarState, CarHeld
  <2> QED BY <2>1, <2>2 DEF CarNext, Recorded
<1> QED BY <1>1, <1>2, <1>3, PTL DEF CarSpec, ImplementsCarStore, C!Spec

=============================================================================
