----------------------------- MODULE BatchProofs -----------------------------
(***************************************************************************)
(* Theorems about Batch for every value of its constants: types, resuming  *)
(* at every step, car.db against the raw output it was built from, and the *)
(* summary against what was asked for and what is on disk.                 *)
(***************************************************************************)
EXTENDS Batch, FiniteSetTheorems, TLAPS

(* Type correctness is not inductive alone: the loop indexes point into lists. *)
TypeInv == TypeOK /\ InBounds

(* The first index is one of ImageSeq or just past its end. *)
LEMMA FirstImage == Len(ImageSeq) \in Nat /\ 1 \in 1 .. Len(ImageSeq) + 1
BY ConstantsAssumption

(* The tree a first process finds is typed. *)
LEMMA InitType == Init => TypeInv
<1> SUFFICES ASSUME Init PROVE TypeInv
  OBVIOUS
<1> USE DEF Init
<1>1. file \in [Entries -> Kinds] /\ rows \in [Entries -> Kinds]
  BY DEF Kinds
<1>2. origin \in [Entries -> Images \cup {NoImage}]
  OBVIOUS
<1>3. marker \in [Entries -> Nat] /\ stalls \in [Entries -> Nat]
  OBVIOUS
<1>4. store \in [Dests -> StoreStates]
  BY DEF StoreStates
<1>5. idx \in 1 .. Len(ImageSeq) + 1
  BY FirstImage
<1>6. plugins \in Seq(Plugins) /\ todo \in Seq(Plugins)
  OBVIOUS
<1>7. force \in BOOLEAN
  OBVIOUS
<1>8. QED
  BY <1>1, <1>2, <1>3, <1>4, <1>5, <1>6, <1>7
     DEF TypeInv, TypeOK, InBounds, Busy, Running, PcStates, ExitCodes

(* An output put by the current collector of the current image is typed. *)
LEMMA PutType ==
    ASSUME TypeInv, Running, NEW k \in Kinds, Put(k)
    PROVE  /\ file' \in [Entries -> Kinds]
           /\ origin' \in [Entries -> Images \cup {NoImage}]
<1>1. Img \in Images
  BY ConstantsAssumption DEF TypeInv, TypeOK, InBounds, Busy, Running, Img
<1>2. QED
  BY <1>1 DEF TypeInv, TypeOK, Put

(* The current entry is one, while a collector is being run. *)
LEMMA EntryType == ASSUME TypeInv, Running PROVE Entry \in Entries
BY ConstantsAssumption
   DEF TypeInv, TypeOK, InBounds, Busy, Running, Entry, Entries, Dest, Img, Cur

(* No step of a process, of the operator or of a kill leaves the types. *)
LEMMA NextType == TypeInv /\ [Next]_vars => TypeInv'
<1> SUFFICES ASSUME TypeInv, [Next]_vars PROVE TypeInv'
  OBVIOUS
<1> USE ConstantsAssumption
<1> USE DEF TypeInv, TypeOK, InBounds, Busy, Running, PcStates, ExitCodes, Exit,
            disk, raw, car, sum, loopVars, env, operator, history
<1>1. CASE Invoke
  <2>1. force' \in BOOLEAN
    BY <1>1 DEF Invoke
  <2>2. plugins' \in Seq(Plugins)
    BY <1>1 DEF Invoke
  <2>3. stalls' \in [Entries -> Nat]
    BY <1>1 DEF Invoke
  <2>4. QED
    BY <1>1, <2>1, <2>2, <2>3 DEF Invoke
<1>2. CASE Crash
  BY <1>2 DEF Crash
<1>3. CASE Startup
  <2>1. idx' \in 1 .. Len(ImageSeq) + 1
    BY <1>3, FirstImage DEF Startup
  <2>2. todo' \in Seq(Plugins)
    BY <1>3 DEF Startup
  <2>3. QED
    BY <1>3, <2>1, <2>2 DEF Startup
<1>4. CASE BeginImage
  BY <1>4 DEF BeginImage
<1>5. CASE Finish
  BY <1>5 DEF Finish, ExitStatus
<1>6. CASE Classify
  <2>1. todo' \in Seq(Plugins)
    <3>1. plugins[pos] \in Plugins
      BY <1>6 DEF Classify
    <3>2. Append(todo, plugins[pos]) \in Seq(Plugins)
      BY <3>1
    <3>3. QED
      BY <1>6, <3>2 DEF Classify
  <2>2. pos' \in Nat \ {0} /\ skipped' \in Nat /\ failed' \in Nat
    BY <1>6 DEF Classify
  <2>3. QED
    BY <1>6, <2>1, <2>2 DEF Classify
<1>7. CASE AllDone
  BY <1>7 DEF AllDone
<1>8. CASE OpenEngine
  BY <1>8 DEF OpenEngine
<1>9. CASE UnknownCollector
  BY <1>9 DEF UnknownCollector
<1>10. CASE StartCollector
  BY <1>10 DEF StartCollector
<1>11. CASE CollectorAnswers
  BY <1>11 DEF CollectorAnswers
<1>12. CASE CollectorStalls
  <2>1. stalls' \in [Entries -> Nat]
    BY <1>12, EntryType DEF CollectorStalls, OneMore
  <2>2. QED
    BY <1>12, <2>1 DEF CollectorStalls
<1>13. CASE CreateOutput
  <2>1. file' \in [Entries -> Kinds] /\ origin' \in [Entries -> Images \cup {NoImage}]
    BY <1>13, PutType DEF CreateOutput, Kinds
  <2>2. QED
    BY <1>13, <2>1 DEF CreateOutput, NextCollector
<1>14. CASE WriteFirst
  <2>1. file' \in [Entries -> Kinds] /\ origin' \in [Entries -> Images \cup {NoImage}]
    BY <1>14, PutType DEF WriteFirst, Kinds
  <2>2. QED
    BY <1>14, <2>1 DEF WriteFirst, NextCollector
<1>15. CASE WriteRest
  <2>1. file' \in [Entries -> Kinds] /\ origin' \in [Entries -> Images \cup {NoImage}]
    BY <1>15, PutType DEF WriteRest, Kinds
  <2>2. completed' \subseteq Entries
    BY <1>15, EntryType DEF WriteRest
  <2>3. QED
    BY <1>15, <2>1, <2>2 DEF WriteRest, NextCollector
<1>16. CASE BumpStall
  <2>1. marker[Entry] \in Nat
    BY <1>16, EntryType DEF BumpStall
  <2>2. QED
    <3>1. marker' \in [Entries -> Nat] /\ count' \in Nat
      BY <1>16, <2>1 DEF BumpStall
    <3>2. QED
      BY <1>16, <3>1 DEF BumpStall
<1>17. CASE WriteMarker
  BY <1>17 DEF WriteMarker
<1>18. CASE Reexec
  BY <1>18 DEF Reexec
<1>19. CASE RemoveStore
  <2>1. rows' \in [Entries -> Kinds]
    BY <1>19 DEF RemoveStore, Kinds
  <2>2. QED
    BY <1>19, <2>1 DEF RemoveStore, StoreStates
<1>20. CASE CreateSchema
  BY <1>20 DEF CreateSchema, StoreStates
<1>21. CASE FillStore
  <2>1. rows' \in [Entries -> Kinds]
    BY <1>21 DEF FillStore, Loaded, Kinds
  <2>2. QED
    <3>1. store' \in [Dests -> StoreStates]
      BY <1>21 DEF FillStore, StoreStates
    <3>2. QED
      BY <1>21, <2>1, <3>1 DEF FillStore
<1>22. CASE Reap
  <2>1. file' \in [Entries -> Kinds] /\ origin' \in [Entries -> Images \cup {NoImage}]
    BY <1>22 DEF Reap, Kinds
  <2>2. /\ marker' \in [Entries -> Nat]
        /\ pos' \in Nat \ {0} /\ processed' \in Nat /\ failed' \in Nat
    <3>1. marker' = marker \/ marker' = [marker EXCEPT ![Entry] = 0]
      BY <1>22 DEF Reap
    <3>2. /\ pos' = pos + 1
          /\ processed' = processed \/ processed' = processed + 1
          /\ failed' = failed \/ failed' = failed + 1
      BY <1>22 DEF Reap
    <3>3. /\ marker \in [Entries -> Nat] /\ pos \in Nat \ {0}
          /\ processed \in Nat /\ failed \in Nat
      OBVIOUS
    <3> HIDE DEF TypeInv, TypeOK
    <3>4. marker' \in [Entries -> Nat]
      BY <3>1, <3>3
    <3>5. pos' \in Nat \ {0} /\ processed' \in Nat /\ failed' \in Nat
      BY <3>2, <3>3
    <3>6. QED
      BY <3>4, <3>5
  <2>3. QED
    BY <1>22, <2>1, <2>2 DEF Reap
<1>23. CASE EndImage
  BY <1>23 DEF EndImage
<1>24. CASE UNCHANGED vars
  BY <1>24 DEF vars
<1>25. QED
  BY <1>1, <1>2, <1>3, <1>4, <1>5, <1>6, <1>7, <1>8, <1>9, <1>10, <1>11, <1>12,
     <1>13, <1>14, <1>15, <1>16, <1>17, <1>18, <1>19, <1>20, <1>21, <1>22, <1>23,
     <1>24 DEF Next, Step

(* Every value the batch's files, markers, store and loop variables take, over *)
(* any number of images, collectors, runs and kills, is of its type.           *)
THEOREM TypeCorrect == Spec => []TypeOK
<1>1. TypeInv => TypeOK
  BY DEF TypeInv
<1>2. QED
  BY InitType, NextType, <1>1, PTL DEF Spec

-----------------------------------------------------------------------------
(* Idempotency without FORCE. *)

(* A list stays without duplicates when a new element is appended. *)
LEMMA AppendDistinct ==
    ASSUME NEW S, NEW l \in Seq(S), NEW x \in S, Distinct(l),
           \A k \in 1 .. Len(l) : l[k] # x
    PROVE  Distinct(Append(l, x))
<1> DEFINE n == Append(l, x)
<1>1. /\ Len(n) = Len(l) + 1 /\ n[Len(l) + 1] = x
      /\ \A k \in 1 .. Len(l) : n[k] = l[k]
  OBVIOUS
<1>2. ASSUME NEW i \in 1 .. Len(n), NEW j \in 1 .. Len(n), n[i] = n[j] PROVE i = j
  <2> HIDE DEF n
  <2>1. CASE i \in 1 .. Len(l) /\ j \in 1 .. Len(l)
    BY <1>1, <1>2, <2>1 DEF Distinct
  <2>2. CASE i = Len(l) + 1 \/ j = Len(l) + 1
    BY <1>1, <1>2, <2>2
  <2>3. QED
    BY <1>1, <2>1, <2>2
<1>3. QED
  BY <1>2 DEF Distinct

(* The classification loop puts each requested collector in todo at most once. *)
LEMMA NextTodo == ASSUME TypeInv, TodoDistinct, DistinctPlugins, [Next]_vars PROVE TodoDistinct'
<1> USE ConstantsAssumption
<1> USE DEF TypeInv, TypeOK, TodoDistinct, Distinct, Exit, loopVars, env
<1>1. CASE Invoke
  BY <1>1 DEF Invoke, DistinctPlugins
<1>2. CASE Startup
  BY <1>2 DEF Startup
<1>3. CASE BeginImage
  <2>1. plugins' = plugins /\ todo' = <<>> /\ pc' = "classify" /\ Len(todo') = 0
    BY <1>3 DEF BeginImage
  <2>2. QED
    BY <2>1
<1>4. CASE Classify
  <2>1. /\ plugins' = plugins /\ pc' = "classify" /\ pc = "classify" /\ pos' = pos + 1
        /\ pos \in 1 .. Len(plugins)
    BY <1>4 DEF Classify
  <2>2. \A k \in 1 .. Len(todo) : \E m \in 1 .. pos - 1 : todo[k] = plugins[m]
    BY <2>1
  <2>3. CASE todo' = todo
    <3>1. \A k \in 1 .. Len(todo) : \E m \in 1 .. pos' - 1 : todo[k] = plugins[m]
      BY <2>1, <2>2
    <3>2. QED
      BY <2>1, <2>3, <3>1
  <2>4. CASE todo' = Append(todo, plugins[pos])
    <3>1. /\ Len(todo') = Len(todo) + 1
          /\ todo'[Len(todo) + 1] = plugins[pos]
          /\ \A k \in 1 .. Len(todo) : todo'[k] = todo[k]
      BY <2>1, <2>4
    <3>2. ASSUME NEW k \in 1 .. Len(todo) PROVE todo[k] # plugins[pos]
      <4>1. PICK m \in 1 .. pos - 1 : todo[k] = plugins[m]
        BY <2>2
      <4>2. m \in 1 .. Len(plugins) /\ m # pos
        BY <2>1
      <4>3. QED
        BY <2>1, <4>1, <4>2
    <3>3. Distinct(todo')
      <4>1. plugins[pos] \in Plugins
        BY <2>1
      <4>2. Distinct(Append(todo, plugins[pos]))
        BY <3>2, <4>1, AppendDistinct
      <4>3. QED
        BY <2>4, <4>2
    <3>4. ASSUME NEW k \in 1 .. Len(todo')
          PROVE  \E m \in 1 .. pos' - 1 : todo'[k] = plugins[m]
      <4>1. CASE k = Len(todo) + 1
        BY <2>1, <3>1, <4>1
      <4>2. CASE k \in 1 .. Len(todo)
        <5>1. PICK m \in 1 .. pos - 1 : todo[k] = plugins[m]
          BY <2>2, <4>2
        <5>2. m \in 1 .. pos' - 1 /\ todo'[k] = plugins[m]
          BY <2>1, <3>1, <4>2, <5>1
        <5>3. QED
          BY <5>2
      <4>3. QED
        BY <3>1, <4>1, <4>2
    <3>5. QED
      BY <2>1, <3>3, <3>4
  <2>5. QED
    BY <1>4, <2>3, <2>4 DEF Classify
<1>5. CASE Crash \/ AllDone \/ OpenEngine \/ UnknownCollector \/ StartCollector \/ Finish
  BY <1>5 DEF Crash, AllDone, OpenEngine, UnknownCollector, StartCollector, Finish
<1>6. CASE CollectorAnswers \/ CollectorStalls \/ CreateOutput \/ WriteFirst \/ WriteRest
  BY <1>6 DEF CollectorAnswers, CollectorStalls, CreateOutput, WriteFirst, WriteRest,
              NextCollector
<1>7. CASE BumpStall \/ WriteMarker \/ Reexec
  BY <1>7 DEF BumpStall, WriteMarker, Reexec
<1>8. CASE RemoveStore \/ CreateSchema \/ FillStore \/ Reap \/ EndImage
  BY <1>8 DEF RemoveStore, CreateSchema, FillStore, Reap, EndImage
<1>9. CASE UNCHANGED vars
  BY <1>9 DEF vars
<1>10. QED
  BY <1>1, <1>2, <1>3, <1>4, <1>5, <1>6, <1>7, <1>8, <1>9 DEF Next, Step

(* The position of the current collector is ahead until its output is begun. *)
LEMMA CurrentAhead ==
    ASSUME TypeInv, AheadOpen, ~force, pc \in {"collect", "create", "first"}
    PROVE  ~Valid(file[Entry]) /\ marker[Entry] < MaxStalls
<1>1. pos \in Ahead
  BY DEF TypeInv, TypeOK, InBounds, Running, Ahead, Collecting
<1>2. QED
  BY <1>1 DEF AheadOpen, Entry, Cur

(* Two positions of todo are two entries of the current folder. *)
LEMMA OtherEntry ==
    ASSUME TypeInv, TodoDistinct, Running, NEW k \in 1 .. Len(todo), k # pos
    PROVE  <<Dest, todo[k]>> \in Entries /\ <<Dest, todo[k]>> # Entry
<1>1. Dest \in Dests
  BY ConstantsAssumption DEF TypeInv, TypeOK, InBounds, Busy, Running, Dest, Img
<1>2. todo[k] \in Plugins
  BY DEF TypeInv, TypeOK
<1>3. todo[k] # Cur
  BY DEF TypeInv, TypeOK, InBounds, TodoDistinct, Distinct, Cur
<1>4. QED
  BY <1>1, <1>2, <1>3 DEF Entries, Entry

(* No step makes valid, or gives up, a collector that is still to be run. *)
LEMMA NextAhead ==
    ASSUME TypeInv, TodoDistinct, AheadOpen, [Next]_vars PROVE AheadOpen'
<1> SUFFICES ASSUME ~force' PROVE AheadOpen'
  BY DEF AheadOpen
<1> DEFINE At(k) == <<Dest, todo[k]>>
<1> USE DEF TypeInv, TypeOK
<1>1. ASSUME pc' \notin Collecting \cup {"classify", "rest", "bump", "mark"} PROVE AheadOpen'
  <2>1. Ahead' = {}
    BY <1>1 DEF Ahead, Collecting
  <2>2. QED
    BY <1>1, <2>1 DEF AheadOpen
<1>2. ASSUME raw' = raw, marker' = marker, force' = force, idx' = idx, todo' = todo,
             Ahead' \subseteq Ahead, pc' \notin {"rest", "bump", "mark"}
      PROVE  AheadOpen'
  BY <1>2 DEF AheadOpen, Dest, Img, raw
<1>3. CASE BeginImage
  <2>1. Ahead' = {}
    BY <1>3 DEF BeginImage, Ahead
  <2>2. QED
    BY <1>3, <2>1 DEF BeginImage, AheadOpen
<1>4. CASE Classify
  <2>1. /\ pc = "classify" /\ pc' = "classify" /\ idx' = idx /\ raw' = raw
        /\ marker' = marker /\ force' = force /\ pos \in 1 .. Len(plugins)
    BY <1>4 DEF Classify, disk, raw, env
  <2>2. \A k \in 1 .. Len(todo) : ~Valid(file[At(k)]) /\ marker[At(k)] < MaxStalls
    BY <2>1 DEF AheadOpen, Ahead
  <2>3. CASE todo' = todo
    BY <2>1, <2>2, <2>3 DEF AheadOpen, Ahead, Dest, Img, raw
  <2>4. CASE /\ todo' = Append(todo, plugins[pos])
             /\ ~Skips(<<Dest, plugins[pos]>>) /\ ~GivenUp(<<Dest, plugins[pos]>>)
    <3>1. ~Valid(file[<<Dest, plugins[pos]>>])
      BY <2>1, <2>4 DEF Skips, PluginDone
    <3>2. marker[<<Dest, plugins[pos]>>] < MaxStalls
      <4>1. <<Dest, plugins[pos]>> \in Entries
        BY <2>1, ConstantsAssumption DEF InBounds, Busy, Entries, Dest, Img
      <4>2. QED
        BY <2>4, <4>1, ConstantsAssumption DEF GivenUp
    <3>3. /\ Len(todo') = Len(todo) + 1
          /\ todo'[Len(todo) + 1] = plugins[pos]
          /\ \A k \in 1 .. Len(todo) : todo'[k] = todo[k]
      BY <2>1, <2>4
    <3>4. ASSUME NEW k \in 1 .. Len(todo')
          PROVE  ~Valid(file[<<Dest, todo'[k]>>]) /\ marker[<<Dest, todo'[k]>>] < MaxStalls
      <4>1. CASE k = Len(todo) + 1
        BY <3>1, <3>2, <3>3, <4>1
      <4>2. CASE k \in 1 .. Len(todo)
        BY <2>2, <3>3, <4>2
      <4>3. QED
        BY <3>3, <4>1, <4>2
    <3>5. QED
      BY <2>1, <3>4 DEF AheadOpen, Ahead, Dest, Img, raw
  <2>5. QED
    BY <1>4, <2>3, <2>4 DEF Classify
<1>5. CASE OpenEngine
  <2>1. pc = "classify" /\ Ahead = 1 .. Len(todo)
    BY <1>5 DEF OpenEngine, Ahead
  <2>2. Ahead' \subseteq Ahead
    BY <1>5, <2>1 DEF OpenEngine, Ahead
  <2>3. QED
    BY <1>2, <1>5, <2>2 DEF OpenEngine, disk, raw, env
<1>6. CASE UnknownCollector
  <2>1. Ahead' \subseteq Ahead
    BY <1>6 DEF UnknownCollector, Ahead, Collecting
  <2>2. QED
    BY <1>2, <1>6, <2>1 DEF UnknownCollector, disk, raw, env
<1>7. CASE StartCollector
  <2>1. Ahead' \subseteq Ahead
    BY <1>7 DEF StartCollector, Ahead, Collecting, loopVars
  <2>2. QED
    BY <1>2, <1>7, <2>1 DEF StartCollector, disk, raw, env, loopVars
<1>8. CASE CollectorAnswers
  <2>1. Ahead' \subseteq Ahead
    BY <1>8 DEF CollectorAnswers, Ahead, Collecting, loopVars
  <2>2. QED
    BY <1>2, <1>8, <2>1 DEF CollectorAnswers, disk, raw, env, loopVars
<1>9. CASE CollectorStalls
  <2>1. Ahead' = {}
    BY <1>9 DEF CollectorStalls, Ahead, Collecting
  <2>2. ~Valid(file[Entry]) /\ marker[Entry] < MaxStalls
    BY <1>9, CurrentAhead DEF CollectorStalls, env
  <2>3. QED
    BY <1>9, <2>1, <2>2
       DEF CollectorStalls, AheadOpen, Entry, Dest, Img, Cur, disk, loopVars
<1>10. ASSUME Running, Put("empty") \/ Put("cut") \/ Put("torn") \/ Put("full") \/ UNCHANGED raw,
              marker' = marker, force' = force, idx' = idx, todo' = todo,
              (pos' = pos /\ pc' = "rest") \/ (pos' = pos + 1 /\ pc' = "run"),
              \A k \in 1 .. Len(todo) : k > pos => k \in Ahead,
              pc' = "rest" => Put("cut")
       PROVE  AheadOpen'
  <2>1. Ahead' \subseteq {k \in 1 .. Len(todo) : k > pos}
    BY <1>10 DEF Ahead, Collecting
  <2>2. ASSUME NEW k \in 1 .. Len(todo), k > pos
        PROVE  file'[At(k)] = file[At(k)]
    <3>1. At(k) \in Entries /\ At(k) # Entry
      BY <1>10, <2>2, OtherEntry
    <3>2. QED
      BY <1>10, <3>1 DEF Put, raw
  <2>3. \A k \in Ahead' : ~Valid(file'[At(k)]) /\ marker[At(k)] < MaxStalls
    BY <1>10, <2>1, <2>2 DEF AheadOpen
  <2>4. ASSUME pc' = "rest" PROVE file'[Entry] = "cut" /\ origin'[Entry] = Img
    BY <1>10, <2>4, EntryType DEF Put
  <2>5. QED
    BY <1>10, <2>3, <2>4 DEF AheadOpen, Entry, Dest, Img, Cur
<1>11. CASE CreateOutput
  <2>1. CASE pc' = "first"
    <3>1. Put("empty") /\ pos' = pos /\ idx' = idx /\ todo' = todo
      BY <1>11, <2>1 DEF CreateOutput, NextCollector
    <3>2. ~Valid(file'[Entry]) /\ marker[Entry] < MaxStalls
      BY <1>11, <3>1, EntryType, CurrentAhead DEF CreateOutput, Put, Valid, Running, env
    <3>3. ASSUME NEW k \in 1 .. Len(todo), k >= pos
          PROVE  ~Valid(file'[At(k)]) /\ marker[At(k)] < MaxStalls
      <4>1. CASE k = pos
        BY <3>2, <4>1 DEF Entry, Cur
      <4>2. CASE k > pos
        <5>1. At(k) \in Entries /\ At(k) # Entry
          BY <1>11, <4>2, OtherEntry DEF CreateOutput, Running
        <5>2. k \in Ahead
          BY <1>11, <4>2 DEF CreateOutput, Ahead, Collecting
        <5>3. QED
          BY <1>11, <3>1, <5>1, <5>2 DEF CreateOutput, Put, AheadOpen, env
      <4>3. QED
        BY <3>3, <4>1, <4>2
    <3>4. QED
      BY <1>11, <2>1, <3>1, <3>3 DEF CreateOutput, AheadOpen, Ahead, Collecting, Dest, Img
  <2>2. CASE pc' = "run"
    BY <1>10, <1>11, <2>2
       DEF CreateOutput, NextCollector, Running, Ahead, Collecting, raw, env
  <2>3. QED
    BY <1>11, <2>1, <2>2 DEF CreateOutput, NextCollector
<1>12. CASE WriteFirst
  <2>1. Running /\ \A k \in 1 .. Len(todo) : k > pos => k \in Ahead
    BY <1>12 DEF WriteFirst, Running, Ahead, Collecting
  <2>2. marker' = marker /\ force' = force /\ idx' = idx /\ todo' = todo
    BY <1>12 DEF WriteFirst, env
  <2>3. CASE Put("cut") /\ pc' = "rest" /\ UNCHANGED pos
    <3>1. pc' = "rest" /\ pos' = pos /\ Put("cut")
      BY <2>3
    <3>2. QED
      BY <1>10, <2>1, <2>2, <3>1
  <2>4. CASE (Put("torn") \/ UNCHANGED raw) /\ NextCollector
    <3>1. pc' = "run" /\ pos' = pos + 1 /\ pc' # "rest"
      BY <2>4 DEF NextCollector
    <3>2. QED
      BY <1>10, <2>1, <2>2, <2>4, <3>1
  <2>5. QED
    BY <1>12, <2>3, <2>4 DEF WriteFirst
<1>13. CASE WriteRest
  BY <1>10, <1>13 DEF WriteRest, NextCollector, Running, Ahead, Collecting, raw, env
<1>14. CASE BumpStall
  <2>1. CASE pc' = "mark"
    <3>1. count' <= MaxStalls
      BY <1>14, <2>1, EntryType, ConstantsAssumption
         DEF BumpStall, AheadOpen, Running, Exit, env
    <3>2. Ahead' = {}
      BY <2>1 DEF Ahead, Collecting
    <3>3. QED
      BY <2>1, <3>1, <3>2 DEF AheadOpen
  <2>2. CASE pc' = "exited"
    BY <1>1, <2>2 DEF Collecting
  <2>3. QED
    BY <1>14, <2>1, <2>2 DEF BumpStall, Exit
<1>15. CASE Invoke \/ Crash \/ Startup \/ Finish \/ AllDone \/ WriteMarker \/ Reexec
  BY <1>1, <1>15
     DEF Invoke, Crash, Startup, Finish, AllDone, WriteMarker, Reexec, Exit, Collecting
<1>16. CASE RemoveStore \/ CreateSchema \/ FillStore \/ EndImage
  BY <1>1, <1>16 DEF RemoveStore, CreateSchema, FillStore, EndImage, Collecting
<1>17. CASE Reap
  BY <1>1, <1>17 DEF Reap, Collecting
<1>18. CASE UNCHANGED vars
  BY <1>18 DEF vars, AheadOpen, Ahead, Collecting, Entry, Dest, Img, Cur
<1>19. QED
  BY <1>3, <1>4, <1>5, <1>6, <1>7, <1>8, <1>9, <1>11, <1>12, <1>13, <1>14, <1>15,
     <1>16, <1>17, <1>18 DEF Next, Step

(* Only the operator changes FORCE and the plugin list. *)
LEMMA EnvFixed == ASSUME [Next]_vars, ~Invoke PROVE force' = force /\ plugins' = plugins
BY DEF Next, Step, vars, env, Crash, Startup, BeginImage, Finish, Classify, AllDone, OpenEngine,
       UnknownCollector, StartCollector, CollectorAnswers, CollectorStalls, CreateOutput,
       WriteFirst, WriteRest, BumpStall, WriteMarker, Reexec, RemoveStore, CreateSchema,
       FillStore, Reap, EndImage

(* The raw outputs change only where writeJSONL and the reaping loop change them. *)
LEMMA RawSteps ==
    ASSUME [Next]_vars PROVE raw' = raw \/ CreateOutput \/ WriteFirst \/ WriteRest \/ Reap
BY DEF Next, Step, vars, disk, raw, Invoke, Crash, Startup, BeginImage, Finish, Classify, AllDone,
       OpenEngine, UnknownCollector, StartCollector, CollectorAnswers, CollectorStalls,
       BumpStall, WriteMarker, Reexec, RemoveStore, CreateSchema, FillStore, EndImage

(* A step without FORCE changes a valid output only where its own writer extends it. *)
LEMMA StepKeeps ==
    ASSUME TypeInv, AheadOpen, [Next]_vars, ~force, NEW e \in Entries, Valid(file[e])
    PROVE  Keeps(e)
<1> USE DEF TypeInv, TypeOK, Keeps, Valid
<1>1. CASE raw' = raw
  BY <1>1 DEF raw
<1>2. CASE CreateOutput
  <2>1. e # Entry
    BY <1>2, CurrentAhead DEF CreateOutput
  <2>2. QED
    BY <1>2, <2>1 DEF CreateOutput, Put, raw
<1>3. CASE WriteFirst
  <2>1. e # Entry
    BY <1>3, CurrentAhead DEF WriteFirst
  <2>2. QED
    BY <1>3, <2>1 DEF WriteFirst, Put, raw
<1>4. CASE WriteRest
  <2>1. file[Entry] = "cut" /\ origin[Entry] = Img
    BY <1>4 DEF WriteRest, AheadOpen
  <2>2. QED
    BY <1>4, <2>1 DEF WriteRest, Put, raw
<1>5. CASE Reap
  BY <1>5 DEF Reap, raw
<1>6. QED
  BY <1>1, <1>2, <1>3, <1>4, <1>5, RawSteps

(* What was completed in this invocation stays valid on disk without FORCE. *)
LEMMA NextCompleted ==
    ASSUME TypeInv, AheadOpen, CompletedValid, [Next]_vars PROVE CompletedValid'
<1> USE DEF CompletedValid
<1>1. CASE Invoke
  BY <1>1 DEF Invoke
<1>2. CASE ~Invoke /\ completed' \subseteq completed
  <2>1. SUFFICES ASSUME ~force, NEW e \in completed PROVE Valid(file'[e])
    BY <1>2, EnvFixed
  <2>2. e \in Entries /\ Valid(file[e])
    BY <2>1 DEF TypeInv, TypeOK
  <2>3. QED
    BY <2>1, <2>2, StepKeeps DEF Keeps
<1>3. CASE WriteRest
  <2>1. SUFFICES ASSUME ~force, NEW e \in completed' PROVE Valid(file'[e])
    BY <1>3, EnvFixed DEF Invoke, WriteRest
  <2>2. CASE e \in completed
    <3>1. e \in Entries /\ Valid(file[e])
      BY <2>1, <2>2 DEF TypeInv, TypeOK
    <3>2. QED
      BY <2>1, <3>1, StepKeeps DEF Keeps
  <2>3. CASE e \notin completed
    <3>1. e = Entry /\ Put("full")
      BY <1>3, <2>1, <2>3 DEF WriteRest
    <3>2. Entry \in Entries
      BY <1>3, EntryType DEF WriteRest, Running
    <3>3. QED
      BY <3>1, <3>2 DEF Put, Valid, TypeInv, TypeOK
  <2>4. QED
    BY <2>2, <2>3
<1>4. ~Invoke /\ ~WriteRest => completed' = completed
  BY DEF Next, Step, vars, history, Crash, Startup, BeginImage, Finish, Classify, AllDone,
         OpenEngine, UnknownCollector, StartCollector, CollectorAnswers, CollectorStalls,
         CreateOutput, WriteFirst, BumpStall, WriteMarker, Reexec, RemoveStore,
         CreateSchema, FillStore, Reap, EndImage
<1>5. QED
  BY <1>1, <1>2, <1>3, <1>4

(* A step that touches neither a marker nor the stall history keeps the stalls *)
(* recorded: an output that becomes valid only drops an obligation.            *)
LEMMA QuietStalls ==
    ASSUME TypeInv, AheadOpen, StallsRecorded, [Next]_vars, force' = force,
           stalls' = stalls, marker' = marker, {pc, pc'} \cap {"bump", "mark"} = {},
           pc' # "exited" => pc # "exited"
    PROVE  StallsRecorded'
<1> SUFFICES ASSUME ~force, pc' # "exited", NEW e \in Entries, ~Valid(file'[e])
             PROVE  stalls[e] <= marker[e]
  BY DEF StallsRecorded, Recorded
<1>1. ~Valid(file[e])
  BY StepKeeps DEF Keeps
<1>2. QED
  BY <1>1 DEF StallsRecorded, Recorded

(* Without FORCE a stall is in the marker, or on its way there, until an output exists. *)
LEMMA NextStalls ==
    ASSUME TypeInv, AheadOpen, StallsRecorded, StallBound, [Next]_vars
    PROVE  StallsRecorded' /\ StallBound'
<1> USE ConstantsAssumption
<1>1. CASE Invoke
  <2>1. marker' = marker /\ pc' = "start" /\ stalls' = [e \in Entries |-> 0]
    BY <1>1 DEF Invoke, disk
  <2>2. \A e \in Entries : marker[e] \in Nat /\ 0 <= marker[e] /\ 0 <= MaxStalls
    BY DEF TypeInv, TypeOK
  <2>3. QED
    BY <2>1, <2>2 DEF StallsRecorded, StallBound, Recorded
<1>2. CASE CollectorStalls
  <2>1. SUFFICES ASSUME ~force PROVE StallsRecorded' /\ StallBound'
    BY <1>2 DEF CollectorStalls, env, StallsRecorded, StallBound
  <2>2. /\ file' = file /\ marker' = marker /\ pc = "collect" /\ pc' = "bump" /\ Entry' = Entry
        /\ stalls' = [stalls EXCEPT ![Entry] = OneMore(@)] /\ force' = force
    BY <1>2 DEF CollectorStalls, disk, loopVars, env, Entry, Dest, Img, Cur
  <2>3. Entry \in Entries
    BY <2>2, EntryType DEF Running
  <2>4. ~Valid(file[Entry]) /\ marker[Entry] < MaxStalls
    BY <2>1, <2>2, CurrentAhead
  <2>5. stalls[Entry] <= marker[Entry] /\ stalls[Entry] \in Nat /\ marker[Entry] \in Nat
    BY <2>1, <2>2, <2>3, <2>4 DEF StallsRecorded, Recorded, TypeInv, TypeOK
  <2>6. /\ stalls'[Entry] = stalls[Entry] + 1
        /\ \A e \in Entries : e # Entry => stalls'[e] = stalls[e]
    BY <2>2, <2>3, <2>4, <2>5 DEF TypeInv, TypeOK, OneMore
  <2>7. StallBound'
    BY <2>1, <2>2, <2>4, <2>5, <2>6 DEF StallBound
  <2>8. StallsRecorded'
    BY <2>1, <2>2, <2>5, <2>6 DEF StallsRecorded, Recorded
  <2>9. QED
    BY <2>7, <2>8
<1>3. CASE BumpStall
  <2>1. SUFFICES ASSUME ~force PROVE StallsRecorded' /\ StallBound'
    BY <1>3 DEF BumpStall, env, StallsRecorded, StallBound
  <2>2. /\ file' = file /\ stalls' = stalls /\ pc = "bump" /\ Entry' = Entry /\ force' = force
    BY <1>3 DEF BumpStall, raw, history, loopVars, env, Entry, Dest, Img, Cur
  <2>3. StallBound'
    BY <2>1, <2>2 DEF StallBound
  <2>4. CASE pc' = "exited"
    BY <2>3, <2>4 DEF StallsRecorded
  <2>5. CASE /\ count' = marker[Entry] + 1 /\ pc' = "mark"
             /\ marker' = [marker EXCEPT ![Entry] = 0]
    <3>1. \A e \in Entries : e # Entry => marker'[e] = marker[e]
      BY <2>5 DEF TypeInv, TypeOK
    <3>2. \A e \in Entries : ~Valid(file[e]) =>
             stalls[e] <= IF e = Entry THEN marker[e] + 1 ELSE marker[e]
      BY <2>1, <2>2 DEF StallsRecorded, Recorded
    <3>3. QED
      BY <2>2, <2>3, <2>5, <3>1, <3>2 DEF StallsRecorded, Recorded
  <2>6. QED
    BY <1>3, <2>4, <2>5 DEF BumpStall, Exit
<1>4. CASE WriteMarker
  <2>1. SUFFICES ASSUME ~force PROVE StallsRecorded' /\ StallBound'
    BY <1>4 DEF WriteMarker, env, StallsRecorded, StallBound
  <2>2. /\ file' = file /\ stalls' = stalls /\ pc = "mark" /\ Entry' = Entry /\ force' = force
    BY <1>4 DEF WriteMarker, raw, history, loopVars, env, Entry, Dest, Img, Cur
  <2>3. StallBound'
    BY <2>1, <2>2 DEF StallBound
  <2>4. CASE pc' = "exited"
    BY <2>3, <2>4 DEF StallsRecorded
  <2>5. CASE pc' = "reexec" /\ marker' = [marker EXCEPT ![Entry] = count]
    <3>1. \A e \in Entries : marker'[e] = IF e = Entry THEN count ELSE marker[e]
      BY <2>5 DEF TypeInv, TypeOK
    <3>2. \A e \in Entries : ~Valid(file[e]) =>
             stalls[e] <= IF e = Entry THEN count ELSE marker[e]
      BY <2>1, <2>2 DEF StallsRecorded, Recorded
    <3>3. QED
      BY <2>2, <2>3, <2>5, <3>1, <3>2 DEF StallsRecorded, Recorded
  <2>6. QED
    BY <1>4, <2>4, <2>5 DEF WriteMarker, Exit
<1>5. CASE Reap
  <2>1. SUFFICES ASSUME ~force PROVE StallsRecorded' /\ StallBound'
    BY <1>5 DEF Reap, env, StallsRecorded, StallBound
  <2>2. pc = "reap" /\ pc' = "reap" /\ stalls' = stalls /\ force' = force
    BY <1>5 DEF Reap, history, env
  <2>3. ASSUME NEW e \in Entries, ~Valid(file'[e])
        PROVE  ~Valid(file[e]) /\ marker'[e] = marker[e]
    BY <1>5, <2>3 DEF Reap, raw, Valid, TypeInv, TypeOK
  <2>4. StallsRecorded'
    BY <2>1, <2>2, <2>3 DEF StallsRecorded, Recorded
  <2>5. QED
    BY <2>1, <2>2, <2>4 DEF StallBound
<1>6. CASE Startup \/ BeginImage \/ Finish \/ Classify \/ AllDone \/ OpenEngine
           \/ UnknownCollector \/ StartCollector \/ CollectorAnswers
  BY <1>6, QuietStalls
     DEF Startup, BeginImage, Finish, Classify, AllDone, OpenEngine, UnknownCollector,
         StartCollector, CollectorAnswers, Exit, disk, history, env, StallBound
<1>7. CASE CreateOutput \/ WriteFirst \/ WriteRest
  BY <1>7, QuietStalls
     DEF CreateOutput, WriteFirst, WriteRest, NextCollector, history, env, StallBound
<1>8. CASE RemoveStore \/ CreateSchema \/ FillStore \/ EndImage \/ Reexec
  BY <1>8, QuietStalls
     DEF RemoveStore, CreateSchema, FillStore, EndImage, Reexec, Exit, disk, history, env,
         StallBound
<1>9. CASE Crash
  BY <1>9 DEF Crash, Exit, history, env, StallsRecorded, StallBound
<1>10. CASE UNCHANGED vars
  BY <1>10 DEF vars, StallsRecorded, StallBound, Recorded, Entry, Dest, Img, Cur
<1>11. QED
  BY <1>1, <1>2, <1>3, <1>4, <1>5, <1>6, <1>7, <1>8, <1>9, <1>10 DEF Next, Step

(* The resumability invariant holds before the first process. *)
LEMMA InitResumable == Init => TypeInv /\ Resumable
<1> SUFFICES ASSUME Init PROVE TypeInv /\ Resumable
  OBVIOUS
<1>1. TypeInv
  BY InitType
<1>2. TodoDistinct
  BY DEF Init, TodoDistinct, Distinct
<1>3. AheadOpen
  BY DEF Init, AheadOpen, Ahead, Collecting
<1>4. StallsRecorded /\ StallBound /\ CompletedValid
  BY ConstantsAssumption DEF Init, StallsRecorded, StallBound, CompletedValid
<1>5. QED
  BY <1>1, <1>2, <1>3, <1>4 DEF Resumable, TypeInv

(* Every step keeps the resumability invariant. *)
LEMMA NextResumable ==
    ASSUME DistinctPlugins
    PROVE  TypeInv /\ Resumable /\ [Next]_vars => (TypeInv /\ Resumable)'
<1> SUFFICES ASSUME TypeInv, Resumable, [Next]_vars PROVE TypeInv' /\ Resumable'
  OBVIOUS
<1> USE DEF Resumable
<1>1. TypeInv'
  BY NextType
<1>2. TodoDistinct'
  BY NextTodo
<1>3. AheadOpen'
  BY NextAhead
<1>4. StallsRecorded' /\ StallBound'
  BY NextStalls
<1>5. CompletedValid'
  BY NextCompleted
<1>6. QED
  BY <1>1, <1>2, <1>3, <1>4, <1>5 DEF TypeInv

(* The invariant that makes a batch without FORCE resumable holds at every step *)
(* of every chain of processes, provided no plugin list names a collector twice.*)
THEOREM AlwaysResumable == ASSUME DistinctPlugins PROVE Spec => []Resumable
<1>1. Init => TypeInv /\ Resumable
  BY InitResumable
<1>2. TypeInv /\ Resumable /\ [Next]_vars => (TypeInv /\ Resumable)'
  BY NextResumable
<1>3. QED
  BY <1>1, <1>2, PTL DEF Spec

(* "after two stalls it is skipped as failed" (batch.go:36), for any number of  *)
(* images, collectors, runs and kills: without FORCE no invocation lets one     *)
(* collector of one image stall more than maxStalls times.                      *)
THEOREM StallsBounded == ASSUME DistinctPlugins PROVE Spec => []StallBound
<1>1. Resumable => StallBound
  BY DEF Resumable
<1>2. QED
  BY AlwaysResumable, <1>1, PTL

(* Without FORCE no step of any process - re-exec, rerun after a kill, failed   *)
(* write - invalidates, shrinks or takes over an output validJSONL accepts.     *)
THEOREM ValidOutputKept == ASSUME DistinctPlugins PROVE Spec => ValidKept
<1>1. TypeInv /\ Resumable /\ [Next]_vars
        => [\A e \in Entries : ~force /\ Valid(file[e]) => Keeps(e)]_vars
  BY StepKeeps DEF Resumable
<1>2. Init => TypeInv /\ Resumable
  BY InitResumable
<1>3. TypeInv /\ Resumable /\ [Next]_vars => (TypeInv /\ Resumable)'
  BY NextResumable
<1>4. QED
  BY <1>1, <1>2, <1>3, PTL DEF Spec, ValidKept

(* Where no operator sets FORCE, no environment has it. *)
LEMMA NeverForced ==
    ASSUME ForceModes = {FALSE} PROVE ~force /\ [Next]_vars => ~force'
<1>1. ASSUME Invoke PROVE ~force'
  BY <1>1 DEF Invoke
<1>2. QED
  BY <1>1, EnvFixed

(* "completed collectors skip" (batch.go:35), where FORCE is never set: what    *)
(* has written its whole output is not started again by any process of the      *)
(* invocation.                                                                  *)
THEOREM CompletedSkipped ==
    ASSUME DistinctPlugins, ForceModes = {FALSE} PROVE Spec => CompletedNotRerun
<1>1. Init => TypeInv /\ Resumable /\ ~force
  BY InitResumable DEF Init
<1>2. TypeInv /\ Resumable /\ ~force /\ [Next]_vars => (TypeInv /\ Resumable /\ ~force)'
  BY NextResumable, NeverForced
<1>3. TypeInv /\ Resumable /\ ~force /\ [Next]_vars
        => [pc = "run" /\ pc' = "collect" => Entry \notin completed]_vars
  <2> SUFFICES ASSUME TypeInv, Resumable, ~force, [Next]_vars, pc = "run", pc' = "collect"
               PROVE  Entry \notin completed
    OBVIOUS
  <2>1. StartCollector
    BY DEF Next, Step, vars, Invoke, Crash, Startup, BeginImage, Finish, Classify, AllDone,
           OpenEngine, UnknownCollector, StartCollector, CreateOutput, WriteFirst, WriteRest,
           BumpStall, WriteMarker, Reexec, RemoveStore, CreateSchema, FillStore, Reap,
           EndImage, CollectorAnswers, CollectorStalls, Exit
  <2>2. pos \in Ahead /\ Entry = <<Dest, todo[pos]>>
    BY <2>1 DEF StartCollector, Ahead, Collecting, TypeInv, TypeOK, Entry, Cur
  <2>3. ~Valid(file[Entry])
    BY <2>2 DEF Resumable, AheadOpen
  <2>4. QED
    BY <2>3 DEF Resumable, CompletedValid
<1>4. QED
  BY <1>1, <1>2, <1>3, PTL DEF Spec, CompletedNotRerun

-----------------------------------------------------------------------------
(* The store never gets ahead of the raw output. *)

(* While an output is being completed no complete store has rows of it: it was *)
(* invalid when its writer began.                                              *)
StoreBehind ==
    /\ \A e \in Entries : store[e[1]] = "complete" /\ Valid(rows[e]) => file[e] = rows[e]
    /\ pc = "rest" => ~(store[Dest] = "complete" /\ Valid(rows[Entry]))

LEMMA NextStoreBehind ==
    ASSUME TypeInv, AheadOpen, StoreBehind, ~force, [Next]_vars PROVE StoreBehind'
<1> DEFINE Shows(e) == store[e[1]] = "complete" /\ Valid(rows[e])
<1> USE DEF StoreBehind, TypeInv, TypeOK
<1>1. ASSUME file' = file, store' = store, rows' = rows, pc' # "rest" PROVE StoreBehind'
  BY <1>1
<1>2. CASE CreateOutput \/ WriteFirst
  <2>1. Entry \in Entries /\ ~Valid(file[Entry])
    BY <1>2, EntryType, CurrentAhead DEF CreateOutput, WriteFirst, Running
  <2>2. ~Shows(Entry)
    BY <2>1
  <2>3. store' = store /\ rows' = rows /\ \A e \in Entries : e # Entry => file'[e] = file[e]
    BY <1>2, <2>1 DEF CreateOutput, WriteFirst, Put, raw, car
  <2>4. pc' = "rest" => Dest' = Dest /\ Entry' = Entry
    BY <1>2 DEF CreateOutput, WriteFirst, NextCollector, Entry, Dest, Img, Cur
  <2>5. Entry[1] = Dest
    BY DEF Entry
  <2> QED BY <2>2, <2>3, <2>4, <2>5
<1>3. CASE WriteRest
  <2>1. Entry \in Entries /\ Entry[1] = Dest /\ ~Shows(Entry)
    BY <1>3, EntryType DEF WriteRest, Running, Entry
  <2>2. /\ store' = store /\ rows' = rows /\ pc' = "run"
        /\ \A e \in Entries : e # Entry => file'[e] = file[e]
    BY <1>3, <2>1 DEF WriteRest, NextCollector, Put, raw, car
  <2> QED BY <2>1, <2>2
<1>4. CASE RemoveStore
  <2>1. file' = file /\ pc' = "schema"
    BY <1>4 DEF RemoveStore, raw
  <2>2. ASSUME NEW e \in Entries, store'[e[1]] = "complete", Valid(rows'[e])
        PROVE  file[e] = rows'[e]
    <3>1. e[1] \in Dests
      BY DEF Entries
    <3>2. e[1] # Dest
      BY <1>4, <2>2, <3>1 DEF RemoveStore
    <3> QED BY <1>4, <2>2, <3>1, <3>2 DEF RemoveStore
  <2> QED BY <2>1, <2>2
<1>5. CASE CreateSchema
  <2>1. file' = file /\ rows' = rows /\ pc' # "rest"
    BY <1>5 DEF CreateSchema, raw
  <2>2. \A e \in Entries : store'[e[1]] = "complete" => store[e[1]] = "complete"
    BY <1>5 DEF CreateSchema, Entries
  <2> QED BY <2>1, <2>2
<1>6. CASE FillStore
  <2>1. file' = file /\ pc' = "reap"
    BY <1>6 DEF FillStore, raw
  <2>2. ASSUME NEW e \in Entries, store'[e[1]] = "complete", Valid(rows'[e])
        PROVE  file[e] = rows'[e]
    <3>1. CASE UNCHANGED car
      BY <2>2, <3>1 DEF car
    <3>2. CASE /\ store' = [store EXCEPT ![Dest] = "complete"]
               /\ rows' = [x \in Entries |-> IF x[1] = Dest THEN Loaded(x) ELSE rows[x]]
      <4>1. CASE e[1] = Dest
        BY <2>2, <3>2, <4>1 DEF Loaded, Valid
      <4>2. CASE e[1] # Dest
        BY <2>2, <3>2, <4>2 DEF Entries
      <4> QED BY <4>1, <4>2
    <3> QED BY <1>6, <3>1, <3>2 DEF FillStore
  <2> QED BY <2>1, <2>2
<1>7. CASE Reap
  <2>1. store' = store /\ rows' = rows /\ pc' = "reap"
    BY <1>7 DEF Reap, car
  <2>2. \A e \in Entries : Valid(file[e]) => file'[e] = file[e]
    BY <1>7 DEF Reap, raw
  <2> QED BY <2>1, <2>2
<1>8. CASE Invoke \/ Crash \/ Startup \/ BeginImage \/ Finish \/ Classify \/ AllDone
  BY <1>1, <1>8
     DEF Invoke, Crash, Startup, BeginImage, Finish, Classify, AllDone, Exit, disk
<1>9. CASE OpenEngine \/ UnknownCollector \/ StartCollector \/ CollectorAnswers
           \/ CollectorStalls \/ BumpStall \/ WriteMarker \/ Reexec \/ EndImage
  BY <1>1, <1>9
     DEF OpenEngine, UnknownCollector, StartCollector, CollectorAnswers, CollectorStalls,
         BumpStall, WriteMarker, Reexec, EndImage, Exit, disk, raw, car
<1>10. CASE UNCHANGED vars
  BY <1>10 DEF vars, Entry, Dest, Img, Cur
<1> QED
  BY <1>2, <1>3, <1>4, <1>5, <1>6, <1>7, <1>8, <1>9, <1>10 DEF Next, Step

(* Where FORCE is never used a complete car.db holds no rows that the raw       *)
(* output on disk does not have, whatever was killed, stalled or run again.     *)
THEOREM StoreNeverAhead == ASSUME DistinctPlugins PROVE Spec => []StoreMatchesRaw
<1> DEFINE Never == ForceModes = {FALSE} => ~force /\ StoreBehind
           I == TypeInv /\ Resumable /\ Never
<1>1. Init => I
  <2>1. Init => ~force /\ StoreBehind
    BY DEF Init, StoreBehind, Valid
  <2> QED BY <2>1, InitResumable
<1>2. I /\ [Next]_vars => I'
  <2> SUFFICES ASSUME I, [Next]_vars PROVE I'
    OBVIOUS
  <2>1. TypeInv' /\ Resumable'
    BY NextResumable
  <2>2. ASSUME ForceModes = {FALSE} PROVE ~force' /\ StoreBehind'
    BY <2>2, NeverForced, NextStoreBehind DEF Resumable
  <2> QED BY <2>1, <2>2
<1>3. I => StoreMatchesRaw
  BY DEF StoreMatchesRaw, StoreBehind
<1> QED BY <1>1, <1>2, <1>3, PTL DEF Spec

-----------------------------------------------------------------------------
(* The summary adds up. *)

Tally == processed + skipped + failed

(* What the images before the i-th ask for. *)
Asked(i) == (i - 1) * Len(plugins)

(* The process is between the classification of an image and its reaping. *)
Mid == {"run", "collect", "create", "first", "rest", "schema", "fill"}

(* Every collector of the images so far is counted, or still in todo. *)
SumsUp ==
    /\ pc = "image" => Tally = Asked(idx)
    /\ pc = "classify" => /\ pos <= Len(plugins) + 1
                         /\ Tally + Len(todo) = Asked(idx) + pos - 1
    /\ pc \in Mid => Tally + Len(todo) = Asked(idx) + Len(plugins)
    /\ pc = "reap" => /\ pos <= Len(todo) + 1
                     /\ Tally + Len(todo) = Asked(idx) + Len(plugins) + pos - 1
    /\ Finished => Tally = Len(ImageSeq) * Len(plugins)

(* todo comes from the list; without FORCE nothing in it is done in the old layout. *)
FromList ==
    Busy => \A k \in 1 .. Len(todo) :
              /\ \E m \in 1 .. Len(plugins) : todo[k] = plugins[m]
              /\ ~force => <<Dest, todo[k]>> \notin Legacy

(* The collectors of the current image that are in todo and not counted yet. *)
Pending == {todo[k] : k \in {j \in 1 .. Len(todo) : pc = "reap" => j >= pos}}

(* The requests, an image and a position of the list each, and those counted so far. *)
Requests == (1 .. Len(ImageSeq)) \X (1 .. Len(plugins))
EntryOf(kj) == <<DestOf[ImageSeq[kj[1]]], plugins[kj[2]]>>
Judged(kj) ==
    \/ kj[1] < idx
    \/ Busy /\ kj[1] = idx /\ plugins[kj[2]] \notin Pending /\ (pc = "classify" => kj[2] < pos)
DoneSoFar == {kj \in Requests : Judged(kj) /\ PluginDone(EntryOf(kj))}

(* Without FORCE what is counted as processed or skipped is what has an output. *)
Counting == Mid \cup {"image", "classify", "reap"}
Counted ==
    ~force =>
      /\ pc \in Counting => processed + skipped = Cardinality(DoneSoFar)
      /\ Finished =>
           processed + skipped = Cardinality({kj \in Requests : PluginDone(EntryOf(kj))})

(* What is asked for grows by one list per image. *)
LEMMA AskedSums ==
    ASSUME TypeInv
    PROVE  /\ Asked(1) = 0
           /\ Asked(Len(ImageSeq) + 1) = Len(ImageSeq) * Len(plugins)
           /\ \A i \in Nat \ {0} : /\ Asked(i) \in Nat
                                  /\ Asked(i + 1) = Asked(i) + Len(plugins)
<1>1. \A i, l \in Nat : i * l \in Nat /\ (i + 1) * l = i * l + l /\ 0 * l = 0
  OBVIOUS
<1>2. Len(plugins) \in Nat /\ Len(ImageSeq) \in Nat
  BY ConstantsAssumption DEF TypeInv, TypeOK
<1>3. Asked(1) = 0 /\ Asked(Len(ImageSeq) + 1) = Len(ImageSeq) * Len(plugins)
  <2>1. 1 - 1 = 0 /\ Len(ImageSeq) + 1 - 1 = Len(ImageSeq)
    BY <1>2
  <2> QED BY <1>1, <1>2, <2>1 DEF Asked
<1>4. ASSUME NEW i \in Nat \ {0}
      PROVE  Asked(i) \in Nat /\ Asked(i + 1) = Asked(i) + Len(plugins)
  <2>1. PICK j \in Nat : i - 1 = j /\ i + 1 - 1 = j + 1
    OBVIOUS
  <2> QED BY <1>1, <1>2, <2>1 DEF Asked
<1> QED BY <1>3, <1>4

(* Each collector of each image enters the tally once. *)
LEMMA NextSums == ASSUME TypeInv, SumsUp, [Next]_vars PROVE SumsUp'
<1> DEFINE A == Asked(idx)
<1>1. ASSUME ~Invoke PROVE plugins' = plugins /\ \A i \in Nat : Asked(i)' = Asked(i)
  BY <1>1, EnvFixed DEF Asked
<1>2. /\ idx \in Nat \ {0} /\ idx <= Len(ImageSeq) + 1 /\ pos \in Nat \ {0} /\ Tally \in Nat
      /\ Len(todo) \in Nat /\ Len(plugins) \in Nat /\ Len(ImageSeq) \in Nat
  BY ConstantsAssumption DEF TypeInv, TypeOK, Tally
<1>3. A \in Nat /\ Asked(idx + 1) = A + Len(plugins) /\ Asked(1) = 0
      /\ Asked(Len(ImageSeq) + 1) = Len(ImageSeq) * Len(plugins)
  BY <1>2, AskedSums
<1> HIDE DEF A
<1>4. ASSUME pc' \in {"start", "bump", "mark", "reexec"} \/ (pc' = "exited" /\ exit' \notin {0, 1})
      PROVE  SumsUp'
  BY <1>4 DEF SumsUp, Mid, Finished
<1>5. CASE Startup
  <2>1. CASE pc' = "image" /\ idx' = 1 /\ Tally' = 0
    <3>1. plugins' = plugins
      BY <1>5 DEF Startup, env
    <3>2. Asked(idx)' = 0
      BY <1>3, <2>1, <3>1 DEF Asked
    <3> QED BY <2>1, <3>2 DEF SumsUp, Mid, Finished
  <2> QED BY <1>4, <1>5, <2>1 DEF Startup, Exit, Tally
<1>6. CASE BeginImage
  <2>1. /\ pc = "image" /\ pc' = "classify" /\ idx' = idx /\ pos' = 1 /\ Len(todo') = 0
        /\ Tally' = Tally /\ plugins' = plugins
    BY <1>6 DEF BeginImage, env, sum, Tally
  <2>2. Asked(idx)' = A
    BY <2>1 DEF Asked, A
  <2> QED BY <1>2, <1>3, <2>1, <2>2 DEF SumsUp, Mid, Finished, A
<1>7. CASE Finish
  <2>1. /\ pc = "image" /\ pc' = "exited" /\ idx = Len(ImageSeq) + 1
        /\ Tally' = Tally /\ plugins' = plugins
    BY <1>2, <1>7 DEF Finish, env, sum, Tally, Exit
  <2> QED BY <1>2, <1>3, <2>1 DEF SumsUp, Mid, Finished
<1>8. CASE Classify
  <2>1. /\ pc = "classify" /\ pc' = "classify" /\ idx' = idx /\ pos' = pos + 1
        /\ pos <= Len(plugins) /\ plugins' = plugins
    BY <1>8 DEF Classify, env
  <2>2. Tally' + Len(todo') = Tally + Len(todo) + 1
    <3>1. Len(Append(todo, plugins[pos])) = Len(todo) + 1
      <4>1. todo \in Seq(Plugins) /\ plugins \in Seq(Plugins) /\ pos \in 1 .. Len(plugins)
        BY <2>1 DEF TypeInv, TypeOK
      <4> QED BY <4>1
    <3>2. \/ skipped' = skipped + 1 /\ failed' = failed /\ todo' = todo
          \/ skipped' = skipped /\ failed' = failed + 1 /\ todo' = todo
          \/ skipped' = skipped /\ failed' = failed /\ todo' = Append(todo, plugins[pos])
      BY <1>8 DEF Classify
    <3>3. processed' = processed
      BY <1>8 DEF Classify
    <3>4. /\ processed \in Nat /\ skipped \in Nat /\ failed \in Nat /\ Len(todo) \in Nat
      BY DEF TypeInv, TypeOK
    <3>5. Tally = processed + skipped + failed
      BY DEF Tally
    <3>6. Tally' = processed + skipped' + failed'
      BY <3>3 DEF Tally
    <3>7. CASE skipped' = skipped + 1 /\ failed' = failed /\ todo' = todo
      BY <3>4, <3>5, <3>6, <3>7
    <3>8. CASE skipped' = skipped /\ failed' = failed + 1 /\ todo' = todo
      BY <3>4, <3>5, <3>6, <3>8
    <3>9. CASE skipped' = skipped /\ failed' = failed /\ todo' = Append(todo, plugins[pos])
      BY <3>1, <3>4, <3>5, <3>6, <3>9
    <3> QED BY <3>2, <3>7, <3>8, <3>9
  <2>3. Asked(idx)' = A
    BY <2>1 DEF Asked, A
  <2>4. Tally + Len(todo) = A + pos - 1
    BY <2>1 DEF SumsUp, A
  <2>5. pos' <= Len(plugins') + 1 /\ Tally' + Len(todo') = Asked(idx)' + pos' - 1
    <3>1. /\ Tally' + Len(todo') = A + pos - 1 + 1 /\ pos' = pos + 1
          /\ pos' <= Len(plugins) + 1
      BY <1>2, <2>1, <2>2, <2>4
    <3> QED BY <1>2, <1>3, <2>1, <2>3, <3>1
  <2> QED BY <2>1, <2>5 DEF SumsUp, Mid, Finished
<1>9. CASE AllDone
  <2>1. /\ pc = "classify" /\ pc' = "image" /\ idx' = idx + 1 /\ Len(todo) = 0
        /\ pos > Len(plugins) /\ plugins' = plugins /\ Tally' = Tally
    BY <1>9 DEF AllDone, env, sum, Tally
  <2>2. Asked(idx)' = A + Len(plugins)
    BY <1>3, <2>1 DEF Asked
  <2>3. pos <= Len(plugins) + 1 /\ Tally + Len(todo) = A + pos - 1
    BY <2>1 DEF SumsUp, A
  <2>4. Tally' = Asked(idx)'
    BY <1>2, <1>3, <2>1, <2>2, <2>3
  <2> QED BY <2>1, <2>4 DEF SumsUp, Mid, Finished
<1>10. CASE EndImage
  <2>1. /\ pc = "reap" /\ pc' = "image" /\ idx' = idx + 1 /\ pos > Len(todo)
        /\ plugins' = plugins /\ Tally' = Tally
    BY <1>10 DEF EndImage, env, sum, Tally
  <2>2. Asked(idx)' = A + Len(plugins)
    BY <1>3, <2>1 DEF Asked
  <2>3. pos <= Len(todo) + 1 /\ Tally + Len(todo) = A + Len(plugins) + pos - 1
    BY <2>1 DEF SumsUp, A
  <2>4. Tally' = Asked(idx)'
    BY <1>2, <1>3, <2>1, <2>2, <2>3
  <2> QED BY <2>1, <2>4 DEF SumsUp, Mid, Finished
<1>11. CASE Reap
  <2>1. /\ pc = "reap" /\ pc' = "reap" /\ idx' = idx /\ pos' = pos + 1 /\ pos <= Len(todo)
        /\ plugins' = plugins /\ todo' = todo /\ Tally' = Tally + 1
    BY <1>11 DEF Reap, env, Tally, TypeInv, TypeOK
  <2>2. Asked(idx)' = A
    BY <2>1 DEF Asked, A
  <2>3. Tally + Len(todo) = A + Len(plugins) + pos - 1
    BY <2>1 DEF SumsUp, A
  <2>4. pos' <= Len(todo') + 1 /\ Tally' + Len(todo') = Asked(idx)' + Len(plugins') + pos' - 1
    BY <1>2, <1>3, <2>1, <2>2, <2>3
  <2> QED BY <2>1, <2>4 DEF SumsUp, Mid, Finished
<1>12. /\ pc \in Mid \/ (pc = "classify" /\ pos > Len(plugins))
       /\ pc' \in Mid \/ (pc' = "reap" /\ pos' = 1)
       /\ idx' = idx /\ todo' = todo /\ plugins' = plugins /\ Tally' = Tally
       => SumsUp'
  <2> SUFFICES ASSUME pc \in Mid \/ (pc = "classify" /\ pos > Len(plugins)),
                      pc' \in Mid \/ (pc' = "reap" /\ pos' = 1),
                      idx' = idx, todo' = todo, plugins' = plugins, Tally' = Tally
               PROVE  SumsUp'
    OBVIOUS
  <2>1. Asked(idx)' = A
    BY DEF Asked, A
  <2>2. Tally + Len(todo) = A + Len(plugins)
    BY <1>2, <1>3 DEF SumsUp, Mid, A
  <2>3. Tally' + Len(todo') = Asked(idx)' + Len(plugins')
    BY <2>1, <2>2
  <2>4. pos' = 1 => /\ pos' <= Len(todo') + 1
                    /\ Tally' + Len(todo') = Asked(idx)' + Len(plugins') + pos' - 1
    BY <1>2, <1>3, <2>1, <2>2
  <2> QED BY <2>3, <2>4 DEF SumsUp, Mid, Finished
<1>13. CASE OpenEngine
  <2>1. /\ pc = "classify" /\ pos > Len(plugins) /\ pos' = 1 /\ pc' \in {"run", "reap"}
        /\ idx' = idx /\ todo' = todo /\ plugins' = plugins /\ Tally' = Tally
    BY <1>13 DEF OpenEngine, env, sum, Tally
  <2> QED BY <1>12, <2>1 DEF Mid
<1>14. CASE UnknownCollector \/ StartCollector \/ CollectorAnswers
  <2>1. /\ pc \in {"run", "collect"} /\ pc' \in {"run", "collect", "create"}
        /\ idx' = idx /\ todo' = todo /\ plugins' = plugins /\ Tally' = Tally
    BY <1>14 DEF UnknownCollector, StartCollector, CollectorAnswers, env, loopVars, sum, Tally
  <2> QED BY <1>12, <2>1 DEF Mid
<1>15. CASE CreateOutput \/ WriteFirst \/ WriteRest
  <2>1. /\ pc \in {"create", "first", "rest"} /\ pc' \in {"run", "first", "rest"}
        /\ idx' = idx /\ todo' = todo /\ plugins' = plugins /\ Tally' = Tally
    BY <1>15 DEF CreateOutput, WriteFirst, WriteRest, NextCollector, env, sum, Tally
  <2> QED BY <1>12, <2>1 DEF Mid
<1>16. CASE RemoveStore \/ CreateSchema \/ FillStore
  <2>1. /\ pc \in {"run", "schema", "fill"}
        /\ pc' \in {"schema", "fill"} \/ (pc' = "reap" /\ pos' = 1)
        /\ idx' = idx /\ todo' = todo /\ plugins' = plugins /\ Tally' = Tally
    BY <1>16 DEF RemoveStore, CreateSchema, FillStore, env, loopVars, sum, Tally
  <2> QED BY <1>12, <2>1 DEF Mid
<1>17. CASE Invoke \/ Crash \/ CollectorStalls \/ BumpStall \/ WriteMarker \/ Reexec
  BY <1>4, <1>17
     DEF Invoke, Crash, CollectorStalls, BumpStall, WriteMarker, Reexec, Exit, Killed
<1>18. CASE UNCHANGED vars
  BY <1>18 DEF vars, SumsUp, Asked, Tally, Finished
<1> QED
  BY <1>5, <1>6, <1>7, <1>8, <1>9, <1>10, <1>11, <1>13, <1>14, <1>15, <1>16, <1>17, <1>18
     DEF Next, Step

(* What is to be run was asked for, and was not done in the old layout. *)
LEMMA NextFromList == ASSUME TypeInv, FromList, [Next]_vars PROVE FromList'
<1> USE DEF TypeInv, TypeOK
<1>1. ASSUME Busy, force' = force, plugins' = plugins, idx' = idx, todo' = todo PROVE FromList'
  BY <1>1 DEF FromList, Dest, Img
<1>2. ASSUME ~Busy' PROVE FromList'
  BY <1>2 DEF FromList
<1>3. CASE BeginImage
  BY <1>3 DEF BeginImage, FromList
<1>4. CASE Classify
  <2>1. /\ Busy /\ force' = force /\ plugins' = plugins /\ idx' = idx /\ pos \in 1 .. Len(plugins)
    BY <1>4 DEF Classify, Busy, env
  <2>2. CASE todo' = todo
    BY <1>1, <2>1, <2>2
  <2>3. CASE todo' = Append(todo, plugins[pos]) /\ ~Skips(<<Dest, plugins[pos]>>)
    <3>1. /\ Len(todo') = Len(todo) + 1 /\ todo'[Len(todo) + 1] = plugins[pos]
          /\ \A k \in 1 .. Len(todo) : todo'[k] = todo[k]
      BY <2>1, <2>3
    <3>2. ~force => <<Dest, plugins[pos]>> \notin Legacy
      BY <2>3 DEF Skips, PluginDone
    <3>3. Dest' = Dest
      BY <2>1 DEF Dest, Img
    <3>4. ASSUME NEW k \in 1 .. Len(todo')
          PROVE  /\ \E m \in 1 .. Len(plugins') : todo'[k] = plugins'[m]
                 /\ ~force' => <<Dest', todo'[k]>> \notin Legacy
      <4>1. CASE k = Len(todo) + 1
        BY <2>1, <3>1, <3>2, <3>3, <4>1
      <4>2. CASE k \in 1 .. Len(todo)
        BY <2>1, <3>1, <3>3, <4>2 DEF FromList
      <4> QED BY <3>1, <4>1, <4>2
    <3> QED BY <3>4 DEF FromList
  <2> QED BY <1>4, <2>2, <2>3 DEF Classify
<1>5. CASE AllDone \/ EndImage \/ Startup \/ Finish \/ Crash \/ Invoke
  BY <1>2, <1>5 DEF AllDone, EndImage, Startup, Finish, Crash, Invoke, Exit, Busy
<1>6. CASE OpenEngine \/ UnknownCollector \/ StartCollector \/ CollectorAnswers \/ CollectorStalls
  BY <1>1, <1>6
     DEF OpenEngine, UnknownCollector, StartCollector, CollectorAnswers, CollectorStalls,
         Busy, env, loopVars
<1>7. CASE CreateOutput \/ WriteFirst \/ WriteRest
  BY <1>1, <1>7 DEF CreateOutput, WriteFirst, WriteRest, Busy, env
<1>8. CASE BumpStall \/ WriteMarker \/ Reexec
  BY <1>1, <1>2, <1>8 DEF BumpStall, WriteMarker, Reexec, Busy, Exit, env, loopVars
<1>9. CASE RemoveStore \/ CreateSchema \/ FillStore \/ Reap
  BY <1>1, <1>9 DEF RemoveStore, CreateSchema, FillStore, Reap, Busy, env, loopVars
<1>10. CASE UNCHANGED vars
  BY <1>10 DEF vars, FromList, Busy, Dest, Img
<1> QED
  BY <1>3, <1>4, <1>5, <1>6, <1>7, <1>8, <1>9, <1>10 DEF Next, Step

(* The requests are finitely many. *)
LEMMA RequestsFinite ==
    ASSUME TypeInv, NEW S \in SUBSET Requests
    PROVE  IsFiniteSet(S) /\ Cardinality(S) \in Nat
<1>1. IsFiniteSet(1 .. Len(ImageSeq)) /\ IsFiniteSet(1 .. Len(plugins))
  BY ConstantsAssumption, FS_Interval DEF TypeInv, TypeOK
<1>2. IsFiniteSet(Requests)
  BY <1>1, FS_Product DEF Requests
<1> QED BY <1>2, FS_Subset, FS_CardinalityType

(* A step that judges no request and turns no judged one over keeps the count. *)
LEMMA DoneSame ==
    ASSUME plugins' = plugins,
           \A kj \in Requests : /\ Judged(kj)' <=> Judged(kj)
                                /\ Judged(kj) => (PluginDone(EntryOf(kj))' <=> PluginDone(EntryOf(kj)))
    PROVE  DoneSoFar' = DoneSoFar
<1>1. Requests' = Requests
  BY DEF Requests
<1> QED BY <1>1 DEF DoneSoFar

(* A request is one of the tree's entries. *)
LEMMA EntryOfType == ASSUME TypeInv, NEW kj \in Requests PROVE EntryOf(kj) \in Entries
BY ConstantsAssumption DEF TypeInv, TypeOK, Requests, EntryOf, Entries

(* The collector at hand in todo is not one of those already counted. *)
LEMMA CountedElsewhere ==
    ASSUME TypeInv, Busy, pos \in 1 .. Len(todo), DistinctDests, Distinct(ImageSeq),
           NEW kj \in Requests, Judged(kj)
    PROVE  EntryOf(kj) # Entry
<1> USE DEF EntryOf, Entry, Dest, Img
<1>1. idx \in 1 .. Len(ImageSeq) /\ kj[1] \in 1 .. Len(ImageSeq)
  BY DEF TypeInv, InBounds, Requests
<1>2. CASE kj[1] < idx
  <2>1. ImageSeq[kj[1]] # ImageSeq[idx]
    BY <1>1, <1>2, ConstantsAssumption DEF Distinct
  <2>2. ImageSeq[kj[1]] \in Images /\ ImageSeq[idx] \in Images
    BY <1>1, ConstantsAssumption
  <2>3. DestOf[ImageSeq[kj[1]]] # DestOf[ImageSeq[idx]]
    BY <2>1, <2>2 DEF DistinctDests
  <2> QED BY <2>3
<1>3. CASE plugins[kj[2]] \notin Pending
  <2>1. Cur \in Pending
    BY DEF Pending, Cur, TypeInv, TypeOK
  <2> QED BY <1>3, <2>1
<1> QED BY <1>2, <1>3 DEF Judged

(* Reaping a collector judges the one request it answers. *)
LEMMA ReapJudges ==
    ASSUME TypeInv, TodoDistinct, FromList, Reap
    PROVE  \E r \in Requests :
             /\ EntryOf(r) = Entry /\ ~Judged(r)
             /\ \A kj \in Requests : Judged(kj)' <=> (Judged(kj) \/ kj = r)
<1> USE DEF TypeInv, TypeOK
<1>1. /\ pc = "reap" /\ pc' = "reap" /\ pos \in 1 .. Len(todo) /\ pos' = pos + 1
      /\ idx' = idx /\ todo' = todo /\ plugins' = plugins
  BY DEF Reap, env
<1>2. Busy /\ Busy' /\ idx \in 1 .. Len(ImageSeq)
  BY <1>1 DEF Busy, InBounds
<1>3. PICK m \in 1 .. Len(plugins) : Cur = plugins[m]
  BY <1>1, <1>2 DEF FromList, Cur
<1>4. Cur \in Pending /\ Pending' = Pending \ {Cur}
  <2>1. Pending = {todo[k] : k \in {j \in 1 .. Len(todo) : j >= pos}}
    BY <1>1 DEF Pending
  <2>2. Pending' = {todo[k] : k \in {j \in 1 .. Len(todo) : j >= pos + 1}}
    BY <1>1 DEF Pending
  <2>3. \A j \in 1 .. Len(todo) : todo[j] = Cur => j = pos
    BY <1>1 DEF TodoDistinct, Distinct, Cur
  <2>4. \A j \in 1 .. Len(todo) : j >= pos + 1 <=> j >= pos /\ j # pos
    BY <1>1
  <2>5. pos >= pos /\ todo[pos] = Cur
    BY <1>1 DEF Cur
  <2> QED BY <1>1, <2>1, <2>2, <2>3, <2>4, <2>5
<1> DEFINE r == <<idx, m>>
<1>5. r \in Requests /\ EntryOf(r) = Entry
  BY <1>2, <1>3 DEF Requests, EntryOf, Entry, Dest, Img
<1>6. ~Judged(r)
  BY <1>1, <1>2, <1>3, <1>4 DEF Judged
<1>7. ASSUME NEW kj \in Requests PROVE Judged(kj)' <=> (Judged(kj) \/ kj = r)
  <2>1. kj[1] \in Nat /\ kj[2] \in 1 .. Len(plugins) /\ kj = <<kj[1], kj[2]>>
    BY ConstantsAssumption DEF Requests
  <2>2. plugins[kj[2]] = Cur <=> kj[2] = m
    BY <1>3, <2>1 DEF TodoDistinct, Distinct
  <2>3. Judged(kj) <=> (kj[1] < idx \/ (kj[1] = idx /\ plugins[kj[2]] \notin Pending))
    BY <1>1, <1>2 DEF Judged
  <2>4. Judged(kj)' <=> (kj[1] < idx \/ (kj[1] = idx /\ plugins[kj[2]] \notin Pending'))
    BY <1>1, <1>2 DEF Judged
  <2>5. kj = r <=> (kj[1] = idx /\ kj[2] = m)
    BY <2>1
  <2> QED BY <1>4, <2>2, <2>3, <2>4, <2>5
<1> QED BY <1>5, <1>6, <1>7

(* Classifying one judges it, unless it is to be run. *)
LEMMA ClassifyJudges ==
    ASSUME TypeInv, TodoDistinct, Classify
    PROVE  LET r == <<idx, pos>> IN
             /\ r \in Requests /\ EntryOf(r) = <<Dest, plugins[pos]>> /\ ~Judged(r)
             /\ \A kj \in Requests :
                  Judged(kj)' <=> (Judged(kj) \/ (kj = r /\ todo' = todo))
<1> DEFINE r == <<idx, pos>>
<1> USE DEF TypeInv, TypeOK
<1>1. /\ pc = "classify" /\ pc' = "classify" /\ pos \in 1 .. Len(plugins) /\ pos' = pos + 1
      /\ idx' = idx /\ plugins' = plugins
  BY DEF Classify, env
<1>2. Busy /\ Busy' /\ idx \in 1 .. Len(ImageSeq)
  BY <1>1 DEF Busy, InBounds
<1>3. r \in Requests /\ EntryOf(r) = <<Dest, plugins[pos]>> /\ ~Judged(r)
  BY <1>1, <1>2 DEF Requests, EntryOf, Dest, Img, Judged
<1>4. Pending = {todo[k] : k \in 1 .. Len(todo)} /\ Pending' = {todo'[k] : k \in 1 .. Len(todo')}
  BY <1>1 DEF Pending
<1>5. \A m \in 1 .. Len(plugins) : plugins[m] = plugins[pos] => m = pos
  BY <1>1 DEF TodoDistinct, Distinct
<1>6. plugins[pos] \notin Pending
  <2>1. ASSUME NEW k \in 1 .. Len(todo) PROVE todo[k] # plugins[pos]
    <3>1. PICK m \in 1 .. pos - 1 : todo[k] = plugins[m]
      BY <1>1 DEF TodoDistinct
    <3>2. m \in 1 .. Len(plugins) /\ m # pos
      BY <1>1
    <3> QED BY <1>5, <3>1, <3>2
  <2> QED BY <1>4, <2>1
<1>7. ASSUME NEW kj \in Requests PROVE Judged(kj)' <=> (Judged(kj) \/ (kj = r /\ todo' = todo))
  <2>1. kj[1] \in Nat /\ kj[2] \in 1 .. Len(plugins) /\ kj = <<kj[1], kj[2]>>
    BY ConstantsAssumption DEF Requests
  <2>2. Judged(kj) <=>
          (kj[1] < idx \/ (kj[1] = idx /\ plugins[kj[2]] \notin Pending /\ kj[2] < pos))
    BY <1>1, <1>2 DEF Judged
  <2>3. Judged(kj)' <=>
          (kj[1] < idx \/ (kj[1] = idx /\ plugins[kj[2]] \notin Pending' /\ kj[2] < pos + 1))
    BY <1>1, <1>2 DEF Judged
  <2>4. kj = r <=> (kj[1] = idx /\ kj[2] = pos)
    BY <2>1
  <2>5. kj[2] < pos + 1 <=> (kj[2] < pos \/ kj[2] = pos)
    BY <1>1, <2>1
  <2>6. plugins[kj[2]] = plugins[pos] <=> kj[2] = pos
    BY <1>5, <2>1
  <2>7. CASE todo' = todo
    <3>1. Pending' = Pending
      BY <1>4, <2>7
    <3> QED BY <1>6, <2>2, <2>3, <2>4, <2>5, <2>6, <2>7, <3>1
  <2>8. CASE todo' # todo
    <3>1. todo' = Append(todo, plugins[pos])
      BY <2>8 DEF Classify
    <3>2. /\ Len(todo') = Len(todo) + 1 /\ todo'[Len(todo) + 1] = plugins[pos]
          /\ \A k \in 1 .. Len(todo) : todo'[k] = todo[k]
      BY <1>1, <3>1
    <3>3. 1 .. Len(todo') = (1 .. Len(todo)) \cup {Len(todo) + 1}
      BY <3>2
    <3>4. Pending' = Pending \cup {plugins[pos]}
      <4>1. \A k \in 1 .. Len(todo') : todo'[k] \in Pending \cup {plugins[pos]}
        BY <1>4, <3>2, <3>3
      <4>2. plugins[pos] \in Pending' /\ Pending \subseteq Pending'
        BY <1>4, <3>2, <3>3
      <4> QED BY <1>4, <4>1, <4>2
    <3>5. kj[2] < pos => kj[2] # pos
      BY <1>1, <2>1
    <3> QED BY <2>2, <2>3, <2>5, <2>6, <2>8, <3>4, <3>5
  <2> QED BY <2>7, <2>8
<1> QED BY <1>3, <1>7

(* Every step counts what it judges done, and judges what it counts. *)
LEMMA NextCounted ==
    ASSUME TypeInv, TodoDistinct, FromList, Counted, [Next]_vars, DistinctDests, Distinct(ImageSeq)
    PROVE  Counted'
<1> SUFFICES ASSUME ~force' PROVE Counted'
  BY DEF Counted
<1> USE DEF TypeInv, TypeOK
<1>1. ASSUME pc' \notin Counting, pc' # "exited" \/ exit' \notin {0, 1} PROVE Counted'
  BY <1>1 DEF Counted, Finished
<1>2. ASSUME pc \in Counting, pc' # "exited", ~force,
             processed' + skipped' = processed + skipped, DoneSoFar' = DoneSoFar
      PROVE  Counted'
  BY <1>2 DEF Counted, Finished
<1>3. ASSUME file' = file, plugins' = plugins, NEW kj \in Requests
      PROVE  PluginDone(EntryOf(kj))' <=> PluginDone(EntryOf(kj))
  BY <1>3 DEF PluginDone, EntryOf
<1>4. ASSUME ~Invoke PROVE ~force /\ plugins' = plugins
  BY <1>4, EnvFixed
<1>5. ASSUME idx' = idx, todo' = todo, plugins' = plugins,
             pc \in Mid \/ (pc = "classify" /\ pos > Len(plugins)),
             pc' \in Mid \/ (pc' = "reap" /\ pos' = 1),
             NEW kj \in Requests
      PROVE  Judged(kj)' <=> Judged(kj)
  <2>1. Pending' = Pending
    BY <1>5 DEF Pending, Mid
  <2>2. Busy /\ Busy' /\ pc' # "classify" /\ (pc = "classify" => kj[2] < pos)
    BY <1>5 DEF Busy, Mid, Requests
  <2> QED BY <1>5, <2>1, <2>2 DEF Judged
<1>6. ASSUME idx' = idx, todo' = todo, plugins' = plugins, file' = file, sum' = sum, ~force,
             pc \in Mid \/ (pc = "classify" /\ pos > Len(plugins)),
             pc' \in Mid \/ (pc' = "reap" /\ pos' = 1)
      PROVE  Counted'
  <2>1. DoneSoFar' = DoneSoFar
    BY <1>3, <1>5, <1>6, DoneSame
  <2>2. pc \in Counting /\ pc' # "exited"
    BY <1>6 DEF Counting, Mid
  <2> QED BY <1>2, <1>6, <2>1, <2>2 DEF sum
<1>7. CASE Startup
  <2>1. CASE pc' = "image" /\ idx' = 1 /\ processed' = 0 /\ skipped' = 0
    <3>1. DoneSoFar' = {}
      BY <2>1, ConstantsAssumption DEF DoneSoFar, Judged, Requests, Busy
    <3> QED BY <2>1, <3>1, FS_EmptySet DEF Counted, Finished
  <2> QED BY <1>1, <1>7, <2>1 DEF Startup, Exit, Counting, Mid
<1>8. CASE BeginImage
  <2>1. /\ pc = "image" /\ pc' = "classify" /\ idx' = idx /\ pos' = 1 /\ ~Invoke
        /\ file' = file /\ sum' = sum
    BY <1>8 DEF BeginImage, Invoke, disk
  <2>2. \A kj \in Requests : Judged(kj)' <=> Judged(kj)
    BY <2>1, ConstantsAssumption DEF Judged, Busy, Requests
  <2>3. DoneSoFar' = DoneSoFar
    BY <1>3, <1>4, <2>1, <2>2, DoneSame
  <2> QED BY <1>2, <1>4, <2>1, <2>3 DEF sum, Counting
<1>9. CASE Finish
  <2>1. /\ pc = "image" /\ pc' = "exited" /\ ~Invoke /\ file' = file /\ sum' = sum
        /\ idx > Len(ImageSeq)
    BY <1>9 DEF Finish, Exit, Invoke, disk
  <2>2. DoneSoFar = {kj \in Requests : PluginDone(EntryOf(kj))}
    BY <2>1, ConstantsAssumption DEF DoneSoFar, Judged, Requests
  <2>3. Requests' = Requests
    BY <1>4, <2>1 DEF Requests
  <2>4. {kj \in Requests : PluginDone(EntryOf(kj))}' = DoneSoFar
    BY <1>3, <1>4, <2>1, <2>2, <2>3
  <2>5. processed + skipped = Cardinality(DoneSoFar)
    BY <1>4, <2>1 DEF Counted, Counting
  <2> QED BY <2>1, <2>4, <2>5 DEF Counted, Counting, Mid, sum
<1>10. CASE AllDone \/ EndImage
  <2>1. /\ pc \in {"classify", "reap"} /\ pc' = "image" /\ idx' = idx + 1 /\ ~Invoke
        /\ file' = file /\ sum' = sum
        /\ \/ pc = "classify" /\ Len(todo) = 0 /\ pos > Len(plugins)
           \/ pc = "reap" /\ pos > Len(todo)
    BY <1>10 DEF AllDone, EndImage, Invoke, disk
  <2>2. Pending = {}
    BY <2>1 DEF Pending
  <2>3. \A kj \in Requests : Judged(kj)' <=> Judged(kj)
    BY <2>1, <2>2, ConstantsAssumption DEF Judged, Busy, Requests
  <2>4. DoneSoFar' = DoneSoFar
    BY <1>3, <1>4, <2>1, <2>3, DoneSame
  <2> QED BY <1>2, <1>4, <2>1, <2>4 DEF sum, Counting
<1>11. CASE Classify
  <2> DEFINE r == <<idx, pos>>
  <2>1. /\ pc = "classify" /\ pc' = "classify" /\ ~Invoke /\ file' = file
        /\ processed' = processed
    BY <1>11 DEF Classify, Invoke, disk
  <2>2. /\ r \in Requests /\ EntryOf(r) = <<Dest, plugins[pos]>> /\ ~Judged(r)
        /\ \A kj \in Requests : Judged(kj)' <=> (Judged(kj) \/ (kj = r /\ todo' = todo))
    BY <1>11, ClassifyJudges
  <2> HIDE DEF r
  <2>3. Requests' = Requests
    BY <1>4, <2>1 DEF Requests
  <2>4. DoneSoFar' = {kj \in Requests : /\ Judged(kj) \/ (kj = r /\ todo' = todo)
                                        /\ PluginDone(EntryOf(kj))}
    BY <1>3, <1>4, <2>1, <2>2, <2>3 DEF DoneSoFar
  <2>5. processed + skipped = Cardinality(DoneSoFar)
    BY <1>4, <2>1 DEF Counted, Counting
  <2>6. r \notin DoneSoFar /\ IsFiniteSet(DoneSoFar)
    BY <2>2, RequestsFinite DEF DoneSoFar
  <2>7. CASE skipped' = skipped + 1 /\ todo' = todo /\ Skips(EntryOf(r))
    <3>1. DoneSoFar' = DoneSoFar \cup {r}
      BY <2>2, <2>4, <2>7 DEF DoneSoFar, Skips
    <3>2. Cardinality(DoneSoFar') = Cardinality(DoneSoFar) + 1
      BY <2>6, <3>1, FS_AddElement
    <3> QED BY <2>1, <2>5, <2>7, <3>2 DEF Counted, Finished
  <2>8. CASE skipped' = skipped /\ ~Skips(EntryOf(r))
    <3>1. ~PluginDone(EntryOf(r))
      BY <1>4, <2>1, <2>8 DEF Skips
    <3>2. DoneSoFar' = DoneSoFar
      BY <2>4, <3>1 DEF DoneSoFar
    <3> QED BY <2>1, <2>5, <2>8, <3>2 DEF Counted, Finished
  <2> QED BY <1>11, <2>2, <2>7, <2>8 DEF Classify
<1>12. CASE OpenEngine
  <2>1. /\ pc = "classify" /\ pos > Len(plugins) /\ pos' = 1 /\ pc' \in {"run", "reap"}
        /\ idx' = idx /\ todo' = todo /\ ~Invoke /\ file' = file /\ sum' = sum
    BY <1>12 DEF OpenEngine, Invoke, disk
  <2> QED BY <1>4, <1>6, <2>1 DEF Mid
<1>13. CASE UnknownCollector \/ StartCollector \/ CollectorAnswers
  <2>1. /\ pc \in {"run", "collect"} /\ pc' \in {"run", "collect", "create"}
        /\ idx' = idx /\ todo' = todo /\ ~Invoke /\ file' = file /\ sum' = sum
    BY <1>13 DEF UnknownCollector, StartCollector, CollectorAnswers, Invoke, disk, loopVars
  <2> QED BY <1>4, <1>6, <2>1 DEF Mid
<1>14. CASE RemoveStore \/ CreateSchema \/ FillStore
  <2>1. /\ pc \in {"run", "schema", "fill"}
        /\ pc' \in {"schema", "fill"} \/ (pc' = "reap" /\ pos' = 1)
        /\ idx' = idx /\ todo' = todo /\ ~Invoke /\ file' = file /\ sum' = sum
    BY <1>14 DEF RemoveStore, CreateSchema, FillStore, Invoke, raw, loopVars
  <2> QED BY <1>4, <1>6, <2>1 DEF Mid
<1>15. CASE CreateOutput \/ WriteFirst \/ WriteRest
  <2>1. /\ pc \in {"create", "first", "rest"} /\ pc' \in {"run", "first", "rest"}
        /\ idx' = idx /\ todo' = todo /\ ~Invoke /\ sum' = sum
    BY <1>15 DEF CreateOutput, WriteFirst, WriteRest, NextCollector, Invoke
  <2>2. Running /\ Busy /\ pos \in 1 .. Len(todo)
    BY <2>1 DEF Running, Busy, InBounds
  <2>3. \A e \in Entries : e # Entry => file'[e] = file[e]
    BY <1>15 DEF CreateOutput, WriteFirst, WriteRest, Put, raw
  <2>4. \A kj \in Requests : Judged(kj)' <=> Judged(kj)
    BY <1>4, <1>5, <2>1 DEF Mid
  <2>5. ASSUME NEW kj \in Requests, Judged(kj)
        PROVE  PluginDone(EntryOf(kj))' <=> PluginDone(EntryOf(kj))
    <3>1. EntryOf(kj) \in Entries /\ EntryOf(kj) # Entry
      BY <2>2, <2>5, EntryOfType, CountedElsewhere
    <3>2. EntryOf(kj)' = EntryOf(kj)
      BY <1>4, <2>1 DEF EntryOf
    <3> QED BY <2>3, <3>1, <3>2 DEF PluginDone
  <2>6. DoneSoFar' = DoneSoFar
    BY <1>4, <2>1, <2>4, <2>5, DoneSame
  <2> QED BY <1>2, <1>4, <2>1, <2>6 DEF Counting, Mid, sum
<1>16. CASE Reap
  <2>1. /\ pc = "reap" /\ pc' = "reap" /\ pos \in 1 .. Len(todo) /\ ~Invoke
        /\ skipped' = skipped /\ Busy
    BY <1>16 DEF Reap, Invoke, Busy
  <2>2. PICK r \in Requests :
          /\ EntryOf(r) = Entry /\ ~Judged(r)
          /\ \A kj \in Requests : Judged(kj)' <=> (Judged(kj) \/ kj = r)
    BY <1>16, ReapJudges
  <2>3. Requests' = Requests /\ \A kj \in Requests : EntryOf(kj)' = EntryOf(kj)
    BY <1>4, <2>1 DEF Requests, EntryOf
  <2>4. processed + skipped = Cardinality(DoneSoFar)
    BY <1>4, <2>1 DEF Counted, Counting
  <2>5. r \notin DoneSoFar /\ IsFiniteSet(DoneSoFar)
    BY <2>2, RequestsFinite DEF DoneSoFar
  <2>6. CASE processed' = processed + 1 /\ Valid(file[Entry]) /\ file' = file
    <3>1. DoneSoFar' = {kj \in Requests : (Judged(kj) \/ kj = r) /\ PluginDone(EntryOf(kj))}
      BY <1>3, <1>4, <2>1, <2>2, <2>3, <2>6 DEF DoneSoFar
    <3>2. DoneSoFar' = DoneSoFar \cup {r}
      BY <2>2, <2>6, <3>1 DEF DoneSoFar, PluginDone
    <3>3. Cardinality(DoneSoFar') = Cardinality(DoneSoFar) + 1
      BY <2>5, <3>2, FS_AddElement
    <3> QED BY <2>1, <2>4, <2>6, <3>3 DEF Counted, Finished
  <2>7. CASE processed' = processed /\ file' = [file EXCEPT ![Entry] = "absent"]
    <3>1. Entry \in Entries
      BY <2>2, EntryOfType
    <3>2. ~PluginDone(EntryOf(r))'
      <4>1. Entry \notin Legacy
        BY <1>4, <2>1 DEF FromList, Entry, Cur
      <4> QED BY <2>2, <2>3, <2>7, <3>1, <4>1 DEF PluginDone, Valid
    <3>3. ASSUME NEW kj \in Requests, Judged(kj)
          PROVE  PluginDone(EntryOf(kj))' <=> PluginDone(EntryOf(kj))
      <4>1. EntryOf(kj) \in Entries /\ EntryOf(kj) # Entry
        BY <2>1, <3>3, EntryOfType, CountedElsewhere
      <4> QED BY <2>3, <2>7, <4>1 DEF PluginDone
    <3>4. DoneSoFar' = DoneSoFar
      BY <2>2, <2>3, <3>2, <3>3 DEF DoneSoFar
    <3> QED BY <1>2, <1>4, <2>1, <2>7, <3>4 DEF Counting
  <2> QED BY <1>16, <2>6, <2>7 DEF Reap, raw
<1>17. CASE Invoke \/ Crash \/ CollectorStalls \/ BumpStall \/ WriteMarker \/ Reexec
  BY <1>1, <1>17
     DEF Invoke, Crash, CollectorStalls, BumpStall, WriteMarker, Reexec, Exit, Killed, Counting,
         Mid
<1>18. CASE UNCHANGED vars
  BY <1>18 DEF vars, Counted, DoneSoFar, Requests, Judged, Pending, Busy, PluginDone, EntryOf,
               Finished
<1> QED
  BY <1>7, <1>8, <1>9, <1>10, <1>11, <1>12, <1>13, <1>14, <1>15, <1>16, <1>17, <1>18
     DEF Next, Step

(* The printed summary accounts for every collector of every image once, after any *)
(* number of kills, stalls, re-execs and reruns; discover() lists an image once,   *)
(* and with that the processed and the skipped are exactly what has valid output.  *)
THEOREM SummaryTrue ==
    ASSUME DistinctPlugins, Distinct(ImageSeq) PROVE Spec => []SummaryAddsUp
<1> DEFINE I == TypeInv /\ TodoDistinct /\ SumsUp /\ FromList /\ (DistinctDests => Counted)
<1>1. Init => I
  <2>1. Init => TypeInv /\ TodoDistinct
    BY InitResumable DEF Resumable
  <2>2. Init => SumsUp /\ FromList /\ Counted
    BY DEF Init, SumsUp, FromList, Counted, Counting, Mid, Finished, Busy
  <2> QED BY <2>1, <2>2
<1>2. I /\ [Next]_vars => I'
  BY NextType, NextTodo, NextSums, NextFromList, NextCounted
<1>3. I => SummaryAddsUp
  BY DEF SummaryAddsUp, SumsUp, Counted, Tally, Requests, EntryOf
<1> QED BY <1>1, <1>2, <1>3, PTL DEF Spec

=============================================================================
