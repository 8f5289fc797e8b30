--------------------------- MODULE BatchLedgerProofs ---------------------------
(***************************************************************************)
(* Batch implements Ledger, and each of its output folders CarStore, for   *)
(* any images, collectors, lists, runs and kills, with and without FORCE.  *)
(***************************************************************************)
EXTENDS BatchStore, BatchProofs

(* Where the collectors in todo are those still to be attempted or reaped.     *)
Holding == {"classify", "run", "collect", "create", "first", "rest", "bump",
            "schema", "fill", "reap"}

(* With and without FORCE, no collector that was given up is in todo, and an   *)
(* output in the middle of its writing is what its writer made it.             *)
TodoOpen ==
    /\ pc \in Holding =>
         \A k \in 1 .. Len(todo) : marker[<<Dest, todo[k]>>] < MaxStalls
    /\ pc = "first" => ~Valid(file[Entry])
    /\ pc = "rest" => Valid(file[Entry])
    /\ pc = "mark" =>
         /\ marker[Entry] = 0 /\ count > 0 /\ count <= MaxStalls
         /\ ~force => ~Valid(file[Entry])

LEMMA CurrentOpen ==
    ASSUME TypeInv, TodoOpen, pc \in Holding, pos \in 1 .. Len(todo)
    PROVE  Entry \in Entries /\ marker[Entry] \in Nat /\ marker[Entry] < MaxStalls
<1>1. pc # "exited" /\ pc # "start" /\ pc # "image"
  BY DEF Holding
<1>2. Entry \in Entries
  BY <1>1, ConstantsAssumption DEF TypeInv, TypeOK, InBounds, Busy, Entry, Entries, Dest, Img, Cur
<1> QED BY <1>2 DEF TypeInv, TypeOK, TodoOpen, Entry, Cur

(* A step that leaves the markers and the list alone, or clears a marker.      *)
LEMMA QuietTodo ==
    ASSUME TypeInv, TodoOpen, pc \in Holding, idx' = idx, todo' = todo,
           marker' = marker \/ \E e \in Entries : marker' = [marker EXCEPT ![e] = 0]
    PROVE  \A k \in 1 .. Len(todo') : marker'[<<Dest', todo'[k]>>] < MaxStalls
<1> SUFFICES ASSUME NEW k \in 1 .. Len(todo)
             PROVE  marker'[<<Dest, todo[k]>>] < MaxStalls
  BY DEF Dest, Img
<1> DEFINE e == <<Dest, todo[k]>>
<1>1. marker[e] < MaxStalls
  BY DEF TodoOpen
<1>2. e \in Entries
  BY ConstantsAssumption DEF TypeInv, TypeOK, InBounds, Busy, Entries, Dest, Img, Holding
<1>3. marker[e] \in Nat /\ MaxStalls \in Nat
  BY <1>2, ConstantsAssumption DEF TypeInv, TypeOK
<1>4. marker'[e] = marker[e] \/ marker'[e] = 0
  BY <1>2 DEF TypeInv, TypeOK
<1> QED BY <1>1, <1>3, <1>4

LEMMA NextTodoOpen ==
    ASSUME TypeInv, AheadOpen, TodoOpen, [Next]_vars PROVE TodoOpen'
<1> DEFINE Open == \A k \in 1 .. Len(todo) : marker[<<Dest, todo[k]>>] < MaxStalls
<1> USE ConstantsAssumption
<1> USE DEF Holding
<1>1. CASE BeginImage
  <2>1. pc' = "classify" /\ Len(todo') = 0
    BY <1>1 DEF BeginImage
  <2> QED BY <2>1 DEF TodoOpen
<1>2. CASE Classify
  <2>1. /\ pc = "classify" /\ pc' = "classify" /\ Dest' = Dest /\ marker' = marker
        /\ pos \in 1 .. Len(plugins) /\ plugins[pos] \in Plugins
    BY <1>2 DEF Classify, disk, Dest, Img, TypeInv, TypeOK
  <2>2. Open
    BY <2>1 DEF TodoOpen
  <2>3. CASE todo' = todo
    BY <2>1, <2>2, <2>3 DEF TodoOpen
  <2>4. CASE todo' = Append(todo, plugins[pos]) /\ ~GivenUp(<<Dest, plugins[pos]>>)
    <3>1. <<Dest, plugins[pos]>> \in Entries
      BY <2>1 DEF TypeInv, TypeOK, InBounds, Busy, Entries, Dest, Img
    <3>2. marker[<<Dest, plugins[pos]>>] < MaxStalls
      BY <2>4, <3>1 DEF GivenUp, TypeInv, TypeOK
    <3>3. /\ Len(todo') = Len(todo) + 1 /\ todo'[Len(todo) + 1] = plugins[pos]
          /\ \A k \in 1 .. Len(todo) : todo'[k] = todo[k]
      BY <2>1, <2>4 DEF TypeInv, TypeOK
    <3>4. ASSUME NEW k \in 1 .. Len(todo') PROVE marker[<<Dest, todo'[k]>>] < MaxStalls
      <4>1. Len(todo) \in Nat
        BY DEF TypeInv, TypeOK
      <4>2. CASE k = Len(todo) + 1
        BY <3>2, <3>3, <4>2
      <4>3. CASE k \in 1 .. Len(todo)
        BY <2>2, <3>3, <4>3
      <4> QED BY <3>3, <4>1, <4>2, <4>3
    <3> QED BY <2>1, <3>4 DEF TodoOpen
  <2> QED BY <1>2, <2>3, <2>4 DEF Classify
<1>3. CASE OpenEngine \/ UnknownCollector \/ StartCollector \/ CollectorAnswers
           \/ CollectorStalls
  <2>1. /\ pc \in Holding /\ idx' = idx /\ todo' = todo /\ marker' = marker
        /\ pc' \notin {"first", "rest", "mark"}
    BY <1>3 DEF OpenEngine, UnknownCollector, StartCollector, CollectorAnswers,
                CollectorStalls, loopVars, disk
  <2> QED BY <2>1, QuietTodo DEF TodoOpen
<1>4. CASE RemoveStore \/ CreateSchema \/ FillStore
  <2>1. /\ pc \in Holding /\ idx' = idx /\ todo' = todo /\ marker' = marker
        /\ pc' \notin {"first", "rest", "mark"}
    BY <1>4 DEF RemoveStore, CreateSchema, FillStore, loopVars
  <2> QED BY <2>1, QuietTodo DEF TodoOpen
<1>5. CASE CreateOutput
  <2>1. pc \in Holding /\ pos \in 1 .. Len(todo) /\ idx' = idx /\ todo' = todo /\ marker' = marker
    BY <1>5 DEF CreateOutput, TypeInv, InBounds, Running
  <2>2. Entry \in Entries
    BY <2>1, CurrentOpen
  <2>3. pc' \in {"first", "run"} /\ (pc' = "first" => pos' = pos /\ Put("empty"))
    BY <1>5 DEF CreateOutput, NextCollector
  <2>4. pc' = "first" => ~Valid(file'[Entry']) 
    BY <2>1, <2>2, <2>3 DEF Put, Valid, Entry, Dest, Img, Cur, TypeInv, TypeOK
  <2> QED BY <2>1, <2>3, <2>4, QuietTodo DEF TodoOpen
<1>6. CASE WriteFirst
  <2>1. pc \in Holding /\ pos \in 1 .. Len(todo) /\ idx' = idx /\ todo' = todo /\ marker' = marker
    BY <1>6 DEF WriteFirst, TypeInv, InBounds, Running
  <2>2. Entry \in Entries
    BY <2>1, CurrentOpen
  <2>3. pc' \in {"rest", "run"} /\ (pc' = "rest" => pos' = pos /\ Put("cut"))
    BY <1>6 DEF WriteFirst, NextCollector
  <2>4. pc' = "rest" => Valid(file'[Entry']) 
    BY <2>1, <2>2, <2>3 DEF Put, Valid, Entry, Dest, Img, Cur, TypeInv, TypeOK
  <2> QED BY <2>1, <2>3, <2>4, QuietTodo DEF TodoOpen
<1>7. CASE WriteRest
  <2>1. /\ pc \in Holding /\ idx' = idx /\ todo' = todo /\ marker' = marker /\ pc' = "run"
    BY <1>7 DEF WriteRest, NextCollector
  <2> QED BY <2>1, QuietTodo DEF TodoOpen
<1>8. CASE BumpStall
  <2>1. /\ pc \in Holding /\ pc = "bump" /\ pos \in 1 .. Len(todo) /\ Entry' = Entry
        /\ file' = file /\ force' = force
    BY <1>8 DEF BumpStall, TypeInv, InBounds, Running, loopVars, raw, env, Entry, Dest, Img, Cur
  <2>2. Entry \in Entries /\ marker[Entry] \in Nat /\ marker[Entry] < MaxStalls
    BY <2>1, CurrentOpen
  <2>3. CASE pc' = "mark"
    <3>1. count' = marker[Entry] + 1 /\ marker' = [marker EXCEPT ![Entry] = 0]
      BY <1>8, <2>3 DEF BumpStall, Exit
    <3>2. marker'[Entry] = 0 /\ count' > 0 /\ count' <= MaxStalls
      BY <2>2, <3>1 DEF TypeInv, TypeOK
    <3>3. ~force => ~Valid(file[Entry])
      BY <2>1 DEF AheadOpen
    <3> QED BY <2>1, <2>3, <3>2, <3>3 DEF TodoOpen
  <2>4. CASE pc' = "exited"
    BY <2>4 DEF TodoOpen
  <2> QED BY <1>8, <2>3, <2>4 DEF BumpStall, Exit
<1>9. CASE Reap
  <2>1. /\ pc \in Holding /\ pc = "reap" /\ pc' = "reap" /\ idx' = idx /\ todo' = todo
        /\ pos \in 1 .. Len(todo)
    BY <1>9 DEF Reap, TypeInv, TypeOK
  <2>2. Entry \in Entries
    BY <2>1, CurrentOpen
  <2>3. marker' = marker \/ \E e \in Entries : marker' = [marker EXCEPT ![e] = 0]
    BY <1>9, <2>2 DEF Reap
  <2> QED BY <2>1, <2>3, QuietTodo DEF TodoOpen
<1>10. CASE Invoke \/ Crash \/ Startup \/ Finish \/ AllDone \/ WriteMarker \/ Reexec \/ EndImage
  <2>1. pc' \notin Holding \cup {"first", "rest", "mark"}
    BY <1>10 DEF Invoke, Crash, Startup, Finish, AllDone, WriteMarker, Reexec, EndImage, Exit
  <2> QED BY <2>1 DEF TodoOpen
<1>11. CASE UNCHANGED vars
  BY <1>11 DEF vars, TodoOpen, Entry, Dest, Img, Cur
<1> QED
  BY <1>1, <1>2, <1>3, <1>4, <1>5, <1>6, <1>7, <1>8, <1>9, <1>10, <1>11 DEF Next, Step

-----------------------------------------------------------------------------
(* The step simulation. *)

(* Two ways a step leaves the ledger's entries alone.                          *)
LEMMA SameDone ==
    ASSUME \A e \in Entries : Valid(file'[e]) = Valid(file[e])
    PROVE  LedgerDone' = LedgerDone
BY DEF LedgerDone

LEMMA SameTries ==
    ASSUME marker' = marker, pc # "mark", pc' # "mark"
    PROVE  LedgerTries' = LedgerTries
BY DEF LedgerTries, Rewriting

LEMMA TriesOf ==
    ASSUME pc # "mark" PROVE \A e \in Entries : LedgerTries[e] = marker[e]
BY DEF LedgerTries, Rewriting

LEMMA StepIsLedgers ==
    ASSUME TypeInv, AheadOpen, TodoOpen, [Next]_vars
    PROVE  [L!Next]_(L!ledger)
<1> USE ConstantsAssumption
<1>1. CASE Invoke
  <2>1. LedgerDone' = LedgerDone /\ LedgerTries' = LedgerTries
    BY <1>1, SameDone, SameTries DEF Invoke, disk
  <2>2. force' \in BOOLEAN
    BY <1>1 DEF Invoke
  <2> QED BY <2>1, <2>2 DEF L!Next, L!NewRun
<1>2. ASSUME file' = file, marker' = marker, force' = force, pc # "mark", pc' # "mark"
      PROVE  UNCHANGED L!ledger
  BY <1>2, SameDone, SameTries DEF L!ledger
<1>3. CASE Startup \/ BeginImage \/ Finish \/ Classify \/ AllDone \/ OpenEngine
           \/ UnknownCollector \/ StartCollector \/ CollectorAnswers \/ CollectorStalls
  BY <1>2, <1>3
     DEF Startup, BeginImage, Finish, Classify, AllDone, OpenEngine, UnknownCollector,
         StartCollector, CollectorAnswers, CollectorStalls, Exit, disk, env
<1>4. CASE RemoveStore \/ CreateSchema \/ FillStore \/ EndImage \/ Reexec
  BY <1>2, <1>4
     DEF RemoveStore, CreateSchema, FillStore, EndImage, Reexec, Exit, disk, raw, env
<1>5. ASSUME pc = "mark", file' = file, force' = force, marker' = marker, pc' # "mark"
      PROVE  L!Next
  <2>1. Entry \in Entries /\ marker[Entry] = 0 /\ count \in Nat /\ count > 0 /\ count <= MaxStalls
    BY <1>5, EntryType DEF TodoOpen, Running, TypeInv, TypeOK
  <2>2. LedgerTries[Entry] = count - 1
    BY <1>5, <2>1 DEF LedgerTries, Rewriting
  <2>3. LedgerTries' = [LedgerTries EXCEPT ![Entry] = 0]
    BY <1>5, <2>1 DEF LedgerTries, Rewriting, TypeInv, TypeOK
  <2>4. LedgerDone' = LedgerDone
    BY <1>5, SameDone
  <2>5. L!Clear(Entry)
    BY <1>5, <2>1, <2>2, <2>3, <2>4 DEF L!Clear, L!Active
  <2> QED BY <2>1, <2>5 DEF L!Next
<1>6. CASE Crash
  BY <1>2, <1>5, <1>6 DEF Crash, Exit, disk, env
<1>7. CASE CreateOutput \/ WriteFirst \/ WriteRest
  <2>1. /\ pc \in Holding /\ pos \in 1 .. Len(todo) /\ pc # "mark" /\ pc' # "mark"
        /\ marker' = marker /\ force' = force
    BY <1>7 DEF CreateOutput, WriteFirst, WriteRest, NextCollector, Holding, TypeInv,
                InBounds, Running, env
  <2>2. Entry \in Entries /\ marker[Entry] \in Nat /\ marker[Entry] < MaxStalls
    BY <2>1, CurrentOpen
  <2>3. LedgerTries' = LedgerTries /\ LedgerTries[Entry] = marker[Entry]
    BY <2>1, <2>2, SameTries, TriesOf
  <2>4. L!Active(Entry)
    BY <2>2, <2>3 DEF L!Active
  <2>5. ASSUME NEW k, Put(k)
        PROVE  file'[Entry] = k /\ \A e \in Entries : e # Entry => file'[e] = file[e]
    BY <2>2, <2>5 DEF Put, TypeInv, TypeOK
  <2>6. CASE CreateOutput
    <3>1. CASE UNCHANGED raw
      BY <1>2, <2>1, <3>1 DEF raw
    <3>2. CASE Put("empty") /\ ~Valid(file[Entry])
      <4>1. LedgerDone' = LedgerDone
        BY <2>5, <3>2, SameDone DEF Valid
      <4> QED BY <2>1, <2>3, <4>1 DEF L!ledger
    <3>3. CASE Put("empty") /\ Valid(file[Entry])
      <4>1. force
        BY <2>6, <3>3, CurrentAhead DEF CreateOutput
      <4>2. LedgerDone' = LedgerDone \ {Entry} /\ Entry \in LedgerDone
        BY <2>2, <2>5, <3>3 DEF Valid, LedgerDone
      <4>3. L!Reopen(Entry)
        BY <2>1, <2>3, <2>4, <4>1, <4>2 DEF L!Reopen
      <4> QED BY <2>2, <4>3 DEF L!Next
    <3> QED BY <2>6, <3>1, <3>2, <3>3 DEF CreateOutput
  <2>7. CASE WriteFirst
    <3>0. ~Valid(file[Entry])
      BY <2>7 DEF WriteFirst, TodoOpen
    <3>1. CASE UNCHANGED raw
      BY <1>2, <2>1, <3>1 DEF raw
    <3>2. CASE Put("torn")
      <4>1. LedgerDone' = LedgerDone
        BY <2>5, <3>0, <3>2, SameDone DEF Valid
      <4> QED BY <2>1, <2>3, <4>1 DEF L!ledger
    <3>3. CASE Put("cut")
      <4>1. LedgerDone' = LedgerDone \cup {Entry} /\ Entry \notin LedgerDone
        BY <2>2, <2>5, <3>0, <3>3 DEF Valid, LedgerDone
      <4>2. L!Complete(Entry)
        BY <2>1, <2>3, <2>4, <4>1 DEF L!Complete
      <4> QED BY <2>2, <4>2 DEF L!Next
    <3> QED BY <2>7, <3>1, <3>2, <3>3 DEF WriteFirst
  <2>8. CASE WriteRest
    <3>1. CASE UNCHANGED raw
      BY <1>2, <2>1, <3>1 DEF raw
    <3>2. CASE Put("full")
      <4>1. Valid(file[Entry])
        BY <2>8 DEF WriteRest, TodoOpen
      <4>2. LedgerDone' = LedgerDone
        BY <2>5, <3>2, <4>1, SameDone DEF Valid
      <4> QED BY <2>1, <2>3, <4>2 DEF L!ledger
    <3> QED BY <2>8, <3>1, <3>2 DEF WriteRest
  <2> QED BY <1>7, <2>6, <2>7, <2>8
<1>8. CASE BumpStall
  <2>1. /\ pc = "bump" /\ pc \in Holding /\ pos \in 1 .. Len(todo) /\ file' = file
        /\ force' = force /\ Entry' = Entry
    BY <1>8 DEF BumpStall, Holding, TypeInv, InBounds, Running, raw, env, loopVars,
                Entry, Dest, Img, Cur
  <2>2. Entry \in Entries /\ marker[Entry] \in Nat
    BY <2>1, CurrentOpen
  <2>3. CASE pc' = "mark"
    <3>1. count' = marker[Entry] + 1 /\ marker' = [marker EXCEPT ![Entry] = 0]
      BY <1>8, <2>3 DEF BumpStall, Exit
    <3>2. LedgerTries' = LedgerTries
      BY <2>1, <2>2, <2>3, <3>1 DEF LedgerTries, Rewriting, TypeInv, TypeOK
    <3> QED BY <2>1, <3>2, SameDone DEF L!ledger
  <2>4. CASE pc' = "exited" /\ marker' = marker
    BY <1>2, <2>1, <2>4
  <2> QED BY <1>8, <2>3, <2>4 DEF BumpStall, Exit
<1>9. CASE WriteMarker
  <2>1. pc = "mark" /\ pc' # "mark" /\ file' = file /\ force' = force
    BY <1>9 DEF WriteMarker, Exit, raw, env
  <2>2. /\ Entry \in Entries /\ count \in Nat /\ count > 0 /\ count <= MaxStalls
        /\ ~force => ~Valid(file[Entry])
    BY <2>1, EntryType DEF TodoOpen, Running, TypeInv, TypeOK
  <2>3. CASE marker' = [marker EXCEPT ![Entry] = count]
    <3>1. LedgerTries[Entry] = count - 1
      BY <2>1, <2>2 DEF LedgerTries, Rewriting
    <3>2. LedgerTries' = [LedgerTries EXCEPT ![Entry] = @ + 1]
      <4>1. [LedgerTries EXCEPT ![Entry] = @ + 1] = [LedgerTries EXCEPT ![Entry] = count]
        BY <2>2, <3>1
      <4>2. LedgerTries' = [LedgerTries EXCEPT ![Entry] = count]
        BY <2>1, <2>2, <2>3 DEF LedgerTries, Rewriting, TypeInv, TypeOK
      <4> QED BY <4>1, <4>2
    <3>3. LedgerDone' = LedgerDone
      BY <2>1, SameDone
    <3>4. force \/ Entry \notin LedgerDone
      BY <2>2 DEF LedgerDone
    <3>5. L!Stall(Entry)
      BY <2>1, <2>2, <3>1, <3>2, <3>3, <3>4 DEF L!Stall, L!Active
    <3> QED BY <2>2, <3>5 DEF L!Next
  <2>4. CASE marker' = marker
    BY <1>5, <2>1, <2>4
  <2> QED BY <1>9, <2>3, <2>4 DEF WriteMarker
<1>10. CASE Reap
  <2>1. /\ pc = "reap" /\ pc' = "reap" /\ pc \in Holding /\ pos \in 1 .. Len(todo)
        /\ force' = force
    BY <1>10 DEF Reap, Holding, TypeInv, TypeOK, env
  <2>2. Entry \in Entries /\ marker[Entry] \in Nat /\ marker[Entry] < MaxStalls
    BY <2>1, CurrentOpen
  <2>3. CASE marker' = [marker EXCEPT ![Entry] = 0] /\ UNCHANGED raw
    <3>1. LedgerTries' = [LedgerTries EXCEPT ![Entry] = 0]
      BY <2>1, <2>2, <2>3 DEF LedgerTries, Rewriting, TypeInv, TypeOK
    <3>2. LedgerDone' = LedgerDone /\ LedgerTries[Entry] = marker[Entry]
      BY <2>1, <2>2, <2>3, SameDone, TriesOf DEF raw
    <3>3. L!Clear(Entry)
      BY <2>1, <2>2, <3>1, <3>2 DEF L!Clear, L!Active
    <3> QED BY <2>2, <3>3 DEF L!Next
  <2>4. CASE /\ ~Valid(file[Entry]) /\ file' = [file EXCEPT ![Entry] = "absent"]
             /\ marker' = marker
    <3>1. LedgerDone' = LedgerDone
      BY <2>2, <2>4, SameDone DEF Valid, TypeInv, TypeOK
    <3>2. LedgerTries' = LedgerTries
      BY <2>1, <2>4, SameTries
    <3> QED BY <2>1, <3>1, <3>2 DEF L!ledger
  <2> QED BY <1>10, <2>3, <2>4 DEF Reap
<1>11. CASE UNCHANGED vars
  BY <1>11, SameDone DEF vars, L!ledger, LedgerTries, Rewriting, Entry, Dest, Img, Cur
<1> QED
  BY <1>1, <1>3, <1>4, <1>6, <1>7, <1>8, <1>9, <1>10, <1>11 DEF Next, Step

LEMMA InitIsLedgers == Init => L!Init /\ TodoOpen
<1> SUFFICES ASSUME Init PROVE L!Init /\ TodoOpen
  OBVIOUS
<1>1. TodoOpen
  BY DEF Init, TodoOpen, Holding
<1>2. LedgerTries = [e \in Entries |-> 0]
  BY DEF Init, LedgerTries, Rewriting
<1> QED BY <1>1, <1>2 DEF Init, L!Init, LedgerDone

(* The files and markers the batch leaves behind, over any number of images,    *)
(* collectors, processes, kills and reruns, with and without FORCE, evolve as   *)
(* the ledger of entries may: no done entry is reopened without FORCE, and one  *)
(* that was given up is never touched again (batch.go:35-36).                   *)
THEOREM BatchImplementsLedger == ASSUME DistinctPlugins PROVE Spec => ImplementsLedger
<1> DEFINE I == TypeInv /\ Resumable /\ TodoOpen
<1>1. Init => I /\ L!Init
  BY InitResumable, InitIsLedgers
<1>2. I /\ [Next]_vars => I'
  BY NextResumable, NextTodoOpen DEF Resumable
<1>3. I /\ [Next]_vars => [L!Next]_(L!ledger)
  BY StepIsLedgers DEF Resumable
<1> QED BY <1>1, <1>2, <1>3, PTL DEF Spec, ImplementsLedger, L!Spec

-----------------------------------------------------------------------------
(* An output folder is a CarStore. *)

(* A build goes on in a folder without rows, opened or not.                    *)
BuildingEmpty ==
    /\ pc = "schema" => store[Dest] = "none"
    /\ pc = "fill" => store[Dest] = "partial"
    /\ pc \in {"schema", "fill"} => \A p \in Plugins : rows[<<Dest, p>>] = "absent"

LEMMA BuilderHasDest ==
    ASSUME TypeInv, pc \in {"run", "schema", "fill"} PROVE Dest \in Dests
BY ConstantsAssumption DEF TypeInv, TypeOK, InBounds, Busy, Dest, Img

LEMMA NextBuildingEmpty ==
    ASSUME TypeInv, BuildingEmpty, [Next]_vars PROVE BuildingEmpty'
<1>1. ASSUME pc' \notin {"schema", "fill"} PROVE BuildingEmpty'
  BY <1>1 DEF BuildingEmpty
<1>2. CASE RemoveStore
  <2>1. pc' = "schema" /\ Dest' = Dest /\ Dest \in Dests
    BY <1>2, BuilderHasDest DEF RemoveStore, loopVars, Dest, Img
  <2>2. store'[Dest] = "none" /\ \A p \in Plugins : rows'[<<Dest, p>>] = "absent"
    BY <1>2, <2>1 DEF RemoveStore, Entries, TypeInv, TypeOK
  <2> QED BY <2>1, <2>2 DEF BuildingEmpty
<1>3. CASE CreateSchema
  <2>1. Dest' = Dest /\ Dest \in Dests /\ rows' = rows /\ pc = "schema"
    BY <1>3, BuilderHasDest DEF CreateSchema, Dest, Img
  <2>2. pc' = "reap" \/ (pc' = "fill" /\ store'[Dest] = "partial")
    BY <1>3, <2>1 DEF CreateSchema, TypeInv, TypeOK
  <2> QED BY <2>1, <2>2 DEF BuildingEmpty
<1>4. CASE FillStore \/ Reap \/ Invoke \/ Crash \/ Startup \/ BeginImage \/ Finish \/ Classify \/ AllDone
  BY <1>1, <1>4
     DEF FillStore, Reap, Invoke, Crash, Startup, BeginImage, Finish, Classify, AllDone, Exit
<1>5. CASE OpenEngine \/ UnknownCollector \/ StartCollector \/ CollectorAnswers
           \/ CollectorStalls \/ BumpStall \/ WriteMarker \/ Reexec \/ EndImage
           \/ CreateOutput \/ WriteFirst \/ WriteRest
  BY <1>1, <1>5
     DEF OpenEngine, UnknownCollector, StartCollector, CollectorAnswers, CollectorStalls,
         BumpStall, WriteMarker, Reexec, EndImage, CreateOutput, WriteFirst, WriteRest,
         NextCollector, Exit
<1>6. CASE UNCHANGED vars
  BY <1>6 DEF vars, BuildingEmpty, Dest, Img
<1> QED
  BY <1>2, <1>3, <1>4, <1>5, <1>6 DEF Next, Step

(* What the folder shows of the output tree.                                   *)
LEMMA CarKept ==
    ASSUME UNCHANGED car
    PROVE  store[Folder]' = store[Folder] /\ CarHeld' = CarHeld
BY DEF car, CarHeld

LEMMA CarRawKept == ASSUME file' = file PROVE CarRaw' = CarRaw
BY DEF CarRaw

(* One output more or less, and nobody is building.                            *)
LEMMA OneOutput ==
    ASSUME TypeInv, NEW e \in Entries, NEW k \in Kinds, file' = [file EXCEPT ![e] = k],
           UNCHANGED car, ~CarBuilding, ~CarBuilding'
    PROVE  [C!Next]_(C!folder)
<1>1. file \in [Entries -> Kinds] /\ e = <<e[1], e[2]>> /\ e[2] \in Plugins
  BY DEF TypeInv, TypeOK, Entries
<1>2. store[Folder]' = store[Folder] /\ CarHeld' = CarHeld
  BY CarKept
<1>3. CASE e[1] = Folder
  <2>1. PICK p \in Plugins : e = <<Folder, p>>
    BY <1>1, <1>3
  <2>2. \A q \in Plugins : file'[<<Folder, q>>] = IF q = p THEN k ELSE file[<<Folder, q>>]
    BY <1>1, <2>1, FolderAssumption DEF Entries
  <2>3. CarRaw' = [q \in Plugins |-> IF q = p THEN k ELSE CarRaw[q]]
    BY <2>2 DEF CarRaw
  <2>4. CarRaw' = [CarRaw EXCEPT ![p] = k]
    BY <2>3 DEF CarRaw
  <2>5. UNCHANGED <<store[Folder], CarHeld, CarBuilding>> /\ ~CarBuilding
    BY <1>2 DEF CarBuilding
  <2>6. C!Extract
    BY <2>4, <2>5 DEF C!Extract
  <2> QED BY <2>6 DEF C!Next
<1>4. CASE e[1] # Folder
  <2>1. \A q \in Plugins : file'[<<Folder, q>>] = file[<<Folder, q>>]
    BY <1>1, <1>4, FolderAssumption DEF Entries
  <2>2. CarRaw' = CarRaw
    BY <2>1 DEF CarRaw
  <2>3. CarBuilding' = CarBuilding
    BY DEF CarBuilding
  <2> QED BY <1>2, <2>2, <2>3 DEF C!folder
<1> QED BY <1>3, <1>4

(* The process is at a step that leaves the tree alone.                        *)
LEMMA QuietFolder ==
    ASSUME UNCHANGED car, file' = file, CarBuilding' => CarBuilding /\ pc' = pc
    PROVE  [C!Next]_(C!folder)
<1>1. store[Folder]' = store[Folder] /\ CarHeld' = CarHeld /\ CarRaw' = CarRaw
  BY CarKept, CarRawKept
<1>2. CASE CarBuilding /\ ~CarBuilding'
  <2>1. C!Abandon
    BY <1>1, <1>2 DEF C!Abandon
  <2> QED BY <2>1 DEF C!Next
<1>3. CASE CarBuilding' <=> CarBuilding
  <2>1. CarBuilding' = CarBuilding
    BY <1>3 DEF CarBuilding
  <2> QED BY <1>1, <2>1 DEF C!folder
<1> QED BY <1>2, <1>3

(* FillStore loads what CarStore says is to be loaded.                         *)
LEMMA LoadedIsLoads ==
    ASSUME TypeInv,
           \A p \in Plugins : rows'[<<Folder, p>>] = Loaded(<<Folder, p>>)
    PROVE  CarHeld' = C!Loads
<1>1. file \in [Entries -> Kinds] /\ \A p \in Plugins : <<Folder, p>> \in Entries
  BY FolderAssumption DEF TypeInv, TypeOK, Entries
<1>2. \A p \in Plugins : CarRaw[p] = file[<<Folder, p>>] /\ CarRaw[p] \in Kinds
  BY <1>1 DEF CarRaw
<1>3. \A p \in Plugins : C!Superseded(p) <=> Superseded(<<Folder, p>>)
  BY <1>2 DEF C!Superseded, Superseded
<1>4. \A p \in Plugins, k \in Kinds :
        (k # "absent" /\ Loaded(<<Folder, p>>) = k) <=>
        (k = CarRaw[p] /\ p \notin Triggers /\ Valid(CarRaw[p]) /\ ~C!Superseded(p))
  BY <1>2, <1>3 DEF Loaded, Valid
<1>5. CarHeld' = {l \in Plugins \X (Kinds \ {"absent"}) : Loaded(<<Folder, l[1]>>) = l[2]}
  BY DEF CarHeld
<1>6. C!Loads = {<<p, CarRaw[p]>> : p \in {q \in Plugins \ Triggers : Valid(CarRaw[q]) /\ ~C!Superseded(q)}}
  BY <1>2 DEF C!Loads
<1>7. ASSUME NEW l \in CarHeld' PROVE l \in C!Loads
  BY <1>4, <1>5, <1>6, <1>7
<1>8. ASSUME NEW l \in C!Loads PROVE l \in CarHeld'
  <2>1. PICK p \in Plugins : l = <<p, CarRaw[p]>> /\ p \notin Triggers /\ Valid(CarRaw[p]) /\ ~C!Superseded(p)
    BY <1>6, <1>8
  <2>2. CarRaw[p] \in Kinds \ {"absent"} /\ Loaded(<<Folder, p>>) = CarRaw[p]
    BY <1>2, <1>4, <2>1 DEF Valid
  <2> QED BY <1>5, <2>1, <2>2
<1> QED BY <1>7, <1>8

LEMMA StepIsCarStores ==
    ASSUME TypeInv, BuildingEmpty, [Next]_vars PROVE [C!Next]_(C!folder)
<1>1. CASE RemoveStore
  <2>1. /\ ~CarBuilding /\ file' = file /\ pc' = "schema" /\ Dest' = Dest /\ Dest \in Dests
        /\ store' = [store EXCEPT ![Dest] = "none"]
        /\ rows' = [e \in Entries |-> IF e[1] = Dest THEN "absent" ELSE rows[e]]
    BY <1>1, BuilderHasDest DEF RemoveStore, CarBuilding, raw, loopVars, Dest, Img
  <2>2. CASE Dest = Folder
    <3>1. CarBuilding' = TRUE
      BY <2>1, <2>2 DEF CarBuilding
    <3>2. store'[Folder] = "none" /\ CarRaw' = CarRaw
      BY <2>1, <2>2, CarRawKept DEF TypeInv, TypeOK
    <3>3. CarHeld' = {}
      BY <2>1, <2>2 DEF CarHeld, Entries
    <3>4. C!Begin
      BY <2>1, <3>1, <3>2, <3>3 DEF C!Begin
    <3> QED BY <3>4 DEF C!Next
  <2>3. CASE Dest # Folder
    <3>1. ~CarBuilding'
      BY <2>1, <2>3 DEF CarBuilding
    <3>2. store'[Folder] = store[Folder] /\ CarRaw' = CarRaw
      BY <2>1, <2>3, CarRawKept, FolderAssumption DEF TypeInv, TypeOK
    <3>3. \A p \in Plugins : rows'[<<Folder, p>>] = rows[<<Folder, p>>]
      BY <2>1, <2>3, FolderAssumption DEF Entries
    <3>4. CarHeld' = CarHeld
      BY <3>3 DEF CarHeld
    <3> QED BY <2>1, <3>1, <3>2, <3>4 DEF C!folder, CarBuilding
  <2> QED BY <2>2, <2>3
<1>2. CASE CreateSchema
  <2>1. /\ pc = "schema" /\ file' = file /\ rows' = rows /\ Dest' = Dest /\ Dest \in Dests
        /\ \/ pc' = "fill" /\ store' = [store EXCEPT ![Dest] = "partial"]
           \/ pc' = "reap" /\ store' = store
    BY <1>2, BuilderHasDest DEF CreateSchema, raw, Dest, Img
  <2>2. CASE pc' = "reap"
    BY <2>1, <2>2, QuietFolder DEF CarBuilding, car
  <2>3. CASE pc' = "fill" /\ Dest = Folder
    <3>1. CarBuilding /\ CarBuilding' = CarBuilding
      BY <2>1, <2>3 DEF CarBuilding
    <3>2. store'[Folder] = "partial" /\ CarRaw' = CarRaw /\ CarHeld' = CarHeld
      BY <2>1, <2>3, CarRawKept DEF TypeInv, TypeOK, CarHeld
    <3>3. C!Create
      BY <3>1, <3>2 DEF C!Create
    <3> QED BY <3>3 DEF C!Next
  <2>4. CASE pc' = "fill" /\ Dest # Folder
    <3>1. ~CarBuilding /\ ~CarBuilding'
      BY <2>1, <2>4 DEF CarBuilding
    <3>2. store'[Folder] = store[Folder] /\ CarRaw' = CarRaw /\ CarHeld' = CarHeld
      BY <2>1, <2>4, CarRawKept, FolderAssumption DEF TypeInv, TypeOK, CarHeld
    <3> QED BY <3>1, <3>2 DEF C!folder, CarBuilding
  <2> QED BY <2>1, <2>2, <2>3, <2>4
<1>3. CASE FillStore
  <2>1. /\ pc = "fill" /\ pc' = "reap" /\ file' = file /\ Dest \in Dests /\ ~CarBuilding'
        /\ \/ /\ store' = [store EXCEPT ![Dest] = "complete"]
              /\ rows' = [e \in Entries |-> IF e[1] = Dest THEN Loaded(e) ELSE rows[e]]
           \/ UNCHANGED car
    BY <1>3, BuilderHasDest DEF FillStore, raw, CarBuilding
  <2>2. CASE UNCHANGED car
    BY <2>1, <2>2, QuietFolder
  <2>3. CASE /\ Dest = Folder /\ store' = [store EXCEPT ![Dest] = "complete"]
             /\ rows' = [e \in Entries |-> IF e[1] = Dest THEN Loaded(e) ELSE rows[e]]
    <3>1. CarBuilding /\ CarBuilding' = FALSE /\ CarRaw' = CarRaw
      BY <2>1, <2>3, CarRawKept DEF CarBuilding
    <3>2. store[Folder] = "partial" /\ store'[Folder] = "complete"
      BY <2>1, <2>3 DEF TypeInv, TypeOK, BuildingEmpty
    <3>3. CarHeld = {}
      BY <2>1, <2>3 DEF BuildingEmpty, CarHeld
    <3>4. \A p \in Plugins : rows'[<<Folder, p>>] = Loaded(<<Folder, p>>)
      BY <2>3, FolderAssumption DEF Entries
    <3>5. CarHeld' = C!Loads
      BY <3>4, LoadedIsLoads
    <3>6. C!Finish
      <4>1. {} \in C!Unread
        BY DEF C!Unread
      <4>2. CarHeld' = CarHeld \cup {l \in C!Loads : l[1] \notin {}}
        BY <3>3, <3>5
      <4> QED BY <3>1, <3>2, <4>1, <4>2 DEF C!Finish
    <3> QED BY <3>6 DEF C!Next
  <2>4. CASE /\ Dest # Folder /\ store' = [store EXCEPT ![Dest] = "complete"]
             /\ rows' = [e \in Entries |-> IF e[1] = Dest THEN Loaded(e) ELSE rows[e]]
    <3>1. ~CarBuilding
      BY <2>4 DEF CarBuilding
    <3>2. store'[Folder] = store[Folder] /\ CarRaw' = CarRaw
      BY <2>1, <2>4, CarRawKept, FolderAssumption DEF TypeInv, TypeOK
    <3>3. \A p \in Plugins : rows'[<<Folder, p>>] = rows[<<Folder, p>>]
      BY <2>4, FolderAssumption DEF Entries
    <3>4. CarHeld' = CarHeld
      BY <3>3 DEF CarHeld
    <3> QED BY <2>1, <3>1, <3>2, <3>4 DEF C!folder, CarBuilding
  <2> QED BY <2>1, <2>2, <2>3, <2>4
<1>4. CASE CreateOutput \/ WriteFirst \/ WriteRest
  <2>1. /\ Entry \in Entries /\ UNCHANGED car /\ ~CarBuilding /\ ~CarBuilding'
        /\ file' = file \/ \E k \in Kinds : file' = [file EXCEPT ![Entry] = k]
    BY <1>4, EntryType
       DEF CreateOutput, WriteFirst, WriteRest, Put, NextCollector, raw, CarBuilding, Running, Kinds
  <2> QED BY <2>1, OneOutput, QuietFolder
<1>5. CASE Reap
  <2>1. /\ UNCHANGED car /\ ~CarBuilding /\ ~CarBuilding'
        /\ file' = file \/ file' = [file EXCEPT ![Entry] = "absent"]
    BY <1>5 DEF Reap, raw, CarBuilding
  <2>2. Entry \in Entries
    BY <1>5, ConstantsAssumption
       DEF Reap, TypeInv, TypeOK, InBounds, Busy, Entry, Entries, Dest, Img, Cur
  <2> QED BY <2>1, <2>2, OneOutput, QuietFolder DEF Kinds
<1>6. CASE Invoke \/ Crash \/ Startup \/ BeginImage \/ Finish \/ Classify \/ AllDone
  <2>1. UNCHANGED car /\ file' = file /\ pc' \notin {"schema", "fill"}
    BY <1>6 DEF Invoke, Crash, Startup, BeginImage, Finish, Classify, AllDone, Exit, disk, car
  <2> QED BY <2>1, QuietFolder DEF CarBuilding
<1>7. CASE OpenEngine \/ UnknownCollector \/ StartCollector \/ CollectorAnswers
           \/ CollectorStalls \/ BumpStall \/ WriteMarker \/ Reexec \/ EndImage
  <2>1. UNCHANGED car /\ file' = file /\ pc' \notin {"schema", "fill"}
    BY <1>7
       DEF OpenEngine, UnknownCollector, StartCollector, CollectorAnswers, CollectorStalls,
           BumpStall, WriteMarker, Reexec, EndImage, Exit, disk, raw, car
  <2> QED BY <2>1, QuietFolder DEF CarBuilding
<1>8. CASE UNCHANGED vars
  BY <1>8, QuietFolder DEF vars, car, CarBuilding, Dest, Img
<1> QED
  BY <1>1, <1>2, <1>3, <1>4, <1>5, <1>6, <1>7, <1>8 DEF Next, Step

LEMMA InitIsCarStores == Init => C!Init /\ BuildingEmpty
<1> SUFFICES ASSUME Init PROVE C!Init /\ BuildingEmpty
  OBVIOUS
<1>1. CarRaw \in [Plugins -> Kinds]
  BY FolderAssumption DEF Init, CarRaw, Entries, Kinds
<1>2. store[Folder] = "none" /\ CarHeld = {} /\ CarBuilding = FALSE
  BY FolderAssumption DEF Init, CarHeld, CarBuilding, Entries
<1> QED BY <1>1, <1>2 DEF Init, BuildingEmpty, C!Init

(* In every output folder, over any images (several may share it), collectors,  *)
(* processes, kills and reruns, with and without FORCE, car.db is dropped,      *)
(* opened and filled as CarStore allows: with just what can be loaded, or not   *)
(* at all, and untouched until the next build (batch.go:298, pipeline.go:24).   *)
THEOREM BatchImplementsCarStore == Spec => ImplementsCarStore
<1> DEFINE I == TypeInv /\ BuildingEmpty
<1>1. Init => I /\ C!Init
  BY InitType, InitIsCarStores
<1>2. I /\ [Next]_vars => I'
  BY NextType, NextBuildingEmpty
<1>3. I /\ [Next]_vars => [C!Next]_(C!folder)
  BY StepIsCarStores
<1> QED BY <1>1, <1>2, <1>3, PTL DEF Spec, ImplementsCarStore, C!Spec

=============================================================================
