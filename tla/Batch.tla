-------------------------------- MODULE Batch --------------------------------
(***************************************************************************)
(* The env-driven batch orchestrator of anamnesis (cmd/anamnesis/batch.go) *)
(* together with the collector driver it calls (internal/collect.Run) and  *)
(* the store rebuild it ends every image with (internal/pipeline).         *)
(*                                                                         *)
(* One process at a time walks the discovered images in order.  For each   *)
(* image it classifies every requested collector by what is on disk, opens *)
(* the native engine, runs the remaining collectors under a stall          *)
(* watchdog, rebuilds car.db and finally reaps the outputs.  A stalled     *)
(* collector is recorded in a marker file and the process replaces itself. *)
(* The operator may kill the process at any step, and may invoke it again  *)
(* over the same output tree with another plugin list or FORCE setting:    *)
(* everything the next process knows is on disk.                           *)
(***************************************************************************)
EXTENDS Naturals, Sequences, FiniteSets

CONSTANTS
    Images,       \* memory images
    NoImage,      \* "written from no image": the origin of an absent file
    ImageSeq,     \* the images in discover()'s sorted order
    Dests,        \* output folders
    DestOf,       \* cleanName: image -> output folder
    Plugins,      \* every plugin name that can appear on disk or in a list
    Known,        \* the names collect.Get resolves
    PluginLists,  \* the ANAMNESIS_PLUGINS lists an operator may pass
    ForceModes,   \* the ANAMNESIS_FORCE settings an operator may pass
    Supersedes,   \* <<successor, old>> pairs of normalize.SUPERSEDES
    Triggers,     \* timeline.MalfindPlugins: joined at output time, never loaded
    Legacy,       \* <<dest, plugin>> with a valid <dest>/<plugin>.jsonl
    Leftover,     \* <<dest, plugin>> with valid raw output of an older run
    WatchdogOn,   \* ANAMNESIS_STALL_TIMEOUT > 0
    OnUnix,       \* process replacement exists (reexec_unix.go)
    MaxStalls,    \* maxStalls
    MaxRuns,      \* bound: invocations by the operator
    MaxCrashes    \* bound: kills of the process

ASSUME ConstantsAssumption ==
    /\ NoImage \notin Images
    /\ ImageSeq \in Seq(Images)
    /\ DestOf \in [Images -> Dests]
    /\ Known \subseteq Plugins
    /\ PluginLists \subseteq Seq(Plugins)
    /\ ForceModes \subseteq BOOLEAN
    /\ Supersedes \subseteq Plugins \X Plugins
    /\ Triggers \subseteq Plugins
    /\ Legacy \subseteq Dests \X Plugins
    /\ Leftover \subseteq Dests \X Plugins
    /\ WatchdogOn \in BOOLEAN
    /\ OnUnix \in BOOLEAN
    /\ MaxStalls \in Nat
    /\ MaxRuns \in Nat
    /\ MaxCrashes \in Nat

VARIABLES
    (* the output tree, which outlives every process *)
    file,      \* file[<<d, p>>]: what <d>/plugins/<p>.jsonl holds
    origin,    \* origin[<<d, p>>]: the image it was extracted from
    marker,    \* marker[<<d, p>>]: the count in <d>/plugins/<p>.stalled, 0 if none
    store,     \* store[d]: how far <d>/car.db was built
    rows,      \* rows[<<d, p>>]: the output of p a complete <d>/car.db was built from
    (* the running process *)
    pc,        \* where process() is
    exit,      \* exit status of the last process
    force,     \* ANAMNESIS_FORCE of the current environment
    plugins,   \* ANAMNESIS_PLUGINS of the current environment
    idx,       \* index of the current image
    pos,       \* index in the current loop over plugins or todo
    todo,      \* collectors to run on the current image
    yield,     \* what the last collector handed to writeJSONL
    count,     \* the stall count bumpStall is about to write
    processed, skipped, failed,  \* the summary counters
    (* the operator *)
    runs,      \* invocations so far
    crashes,   \* kills so far
    (* history, read by properties only *)
    stalls,    \* stalls[<<d, p>>]: watchdog expiries since the last invocation,
               \*    counted up to MaxStalls + 1
    completed  \* <<d, p>> whose collector wrote complete output since then

disk == <<file, origin, marker, store, rows>>
raw == <<file, origin>>
car == <<store, rows>>
sum == <<processed, skipped, failed>>
loopVars == <<idx, pos, todo>>
env == <<force, plugins>>
operator == <<runs, crashes>>
history == <<stalls, completed>>
vars == <<file, origin, marker, store, rows, pc, exit, force, plugins, idx,
          pos, todo, yield, count, processed, skipped, failed, runs, crashes, stalls, completed>>

-----------------------------------------------------------------------------
(* The output tree. *)

Entries == Dests \X Plugins

(* A raw output file: absent; created but empty; its first line torn by a  *)
(* short write; whole records but not all of them; complete.               *)
Kinds == {"absent", "empty", "torn", "cut", "full"}

(* validJSONL: non-empty and the first line parses. *)
Valid(kind) == kind \in {"cut", "full"}

(* pluginDone: the output, or the pre-plugins/ layout's output, is valid. *)
PluginDone(e) == Valid(file[e]) \/ e \in Legacy

(* Mutant of Superseded: an empty or torn successor hides nothing. *)
SupersededByValid(e) ==
    \E q \in Plugins : <<q, e[2]>> \in Supersedes /\ Valid(file[<<e[1], q>>])

(* BuildStore skips a built-in whose successor's file is present at all. *)
Superseded(e) ==
    \E q \in Plugins : <<q, e[2]>> \in Supersedes /\ file[<<e[1], q>>] # "absent"

(* What BuildStore loads: only files with a parseable record contribute. *)
Loaded(e) ==
    IF Valid(file[e]) /\ ~Superseded(e) /\ e[2] \notin Triggers THEN file[e] ELSE "absent"

StoreStates == {"none", "partial", "complete"}

-----------------------------------------------------------------------------
(* The process. *)

PcStates == {"exited", "start", "image", "classify", "run", "collect",
             "create", "first", "rest", "bump", "mark", "reexec",
             "schema", "fill", "reap"}

Killed == 137
ExitCodes == {0, 1, 2, 3, Killed}

Img == ImageSeq[idx]
Dest == DestOf[Img]
Cur == todo[pos]
Entry == <<Dest, Cur>>

Init ==
    /\ file = [e \in Entries |-> IF e \in Leftover THEN "full" ELSE "absent"]
    /\ origin = [e \in Entries |-> NoImage]
    /\ marker = [e \in Entries |-> 0]
    /\ store = [d \in Dests |-> "none"]
    /\ rows = [e \in Entries |-> "absent"]
    /\ pc = "exited" /\ exit = 0
    /\ force = FALSE /\ plugins = <<>>
    /\ idx = 1 /\ pos = 1 /\ todo = <<>>
    /\ yield = "nothing" /\ count = 0
    /\ processed = 0 /\ skipped = 0 /\ failed = 0
    /\ runs = 0 /\ crashes = 0
    /\ stalls = [e \in Entries |-> 0]
    /\ completed = {}

Exit(code) == pc' = "exited" /\ exit' = code

(* The operator (container runtime) starts the batch over the same tree. *)
Invoke ==
    /\ pc = "exited" /\ runs < MaxRuns
    /\ \E f \in ForceModes, l \in PluginLists : force' = f /\ plugins' = l
    /\ pc' = "start"
    /\ runs' = runs + 1
    /\ stalls' = [e \in Entries |-> 0]
    /\ completed' = {}
    /\ UNCHANGED <<disk, exit, loopVars, yield, count, sum, crashes>>

(* SIGKILL, out of memory, power of the container cut: the disk stays. *)
Crash ==
    /\ pc # "exited" /\ crashes < MaxCrashes
    /\ Exit(Killed)
    /\ crashes' = crashes + 1
    /\ UNCHANGED <<disk, env, loopVars, yield, count, sum, runs, history>>

(* process(): input and output checks, then the first image. *)
Startup ==
    /\ pc = "start"
    /\ processed' = 0 /\ skipped' = 0 /\ failed' = 0
    /\ idx' = 1 /\ pos' = 1 /\ todo' = <<>>
    /\ \/ pc' = "image" /\ UNCHANGED exit
       \/ Exit(2)
    /\ UNCHANGED <<disk, env, yield, count, operator, history>>

BeginImage ==
    /\ pc = "image" /\ idx <= Len(ImageSeq)
    /\ pc' = "classify" /\ pos' = 1 /\ todo' = <<>>
    /\ UNCHANGED <<disk, exit, env, idx, yield, count, sum, operator, history>>

(* The exit status runBatch derives from the summary. *)
ExitStatus == IF failed > 0 /\ processed = 0 /\ skipped = 0 THEN 1 ELSE 0

Finish ==
    /\ pc = "image" /\ idx > Len(ImageSeq)
    /\ Exit(ExitStatus)
    /\ UNCHANGED <<disk, env, loopVars, yield, count, sum, operator, history>>

(* Mutants of Skips and GivenUp: FORCE read the wrong way round, the attempt   *)
(* limit off by one.                                                           *)
SkipsUnderForce(e) == force /\ PluginDone(e)
GivenUpLate(e) == marker[e] > MaxStalls

(* One iteration of the classification loop over the requested plugins. *)
Skips(e) == ~force /\ PluginDone(e)
GivenUp(e) == marker[e] >= MaxStalls

Classify ==
    /\ pc = "classify" /\ pos <= Len(plugins)
    /\ LET e == <<Dest, plugins[pos]>> IN
       \/ /\ Skips(e)
          /\ skipped' = skipped + 1
          /\ UNCHANGED <<failed, todo>>
       \/ /\ ~Skips(e) /\ GivenUp(e)
          /\ failed' = failed + 1
          /\ UNCHANGED <<skipped, todo>>
       \/ /\ ~Skips(e) /\ ~GivenUp(e)
          /\ todo' = Append(todo, plugins[pos])
          /\ UNCHANGED <<skipped, failed>>
    /\ pos' = pos + 1
    /\ UNCHANGED <<disk, pc, exit, env, idx, yield, count, processed, operator, history>>

(* Mutant of AllDone: a second advance of the image index. *)
AllDoneTwice ==
    /\ pc = "classify" /\ pos > Len(plugins) /\ todo = <<>>
    /\ pc' = "image" /\ idx' = idx + 2
    /\ UNCHANGED <<disk, exit, env, pos, todo, yield, count, sum, operator, history>>

(* Nothing to run: the image is left as it is, car.db included. *)
AllDone ==
    /\ pc = "classify" /\ pos > Len(plugins) /\ todo = <<>>
    /\ pc' = "image" /\ idx' = idx + 1
    /\ UNCHANGED <<disk, exit, env, pos, todo, yield, count, sum, operator, history>>

(* runImage opens the engine; a failure goes straight to the reaping loop. *)
OpenEngine ==
    /\ pc = "classify" /\ pos > Len(plugins) /\ todo # <<>>
    /\ pc' \in {"run", "reap"}
    /\ pos' = 1
    /\ UNCHANGED <<disk, exit, env, idx, todo, yield, count, sum, operator, history>>

-----------------------------------------------------------------------------
(* collect.Run over todo. *)

UnknownCollector ==
    /\ pc = "run" /\ pos <= Len(todo) /\ Cur \notin Known
    /\ pos' = pos + 1
    /\ UNCHANGED <<disk, pc, exit, env, idx, todo, yield, count, sum, operator, history>>

StartCollector ==
    /\ pc = "run" /\ pos <= Len(todo) /\ Cur \in Known
    /\ pc' = "collect"
    /\ UNCHANGED <<disk, exit, env, loopVars, yield, count, sum, operator, history>>

(* runOne: the collector answers first, with records or without (no rows,  *)
(* or an error and nil records).                                           *)
CollectorAnswers ==
    /\ pc = "collect"
    /\ yield' \in {"records", "nothing"}
    /\ pc' = "create"
    /\ UNCHANGED <<disk, exit, env, loopVars, count, sum, operator, history>>

(* The history only needs to tell stall counts up to maxStalls apart. *)
OneMore(n) == IF n > MaxStalls THEN n ELSE n + 1

(* runOne: the watchdog fires first; nothing is written. *)
CollectorStalls ==
    /\ pc = "collect" /\ WatchdogOn
    /\ pc' = "bump"
    /\ stalls' = [stalls EXCEPT ![Entry] = OneMore(@)]
    /\ UNCHANGED <<disk, exit, env, loopVars, yield, count, sum, operator, completed>>

Put(kind) ==
    /\ file' = [file EXCEPT ![Entry] = kind]
    /\ origin' = [origin EXCEPT ![Entry] = Img]

NextCollector == pc' = "run" /\ pos' = pos + 1

(* writeJSONL: os.Create truncates whatever was there, or fails. *)
CreateOutput ==
    /\ pc = "create"
    /\ \/ /\ Put("empty")
          /\ IF yield = "records" THEN pc' = "first" /\ UNCHANGED pos
                                  ELSE NextCollector
       \/ /\ NextCollector
          /\ UNCHANGED raw
    /\ UNCHANGED <<marker, car, exit, env, idx, todo, yield, count, sum, operator, history>>

(* The first record is written, or cut short by a write error. *)
WriteFirst ==
    /\ pc = "first"
    /\ \/ Put("cut") /\ pc' = "rest" /\ UNCHANGED pos
       \/ Put("torn") /\ NextCollector
       \/ NextCollector /\ UNCHANGED raw
    /\ UNCHANGED <<marker, car, exit, env, idx, todo, yield, count, sum, operator, history>>

(* The remaining records follow, or a write error leaves them out. *)
WriteRest ==
    /\ pc = "rest"
    /\ \/ /\ Put("full")
          /\ completed' = completed \cup {Entry}
       \/ UNCHANGED <<raw, completed>>
    /\ NextCollector
    /\ UNCHANGED <<marker, car, exit, env, idx, todo, yield, count, sum, operator, stalls>>

-----------------------------------------------------------------------------
(* Stall recovery. *)

(* Mutant of BumpStall: the marker is written without reading the old count. *)
BumpStallFresh ==
    /\ pc = "bump"
    /\ count' = 1
    /\ marker' = [marker EXCEPT ![Entry] = 0]
    /\ pc' = "mark"
    /\ UNCHANGED <<raw, car, exit, env, loopVars, yield, sum, operator, history>>

(* bumpStall reads the old count, then os.WriteFile truncates the marker.  *)
(* An error on the way is fatal.                                           *)
BumpStall ==
    /\ pc = "bump"
    /\ \/ /\ count' = marker[Entry] + 1
          /\ marker' = [marker EXCEPT ![Entry] = 0]
          /\ pc' = "mark" /\ UNCHANGED exit
       \/ Exit(2) /\ UNCHANGED <<marker, count>>
    /\ UNCHANGED <<raw, car, env, loopVars, yield, sum, operator, history>>

WriteMarker ==
    /\ pc = "mark"
    /\ \/ /\ marker' = [marker EXCEPT ![Entry] = count]
          /\ pc' = "reexec" /\ UNCHANGED exit
       \/ Exit(2) /\ UNCHANGED marker
    /\ UNCHANGED <<raw, car, env, loopVars, yield, count, sum, operator, history>>

(* syscall.Exec with the same environment, or exit 2; 3 on windows. *)
Reexec ==
    /\ pc = "reexec"
    /\ \/ OnUnix /\ pc' = "start" /\ UNCHANGED exit
       \/ OnUnix /\ Exit(2)
       \/ ~OnUnix /\ Exit(3)
    /\ UNCHANGED <<disk, env, loopVars, yield, count, sum, operator, history>>

-----------------------------------------------------------------------------
(* BuildStore and the reaping loop. *)

(* Every collector returned: the engine is closed and the old car.db goes. *)
RemoveStore ==
    /\ pc = "run" /\ pos > Len(todo)
    /\ store' = [store EXCEPT ![Dest] = "none"]
    /\ rows' = [e \in Entries |-> IF e[1] = Dest THEN "absent" ELSE rows[e]]
    /\ pc' = "schema"
    /\ UNCHANGED <<raw, marker, exit, env, loopVars, yield, count, sum, operator, history>>

(* store.Open creates the schema; an error is only logged. *)
CreateSchema ==
    /\ pc = "schema"
    /\ \/ /\ store' = [store EXCEPT ![Dest] = "partial"]
          /\ pc' = "fill" /\ UNCHANGED pos
       \/ pc' = "reap" /\ pos' = 1 /\ UNCHANGED store
    /\ UNCHANGED <<raw, marker, rows, exit, env, idx, todo, yield, count, sum, operator, history>>

(* InsertEvents and InsertContext; an error leaves the store unfilled. *)
FillStore ==
    /\ pc = "fill"
    /\ \/ /\ store' = [store EXCEPT ![Dest] = "complete"]
          /\ rows' = [e \in Entries |-> IF e[1] = Dest THEN Loaded(e) ELSE rows[e]]
       \/ UNCHANGED car
    /\ pc' = "reap" /\ pos' = 1
    /\ UNCHANGED <<raw, marker, exit, env, idx, todo, yield, count, sum, operator, history>>

(* Mutant of Reap: a failed output is removed but not counted. *)
ReapUncounted ==
    /\ pc = "reap" /\ pos <= Len(todo)
    /\ \/ /\ Valid(file[Entry])
          /\ marker' = [marker EXCEPT ![Entry] = 0]
          /\ processed' = processed + 1
          /\ UNCHANGED raw
       \/ /\ ~Valid(file[Entry])
          /\ file' = [file EXCEPT ![Entry] = "absent"]
          /\ origin' = [origin EXCEPT ![Entry] = NoImage]
          /\ UNCHANGED <<marker, processed>>
    /\ pos' = pos + 1
    /\ UNCHANGED <<car, pc, exit, env, idx, todo, yield, count, skipped, failed, operator, history>>

(* One iteration of the loop that counts and cleans the outputs of todo. *)
Reap ==
    /\ pc = "reap" /\ pos <= Len(todo)
    /\ \/ /\ Valid(file[Entry])
          /\ marker' = [marker EXCEPT ![Entry] = 0]
          /\ processed' = processed + 1
          /\ UNCHANGED <<raw, failed>>
       \/ /\ ~Valid(file[Entry])
          /\ file' = [file EXCEPT ![Entry] = "absent"]
          /\ origin' = [origin EXCEPT ![Entry] = NoImage]
          /\ failed' = failed + 1
          /\ UNCHANGED <<marker, processed>>
    /\ pos' = pos + 1
    /\ UNCHANGED <<car, pc, exit, env, idx, todo, yield, count, skipped, operator, history>>

EndImage ==
    /\ pc = "reap" /\ pos > Len(todo)
    /\ pc' = "image" /\ idx' = idx + 1
    /\ UNCHANGED <<disk, exit, env, pos, todo, yield, count, sum, operator, history>>

-----------------------------------------------------------------------------
(* The specification. *)

(* The steps the process takes by itself, the collector's answer aside. *)
Step ==
    \/ Startup \/ BeginImage \/ Finish
    \/ Classify \/ AllDone \/ OpenEngine
    \/ UnknownCollector \/ StartCollector
    \/ CreateOutput \/ WriteFirst \/ WriteRest
    \/ BumpStall \/ WriteMarker \/ Reexec
    \/ RemoveStore \/ CreateSchema \/ FillStore
    \/ Reap \/ EndImage

Next == Invoke \/ Crash \/ Step \/ CollectorAnswers \/ CollectorStalls

Spec == Init /\ [][Next]_vars

(* The process runs while it is alive; a collector is only known to come   *)
(* back, one way or the other, when the watchdog is armed.                 *)
Fairness ==
    /\ WF_vars(Step)
    /\ WatchdogOn => WF_vars(CollectorAnswers \/ CollectorStalls)

FairSpec == Spec /\ Fairness

-----------------------------------------------------------------------------
(* Correctness. *)

TypeOK ==
    /\ file \in [Entries -> Kinds]
    /\ origin \in [Entries -> Images \cup {NoImage}]
    /\ marker \in [Entries -> Nat]
    /\ store \in [Dests -> StoreStates]
    /\ rows \in [Entries -> Kinds]
    /\ pc \in PcStates /\ exit \in ExitCodes
    /\ force \in BOOLEAN /\ plugins \in Seq(Plugins)
    /\ idx \in 1 .. Len(ImageSeq) + 1
    /\ pos \in Nat \ {0} /\ todo \in Seq(Plugins)
    /\ yield \in {"records", "nothing"} /\ count \in Nat
    /\ processed \in Nat /\ skipped \in Nat /\ failed \in Nat
    /\ runs \in Nat /\ crashes \in Nat
    /\ stalls \in [Entries -> Nat]
    /\ completed \subseteq Entries

(* Where the process is, its loop variables point into their lists.             *)
Busy == pc \notin {"exited", "start", "image"}
Running == pc \in {"collect", "create", "first", "rest", "bump", "mark", "reexec"}

InBounds ==
    /\ Busy => idx \in 1 .. Len(ImageSeq)
    /\ Running => pos \in 1 .. Len(todo)

(* The last process walked every image and printed its summary. *)
Finished == pc = "exited" /\ runs > 0 /\ exit \in {0, 1}

Distinct(l) == \A i, j \in 1 .. Len(l) : l[i] = l[j] => i = j
DistinctPlugins == \A l \in PluginLists : Distinct(l)
DistinctDests == \A i, j \in Images : DestOf[i] = DestOf[j] => i = j

(* Idempotency (ANAMNESIS_FORCE, pluginDone): without FORCE no process, re-exec *)
(* or rerun after a crash invalidates an output that validJSONL accepts, takes  *)
(* records from it or overwrites it with another image's: the only change a     *)
(* valid file may see is its own writer adding the remaining records.           *)
Keeps(e) ==
    /\ Valid(file'[e]) /\ origin'[e] = origin[e]
    /\ file[e] = "full" => file'[e] = "full"

ValidKept == [][\A e \in Entries : ~force /\ Valid(file[e]) => Keeps(e)]_vars

(* "completed collectors skip" (batch.go:35): once a collector has written its  *)
(* whole output, no process of the same invocation, re-execs included, starts   *)
(* that collector on that image again.                                          *)
CompletedNotRerun ==
    [][pc = "run" /\ pc' = "collect" => Entry \notin completed]_vars

(* "after two stalls it is skipped as failed" (batch.go:36): in one invocation  *)
(* without FORCE, over all its re-execs, the watchdog expires on one collector  *)
(* of one image at most maxStalls times.                                        *)
StallBound == ~force => \A e \in Entries : stalls[e] <= MaxStalls

(* The summary printed at exit accounts for every requested collector of every  *)
(* image once, whatever re-execs preceded it; without FORCE the processed and   *)
(* skipped ones are exactly those with a valid output on disk at that moment.   *)
SummaryAddsUp ==
    Finished =>
      /\ processed + skipped + failed = Len(ImageSeq) * Len(plugins)
      /\ ~force /\ DistinctDests =>
           processed + skipped =
             Cardinality({kj \in (1 .. Len(ImageSeq)) \X (1 .. Len(plugins)) :
                PluginDone(<<DestOf[ImageSeq[kj[1]]], plugins[kj[2]]>>)})

(* Where FORCE is never used a complete car.db never holds rows the raw output  *)
(* on disk no longer has: crashes, stalls and reruns leave it behind, not ahead.*)
StoreMatchesRaw ==
    ForceModes = {FALSE} =>
      \A e \in Entries :
         store[e[1]] = "complete" /\ Valid(rows[e]) => file[e] = rows[e]

(* "completed collectors skip, the stalled one is retried, and after two stalls *)
(* it is skipped as failed" (batch.go:35-36): every process started is          *)
(* followed, after finitely many re-execs, by an exit.  Where two images share  *)
(* a folder it is not: under FORCE the one that answers clears the marker of    *)
(* the one that stalls (batch.go:236).                                         *)
StallRecoveryEnds == (pc = "start") ~> (pc = "exited")

(* "after two stalls it is skipped as failed" (batch.go:36): where every image  *)
(* has a folder of its own the stall recovery comes to an end, with and without *)
(* FORCE, although a marker is cleared whenever its image gets an output.       *)
Terminates == DistinctDests => StallRecoveryEnds

-----------------------------------------------------------------------------
(* Why a run without FORCE is idempotent: the inductive invariant.             *)

Collecting == {"run", "collect", "create", "first"}

(* The positions of todo whose collector has not written its output yet.       *)
Ahead ==
    {k \in 1 .. Len(todo) : \/ pc = "classify"
                            \/ pc \in Collecting /\ k >= pos
                            \/ pc = "rest" /\ k > pos}

(* todo holds each collector once and, while it is built, only classified ones.*)
TodoDistinct ==
    /\ Distinct(plugins) /\ Distinct(todo)
    /\ pc = "classify" =>
         \A k \in 1 .. Len(todo) : \E m \in 1 .. pos - 1 : todo[k] = plugins[m]

(* Without FORCE the collectors still to be run have no valid output and have  *)
(* stalled less than maxStalls times; one in the middle of its output is the   *)
(* only writer of it.                                                          *)
AheadOpen ==
    ~force =>
      /\ \A k \in Ahead : /\ ~Valid(file[<<Dest, todo[k]>>])
                          /\ marker[<<Dest, todo[k]>>] < MaxStalls
      /\ pc = "rest" => file[Entry] = "cut" /\ origin[Entry] = Img
      /\ pc = "bump" => ~Valid(file[Entry]) /\ marker[Entry] < MaxStalls
      /\ pc = "mark" => count <= MaxStalls

(* Without FORCE every stall of this invocation is in the marker of an entry   *)
(* that has no output yet, or on its way there.                                *)
Recorded(e) ==
    IF pc = "bump" /\ e = Entry THEN marker[e] + 1
    ELSE IF pc = "mark" /\ e = Entry THEN count
    ELSE marker[e]

StallsRecorded ==
    ~force /\ pc # "exited" =>
      \A e \in Entries : ~Valid(file[e]) => stalls[e] <= Recorded(e)

CompletedValid == ~force => \A e \in completed : Valid(file[e])

(* What makes the batch resumable at every step: see the conjuncts.            *)
Resumable ==
    InBounds /\ TodoDistinct /\ AheadOpen /\ StallsRecorded /\ StallBound /\ CompletedValid

-----------------------------------------------------------------------------
(* What the documentation says and the code does not do. *)

(* batch.go:38 "Output per image: <out>/<clean name>/plugins/<plugin>.jsonl +   *)
(* car.db": an image that is left alone because nothing remains to be run, and  *)
(* that has raw output, has a store.                                            *)
DoneHasStore ==
    [][pc = "classify" /\ pc' = "image" /\ (\E p \in Plugins : Valid(file[<<Dest, p>>]))
         => store[Dest] # "none"]_vars

=============================================================================
