------------------------------ MODULE StoreBuild ------------------------------
(***************************************************************************)
(* One output folder over its life: raw plugins/*.jsonl, the car.db built  *)
(* from it (internal/pipeline, internal/store) and the views rendered from *)
(* car.db (internal/timeline), under runs of the single-image command line *)
(* (cmd/anamnesis/main.go) and of the batch (batch.go runImage), in any    *)
(* order and over any collectors.                                          *)
(*                                                                         *)
(* A kill may come between any two steps; a removal, a read, a transaction *)
(* or a rendering may fail, and most of these failures the code does not   *)
(* look at.  SQLite transactions are atomic.                               *)
(***************************************************************************)
EXTENDS Naturals, FiniteSets

CONSTANTS
    Plugins,      \* plugin names found under plugins/
    Supersedes,   \* <<successor, old>> pairs of normalize.SUPERSEDES
    Triggers,     \* timeline.MalfindPlugins
    Mapped,       \* the plugins whose records normalize to events
    Objects,      \* CAR objects
    ObjectOf,     \* the object of a mapped plugin's events
    Modes,        \* ways to run: "json", "csv", "bare" (--no-timeline), "batch"
    Lists,        \* the sets of collectors a run may be asked for
    Faults,       \* what may fail: subset of AllFaults
    MaxRuns,      \* bound: runs over the folder
    MaxKills      \* bound: kills

AllFaults == {"remove", "read", "open", "insert", "render"}

ASSUME StoreBuildAssumption ==
    /\ Supersedes \subseteq Plugins \X Plugins
    /\ Triggers \subseteq Plugins /\ Mapped \subseteq Plugins
    /\ ObjectOf \in [Mapped -> Objects]
    /\ Modes \subseteq {"json", "csv", "bare", "batch"}
    /\ Lists \subseteq SUBSET Plugins
    /\ {"db", "timeline"} \cap Objects = {}
    /\ Faults \subseteq AllFaults
    /\ MaxRuns \in Nat /\ MaxKills \in Nat

VARIABLES
    (* the folder *)
    raw,      \* raw[p]: plugins/<p>.jsonl, and the run that wrote it
    db,       \* car.db: whether its tables exist, and its rows
    timeline, \* timeline.json
    csv,      \* csv[o]: car/<o>.csv
    (* the running process *)
    pc, mode, \* where it is; how it was started
    list,     \* the collectors it runs
    left,     \* what is left of the loop it is in
    events,   \* normalized events, by the raw file they come from
    context,  \* records without a CAR map, likewise
    (* the operator *)
    run, kills, exit,
    (* history, read by properties only *)
    stuck,    \* files whose last removal failed
    missed    \* raw files the last load could not read

folder == <<raw, db, timeline, csv>>
views == <<timeline, csv>>
loaded == <<events, context>>
vars == <<raw, db, timeline, csv, pc, mode, list, left, events, context,
          run, kills, exit, stuck, missed>>

-----------------------------------------------------------------------------
(* The folder. *)

(* An output: absent; without one whole record; with some of them; complete. *)
Kinds == {"absent", "bad", "cut", "full"}
Outputs == [kind : Kinds, by : 0 .. MaxRuns]

Gone == [kind |-> "absent", by |-> 0]
HasRecords(f) == f.kind \in {"cut", "full"}

(* A row set: the records of one raw file, put in by one build.              *)
Source(p) == [plugin |-> p, kind |-> raw[p].kind, by |-> raw[p].by]
Sources == [plugin : Plugins, kind : {"cut", "full"}, by : 1 .. MaxRuns]
Rows == [src : Sources, build : 1 .. MaxRuns]

Stamp(s, b) == {[src |-> x, build |-> b] : x \in s}
EventRows(rs) == {r \in rs : r.src.plugin \in Mapped}
ObjectRows(rs, o) == {r \in EventRows(rs) : ObjectOf[r.src.plugin] = o}

(* A rendered view: how far it was written, and the rows it was written from.*)
Views == [kind : {"absent", "torn", "whole"}, of : SUBSET Rows]
NoView == [kind |-> "absent", of |-> {}]
Stores == [made : BOOLEAN, rows : SUBSET Rows]
NoDb == [made |-> FALSE, rows |-> {}]

Init ==
    /\ raw = [p \in Plugins |-> Gone]
    /\ db = NoDb /\ timeline = NoView /\ csv = [o \in Objects |-> NoView]
    /\ pc = "idle" /\ mode = "bare" /\ list = {} /\ left = {}
    /\ events = {} /\ context = {}
    /\ run = 0 /\ kills = 0 /\ exit = 0
    /\ stuck = {} /\ missed = {}

Exit(code) == pc' = "idle" /\ exit' = code

(* A failure that the caller looks at: the command line gives up, the batch   *)
(* logs it and goes on to reap the outputs of the run.                        *)
Fails ==
    IF mode = "batch" THEN pc' = "reap" /\ left' = list /\ UNCHANGED exit
                      ELSE Exit(1) /\ UNCHANGED left

-----------------------------------------------------------------------------
(* The collectors. *)

(* A run starts: the batch leaves out what is already done, and does nothing  *)
(* when that is everything.                                                   *)
Invoke ==
    /\ pc = "idle" /\ run < MaxRuns
    /\ run' = run + 1
    /\ \E m \in Modes, l \in Lists :
         LET todo == IF m = "batch" THEN {p \in l : ~HasRecords(raw[p])} ELSE l IN
         /\ mode' = m /\ list' = todo /\ left' = todo
         /\ IF m = "batch" /\ todo = {} THEN Exit(0)
                                        ELSE pc' = "engine" /\ UNCHANGED exit
    /\ UNCHANGED <<folder, loaded, kills, stuck, missed>>

OpenEngine ==
    /\ pc = "engine"
    /\ \/ pc' = "collect" /\ UNCHANGED <<left, exit>>
       \/ Fails
    /\ UNCHANGED <<folder, mode, list, loaded, run, kills, stuck, missed>>

(* collect.Run: one collector more writes its output, or cannot create it.    *)
Collect ==
    /\ pc = "collect"
    /\ \E p \in left :
         /\ \/ \E k \in Kinds \ {"absent"} : raw' = [raw EXCEPT ![p] = [kind |-> k, by |-> run]]
            \/ UNCHANGED raw
         /\ left' = left \ {p}
    /\ UNCHANGED <<db, views, pc, mode, list, loaded, run, kills, exit, stuck, missed>>

(* A collector stalled: nothing is built.  The batch re-executes, which is    *)
(* one more run; the command line exits.                                      *)
Stalled ==
    /\ pc = "collect" /\ left # {}
    /\ Exit(1)
    /\ UNCHANGED <<folder, mode, list, left, loaded, run, kills, stuck, missed>>

-----------------------------------------------------------------------------
(* BuildStore: what is on disk is loaded ... *)

(* Mutant of Superseded: only a successor that runs now hides the built-in.    *)
SupersededInRun(p) == \E q \in list : <<q, p>> \in Supersedes

(* A built-in is hidden by its successor's file, whatever that file holds.    *)
Superseded(p) == \E q \in Plugins : <<q, p>> \in Supersedes /\ raw[q].kind # "absent"

(* Mutant of Wanted: what a torn line holds is loaded too.                     *)
WantedTorn == {p \in Plugins \ Triggers : raw[p].kind # "absent" /\ ~Superseded(p)}

Wanted == {p \in Plugins \ Triggers : HasRecords(raw[p]) /\ ~Superseded(p)}

(* Mutant of Load: only the collectors of this run are loaded.                 *)
LoadOwnRun ==
    /\ pc = "collect" /\ left = {}
    /\ missed' = {}
    /\ events' = {Source(p) : p \in Wanted \cap Mapped \cap list}
    /\ context' = {Source(p) : p \in (Wanted \ Mapped) \cap list}
    /\ pc' = "rm_db"
    /\ UNCHANGED <<folder, mode, list, left, run, kills, exit, stuck>>

(* LoadJSONL gives nothing for a file it cannot read.                         *)
Load ==
    /\ pc = "collect" /\ left = {}
    /\ \E m \in (IF "read" \in Faults THEN SUBSET Wanted ELSE {{}}) :
         /\ missed' = m
         /\ events' = {Source(p) : p \in (Wanted \ m) \cap Mapped}
         /\ context' = {Source(p) : p \in (Wanted \ m) \ Mapped}
    /\ pc' = "rm_db"
    /\ UNCHANGED <<folder, mode, list, left, run, kills, exit, stuck>>

(* ... the old store and its views are removed, car.db first, errors unseen ...*)
Unstick(f) == stuck' = stuck \ {f}

(* Mutant of RemoveDb: the store is not rebuilt but added to.                  *)
RemoveDbNot ==
    /\ pc = "rm_db"
    /\ Unstick("db")
    /\ pc' = "rm_timeline"
    /\ UNCHANGED <<folder, mode, list, left, loaded, run, kills, exit, missed>>

RemoveDb ==
    /\ pc = "rm_db"
    /\ \/ db' = NoDb /\ Unstick("db")
       \/ /\ "remove" \in Faults /\ db.made
          /\ stuck' = stuck \cup {"db"} /\ UNCHANGED db
    /\ pc' = "rm_timeline"
    /\ UNCHANGED <<raw, views, mode, list, left, loaded, run, kills, exit, missed>>

(* Mutant of RemoveTimeline: only a run that renders it again removes it.      *)
RemoveTimelineOwn ==
    /\ pc = "rm_timeline"
    /\ \/ mode = "json" /\ timeline' = NoView
       \/ mode # "json" /\ UNCHANGED timeline
    /\ Unstick("timeline")
    /\ pc' = "rm_csv"
    /\ left' = {o \in Objects : csv[o].kind # "absent"}
    /\ UNCHANGED <<raw, db, csv, mode, list, loaded, run, kills, exit, missed>>

RemoveTimeline ==
    /\ pc = "rm_timeline"
    /\ \/ timeline' = NoView /\ Unstick("timeline")
       \/ /\ "remove" \in Faults /\ timeline.kind # "absent"
          /\ stuck' = stuck \cup {"timeline"} /\ UNCHANGED timeline
    /\ pc' = "rm_csv"
    /\ left' = {o \in Objects : csv[o].kind # "absent"}
    /\ UNCHANGED <<raw, db, csv, mode, list, loaded, run, kills, exit, missed>>

RemoveCsv ==
    /\ pc = "rm_csv"
    /\ \E o \in left :
         /\ \/ csv' = [csv EXCEPT ![o] = NoView] /\ Unstick(o)
            \/ "remove" \in Faults /\ stuck' = stuck \cup {o} /\ UNCHANGED csv
         /\ left' = left \ {o}
    /\ UNCHANGED <<raw, db, timeline, pc, mode, list, loaded, run, kills, exit, missed>>

(* ... and the new store is made and filled.  A car.db that could not be      *)
(* removed is opened as it is (CREATE TABLE IF NOT EXISTS).                   *)
OpenStore ==
    /\ pc = "rm_csv" /\ left = {}
    /\ \/ db' = [made |-> TRUE, rows |-> db.rows] /\ pc' = "events" /\ UNCHANGED <<left, exit>>
       \/ "open" \in Faults /\ Fails /\ UNCHANGED db
    /\ UNCHANGED <<raw, views, mode, list, loaded, run, kills, stuck, missed>>

(* InsertEvents: all events in one transaction.                               *)
InsertEvents ==
    /\ pc = "events"
    /\ \/ /\ db' = [made |-> TRUE, rows |-> db.rows \cup Stamp(events, run)]
          /\ pc' = "context" /\ left' = context /\ UNCHANGED exit
       \/ "insert" \in Faults /\ Fails /\ UNCHANGED db
    /\ UNCHANGED <<raw, views, mode, list, loaded, run, kills, stuck, missed>>

(* InsertContext: one transaction per plugin without a CAR map.               *)
InsertContext ==
    /\ pc = "context"
    /\ \E s \in left :
         \/ /\ db' = [made |-> TRUE, rows |-> db.rows \cup Stamp({s}, run)]
            /\ left' = left \ {s} /\ UNCHANGED <<pc, exit>>
         \/ "insert" \in Faults /\ Fails /\ UNCHANGED db
    /\ UNCHANGED <<raw, views, mode, list, loaded, run, kills, stuck, missed>>

-----------------------------------------------------------------------------
(* After BuildStore. *)

(* Store.Counts: the objects with rows.                                       *)
Counted == {o \in Objects : ObjectRows(db.rows, o) # {}}

Built ==
    /\ pc = "context" /\ left = {}
    /\ \/ mode = "batch" /\ pc' = "reap" /\ left' = list
       \/ mode = "json" /\ pc' = "json" /\ UNCHANGED left
       \/ mode = "csv" /\ pc' = "csv" /\ left' = Counted
       \/ mode = "bare" /\ pc' = "status" /\ UNCHANGED left
    /\ UNCHANGED <<folder, exit, mode, list, loaded, run, kills, stuck, missed>>

(* A view is created, which truncates what is there, and then written from    *)
(* the store.  The caller drops an error of either; a write cut short leaves   *)
(* what a kill in its middle leaves.                                          *)
Render(rs) == {[kind |-> "whole", of |-> rs], [kind |-> "torn", of |-> rs]}

WriteTimelineJSON ==
    /\ pc = "json"
    /\ \/ timeline' \in Render(EventRows(db.rows)) /\ Unstick("timeline")
       \/ "render" \in Faults /\ UNCHANGED <<timeline, stuck>>
    /\ pc' = "status"
    /\ UNCHANGED <<raw, db, csv, mode, list, left, loaded, run, kills, exit, missed>>

(* WriteObjectCSVs: object after object, in no fixed order (a Go map), up to   *)
(* the first failure.                                                         *)
WriteObjectCSV ==
    /\ pc = "csv"
    /\ \E o \in left :
         /\ csv' = [csv EXCEPT ![o] = [kind |-> "whole", of |-> ObjectRows(db.rows, o)]]
         /\ Unstick(o) /\ left' = left \ {o}
    /\ UNCHANGED <<raw, db, timeline, pc, mode, list, loaded, run, kills, exit, missed>>

WriteObjectCSVFails ==
    /\ pc = "csv"
    /\ \E o \in left :
         \/ /\ csv' = [csv EXCEPT ![o] = [kind |-> "torn", of |-> ObjectRows(db.rows, o)]]
            /\ Unstick(o)
         \/ "render" \in Faults /\ UNCHANGED <<csv, stuck>>
    /\ pc' = "status"
    /\ UNCHANGED <<raw, db, timeline, mode, list, left, loaded, run, kills, exit, missed>>

(* The exit status of the command line is about the collectors, not the views.*)
Status ==
    /\ pc = "status" \/ (pc = "csv" /\ left = {})
    /\ pc' = "idle" /\ exit' \in {0, 1}
    /\ UNCHANGED <<folder, mode, list, left, loaded, run, kills, stuck, missed>>

(* The batch removes the outputs of this run that hold no record.             *)
Reap ==
    /\ pc = "reap"
    /\ \E p \in left :
         /\ raw' = IF HasRecords(raw[p]) THEN raw ELSE [raw EXCEPT ![p] = Gone]
         /\ left' = left \ {p}
    /\ UNCHANGED <<db, views, pc, mode, list, loaded, run, kills, exit, stuck, missed>>

EndImage ==
    /\ pc = "reap" /\ left = {}
    /\ Exit(0)
    /\ UNCHANGED <<folder, mode, list, left, loaded, run, kills, stuck, missed>>

Kill ==
    /\ pc # "idle" /\ kills < MaxKills
    /\ kills' = kills + 1
    /\ Exit(137)
    /\ UNCHANGED <<folder, mode, list, left, loaded, run, stuck, missed>>

Next ==
    \/ Invoke \/ OpenEngine \/ Collect \/ Stalled
    \/ Load \/ RemoveDb \/ RemoveTimeline \/ RemoveCsv
    \/ OpenStore \/ InsertEvents \/ InsertContext \/ Built
    \/ WriteTimelineJSON \/ WriteObjectCSV \/ WriteObjectCSVFails \/ Status
    \/ Reap \/ EndImage \/ Kill

Spec == Init /\ [][Next]_vars

-----------------------------------------------------------------------------
(* Correctness. *)

BuildStates == {"rm_db", "rm_timeline", "rm_csv", "events", "context"}
PcStates == BuildStates \cup {"idle", "engine", "collect", "json", "csv", "status", "reap"}

TypeOK ==
    /\ raw \in [Plugins -> Outputs]
    /\ db \in Stores
    /\ timeline \in Views /\ csv \in [Objects -> Views]
    /\ pc \in PcStates /\ mode \in Modes \cup {"bare"}
    /\ list \subseteq Plugins /\ left \subseteq Plugins \cup Objects \cup Sources
    /\ events \subseteq Sources /\ context \subseteq Sources
    /\ run \in 0 .. MaxRuns /\ kills \in 0 .. MaxKills /\ exit \in {0, 1, 137}
    /\ stuck \subseteq {"db", "timeline"} \cup Objects /\ missed \subseteq Plugins

(* "Stale rendered views are removed so they can never disagree with the store"*)
(* (pipeline.go:25): while there is a car.db, a view shows nothing that is not *)
(* in it and, when it was written to its end, everything that is, after kills, *)
(* stalls and failed builds too, unless the view itself could not be removed.  *)
Shows(view, rs) ==
    /\ view.of \subseteq rs
    /\ view.kind = "whole" => view.of = rs

ViewsMatchStore ==
    db.made =>
      /\ "timeline" \notin stuck => Shows(timeline, EventRows(db.rows))
      /\ \A o \in Objects \ stuck : Shows(csv[o], ObjectRows(db.rows, o))

(* "a fresh <out>/car.db" (pipeline.go:24): the rows of a store come from one   *)
(* build, so none is in it twice, unless the old file could not be removed.    *)
OneBuild ==
    "db" \notin stuck => \A r, s \in db.rows : r.build = s.build

(* "earlier plugins' raw output is re-normalized, never destroyed"             *)
(* (pipeline.go:5): from the moment a build is complete up to the next change  *)
(* of a raw file, the rows it added are the whole records on disk, those of    *)
(* earlier runs included, without triggers and superseded built-ins.           *)
BuiltNow == {r.src : r \in {x \in db.rows : x.build = run}}
Complete == pc \in {"json", "csv", "status"} \/ (pc = "context" /\ left = {})

StoreFromDisk ==
    Complete => BuiltNow = {Source(p) : p \in Wanted \ missed}

(* A session's rows never appear twice under two names: no store built afresh  *)
(* holds rows of a built-in next to rows of its successor.                     *)
NoDoubleView ==
    "db" \notin stuck =>
      \A r, s \in db.rows : <<r.src.plugin, s.src.plugin>> \notin Supersedes

(* So nothing is in a store twice, neither from two builds nor under two names. *)
NothingTwice == OneBuild /\ NoDoubleView

=============================================================================
