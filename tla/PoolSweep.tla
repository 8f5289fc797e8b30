------------------------------ MODULE PoolSweep ------------------------------
(***************************************************************************)
(* The pool-tag sweep of the engine (recover_vmm.go poolScanProcesses and  *)
(* sweepPoolTag over the planning of symbols/poolscan.go): process objects *)
(* found by the tag of their pool allocation, whatever the lists say.      *)
(*                                                                         *)
(* Addresses count pool chunks: headers and bodies are chunk-aligned, so   *)
(* nothing lies between two of them.  Margins below one chunk, which only  *)
(* a plan within a chunk of the cap would use, are left out; so is the end *)
(* of the address space, where no pool lies.                               *)
(***************************************************************************)
EXTENDS Naturals, Sequences, FiniteSets, SequencesExt

CONSTANTS
    Top,                    \* addresses are 0 .. Top
    Window,                 \* poolBackScanWindow
    Unit,                   \* poolSweepChunk
    CoreMargin, CoreGap,    \* poolCoreMargin, poolCoreMergeGap
    WideMargin, WideGap,    \* poolSweepMargin, poolSweepMergeGap
    Cap,                    \* poolSweepCap
    Budgeted                \* the scan budget may run out

VA == 0 .. Top

(* What the sweep can meet.  A body of an enumerated process need not have a  *)
(* header; a tag need not belong to anything.                                 *)
Memory ==
    [tags : SUBSET VA,     \* chunks that read as a header tagged "Proc"
     known : SUBSET VA,    \* bodies of the enumerated processes
     typed : SUBSET VA,    \* bodies that type as Process and have a sane PID
     holes : SUBSET VA]    \* chunks that cannot be read

ASSUME PoolSweepAssumption ==
    /\ {Top, Window, CoreMargin, CoreGap, WideMargin, WideGap, Cap} \subseteq Nat
    /\ Unit \in Nat /\ Unit > 1
    /\ Budgeted \in BOOLEAN

VARIABLES
    pass,     \* "off", "core", "outer", "classify" or "done"
    memory,
    core, wide, \* the two plans
    ranges,   \* what is left of the current pass
    late,     \* the budget is spent
    partial,  \* a pass stopped early
    hits,     \* the headers found by the core and by the outer pass
    only,     \* pool-only process objects
    defect    \* "coverage defect" was reported

sweepVars == <<pass, memory, core, wide, ranges, late, partial, hits, only, defect>>

NoPlan == [ranges |-> {}, cut |-> FALSE]
NoMemory == [tags |-> {}, known |-> {}, typed |-> {}, holes |-> {}]

SweepInit ==
    /\ pass = "off" /\ memory = NoMemory
    /\ core = NoPlan /\ wide = NoPlan /\ ranges = {}
    /\ late = FALSE /\ partial = FALSE
    /\ hits = [core |-> <<>>, outer |-> <<>>] /\ only = {} /\ defect = FALSE

-----------------------------------------------------------------------------
(* Ranges [start, end) of addresses.  No two of a plan overlap, so the set of  *)
(* them stands for the list in ascending order.                               *)

Least(s) == CHOOSE x \in s : \A y \in s : x <= y
Greatest(s) == CHOOSE x \in s : \A y \in s : x >= y
First(rs) == CHOOSE r \in rs : \A q \in rs : r[1] <= q[1]
Covered(rs) == UNION {r[1] .. r[2] - 1 : r \in rs}
Bytes(rs) == Cardinality(Covered(rs))

(* build: every address widened by the margin, those up to a gap apart made   *)
(* one range, from its first address to its last.  Addresses below the margin *)
(* start at 0.                                                                *)
Build(vas, margin, gap) ==
    LET Start(v) == IF v < margin THEN 0 ELSE v - margin
        End(v) == v + margin + 1
        Apart(v, w) == End(v) + gap < Start(w)
        heads == {w \in vas : \A v \in vas : v < w => Apart(v, w)}
        lasts == {v \in vas : \A w \in vas : v < w => Apart(v, w)}
    IN {<<Start(h), End(Least({v \in lasts : h <= v}))>> : h \in heads}

(* The ranges kept, in order, of a minimal plan that is over the cap.         *)
Keep(rs) == {r \in rs : Bytes({q \in rs : q[1] <= r[1]}) <= Cap}

(* Mutant of PlanPoolSweep: the plan is cut instead of shrunk, unreported.      *)
PlanCut(vas, margin, gap) ==
    [ranges |-> Keep(Build(vas, margin, gap)), cut |-> FALSE]

(* What x becomes by halving.                                                 *)
Halves(x) == {h \in 0 .. x : \E k \in 0 .. x : h = x \div (2 ^ k)}

(* PlanPoolSweep: the margin, then the gap, is halved until the plan fits.    *)
PlanPoolSweep(vas, margin, gap) ==
    LET tried == Halves(margin) \X {gap} \cup {0} \X Halves(gap)
        fit == {t \in tried : Bytes(Build(vas, t[1], t[2])) <= Cap}
        m == Greatest({t[1] : t \in fit})
        g == Greatest({t[2] : t \in {u \in fit : u[1] = m}})
    IN IF fit = {} THEN [ranges |-> Keep(Build(vas, 0, 0)), cut |-> TRUE]
       ELSE [ranges |-> Build(vas, m, g), cut |-> FALSE]

(* What is left of the ranges a from each start on, up to the next of b.      *)
Pieces(a, b) ==
    LET Starts(r) == {r[1]} \cup {s[2] : s \in {q \in b : q[2] > r[1]}}
        Until(r, x) == Least({r[2]} \cup {s[1] : s \in {q \in b : q[2] > x}})
    IN UNION {{<<x, Until(r, x)>> : x \in Starts(r)} : r \in a}

(* Mutant of Subtract: what a cut leaves of a range is kept though it is empty. *)
SubtractEmpty(a, b) == {p \in Pieces(a, b) : p[1] <= p[2]}

(* SubtractRanges: what is left of each range, piece by piece.                *)
Subtract(a, b) == {p \in Pieces(a, b) : p[1] < p[2]}

-----------------------------------------------------------------------------
(* Calibration. *)

Read(m, h) == h \in m.tags \ m.holes

(* PoolBackScanDelta: the nearest header before a body.                       *)
Behind(m, body) == {h \in VA : Read(m, h) /\ h < body /\ h + Window >= body}
Header(m, body) == Greatest(Behind(m, body))
Calibrated(m) == {b \in m.known : Behind(m, b) # {}}
Accounted(m) == {Header(m, b) : b \in Calibrated(m)}
Deltas(m) == {b - Header(m, b) : b \in Calibrated(m)}
Uses(m, d) == Cardinality({b \in Calibrated(m) : b - Header(m, b) = d})

(* The deltas are tried by use; ties, which the code leaves to the order of a *)
(* Go map, by size.                                                           *)
Before(m, d, e) == Uses(m, d) > Uses(m, e) \/ (Uses(m, d) = Uses(m, e) /\ d <= e)

(* A sweep of what memory m holds; without a calibrated header it is skipped. *)
StartSweep(m) ==
    /\ pass = "off"
    /\ memory' = m
    /\ core' = PlanPoolSweep(Accounted(m), CoreMargin, CoreGap)
    /\ wide' = PlanPoolSweep(Accounted(m), WideMargin, WideGap)
    /\ ranges' = core'.ranges
    /\ pass' = IF Accounted(m) = {} THEN "done" ELSE "core"
    /\ UNCHANGED <<late, partial, hits, only, defect>>

-----------------------------------------------------------------------------
(* sweepPoolTag, one read after the other. *)

(* Mutant of Advance: the reads do not overlap, and a range whose rest is one   *)
(* header long is left.                                                        *)
AdvanceApart(r, n) == IF n <= 1 \/ r[1] + n + 1 >= r[2] THEN {} ELSE {<<r[1] + n + 1, r[2]>>}

(* The next read starts at the last header of this one.                       *)
Advance(r, n) == IF n <= 1 THEN {} ELSE {<<r[1] + n - 1, r[2]>>}

(* Mutant of Found: the header seen by two reads is kept twice.                *)
FoundTwice(seen, from, n) ==
    LET found[k \in 0 .. n] ==
          IF k = 0 THEN seen
          ELSE IF Read(memory, from + k - 1) THEN Append(found[k - 1], from + k - 1)
          ELSE found[k - 1]
    IN found[n]

(* The tags of one read, holes read as zeros; the one the overlap shows twice *)
(* is dropped.                                                                *)
Found(seen, from, n) ==
    LET New(got, h) == Read(memory, h) /\ (got # <<>> => h # Last(got))
        found[k \in 0 .. n] ==
          IF k = 0 THEN seen
          ELSE IF New(found[k - 1], from + k - 1) THEN Append(found[k - 1], from + k - 1)
          ELSE found[k - 1]
    IN found[n]

Sweep ==
    /\ pass \in {"core", "outer"} /\ ranges # {} /\ ~late
    /\ LET r == First(ranges)
           n == Least({Unit, r[2] - r[1]})
       IN /\ hits' = [hits EXCEPT ![pass] = Found(hits[pass], r[1], n)]
          /\ ranges' = Advance(r, n) \cup (ranges \ {r})
    /\ UNCHANGED <<pass, memory, core, wide, late, partial, only, defect>>

(* The deadline passes.                                                       *)
Expire ==
    /\ Budgeted /\ ~late /\ pass \in {"core", "outer"}
    /\ late' = TRUE
    /\ UNCHANGED <<pass, memory, core, wide, ranges, partial, hits, only, defect>>

PassEnds ==
    /\ pass \in {"core", "outer"} /\ (ranges = {} \/ late)
    /\ partial' = (partial \/ ranges # {})
    /\ IF pass = "core" THEN pass' = "outer" /\ ranges' = Subtract(wide.ranges, core.ranges)
                        ELSE pass' = "classify" /\ ranges' = {}
    /\ UNCHANGED <<memory, core, wide, late, hits, only, defect>>

(* Mutant of Claim: what lies at a calibrated delta need not type as Process.   *)
ClaimUntyped(m, h) == {h + d : d \in Deltas(m)} \ m.known

(* A header that no enumerated process accounts for is an object at the first *)
(* delta that leads to a known body, which ends the search, or a typed one.   *)
Claim(m, h) ==
    LET ds == {d \in Deltas(m) : h + d \in m.known \cup m.typed}
        first == {d \in ds : \A e \in ds : Before(m, d, e)}
    IN {h + d : d \in first} \ m.known

AllHits == hits.core \o hits.outer

Classify ==
    /\ pass = "classify"
    /\ LET found == ToSet(AllHits)
           matched == Cardinality({i \in 1 .. Len(AllHits) : AllHits[i] \in Accounted(memory)})
       IN /\ only' = UNION {Claim(memory, h) : h \in found \ Accounted(memory)}
          /\ defect' = (matched < Cardinality(Accounted(memory)) /\ ~partial /\ ~core.cut)
    /\ pass' = "done"
    /\ UNCHANGED <<memory, core, wide, ranges, late, partial, hits>>

EndSweep ==
    /\ pass' = "off" /\ memory' = NoMemory
    /\ core' = NoPlan /\ wide' = NoPlan /\ ranges' = {}
    /\ late' = FALSE /\ partial' = FALSE
    /\ hits' = [core |-> <<>>, outer |-> <<>>] /\ only' = {} /\ defect' = FALSE

SweepNext == Sweep \/ Expire \/ PassEnds \/ Classify

-----------------------------------------------------------------------------
(* Correctness. *)

SweepTypeOK ==
    /\ pass \in {"off", "core", "outer", "classify", "done"}
    /\ memory \in Memory
    /\ {late, partial, defect} \subseteq BOOLEAN
    /\ ToSet(AllHits) \subseteq VA /\ only \subseteq VA
    /\ \A r \in ranges : r[1] < r[2]

(* "ranges cover every input address whenever truncated is false ... sorted,   *)
(* disjoint" (poolscan.go:96), "stays under totalCap"; the outer pass is what  *)
(* the discovery plan has and the core plan has not (SubtractRanges).          *)
Disjoint(rs) == \A r, s \in rs : r = s \/ r[2] < s[1] \/ s[2] < r[1]

PlanSound ==
    pass = "done" =>
      /\ \A p \in {core, wide} :
           /\ Disjoint(p.ranges) /\ Bytes(p.ranges) <= Cap
           /\ ~p.cut => Accounted(memory) \subseteq Covered(p.ranges)
      /\ LET outer == Subtract(wide.ranges, core.ranges) IN
         /\ Covered(outer) = Covered(wide.ranges) \ Covered(core.ranges)
         /\ Disjoint(outer)

(* "never to a failed cross-check" (recover_vmm.go): a sweep that was neither   *)
(* stopped nor cut finds the header of every process it was calibrated from,   *)
(* so the coverage defect is never reported, and a sweep that ran out of time  *)
(* did so after the whole core if it has found anything beyond it.             *)
NoCoverageDefect ==
    /\ ~defect
    /\ hits.outer # <<>> =>
         {h \in Covered(core.ranges) : Read(memory, h)} \subseteq ToSet(hits.core)

(* "the overlap's duplicate hit is dropped" (recover_vmm.go:1094): over both    *)
(* passes and all overlapping reads a header is reported once.                 *)
OnceEach == \A i, j \in 1 .. Len(AllHits) : AllHits[i] = AllHits[j] => i = j

(* "any header that resolves to a valid Process object the enumeration missed" *)
(* (recover_vmm.go:967) and nothing else: of a sweep that was not stopped, the *)
(* pool-only objects are the typed ones that are not enumerated and have a     *)
(* readable header, at a calibrated delta, in the ranges, which does not serve *)
(* another body at a delta that is tried before.                               *)
Reachable(m, o, h) ==
    /\ Read(m, h) /\ h \in Covered(core.ranges) \cup Covered(wide.ranges)
    /\ h \notin Accounted(m)
    /\ o > h /\ o - h \in Deltas(m)
    /\ \A d \in Deltas(m) \ {o - h} : Before(m, d, o - h) => h + d \notin m.known \cup m.typed

PoolOnlyExact ==
    /\ only \subseteq memory.typed \ memory.known
    /\ pass = "done" /\ ~partial =>
         only = {o \in memory.typed \ memory.known : \E h \in VA : Reachable(memory, o, h)}

=============================================================================
