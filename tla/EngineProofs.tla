------------------------------ MODULE EngineProofs ------------------------------
(***************************************************************************)
(* Theorems about what the engine believes and keeps, for any images,      *)
(* processes, stores to start with and signature files: the head in use is *)
(* on the ring of processes, hidden means off that ring, the head and the  *)
(* debugger block agree, and nothing the store knows is replaced.          *)
(***************************************************************************)
EXTENDS Engine, FiniteSetTheorems, WellFoundedInduction, TLAPS

(* The sweep changes nothing of the recovery.                                  *)
LEMMA EngineStep == [EngineNext]_engineVars => [RecoveryNext]_vars
<1> SUFFICES ASSUME [EngineNext]_engineVars PROVE [RecoveryNext]_vars
  OBVIOUS
<1>1. CASE BeginSweep \/ DuringSweep
  BY <1>1 DEF BeginSweep, DuringSweep
<1>2. CASE Scanned
  BY <1>2 DEF Scanned, RecoveryNext
<1>3. CASE Elsewhere
  BY <1>3 DEF Elsewhere
<1>4. CASE UNCHANGED engineVars
  BY <1>4 DEF engineVars
<1> QED BY <1>1, <1>2, <1>3, <1>4 DEF EngineNext

-----------------------------------------------------------------------------
(* Types. *)

IType == RecoveryTypeOK /\ (img = None \/ img \in Images)

LEMMA ModuleNames ==
    /\ ListHead \in InModule /\ Stray \in InModule
    /\ None \notin InModule /\ Lost \notin InModule /\ Lost # None
BY RecoveryAssumption DEF InModule, Nodes

LEMMA LearnType ==
    ASSUME NEW e \in Entry, NEW i
    PROVE  Learn(e, i) \in Entry
<1>1. [f \in Offsets |-> IF f \in i.code /\ e.off[f] = "none" THEN "right" ELSE e.off[f]]
        \in [Offsets -> {"none", "right", "wrong"}]
  BY DEF Entry
<1>2. /\ (IF Known(e) THEN e.cookie ELSE "none") \in Places
      /\ (IF Known(e) THEN e.head ELSE None) \in InModule \cup {None, Lost}
      /\ (IF Known(e) THEN e.block ELSE "none") \in {"none", "right", "wrong"}
      /\ (Known(e) /\ e.keys) \in BOOLEAN
  BY DEF Entry, Places
<1> QED BY <1>1, <1>2 DEF Learn, Entry

(* Whatever a step writes into the entry leaves it one.                        *)
LEMMA EntryType ==
    ASSUME NEW e \in Entry
    PROVE  /\ [e EXCEPT !.off["Token"] = "right"] \in Entry
           /\ \A c \in Places : [e EXCEPT !.cookie = c] \in Entry
           /\ \A h \in InModule : [e EXCEPT !.head = h] \in Entry
           /\ \A b \in {"right", "wrong"} : [e EXCEPT !.block = b] \in Entry
           /\ \A b \in {"none", "right", "wrong"} : [e EXCEPT !.keys = TRUE, !.block = b] \in Entry
BY DEF Entry, Offsets, Accessors

Recs == [token : BOOLEAN, pid : BOOLEAN, exit : BOOLEAN, ct : BOOLEAN,
         links : BOOLEAN, proven : BOOLEAN, typing : BOOLEAN,
         head : InModule \cup {None}, kdbg : InModule \cup {None}]

LEMMA NothingType == Nothing \in Recs /\ \A b \in BOOLEAN : [Nothing EXCEPT !.ct = b] \in Recs
BY DEF Nothing, Recs

LEMMA InitType == Init => IType
<1> SUFFICES ASSUME Init PROVE IType
  OBVIOUS
<1>1. store \in Entry /\ sigs \subseteq InModule \cup {Lost} /\ MaxImages \in Nat
  BY RecoveryAssumption DEF Init
<1>2. entry \in Entry /\ pc \in PcStates /\ pc = "idle" /\ img = None
  BY <1>1 DEF Init, PcStates
<1>4. images \in 0 .. MaxImages
  BY <1>1 DEF Init
<1>5. dirty \in BOOLEAN /\ at \in Places
  BY DEF Init, Places
<1>6. linked \subseteq PIDs \cup {SysPID, Junk} /\ unlinked \subseteq Procs /\ hidden \subseteq PIDs
  BY DEF Init
<1>3. rec \in Recs
  BY NothingType DEF Init
<1> QED BY <1>1, <1>2, <1>3, <1>4, <1>5, <1>6 DEF IType, RecoveryTypeOK, Recs

LEMMA NextType == IType /\ [RecoveryNext]_vars => IType'
<1> SUFFICES ASSUME IType, [RecoveryNext]_vars PROVE IType'
  OBVIOUS
<1> DEFINE
      Stored == store \in Entry /\ entry \in Entry /\ sigs \subseteq InModule \cup {Lost}
      Where == /\ pc \in PcStates /\ images \in 0 .. MaxImages
               /\ img = None \/ img \in Images
               /\ img = None <=> pc = "idle"
               /\ dirty \in BOOLEAN /\ at \in Places
      Said == linked \subseteq PIDs \cup {SysPID, Junk} /\ unlinked \subseteq Procs /\ hidden \subseteq PIDs
<1>0. Stored /\ Where /\ rec \in Recs /\ Said
  BY DEF IType, RecoveryTypeOK, Recs
<1>0a. Stored' /\ Where' /\ rec' \in Recs /\ Said' => IType'
  BY DEF IType, RecoveryTypeOK, Recs
<1> USE DEF PcStates, Goto, Recovered, stores, session, verdicts
<1>1. CASE Open
  <2>1. PICK i \in Images :
          /\ img' = i /\ entry' = Learn(store, i)
          /\ Goto(IF i.named /\ Known(entry') THEN "token" ELSE "list")
          /\ Recovered([Nothing EXCEPT !.ct = i.pdb])
    BY <1>1 DEF Open
  <2>2. i.pdb \in BOOLEAN /\ i # None
    BY RecoveryAssumption DEF Image
  <2>3. images' \in 0 .. MaxImages
    BY <1>0, <1>1, RecoveryAssumption DEF Open
  <2> QED BY <1>0, <1>0a, <1>1, <2>1, <2>2, <2>3, LearnType, NothingType DEF Open, Places
<1>2. CASE Token
  <2>1. entry' \in Entry /\ rec' \in Recs /\ dirty' \in BOOLEAN
    <3>1. [rec EXCEPT !.token = TRUE] \in Recs
      BY <1>0 DEF Recs
    <3>2. [entry EXCEPT !.off["Token"] = "right"] \in Entry
      BY <1>0, EntryType
    <3> QED BY <1>0, <1>2, <3>1, <3>2 DEF Token
  <2> QED BY <1>0, <1>0a, <1>2, <2>1 DEF Token
<1>3. CASE Gates
  <2>1. rec' \in Recs
    <3>1. \A f : Passes(f) \in BOOLEAN
      BY DEF Passes
    <3>2. (Passes("PID") /\ Closure) \in BOOLEAN
      BY DEF Closure
    <3>3. rec' = [rec EXCEPT !.pid = Passes("PID"), !.exit = Passes("Exit"),
                             !.links = Passes("PID") /\ Closure]
      BY <1>3 DEF Gates
    <3> QED BY <1>0, <3>1, <3>2, <3>3 DEF Recs
  <2> QED BY <1>0, <1>0a, <1>3, <2>1 DEF Gates
<1>4. CASE Cookie
  <2>1. img.cookie \in Places
    BY <1>0, <1>4, RecoveryAssumption DEF Cookie, Image
  <2>2. at' \in Places /\ entry' \in Entry /\ dirty' \in BOOLEAN
    BY <1>0, <1>4, <2>1, EntryType DEF Cookie, Places
  <2> QED BY <1>0, <1>0a, <1>4, <2>2 DEF Cookie
<1>5. CASE Signatures
  <2>1. \/ \E h \in InModule, b \in BOOLEAN :
             /\ rec' = [rec EXCEPT !.proven = b, !.head = h]
             /\ entry' = [entry EXCEPT !.head = h] /\ dirty' = TRUE
        \/ \E b \in BOOLEAN :
             rec' = [rec EXCEPT !.proven = b] /\ UNCHANGED <<entry, dirty>>
    BY <1>5 DEF Signatures, Located
  <2>2. rec' \in Recs
    BY <1>0, <2>1 DEF Recs
  <2>3. entry' \in Entry /\ dirty' \in BOOLEAN
    BY <1>0, <2>1, EntryType
  <2> QED BY <1>0, <1>0a, <1>5, <2>2, <2>3 DEF Signatures
<1>6. CASE StoredHead
  <2>1. rec' \in Recs
    BY <1>0, <1>6 DEF StoredHead, Recs
  <2> QED BY <1>0, <1>0a, <1>6, <2>1 DEF StoredHead
<1>7. CASE AnchorHead
  <2>1. PICK h \in Anchors :
          /\ Recovered([rec EXCEPT !.head = h])
          /\ sigs' = sigs \cup {h} \/ UNCHANGED sigs
          /\ \/ entry' = [entry EXCEPT !.head = h] /\ dirty' = TRUE
             \/ UNCHANGED <<entry, dirty>>
    BY <1>7 DEF AnchorHead
  <2>2. h \in InModule
    BY DEF Anchors
  <2>3. rec' \in Recs
    BY <1>0, <2>1, <2>2 DEF Recs
  <2> QED BY <1>0, <1>0a, <1>7, <2>1, <2>2, <2>3, EntryType DEF AnchorHead
<1>8. CASE NoHead
  BY <1>0, <1>0a, <1>8 DEF NoHead
<1>9. CASE KdbgPlain
  <2>1. \A b : Names(b) \in InModule
    BY ModuleNames DEF Names
  <2>2. PlainBlocks \subseteq {"right", "wrong"}
    BY DEF PlainBlocks
  <2>4. \E b : rec' = [rec EXCEPT !.kdbg = Names(b)]
    BY <1>9 DEF KdbgPlain
  <2>5. \/ UNCHANGED <<entry, dirty>>
        \/ \E b \in PlainBlocks : entry' = [entry EXCEPT !.block = b] /\ dirty' = TRUE
    BY <1>9 DEF KdbgPlain
  <2>6. rec' \in Recs
    BY <1>0, <2>1, <2>4 DEF Recs
  <2>3. rec' \in Recs /\ entry' \in Entry /\ dirty' \in BOOLEAN
    BY <1>0, <2>2, <2>5, <2>6, EntryType
  <2> QED BY <1>0, <1>0a, <1>9, <2>3 DEF KdbgPlain
<1>10. CASE KdbgEncoded
  <2>1. rec' \in Recs
    BY <1>0, <1>10, ModuleNames DEF KdbgEncoded, Recs
  <2>2. (IF entry.block = "none" THEN "right" ELSE entry.block) \in {"none", "right", "wrong"}
    BY <1>0 DEF Entry
  <2>3. entry' \in Entry /\ dirty' \in BOOLEAN
    BY <1>0, <1>10, <2>2, EntryType DEF KdbgEncoded
  <2> QED BY <1>0, <1>0a, <1>10, <2>1, <2>3 DEF KdbgEncoded
<1>11. CASE NoKdbg
  BY <1>0, <1>0a, <1>11 DEF NoKdbg
<1>12. CASE Save
  BY <1>0, <1>0a, <1>12 DEF Save
<1>13. CASE Typing
  <2>1. rec' \in Recs
    BY <1>0, <1>13 DEF Typing, Recs, Passes
  <2> QED BY <1>0, <1>0a, <1>13, <2>1 DEF Typing
<1>14. CASE List
  <2>1. img.pid \in [Procs -> PIDs]
    BY <1>0, <1>14, RecoveryAssumption DEF List, Image
  <2>2. \A n : PidAt(n) \in PIDs \cup {SysPID, Junk}
    BY <2>1 DEF PidAt
  <2>3. linked' \subseteq PIDs \cup {SysPID, Junk}
    BY <1>14, <2>2 DEF List, RingPIDs
  <2>4. unlinked' \subseteq Procs
    BY <1>14 DEF List
  <2> QED BY <1>0, <1>0a, <1>14, <2>3, <2>4 DEF List
<1>15. CASE Scan
  BY <1>0, <1>0a, <1>15 DEF Scan
<1>16. CASE Active
  <2>1. img.pid \in [Procs -> PIDs]
    BY <1>0, <1>16, RecoveryAssumption DEF Active, Image
  <2>2. hidden' \subseteq Threaded
    BY <1>16 DEF Active
  <2>3. Threaded \subseteq PIDs
    BY <2>1 DEF Threaded
  <2> QED BY <1>0, <1>0a, <1>16, <2>2, <2>3 DEF Active
<1>17. CASE Close
  BY <1>0, <1>0a, <1>17, NothingType DEF Close, Blank, Places
<1>18. CASE UNCHANGED vars
  BY <1>0, <1>0a, <1>18 DEF vars
<1> QED
  BY <1>1, <1>2, <1>3, <1>4, <1>5, <1>6, <1>7, <1>8, <1>9, <1>10, <1>11, <1>12, <1>13, <1>14,
     <1>15, <1>16, <1>17, <1>18 DEF RecoveryNext

-----------------------------------------------------------------------------
(* The walk along the list.                                                    *)

(* Every non-empty set of numbers has a least one: what inductions rest on.    *)
LEMMA LeastOne == ASSUME NEW T \in SUBSET Nat, T # {} PROVE \E m \in T : \A k \in T : m <= k
<1> DEFINE R == OpToRel(<, Nat)
<1>1. R = {ss \in Nat \X Nat : ss[1] < ss[2]}
  BY DEF OpToRel
<1>2. IsWellFoundedOn(R, Nat)
  BY NatLessThanWellFounded
<1> HIDE DEF R
<1>3. PICK m \in T : \A k \in T : <<k, m>> \notin R
  BY <1>2, WFMin
<1>4. \A k \in T : ~(k < m)
  BY <1>1, <1>3
<1> QED BY <1>4

(* One step of walkRing, and the walk of n steps as a function of the steps.   *)
Onset(start) == [at |-> start, seen |-> {}, closed |-> FALSE]
Onward(start, v) ==
    IF v.closed \/ v.at = Lost THEN v
    ELSE [at |-> img.next[v.at], seen |-> v.seen \cup {v.at}, closed |-> img.next[v.at] = start]
Trace(start, n, w) ==
    w = [i \in 0 .. n |-> IF i = 0 THEN Onset(start) ELSE Onward(start, w[i - 1])]

(* The recursive definition of the walk defines one: there is such a function.  *)
LEMMA TraceExists == ASSUME NEW start PROVE \A n \in 0 .. MaxRing : \E w : Trace(start, n, w)
<1> DEFINE T == {n \in 0 .. MaxRing : ~\E w : Trace(start, n, w)}
<1> SUFFICES ASSUME T # {} PROVE FALSE
  OBVIOUS
<1>1. T \in SUBSET Nat
  BY RecoveryAssumption
<1>2. PICK m \in T : \A k \in T : m <= k
  BY <1>1, LeastOne
<1>3. m \in 0 .. MaxRing /\ m \in Nat /\ ~\E w : Trace(start, m, w)
  BY <1>1, <1>2
<1>4. CASE m = 0
  <2> DEFINE w == [i \in 0 .. 0 |-> Onset(start)]
  <2>1. Trace(start, 0, w)
    BY DEF Trace
  <2> QED BY <1>3, <1>4, <2>1
<1>5. CASE m # 0
  <2>1. m - 1 \in 0 .. MaxRing /\ m - 1 \notin T
    BY <1>2, <1>3, <1>5, RecoveryAssumption
  <2>2. PICK g : Trace(start, m - 1, g)
    BY <2>1
  <2> DEFINE w == [i \in 0 .. m |-> IF i = m THEN Onward(start, g[m - 1]) ELSE g[i]]
  <2>3. ASSUME NEW i \in 0 .. m
        PROVE  w[i] = IF i = 0 THEN Onset(start) ELSE Onward(start, w[i - 1])
    <3>1. CASE i = m
      <4>1. w[i] = Onward(start, g[m - 1]) /\ w[m - 1] = g[m - 1]
        BY <1>3, <1>5, <3>1
      <4> QED BY <1>5, <3>1, <4>1
    <3>2. CASE i # m
      <4>1. i \in 0 .. m - 1 /\ w[i] = g[i]
        BY <1>3, <3>2
      <4>2. i # 0 => i - 1 \in 0 .. m /\ i - 1 # m /\ w[i - 1] = g[i - 1]
        BY <1>3, <4>1
      <4>3. g[i] = IF i = 0 THEN Onset(start) ELSE Onward(start, g[i - 1])
        BY <2>2, <4>1 DEF Trace
      <4> QED BY <4>1, <4>2, <4>3
    <3> QED BY <3>1, <3>2
  <2>4. w = [i \in 0 .. m |-> w[i]]
    OBVIOUS
  <2> HIDE DEF w
  <2>5. w = [i \in 0 .. m |-> IF i = 0 THEN Onset(start) ELSE Onward(start, w[i - 1])]
    BY <2>3, <2>4
  <2>6. Trace(start, m, w)
    BY <2>5 DEF Trace
  <2> QED BY <1>3, <2>6
<1> QED BY <1>4, <1>5

(* What walkRing returns is the last state of its trace.                       *)
LEMMA WalkedTrace ==
    ASSUME NEW start PROVE \E w : Trace(start, MaxRing, w) /\ Walked(start) = w[MaxRing]
<1> DEFINE w[i \in 0 .. MaxRing] ==
             IF i = 0 THEN [at |-> start, seen |-> {}, closed |-> FALSE]
             ELSE LET v == w[i - 1] IN
                  IF v.closed \/ v.at = Lost THEN v
                  ELSE [at |-> img.next[v.at], seen |-> v.seen \cup {v.at},
                        closed |-> img.next[v.at] = start]
<1>1. \E f : Trace(start, MaxRing, f)
  BY TraceExists, RecoveryAssumption
<1>2. Walked(start) = w[MaxRing]
  BY DEF Walked, w
<1>3. w = [i \in 0 .. MaxRing |->
             IF i = 0 THEN [at |-> start, seen |-> {}, closed |-> FALSE]
             ELSE LET v == w[i - 1] IN
                  IF v.closed \/ v.at = Lost THEN v
                  ELSE [at |-> img.next[v.at], seen |-> v.seen \cup {v.at},
                        closed |-> img.next[v.at] = start]]
  BY <1>1 DEF w, Trace, Onset, Onward
<1> HIDE DEF w
<1>4. Trace(start, MaxRing, w)
  BY <1>3 DEF Trace, Onset, Onward
<1> QED BY <1>2, <1>4

HasList == img.next \in [Nodes -> Nodes \cup {Lost}]

(* What holds of a walk after i steps, as long as it runs and once it closed:   *)
(* it collects what Flink leads to from its start, and nothing else.           *)
Typed3(v) == v.at \in Nodes \cup {Lost} /\ v.seen \subseteq Nodes /\ v.closed \in BOOLEAN
Bounded(i, v) == IsFiniteSet(v.seen) /\ Cardinality(v.seen) <= i
Linked(start, v) ==
    /\ IF v.closed THEN v.at = start /\ \E z \in v.seen : img.next[z] = start
                   ELSE \A z \in v.seen : img.next[z] # start
    /\ IF v.seen = {} THEN v.at = start ELSE start \in v.seen
    /\ \A y \in v.seen : img.next[y] \in v.seen \cup {v.at}
    /\ \A y \in (v.seen \cup {v.at}) \ {start} : \E z \in v.seen : img.next[z] = y
Minimal(start, v) ==
    \A d \in SUBSET Nodes : (\A y \in d \cap v.seen : img.next[y] \in d) =>
      /\ start \in d => v.seen \subseteq d /\ v.at \in d
      /\ d \cap v.seen # {} => v.at \in d
Within(start, i, v) ==
    \A c \in SUBSET Nodes : IsRing(c) /\ start \in c =>
      v.seen \subseteq c /\ v.at \in c /\ (~v.closed => Cardinality(v.seen) = i)

Sound(start, i, v) ==
    Typed3(v) /\ Bounded(i, v) /\ Linked(start, v) /\ Minimal(start, v) /\ Within(start, i, v)

LEMMA OnsetSound == ASSUME NEW start \in Nodes PROVE Sound(start, 0, Onset(start))
<1> DEFINE v == Onset(start)
<1>1. v.at = start /\ v.seen = {} /\ v.closed = FALSE
  BY DEF Onset
<1> HIDE DEF v
<1>2. IsFiniteSet({}) /\ Cardinality({}) = 0
  BY FS_EmptySet
<1>3. Typed3(v)
  BY <1>1 DEF Typed3
<1>7. Bounded(0, v)
  <2>1. IsFiniteSet(v.seen) /\ Cardinality(v.seen) = 0
    BY <1>1, <1>2
  <2> QED BY <2>1 DEF Bounded
<1>5. Linked(start, v)
  BY <1>1 DEF Linked
<1>6. Minimal(start, v)
  BY <1>1 DEF Minimal
<1>4. Within(start, 0, v)
  BY <1>1, <1>2 DEF Within
<1> QED BY <1>3, <1>4, <1>5, <1>6, <1>7 DEF Sound, v

(* A walk that runs has met no entry twice and has not come round. *)
LEMMA RunsOnRing ==
    ASSUME NEW start \in Nodes, NEW i \in Nat, NEW v, Sound(start, i, v), ~v.closed,
           NEW c \in SUBSET Nodes, IsRing(c), start \in c
    PROVE  v.seen # c /\ v.at \notin v.seen
<1> USE DEF Sound, Linked
<1>1. v.seen # c
  <2>1. PICK z \in c : img.next[z] = start
    BY DEF IsRing
  <2> QED BY <2>1
<1>2. ASSUME v.at \in v.seen PROVE FALSE
  <2>1. v.seen \subseteq c /\ v.seen # {}
    BY <1>2 DEF Within
  <2>2. \A y \in v.seen : img.next[y] \in v.seen
    BY <1>2
  <2>3. {img.next[n] : n \in v.seen} \subseteq v.seen
    BY <2>2
  <2> QED BY <1>1, <2>1, <2>3 DEF IsRing
<1> QED BY <1>1, <1>2

LEMMA OnwardSound ==
    ASSUME HasList, NEW start \in Nodes, NEW i \in Nat, NEW v, Sound(start, i, v)
    PROVE  Sound(start, i + 1, Onward(start, v))
<1> DEFINE w == Onward(start, v)
<1>1. CASE v.closed \/ v.at = Lost
  <2>1. w = v
    BY <1>1 DEF Onward
  <2>2. Bounded(i + 1, v)
    BY FS_CardinalityType DEF Sound, Bounded
  <2>3. Within(start, i + 1, v)
    <3>1. Lost \notin Nodes
      BY RecoveryAssumption
    <3> QED BY <1>1, <3>1 DEF Sound, Within
  <2> QED BY <2>1, <2>2, <2>3 DEF Sound
<1>2. CASE ~v.closed /\ v.at # Lost
  <2>1. /\ w.at = img.next[v.at] /\ w.seen = v.seen \cup {v.at}
        /\ w.closed = (img.next[v.at] = start)
    BY <1>2 DEF Onward
  <2>2. v.at \in Nodes /\ v.seen \subseteq Nodes /\ img.next[v.at] \in Nodes \cup {Lost}
    BY <1>2 DEF Sound, Typed3, HasList
  <2> HIDE DEF w
  <2>3. Typed3(w)
    BY <2>1, <2>2 DEF Typed3
  <2>4. Bounded(i + 1, w)
    BY <2>1, FS_AddElement, FS_CardinalityType DEF Sound, Bounded
  <2>5. Linked(start, w)
    <3>1. start \in w.seen
      BY <2>1 DEF Sound, Linked
    <3>2. IF w.closed THEN w.at = start /\ \E z \in w.seen : img.next[z] = start
                      ELSE \A z \in w.seen : img.next[z] # start
      BY <1>2, <2>1 DEF Sound, Linked
    <3>3. \A y \in w.seen : img.next[y] \in w.seen \cup {w.at}
      BY <2>1 DEF Sound, Linked
    <3>4. \A y \in (w.seen \cup {w.at}) \ {start} : \E z \in w.seen : img.next[z] = y
      BY <2>1 DEF Sound, Linked
    <3> QED BY <3>1, <3>2, <3>3, <3>4 DEF Linked
  <2>6. Minimal(start, w)
    BY <2>1 DEF Sound, Minimal
  <2>7. ASSUME NEW c \in SUBSET Nodes, IsRing(c), start \in c
        PROVE  w.seen \subseteq c /\ w.at \in c /\ (~w.closed => Cardinality(w.seen) = i + 1)
    <3>1. v.seen \subseteq c /\ v.at \in c /\ Cardinality(v.seen) = i /\ IsFiniteSet(v.seen)
      BY <1>2, <2>7 DEF Sound, Within, Bounded
    <3>2. v.at \notin v.seen
      BY <1>2, <2>7, RunsOnRing
    <3>3. Cardinality(w.seen) = i + 1
      <4>1. Cardinality(v.seen \cup {v.at}) = Cardinality(v.seen) + 1
        BY <3>1, <3>2, FS_AddElement
      <4> QED BY <2>1, <3>1, <4>1
    <3>4. img.next[v.at] \in c
      BY <2>7, <3>1 DEF IsRing
    <3> QED BY <2>1, <3>1, <3>3, <3>4
  <2> QED BY <2>3, <2>4, <2>5, <2>6, <2>7 DEF Sound, Within, w
<1> QED BY <1>1, <1>2

(* Hence of what walkRing returns. *)
LEMMA WalkedSound ==
    ASSUME HasList, NEW start \in Nodes PROVE Sound(start, MaxRing, Walked(start))
<1>1. PICK w : Trace(start, MaxRing, w) /\ Walked(start) = w[MaxRing]
  BY WalkedTrace
<1> DEFINE T == {i \in 0 .. MaxRing : ~Sound(start, i, w[i])}
<1>2. T = {}
  <2> SUFFICES ASSUME T # {} PROVE FALSE
    OBVIOUS
  <2>1. T \in SUBSET Nat
    BY RecoveryAssumption
  <2>2. PICK m \in T : \A k \in T : m <= k
    BY <2>1, LeastOne
  <2>3. m \in 0 .. MaxRing /\ m \in Nat /\ ~Sound(start, m, w[m])
    BY <2>1, <2>2
  <2>4. CASE m = 0
    BY <1>1, <2>3, <2>4, OnsetSound DEF Trace
  <2>5. CASE m # 0
    <3>1. m - 1 \in 0 .. MaxRing /\ m - 1 \in Nat /\ m - 1 \notin T /\ m - 1 + 1 = m
      BY <2>2, <2>3, <2>5, RecoveryAssumption
    <3>2. Sound(start, m - 1, w[m - 1])
      BY <3>1
    <3>3. w[m] = Onward(start, w[m - 1])
      BY <1>1, <2>3, <2>5 DEF Trace
    <3>4. Sound(start, m - 1 + 1, w[m])
      BY <3>1, <3>2, <3>3, OnwardSound
    <3> QED BY <2>3, <3>1, <3>4
  <2> QED BY <2>4, <2>5
<1>3. MaxRing \in 0 .. MaxRing
  BY RecoveryAssumption
<1> QED BY <1>1, <1>2, <1>3

(* A walk that closes has gone round a ring of its start.                      *)
LEMMA ClosedWalk ==
    ASSUME HasList, NEW start \in Nodes, Walk(start) # {}
    PROVE  /\ start \in Walk(start) /\ Walk(start) \subseteq Nodes /\ IsRing(Walk(start))
           /\ IsFiniteSet(Walk(start)) /\ Cardinality(Walk(start)) <= MaxRing
<1> DEFINE v == Walked(start)
<1>1. Sound(start, MaxRing, v)
  BY WalkedSound
<1>2. v.closed /\ Walk(start) = v.seen
  BY DEF Walk
<1> HIDE DEF v
<1> USE DEF Sound, Linked
<1>3. start \in v.seen /\ v.seen \subseteq Nodes /\ v.at = start
  BY <1>1, <1>2 DEF Typed3
<1>4. \A n \in v.seen : img.next[n] \in v.seen
  BY <1>1, <1>3
<1>5. {img.next[n] : n \in v.seen} = v.seen
  <2>1. \A y \in v.seen : \E z \in v.seen : img.next[z] = y
    BY <1>1, <1>2
  <2> QED BY <1>4, <2>1
<1>6. ASSUME NEW d \in SUBSET v.seen, d # {}, {img.next[n] : n \in d} \subseteq d PROVE d = v.seen
  <2>1. \A y \in d \cap v.seen : img.next[y] \in d
    BY <1>6
  <2>2. d \in SUBSET Nodes
    BY <1>3
  <2>3. start \in d
    BY <1>1, <1>3, <1>6, <2>1, <2>2 DEF Minimal
  <2>4. v.seen \subseteq d
    BY <1>1, <2>1, <2>2, <2>3 DEF Minimal
  <2> QED BY <2>4
<1>7. IsRing(v.seen)
  BY <1>4, <1>5, <1>6 DEF IsRing
<1> QED BY <1>1, <1>2, <1>3, <1>7 DEF Bounded

(* An image has finitely many entries. *)
LEMMA NodesFinite == IsFiniteSet(Nodes)
<1>1. IsFiniteSet(Procs \cup {Sys})
  BY RecoveryAssumption, FS_AddElement
<1>2. IsFiniteSet((Procs \cup {Sys}) \cup {ListHead})
  BY <1>1, FS_AddElement
<1>3. IsFiniteSet(((Procs \cup {Sys}) \cup {ListHead}) \cup {Stray})
  BY <1>2, FS_AddElement
<1>4. Nodes = ((Procs \cup {Sys}) \cup {ListHead}) \cup {Stray}
  BY DEF Nodes
<1> QED BY <1>3, <1>4

(* A ring that is not too long is found from each of its entries. *)
LEMMA WalkFindsRing ==
    ASSUME HasList, NEW c \in SUBSET Nodes, IsRing(c), NEW start \in c, Cardinality(c) <= MaxRing
    PROVE  Walk(start) = c
<1> DEFINE v == Walked(start)
<1>1. Sound(start, MaxRing, v) /\ start \in Nodes
  BY WalkedSound
<1>2. IsFiniteSet(c) /\ Cardinality(c) \in Nat
  BY NodesFinite, FS_Subset, FS_CardinalityType
<1> HIDE DEF v
<1>3. v.seen \subseteq c /\ (~v.closed => Cardinality(v.seen) = MaxRing)
  BY <1>1 DEF Sound, Within
<1>4. v.closed
  <2> SUFFICES ASSUME ~v.closed PROVE FALSE
    OBVIOUS
  <2>1. Cardinality(v.seen) <= Cardinality(c) /\ (Cardinality(c) = Cardinality(v.seen) => c = v.seen)
    BY <1>2, <1>3, FS_Subset
  <2>2. v.seen = c
    BY <1>2, <1>3, <2>1, RecoveryAssumption
  <2> QED BY <1>1, <2>2, RunsOnRing, RecoveryAssumption
<1>5. v.seen # {} /\ {img.next[n] : n \in v.seen} \subseteq v.seen
  BY <1>1, <1>4 DEF Sound, Linked
<1>6. v.seen = c
  BY <1>3, <1>5 DEF IsRing
<1> QED BY <1>4, <1>6 DEF Walk, v

(* The ring of an image, if it has one, is the walk from System and from each of its entries. *)
LEMMA TheRing ==
    ASSUME HasList
    PROVE  /\ \A c \in Ring : /\ Sys \in c /\ c \subseteq Nodes /\ IsFiniteSet(c)
                             /\ \A n \in c : Walk(n) = c
           /\ \A n \in Nodes : Sys \in Walk(n) => Walk(n) \in Ring
<1>1. Sys \in Nodes
  BY DEF Nodes
<1>2. ASSUME NEW c \in Ring
      PROVE  Sys \in c /\ c \subseteq Nodes /\ IsFiniteSet(c) /\ \A n \in c : Walk(n) = c
  <2>1. Sys \in c /\ c \in SUBSET Nodes /\ Cardinality(c) <= MaxRing /\ IsRing(c)
    BY <1>1 DEF Ring
  <2>2. IsFiniteSet(c)
    BY <2>1, NodesFinite, FS_Subset
  <2> QED BY <2>1, <2>2, WalkFindsRing
<1>3. ASSUME NEW n \in Nodes, Sys \in Walk(n) PROVE Walk(n) \in Ring
  <2>1. /\ Walk(n) \subseteq Nodes /\ IsRing(Walk(n)) /\ Cardinality(Walk(n)) <= MaxRing
    BY <1>3, ClosedWalk
  <2>2. Walk(n) = (Walk(n) \ {Sys}) \cup {Sys} /\ Walk(n) \ {Sys} \in SUBSET (Nodes \ {Sys})
    BY <1>3, <2>1
  <2> QED BY <2>1, <2>2 DEF Ring
<1> QED BY <1>2, <1>3

-----------------------------------------------------------------------------
(* The head, and what is hidden.                                               *)

(* System is no other process and does not lie in the module.                  *)
LEMMA SysApart == Sys \notin Procs \cup InModule
<1> DEFINE a == Procs \cup {Sys}
           b == a \cup {ListHead}
<1>1. IsFiniteSet(Procs) /\ Cardinality(Procs) \in Nat
  BY RecoveryAssumption, FS_CardinalityType
<1>2. /\ IsFiniteSet(a) /\ Cardinality(a) \in Nat
      /\ Cardinality(a) = IF Sys \in Procs THEN Cardinality(Procs) ELSE Cardinality(Procs) + 1
  BY <1>1, FS_AddElement, FS_CardinalityType
<1> HIDE DEF a
<1>3. /\ IsFiniteSet(b) /\ Cardinality(b) \in Nat
      /\ Cardinality(b) = IF ListHead \in a THEN Cardinality(a) ELSE Cardinality(a) + 1
  BY <1>2, FS_AddElement, FS_CardinalityType
<1> HIDE DEF b
<1>4. Cardinality(b \cup {Stray}) = IF Stray \in b THEN Cardinality(b) ELSE Cardinality(b) + 1
  BY <1>3, FS_AddElement
<1>5. Nodes = b \cup {Stray}
  BY DEF Nodes, a, b
<1>6. Cardinality(Nodes) = Cardinality(Procs) + 3
  BY RecoveryAssumption
<1>7. Cardinality(b \cup {Stray}) = Cardinality(Procs) + 3
  BY <1>5, <1>6
<1>8. Sys \notin Procs /\ ListHead \notin a /\ Stray \notin b
  BY <1>1, <1>2, <1>3, <1>4, <1>7
<1> QED BY <1>8 DEF InModule, a, b

(* The list of the image being analysed. *)
LEMMA AnalysedList == ASSUME IType, pc # "idle" PROVE HasList /\ img \in Image
BY RecoveryAssumption DEF IType, RecoveryTypeOK, HasList, Image

(* A head that passes its gate, or is System's only neighbour in the module, is on the ring. *)
LEMMA GatedHead ==
    ASSUME IType, pc # "idle", NEW h \in InModule, HeadGate(h) \/ h \in Anchors
    PROVE  \E c \in Ring : h \in c
<1>1. HasList /\ h \in Nodes /\ Sys \in Nodes
  BY AnalysedList DEF Nodes, InModule
<1>2. CASE HeadGate(h)
  <2>1. Sys \in Walk(h)
    BY <1>2 DEF HeadGate
  <2>2. Walk(h) \in Ring /\ h \in Walk(h)
    BY <1>1, <2>1, TheRing, ClosedWalk
  <2> QED BY <2>2
<1>3. CASE h \in Anchors
  <2>1. h \in Walk(Sys)
    BY <1>3 DEF Anchors
  <2>2. Walk(Sys) \in Ring
    BY <1>1, <2>1, TheRing, ClosedWalk
  <2> QED BY <2>1, <2>2
<1> QED BY <1>2, <1>3

LEMMA NextHead == IType /\ HeadOnRing /\ [RecoveryNext]_vars => HeadOnRing'
<1> SUFFICES ASSUME IType, HeadOnRing, [RecoveryNext]_vars PROVE HeadOnRing'
  OBVIOUS
<1>0. rec \in Recs
  BY DEF IType, RecoveryTypeOK, Recs
<1> USE DEF Goto, Recovered, session, Recs
<1>1. img' = img => Ring' = Ring
  BY DEF Ring, IsRing
<1>2. ASSUME img' = img, rec'.head = rec.head PROVE HeadOnRing'
  BY <1>1, <1>2 DEF HeadOnRing
<1>3. ASSUME img' = img, NEW h \in InModule, rec'.head = h, pc # "idle",
             HeadGate(h) \/ h \in Anchors
      PROVE  HeadOnRing'
  BY <1>1, <1>3, GatedHead DEF HeadOnRing
<1>4. CASE Open \/ Close
  <2>1. rec'.head = None
    BY <1>4 DEF Open, Close, Blank, Nothing
  <2> QED BY <2>1 DEF HeadOnRing
<1>5. CASE Signatures
  <2>1. img' = img /\ pc # "idle"
    BY <1>5 DEF Signatures
  <2>2. CASE \E h \in Located : rec'.head = h
    BY <1>3, <2>1, <2>2 DEF Located
  <2>3. CASE rec'.head = rec.head
    BY <1>2, <2>1, <2>3
  <2> QED BY <1>0, <1>5, <2>2, <2>3 DEF Signatures
<1>6. CASE StoredHead
  <2>1. img' = img /\ pc # "idle" /\ entry.head \in InModule /\ rec.head = None
    BY <1>6 DEF StoredHead
  <2>2. rec'.head = IF HeadGate(entry.head) THEN entry.head ELSE None
    BY <1>0, <1>6 DEF StoredHead
  <2> QED BY <1>2, <1>3, <2>1, <2>2
<1>7. CASE AnchorHead
  <2>1. PICK h \in Anchors : rec' = [rec EXCEPT !.head = h]
    BY <1>7 DEF AnchorHead
  <2>2. img' = img /\ pc # "idle" /\ h \in InModule
    BY <1>7 DEF AnchorHead, Anchors
  <2>3. rec'.head = h
    BY <1>0, <2>1
  <2> QED BY <1>3, <2>1, <2>2, <2>3
<1>8. CASE Token \/ Gates \/ Cookie \/ NoHead \/ NoKdbg \/ Typing
  BY <1>0, <1>2, <1>8 DEF Token, Gates, Cookie, NoHead, NoKdbg, Typing
<1>9. CASE KdbgPlain \/ KdbgEncoded
  <2>1. \E k : rec' = [rec EXCEPT !.kdbg = k]
    BY <1>9 DEF KdbgPlain, KdbgEncoded
  <2>2. img' = img
    BY <1>9 DEF KdbgPlain, KdbgEncoded
  <2> QED BY <1>0, <1>2, <2>1, <2>2
<1>10. CASE Save \/ List \/ Scan \/ Active \/ UNCHANGED vars
  BY <1>2, <1>10 DEF Save, List, Scan, Active, vars
<1> QED
  BY <1>4, <1>5, <1>6, <1>7, <1>8, <1>9, <1>10 DEF RecoveryNext

(* What is consumed went through its gate; the list is read before its PIDs are used. *)
Gated ==
    /\ rec.exit => entry.off["Exit"] = "right"
    /\ rec.ct => img.pdb \/ entry.off["CreateTime"] = "right"
Contrast == pc \in {"scan", "active"} => linked = RingPIDs

LEMMA NextGated == IType /\ Gated /\ [RecoveryNext]_vars => Gated'
<1> SUFFICES ASSUME IType, Gated, [RecoveryNext]_vars PROVE Gated'
  OBVIOUS
<1>0. rec \in Recs /\ entry \in Entry
  BY DEF IType, RecoveryTypeOK, Recs
<1> USE DEF Goto, Recovered, session, Recs, Gated
<1>1. ASSUME img' = img, rec'.exit = rec.exit, rec'.ct = rec.ct,
             entry'.off["Exit"] = entry.off["Exit"],
             entry'.off["CreateTime"] = entry.off["CreateTime"]
      PROVE  Gated'
  BY <1>1
<1>2. CASE Open
  BY <1>2 DEF Open, Nothing
<1>3. CASE Close
  BY <1>3 DEF Close, Blank, Nothing
<1>4. CASE Token
  BY <1>0, <1>1, <1>4 DEF Token, Entry, Offsets, Accessors
<1>5. CASE Gates
  BY <1>0, <1>5 DEF Gates, Passes
<1>6. CASE Cookie
  BY <1>0, <1>1, <1>6 DEF Cookie, Entry
<1>7. CASE Signatures
  <2>1. /\ img' = img
        /\ \E b, h : rec' = [rec EXCEPT !.proven = b, !.head = h] \/ rec' = [rec EXCEPT !.proven = b]
        /\ UNCHANGED entry \/ \E h : entry' = [entry EXCEPT !.head = h]
    BY <1>7 DEF Signatures
  <2> QED BY <1>0, <1>1, <2>1 DEF Entry
<1>8. CASE AnchorHead
  <2>1. /\ img' = img
        /\ \E h : rec' = [rec EXCEPT !.head = h]
        /\ UNCHANGED entry \/ \E h : entry' = [entry EXCEPT !.head = h]
    BY <1>8 DEF AnchorHead
  <2> QED BY <1>0, <1>1, <2>1 DEF Entry
<1>9. CASE StoredHead \/ NoHead \/ NoKdbg
  BY <1>0, <1>1, <1>9 DEF StoredHead, NoHead, NoKdbg
<1>10. CASE KdbgPlain
  <2>1. /\ img' = img
        /\ \E k : rec' = [rec EXCEPT !.kdbg = k]
        /\ UNCHANGED entry \/ \E b : entry' = [entry EXCEPT !.block = b]
    BY <1>10 DEF KdbgPlain
  <2> QED BY <1>0, <1>1, <2>1 DEF Entry
<1>11. CASE KdbgEncoded
  <2>1. /\ img' = img
        /\ \E k : rec' = [rec EXCEPT !.kdbg = k]
        /\ \E b : entry' = [entry EXCEPT !.keys = TRUE, !.block = b]
    BY <1>11 DEF KdbgEncoded
  <2> QED BY <1>0, <1>1, <2>1 DEF Entry
<1>12. CASE Typing
  BY <1>0, <1>12 DEF Typing, Passes
<1>13. CASE Save \/ List \/ Scan \/ Active \/ UNCHANGED vars
  BY <1>1, <1>13 DEF Save, List, Scan, Active, vars
<1> QED
  BY <1>2, <1>3, <1>4, <1>5, <1>6, <1>7, <1>8, <1>9, <1>10, <1>11, <1>12, <1>13
     DEF RecoveryNext

LEMMA NextContrast == IType /\ Contrast /\ [RecoveryNext]_vars => Contrast'
<1> SUFFICES ASSUME IType, Contrast, [RecoveryNext]_vars PROVE Contrast'
  OBVIOUS
<1> USE DEF Goto, Contrast, session, verdicts
<1>1. ASSUME img' = img, rec' = rec PROVE RingPIDs' = RingPIDs
  <2>1. ASSUME NEW n PROVE Walk(n)' = Walk(n)
    <3>1. Walked(n)' = Walked(n)
      BY <1>1, ZenonT(60) DEF Walked
    <3>2. Walk(n) = IF Walked(n).closed THEN Walked(n).seen ELSE {}
      BY Zenon DEF Walk
    <3>3. Walk(n)' = IF Walked(n)'.closed THEN Walked(n)'.seen ELSE {}
      BY Zenon DEF Walk
    <3> QED BY <3>1, <3>2, <3>3
  <2>2. ASSUME NEW n PROVE PidAt(n)' = PidAt(n)
    BY <1>1 DEF PidAt
  <2> QED BY <1>1, <2>1, <2>2 DEF RingPIDs
<1>2. CASE List
  BY <1>1, <1>2 DEF List
<1>3. CASE Scan \/ UNCHANGED vars
  BY <1>1, <1>3 DEF Scan, vars
<1>4. CASE Open \/ Token \/ Gates \/ Cookie \/ Signatures \/ StoredHead \/ AnchorHead \/ NoHead
  BY <1>4 DEF Open, Token, Gates, Cookie, Signatures, StoredHead, AnchorHead, NoHead
<1>5. CASE KdbgPlain \/ KdbgEncoded \/ NoKdbg \/ Save \/ Typing \/ Active \/ Close
  BY <1>5 DEF KdbgPlain, KdbgEncoded, NoKdbg, Save, Typing, Active, Close
<1> QED BY <1>2, <1>3, <1>4, <1>5 DEF RecoveryNext

(* Wherever the walk starts, it reads the PIDs of the one ring, if there is one. *)
LEMMA RingRead ==
    ASSUME IType, pc # "idle", HeadOnRing
    PROVE  /\ Ring = {} => RingPIDs = {}
           /\ \A c \in Ring : /\ Ring = {c} /\ OnRing(c) # {} /\ Cardinality(OnRing(c)) \in Nat
                             /\ RingPIDs = IF rec.links /\ Cardinality(OnRing(c)) >= MinLinked
                                              THEN OnRing(c) ELSE {}
<1> DEFINE from == IF rec.head # None THEN rec.head ELSE Sys
<1>1. HasList /\ Sys \in Nodes /\ img.unread \subseteq Procs
  BY AnalysedList DEF Nodes, Image
<1>2. rec.head \in InModule \cup {None}
  BY DEF IType, RecoveryTypeOK
<1>3. ASSUME Ring = {} PROVE RingPIDs = {}
  <2>1. from = Sys
    BY <1>3 DEF HeadOnRing
  <2>2. Walk(Sys) = {}
    BY <1>1, <1>3, TheRing, ClosedWalk
  <2>3. {PidAt(n) : n \in Walk(from) \ (img.unread \cup {rec.head})} = {}
    BY <2>1, <2>2
  <2> QED BY <2>3 DEF RingPIDs
<1>4. ASSUME NEW c \in Ring
      PROVE  /\ Ring = {c} /\ OnRing(c) # {} /\ Cardinality(OnRing(c)) \in Nat
             /\ RingPIDs = IF rec.links /\ Cardinality(OnRing(c)) >= MinLinked
                              THEN OnRing(c) ELSE {}
  <2>1. Sys \in c /\ IsFiniteSet(c) /\ \A n \in c : Walk(n) = c
    BY <1>1, TheRing
  <2>2. \A e \in Ring : e = c
    BY <1>1, <2>1, TheRing
  <2>3. Walk(from) = c
    BY <2>1, <2>2 DEF HeadOnRing
  <2> DEFINE read == c \ (img.unread \cup {rec.head})
  <2>4. Sys \in read
    <3>1. Sys # None
      BY <1>1, RecoveryAssumption
    <3> QED BY <1>1, <1>2, <2>1, <3>1, SysApart
  <2>5. IsFiniteSet(read)
    BY <2>1, FS_Subset
  <2>6. OnRing(c) = {PidAt(n) : n \in read}
    BY DEF OnRing
  <2> HIDE DEF read
  <2>7. IsFiniteSet({PidAt(n) : n \in read})
    <3> DEFINE f == [n \in read |-> PidAt(n)]
    <3>1. f \in Surjection(read, {PidAt(n) : n \in read})
      BY DEF Surjection
    <3> QED BY <2>5, <3>1, FS_Surjection
  <2>8. Cardinality(OnRing(c)) \in Nat
    BY <2>6, <2>7, FS_CardinalityType
  <2>9. {PidAt(n) : n \in Walk(from) \ (img.unread \cup {rec.head})} = OnRing(c)
    BY <2>3 DEF OnRing
  <2>10. RingPIDs = IF rec.links /\ Cardinality(OnRing(c)) >= MinLinked THEN OnRing(c) ELSE {}
    BY <2>9 DEF RingPIDs
  <2>11. OnRing(c) # {}
    BY <2>4, <2>6
  <2> QED BY <2>2, <2>8, <2>10, <2>11
<1> QED BY <1>3, <1>4

(* ActivePIDs decides by the three views of the image, if it decides at all. *)
LEMMA ActiveExact ==
    ASSUME IType, HeadOnRing, Gated, Contrast, Active PROVE HiddenExactly'
<1> DEFINE Awake == {img.pid[p] : p \in {q \in Procs : Runs(q)}}
<1>1. pc = "active" /\ img' = img /\ rec' = rec /\ linked = RingPIDs
  BY DEF Active, Contrast, session
<1>2. MinLinked \in Nat
  BY RecoveryAssumption
<1>3. hidden' = IF linked = {} \/ ~rec.exit \/ ~rec.ct THEN {} ELSE Awake \ linked
  <2>1. PICK s \in Shown("Exit", "status"),
             t \in (IF img.pdb THEN {{p \in Procs : "time" \notin img.gone[p]}}
                               ELSE Shown("CreateTime", "time")) :
          hidden' = IF linked = {} \/ ~rec.exit \/ ~rec.ct THEN {}
                    ELSE {img.pid[p] : p \in s \cap t} \cap (Threaded \ linked)
    BY DEF Active
  <2>2. rec.exit => s = {p \in Procs : "status" \notin img.gone[p]}
    BY DEF Shown, Gated
  <2>3. rec.ct => t = {p \in Procs : "time" \notin img.gone[p]}
    BY DEF Shown, Gated
  <2>4. ASSUME rec.exit, rec.ct PROVE {img.pid[p] : p \in s \cap t} \cap Threaded = Awake
    <3>1. \A p \in Procs : Runs(p) <=> p \in s \cap t /\ img.pid[p] \in Threaded
      BY <2>2, <2>3, <2>4 DEF Runs
    <3>2. s \cap t \subseteq Procs
      BY <2>2, <2>4
    <3> HIDE DEF Threaded
    <3> QED BY <3>1, <3>2
  <2> QED BY <2>1, <2>4
<1>4. HiddenExactly' =
        (pc' = "done" =>
          hidden' = IF rec.links /\ rec.exit /\ rec.ct
                      THEN UNION {IF Cardinality(OnRing(c)) < MinLinked THEN {}
                                  ELSE Awake \ OnRing(c) : c \in Ring}
                      ELSE {})
  BY <1>1 DEF HiddenExactly, Runs, OnRing, Ring, IsRing, Threaded, PidAt
<1> HIDE DEF Awake
<1>5. CASE Ring = {}
  <2>1. linked = {}
    BY <1>1, <1>5, RingRead
  <2>2. UNION {IF Cardinality(OnRing(c)) < MinLinked THEN {} ELSE Awake \ OnRing(c) : c \in Ring} = {}
    BY <1>5
  <2> QED BY <1>3, <1>4, <2>1, <2>2
<1>6. ASSUME NEW c \in Ring PROVE HiddenExactly'
  <2>1. /\ Ring = {c} /\ OnRing(c) # {} /\ Cardinality(OnRing(c)) \in Nat
        /\ linked = IF rec.links /\ Cardinality(OnRing(c)) >= MinLinked THEN OnRing(c) ELSE {}
    BY <1>1, RingRead
  <2>2. UNION {IF Cardinality(OnRing(d)) < MinLinked THEN {} ELSE Awake \ OnRing(d) : d \in Ring}
          = IF Cardinality(OnRing(c)) < MinLinked THEN {} ELSE Awake \ OnRing(c)
    BY <2>1
  <2>3. Cardinality(OnRing(c)) >= MinLinked <=> ~(Cardinality(OnRing(c)) < MinLinked)
    BY <1>2, <2>1
  <2> QED BY <1>3, <1>4, <2>1, <2>2, <2>3
<1> QED BY <1>5, <1>6

LEMMA NextHidden ==
    IType /\ HeadOnRing /\ Gated /\ Contrast /\ HiddenExactly /\ [RecoveryNext]_vars => HiddenExactly'
<1> SUFFICES ASSUME IType, HeadOnRing, Gated, Contrast, HiddenExactly, [RecoveryNext]_vars
             PROVE  HiddenExactly'
  OBVIOUS
<1> USE DEF Goto
<1>1. CASE Active
  BY <1>1, ActiveExact
<1>2. CASE UNCHANGED vars
  <2>1. pc' = pc /\ img' = img /\ rec' = rec /\ hidden' = hidden
    BY <1>2 DEF vars
  <2>2. Ring' = Ring
    BY <2>1 DEF Ring, IsRing
  <2>3. {img.pid[p] : p \in {q \in Procs : Runs(q)}}' = {img.pid[p] : p \in {q \in Procs : Runs(q)}}
    BY <2>1 DEF Runs, Threaded
  <2>4. ASSUME NEW c PROVE OnRing(c)' = OnRing(c)
    BY <2>1 DEF OnRing, PidAt
  <2> QED BY <2>1, <2>2, <2>3, <2>4 DEF HiddenExactly
<1>3. CASE ~Active /\ RecoveryNext
  <2>1. pc' # "done"
    <3>1. CASE Open \/ Token \/ Gates \/ Cookie \/ Signatures \/ StoredHead \/ AnchorHead \/ NoHead
      BY <3>1 DEF Open, Token, Gates, Cookie, Signatures, StoredHead, AnchorHead, NoHead
    <3>2. CASE KdbgPlain \/ KdbgEncoded \/ NoKdbg \/ Save \/ Typing \/ List \/ Scan \/ Close
      BY <3>2 DEF KdbgPlain, KdbgEncoded, NoKdbg, Save, Typing, List, Scan, Close
    <3> QED BY <1>3, <3>1, <3>2 DEF RecoveryNext
  <2> QED BY <2>1 DEF HiddenExactly
<1> QED BY <1>1, <1>2, <1>3

-----------------------------------------------------------------------------
(* Agreement of the block and the head.                                        *)

AfterKdbg == {"save", "typing", "list", "scan", "active", "done"}

(* The block is looked for last, and the head is not touched any more.         *)
KInv == (rec.kdbg # None => pc \in AfterKdbg) /\ KdbgAgrees

LEMMA InitAgree == Init => KInv
BY DEF Init, KInv, KdbgAgrees, Nothing

LEMMA NextAgree == IType /\ KInv /\ [RecoveryNext]_vars => KInv'
<1> SUFFICES ASSUME IType, KInv, [RecoveryNext]_vars PROVE KInv'
  OBVIOUS
<1>0. rec \in Recs
  BY DEF IType, RecoveryTypeOK, Recs
<1> USE DEF KInv, KdbgAgrees, AfterKdbg, Goto, Recovered, Recs
<1>1. CASE Open \/ Close
  <2>1. rec'.kdbg = None
    BY <1>1 DEF Open, Close, Blank, Nothing
  <2> QED BY <2>1
<1>2. CASE Token \/ Gates \/ Cookie \/ Signatures \/ StoredHead \/ AnchorHead \/ NoHead \/ NoKdbg
  <2>1. rec.kdbg = None /\ rec'.kdbg = rec.kdbg
    <3>1. CASE Token \/ Gates \/ Cookie
      BY <1>0, <3>1 DEF Token, Gates, Cookie
    <3>2. CASE Signatures
      BY <1>0, <3>2 DEF Signatures
    <3>3. CASE StoredHead \/ AnchorHead \/ NoHead \/ NoKdbg
      BY <1>0, <3>3 DEF StoredHead, AnchorHead, NoHead, NoKdbg
    <3> QED BY <1>2, <3>1, <3>2, <3>3
  <2> QED BY <2>1
<1>3. CASE KdbgPlain
  <2>1. PICK b \in PlainBlocks : rec' = [rec EXCEPT !.kdbg = Names(b)]
    BY <1>3 DEF KdbgPlain
  <2>2. rec.head = None \/ Names(b) = rec.head
    BY DEF PlainBlocks, Agrees, Names
  <2>3. pc' = "save"
    BY <1>3 DEF KdbgPlain
  <2> QED BY <1>0, <2>1, <2>2, <2>3
<1>4. CASE KdbgEncoded
  BY <1>0, <1>4 DEF KdbgEncoded, Agrees
<1>5. CASE Save \/ Typing \/ List \/ Scan \/ Active \/ UNCHANGED vars
  <2>1. rec'.kdbg = rec.kdbg /\ rec'.head = rec.head
    BY <1>0, <1>5 DEF Save, Typing, List, Scan, Active, verdicts, vars
  <2>2. pc' \in AfterKdbg \/ UNCHANGED pc
    BY <1>5 DEF Save, Typing, List, Scan, Active, vars
  <2> QED BY <2>1, <2>2
<1> QED BY <1>1, <1>2, <1>3, <1>4, <1>5 DEF RecoveryNext

-----------------------------------------------------------------------------
(* What the store knows.                                                       *)

(* Entry e has all s has: the same, but for a token that was solved again.     *)
Covers(e, s) ==
    Known(s) =>
      /\ \A f \in Offsets : s.off[f] # "none" =>
            \/ e.off[f] = s.off[f]
            \/ f = "Token" /\ e.off[f] = "right"
      /\ s.cookie # "none" => e.cookie = s.cookie
      /\ s.head # None => e.head = s.head
      /\ s.block # "none" => e.block = s.block

Kept == Covers(entry, store)

LEMMA CoversSelf == \A e : Covers(e, e)
BY DEF Covers

(* What a step may do to the entry it works on.                                *)
LEMMA CoversMore ==
    ASSUME NEW e \in Entry, NEW s \in Entry, Covers(e, s)
    PROVE  /\ Covers([e EXCEPT !.off["Token"] = "right"], s)
           /\ \A c : e.cookie = "none" => Covers([e EXCEPT !.cookie = c], s)
           /\ \A h : e.head = None => Covers([e EXCEPT !.head = h], s)
           /\ \A b : e.block = "none" => Covers([e EXCEPT !.block = b], s)
           /\ \A b : e.block = "none" \/ b = e.block => Covers([e EXCEPT !.keys = TRUE, !.block = b], s)
BY DEF Covers, Entry, Offsets, Accessors

LEMMA LearnCovers ==
    ASSUME NEW e \in Entry, NEW i
    PROVE  Covers(Learn(e, i), e)
BY DEF Covers, Learn, Entry

LEMMA NextKept == IType /\ Kept /\ [RecoveryNext]_vars => Kept'
<1> SUFFICES ASSUME IType, Kept, [RecoveryNext]_vars PROVE Covers(entry', store')
  BY DEF Kept, Covers, Known
<1>0. store \in Entry /\ entry \in Entry /\ Covers(entry, store)
  BY DEF IType, RecoveryTypeOK, Kept
<1> USE DEF stores
<1>1. CASE Open
  BY <1>0, <1>1, LearnCovers DEF Open
<1>2. CASE Token
  BY <1>0, <1>2, CoversMore DEF Token
<1>3. CASE Cookie
  <2>1. /\ UNCHANGED store
        /\ \/ UNCHANGED entry
           \/ \E c : entry.cookie = "none" /\ entry' = [entry EXCEPT !.cookie = c]
    BY <1>3 DEF Cookie
  <2>2. CASE UNCHANGED entry
    BY <1>0, <2>1, <2>2
  <2>3. ASSUME NEW c, entry.cookie = "none", entry' = [entry EXCEPT !.cookie = c]
        PROVE  Covers(entry', store')
    <3>1. Covers([entry EXCEPT !.cookie = c], store)
      BY <1>0, <2>3, CoversMore
    <3> QED BY <2>1, <2>3, <3>1
  <2> QED BY <2>1, <2>2, <2>3
<1>4. CASE Signatures \/ AnchorHead
  <2>1. /\ UNCHANGED store
        /\ \/ UNCHANGED entry
           \/ \E h : entry.head = None /\ entry' = [entry EXCEPT !.head = h]
    BY <1>4 DEF Signatures, AnchorHead
  <2>2. CASE UNCHANGED entry
    BY <1>0, <2>1, <2>2
  <2>3. ASSUME NEW h, entry.head = None, entry' = [entry EXCEPT !.head = h]
        PROVE  Covers(entry', store')
    <3>1. Covers([entry EXCEPT !.head = h], store)
      BY <1>0, <2>3, CoversMore
    <3> QED BY <2>1, <2>3, <3>1
  <2> QED BY <2>1, <2>2, <2>3
<1>6. CASE KdbgPlain
  <2>1. /\ UNCHANGED store
        /\ \/ UNCHANGED entry
           \/ \E b : entry.block = "none" /\ entry' = [entry EXCEPT !.block = b]
    BY <1>6 DEF KdbgPlain
  <2>2. CASE UNCHANGED entry
    BY <1>0, <2>1, <2>2
  <2>3. ASSUME NEW b, entry.block = "none", entry' = [entry EXCEPT !.block = b]
        PROVE  Covers(entry', store')
    <3>1. Covers([entry EXCEPT !.block = b], store)
      BY <1>0, <2>3, CoversMore
    <3> QED BY <2>1, <2>3, <3>1
  <2> QED BY <2>1, <2>2, <2>3
<1>7. CASE KdbgEncoded
  BY <1>0, <1>7, CoversMore DEF KdbgEncoded
<1>8. CASE Save
  BY <1>0, <1>8, CoversSelf DEF Save
<1>9. CASE Close
  BY <1>9, CoversSelf DEF Close, Blank
<1>10. CASE Gates \/ StoredHead \/ NoHead \/ NoKdbg \/ Typing \/ List \/ Scan \/ Active \/ UNCHANGED vars
  BY <1>0, <1>10 DEF Gates, StoredHead, NoHead, NoKdbg, Typing, List, Scan, Active, vars
<1> QED
  BY <1>1, <1>2, <1>3, <1>4, <1>6, <1>7, <1>8, <1>9, <1>10 DEF RecoveryNext

(* Only Save writes the store, and what it writes covers what is there.        *)
KeepsKnown == Known(store) => Covers(store', store)

LEMMA StepKeeps == IType /\ Kept /\ [RecoveryNext]_vars => KeepsKnown
<1> SUFFICES ASSUME IType, Kept, [RecoveryNext]_vars PROVE Covers(store', store)
  BY DEF KeepsKnown
<1>1. CASE Save
  BY <1>1, CoversSelf DEF Save, Kept
<1>2. CASE ~Save
  <2>1. UNCHANGED store
    <3>1. CASE Open \/ Token \/ Gates \/ Cookie \/ Signatures \/ StoredHead
      BY <3>1 DEF Open, Token, Gates, Cookie, Signatures, StoredHead, stores
    <3>2. CASE AnchorHead \/ NoHead \/ KdbgPlain \/ KdbgEncoded \/ NoKdbg
      BY <3>2 DEF AnchorHead, NoHead, KdbgPlain, KdbgEncoded, NoKdbg, stores
    <3>3. CASE Typing \/ List \/ Scan \/ Active \/ Close \/ UNCHANGED vars
      BY <3>3 DEF Typing, List, Scan, Active, Close, stores, vars
    <3> QED BY <1>2, <3>1, <3>2, <3>3 DEF RecoveryNext
  <2> QED BY <2>1, CoversSelf
<1> QED BY <1>1, <1>2

-----------------------------------------------------------------------------
(* The theorems.                                                               *)

(* What the engine recovers, consumes and says of an image has its type, from   *)
(* any store and any image.                                                    *)
THEOREM RecoveryTypes == EngineSpec => []RecoveryTypeOK
<1>1. EngineInit => IType
  BY InitType DEF EngineInit
<1>2. IType /\ [EngineNext]_engineVars => IType'
  BY NextType, EngineStep
<1>3. IType => RecoveryTypeOK
  BY DEF IType
<1> QED BY <1>1, <1>2, <1>3, PTL DEF EngineSpec

LEMMA Inductive == EngineSpec => [](IType /\ KInv /\ Kept)
<1>1. EngineInit => IType /\ KInv /\ Kept
  BY InitType, InitAgree, CoversSelf DEF EngineInit, Init, Kept
<1>2. (IType /\ KInv /\ Kept) /\ [EngineNext]_engineVars => (IType /\ KInv /\ Kept)'
  BY NextType, NextAgree, NextKept, EngineStep
<1> QED BY <1>1, <1>2, PTL DEF EngineSpec

(* In whatever way the debugger block and the head of the list were found, the  *)
(* block in use names the head in use.                                         *)
THEOREM BlockAndHeadAgree == EngineSpec => []KdbgAgrees
<1>1. KInv => KdbgAgrees
  BY DEF KInv
<1> QED BY Inductive, <1>1, PTL

(* Over any sequence of images, kills and failed writes nothing the store knows *)
(* of a build is replaced, but for the token offset, which gets right.         *)
THEOREM StoredStays == EngineSpec => BaseWins
<1>1. (IType /\ KInv /\ Kept) /\ [EngineNext]_engineVars =>
        [Known(store) =>
          /\ \A f \in Offsets : store.off[f] # "none" =>
                \/ store'.off[f] = store.off[f]
                \/ f = "Token" /\ store'.off[f] = "right"
          /\ store.cookie # "none" => store'.cookie = store.cookie
          /\ store.head # None => store'.head = store.head
          /\ store.block # "none" => store'.block = store.block]_vars
  BY StepKeeps, EngineStep DEF KeepsKnown, Covers
<1> QED BY Inductive, <1>1, PTL DEF EngineSpec, BaseWins

(* "A wrong head ... is never consumed" (recover_vmm.go:565): from a poisoned   *)
(* store, a stale signature or a torn image, for any number of processes and    *)
(* any bound on the walk, the head in use lies on System's ring.                *)
THEOREM HeadAlwaysOnRing == EngineSpec => []HeadOnRing
<1>1. EngineInit => IType /\ HeadOnRing
  BY InitType DEF EngineInit, Init, HeadOnRing, Nothing
<1>2. (IType /\ HeadOnRing) /\ [EngineNext]_engineVars => (IType /\ HeadOnRing)'
  BY NextType, NextHead, EngineStep
<1> QED BY <1>1, <1>2, PTL DEF EngineSpec

(* "Hidden only when three independent reads agree it is still running"         *)
(* (engine_vmm.go:342), in both directions: what is flagged Hidden is what the  *)
(* image's own ring and views say, whatever the store had to say.               *)
THEOREM HiddenIsExact == EngineSpec => []HiddenExactly
<1> DEFINE I == IType /\ HeadOnRing /\ Gated /\ Contrast /\ HiddenExactly
<1>1. EngineInit => I
  BY InitType DEF EngineInit, Init, HeadOnRing, Gated, Contrast, HiddenExactly, Nothing
<1>2. I /\ [EngineNext]_engineVars => I'
  BY NextType, NextHead, NextGated, NextContrast, NextHidden, EngineStep
<1>3. I => HiddenExactly
  OBVIOUS
<1> QED BY <1>1, <1>2, <1>3, PTL DEF EngineSpec

=============================================================================
