-------------------------- MODULE OffsetStoreProofs --------------------------
(* Theorems about OffsetStore for every value of its constants. *)
EXTENDS OffsetStore, TLAPS

(* No file is an entry that the lookup misses. *)
LEMMA AbsentType == Absent \in Entries /\ ~Hit(Absent)
BY OffsetStoreAssumption DEF Absent, Entries, Values, Hit, Fields, Offsets

(* What a session computes from an entry is an entry that covers it. *)
LEMMA RecoveredType ==
    ASSUME NEW x \in Entries, NEW image \in SUBSET Fields
    PROVE  /\ Recovered(x, image) \in Entries
           /\ Solved(Recovered(x, image), image) \in Entries
<1>1. Merge(x, image) \in Entries
  BY DEF Merge, Entries, Values
<1>2. Recovered(x, image) \in Entries
  BY <1>1 DEF Recovered
<1>3. ASSUME NEW y \in Entries PROVE Solved(y, image) \in Entries
  BY DEF Solved, Entries, Values
<1>4. QED
  BY <1>2, <1>3

(* Merge, the token scan and MergeGlobal drop nothing of the entry they start from. *)
LEMMA RecoveredCovers ==
    ASSUME NEW x \in Entries, NEW image \in SUBSET Fields
    PROVE  Covers(Solved(Recovered(x, image), image), x)
<1>1. Recovered(x, image).undec = x.undec \/
      Recovered(x, image).undec = x.undec \cup ((image \cap Accessors) \ Decodable)
  BY DEF Recovered, Merge
<1>2. ASSUME NEW f \in Fields, x.val[f] # "none"
      PROVE  Recovered(x, image).val[f] = x.val[f]
  BY <1>2 DEF Recovered, Merge
<1>3. ASSUME NEW f \in Fields, x.val[f] # "none"
      PROVE  \/ Solved(Recovered(x, image), image).val[f] = x.val[f]
             \/ f = Token /\ Solved(Recovered(x, image), image).val[f] = "right"
  BY <1>2, <1>3, OffsetStoreAssumption DEF Solved, Fields
<1>4. Solved(Recovered(x, image), image).undec = Recovered(x, image).undec
  BY DEF Solved
<1>5. QED
  BY <1>1, <1>3, <1>4 DEF Covers

(* Covers is reflexive. *)
LEMMA CoversItself == \A x : Covers(x, x)
BY DEF Covers

(* Anything covers no file. *)
LEMMA CoversAbsent == \A x : Covers(x, Absent)
BY DEF Covers, Absent

(* What covers an entry covers all that the entry covers. *)
LEMMA CoversTransitive == \A x, y, z : Covers(x, y) /\ Covers(y, z) => Covers(x, z)
BY DEF Covers

-----------------------------------------------------------------------------
(* The stores the engines find are typed. *)
LEMMA InitType == Init => TypeOK
BY AbsentType, OffsetStoreAssumption DEF Init, TypeOK, PcStates

(* The end of a session leaves its memory typed. *)
LEMMA EndType ==
    ASSUME TypeOK, NEW e \in Engines, End(e)
    PROVE  /\ pc' \in [Engines -> PcStates] /\ seen' \in [Engines -> SUBSET Fields]
           /\ held' \in [Engines -> Entries]
BY AbsentType DEF TypeOK, End, Hold, PcStates

(* No step of an engine leaves the types. *)
LEMMA NextType == TypeOK /\ [Next]_vars => TypeOK'
<1> SUFFICES ASSUME TypeOK, [Next]_vars PROVE TypeOK'
  OBVIOUS
<1>1. ASSUME NEW e \in Engines, NEW image \in SUBSET Fields, Open(e, image) PROVE TypeOK'
  BY <1>1 DEF TypeOK, Open, Stage, PcStates
<1>2. ASSUME NEW e \in Engines, LookHit(e) PROVE TypeOK'
  <2>1. Dir(e) \in Entries
    BY OffsetStoreAssumption DEF TypeOK, Dir
  <2>2. QED
    BY <1>2, <2>1 DEF TypeOK, LookHit, Hold, Goto, PcStates
<1>3. ASSUME NEW e \in Engines, LookMiss(e) PROVE TypeOK'
  BY <1>3 DEF TypeOK, LookMiss, Goto, PcStates
<1>4. ASSUME NEW e \in Engines, Recover(e) PROVE TypeOK'
  <2>1. cache' = cache /\ tmp' = tmp
    BY <1>4 DEF Recover
  <2>2. CASE End(e)
    BY <2>1, <2>2, EndType DEF TypeOK
  <2>3. CASE Hold(e, Solved(Recovered(held[e], seen[e]), seen[e])) /\ Goto(e, "save")
    <3>1. Solved(Recovered(held[e], seen[e]), seen[e]) \in Entries
      BY RecoveredType DEF TypeOK
    <3>2. QED
      BY <2>1, <2>3, <3>1 DEF TypeOK, Hold, Goto, PcStates
  <2>4. QED
    BY <1>4, <2>2, <2>3 DEF Recover
<1>5. ASSUME NEW e \in Engines, Save(e) PROVE TypeOK'
  <2>1. cache' \in Entries /\ tmp' \in [Engines -> Entries]
    BY <1>5 DEF TypeOK, Save
  <2>2. QED
    BY <1>5, <2>1, EndType DEF TypeOK, Save
<1>6. ASSUME NEW e \in Engines, Crash(e) PROVE TypeOK'
  BY <1>6, EndType DEF TypeOK, Crash
<1>7. CASE UNCHANGED vars
  BY <1>7 DEF TypeOK, vars
<1>8. QED
  BY <1>1, <1>2, <1>3, <1>4, <1>5, <1>6, <1>7 DEF Next, Step

(* Every entry on disk and in an engine's memory is one, in every interleaving *)
(* of any number of engines.                                                   *)
THEOREM TypeCorrect == Spec => []TypeOK
BY InitType, NextType, PTL DEF Spec

-----------------------------------------------------------------------------
(* Why the seed is never lost: whatever a session holds, it started from the   *)
(* seed or from an entry that has all of it.                                   *)
HasSeed(x) == x = Absent \/ Covers(x, Seed)

SeedInv ==
    /\ HasSeed(cache)
    /\ \A e \in Engines :
         /\ HasSeed(tmp[e])
         /\ pc[e] \in {"cache", "tmp", "seed"} => held[e] = Absent
         /\ pc[e] = "idle" => held[e] = Absent
         /\ pc[e] \in {"recover", "save"} => Covers(held[e], Seed)

(* No step writes, or takes into memory, an entry without the seed. *)
LEMMA NextSeed == TypeOK /\ SeedInv /\ [Next]_vars => SeedInv'
<1> SUFFICES ASSUME TypeOK, SeedInv, [Next]_vars PROVE SeedInv'
  OBVIOUS
<1>1. ASSUME NEW e \in Engines, NEW image \in SUBSET Fields, Open(e, image) PROVE SeedInv'
  BY <1>1 DEF TypeOK, SeedInv, Open, Stage
<1>2. ASSUME NEW e \in Engines, LookHit(e) PROVE SeedInv'
  <2>1. Covers(Dir(e), Seed)
    BY <1>2, AbsentType, CoversItself DEF LookHit, Dir, SeedInv, HasSeed
  <2>2. QED
    BY <1>2, <2>1 DEF TypeOK, SeedInv, LookHit, Hold, Goto
<1>3. ASSUME NEW e \in Engines, LookMiss(e) PROVE SeedInv'
  <2>1. ~Hit(Seed) => Covers(Absent, Seed)
    BY CoversItself, OffsetStoreAssumption
  <2>2. QED
    BY <1>3, <2>1 DEF TypeOK, SeedInv, LookMiss, Goto
<1>4. ASSUME NEW e \in Engines, Recover(e) PROVE SeedInv'
  <2>1. cache' = cache /\ tmp' = tmp
    BY <1>4 DEF Recover
  <2>2. CASE End(e)
    BY <2>1, <2>2 DEF TypeOK, SeedInv, End, Hold
  <2>3. CASE Hold(e, Solved(Recovered(held[e], seen[e]), seen[e])) /\ Goto(e, "save")
    <3>1. Covers(Solved(Recovered(held[e], seen[e]), seen[e]), Seed)
      BY <1>4, RecoveredCovers, CoversTransitive DEF TypeOK, SeedInv, Recover
    <3>2. QED
      BY <2>1, <2>3, <3>1 DEF TypeOK, SeedInv, Hold, Goto
  <2>4. QED
    BY <1>4, <2>2, <2>3 DEF Recover
<1>5. ASSUME NEW e \in Engines, Save(e) PROVE SeedInv'
  <2>1. Covers(held[e], Seed)
    BY <1>5 DEF Save, SeedInv
  <2>2. HasSeed(cache') /\ \A d \in Engines : HasSeed(tmp'[d])
    BY <1>5, <2>1 DEF TypeOK, SeedInv, HasSeed, Save
  <2>3. QED
    BY <1>5, <2>2 DEF TypeOK, SeedInv, Save, End, Hold
<1>6. ASSUME NEW e \in Engines, Crash(e) PROVE SeedInv'
  BY <1>6 DEF TypeOK, SeedInv, Crash, End, Hold
<1>7. CASE UNCHANGED vars
  BY <1>7 DEF SeedInv, vars
<1>8. QED
  BY <1>1, <1>2, <1>3, <1>4, <1>5, <1>6, <1>7 DEF Next, Step

(* The seed is a base of every entry ever written, for any seed, any images    *)
(* and any interleaving of engines, kills and failing reads and writes.        *)
THEOREM SeedAlwaysCarried == ASSUME Cached = Absent PROVE Spec => []SeedCarried
<1>1. Init => TypeOK /\ SeedInv
  BY InitType DEF Init, SeedInv, HasSeed
<1>2. TypeOK /\ SeedInv /\ [Next]_vars => (TypeOK /\ SeedInv)'
  BY NextType, NextSeed
<1>3. SeedInv => SeedCarried
  BY DEF SeedInv, SeedCarried, HasSeed
<1>4. QED
  BY <1>1, <1>2, <1>3, PTL DEF Spec

-----------------------------------------------------------------------------
(* Why a complete entry is whole: undecodable is only ever said of code that   *)
(* carries no offset, in the files and in every engine's memory.               *)
Honest(x) == x.undec \cap Decodable = {}

UndecInv == Honest(cache) /\ \A e \in Engines : Honest(tmp[e]) /\ Honest(held[e])

(* Merge adds only accessors that carry no offset to the undecodable ones. *)
LEMMA SolvedOpen ==
    ASSUME NEW x \in Entries, NEW image \in SUBSET Fields, Honest(x)
    PROVE  Honest(Solved(Recovered(x, image), image))
BY DEF Honest, Solved, Recovered, Merge

(* A complete entry whose undecodable list is honest has every decodable offset. *)
LEMMA OpenWhole == ASSUME NEW x \in Entries, Honest(x) PROVE Whole(x)
BY OffsetStoreAssumption DEF Honest, Whole, Complete

(* No step makes an undecodable list dishonest. *)
LEMMA NextUndec == TypeOK /\ UndecInv /\ Honest(Seed) /\ [Next]_vars => UndecInv'
<1> SUFFICES ASSUME TypeOK, UndecInv, Honest(Seed), [Next]_vars PROVE UndecInv'
  OBVIOUS
<1> DEFINE Files == cache' = cache /\ tmp' = tmp
<1>1. Honest(Absent)
  BY DEF Honest, Absent
<1>2. ASSUME NEW e \in Engines, End(e) PROVE \A d \in Engines : Honest(held'[d])
  BY <1>1, <1>2 DEF TypeOK, UndecInv, End, Hold
<1>3. ASSUME NEW e \in Engines, NEW image \in SUBSET Fields, Open(e, image) PROVE UndecInv'
  BY <1>3 DEF TypeOK, UndecInv, Open, Stage
<1>4. ASSUME NEW e \in Engines, LookHit(e) PROVE UndecInv'
  <2>1. Honest(Dir(e))
    BY <1>4 DEF UndecInv, Dir
  <2>2. QED
    BY <1>4, <2>1 DEF TypeOK, UndecInv, LookHit, Hold
<1>5. ASSUME NEW e \in Engines, LookMiss(e) PROVE UndecInv'
  BY <1>5 DEF UndecInv, LookMiss
<1>6. ASSUME NEW e \in Engines, Recover(e) PROVE UndecInv'
  <2>1. Files
    BY <1>6 DEF Recover
  <2>2. CASE End(e)
    BY <2>1, <2>2, <1>2 DEF UndecInv
  <2>3. CASE Hold(e, Solved(Recovered(held[e], seen[e]), seen[e]))
    <3>1. Honest(Solved(Recovered(held[e], seen[e]), seen[e]))
      BY SolvedOpen DEF TypeOK, UndecInv
    <3>2. QED
      BY <2>1, <2>3, <3>1 DEF TypeOK, UndecInv, Hold
  <2>4. QED
    BY <1>6, <2>2, <2>3 DEF Recover
<1>7. ASSUME NEW e \in Engines, Save(e) PROVE UndecInv'
  <2>1. Honest(cache') /\ \A d \in Engines : Honest(tmp'[d])
    BY <1>7 DEF TypeOK, UndecInv, Save
  <2>2. QED
    BY <1>7, <2>1, <1>2 DEF UndecInv, Save
<1>8. ASSUME NEW e \in Engines, Crash(e) PROVE UndecInv'
  BY <1>8, <1>2 DEF UndecInv, Crash
<1>9. CASE UNCHANGED vars
  BY <1>9 DEF UndecInv, vars
<1>10. QED
  BY <1>3, <1>4, <1>5, <1>6, <1>7, <1>8, <1>9 DEF Next, Step

(* An entry that is complete, and so is never added to again, lacks no         *)
(* accessor the build can decode, unless a seed or an old cache said so.       *)
THEOREM CompleteEntriesAreWhole ==
    ASSUME Honest(Seed), Honest(Cached) PROVE Spec => []CompleteIsWhole
<1>1. Init => TypeOK /\ UndecInv
  BY InitType DEF Init, UndecInv, Honest, Absent
<1>2. TypeOK /\ UndecInv /\ [Next]_vars => (TypeOK /\ UndecInv)'
  BY NextType, NextUndec
<1>3. TypeOK /\ UndecInv => CompleteIsWhole
  BY OpenWhole DEF TypeOK, UndecInv, CompleteIsWhole
<1>4. QED
  BY <1>1, <1>2, <1>3, PTL DEF Spec

-----------------------------------------------------------------------------
(* Why an entry never shrinks under one writer: from the lookup to the write,  *)
(* what that engine holds covers what the cache holds.                         *)
OneWriter == (\A d, e \in Writers : d = e) /\ Writers \cap Flaky = {}

WriterInv ==
    /\ cache = Absent \/ Hit(cache)
    /\ \A e \in Writers :
         /\ pc[e] \in {"tmp", "seed"} => cache = Absent
         /\ pc[e] \in {"recover", "save"} => Covers(held[e], cache)
         /\ pc[e] = "save" => Hit(held[e])

(* The token scan and MergeGlobal do not empty an entry. *)
LEMMA SolvedHit ==
    ASSUME NEW x, NEW image, Hit(x) PROVE Hit(Solved(x, image))
BY DEF Hit, Solved, Fields

(* With one writer, what is written covers what it replaces. *)
LEMMA NextWriter ==
    ASSUME OneWriter
    PROVE  TypeOK /\ WriterInv /\ [Next]_vars => WriterInv' /\ Covers(cache', cache)
<1> SUFFICES ASSUME TypeOK, WriterInv, [Next]_vars PROVE WriterInv' /\ Covers(cache', cache)
  OBVIOUS
<1> USE OffsetStoreAssumption DEF OneWriter
<1>0. ASSUME NEW e \in Engines, e \notin Writers,
             Step(e) \/ Crash(e) \/ \E image \in SUBSET Fields : Open(e, image)
      PROVE  WriterInv' /\ cache' = cache
  <2>1. cache' = cache
    BY <1>0 DEF Step, LookHit, LookMiss, Recover, Save, Crash, Open
  <2>2. \A d \in Writers : pc'[d] = pc[d] /\ held'[d] = held[d]
    BY <1>0 DEF TypeOK, Step, LookHit, LookMiss, Recover, Save, Crash, Open, Goto, Hold, End
  <2>3. QED
    BY <2>1, <2>2 DEF WriterInv
<1>1. ASSUME NEW e \in Writers, NEW image \in SUBSET Fields, Open(e, image)
      PROVE  WriterInv' /\ cache' = cache
  BY <1>1 DEF TypeOK, WriterInv, Open
<1>2. ASSUME NEW e \in Writers, LookHit(e) PROVE WriterInv' /\ cache' = cache
  <2>1. Covers(Dir(e), cache)
    BY <1>2, CoversItself, CoversAbsent DEF LookHit, Dir, WriterInv
  <2>2. QED
    BY <1>2, <2>1 DEF TypeOK, WriterInv, LookHit, Hold, Goto
<1>3. ASSUME NEW e \in Writers, LookMiss(e) PROVE WriterInv' /\ cache' = cache
  BY <1>3, CoversAbsent DEF TypeOK, WriterInv, LookMiss, Goto
<1>4. ASSUME NEW e \in Writers, Recover(e) PROVE WriterInv' /\ cache' = cache
  <2> DEFINE merged == Recovered(held[e], seen[e])
             solved == Solved(merged, seen[e])
  <2>1. cache' = cache
    BY <1>4 DEF Recover
  <2>2. CASE End(e)
    BY <2>1, <2>2 DEF TypeOK, WriterInv, End, Hold
  <2>3. CASE Hit(merged) /\ Hold(e, solved) /\ Goto(e, "save")
    <3>1. Covers(solved, cache)
      BY <1>4, RecoveredCovers, CoversTransitive DEF TypeOK, WriterInv, Recover
    <3>2. Hit(solved)
      BY <2>3, SolvedHit
    <3>3. QED
      BY <2>1, <2>3, <3>1, <3>2 DEF TypeOK, WriterInv, Hold, Goto
  <2>4. QED
    BY <1>4, <2>2, <2>3 DEF Recover
<1>5. ASSUME NEW e \in Writers, Save(e) PROVE WriterInv' /\ Covers(cache', cache)
  <2>1. cache' = cache \/ cache' = held[e]
    BY <1>5 DEF Save
  <2>2. Covers(held[e], cache) /\ Hit(held[e])
    BY <1>5 DEF Save, WriterInv
  <2>3. Covers(cache', cache)
    BY <2>1, <2>2, CoversItself
  <2>4. cache' = Absent \/ Hit(cache')
    BY <2>1, <2>2 DEF WriterInv
  <2>5. pc'[e] = "idle"
    BY <1>5 DEF TypeOK, Save, End
  <2>6. QED
    BY <2>3, <2>4, <2>5 DEF WriterInv
<1>6. ASSUME NEW e \in Writers, Crash(e) PROVE WriterInv' /\ cache' = cache
  BY <1>6 DEF TypeOK, WriterInv, Crash, End, Hold
<1>7. CASE UNCHANGED vars
  BY <1>7, CoversItself DEF WriterInv, vars
<1>8. QED
  BY <1>0, <1>1, <1>2, <1>3, <1>4, <1>5, <1>6, <1>7, CoversItself DEF Next, Step

(* An engine that alone writes the cache, and whose reads succeed, never loses  *)
(* anything recorded before, whatever is killed and whatever write fails.       *)
THEOREM NothingLost ==
    ASSUME OneWriter PROVE Spec => Grows
<1>1. Init => TypeOK /\ WriterInv
  <2>1. Init => TypeOK
    BY InitType
  <2>2. Init => WriterInv
    BY OffsetStoreAssumption DEF Init, WriterInv
  <2>3. QED
    BY <2>1, <2>2
<1>2. TypeOK /\ WriterInv /\ [Next]_vars => (TypeOK /\ WriterInv)'
  BY NextType, NextWriter
<1>3. TypeOK /\ WriterInv /\ [Next]_vars => [Covers(cache', cache)]_vars
  BY NextWriter
<1>4. QED
  BY <1>1, <1>2, <1>3, PTL DEF Spec, Grows

=============================================================================
