---------------------------- MODULE SigStoreProofs ----------------------------
(***************************************************************************)
(* Theorems about SigStore for any engines, builds, shapes of their code,  *)
(* images, failures and kills.                                             *)
(***************************************************************************)
EXTENDS SigStore, TLAPS

(* The end of a session leaves its memory typed.                               *)
LEMMA EndType ==
    ASSUME TypeOK, NEW e \in Engines, End(e)
    PROVE  /\ pc' \in [Engines -> {"idle", "head", "author", "write", "save"}]
           /\ on' \in [Engines -> Builds \cup {NoBuild}]
           /\ image' \in [Engines -> ImageKinds]
           /\ head' \in [Engines -> {"none", "stored", "new"}]
           /\ read' \in [Engines -> SUBSET Builds]
           /\ \A f \in Engines : pc'[f] # "idle" => on'[f] \in Builds
<1>1. \A f \in Engines : f # e => pc'[f] = pc[f] /\ on'[f] = on[f] /\ image'[f] = image[f]
  BY DEF End, TypeOK
<1>2. pc'[e] = "idle"
  BY DEF End, TypeOK
<1>3. \A f \in Engines : pc'[f] # "idle" => on'[f] \in Builds
  BY <1>1, <1>2 DEF TypeOK
<1>4. /\ pc' \in [Engines -> {"idle", "head", "author", "write", "save"}]
      /\ on' \in [Engines -> Builds \cup {NoBuild}]
      /\ image' \in [Engines -> ImageKinds]
      /\ head' \in [Engines -> {"none", "stored", "new"}]
      /\ read' \in [Engines -> SUBSET Builds]
  BY DEF End, TypeOK, ImageKinds
<1> QED BY <1>3, <1>4

(* A step within a session stays on its image.                                 *)
LEMMA GotoType ==
    ASSUME TypeOK, NEW e \in Engines, pc[e] # "idle",
           NEW l \in {"head", "author", "write", "save"}, Goto(e, l)
    PROVE  /\ pc' \in [Engines -> {"idle", "head", "author", "write", "save"}]
           /\ on' \in [Engines -> Builds \cup {NoBuild}]
           /\ image' \in [Engines -> ImageKinds]
           /\ \A f \in Engines : pc'[f] # "idle" => on'[f] \in Builds
<1>1. \A f \in Engines : pc'[f] # "idle" => pc[f] # "idle"
  BY DEF Goto, TypeOK
<1> QED BY <1>1 DEF Goto, TypeOK

LEMMA InitType == Init => TypeOK
BY DEF Init, TypeOK, ImageKinds

LEMMA NextType == ASSUME TypeOK, [Next]_vars PROVE TypeOK'
<1>1. ASSUME NEW e \in Engines, NEW b \in Builds, NEW i \in ImageKinds, Open(e, b, i) PROVE TypeOK'
  <2>1. /\ sigs' = sigs /\ heads' = heads /\ read' = read /\ missed' = missed
        /\ pc' \in [Engines -> {"idle", "head", "author", "write", "save"}]
        /\ on' \in [Engines -> Builds \cup {NoBuild}]
        /\ image' \in [Engines -> ImageKinds]
        /\ head' \in [Engines -> {"none", "stored", "new"}]
    BY <1>1 DEF Open, files, TypeOK
  <2>2. on'[e] = b /\ image'[e] = i
    BY <1>1 DEF Open, TypeOK
  <2>3. \A f \in Engines : f # e => pc'[f] = pc[f] /\ on'[f] = on[f] /\ image'[f] = image[f]
    BY <1>1 DEF Open, TypeOK
  <2> QED BY <2>1, <2>2, <2>3 DEF TypeOK
<1>2. ASSUME NEW e \in Engines, NothingNew(e) \/ Fingerprint(e) \/ Anchor(e) \/ ReadBack(e)
      PROVE  TypeOK'
  <2>1. pc[e] # "idle" /\ \E l \in {"head", "author", "write", "save"} : Goto(e, l)
    BY <1>2 DEF NothingNew, Fingerprint, Anchor, ReadBack
  <2>2. /\ sigs' = sigs /\ heads' = heads /\ missed' \subseteq Builds
        /\ head' \in [Engines -> {"none", "stored", "new"}]
        /\ read' \in [Engines -> SUBSET Builds]
    BY <1>2 DEF NothingNew, Fingerprint, Anchor, ReadBack, Miss, files, TypeOK
  <2> QED BY <2>1, <2>2, GotoType DEF TypeOK
<1>3. ASSUME NEW e \in Engines, Write(e) PROVE TypeOK'
  <2>1. pc[e] # "idle" /\ Goto(e, "save") /\ heads' = heads /\ head' = head /\ read' = read
    BY <1>3 DEF Write
  <2>2. sigs' \subseteq Builds /\ missed' \subseteq Builds
    BY <1>3 DEF Write, Miss, TypeOK
  <2> QED BY <2>1, <2>2, GotoType DEF TypeOK
<1>4. ASSUME NEW e \in Engines, Save(e) \/ Crash(e) PROVE TypeOK'
  <2>1. End(e) /\ sigs' = sigs /\ heads' \subseteq Builds /\ missed' = missed
    BY <1>4 DEF Save, Crash, files, TypeOK
  <2> QED BY <2>1, EndType DEF TypeOK
<1>5. CASE UNCHANGED vars
  BY <1>5 DEF vars, TypeOK
<1> QED BY <1>1, <1>2, <1>3, <1>4, <1>5 DEF Next, Sessions, Step

(* Both files and the sessions keep their types; a session under way is on a     *)
(* build.                                                                      *)
THEOREM TypeCorrect == Spec => []TypeOK
BY InitType, NextType, PTL DEF Spec

-----------------------------------------------------------------------------
(* One engine. *)

OneEngine == \A e, f \in Engines : e = f

(* What the only engine has read back is what the file holds.                  *)
ReadIsFile == \A e \in Engines : pc[e] = "write" => read[e] = sigs

LEMMA NextReadIsFile ==
    ASSUME OneEngine, TypeOK, ReadIsFile, [Next]_vars
    PROVE  ReadIsFile' /\ sigs \subseteq sigs'
<1>1. ASSUME NEW e \in Engines,
             \/ \E b \in Builds, i \in ImageKinds : Open(e, b, i)
             \/ NothingNew(e) \/ Fingerprint(e) \/ Anchor(e) \/ Save(e) \/ Crash(e)
      PROVE  ReadIsFile' /\ sigs \subseteq sigs'
  <2>1. pc'[e] # "write" /\ sigs' = sigs
    BY <1>1 DEF Open, NothingNew, Fingerprint, Anchor, Save, Crash, Goto, End, files, TypeOK
  <2> QED BY <2>1 DEF OneEngine, ReadIsFile
<1>2. ASSUME NEW e \in Engines, ReadBack(e) PROVE ReadIsFile' /\ sigs \subseteq sigs'
  <2>1. sigs' = sigs
    BY <1>2 DEF ReadBack, files
  <2>2. pc'[e] = "write" => read'[e] = sigs
    BY <1>2 DEF ReadBack, Goto, TypeOK
  <2> QED BY <2>1, <2>2 DEF OneEngine, ReadIsFile
<1>3. ASSUME NEW e \in Engines, Write(e) PROVE ReadIsFile' /\ sigs \subseteq sigs'
  <2>1. pc'[e] = "save" /\ read[e] = sigs
    BY <1>3 DEF Write, Goto, ReadIsFile, TypeOK
  <2>2. sigs \subseteq sigs'
    BY <1>3, <2>1 DEF Write
  <2> QED BY <2>1, <2>2 DEF OneEngine, ReadIsFile
<1>4. CASE UNCHANGED vars
  BY <1>4 DEF vars, ReadIsFile
<1> QED BY <1>1, <1>2, <1>3, <1>4 DEF Next, Sessions, Step

(* Where one engine has the signature file to itself, no write of it takes a    *)
(* variant away, whatever fails and wherever it is killed (sigstore.go:38).     *)
THEOREM NoVariantLost == ASSUME OneEngine PROVE Spec => VariantsKept
<1>1. Init => TypeOK /\ ReadIsFile
  BY InitType DEF Init, ReadIsFile
<1>2. TypeOK /\ ReadIsFile /\ [Next]_vars =>
      TypeOK' /\ ReadIsFile' /\ [sigs \subseteq sigs']_vars
  BY NextType, NextReadIsFile
<1> QED BY <1>1, <1>2, PTL DEF Spec, VariantsKept

(* A variant leads to the head of b, or the last attempt at one failed.         *)
Settled(b) == b \in missed \/ Covered(b)

(* Every head in the store, or about to be, is settled.                        *)
StoreSettled ==
    /\ \A b \in heads : Settled(b)
    /\ \A e \in Engines : /\ head[e] = "stored" => Settled(on[e])
                          /\ head[e] = "new" /\ pc[e] = "save" => Settled(on[e])
                          /\ pc[e] = "head" => head[e] # "new"

(* Variants accumulate, and a build is missed no longer only once it has its    *)
(* own, so what is settled stays so.                                          *)
LEMMA SettledStays ==
    ASSUME OneEngine, TypeOK, ReadIsFile, [Next]_vars, NEW b, Settled(b)
    PROVE  Settled(b)'
<1>0. sigs \subseteq sigs'
  BY NextReadIsFile
<1>1. CASE Covered(b)
  BY <1>0, <1>1 DEF Settled, Covered
<1>2. CASE b \in missed /\ b \notin missed'
  <2>1. PICK e \in Engines : Write(e) /\ missed' = missed \ {on[e]}
    BY <1>2 DEF Next, Sessions, Step, Open, NothingNew, Fingerprint, Anchor, ReadBack, Write, Miss,
                Save, Crash, vars
  <2>2. b = on[e] /\ b \in Builds
    BY <1>2, <2>1 DEF TypeOK
  <2>3. b \in sigs'
    BY <1>2, <2>1, <2>2 DEF Write, Miss
  <2> QED BY <2>2, <2>3, SigStoreAssumption DEF Settled, Covered
<1>3. CASE b \in missed'
  BY <1>3 DEF Settled
<1> QED BY <1>1, <1>2, <1>3 DEF Settled

LEMMA NextStoreSettled ==
    ASSUME OneEngine, TypeOK, ReadIsFile, StoreSettled, [Next]_vars
    PROVE  StoreSettled'
<1>1. \A b : Settled(b) => Settled(b)'
  BY SettledStays
<1>2. ASSUME NEW e \in Engines, NEW b \in Builds, NEW i \in ImageKinds, Open(e, b, i)
      PROVE  StoreSettled'
  <2>1. heads' = heads /\ on'[e] = b /\ pc'[e] = "head"
    BY <1>2 DEF Open, files, TypeOK
  <2>2. head'[e] # "new" /\ (head'[e] = "stored" => b \in heads)
    BY <1>2 DEF Open, TypeOK
  <2>3. head'[e] = "stored" => Settled(b)'
    BY <1>1, <2>2 DEF StoreSettled
  <2> QED BY <1>1, <2>1, <2>2, <2>3 DEF StoreSettled, OneEngine
<1>3. ASSUME NEW e \in Engines, NothingNew(e) \/ Fingerprint(e) PROVE StoreSettled'
  <2>1. heads' = heads /\ on' = on /\ pc'[e] = "save"
    BY <1>3 DEF NothingNew, Fingerprint, Goto, files, TypeOK
  <2>2. head'[e] = "stored" => head[e] = "stored"
    BY <1>3 DEF NothingNew, Fingerprint, TypeOK
  <2>3. head'[e] = "new" => Settled(on[e])
    BY <1>3 DEF NothingNew, Fingerprint, Settled, StoreSettled
  <2> QED BY <1>1, <2>1, <2>2, <2>3 DEF StoreSettled, OneEngine
<1>4. ASSUME NEW e \in Engines, Anchor(e) PROVE StoreSettled'
  <2>1. heads' = heads /\ on' = on /\ head'[e] = "new" /\ pc'[e] # "head"
    BY <1>4 DEF Anchor, Goto, files, TypeOK
  <2>2. pc'[e] = "save" => on[e] \in missed'
    BY <1>4 DEF Anchor, Goto, Miss, TypeOK
  <2> QED BY <1>1, <2>1, <2>2 DEF StoreSettled, Settled, OneEngine
<1>5. ASSUME NEW e \in Engines, ReadBack(e) PROVE StoreSettled'
  <2>1. heads' = heads /\ head' = head /\ on' = on /\ pc'[e] # "head"
    BY <1>5 DEF ReadBack, Goto, files, TypeOK
  <2>2. pc'[e] = "save" => on[e] \in missed'
    BY <1>5 DEF ReadBack, Goto, Miss, TypeOK
  <2> QED BY <1>1, <2>1, <2>2 DEF StoreSettled, Settled, OneEngine
<1>6. ASSUME NEW e \in Engines, Write(e) PROVE StoreSettled'
  <2>1. heads' = heads /\ head' = head /\ on' = on /\ pc'[e] = "save" /\ on[e] \in Builds
    BY <1>6 DEF Write, Goto, TypeOK
  <2>2. on[e] \in missed' \/ on[e] \in sigs'
    BY <1>6 DEF Write, Miss
  <2>3. Settled(on[e])'
    BY <2>1, <2>2, SigStoreAssumption DEF Settled, Covered
  <2> QED BY <1>1, <2>1, <2>3 DEF StoreSettled, OneEngine
<1>7. ASSUME NEW e \in Engines, Save(e) \/ Crash(e) PROVE StoreSettled'
  <2>1. head'[e] = "none" /\ pc'[e] = "idle"
    BY <1>7 DEF Save, Crash, End, TypeOK
  <2>2. ASSUME NEW b \in heads' PROVE Settled(b)
    <3>1. b \in heads \/ (Save(e) /\ head[e] # "none" /\ b = on[e])
      BY <1>7, <2>2 DEF Save, Crash, files
    <3>2. head[e] \in {"none", "stored", "new"}
      BY DEF TypeOK
    <3>3. Save(e) => pc[e] = "save"
      BY DEF Save
    <3> QED BY <3>1, <3>2, <3>3 DEF StoreSettled
  <2>3. \A b \in heads' : Settled(b)'
    BY <1>1, <2>2
  <2> QED BY <2>1, <2>3 DEF StoreSettled, OneEngine
<1>8. CASE UNCHANGED vars
  BY <1>1, <1>8 DEF vars, StoreSettled
<1> QED BY <1>2, <1>3, <1>4, <1>5, <1>6, <1>7, <1>8 DEF Next, Sessions, Step

(* With one engine every head in the offset store is covered by a variant, at   *)
(* every moment and after every kill, unless its last authoring failed: the     *)
(* variant is made before the head is stored (recover_vmm.go:634).             *)
THEOREM StoredIsCovered == ASSUME OneEngine PROVE Spec => []HeadsCovered
<1> DEFINE I == TypeOK /\ ReadIsFile /\ StoreSettled
<1>1. Init => I
  <2>1. Init => ReadIsFile /\ StoreSettled
    BY DEF Init, ReadIsFile, StoreSettled
  <2> QED BY <2>1, InitType
<1>2. I /\ [Next]_vars => I'
  BY NextType, NextReadIsFile, NextStoreSettled
<1>3. I => HeadsCovered
  BY DEF StoreSettled, Settled, HeadsCovered
<1> QED BY <1>1, <1>2, <1>3, PTL DEF Spec

-----------------------------------------------------------------------------
(* Any number of engines. *)

(* There is a variant somewhere, cached or shipped.                            *)
Taught == sigs \cup Shipped # {}

(* Once an engine has the head of a build, or has stored it, there is a variant *)
(* unless the last attempt at one of that build failed.                        *)
Heeded(b) == b \in missed \/ Taught

TaughtFirst ==
    /\ \A b \in heads : Heeded(b)
    /\ \A e \in Engines : /\ head[e] = "stored" => Heeded(on[e])
                          /\ head[e] = "new" /\ pc[e] = "save" => Heeded(on[e])
                          /\ pc[e] = "head" => head[e] # "new"

(* A write leaves its own variant at least.                                    *)
LEMMA HeededStays ==
    ASSUME [Next]_vars, NEW b, Heeded(b) PROVE Heeded(b)'
<1>1. \/ sigs' = sigs /\ missed \subseteq missed'
      \/ \E e \in Engines : sigs' = read[e] \cup {on[e]}
  BY DEF Next, Sessions, Step, Open, NothingNew, Fingerprint, Anchor, ReadBack, Write, Miss, Save,
         Crash, files, vars
<1> QED BY <1>1 DEF Heeded, Taught

LEMMA NextTaughtFirst ==
    ASSUME TypeOK, TaughtFirst, [Next]_vars PROVE TaughtFirst'
<1>1. \A b : Heeded(b) => Heeded(b)'
  BY HeededStays
<1>2. ASSUME NEW e \in Engines, NEW b \in Builds, NEW i \in ImageKinds, Open(e, b, i)
      PROVE  TaughtFirst'
  <2>1. heads' = heads
        /\ \A f \in Engines \ {e} : head'[f] = head[f] /\ pc'[f] = pc[f] /\ on'[f] = on[f]
    BY <1>2 DEF Open, files, TypeOK
  <2>2. pc'[e] = "head" /\ head'[e] # "new" /\ (head'[e] = "stored" => on'[e] \in heads)
    BY <1>2 DEF Open, TypeOK
  <2> QED BY <1>1, <2>1, <2>2 DEF TaughtFirst
<1>3. ASSUME NEW e \in Engines, NothingNew(e) \/ Fingerprint(e) PROVE TaughtFirst'
  <2>1. heads' = heads /\ on' = on /\ pc'[e] = "save"
        /\ \A f \in Engines \ {e} : head'[f] = head[f] /\ pc'[f] = pc[f]
    BY <1>3 DEF NothingNew, Fingerprint, Goto, files, TypeOK
  <2>2. head'[e] = "stored" => head[e] = "stored"
    BY <1>3 DEF NothingNew, Fingerprint, TypeOK
  <2>3. head'[e] = "new" => Heeded(on[e])
    BY <1>3 DEF NothingNew, Fingerprint, Covered, Heeded, Taught, TaughtFirst
  <2> QED BY <1>1, <2>1, <2>2, <2>3 DEF TaughtFirst
<1>4. ASSUME NEW e \in Engines, Anchor(e) \/ ReadBack(e) PROVE TaughtFirst'
  <2>1. heads' = heads /\ on' = on /\ pc'[e] # "head"
        /\ \A f \in Engines \ {e} : head'[f] = head[f] /\ pc'[f] = pc[f]
    BY <1>4 DEF Anchor, ReadBack, Goto, files, TypeOK
  <2>2. head'[e] = "stored" => head[e] = "stored"
    BY <1>4 DEF Anchor, ReadBack, TypeOK
  <2>3. pc'[e] = "save" => on[e] \in missed'
    BY <1>4 DEF Anchor, ReadBack, Goto, Miss, TypeOK
  <2> QED BY <1>1, <2>1, <2>2, <2>3 DEF TaughtFirst, Heeded
<1>5. ASSUME NEW e \in Engines, Write(e) PROVE TaughtFirst'
  <2>1. heads' = heads /\ head' = head /\ on' = on /\ pc'[e] = "save"
        /\ \A f \in Engines \ {e} : pc'[f] = pc[f]
    BY <1>5 DEF Write, Goto, TypeOK
  <2>2. Heeded(on[e])'
    BY <1>5, <2>1 DEF Write, Miss, Heeded, Taught
  <2> QED BY <1>1, <2>1, <2>2 DEF TaughtFirst
<1>6. ASSUME NEW e \in Engines, Save(e) \/ Crash(e) PROVE TaughtFirst'
  <2>1. head'[e] = "none" /\ pc'[e] = "idle"
        /\ \A f \in Engines \ {e} : head'[f] = head[f] /\ pc'[f] = pc[f] /\ on'[f] = on[f]
    BY <1>6 DEF Save, Crash, End, TypeOK
  <2>2. ASSUME NEW b \in heads' PROVE Heeded(b)
    <3>1. b \in heads \/ (Save(e) /\ head[e] # "none" /\ b = on[e])
      BY <1>6, <2>2 DEF Save, Crash, files
    <3>2. head[e] \in {"none", "stored", "new"}
      BY DEF TypeOK
    <3>3. Save(e) => pc[e] = "save"
      BY DEF Save
    <3> QED BY <3>1, <3>2, <3>3 DEF TaughtFirst
  <2>3. \A b \in heads' : Heeded(b)'
    BY <1>1, <2>2
  <2> QED BY <1>1, <2>1, <2>3 DEF TaughtFirst
<1>7. CASE UNCHANGED vars
  BY <1>1, <1>7 DEF vars, TaughtFirst
<1> QED BY <1>2, <1>3, <1>4, <1>5, <1>6, <1>7 DEF Next, Sessions, Step

(* Any number of engines may undo each other's renames and die: a store that    *)
(* has the head of a build whose last authoring did not fail is never without a *)
(* variant.                                                                    *)
THEOREM StoreTaught == Spec => []NeverEmptied
<1> DEFINE I == TypeOK /\ TaughtFirst
<1>1. Init => I
  <2>1. Init => TaughtFirst
    BY DEF Init, TaughtFirst
  <2> QED BY <2>1, InitType
<1>2. I /\ [Next]_vars => I'
  BY NextType, NextTaughtFirst
<1>3. I => NeverEmptied
  BY DEF TaughtFirst, Heeded, Taught, NeverEmptied
<1> QED BY <1>1, <1>2, <1>3, PTL DEF Spec

=============================================================================
