----------------------------- MODULE OffsetStore -----------------------------
(***************************************************************************)
(* The Tier-1 offset store (internal/symbols/store.go) as the engines use  *)
(* it (recoverPrePass, storeDirs, writableStoreDir, stageSymbols): what is *)
(* known of one kernel build, kept in one JSON file in the symbol cache,   *)
(* with a /tmp fallback per container and a read-only seed.                *)
(*                                                                         *)
(* Engines are processes, each analysing one image after another; several  *)
(* containers may mount the same cache.  A session reads the first entry   *)
(* it finds, adds what its image lets it recover and, if that is more than *)
(* it read, replaces the file by a rename.  Nothing locks the file between *)
(* the read and the rename.                                                *)
(***************************************************************************)
EXTENDS Naturals, FiniteSets

CONSTANTS
    Engines,
    Accessors,      \* symbols.ProcessAccessors
    Decodable,      \* those whose code carries an offset in this build
    Globals,        \* kernel globals kept by RVA
    Token,          \* tokenScanFunc, the constraint-solved pseudo-accessor
    Seed,           \* the entry baked into the container image
    Cached,         \* the entry the cache volume starts with
    Writers,        \* engines whose Symbols mount is read-write
    Flaky,          \* engines whose reads of the cache and of /tmp may fail
    TmpWritable,
    WritesFail      \* a temp file, a rename or a staging copy may fail

Offsets == Accessors \cup {Token}
Fields == Offsets \cup Globals

(* What an entry knows of a field: a value of a hand-made seed may be wrong.*)
Values == {"none", "right", "wrong"}
Entries == [val : [Fields -> Values], undec : SUBSET Accessors]

(* No file at all. *)
Absent == [val |-> [f \in Fields |-> "none"], undec |-> {}]

(* ReadStoredOffsets: an entry without offsets is a miss. *)
Hit(x) == \E f \in Offsets : x.val[f] # "none"

(* StoreEntry.Complete: nothing a later image could add to the accessors. *)
Complete(x) == \A a \in Accessors : x.val[a] # "none" \/ a \in x.undec

ASSUME OffsetStoreAssumption ==
    /\ Token \notin Accessors \cup Globals
    /\ Accessors \cap Globals = {}
    /\ Decodable \subseteq Accessors
    /\ Seed \in Entries /\ Cached \in Entries
    /\ Seed = Absent \/ Hit(Seed)
    /\ Cached = Absent \/ Hit(Cached)
    /\ Writers \subseteq Engines /\ Flaky \subseteq Engines
    /\ {TmpWritable, WritesFail} \subseteq BOOLEAN

VARIABLES
    cache,  \* the entry in <Symbols>/anamnesis-offsets
    tmp,    \* tmp[e]: the entry in e's /tmp/anamnesis-offsets
    pc,     \* where e's session is
    seen,   \* seen[e]: the fields e's image lets it recover
    held    \* held[e]: stored, then entry: what e read, then what it will write

vars == <<cache, tmp, pc, seen, held>>

Init ==
    /\ cache = Cached
    /\ tmp = [e \in Engines |-> Absent]
    /\ pc = [e \in Engines |-> "idle"]
    /\ seen = [e \in Engines |-> {}]
    /\ held = [e \in Engines |-> Absent]

Goto(e, l) == pc' = [pc EXCEPT ![e] = l] /\ UNCHANGED seen
Hold(e, x) == held' = [held EXCEPT ![e] = x]

(* The session is over: nothing of its memory is used again. *)
End(e) ==
    /\ pc' = [pc EXCEPT ![e] = "idle"]
    /\ seen' = [seen EXCEPT ![e] = {}]
    /\ Hold(e, Absent)

-----------------------------------------------------------------------------
(* Open: a read-only cache is staged into /tmp, file by file, unless a file  *)
(* of the same size is there already.                                        *)
Size(x) == Cardinality({f \in Fields : x.val[f] # "none"}) + Cardinality(x.undec)

Stage(e) ==
    \/ e \in Writers /\ UNCHANGED tmp
    \/ /\ e \notin Writers
       /\ cache # Absent /\ TmpWritable /\ Size(cache) # Size(tmp[e])
       /\ tmp' = [tmp EXCEPT ![e] = cache]
    \/ /\ e \notin Writers
       /\ cache = Absent \/ ~TmpWritable \/ WritesFail \/ Size(cache) = Size(tmp[e])
       /\ UNCHANGED tmp

Open(e, image) ==
    /\ pc[e] = "idle"
    /\ pc' = [pc EXCEPT ![e] = "cache"]
    /\ seen' = [seen EXCEPT ![e] = image]
    /\ Stage(e)
    /\ UNCHANGED <<cache, held>>

(* The lookup goes through storeDirs in order and stops at the first hit.    *)
Dir(e) == CASE pc[e] = "cache" -> cache
            [] pc[e] = "tmp"   -> tmp[e]
            [] OTHER           -> Seed

LookHit(e) ==
    /\ pc[e] \in {"cache", "tmp", "seed"} /\ Hit(Dir(e))
    /\ Hold(e, Dir(e))
    /\ Goto(e, "recover")
    /\ UNCHANGED <<cache, tmp>>

LookMiss(e) ==
    /\ \/ pc[e] = "cache" /\ (~Hit(cache) \/ e \in Flaky) /\ Goto(e, "tmp")
       \/ pc[e] = "tmp" /\ (~Hit(tmp[e]) \/ e \in Flaky) /\ Goto(e, "seed")
       \/ pc[e] = "seed" /\ ~Hit(Seed) /\ Goto(e, "recover")
    /\ UNCHANGED <<cache, tmp, held>>

-----------------------------------------------------------------------------
(* Mutants of Merge: the fresh recovery is kept instead of merged; code that  *)
(* could not be read counts as undecodable, like code without an offset;      *)
(* whatever gave no offset is undecodable, the token scan included.           *)
MergeForgets(x, image) ==
    [val |-> [f \in Fields |-> IF f \in image \cap Decodable THEN "right"
                              ELSE IF f \in Accessors THEN "none" ELSE x.val[f]],
     undec |-> x.undec \cup ((image \cap Accessors) \ Decodable)]

MergeClosesUnread(x, image) ==
    [val |-> [f \in Fields |->
                IF x.val[f] = "none" /\ f \in image \cap Decodable THEN "right" ELSE x.val[f]],
     undec |-> x.undec \cup (Accessors \ (image \cap Decodable))]

MergeMarksAll(x, image) ==
    [val |-> [f \in Fields |->
                IF x.val[f] = "none" /\ f \in image \cap Decodable THEN "right" ELSE x.val[f]],
     undec |-> x.undec \cup (image \ Decodable)]

(* Merge: what the entry has wins, the image fills the gaps; an accessor     *)
(* whose code was read and carries no offset is undecodable for good, one    *)
(* whose code could not be read is left open.                                *)
Merge(x, image) ==
    [val |-> [f \in Fields |->
                IF x.val[f] = "none" /\ f \in image \cap Decodable THEN "right" ELSE x.val[f]],
     undec |-> x.undec \cup ((image \cap Accessors) \ Decodable)]

(* The accessors: a complete hit is trusted as it is. *)
Recovered(x, image) == IF x # Absent /\ Complete(x) THEN x ELSE Merge(x, image)

(* The token offset is gated on the System process and solved again when it  *)
(* fails; the globals are only added (MergeGlobal).                          *)
Solved(x, image) ==
    [val |-> [f \in Fields |->
                IF \/ f = Token /\ Token \in image
                   \/ f \in Globals \cap image /\ x.val[f] = "none"
                THEN "right" ELSE x.val[f]],
     undec |-> x.undec]

(* Mutant of Recover: the entry is written back whether or not it improved. *)
RecoverAlwaysDirty(e) ==
    /\ pc[e] = "recover"
    /\ LET merged == Recovered(held[e], seen[e])
           solved == Solved(merged, seen[e])
       IN \/ /\ ~Hit(merged)
             /\ End(e)
          \/ /\ Hit(merged)
             /\ Hold(e, solved)
             /\ Goto(e, "save")
    /\ UNCHANGED <<cache, tmp>>

(* recoverPrePass between the lookup and the write, all in memory. *)
Recover(e) ==
    /\ pc[e] = "recover"
    /\ LET merged == Recovered(held[e], seen[e])
           solved == Solved(merged, seen[e])
       IN \/ /\ ~Hit(merged) \/ solved = held[e]
             /\ End(e)
          \/ /\ Hit(merged) /\ solved # held[e]
             /\ Hold(e, solved)
             /\ Goto(e, "save")
    /\ UNCHANGED <<cache, tmp>>

(* Mutant of Save: an empty entry is written first (no temp file and rename),  *)
(* so that a failing write leaves it behind.                                   *)
SaveInPlace(e) ==
    /\ pc[e] = "save"
    /\ \/ e \in Writers /\ cache' = held[e] /\ UNCHANGED tmp
       \/ e \in Writers /\ WritesFail /\ cache' = Absent /\ UNCHANGED tmp
       \/ /\ e \notin Writers /\ TmpWritable
          /\ tmp' = [tmp EXCEPT ![e] = held[e]] /\ UNCHANGED cache
       \/ /\ e \notin Writers /\ ~TmpWritable
          /\ UNCHANGED <<cache, tmp>>
    /\ End(e)

(* WriteStoredOffsets into the first directory that can be written: a temp   *)
(* file renamed over the entry, whoever wrote it since it was read.          *)
Save(e) ==
    /\ pc[e] = "save"
    /\ \/ e \in Writers /\ cache' = held[e] /\ UNCHANGED tmp
       \/ /\ e \notin Writers /\ TmpWritable
          /\ tmp' = [tmp EXCEPT ![e] = held[e]] /\ UNCHANGED cache
       \/ /\ WritesFail \/ (e \notin Writers /\ ~TmpWritable)
          /\ UNCHANGED <<cache, tmp>>
    /\ End(e)

(* The process dies; an unfinished temp file is never read. *)
Crash(e) ==
    /\ pc[e] # "idle"
    /\ End(e)
    /\ UNCHANGED <<cache, tmp>>

Step(e) == LookHit(e) \/ LookMiss(e) \/ Recover(e) \/ Save(e)

Next ==
    \E e \in Engines :
        \/ \E image \in SUBSET Fields : Open(e, image)
        \/ Step(e)
        \/ Crash(e)

Spec == Init /\ [][Next]_vars

(* Without kills: sessions run to their end, and every engine meets, again   *)
(* and again, an image from which every field can be recovered.              *)
CalmNext == \E e \in Engines : Step(e) \/ \E image \in SUBSET Fields : Open(e, image)

ConvergenceSpec ==
    /\ Init /\ [][CalmNext]_vars
    /\ \A e \in Engines : WF_vars(Step(e)) /\ SF_vars(Open(e, Fields))

-----------------------------------------------------------------------------
(* Correctness. *)

PcStates == {"idle", "cache", "tmp", "seed", "recover", "save"}

TypeOK ==
    /\ cache \in Entries
    /\ tmp \in [Engines -> Entries]
    /\ pc \in [Engines -> PcStates]
    /\ seen \in [Engines -> SUBSET Fields]
    /\ held \in [Engines -> Entries]

(* x has everything y has; only the token offset may have been solved again. *)
Covers(x, y) ==
    /\ y.undec \subseteq x.undec
    /\ \A f \in Fields : \/ y.val[f] = "none"
                         \/ x.val[f] = y.val[f]
                         \/ f = Token /\ x.val[f] = "right"

(* "A seed hit is used as a base" (recover_vmm.go:1301): whatever engines      *)
(* interleave, die or fail to read, an entry in the cache or in /tmp has all   *)
(* the seed has - provided the cache volume did not predate the seed.          *)
SeedCarried ==
    Cached = Absent =>
      /\ cache = Absent \/ Covers(cache, Seed)
      /\ \A e \in Engines : tmp[e] = Absent \/ Covers(tmp[e], Seed)

(* "an image that could read only part of the kernel does not force every      *)
(* later image to re-attempt the rest" (store.go:30) must not become: closes    *)
(* the entry. A complete entry lacks no accessor this build can decode.        *)
Whole(x) == Complete(x) => \A a \in Decodable : x.val[a] # "none"

CompleteIsWhole ==
    (Seed.undec \cup Cached.undec) \cap Decodable = {} =>
      Whole(cache) /\ \A e \in Engines : Whole(tmp[e])

(* "last writer wins, which is safe because content is deterministic per       *)
(* (GUID, age)" (store.go:214): no write loses anything an earlier session     *)
(* recorded. True of one writer whose reads succeed, whoever reads, dies or     *)
(* fails to write besides; not of two writers.                                 *)
Grows == [][Covers(cache', cache)]_vars

(* "the store converges over time" (recover_vmm.go:117), with any number of     *)
(* engines, although a rename may undo what another engine wrote since the     *)
(* read: an entry is only written when it improves on the one it was made      *)
(* from, so in the end every session starts from a complete entry. Not so      *)
(* where the engine "correctly falls through to the /tmp store"                *)
(* (recover_vmm.go:1328) from a read-only mount.                               *)
Converges == <>[](\A e \in Engines : pc[e] = "recover" => Complete(held[e]))

=============================================================================
