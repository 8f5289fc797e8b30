------------------------------- MODULE SigStore -------------------------------
(***************************************************************************)
(* The signature store (internal/symbols/sigstore.go) as the engines use   *)
(* it (applyShippedSignatures, recoverProcessHead, authorHeadSignature):   *)
(* one file of patterns that each lead to the process head in some builds  *)
(* of the kernel.  A session that finds the head by its ring alone adds a  *)
(* pattern, a variant, made from its own image.                            *)
(*                                                                         *)
(* Engines of several containers share the file and the offset store, of   *)
(* which all that counts here is which builds' heads it holds: a build     *)
(* whose head is stored is never searched, and no variant is made of it.   *)
(* WriteSignature reads the file, adds the variant and renames; nothing is *)
(* locked in between.                                                      *)
(***************************************************************************)
EXTENDS FiniteSets

CONSTANTS
    Engines,
    Builds,      \* kernel builds; a variant is named by the build it is from
    NoBuild,
    Locates,     \* <<v, b>>: the variant of v leads to the head of b
    Shipped      \* the variants baked into the container image

(* The ring cannot be walked; it can, but the code does not pass the self-test *)
(* or names the head nowhere; both are as they should be.                     *)
ImageKinds == {"torn", "blind", "whole"}

ASSUME SigStoreAssumption ==
    /\ NoBuild \notin Builds
    /\ Locates \subseteq Builds \X Builds
    /\ \A b \in Builds : <<b, b>> \in Locates \* authored only if it leads back
    /\ Shipped \subseteq Builds

VARIABLES
    sigs,   \* the variants in <Symbols>/anamnesis-signatures
    heads,  \* the builds whose entry in the offset store has the head
    pc,     \* where e's session is
    on,     \* on[e]: the build of e's image
    image,  \* image[e]: its kind
    head,   \* head[e]: whether e's entry has the head, from the store or newly
    read,   \* read[e]: the variants WriteSignature has read back
    missed  \* history: the builds whose last variant was tried in vain

files == <<sigs, heads>>
vars == <<sigs, heads, pc, on, image, head, read, missed>>

Init ==
    /\ sigs = {} /\ heads = {}
    /\ pc = [e \in Engines |-> "idle"]
    /\ on = [e \in Engines |-> NoBuild]
    /\ image = [e \in Engines |-> "torn"]
    /\ head = [e \in Engines |-> "none"]
    /\ read = [e \in Engines |-> {}]
    /\ missed = {}

Goto(e, l) == pc' = [pc EXCEPT ![e] = l] /\ UNCHANGED <<on, image>>

(* The session is over: nothing of its memory is used again. *)
End(e) ==
    /\ pc' = [pc EXCEPT ![e] = "idle"]
    /\ on' = [on EXCEPT ![e] = NoBuild]
    /\ image' = [image EXCEPT ![e] = "torn"]
    /\ head' = [head EXCEPT ![e] = "none"]
    /\ read' = [read EXCEPT ![e] = {}]

-----------------------------------------------------------------------------
(* One session. *)

(* Mutant of Open: an image whose kernel has no identity is analysed on.       *)
OpenUnnamed(e, b, i) ==
    /\ pc[e] = "idle"
    /\ pc' = [pc EXCEPT ![e] = "head"]
    /\ image' = [image EXCEPT ![e] = i]
    /\ UNCHANGED <<files, on, head, read, missed>>

(* The lookup in the offset store. *)
Open(e, b, i) ==
    /\ pc[e] = "idle"
    /\ pc' = [pc EXCEPT ![e] = "head"]
    /\ on' = [on EXCEPT ![e] = b]
    /\ image' = [image EXCEPT ![e] = i]
    /\ head' = [head EXCEPT ![e] = IF b \in heads THEN "stored" ELSE "none"]
    /\ UNCHANGED <<files, read, missed>>

(* A variant, cached or shipped, leads to the head of build b. *)
Covered(b) == \E v \in sigs \cup Shipped : <<v, b>> \in Locates

(* A stored head is the end of it, consumed or not; without the ring nothing  *)
(* passes the gate.                                                           *)
NothingNew(e) ==
    /\ pc[e] = "head" /\ (head[e] = "stored" \/ image[e] = "torn")
    /\ Goto(e, "save")
    /\ UNCHANGED <<files, head, read, missed>>

(* applyShippedSignatures: no variant is made of what a variant finds.        *)
Fingerprint(e) ==
    /\ pc[e] = "head" /\ head[e] = "none" /\ image[e] = "whole" /\ Covered(on[e])
    /\ head' = [head EXCEPT ![e] = "new"]
    /\ Goto(e, "save")
    /\ UNCHANGED <<files, read, missed>>

(* No variant comes of this session. *)
Miss(e) == missed' = missed \cup {on[e]}

(* Mutant of Anchor: the head is stored before its variant is made.            *)
AnchorStores(e) ==
    /\ pc[e] = "head" /\ head[e] = "none"
    /\ head' = [head EXCEPT ![e] = "new"]
    /\ heads' = heads \cup {on[e]}
    /\ \/ image[e] = "whole" /\ ~Covered(on[e]) /\ Goto(e, "author") /\ UNCHANGED missed
       \/ image[e] = "blind" /\ Goto(e, "save") /\ Miss(e)
    /\ UNCHANGED <<sigs, read>>

(* The head is the ring's entry in the module.                                *)
Anchor(e) ==
    /\ pc[e] = "head" /\ head[e] = "none"
    /\ head' = [head EXCEPT ![e] = "new"]
    /\ \/ image[e] = "whole" /\ ~Covered(on[e]) /\ Goto(e, "author") /\ UNCHANGED missed
       \/ image[e] = "blind" /\ Goto(e, "save") /\ Miss(e)
    /\ UNCHANGED <<files, read>>

(* Mutant of ReadBack: the file is not read back but begun anew.              *)
ReadBackNot(e) ==
    /\ pc[e] = "author"
    /\ read' = [read EXCEPT ![e] = {}]
    /\ Goto(e, "write")
    /\ UNCHANGED <<files, head, missed>>

(* WriteSignature reads the file; one that cannot be read is left alone ...    *)
ReadBack(e) ==
    /\ pc[e] = "author"
    /\ \/ read' = [read EXCEPT ![e] = sigs] /\ Goto(e, "write") /\ UNCHANGED missed
       \/ Miss(e) /\ Goto(e, "save") /\ UNCHANGED read
    /\ UNCHANGED <<files, head>>

(* ... and renames what it has read with the variant over it.  An error is     *)
(* logged, and the head stored all the same.                                  *)
Write(e) ==
    /\ pc[e] = "write"
    /\ \/ sigs' = read[e] \cup {on[e]} /\ missed' = missed \ {on[e]}
       \/ Miss(e) /\ UNCHANGED sigs
    /\ Goto(e, "save")
    /\ UNCHANGED <<heads, head, read>>

(* Whatever else the session has learnt is written over the build's entry, as  *)
(* it was when it was read but for that: a head stored since is lost.  The     *)
(* session may have learnt nothing, and the write may fail.                   *)
Save(e) ==
    /\ pc[e] = "save"
    /\ \/ heads' = IF head[e] = "none" THEN heads \ {on[e]} ELSE heads \cup {on[e]}
       \/ UNCHANGED heads
    /\ End(e)
    /\ UNCHANGED <<sigs, missed>>

(* The process dies. *)
Crash(e) ==
    /\ pc[e] # "idle"
    /\ End(e)
    /\ UNCHANGED <<files, missed>>

Step(e) == NothingNew(e) \/ Fingerprint(e) \/ Anchor(e) \/ ReadBack(e) \/ Write(e) \/ Save(e)

Sessions == \E e \in Engines : Step(e) \/ \E b \in Builds, i \in ImageKinds : Open(e, b, i)

Next == Sessions \/ \E e \in Engines : Crash(e)

Spec == Init /\ [][Next]_vars

(* The kills come to an end, sessions run to theirs, and of every build every  *)
(* engine meets, again and again, an image that is whole.                     *)
ConvergenceSpec ==
    /\ Spec /\ <>[][Sessions]_vars
    /\ \A e \in Engines : WF_vars(Step(e)) /\ \A b \in Builds : SF_vars(Open(e, b, "whole"))

-----------------------------------------------------------------------------
(* Correctness. *)

TypeOK ==
    /\ sigs \subseteq Builds /\ heads \subseteq Builds /\ missed \subseteq Builds
    /\ pc \in [Engines -> {"idle", "head", "author", "write", "save"}]
    /\ on \in [Engines -> Builds \cup {NoBuild}]
    /\ \A e \in Engines : pc[e] # "idle" => on[e] \in Builds
    /\ image \in [Engines -> ImageKinds]
    /\ head \in [Engines -> {"none", "stored", "new"}]
    /\ read \in [Engines -> SUBSET Builds]

(* "A same-global signature under a different name is a VARIANT and accumulates" *)
(* (sigstore.go:38): no write takes a variant away.  So it is for one engine,   *)
(* whatever it meets, fails to write or dies of.                              *)
VariantsKept == [][sigs \subseteq sigs']_vars

(* "On an anchor recovery the head's signature is authored" (recover_vmm.go:589),*)
(* and before the head is stored, for a stored head stops the authoring: with   *)
(* one engine a stored head is covered, wherever the engine is killed, unless   *)
(* the authoring itself failed ...                                            *)
HeadsCovered == \A b \in heads \ missed : Covered(b)

(* ... and any number of engines, which undo each other's writes, still never   *)
(* leave the store without a variant once it has such a head.                  *)
NeverEmptied == heads \ missed # {} => sigs \cup Shipped # {}

(* "each build that self-authors adds its own [...] so the file converges toward *)
(* covering the build lineages the cache has seen" (sigstore.go:38): with one   *)
(* engine, but for the builds it missed.  Two may lose a variant for good,      *)
(* since its head is stored then and no later image makes it again.            *)
LineagesCovered == <>[](\A b \in Builds \ missed : Covered(b))

=============================================================================
