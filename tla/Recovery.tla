------------------------------- MODULE Recovery -------------------------------
(***************************************************************************)
(* Offline recovery of the native engine (internal/memprocfs), one kernel  *)
(* build, one image after another: recoverPrePass turns what the offset    *)
(* store, the signature store and the image's own memory say into offsets, *)
(* the head of the process list, the debugger block and object typing;     *)
(* Processes and ActivePIDs use them to say which process is unlinked and  *)
(* which is hidden.                                                        *)
(*                                                                         *)
(* The stores start with anything, wrong values included; an image is torn *)
(* in every way its record allows: code that cannot be read, list entries  *)
(* that point nowhere, processes whose views disagree.                     *)
(***************************************************************************)
EXTENDS Naturals, FiniteSets

CONSTANTS
    Procs,      \* process objects the engine enumerates, System aside
    Sys,        \* the System process
    ListHead,       \* PsActiveProcessHead, in the kernel module
    Stray,      \* another address in the kernel module
    Lost,       \* a list pointer that is unreadable or not canonical
    None,       \* no address
    PIDs, SysPID, Junk,  \* Junk: what is read for a PID behind the list head
    Memories,
    Images,     \* the images that may be analysed, see Image
    Entries,    \* the entries the offset store may start with
    SigFiles,   \* the signature files it may start with, see sigs
    MinRing,    \* headRingGate: entries of a plausible ring
    MinLinked,  \* linkedPIDs: PIDs of a plausible ring
    MaxRing,    \* walkRing: bound of a walk
    WritesFail, \* a store write may fail
    MaxImages   \* bound: images analysed

Nodes == Procs \cup {Sys, ListHead, Stray}
InModule == {ListHead, Stray}

Accessors == {"CreateTime", "PID", "Exit"}
Offsets == Accessors \cup {"Token"}
Views == {"status", "time", "threads"}
Places == {"none", "right", "wrong", "outside"}

(* What the store knows of the build.  RVAs are relative to the module, so    *)
(* one value stands for the same thing in every boot; "outside" and Lost lie  *)
(* beyond the end of the module.                                              *)
Entry ==
    [off : [Offsets -> {"none", "right", "wrong"}],
     cookie : Places,
     head : InModule \cup {None, Lost},
     block : {"none", "right", "wrong"},
     keys : BOOLEAN]

(* An image.                                                                  *)
Image ==
    [named : BOOLEAN,            \* ntoskrnl's CodeView identity resolves
     span : BOOLEAN,             \* its base and size resolve
     text : {"none", "read", "proven"},  \* its bytes read; the scanner proves itself
     code : SUBSET Accessors,    \* accessors whose code decodes
     pdb : BOOLEAN,              \* the PDB gives the CreateTime offset
     sys : SUBSET Offsets,       \* fields of System's object that can be read
     next : [Nodes -> Nodes \cup {Lost}],
     prev : [Nodes -> Nodes \cup {Lost}],
     cookie : Places,            \* what RecoverGlobalVA finds for ObHeaderCookie
     site : BOOLEAN,             \* some code refers to the head
     block : {"plain", "encoded", "none"},
     decoy : BOOLEAN,            \* a stale copy of the block, which names Stray
     pid : [Procs -> PIDs],      \* what each object holds as its PID
     unread : SUBSET Procs,      \* objects whose PID field cannot be read
     gone : [Procs -> SUBSET Views],  \* views that say the process has ended
     memory : Memories]          \* what a pool sweep meets, see PoolSweep

ASSUME RecoveryAssumption ==
    /\ IsFiniteSet(Procs)
    /\ Images \subseteq Image /\ Entries \subseteq Entry
    /\ SigFiles \subseteq SUBSET (InModule \cup {Lost})
    /\ Cardinality(Nodes) = Cardinality(Procs) + 3
    /\ {Lost, None} \cap Nodes = {} /\ Lost # None /\ None \notin Images
    /\ SysPID \notin PIDs /\ Junk \notin PIDs \cup {SysPID}
    /\ MinRing \in Nat /\ MinLinked \in Nat /\ MaxRing \in Nat /\ MaxImages \in Nat
    /\ WritesFail \in BOOLEAN

VARIABLES
    store,    \* the entry in the offset store
    sigs,     \* where the stored signatures lead: nodes, Lost for nowhere
    images,   \* images analysed so far
    pc, img,
    entry,    \* the session's copy of the entry, and whether it has news
    dirty,
    at,       \* where ObHeaderCookie is read, "none" if not at all
    rec,      \* what was recovered and passed its gate
    linked,   \* PIDs on the ring; {} when there is no contrast
    unlinked, \* processes flagged Unlinked
    hidden    \* PIDs flagged Hidden

vars == <<store, sigs, images, pc, img, entry, dirty, at, rec, linked, unlinked, hidden>>
stores == <<store, sigs>>
session == <<images, img>>
verdicts == <<linked, unlinked, hidden>>

Nothing ==
    [token |-> FALSE, pid |-> FALSE, exit |-> FALSE, ct |-> FALSE, links |-> FALSE,
     proven |-> FALSE, head |-> None, kdbg |-> None, typing |-> FALSE]

(* No session, or a session that is over: nothing of its memory is used again.*)
Blank ==
    /\ img' = None
    /\ entry' = store /\ dirty' = FALSE /\ at' = "none" /\ rec' = Nothing
    /\ linked' = {} /\ unlinked' = {} /\ hidden' = {}

Init ==
    /\ store \in Entries /\ sigs \in SigFiles
    /\ images = 0 /\ pc = "idle"
    /\ img = None /\ entry = store /\ dirty = FALSE /\ at = "none"
    /\ rec = Nothing
    /\ linked = {} /\ unlinked = {} /\ hidden = {}

Goto(l) == pc' = l
Recovered(r) == rec' = r

-----------------------------------------------------------------------------
(* The process list of the image. *)

(* walkRing: the walk along Flink after at most i steps.                      *)
Walked(start) ==
    LET w[i \in 0 .. MaxRing] ==
          IF i = 0 THEN [at |-> start, seen |-> {}, closed |-> FALSE]
          ELSE LET v == w[i - 1] IN
               IF v.closed \/ v.at = Lost THEN v
               ELSE [at |-> img.next[v.at], seen |-> v.seen \cup {v.at},
                     closed |-> img.next[v.at] = start]
    IN w[MaxRing]

(* Its entries, {} when it dies or does not close in time.                    *)
Walk(start) == LET w == Walked(start) IN IF w.closed THEN w.seen ELSE {}

(* linksClosureHolds: Flink's Blink and Blink's Flink are System.             *)
Closure ==
    /\ img.next[Sys] # Lost /\ img.prev[img.next[Sys]] = Sys
    /\ img.prev[Sys] # Lost /\ img.next[img.prev[Sys]] = Sys

(* Mutant of HeadGate: System on the way is enough, the ring need not close.    *)
HeadGateOpenRing(h) == rec.links /\ Sys \in Walked(h).seen

(* headRingGate.                                                              *)
HeadGate(h) ==
    /\ rec.links
    /\ Cardinality(Walk(h)) >= MinRing /\ Sys \in Walk(h)

-----------------------------------------------------------------------------
(* Reading the stores. *)

(* ReadStoredOffsets, Merge: an entry without offsets is a miss, and what it  *)
(* knows of globals is lost with it; an image fills the gaps.                 *)
Known(e) == \E f \in Offsets : e.off[f] # "none"

Learn(e, i) ==
    [off |-> [f \in Offsets |->
                IF f \in i.code /\ e.off[f] = "none" THEN "right" ELSE e.off[f]],
     cookie |-> IF Known(e) THEN e.cookie ELSE "none",
     head |-> IF Known(e) THEN e.head ELSE None,
     block |-> IF Known(e) THEN e.block ELSE "none",
     keys |-> Known(e) /\ e.keys]

(* Another image of the build; without an identity of the kernel or any       *)
(* offset nothing is recovered.                                               *)
Open ==
    /\ pc = "idle" /\ images < MaxImages
    /\ images' = images + 1
    /\ \E i \in Images :
         /\ img' = i /\ entry' = Learn(store, i)
         /\ Goto(IF i.named /\ Known(entry') THEN "token" ELSE "list")
         /\ Recovered([Nothing EXCEPT !.ct = i.pdb])
    /\ dirty' = (entry'.off # store.off)
    /\ at' = "none"
    /\ linked' = {} /\ unlinked' = {} /\ hidden' = {}
    /\ UNCHANGED stores

(* _EPROCESS.Token: trusted while System's token carries S-1-5-18 through it,  *)
(* solved again and overwritten otherwise.                                    *)
Token ==
    /\ pc = "token"
    /\ IF "Token" \in img.sys
         THEN /\ Recovered([rec EXCEPT !.token = TRUE])
              /\ entry' = [entry EXCEPT !.off["Token"] = "right"]
              /\ dirty' = (dirty \/ entry.off["Token"] # "right")
         ELSE UNCHANGED <<entry, dirty, rec>>
    /\ Goto("gates")
    /\ UNCHANGED <<stores, session, at, verdicts>>

(* An offset is consumed only when it decodes System to the known value.      *)
Passes(f) == entry.off[f] = "right" /\ f \in img.sys

Gates ==
    /\ pc = "gates"
    /\ Recovered([rec EXCEPT !.pid = Passes("PID"), !.exit = Passes("Exit"),
                             !.links = Passes("PID") /\ Closure])
    /\ Goto("cookie")
    /\ UNCHANGED <<stores, session, entry, dirty, at, verdicts>>

(* ObHeaderCookie: the stored RVA if it lies in the module; else what the     *)
(* code of ObGetObjectType names, kept only if it lies in the module and      *)
(* nothing is stored (base wins).                                             *)
Cookie ==
    /\ pc = "cookie"
    /\ IF img.span /\ entry.cookie \in {"right", "wrong"}
         THEN at' = entry.cookie /\ UNCHANGED <<entry, dirty>>
         ELSE /\ at' = img.cookie
              /\ IF img.span /\ img.cookie \in {"right", "wrong"} /\ entry.cookie = "none"
                   THEN entry' = [entry EXCEPT !.cookie = img.cookie] /\ dirty' = TRUE
                   ELSE UNCHANGED <<entry, dirty>>
    /\ Goto("signatures")
    /\ UNCHANGED <<stores, session, rec, verdicts>>

(* fingerprintSelfTest, then every signature whose global is not known yet;   *)
(* the head must pass its gate.                                               *)
Located == {h \in sigs : h \in InModule /\ HeadGate(h)}

Signatures ==
    /\ pc = "signatures"
    /\ LET proven == img.span /\ img.text = "proven" IN
       IF proven /\ entry.head = None /\ Located # {}
         THEN \E h \in Located :
                /\ Recovered([rec EXCEPT !.proven = proven, !.head = h])
                /\ entry' = [entry EXCEPT !.head = h] /\ dirty' = TRUE
         ELSE Recovered([rec EXCEPT !.proven = proven]) /\ UNCHANGED <<entry, dirty>>
    /\ Goto("head")
    /\ UNCHANGED <<stores, session, at, verdicts>>

-----------------------------------------------------------------------------
(* recoverProcessHead *)

(* A stored head is gated; one that fails is ignored, and stays in the store. *)
StoredHead ==
    /\ pc = "head" /\ rec.head = None /\ img.span /\ entry.head \in InModule
    /\ Recovered([rec EXCEPT !.head = IF HeadGate(entry.head) THEN entry.head ELSE None])
    /\ Goto("kdbg")
    /\ UNCHANGED <<stores, session, entry, dirty, at, verdicts>>

(* Else the one entry of System's ring that lies in the module is the head.   *)
Anchors == IF rec.links THEN Walk(Sys) \cap InModule ELSE {}

(* Mutant of AnchorHead: what was anchored replaces what is stored.            *)
AnchorHeadStores ==
    /\ pc = "head" /\ rec.head = None /\ img.span /\ entry.head \notin InModule
    /\ Cardinality(Anchors) = 1
    /\ \E h \in Anchors :
         /\ Recovered([rec EXCEPT !.head = h])
         /\ entry' = [entry EXCEPT !.head = h] /\ dirty' = TRUE
    /\ Goto("kdbg")
    /\ UNCHANGED <<stores, session, at, verdicts>>

(* A signature of a site that refers to the head is authored, if there is one *)
(* and it can be written.                                                     *)
AnchorHead ==
    /\ pc = "head" /\ rec.head = None /\ img.span /\ entry.head \notin InModule
    /\ Cardinality(Anchors) = 1
    /\ \E h \in Anchors :
         /\ Recovered([rec EXCEPT !.head = h])
         /\ \/ rec.proven /\ img.site /\ sigs' = sigs \cup {h}
            \/ (~rec.proven \/ ~img.site \/ WritesFail) /\ UNCHANGED sigs
         /\ IF entry.head = None
              THEN entry' = [entry EXCEPT !.head = h] /\ dirty' = TRUE
              ELSE UNCHANGED <<entry, dirty>>
    /\ Goto("kdbg")
    /\ UNCHANGED <<store, session, at, verdicts>>

NoHead ==
    /\ pc = "head"
    /\ \/ rec.head # None \/ ~img.span
       \/ entry.head \notin InModule /\ Cardinality(Anchors) # 1
    /\ Goto("kdbg")
    /\ UNCHANGED <<stores, session, entry, dirty, at, rec, verdicts>>

-----------------------------------------------------------------------------
(* recoverKdbg *)

(* Mutant of Agrees: the cross-check with the head is left out.                *)
AgreesNot(h) == TRUE

(* acceptKdbg: the block names a canonical head, the recovered one if any.    *)
Agrees(h) == rec.head = None \/ h = rec.head

(* The true block names ListHead; a stale copy of it names Stray.  A stored RVA   *)
(* of the copy is one that was accepted for want of a head.                   *)
PlainBlocks ==
    {b \in {"right", "wrong"} :
        \/ b = "right" /\ img.block = "plain" /\ Agrees(ListHead)
        \/ b = "wrong" /\ img.decoy /\ Agrees(Stray)}

Names(b) == IF b = "right" THEN ListHead ELSE Stray

(* The stored block, or the first plaintext one the scan finds; base wins.    *)
KdbgPlain ==
    /\ pc = "kdbg" /\ img.span
    /\ \/ /\ entry.block \in PlainBlocks
          /\ Recovered([rec EXCEPT !.kdbg = Names(entry.block)])
          /\ UNCHANGED <<entry, dirty>>
       \/ /\ entry.block \notin PlainBlocks /\ img.text # "none"
          /\ \E b \in PlainBlocks :
               /\ Recovered([rec EXCEPT !.kdbg = Names(b)])
               /\ IF entry.block = "none"
                    THEN entry' = [entry EXCEPT !.block = b] /\ dirty' = TRUE
                    ELSE UNCHANGED <<entry, dirty>>
    /\ Goto("save")
    /\ UNCHANGED <<stores, session, at, verdicts>>

NoPlain == entry.block \notin PlainBlocks /\ (PlainBlocks = {} \/ img.text = "none")

(* An encoded block decodes with the stored RVAs, or with those the kernel's  *)
(* own decoder names, which are then kept.                                    *)
StoredKeys == entry.keys /\ entry.block = "right"

KdbgEncoded ==
    /\ pc = "kdbg" /\ img.span /\ NoPlain
    /\ img.block = "encoded" /\ Agrees(ListHead)
    /\ StoredKeys \/ img.text # "none"
    /\ Recovered([rec EXCEPT !.kdbg = ListHead])
    /\ entry' = [entry EXCEPT !.keys = TRUE,
                              !.block = IF entry.block = "none" THEN "right" ELSE entry.block]
    /\ dirty' = (dirty \/ entry' # entry)
    /\ Goto("save")
    /\ UNCHANGED <<stores, session, at, verdicts>>

NoKdbg ==
    /\ pc = "kdbg"
    /\ \/ ~img.span
       \/ /\ NoPlain
          /\ \/ img.block # "encoded" \/ ~Agrees(ListHead)
             \/ ~StoredKeys /\ img.text = "none"
    /\ Goto("save")
    /\ UNCHANGED <<stores, session, entry, dirty, at, rec, verdicts>>

-----------------------------------------------------------------------------
(* The end of the pre-pass. *)

Save ==
    /\ pc = "save"
    /\ \/ dirty /\ store' = entry
       \/ (~dirty \/ WritesFail) /\ UNCHANGED store
    /\ Goto("typing")
    /\ UNCHANGED <<sigs, session, entry, dirty, at, rec, verdicts>>

(* gateObCookie: the byte there must decode System and System's token to two  *)
(* different plausible types.  CreateTime: a plausible time of System's.      *)
Typing ==
    /\ pc = "typing"
    /\ Recovered([rec EXCEPT !.typing = at = "right" /\ rec.token,
                             !.ct = rec.ct \/ Passes("CreateTime")])
    /\ Goto("list")
    /\ UNCHANGED <<stores, session, entry, dirty, at, verdicts>>

-----------------------------------------------------------------------------
(* Processes and ActivePIDs. *)

PidAt(n) == CASE n \in Procs -> img.pid[n] [] n = Sys -> SysPID [] OTHER -> Junk

(* linkedPIDs: the PIDs read along the ring, from the head if it is known.    *)
RingPIDs ==
    LET from == IF rec.head # None THEN rec.head ELSE Sys
        pids == {PidAt(n) : n \in Walk(from) \ (img.unread \cup {rec.head})}
    IN IF rec.links /\ Cardinality(pids) >= MinLinked THEN pids ELSE {}

List ==
    /\ pc = "list"
    /\ linked' = RingPIDs
    /\ unlinked' = IF linked' = {} THEN {} ELSE {p \in Procs : img.pid[p] \notin linked'}
    /\ Goto("scan")
    /\ UNCHANGED <<stores, session, entry, dirty, at, rec, hidden>>

(* The pool-tag scan comes here; what it finds is only logged.                *)
Scan ==
    /\ pc = "scan"
    /\ Goto("active")
    /\ UNCHANGED <<stores, session, entry, dirty, at, rec, verdicts>>

(* What a view says through an offset: the truth if the offset is right, else  *)
(* whatever lies there.                                                       *)
Shown(f, view) ==
    IF entry.off[f] = "right" THEN {{p \in Procs : view \notin img.gone[p]}} ELSE SUBSET Procs

(* stillActive, exited, hasThreads: what is not known counts as ended; the     *)
(* thread list is asked for by PID.                                           *)
Threaded == {img.pid[p] : p \in {q \in Procs : "threads" \notin img.gone[q]}}

(* Mutant of Active: an unlinked process with threads that has not exited by    *)
(* one view is hidden.                                                         *)
ActiveOfTwo ==
    /\ pc = "active"
    /\ \E s \in Shown("Exit", "status") :
         hidden' = IF linked = {} \/ ~rec.exit THEN {}
                   ELSE {img.pid[p] : p \in s} \cap (Threaded \ linked)
    /\ Goto("done")
    /\ UNCHANGED <<stores, session, entry, dirty, at, rec, linked, unlinked>>

(* ActivePIDs: three views must agree that an unlinked process still runs.    *)
Active ==
    /\ pc = "active"
    /\ \E s \in Shown("Exit", "status"),
          t \in (IF img.pdb THEN {{p \in Procs : "time" \notin img.gone[p]}}
                            ELSE Shown("CreateTime", "time")) :
         hidden' = IF linked = {} \/ ~rec.exit \/ ~rec.ct THEN {}
                   ELSE {img.pid[p] : p \in s \cap t} \cap (Threaded \ linked)
    /\ Goto("done")
    /\ UNCHANGED <<stores, session, entry, dirty, at, rec, linked, unlinked>>

(* The next image, or a kill at any step.                                     *)
Close ==
    /\ pc # "idle"
    /\ Goto("idle") /\ Blank
    /\ UNCHANGED <<stores, images>>

RecoveryNext ==
    \/ Open \/ Token \/ Gates \/ Cookie \/ Signatures
    \/ StoredHead \/ AnchorHead \/ NoHead
    \/ KdbgPlain \/ KdbgEncoded \/ NoKdbg
    \/ Save \/ Typing \/ List \/ Scan \/ Active \/ Close

-----------------------------------------------------------------------------
(* Correctness. *)

PcStates == {"idle", "token", "gates", "cookie", "signatures", "head", "kdbg",
             "save", "typing", "list", "scan", "active", "done"}

RecoveryTypeOK ==
    /\ store \in Entry /\ entry \in Entry /\ (img = None <=> pc = "idle")
    /\ sigs \subseteq InModule \cup {Lost}
    /\ images \in 0 .. MaxImages /\ pc \in PcStates
    /\ dirty \in BOOLEAN /\ at \in Places
    /\ rec \in [token : BOOLEAN, pid : BOOLEAN, exit : BOOLEAN, ct : BOOLEAN,
                links : BOOLEAN, proven : BOOLEAN, typing : BOOLEAN,
                head : InModule \cup {None}, kdbg : InModule \cup {None}]
    /\ linked \subseteq PIDs \cup {SysPID, Junk}
    /\ unlinked \subseteq Procs /\ hidden \subseteq PIDs

(* The process ring of an image, as a set: what Flink permutes, System in it,  *)
(* and nothing smaller.  A torn list has none.                                *)
IsRing(c) ==
    /\ \A n \in c : img.next[n] \in c
    /\ {img.next[n] : n \in c} = c
    /\ \A d \in (SUBSET c) \ {{}, c} : ~({img.next[n] : n \in d} \subseteq d)

Ring ==
    {c \in {d \cup {Sys} : d \in SUBSET (Nodes \ {Sys})} : Cardinality(c) <= MaxRing /\ IsRing(c)}

(* "A wrong head ... fails here and is never consumed" (recover_vmm.go:565):    *)
(* whether it comes from the store, a signature or the image, and whatever is  *)
(* torn or poisoned, the head in use lies in the module and on System's ring.  *)
HeadOnRing ==
    rec.head # None => rec.head \in InModule /\ \E c \in Ring : rec.head \in c

(* "Hidden only when three independent reads agree it is still running"         *)
(* (engine_vmm.go:342): with every kind of poison in the store, a PID is        *)
(* flagged Hidden exactly when the offsets and the ring can be trusted, a      *)
(* process of that PID runs by status and by exit time, the PID owns a thread, *)
(* and no object on the ring whose PID can be read has it.                     *)
OnRing(c) == {PidAt(n) : n \in c \ (img.unread \cup {rec.head})}
Runs(p) == {"status", "time"} \cap img.gone[p] = {} /\ img.pid[p] \in Threaded

HiddenExactly ==
    pc = "done" =>
      hidden = IF rec.links /\ rec.exit /\ rec.ct
                 THEN UNION {IF Cardinality(OnRing(c)) < MinLinked THEN {}
                             ELSE {img.pid[p] : p \in {q \in Procs : Runs(q)}} \ OnRing(c) : c \in Ring}
                 ELSE {}

(* "Every path ends at the same gate" (recover_vmm.go:715): the debugger block  *)
(* in use and the head in use, found in any of four and three ways, agree.     *)
KdbgAgrees == rec.kdbg # None /\ rec.head # None => rec.kdbg = rec.head

(* "base wins in the store" (recover_vmm.go:607), "token recovery self-heals"   *)
(* (recover_vmm.go:156): over any images, crashes and failed writes, what the  *)
(* store knows is never replaced, with the token offset as the one exception,  *)
(* which only ever gets right.                                                 *)
BaseWins ==
    [][Known(store) =>
        /\ \A f \in Offsets : store.off[f] # "none" =>
              \/ store'.off[f] = store.off[f]
              \/ f = "Token" /\ store'.off[f] = "right"
        /\ store.cookie # "none" => store'.cookie = store.cookie
        /\ store.head # None => store'.head = store.head
        /\ store.block # "none" => store'.block = store.block]_vars

=============================================================================
