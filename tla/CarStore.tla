------------------------------- MODULE CarStore -------------------------------
(***************************************************************************)
(* What one output folder promises about its car.db, whoever drives it and *)
(* however the store is written: raw outputs come and go one at a time and *)
(* never during a build; a build begins by dropping the store, puts in     *)
(* nothing but what the raw outputs hold, and leaves the store complete    *)
(* only when all of that is in; between builds no store changes.           *)
(***************************************************************************)
CONSTANTS
    Plugins, Supersedes, Triggers,
    Contents,   \* what a raw output may be
    Present,    \* those of an output that exists
    Usable,     \* those with records to load
    MaySkip,    \* an output may be unreadable when it is loaded
    MayStay     \* the old store may resist its removal

VARIABLES
    raw,        \* raw[p]: the output of p
    store,      \* "none", "partial" or "complete"
    held,       \* <<p, c>>: rows made from c, an output of p
    building

folder == <<raw, store, held, building>>

Init ==
    /\ raw \in [Plugins -> Contents]
    /\ store = "none" /\ held = {} /\ building = FALSE

Superseded(p) == \E q \in Plugins : <<q, p>> \in Supersedes /\ raw[q] \in Present

Loads == {<<p, raw[p]>> : p \in {q \in Plugins \ Triggers : raw[q] \in Usable /\ ~Superseded(q)}}

Unread == IF MaySkip THEN SUBSET Plugins ELSE {{}}

(* A collector, or the batch that removes an empty output.                     *)
Extract ==
    /\ ~building
    /\ \E p \in Plugins, c \in Contents : raw' = [raw EXCEPT ![p] = c]
    /\ UNCHANGED <<store, held, building>>

Begin ==
    /\ ~building /\ building' = TRUE
    /\ \/ store' = "none" /\ held' = {}
       \/ MayStay /\ store # "none" /\ UNCHANGED <<store, held>>
    /\ UNCHANGED raw

Create ==
    /\ building /\ store' = "partial"
    /\ UNCHANGED <<raw, held, building>>

Add ==
    /\ building /\ store = "partial"
    /\ \E some \in SUBSET Loads : held' = held \cup some
    /\ UNCHANGED <<raw, store, building>>

Finish ==
    /\ building /\ building' = FALSE
    /\ store = "partial" /\ store' = "complete"
    /\ \E unread \in Unread : held' = held \cup {l \in Loads : l[1] \notin unread}
    /\ UNCHANGED raw

(* An error or a kill: the store is left as far as it came.                    *)
Abandon ==
    /\ building /\ building' = FALSE
    /\ UNCHANGED <<raw, store, held>>

Next == Extract \/ Begin \/ Create \/ Add \/ Finish \/ Abandon

Spec == Init /\ [][Next]_folder

=============================================================================
