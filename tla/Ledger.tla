-------------------------------- MODULE Ledger --------------------------------
(***************************************************************************)
(* What the batch promises about one (image folder, collector) entry, with *)
(* processes, files and store left out: an entry is open until a valid     *)
(* output exists, stays done unless FORCE reopens it, and is given up for  *)
(* good once its collector stalled MaxTries times.                         *)
(***************************************************************************)
EXTENDS Naturals

CONSTANTS Entries, MaxTries

VARIABLES
    done,   \* entries with a valid output
    tries,  \* stalls recorded against an entry
    force   \* the current invocation may redo done entries

ledger == <<done, tries, force>>

Init ==
    /\ done \subseteq Entries
    /\ tries = [e \in Entries |-> 0]
    /\ force \in BOOLEAN

(* An entry with MaxTries recorded stalls is never attempted again. *)
Active(e) == tries[e] < MaxTries

Complete(e) ==
    /\ Active(e) /\ e \notin done
    /\ done' = done \cup {e}
    /\ UNCHANGED <<tries, force>>

Reopen(e) ==
    /\ Active(e) /\ force /\ e \in done
    /\ done' = done \ {e}
    /\ UNCHANGED <<tries, force>>

Stall(e) ==
    /\ Active(e) /\ (force \/ e \notin done)
    /\ tries' = [tries EXCEPT ![e] = @ + 1]
    /\ UNCHANGED <<done, force>>

(* A success clears the record; so does losing it while it is rewritten. *)
Clear(e) ==
    /\ Active(e)
    /\ tries' = [tries EXCEPT ![e] = 0]
    /\ UNCHANGED <<done, force>>

NewRun ==
    /\ force' \in BOOLEAN
    /\ UNCHANGED <<done, tries>>

Next ==
    \/ NewRun
    \/ \E e \in Entries : Complete(e) \/ Reopen(e) \/ Stall(e) \/ Clear(e)

Spec == Init /\ [][Next]_ledger

=============================================================================
