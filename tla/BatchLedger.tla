----------------------------- MODULE BatchLedger -----------------------------
(* Batch implements Ledger. *)
EXTENDS Batch

(* While bumpStall rewrites a marker its old count is what the ledger holds: *)
(* a kill in between loses it, the write completes the stall.                *)
Rewriting(e) == pc = "mark" /\ e = Entry

LedgerDone == {e \in Entries : Valid(file[e])}

LedgerTries ==
    [e \in Entries |-> IF Rewriting(e) THEN count - 1 ELSE marker[e]]

L == INSTANCE Ledger WITH
        MaxTries <- MaxStalls,
        done <- LedgerDone,
        tries <- LedgerTries

(* The files and markers the batch leaves behind, over any sequence of         *)
(* processes, re-execs, kills and reruns, evolve as the ledger's entries may:  *)
(* one entry at a time, no done entry reopened without FORCE, no given-up      *)
(* entry ever touched again, with or without FORCE.                            *)
ImplementsLedger == L!Spec

=============================================================================
