---------------------------- MODULE MCOffsetStore ----------------------------
(* Small instances of OffsetStore for TLC. *)
EXTENDS OffsetStore

CONSTANTS a1, a2, a3, g1

(* a1 and a2 carry an offset, a3 does not. *)
NoEntry == Absent

(* A seed made by hand: a1 known, the token offset wrong. *)
HandSeed == [val |-> [f \in Fields |-> IF f = a1 THEN "right"
                                       ELSE IF f = Token THEN "wrong" ELSE "none"],
             undec |-> {}]

(* A cache left by an image of which only a2 could be read. *)
OldCache == [val |-> [f \in Fields |-> IF f = a2 THEN "right" ELSE "none"],
             undec |-> {a3}]

=============================================================================
