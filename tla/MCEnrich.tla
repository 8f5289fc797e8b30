------------------------------- MODULE MCEnrich -------------------------------
(* Small instance of Enrich for TLC. *)
EXTENDS Enrich, TLC

CONSTANTS x, y, z, c1, c2, alice, system, alias, sid, sysSid, l1, l2, h1, h2

SystemName == sysSid :> system

(* x, then its child y, then z, who may have the PID of either.                *)
Lives ==
    {<<(x :> 1 @@ y :> 2 @@ z :> pz), (x :> None @@ y :> x @@ z :> q),
       (x :> 1 @@ y :> my @@ z :> 4), (x :> ex @@ y :> ey @@ z :> 0)>> :
       pz \in {1, 2, 3}, q \in {x, y}, my \in {1, 2}, ex \in {0, 2, 3}, ey \in {0, 3, 5}}

Accounts ==
    {<<[p \in Procs |-> alice], [p \in Procs |-> sid], (x :> l1 @@ y :> l1 @@ z :> l2)>>,
     <<(x :> alias @@ y :> None @@ z :> alice), (x :> sysSid @@ y :> sysSid @@ z :> sid),
       (x :> None @@ y :> l1 @@ z :> l1)>>}

Opened ==
    {<<(c1 :> x @@ c2 :> y), (c1 :> 2 @@ c2 :> 3), {c1, c2}, {c1}>>,
     <<(c1 :> z @@ c2 :> y), (c1 :> 5 @@ c2 :> 2), {c1, c2}, {}>>,
     <<(c1 :> x @@ c2 :> z), (c1 :> 1 @@ c2 :> 4), {c2}, {c2}>>}

Row(says, s, data) == [says |-> says, sid |-> s, data |-> data]
Attr(n, attr, name, t) == [n |-> n, attr |-> attr, name |-> name, created |-> t]

Others ==
    {<<TRUE, <<Row("active", None, h2), Row("computer", None, h1), Row("computer", None, h2)>>,
       <<Attr(1, "FN", 1, 1), Attr(1, "SI", 0, 3), Attr(1, "FN", 2, 2), Attr(2, "DATA", 0, 0)>>>>,
     <<FALSE, <<Row("profile", sid, alias), Row("profile", sid, alice), Row("sidhive", sid, h1),
                Row("active", None, h2)>>,
       <<Attr(1, "FN", 2, 4), Attr(2, "SI", 0, 0), Attr(2, "FN", 2, 1)>>>>}

(* For a PID the library has the last process enumerated with it, or the first *)
(* one and none for one of the PIDs.                                          *)
Answers(pid, order) ==
    LET Of(n) == SelectSeq(order, LAMBDA p : pid[p] = n)
    IN {[n \in PIDs |-> IF Of(n) = <<>> THEN None ELSE Last(Of(n))],
        [n \in PIDs |-> IF Of(n) = <<>> \/ n = 3 THEN None ELSE Of(n)[1]]}

SomeWorlds ==
    {w \in UNION {{[pid |-> l[1], parent |-> l[2], made |-> l[3], ended |-> l[4], order |-> o, dated |-> d,
             user |-> a[1], sid |-> a[2], luid |-> a[3], by |-> c[1], opened |-> c[2],
             timed |-> c[3], listens |-> c[4], service |-> z, hived |-> r[1], regs |-> r[2], mft |-> r[3],
             listed |-> n] :
              d \in {{x, y, z}, {y}}, a \in Accounts, c \in Opened, r \in Others, n \in Answers(l[1], o)} :
              l \in Lives, o \in {<<x, y, z>>, <<z, y, x>>, <<z, y>>, <<x, z>>}} : Coherent(w)}

SomeSets ==
    {{"access", "files", "keys", "modules", "network", "processes", "registry", "sessions",
      "terminated", "threads", "unloaded", "mftscan", "netstat", "svcscan"},
     {"files", "netstat", "processes", "sessions"},
     {"network", "netstat", "terminated"}}

=============================================================================
