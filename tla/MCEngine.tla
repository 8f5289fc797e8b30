------------------------------- MODULE MCEngine -------------------------------
(* Small instances of the engine for TLC. *)
EXTENDS Engine, TLC

CONSTANTS a, b, p1, p2

(* Lists in both directions: whole; a unlinked; b's Flink bent to itself (a rho *)
(* seen from System); cut at b; bent round the head; through a second module   *)
(* address; System alone.                                                      *)
Flinks(c, sys, h, n, s) == [x \in Nodes |->
    CASE x = Sys -> sys [] x = a -> n [] x = b -> s [] x = ListHead -> h [] OTHER -> c]

Whole == Flinks(Lost, a, Sys, b, ListHead)
Back == Flinks(Lost, ListHead, b, Sys, a)
Unlinked == Flinks(Lost, b, Sys, b, ListHead)
UnlinkedBack == Flinks(Lost, ListHead, b, Sys, Sys)
Rho == Flinks(Lost, a, Sys, b, b)
Torn == Flinks(Lost, a, Sys, b, Lost)
Headless == Flinks(Lost, a, Sys, b, Sys)
HeadlessBack == Flinks(Lost, b, b, Sys, a)
TwoHeads == Flinks(ListHead, a, Sys, b, Stray)
StrayHead == Flinks(Sys, a, Sys, b, Stray)
StrayBack == Flinks(b, Stray, b, Sys, a)

Rings == {<<Whole, Back>>, <<Unlinked, UnlinkedBack>>, <<Rho, Back>>, <<Torn, Back>>,
          <<Headless, HeadlessBack>>, <<TwoHeads, Back>>, <<StrayHead, StrayBack>>}

Fine == [named |-> TRUE, span |-> TRUE, text |-> "proven", code |-> Accessors, pdb |-> FALSE,
         sys |-> Offsets, next |-> Whole, prev |-> Back, cookie |-> "right", site |-> TRUE,
         block |-> "plain", decoy |-> FALSE, pid |-> (a :> p1 @@ b :> p2), unread |-> {},
         gone |-> [p \in Procs |-> {}], memory |-> NoMemory]

WithRing(i) == {[i EXCEPT !.next = r[1], !.prev = r[2]] : r \in Rings}

(* What the store and the module say, for every ring.                          *)
Sources ==
    UNION {WithRing([Fine EXCEPT !.text = t[1], !.cookie = t[2], !.block = k[1], !.decoy = k[2]]) :
             t \in {<<"none", "right">>, <<"read", "outside">>, <<"proven", "right">>},
             k \in {<<"plain", FALSE>>, <<"plain", TRUE>>, <<"encoded", TRUE>>, <<"none", TRUE>>}}

(* What the processes say: views, PIDs and what can be read of System.         *)
Claims ==
    {[Fine EXCEPT !.next = Unlinked, !.prev = UnlinkedBack, !.gone = g, !.pid = q[1],
                  !.unread = q[2], !.sys = s[1], !.code = s[2], !.pdb = s[3]] :
       g \in [Procs -> {{}, {"status"}, {"time", "threads"}}],
       q \in {<<(a :> p1 @@ b :> p2), {}>>, <<(a :> p1 @@ b :> p2), {b}>>, <<(a :> p1 @@ b :> p1), {b}>>},
       s \in {<<Offsets, Accessors, FALSE>>, <<Offsets \ {"Exit"}, {}, TRUE>>, <<{"PID", "Exit"}, {"Exit"}, TRUE>>}}

Poor == {[Fine EXCEPT !.span = FALSE, !.text = "none"], [Fine EXCEPT !.named = FALSE],
         [Fine EXCEPT !.site = FALSE, !.cookie = "none"], [Fine EXCEPT !.cookie = "wrong"]}

(* What the pool holds: up to three processes and echoes of the tag; bodies    *)
(* two chunks behind their header, or three.                                   *)
Pool(hs, echoes, hidden2, holes2, far) ==
    LET Body(h) == IF h = far THEN h + 3 ELSE h + 2 IN
    [tags |-> hs \cup echoes, known |-> {Body(h) : h \in hs \ hidden2},
     typed |-> {Body(h) : h \in hs}, holes |-> holes2]

SomePools ==
    {Pool(hs, e, d, o, f) :
       hs \in {{4}, {1, 14}, {4, 9}, {4, 9, 14}, {1, 9, 19}, {1, 4, 9}},
       e \in {{}, {5, 6}, {10, 11}}, d \in {{}, {4}, {9, 14}}, o \in {{}, {8, 9}}, f \in {0, 14}}

Pools == {[Fine EXCEPT !.memory = m] : m \in SomePools}
AllPools == SomePools \cup {NoMemory}

SomeImages == Sources \cup Claims \cup Poor \cup Pools

Empty == [off |-> [f \in Offsets |-> "none"], cookie |-> "none", head |-> None,
          block |-> "none", keys |-> FALSE]

(* A clean store, one with wrong offsets, one with wrong globals.              *)
SomeEntries ==
    {Empty,
     [Empty EXCEPT !.off = [f \in Offsets |-> "wrong"]],
     [Empty EXCEPT !.off["PID"] = "right", !.head = Stray, !.cookie = "wrong", !.block = "wrong"],
     [Empty EXCEPT !.off["PID"] = "right", !.head = Lost, !.cookie = "outside", !.keys = TRUE]}

SomeSigs == {{}, {ListHead, Lost}, {Stray}}

=============================================================================
