---------------------------- MODULE PoolSweepProofs ----------------------------
(***************************************************************************)
(* Theorems about the pool-tag sweep, for any layout of memory, margins,   *)
(* gaps, caps and sizes of a read: what the plans cover, that a sweep      *)
(* finds each header in them once, and which objects it reports.           *)
(***************************************************************************)
EXTENDS EngineProofs

(* Numbers and ranges. *)

LEMMA LeastIs ==
    ASSUME NEW S \in SUBSET Nat, S # {}
    PROVE  Least(S) \in S /\ \A y \in S : Least(S) <= y
BY LeastOne DEF Least

LEMMA GreatestIs ==
    ASSUME NEW S \in SUBSET Nat, S # {}, NEW n \in Nat, \A x \in S : x <= n
    PROVE  Greatest(S) \in S /\ \A y \in S : y <= Greatest(S)
<1> DEFINE T == {t \in Nat : n - t \in S}
<1>1. PICK x \in S : TRUE
  OBVIOUS
<1>2. n - x \in T
  OBVIOUS
<1>3. PICK m \in T : \A k \in T : m <= k
  BY <1>2, LeastOne
<1>4. n - m \in S /\ \A y \in S : y <= n - m
  <2> SUFFICES ASSUME NEW y \in S PROVE y <= n - m
    OBVIOUS
  <2>1. n - y \in T
    OBVIOUS
  <2>2. m <= n - y
    BY <1>3, <2>1
  <2>3. m \in Nat /\ y \in Nat
    OBVIOUS
  <2> HIDE DEF T
  <2> QED BY <2>2, <2>3
<1> QED BY <1>4 DEF Greatest

Interval == {r \in Nat \X Nat : r[1] < r[2]}

(* A set of ranges below n.                                                    *)
Below(rs, n) == \A r \in rs : r[2] <= n

LEMMA FirstIs ==
    ASSUME NEW rs \in SUBSET Interval, rs # {}
    PROVE  First(rs) \in rs /\ \A q \in rs : First(rs)[1] <= q[1]
<1> DEFINE S == {r[1] : r \in rs}
<1>1. S \in SUBSET Nat /\ S # {}
  BY DEF Interval
<1>2. PICK m \in S : \A k \in S : m <= k
  BY <1>1, LeastOne
<1>3. PICK r \in rs : r[1] = m
  OBVIOUS
<1>4. \A q \in rs : r[1] <= q[1]
  BY <1>2, <1>3
<1> QED BY <1>4 DEF First

LEMMA CoveredIn ==
    ASSUME NEW rs \in SUBSET Interval, NEW y
    PROVE  y \in Covered(rs) <=> y \in Nat /\ \E r \in rs : r[1] <= y /\ y < r[2]
BY DEF Covered, Interval

LEMMA CoveredFinite ==
    ASSUME NEW rs \in SUBSET Interval, NEW n \in Nat, Below(rs, n)
    PROVE  IsFiniteSet(Covered(rs)) /\ Bytes(rs) \in Nat
<1>1. Covered(rs) \subseteq 0 .. n
  <2> SUFFICES ASSUME NEW y \in Covered(rs) PROVE y \in 0 .. n
    OBVIOUS
  <2>1. y \in Nat /\ \E r \in rs : r[1] <= y /\ y < r[2]
    BY CoveredIn
  <2> QED BY <2>1 DEF Below, Interval
<1>2. IsFiniteSet(0 .. n)
  BY FS_Interval
<1>3. IsFiniteSet(Covered(rs))
  BY <1>1, <1>2, FS_Subset
<1> QED BY <1>3, FS_CardinalityType DEF Bytes

-----------------------------------------------------------------------------
(* Planning. *)

(* What a plan is made of.                                                     *)
IsPlan(rs, n) == rs \subseteq Interval /\ Below(rs, n) /\ Disjoint(rs)

LEMMA BuildIs ==
    ASSUME NEW n \in Nat, NEW vas \in SUBSET (0 .. n), NEW margin \in Nat, NEW gap \in Nat
    PROVE  /\ IsPlan(Build(vas, margin, gap), n + margin + 1)
           /\ vas \subseteq Covered(Build(vas, margin, gap))
<1> DEFINE Start(v) == IF v < margin THEN 0 ELSE v - margin
           End(v) == v + margin + 1
           Apart(v, w) == End(v) + gap < Start(w)
           heads == {w \in vas : \A v \in vas : v < w => Apart(v, w)}
           lasts == {v \in vas : \A w \in vas : v < w => Apart(v, w)}
           Final(h) == Least({v \in lasts : h <= v})
           B == Build(vas, margin, gap)
<1>1. B = {<<Start(h), End(Final(h))>> : h \in heads}
  BY DEF Build
<1> HIDE DEF Final
<1>2. vas \in SUBSET Nat /\ \A v \in vas : v \in Nat /\ v <= n
  OBVIOUS
<1>3. \A v \in vas : Start(v) \in Nat /\ End(v) \in Nat /\ Start(v) <= v /\ v < End(v)
  BY <1>2
<1>4. \A u, v, w \in vas : Apart(v, w) => (u <= v => Apart(u, w)) /\ (w <= u => Apart(v, u))
  BY <1>2
<1>5. \A v, w \in vas : Apart(v, w) => End(v) < Start(w) /\ v < w
  BY <1>2
<1>h. \A w : w \in heads <=> w \in vas /\ \A v \in vas : v < w => Apart(v, w)
  OBVIOUS
<1>l. \A v : v \in lasts <=> v \in vas /\ \A w \in vas : v < w => Apart(v, w)
  OBVIOUS
<1> HIDE DEF Start, End, Apart, B, heads, lasts
(* Every range ends: the greatest address is the last of one. *)
<1>6. ASSUME NEW h \in vas
      PROVE  /\ Final(h) \in vas /\ h <= Final(h)
             /\ \A w \in vas : Final(h) < w => Apart(Final(h), w)
             /\ \A v \in lasts : h <= v => Final(h) <= v
  <2>1. vas \in SUBSET Nat /\ Greatest(vas) \in vas /\ \A y \in vas : y <= Greatest(vas)
    BY <1>2, GreatestIs
  <2> DEFINE last == Greatest(vas)
  <2> HIDE DEF last
  <2>1a. last \in vas /\ \A y \in vas : y <= last
    BY <2>1 DEF last
  <2>1b. \A w \in vas : ~(last < w)
    BY <1>2, <2>1a
  <2>2. last \in {v \in lasts : h <= v}
    BY <1>l, <2>1a, <2>1b
  <2>3. {v \in lasts : h <= v} \in SUBSET Nat
    BY <1>l, <1>2
  <2>4. Final(h) \in {v \in lasts : h <= v} /\ \A y \in {v \in lasts : h <= v} : Final(h) <= y
    BY <2>2, <2>3, LeastIs DEF Final
  <2> QED BY <1>l, <2>4
(* The address before a head is the last of its range. *)
<1>7. ASSUME NEW g \in heads, NEW h \in heads, g < h PROVE Apart(Final(g), h)
  <2> DEFINE S == {v \in vas : v < h}
  <2>0. g \in vas /\ h \in vas /\ \A v \in vas : v < h => Apart(v, h)
    BY <1>h
  <2>1. S \in SUBSET Nat /\ g \in S /\ \A x \in S : x <= n
    BY <1>2, <1>7, <2>0
  <2>2. Greatest(S) \in S /\ \A y \in S : y <= Greatest(S)
    BY <2>1, GreatestIs
  <2> DEFINE u == Greatest(S)
  <2> HIDE DEF u
  <2>3. u \in vas /\ u \in Nat /\ Apart(u, h) /\ g <= u
    BY <1>2, <2>0, <2>1, <2>2 DEF u
  <2>4. ASSUME NEW w \in vas, u < w PROVE Apart(u, w)
    <3>1. ~(w < h)
      <4> SUFFICES ASSUME w < h PROVE FALSE
        OBVIOUS
      <4>1. w <= u /\ w \in Nat
        BY <1>2, <2>2 DEF u
      <4> QED BY <2>3, <2>4, <4>1
    <3>2. h <= w
      BY <1>2, <2>0, <3>1
    <3> QED BY <1>4, <2>0, <2>3, <3>2
  <2>5. u \in lasts
    BY <1>l, <2>3, <2>4
  <2>6. Final(g) <= u /\ Final(g) \in vas
    BY <1>6, <2>0, <2>3, <2>5
  <2> QED BY <1>4, <2>0, <2>3, <2>6
<1>8. ASSUME NEW h \in heads
      PROVE  /\ <<Start(h), End(Final(h))>> \in Interval
             /\ End(Final(h)) <= n + margin + 1
  <2>1. Final(h) \in vas /\ h <= Final(h) /\ h \in vas /\ h \in Nat /\ Final(h) \in Nat /\ Final(h) <= n
    BY <1>2, <1>6, <1>h
  <2>2. Start(h) \in Nat /\ End(Final(h)) \in Nat /\ Start(h) <= h /\ Final(h) < End(Final(h))
    BY <1>3, <2>1
  <2>3. Start(h) < End(Final(h))
    BY <2>1, <2>2
  <2>4. End(Final(h)) <= n + margin + 1
    BY <2>1 DEF End
  <2> QED BY <2>2, <2>3, <2>4 DEF Interval
<1>9. B \subseteq Interval /\ Below(B, n + margin + 1)
  BY <1>1, <1>8 DEF Below
<1>10. Disjoint(B)
  <2> SUFFICES ASSUME NEW g \in heads, NEW h \in heads
               PROVE  \/ g = h
                      \/ End(Final(g)) < Start(h)
                      \/ End(Final(h)) < Start(g)
    <3>1. ASSUME NEW r \in B, NEW s \in B,
                 \A g, h \in heads : \/ g = h
                                    \/ End(Final(g)) < Start(h)
                                    \/ End(Final(h)) < Start(g)
          PROVE  r = s \/ r[2] < s[1] \/ s[2] < r[1]
      <4>1. PICK g \in heads : r = <<Start(g), End(Final(g))>>
        BY <1>1
      <4>2. PICK h \in heads : s = <<Start(h), End(Final(h))>>
        BY <1>1
      <4>3. \/ g = h
            \/ End(Final(g)) < Start(h)
            \/ End(Final(h)) < Start(g)
        BY <3>1
      <4> QED BY <4>1, <4>2, <4>3
    <3> QED BY <3>1 DEF Disjoint
  <2>1. /\ g \in vas /\ h \in vas /\ g \in Nat /\ h \in Nat
        /\ Final(g) \in vas /\ Final(h) \in vas
    BY <1>2, <1>6, <1>h
  <2>2. CASE g < h
    BY <1>5, <1>7, <2>1, <2>2
  <2>3. CASE h < g
    BY <1>5, <1>7, <2>1, <2>3
  <2> QED BY <2>1, <2>2, <2>3
<1>11. ASSUME NEW v \in vas PROVE v \in Covered(B)
  <2> DEFINE S == {h \in heads : h <= v}
             h == Greatest(S)
             l == Final(h)
  <2>1. Least(vas) \in S
    <3>1. Least(vas) \in vas /\ \A y \in vas : Least(vas) <= y
      BY <1>2, LeastIs
    <3> DEFINE m == Least(vas)
    <3> HIDE DEF m
    <3>2. m \in vas /\ m \in Nat /\ \A y \in vas : m <= y
      BY <1>2, <3>1 DEF m
    <3>4. \A y \in vas : ~(y < m)
      BY <1>2, <3>2
    <3>3. m \in S
      BY <1>h, <3>2, <3>4
    <3> QED BY <3>3 DEF m
  <2>2. S \in SUBSET Nat /\ \A x \in S : x <= n
    BY <1>2, <1>h
  <2>3. h \in S /\ \A y \in S : y <= h
    BY <2>1, <2>2, GreatestIs
  <2> HIDE DEF h
  <2>4. h \in heads /\ h \in vas /\ h <= v /\ h \in Nat /\ v \in Nat
    BY <1>2, <1>h, <2>3
  <2>5. l \in Nat /\ l \in vas /\ h <= l /\ \A w \in vas : l < w => Apart(l, w)
    BY <1>2, <1>6, <2>4
  <2> HIDE DEF l
  <2>6. v <= l
    <3> SUFFICES ASSUME ~(v <= l) PROVE FALSE
      OBVIOUS
    <3> DEFINE After == {w \in vas : l < w}
               w == Least(After)
    <3>0. l < v
      BY <2>4, <2>5
    <3>1. After \in SUBSET Nat /\ v \in After
      BY <1>2, <3>0
    <3>2. w \in After /\ \A y \in After : w <= y
      BY <3>1, LeastIs
    <3> HIDE DEF w
    <3>3. w \in vas /\ w \in Nat /\ l < w /\ w <= v /\ Apart(l, w)
      BY <1>2, <2>5, <3>1, <3>2
    <3>4. ASSUME NEW u \in vas, u < w PROVE Apart(u, w)
      <4>0. u \in Nat /\ (l < u => w <= u)
        BY <1>2, <3>2
      <4>1. u <= l
        BY <2>5, <3>3, <3>4, <4>0
      <4> QED BY <1>4, <2>5, <3>3, <4>1
    <3>5. w \in S
      BY <1>h, <3>3, <3>4
    <3>6. w <= h
      BY <2>3, <3>5
    <3> QED BY <2>4, <2>5, <3>3, <3>6
  <2>7. Start(h) <= v /\ v < End(l) /\ v \in Nat
    <3>1. Start(h) \in Nat /\ Start(h) <= h /\ End(l) \in Nat /\ l < End(l)
      BY <1>3, <2>4, <2>5
    <3> QED BY <1>2, <2>4, <2>5, <2>6, <3>1
  <2>8. <<Start(h), End(l)>> \in B
    BY <1>1, <2>4 DEF l
  <2> QED BY <1>9, <2>7, <2>8, CoveredIn
<1> QED BY <1>9, <1>10, <1>11 DEF IsPlan, B

LEMMA KeepIs ==
    ASSUME NEW n \in Nat, NEW rs, IsPlan(rs, n)
    PROVE  IsPlan(Keep(rs), n) /\ Bytes(Keep(rs)) <= Cap
<1> DEFINE UpTo(x) == {q \in rs : q[1] <= x}
           K == Keep(rs)
<1>0. Cap \in Nat
  BY PoolSweepAssumption
<1>1. K = {r \in rs : Bytes(UpTo(r[1])) <= Cap}
  BY DEF Keep
<1> HIDE DEF K
<1>2. rs \subseteq Interval /\ Below(rs, n) /\ K \subseteq rs
  BY <1>1 DEF IsPlan
<1>3. IsPlan(K, n)
  BY <1>2 DEF IsPlan, Below, Disjoint
<1>4. CASE K = {}
  <2>1. Bytes(K) = 0
    BY <1>4, FS_EmptySet DEF Bytes, Covered
  <2> QED BY <1>0, <1>3, <2>1 DEF K
<1>5. CASE K # {}
  <2> DEFINE S == {r[1] : r \in K}
             g == Greatest(S)
  <2>1. S \in SUBSET Nat /\ S # {} /\ \A x \in S : x <= n
    BY <1>2, <1>5 DEF Interval, Below
  <2>2. g \in S /\ \A x \in S : x <= g
    BY <2>1, GreatestIs
  <2>3. PICK r \in K : r[1] = g
    BY <2>2
  <2>4. Bytes(UpTo(g)) <= Cap
    BY <1>1, <2>3
  <2>5. g \in Nat /\ \A q \in K : q[1] <= g
    BY <2>1, <2>2
  <2> HIDE DEF S, g
  <2>6. K \subseteq UpTo(g)
    BY <1>2, <2>5
  <2>7. UpTo(g) \in SUBSET Interval /\ Below(UpTo(g), n)
    BY <1>2 DEF Below
  <2> HIDE DEF UpTo
  <2>8. IsFiniteSet(Covered(UpTo(g))) /\ Bytes(UpTo(g)) \in Nat
    BY <2>7, CoveredFinite
  <2>9. Covered(K) \subseteq Covered(UpTo(g))
    BY <2>6 DEF Covered
  <2>10. Bytes(K) <= Bytes(UpTo(g)) /\ Bytes(K) \in Nat
    <3>1. IsFiniteSet(Covered(K)) /\ Cardinality(Covered(K)) <= Cardinality(Covered(UpTo(g)))
      BY <2>8, <2>9, FS_Subset
    <3> QED BY <3>1, FS_CardinalityType DEF Bytes
  <2> QED BY <1>0, <1>3, <2>4, <2>8, <2>10 DEF K
<1> QED BY <1>4, <1>5

(* A plan of any margin and gap stays under the cap, and covers every address  *)
(* unless it says that it was cut.                                             *)
PlanOf(p, vas, n) ==
    /\ IsPlan(p.ranges, n) /\ Bytes(p.ranges) <= Cap
    /\ p.cut \in BOOLEAN
    /\ ~p.cut => vas \subseteq Covered(p.ranges)

LEMMA PlanIs ==
    ASSUME NEW n \in Nat, NEW vas \in SUBSET (0 .. n), NEW margin \in Nat, NEW gap \in Nat
    PROVE  \E N \in Nat : PlanOf(PlanPoolSweep(vas, margin, gap), vas, N)
<1> DEFINE tried == Halves(margin) \X {gap} \cup {0} \X Halves(gap)
           fit == {t \in tried : Bytes(Build(vas, t[1], t[2])) <= Cap}
           M == {t[1] : t \in fit}
           m == Greatest(M)
           G == {t[2] : t \in {u \in fit : u[1] = m}}
           g == Greatest(G)
           p == PlanPoolSweep(vas, margin, gap)
<1>1. p = IF fit = {} THEN [ranges |-> Keep(Build(vas, 0, 0)), cut |-> TRUE]
          ELSE [ranges |-> Build(vas, m, g), cut |-> FALSE]
  BY DEF PlanPoolSweep
<1>2. \A t \in tried : t[1] \in 0 .. margin /\ t[2] \in 0 .. gap
  BY DEF Halves
<1> HIDE DEF tried, p
<1>3. CASE fit = {}
  <2>0. 0 \in Nat /\ n + 0 + 1 \in Nat
    OBVIOUS
  <2>1. IsPlan(Build(vas, 0, 0), n + 0 + 1)
    BY <2>0, BuildIs, Zenon
  <2>2. IsPlan(Keep(Build(vas, 0, 0)), n + 0 + 1) /\ Bytes(Keep(Build(vas, 0, 0))) <= Cap
    BY <2>0, <2>1, KeepIs, Zenon
  <2>3. p.ranges = Keep(Build(vas, 0, 0)) /\ p.cut = TRUE
    BY <1>1, <1>3
  <2>4. PlanOf(p, vas, n + 0 + 1)
    BY <2>2, <2>3 DEF PlanOf
  <2> QED BY <2>0, <2>4 DEF p
<1>4. CASE fit # {}
  <2>1. M \in SUBSET Nat /\ M # {} /\ \A x \in M : x <= margin
    BY <1>2, <1>4
  <2>2. m \in M /\ m \in Nat
    BY <2>1, GreatestIs
  <2> HIDE DEF m
  <2>3. G \in SUBSET Nat /\ G # {} /\ \A x \in G : x <= gap
    BY <1>2, <2>2
  <2>4. g \in G /\ g \in Nat
    BY <2>3, GreatestIs
  <2> HIDE DEF g
  <2>5. Bytes(Build(vas, m, g)) <= Cap
    BY <2>4
  <2>9. n + m + 1 \in Nat
    BY <2>2
  <2>6. /\ IsPlan(Build(vas, m, g), n + m + 1)
        /\ vas \subseteq Covered(Build(vas, m, g))
    BY <2>2, <2>4, BuildIs, Zenon
  <2>7. p.ranges = Build(vas, m, g) /\ p.cut = FALSE
    BY <1>1, <1>4
  <2>8. PlanOf(p, vas, n + m + 1)
    BY <2>5, <2>6, <2>7 DEF PlanOf
  <2> QED BY <2>8, <2>9 DEF p
<1> QED BY <1>3, <1>4

(* What is left of ranges: all of them but what is taken out, in pieces that do *)
(* not touch.                                                                  *)
LEMMA SubtractIs ==
    ASSUME NEW n \in Nat, NEW a, IsPlan(a, n), NEW b \in SUBSET Interval
    PROVE  /\ IsPlan(Subtract(a, b), n)
           /\ Covered(Subtract(a, b)) = Covered(a) \ Covered(b)
<1> DEFINE Starts(r) == {r[1]} \cup {s[2] : s \in {q \in b : q[2] > r[1]}}
           Ends(r, x) == {r[2]} \cup {s[1] : s \in {q \in b : q[2] > x}}
           Until(r, x) == Least(Ends(r, x))
           O == Subtract(a, b)
<1>0. Pieces(a, b) = UNION {{<<x, Until(r, x)>> : x \in Starts(r)} : r \in a}
  BY DEF Pieces
<1> HIDE DEF Until, Starts
<1>1. \A p : p \in O <=> \E r \in a : \E x \in Starts(r) : p = <<x, Until(r, x)>> /\ x < Until(r, x)
  BY <1>0 DEF Subtract
<1> HIDE DEF O
<1> USE DEF Starts
<1>2. \A r \in a : r[1] \in Nat /\ r[2] \in Nat /\ r[2] <= n
  BY DEF IsPlan, Interval, Below
<1>3. \A s \in b : s[1] \in Nat /\ s[2] \in Nat /\ s[1] < s[2]
  BY DEF Interval
<1>4. ASSUME NEW r \in a
      PROVE  \A x \in Starts(r) : x \in Nat /\ r[1] <= x /\ (x = r[1] \/ \E s \in b : x = s[2])
  BY <1>2, <1>3
<1>5. ASSUME NEW r \in a, NEW x \in Nat
      PROVE  /\ Until(r, x) \in Nat /\ Until(r, x) <= r[2]
             /\ \A s \in b : s[2] > x => Until(r, x) <= s[1]
             /\ Until(r, x) = r[2] \/ \E s \in b : s[2] > x /\ Until(r, x) = s[1]
  <2>1. Ends(r, x) \in SUBSET Nat /\ r[2] \in Ends(r, x)
    BY <1>2, <1>3
  <2>2. Until(r, x) \in Ends(r, x) /\ \A y \in Ends(r, x) : Until(r, x) <= y
    BY <2>1, LeastIs DEF Until
  <2> QED BY <2>1, <2>2
<1>6. ASSUME NEW p \in O
      PROVE  \E r \in a : \E x \in Starts(r) :
               /\ p = <<x, Until(r, x)>> /\ x \in Nat /\ Until(r, x) \in Nat
               /\ r[1] <= x /\ x < Until(r, x) /\ Until(r, x) <= r[2]
  <2>1a. PICK r \in a : \E x \in Starts(r) :
               p = <<x, Until(r, x)>> /\ x < Until(r, x)
    BY <1>1
  <2>1. PICK x \in Starts(r) :
               p = <<x, Until(r, x)>> /\ x < Until(r, x)
    BY <2>1a
  <2> HIDE DEF Starts
  <2> QED BY <1>4, <1>5, <2>1
<1>7. O \subseteq Interval /\ Below(O, n)
  <2> SUFFICES ASSUME NEW p \in O PROVE p \in Interval /\ p[2] <= n
    BY DEF Below
  <2>1a. PICK r \in a : \E x \in Starts(r) :
               /\ p = <<x, Until(r, x)>> /\ x \in Nat /\ Until(r, x) \in Nat
               /\ r[1] <= x /\ x < Until(r, x) /\ Until(r, x) <= r[2]
    BY <1>6
  <2>1. PICK x \in Starts(r) :
               /\ p = <<x, Until(r, x)>> /\ x \in Nat /\ Until(r, x) \in Nat
               /\ r[1] <= x /\ x < Until(r, x) /\ Until(r, x) <= r[2]
    BY <2>1a
  <2> QED BY <1>2, <2>1 DEF Interval
<1>8. Disjoint(O)
  <2> SUFFICES ASSUME NEW p \in O, NEW q \in O, p # q, ~(q[2] < p[1]) PROVE p[2] < q[1]
    BY DEF Disjoint
  <2>1a. PICK r \in a : \E x \in Starts(r) :
               /\ p = <<x, Until(r, x)>> /\ x \in Nat /\ Until(r, x) \in Nat
               /\ r[1] <= x /\ x < Until(r, x) /\ Until(r, x) <= r[2]
    BY <1>6
  <2>1. PICK x \in Starts(r) :
               /\ p = <<x, Until(r, x)>> /\ x \in Nat /\ Until(r, x) \in Nat
               /\ r[1] <= x /\ x < Until(r, x) /\ Until(r, x) <= r[2]
    BY <2>1a
  <2>2a. PICK t \in a : \E y \in Starts(t) :
               /\ q = <<y, Until(t, y)>> /\ y \in Nat /\ Until(t, y) \in Nat
               /\ t[1] <= y /\ y < Until(t, y) /\ Until(t, y) <= t[2]
    BY <1>6
  <2>2. PICK y \in Starts(t) :
               /\ q = <<y, Until(t, y)>> /\ y \in Nat /\ Until(t, y) \in Nat
               /\ t[1] <= y /\ y < Until(t, y) /\ Until(t, y) <= t[2]
    BY <2>2a
  <2>3. p[1] = x /\ p[2] = Until(r, x) /\ q[1] = y /\ q[2] = Until(t, y)
    BY <2>1, <2>2
  <2>4. ~(Until(t, y) < x)
    BY <2>3
  <2>5. CASE r # t
    <3>1. r[2] < t[1] \/ t[2] < r[1]
      BY <2>5 DEF IsPlan, Disjoint
    <3> QED BY <1>2, <2>1, <2>2, <2>3, <2>4, <3>1
  <2>6. CASE r = t
    <3>1. ASSUME NEW u \in Nat, NEW v \in Starts(r), r[1] <= u, u < v PROVE Until(r, u) < v
      <4>1. v \in Nat /\ v # r[1]
        BY <1>2, <1>4, <3>1
      <4>2. PICK s \in b : v = s[2]
        BY <4>1
      <4>3. Until(r, u) <= s[1] /\ Until(r, u) \in Nat
        BY <1>3, <1>5, <3>1, <4>2
      <4> QED BY <1>3, <4>2, <4>3
    <3>2. x # y
      BY <2>1, <2>2, <2>6
    <3>3. ~(y < x)
      BY <2>1, <2>2, <2>4, <2>6, <3>1
    <3> QED BY <2>1, <2>2, <2>3, <2>6, <3>1, <3>2, <3>3
  <2> QED BY <2>5, <2>6
<1>9. ASSUME NEW z \in Covered(O) PROVE z \in Covered(a) \ Covered(b)
  <2>1. PICK p \in O : z \in Nat /\ p[1] <= z /\ z < p[2]
    BY <1>7, CoveredIn
  <2>2a. PICK r \in a : \E x \in Starts(r) :
               /\ p = <<x, Until(r, x)>> /\ x \in Nat /\ Until(r, x) \in Nat
               /\ r[1] <= x /\ x < Until(r, x) /\ Until(r, x) <= r[2]
    BY <1>6
  <2>2. PICK x \in Starts(r) :
               /\ p = <<x, Until(r, x)>> /\ x \in Nat /\ Until(r, x) \in Nat
               /\ r[1] <= x /\ x < Until(r, x) /\ Until(r, x) <= r[2]
    BY <2>2a
  <2>3. x <= z /\ z < Until(r, x)
    BY <2>1, <2>2
  <2>4. z \in Covered(a)
    <3>1. r[1] <= z /\ z < r[2]
      BY <1>2, <2>1, <2>2, <2>3
    <3> QED BY <2>1, <3>1, CoveredIn DEF IsPlan
  <2>5. ASSUME NEW s \in b, s[1] <= z, z < s[2] PROVE FALSE
    <3>1. s[2] > x
      BY <1>3, <2>1, <2>2, <2>3, <2>5
    <3>2. Until(r, x) <= s[1]
      BY <1>5, <2>2, <3>1
    <3> QED BY <1>3, <2>1, <2>2, <2>3, <2>5, <3>2
  <2> QED BY <2>4, <2>5, CoveredIn
<1>10. ASSUME NEW z \in Covered(a) \ Covered(b) PROVE z \in Covered(O)
  <2>1. PICK r \in a : z \in Nat /\ r[1] <= z /\ z < r[2]
    BY CoveredIn DEF IsPlan
  <2>2. \A s \in b : ~(s[1] <= z /\ z < s[2])
    BY <2>1, CoveredIn
  <2> DEFINE S == {x \in Starts(r) : x <= z}
             x == Greatest(S)
  <2>3. S \in SUBSET Nat /\ S # {} /\ \A y \in S : y <= z
    BY <1>2, <1>4, <2>1
  <2>4. x \in S /\ \A y \in S : y <= x
    BY <2>1, <2>3, GreatestIs
  <2> HIDE DEF x
  <2>5. x \in Starts(r) /\ x \in Nat /\ x <= z /\ r[1] <= x
    BY <1>4, <2>4
  <2>6. z < Until(r, x)
    <3>1. CASE Until(r, x) = r[2]
      BY <2>1, <3>1
    <3>2. CASE \E s \in b : s[2] > x /\ Until(r, x) = s[1]
      <4>1. PICK s \in b : s[2] > x /\ Until(r, x) = s[1]
        BY <3>2
      <4>2. s[1] \in Nat /\ s[2] \in Nat
        BY <1>3
      <4>3. ~(s[2] <= z)
        <5> SUFFICES ASSUME s[2] <= z PROVE FALSE
          OBVIOUS
        <5>1. s[2] > r[1]
          BY <1>2, <2>5, <4>1, <4>2
        <5>2. s[2] \in S
          BY <5>1
        <5> QED BY <2>4, <2>5, <4>1, <4>2, <5>2
      <4> QED BY <2>1, <2>2, <4>1, <4>2, <4>3
    <3> QED BY <1>5, <2>5, <3>1, <3>2
  <2>7. <<x, Until(r, x)>> \in O
    <3>1. Until(r, x) \in Nat
      BY <1>5, <2>5
    <3>2. x < Until(r, x)
      BY <2>1, <2>5, <2>6, <3>1
    <3> QED BY <1>1, <2>5, <3>2
  <2>8. <<x, Until(r, x)>>[1] <= z /\ z < <<x, Until(r, x)>>[2]
    BY <2>5, <2>6
  <2> QED BY <1>7, <2>1, <2>7, <2>8, CoveredIn
<1> QED BY <1>7, <1>8, <1>9, <1>10 DEF IsPlan, O

-----------------------------------------------------------------------------
(* Reading. *)

Asc(s) == s \in Seq(Nat) /\ \A i, j \in 1 .. Len(s) : i < j => s[i] < s[j]

IsNew(got, h) == Read(memory, h) /\ (got # <<>> => h # Last(got))

(* The headers found after each address of one read.                           *)
Reading(seen, from, n, w) ==
    w = [k \in 0 .. n |->
           IF k = 0 THEN seen
           ELSE IF IsNew(w[k - 1], from + k - 1) THEN Append(w[k - 1], from + k - 1)
           ELSE w[k - 1]]

LEMMA ReadingExists ==
    ASSUME NEW seen, NEW from \in Nat PROVE \A n \in Nat : \E w : Reading(seen, from, n, w)
<1> DEFINE T == {n \in Nat : ~\E w : Reading(seen, from, n, w)}
<1> SUFFICES ASSUME T # {} PROVE FALSE
  OBVIOUS
<1>1. T \in SUBSET Nat
  OBVIOUS
<1>2. PICK m \in T : \A k \in T : m <= k
  BY <1>1, LeastOne
<1>3. m \in Nat /\ ~\E w : Reading(seen, from, m, w)
  OBVIOUS
<1>4. CASE m = 0
  <2> DEFINE w == [k \in 0 .. 0 |-> seen]
  <2>1. Reading(seen, from, 0, w)
    BY DEF Reading
  <2> QED BY <1>3, <1>4, <2>1
<1>5. CASE m # 0
  <2>1. m - 1 \in Nat /\ m - 1 \notin T
    BY <1>2, <1>3, <1>5
  <2>2. PICK g : Reading(seen, from, m - 1, g)
    BY <2>1
  <2> DEFINE h == from + m - 1
             new == IF IsNew(g[m - 1], h) THEN Append(g[m - 1], h) ELSE g[m - 1]
             w == [k \in 0 .. m |-> IF k = m THEN new ELSE g[k]]
  <2>3. ASSUME NEW k \in 0 .. m
        PROVE  w[k] = IF k = 0 THEN seen
                      ELSE IF IsNew(w[k - 1], from + k - 1) THEN Append(w[k - 1], from + k - 1)
                      ELSE w[k - 1]
    <3>1. CASE k = m
      <4>1. w[k] = new /\ w[m - 1] = g[m - 1]
        BY <1>3, <1>5, <3>1
      <4> HIDE DEF w
      <4> QED BY <1>5, <3>1, <4>1
    <3>2. CASE k # m
      <4>1. k \in 0 .. m - 1 /\ w[k] = g[k]
        BY <1>3, <3>2
      <4>2. k # 0 => k - 1 \in 0 .. m /\ k - 1 # m /\ w[k - 1] = g[k - 1]
        BY <1>3, <4>1
      <4>3. g[k] = IF k = 0 THEN seen
                   ELSE IF IsNew(g[k - 1], from + k - 1) THEN Append(g[k - 1], from + k - 1)
                   ELSE g[k - 1]
        BY <2>2, <4>1 DEF Reading
      <4> HIDE DEF w
      <4> QED BY <4>1, <4>2, <4>3
    <3> QED BY <3>1, <3>2
  <2>4. w = [k \in 0 .. m |-> w[k]]
    OBVIOUS
  <2> HIDE DEF w, new
  <2>5. w = [k \in 0 .. m |->
               IF k = 0 THEN seen
               ELSE IF IsNew(w[k - 1], from + k - 1) THEN Append(w[k - 1], from + k - 1)
               ELSE w[k - 1]]
    BY <2>3, <2>4
  <2>6. Reading(seen, from, m, w)
    BY <2>5 DEF Reading
  <2> QED BY <1>3, <2>6
<1> QED BY <1>4, <1>5

LEMMA FoundReading ==
    ASSUME NEW seen, NEW from \in Nat, NEW n \in Nat
    PROVE  \E w : Reading(seen, from, n, w) /\ Found(seen, from, n) = w[n]
<1> DEFINE New(got, h) == Read(memory, h) /\ (got # <<>> => h # Last(got))
           found[k \in 0 .. n] ==
             IF k = 0 THEN seen
             ELSE IF New(found[k - 1], from + k - 1) THEN Append(found[k - 1], from + k - 1)
             ELSE found[k - 1]
<1>1. \E w : Reading(seen, from, n, w)
  BY ReadingExists
<1>2. Found(seen, from, n) = found[n]
  BY DEF Found, found
<1>3. found = [k \in 0 .. n |->
                 IF k = 0 THEN seen
                 ELSE IF New(found[k - 1], from + k - 1) THEN Append(found[k - 1], from + k - 1)
                 ELSE found[k - 1]]
  BY <1>1 DEF found, Reading, IsNew
<1> HIDE DEF found
<1>4. Reading(seen, from, n, found)
  BY <1>3 DEF Reading, IsNew
<1> QED BY <1>2, <1>4

(* One more header keeps the list ascending.                                   *)
LEMMA AscMore ==
    ASSUME NEW s, Asc(s), NEW h \in Nat, \A x \in ToSet(s) : x < h
    PROVE  Asc(Append(s, h)) /\ ToSet(Append(s, h)) = ToSet(s) \cup {h}
<1> DEFINE t == Append(s, h)
<1>1. s \in Seq(Nat) /\ Len(s) \in Nat
  BY DEF Asc
<1>2. /\ t \in Seq(Nat) /\ Len(t) = Len(s) + 1 /\ t[Len(s) + 1] = h
      /\ \A i \in 1 .. Len(s) : t[i] = s[i]
  BY <1>1
<1>3. DOMAIN s = 1 .. Len(s) /\ DOMAIN t = 1 .. Len(s) + 1
  BY <1>1, <1>2
<1>4. 1 .. Len(s) + 1 = (1 .. Len(s)) \cup {Len(s) + 1}
  BY <1>1
<1> HIDE DEF t
<1>5. ToSet(t) = ToSet(s) \cup {h}
  BY <1>2, <1>3, <1>4 DEF ToSet
<1>6. ASSUME NEW i \in 1 .. Len(t), NEW j \in 1 .. Len(t), i < j PROVE t[i] < t[j]
  <2>1. i \in 1 .. Len(s) /\ t[i] = s[i]
    BY <1>1, <1>2, <1>6
  <2>2. CASE j = Len(s) + 1
    <3>1. s[i] \in ToSet(s)
      BY <1>3, <2>1 DEF ToSet
    <3> QED BY <1>2, <2>1, <2>2, <3>1
  <2>3. CASE j # Len(s) + 1
    <3>1. j \in 1 .. Len(s) /\ t[j] = s[j]
      BY <1>1, <1>2, <2>3
    <3> QED BY <1>6, <2>1, <3>1 DEF Asc
  <2> QED BY <2>2, <2>3
<1> QED BY <1>2, <1>5, <1>6 DEF Asc, t

LEMMA AscLast ==
    ASSUME NEW s, Asc(s)
    PROVE  /\ ToSet(s) \subseteq Nat
           /\ s # <<>> => Last(s) \in ToSet(s) /\ \A x \in ToSet(s) : x <= Last(s)
<1>1. s \in Seq(Nat) /\ Len(s) \in Nat /\ DOMAIN s = 1 .. Len(s)
  BY DEF Asc
<1>2. ToSet(s) \subseteq Nat
  BY <1>1 DEF ToSet
<1>3. ASSUME s # <<>> PROVE Last(s) \in ToSet(s) /\ \A x \in ToSet(s) : x <= Last(s)
  <2>0. Len(s) \in Nat
    BY <1>1
  <2>1. Len(s) \in 1 .. Len(s)
    BY <1>1, <1>3
  <2>2. ASSUME NEW i \in 1 .. Len(s) PROVE s[i] <= s[Len(s)]
    <3>1. s[i] \in Nat /\ s[Len(s)] \in Nat
      BY <1>1, <2>1
    <3>2. CASE i = Len(s)
      BY <3>1, <3>2
    <3>3. CASE i # Len(s)
      <4>1. i < Len(s)
        BY <2>0, <3>3
      <4>2. \A k, l \in 1 .. Len(s) : k < l => s[k] < s[l]
        BY DEF Asc
      <4>3. s[i] < s[Len(s)]
        BY <2>1, <4>1, <4>2
      <4> QED BY <3>1, <4>3
    <3> QED BY <3>2, <3>3
  <2> QED BY <1>1, <2>1, <2>2 DEF ToSet, Last
<1> QED BY <1>2, <1>3

(* A read that begins where the last one ended finds what is tagged, once.     *)
LEMMA FoundIs ==
    ASSUME NEW seen, Asc(seen), NEW from \in Nat, NEW n \in Nat,
           \A h \in ToSet(seen) : h <= from
    PROVE  /\ Asc(Found(seen, from, n))
           /\ ToSet(Found(seen, from, n)) =
                ToSet(seen) \cup {h \in from .. from + n - 1 : Read(memory, h)}
<1>1. PICK w : Reading(seen, from, n, w) /\ Found(seen, from, n) = w[n]
  BY FoundReading
<1> DEFINE Tags(k) == {h \in from .. from + k - 1 : Read(memory, h)}
           Good(k) == Asc(w[k]) /\ ToSet(w[k]) = ToSet(seen) \cup Tags(k)
           T == {k \in 0 .. n : ~Good(k)}
<1> SUFFICES ASSUME T # {} PROVE FALSE
  BY <1>1
<1>2. T \in SUBSET Nat
  OBVIOUS
<1>3. PICK m \in T : \A k \in T : m <= k
  BY <1>2, LeastOne
<1>4. m \in 0 .. n /\ m \in Nat /\ ~Good(m)
  OBVIOUS
<1>5. CASE m = 0
  <2>1. w[0] = seen
    BY <1>1 DEF Reading
  <2>2. Tags(0) = {}
    OBVIOUS
  <2> QED BY <1>4, <1>5, <2>1, <2>2
<1>6. CASE m # 0
  <2> DEFINE h == from + m - 1
             got == w[m - 1]
  <2>1. m - 1 \in 0 .. n /\ m - 1 \notin T
    BY <1>3, <1>4, <1>6
  <2>2. Asc(got) /\ ToSet(got) = ToSet(seen) \cup Tags(m - 1)
    BY <2>1
  <2>3. w[m] = IF IsNew(got, h) THEN Append(got, h) ELSE got
    BY <1>1, <1>4, <1>6 DEF Reading
  <2>4. h \in Nat /\ from <= h /\ from .. from + m - 1 = (from .. from + (m - 1) - 1) \cup {h}
    BY <1>4, <1>6
  <2>5. Tags(m) = Tags(m - 1) \cup (IF Read(memory, h) THEN {h} ELSE {})
    BY <2>4
  <2>6. \A x \in ToSet(got) : x \in Nat /\ x <= h
    <3>1. ToSet(got) \subseteq Nat /\ ToSet(seen) \subseteq Nat
      BY <2>2, AscLast
    <3>2. \A x \in Tags(m - 1) : x <= h
      BY <1>4, <1>6
    <3>3. \A x \in ToSet(seen) : x <= h
      BY <2>4, <3>1
    <3> QED BY <2>2, <3>1, <3>2, <3>3
  <2> HIDE DEF h, got, Tags
  <2>7. CASE IsNew(got, h)
    <3>1. \A x \in ToSet(got) : x < h
      <4> SUFFICES ASSUME NEW x \in ToSet(got), ~(x < h) PROVE FALSE
        OBVIOUS
      <4>1. x = h
        BY <2>4, <2>6
      <4>2. got # <<>>
        <5>1. ToSet(<<>>) = {}
          BY DEF ToSet
        <5> QED BY <5>1
      <4>3. Last(got) \in ToSet(got) /\ x <= Last(got)
        BY <2>2, <4>2, AscLast
      <4>4. Last(got) \in Nat /\ Last(got) <= h /\ h <= Last(got) /\ h \in Nat
        BY <2>6, <4>1, <4>3
      <4>5. Last(got) = h
        BY <4>4
      <4> QED BY <2>7, <4>2, <4>5 DEF IsNew
    <3>2. Asc(Append(got, h)) /\ ToSet(Append(got, h)) = ToSet(got) \cup {h}
      BY <2>2, <2>4, <3>1, AscMore
    <3>3. Read(memory, h) /\ w[m] = Append(got, h)
      BY <2>3, <2>7 DEF IsNew
    <3> QED BY <1>4, <2>2, <2>5, <3>2, <3>3
  <2>8. CASE ~IsNew(got, h)
    <3>1. w[m] = got
      BY <2>3, <2>8
    <3>2. Read(memory, h) => h \in ToSet(got)
      <4> SUFFICES ASSUME Read(memory, h) PROVE h \in ToSet(got)
        OBVIOUS
      <4>1. got # <<>> /\ h = Last(got)
        BY <2>8 DEF IsNew
      <4> QED BY <2>2, <4>1, AscLast
    <3> QED BY <1>4, <2>2, <2>5, <3>1, <3>2
  <2> QED BY <2>7, <2>8
<1> QED BY <1>5, <1>6

-----------------------------------------------------------------------------
(* One pass over ranges that together cover whole. *)

Tagged(area) == {h \in area : Read(memory, h)}

(* What is found is ascending, tagged and in the area; what is tagged is found  *)
(* or still to come, and nothing found comes after what is to come.            *)
Swept(area, left, got) ==
    /\ Asc(got) /\ ToSet(got) \subseteq Tagged(area)
    /\ Covered(left) \subseteq area
    /\ Tagged(area) \subseteq ToSet(got) \cup Covered(left)
    /\ \A h \in ToSet(got), y \in Covered(left) : h <= y

Rest(left, r, n) == Advance(r, n) \cup (left \ {r})

LEMMA FreshPass ==
    ASSUME NEW left \in SUBSET Interval
    PROVE  Swept(Covered(left), left, <<>>)
<1>1. Asc(<<>>) /\ ToSet(<<>>) = {}
  BY DEF Asc, ToSet
<1> QED BY <1>1 DEF Swept, Tagged

LEMMA ReadStep ==
    ASSUME NEW N \in Nat, NEW left, IsPlan(left, N), left # {},
           NEW area \in SUBSET Nat, NEW got, Swept(area, left, got)
    PROVE  LET r == First(left)
               n == Least({Unit, r[2] - r[1]})
           IN /\ IsPlan(Rest(left, r, n), N)
              /\ Swept(area, Rest(left, r, n), Found(got, r[1], n))
<1> DEFINE r == First(left)
           n == Least({Unit, r[2] - r[1]})
           more == Rest(left, r, n)
           found == Found(got, r[1], n)
<1>1. left \in SUBSET Interval /\ Below(left, N) /\ Disjoint(left)
  BY DEF IsPlan
<1>2. r \in left /\ \A q \in left : r[1] <= q[1]
  BY <1>1, FirstIs
<1> HIDE DEF r
<1>3. r[1] \in Nat /\ r[2] \in Nat /\ r[1] < r[2] /\ r[2] <= N
  BY <1>1, <1>2 DEF Interval, Below
<1>4. n \in Nat /\ n >= 1 /\ n <= r[2] - r[1] /\ (n = 1 => r[2] = r[1] + 1)
  <2>1. {Unit, r[2] - r[1]} \in SUBSET Nat /\ Unit > 1 /\ r[2] - r[1] >= 1
    BY <1>3, PoolSweepAssumption
  <2>2. n \in {Unit, r[2] - r[1]} /\ n <= r[2] - r[1]
    BY <2>1, LeastIs
  <2> QED BY <1>3, <2>1, <2>2
<1> HIDE DEF n
<1>5. \A q \in left \ {r} : q[1] \in Nat /\ q[2] \in Nat /\ q[1] < q[2] /\ r[2] < q[1]
  <2> SUFFICES ASSUME NEW q \in left \ {r}
               PROVE  q[1] \in Nat /\ q[2] \in Nat /\ q[1] < q[2] /\ r[2] < q[1]
    OBVIOUS
  <2>1. q[1] \in Nat /\ q[2] \in Nat /\ q[1] < q[2]
    BY <1>1 DEF Interval
  <2>2. r[2] < q[1] \/ q[2] < r[1]
    BY <1>1, <1>2 DEF Disjoint
  <2>3. r[1] <= q[1]
    BY <1>2
  <2> QED BY <1>3, <2>1, <2>2, <2>3
<1> DEFINE rest == <<r[1] + n - 1, r[2]>>
<1>6. more = (IF n <= 1 THEN {} ELSE {rest}) \cup (left \ {r})
  BY DEF Rest, Advance
<1>7. n > 1 => rest \in Interval /\ rest[1] = r[1] + n - 1 /\ rest[2] = r[2]
  BY <1>3, <1>4 DEF Interval
<1> HIDE DEF more, rest
<1>8. \A q \in more : (q = rest /\ n > 1) \/ q \in left \ {r}
  BY <1>4, <1>6
<1>9. IsPlan(more, N)
  <2>1. more \subseteq Interval /\ Below(more, N)
    BY <1>1, <1>3, <1>7, <1>8 DEF Below
  <2>2. Disjoint(more)
    <3> SUFFICES ASSUME NEW p \in more, NEW q \in more, p # q PROVE p[2] < q[1] \/ q[2] < p[1]
      BY DEF Disjoint
    <3>1. CASE p \in left \ {r} /\ q \in left \ {r}
      BY <1>1, <3>1 DEF Disjoint
    <3>2. CASE p = rest /\ n > 1 /\ q \in left \ {r}
      BY <1>5, <1>7, <3>2
    <3>3. CASE q = rest /\ n > 1 /\ p \in left \ {r}
      BY <1>5, <1>7, <3>3
    <3> QED BY <1>8, <3>1, <3>2, <3>3
  <2> QED BY <2>1, <2>2 DEF IsPlan
<1>10. more \in SUBSET Interval
  BY <1>9 DEF IsPlan
(* Where an address still to come lies. *)
<1>11. \A y : y \in Covered(more) =>
         /\ y \in Covered(left)
         /\ y \in Nat /\ r[1] + n - 1 <= y
  <2> SUFFICES ASSUME NEW y \in Covered(more)
               PROVE  y \in Covered(left) /\ y \in Nat /\ r[1] + n - 1 <= y
    OBVIOUS
  <2>1. y \in Nat /\ \E q \in more : q[1] <= y /\ y < q[2]
    BY <1>10, CoveredIn
  <2>2. PICK q \in more : q[1] <= y /\ y < q[2]
    BY <2>1
  <2>3. CASE q = rest /\ n > 1
    <3>1. r[1] + n - 1 <= y /\ y < r[2]
      BY <1>7, <2>2, <2>3
    <3>2. r[1] <= y
      BY <1>3, <1>4, <2>1, <3>1
    <3> QED BY <1>1, <1>2, <2>1, <3>1, <3>2, CoveredIn
  <2>4. CASE q \in left \ {r}
    <3>1. r[1] + n - 1 <= y
      BY <1>3, <1>4, <1>5, <2>1, <2>2, <2>4
    <3> QED BY <1>1, <2>1, <2>2, <2>4, <3>1, CoveredIn
  <2> QED BY <1>8, <2>3, <2>4
<1>12. \A y \in Covered(left) : y \in r[1] .. r[1] + n - 1 \/ y \in Covered(more)
  <2> SUFFICES ASSUME NEW y \in Covered(left), y \notin r[1] .. r[1] + n - 1 PROVE y \in Covered(more)
    OBVIOUS
  <2>1. y \in Nat /\ \E q \in left : q[1] <= y /\ y < q[2]
    BY <1>1, CoveredIn
  <2>2. PICK q \in left : q[1] <= y /\ y < q[2]
    BY <2>1
  <2>3. CASE q # r
    <3>1. q \in more
      BY <1>6, <2>3
    <3> QED BY <1>10, <2>1, <2>2, <3>1, CoveredIn
  <2>4. CASE q = r
    <3>1. r[1] + n - 1 < y
      BY <1>3, <1>4, <2>1, <2>2, <2>4
    <3>2. n > 1
      BY <1>3, <1>4, <2>1, <2>2, <2>4, <3>1
    <3>3. rest \in more
      BY <1>4, <1>6, <3>2
    <3>4. rest[1] <= y /\ y < rest[2]
      BY <1>3, <1>4, <1>7, <2>1, <2>2, <2>4, <3>1, <3>2
    <3> QED BY <1>10, <2>1, <3>3, <3>4, CoveredIn
  <2> QED BY <2>3, <2>4
(* What this read finds. *)
<1>13. r[1] .. r[1] + n - 1 \subseteq Covered(left)
  <2> SUFFICES ASSUME NEW y \in r[1] .. r[1] + n - 1 PROVE y \in Covered(left)
    OBVIOUS
  <2>1. y \in Nat /\ r[1] <= y /\ y < r[2]
    BY <1>3, <1>4
  <2> QED BY <1>1, <1>2, <2>1, CoveredIn
<1>14. Asc(got) /\ \A h \in ToSet(got) : h <= r[1]
  <2>1. r[1] \in Covered(left)
    BY <1>3, <1>4, <1>13
  <2> QED BY <2>1 DEF Swept
<1>15. Asc(found) /\ ToSet(found) = ToSet(got) \cup Tagged(r[1] .. r[1] + n - 1)
  BY <1>3, <1>4, <1>14, FoundIs DEF Tagged
<1> HIDE DEF found
<1>16. ToSet(found) \subseteq Tagged(area)
  BY <1>13, <1>15 DEF Swept, Tagged
<1>17. Covered(more) \subseteq area
  BY <1>11 DEF Swept
<1>18. Tagged(area) \subseteq ToSet(found) \cup Covered(more)
  <2> SUFFICES ASSUME NEW h \in Tagged(area), h \notin Covered(more) PROVE h \in ToSet(found)
    OBVIOUS
  <2>1. h \in ToSet(got) \/ h \in r[1] .. r[1] + n - 1
    BY <1>12 DEF Swept
  <2> QED BY <1>15, <2>1 DEF Tagged
<1>19. \A h \in ToSet(found), y \in Covered(more) : h <= y
  <2> SUFFICES ASSUME NEW h \in ToSet(found), NEW y \in Covered(more) PROVE h <= y
    OBVIOUS
  <2>1. y \in Covered(left) /\ y \in Nat /\ r[1] + n - 1 <= y
    BY <1>11
  <2>2. CASE h \in ToSet(got)
    BY <2>1, <2>2 DEF Swept
  <2>3. CASE h \in r[1] .. r[1] + n - 1
    BY <1>3, <1>4, <2>1, <2>3
  <2> QED BY <1>15, <2>2, <2>3 DEF Tagged
<1>20. Swept(area, more, found)
  BY <1>15, <1>16, <1>17, <1>18, <1>19 DEF Swept
<1> QED BY <1>9, <1>20 DEF more, found, n, r

-----------------------------------------------------------------------------
(* The sweep as a whole. *)

Inner == Covered(core.ranges)
Beyond == Covered(wide.ranges) \ Covered(core.ranges)
NoHits == [core |-> <<>>, outer |-> <<>>]

Plans ==
    /\ \E N \in Nat : PlanOf(core, Accounted(memory), N)
    /\ \E N \in Nat : PlanOf(wide, Accounted(memory), N)

(* What each pass has found lies in its own area.                              *)
Lists ==
    /\ hits = [core |-> hits.core, outer |-> hits.outer]
    /\ Asc(hits.core) /\ ToSet(hits.core) \subseteq Tagged(Inner)
    /\ Asc(hits.outer) /\ ToSet(hits.outer) \subseteq Tagged(Beyond)

(* The core is swept, unless time ran out before; then nothing beyond it is.   *)
CoreSwept == Tagged(Inner) \subseteq ToSet(hits.core) \/ (partial /\ late /\ hits.outer = <<>>)
OuterSwept == Tagged(Beyond) \subseteq ToSet(hits.outer) \/ partial

Matched == Cardinality({i \in 1 .. Len(AllHits) : AllHits[i] \in Accounted(memory)})

Outcome ==
    \/ Accounted(memory) = {} /\ hits = NoHits /\ only = {} /\ ~defect
    \/ /\ CoreSwept /\ OuterSwept
       /\ only = UNION {Claim(memory, h) : h \in ToSet(AllHits) \ Accounted(memory)}
       /\ defect = (Matched < Cardinality(Accounted(memory)) /\ ~partial /\ ~core.cut)

Staged ==
    /\ pass \in {"off", "core", "outer", "classify", "done"}
    /\ memory \in Memory /\ late \in BOOLEAN /\ partial \in BOOLEAN /\ defect \in BOOLEAN
    /\ pass = "off" => hits = NoHits /\ only = {} /\ ~defect /\ ~partial /\ ranges = {}
    /\ pass \in {"core", "outer", "classify"} => only = {} /\ ~defect
    /\ pass # "off" => Plans /\ Lists /\ \E N \in Nat : IsPlan(ranges, N)

SweepInv ==
    /\ Staged
    /\ pass = "core" => ~partial /\ hits.outer = <<>> /\ Swept(Inner, ranges, hits.core)
    /\ pass = "outer" => CoreSwept /\ Swept(Beyond, ranges, hits.outer)
    /\ pass = "classify" => CoreSwept /\ OuterSwept
    /\ pass = "done" => Outcome

(* A header accounted for is a tagged one in memory.                           *)
LEMMA AccountedIs ==
    ASSUME NEW m \in Memory
    PROVE  /\ Accounted(m) \subseteq VA
           /\ \A h \in Accounted(m) : Read(m, h)
           /\ \A b \in Calibrated(m) : Header(m, b) \in VA /\ Header(m, b) < b /\ b \in VA
<1>1. ASSUME NEW b \in Calibrated(m)
      PROVE  /\ Header(m, b) \in VA /\ Read(m, Header(m, b))
             /\ Header(m, b) < b /\ b \in VA
  <2>1. b \in VA /\ Behind(m, b) # {}
    BY <1>1 DEF Calibrated, Memory
  <2>2. Behind(m, b) \in SUBSET Nat /\ \A x \in Behind(m, b) : x <= Top
    BY PoolSweepAssumption DEF Behind, VA
  <2>3. Header(m, b) \in Behind(m, b)
    BY <2>1, <2>2, GreatestIs, PoolSweepAssumption DEF Header
  <2> QED BY <2>1, <2>3 DEF Behind
<1> QED BY <1>1 DEF Accounted

LEMMA EmptyAsc == Asc(<<>>) /\ ToSet(<<>>) = {}
BY DEF Asc, ToSet

LEMMA StartInv ==
    ASSUME SweepInv, NEW m \in Memory, StartSweep(m)
    PROVE  SweepInv'
<1>1. /\ pass = "off" /\ memory' = m
      /\ core' = PlanPoolSweep(Accounted(m), CoreMargin, CoreGap)
      /\ wide' = PlanPoolSweep(Accounted(m), WideMargin, WideGap)
      /\ ranges' = core'.ranges
      /\ pass' = IF Accounted(m) = {} THEN "done" ELSE "core"
      /\ UNCHANGED <<late, partial, hits, only, defect>>
  BY DEF StartSweep
<1>2. hits' = NoHits /\ only' = {} /\ ~defect' /\ ~partial'
  BY <1>1 DEF SweepInv, Staged
<1>3. Accounted(m) \in SUBSET (0 .. Top) /\ Top \in Nat
      /\ CoreMargin \in Nat /\ CoreGap \in Nat /\ WideMargin \in Nat /\ WideGap \in Nat
  BY AccountedIs, PoolSweepAssumption DEF VA
<1>4. PICK N \in Nat : PlanOf(core', Accounted(m), N)
  BY <1>1, <1>3, PlanIs
<1>5. \E M \in Nat : PlanOf(wide', Accounted(m), M)
  BY <1>1, <1>3, PlanIs
<1>6. Plans'
  BY <1>1, <1>4, <1>5 DEF Plans
<1>7. hits'.core = <<>> /\ hits'.outer = <<>> /\ hits' = [core |-> hits'.core, outer |-> hits'.outer]
  BY <1>2 DEF NoHits
<1>8. Lists'
  BY <1>7, EmptyAsc DEF Lists
<1>9. IsPlan(ranges', N)
  BY <1>1, <1>4 DEF PlanOf
<1>10. Staged'
  BY <1>1, <1>2, <1>6, <1>8, <1>9 DEF Staged, SweepInv
<1>11. Swept(Inner, ranges, hits.core)'
  <2>1. ranges' \in SUBSET Interval
    BY <1>9 DEF IsPlan
  <2>2. Covered(ranges') = Inner'
    BY <1>1 DEF Inner
  <2> QED BY <1>7, <2>2, EmptyAsc DEF Swept, Tagged
<1>12. pass' = "done" => Outcome'
  BY <1>1, <1>2 DEF Outcome, NoHits
<1> QED BY <1>1, <1>2, <1>7, <1>10, <1>11, <1>12 DEF SweepInv

LEMMA EndInv == EndSweep => SweepInv'
<1> SUFFICES ASSUME EndSweep PROVE SweepInv'
  OBVIOUS
<1>1. NoMemory \in Memory
  BY DEF NoMemory, Memory
<1> QED BY <1>1 DEF EndSweep, SweepInv, Staged, NoHits

LEMMA ReadInv == SweepInv /\ Sweep => SweepInv'
<1> SUFFICES ASSUME SweepInv, Sweep PROVE SweepInv'
  OBVIOUS
<1> DEFINE r == First(ranges)
           n == Least({Unit, r[2] - r[1]})
<1>1. /\ pass \in {"core", "outer"} /\ ranges # {} /\ ~late
      /\ hits' = [hits EXCEPT ![pass] = Found(hits[pass], r[1], n)]
      /\ ranges' = Rest(ranges, r, n)
      /\ UNCHANGED <<pass, memory, core, wide, late, partial, only, defect>>
  BY DEF Sweep, Rest
<1>2. PICK N \in Nat : IsPlan(ranges, N)
  BY <1>1 DEF SweepInv, Staged
<1>3. Plans /\ Lists
  BY <1>1 DEF SweepInv, Staged
<1>4. (\E M \in Nat : IsPlan(core.ranges, M)) /\ \E M \in Nat : IsPlan(wide.ranges, M)
  BY <1>3 DEF Plans, PlanOf
<1>5. Inner \in SUBSET Nat /\ Beyond \in SUBSET Nat
  BY <1>4, CoveredIn DEF Inner, Beyond, IsPlan
<1>6. Plans' /\ Inner' = Inner /\ Beyond' = Beyond
  BY <1>1, <1>3 DEF Plans, Inner, Beyond
<1> HIDE DEF r, n
<1>7. CASE pass = "core"
  <2>1. Swept(Inner, ranges, hits.core) /\ ~partial /\ hits.outer = <<>>
    BY <1>7 DEF SweepInv
  <2>2. /\ IsPlan(ranges', N)
        /\ Swept(Inner, ranges', Found(hits.core, r[1], n))
    BY <1>1, <1>2, <1>5, <2>1, ReadStep DEF r, n
  <2>3. hits'.core = Found(hits.core, r[1], n) /\ hits'.outer = hits.outer
        /\ hits' = [core |-> hits'.core, outer |-> hits'.outer]
    BY <1>1, <1>3, <1>7 DEF Lists
  <2>4. Swept(Inner, ranges, hits.core)'
    BY <1>1, <1>6, <2>2, <2>3 DEF Swept, Tagged
  <2>5. Lists'
    BY <1>1, <1>3, <1>6, <2>3, <2>4 DEF Lists, Swept, Tagged
  <2>6. Staged'
    BY <1>1, <1>6, <2>2, <2>5 DEF SweepInv, Staged
  <2> QED BY <1>1, <1>7, <2>1, <2>3, <2>4, <2>6 DEF SweepInv
<1>8. CASE pass = "outer"
  <2>1. Swept(Beyond, ranges, hits.outer) /\ CoreSwept
    BY <1>8 DEF SweepInv
  <2>2. /\ IsPlan(ranges', N)
        /\ Swept(Beyond, ranges', Found(hits.outer, r[1], n))
    BY <1>1, <1>2, <1>5, <2>1, ReadStep DEF r, n
  <2>3. hits'.outer = Found(hits.outer, r[1], n) /\ hits'.core = hits.core
        /\ hits' = [core |-> hits'.core, outer |-> hits'.outer]
    BY <1>1, <1>3, <1>8 DEF Lists
  <2>4. Swept(Beyond, ranges, hits.outer)'
    BY <1>1, <1>6, <2>2, <2>3 DEF Swept, Tagged
  <2>5. Lists'
    BY <1>1, <1>3, <1>6, <2>3, <2>4 DEF Lists, Swept, Tagged
  <2>6. Staged'
    BY <1>1, <1>6, <2>2, <2>5 DEF SweepInv, Staged
  <2>7. CoreSwept'
    BY <1>1, <1>6, <2>1, <2>3 DEF CoreSwept, Tagged
  <2> QED BY <1>1, <1>8, <2>4, <2>6, <2>7 DEF SweepInv
<1> QED BY <1>1, <1>7, <1>8

LEMMA ExpireInv == SweepInv /\ Expire => SweepInv'
<1> SUFFICES ASSUME SweepInv, Expire PROVE SweepInv'
  OBVIOUS
<1>1. /\ pass \in {"core", "outer"} /\ ~late /\ late' = TRUE
      /\ UNCHANGED <<pass, memory, core, wide, ranges, partial, hits, only, defect>>
  BY DEF Expire
<1>2. Inner' = Inner /\ Beyond' = Beyond
  BY <1>1 DEF Inner, Beyond
<1>3. Plans' /\ Lists' /\ Staged'
  BY <1>1, <1>2 DEF SweepInv, Staged, Plans, Lists, Tagged
<1>4. pass = "core" => Swept(Inner, ranges, hits.core)'
  BY <1>1, <1>2 DEF SweepInv, Swept, Tagged
<1>5. pass = "outer" => CoreSwept' /\ Swept(Beyond, ranges, hits.outer)'
  BY <1>1, <1>2 DEF SweepInv, CoreSwept, Swept, Tagged
<1> QED BY <1>1, <1>3, <1>4, <1>5 DEF SweepInv

LEMMA EndsInv == SweepInv /\ PassEnds => SweepInv'
<1> SUFFICES ASSUME SweepInv, PassEnds PROVE SweepInv'
  OBVIOUS
<1>1. /\ pass \in {"core", "outer"} /\ (ranges = {} \/ late)
      /\ partial' = (partial \/ ranges # {})
      /\ IF pass = "core" THEN pass' = "outer" /\ ranges' = Subtract(wide.ranges, core.ranges)
                          ELSE pass' = "classify" /\ ranges' = {}
      /\ UNCHANGED <<memory, core, wide, late, hits, only, defect>>
  BY DEF PassEnds
<1>2. Inner' = Inner /\ Beyond' = Beyond
  BY <1>1 DEF Inner, Beyond
<1>3. Plans /\ Lists /\ Plans' /\ Lists'
  BY <1>1, <1>2 DEF SweepInv, Staged, Plans, Lists, Tagged
<1>4. Covered({}) = {}
  BY DEF Covered
<1>5. partial' \in BOOLEAN /\ late' \in BOOLEAN
  BY <1>1 DEF SweepInv, Staged
<1>6. CASE pass = "core"
  <2>1. Swept(Inner, ranges, hits.core) /\ ~partial /\ hits.outer = <<>>
    BY <1>6 DEF SweepInv
  <2>2. CoreSwept'
    BY <1>1, <1>2, <1>4, <2>1 DEF CoreSwept, Swept, Tagged
  <2>3. PICK N \in Nat : IsPlan(wide.ranges, N)
    BY <1>3 DEF Plans, PlanOf
  <2>4. core.ranges \in SUBSET Interval
    BY <1>3 DEF Plans, PlanOf, IsPlan
  <2>5. IsPlan(ranges', N) /\ Covered(ranges') = Beyond'
    BY <1>1, <1>2, <1>6, <2>3, <2>4, SubtractIs DEF Beyond
  <2>6. Swept(Beyond, ranges, hits.outer)'
    BY <1>1, <2>1, <2>5, EmptyAsc DEF Swept, Tagged
  <2>7. Staged'
    BY <1>1, <1>3, <1>5, <1>6, <2>5 DEF SweepInv, Staged
  <2> QED BY <1>1, <1>6, <2>2, <2>6, <2>7 DEF SweepInv
<1>7. CASE pass = "outer"
  <2>1. Swept(Beyond, ranges, hits.outer) /\ CoreSwept
    BY <1>7 DEF SweepInv
  <2>2. CoreSwept'
    BY <1>1, <1>2, <2>1 DEF CoreSwept, Tagged
  <2>3. OuterSwept'
    BY <1>1, <1>2, <1>4, <2>1 DEF OuterSwept, Swept, Tagged
  <2>4. IsPlan({}, 0) /\ 0 \in Nat
    BY DEF IsPlan, Below, Disjoint
  <2>5. Staged'
    BY <1>1, <1>3, <1>5, <1>7, <2>4 DEF SweepInv, Staged
  <2> QED BY <1>1, <1>7, <2>2, <2>3, <2>5 DEF SweepInv
<1> QED BY <1>1, <1>6, <1>7

LEMMA ClassifyInv == SweepInv /\ Classify => SweepInv'
<1> SUFFICES ASSUME SweepInv, Classify PROVE SweepInv'
  OBVIOUS
<1>1. /\ pass = "classify" /\ pass' = "done"
      /\ only' = UNION {Claim(memory, h) : h \in ToSet(AllHits) \ Accounted(memory)}
      /\ defect' = (Matched < Cardinality(Accounted(memory)) /\ ~partial /\ ~core.cut)
      /\ UNCHANGED <<memory, core, wide, ranges, late, partial, hits>>
  BY DEF Classify, Matched
<1>2. Inner' = Inner /\ Beyond' = Beyond /\ AllHits' = AllHits /\ Matched' = Matched
  BY <1>1 DEF Inner, Beyond, AllHits, Matched
<1>3. Plans' /\ Lists'
  BY <1>1, <1>2 DEF SweepInv, Staged, Plans, Lists, Tagged
<1>4. CoreSwept' /\ OuterSwept'
  BY <1>1, <1>2 DEF SweepInv, CoreSwept, OuterSwept, Tagged
<1>5. defect' \in BOOLEAN
  BY <1>1
<1>6. Staged'
  BY <1>1, <1>3, <1>5 DEF SweepInv, Staged
<1>7. Outcome'
  BY <1>1, <1>2, <1>4 DEF Outcome
<1> QED BY <1>1, <1>6, <1>7 DEF SweepInv

LEMMA StillInv == SweepInv /\ UNCHANGED sweepVars => SweepInv'
<1> SUFFICES ASSUME SweepInv, UNCHANGED sweepVars PROVE SweepInv'
  OBVIOUS
<1>1. UNCHANGED <<pass, memory, core, wide, ranges, late, partial, hits, only, defect>>
  BY DEF sweepVars
<1>2. Inner' = Inner /\ Beyond' = Beyond /\ AllHits' = AllHits /\ Matched' = Matched
  BY <1>1 DEF Inner, Beyond, AllHits, Matched
<1>3. Plans' = Plans /\ Lists' = Lists
  BY <1>1, <1>2 DEF Plans, Lists, Tagged
<1>4. Staged'
  BY <1>1, <1>3 DEF SweepInv, Staged
<1>5. CoreSwept' = CoreSwept /\ OuterSwept' = OuterSwept
  BY <1>1, <1>2 DEF CoreSwept, OuterSwept, Tagged
<1>6. Outcome' = Outcome
  BY <1>1, <1>2, <1>5 DEF Outcome
<1>7. /\ Swept(Inner, ranges, hits.core)' = Swept(Inner, ranges, hits.core)
      /\ Swept(Beyond, ranges, hits.outer)' = Swept(Beyond, ranges, hits.outer)
  BY <1>1, <1>2 DEF Swept, Tagged
<1> QED BY <1>1, <1>4, <1>5, <1>6, <1>7 DEF SweepInv

LEMMA SweepAlways == EngineSpec => [](IType /\ SweepInv)
<1>1. EngineInit => IType /\ SweepInv
  <2>1. EngineInit => IType
    BY InitType DEF EngineInit
  <2>2. NoMemory \in Memory
    BY DEF NoMemory, Memory
  <2> QED BY <2>1, <2>2 DEF EngineInit, SweepInit, SweepInv, Staged, NoHits
<1>2. (IType /\ SweepInv) /\ [EngineNext]_engineVars => (IType /\ SweepInv)'
  <2> SUFFICES ASSUME IType, SweepInv, [EngineNext]_engineVars PROVE IType' /\ SweepInv'
    OBVIOUS
  <2>1. IType'
    BY NextType, EngineStep
  <2>2. CASE BeginSweep
    <3>1. img \in Image
      BY <2>2, AnalysedList DEF BeginSweep
    <3>2. img.memory \in Memory
      BY <3>1, EngineAssumption DEF Image
    <3> QED BY <2>1, <2>2, <3>2, StartInv DEF BeginSweep
  <2>3. CASE DuringSweep
    BY <2>1, <2>3, ReadInv, ExpireInv, EndsInv, ClassifyInv DEF DuringSweep, SweepNext
  <2>4. CASE Scanned \/ Elsewhere
    BY <2>1, <2>4, EndInv DEF Scanned, Elsewhere
  <2>5. CASE UNCHANGED engineVars
    BY <2>1, <2>5, StillInv DEF engineVars
  <2> QED BY <2>2, <2>3, <2>4, <2>5 DEF EngineNext
<1> QED BY <1>1, <1>2, PTL DEF EngineSpec

-----------------------------------------------------------------------------
(* What follows. *)

(* Both lists together, in the order of the passes.                            *)
LEMMA BothLists ==
    ASSUME Lists
    PROVE  /\ AllHits \in Seq(Nat) /\ ToSet(AllHits) = ToSet(hits.core) \cup ToSet(hits.outer)
           /\ \A i, j \in 1 .. Len(AllHits) : AllHits[i] = AllHits[j] => i = j
<1> DEFINE s == hits.core
           t == hits.outer
           n == Len(s)
<1>1. Asc(s) /\ Asc(t) /\ ToSet(s) \subseteq Inner /\ \A h \in ToSet(t) : h \notin Inner
  BY DEF Lists, Tagged, Inner, Beyond
<1>2. s \in Seq(Nat) /\ t \in Seq(Nat) /\ n \in Nat /\ Len(t) \in Nat
      /\ DOMAIN s = 1 .. n /\ DOMAIN t = 1 .. Len(t)
  BY <1>1 DEF Asc
<1>3. /\ AllHits \in Seq(Nat) /\ Len(AllHits) = n + Len(t) /\ DOMAIN AllHits = 1 .. n + Len(t)
      /\ \A i \in 1 .. n : AllHits[i] = s[i]
      /\ \A i \in 1 .. n + Len(t) : i > n => AllHits[i] = t[i - n]
  <2>1. AllHits = s \o t
    BY DEF AllHits
  <2> HIDE DEF s, t
  <2>2. AllHits \in Seq(Nat) /\ Len(AllHits) = n + Len(t)
    BY <1>2, <2>1
  <2>3. DOMAIN AllHits = 1 .. n + Len(t)
    BY <2>2
  <2>4. \A i \in 1 .. n : AllHits[i] = s[i]
    BY <1>2, <2>1
  <2>5. \A i \in 1 .. n + Len(t) : i > n => AllHits[i] = t[i - n]
    BY <1>2, <2>1
  <2> QED BY <2>2, <2>3, <2>4, <2>5
<1> HIDE DEF s, t, n
<1>4. \A i \in 1 .. n + Len(t) : \/ i \in 1 .. n /\ AllHits[i] = s[i] /\ s[i] \in ToSet(s)
                                 \/ i > n /\ i - n \in 1 .. Len(t) /\ AllHits[i] = t[i - n]
                                    /\ t[i - n] \in ToSet(t)
  <2> SUFFICES ASSUME NEW i \in 1 .. n + Len(t)
               PROVE  \/ i \in 1 .. n /\ AllHits[i] = s[i] /\ s[i] \in ToSet(s)
                      \/ i > n /\ i - n \in 1 .. Len(t) /\ AllHits[i] = t[i - n]
                         /\ t[i - n] \in ToSet(t)
    OBVIOUS
  <2>1. CASE i \in 1 .. n
    BY <1>2, <1>3, <2>1 DEF ToSet
  <2>2. CASE i \notin 1 .. n
    <3>1. i > n /\ i - n \in 1 .. Len(t)
      BY <1>2, <2>2
    <3> QED BY <1>2, <1>3, <3>1 DEF ToSet
  <2> QED BY <2>1, <2>2
<1>5. ToSet(AllHits) = ToSet(s) \cup ToSet(t)
  <2>1. ToSet(AllHits) \subseteq ToSet(s) \cup ToSet(t)
    BY <1>3, <1>4 DEF ToSet
  <2>2. \A i \in 1 .. n : i \in 1 .. n + Len(t) /\ s[i] = AllHits[i]
    BY <1>2, <1>3
  <2>3. \A i \in 1 .. Len(t) : n + i \in 1 .. n + Len(t) /\ t[i] = AllHits[n + i]
    <3> SUFFICES ASSUME NEW i \in 1 .. Len(t)
                 PROVE  n + i \in 1 .. n + Len(t) /\ t[i] = AllHits[n + i]
      OBVIOUS
    <3>1. n + i \in 1 .. n + Len(t) /\ n + i > n /\ (n + i) - n = i
      BY <1>2
    <3> QED BY <1>3, <3>1
  <2>4. ToSet(s) \subseteq ToSet(AllHits)
    BY <1>2, <1>3, <2>2 DEF ToSet
  <2>5. ToSet(t) \subseteq ToSet(AllHits)
    <3> SUFFICES ASSUME NEW i \in 1 .. Len(t) PROVE t[i] \in ToSet(AllHits)
      BY <1>2 DEF ToSet
    <3>1. n + i \in DOMAIN AllHits /\ t[i] = AllHits[n + i]
      BY <1>3, <2>3
    <3> QED BY <3>1 DEF ToSet
  <2> QED BY <2>1, <2>4, <2>5
<1>6. \A i, j \in 1 .. n : s[i] = s[j] => i = j
  <2> SUFFICES ASSUME NEW i \in 1 .. n, NEW j \in 1 .. n, s[i] = s[j], i # j PROVE FALSE
    OBVIOUS
  <2>1. s[i] \in Nat
    BY <1>2
  <2>2. i < j \/ j < i
    BY <2>1, <1>2
  <2> QED BY <1>1, <2>1, <2>2 DEF Asc, n
<1>7. \A i, j \in 1 .. Len(t) : t[i] = t[j] => i = j
  <2> SUFFICES ASSUME NEW i \in 1 .. Len(t), NEW j \in 1 .. Len(t), t[i] = t[j], i # j PROVE FALSE
    OBVIOUS
  <2>1. t[i] \in Nat
    BY <1>2
  <2>2. i < j \/ j < i
    BY <2>1, <1>2
  <2> QED BY <1>1, <2>1, <2>2 DEF Asc
<1>8. ASSUME NEW i \in 1 .. n + Len(t), NEW j \in 1 .. n + Len(t), AllHits[i] = AllHits[j] PROVE i = j
  <2>1. \A h \in ToSet(s) : h \notin ToSet(t)
    BY <1>1
  <2>2. CASE i \in 1 .. n /\ j \in 1 .. n
    BY <1>3, <1>6, <1>8, <2>2
  <2>3. CASE i > n /\ j > n
    <3>0. i - n \in 1 .. Len(t) /\ j - n \in 1 .. Len(t)
      BY <1>2, <2>3
    <3>1. i - n \in 1 .. Len(t) /\ j - n \in 1 .. Len(t) /\ t[i - n] = t[j - n]
      BY <1>3, <1>8, <2>3, <3>0
    <3>2. i - n = j - n
      BY <1>7, <3>1
    <3> QED BY <1>2, <3>2
  <2>4. i \in 1 .. n \/ i > n
    BY <1>2
  <2>5. j \in 1 .. n \/ j > n
    BY <1>2
  <2> QED BY <1>4, <1>8, <2>1, <2>2, <2>3, <2>4, <2>5
<1> QED BY <1>3, <1>5, <1>8 DEF s, t

LEMMA SweptOnce == SweepInv => OnceEach
<1> SUFFICES ASSUME SweepInv PROVE OnceEach
  OBVIOUS
<1>1. CASE pass = "off"
  <2>1. AllHits = <<>>
    BY <1>1 DEF SweepInv, Staged, NoHits, AllHits
  <2>2. Len(AllHits) = 0
    BY <2>1
  <2> QED BY <2>2 DEF OnceEach
<1>2. CASE pass # "off"
  BY <1>2, BothLists DEF SweepInv, Staged, OnceEach
<1> QED BY <1>1, <1>2

LEMMA ClaimedIs ==
    ASSUME NEW m \in Memory, NEW h
    PROVE  Claim(m, h) \subseteq m.typed \ m.known /\ Claim(m, h) \subseteq VA
BY DEF Claim, Memory

LEMMA OnlyClaimed == SweepInv => only \subseteq memory.typed \ memory.known /\ only \subseteq VA
<1> SUFFICES ASSUME SweepInv, NEW o \in only PROVE o \in memory.typed \ memory.known /\ o \in VA
  OBVIOUS
<1>1. pass = "done" /\ Outcome /\ memory \in Memory
  BY DEF SweepInv, Staged
<1>2. PICK h \in ToSet(AllHits) \ Accounted(memory) : o \in Claim(memory, h)
  BY <1>1 DEF Outcome
<1> QED BY <1>1, <1>2, ClaimedIs

LEMMA SweptType == SweepInv => SweepTypeOK
<1> SUFFICES ASSUME SweepInv PROVE SweepTypeOK
  OBVIOUS
<1>1. /\ pass \in {"off", "core", "outer", "classify", "done"} /\ memory \in Memory
      /\ {late, partial, defect} \subseteq BOOLEAN
  BY DEF SweepInv, Staged
<1>2. ToSet(AllHits) \subseteq VA
  <2>1. CASE pass = "off"
    <3>1. AllHits = <<>>
      BY <2>1 DEF SweepInv, Staged, NoHits, AllHits
    <3> QED BY <3>1, EmptyAsc
  <2>2. CASE pass # "off"
    <3>1. Lists
      BY <2>2 DEF SweepInv, Staged
    <3>2. ToSet(AllHits) = ToSet(hits.core) \cup ToSet(hits.outer)
      BY <3>1, BothLists
    <3>3. memory.tags \subseteq VA
      BY <1>1 DEF Memory
    <3> QED BY <3>1, <3>2, <3>3 DEF Lists, Tagged, Read
  <2> QED BY <2>1, <2>2
<1>3. \A r \in ranges : r[1] < r[2]
  <2>1. CASE pass = "off"
    BY <2>1 DEF SweepInv, Staged
  <2>2. CASE pass # "off"
    BY <2>2 DEF SweepInv, Staged, IsPlan, Interval
  <2> QED BY <2>1, <2>2
<1> QED BY <1>1, <1>2, <1>3, OnlyClaimed DEF SweepTypeOK

LEMMA SweptPlans == SweepInv => PlanSound
<1> SUFFICES ASSUME SweepInv, pass = "done" PROVE PlanSound
  BY DEF PlanSound
<1>1. PICK N \in Nat : PlanOf(core, Accounted(memory), N)
  BY DEF SweepInv, Staged, Plans
<1>2. PICK M \in Nat : PlanOf(wide, Accounted(memory), M)
  BY DEF SweepInv, Staged, Plans
<1>3. \A p \in {core, wide} :
         /\ Disjoint(p.ranges) /\ Bytes(p.ranges) <= Cap
         /\ ~p.cut => Accounted(memory) \subseteq Covered(p.ranges)
  BY <1>1, <1>2 DEF PlanOf, IsPlan
<1>4. IsPlan(wide.ranges, M) /\ core.ranges \in SUBSET Interval
  BY <1>1, <1>2 DEF PlanOf, IsPlan
<1>5. LET outer == Subtract(wide.ranges, core.ranges)
      IN Covered(outer) = Covered(wide.ranges) \ Covered(core.ranges) /\ Disjoint(outer)
  BY <1>4, SubtractIs DEF IsPlan
<1> QED BY <1>3, <1>5 DEF PlanSound

LEMMA SweptCore == SweepInv => NoCoverageDefect
<1> SUFFICES ASSUME SweepInv PROVE NoCoverageDefect
  OBVIOUS
<1>1. hits.outer # <<>> => Tagged(Inner) \subseteq ToSet(hits.core)
  BY DEF SweepInv, Staged, NoHits, CoreSwept, Outcome
<1>2. ~defect
  <2> SUFFICES ASSUME defect PROVE FALSE
    OBVIOUS
  <2>1. /\ CoreSwept /\ ~partial /\ ~core.cut /\ Matched < Cardinality(Accounted(memory))
        /\ memory \in Memory /\ Plans /\ Lists
    BY DEF SweepInv, Staged, Outcome
  <2>2. Accounted(memory) \subseteq Tagged(Inner)
    BY <2>1, AccountedIs DEF Plans, PlanOf, Tagged, Inner
  <2>3. AllHits \in Seq(Nat) /\ ToSet(AllHits) = ToSet(hits.core) \cup ToSet(hits.outer)
    BY <2>1, BothLists
  <2>4. Accounted(memory) \subseteq ToSet(AllHits)
    BY <2>1, <2>2, <2>3 DEF CoreSwept
  <2> DEFINE I == {i \in 1 .. Len(AllHits) : AllHits[i] \in Accounted(memory)}
             f == [i \in I |-> AllHits[i]]
  <2>5. f \in Surjection(I, Accounted(memory))
    <3>1. f \in [I -> Accounted(memory)]
      OBVIOUS
    <3>2. \A h \in Accounted(memory) : \E i \in I : f[i] = h
      BY <2>3, <2>4 DEF ToSet
    <3> QED BY <3>1, <3>2 DEF Surjection
  <2>6. Len(AllHits) \in Nat
    BY <2>3
  <2>7. IsFiniteSet(1 .. Len(AllHits))
    BY <2>6, FS_Interval
  <2>8. IsFiniteSet(I)
    BY <2>7, FS_Subset
  <2>9. Cardinality(Accounted(memory)) <= Cardinality(I) /\ Cardinality(I) \in Nat
        /\ IsFiniteSet(Accounted(memory))
    BY <2>5, <2>8, FS_Surjection, FS_CardinalityType
  <2>10. Cardinality(Accounted(memory)) \in Nat /\ Matched = Cardinality(I)
    BY <2>9, FS_CardinalityType DEF Matched
  <2> QED BY <2>1, <2>9, <2>10
<1> QED BY <1>1, <1>2 DEF NoCoverageDefect, Tagged, Inner

(* Of two deltas one is tried before the other.                                *)
LEMMA DeltasOrdered ==
    ASSUME NEW m \in Memory
    PROVE  /\ \A d \in Deltas(m) : d \in Nat /\ d > 0 /\ Before(m, d, d)
           /\ \A d, e \in Deltas(m) : d # e => (Before(m, d, e) <=> ~Before(m, e, d))
<1>1. IsFiniteSet(VA) /\ \A x \in VA : x \in Nat
  BY FS_Interval, PoolSweepAssumption DEF VA
<1>2. Calibrated(m) \subseteq VA
  BY DEF Calibrated, Memory
<1>3. \A d : Uses(m, d) \in Nat
  <2> SUFFICES ASSUME NEW d PROVE Uses(m, d) \in Nat
    OBVIOUS
  <2>1. IsFiniteSet({b \in Calibrated(m) : b - Header(m, b) = d})
    BY <1>1, <1>2, FS_Subset
  <2> QED BY <2>1, FS_CardinalityType DEF Uses
<1>4. \A d \in Deltas(m) : d \in Nat /\ d > 0
  <2> SUFFICES ASSUME NEW b \in Calibrated(m) PROVE b - Header(m, b) \in Nat /\ b - Header(m, b) > 0
    BY DEF Deltas
  <2>1. Header(m, b) \in VA /\ Header(m, b) < b /\ b \in VA
    BY AccountedIs
  <2> QED BY <1>1, <2>1
<1> QED BY <1>3, <1>4 DEF Before

LEMMA SweptObjects == SweepInv => PoolOnlyExact
<1> SUFFICES ASSUME SweepInv, pass = "done", ~partial
             PROVE  only = {o \in memory.typed \ memory.known : \E h \in VA : Reachable(memory, o, h)}
  BY OnlyClaimed DEF PoolOnlyExact
<1> DEFINE m == memory
           A == Accounted(memory)
           Tags == Tagged(Covered(core.ranges) \cup Covered(wide.ranges))
<1>1. m \in Memory /\ Outcome /\ Lists
  BY DEF SweepInv, Staged
<1>2. \A h \in Tags : h \in VA /\ h \in Nat
  BY <1>1, PoolSweepAssumption DEF Tagged, Read, Memory, VA
<1>3. /\ \A d \in Deltas(m) : d \in Nat /\ d > 0 /\ Before(m, d, d)
      /\ \A d, e \in Deltas(m) : d # e => (Before(m, d, e) <=> ~Before(m, e, d))
  BY <1>1, DeltasOrdered
<1>4. \A o, h : Reachable(m, o, h) <=>
        /\ h \in Tags \ A /\ o > h /\ o - h \in Deltas(m)
        /\ \A d \in Deltas(m) \ {o - h} : Before(m, d, o - h) => h + d \notin m.known \cup m.typed
  BY DEF Reachable, Tagged
<1>5. CASE A = {} /\ only = {}
  <2>1. Deltas(m) = {}
    BY <1>5 DEF Accounted, Deltas
  <2> QED BY <1>4, <1>5, <2>1
<1>6. CASE /\ CoreSwept /\ OuterSwept
           /\ only = UNION {Claim(m, h) : h \in ToSet(AllHits) \ A}
  <2>1. ToSet(AllHits) = Tags
    <3>1. ToSet(AllHits) = ToSet(hits.core) \cup ToSet(hits.outer)
      BY <1>1, BothLists
    <3>2. ToSet(hits.core) = Tagged(Inner) /\ ToSet(hits.outer) = Tagged(Beyond)
      BY <1>1, <1>6 DEF Lists, CoreSwept, OuterSwept
    <3> QED BY <3>1, <3>2 DEF Tagged, Inner, Beyond
  <2> HIDE DEF Tags, A, m
  <2>2. ASSUME NEW h \in Tags, NEW o \in Claim(m, h)
        PROVE  /\ o \in m.typed \ m.known /\ o > h /\ o - h \in Deltas(m)
               /\ \A d \in Deltas(m) \ {o - h} : Before(m, d, o - h) => h + d \notin m.known \cup m.typed
    <3>1. PICK d \in Deltas(m) :
            /\ o = h + d /\ h + d \in m.known \cup m.typed /\ o \notin m.known
            /\ \A e \in Deltas(m) : h + e \in m.known \cup m.typed => Before(m, d, e)
      BY DEF Claim
    <3>2. o > h /\ o - h = d
      BY <1>2, <1>3, <3>1
    <3> QED BY <1>3, <3>1, <3>2
  <2>3. ASSUME NEW h \in Tags, NEW o \in m.typed \ m.known, o > h, o - h \in Deltas(m),
               \A d \in Deltas(m) \ {o - h} : Before(m, d, o - h) => h + d \notin m.known \cup m.typed
        PROVE  o \in Claim(m, h)
    <3> DEFINE d == o - h
    <3>1. o \in Nat /\ h \in Nat
      BY <1>1, <1>2, PoolSweepAssumption DEF Memory, VA
    <3>2. d \in Deltas(m) /\ h + d = o
      BY <2>3, <3>1
    <3>3. \A e \in Deltas(m) : h + e \in m.known \cup m.typed => Before(m, d, e)
      BY <1>3, <2>3, <3>2
    <3> HIDE DEF d
    <3> QED BY <3>2, <3>3 DEF Claim
  <2>4. \A o : o \in only <=> \E h \in Tags \ A : o \in Claim(m, h)
    BY <1>6, <2>1 DEF A, m
  <2>5. \A o \in only : o \in {x \in m.typed \ m.known : \E h \in VA : Reachable(m, x, h)}
    <3> SUFFICES ASSUME NEW o \in only
                 PROVE  o \in {x \in m.typed \ m.known : \E h \in VA : Reachable(m, x, h)}
      OBVIOUS
    <3>1. PICK h \in Tags \ A : o \in Claim(m, h)
      BY <2>4
    <3>2. Reachable(m, o, h)
      BY <1>4, <2>2, <3>1
    <3> QED BY <1>2, <2>2, <3>1, <3>2
  <2>6. \A o \in m.typed \ m.known : (\E h \in VA : Reachable(m, o, h)) => o \in only
    BY <1>4, <2>3, <2>4
  <2>7. \A o \in only : o \in m.typed \ m.known
    BY <2>5
  <2> QED BY <2>5, <2>6, <2>7 DEF m
<1> QED BY <1>1, <1>5, <1>6 DEF Outcome

-----------------------------------------------------------------------------
(* The theorems. *)

(* Everything the engine and its sweep hold keeps its type, and no range that   *)
(* is to be read is empty: what the subtraction of the core leaves never is.   *)
THEOREM EngineTyped == EngineSpec => []EngineTypeOK
<1>1. IType /\ SweepInv => EngineTypeOK
  BY SweptType DEF EngineTypeOK, IType
<1> QED BY SweepAlways, <1>1, PTL

(* "ranges cover every input address whenever truncated is false ... sorted,    *)
(* disjoint" (poolscan.go:96): for any addresses, margins, gaps and cap, through *)
(* every halving; and the outer pass reads what the core did not, and all of it. *)
THEOREM PlansAreSound == EngineSpec => []PlanSound
BY SweepAlways, SweptPlans, PTL

(* "never to a failed cross-check" (recover_vmm.go:1013): whenever the budget    *)
(* runs out, every header of an enumerated process that the plan covers is     *)
(* found before anything beyond it, and no coverage defect is ever reported.   *)
THEOREM CoverageNeverFails == EngineSpec => []NoCoverageDefect
BY SweepAlways, SweptCore, PTL

(* "the overlap's duplicate hit is dropped" (recover_vmm.go:1094): over both     *)
(* passes and reads of any size a header is reported once.                     *)
THEOREM HeadersOnce == EngineSpec => []OnceEach
BY SweepAlways, SweptOnce, PTL

(* "any header that resolves to a valid Process object the enumeration missed"  *)
(* (recover_vmm.go:967), and nothing else, wherever holes, echoes of the tag    *)
(* and ambiguous deltas lie.                                                   *)
THEOREM PoolOnlyIsExact == EngineSpec => []PoolOnlyExact
BY SweepAlways, SweptObjects, PTL

=============================================================================
