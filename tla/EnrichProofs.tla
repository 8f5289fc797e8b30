------------------------------ MODULE EnrichProofs ------------------------------
(***************************************************************************)
(* Theorems about collapsing and linking, for any machine, any collectors  *)
(* and any order of events.                                                *)
(***************************************************************************)
EXTENDS Enrich, FiniteSetTheorems, WellFoundedInduction, TLAPS

-----------------------------------------------------------------------------
(* Sequences. *)

(* Every non-empty set of numbers has a least one: what inductions rest on.    *)
LEMMA LeastOne == ASSUME NEW T \in SUBSET Nat, T # {} PROVE \E m \in T : \A k \in T : m <= k
<1> DEFINE R == OpToRel(<, Nat)
<1>1. R = {ss \in Nat \X Nat : ss[1] < ss[2]}
  BY DEF OpToRel
<1>2. IsWellFoundedOn(R, Nat)
  BY NatLessThanWellFounded
<1> HIDE DEF R
<1>3. PICK m \in T : \A k \in T : <<k, m>> \notin R
  BY <1>2, WFMin
<1>4. \A k \in T : ~(k < m)
  BY <1>1, <1>3
<1> QED BY <1>4

(* A sequence, whatever its elements are.                                      *)
IsList(s) == s \in Seq(ToSet(s))

LEMMA ListIs ==
    ASSUME NEW s, IsList(s)
    PROVE  /\ Len(s) \in Nat /\ DOMAIN s = 1 .. Len(s)
           /\ \A i \in 1 .. Len(s) : s[i] \in ToSet(s)
BY DEF IsList, ToSet

LEMMA SeqIsList == ASSUME NEW S, NEW s \in Seq(S) PROVE IsList(s) /\ ToSet(s) \subseteq S
BY DEF IsList, ToSet

LEMMA FunIsList == ASSUME NEW n \in Nat, NEW s, s = [i \in 1 .. n |-> s[i]] PROVE IsList(s) /\ Len(s) = n
<1>1. s \in [1 .. n -> ToSet(s)]
  BY DEF ToSet
<1> QED BY <1>1 DEF IsList

LEMMA Concat ==
    ASSUME NEW s, NEW t, IsList(s), IsList(t)
    PROVE  /\ IsList(s \o t) /\ Len(s \o t) = Len(s) + Len(t)
           /\ \A i \in 1 .. Len(s) : (s \o t)[i] = s[i]
           /\ \A i \in 1 .. Len(t) : (s \o t)[Len(s) + i] = t[i]
           /\ \A i \in 1 .. Len(s) + Len(t) :
                \/ i \in 1 .. Len(s) /\ (s \o t)[i] = s[i]
                \/ i - Len(s) \in 1 .. Len(t) /\ (s \o t)[i] = t[i - Len(s)]
<1> DEFINE S == ToSet(s) \cup ToSet(t)
<1>1. s \in Seq(S) /\ t \in Seq(S)
  BY DEF IsList
<1>2. s \o t \in Seq(S) /\ Len(s \o t) = Len(s) + Len(t) /\ Len(s) \in Nat /\ Len(t) \in Nat
  BY <1>1
<1> HIDE DEF S
<1>3. IsList(s \o t)
  BY <1>2, SeqIsList
<1>4. \A i \in 1 .. Len(s) : (s \o t)[i] = s[i]
  BY <1>1
<1>5. \A i \in 1 .. Len(s) + Len(t) :
        \/ i \in 1 .. Len(s) /\ (s \o t)[i] = s[i]
        \/ i - Len(s) \in 1 .. Len(t) /\ (s \o t)[i] = t[i - Len(s)]
  BY <1>1, <1>2
<1>6. ASSUME NEW i \in 1 .. Len(t) PROVE (s \o t)[Len(s) + i] = t[i]
  BY <1>2, <1>5
<1> QED BY <1>2, <1>3, <1>4, <1>5, <1>6

(* The sequence Pick builds up, up to the n-th element.                        *)
Picked(s, I, n, w) ==
    w = [m \in 0 .. n |->
           IF m = 0 THEN <<>>
           ELSE IF m \in I THEN Append(w[m - 1], s[m]) ELSE w[m - 1]]

(* The recursive definition has a solution.                                    *)
LEMMA PickedExists ==
    ASSUME NEW s, NEW I PROVE \A n \in Nat : \E w : Picked(s, I, n, w)
<1> DEFINE T == {n \in Nat : ~\E w : Picked(s, I, n, w)}
<1> SUFFICES ASSUME T # {} PROVE FALSE
  OBVIOUS
<1>1. T \in SUBSET Nat
  OBVIOUS
<1>2. PICK m \in T : \A k \in T : m <= k
  BY <1>1, LeastOne
<1>3. m \in Nat /\ ~\E w : Picked(s, I, m, w)
  OBVIOUS
<1>4. CASE m = 0
  <2> DEFINE w == [i \in 0 .. 0 |-> <<>>]
  <2>1. Picked(s, I, 0, w)
    BY DEF Picked
  <2> QED BY <1>3, <1>4, <2>1
<1>5. CASE m # 0
  <2>1. m - 1 \in Nat /\ m - 1 \notin T
    BY <1>2, <1>3, <1>5
  <2>2. PICK g : Picked(s, I, m - 1, g)
    BY <2>1
  <2> DEFINE new == IF m \in I THEN Append(g[m - 1], s[m]) ELSE g[m - 1]
  <2> DEFINE w == [i \in 0 .. m |-> IF i = m THEN new ELSE g[i]]
  <2>3. ASSUME NEW i \in 0 .. m
        PROVE  w[i] = IF i = 0 THEN <<>>
                      ELSE IF i \in I THEN Append(w[i - 1], s[i]) ELSE w[i - 1]
    <3>1. CASE i = m
      <4>1. w[i] = new /\ w[m - 1] = g[m - 1]
        BY <1>3, <1>5, <3>1
      <4> QED BY <1>5, <3>1, <4>1
    <3>2. CASE i # m
      <4>1. i \in 0 .. m - 1 /\ w[i] = g[i]
        BY <1>3, <3>2
      <4>2. i # 0 => i - 1 \in 0 .. m /\ i - 1 # m /\ w[i - 1] = g[i - 1]
        BY <1>3, <4>1
      <4>3. g[i] = IF i = 0 THEN <<>>
                   ELSE IF i \in I THEN Append(g[i - 1], s[i]) ELSE g[i - 1]
        BY <2>2, <4>1 DEF Picked
      <4> QED BY <4>1, <4>2, <4>3
    <3> QED BY <3>1, <3>2
  <2>4. w = [i \in 0 .. m |-> w[i]]
    OBVIOUS
  <2> HIDE DEF w, new
  <2>5. w = [i \in 0 .. m |-> IF i = 0 THEN <<>>
                              ELSE IF i \in I THEN Append(w[i - 1], s[i]) ELSE w[i - 1]]
    BY <2>3, <2>4
  <2>6. Picked(s, I, m, w)
    BY <2>5 DEF Picked
  <2> QED BY <1>3, <2>6
<1> QED BY <1>4, <1>5

LEMMA PickIs ==
    ASSUME NEW s, NEW I, Len(s) \in Nat
    PROVE  \E w : Picked(s, I, Len(s), w) /\ Pick(s, I) = w[Len(s)]
<1> DEFINE picked[n \in 0 .. Len(s)] ==
             IF n = 0 THEN <<>>
             ELSE IF n \in I THEN Append(picked[n - 1], s[n]) ELSE picked[n - 1]
<1>1. \E w : Picked(s, I, Len(s), w)
  BY PickedExists
<1>2. Pick(s, I) = picked[Len(s)]
  BY DEF Pick, picked
<1>3. picked = [n \in 0 .. Len(s) |->
                  IF n = 0 THEN <<>>
                  ELSE IF n \in I THEN Append(picked[n - 1], s[n]) ELSE picked[n - 1]]
  BY <1>1 DEF picked, Picked
<1> HIDE DEF picked
<1>4. Picked(s, I, Len(s), picked)
  BY <1>3 DEF Picked
<1> QED BY <1>2, <1>4

(* t is the elements of s at the positions I, in their order; at tells where    *)
(* each was.                                                                   *)
SubList(s, I, t, at) ==
    /\ IsList(t) /\ at \in [1 .. Len(t) -> I]
    /\ \A k \in 1 .. Len(t) : t[k] = s[at[k]]
    /\ \A k, l \in 1 .. Len(t) : k < l => at[k] < at[l]
    /\ \A i \in I : \E k \in 1 .. Len(t) : at[k] = i

LEMMA PickAt ==
    ASSUME NEW s, IsList(s), NEW I \in SUBSET (1 .. Len(s))
    PROVE  \E at : SubList(s, I, Pick(s, I), at)
<1>0. Len(s) \in Nat
  BY ListIs
<1>1. PICK w : Picked(s, I, Len(s), w) /\ Pick(s, I) = w[Len(s)]
  BY <1>0, PickIs
<1> DEFINE J(n) == I \cap (1 .. n)
<1> DEFINE Good(n) == \E at : SubList(s, J(n), w[n], at)
<1> DEFINE T == {n \in 0 .. Len(s) : ~Good(n)}
<1>2. Good(Len(s)) => \E at : SubList(s, I, Pick(s, I), at)
  <2>1. J(Len(s)) = I
    OBVIOUS
  <2> QED BY <1>1, <2>1
<1> HIDE DEF Good
<1> SUFFICES ASSUME T # {} PROVE FALSE
  BY <1>0, <1>2
<1>3. T \in SUBSET Nat
  BY <1>0
<1>4. PICK m \in T : \A k \in T : m <= k
  BY <1>3, LeastOne
<1>5. m \in 0 .. Len(s) /\ ~Good(m)
  OBVIOUS
<1>6. CASE m = 0
  <2>1. w[0] = <<>> /\ J(0) = {}
    BY <1>0, <1>1 DEF Picked
  <2>2. <<>> = [i \in 1 .. 0 |-> i] /\ IsList(<<>>) /\ Len(<<>>) = 0
    BY DEF IsList
  <2>3. SubList(s, {}, <<>>, <<>>)
    BY <2>2 DEF SubList
  <2> QED BY <1>5, <1>6, <2>1, <2>3 DEF Good
<1>7. CASE m # 0
  <2>1. m - 1 \in 0 .. Len(s) /\ m - 1 \notin T /\ m \in Nat /\ m \in 1 .. Len(s)
    BY <1>0, <1>4, <1>5, <1>7
  <2>2. PICK at : SubList(s, J(m - 1), w[m - 1], at)
    BY <2>1 DEF Good
  <2>3. w[m] = IF m \in I THEN Append(w[m - 1], s[m]) ELSE w[m - 1]
    BY <1>1, <1>5, <1>7 DEF Picked
  <2>4. CASE m \notin I
    <3>1. J(m) = J(m - 1)
      BY <2>1, <2>4
    <3> QED BY <1>5, <2>2, <2>3, <2>4, <3>1 DEF Good
  <2>5. CASE m \in I
    <3> DEFINE t == w[m - 1]
               n == Len(w[m - 1])
               new == Append(w[m - 1], s[m])
               more == [k \in 1 .. n + 1 |-> IF k = n + 1 THEN m ELSE at[k]]
    <3>1. IsList(t) /\ at \in [1 .. n -> J(m - 1)]
      BY <2>2 DEF SubList
    <3>2. n \in Nat
      BY <3>1, ListIs
    <3>3. t \in Seq(ToSet(t) \cup {s[m]})
      BY <3>1 DEF IsList
    <3>4. /\ IsList(new) /\ Len(new) = n + 1 /\ new[n + 1] = s[m]
          /\ \A k \in 1 .. n : new[k] = t[k]
      <4>1. new \in Seq(ToSet(t) \cup {s[m]}) /\ Len(new) = n + 1 /\ new[n + 1] = s[m]
            /\ \A k \in 1 .. n : new[k] = t[k]
        BY <3>3
      <4> QED BY <4>1, SeqIsList
    <3>5. J(m) = J(m - 1) \cup {m}
      BY <2>1, <2>5
    <3>6. \A k \in 1 .. n : at[k] \in J(m - 1) /\ at[k] \in Nat /\ at[k] < m
      BY <2>1, <3>1
    <3>7. more \in [1 .. n + 1 -> J(m)] /\ more[n + 1] = m /\ \A k \in 1 .. n : more[k] = at[k]
      BY <3>2, <3>5, <3>6
    <3>8. 1 .. n + 1 = (1 .. n) \cup {n + 1} /\ n + 1 \notin 1 .. n
      BY <3>2
    <3> HIDE DEF more, new, t, n
    <3>9. \A k \in 1 .. n + 1 : new[k] = s[more[k]]
      BY <2>2, <3>4, <3>7, <3>8 DEF SubList, t, n
    <3>10. \A k, l \in 1 .. n + 1 : k < l => more[k] < more[l]
      <4>1. \A k, l \in 1 .. n : k < l => at[k] < at[l]
        BY <2>2 DEF SubList, t, n
      <4>2. \A k \in 1 .. n : more[k] < more[n + 1]
        BY <3>6, <3>7
      <4>3. ASSUME NEW k \in 1 .. n + 1, NEW l \in 1 .. n + 1, k < l PROVE more[k] < more[l]
        <5>1. k \in 1 .. n
          BY <3>2, <4>3
        <5> QED BY <3>7, <3>8, <4>1, <4>2, <4>3, <5>1
      <4> QED BY <4>3
    <3>11. \A i \in J(m) : \E k \in 1 .. n + 1 : more[k] = i
      <4>1. \A i \in J(m - 1) : \E k \in 1 .. n : at[k] = i
        BY <2>2 DEF SubList, t, n
      <4> QED BY <3>5, <3>7, <3>8, <4>1
    <3>12. SubList(s, J(m), new, more)
      BY <3>4, <3>7, <3>9, <3>10, <3>11 DEF SubList
    <3> QED BY <1>5, <2>3, <2>5, <3>12 DEF Good, new
  <2> QED BY <2>4, <2>5
<1> QED BY <1>6, <1>7

(* What Pick and Best promise, without the witness.                            *)
LEMMA PickIn ==
    ASSUME NEW s, IsList(s), NEW I \in SUBSET (1 .. Len(s))
    PROVE  /\ IsList(Pick(s, I))
           /\ \A k \in 1 .. Len(Pick(s, I)) : \E i \in I : Pick(s, I)[k] = s[i]
           /\ \A i \in I : \E k \in 1 .. Len(Pick(s, I)) : Pick(s, I)[k] = s[i]
<1> DEFINE t == Pick(s, I)
<1>1. PICK at : SubList(s, I, t, at)
  BY PickAt
<1> HIDE DEF t
<1>2. IsList(t) /\ at \in [1 .. Len(t) -> I]
  BY <1>1 DEF SubList
<1>3. \A k \in 1 .. Len(t) : at[k] \in I /\ t[k] = s[at[k]]
  BY <1>1, <1>2 DEF SubList
<1>4. \A k \in 1 .. Len(t) : \E i \in I : t[k] = s[i]
  BY <1>3
<1>5. ASSUME NEW i \in I PROVE \E k \in 1 .. Len(t) : t[k] = s[i]
  <2>1. PICK k \in 1 .. Len(t) : at[k] = i
    BY <1>1 DEF SubList
  <2> QED BY <1>3, <2>1
<1> QED BY <1>2, <1>4, <1>5 DEF t

IsBest(I, score, b) ==
    b \in I /\ \A j \in I : score[j] < score[b] \/ (score[j] = score[b] /\ b <= j)

LEMMA BestIs ==
    ASSUME NEW n \in Nat, NEW I \in SUBSET (1 .. n), I # {}, NEW score,
           \A i \in I : score[i] \in Nat
    PROVE  IsBest(I, score, Best(I, score))
<1> DEFINE J(m) == I \cap (1 .. m)
           Good(m) == J(m) # {} => \E b : IsBest(J(m), score, b)
           T == {m \in 0 .. n : ~Good(m)}
<1>1. Good(n) => \E b \in I : \A j \in I : score[j] < score[b] \/ (score[j] = score[b] /\ b <= j)
  <2>1. J(n) = I
    OBVIOUS
  <2> QED BY <2>1 DEF IsBest
<1> HIDE DEF Good
<1>2. ASSUME T # {} PROVE FALSE
  <2>1. T \in SUBSET Nat
    OBVIOUS
  <2>2. PICK m \in T : \A k \in T : m <= k
    BY <1>2, <2>1, LeastOne
  <2>3. m \in 0 .. n /\ m \in Nat /\ ~Good(m)
    OBVIOUS
  <2>4. CASE m = 0
    BY <2>3, <2>4 DEF Good
  <2>5. CASE m # 0
    <3>1. m - 1 \in 0 .. n /\ m - 1 \notin T
      BY <2>2, <2>3, <2>5
    <3>2. Good(m - 1)
      BY <3>1
    <3>3. CASE m \notin I
      <4>1. J(m) = J(m - 1)
        BY <2>3, <2>5, <3>3
      <4> QED BY <2>3, <3>2, <4>1 DEF Good
    <3>4. CASE m \in I
      <4>1. J(m) = J(m - 1) \cup {m} /\ \A j \in J(m - 1) : j < m /\ j \in Nat /\ score[j] \in Nat
        BY <2>3, <2>5, <3>4
      <4>2. score[m] \in Nat
        BY <3>4
      <4>3. CASE J(m - 1) = {}
        <5>1. IsBest(J(m), score, m)
          BY <2>3, <4>1, <4>3 DEF IsBest
        <5> QED BY <2>3, <5>1 DEF Good
      <4>4. CASE J(m - 1) # {}
        <5>1. PICK b : IsBest(J(m - 1), score, b)
          BY <3>2, <4>4 DEF Good
        <5>2. b \in J(m - 1) /\ b < m /\ b \in Nat /\ score[b] \in Nat
          BY <4>1, <5>1 DEF IsBest
        <5> HIDE DEF J
        <5>3. CASE score[m] > score[b]
          <6>1. IsBest(J(m), score, m)
            BY <2>3, <4>1, <4>2, <5>1, <5>2, <5>3 DEF IsBest
          <6> QED BY <2>3, <6>1 DEF Good
        <5>4. CASE score[m] <= score[b]
          <6>1. IsBest(J(m), score, b)
            BY <2>3, <4>1, <4>2, <5>1, <5>2, <5>4 DEF IsBest
          <6> QED BY <2>3, <6>1 DEF Good
        <5> QED BY <4>2, <5>2, <5>3, <5>4
      <4> QED BY <4>3, <4>4
    <3> QED BY <3>3, <3>4
  <2> QED BY <2>4, <2>5
<1>3. Good(n)
  BY <1>2
<1> QED BY <1>1, <1>3 DEF Best, IsBest

(* t is s with the elements of each key made one, the best of them; at tells    *)
(* which it was.                                                               *)
Collapsed(s, key, score, t, at) ==
    /\ IsList(t) /\ at \in [1 .. Len(t) -> 1 .. Len(s)]
    /\ \A k \in 1 .. Len(t) :
         t[k] = s[at[k]] /\ IsBest({i \in 1 .. Len(s) : key[i] = key[at[k]]}, score, at[k])
    /\ \A i \in 1 .. Len(s) : \E k \in 1 .. Len(t) : key[at[k]] = key[i]
    /\ \A k, l \in 1 .. Len(t) : key[at[k]] = key[at[l]] => k = l

LEMMA CollapseAt ==
    ASSUME NEW s, IsList(s), NEW key, NEW score, \A i \in 1 .. Len(s) : score[i] \in Nat
    PROVE  \E at : Collapsed(s, key, score, Collapse(s, key, score), at)
<1> DEFINE I == 1 .. Len(s)
           id == [i \in I |-> i]
           F == {i \in I : \A j \in 1 .. i - 1 : key[j] # key[i]}
           firsts == Pick(id, F)
           Of(i) == {j \in I : key[j] = key[i]}
           at == [k \in 1 .. Len(firsts) |-> Best(Of(firsts[k]), score)]
           t == [k \in 1 .. Len(firsts) |-> s[Best(Of(firsts[k]), score)]]
<1>1. Collapse(s, key, score) = t
  BY DEF Collapse
<1>2. Len(s) \in Nat
  BY ListIs
<1>3. IsList(id) /\ Len(id) = Len(s)
  BY <1>2, FunIsList
<1>4. PICK f : SubList(id, F, firsts, f)
  BY <1>3, PickAt
<1>5. Len(firsts) \in Nat
  BY <1>4, ListIs DEF SubList
<1>6. \A k \in 1 .. Len(firsts) : firsts[k] = f[k] /\ firsts[k] \in F /\ firsts[k] \in I
  BY <1>4 DEF SubList
<1>7. ASSUME NEW i \in F PROVE \E k \in 1 .. Len(firsts) : firsts[k] = i
  <2> HIDE DEF firsts, F
  <2>1. PICK k \in 1 .. Len(firsts) : f[k] = i
    BY <1>4 DEF SubList
  <2> QED BY <1>6, <2>1
<1> HIDE DEF firsts
<1>8. \A k, l \in 1 .. Len(firsts) : firsts[k] = firsts[l] => k = l
  <2> SUFFICES ASSUME NEW k \in 1 .. Len(firsts), NEW l \in 1 .. Len(firsts),
                      firsts[k] = firsts[l], k < l
               PROVE  FALSE
    BY <1>5
  <2>1. f[k] < f[l]
    BY <1>4 DEF SubList
  <2>2. f[k] = f[l] /\ f[k] \in I
    BY <1>6
  <2> QED BY <1>2, <2>1, <2>2
<1>9. \A i, j \in F : key[i] = key[j] => i = j
  <2> SUFFICES ASSUME NEW i \in F, NEW j \in F, key[i] = key[j], i < j PROVE FALSE
    BY <1>2
  <2>1. i \in 1 .. j - 1
    BY <1>2
  <2> QED BY <2>1
<1>10. \A i \in I : \E j \in F : key[j] = key[i]
  <2> SUFFICES ASSUME NEW i \in I PROVE \E j \in F : key[j] = key[i]
    OBVIOUS
  <2>1. Of(i) \in SUBSET Nat /\ Of(i) # {}
    BY <1>2
  <2>2. PICK m \in Of(i) : \A k \in Of(i) : m <= k
    BY <2>1, LeastOne
  <2>3. \A k \in 1 .. m - 1 : key[k] # key[m]
    BY <1>2, <2>2
  <2> QED BY <2>2, <2>3
<1>11. \A k \in 1 .. Len(firsts) : IsBest(Of(firsts[k]), score, at[k])
  <2> SUFFICES ASSUME NEW k \in 1 .. Len(firsts) PROVE IsBest(Of(firsts[k]), score, at[k])
    OBVIOUS
  <2>1. Of(firsts[k]) \in SUBSET (1 .. Len(s)) /\ Of(firsts[k]) # {}
    BY <1>6
  <2> QED BY <1>2, <2>1, BestIs
<1>12. \A k \in 1 .. Len(firsts) :
         at[k] \in I /\ key[at[k]] = key[firsts[k]] /\ Of(at[k]) = Of(firsts[k]) /\ t[k] = s[at[k]]
  BY <1>11 DEF IsBest
<1>13. IsList(t) /\ Len(t) = Len(firsts)
  <2>1. t = [k \in 1 .. Len(firsts) |-> t[k]]
    OBVIOUS
  <2> HIDE DEF t
  <2> QED BY <1>5, <2>1, FunIsList
<1>14. at \in [1 .. Len(t) -> 1 .. Len(s)]
  BY <1>12, <1>13
<1> HIDE DEF at, t, F
<1>15. \A i \in I : \E k \in 1 .. Len(t) : key[at[k]] = key[i]
  BY <1>7, <1>10, <1>12, <1>13
<1>16. \A k, l \in 1 .. Len(t) : key[at[k]] = key[at[l]] => k = l
  BY <1>6, <1>8, <1>9, <1>12, <1>13
<1>17. \A k \in 1 .. Len(t) : t[k] = s[at[k]] /\ IsBest(Of(at[k]), score, at[k])
  BY <1>11, <1>12, <1>13
<1>18. Collapsed(s, key, score, t, at)
  BY <1>13, <1>14, <1>15, <1>16, <1>17 DEF Collapsed
<1> QED BY <1>1, <1>18

-----------------------------------------------------------------------------
(* Events and what they say of the world. *)

Columns == {"obj", "act", "plugin", "guid", "from", "ts", "pid", "ppid", "opid", "ooff", "off",
            "target", "user", "uid", "path", "host", "owner", "parent", "link", "row",
            "created", "previous"}
IsEvent(e) == e = [f \in Columns |-> e[f]]

Typed(e) ==
    /\ IsEvent(e)
    /\ e.ts \in Times /\ e.pid \in Blankable(PIDs)
    /\ e.user \in Blankable(Users) /\ e.uid \in Blankable(Sids)
    /\ e.path \in Blankable(Procs) /\ e.host \in Blankable(Hosts)

IsCreate(e) == e.obj = "process" /\ e.act = "create"

(* What a collector says is so: of each kind of event, as far as linking asks.  *)
ToldProcess(e) ==
    IsCreate(e) =>
      /\ e.plugin = "processes" /\ e.from \in Seen
      /\ e.guid = Guid(e.from) /\ e.off = e.from /\ e.ts = CreateTime(e.from)
      /\ e.pid = world.pid[e.from] /\ e.ppid = ParentPID(e.from) /\ e.uid = world.sid[e.from]
      /\ e.opid = None /\ e.target = None
ToldSpoke(e) ==
    /\ ListedSpoke(e) => e.from \in Seen /\ e.ooff \in Seen /\ world.pid[e.from] = world.pid[e.ooff]
    /\ e.obj = "user_session" => e.from \in Seen /\ e.ooff = e.from
ToldLogin(e) ==
    e.obj = "user_session" =>
      /\ e.plugin = "sessions" /\ e.ts = CreateTime(e.from)
      /\ e.guid = IF world.luid[e.from] = None THEN None ELSE <<"login", world.luid[e.from]>>
ToldConn(e) ==
    e.plugin \in {"netstat", "network"} =>
      /\ e.obj \in {"flow", "socket"} /\ e.from \in Conns
      /\ e.opid = world.pid[world.by[e.from]]
      /\ e.ooff = IF e.plugin = "network" THEN Holder(e.opid) ELSE None
      /\ e.ts # 0 => e.ts = world.opened[e.from]
ToldService(e) ==
    e.plugin = "svcscan" =>
      /\ e.obj = "service" /\ e.from = world.service
      /\ e.opid = world.pid[e.from] /\ e.ooff = Holder(e.opid)
NotFile(guid) == \A n \in 1 .. 2 : guid # <<"mft", n>>
ToldRow(e) ==
    /\ e.plugin = "registry" => e.obj = "registry" /\ e.row \in RegRow /\ WellFormed(e.row)
    /\ e.plugin = "mftscan" => /\ e.obj = "file" /\ e.row \in MftRow /\ e.created \in Times
                               /\ e.guid \in {None, <<"mft", e.row.n>>}
    /\ e.plugin # "mftscan" => NotFile(e.guid)
Objects == {"process", "thread", "module", "file", "registry", "user_session", "flow", "socket", "service"}
Told(e) ==
    /\ e.plugin \in plugins /\ e.obj \in Objects
    /\ ToldProcess(e) /\ ToldSpoke(e) /\ ToldLogin(e) /\ ToldConn(e) /\ ToldService(e) /\ ToldRow(e)

(* An event nothing has been linked to.                                        *)
Fresh(e) ==
    /\ e.owner = None /\ e.parent = None /\ e.link = None
    /\ ~OwnSid(e) => e.user = None /\ e.uid = None
    /\ e.obj = "user_session" => e.uid = world.sid[e.from]

Raw(e) == Typed(e) /\ Told(e) /\ Fresh(e)
AllRaw(s) == IsList(s) /\ \A i \in 1 .. Len(s) : Raw(s[i])

LEMMA EventIs ==
    ASSUME NEW obj, NEW act, NEW plugin, NEW guid, NEW from,
           NEW e, e = Event(obj, act, plugin, guid, from)
    PROVE  /\ IsEvent(e)
           /\ e.obj = obj /\ e.act = act /\ e.plugin = plugin /\ e.guid = guid /\ e.from = from
           /\ e.ts = 0 /\ e.created = 0
           /\ \A f \in Columns \ {"obj", "act", "plugin", "guid", "from", "ts", "created", "previous"} :
                e[f] = None
BY DEF Event, IsEvent, Columns

LEMMA NotFileIs ==
    /\ NotFile(None) /\ NotFile(<<"file">>) /\ NotFile(<<"service">>)
    /\ \A p : \A s \in {"proc", "thread", "module", "unloaded", "key", "login", "flow", "value"} :
         NotFile(<<s, p>>)
    /\ \A c, p : NotFile(<<"socket", c, p>>)
<1>1. NotFile(None)
  BY EnrichAssumption DEF NotFile
<1>2. NotFile(<<"file">>) /\ NotFile(<<"service">>)
  BY DEF NotFile
<1>3. \A p : \A s \in {"proc", "thread", "module", "unloaded", "key", "login", "flow", "value"} :
        NotFile(<<s, p>>)
  BY DEF NotFile
<1>4. \A c, p : NotFile(<<"socket", c, p>>)
  BY DEF NotFile
<1> QED BY <1>1, <1>2, <1>3, <1>4

LEMMA WorldIs ==
    ASSUME world \in Worlds
    PROVE  /\ world \in World /\ Coherent(world)
           /\ world.order \in Seq(Procs) /\ Seen \subseteq Procs
           /\ \A p \in Seen : Listed(p) # None => Listed(p) \in Seen /\ world.pid[Listed(p)] = world.pid[p]
           /\ \A i \in 1 .. Len(world.order) : world.order[i] \in Seen
           /\ \A p \in Procs : /\ world.pid[p] \in PIDs /\ CreateTime(p) \in Times
                               /\ world.parent[p] \in Blankable(Procs) /\ world.made[p] \in 1 .. Now
                               /\ world.ended[p] \in Times /\ world.user[p] \in Blankable(Users)
                               /\ world.sid[p] \in Blankable(Sids)
           /\ \A c \in Conns : world.by[c] \in Procs /\ world.opened[c] \in 1 .. Now
           /\ world.service \in Procs
           /\ world.regs \in Seq(RegRow) /\ \A i \in 1 .. Len(world.regs) : WellFormed(world.regs[i])
           /\ world.mft \in Seq(MftRow)
<1>1. world \in World /\ Coherent(world)
  BY EnrichAssumption
<1>2. world.order \in Seq(Procs) /\ world.regs \in Seq(RegRow) /\ world.mft \in Seq(MftRow)
  BY <1>1 DEF World
<1>3. Seen \subseteq Procs /\ \A i \in 1 .. Len(world.order) : world.order[i] \in Seen
  BY <1>2 DEF Seen, ToSet
<1>4. \A p \in Procs : /\ world.pid[p] \in PIDs
                       /\ world.parent[p] \in Blankable(Procs) /\ world.made[p] \in 1 .. Now
                       /\ world.ended[p] \in Times /\ world.user[p] \in Blankable(Users)
                       /\ world.sid[p] \in Blankable(Sids)
  BY <1>1 DEF World
<1>5. \A p \in Procs : CreateTime(p) \in Times
  BY <1>4, EnrichAssumption DEF CreateTime, Times
<1>6. (\A c \in Conns : world.by[c] \in Procs /\ world.opened[c] \in 1 .. Now) /\ world.service \in Procs
  BY <1>1 DEF World
<1>7. \A i \in 1 .. Len(world.regs) : WellFormed(world.regs[i])
  BY <1>1 DEF Coherent
<1>8. \A p \in Seen : Listed(p) # None => Listed(p) \in Seen /\ world.pid[Listed(p)] = world.pid[p]
  BY <1>1, <1>3, <1>4 DEF Coherent, Listed, Seen
<1> QED BY <1>1, <1>2, <1>3, <1>4, <1>5, <1>6, <1>7, <1>8

(* The columns that are None in a new event, but for those in F.              *)
Rest(e, F) ==
    \A f \in Columns \ (F \cup {"obj", "act", "plugin", "guid", "from", "ts", "created", "previous"}) :
      e[f] = None

LEMMA ProcessIs ==
    ASSUME world \in Worlds, NEW p \in Seen, "processes" \in plugins
    PROVE  /\ Raw(Process(p)) /\ IsCreate(Process(p)) /\ Process(p).from = p
           /\ Process(p).plugin = "processes"
<1> DEFINE b == Event("process", "create", "processes", Guid(p), p)
           e == Process(p)
<1>1. IsEvent(b) /\ b.obj = "process" /\ b.act = "create" /\ b.plugin = "processes" /\ b.guid = Guid(p)
      /\ b.from = p /\ Rest(b, {})
  BY EventIs DEF Rest
<1>2. e = [b EXCEPT !.ts = CreateTime(p), !.pid = world.pid[p], !.ppid = ParentPID(p), !.off = p,
                    !.user = world.user[p], !.uid = world.sid[p], !.path = p]
  BY DEF Process
<1> HIDE DEF b, e
<1>3. p \in Procs
  BY WorldIs
<1>4. IsEvent(e) /\ e.obj = "process" /\ e.act = "create" /\ e.plugin = "processes" /\ e.guid = Guid(p)
      /\ e.from = p
  BY <1>1, <1>2 DEF IsEvent, Columns
<1>5. e.ts = CreateTime(p) /\ e.pid = world.pid[p] /\ e.ppid = ParentPID(p) /\ e.off = p
      /\ e.user = world.user[p] /\ e.uid = world.sid[p] /\ e.path = p
  BY <1>1, <1>2 DEF IsEvent, Columns
<1>6. Rest(e, {"pid", "ppid", "off", "user", "uid", "path"})
  BY <1>1, <1>2 DEF IsEvent, Columns, Rest
<1>7. e.opid = None /\ e.target = None /\ e.host = None /\ e.owner = None /\ e.parent = None /\ e.link = None
  BY <1>6 DEF Rest, Columns
<1>8. Typed(e)
  BY <1>3, <1>4, <1>5, <1>7, WorldIs DEF Typed, Blankable
<1>8a. NotFile(e.guid)
  BY <1>4, NotFileIs DEF Guid
<1>9. Told(e)
  BY <1>4, <1>5, <1>7, <1>8a DEF Told, Objects, ToldProcess, ToldSpoke, ListedSpoke, Spokes,
      ToldLogin, ToldConn, ToldService, ToldRow
<1>10. Fresh(e)
  BY <1>4, <1>7 DEF Fresh, OwnSid
<1> QED BY <1>4, <1>8, <1>9, <1>10 DEF Raw, IsCreate, e

LEMMA TerminatedIs ==
    ASSUME world \in Worlds, NEW p \in Seen, "terminated" \in plugins
    PROVE  /\ Raw(Terminated(p)) /\ ~IsCreate(Terminated(p)) /\ Terminated(p).obj = "process"
           /\ Terminated(p).plugin = "terminated"
<1> DEFINE b == Event("process", "create", "processes", Guid(p), p)
           e == Terminated(p)
<1>1. IsEvent(b) /\ b.obj = "process" /\ b.guid = Guid(p) /\ Rest(b, {})
  BY EventIs DEF Rest
<1>2. e = [b EXCEPT !.ts = world.ended[p], !.pid = world.pid[p], !.ppid = ParentPID(p), !.off = p,
                    !.user = world.user[p], !.uid = world.sid[p], !.path = p,
                    !.act = "terminate", !.plugin = "terminated"]
  <2>1. Process(p) = [b EXCEPT !.ts = CreateTime(p), !.pid = world.pid[p], !.ppid = ParentPID(p),
                               !.off = p, !.user = world.user[p], !.uid = world.sid[p], !.path = p]
    BY DEF Process
  <2> HIDE DEF b
  <2>2. Terminated(p) = [Process(p) EXCEPT !.act = "terminate", !.plugin = "terminated", !.ts = world.ended[p]]
    BY DEF Terminated
  <2>3. b = [f \in Columns |-> b[f]]
    BY <1>1 DEF IsEvent
  <2>4. e = [Process(p) EXCEPT !.act = "terminate", !.plugin = "terminated", !.ts = world.ended[p]]
    BY <2>2
  <2> HIDE DEF e
  <2> DEFINE d == [b EXCEPT !.ts = world.ended[p], !.pid = world.pid[p], !.ppid = ParentPID(p), !.off = p,
                            !.user = world.user[p], !.uid = world.sid[p], !.path = p,
                            !.act = "terminate", !.plugin = "terminated"]
  <2>5. e = [f \in Columns |-> e[f]]
    BY <2>1, <2>3, <2>4
  <2>6. d = [f \in Columns |-> d[f]]
    BY <2>3
  <2>7. ASSUME NEW f \in Columns PROVE e[f] = d[f]
    <3> DEFINE told == {"act", "plugin", "ts"}
    <3>1. Process(p) = [g \in Columns |-> Process(p)[g]]
      BY <2>1, <2>3
    <3>2. f \notin told => e[f] = Process(p)[f]
      BY <2>4, <3>1
    <3>3. f \notin told => Process(p)[f] = d[f]
      BY <2>1, <2>3
    <3>4. e.act = "terminate" /\ e.plugin = "terminated" /\ e.ts = world.ended[p]
      BY <2>4, <3>1 DEF Columns
    <3>5. d.act = "terminate" /\ d.plugin = "terminated" /\ d.ts = world.ended[p]
      BY <2>3 DEF Columns
    <3> HIDE DEF d
    <3> QED BY <3>2, <3>3, <3>4, <3>5
  <2> HIDE DEF d
  <2>8. e = d
    BY <2>5, <2>6, <2>7
  <2> QED BY <2>8 DEF d
<1> HIDE DEF b, e
<1>3. p \in Procs
  BY WorldIs
<1>4. IsEvent(e) /\ e.obj = "process" /\ e.act = "terminate" /\ e.plugin = "terminated" /\ e.guid = Guid(p)
  BY <1>1, <1>2 DEF IsEvent, Columns
<1>5. e.ts = world.ended[p] /\ e.pid = world.pid[p]
      /\ e.user = world.user[p] /\ e.uid = world.sid[p] /\ e.path = p
  BY <1>1, <1>2 DEF IsEvent, Columns
<1>6. e.host = None /\ e.owner = None /\ e.parent = None /\ e.link = None
  BY <1>1, <1>2 DEF IsEvent, Columns, Rest
<1>7. Typed(e)
  BY <1>3, <1>4, <1>5, <1>6, WorldIs DEF Typed, Blankable
<1>7a. NotFile(e.guid)
  BY <1>4, NotFileIs DEF Guid
<1>8. Told(e)
  BY <1>4, <1>7a DEF Told, Objects, IsCreate, ToldProcess, ToldSpoke, ListedSpoke, Spokes,
      ToldLogin, ToldConn, ToldService, ToldRow
<1>9. Fresh(e)
  BY <1>4, <1>6 DEF Fresh, OwnSid
<1> QED BY <1>4, <1>7, <1>8, <1>9 DEF Raw, IsCreate, e

LEMMA SpokeIs ==
    ASSUME NEW obj, NEW act, NEW plugin, NEW guid, NEW from, NEW p,
           NEW e, e = Spoke(obj, act, plugin, guid, from, p)
    PROVE  /\ IsEvent(e) /\ e.obj = obj /\ e.act = act /\ e.plugin = plugin /\ e.guid = guid
           /\ e.from = from /\ e.ts = 0 /\ e.opid = world.pid[p] /\ e.ooff = p /\ Rest(e, {"opid", "ooff"})
<1> DEFINE b == Event(obj, act, plugin, guid, from)
<1>1. IsEvent(b) /\ b.obj = obj /\ b.act = act /\ b.plugin = plugin /\ b.guid = guid /\ b.from = from
      /\ b.ts = 0 /\ Rest(b, {})
  BY EventIs DEF Rest
<1>2. e = [b EXCEPT !.opid = world.pid[p], !.ooff = p]
  BY DEF Spoke
<1> HIDE DEF b
<1>3. Rest(e, {"opid", "ooff"})
  BY <1>1, <1>2 DEF IsEvent, Columns, Rest
<1> QED BY <1>1, <1>2, <1>3 DEF IsEvent, Columns

(* A spoke that says no more than whose it is, and when.                       *)
LEMMA PlainSpoke ==
    ASSUME world \in Worlds, NEW p \in Seen, NEW q \in Seen, world.pid[q] = world.pid[p],
           NEW e, IsEvent(e),
           e.obj \in {"thread", "module", "file", "registry"},
           e.plugin \in {"threads", "modules", "unloaded", "files", "keys"} \cap plugins,
           e.from = q, e.ooff = p, e.ts \in Times, Rest(e, {"opid", "ooff"}), NotFile(e.guid)
    PROVE  Raw(e) /\ ~IsCreate(e)
<1>1. e.pid = None /\ e.user = None /\ e.uid = None /\ e.path = None /\ e.host = None
      /\ e.owner = None /\ e.parent = None /\ e.link = None
  BY DEF Rest, Columns
<1>2. Typed(e)
  BY <1>1 DEF Typed, Blankable
<1>3. Told(e)
  BY DEF Told, Objects, IsCreate, ToldProcess, ToldSpoke, ListedSpoke, Spokes,
      ToldLogin, ToldConn, ToldService, ToldRow
<1>4. Fresh(e)
  BY <1>1 DEF Fresh
<1> QED BY <1>2, <1>3, <1>4 DEF Raw, IsCreate

LEMMA SpokesRaw ==
    ASSUME world \in Worlds, NEW p \in Seen, Listed(p) # None
    PROVE  /\ "threads" \in plugins => Raw(Thread(p)) /\ ~IsCreate(Thread(p)) /\ Thread(p).plugin = "threads"
           /\ "modules" \in plugins => Raw(Module(p)) /\ ~IsCreate(Module(p)) /\ Module(p).plugin = "modules"
           /\ "unloaded" \in plugins => Raw(Unloaded(p)) /\ ~IsCreate(Unloaded(p)) /\ Unloaded(p).plugin = "unloaded"
           /\ "files" \in plugins => Raw(File(p)) /\ ~IsCreate(File(p)) /\ File(p).plugin = "files"
           /\ "keys" \in plugins => Raw(Key(p)) /\ ~IsCreate(Key(p)) /\ Key(p).plugin = "keys"
<1> DEFINE q == Listed(p)
<1>1. q \in Seen /\ world.pid[q] = world.pid[p] /\ world.made[q] \in Times /\ 0 \in Times
  <2>1. q \in Seen /\ q \in Procs /\ world.pid[q] = world.pid[p]
    BY WorldIs
  <2>2. world.made[q] \in 1 .. Now
    BY <2>1, WorldIs
  <2> QED BY <2>1, <2>2, EnrichAssumption DEF Times
<1>2. ASSUME "threads" \in plugins
      PROVE  Raw(Thread(p)) /\ ~IsCreate(Thread(p)) /\ Thread(p).plugin = "threads"
  <2> DEFINE b == Spoke("thread", "create", "threads", <<"thread", q>>, q, p)
             e == Thread(p)
  <2>1. IsEvent(b) /\ b.obj = "thread" /\ b.plugin = "threads" /\ b.from = q /\ b.ooff = p
        /\ b.guid = <<"thread", q>>
        /\ Rest(b, {"opid", "ooff"})
    BY SpokeIs
  <2>2. e = [b EXCEPT !.ts = world.made[q]]
    BY DEF Thread
  <2> HIDE DEF b, e
  <2>3. IsEvent(e) /\ e.obj = "thread" /\ e.plugin = "threads" /\ e.from = q /\ e.ooff = p
        /\ e.ts = world.made[q] /\ e.guid = <<"thread", q>>
    BY <2>1, <2>2 DEF IsEvent, Columns
  <2>4. Rest(e, {"opid", "ooff"})
    BY <2>1, <2>2 DEF IsEvent, Columns, Rest
  <2>5. NotFile(e.guid)
    BY <2>3, NotFileIs
  <2> QED BY <1>1, <1>2, <2>3, <2>4, <2>5, PlainSpoke DEF e
<1>3. ASSUME "modules" \in plugins
      PROVE  Raw(Module(p)) /\ ~IsCreate(Module(p)) /\ Module(p).plugin = "modules"
  <2> DEFINE e == Module(p)
  <2>1. IsEvent(e) /\ e.obj = "module" /\ e.plugin = "modules" /\ e.from = q /\ e.ooff = p
        /\ e.ts = 0 /\ Rest(e, {"opid", "ooff"}) /\ e.guid = <<"module", world.pid[p]>>
    BY SpokeIs DEF Module
  <2> HIDE DEF e
  <2>2. NotFile(e.guid)
    BY <2>1, NotFileIs
  <2> QED BY <1>1, <1>3, <2>1, <2>2, PlainSpoke DEF e
<1>4. ASSUME "unloaded" \in plugins
      PROVE  Raw(Unloaded(p)) /\ ~IsCreate(Unloaded(p)) /\ Unloaded(p).plugin = "unloaded"
  <2> DEFINE e == Unloaded(p)
  <2>1. IsEvent(e) /\ e.obj = "module" /\ e.plugin = "unloaded" /\ e.from = q /\ e.ooff = p
        /\ e.ts = 0 /\ Rest(e, {"opid", "ooff"}) /\ e.guid = <<"unloaded", world.pid[p]>>
    BY SpokeIs DEF Unloaded
  <2> HIDE DEF e
  <2>2. NotFile(e.guid)
    BY <2>1, NotFileIs
  <2> QED BY <1>1, <1>4, <2>1, <2>2, PlainSpoke DEF e
<1>5. ASSUME "files" \in plugins
      PROVE  Raw(File(p)) /\ ~IsCreate(File(p)) /\ File(p).plugin = "files"
  <2> DEFINE e == File(p)
  <2>1. IsEvent(e) /\ e.obj = "file" /\ e.plugin = "files" /\ e.from = q /\ e.ooff = p
        /\ e.ts = 0 /\ Rest(e, {"opid", "ooff"}) /\ e.guid = <<"file">>
    BY SpokeIs DEF File
  <2> HIDE DEF e
  <2>2. NotFile(e.guid)
    BY <2>1, NotFileIs
  <2> QED BY <1>1, <1>5, <2>1, <2>2, PlainSpoke DEF e
<1>6. ASSUME "keys" \in plugins
      PROVE  Raw(Key(p)) /\ ~IsCreate(Key(p)) /\ Key(p).plugin = "keys"
  <2> DEFINE e == Key(p)
  <2>1. IsEvent(e) /\ e.obj = "registry" /\ e.plugin = "keys" /\ e.from = q /\ e.ooff = p
        /\ e.ts = 0 /\ Rest(e, {"opid", "ooff"}) /\ e.guid = (IF world.hived THEN <<"key", p>> ELSE None)
    BY SpokeIs DEF Key
  <2> HIDE DEF e
  <2>2. NotFile(e.guid)
    BY <2>1, NotFileIs
  <2> QED BY <1>1, <1>6, <2>1, <2>2, PlainSpoke DEF e
<1> QED BY <1>2, <1>3, <1>4, <1>5, <1>6

LEMMA AccessIs ==
    ASSUME world \in Worlds, NEW p \in Seen, "access" \in plugins
    PROVE  Raw(Access(p)) /\ ~IsCreate(Access(p)) /\ Access(p).plugin = "access"
<1> DEFINE b == Spoke("process", "access", "access", Guid(p), Listed(p), p)
           e == Access(p)
<1>1. IsEvent(b) /\ b.obj = "process" /\ b.act = "access" /\ b.plugin = "access" /\ b.ts = 0
      /\ b.guid = Guid(p)
      /\ Rest(b, {"opid", "ooff"})
  BY SpokeIs
<1>2. e = [b EXCEPT !.target = Guid(world.order[1]), !.pid = world.pid[p]]
  BY DEF Access
<1> HIDE DEF b, e
<1>3. IsEvent(e) /\ e.obj = "process" /\ e.act = "access" /\ e.plugin = "access" /\ e.ts = 0
      /\ e.pid = world.pid[p] /\ e.guid = Guid(p)
  BY <1>1, <1>2 DEF IsEvent, Columns
<1>4. Rest(e, {"opid", "ooff", "target", "pid"})
  BY <1>1, <1>2 DEF IsEvent, Columns, Rest
<1>5. e.user = None /\ e.uid = None /\ e.path = None /\ e.host = None
      /\ e.owner = None /\ e.parent = None /\ e.link = None
  BY <1>4 DEF Rest, Columns
<1>6. p \in Procs /\ 0 \in Times
  BY WorldIs, EnrichAssumption DEF Times
<1>7. Typed(e)
  BY <1>3, <1>5, <1>6, WorldIs DEF Typed, Blankable
<1>7a. NotFile(e.guid)
  BY <1>3, NotFileIs DEF Guid
<1>8. Told(e)
  BY <1>3, <1>7a DEF Told, Objects, IsCreate, ToldProcess, ToldSpoke, ListedSpoke, Spokes,
      ToldLogin, ToldConn, ToldService, ToldRow
<1>9. Fresh(e)
  BY <1>3, <1>5 DEF Fresh
<1> QED BY <1>3, <1>7, <1>8, <1>9 DEF Raw, IsCreate, e

LEMMA SessionIs ==
    ASSUME world \in Worlds, NEW p \in Seen, "sessions" \in plugins
    PROVE  /\ Raw(Session(p)) /\ ~IsCreate(Session(p)) /\ Session(p).from = p
           /\ Session(p).obj = "user_session" /\ Session(p).plugin = "sessions"
<1> DEFINE guid == IF world.luid[p] = None THEN None ELSE <<"login", world.luid[p]>>
           b == Spoke("user_session", "login", "sessions", guid, p, p)
           e == Session(p)
<1>1. IsEvent(b) /\ b.obj = "user_session" /\ b.plugin = "sessions" /\ b.guid = guid /\ b.from = p
      /\ b.ooff = p /\ Rest(b, {"opid", "ooff"})
  BY SpokeIs
<1>2. e = [b EXCEPT !.ts = CreateTime(p), !.user = world.user[p], !.uid = world.sid[p]]
  BY DEF Session
<1> HIDE DEF b, e
<1>3. IsEvent(e) /\ e.obj = "user_session" /\ e.plugin = "sessions" /\ e.guid = guid /\ e.from = p
      /\ e.ooff = p /\ e.ts = CreateTime(p) /\ e.user = world.user[p] /\ e.uid = world.sid[p]
  BY <1>1, <1>2 DEF IsEvent, Columns
<1>4. Rest(e, {"opid", "ooff", "user", "uid"})
  BY <1>1, <1>2 DEF IsEvent, Columns, Rest
<1>5. e.pid = None /\ e.path = None /\ e.host = None
      /\ e.owner = None /\ e.parent = None /\ e.link = None
  BY <1>4 DEF Rest, Columns
<1>6. p \in Procs
  BY WorldIs
<1>7. Typed(e)
  BY <1>3, <1>5, <1>6, WorldIs DEF Typed, Blankable
<1>7a. NotFile(e.guid)
  BY <1>3, NotFileIs
<1>8. Told(e)
  BY <1>3, <1>7a DEF Told, Objects, IsCreate, ToldProcess, ToldSpoke, ListedSpoke, Spokes,
      ToldLogin, ToldConn, ToldService, ToldRow
<1>9. Fresh(e)
  BY <1>3, <1>5 DEF Fresh, OwnSid
<1> QED BY <1>3, <1>7, <1>8, <1>9 DEF Raw, IsCreate, e

LEMMA ConnIs ==
    ASSUME world \in Worlds, NEW c \in Conns, NEW plugin \in {"netstat", "network"} \cap plugins
    PROVE  /\ Raw(Conn(c, plugin)) /\ ~IsCreate(Conn(c, plugin)) /\ Conn(c, plugin).obj \in {"flow", "socket"}
           /\ Conn(c, plugin).plugin = plugin
<1> DEFINE pid == world.pid[world.by[c]]
           b == IF c \in world.listens
                  THEN Event("socket", "listen", plugin, <<"socket", c, pid>>, c)
                  ELSE Event("flow", "start", plugin, <<"flow", c>>, c)
           ts == IF c \in world.timed THEN world.opened[c] ELSE 0
           ooff == IF plugin = "network" THEN Holder(pid) ELSE None
           e == Conn(c, plugin)
<1>1. IsEvent(b) /\ b.obj \in {"flow", "socket"} /\ b.plugin = plugin /\ b.from = c /\ Rest(b, {})
      /\ NotFile(b.guid)
  <2>1. CASE c \in world.listens
    <3>1. NotFile(<<"socket", c, pid>>)
      BY NotFileIs
    <3> QED BY <2>1, <3>1, EventIs DEF Rest
  <2>2. CASE c \notin world.listens
    <3>1. NotFile(<<"flow", c>>)
      BY NotFileIs
    <3> QED BY <2>2, <3>1, EventIs DEF Rest
  <2> QED BY <2>1, <2>2
<1>2. e = [b EXCEPT !.ts = ts, !.opid = pid, !.ooff = ooff]
  BY DEF Conn
<1>3. ts \in Times /\ (ts # 0 => ts = world.opened[c])
  BY WorldIs, EnrichAssumption DEF Times
<1> HIDE DEF b, e, ts, ooff
<1>4. IsEvent(e) /\ e.obj \in {"flow", "socket"} /\ e.plugin = plugin /\ e.from = c
      /\ e.ts = ts /\ e.opid = pid /\ e.ooff = ooff /\ e.guid = b.guid
  BY <1>1, <1>2 DEF IsEvent, Columns
<1>5. Rest(e, {"opid", "ooff"})
  BY <1>1, <1>2 DEF IsEvent, Columns, Rest
<1>6. e.pid = None /\ e.user = None /\ e.uid = None /\ e.path = None /\ e.host = None
      /\ e.owner = None /\ e.parent = None /\ e.link = None
  BY <1>5 DEF Rest, Columns
<1>7. Typed(e)
  BY <1>3, <1>4, <1>6 DEF Typed, Blankable
<1>8. ToldConn(e)
  BY <1>3, <1>4 DEF ToldConn, ooff
<1>9. Told(e)
  BY <1>1, <1>4, <1>8 DEF Told, Objects, IsCreate, ToldProcess, ToldSpoke, ListedSpoke, Spokes,
      ToldLogin, ToldService, ToldRow
<1>10. Fresh(e)
  BY <1>4, <1>6 DEF Fresh
<1> QED BY <1>4, <1>7, <1>9, <1>10 DEF Raw, IsCreate, e

LEMMA ServiceIs ==
    ASSUME world \in Worlds, "svcscan" \in plugins
    PROVE  Raw(Service) /\ ~IsCreate(Service) /\ Service.obj = "service" /\ Service.plugin = "svcscan"
<1> DEFINE b == Event("service", "enumerate", "svcscan", <<"service">>, world.service)
           e == Service
<1>1. IsEvent(b) /\ b.obj = "service" /\ b.plugin = "svcscan" /\ b.from = world.service /\ b.ts = 0
      /\ b.guid = <<"service">> /\ Rest(b, {})
  BY EventIs DEF Rest
<1>2. e = [b EXCEPT !.opid = world.pid[world.service], !.ooff = Holder(world.pid[world.service])]
  BY DEF Service
<1> HIDE DEF b, e
<1>3. IsEvent(e) /\ e.obj = "service" /\ e.plugin = "svcscan" /\ e.from = world.service /\ e.ts = 0
      /\ e.opid = world.pid[e.from] /\ e.ooff = Holder(e.opid) /\ e.guid = <<"service">>
  BY <1>1, <1>2 DEF IsEvent, Columns
<1>4. Rest(e, {"opid", "ooff"})
  BY <1>1, <1>2 DEF IsEvent, Columns, Rest
<1>5. e.pid = None /\ e.user = None /\ e.uid = None /\ e.path = None /\ e.host = None
      /\ e.owner = None /\ e.parent = None /\ e.link = None
  BY <1>4 DEF Rest, Columns
<1>6. 0 \in Times
  BY EnrichAssumption DEF Times
<1>7. Typed(e)
  BY <1>3, <1>5, <1>6 DEF Typed, Blankable
<1>7a. NotFile(e.guid)
  BY <1>3, NotFileIs
<1>8. Told(e)
  BY <1>3, <1>7a DEF Told, Objects, IsCreate, ToldProcess, ToldSpoke, ListedSpoke, Spokes,
      ToldLogin, ToldConn, ToldService, ToldRow
<1>9. Fresh(e)
  BY <1>3, <1>5 DEF Fresh
<1> QED BY <1>3, <1>7, <1>8, <1>9 DEF Raw, IsCreate, e

LEMMA RegistryIs ==
    ASSUME world \in Worlds, "registry" \in plugins, NEW i \in 1 .. Len(world.regs)
    PROVE  Raw(Registry[i]) /\ ~IsCreate(Registry[i]) /\ Registry[i].plugin = "registry"
<1> DEFINE b == Event("registry", "value_edit", "registry", <<"value", i>>, i)
           e == Registry[i]
<1>1. IsEvent(b) /\ b.obj = "registry" /\ b.plugin = "registry" /\ b.ts = 0 /\ Rest(b, {})
      /\ b.guid = <<"value", i>>
  BY EventIs DEF Rest
<1>2. e = [b EXCEPT !.row = world.regs[i]]
  BY DEF Registry
<1> HIDE DEF b, e
<1>3. IsEvent(e) /\ e.obj = "registry" /\ e.plugin = "registry" /\ e.ts = 0 /\ e.row = world.regs[i]
      /\ e.guid = <<"value", i>>
  BY <1>1, <1>2 DEF IsEvent, Columns
<1>4. Rest(e, {"row"})
  BY <1>1, <1>2 DEF IsEvent, Columns, Rest
<1>5. e.pid = None /\ e.user = None /\ e.uid = None /\ e.path = None /\ e.host = None
      /\ e.owner = None /\ e.parent = None /\ e.link = None
  BY <1>4 DEF Rest, Columns
<1>6. 0 \in Times
  BY EnrichAssumption DEF Times
<1>7. e.row \in RegRow /\ WellFormed(e.row)
  BY <1>3, WorldIs
<1>8. Typed(e)
  BY <1>3, <1>5, <1>6 DEF Typed, Blankable
<1>8a. NotFile(e.guid)
  BY <1>3, NotFileIs
<1>9. Told(e)
  BY <1>3, <1>7, <1>8a DEF Told, Objects, IsCreate, ToldProcess, ToldSpoke, ListedSpoke, Spokes,
      ToldLogin, ToldConn, ToldService, ToldRow
<1>10. Fresh(e)
  BY <1>3, <1>5 DEF Fresh
<1> QED BY <1>3, <1>8, <1>9, <1>10 DEF Raw, IsCreate, e

LEMMA MftIs ==
    ASSUME world \in Worlds, "mftscan" \in plugins, NEW i \in 1 .. Len(world.mft)
    PROVE  /\ Raw(Mft[i]) /\ Mft[i].obj = "file" /\ Mft[i].plugin = "mftscan" /\ Mft[i].guid = None
           /\ Mft[i].row = world.mft[i] /\ Mft[i].created = Mft[i].row.created
<1> DEFINE r == world.mft[i]
           b == Event("file", "create", "mftscan", None, r.n)
           e == Mft[i]
<1>1. IsEvent(b) /\ b.obj = "file" /\ b.plugin = "mftscan" /\ b.guid = None /\ Rest(b, {})
  BY EventIs DEF Rest
<1>2. e = [b EXCEPT !.ts = r.created, !.created = r.created, !.row = r]
  BY DEF Mft
<1>3. r \in MftRow
  BY WorldIs
<1> HIDE DEF b, e, r
<1>3a. r.created \in Times
  BY <1>3 DEF MftRow
<1>4. IsEvent(e) /\ e.obj = "file" /\ e.plugin = "mftscan" /\ e.ts = r.created /\ e.created = r.created
      /\ e.row = r /\ e.guid = None
  BY <1>1, <1>2 DEF IsEvent, Columns
<1>5. Rest(e, {"row"})
  BY <1>1, <1>2 DEF IsEvent, Columns, Rest
<1>6. e.pid = None /\ e.user = None /\ e.uid = None /\ e.path = None /\ e.host = None
      /\ e.owner = None /\ e.parent = None /\ e.link = None
  BY <1>5 DEF Rest, Columns
<1>7. Typed(e)
  BY <1>3a, <1>4, <1>6 DEF Typed, Blankable
<1>8. Told(e)
  BY <1>3, <1>3a, <1>4 DEF Told, Objects, IsCreate, ToldProcess, ToldSpoke, ListedSpoke, Spokes,
      ToldLogin, ToldConn, ToldService, ToldRow
<1>9. Fresh(e)
  BY <1>4, <1>6 DEF Fresh
<1> QED BY <1>4, <1>7, <1>8, <1>9 DEF Raw, e, r

(* What is loaded of a plugin is true, and of every process that is seen.      *)
Whole(s, plugin) ==
    \A p \in Seen :
      /\ plugin = "processes" => \E i \in 1 .. Len(s) : IsCreate(s[i]) /\ s[i].from = p
      /\ plugin = "sessions" => \E i \in 1 .. Len(s) : s[i].obj = "user_session" /\ s[i].from = p

(* All rows come from one collector; those of the MFT are single attributes.   *)
From(s, plugin) == \A i \in 1 .. Len(s) : s[i].plugin = plugin
Attribute(e) == e.guid = None /\ e.row \in ToSet(world.mft) /\ e.created = e.row.created
Unmerged(s) == \A i \in 1 .. Len(s) : s[i].plugin = "mftscan" => Attribute(s[i])
AllRows(s) == \A r \in ToSet(world.mft) : \E i \in 1 .. Len(s) : s[i].plugin = "mftscan" /\ s[i].row = r

LEMMA EachProcess ==
    ASSUME world \in Worlds, NEW s, NEW f, s = [i \in 1 .. Len(world.order) |-> f[world.order[i]]],
           \A p \in Seen : Raw(f[p])
    PROVE  /\ AllRaw(s) /\ \A p \in Seen : \E i \in 1 .. Len(s) : s[i] = f[p]
           /\ \A i \in 1 .. Len(s) : \E p \in Seen : s[i] = f[p]
<1>1. \A i \in 1 .. Len(world.order) : world.order[i] \in Seen
  BY WorldIs
<1>2. \A p \in Seen : \E i \in 1 .. Len(world.order) : world.order[i] = p
  BY WorldIs DEF Seen, ToSet
<1> DEFINE n == Len(world.order)
<1>3. n \in Nat
  BY WorldIs
<1>4. s = [i \in 1 .. n |-> f[world.order[i]]]
  OBVIOUS
<1> HIDE DEF n
<1>5. s = [i \in 1 .. n |-> s[i]] /\ \A i \in 1 .. n : s[i] = f[world.order[i]]
  BY <1>4
<1>6. IsList(s) /\ Len(s) = n
  BY <1>3, <1>5, FunIsList
<1>7. \A i \in 1 .. n : Raw(s[i])
  BY <1>1, <1>5 DEF n
<1>8. \A p \in Seen : \E i \in 1 .. n : s[i] = f[p]
  BY <1>2, <1>5 DEF n
<1>9. \A i \in 1 .. n : \E p \in Seen : s[i] = f[p]
  BY <1>1, <1>5 DEF n
<1> QED BY <1>6, <1>7, <1>8, <1>9 DEF AllRaw

(* The row of a process, of the collectors that go process by process.         *)
RowOf(plugin, p) ==
    CASE plugin = "processes" -> Process(p)
      [] plugin = "sessions" -> Session(p)
      [] plugin = "terminated" -> Terminated(p)

LEMMA PerProcessIs ==
    ASSUME world \in Worlds,
           NEW plugin \in {"processes", "sessions", "terminated"}, plugin \in plugins
    PROVE  LET s == [i \in 1 .. Len(world.order) |-> RowOf(plugin, world.order[i])]
           IN /\ AllRaw(s) /\ Whole(s, plugin) /\ From(s, plugin)
              /\ plugin # "terminated" => Rows(plugin) = s
              /\ plugin = "terminated" => Rows(plugin) = Only(s, LAMBDA e : e.ts # 0)
<1> DEFINE s == [i \in 1 .. Len(world.order) |-> RowOf(plugin, world.order[i])]
           f == [p \in Seen |-> RowOf(plugin, p)]
<1>1. ASSUME plugin = "processes" PROVE Rows(plugin) = s /\ \A p \in Seen : RowOf(plugin, p) = Process(p)
  BY <1>1 DEF Rows, PerProcess, RowOf
<1>2. ASSUME plugin = "sessions" PROVE Rows(plugin) = s /\ \A p \in Seen : RowOf(plugin, p) = Session(p)
  BY <1>2 DEF Rows, PerProcess, RowOf
<1>3. ASSUME plugin = "terminated"
      PROVE  /\ Rows(plugin) = Only(s, LAMBDA e : e.ts # 0)
             /\ \A p \in Seen : RowOf(plugin, p) = Terminated(p)
  BY <1>3 DEF Rows, PerProcess, RowOf, Only
<1>4. s = [i \in 1 .. Len(world.order) |-> f[world.order[i]]]
  <2>1. \A i \in 1 .. Len(world.order) : world.order[i] \in Seen
    BY WorldIs
  <2> QED BY <2>1
<1>5. \A p \in Seen : f[p] = RowOf(plugin, p)
  OBVIOUS
<1> HIDE DEF s, f
<1>6. \A p \in Seen :
        /\ Raw(f[p]) /\ f[p].plugin = plugin
        /\ plugin = "processes" => IsCreate(f[p]) /\ f[p].from = p
        /\ plugin = "sessions" => f[p].obj = "user_session" /\ f[p].from = p
  BY <1>1, <1>2, <1>3, <1>5, ProcessIs, SessionIs, TerminatedIs
<1>7. /\ AllRaw(s) /\ \A p \in Seen : \E i \in 1 .. Len(s) : s[i] = f[p]
      /\ \A i \in 1 .. Len(s) : \E p \in Seen : s[i] = f[p]
  BY <1>4, <1>6, EachProcess
<1>8. Whole(s, plugin) /\ From(s, plugin)
  BY <1>6, <1>7 DEF Whole, From
<1>9. plugin # "terminated" => Rows(plugin) = s
  BY <1>1, <1>2
<1>10. plugin = "terminated" => Rows(plugin) = Only(s, LAMBDA e : e.ts # 0)
  BY <1>3
<1> QED BY <1>7, <1>8, <1>9, <1>10 DEF s

(* The row a process has of the lists of its PID.                              *)
ListedRow(plugin, p) ==
    CASE plugin = "access" -> Access(p)
      [] plugin = "files" -> File(p)
      [] plugin = "keys" -> Key(p)
      [] plugin = "modules" -> Module(p)
      [] plugin = "threads" -> Thread(p)
      [] plugin = "unloaded" -> Unloaded(p)

LEMMA PerListedIs ==
    ASSUME world \in Worlds,
           NEW plugin \in {"access", "files", "keys", "modules", "threads", "unloaded"}, plugin \in plugins
    PROVE  AllRaw(Rows(plugin)) /\ Whole(Rows(plugin), plugin) /\ From(Rows(plugin), plugin)
<1> DEFINE I == {i \in 1 .. Len(world.order) : Listed(world.order[i]) # None}
           ps == Pick(world.order, I)
           n == Len(ps)
           s == [i \in 1 .. n |-> ListedRow(plugin, ps[i])]
<1>1. IsList(world.order) /\ Len(world.order) \in Nat
  BY WorldIs, SeqIsList
<1>2. IsList(ps) /\ \A k \in 1 .. Len(ps) : \E i \in I : ps[k] = world.order[i]
  <2>1. I \in SUBSET (1 .. Len(world.order))
    OBVIOUS
  <2> HIDE DEF I
  <2> QED BY <1>1, <2>1, PickIn
<1>3. ps = Only(world.order, LAMBDA p : Listed(p) # None)
  BY DEF Only
<1>4. Rows(plugin) = s
  <2> HIDE DEF ps
  <2>1. CASE plugin = "access"
    BY <1>3, <2>1 DEF Rows, PerListed, ListedRow
  <2>2. CASE plugin = "files"
    BY <1>3, <2>2 DEF Rows, PerListed, ListedRow
  <2>3. CASE plugin = "keys"
    BY <1>3, <2>3 DEF Rows, PerListed, ListedRow
  <2>4. CASE plugin = "modules"
    BY <1>3, <2>4 DEF Rows, PerListed, ListedRow
  <2>5. CASE plugin = "threads"
    BY <1>3, <2>5 DEF Rows, PerListed, ListedRow
  <2>6. CASE plugin = "unloaded"
    BY <1>3, <2>6 DEF Rows, PerListed, ListedRow
  <2> QED BY <2>1, <2>2, <2>3, <2>4, <2>5, <2>6
<1>5. \A k \in 1 .. n : ps[k] \in Seen /\ Listed(ps[k]) # None
  <2>1. \A i \in I : world.order[i] \in Seen /\ Listed(world.order[i]) # None
    BY WorldIs
  <2> HIDE DEF I, ps
  <2> QED BY <1>2, <2>1
<1> HIDE DEF ps
<1>6. n \in Nat
  BY <1>2, ListIs
<1>7. ASSUME NEW k \in 1 .. n PROVE Raw(ListedRow(plugin, ps[k])) /\ ListedRow(plugin, ps[k]).plugin = plugin
  <2> DEFINE p == ps[k]
  <2>1. p \in Seen /\ Listed(p) # None
    BY <1>5
  <2> HIDE DEF p
  <2>2. CASE plugin = "access"
    <3>1. ListedRow(plugin, p) = Access(p)
      BY <2>2 DEF ListedRow
    <3> QED BY <2>1, <2>2, <3>1, AccessIs DEF p
  <2>3. CASE plugin = "files"
    <3>1. ListedRow(plugin, p) = File(p)
      BY <2>3 DEF ListedRow
    <3> QED BY <2>1, <2>3, <3>1, SpokesRaw DEF p
  <2>4. CASE plugin = "keys"
    <3>1. ListedRow(plugin, p) = Key(p)
      BY <2>4 DEF ListedRow
    <3> QED BY <2>1, <2>4, <3>1, SpokesRaw DEF p
  <2>5. CASE plugin = "modules"
    <3>1. ListedRow(plugin, p) = Module(p)
      BY <2>5 DEF ListedRow
    <3> QED BY <2>1, <2>5, <3>1, SpokesRaw DEF p
  <2>6. CASE plugin = "threads"
    <3>1. ListedRow(plugin, p) = Thread(p)
      BY <2>6 DEF ListedRow
    <3> QED BY <2>1, <2>6, <3>1, SpokesRaw DEF p
  <2>7. CASE plugin = "unloaded"
    <3>1. ListedRow(plugin, p) = Unloaded(p)
      BY <2>7 DEF ListedRow
    <3> QED BY <2>1, <2>7, <3>1, SpokesRaw DEF p
  <2> QED BY <2>2, <2>3, <2>4, <2>5, <2>6, <2>7
<1>8. s = [i \in 1 .. n |-> s[i]] /\ \A i \in 1 .. n : s[i] = ListedRow(plugin, ps[i])
  OBVIOUS
<1> HIDE DEF n, s
<1>9. IsList(s) /\ Len(s) = n
  BY <1>6, <1>8, FunIsList
<1>10. AllRaw(s) /\ From(s, plugin)
  BY <1>7, <1>8, <1>9 DEF AllRaw, From
<1> QED BY <1>4, <1>10 DEF Whole

LEMMA RowsRaw ==
    ASSUME world \in Worlds, NEW plugin \in ToSet(Plugins), plugin \in plugins
    PROVE  /\ AllRaw(Rows(plugin)) /\ Whole(Rows(plugin), plugin)
           /\ From(Rows(plugin), plugin) /\ Unmerged(Rows(plugin))
           /\ plugin = "mftscan" => AllRows(Rows(plugin))
<1>1. plugin \in {"access", "files", "keys", "modules", "network", "processes", "registry", "sessions",
                  "terminated", "threads", "unloaded", "mftscan", "netstat", "svcscan"}
  BY DEF ToSet, Plugins
<1> DEFINE Fine == AllRaw(Rows(plugin)) /\ Whole(Rows(plugin), plugin) /\ From(Rows(plugin), plugin)
<1>2. CASE plugin \in {"processes", "sessions"}
  <2>1. Fine
    BY <1>2, PerProcessIs
  <2> QED BY <1>2, <2>1 DEF From, Unmerged
<1>2a. CASE plugin \in {"access", "files", "keys", "modules", "threads", "unloaded"}
  <2>1. Fine
    BY <1>2a, PerListedIs
  <2> QED BY <1>2a, <2>1 DEF From, Unmerged
<1>3. CASE plugin \in {"network", "netstat"}
  <2> DEFINE cs == SetToSeq(Conns)
             s == Rows(plugin)
  <2>1. s = [i \in 1 .. Len(cs) |-> Conn(cs[i], plugin)]
    BY <1>3 DEF Rows, PerConn
  <2>2. Cardinality(Conns) \in Nat /\ cs \in [1 .. Cardinality(Conns) -> Conns]
    <3>1. Cardinality(Conns) \in Nat /\ ExistsBijection(1 .. Cardinality(Conns), Conns)
      BY EnrichAssumption, FS_CardinalityType
    <3>2. \E f \in [1 .. Cardinality(Conns) -> Conns] : IsInjective(f)
      BY <3>1 DEF ExistsBijection, Bijection, Injection
    <3> QED BY <3>1, <3>2 DEF SetToSeq
  <2> HIDE DEF cs, s
  <2>3. Len(cs) \in Nat /\ \A i \in 1 .. Len(cs) : cs[i] \in Conns
    BY <2>2
  <2>4. s = [i \in 1 .. Len(cs) |-> s[i]] /\ \A i \in 1 .. Len(cs) : s[i] = Conn(cs[i], plugin)
    BY <2>1
  <2>5. IsList(s) /\ Len(s) = Len(cs)
    BY <2>3, <2>4, FunIsList
  <2>6. \A i \in 1 .. Len(s) : Raw(s[i]) /\ s[i].plugin = plugin
    BY <1>3, <2>3, <2>4, <2>5, ConnIs
  <2>7. Fine
    BY <1>3, <2>5, <2>6 DEF AllRaw, Whole, From, s
  <2> QED BY <1>3, <2>7 DEF From, Unmerged
<1>4. CASE plugin = "registry"
  <2> DEFINE s == Registry
  <2>1. Rows(plugin) = s
    BY <1>4 DEF Rows
  <2>2. s = [i \in 1 .. Len(world.regs) |-> s[i]] /\ Len(world.regs) \in Nat
    BY WorldIs DEF Registry
  <2>3. \A i \in 1 .. Len(world.regs) : Raw(s[i]) /\ s[i].plugin = plugin
    BY <1>4, RegistryIs
  <2> HIDE DEF s
  <2>4. IsList(s) /\ Len(s) = Len(world.regs)
    BY <2>2, FunIsList
  <2>5. Fine
    BY <1>4, <2>1, <2>3, <2>4 DEF AllRaw, Whole, From
  <2> QED BY <1>4, <2>5 DEF From, Unmerged
<1>5. CASE plugin = "mftscan"
  <2> DEFINE s == Mft
  <2>1. Rows(plugin) = s
    BY <1>5 DEF Rows
  <2>2. s = [i \in 1 .. Len(world.mft) |-> s[i]] /\ Len(world.mft) \in Nat
    <3>1. Len(world.mft) \in Nat
      BY WorldIs
    <3>2. s = [i \in 1 .. Len(world.mft) |-> s[i]]
      BY Zenon DEF Mft
    <3> QED BY <3>1, <3>2
  <2>3. \A i \in 1 .. Len(world.mft) :
          /\ Raw(s[i]) /\ s[i].plugin = plugin /\ s[i].guid = None
          /\ s[i].row = world.mft[i] /\ s[i].created = s[i].row.created
    BY <1>5, MftIs
  <2> HIDE DEF s
  <2>4. IsList(s) /\ Len(s) = Len(world.mft)
    BY <2>2, FunIsList
  <2>5. Fine
    BY <1>5, <2>1, <2>3, <2>4 DEF AllRaw, Whole, From
  <2>6. /\ \A i \in 1 .. Len(world.mft) : world.mft[i] \in ToSet(world.mft)
        /\ \A r \in ToSet(world.mft) : \E i \in 1 .. Len(world.mft) : world.mft[i] = r
    <3>1. world.mft \in Seq(MftRow)
      BY WorldIs
    <3> QED BY <3>1 DEF ToSet
  <2>7. Unmerged(s)
    BY <2>3, <2>4, <2>6 DEF Unmerged, Attribute
  <2>8. AllRows(s)
    BY <1>5, <2>3, <2>4, <2>6 DEF AllRows
  <2> QED BY <2>1, <2>5, <2>7, <2>8
<1>6. CASE plugin = "terminated"
  <2> DEFINE t == [i \in 1 .. Len(world.order) |-> RowOf(plugin, world.order[i])]
             I == {i \in 1 .. Len(t) : t[i].ts # 0}
             s == Rows(plugin)
  <2>1. AllRaw(t) /\ Whole(t, plugin) /\ From(t, plugin) /\ s = Only(t, LAMBDA e : e.ts # 0)
    BY <1>6, PerProcessIs
  <2> HIDE DEF t, s
  <2>2. s = Pick(t, I)
    BY <2>1 DEF Only
  <2>3. IsList(t) /\ I \in SUBSET (1 .. Len(t))
    BY <2>1 DEF AllRaw
  <2> HIDE DEF I
  <2>4. IsList(s) /\ \A k \in 1 .. Len(s) : \E i \in I : s[k] = t[i]
    BY <2>2, <2>3, PickIn
  <2>5. \A i \in I : i \in 1 .. Len(t)
    BY <2>3
  <2>6. Fine
    BY <1>6, <2>1, <2>4, <2>5 DEF AllRaw, Whole, From, s
  <2> QED BY <1>6, <2>6 DEF From, Unmerged
<1>7. CASE plugin = "svcscan"
  <2>1. Rows(plugin) = <<Service>>
    BY <1>7 DEF Rows
  <2>2. Raw(Service) /\ Service.plugin = plugin
    BY <1>7, ServiceIs
  <2> DEFINE s == <<Service>>
  <2>3. s \in Seq({Service}) /\ Len(s) = 1 /\ s[1] = Service
    OBVIOUS
  <2>4. IsList(s)
    BY <2>3, SeqIsList
  <2> HIDE DEF s
  <2>5. AllRaw(s) /\ From(s, plugin)
    BY <2>2, <2>3, <2>4 DEF AllRaw, From
  <2>6. Fine
    BY <1>7, <2>1, <2>5 DEF Whole, s
  <2> QED BY <1>7, <2>6 DEF From, Unmerged
<1> QED BY <1>1, <1>2, <1>2a, <1>3, <1>4, <1>5, <1>6, <1>7

-----------------------------------------------------------------------------
(* The passes before linking leave raw events, and lose no process.            *)

LEMMA ConcatRaw ==
    ASSUME NEW s, NEW t, AllRaw(s), AllRaw(t)
    PROVE  /\ AllRaw(s \o t)
           /\ \A plugin : Whole(s, plugin) \/ Whole(t, plugin) => Whole(s \o t, plugin)
<1> DEFINE st == s \o t
<1>1. /\ IsList(st) /\ Len(st) = Len(s) + Len(t) /\ Len(s) \in Nat /\ Len(t) \in Nat
      /\ \A i \in 1 .. Len(s) : i \in 1 .. Len(st) /\ st[i] = s[i]
      /\ \A i \in 1 .. Len(t) : Len(s) + i \in 1 .. Len(st) /\ st[Len(s) + i] = t[i]
      /\ \A i \in 1 .. Len(st) :
           \/ i \in 1 .. Len(s) /\ st[i] = s[i]
           \/ i - Len(s) \in 1 .. Len(t) /\ st[i] = t[i - Len(s)]
  BY Concat, ListIs DEF AllRaw
<1> HIDE DEF st
<1>2. AllRaw(st)
  BY <1>1 DEF AllRaw
<1>3. ASSUME NEW plugin, Whole(s, plugin) PROVE Whole(st, plugin)
  <2> SUFFICES ASSUME NEW p \in Seen
               PROVE  /\ plugin = "processes" => \E i \in 1 .. Len(st) : IsCreate(st[i]) /\ st[i].from = p
                      /\ plugin = "sessions" => \E i \in 1 .. Len(st) : st[i].obj = "user_session" /\ st[i].from = p
    BY DEF Whole
  <2>1. ASSUME plugin = "processes" PROVE \E i \in 1 .. Len(st) : IsCreate(st[i]) /\ st[i].from = p
    <3>1. PICK i \in 1 .. Len(s) : IsCreate(s[i]) /\ s[i].from = p
      BY <1>3, <2>1 DEF Whole
    <3> QED BY <1>1, <3>1
  <2>2. ASSUME plugin = "sessions" PROVE \E i \in 1 .. Len(st) : st[i].obj = "user_session" /\ st[i].from = p
    <3>1. PICK i \in 1 .. Len(s) : s[i].obj = "user_session" /\ s[i].from = p
      BY <1>3, <2>2 DEF Whole
    <3> QED BY <1>1, <3>1
  <2> QED BY <2>1, <2>2
<1>4. ASSUME NEW plugin, Whole(t, plugin) PROVE Whole(st, plugin)
  <2> SUFFICES ASSUME NEW p \in Seen
               PROVE  /\ plugin = "processes" => \E i \in 1 .. Len(st) : IsCreate(st[i]) /\ st[i].from = p
                      /\ plugin = "sessions" => \E i \in 1 .. Len(st) : st[i].obj = "user_session" /\ st[i].from = p
    BY DEF Whole
  <2>1. ASSUME plugin = "processes" PROVE \E i \in 1 .. Len(st) : IsCreate(st[i]) /\ st[i].from = p
    <3>1. PICK i \in 1 .. Len(t) : IsCreate(t[i]) /\ t[i].from = p
      BY <1>4, <2>1 DEF Whole
    <3> QED BY <1>1, <3>1
  <2>2. ASSUME plugin = "sessions" PROVE \E i \in 1 .. Len(st) : st[i].obj = "user_session" /\ st[i].from = p
    <3>1. PICK i \in 1 .. Len(t) : t[i].obj = "user_session" /\ t[i].from = p
      BY <1>4, <2>2 DEF Whole
    <3> QED BY <1>1, <3>1
  <2> QED BY <2>1, <2>2
<1> QED BY <1>2, <1>3, <1>4 DEF st

LEMMA PickRaw ==
    ASSUME NEW s, AllRaw(s), NEW I \in SUBSET (1 .. Len(s))
    PROVE  /\ AllRaw(Pick(s, I))
           /\ \A k \in 1 .. Len(Pick(s, I)) : \E i \in I : Pick(s, I)[k] = s[i]
           /\ \A i \in I : \E k \in 1 .. Len(Pick(s, I)) : Pick(s, I)[k] = s[i]
<1>1. IsList(s)
  BY DEF AllRaw
<1>2. /\ IsList(Pick(s, I))
      /\ \A k \in 1 .. Len(Pick(s, I)) : \E i \in I : Pick(s, I)[k] = s[i]
      /\ \A i \in I : \E k \in 1 .. Len(Pick(s, I)) : Pick(s, I)[k] = s[i]
  BY <1>1, PickIn
<1> QED BY <1>2 DEF AllRaw

LEMMA MergedRaw ==
    ASSUME world \in Worlds, NEW rows, AllRaw(rows), 1 \in 1 .. Len(rows),
           \A i \in 1 .. Len(rows) : rows[i].plugin = "mftscan"
    PROVE  Raw(Merged(rows))
<1> DEFINE si == {i \in 1 .. Len(rows) : rows[i].row.attr = "SI"}
           fn == {i \in 1 .. Len(rows) : rows[i].row.attr = "FN" /\ rows[i].row.name > 0}
           zero == [i \in 1 .. Len(rows) |-> 0]
           names == NameLengths(rows)
           named == rows[Best(fn, names)]
           seed == IF si # {} THEN rows[Best(si, zero)] ELSE IF fn # {} THEN named ELSE rows[1]
           siTime == IF si # {} THEN seed.created ELSE 0
           fnTime == IF fn # {} THEN named.created ELSE 0
           time == IF siTime # 0 THEN siTime ELSE fnTime
           name == IF fn # {} THEN named.row.name ELSE seed.row.name
           previous == IF siTime # 0 /\ fnTime # 0 /\ siTime # fnTime THEN fnTime ELSE 0
           e == Merged(rows)
<1>1. e = [seed EXCEPT !.guid = <<"mft", seed.row.n>>, !.ts = time, !.created = time,
                       !.row.name = name, !.previous = previous]
  BY DEF Merged
<1>2. Len(rows) \in Nat
  BY ListIs DEF AllRaw
<1>3. \A i \in 1 .. Len(rows) : rows[i].row \in MftRow /\ rows[i].created \in Times /\ Raw(rows[i])
                                /\ rows[i].obj = "file"
  BY DEF AllRaw, Raw, Told, ToldRow
<1>4. ASSUME si # {} PROVE Best(si, zero) \in si
  <2>1. si \in SUBSET (1 .. Len(rows)) /\ \A i \in si : zero[i] \in Nat
    OBVIOUS
  <2> HIDE DEF si, zero
  <2> QED BY <1>2, <1>4, <2>1, BestIs DEF IsBest
<1>5. ASSUME fn # {} PROVE Best(fn, names) \in fn
  <2>1. fn \in SUBSET (1 .. Len(rows)) /\ \A i \in fn : names[i] \in Nat
    BY <1>3 DEF MftRow, NameLengths
  <2> HIDE DEF fn, names
  <2> QED BY <1>2, <1>5, <2>1, BestIs DEF IsBest
<1>6. fn # {} => \E i \in 1 .. Len(rows) : named = rows[i]
  BY <1>5
<1>7. \E i \in 1 .. Len(rows) : seed = rows[i]
  BY <1>4, <1>6
<1> HIDE DEF si, fn, named, seed
<1>8. siTime \in Times /\ fnTime \in Times /\ 0 \in Times
  BY <1>3, <1>6, <1>7, EnrichAssumption DEF Times
<1>9. time \in Times
  BY <1>8
<1>10. seed.row \in MftRow /\ Raw(seed) /\ seed.obj = "file" /\ seed.plugin = "mftscan"
       /\ name \in 0 .. 2
  BY <1>3, <1>6, <1>7 DEF MftRow
<1> HIDE DEF siTime, fnTime, time, name, previous, e
<1>11. IsEvent(seed) /\ [seed.row EXCEPT !.name = name] \in MftRow
  BY <1>10 DEF Raw, Typed, MftRow
<1>12. IsEvent(e) /\ e.ts = time /\ e.created = time /\ e.row = [seed.row EXCEPT !.name = name]
       /\ e.obj = "file" /\ e.plugin = "mftscan" /\ e.act = seed.act
       /\ e.guid = <<"mft", seed.row.n>> /\ e.previous = previous
  BY <1>1, <1>10, <1>11 DEF IsEvent, Columns
<1>12a. e.row.n = seed.row.n /\ e.row.name = name
  BY <1>10, <1>12 DEF MftRow
<1>13. \A f \in {"pid", "user", "uid", "path", "host", "owner", "parent", "link"} : e[f] = seed[f]
  BY <1>1, <1>11 DEF IsEvent, Columns
<1>14. Typed(e)
  BY <1>9, <1>10, <1>12, <1>13 DEF Raw, Typed
<1>15. Told(e)
  BY <1>9, <1>10, <1>11, <1>12, <1>12a
     DEF Raw, Told, Objects, IsCreate, ToldProcess, ToldSpoke, ListedSpoke, Spokes,
      ToldLogin, ToldConn, ToldService, ToldRow
<1>16. Fresh(e)
  BY <1>10, <1>12, <1>13 DEF Raw, Fresh, OwnSid
<1> QED BY <1>14, <1>15, <1>16 DEF Raw, e

LEMMA CollapseMFTRaw ==
    ASSUME world \in Worlds, AllRaw(events), CollapseMFT
    PROVE  AllRaw(events') /\ \A plugin : Whole(events, plugin) => Whole(events', plugin)
<1> DEFINE mft == {i \in 1 .. Len(events) : events[i].plugin = "mftscan"}
           others == {i \in 1 .. Len(events) : events[i].plugin # "mftscan"}
           rows == Pick(events, mft)
           I == 1 .. Len(rows)
           key == [i \in I |-> rows[i].row.n]
           score == [i \in I |-> 0]
           heads == Collapse(rows, key, score)
           Same(e) == {i \in 1 .. Len(rows) : rows[i].row.n = e.row.n}
           files == [k \in 1 .. Len(heads) |-> Merged(Pick(rows, Same(heads[k])))]
           rest == Pick(events, others)
<1>1. events' = rest \o files
  BY DEF CollapseMFT, Only
<1>2. mft \in SUBSET (1 .. Len(events)) /\ others \in SUBSET (1 .. Len(events))
  OBVIOUS
<1>3. AllRaw(rows) /\ \A k \in 1 .. Len(rows) : rows[k].plugin = "mftscan"
  <2>1. AllRaw(rows) /\ \A k \in 1 .. Len(rows) : \E i \in mft : rows[k] = events[i]
    BY <1>2, PickRaw
  <2> QED BY <2>1
<1>4. AllRaw(rest) /\ \A i \in others : \E k \in 1 .. Len(rest) : rest[k] = events[i]
  BY <1>2, PickRaw
<1> HIDE DEF rows, rest
<1>5. \E at : Collapsed(rows, key, score, heads, at)
  <2>1. IsList(rows) /\ \A i \in 1 .. Len(rows) : score[i] \in Nat
    BY <1>3 DEF AllRaw
  <2> HIDE DEF key, score
  <2> QED BY <2>1, CollapseAt
<1> HIDE DEF heads
<1>6. Len(heads) \in Nat /\ \A k \in 1 .. Len(heads) : \E i \in 1 .. Len(rows) : heads[k] = rows[i]
  <2>1. PICK at : Collapsed(rows, key, score, heads, at)
    BY <1>5
  <2> HIDE DEF key, score
  <2>2. Len(heads) \in Nat
    BY <2>1, ListIs DEF Collapsed
  <2>3. \A k \in 1 .. Len(heads) : at[k] \in 1 .. Len(rows) /\ heads[k] = rows[at[k]]
    BY <2>1 DEF Collapsed
  <2> QED BY <2>2, <2>3
<1>7. ASSUME NEW k \in 1 .. Len(heads) PROVE Raw(Merged(Pick(rows, Same(heads[k]))))
  <2> DEFINE J == Same(heads[k])
             those == Pick(rows, J)
  <2>1. PICK i \in 1 .. Len(rows) : heads[k] = rows[i]
    BY <1>6
  <2>2. J \in SUBSET (1 .. Len(rows)) /\ i \in J
    BY <2>1
  <2> HIDE DEF J
  <2>3. /\ AllRaw(those)
        /\ \A l \in 1 .. Len(those) : \E j \in J : those[l] = rows[j]
        /\ \A j \in J : \E l \in 1 .. Len(those) : those[l] = rows[j]
    BY <1>3, <2>2, PickRaw
  <2> HIDE DEF those
  <2>4. Len(those) \in Nat
    BY <2>3, ListIs DEF AllRaw
  <2>5. 1 \in 1 .. Len(those)
    <3>1. PICK l \in 1 .. Len(those) : those[l] = rows[i]
      BY <2>2, <2>3
    <3> QED BY <2>4, <3>1
  <2>6. ASSUME NEW l \in 1 .. Len(those) PROVE those[l].plugin = "mftscan"
    <3>1. PICK j \in 1 .. Len(rows) : those[l] = rows[j]
      BY <2>2, <2>3
    <3> QED BY <1>3, <3>1
  <2>7. Raw(Merged(those))
    BY <2>3, <2>5, <2>6, MergedRaw
  <2> QED BY <2>7 DEF those, J
<1>8. AllRaw(files)
  <2> DEFINE n == Len(heads)
  <2>1. files = [k \in 1 .. n |-> files[k]] /\ \A k \in 1 .. n : Raw(files[k])
    BY <1>7, Zenon
  <2>2. n \in Nat
    BY <1>6
  <2> HIDE DEF files, n
  <2>3. IsList(files) /\ Len(files) = n
    BY <2>1, <2>2, FunIsList
  <2> QED BY <2>1, <2>3 DEF AllRaw
<1> HIDE DEF files
<1>9. \A plugin : Whole(events, plugin) => Whole(rest, plugin)
  <2>1. \A i \in 1 .. Len(events) : IsCreate(events[i]) \/ events[i].obj = "user_session" => i \in others
    BY DEF AllRaw, Raw, Told, ToldProcess, ToldLogin
  <2> HIDE DEF others
  <2> QED BY <1>4, <2>1 DEF Whole
<1>10. AllRaw(rest \o files) /\ \A plugin : Whole(events, plugin) => Whole(rest \o files, plugin)
  BY <1>4, <1>8, <1>9, ConcatRaw
<1> QED BY <1>1, <1>10

(* The world stays, and with it what is true of the events.                    *)
LEMMA ToldPrimed ==
    ASSUME world' = world, plugins' = plugins, NEW i, Typed(events'[i]), Told(events'[i])
    PROVE  Typed(events[i])' /\ Told(events[i])'
<1>1. Typed(events[i])'
  BY DEF Typed, IsEvent
<1>2. ToldProcess(events[i])'
  BY DEF Told, ToldProcess, IsCreate, Seen, CreateTime, ParentPID
<1>3. ToldSpoke(events[i])'
  BY DEF Told, ToldSpoke, ListedSpoke, Spokes, Seen
<1>4. ToldLogin(events[i])'
  BY DEF Told, ToldLogin, CreateTime
<1>5. ToldConn(events[i])'
  BY DEF Told, ToldConn, Holder
<1>6. ToldService(events[i])'
  BY DEF Told, ToldService, Holder
<1>7. ToldRow(events[i])' /\ (events[i].plugin \in plugins)' /\ (events[i].obj \in Objects)'
  BY DEF Told, ToldRow, WellFormed, NotFile
<1> QED BY <1>1, <1>2, <1>3, <1>4, <1>5, <1>6, <1>7 DEF Told

LEMMA RawPrimed ==
    ASSUME world' = world, plugins' = plugins
    PROVE  /\ AllRaw(events') => AllRaw(events)'
           /\ \A plugin : Whole(events', plugin) => Whole(events, plugin)'
<1>1. AllRaw(events') => AllRaw(events)'
  <2> SUFFICES ASSUME NEW i, Raw(events'[i]) PROVE Raw(events[i])'
    BY DEF AllRaw, IsList
  <2>1. Typed(events[i])' /\ Told(events[i])'
    BY ToldPrimed DEF Raw
  <2>2. Fresh(events[i])'
    BY DEF Raw, Fresh, OwnSid
  <2> QED BY <2>1, <2>2 DEF Raw
<1>2. \A plugin : Whole(events', plugin) => Whole(events, plugin)'
  BY DEF Whole, IsCreate, Seen
<1> QED BY <1>1, <1>2

(* One login for each logon identity, at the earliest time known.              *)
Login(p) == <<"login", world.luid[p]>>
Earliest(e) ==
    \A p \in Seen : world.luid[p] # None /\ e.guid = Login(p) /\ CreateTime(p) # 0 =>
                      e.ts # 0 /\ e.ts <= CreateTime(p)
Logins(s) ==
    /\ \A i \in 1 .. Len(s) : IsSession(s[i]) => s[i].guid # None /\ Earliest(s[i])
    /\ \A i, j \in 1 .. Len(s) : IsSession(s[i]) /\ IsSession(s[j]) /\ s[i].guid = s[j].guid => i = j
    /\ "sessions" \in plugins =>
         \A p \in Seen : world.luid[p] # None =>
            \E i \in 1 .. Len(s) : IsSession(s[i]) /\ s[i].guid = Login(p)

LEMMA EarlyIs ==
    ASSUME NEW e, e.ts \in Times, NEW f, f.ts \in Times
    PROVE  /\ Early(e) \in Nat
           /\ f.ts # 0 /\ Early(f) <= Early(e) => e.ts # 0 /\ e.ts <= f.ts
BY EnrichAssumption DEF Early, Times

LEMMA CollapseSessionsRaw ==
    ASSUME world \in Worlds, AllRaw(events), "sessions" \in plugins => Whole(events, "sessions"), CollapseSessions
    PROVE  /\ AllRaw(events') /\ Logins(events')
           /\ Whole(events, "processes") => Whole(events', "processes")
           /\ userByPID' \in [PIDs -> Blankable(Users)]
<1> DEFINE rows == Pick(events, {i \in 1 .. Len(events) : IsSession(events[i])})
           naming(p) == {i \in 1 .. Len(rows) : rows[i].opid = p /\ rows[i].user # None}
           logins == Pick(rows, {i \in 1 .. Len(rows) : rows[i].guid # None})
           key == [i \in 1 .. Len(logins) |-> logins[i].guid]
           score == [i \in 1 .. Len(logins) |-> Early(logins[i])]
           t == Collapse(logins, key, score)
           rest == Pick(events, {i \in 1 .. Len(events) : ~IsSession(events[i])})
<1>1. /\ events' = rest \o t
      /\ userByPID' = [p \in PIDs |-> IF Pick(rows, naming(p)) = <<>> THEN None
                                      ELSE Pick(rows, naming(p))[1].user]
  BY DEF CollapseSessions, Only
<1>2. /\ AllRaw(rest) /\ \A k \in 1 .. Len(rest) : ~IsSession(rest[k])
      /\ \A i \in 1 .. Len(events) : ~IsSession(events[i]) => \E k \in 1 .. Len(rest) : rest[k] = events[i]
  <2> DEFINE I == {i \in 1 .. Len(events) : ~IsSession(events[i])}
  <2>1. I \in SUBSET (1 .. Len(events)) /\ \A i \in I : ~IsSession(events[i])
    OBVIOUS
  <2>2. /\ AllRaw(rest) /\ \A k \in 1 .. Len(rest) : \E i \in I : rest[k] = events[i]
        /\ \A i \in I : \E k \in 1 .. Len(rest) : rest[k] = events[i]
    BY <2>1, PickRaw
  <2> QED BY <2>1, <2>2
<1>3. /\ AllRaw(rows) /\ \A k \in 1 .. Len(rows) : IsSession(rows[k])
      /\ \A i \in 1 .. Len(events) : IsSession(events[i]) => \E k \in 1 .. Len(rows) : rows[k] = events[i]
  <2> DEFINE I == {i \in 1 .. Len(events) : IsSession(events[i])}
  <2>1. I \in SUBSET (1 .. Len(events)) /\ \A i \in I : IsSession(events[i])
    OBVIOUS
  <2>2. /\ AllRaw(rows) /\ \A k \in 1 .. Len(rows) : \E i \in I : rows[k] = events[i]
        /\ \A i \in I : \E k \in 1 .. Len(rows) : rows[k] = events[i]
    BY <2>1, PickRaw
  <2> QED BY <2>1, <2>2
<1> HIDE DEF rest, rows
<1>4. /\ AllRaw(logins) /\ \A k \in 1 .. Len(logins) : IsSession(logins[k]) /\ logins[k].guid # None
      /\ \A i \in 1 .. Len(rows) : rows[i].guid # None => \E k \in 1 .. Len(logins) : logins[k] = rows[i]
  <2> DEFINE I == {i \in 1 .. Len(rows) : rows[i].guid # None}
  <2>1. I \in SUBSET (1 .. Len(rows)) /\ \A i \in I : IsSession(rows[i]) /\ rows[i].guid # None
    BY <1>3
  <2>2. /\ AllRaw(logins) /\ \A k \in 1 .. Len(logins) : \E i \in I : logins[k] = rows[i]
        /\ \A i \in I : \E k \in 1 .. Len(logins) : logins[k] = rows[i]
    BY <1>3, <2>1, PickRaw
  <2> QED BY <2>1, <2>2
<1> HIDE DEF logins
<1>5. \A i \in 1 .. Len(logins) : logins[i].ts \in Times /\ score[i] = Early(logins[i]) /\ score[i] \in Nat
                                  /\ key[i] = logins[i].guid
  BY <1>4, EarlyIs DEF AllRaw, Raw, Typed
<1>6. PICK at : Collapsed(logins, key, score, t, at)
  <2>1. IsList(logins) /\ \A i \in 1 .. Len(logins) : score[i] \in Nat
    BY <1>4, <1>5 DEF AllRaw
  <2> HIDE DEF key, score
  <2> QED BY <2>1, CollapseAt
<1> HIDE DEF key, score, t
<1>7. \A k \in 1 .. Len(t) : at[k] \in 1 .. Len(logins) /\ t[k] = logins[at[k]]
  BY <1>6 DEF Collapsed
<1>8. AllRaw(t) /\ \A k \in 1 .. Len(t) : IsSession(t[k]) /\ t[k].guid # None
  <2>1. IsList(t)
    BY <1>6 DEF Collapsed
  <2>2. \A k \in 1 .. Len(t) : Raw(t[k]) /\ IsSession(t[k]) /\ t[k].guid # None
    BY <1>4, <1>7 DEF AllRaw
  <2> QED BY <2>1, <2>2 DEF AllRaw
<1>9. ASSUME NEW p \in Seen, world.luid[p] # None, "sessions" \in plugins
      PROVE  \E i \in 1 .. Len(logins) : logins[i].guid = Login(p) /\ logins[i].ts = CreateTime(p)
  <2>1. PICK i \in 1 .. Len(events) : IsSession(events[i]) /\ events[i].from = p
    BY <1>9 DEF Whole, IsSession
  <2>2. world.luid[p] \in Luids
    <3>1. world.luid \in [Procs -> Blankable(Luids)] /\ p \in Procs
      BY WorldIs DEF World
    <3> QED BY <1>9, <3>1 DEF Blankable
  <2>3. events[i].guid = Login(p) /\ events[i].ts = CreateTime(p) /\ Login(p) # None
    <3>1. ToldLogin(events[i])
      BY DEF AllRaw, Raw, Told
    <3>2. Login(p) # None
      BY <2>2, EnrichAssumption DEF Login
    <3> QED BY <1>9, <2>1, <3>1, <3>2 DEF ToldLogin, IsSession, Login
  <2>4. PICK k \in 1 .. Len(rows) : rows[k] = events[i]
    BY <1>3, <2>1
  <2>5. PICK l \in 1 .. Len(logins) : logins[l] = rows[k]
    BY <1>4, <2>3, <2>4
  <2> QED BY <2>3, <2>4, <2>5
<1>10. \A k \in 1 .. Len(t) : Earliest(t[k])
  <2> SUFFICES ASSUME NEW k \in 1 .. Len(t), NEW p \in Seen, world.luid[p] # None,
                      t[k].guid = Login(p), CreateTime(p) # 0
               PROVE  t[k].ts # 0 /\ t[k].ts <= CreateTime(p)
    BY DEF Earliest
  <2>1. "sessions" \in plugins
    BY <1>8 DEF AllRaw, Raw, Told, ToldLogin, IsSession
  <2>2. PICK i \in 1 .. Len(logins) : logins[i].guid = Login(p) /\ logins[i].ts = CreateTime(p)
    BY <1>9, <2>1
  <2>3. key[i] = key[at[k]]
    BY <1>5, <1>7, <2>2
  <2>4. score[i] <= score[at[k]]
    <3>1. IsBest({j \in 1 .. Len(logins) : key[j] = key[at[k]]}, score, at[k])
      BY <1>6 DEF Collapsed
    <3>2. score[i] < score[at[k]] \/ score[i] = score[at[k]]
      BY <2>3, <3>1 DEF IsBest
    <3> QED BY <1>5, <1>7, <3>2
  <2>5. Early(logins[i]) <= Early(t[k]) /\ logins[i].ts \in Times /\ t[k].ts \in Times
    BY <1>5, <1>7, <2>4
  <2> QED BY <2>2, <2>5, EarlyIs
<1>11. \A k, l \in 1 .. Len(t) : t[k].guid = t[l].guid => k = l
  <2>1. \A k, l \in 1 .. Len(t) : key[at[k]] = key[at[l]] => k = l
    BY <1>6 DEF Collapsed
  <2>2. \A k \in 1 .. Len(t) : key[at[k]] = t[k].guid
    BY <1>5, <1>7
  <2> QED BY <2>1, <2>2
<1>12. ASSUME NEW p \in Seen, world.luid[p] # None, "sessions" \in plugins
       PROVE  \E k \in 1 .. Len(t) : t[k].guid = Login(p)
  <2>1. PICK i \in 1 .. Len(logins) : logins[i].guid = Login(p)
    BY <1>9, <1>12
  <2>2. PICK k \in 1 .. Len(t) : key[at[k]] = key[i]
    BY <1>6 DEF Collapsed
  <2> QED BY <1>5, <1>7, <2>1, <2>2
<1> DEFINE st == rest \o t
<1>13. /\ Len(st) = Len(rest) + Len(t) /\ Len(rest) \in Nat /\ Len(t) \in Nat
       /\ \A i \in 1 .. Len(rest) : i \in 1 .. Len(st) /\ st[i] = rest[i]
       /\ \A i \in 1 .. Len(t) : Len(rest) + i \in 1 .. Len(st) /\ st[Len(rest) + i] = t[i]
       /\ \A i \in 1 .. Len(st) :
            \/ i \in 1 .. Len(rest) /\ st[i] = rest[i]
            \/ i - Len(rest) \in 1 .. Len(t) /\ st[i] = t[i - Len(rest)]
  BY <1>2, <1>8, Concat, ListIs DEF AllRaw
<1>14. AllRaw(st) /\ (Whole(rest, "processes") => Whole(st, "processes"))
  BY <1>2, <1>8, ConcatRaw
<1> HIDE DEF st
<1>15. \A i \in 1 .. Len(st) : IsSession(st[i]) => i - Len(rest) \in 1 .. Len(t) /\ st[i] = t[i - Len(rest)]
  BY <1>2, <1>13
<1>16. Logins(st)
  <2>1. \A i \in 1 .. Len(st) : IsSession(st[i]) => st[i].guid # None /\ Earliest(st[i])
    BY <1>8, <1>10, <1>15
  <2>2. ASSUME NEW i \in 1 .. Len(st), NEW j \in 1 .. Len(st),
               IsSession(st[i]), IsSession(st[j]), st[i].guid = st[j].guid
        PROVE  i = j
    <3>1. i - Len(rest) = j - Len(rest)
      BY <1>11, <1>15, <2>2
    <3> QED BY <1>13, <3>1
  <2>3. ASSUME NEW p \in Seen, world.luid[p] # None, "sessions" \in plugins
        PROVE  \E i \in 1 .. Len(st) : IsSession(st[i]) /\ st[i].guid = Login(p)
    <3>1. PICK k \in 1 .. Len(t) : t[k].guid = Login(p)
      BY <1>12, <2>3
    <3> QED BY <1>8, <1>13, <3>1
  <2> QED BY <2>1, <2>2, <2>3 DEF Logins
<1>17. Whole(events, "processes") => Whole(rest, "processes")
  BY <1>2 DEF Whole, IsCreate, IsSession
<1>18. ASSUME NEW p \in PIDs
       PROVE  (IF Pick(rows, naming(p)) = <<>> THEN None ELSE Pick(rows, naming(p))[1].user) \in Blankable(Users)
  <2> DEFINE those == Pick(rows, naming(p))
  <2>1. AllRaw(those)
    <3>1. naming(p) \in SUBSET (1 .. Len(rows))
      OBVIOUS
    <3> HIDE DEF naming
    <3> QED BY <1>3, <3>1, PickRaw
  <2> HIDE DEF those
  <2>2. ASSUME those # <<>> PROVE those[1].user \in Blankable(Users)
    <3>1. those \in Seq(ToSet(those)) /\ Len(those) \in Nat
      BY <2>1, ListIs DEF AllRaw, IsList
    <3>2. 1 \in 1 .. Len(those)
      BY <2>2, <3>1
    <3> QED BY <2>1, <3>2 DEF AllRaw, Raw, Typed
  <2>3. (IF those = <<>> THEN None ELSE those[1].user) \in Blankable(Users)
    BY <2>2 DEF Blankable
  <2> QED BY <2>3 DEF those
<1>19. userByPID' \in [PIDs -> Blankable(Users)]
  <2> HIDE DEF naming
  <2> QED BY <1>1, <1>18
<1> QED BY <1>1, <1>14, <1>16, <1>17, <1>19 DEF st

-----------------------------------------------------------------------------
(* Deduplication leaves one creation of each process. *)

Once(s) ==
    \A i, j \in 1 .. Len(s) : IsCreate(s[i]) /\ IsCreate(s[j]) /\ s[i].from = s[j].from => i = j

(* Two events of one identity are the same, or say the same.                   *)
SameFact(e, f) ==
    /\ e.guid # None /\ f.guid # None
    /\ e.guid = f.guid /\ e.obj = f.obj /\ e.act = f.act /\ e.opid = f.opid /\ e.target = f.target

LEMMA IdentityIs ==
    ASSUME NEW i, NEW j
    PROVE  /\ Identity(i) = Identity(j) => i = j \/ SameFact(events[i], events[j])
           /\ SameFact(events[i], events[j]) => Identity(i) = Identity(j)
<1> DEFINE a == events[i]
           b == events[j]
<1>1. <<i>> # <<b.guid, b.obj, b.act, b.opid, b.target>> /\ <<j>> # <<a.guid, a.obj, a.act, a.opid, a.target>>
  <2>2. Len(<<i>>) = 1 /\ Len(<<j>>) = 1
    OBVIOUS
  <2>3. Len(<<b.guid, b.obj, b.act, b.opid, b.target>>) = 5 /\ Len(<<a.guid, a.obj, a.act, a.opid, a.target>>) = 5
    OBVIOUS
  <2> QED BY <2>2, <2>3
<1> QED BY <1>1 DEF Identity, SameFact

(* The columns that Populated counts.                                          *)
Counted == {"pid", "ppid", "opid", "ooff", "target", "user", "uid", "path"}

LEMMA CountedIs == IsFiniteSet(Counted)
<1>1. IsFiniteSet({"pid"} \cup {"ppid"} \cup {"opid"} \cup {"ooff"})
  BY FS_Singleton, FS_Union
<1>2. IsFiniteSet({"target"} \cup {"user"} \cup {"uid"} \cup {"path"})
  BY FS_Singleton, FS_Union
<1>3. Counted = ({"pid"} \cup {"ppid"} \cup {"opid"} \cup {"ooff"})
                  \cup ({"target"} \cup {"user"} \cup {"uid"} \cup {"path"})
  BY DEF Counted
<1> QED BY <1>1, <1>2, <1>3, FS_Union

LEMMA PopulatedIs == ASSUME NEW e PROVE Populated(e) \in Nat
<1> DEFINE F == {f \in Counted : e[f] # None}
<1>1. Populated(e) = Cardinality(F) + (IF e.ts # 0 THEN 1 ELSE 0)
  BY DEF Populated, Counted
<1>2. F \in SUBSET Counted
  OBVIOUS
<1> HIDE DEF F
<1>3. Cardinality(F) \in Nat
  BY <1>2, CountedIs, FS_Subset, FS_CardinalityType
<1> QED BY <1>1, <1>3

(* What is left of the events: one of each identity.                          *)
LEMMA DedupeIs ==
    ASSUME IsList(events), Dedupe
    PROVE  \E at :
             /\ IsList(events') /\ at \in [1 .. Len(events') -> 1 .. Len(events)]
             /\ \A k \in 1 .. Len(events') : events'[k] = events[at[k]]
             /\ \A i \in 1 .. Len(events) : \E k \in 1 .. Len(events') :
                  /\ at[k] = i \/ SameFact(events[at[k]], events[i])
                  /\ Populated(events[at[k]]) >= Populated(events[i])
             /\ \A k, l \in 1 .. Len(events') : at[k] = at[l] \/ SameFact(events[at[k]], events[at[l]]) => k = l
<1> DEFINE key == [i \in 1 .. Len(events) |-> Identity(i)]
           score == [i \in 1 .. Len(events) |-> Populated(events[i])]
           t == Collapse(events, key, score)
<1>1. events' = t
  BY DEF Dedupe
<1>2. \A i \in 1 .. Len(events) : key[i] = Identity(i) /\ score[i] = Populated(events[i]) /\ score[i] \in Nat
  BY PopulatedIs
<1> HIDE DEF key, score
<1>3. PICK at : Collapsed(events, key, score, t, at)
  BY <1>2, CollapseAt
<1> HIDE DEF t
<1>4. \A k \in 1 .. Len(t) :
        at[k] \in 1 .. Len(events) /\ t[k] = events[at[k]] /\ key[at[k]] = Identity(at[k])
  BY <1>2, <1>3 DEF Collapsed
<1>5. ASSUME NEW i \in 1 .. Len(events)
      PROVE  \E k \in 1 .. Len(t) :
               /\ at[k] = i \/ SameFact(events[at[k]], events[i])
               /\ Populated(events[at[k]]) >= Populated(events[i])
  <2>1. PICK k \in 1 .. Len(t) : key[at[k]] = key[i]
    BY <1>3 DEF Collapsed
  <2>2. at[k] = i \/ SameFact(events[at[k]], events[i])
    BY <1>2, <1>4, <2>1, IdentityIs
  <2>3. IsBest({j \in 1 .. Len(events) : key[j] = key[at[k]]}, score, at[k])
    BY <1>3 DEF Collapsed
  <2>4. score[i] < score[at[k]] \/ score[i] = score[at[k]]
    BY <2>1, <2>3 DEF IsBest
  <2>5. Populated(events[at[k]]) >= Populated(events[i])
    BY <1>2, <1>4, <2>4
  <2> QED BY <2>2, <2>5
<1>6. ASSUME NEW k \in 1 .. Len(t), NEW l \in 1 .. Len(t),
             at[k] = at[l] \/ SameFact(events[at[k]], events[at[l]])
      PROVE  k = l
  <2>1. Identity(at[k]) = Identity(at[l])
    BY <1>6, IdentityIs
  <2>2. key[at[k]] = key[at[l]]
    BY <1>4, <2>1
  <2> QED BY <1>3, <2>2 DEF Collapsed
<1>7. IsList(t) /\ at \in [1 .. Len(t) -> 1 .. Len(events)]
  BY <1>3 DEF Collapsed
<1> QED BY <1>1, <1>4, <1>5, <1>6, <1>7

LEMMA DedupeRaw ==
    ASSUME world \in Worlds, AllRaw(events), Logins(events), Dedupe
    PROVE  /\ AllRaw(events') /\ Once(events') /\ Logins(events')
           /\ Whole(events, "processes") => Whole(events', "processes")
<1>0. IsList(events)
  BY DEF AllRaw
<1>1. PICK at :
        /\ IsList(events') /\ at \in [1 .. Len(events') -> 1 .. Len(events)]
        /\ \A k \in 1 .. Len(events') : events'[k] = events[at[k]]
        /\ \A i \in 1 .. Len(events) : \E k \in 1 .. Len(events') :
             /\ at[k] = i \/ SameFact(events[at[k]], events[i])
             /\ Populated(events[at[k]]) >= Populated(events[i])
        /\ \A k, l \in 1 .. Len(events') : at[k] = at[l] \/ SameFact(events[at[k]], events[at[l]]) => k = l
  BY <1>0, DedupeIs
<1> DEFINE t == events'
<1> HIDE DEF t
<1>2. /\ IsList(t)
      /\ \A k \in 1 .. Len(t) : at[k] \in 1 .. Len(events) /\ t[k] = events[at[k]] /\ Raw(t[k])
  BY <1>1 DEF t, AllRaw
<1>3. \A i \in 1 .. Len(events) : \E k \in 1 .. Len(t) : at[k] = i \/ SameFact(events[at[k]], events[i])
  BY <1>1 DEF t
<1>4. \A k, l \in 1 .. Len(t) : at[k] = at[l] \/ SameFact(events[at[k]], events[at[l]]) => k = l
  BY <1>1 DEF t
<1>5. AllRaw(t)
  BY <1>2 DEF AllRaw
<1>6. \A i \in 1 .. Len(events) : IsCreate(events[i]) =>
        /\ events[i].guid = Guid(events[i].from) /\ events[i].guid # None
        /\ events[i].opid = None /\ events[i].target = None
  <2> SUFFICES ASSUME NEW i \in 1 .. Len(events), IsCreate(events[i])
               PROVE  /\ events[i].guid = Guid(events[i].from) /\ events[i].guid # None
                      /\ events[i].opid = None /\ events[i].target = None
    OBVIOUS
  <2>1. ToldProcess(events[i])
    BY DEF AllRaw, Raw, Told
  <2>2. events[i].from \in Procs
    BY <2>1, WorldIs DEF ToldProcess
  <2>3. Guid(events[i].from) # None
    BY <2>2, EnrichAssumption DEF Guid
  <2> QED BY <2>1, <2>3 DEF ToldProcess
<1>7. Once(t)
  <2> SUFFICES ASSUME NEW k \in 1 .. Len(t), NEW l \in 1 .. Len(t),
                      IsCreate(t[k]), IsCreate(t[l]), t[k].from = t[l].from
               PROVE  k = l
    BY DEF Once
  <2> DEFINE a == t[k]
             b == t[l]
  <2>0. /\ a.guid = Guid(a.from) /\ a.guid # None /\ a.opid = None /\ a.target = None
        /\ b.guid = Guid(b.from) /\ b.guid # None /\ b.opid = None /\ b.target = None
    <3>1. PICK i \in 1 .. Len(events), j \in 1 .. Len(events) : a = events[i] /\ b = events[j]
      BY <1>2
    <3>2. IsCreate(events[i]) /\ IsCreate(events[j])
      BY <3>1
    <3> HIDE DEF a, b
    <3> QED BY <1>6, <3>1, <3>2
  <2> HIDE DEF a, b
  <2>1. SameFact(a, b)
    <3>1. IsCreate(a) /\ IsCreate(b) /\ a.from = b.from
      BY DEF a, b
    <3> QED BY <2>0, <3>1 DEF SameFact, IsCreate
  <2> USE DEF a, b
  <2> QED BY <1>2, <1>4, <2>1
<1>8. ASSUME Whole(events, "processes") PROVE Whole(t, "processes")
  <2> SUFFICES ASSUME NEW p \in Seen PROVE \E k \in 1 .. Len(t) : IsCreate(t[k]) /\ t[k].from = p
    BY DEF Whole
  <2>1. PICK i \in 1 .. Len(events) : IsCreate(events[i]) /\ events[i].from = p
    BY <1>8 DEF Whole
  <2>2. PICK k \in 1 .. Len(t) : at[k] = i \/ SameFact(events[at[k]], events[i])
    BY <1>3
  <2>3. IsCreate(t[k])
    BY <1>2, <2>1, <2>2 DEF IsCreate, SameFact
  <2>4. Guid(t[k].from) = Guid(p)
    BY <1>2, <1>6, <2>1, <2>2, <2>3 DEF SameFact
  <2> QED BY <2>3, <2>4 DEF Guid
<1>9. Logins(t)
  <2>1. \A i \in 1 .. Len(t) : IsSession(t[i]) => t[i].guid # None /\ Earliest(t[i])
    BY <1>2 DEF Logins
  <2>2. ASSUME NEW k \in 1 .. Len(t), NEW l \in 1 .. Len(t),
               IsSession(t[k]), IsSession(t[l]), t[k].guid = t[l].guid
        PROVE  k = l
    <3>1. at[k] = at[l]
      <4>1. \A i, j \in 1 .. Len(events) :
              IsSession(events[i]) /\ IsSession(events[j]) /\ events[i].guid = events[j].guid => i = j
        BY DEF Logins
      <4>2. /\ at[k] \in 1 .. Len(events) /\ events[at[k]] = t[k]
            /\ at[l] \in 1 .. Len(events) /\ events[at[l]] = t[l]
        BY <1>2
      <4> QED BY <2>2, <4>1, <4>2
    <3> QED BY <1>4, <3>1
  <2>3. ASSUME NEW p \in Seen, world.luid[p] # None, "sessions" \in plugins
        PROVE  \E k \in 1 .. Len(t) : IsSession(t[k]) /\ t[k].guid = Login(p)
    <3>1. PICK i \in 1 .. Len(events) : IsSession(events[i]) /\ events[i].guid = Login(p)
      BY <2>3 DEF Logins
    <3>2. PICK k \in 1 .. Len(t) : at[k] = i \/ SameFact(events[at[k]], events[i])
      BY <1>3
    <3> QED BY <1>2, <3>1, <3>2 DEF IsSession, SameFact
  <2> QED BY <2>1, <2>2, <2>3 DEF Logins
<1> QED BY <1>5, <1>7, <1>8, <1>9 DEF t

-----------------------------------------------------------------------------
(* What linking looks up. *)

AllTold(s) == IsList(s) /\ \A i \in 1 .. Len(s) : Typed(s[i]) /\ Told(s[i])

LEMMA FirstOf ==
    ASSUME NEW s, IsList(s), s # <<>> PROVE 1 \in 1 .. Len(s) /\ Len(s) \in 1 .. Len(s)
<1>1. s \in Seq(ToSet(s)) /\ Len(s) \in Nat
  BY ListIs DEF IsList
<1> QED BY <1>1

LEMMA HostIs == ASSUME AllTold(events) PROVE Host \in Blankable(Hosts)
<1> DEFINE saying(s) == {i \in 1 .. Len(events) : events[i].plugin = "registry" /\ events[i].row.says = s}
           c == Pick(events, saying("computer"))
           a == Pick(events, saying("active"))
           names == c \o a
           Good(t) == IsList(t) /\ \A k \in 1 .. Len(t) : t[k].row.data \in Hosts
<1>1. Host = IF names = <<>> THEN None ELSE names[1].row.data
  BY DEF Host, Only
<1>2. ASSUME NEW s \in {"computer", "active"} PROVE Good(Pick(events, saying(s)))
  <2> DEFINE t == Pick(events, saying(s))
  <2>1. saying(s) \in SUBSET (1 .. Len(events)) /\ IsList(events)
    BY DEF AllTold
  <2>2. \A i \in saying(s) : events[i].row.data \in Hosts
    BY DEF AllTold, Told, ToldRow, WellFormed
  <2> HIDE DEF saying
  <2>3. IsList(t) /\ \A k \in 1 .. Len(t) : \E i \in saying(s) : t[k] = events[i]
    BY <2>1, PickIn
  <2> HIDE DEF t
  <2>4. Good(t)
    BY <2>2, <2>3
  <2> QED BY <2>4 DEF t
<1>3. Good(c) /\ Good(a)
  BY <1>2
<1> HIDE DEF c, a
<1>4. IsList(names) /\ Len(names) = Len(c) + Len(a)
      /\ \A i \in 1 .. Len(c) + Len(a) :
           \/ i \in 1 .. Len(c) /\ names[i] = c[i]
           \/ i - Len(c) \in 1 .. Len(a) /\ names[i] = a[i - Len(c)]
  BY <1>3, Concat
<1> HIDE DEF names
<1>5. ASSUME names # <<>> PROVE names[1].row.data \in Hosts
  <2>1. 1 \in 1 .. Len(c) + Len(a)
    BY <1>4, <1>5, FirstOf
  <2> QED BY <1>3, <1>4, <2>1
<1> QED BY <1>1, <1>5 DEF Blankable

LEMMA ProfileIs == ASSUME AllTold(events), NEW sid PROVE ProfileUser(sid) \in Blankable(Users)
<1> DEFINE I == {i \in 1 .. Len(events) : events[i].plugin = "registry" /\ events[i].row.says = "profile"
                                            /\ events[i].row.sid = sid}
           t == Pick(events, I)
<1>1. ProfileUser(sid) = IF t = <<>> THEN None ELSE t[Len(t)].row.data
  BY DEF ProfileUser, Only, Last
<1>2. I \in SUBSET (1 .. Len(events)) /\ IsList(events)
  BY DEF AllTold
<1>3. \A i \in I : events[i].row.data \in Users
  BY DEF AllTold, Told, ToldRow, WellFormed
<1> HIDE DEF I
<1>4. IsList(t) /\ \A k \in 1 .. Len(t) : \E i \in I : t[k] = events[i]
  BY <1>2, PickIn
<1> HIDE DEF t
<1>5. ASSUME t # <<>> PROVE t[Len(t)].row.data \in Users
  BY <1>3, <1>4, <1>5, FirstOf
<1> QED BY <1>1, <1>5 DEF Blankable

LEMMA FieldsIs ==
    ASSUME NEW obj \in Objects
    PROVE  /\ Fields(obj) \subseteq {"user", "uid", "path", "host"}
           /\ "uid" \in Fields(obj) => "user" \in Fields(obj)
           /\ obj \in {"process", "user_session"} => "user" \in Fields(obj)
           /\ obj = "registry" => "uid" \notin Fields(obj)
BY DEF Fields, Objects

CanonicalUser(e) == e.uid \in WellKnown /\ "user" \in Fields(e.obj)

LEMMA IdentifiedIs ==
    ASSUME AllTold(events), NEW o, Typed(o), NEW e, e = Identified(o)
    PROVE  /\ Typed(e) /\ \A c \in Columns \ {"host", "user"} : e[c] = o[c]
           /\ o.host = None \/ e.host = o.host
           /\ e.user = IF CanonicalUser(o) THEN Canonical[o.uid] ELSE o.user
<1> DEFINE h == IF o.host = None /\ "host" \in Fields(o.obj) THEN Host ELSE o.host
           u == IF CanonicalUser(o) THEN Canonical[o.uid] ELSE o.user
<1>1. e = [o EXCEPT !.host = h, !.user = u]
  BY DEF Identified, CanonicalUser
<1>2. h \in Blankable(Hosts) /\ (o.host = None \/ h = o.host)
  BY HostIs DEF Typed
<1>3. u \in Blankable(Users)
  BY EnrichAssumption DEF Typed, CanonicalUser, Blankable
<1> HIDE DEF h, u
<1>4. IsEvent(e) /\ (\A c \in Columns \ {"host", "user"} : e[c] = o[c]) /\ e.host = h /\ e.user = u
  BY <1>1 DEF Typed, IsEvent, Columns
<1>5. Typed(e)
  BY <1>2, <1>3, <1>4 DEF Typed, Columns
<1> QED BY <1>2, <1>4, <1>5 DEF u

LEMMA InheritIs ==
    ASSUME NEW o, IsEvent(o), NEW q, NEW e, e = Inherit(o, q)
    PROVE  IsEvent(e) /\ \A c \in Columns : e[c] = IF c \in Fields(o.obj) /\ o[c] = None THEN q[c] ELSE o[c]
<1>1. DOMAIN o = Columns
  BY DEF IsEvent
<1>2. e = [c \in Columns |-> IF c \in Fields(o.obj) /\ o[c] = None THEN q[c] ELSE o[c]]
  BY <1>1 DEF Inherit
<1> QED BY <1>2 DEF IsEvent

(* Linking to an owner fills what is blank and the object has.                 *)
LEMMA OwnedIs ==
    ASSUME NEW o, Typed(o), o.obj \in Objects, NEW i, Typed(events[i]), NEW how, NEW e, e = Owned(o, i, how)
    PROVE  /\ Typed(e) /\ e.owner = events[i].guid /\ e.link = how
           /\ \A c \in Columns \ {"owner", "link", "user", "uid", "path", "host"} : e[c] = o[c]
           /\ \A c \in {"user", "uid", "path", "host"} :
                e[c] = IF c \in Fields(o.obj) /\ o[c] = None THEN events[i][c] ELSE o[c]
<1> DEFINE b == [o EXCEPT !.owner = events[i].guid, !.link = how]
<1>1. e = Inherit(b, events[i])
  BY DEF Owned
<1>2. IsEvent(b) /\ b.owner = events[i].guid /\ b.link = how
      /\ \A c \in Columns \ {"owner", "link"} : b[c] = o[c]
  BY DEF Typed, IsEvent, Columns
<1> HIDE DEF b
<1>3. b.obj = o.obj /\ Fields(o.obj) \subseteq {"user", "uid", "path", "host"}
  BY <1>2, FieldsIs DEF Columns
<1>4. IsEvent(e) /\ \A c \in Columns : e[c] = IF c \in Fields(o.obj) /\ b[c] = None THEN events[i][c] ELSE b[c]
  BY <1>1, <1>2, <1>3, InheritIs
<1>5. e.owner = events[i].guid /\ e.link = how
      /\ \A c \in Columns \ {"owner", "link", "user", "uid", "path", "host"} : e[c] = o[c]
  BY <1>2, <1>3, <1>4 DEF Columns
<1>6. \A c \in {"user", "uid", "path", "host"} :
        e[c] = IF c \in Fields(o.obj) /\ o[c] = None THEN events[i][c] ELSE o[c]
  BY <1>2, <1>4 DEF Columns
<1>7. Typed(e)
  BY <1>4, <1>5, <1>6 DEF Typed, Columns
<1> QED BY <1>5, <1>6, <1>7

-----------------------------------------------------------------------------
(* The invariant of linking: every event says what is so, and what has been    *)
(* linked is linked right.                                                     *)

(* Linking leaves all columns but these.                                       *)
Filled == {"user", "uid", "path", "host", "owner", "parent"}
Kept(e, o) == \A c \in Columns \ (Filled \cup {"link"}) : e[c] = o[c]
Fills(e, o) ==
    \A f \in Filled : \/ o[f] = None \/ e[f] = o[f]
                      \/ f = "user" /\ o.uid \in WellKnown /\ e[f] = Canonical[o.uid]

TypedLinks(e) ==
    /\ {e.owner, e.parent} \subseteq {Guid(p) : p \in Procs} \cup {None}
    /\ (e.link = None) = (e.owner = None /\ e.parent = None)

(* The conditions of the properties, on one event.                            *)
OwnerSo(e) ==
    LET p == IF e.from \in Conns THEN world.by[e.from] ELSE e.from
    IN "processes" \in plugins =>
         /\ ListedSpoke(e) =>
              e.link = "definitive" /\ Linked(e) \in Seen /\ world.pid[Linked(e)] = world.pid[p]
         /\ (ListedSpoke(e) \/ e.plugin \in {"network", "svcscan"}) /\ Alone(p) =>
              Linked(e) = p /\ e.link = "definitive"
         /\ e.obj = "user_session" => Linked(e) = p /\ e.link = "definitive"
         /\ e.plugin = "netstat" /\ e.ts # 0 /\ p \in Seen \cap world.dated => Linked(e) = p
ParentSo(e) ==
    IsCreate(e) =>
       LET q == world.parent[e.from] IN
       (q \in Seen \cap world.dated /\ e.from \in world.dated) => e.parent = Guid(q)
OlderSo(e) == e.parent # None /\ e.ts # 0 => CreateTime(e.parent[2]) <= e.ts

NameSo(s, n, e) ==
    e.uid \in WellKnown /\ (OwnSid(e) \/ \E j \in 1 .. Len(s) : IsCreate(s[j]) /\ j < n /\ s[j].guid = e.owner) =>
      e.user = Canonical[e.uid]

Statics(s) ==
    AllTold(s) /\ Once(s) /\ Logins(s) /\ ("processes" \in plugins => Whole(s, "processes"))

LinkInv(s, n) ==
    /\ Statics(s) /\ n \in 1 .. Len(s) + 1
    /\ \A i \in 1 .. Len(s) : TypedLinks(s[i])
    /\ \A i \in n .. Len(s) : Fresh(s[i])
    /\ \A i \in 1 .. n - 1 : OwnerSo(s[i]) /\ ParentSo(s[i]) /\ OlderSo(s[i]) /\ NameSo(s, i, s[i])

(* What the event being linked may become.                                     *)
LinkOk(e) ==
    /\ Typed(e) /\ Kept(e, Current) /\ (IsCreate(e) => e.uid = Current.uid) /\ TypedLinks(e)
    /\ OwnerSo(e) /\ ParentSo(e) /\ OlderSo(e) /\ NameSo(events, next, e) /\ Fills(e, Current)

LEMMA CurrentIs ==
    ASSUME LinkInv(events, next), Linking
    PROVE  /\ next \in 1 .. Len(events) /\ Len(events) \in Nat /\ AllTold(events)
           /\ Typed(Current) /\ Told(Current) /\ Fresh(Current) /\ Current.obj \in Objects
<1>1. AllTold(events) /\ next \in 1 .. Len(events) + 1
  BY DEF LinkInv, Statics
<1>2. Len(events) \in Nat
  BY <1>1, ListIs DEF AllTold
<1>3. next \in 1 .. Len(events) /\ next \in next .. Len(events)
  BY <1>1, <1>2 DEF Linking
<1>4. Typed(Current) /\ Told(Current)
  BY <1>1, <1>3 DEF AllTold, Current
<1>5. Fresh(Current)
  BY <1>3 DEF LinkInv, Current
<1> QED BY <1>1, <1>2, <1>3, <1>4, <1>5 DEF Told

LEMMA CreatesAre ==
    ASSUME world \in Worlds, AllTold(events), NEW i \in Creates
    PROVE  /\ i \in 1 .. Len(events) /\ IsCreate(events[i]) /\ events[i].from \in Seen /\ events[i].from \in Procs
           /\ Typed(events[i]) /\ ToldProcess(events[i]) /\ events[i].guid = Guid(events[i].from)
           /\ events[i].ts = CreateTime(events[i].from) /\ events[i].off = events[i].from
           /\ events[i].pid = world.pid[events[i].from]
<1>1. i \in 1 .. Len(events) /\ IsCreate(events[i])
  BY DEF Creates, IsCreate
<1>2. Typed(events[i]) /\ ToldProcess(events[i])
  BY <1>1 DEF AllTold, Told
<1>3. events[i].from \in Seen
  BY <1>1, <1>2 DEF ToldProcess
<1> QED BY <1>1, <1>2, <1>3, WorldIs DEF ToldProcess

(* The address of a process that is seen finds that process.                  *)
LEMMA AtOffsetIs ==
    ASSUME world \in Worlds, Statics(events), "processes" \in plugins, NEW p \in Seen
    PROVE  \E i \in Creates : events[i].from = p /\ AtOffset(p) = {i}
<1>1. AllTold(events) /\ Once(events) /\ Whole(events, "processes")
  BY DEF Statics
<1>2. PICK i \in 1 .. Len(events) : IsCreate(events[i]) /\ events[i].from = p
  BY <1>1 DEF Whole
<1>3. i \in Creates
  BY <1>2 DEF Creates, IsCreate
<1>4. \A j \in Creates : events[j].off = p <=> j = i
  BY <1>1, <1>2, <1>3, CreatesAre DEF Once
<1>5. AtOffset(p) = {i}
  <2>1. {j \in Creates : events[j].off = p} = {i}
    BY <1>3, <1>4
  <2>2. Len(events) \in Nat
    BY <1>1, ListIs DEF AllTold
  <2> QED BY <1>2, <2>1, <2>2 DEF AtOffset
<1> QED BY <1>2, <1>3, <1>5

(* The PID of a process, at a moment it ran, stands for that process, if it is *)
(* seen and its creation is dated.                                             *)
LEMMA MatchTrue ==
    ASSUME world \in Worlds, Statics(events), "processes" \in plugins,
           NEW p \in Seen \cap world.dated, NEW t \in 1 .. Now, Runs(world, p, t)
    PROVE  \E i \in Creates : events[i].from = p /\ Match(world.pid[p], t) = {i}
<1>1. AllTold(events) /\ Once(events) /\ Whole(events, "processes")
  BY DEF Statics
<1>2. PICK i \in 1 .. Len(events) : IsCreate(events[i]) /\ events[i].from = p
  BY <1>1 DEF Whole
<1>3. i \in Creates /\ p \in Procs
  BY <1>2, WorldIs DEF Creates, IsCreate
<1>4. \A q \in Procs : world.made[q] \in 1 .. Now /\ world.ended[q] \in 0 .. Now
  BY WorldIs DEF Times
<1>5. Now \in Nat
  BY EnrichAssumption
<1>6. events[i].ts = world.made[p] /\ events[i].ts <= t /\ events[i].pid = world.pid[p]
  BY <1>1, <1>2, <1>3, CreatesAre DEF CreateTime, Runs
<1>7. ASSUME NEW j \in Creates, events[j].pid = world.pid[p], events[j].ts <= t, j # i
      PROVE  events[j].ts \in Nat /\ events[j].ts < events[i].ts
  <2> DEFINE q == events[j].from
  <2>1. q \in Procs /\ q # p /\ world.pid[q] = world.pid[p] /\ events[j].ts = CreateTime(q)
    BY <1>1, <1>2, <1>7, CreatesAre DEF Once
  <2> HIDE DEF q
  <2>2. ~Runs(world, p, world.made[q]) /\ world.made[p] # world.made[q]
    BY <1>3, <2>1, WorldIs DEF Coherent
  <2>3. CASE q \in world.dated
    <3>1. events[j].ts = world.made[q] /\ world.made[q] <= t
      BY <1>7, <2>1, <2>3 DEF CreateTime
    <3>2. CASE world.made[q] < world.made[p]
      BY <1>4, <1>6, <2>1, <3>1, <3>2
    <3>3. CASE world.made[q] > world.made[p]
      <4>1. Runs(world, p, world.made[q])
        BY <1>3, <1>4, <1>5, <2>1, <3>1, <3>3 DEF Runs
      <4> QED BY <2>2, <4>1
    <3> QED BY <1>3, <1>4, <2>1, <2>2, <3>2, <3>3
  <2>4. CASE q \notin world.dated
    BY <1>3, <1>4, <1>6, <2>1, <2>4 DEF CreateTime
  <2> QED BY <2>3, <2>4
<1> DEFINE before == {j \in {j \in Creates : events[j].pid = world.pid[p]} : events[j].ts <= t}
<1>8. Match(world.pid[p], t) =
        {k \in before : \A j \in before : events[j].ts < events[k].ts \/ (events[j].ts = events[k].ts /\ j <= k)}
  BY DEF Match
<1>9. i \in before /\ \A j \in before : j = i \/ (events[j].ts \in Nat /\ events[j].ts < events[i].ts)
  BY <1>3, <1>6, <1>7
<1> HIDE DEF before
<1>10. i \in Nat /\ events[i].ts \in Nat
  BY <1>2, <1>3, <1>4, <1>6
<1>11. Match(world.pid[p], t) = {i}
  <2> DEFINE Top(k) == \A j \in before : events[j].ts < events[k].ts \/ (events[j].ts = events[k].ts /\ j <= k)
  <2>1. Top(i)
    <3> SUFFICES ASSUME NEW j \in before PROVE events[j].ts < events[i].ts \/ (events[j].ts = events[i].ts /\ j <= i)
      OBVIOUS
    <3>1. CASE j = i
      BY <1>10, <3>1
    <3>2. CASE j # i
      BY <1>9, <3>2
    <3> QED BY <3>1, <3>2
  <2>2. ASSUME NEW k \in before, Top(k) PROVE k = i
    <3>1. events[i].ts < events[k].ts \/ events[i].ts = events[k].ts
      BY <1>9, <2>2
    <3> QED BY <1>9, <1>10, <3>1
  <2>3. Match(world.pid[p], t) = {k \in before : Top(k)}
    BY <1>8
  <2> HIDE DEF Top
  <2> QED BY <1>9, <2>1, <2>2, <2>3
<1> QED BY <1>2, <1>3, <1>11

LEMMA MatchIs ==
    ASSUME NEW pid, NEW ts, NEW i \in Match(pid, ts)
    PROVE  i \in Creates /\ (ts # 0 => events[i].ts <= ts)
BY DEF Match

LEMMA HolderIs ==
    ASSUME world \in Worlds, NEW p, Alone(p)
    PROVE  Holder(world.pid[p]) = p
<1> DEFINE is == {i \in 1 .. Len(world.order) : world.pid[world.order[i]] = world.pid[p]}
<1>1. Holder(world.pid[p]) = IF is = {} THEN None ELSE world.order[CHOOSE i \in is : \A j \in is : i >= j]
  BY DEF Holder
<1>2. PICK i \in 1 .. Len(world.order) : world.order[i] = p
  BY WorldIs DEF Alone, Seen, ToSet
<1>3. \A j \in is : world.order[j] = p
  BY WorldIs DEF Alone
<1>4. is = {i}
  <2>1. \A k, l \in 1 .. Len(world.order) : world.order[k] = world.order[l] => k = l
    BY WorldIs DEF Coherent
  <2> QED BY <1>2, <1>3, <2>1
<1> HIDE DEF is
<1>5. (CHOOSE k \in is : \A j \in is : k >= j) = i
  <2>1. Len(world.order) \in Nat
    BY WorldIs
  <2>2. i \in is /\ \A j \in is : i >= j
    BY <1>2, <1>4, <2>1
  <2>3. (CHOOSE k \in is : \A j \in is : k >= j) \in is
    BY <2>2
  <2> QED BY <1>4, <2>3
<1> QED BY <1>1, <1>2, <1>4, <1>5

-----------------------------------------------------------------------------
(* The linking steps. *)

LEMMA UnlinkedIs ==
    ASSUME NEW e, e.owner = None, e.parent = None, e.link = None
    PROVE  TypedLinks(e) /\ OlderSo(e)
BY DEF TypedLinks, OlderSo

LEMMA LinkedIs ==
    ASSUME NEW e, NEW p \in Procs, e.owner = Guid(p), e.parent = None, e.link \in {"definitive", "heuristic"}
    PROVE  TypedLinks(e) /\ OlderSo(e) /\ Linked(e) = p
<1>1. Guid(p) # None /\ Guid(p)[2] = p /\ e.link # None
  BY EnrichAssumption DEF Guid
<1> QED BY <1>1 DEF TypedLinks, OlderSo, Linked

(* What every event gets, and nothing more.                                    *)
LEMMA IdentifiedOk ==
    ASSUME world \in Worlds, LinkInv(events, next), Linking, NEW e, e = Identified(Current)
    PROVE  /\ Typed(e) /\ Kept(e, Current) /\ e.uid = Current.uid /\ e.pid = Current.pid
           /\ e.owner = None /\ e.parent = None /\ e.link = None
           /\ e.obj = Current.obj /\ e.act = Current.act /\ e.plugin = Current.plugin /\ e.from = Current.from
           /\ e.ts = Current.ts
           /\ Fills(e, Current) /\ NameSo(events, next, e) /\ TypedLinks(e) /\ OlderSo(e)
           /\ e.user = IF CanonicalUser(Current) THEN Canonical[Current.uid] ELSE Current.user
<1> DEFINE o == Current
<1>1. Typed(o) /\ Fresh(o) /\ o.obj \in Objects /\ AllTold(events) /\ next \in 1 .. Len(events)
  BY CurrentIs
<1> HIDE DEF o
<1>2. /\ Typed(e) /\ \A c \in Columns \ {"host", "user"} : e[c] = o[c]
      /\ o.host = None \/ e.host = o.host
      /\ e.user = IF CanonicalUser(o) THEN Canonical[o.uid] ELSE o.user
  BY <1>1, IdentifiedIs DEF o
<1>3. /\ Kept(e, o) /\ e.uid = o.uid /\ e.pid = o.pid
      /\ e.owner = o.owner /\ e.parent = o.parent /\ e.link = o.link /\ e.path = o.path
      /\ e.obj = o.obj /\ e.act = o.act /\ e.plugin = o.plugin /\ e.from = o.from /\ e.ts = o.ts
  BY <1>2 DEF Kept, Columns, Filled
<1>4. e.owner = None /\ e.parent = None /\ e.link = None
  BY <1>1, <1>3 DEF Fresh
<1>5. Fills(e, o)
  BY <1>2, <1>3 DEF Fills, Filled, CanonicalUser
<1>6. TypedLinks(e) /\ OlderSo(e)
  BY <1>4, UnlinkedIs
<1>7. NameSo(events, next, e)
  <2>1. \A j \in Creates : events[j].guid # None
    <3>1. \A p \in Procs : Guid(p) # None
      BY EnrichAssumption DEF Guid
    <3>2. \A j \in Creates : events[j].guid = Guid(events[j].from) /\ events[j].from \in Procs
      BY <1>1, CreatesAre
    <3> QED BY <3>1, <3>2
  <2>2. \A j \in 1 .. Len(events) : IsCreate(events[j]) => j \in Creates
    BY DEF IsCreate, Creates
  <2>3. OwnSid(e) => o.obj \in {"process", "user_session"}
    BY <1>3 DEF OwnSid
  <2>4. ASSUME e.uid \in WellKnown, OwnSid(e) PROVE e.user = Canonical[e.uid]
    BY <1>1, <1>2, <1>3, <2>3, <2>4, FieldsIs DEF CanonicalUser
  <2> QED BY <1>4, <2>1, <2>2, <2>4 DEF NameSo
<1> QED BY <1>1, <1>2, <1>3, <1>4, <1>5, <1>6, <1>7 DEF o

(* What an event gets that is linked to the creation i.                        *)
LEMMA OwnedOk ==
    ASSUME world \in Worlds, LinkInv(events, next), Linking,
           Current.obj # "process" \/ Current.act = "access",
           NEW i \in Creates, Current.obj = "user_session" => events[i].from = Current.from,
           NEW how \in {"definitive", "heuristic"}, NEW e, e = Owned(Identified(Current), i, how)
    PROVE  /\ Typed(e) /\ Kept(e, Current) /\ ~IsCreate(e)
           /\ e.obj = Current.obj /\ e.plugin = Current.plugin /\ e.from = Current.from /\ e.ts = Current.ts
           /\ TypedLinks(e) /\ OlderSo(e) /\ ParentSo(e) /\ NameSo(events, next, e) /\ Fills(e, Current)
           /\ Linked(e) = events[i].from /\ e.link = how
<1> DEFINE o == Current
           d == Identified(o)
<1>1. Typed(o) /\ Fresh(o) /\ o.obj \in Objects /\ AllTold(events) /\ next \in 1 .. Len(events)
  BY CurrentIs
<1>2. /\ Typed(d) /\ Kept(d, o) /\ d.uid = o.uid /\ d.owner = None /\ d.parent = None /\ d.link = None
      /\ d.obj = o.obj /\ d.act = o.act /\ d.plugin = o.plugin /\ d.from = o.from /\ d.ts = o.ts
      /\ Fills(d, o)
      /\ d.user = IF CanonicalUser(o) THEN Canonical[o.uid] ELSE o.user
  BY IdentifiedOk
<1>3. /\ events[i].from \in Procs /\ Typed(events[i]) /\ ToldProcess(events[i]) /\ IsCreate(events[i])
      /\ events[i].guid = Guid(events[i].from) /\ i \in 1 .. Len(events)
  BY <1>1, CreatesAre
<1> HIDE DEF o, d
<1>4. e = Owned(d, i, how)
  BY DEF d, o
<1>5. /\ Typed(e) /\ e.owner = events[i].guid /\ e.link = how
      /\ \A c \in Columns \ {"owner", "link", "user", "uid", "path", "host"} : e[c] = d[c]
      /\ \A c \in {"user", "uid", "path", "host"} :
           e[c] = IF c \in Fields(d.obj) /\ d[c] = None THEN events[i][c] ELSE d[c]
  BY <1>1, <1>2, <1>3, <1>4, OwnedIs
<1>6. Kept(e, o)
  BY <1>2, <1>5 DEF Kept, Columns, Filled
<1>7. e.obj = o.obj /\ e.act = o.act /\ e.plugin = o.plugin /\ e.from = o.from /\ e.ts = o.ts /\ e.parent = None
  BY <1>2, <1>5 DEF Columns
<1>8. ~IsCreate(e) /\ ~IsCreate(o)
  BY <1>7 DEF IsCreate, o
<1>9. TypedLinks(e) /\ OlderSo(e) /\ Linked(e) = events[i].from
  BY <1>3, <1>5, <1>7, LinkedIs
<1>10. Fills(e, o)
  <2>1. \A c \in Filled : d[c] = None \/ e[c] = d[c]
    BY <1>2, <1>5, <1>7 DEF Filled
  <2>2. o.uid \in WellKnown => Canonical[o.uid] # None
    BY EnrichAssumption
  <2> QED BY <1>2, <2>1, <2>2 DEF Fills, Filled
<1>11. NameSo(events, next, e)
  <2>1. CASE o.obj = "user_session"
    <3>1. o.uid = world.sid[o.from] /\ events[i].uid = world.sid[o.from]
      BY <1>1, <1>3, <2>1 DEF Fresh, ToldProcess, o
    <3>2. e.uid = o.uid
      BY <1>2, <1>5, <3>1
    <3>3. "user" \in Fields(o.obj)
      BY <1>1, <2>1, FieldsIs
    <3>4. ASSUME e.uid \in WellKnown PROVE e.user = Canonical[e.uid]
      <4>1. d.user = Canonical[o.uid] /\ d.user # None
        BY <1>2, <3>2, <3>3, <3>4, EnrichAssumption DEF CanonicalUser
      <4> QED BY <1>5, <3>2, <4>1
    <3> QED BY <3>4 DEF NameSo
  <2>2. CASE o.obj # "user_session"
    <3>1. ~OwnSid(o) /\ ~OwnSid(e)
      BY <1>7, <2>2 DEF OwnSid, o
    <3>2. o.uid = None /\ o.user = None
      BY <1>1, <3>1 DEF Fresh
    <3>3. d.user = None /\ d.uid = None
      BY <1>2, <3>2, EnrichAssumption DEF CanonicalUser
    <3> SUFFICES ASSUME e.uid \in WellKnown,
                        NEW j \in 1 .. Len(events), IsCreate(events[j]), j < next, events[j].guid = e.owner
                 PROVE  e.user = Canonical[e.uid]
      BY <3>1 DEF NameSo
    <3>4. e.uid = events[i].uid /\ "uid" \in Fields(o.obj)
      BY <1>2, <1>5, <3>3, EnrichAssumption
    <3>5. e.user = events[i].user
      BY <1>1, <1>2, <1>5, <3>3, <3>4, FieldsIs
    <3>6. j = i
      <4>1. j \in Creates
        BY DEF Creates, IsCreate
      <4>2. events[j].from = events[i].from
        BY <1>1, <1>3, <1>5, <4>1, CreatesAre DEF Guid
      <4> QED BY <1>3, <4>2 DEF LinkInv, Statics, Once
    <3>7. NameSo(events, i, events[i])
      BY <1>1, <1>3, <3>6 DEF LinkInv
    <3>8. OwnSid(events[i])
      BY <1>3 DEF OwnSid, IsCreate
    <3> QED BY <3>4, <3>5, <3>7, <3>8 DEF NameSo
  <2> QED BY <2>1, <2>2
<1>12. ParentSo(e)
  BY <1>8 DEF ParentSo
<1> QED BY <1>5, <1>6, <1>7, <1>8, <1>9, <1>10, <1>11, <1>12 DEF o

LEMMA LinkRegistryOk ==
    ASSUME world \in Worlds, LinkInv(events, next), LinkRegistry
    PROVE  \E e : Becomes(e) /\ LinkOk(e)
<1> DEFINE o == Current
           d == Identified(o)
           e == IF d.user = None /\ d.plugin = "registry" /\ d.row.says = "sidhive"
                  THEN [d EXCEPT !.user = ProfileUser(d.row.sid)] ELSE d
<1>1. Becomes(e) /\ o.obj = "registry" /\ Linking
  BY DEF LinkRegistry
<1>2. Typed(o) /\ Told(o) /\ Fresh(o) /\ AllTold(events) /\ o.obj \in Objects
  BY <1>1, CurrentIs
<1>3. /\ Typed(d) /\ Kept(d, o) /\ d.uid = o.uid /\ d.owner = None /\ d.parent = None /\ d.link = None
      /\ d.obj = o.obj /\ d.act = o.act /\ d.plugin = o.plugin /\ d.from = o.from /\ d.ts = o.ts
      /\ Fills(d, o)
  BY <1>1, IdentifiedOk
<1> HIDE DEF o, d
<1>4. o.uid = None /\ o.user = None
  BY <1>1, <1>2 DEF Fresh, OwnSid
<1>5. Typed(e) /\ e.uid = o.uid /\ \A c \in Columns \ {"user"} : e[c] = d[c]
  <2>1. CASE e = d
    BY <1>3, <2>1
  <2>2. CASE e = [d EXCEPT !.user = ProfileUser(d.row.sid)]
    <3>1. ProfileUser(d.row.sid) \in Blankable(Users)
      BY <1>2, ProfileIs
    <3> HIDE DEF e
    <3>2. IsEvent(e) /\ e.user = ProfileUser(d.row.sid) /\ \A c \in Columns \ {"user"} : e[c] = d[c]
      BY <1>3, <2>2 DEF Typed, IsEvent, Columns
    <3>3. Typed(e)
      BY <1>3, <3>1, <3>2 DEF Typed, Columns
    <3> QED BY <1>3, <3>2, <3>3 DEF Columns
  <2> QED BY <2>1, <2>2
<1> HIDE DEF e
<1>6. Kept(e, o)
  BY <1>3, <1>5 DEF Kept, Columns, Filled
<1>7. /\ e.owner = None /\ e.parent = None /\ e.link = None
      /\ e.obj = "registry" /\ e.plugin = o.plugin
  BY <1>1, <1>3, <1>5 DEF Columns
<1>8. TypedLinks(e) /\ OlderSo(e) /\ ParentSo(e) /\ ~IsCreate(e)
  BY <1>7, UnlinkedIs DEF ParentSo, IsCreate
<1>9. NameSo(events, next, e)
  BY <1>4, <1>5, EnrichAssumption DEF NameSo
<1>10. Fills(e, o)
  BY <1>3, <1>4, <1>5 DEF Fills, Filled, Columns
<1>11. OwnerSo(e)
  BY <1>1, <1>2, <1>7 DEF OwnerSo, ListedSpoke, Spokes, Told, ToldConn, ToldService
<1> QED BY <1>1, <1>5, <1>6, <1>8, <1>9, <1>10, <1>11 DEF LinkOk, o

LEMMA LinkAccessOk ==
    ASSUME world \in Worlds, LinkInv(events, next), LinkAccess
    PROVE  \E e : Becomes(e) /\ LinkOk(e)
<1> DEFINE o == Current
           d == Identified(o)
<1>1. Linking /\ o.obj = "process" /\ o.act = "access"
  BY DEF LinkAccess
<1>2. Told(o)
  BY <1>1, CurrentIs
<1>3. ASSUME NEW e, e.obj = "process", e.plugin = o.plugin PROVE OwnerSo(e)
  BY <1>1, <1>2, <1>3 DEF OwnerSo, ListedSpoke, Spokes, Told, ToldConn, ToldService
<1>4. CASE \E i \in AtOffset(d.ooff) : Becomes(Owned(d, i, "definitive"))
  <2>1. PICK i \in AtOffset(d.ooff) : Becomes(Owned(d, i, "definitive"))
    BY <1>4
  <2>2. i \in Creates
    BY DEF AtOffset
  <2> DEFINE e == Owned(d, i, "definitive")
  <2>3. /\ Typed(e) /\ Kept(e, o) /\ ~IsCreate(e) /\ e.obj = o.obj /\ e.plugin = o.plugin
        /\ TypedLinks(e) /\ OlderSo(e) /\ ParentSo(e) /\ NameSo(events, next, e) /\ Fills(e, o)
    BY <1>1, <2>2, OwnedOk
  <2> HIDE DEF e
  <2>4. OwnerSo(e)
    BY <1>1, <1>3, <2>3
  <2>5. LinkOk(e)
    BY <2>3, <2>4 DEF LinkOk
  <2> QED BY <2>1, <2>5 DEF e
<1>5. CASE Becomes(d)
  <2>1. /\ Typed(d) /\ Kept(d, o) /\ d.uid = o.uid /\ d.obj = o.obj /\ d.act = o.act /\ d.plugin = o.plugin
        /\ TypedLinks(d) /\ OlderSo(d) /\ NameSo(events, next, d) /\ Fills(d, o)
    BY <1>1, IdentifiedOk
  <2>2. OwnerSo(d)
    BY <1>1, <1>3, <2>1
  <2>3. ParentSo(d)
    BY <1>1, <2>1 DEF ParentSo, IsCreate
  <2> QED BY <1>5, <2>1, <2>2, <2>3 DEF LinkOk
<1> QED BY <1>4, <1>5 DEF LinkAccess

LEMMA LinkProcessOk ==
    ASSUME world \in Worlds, userByPID \in [PIDs -> Blankable(Users)], LinkInv(events, next), LinkProcess
    PROVE  \E e : Becomes(e) /\ LinkOk(e)
<1> DEFINE o == Current
           d == Identified(o)
           n == Named(d)
           parents == (IF n.ppid = None THEN {} ELSE Match(n.ppid, n.ts)) \ {next}
<1>1. Linking /\ o.obj = "process" /\ o.act # "access"
  BY DEF LinkProcess
<1>2. \/ \E i \in parents : Becomes([n EXCEPT !.parent = events[i].guid, !.link = "heuristic"])
      \/ parents = {} /\ Becomes(n)
  BY DEF LinkProcess
<1>3. Typed(o) /\ Told(o) /\ Fresh(o) /\ AllTold(events) /\ o.obj \in Objects /\ next \in 1 .. Len(events)
  BY <1>1, CurrentIs
<1>4. /\ Typed(d) /\ Kept(d, o) /\ d.uid = o.uid /\ d.pid = o.pid
      /\ d.owner = None /\ d.parent = None /\ d.link = None
      /\ d.obj = o.obj /\ d.act = o.act /\ d.plugin = o.plugin /\ d.from = o.from /\ d.ts = o.ts
      /\ Fills(d, o) /\ NameSo(events, next, d)
  BY <1>1, IdentifiedOk
<1> HIDE DEF o, d, parents
<1>5. Typed(n) /\ (\A c \in Columns \ {"user"} : n[c] = d[c]) /\ (d.user # None => n.user = d.user)
  <2>1. CASE n = d
    BY <1>4, <2>1
  <2>2. CASE n = [d EXCEPT !.user = userByPID[d.pid]] /\ d.user = None /\ d.pid # None
    <3>1. userByPID[d.pid] \in Blankable(Users)
      BY <1>4, <2>2 DEF Typed, Blankable
    <3> HIDE DEF n
    <3>2. IsEvent(n) /\ n.user = userByPID[d.pid] /\ \A c \in Columns \ {"user"} : n[c] = d[c]
      BY <1>4, <2>2 DEF Typed, IsEvent, Columns
    <3>3. Typed(n)
      BY <1>4, <3>1, <3>2 DEF Typed, Columns
    <3> QED BY <2>2, <3>2, <3>3
  <2> QED BY <2>1, <2>2 DEF Named
<1> HIDE DEF n
<1>6. /\ Kept(n, o) /\ n.uid = o.uid /\ n.owner = None /\ n.parent = None /\ n.link = None
      /\ n.obj = "process" /\ n.act = o.act /\ n.plugin = o.plugin /\ n.from = o.from /\ n.ts = o.ts
      /\ n.ppid = o.ppid
  BY <1>1, <1>4, <1>5 DEF Kept, Columns, Filled
<1>7. Fills(n, o)
  <2>1. \A f \in Filled : d[f] = None \/ n[f] = d[f]
    BY <1>5 DEF Filled, Columns
  <2>2. o.uid \in WellKnown => Canonical[o.uid] # None
    BY EnrichAssumption
  <2> QED BY <1>4, <2>1, <2>2 DEF Fills, Filled
<1>8. o.uid \in WellKnown => n.user = Canonical[o.uid]
  <2>1. ASSUME o.uid \in WellKnown PROVE d.user = Canonical[o.uid]
    BY <1>1, <1>4, <2>1 DEF NameSo, OwnSid
  <2> QED BY <1>5, <2>1, EnrichAssumption
<1>9. ASSUME NEW e, e.uid = o.uid, e.user = n.user PROVE NameSo(events, next, e)
  BY <1>8, <1>9 DEF NameSo
<1>10. ASSUME NEW e, e.obj = "process", e.plugin = o.plugin PROVE OwnerSo(e)
  BY <1>1, <1>3, <1>10 DEF OwnerSo, ListedSpoke, Spokes, Told, ToldConn, ToldService
(* The creation of a process finds its true parent among the candidates.       *)
<1>11. ASSUME IsCreate(o), world.parent[o.from] \in Seen \cap world.dated, o.from \in world.dated
       PROVE  \E i \in Creates : events[i].guid = Guid(world.parent[o.from]) /\ parents = {i}
  <2> DEFINE p == o.from
             q == world.parent[p]
  <2>1. "processes" \in plugins /\ p \in Procs /\ q \in Procs /\ o.ts = world.made[p]
        /\ o.ppid = world.pid[q] /\ q # None /\ p \in Seen
    <3>1. ToldProcess(o) /\ o.plugin \in plugins
      BY <1>3 DEF Told
    <3>2. p \in Procs /\ q \in Procs
      BY <1>11, <3>1, WorldIs DEF ToldProcess
    <3>3. q # None
      BY <3>2, EnrichAssumption
    <3> QED BY <1>11, <3>1, <3>2, <3>3 DEF ToldProcess, CreateTime, ParentPID
  <2>2. Runs(world, q, world.made[p]) /\ q # p /\ world.made[p] \in 1 .. Now
    BY <2>1, WorldIs DEF Coherent
  <2>3. Statics(events) /\ q \in Seen \cap world.dated
    BY <1>11 DEF LinkInv
  <2> HIDE DEF p, q
  <2>4. PICK i \in Creates : events[i].from = q /\ Match(world.pid[q], world.made[p]) = {i}
    BY <2>1, <2>2, <2>3, MatchTrue
  <2>5. i # next
    BY <2>2, <2>4 DEF p, o, Current
  <2>6. n.ppid # None
    BY <1>6, <2>1, WorldIs, EnrichAssumption
  <2>7. parents = {i}
    BY <1>6, <2>1, <2>4, <2>5, <2>6 DEF parents
  <2>8. events[i].guid = Guid(q)
    BY <1>3, <2>4, CreatesAre
  <2> QED BY <2>7, <2>8 DEF q, p
<1>12. ASSUME NEW i \in parents, Becomes([n EXCEPT !.parent = events[i].guid, !.link = "heuristic"])
       PROVE  \E e : Becomes(e) /\ LinkOk(e)
  <2> DEFINE e == [n EXCEPT !.parent = events[i].guid, !.link = "heuristic"]
  <2>1. IsEvent(e) /\ e.parent = events[i].guid /\ e.link = "heuristic"
        /\ \A c \in Columns \ {"parent", "link"} : e[c] = n[c]
    BY <1>5 DEF Typed, IsEvent, Columns
  <2> HIDE DEF e
  <2>2. i \in Creates /\ (n.ts # 0 => events[i].ts <= n.ts)
    BY <1>12, MatchIs DEF parents
  <2>3. events[i].guid = Guid(events[i].from) /\ events[i].from \in Procs
        /\ events[i].ts = CreateTime(events[i].from)
    BY <1>3, <2>2, CreatesAre
  <2>4. Typed(e) /\ Kept(e, o)
    BY <1>5, <1>6, <2>1 DEF Typed, Kept, Columns, Filled
  <2>5. e.uid = o.uid /\ e.user = n.user /\ e.obj = "process" /\ e.plugin = o.plugin /\ e.act = o.act
        /\ e.owner = None /\ e.ts = n.ts /\ e.from = o.from
    BY <1>6, <2>1 DEF Columns
  <2>6. TypedLinks(e) /\ OlderSo(e)
    <3>1. e.link # None /\ e.parent # None /\ e.parent[2] = events[i].from
      BY <2>1, <2>3, EnrichAssumption DEF Guid
    <3> QED BY <2>1, <2>2, <2>3, <2>5, <3>1 DEF TypedLinks, OlderSo
  <2>7. ParentSo(e)
    <3>1. IsCreate(e) => IsCreate(o)
      BY <1>1, <2>5 DEF IsCreate
    <3>2. ASSUME IsCreate(o), world.parent[o.from] \in Seen \cap world.dated, o.from \in world.dated
          PROVE  events[i].guid = Guid(world.parent[o.from])
      BY <1>11, <1>12, <3>2
    <3> QED BY <2>1, <2>5, <3>1, <3>2 DEF ParentSo
  <2>8. Fills(e, o)
    <3>1. \A f \in Filled \ {"parent"} : e[f] = n[f]
      BY <2>1 DEF Filled, Columns
    <3>2. o.parent = None
      BY <1>3 DEF Fresh
    <3> QED BY <1>7, <3>1, <3>2 DEF Fills, Filled
  <2>9. OwnerSo(e) /\ NameSo(events, next, e)
    BY <1>9, <1>10, <2>5
  <2>10. LinkOk(e)
    BY <2>4, <2>5, <2>6, <2>7, <2>8, <2>9 DEF LinkOk, o
  <2> QED BY <1>12, <2>10 DEF e
<1>13. ASSUME parents = {}, Becomes(n) PROVE \E e : Becomes(e) /\ LinkOk(e)
  <2>1. TypedLinks(n) /\ OlderSo(n)
    BY <1>6, UnlinkedIs
  <2>2. ParentSo(n)
    <3>1. IsCreate(n) => IsCreate(o)
      BY <1>1, <1>6 DEF IsCreate
    <3> QED BY <1>6, <1>11, <1>13, <3>1 DEF ParentSo
  <2>3. OwnerSo(n) /\ NameSo(events, next, n)
    BY <1>6, <1>9, <1>10
  <2>4. LinkOk(n)
    BY <1>5, <1>6, <1>7, <2>1, <2>2, <2>3 DEF LinkOk, o
  <2> QED BY <1>13, <2>4
<1> QED BY <1>2, <1>12, <1>13

(* What is said of an event finds its process, as far as OwnerTrue asks.       *)
LEMMA OwnersFound ==
    ASSUME world \in Worlds, Statics(events), "processes" \in plugins, NEW o, Typed(o), Told(o),
           NEW p, p = IF o.from \in Conns THEN world.by[o.from] ELSE o.from
    PROVE  /\ ListedSpoke(o) =>
                /\ p \in Seen /\ o.ooff # None
                /\ \E i \in Creates : /\ events[i].from \in Seen /\ AtOffset(o.ooff) = {i}
                                      /\ world.pid[events[i].from] = world.pid[p]
           /\ o.obj = "user_session" =>
                o.from = p /\ o.ooff # None /\ \E i \in Creates : events[i].from = p /\ AtOffset(o.ooff) = {i}
           /\ o.plugin = "netstat" /\ o.ts # 0 /\ p \in Seen \cap world.dated =>
                o.ooff = None /\ o.opid # None /\ \E i \in Creates : events[i].from = p /\ Match(o.opid, o.ts) = {i}
           /\ o.plugin \in {"network", "svcscan"} /\ Alone(p) =>
                o.ooff # None /\ \E i \in Creates : events[i].from = p /\ AtOffset(o.ooff) = {i}
<1>1. \A q \in Procs : q \notin Conns /\ q # None /\ world.pid[q] # None
  BY WorldIs, EnrichAssumption
<1>2. ASSUME ListedSpoke(o)
      PROVE  /\ p \in Seen /\ o.ooff # None
             /\ \E i \in Creates : /\ events[i].from \in Seen /\ AtOffset(o.ooff) = {i}
                                   /\ world.pid[events[i].from] = world.pid[p]
  <2>1. o.from \in Seen /\ o.ooff \in Seen /\ world.pid[o.from] = world.pid[o.ooff]
    BY <1>2 DEF Told, ToldSpoke
  <2>2. o.from \in Procs /\ o.ooff \in Procs /\ o.from = p
    BY <1>1, <2>1, WorldIs
  <2>3. \E i \in Creates : events[i].from = o.ooff /\ AtOffset(o.ooff) = {i}
    BY <2>1, AtOffsetIs
  <2> QED BY <1>1, <2>1, <2>2, <2>3
<1>2a. ASSUME o.obj = "user_session"
       PROVE  o.from = p /\ o.ooff # None /\ \E i \in Creates : events[i].from = p /\ AtOffset(o.ooff) = {i}
  <2>1. o.from \in Seen /\ o.ooff = o.from
    BY <1>2a DEF Told, ToldSpoke
  <2>2. o.from \in Procs /\ o.from = p
    BY <1>1, <2>1, WorldIs
  <2> QED BY <1>1, <2>1, <2>2, AtOffsetIs
<1>3. ASSUME o.plugin = "netstat", o.ts # 0, p \in Seen \cap world.dated
      PROVE  o.ooff = None /\ o.opid # None /\ \E i \in Creates : events[i].from = p /\ Match(o.opid, o.ts) = {i}
  <2>1. ToldConn(o)
    BY DEF Told
  <2>2. o.from \in Conns /\ p = world.by[o.from] /\ o.opid = world.pid[p] /\ o.ooff = None
        /\ o.ts = world.opened[o.from]
    BY <1>3, <2>1 DEF ToldConn
  <2>3. Runs(world, p, o.ts) /\ o.ts \in 1 .. Now /\ p \in Procs
    BY <2>2, WorldIs DEF Coherent
  <2>4. \E i \in Creates : events[i].from = p /\ Match(world.pid[p], o.ts) = {i}
    BY <1>3, <2>3, MatchTrue
  <2> QED BY <1>1, <2>2, <2>3, <2>4
<1>4. ASSUME o.plugin \in {"network", "svcscan"}, Alone(p)
      PROVE  o.ooff # None /\ \E i \in Creates : events[i].from = p /\ AtOffset(o.ooff) = {i}
  <2>1. o.opid = world.pid[p] /\ o.ooff = Holder(o.opid)
    <3>1. CASE o.plugin = "network"
      BY <3>1 DEF Told, ToldConn
    <3>2. CASE o.plugin = "svcscan"
      <4>1. o.from \in Procs
        BY <3>2, WorldIs DEF Told, ToldService
      <4> QED BY <1>1, <3>2, <4>1 DEF Told, ToldService
    <3> QED BY <1>4, <3>1, <3>2
  <2>2. o.ooff = p
    BY <1>4, <2>1, HolderIs
  <2>3. p \in Seen /\ p \in Procs
    BY <1>4, WorldIs DEF Alone
  <2> QED BY <1>1, <2>2, <2>3, AtOffsetIs
<1> QED BY <1>2, <1>2a, <1>3, <1>4

LEMMA LinkSpokeOk ==
    ASSUME world \in Worlds, LinkInv(events, next), LinkSpoke
    PROVE  \E e : Becomes(e) /\ LinkOk(e)
<1> DEFINE o == Current
           d == Identified(o)
           p == IF o.from \in Conns THEN world.by[o.from] ELSE o.from
           here == IF d.ooff = None THEN {} ELSE AtOffset(d.ooff)
           then == IF d.opid = None THEN {} ELSE Match(d.opid, d.ts)
           said == IF o.ooff = None THEN {} ELSE AtOffset(o.ooff)
           stood == IF o.opid = None THEN {} ELSE Match(o.opid, o.ts)
           Listing == ListedSpoke(o)
           Logon == o.obj = "user_session"
           Dated == o.plugin = "netstat" /\ o.ts # 0 /\ p \in Seen \cap world.dated
           Single == o.plugin \in {"network", "svcscan"} /\ Alone(p)
<1>1. Linking /\ o.obj \notin {"registry", "process"}
  BY DEF LinkSpoke
<1>2. \/ \E i \in here : Becomes(Owned(d, i, "definitive"))
      \/ here = {} /\ \E i \in then : Becomes(Owned(d, i, "heuristic"))
      \/ here = {} /\ then = {} /\ Becomes(d)
  BY DEF LinkSpoke
<1>3. Typed(o) /\ Told(o) /\ Fresh(o) /\ AllTold(events) /\ o.obj \in Objects /\ Statics(events)
  BY <1>1, CurrentIs DEF LinkInv
<1>4. /\ Typed(d) /\ Kept(d, o) /\ d.uid = o.uid /\ d.obj = o.obj /\ d.act = o.act /\ d.plugin = o.plugin
      /\ d.from = o.from /\ d.ts = o.ts
      /\ TypedLinks(d) /\ OlderSo(d) /\ NameSo(events, next, d) /\ Fills(d, o)
  BY <1>1, IdentifiedOk
<1>5. here = said /\ then = stood
  BY <1>4 DEF Kept, Columns, Filled
<1>6. ASSUME "processes" \in plugins
      PROVE  /\ Listing => /\ p \in Seen
                           /\ \E i \in Creates : /\ events[i].from \in Seen /\ said = {i}
                                                 /\ world.pid[events[i].from] = world.pid[p]
             /\ Logon => o.from = p /\ \E i \in Creates : events[i].from = p /\ said = {i}
             /\ Dated => said = {} /\ \E i \in Creates : events[i].from = p /\ stood = {i}
             /\ Single => \E i \in Creates : events[i].from = p /\ said = {i}
  BY <1>3, <1>6, OwnersFound
<1>7. (said \cup stood) \subseteq Creates
  BY DEF AtOffset, Match
<1>8. said \cup stood # {} => "processes" \in plugins
  <2>1. ASSUME NEW i \in Creates PROVE "processes" \in plugins
    BY <1>3 DEF Creates, IsCreate, AllTold, Told, ToldProcess
  <2> QED BY <1>7, <2>1
<1>9. (o.obj = "user_session") = Logon
  OBVIOUS
<1>10. ASSUME NEW e, e.obj = o.obj, e.plugin = o.plugin, e.from = o.from, e.ts = o.ts,
              "processes" \in plugins =>
                /\ Listing => /\ p \in Seen /\ Linked(e) \in Seen /\ world.pid[Linked(e)] = world.pid[p]
                              /\ e.link = "definitive"
                /\ Logon => Linked(e) = p /\ e.link = "definitive"
                /\ Dated => Linked(e) = p
                /\ Single => Linked(e) = p /\ e.link = "definitive"
       PROVE  OwnerSo(e)
  <2>1. ListedSpoke(e) = Listing
    BY <1>10 DEF ListedSpoke
  <2> QED BY <1>10, <2>1 DEF OwnerSo, Alone
<1> HIDE DEF o, d, p, here, then, said, stood, Listing, Logon, Dated, Single
<1>11. ASSUME NEW i \in said, Becomes(Owned(d, i, "definitive")) PROVE \E e : Becomes(e) /\ LinkOk(e)
  <2> DEFINE e == Owned(d, i, "definitive")
  <2>1. i \in Creates /\ "processes" \in plugins
    BY <1>7, <1>8
  <2>2. o.obj = "user_session" => events[i].from = o.from
    BY <1>6, <1>9, <2>1
  <2>3. /\ Typed(e) /\ Kept(e, o) /\ ~IsCreate(e)
        /\ e.obj = o.obj /\ e.plugin = o.plugin /\ e.from = o.from /\ e.ts = o.ts
        /\ TypedLinks(e) /\ OlderSo(e) /\ ParentSo(e) /\ NameSo(events, next, e) /\ Fills(e, o)
        /\ Linked(e) = events[i].from /\ e.link = "definitive"
    BY <1>1, <2>1, <2>2, OwnedOk DEF o, d
  <2> HIDE DEF e
  <2>4. OwnerSo(e)
    BY <1>6, <1>10, <2>1, <2>3
  <2>5. LinkOk(e)
    BY <2>3, <2>4 DEF LinkOk, o
  <2> QED BY <1>11, <2>5 DEF e
<1>12. ASSUME said = {}, NEW i \in stood, Becomes(Owned(d, i, "heuristic")) PROVE \E e : Becomes(e) /\ LinkOk(e)
  <2> DEFINE e == Owned(d, i, "heuristic")
  <2>1. i \in Creates /\ "processes" \in plugins
    BY <1>7, <1>8
  <2>2. ~Listing /\ ~Logon /\ ~Single
    BY <1>6, <1>12, <2>1
  <2>3. /\ Typed(e) /\ Kept(e, o) /\ ~IsCreate(e)
        /\ e.obj = o.obj /\ e.plugin = o.plugin /\ e.from = o.from /\ e.ts = o.ts
        /\ TypedLinks(e) /\ OlderSo(e) /\ ParentSo(e) /\ NameSo(events, next, e) /\ Fills(e, o)
        /\ Linked(e) = events[i].from
    BY <1>1, <1>9, <2>1, <2>2, OwnedOk DEF o, d
  <2> HIDE DEF e
  <2>4. OwnerSo(e)
    BY <1>6, <1>10, <2>1, <2>2, <2>3
  <2>5. LinkOk(e)
    BY <2>3, <2>4 DEF LinkOk, o
  <2> QED BY <1>12, <2>5 DEF e
<1>13. ASSUME said = {}, stood = {}, Becomes(d) PROVE \E e : Becomes(e) /\ LinkOk(e)
  <2>1. OwnerSo(d)
    BY <1>4, <1>6, <1>10, <1>13
  <2>2. ParentSo(d)
    BY <1>1, <1>4 DEF ParentSo, IsCreate
  <2>3. LinkOk(d)
    BY <1>4, <2>1, <2>2 DEF LinkOk, o
  <2> QED BY <1>13, <2>3
<1> QED BY <1>2, <1>5, <1>11, <1>12, <1>13

(* One event is linked: the others stay, and all it was known by.              *)
LEMMA LinkStep ==
    ASSUME world \in Worlds, LinkInv(events, next), Linking, NEW e, Becomes(e), LinkOk(e)
    PROVE  LinkInv(events', next')
<1> DEFINE s == events
           t == events'
           n == next
           Id == {"obj", "act", "plugin", "guid", "from", "ts", "pid", "ppid", "opid", "ooff", "off",
                  "target", "row", "created"}
<1>1. /\ n \in 1 .. Len(s) /\ Len(s) \in Nat /\ AllTold(s) /\ Typed(Current) /\ Told(Current)
      /\ Statics(s)
  BY CurrentIs DEF LinkInv
<1>2. t = [s EXCEPT ![n] = e] /\ next' = n + 1 /\ Current = s[n]
  BY DEF Becomes, Current
<1>3. DOMAIN s = 1 .. Len(s)
  BY <1>1, ListIs DEF AllTold
<1>4. \A f \in Id : e[f] = s[n][f]
  BY <1>2 DEF LinkOk, Kept, Columns, Filled
<1> HIDE DEF t, s, n
<1>5. IsList(t) /\ Len(t) = Len(s) /\ t[n] = e /\ \A i \in 1 .. Len(s) : i # n => t[i] = s[i]
  <2>1. t = [i \in 1 .. Len(s) |-> t[i]] /\ t[n] = e /\ \A i \in 1 .. Len(s) : i # n => t[i] = s[i]
    BY <1>1, <1>2, <1>3
  <2> QED BY <1>1, <2>1, FunIsList
<1>6. \A i \in 1 .. Len(s) : \A f \in Id : t[i][f] = s[i][f]
  BY <1>4, <1>5
<1>7. \A i \in 1 .. Len(s) :
        /\ t[i].obj = s[i].obj /\ t[i].act = s[i].act /\ t[i].guid = s[i].guid /\ t[i].from = s[i].from
        /\ t[i].ts = s[i].ts
  BY <1>6
<1>8. \A i \in 1 .. Len(s) : IsCreate(t[i]) = IsCreate(s[i]) /\ IsSession(t[i]) = IsSession(s[i])
  BY <1>7 DEF IsCreate, IsSession
<1>9. Typed(e) /\ Told(e)
  <2> DEFINE o == s[n]
  <2>1. Told(o)
    BY <1>1, <1>2
  <2>2. /\ e.obj = o.obj /\ e.act = o.act /\ e.plugin = o.plugin /\ e.guid = o.guid /\ e.from = o.from
        /\ e.ts = o.ts /\ e.pid = o.pid /\ e.ppid = o.ppid /\ e.opid = o.opid /\ e.ooff = o.ooff
        /\ e.off = o.off /\ e.target = o.target /\ e.row = o.row /\ e.created = o.created
    BY <1>4
  <2>3. IsCreate(e) => e.uid = o.uid
    BY <1>2 DEF LinkOk
  <2> HIDE DEF o
  <2>4. ToldProcess(e)
    BY <2>1, <2>2, <2>3 DEF Told, ToldProcess, IsCreate
  <2>5. ToldSpoke(e) /\ ToldLogin(e) /\ ToldConn(e) /\ ToldService(e) /\ ToldRow(e)
    BY <2>1, <2>2 DEF Told, ToldSpoke, ListedSpoke, Spokes,
      ToldLogin, ToldConn, ToldService, ToldRow
  <2>6. Told(e)
    BY <2>1, <2>2, <2>4, <2>5 DEF Told
  <2> QED BY <2>6 DEF LinkOk
<1>10. AllTold(t)
  BY <1>1, <1>5, <1>9 DEF AllTold
<1>11. Once(t)
  BY <1>1, <1>5, <1>7, <1>8 DEF Statics, Once
<1>12. "processes" \in plugins => Whole(t, "processes")
  <2> SUFFICES ASSUME "processes" \in plugins, NEW p \in Seen
               PROVE  \E i \in 1 .. Len(t) : IsCreate(t[i]) /\ t[i].from = p
    BY DEF Whole
  <2>1. PICK i \in 1 .. Len(s) : IsCreate(s[i]) /\ s[i].from = p
    BY <1>1 DEF Statics, Whole
  <2> QED BY <1>5, <1>7, <1>8, <2>1
<1>13. Logins(t)
  <2>1. Logins(s)
    BY <1>1 DEF Statics
  <2>2. \A i \in 1 .. Len(t) : IsSession(t[i]) => t[i].guid # None /\ Earliest(t[i])
    BY <1>5, <1>7, <1>8, <2>1 DEF Logins, Earliest
  <2>3. \A i, j \in 1 .. Len(t) : IsSession(t[i]) /\ IsSession(t[j]) /\ t[i].guid = t[j].guid => i = j
    <3>1. \A i, j \in 1 .. Len(s) : IsSession(s[i]) /\ IsSession(s[j]) /\ s[i].guid = s[j].guid => i = j
      BY <2>1 DEF Logins
    <3> QED BY <1>5, <1>7, <1>8, <3>1
  <2>4. ASSUME "sessions" \in plugins, NEW p \in Seen, world.luid[p] # None
        PROVE  \E i \in 1 .. Len(t) : IsSession(t[i]) /\ t[i].guid = Login(p)
    <3>1. PICK i \in 1 .. Len(s) : IsSession(s[i]) /\ s[i].guid = Login(p)
      BY <2>1, <2>4 DEF Logins
    <3> QED BY <1>5, <1>7, <1>8, <3>1
  <2> QED BY <2>2, <2>3, <2>4 DEF Logins
<1>14. \A i \in 1 .. Len(t) : TypedLinks(t[i])
  BY <1>5 DEF LinkInv, LinkOk, s
<1>15. ASSUME NEW i \in n + 1 .. Len(t) PROVE Fresh(t[i])
  <2>1. i \in n .. Len(s) /\ i \in 1 .. Len(s) /\ i # n
    BY <1>1, <1>5, <1>15
  <2>2. Fresh(s[i])
    BY <2>1 DEF LinkInv, s, n
  <2> QED BY <1>5, <2>1, <2>2
<1>16. ASSUME NEW m, NEW f, NameSo(s, m, f) PROVE NameSo(t, m, f)
  BY <1>5, <1>7, <1>8, <1>16 DEF NameSo
<1>17. ASSUME NEW i \in 1 .. n PROVE OwnerSo(t[i]) /\ ParentSo(t[i]) /\ OlderSo(t[i]) /\ NameSo(t, i, t[i])
  <2>1. CASE i = n
    <3>1. NameSo(s, n, e)
      BY DEF LinkOk, s, n
    <3> QED BY <1>5, <1>16, <2>1, <3>1 DEF LinkOk
  <2>2. CASE i # n
    <3>1. i \in 1 .. n - 1 /\ i \in 1 .. Len(s)
      BY <1>1, <2>2
    <3>2. OwnerSo(s[i]) /\ ParentSo(s[i]) /\ OlderSo(s[i]) /\ NameSo(s, i, s[i])
      BY <3>1 DEF LinkInv, s, n
    <3> QED BY <1>5, <1>16, <2>2, <3>1, <3>2
  <2> QED BY <2>1, <2>2
<1>18. Statics(t)
  BY <1>10, <1>11, <1>12, <1>13 DEF Statics
<1>19. n + 1 \in 1 .. Len(t) + 1 /\ 1 .. (n + 1) - 1 = 1 .. n
  BY <1>1, <1>5
<1> QED BY <1>2, <1>14, <1>15, <1>17, <1>18, <1>19 DEF LinkInv, t

LEMMA LinkPrimed ==
    ASSUME world' = world, plugins' = plugins
    PROVE  /\ LinkInv(events', next') => LinkInv(events, next)'
           /\ Logins(events') => Logins(events)'
<1>1. ASSUME NEW i, Typed(events'[i]), Told(events'[i]) PROVE Typed(events[i])' /\ Told(events[i])'
  BY <1>1, ToldPrimed
<1>2. AllTold(events') => AllTold(events)'
  BY <1>1 DEF AllTold, IsList
<1>3. Logins(events') => Logins(events)'
  BY DEF Logins, Earliest, IsSession, Seen, CreateTime, Login
<1>4. Once(events') => Once(events)'
  BY DEF Once, IsCreate
<1>5. Whole(events', "processes") => Whole(events, "processes")'
  BY DEF Whole, IsCreate, Seen
<1>6. Statics(events') => Statics(events)'
  BY <1>2, <1>3, <1>4, <1>5 DEF Statics
<1>7. ASSUME NEW i PROVE /\ TypedLinks(events'[i]) => TypedLinks(events[i])'
                         /\ Fresh(events'[i]) => Fresh(events[i])'
  BY DEF TypedLinks, Fresh, OwnSid
<1>8. ASSUME NEW i PROVE OwnerSo(events'[i]) => OwnerSo(events[i])'
  BY DEF OwnerSo, ListedSpoke, Alone, Linked, Seen
<1>9. ASSUME NEW i PROVE /\ ParentSo(events'[i]) => ParentSo(events[i])'
                         /\ OlderSo(events'[i]) => OlderSo(events[i])'
                         /\ NameSo(events', i, events'[i]) => NameSo(events, i, events[i])'
  BY DEF ParentSo, OlderSo, NameSo, OwnSid, IsCreate, CreateTime, Seen
<1> QED BY <1>3, <1>6, <1>7, <1>8, <1>9 DEF LinkInv

-----------------------------------------------------------------------------
(* The inductive invariant: while the events are loaded and collapsed each of  *)
(* them says what is so and nothing is lost; then, the invariant of linking.   *)

EnrichInv ==
    /\ world \in Worlds /\ plugins \in PluginSets /\ userByPID \in [PIDs -> Blankable(Users)]
    /\ pc \in {"load", "mft", "sessions", "dedupe", "link", "done"}
    /\ next \in Nat \ {0}
    /\ pc = "load" =>
         /\ AllRaw(events) /\ next <= Len(Plugins) + 1
         /\ \A k \in 1 .. Len(Plugins) : k < next /\ Plugins[k] \in plugins => Whole(events, Plugins[k])
    /\ pc \in {"mft", "sessions"} => AllRaw(events) /\ \A plugin \in plugins : Whole(events, plugin)
    /\ pc = "dedupe" => /\ AllRaw(events) /\ Logins(events)
                        /\ "processes" \in plugins => Whole(events, "processes")
    /\ pc \in {"link", "done"} => LinkInv(events, next)
    /\ pc = "done" => next = Len(events) + 1

LEMMA PluginsAre ==
    /\ Len(Plugins) = 14 /\ \A k \in 1 .. Len(Plugins) : Plugins[k] \in ToSet(Plugins)
    /\ \A plugin \in ToSet(Plugins) : \E k \in 1 .. Len(Plugins) : Plugins[k] = plugin
<1>1. Len(Plugins) = 14
  BY DEF Plugins
<1>2. \A s : \A k \in 1 .. Len(s) : s[k] \in ToSet(s)
  BY DEF ToSet
<1>3. \A s : \A x \in ToSet(s) : \E k \in 1 .. Len(s) : s[k] = x
  BY DEF ToSet
<1> QED BY <1>1, <1>2, <1>3

LEMMA InitInv == Init => EnrichInv
<1> SUFFICES ASSUME Init PROVE EnrichInv
  OBVIOUS
<1>1. AllRaw(<<>>)
  BY DEF AllRaw, IsList, ToSet
<1>2. userByPID \in [PIDs -> Blankable(Users)]
  BY DEF Init, Blankable
<1> QED BY <1>1, <1>2, PluginsAre DEF Init, EnrichInv

LEMMA LoadInv == EnrichInv /\ Load => EnrichInv'
<1> SUFFICES ASSUME EnrichInv, Load PROVE EnrichInv'
  OBVIOUS
<1> DEFINE plugin == Plugins[next]
<1>1. /\ pc = "load" /\ next \in 1 .. Len(Plugins) /\ Len(Plugins) = 14 /\ world \in Worlds
      /\ pc' = pc /\ next' = next + 1 /\ world' = world /\ plugins' = plugins /\ userByPID' = userByPID
      /\ AllRaw(events) /\ plugin \in ToSet(Plugins)
  BY PluginsAre DEF EnrichInv, Load
<1>2. AllRaw(events') /\ (\A p : Whole(events, p) => Whole(events', p))
      /\ (plugin \in plugins => Whole(events', plugin))
  <2>1. CASE plugin \in plugins
    <3>1. AllRaw(Rows(plugin)) /\ Whole(Rows(plugin), plugin)
      BY <1>1, <2>1, RowsRaw
    <3>2. events' = events \o Rows(plugin)
      BY <2>1 DEF Load
    <3> QED BY <1>1, <3>1, <3>2, ConcatRaw
  <2>2. CASE plugin \notin plugins
    BY <1>1, <2>2 DEF Load
  <2> QED BY <2>1, <2>2
<1>3. AllRaw(events)' /\ \A p : Whole(events', p) => Whole(events, p)'
  BY <1>1, <1>2, RawPrimed
<1>4. ASSUME NEW k \in 1 .. Len(Plugins), k < next + 1, Plugins[k] \in plugins PROVE Whole(events, Plugins[k])'
  <2>1. CASE k = next
    BY <1>2, <1>3, <1>4, <2>1
  <2>2. CASE k < next
    BY <1>1, <1>2, <1>3, <1>4, <2>2 DEF EnrichInv
  <2> QED BY <1>1, <1>4, <2>1, <2>2
<1> QED BY <1>1, <1>3, <1>4 DEF EnrichInv

LEMMA LoadedInv == EnrichInv /\ Loaded => EnrichInv'
<1> SUFFICES ASSUME EnrichInv, Loaded PROVE EnrichInv'
  OBVIOUS
<1>1. /\ pc = "load" /\ pc' = "mft" /\ next' = next /\ world' = world /\ plugins' = plugins
      /\ userByPID' = userByPID /\ events' = events /\ next > Len(Plugins) /\ AllRaw(events)
  BY DEF EnrichInv, Loaded
<1>2. ASSUME NEW plugin \in plugins PROVE Whole(events, plugin)
  <2>1. plugin \in ToSet(Plugins)
    BY EnrichAssumption DEF EnrichInv
  <2>2. PICK k \in 1 .. Len(Plugins) : Plugins[k] = plugin
    BY <2>1, PluginsAre
  <2> QED BY <1>1, <1>2, <2>2, PluginsAre DEF EnrichInv
<1>3. AllRaw(events)' /\ \A plugin \in plugins' : Whole(events, plugin)'
  BY <1>1, <1>2, RawPrimed
<1> QED BY <1>1, <1>3 DEF EnrichInv

LEMMA CollapseMFTInv == EnrichInv /\ CollapseMFT => EnrichInv'
<1> SUFFICES ASSUME EnrichInv, CollapseMFT PROVE EnrichInv'
  OBVIOUS
<1>1. /\ pc = "mft" /\ pc' = "sessions" /\ next' = next /\ world' = world /\ plugins' = plugins
      /\ userByPID' = userByPID /\ world \in Worlds /\ AllRaw(events) /\ \A plugin \in plugins : Whole(events, plugin)
  BY DEF EnrichInv, CollapseMFT
<1>2. AllRaw(events') /\ \A plugin \in plugins : Whole(events', plugin)
  BY <1>1, CollapseMFTRaw
<1>3. AllRaw(events)' /\ \A plugin \in plugins' : Whole(events, plugin)'
  BY <1>1, <1>2, RawPrimed
<1> QED BY <1>1, <1>3 DEF EnrichInv

LEMMA CollapseSessionsInv == EnrichInv /\ CollapseSessions => EnrichInv'
<1> SUFFICES ASSUME EnrichInv, CollapseSessions PROVE EnrichInv'
  OBVIOUS
<1>1. /\ pc = "sessions" /\ pc' = "dedupe" /\ next' = next /\ world' = world /\ plugins' = plugins
      /\ world \in Worlds /\ AllRaw(events) /\ \A plugin \in plugins : Whole(events, plugin)
  BY DEF EnrichInv, CollapseSessions
<1>2. /\ AllRaw(events') /\ Logins(events') /\ (Whole(events, "processes") => Whole(events', "processes"))
      /\ userByPID' \in [PIDs -> Blankable(Users)]
  BY <1>1, CollapseSessionsRaw
<1>3. AllRaw(events)' /\ Logins(events)' /\ ("processes" \in plugins' => Whole(events, "processes")')
  BY <1>1, <1>2, RawPrimed, LinkPrimed
<1> QED BY <1>1, <1>2, <1>3 DEF EnrichInv

LEMMA DedupeInv == EnrichInv /\ Dedupe => EnrichInv'
<1> SUFFICES ASSUME EnrichInv, Dedupe PROVE EnrichInv'
  OBVIOUS
<1>1. /\ pc = "dedupe" /\ pc' = "link" /\ next' = 1 /\ world' = world /\ plugins' = plugins
      /\ userByPID' = userByPID
      /\ world \in Worlds /\ AllRaw(events) /\ Logins(events) /\ ("processes" \in plugins => Whole(events, "processes"))
  BY DEF EnrichInv, Dedupe
<1>2. /\ AllRaw(events') /\ Once(events') /\ Logins(events')
      /\ ("processes" \in plugins => Whole(events', "processes"))
  BY <1>1, DedupeRaw
<1>3. Statics(events')
  BY <1>2 DEF Statics, AllTold, AllRaw, Raw
<1>4. \A i \in 1 .. Len(events') : TypedLinks(events'[i])
  BY <1>2, UnlinkedIs DEF AllRaw, Raw, Fresh
<1>5. Len(events') \in Nat
  BY <1>2, ListIs DEF AllRaw
<1>6. LinkInv(events', 1)
  BY <1>2, <1>3, <1>4, <1>5 DEF LinkInv, AllRaw, Raw
<1>7. LinkInv(events, next)'
  BY <1>1, <1>6, LinkPrimed
<1> QED BY <1>1, <1>7 DEF EnrichInv

(* Every linking step links one event, as it may.                              *)
LinkAny == LinkRegistry \/ LinkAccess \/ LinkProcess \/ LinkSpoke

LEMMA LinkAnyOk ==
    ASSUME EnrichInv, LinkAny
    PROVE  /\ pc = "link" /\ world \in Worlds /\ LinkInv(events, next) /\ Linking
           /\ \E e : Becomes(e) /\ LinkOk(e)
<1>1. Linking
  BY DEF LinkAny, LinkRegistry, LinkAccess, LinkProcess, LinkSpoke
<1>2. pc = "link" /\ world \in Worlds /\ LinkInv(events, next) /\ userByPID \in [PIDs -> Blankable(Users)]
  BY <1>1 DEF Linking, EnrichInv
<1>3. \E e : Becomes(e) /\ LinkOk(e)
  BY <1>2, LinkRegistryOk, LinkAccessOk, LinkProcessOk, LinkSpokeOk DEF LinkAny
<1> QED BY <1>1, <1>2, <1>3

LEMMA LinkAnyInv == EnrichInv /\ LinkAny => EnrichInv'
<1> SUFFICES ASSUME EnrichInv, LinkAny PROVE EnrichInv'
  OBVIOUS
<1>1. /\ pc = "link" /\ world \in Worlds /\ LinkInv(events, next) /\ Linking
      /\ \E e : Becomes(e) /\ LinkOk(e)
  BY LinkAnyOk
<1>2. PICK e : Becomes(e) /\ LinkOk(e)
  BY <1>1
<1>3. LinkInv(events', next')
  BY <1>1, <1>2, LinkStep
<1>4. world' = world /\ plugins' = plugins /\ pc' = pc /\ userByPID' = userByPID /\ next' = next + 1
  BY <1>2 DEF Becomes
<1>5. LinkInv(events, next)'
  BY <1>3, <1>4, LinkPrimed
<1> QED BY <1>1, <1>4, <1>5 DEF EnrichInv

LEMMA EnrichedInv == EnrichInv /\ Enriched => EnrichInv'
<1> SUFFICES ASSUME EnrichInv, Enriched PROVE EnrichInv'
  OBVIOUS
<1>1. /\ pc = "link" /\ pc' = "done" /\ next > Len(events) /\ LinkInv(events, next)
      /\ UNCHANGED <<world, plugins, next, events, userByPID>>
  BY DEF EnrichInv, Enriched
<1>2. Len(events) \in Nat /\ next \in 1 .. Len(events) + 1
  BY <1>1, ListIs DEF LinkInv, Statics, AllTold
<1>3. LinkInv(events, next)'
  BY <1>1, LinkPrimed
<1> QED BY <1>1, <1>2, <1>3 DEF EnrichInv

LEMMA StutterInv == EnrichInv /\ UNCHANGED vars => EnrichInv'
<1> SUFFICES ASSUME EnrichInv, UNCHANGED vars PROVE EnrichInv'
  OBVIOUS
<1>1. UNCHANGED <<world, plugins, pc, next, events, userByPID>>
  BY DEF vars
<1>2. AllRaw(events) => AllRaw(events)'
  BY <1>1, RawPrimed
<1>3. \A plugin : Whole(events, plugin) => Whole(events, plugin)'
  BY <1>1, RawPrimed
<1>4. (LinkInv(events, next) => LinkInv(events, next)') /\ (Logins(events) => Logins(events)')
  BY <1>1, LinkPrimed
<1> QED BY <1>1, <1>2, <1>3, <1>4 DEF EnrichInv

LEMMA NextInv == EnrichInv /\ [Next]_vars => EnrichInv'
BY LoadInv, LoadedInv, CollapseMFTInv, CollapseSessionsInv, DedupeInv, LinkAnyInv, EnrichedInv, StutterInv
   DEF Next, LinkAny

THEOREM EnrichIsInductive == Spec => []EnrichInv
<1>1. Init => EnrichInv
  BY InitInv
<1>2. EnrichInv /\ [Next]_vars => EnrichInv'
  BY NextInv
<1> QED BY <1>1, <1>2, PTL DEF Spec

-----------------------------------------------------------------------------
(* The properties. *)

(* TypeOK: the columns have their types in every state, and a link is named    *)
(* exactly when an owner or a parent is (Event, internal/car).                 *)
THEOREM EnrichTyped == Spec => []TypeOK
<1>1. EnrichInv => TypeOK
  <2> SUFFICES ASSUME EnrichInv PROVE TypeOK
    OBVIOUS
  <2>1. \A i \in 1 .. Len(events) : Typed(events[i]) /\ TypedLinks(events[i])
    <3>1. CASE pc \in {"link", "done"}
      BY <3>1 DEF EnrichInv, LinkInv, Statics, AllTold
    <3>2. CASE AllRaw(events)
      BY <3>2, UnlinkedIs DEF AllRaw, Raw, Fresh
    <3> QED BY <3>1, <3>2 DEF EnrichInv
  <2> QED BY <2>1 DEF TypeOK, EnrichInv, Typed, TypedLinks
<1> QED BY <1>1, EnrichIsInductive, PTL

(* OwnerTrue, "not a reused-PID guess" (README.md:35): in every world an event  *)
(* listed by PID is linked to a process that is seen with that PID, to its own *)
(* one where only that has it, whoever had it before; a login, and a dated     *)
(* connection, to its own process whoever shares the PID.                      *)
THEOREM OwnerIsTrue == Spec => []OwnerTrue
<1>1. EnrichInv => OwnerTrue
  <2> SUFFICES ASSUME EnrichInv, NEW i \in Final PROVE OwnerSo(events[i])
    BY DEF OwnerTrue, OwnerSo
  <2> QED BY DEF EnrichInv, LinkInv, Final
<1> QED BY <1>1, EnrichIsInductive, PTL

(* ParentTrue (enrich.go:6): the parent a creation is linked to is the process *)
(* that created it, if both are seen and dated.                                *)
THEOREM ParentIsTrue == Spec => []ParentTrue
<1>1. EnrichInv => ParentTrue
  <2> SUFFICES ASSUME EnrichInv, NEW i \in Final PROVE ParentSo(events[i])
    BY DEF ParentTrue, ParentSo, IsCreate
  <2> QED BY DEF EnrichInv, LinkInv, Final
<1> QED BY <1>1, EnrichIsInductive, PTL

(* ParentOlder (enrich.go:4): no parent that a link names is younger than its  *)
(* child.                                                                      *)
THEOREM ParentIsOlder == Spec => []ParentOlder
<1>1. EnrichInv => ParentOlder
  <2> SUFFICES ASSUME EnrichInv, NEW i \in Final PROVE OlderSo(events[i])
    BY DEF ParentOlder, OlderSo
  <2> QED BY DEF EnrichInv, LinkInv, Final
<1> QED BY <1>1, EnrichIsInductive, PTL

(* OneNamePerSid (data.yaml:3): an event of a well-known account has its name, *)
(* whether the SID is its own or that of an owner linked before it.            *)
THEOREM NamePerSid == Spec => []OneNamePerSid
<1>1. EnrichInv => OneNamePerSid
  <2> SUFFICES ASSUME EnrichInv, NEW i \in Final, events[i].uid \in WellKnown,
                      OwnSid(events[i]) \/ LinkedAfter(i)
               PROVE  events[i].user = Canonical[events[i].uid]
    BY DEF OneNamePerSid
  <2>1. NameSo(events, i, events[i])
    BY DEF EnrichInv, LinkInv, Final
  <2>2. LinkedAfter(i) => \E j \in 1 .. Len(events) : IsCreate(events[j]) /\ j < i /\ events[j].guid = events[i].owner
    BY DEF LinkedAfter, Creates, IsCreate
  <2> QED BY <2>1, <2>2 DEF NameSo
<1> QED BY <1>1, EnrichIsInductive, PTL

(* OneLogin (collectors.go:319, enrich.go:178): one login for each logon       *)
(* identity that is seen, at the earliest time known, and no other.            *)
THEOREM LoginIsOne == Spec => []OneLogin
<1>1. EnrichInv => OneLogin
  <2> SUFFICES ASSUME EnrichInv, pc = "done", "sessions" \in plugins PROVE OneLogin
    BY DEF OneLogin
  <2> DEFINE logins == {i \in Final : events[i].obj = "user_session"}
  <2>1. Final = 1 .. Len(events) /\ world \in Worlds /\ AllTold(events) /\ Logins(events)
    BY DEF Final, EnrichInv, LinkInv, Statics
  <2>2. \A i \in logins : i \in 1 .. Len(events) /\ IsSession(events[i]) /\ events[i].obj = "user_session"
    BY <2>1 DEF IsSession
  <2>3. \A i \in 1 .. Len(events) : IsSession(events[i]) => i \in logins
    BY <2>1 DEF IsSession
  <2> HIDE DEF logins
  <2>4. ASSUME NEW i \in logins
        PROVE  /\ events[i].from \in Seen /\ world.luid[events[i].from] # None
               /\ events[i].guid = Login(events[i].from) /\ events[i].ts = CreateTime(events[i].from)
               /\ Earliest(events[i])
    <3>1. Told(events[i]) /\ events[i].guid # None /\ Earliest(events[i])
      BY <2>1, <2>2 DEF AllTold, Logins
    <3> QED BY <2>2, <3>1 DEF Told, ToldSpoke, ListedSpoke, Spokes, ToldLogin, Login
  <2>5. {events[i].guid : i \in logins} = {<<"login", world.luid[p]>> : p \in {q \in Seen : world.luid[q] # None}}
    <3>1. ASSUME NEW p \in Seen, world.luid[p] # None PROVE \E i \in logins : events[i].guid = Login(p)
      BY <2>1, <2>3, <3>1 DEF Logins
    <3>2. ASSUME NEW i \in logins PROVE \E p \in {q \in Seen : world.luid[q] # None} : events[i].guid = Login(p)
      BY <2>4
    <3>3. {events[i].guid : i \in logins} = {Login(p) : p \in {q \in Seen : world.luid[q] # None}}
      BY <3>1, <3>2
    <3> QED BY <3>3 DEF Login
  <2>6. \A i, j \in logins : events[i].guid = events[j].guid => i = j
    BY <2>1, <2>2 DEF Logins
  <2>7. ASSUME NEW i \in logins
        PROVE  LET known == {world.made[p] : p \in {q \in Seen \cap world.dated :
                                                        <<"login", world.luid[q]>> = events[i].guid}}
               IN events[i].ts = IF known = {} THEN 0 ELSE CHOOSE t \in known : \A u \in known : t <= u
    <3> DEFINE e == events[i]
               known == {world.made[p] : p \in {q \in Seen \cap world.dated : <<"login", world.luid[q]>> = e.guid}}
               q == e.from
    <3>1. q \in Seen /\ q \in Procs /\ world.luid[q] # None /\ e.guid = Login(q) /\ e.ts = CreateTime(q) /\ Earliest(e)
      BY <2>1, <2>4, WorldIs
    <3>2. \A p \in Procs : world.made[p] \in Nat \ {0}
      BY <2>1, WorldIs, EnrichAssumption
    <3> HIDE DEF e, q
    <3>3. q \in world.dated => e.ts = world.made[q] /\ world.made[q] \in known
      BY <3>1 DEF CreateTime, Login
    <3>4. ASSUME NEW u \in known PROVE e.ts \in known /\ e.ts <= u
      <4>1. PICK p \in Seen \cap world.dated : u = world.made[p] /\ <<"login", world.luid[p]>> = e.guid
        OBVIOUS
      <4>2. CreateTime(p) = u /\ u # 0
        BY <2>1, <3>2, <4>1, WorldIs DEF CreateTime
      <4>3. world.luid[p] # None /\ e.guid = Login(p)
        BY <3>1, <4>1 DEF Login
      <4>4. e.ts # 0 /\ e.ts <= u
        BY <3>1, <4>1, <4>2, <4>3 DEF Earliest
      <4>5. q \in world.dated
        BY <3>1, <4>4 DEF CreateTime
      <4> QED BY <3>3, <4>4, <4>5
    <3>5. known = {} => e.ts = 0
      BY <3>1, <3>3 DEF CreateTime
    <3>6. known \subseteq Nat
      BY <2>1, <3>2, WorldIs
    <3> HIDE DEF known
    <3>7. ASSUME known # {} PROVE (CHOOSE t \in known : \A u \in known : t <= u) = e.ts
      <4>1. e.ts \in known /\ \A u \in known : e.ts <= u
        BY <3>4, <3>7
      <4> DEFINE t == CHOOSE t \in known : \A u \in known : t <= u
      <4>2. t \in known /\ \A u \in known : t <= u
        BY <4>1
      <4> HIDE DEF t
      <4>3. t = e.ts
        <5>1. t \in Nat /\ e.ts \in Nat
          BY <3>6, <4>1, <4>2
        <5>2. t <= e.ts /\ e.ts <= t
          BY <4>1, <4>2
        <5> QED BY <5>1, <5>2
      <4> QED BY <4>3 DEF t
    <3>8. e.ts = IF known = {} THEN 0 ELSE CHOOSE t \in known : \A u \in known : t <= u
      BY <3>5, <3>7
    <3> QED BY <3>8 DEF e, known
  <2> QED BY <2>5, <2>6, <2>7 DEF OneLogin, logins
<1> QED BY <1>1, EnrichIsInductive, PTL

(* FillsOnlyBlanks (enrich.go:10): linking overwrites nothing, but for the     *)
(* name of a well-known account.                                               *)
THEOREM OnlyBlanksFilled == Spec => FillsOnlyBlanks
<1> DEFINE A == pc = "link" =>
                  \A i \in 1 .. Len(events) : \A f \in {"user", "uid", "path", "host", "owner", "parent"} :
                    \/ events[i][f] = None \/ events'[i][f] = events[i][f]
                    \/ f = "user" /\ events[i].uid \in WellKnown /\ events'[i][f] = Canonical[events[i].uid]
<1>1. EnrichInv /\ [Next]_vars => [A]_vars
  <2> SUFFICES ASSUME EnrichInv, Next, pc = "link", NEW i \in 1 .. Len(events)
               PROVE  \A f \in Filled : \/ events[i][f] = None \/ events'[i][f] = events[i][f]
                                        \/ f = "user" /\ events[i].uid \in WellKnown
                                             /\ events'[i][f] = Canonical[events[i].uid]
    BY DEF Filled
  <2>1. CASE LinkAny
    <3>1. LinkInv(events, next) /\ Linking /\ \E e : Becomes(e) /\ LinkOk(e)
      BY <2>1, LinkAnyOk
    <3>2. PICK e : Becomes(e) /\ LinkOk(e)
      BY <3>1
    <3>3. DOMAIN events = 1 .. Len(events)
      BY <3>1, ListIs DEF LinkInv, Statics, AllTold
    <3>4. CASE i = next
      <4>1. events'[i] = e /\ Current = events[i]
        BY <3>2, <3>3, <3>4 DEF Becomes, Current
      <4> QED BY <3>2, <4>1 DEF LinkOk, Fills, Filled
    <3>5. CASE i # next
      <4>1. events'[i] = events[i]
        BY <3>2, <3>3, <3>5 DEF Becomes
      <4> QED BY <4>1
    <3> QED BY <3>4, <3>5
  <2>2. CASE Enriched
    BY <2>2 DEF Enriched
  <2>3. CASE Load \/ Loaded \/ CollapseMFT \/ CollapseSessions \/ Dedupe
    BY <2>3 DEF Load, Loaded, CollapseMFT, CollapseSessions, Dedupe
  <2> QED BY <2>1, <2>2, <2>3 DEF Next, LinkAny
<1> QED BY <1>1, EnrichIsInductive, PTL DEF Spec, FillsOnlyBlanks

-----------------------------------------------------------------------------
(* Facts are kept, once, and records are merged: what each pass does with them. *)

(* Places that correspond one to one are as many.                              *)
OneToOne(L, K, at) ==
    /\ \A l \in L : at[l] \in K
    /\ \A l, m \in L : at[l] = at[m] => l = m
    /\ \A k \in K : \E l \in L : at[l] = k

LEMMA SameSize ==
    ASSUME NEW n \in Nat, NEW L \in SUBSET (1 .. n), NEW K, NEW at, OneToOne(L, K, at)
    PROVE  Cardinality(L) = Cardinality(K)
<1> DEFINE f == [l \in L |-> at[l]]
<1>1. IsFiniteSet(L)
  <2>1. IsFiniteSet(1 .. n)
    BY FS_Interval
  <2> QED BY <2>1, FS_Subset
<1>2. f \in [L -> K] /\ \A l \in L : f[l] = at[l]
  BY DEF OneToOne
<1> HIDE DEF f
<1>3. IsInjective(f)
  BY <1>2 DEF IsInjective, OneToOne
<1>4. \A k \in K : \E l \in L : f[l] = k
  BY <1>2 DEF OneToOne
<1>5. f \in Bijection(L, K)
  BY <1>2, <1>3, <1>4 DEF Bijection, Injection, Surjection
<1>6. ExistsBijection(L, K)
  BY <1>5 DEF ExistsBijection
<1> QED BY <1>1, <1>6, FS_Bijection

(* A fact is the same, and no emptier.                                         *)
NoLess(e, f) == SameFact(e, f) /\ Populated(e) >= Populated(f)
Covers(s, t) ==
    \A i \in 1 .. Len(s) : ~IsSession(s[i]) /\ s[i].guid # None =>
      \E k \in 1 .. Len(t) : NoLess(t[k], s[i])

(* The key events without a guid.                                              *)
Bare(s) == {i \in 1 .. Len(s) : s[i].plugin = "keys" /\ s[i].guid = None}

LEMMA NoLessIs ==
    /\ \A e : e.guid # None => NoLess(e, e)
    /\ \A e, f, g : NoLess(e, f) /\ NoLess(f, g) => NoLess(e, g)
BY PopulatedIs DEF NoLess, SameFact

LEMMA CoversIs ==
    ASSUME NEW s, NEW t, NEW u, Covers(s, t), Covers(t, u) PROVE Covers(s, u)
<1> SUFFICES ASSUME NEW i \in 1 .. Len(s), ~IsSession(s[i]), s[i].guid # None
             PROVE  \E k \in 1 .. Len(u) : NoLess(u[k], s[i])
  BY DEF Covers
<1>1. PICK k \in 1 .. Len(t) : NoLess(t[k], s[i])
  BY DEF Covers
<1>2. ~IsSession(t[k]) /\ t[k].guid # None
  BY <1>1 DEF NoLess, SameFact, IsSession
<1>3. PICK l \in 1 .. Len(u) : NoLess(u[l], t[k])
  BY <1>2 DEF Covers
<1> QED BY <1>1, <1>3, NoLessIs

(* What is picked and then followed by more keeps what has been picked of it.  *)
LEMMA PickKeeps ==
    ASSUME NEW s, IsList(s), NEW I \in SUBSET (1 .. Len(s)), NEW t, IsList(t),
           \A i \in 1 .. Len(s) : ~IsSession(s[i]) /\ s[i].guid # None => i \in I,
           Bare(s) \subseteq I, Bare(t) = {}
    PROVE  /\ Covers(s, Pick(s, I) \o t)
           /\ Cardinality(Bare(Pick(s, I) \o t)) = Cardinality(Bare(s))
<1> DEFINE r == Pick(s, I)
           u == r \o t
<1>1. PICK at : SubList(s, I, r, at)
  BY PickAt
<1>2. /\ IsList(r) /\ Len(r) \in Nat /\ at \in [1 .. Len(r) -> I]
      /\ \A k \in 1 .. Len(r) : r[k] = s[at[k]]
      /\ \A k, l \in 1 .. Len(r) : k < l => at[k] < at[l]
      /\ \A i \in I : \E k \in 1 .. Len(r) : at[k] = i
  BY <1>1, ListIs DEF SubList
<1> HIDE DEF r
<1>3. /\ Len(u) = Len(r) + Len(t) /\ Len(t) \in Nat
      /\ \A k \in 1 .. Len(r) : k \in 1 .. Len(u) /\ u[k] = r[k]
      /\ \A k \in 1 .. Len(u) :
           \/ k \in 1 .. Len(r) /\ u[k] = r[k]
           \/ k - Len(r) \in 1 .. Len(t) /\ u[k] = t[k - Len(r)]
  BY <1>2, Concat, ListIs
<1> HIDE DEF u
<1>4. Covers(s, u)
  <2> SUFFICES ASSUME NEW i \in 1 .. Len(s), ~IsSession(s[i]), s[i].guid # None
               PROVE  \E k \in 1 .. Len(u) : NoLess(u[k], s[i])
    BY DEF Covers
  <2>1. PICK k \in 1 .. Len(r) : at[k] = i
    BY <1>2
  <2>2. k \in 1 .. Len(u) /\ u[k] = s[i]
    BY <1>2, <1>3, <2>1
  <2> QED BY <2>2, NoLessIs
<1>5. \A k \in Bare(u) : k \in 1 .. Len(r) /\ at[k] \in Bare(s)
  <2> SUFFICES ASSUME NEW k \in Bare(u) PROVE k \in 1 .. Len(r) /\ at[k] \in Bare(s)
    OBVIOUS
  <2>1. k \in 1 .. Len(u) /\ u[k].plugin = "keys" /\ u[k].guid = None
    BY DEF Bare
  <2>2. ~(k - Len(r) \in 1 .. Len(t) /\ u[k] = t[k - Len(r)])
    BY <2>1 DEF Bare
  <2>3. k \in 1 .. Len(r) /\ u[k] = r[k]
    BY <1>3, <2>1, <2>2
  <2>4. at[k] \in 1 .. Len(s) /\ u[k] = s[at[k]]
    BY <1>2, <2>3
  <2> QED BY <2>1, <2>3, <2>4 DEF Bare
<1>6. \A i \in Bare(s) : \E k \in Bare(u) : at[k] = i
  <2> SUFFICES ASSUME NEW i \in Bare(s) PROVE \E k \in Bare(u) : at[k] = i
    OBVIOUS
  <2>1. PICK k \in 1 .. Len(r) : at[k] = i
    BY <1>2
  <2>2. k \in 1 .. Len(u) /\ u[k] = s[i]
    BY <1>2, <1>3, <2>1
  <2> QED BY <2>1, <2>2 DEF Bare
<1>7. \A k, l \in 1 .. Len(r) : at[k] = at[l] => k = l
  <2> SUFFICES ASSUME NEW k \in 1 .. Len(r), NEW l \in 1 .. Len(r), at[k] = at[l], k < l PROVE FALSE
    BY <1>2
  <2>1. at[k] < at[l] /\ at[k] \in 1 .. Len(s) /\ at[l] \in 1 .. Len(s)
    BY <1>2
  <2> QED BY <2>1
<1>8. Bare(u) \in SUBSET (1 .. Len(r))
  BY <1>5
<1>9. Cardinality(Bare(u)) = Cardinality(Bare(s))
  <2>1. OneToOne(Bare(u), Bare(s), at)
    BY <1>5, <1>6, <1>7 DEF OneToOne
  <2> QED BY <1>2, <1>8, <2>1, SameSize
<1> QED BY <1>4, <1>9 DEF u, r

(* What RecordOnce says of the file that stands for record n.                  *)
Tells(e, n) ==
    \A si \in Attributes(n, "SI"), fn \in Attributes(n, "FN") :
      Attributes(n, "SI") = {si} /\ fn.name > 0
        /\ (\A r \in Attributes(n, "FN") \ {fn} : r.name < fn.name) =>
           /\ e.row.name = fn.name
           /\ {e.created, e.previous} \ {0} = {si.created, fn.created} \ {0}
           /\ si.created # 0 => e.created = si.created

(* The rows of record n, all of them.                                          *)
OfRecord(rows, n) ==
    /\ \A i \in 1 .. Len(rows) : rows[i].plugin = "mftscan" /\ Attribute(rows[i]) /\ rows[i].row.n = n
    /\ \A r \in ToSet(world.mft) : r.n = n => \E i \in 1 .. Len(rows) : rows[i].row = r

LEMMA MergedTells ==
    ASSUME world \in Worlds, NEW rows, AllRaw(rows), 1 \in 1 .. Len(rows), NEW n, OfRecord(rows, n)
    PROVE  LET e == Merged(rows) IN e.plugin = "mftscan" /\ e.guid = <<"mft", n>> /\ Tells(e, n)
<1> DEFINE si == {i \in 1 .. Len(rows) : rows[i].row.attr = "SI"}
           fn == {i \in 1 .. Len(rows) : rows[i].row.attr = "FN" /\ rows[i].row.name > 0}
           zero == [i \in 1 .. Len(rows) |-> 0]
           names == NameLengths(rows)
           named == rows[Best(fn, names)]
           seed == IF si # {} THEN rows[Best(si, zero)] ELSE IF fn # {} THEN named ELSE rows[1]
           siTime == IF si # {} THEN seed.created ELSE 0
           fnTime == IF fn # {} THEN named.created ELSE 0
           time == IF siTime # 0 THEN siTime ELSE fnTime
           name == IF fn # {} THEN named.row.name ELSE seed.row.name
           previous == IF siTime # 0 /\ fnTime # 0 /\ siTime # fnTime THEN fnTime ELSE 0
           e == Merged(rows)
<1>1. e = [seed EXCEPT !.guid = <<"mft", seed.row.n>>, !.ts = time, !.created = time,
                       !.row.name = name, !.previous = previous]
  BY DEF Merged
<1>2. Len(rows) \in Nat
  BY ListIs DEF AllRaw
<1>3. \A i \in 1 .. Len(rows) :
        /\ Raw(rows[i]) /\ rows[i].row \in MftRow /\ rows[i].row \in ToSet(world.mft)
        /\ rows[i].created = rows[i].row.created /\ rows[i].row.n = n /\ rows[i].plugin = "mftscan"
  BY DEF AllRaw, Raw, Told, ToldRow, OfRecord, Attribute
<1>4. ASSUME si # {} PROVE Best(si, zero) \in si
  <2>1. si \in SUBSET (1 .. Len(rows)) /\ \A i \in si : zero[i] \in Nat
    OBVIOUS
  <2> HIDE DEF si, zero
  <2> QED BY <1>2, <1>4, <2>1, BestIs DEF IsBest
<1>5. ASSUME fn # {}
      PROVE  Best(fn, names) \in fn /\ \A j \in fn : rows[j].row.name <= named.row.name
  <2> DEFINE b == Best(fn, names)
  <2>1. fn \in SUBSET (1 .. Len(rows)) /\ \A i \in fn : names[i] \in Nat /\ names[i] = rows[i].row.name
    BY <1>3 DEF MftRow, NameLengths
  <2> HIDE DEF fn, names
  <2>2. IsBest(fn, names, b)
    BY <1>2, <1>5, <2>1, BestIs
  <2> HIDE DEF b
  <2>3. b \in fn /\ \A j \in fn : names[j] < names[b] \/ names[j] = names[b]
    BY <2>2 DEF IsBest
  <2>4. b \in fn /\ \A j \in fn : names[j] <= names[b]
    BY <2>1, <2>3
  <2> QED BY <2>1, <2>4 DEF b
<1>6. fn # {} => \E i \in 1 .. Len(rows) : named = rows[i]
  BY <1>5
<1>7. \E i \in 1 .. Len(rows) : seed = rows[i]
  BY <1>4, <1>6
<1>8. ASSUME NEW s \in Attributes(n, "SI"), NEW f \in Attributes(n, "FN"), Attributes(n, "SI") = {s}, f.name > 0,
             \A r \in Attributes(n, "FN") \ {f} : r.name < f.name
      PROVE  name = f.name /\ siTime = s.created /\ fnTime = f.created
  <2>1. PICK i \in 1 .. Len(rows) : rows[i].row = s
    BY DEF OfRecord, Attributes
  <2>2. PICK j \in 1 .. Len(rows) : rows[j].row = f
    BY DEF OfRecord, Attributes
  <2>3. i \in si /\ j \in fn
    BY <1>8, <2>1, <2>2 DEF Attributes
  <2>4. seed.row \in Attributes(n, "SI") /\ seed.created = seed.row.created
    BY <1>3, <1>4, <2>3 DEF Attributes
  <2>5. named.row \in Attributes(n, "FN") /\ named.created = named.row.created /\ f.name <= named.row.name
    BY <1>3, <1>5, <2>2, <2>3 DEF Attributes
  <2>6. named.row.name \in 0 .. 2 /\ f.name \in 0 .. 2
    BY <1>3, <1>6, <2>2, <2>3 DEF MftRow
  <2>7. named.row = f
    <3> HIDE DEF named
    <3> SUFFICES ASSUME named.row # f PROVE FALSE
      OBVIOUS
    <3>1. named.row.name < f.name
      BY <1>8, <2>5
    <3> DEFINE a == named.row.name
               c == f.name
    <3> HIDE DEF a, c
    <3>2. a \in 0 .. 2 /\ c \in 0 .. 2 /\ a < c /\ c <= a
      BY <2>5, <2>6, <3>1, Zenon DEF a, c
    <3> QED BY <3>2
  <2>8. seed.row = s
    BY <1>8, <2>4
  <2> HIDE DEF named, seed
  <2>9. si # {} /\ fn # {}
    BY <2>3
  <2> HIDE DEF si, fn
  <2> QED BY <2>4, <2>5, <2>7, <2>8, <2>9
<1> HIDE DEF si, fn, named, seed
<1>9. seed.row \in MftRow /\ Raw(seed) /\ seed.plugin = "mftscan" /\ seed.row.n = n
  BY <1>3, <1>7
<1> HIDE DEF siTime, fnTime, time, name, previous, e
<1>10. e.plugin = "mftscan" /\ e.guid = <<"mft", n>> /\ e.created = time /\ e.previous = previous
       /\ e.row = [seed.row EXCEPT !.name = name]
  <2>1. IsEvent(seed)
    BY <1>9 DEF Raw, Typed
  <2> QED BY <1>1, <1>9, <2>1 DEF IsEvent, Columns
<1>11. e.row.name = name
  BY <1>9, <1>10 DEF MftRow
<1>12. Tells(e, n)
  BY <1>8, <1>10, <1>11 DEF Tells, time, previous
<1> QED BY <1>10, <1>12 DEF e

(* Event i, and no other, is record n.                                         *)
RecordAt(s, i, n) ==
    i \in 1 .. Len(s) /\ Tells(s[i], n) /\ \A j \in 1 .. Len(s) : s[j].guid = <<"mft", n>> <=> j = i
Recorded(s) == "mftscan" \in plugins => \A r \in ToSet(world.mft) : \E i : RecordAt(s, i, r.n)

LEMMA MftNumbers == ASSUME world \in Worlds, NEW r \in ToSet(world.mft) PROVE r.n \in 1 .. 2
<1>1. world.mft \in Seq(MftRow)
  BY WorldIs
<1>2. r \in MftRow
  BY <1>1, SeqIsList
<1> QED BY <1>2 DEF MftRow

LEMMA CollapseMFTKeeps ==
    ASSUME world \in Worlds, AllRaw(events), Unmerged(events), "mftscan" \in plugins => AllRows(events), CollapseMFT
    PROVE  /\ Covers(events, events') /\ Cardinality(Bare(events')) = Cardinality(Bare(events))
           /\ Recorded(events')
<1> DEFINE mft == {i \in 1 .. Len(events) : events[i].plugin = "mftscan"}
           others == {i \in 1 .. Len(events) : events[i].plugin # "mftscan"}
           rows == Pick(events, mft)
           I == 1 .. Len(rows)
           key == [i \in I |-> rows[i].row.n]
           score == [i \in I |-> 0]
           heads == Collapse(rows, key, score)
           Same(e) == {i \in 1 .. Len(rows) : rows[i].row.n = e.row.n}
           files == [k \in 1 .. Len(heads) |-> Merged(Pick(rows, Same(heads[k])))]
           rest == Pick(events, others)
<1>1. events' = rest \o files
  BY DEF CollapseMFT, Only
<1>2. mft \in SUBSET (1 .. Len(events)) /\ others \in SUBSET (1 .. Len(events))
  OBVIOUS
<1>3. /\ AllRaw(rows) /\ \A k \in 1 .. Len(rows) : rows[k].plugin = "mftscan" /\ Attribute(rows[k])
      /\ \A i \in 1 .. Len(events) : events[i].plugin = "mftscan" => \E k \in 1 .. Len(rows) : rows[k] = events[i]
  <2>1. /\ AllRaw(rows) /\ \A k \in 1 .. Len(rows) : \E i \in mft : rows[k] = events[i]
        /\ \A i \in mft : \E k \in 1 .. Len(rows) : rows[k] = events[i]
    BY <1>2, PickRaw
  <2> QED BY <2>1 DEF Unmerged
<1>4. /\ AllRaw(rest)
      /\ \A k \in 1 .. Len(rest) : NotFile(rest[k].guid)
  <2>1. AllRaw(rest) /\ \A k \in 1 .. Len(rest) : \E i \in others : rest[k] = events[i]
    BY <1>2, PickRaw
  <2> QED BY <2>1 DEF AllRaw, Raw, Told, ToldRow
<1>4a. \A i \in 1 .. Len(events) : events[i].guid # None => i \in others
  BY DEF Unmerged, Attribute
<1>4b. Bare(events) \subseteq others
  BY DEF Bare
<1> HIDE DEF rows, rest, mft, others
<1>5. PICK at : Collapsed(rows, key, score, heads, at)
  <2>1. IsList(rows) /\ \A i \in 1 .. Len(rows) : score[i] \in Nat
    BY <1>3 DEF AllRaw
  <2> HIDE DEF key, score
  <2> QED BY <2>1, CollapseAt
<1> HIDE DEF heads
<1>6. /\ Len(heads) \in Nat /\ \A k \in 1 .. Len(heads) : at[k] \in 1 .. Len(rows) /\ heads[k] = rows[at[k]]
      /\ \A i \in 1 .. Len(rows) : \E k \in 1 .. Len(heads) : heads[k].row.n = rows[i].row.n
      /\ \A k, l \in 1 .. Len(heads) : heads[k].row.n = heads[l].row.n => k = l
  <2>1. \A i \in 1 .. Len(rows) : key[i] = rows[i].row.n
    OBVIOUS
  <2> HIDE DEF key, score
  <2>2. Len(heads) \in Nat
    BY <1>5, ListIs DEF Collapsed
  <2>3. \A k \in 1 .. Len(heads) : at[k] \in 1 .. Len(rows) /\ heads[k] = rows[at[k]]
    BY <1>5 DEF Collapsed
  <2>4. \A k \in 1 .. Len(heads) : heads[k].row.n = key[at[k]]
    BY <2>1, <2>3
  <2>5. \A i \in 1 .. Len(rows) : \E k \in 1 .. Len(heads) : key[at[k]] = key[i]
    BY <1>5 DEF Collapsed
  <2>6. \A k, l \in 1 .. Len(heads) : key[at[k]] = key[at[l]] => k = l
    BY <1>5 DEF Collapsed
  <2>7. \A i \in 1 .. Len(rows) : \E k \in 1 .. Len(heads) : heads[k].row.n = rows[i].row.n
    BY <2>1, <2>4, <2>5
  <2>8. \A k, l \in 1 .. Len(heads) : heads[k].row.n = heads[l].row.n => k = l
    BY <2>4, <2>6
  <2> QED BY <2>2, <2>3, <2>7, <2>8
<1>7. ASSUME NEW k \in 1 .. Len(heads)
      PROVE  /\ files[k].plugin = "mftscan" /\ files[k].guid = <<"mft", heads[k].row.n>>
             /\ Tells(files[k], heads[k].row.n)
  <2> DEFINE J == Same(heads[k])
             those == Pick(rows, J)
             n == heads[k].row.n
  <2>0. files[k] = Merged(those)
    OBVIOUS
  <2>1. PICK i \in 1 .. Len(rows) : heads[k] = rows[i]
    BY <1>6
  <2>2. J \in SUBSET (1 .. Len(rows)) /\ i \in J /\ (\A j \in J : rows[j].row.n = n)
        /\ \A j \in 1 .. Len(rows) : rows[j].row.n = n => j \in J
    BY <2>1
  <2>2a. AllRows(events)
    BY <1>3 DEF AllRaw, Raw, Told
  <2> HIDE DEF J, n
  <2>3. /\ AllRaw(those)
        /\ \A l \in 1 .. Len(those) : \E j \in J : those[l] = rows[j]
        /\ \A j \in J : \E l \in 1 .. Len(those) : those[l] = rows[j]
    BY <1>3, <2>2, PickRaw
  <2> HIDE DEF those
  <2>4. Len(those) \in Nat
    BY <2>3, ListIs DEF AllRaw
  <2>5. 1 \in 1 .. Len(those)
    BY <2>2, <2>3, <2>4
  <2>6. OfRecord(those, n)
    <3>1. ASSUME NEW l \in 1 .. Len(those)
          PROVE  those[l].plugin = "mftscan" /\ Attribute(those[l]) /\ those[l].row.n = n
      <4>1. PICK j \in J : those[l] = rows[j]
        BY <2>3
      <4> QED BY <1>3, <2>2, <4>1
    <3>2. ASSUME NEW r \in ToSet(world.mft), r.n = n PROVE \E l \in 1 .. Len(those) : those[l].row = r
      <4>1. PICK m \in 1 .. Len(events) : events[m].plugin = "mftscan" /\ events[m].row = r
        BY <2>2a DEF AllRows
      <4>2. PICK j \in 1 .. Len(rows) : rows[j] = events[m]
        BY <1>3, <4>1
      <4>3. j \in J
        BY <2>2, <3>2, <4>1, <4>2
      <4>4. PICK l \in 1 .. Len(those) : those[l] = rows[j]
        BY <2>3, <4>3
      <4> QED BY <4>1, <4>2, <4>4
    <3> QED BY <3>1, <3>2 DEF OfRecord
  <2>7. LET e == Merged(those) IN e.plugin = "mftscan" /\ e.guid = <<"mft", n>> /\ Tells(e, n)
    BY <2>3, <2>5, <2>6, MergedTells
  <2> HIDE DEF files
  <2> QED BY <2>0, <2>7 DEF n
<1>8. IsList(files) /\ Len(files) = Len(heads)
  <2> DEFINE n == Len(heads)
  <2>1. files = [k \in 1 .. n |-> files[k]]
    BY Zenon
  <2>2. n \in Nat
    BY <1>6
  <2> HIDE DEF files, n
  <2>3. IsList(files) /\ Len(files) = n
    BY <2>1, <2>2, FunIsList
  <2> QED BY <2>3 DEF n
<1> HIDE DEF files
<1>9. Bare(files) = {}
  BY <1>7, <1>8 DEF Bare
<1>10. Covers(events, events') /\ Cardinality(Bare(events')) = Cardinality(Bare(events))
  <2>1. IsList(events)
    BY DEF AllRaw
  <2>2. \A i \in 1 .. Len(events) : ~IsSession(events[i]) /\ events[i].guid # None => i \in others
    BY <1>4a
  <2> QED BY <1>1, <1>2, <1>4b, <1>8, <1>9, <2>1, <2>2, PickKeeps DEF rest
<1>11. ASSUME "mftscan" \in plugins, NEW r \in ToSet(world.mft) PROVE \E i : RecordAt(events', i, r.n)
  <2> DEFINE n == r.n
  <2>1. PICK m \in 1 .. Len(events) : events[m].plugin = "mftscan" /\ events[m].row = r
    BY <1>11 DEF AllRows
  <2>2. PICK j \in 1 .. Len(rows) : rows[j] = events[m]
    BY <1>3, <2>1
  <2>3. PICK k \in 1 .. Len(heads) : heads[k].row.n = n
    BY <1>6, <2>1, <2>2
  <2>4. n \in 1 .. 2
    BY MftNumbers
  <2> HIDE DEF n
  <2>5. IsList(rest) /\ Len(rest) \in Nat
    BY <1>4, ListIs DEF AllRaw
  <2> DEFINE t == rest \o files
             i == Len(rest) + k
  <2>6. /\ Len(t) = Len(rest) + Len(heads) /\ t[i] = files[k]
        /\ \A l \in 1 .. Len(t) :
             \/ l \in 1 .. Len(rest) /\ t[l] = rest[l]
             \/ l - Len(rest) \in 1 .. Len(heads) /\ t[l] = files[l - Len(rest)]
    BY <1>8, <2>5, Concat
  <2> HIDE DEF t
  <2>7. i \in 1 .. Len(t)
    BY <1>6, <2>5, <2>6
  <2>8. t[i].guid = <<"mft", n>> /\ Tells(t[i], n)
    BY <1>7, <2>3, <2>6
  <2>9. ASSUME NEW l \in 1 .. Len(t), t[l].guid = <<"mft", n>> PROVE l = i
    <3>1. ~(l \in 1 .. Len(rest) /\ t[l] = rest[l])
      BY <1>4, <2>4, <2>9 DEF NotFile
    <3>2. l - Len(rest) \in 1 .. Len(heads) /\ t[l] = files[l - Len(rest)]
      BY <2>6, <3>1
    <3>3. heads[l - Len(rest)].row.n = n
      BY <1>7, <2>9, <3>2
    <3>4. l - Len(rest) = k
      BY <1>6, <2>3, <3>2, <3>3
    <3> QED BY <2>5, <2>6, <3>4
  <2>10. RecordAt(t, i, n)
    BY <2>7, <2>8, <2>9 DEF RecordAt
  <2> QED BY <1>1, <2>10 DEF t, n
<1> QED BY <1>10, <1>11 DEF Recorded

LEMMA PickRecorded ==
    ASSUME world \in Worlds, NEW s, IsList(s), NEW I \in SUBSET (1 .. Len(s)), NEW t, IsList(t),
           \A i \in 1 .. Len(s) : i \in I \/ NotFile(s[i].guid),
           \A k \in 1 .. Len(t) : NotFile(t[k].guid), Recorded(s)
    PROVE  Recorded(Pick(s, I) \o t)
<1> DEFINE r == Pick(s, I)
           u == r \o t
<1> SUFFICES ASSUME "mftscan" \in plugins, NEW q \in ToSet(world.mft) PROVE \E k : RecordAt(u, k, q.n)
  BY DEF Recorded
<1>1. PICK at : SubList(s, I, r, at)
  BY PickAt
<1>2. /\ IsList(r) /\ Len(r) \in Nat /\ at \in [1 .. Len(r) -> I]
      /\ \A k \in 1 .. Len(r) : r[k] = s[at[k]]
      /\ \A k, l \in 1 .. Len(r) : k < l => at[k] < at[l]
      /\ \A i \in I : \E k \in 1 .. Len(r) : at[k] = i
  BY <1>1, ListIs DEF SubList
<1> HIDE DEF r
<1>3. /\ Len(u) = Len(r) + Len(t) /\ Len(t) \in Nat
      /\ \A k \in 1 .. Len(r) : k \in 1 .. Len(u) /\ u[k] = r[k]
      /\ \A k \in 1 .. Len(u) :
           \/ k \in 1 .. Len(r) /\ u[k] = r[k]
           \/ k - Len(r) \in 1 .. Len(t) /\ u[k] = t[k - Len(r)]
  BY <1>2, Concat, ListIs
<1> HIDE DEF u
<1>4. PICK i : RecordAt(s, i, q.n)
  BY DEF Recorded
<1>5. q.n \in 1 .. 2 /\ i \in 1 .. Len(s) /\ s[i].guid = <<"mft", q.n>> /\ Tells(s[i], q.n)
  BY <1>4, MftNumbers DEF RecordAt
<1>6. PICK k \in 1 .. Len(r) : at[k] = i
  BY <1>2, <1>5 DEF NotFile
<1>7. k \in 1 .. Len(u) /\ u[k] = s[i]
  BY <1>2, <1>3, <1>6
<1>8. ASSUME NEW l \in 1 .. Len(u), u[l].guid = <<"mft", q.n>> PROVE l = k
  <2>1. ~(l - Len(r) \in 1 .. Len(t) /\ u[l] = t[l - Len(r)])
    BY <1>5, <1>8 DEF NotFile
  <2>2. l \in 1 .. Len(r) /\ u[l] = r[l]
    BY <1>3, <2>1
  <2>3. at[l] \in 1 .. Len(s) /\ s[at[l]].guid = <<"mft", q.n>>
    BY <1>2, <1>8, <2>2
  <2>4. at[l] = at[k]
    BY <1>4, <1>6, <2>3 DEF RecordAt
  <2>5. ASSUME NEW x \in 1 .. Len(r), NEW y \in 1 .. Len(r), at[x] = at[y] PROVE x = y
    <3>1. ~(at[x] < at[y]) /\ ~(at[y] < at[x])
      <4>1. at[x] \in 1 .. Len(s)
        BY <1>2
      <4>2. ~(at[x] < at[x])
        BY <4>1
      <4> QED BY <2>5, <4>2, Zenon
    <3>2. ~(x < y) /\ ~(y < x)
      BY <1>2, <3>1
    <3> QED BY <1>2, <3>2
  <2> QED BY <1>6, <2>2, <2>4, <2>5
<1>9. RecordAt(u, k, q.n)
  BY <1>5, <1>7, <1>8 DEF RecordAt
<1> QED BY <1>9

LEMMA CollapseSessionsKeeps ==
    ASSUME world \in Worlds, AllRaw(events), CollapseSessions
    PROVE  /\ Covers(events, events') /\ Cardinality(Bare(events')) = Cardinality(Bare(events))
           /\ Recorded(events) => Recorded(events')
<1> DEFINE rows == Pick(events, {i \in 1 .. Len(events) : IsSession(events[i])})
           named == {i \in 1 .. Len(rows) : rows[i].guid # None}
           logins == Pick(rows, named)
           key == [i \in 1 .. Len(logins) |-> logins[i].guid]
           score == [i \in 1 .. Len(logins) |-> Early(logins[i])]
           t == Collapse(logins, key, score)
           I == {i \in 1 .. Len(events) : ~IsSession(events[i])}
<1>1. events' = Pick(events, I) \o t
  BY DEF CollapseSessions, Only
<1>2. AllRaw(rows) /\ \A k \in 1 .. Len(rows) : IsSession(rows[k])
  <2> DEFINE J == {i \in 1 .. Len(events) : IsSession(events[i])}
  <2>1. J \in SUBSET (1 .. Len(events)) /\ \A i \in J : IsSession(events[i])
    OBVIOUS
  <2> HIDE DEF J
  <2>2. AllRaw(Pick(events, J)) /\ \A k \in 1 .. Len(Pick(events, J)) : \E i \in J : Pick(events, J)[k] = events[i]
    BY <2>1, PickRaw
  <2> QED BY <2>1, <2>2 DEF J
<1> HIDE DEF rows
<1>3. AllRaw(logins) /\ \A k \in 1 .. Len(logins) : logins[k].guid # None /\ IsSession(logins[k])
  <2>1. named \in SUBSET (1 .. Len(rows)) /\ \A i \in named : rows[i].guid # None
    OBVIOUS
  <2> HIDE DEF named
  <2>2. AllRaw(logins) /\ \A k \in 1 .. Len(logins) : \E i \in named : logins[k] = rows[i]
    BY <1>2, <2>1, PickRaw
  <2> QED BY <1>2, <2>1, <2>2
<1> HIDE DEF logins
<1>4. \A i \in 1 .. Len(logins) : score[i] \in Nat
  BY <1>3, EarlyIs DEF AllRaw, Raw, Typed
<1> HIDE DEF key, score
<1>5. PICK at : Collapsed(logins, key, score, t, at)
  BY <1>3, <1>4, CollapseAt DEF AllRaw
<1> HIDE DEF t
<1>3a. \A k \in 1 .. Len(logins) : NotFile(logins[k].guid)
  BY <1>3 DEF AllRaw, Raw, Told, ToldLogin, ToldRow, IsSession
<1>6. IsList(t) /\ \A k \in 1 .. Len(t) : t[k].guid # None /\ NotFile(t[k].guid)
  <2>1. IsList(t) /\ \A k \in 1 .. Len(t) : at[k] \in 1 .. Len(logins) /\ t[k] = logins[at[k]]
    BY <1>5 DEF Collapsed
  <2> QED BY <1>3, <1>3a, <2>1
<1>7. Bare(t) = {}
  BY <1>6 DEF Bare
<1>8. /\ IsList(events) /\ I \in SUBSET (1 .. Len(events))
      /\ \A i \in 1 .. Len(events) : ~IsSession(events[i]) /\ events[i].guid # None => i \in I
      /\ Bare(events) \subseteq I /\ \A i \in 1 .. Len(events) : i \in I \/ NotFile(events[i].guid)
  <2>2. \A i \in 1 .. Len(events) : IsSession(events[i]) => NotFile(events[i].guid)
    BY DEF IsSession, AllRaw, Raw, Told, ToldLogin, ToldRow
  <2>1. \A i \in Bare(events) : ~IsSession(events[i])
    BY DEF Bare, IsSession, AllRaw, Raw, Told, ToldLogin
  <2> QED BY <2>1, <2>2 DEF AllRaw, Bare
<1> HIDE DEF I
<1>9. Covers(events, events') /\ Cardinality(Bare(events')) = Cardinality(Bare(events))
  BY <1>1, <1>6, <1>7, <1>8, PickKeeps
<1>10. Recorded(events) => Recorded(events')
  BY <1>1, <1>6, <1>8, PickRecorded
<1> QED BY <1>9, <1>10

(* No fact is there twice.                                                     *)
Solo(s) == \A i, j \in 1 .. Len(s) : SameFact(s[i], s[j]) => i = j

LEMMA DedupeKeeps ==
    ASSUME AllRaw(events), Dedupe
    PROVE  /\ Covers(events, events') /\ Cardinality(Bare(events')) = Cardinality(Bare(events))
           /\ Solo(events')
           /\ Recorded(events) => Recorded(events')
<1> DEFINE t == events'
<1>0. IsList(events) /\ Len(events) \in Nat
  BY ListIs DEF AllRaw
<1>1. PICK at :
        /\ IsList(t) /\ at \in [1 .. Len(t) -> 1 .. Len(events)]
        /\ \A k \in 1 .. Len(t) : t[k] = events[at[k]]
        /\ \A i \in 1 .. Len(events) : \E k \in 1 .. Len(t) :
             /\ at[k] = i \/ SameFact(events[at[k]], events[i])
             /\ Populated(events[at[k]]) >= Populated(events[i])
        /\ \A k, l \in 1 .. Len(t) : at[k] = at[l] \/ SameFact(events[at[k]], events[at[l]]) => k = l
  BY <1>0, DedupeIs
<1>2. Len(t) \in Nat
  BY <1>1, ListIs
<1> HIDE DEF t
<1>3. Covers(events, t)
  <2> SUFFICES ASSUME NEW i \in 1 .. Len(events), ~IsSession(events[i]), events[i].guid # None
               PROVE  \E k \in 1 .. Len(t) : NoLess(t[k], events[i])
    BY DEF Covers
  <2>1. PICK k \in 1 .. Len(t) : /\ at[k] = i \/ SameFact(events[at[k]], events[i])
                                 /\ Populated(events[at[k]]) >= Populated(events[i])
    BY <1>1
  <2>2. SameFact(events[at[k]], events[i])
    BY <2>1 DEF SameFact
  <2> QED BY <1>1, <2>1, <2>2 DEF NoLess
<1>4. Bare(t) \in SUBSET (1 .. Len(t)) /\ \A k \in Bare(t) : at[k] \in Bare(events)
  BY <1>1 DEF Bare
<1>5. \A i \in Bare(events) : \E k \in Bare(t) : at[k] = i
  <2> SUFFICES ASSUME NEW i \in Bare(events) PROVE \E k \in Bare(t) : at[k] = i
    OBVIOUS
  <2>1. i \in 1 .. Len(events) /\ events[i].plugin = "keys" /\ events[i].guid = None
    BY DEF Bare
  <2>2. PICK k \in 1 .. Len(t) : at[k] = i \/ SameFact(events[at[k]], events[i])
    BY <1>1, <2>1
  <2>3. at[k] = i
    BY <2>1, <2>2 DEF SameFact
  <2> QED BY <1>1, <2>1, <2>3 DEF Bare
<1>6. \A k, l \in Bare(t) : at[k] = at[l] => k = l
  BY <1>1, <1>4
<1>7. Cardinality(Bare(t)) = Cardinality(Bare(events))
  <2>1. OneToOne(Bare(t), Bare(events), at)
    BY <1>4, <1>5, <1>6 DEF OneToOne
  <2> QED BY <1>2, <1>4, <2>1, SameSize
<1>8. Solo(t)
  BY <1>1 DEF Solo
<1>9. ASSUME Recorded(events), "mftscan" \in plugins, NEW r \in ToSet(world.mft) PROVE \E k : RecordAt(t, k, r.n)
  <2>1. PICK i : RecordAt(events, i, r.n)
    BY <1>9 DEF Recorded
  <2>2. i \in 1 .. Len(events) /\ events[i].guid = <<"mft", r.n>> /\ Tells(events[i], r.n)
    BY <2>1 DEF RecordAt
  <2>3. PICK k \in 1 .. Len(t) : at[k] = i \/ SameFact(events[at[k]], events[i])
    BY <1>1, <2>2
  <2>4. at[k] \in 1 .. Len(events) /\ events[at[k]].guid = <<"mft", r.n>>
    BY <1>1, <2>2, <2>3 DEF SameFact
  <2>5. at[k] = i
    BY <2>1, <2>4 DEF RecordAt
  <2>6. ASSUME NEW l \in 1 .. Len(t), t[l].guid = <<"mft", r.n>> PROVE l = k
    <3>1. at[l] \in 1 .. Len(events) /\ events[at[l]].guid = <<"mft", r.n>>
      BY <1>1, <2>6
    <3>2. at[l] = at[k]
      BY <2>1, <2>5, <3>1 DEF RecordAt
    <3> QED BY <1>1, <3>2
  <2>7. t[k] = events[i]
    BY <1>1, <2>5
  <2>8. RecordAt(t, k, r.n)
    BY <2>2, <2>6, <2>7 DEF RecordAt
  <2> QED BY <2>8
<1>10. Recorded(events) => Recorded(t)
  BY <1>9 DEF Recorded
<1> QED BY <1>3, <1>7, <1>8, <1>10 DEF t

(* A link empties no column.                                                   *)
LEMMA PopulatedGrows ==
    ASSUME NEW e, NEW o, Kept(e, o), Fills(e, o) PROVE Populated(e) >= Populated(o)
<1> DEFINE some(x) == {f \in Counted : x[f] # None}
<1>2. ASSUME NEW f \in Counted, o[f] # None PROVE e[f] # None
  <2>1. CASE f \in {"pid", "ppid", "opid", "ooff", "target"}
    BY <1>2, <2>1 DEF Kept, Columns, Filled
  <2>2. CASE f \in {"user", "uid", "path"}
    <3>1. e[f] = o[f] \/ (o.uid \in WellKnown /\ e[f] = Canonical[o.uid])
      BY <1>2, <2>2 DEF Fills, Filled
    <3>2. o.uid \in WellKnown => Canonical[o.uid] \in Users /\ None \notin Users
      BY EnrichAssumption
    <3> QED BY <1>2, <3>1, <3>2
  <2> QED BY <2>1, <2>2 DEF Counted
<1>3. some(o) \subseteq some(e) /\ some(e) \subseteq Counted
  BY <1>2
<1>4. e.ts = o.ts
  BY DEF Kept, Columns, Filled
<1>5. IsFiniteSet(some(e))
  BY <1>3, CountedIs, FS_Subset
<1> HIDE DEF some
<1>6. Cardinality(some(o)) <= Cardinality(some(e)) /\ Cardinality(some(o)) \in Nat /\ Cardinality(some(e)) \in Nat
  BY <1>3, <1>5, FS_Subset, FS_CardinalityType
<1>7. \A x : Populated(x) = Cardinality(some(x)) + (IF x.ts # 0 THEN 1 ELSE 0)
  BY Zenon DEF Populated, some, Counted
<1>8. /\ Populated(e) = Cardinality(some(e)) + (IF e.ts # 0 THEN 1 ELSE 0)
      /\ Populated(o) = Cardinality(some(o)) + (IF o.ts # 0 THEN 1 ELSE 0)
  BY <1>7
<1> QED BY <1>4, <1>6, <1>8

LEMMA LinkKeeps ==
    ASSUME LinkInv(events, next), Linking, NEW e, Becomes(e), LinkOk(e)
    PROVE  /\ Covers(events, events') /\ Bare(events') = Bare(events)
           /\ Solo(events) => Solo(events')
           /\ Recorded(events) => Recorded(events')
<1> DEFINE s == events
           t == events'
           n == next
           o == Current
<1>1. n \in 1 .. Len(s) /\ Len(s) \in Nat /\ AllTold(s)
  BY CurrentIs
<1>2. t = [s EXCEPT ![n] = e] /\ o = s[n] /\ Kept(e, o) /\ Fills(e, o)
  BY DEF Becomes, Current, LinkOk
<1>3. DOMAIN s = 1 .. Len(s)
  BY <1>1, ListIs DEF AllTold
<1> HIDE DEF t, s, n, o
<1>4. Len(t) = Len(s) /\ t[n] = e /\ \A i \in 1 .. Len(s) : i # n => t[i] = s[i]
  <2>1. t = [i \in 1 .. Len(s) |-> t[i]] /\ t[n] = e /\ \A i \in 1 .. Len(s) : i # n => t[i] = s[i]
    BY <1>1, <1>2, <1>3
  <2> QED BY <1>1, <2>1, FunIsList
<1>5. \A i \in 1 .. Len(s) :
        /\ t[i].obj = s[i].obj /\ t[i].act = s[i].act /\ t[i].guid = s[i].guid /\ t[i].plugin = s[i].plugin
        /\ t[i].opid = s[i].opid /\ t[i].target = s[i].target
        /\ t[i].row = s[i].row /\ t[i].created = s[i].created /\ t[i].previous = s[i].previous
  <2>1. /\ e.obj = o.obj /\ e.act = o.act /\ e.guid = o.guid /\ e.plugin = o.plugin
        /\ e.opid = o.opid /\ e.target = o.target
        /\ e.row = o.row /\ e.created = o.created /\ e.previous = o.previous
    BY <1>2 DEF Kept, Columns, Filled
  <2> QED BY <1>2, <1>4, <2>1
<1>6. \A i \in 1 .. Len(s) : Populated(t[i]) >= Populated(s[i])
  <2>1. Populated(e) >= Populated(o)
    BY <1>2, PopulatedGrows
  <2>2. \A i \in 1 .. Len(s) : Populated(s[i]) >= Populated(s[i])
    BY PopulatedIs
  <2> QED BY <1>2, <1>4, <2>1, <2>2
<1>7. Covers(s, t)
  BY <1>4, <1>5, <1>6 DEF Covers, NoLess, SameFact
<1>8. Bare(t) = Bare(s)
  BY <1>4, <1>5 DEF Bare
<1>9. Solo(s) => Solo(t)
  BY <1>4, <1>5 DEF Solo, SameFact
<1>10. ASSUME NEW i, NEW m, RecordAt(s, i, m) PROVE RecordAt(t, i, m)
  <2>1. i \in 1 .. Len(t) /\ \A j \in 1 .. Len(t) : t[j].guid = <<"mft", m>> <=> j = i
    BY <1>4, <1>5, <1>10 DEF RecordAt
  <2>2. Tells(t[i], m)
    BY <1>5, <1>10 DEF RecordAt, Tells
  <2> QED BY <2>1, <2>2 DEF RecordAt
<1>11. Recorded(s) => Recorded(t)
  BY <1>10 DEF Recorded
<1> QED BY <1>7, <1>8, <1>9, <1>11 DEF s, t

LEMMA ConcatRows ==
    ASSUME NEW s, NEW t, IsList(s), IsList(t)
    PROVE  /\ Unmerged(s) /\ Unmerged(t) => Unmerged(s \o t)
           /\ AllRows(s) \/ AllRows(t) => AllRows(s \o t)
<1> DEFINE u == s \o t
<1>1. /\ Len(s) \in Nat /\ Len(t) \in Nat /\ Len(u) = Len(s) + Len(t)
      /\ \A i \in 1 .. Len(s) : u[i] = s[i]
      /\ \A i \in 1 .. Len(t) : u[Len(s) + i] = t[i]
      /\ \A i \in 1 .. Len(u) :
           \/ i \in 1 .. Len(s) /\ u[i] = s[i]
           \/ i - Len(s) \in 1 .. Len(t) /\ u[i] = t[i - Len(s)]
  BY Concat, ListIs
<1> HIDE DEF u
<1>2. Unmerged(s) /\ Unmerged(t) => Unmerged(u)
  BY <1>1 DEF Unmerged
<1>3. ASSUME AllRows(s) \/ AllRows(t), NEW r \in ToSet(world.mft)
      PROVE  \E i \in 1 .. Len(u) : u[i].plugin = "mftscan" /\ u[i].row = r
  <2>1. CASE AllRows(s)
    <3>1. PICK i \in 1 .. Len(s) : s[i].plugin = "mftscan" /\ s[i].row = r
      BY <2>1 DEF AllRows
    <3> QED BY <1>1, <3>1
  <2>2. CASE AllRows(t)
    <3>1. PICK i \in 1 .. Len(t) : t[i].plugin = "mftscan" /\ t[i].row = r
      BY <2>2 DEF AllRows
    <3>2. Len(s) + i \in 1 .. Len(u) /\ u[Len(s) + i] = t[i]
      BY <1>1
    <3> QED BY <3>1, <3>2
  <2> QED BY <1>3, <2>1, <2>2
<1>4. AllRows(s) \/ AllRows(t) => AllRows(u)
  BY <1>3 DEF AllRows
<1> QED BY <1>2, <1>4 DEF u

LEMMA FactsPrimed ==
    ASSUME world' = world, plugins' = plugins
    PROVE  /\ Unmerged(events') => Unmerged(events)'
           /\ AllRows(events') => AllRows(events)'
           /\ Recorded(events') => Recorded(events)'
<1>1. Unmerged(events') => Unmerged(events)'
  BY DEF Unmerged, Attribute
<1>2. AllRows(events') => AllRows(events)'
  BY DEF AllRows
<1>3. ASSUME NEW i, NEW n, RecordAt(events', i, n) PROVE RecordAt(events, i, n)'
  <2>1. \A attr : Attributes(n, attr)' = Attributes(n, attr)
    BY DEF Attributes
  <2>2. Tells(events'[i], n)
    BY <1>3 DEF RecordAt
  <2>3. Tells(events[i], n)'
    BY <2>1, <2>2 DEF Tells
  <2> QED BY <1>3, <2>3 DEF RecordAt
<1>4. Recorded(events') => Recorded(events)'
  BY <1>3 DEF Recorded
<1> QED BY <1>1, <1>2, <1>4

(* The inductive invariant of the facts: until they are merged the attributes  *)
(* are all there, one by one; then every pass covers what was loaded and each  *)
(* record is one event.                                                        *)
Covered == IsList(loaded) /\ Covers(loaded, events) /\ Cardinality(Bare(events)) = Cardinality(Bare(loaded))

FactsInv ==
    /\ pc \in {"load", "mft"} => Unmerged(events)
    /\ pc = "load" => \A k \in 1 .. Len(Plugins) :
                        k < next /\ Plugins[k] = "mftscan" /\ "mftscan" \in plugins => AllRows(events)
    /\ pc = "mft" /\ "mftscan" \in plugins => AllRows(events)
    /\ pc # "load" => Covered
    /\ pc \in {"sessions", "dedupe", "link", "done"} => Recorded(events)
    /\ pc \in {"link", "done"} => Solo(events)

LEMMA CoveredPrimed ==
    ASSUME Covered, loaded' = loaded, Covers(events, events'), Cardinality(Bare(events')) = Cardinality(Bare(events))
    PROVE  Covered'
<1>1. IsList(loaded') /\ Covers(loaded', events') /\ Cardinality(Bare(events')) = Cardinality(Bare(loaded'))
  BY CoversIs DEF Covered
<1> QED BY <1>1 DEF Covered

LEMMA FactsInit == Init => FactsInv
<1> SUFFICES ASSUME Init PROVE FactsInv
  OBVIOUS
<1>1. Unmerged(<<>>)
  BY DEF Unmerged
<1> QED BY <1>1, PluginsAre DEF Init, FactsInv

LEMMA FactsLoad == EnrichInv /\ FactsInv /\ Load => FactsInv'
<1> SUFFICES ASSUME EnrichInv, FactsInv, Load PROVE FactsInv'
  OBVIOUS
<1> DEFINE plugin == Plugins[next]
<1>1. /\ pc = "load" /\ pc' = pc /\ next \in 1 .. Len(Plugins) /\ Len(Plugins) = 14 /\ next' = next + 1
      /\ world \in Worlds /\ world' = world /\ plugins' = plugins
      /\ IsList(events) /\ Unmerged(events) /\ plugin \in ToSet(Plugins)
  BY PluginsAre DEF EnrichInv, FactsInv, Load, AllRaw
<1>2. /\ Unmerged(events') /\ (AllRows(events) => AllRows(events'))
      /\ plugin = "mftscan" /\ plugin \in plugins => AllRows(events')
  <2>1. CASE plugin \in plugins
    <3>1. IsList(Rows(plugin)) /\ Unmerged(Rows(plugin)) /\ (plugin = "mftscan" => AllRows(Rows(plugin)))
      BY <1>1, <2>1, RowsRaw DEF AllRaw
    <3>2. events' = events \o Rows(plugin)
      BY <2>1 DEF Load
    <3> QED BY <1>1, <3>1, <3>2, ConcatRows
  <2>2. CASE plugin \notin plugins
    BY <1>1, <2>2 DEF Load
  <2> QED BY <2>1, <2>2
<1>3. Unmerged(events)' /\ (AllRows(events') => AllRows(events)')
  BY <1>1, <1>2, FactsPrimed
<1>4. ASSUME NEW k \in 1 .. Len(Plugins), k < next + 1, Plugins[k] = "mftscan", "mftscan" \in plugins
      PROVE  AllRows(events)'
  <2>1. CASE k = next
    BY <1>2, <1>3, <1>4, <2>1
  <2>2. CASE k < next
    BY <1>1, <1>2, <1>3, <1>4, <2>2 DEF FactsInv
  <2> QED BY <1>1, <1>4, <2>1, <2>2
<1> QED BY <1>1, <1>3, <1>4 DEF FactsInv

LEMMA FactsLoaded == EnrichInv /\ FactsInv /\ Loaded => FactsInv'
<1> SUFFICES ASSUME EnrichInv, FactsInv, Loaded PROVE FactsInv'
  OBVIOUS
<1>1. /\ pc = "load" /\ pc' = "mft" /\ world' = world /\ plugins' = plugins /\ events' = events
      /\ loaded' = events /\ next > Len(Plugins) /\ IsList(events) /\ Unmerged(events)
  BY DEF EnrichInv, FactsInv, Loaded, AllRaw
<1>2. "mftscan" \in plugins => AllRows(events)
  <2>1. PICK k \in 1 .. Len(Plugins) : Plugins[k] = "mftscan"
    <3>1. "mftscan" \in ToSet(Plugins)
      <4>1. Plugins[12] = "mftscan" /\ 12 \in 1 .. Len(Plugins)
        BY PluginsAre DEF Plugins
      <4> QED BY <4>1, PluginsAre
    <3> QED BY <3>1, PluginsAre
  <2>2. k < next
    BY <1>1, <2>1, PluginsAre DEF EnrichInv
  <2> QED BY <1>1, <2>1, <2>2 DEF FactsInv
<1>3. Unmerged(events)' /\ ("mftscan" \in plugins' => AllRows(events)')
  BY <1>1, <1>2, FactsPrimed
<1>4. Covered'
  <2>1. Covers(events, events)
    BY NoLessIs DEF Covers
  <2>2. IsList(loaded') /\ Covers(loaded', events') /\ Cardinality(Bare(events')) = Cardinality(Bare(loaded'))
    BY <1>1, <2>1
  <2> QED BY <2>2 DEF Covered
<1> QED BY <1>1, <1>3, <1>4 DEF FactsInv

LEMMA FactsMFT == EnrichInv /\ FactsInv /\ CollapseMFT => FactsInv'
<1> SUFFICES ASSUME EnrichInv, FactsInv, CollapseMFT PROVE FactsInv'
  OBVIOUS
<1>1. /\ pc = "mft" /\ pc' = "sessions" /\ world' = world /\ plugins' = plugins /\ loaded' = loaded
      /\ world \in Worlds /\ AllRaw(events) /\ Unmerged(events) /\ Covered
      /\ "mftscan" \in plugins => AllRows(events)
  BY DEF EnrichInv, FactsInv, CollapseMFT
<1>2. Covers(events, events') /\ Cardinality(Bare(events')) = Cardinality(Bare(events)) /\ Recorded(events')
  BY <1>1, CollapseMFTKeeps
<1>3. Covered' /\ Recorded(events)'
  BY <1>1, <1>2, CoveredPrimed, FactsPrimed
<1> QED BY <1>1, <1>3 DEF FactsInv

LEMMA FactsSessions == EnrichInv /\ FactsInv /\ CollapseSessions => FactsInv'
<1> SUFFICES ASSUME EnrichInv, FactsInv, CollapseSessions PROVE FactsInv'
  OBVIOUS
<1>1. /\ pc = "sessions" /\ pc' = "dedupe" /\ world' = world /\ plugins' = plugins /\ loaded' = loaded
      /\ world \in Worlds /\ AllRaw(events) /\ Covered /\ Recorded(events)
  BY DEF EnrichInv, FactsInv, CollapseSessions
<1>2. Covers(events, events') /\ Cardinality(Bare(events')) = Cardinality(Bare(events)) /\ Recorded(events')
  BY <1>1, CollapseSessionsKeeps
<1>3. Covered' /\ Recorded(events)'
  BY <1>1, <1>2, CoveredPrimed, FactsPrimed
<1> QED BY <1>1, <1>3 DEF FactsInv

LEMMA FactsDedupe == EnrichInv /\ FactsInv /\ Dedupe => FactsInv'
<1> SUFFICES ASSUME EnrichInv, FactsInv, Dedupe PROVE FactsInv'
  OBVIOUS
<1>1. /\ pc = "dedupe" /\ pc' = "link" /\ world' = world /\ plugins' = plugins /\ loaded' = loaded
      /\ AllRaw(events) /\ Covered /\ Recorded(events)
  BY DEF EnrichInv, FactsInv, Dedupe
<1>2. /\ Covers(events, events') /\ Cardinality(Bare(events')) = Cardinality(Bare(events))
      /\ Solo(events') /\ Recorded(events')
  BY <1>1, DedupeKeeps
<1>3. Covered' /\ Recorded(events)' /\ Solo(events)'
  BY <1>1, <1>2, CoveredPrimed, FactsPrimed DEF Solo
<1> QED BY <1>1, <1>3 DEF FactsInv

LEMMA FactsLink == EnrichInv /\ FactsInv /\ LinkAny => FactsInv'
<1> SUFFICES ASSUME EnrichInv, FactsInv, LinkAny PROVE FactsInv'
  OBVIOUS
<1>1. /\ pc = "link" /\ LinkInv(events, next) /\ Linking /\ Covered /\ Recorded(events) /\ Solo(events)
      /\ \E e : Becomes(e) /\ LinkOk(e)
  BY LinkAnyOk DEF FactsInv
<1>2. PICK e : Becomes(e) /\ LinkOk(e)
  BY <1>1
<1>3. Covers(events, events') /\ Bare(events') = Bare(events) /\ Solo(events') /\ Recorded(events')
  BY <1>1, <1>2, LinkKeeps
<1>4. world' = world /\ plugins' = plugins /\ pc' = pc /\ loaded' = loaded
  BY <1>2 DEF Becomes
<1>5. Covered' /\ Recorded(events)' /\ Solo(events)'
  BY <1>1, <1>3, <1>4, CoveredPrimed, FactsPrimed DEF Solo
<1> QED BY <1>1, <1>4, <1>5 DEF FactsInv

LEMMA FactsStay == FactsInv /\ (Enriched \/ UNCHANGED vars) => FactsInv'
<1> SUFFICES ASSUME FactsInv, Enriched \/ UNCHANGED vars PROVE FactsInv'
  OBVIOUS
<1>1. /\ UNCHANGED <<world, plugins, next, events, loaded>>
      /\ pc' = pc \/ (pc = "link" /\ pc' = "done")
  BY DEF Enriched, vars
<1>2. Covered => Covered'
  BY <1>1 DEF Covered
<1>3. /\ Unmerged(events) => Unmerged(events)'
      /\ AllRows(events) => AllRows(events)'
      /\ Recorded(events) => Recorded(events)'
      /\ Solo(events) => Solo(events)'
  BY <1>1, FactsPrimed DEF Solo
<1> QED BY <1>1, <1>2, <1>3 DEF FactsInv

THEOREM FactsInductive == Spec => []FactsInv
<1>1. Init => FactsInv
  BY FactsInit
<1>2. EnrichInv /\ FactsInv /\ [Next]_vars => FactsInv'
  BY FactsLoad, FactsLoaded, FactsMFT, FactsSessions, FactsDedupe, FactsLink, FactsStay DEF Next, LinkAny
<1> QED BY <1>1, <1>2, EnrichIsInductive, PTL DEF Spec

(* As many are picked as there are places.                                     *)
LEMMA PickLen ==
    ASSUME NEW s, IsList(s), NEW I \in SUBSET (1 .. Len(s)) PROVE Len(Pick(s, I)) = Cardinality(I)
<1> DEFINE r == Pick(s, I)
           n == Len(r)
<1>1. PICK at : SubList(s, I, r, at)
  BY PickAt
<1>2. /\ n \in Nat /\ at \in [1 .. n -> I] /\ Len(s) \in Nat
      /\ \A k, l \in 1 .. n : k < l => at[k] < at[l]
      /\ \A i \in I : \E k \in 1 .. n : at[k] = i
  BY <1>1, ListIs DEF SubList
<1> HIDE DEF n
<1>3. ASSUME NEW k \in 1 .. n, NEW l \in 1 .. n, at[k] = at[l] PROVE k = l
  <2>1. at[k] \in 1 .. Len(s) /\ at[l] \in 1 .. Len(s)
    BY <1>2
  <2> QED BY <1>2, <1>3, <2>1
<1>4. OneToOne(1 .. n, I, at)
  BY <1>2, <1>3 DEF OneToOne
<1>5. Cardinality(1 .. n) = Cardinality(I)
  BY <1>2, <1>4, SameSize
<1>6. Cardinality(1 .. n) = n
  BY <1>2, FS_Interval
<1> QED BY <1>5, <1>6 DEF n

(* FactsOnce (enrich.go:121): whatever was loaded, every fact of every PID is  *)
(* there exactly once in the end and as full as it was found, and no event     *)
(* without a guid is lost.                                                     *)
THEOREM FactIsOnce == Spec => []FactsOnce
<1>1. EnrichInv /\ FactsInv => FactsOnce
  <2> SUFFICES ASSUME EnrichInv, FactsInv, pc = "done" PROVE FactsOnce
    BY DEF FactsOnce
  <2>1. /\ Final = 1 .. Len(events) /\ Solo(events) /\ IsList(loaded) /\ IsList(events)
        /\ Covers(loaded, events) /\ Cardinality(Bare(events)) = Cardinality(Bare(loaded))
    BY DEF Final, EnrichInv, LinkInv, Statics, AllTold, FactsInv, Covered
  <2>2. \A e, f : Fact(e) = Fact(f) /\ e.guid # None <=> SameFact(e, f)
    BY DEF Fact, SameFact
  <2>3. \A i, j \in Final : events[i].guid # None /\ Fact(events[i]) = Fact(events[j]) => i = j
    BY <2>1, <2>2 DEF Solo
  <2>4. ASSUME NEW e \in ToSet(loaded), e.obj # "user_session", e.guid # None
        PROVE  \E i \in Final : Fact(events[i]) = Fact(e) /\ Populated(events[i]) >= Populated(e)
    <3>1. PICK l \in 1 .. Len(loaded) : loaded[l] = e
      BY DEF ToSet
    <3>2. PICK i \in 1 .. Len(events) : NoLess(events[i], e)
      BY <2>1, <2>4, <3>1 DEF Covers, IsSession
    <3> QED BY <2>1, <2>2, <3>2 DEF NoLess
  <2>5. /\ Len(Pick(events, Bare(events))) = Cardinality(Bare(events))
        /\ Len(Pick(loaded, Bare(loaded))) = Cardinality(Bare(loaded))
    <3>1. Bare(events) \in SUBSET (1 .. Len(events)) /\ Bare(loaded) \in SUBSET (1 .. Len(loaded))
      BY DEF Bare
    <3>2. Len(Pick(events, Bare(events))) = Cardinality(Bare(events))
      BY <2>1, <3>1, PickLen
    <3>3. Len(Pick(loaded, Bare(loaded))) = Cardinality(Bare(loaded))
      BY <2>1, <3>1, PickLen
    <3> QED BY <3>2, <3>3
  <2>6. LET Those(s) == Only(s, LAMBDA e : e.plugin = "keys" /\ e.guid = None)
        IN Len(Those(events)) = Len(Those(loaded))
    BY <2>1, <2>5 DEF Only, Bare
  <2> QED BY <2>3, <2>4, <2>6, Zenon DEF FactsOnce
<1> QED BY <1>1, EnrichIsInductive, FactsInductive, PTL

(* RecordOnce (native-engine.md:120, enrich.go:266): however many attributes a *)
(* record of the MFT has and in whatever order, it is one file with its        *)
(* longest name and both its creation times.                                   *)
THEOREM RecordIsOnce == Spec => []RecordOnce
<1>1. EnrichInv /\ FactsInv => RecordOnce
  <2> DEFINE Stands(i, n) == {j \in Final : events[j].guid = <<"mft", n>>} = {i}
             SaidOf(i, n) ==
                \A si \in Attributes(n, "SI"), fn \in Attributes(n, "FN") :
                  /\ Attributes(n, "SI") = {si}
                  /\ fn.name > 0 /\ \A r \in Attributes(n, "FN") \ {fn} : r.name < fn.name
                  =>
                  /\ events[i].row.name = fn.name
                  /\ {events[i].created, events[i].previous} \ {0} = {si.created, fn.created} \ {0}
                  /\ si.created # 0 => events[i].created = si.created
  <2>1. \A i, n : Tells(events[i], n) => SaidOf(i, n)
    BY DEF Tells
  <2>2. (pc = "done" /\ "mftscan" \in plugins =>
           \A n \in {r.n : r \in ToSet(world.mft)} : \E i \in Final : Stands(i, n) /\ SaidOf(i, n))
          => RecordOnce
    BY Zenon DEF RecordOnce
  <2> HIDE DEF SaidOf
  <2> SUFFICES ASSUME EnrichInv, FactsInv, pc = "done", "mftscan" \in plugins, NEW r \in ToSet(world.mft)
               PROVE  \E i \in Final : Stands(i, r.n) /\ SaidOf(i, r.n)
    BY <2>2
  <2>3. Final = 1 .. Len(events) /\ Recorded(events)
    BY DEF Final, FactsInv
  <2>4. PICK i : RecordAt(events, i, r.n)
    BY <2>3 DEF Recorded
  <2>5. i \in Final /\ Stands(i, r.n)
    BY <2>3, <2>4 DEF RecordAt
  <2> QED BY <2>1, <2>4, <2>5 DEF RecordAt
<1> QED BY <1>1, EnrichIsInductive, FactsInductive, PTL

=============================================================================
