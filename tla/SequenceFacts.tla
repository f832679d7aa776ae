--------------------------- MODULE SequenceFacts ----------------------------
(***************************************************************************)
(* Facts about sequences that the proofs share, and the one form of        *)
(* induction the provers can use: a set of numbers has a least element.    *)
(***************************************************************************)
EXTENDS Collections, WellFoundedInduction, TLAPS

\* A non-empty set of numbers has a least element.
LEMMA LeastNat ==
  ASSUME NEW T, T \subseteq Nat, T # {}
  PROVE  \E m \in T : \A n \in T : m <= n
<1>1. \E m \in T : \A n \in T : ~(<<n, m>> \in OpToRel(<, Nat))
  BY NatLessThanWellFounded, WFMin
<1>2. PICK m \in T : \A n \in T : ~(<<n, m>> \in OpToRel(<, Nat))
  BY <1>1
<1>3. \A n \in T : ~(n < m)
  BY <1>2 DEF OpToRel
<1> QED
  BY <1>3

\* Induction up to a bound: a set of numbers that has 0, and with each number
\* below the bound the next, has the bound.
LEMMA UpTo ==
  ASSUME NEW n \in Nat, NEW T, 0 \in T, \A i \in 0..n : i \in T /\ i < n => i + 1 \in T
  PROVE  \A i \in 0..n : i \in T
<1> SUFFICES ASSUME NEW j \in 0..n, j \notin T PROVE FALSE
  OBVIOUS
<1> DEFINE Out == {i \in 0..n : i \notin T}
<1>1. Out \subseteq Nat /\ Out # {}
  OBVIOUS
<1>2. PICK m \in Out : \A i \in Out : m <= i
  BY <1>1, LeastNat
<1>3. m - 1 \in 0..n /\ m - 1 < n /\ m - 1 \notin Out
  BY <1>2
<1> QED
  BY <1>2, <1>3

\* The function by which Filter is defined.
Filters(F, s, S) ==
  F = [i \in 0..Len(s) |->
         IF i = 0 THEN << >>
         ELSE IF s[i] \in S THEN Append(F[i - 1], s[i]) ELSE F[i - 1]]

\* There is such a function: each of its values is made from the one before.
LEMMA FilterExists ==
  ASSUME NEW A, NEW s \in Seq(A), NEW S
  PROVE  \E F : Filters(F, s, S)
<1> DEFINE Step(F, i) == IF s[i] \in S THEN Append(F[i - 1], s[i]) ELSE F[i - 1]
           Upto(F, n) == F = [i \in 0..n |-> IF i = 0 THEN << >> ELSE Step(F, i)]
           Made == {n \in 0..Len(s) : \E F : Upto(F, n)}
<1>0. Len(s) \in Nat
  OBVIOUS
<1>1. 0 \in Made
  <2>1. Upto([i \in 0..0 |-> << >>], 0)
    OBVIOUS
  <2> HIDE DEF Upto
  <2> QED
    BY <1>0, <2>1
<1>2. ASSUME NEW n \in 0..Len(s), n \in Made, n < Len(s)
      PROVE  n + 1 \in Made
  <2>1. PICK F : Upto(F, n)
    BY <1>2
  <2> DEFINE G == [i \in 0..(n + 1) |-> IF i = n + 1 THEN Step(F, i) ELSE F[i]]
  <2>2. \A i \in 0..n : G[i] = F[i]
    BY <1>0
  <2>3. \A i \in 0..n : F[i] = IF i = 0 THEN << >> ELSE Step(F, i)
    BY <2>1
  <2>4. \A i \in 0..(n + 1) : i # 0 => Step(G, i) = Step(F, i)
    <3> HIDE DEF G
    <3> QED
      BY <1>0, <2>2
  <2>5. \A i \in 0..(n + 1) : G[i] = IF i = 0 THEN << >> ELSE Step(G, i)
    <3>1. G[n + 1] = Step(F, n + 1) /\ n + 1 # 0
      BY <1>0
    <3> HIDE DEF G, Step
    <3> QED
      BY <1>0, <2>2, <2>3, <2>4, <3>1
  <2>6. Upto(G, n + 1)
    <3>1. G = [i \in 0..(n + 1) |-> G[i]]
      OBVIOUS
    <3> HIDE DEF G, Step
    <3> QED
      BY <2>5, <3>1
  <2>7. n + 1 \in 0..Len(s)
    BY <1>0, <1>2
  <2> HIDE DEF G, Upto
  <2> QED
    BY <2>6, <2>7
<1>3. \A i \in 0..Len(s) : i \in Made
  <2>1. \A i \in 0..Len(s) : i \in Made /\ i < Len(s) => i + 1 \in Made
    BY <1>2
  <2> HIDE DEF Made
  <2> QED
    BY <1>0, <1>1, <2>1, UpTo
<1>4. Len(s) \in Made
  <2> HIDE DEF Made
  <2> QED
    BY <1>0, <1>3
<1>5. PICK F : Upto(F, Len(s))
  <2> HIDE DEF Upto
  <2> QED
    BY <1>4
<1>6. Filters(F, s, S)
  BY <1>5 DEF Filters
<1> QED
  BY <1>6

\* pos says where in s each element of t was, which are the elements of s up to n
\* that are in S.
Embeds(pos, t, s, n, S) ==
  /\ \A k \in 1..Len(t) : t[k] = s[pos[k]] /\ s[pos[k]] \in S
  /\ \A k, l \in 1..Len(t) : k < l => pos[k] < pos[l]
  /\ \A i \in 1..n : s[i] \in S => \E k \in 1..Len(t) : pos[k] = i

\* Filter keeps the elements that are in the set, all of them, in their order.
LEMMA FilterFacts ==
  ASSUME NEW A, NEW s \in Seq(A), NEW S
  PROVE  /\ Filter(s, S) \in Seq(A)
         /\ Len(Filter(s, S)) <= Len(s)
         /\ \E pos \in [1..Len(Filter(s, S)) -> 1..Len(s)] :
              Embeds(pos, Filter(s, S), s, Len(s), S)
<1> DEFINE Kept(t, n) == /\ t \in Seq(A) /\ Len(t) <= n
                         /\ \E pos \in [1..Len(t) -> 1..n] : Embeds(pos, t, s, n, S)
<1>0. Len(s) \in Nat
  OBVIOUS
<1>1. PICK F : Filters(F, s, S) /\ Filter(s, S) = F[Len(s)]
  <2>1. Filter(s, S) = (CHOOSE F : Filters(F, s, S))[Len(s)]
    BY DEF Filter, Filters
  <2> QED
    BY <2>1, FilterExists
<1>2. \A i \in 0..Len(s) : F[i] = IF i = 0 THEN << >>
                               ELSE IF s[i] \in S THEN Append(F[i - 1], s[i]) ELSE F[i - 1]
  BY <1>1 DEF Filters
<1> DEFINE Good == {n \in 0..Len(s) : Kept(F[n], n)}
<1>3. 0 \in Good
  <2>1. F[0] = << >>
    BY <1>0, <1>2
  <2>2. Kept(<< >>, 0)
    <3> DEFINE e == << >>
               none == [k \in 1..0 |-> 0]
    <3>1. e \in Seq(A) /\ Len(e) = 0
      OBVIOUS
    <3>2. none \in [1..0 -> 1..0]
      OBVIOUS
    <3> HIDE DEF e, none
    <3>0. \A k \in 1..0 : FALSE
      OBVIOUS
    <3>3. Embeds(none, e, s, 0, S)
      BY <3>0, <3>1 DEF Embeds
    <3>4. none \in [1..Len(e) -> 1..0] /\ Len(e) <= 0
      BY <3>1, <3>2
    <3>5. Kept(e, 0)
      BY <3>1, <3>3, <3>4
    <3> QED
      BY <3>5 DEF e
  <2> HIDE DEF Kept
  <2> QED
    BY <1>0, <2>1, <2>2
<1>4. ASSUME NEW n \in 0..Len(s), n \in Good, n < Len(s)
      PROVE  n + 1 \in Good
  <2>0. n \in Nat /\ n + 1 \in 1..Len(s) /\ n + 1 \in 0..Len(s) /\ s[n + 1] \in A
    BY <1>0, <1>4
  <2> DEFINE t == F[n]
  <2>1. Kept(t, n)
    BY <1>4
  <2>2. F[n + 1] = IF s[n + 1] \in S THEN Append(t, s[n + 1]) ELSE t
    BY <1>0, <1>2, <2>0
  <2> HIDE DEF t
  <2>3. PICK pos \in [1..Len(t) -> 1..n] : Embeds(pos, t, s, n, S)
    BY <2>1
  <2>4. t \in Seq(A) /\ Len(t) \in Nat /\ Len(t) <= n
    BY <2>1
  <2>5. CASE s[n + 1] \notin S
    <3>1. pos \in [1..Len(t) -> 1..(n + 1)]
      BY <2>0, <2>3
    <3>2. Embeds(pos, t, s, n + 1, S)
      BY <2>0, <2>3, <2>5 DEF Embeds
    <3>3. Kept(t, n + 1)
      BY <2>0, <2>4, <3>1, <3>2
    <3> HIDE DEF Kept
    <3> QED
      BY <2>0, <2>2, <2>5, <3>3
  <2>6. CASE s[n + 1] \in S
    <3> DEFINE m == Len(t)
               u == Append(t, s[n + 1])
               new == [k \in 1..(m + 1) |-> IF k = m + 1 THEN n + 1 ELSE pos[k]]
    <3>1. /\ u \in Seq(A) /\ Len(u) = m + 1
          /\ \A k \in 1..m : u[k] = t[k]
          /\ u[m + 1] = s[n + 1]
      BY <2>0, <2>4
    <3>0. m \in Nat /\ m <= n /\ pos \in [1..m -> 1..n]
      BY <2>3, <2>4
    <3>e. /\ \A k \in 1..m : t[k] = s[pos[k]] /\ s[pos[k]] \in S
          /\ \A k, l \in 1..m : k < l => pos[k] < pos[l]
          /\ \A i \in 1..n : s[i] \in S => \E k \in 1..m : pos[k] = i
      BY <2>3 DEF Embeds
    <3> HIDE DEF m
    <3>2. /\ new \in [1..(m + 1) -> 1..(n + 1)]
          /\ new[m + 1] = n + 1
          /\ \A k \in 1..m : new[k] = pos[k] /\ pos[k] \in 1..n
      BY <2>0, <3>0
    <3> HIDE DEF u, new
    <3>3. \A k \in 1..(m + 1) : u[k] = s[new[k]] /\ s[new[k]] \in S
      BY <2>6, <3>0, <3>1, <3>2, <3>e
    <3>4. ASSUME NEW k \in 1..(m + 1), NEW l \in 1..(m + 1), k < l
          PROVE  new[k] < new[l]
      <4>1. k \in 1..m /\ new[k] = pos[k] /\ pos[k] \in 1..n
        BY <3>0, <3>2, <3>4
      <4>2. CASE l = m + 1
        BY <2>0, <3>2, <4>1, <4>2
      <4>3. CASE l # m + 1
        BY <3>0, <3>2, <3>4, <3>e, <4>1, <4>3
      <4> QED
        BY <4>2, <4>3
    <3>5. ASSUME NEW i \in 1..(n + 1), s[i] \in S
          PROVE  \E k \in 1..(m + 1) : new[k] = i
      <4>1. CASE i = n + 1
        BY <3>0, <3>2, <4>1
      <4>2. CASE i # n + 1
        <5>1. PICK k \in 1..m : pos[k] = i
          BY <2>0, <3>5, <3>e, <4>2
        <5>2. k \in 1..(m + 1) /\ new[k] = i
          BY <3>0, <3>2, <5>1
        <5> QED
          BY <5>2
      <4> QED
        BY <4>1, <4>2
    <3>6. Embeds(new, u, s, n + 1, S)
      BY <3>1, <3>3, <3>4, <3>5 DEF Embeds
    <3>7. Kept(u, n + 1)
      BY <2>0, <3>0, <3>1, <3>2, <3>6
    <3>8. F[n + 1] = u
      BY <2>2, <2>6 DEF u
    <3> HIDE DEF Kept
    <3> QED
      BY <2>0, <3>7, <3>8
  <2> QED
    BY <2>5, <2>6
<1>5. Len(s) \in Good
  <2>1. \A i \in 0..Len(s) : i \in Good /\ i < Len(s) => i + 1 \in Good
    BY <1>4
  <2> HIDE DEF Good
  <2>2. \A i \in 0..Len(s) : i \in Good
    BY <1>0, <1>3, <2>1, UpTo
  <2> QED
    BY <1>0, <2>2
<1>6. Kept(Filter(s, S), Len(s))
  <2> HIDE DEF Kept
  <2> QED
    BY <1>1, <1>5
<1> QED
  BY <1>6
=============================================================================
