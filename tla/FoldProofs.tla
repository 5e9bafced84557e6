----------------------------- MODULE FoldProofs -----------------------------
(***************************************************************************)
(* What a fold over a sequence computes, step by step: the recursive       *)
(* functions behind FoldLeft and FlattenSeq exist, so that each step has   *)
(* the value its definition says.                                          *)
(***************************************************************************)
EXTENDS Integers, Sequences, SequencesExt, WellFoundedInduction, TLAPS

(* A set of numbers that has the first one and with each the next has all  *)
(* of them.                                                                *)
LEMMA BoundedInduction ==
  ASSUME NEW n \in Nat, NEW B, 0 \in B, \A k \in 1..n : k - 1 \in B => k \in B
  PROVE  \A k \in 0..n : k \in B
  <1> DEFINE Bad == {k \in 0..n : k \notin B}
  <1>1. SUFFICES ASSUME Bad # {} PROVE FALSE
    OBVIOUS
  <1>2. Bad \subseteq Nat
    OBVIOUS
  <1>3. PICK k \in Bad : \A j \in Bad : ~ (<<j, k>> \in OpToRel(<, Nat))
    BY <1>1, <1>2, NatLessThanWellFounded, WFMin
  <1>4. \A j \in Bad : ~ (j < k)
    BY <1>2, <1>3, Zenon DEF OpToRel
  <1>5. k \in 1..n /\ k - 1 \in 0..n /\ k - 1 < k
    <2>1. k # 0
      OBVIOUS
    <2>2. QED
      BY <1>2, <2>1
  <1>6. k - 1 \in B
    BY <1>4, <1>5
  <1>7. QED
    BY <1>5, <1>6

(* The greatest of the first numbers.                                      *)
LEMMA GreatestIs ==
  ASSUME NEW S, S \subseteq Nat, NEW m \in S, \A k \in S : k <= m
  PROVE  Max(S) = m
  <1>1. \E x \in S : \A k \in S : x >= k
    <2>1. \A k \in S : m >= k
      OBVIOUS
    <2>2. QED
      BY <2>1
  <1>2. Max(S) \in S /\ \A k \in S : Max(S) >= k
    BY <1>1, Zenon DEF Max
  <1> DEFINE x == Max(S)
  <1>3. x \in Nat /\ m \in Nat /\ x >= m /\ x <= m
    BY <1>2
  <1> HIDE DEF x
  <1>4. x = m
    BY <1>3
  <1>5. QED
    BY <1>4 DEF x

(* A set of the first numbers has a greatest one.                          *)
LEMMA GreatestExists ==
  ASSUME NEW n \in Nat, NEW S \in SUBSET (1..n), S # {}
  PROVE  Max(S) \in S /\ \A x \in S : Max(S) >= x
  <1> DEFINE Up == {n - x : x \in S}
  <1>1. Up \subseteq Nat /\ Up # {}
    <2>1. \A x \in S : n - x \in Nat /\ n - x \in Up
      OBVIOUS
    <2>2. QED
      BY <2>1
  <1>2. PICK y \in Up : \A z \in Up : ~ (<<z, y>> \in OpToRel(<, Nat))
    BY <1>1, NatLessThanWellFounded, WFMin
  <1>3. \A z \in Up : ~ (z < y)
    BY <1>1, <1>2, Zenon DEF OpToRel
  <1>4. PICK m \in S : y = n - m
    BY <1>2
  <1>5. \A x \in S : m >= x
    BY <1>3, <1>4
  <1>6. QED
    BY <1>5, Zenon DEF Max

(* A function on sets of numbers that goes by the greatest one, as the     *)
(* folds of the library do.  The operation is given as a function, since a *)
(* lemma cannot take an operator.                                          *)
GoesByGreatest(it, n, base, step) ==
  \A s \in SUBSET (1..n) :
    it[s] = IF s = {} THEN base ELSE step[<<it[s \ {Max(s)}], Max(s)>>]

(* There is such a function, built one bound after the other.              *)
LEMMA SetRecursion ==
  ASSUME NEW n \in Nat, NEW S, NEW base \in S, NEW step \in [S \X (1..n) -> S]
  PROVE  \E it \in [SUBSET (1..n) -> S] : GoesByGreatest(it, n, base, step)
  <1> DEFINE Solves(it, k) == GoesByGreatest(it, k, base, step)
             B == {k \in 0..n : \E it \in [SUBSET (1..k) -> S] : Solves(it, k)}
  <1>1. 0 \in B
    <2> DEFINE it == [s \in SUBSET (1..0) |-> base]
    <2>1. it \in [SUBSET (1..0) -> S] /\ \A s \in SUBSET (1..0) : it[s] = base
      OBVIOUS
    <2>2. \A s \in SUBSET (1..0) : s = {}
      OBVIOUS
    <2> HIDE DEF it
    <2>3. Solves(it, 0)
      BY <2>1, <2>2, Zenon DEF GoesByGreatest
    <2>4. 0 \in 0..n
      OBVIOUS
    <2> HIDE DEF Solves
    <2>5. QED
      BY <2>1, <2>3, <2>4
  <1>2. ASSUME NEW k \in 1..n, k - 1 \in B PROVE k \in B
    <2>1. PICK old \in [SUBSET (1..(k - 1)) -> S] : Solves(old, k - 1)
      BY <1>2
    <2> USE DEF GoesByGreatest
    <2> DEFINE it == [s \in SUBSET (1..k) |-> IF k \in s THEN step[<<old[s \ {k}], k>>] ELSE old[s]]
    <2>2. ASSUME NEW s \in SUBSET (1..k)
          PROVE  /\ k \notin s => s \in SUBSET (1..(k - 1))
                 /\ s \ {k} \in SUBSET (1..(k - 1))
                 /\ k \in s => Max(s) = k
      <3>1. k \in s => Max(s) = k
        <4>1. s \subseteq Nat /\ \A i \in s : i <= k
          OBVIOUS
        <4>2. QED
          BY <4>1, GreatestIs
      <3>2. \A i \in 1..k : i # k => i \in 1..(k - 1)
        OBVIOUS
      <3>3. QED
        BY <3>1, <3>2
    <2>3. it \in [SUBSET (1..k) -> S]
      <3>1. ASSUME NEW s \in SUBSET (1..k)
            PROVE  (IF k \in s THEN step[<<old[s \ {k}], k>>] ELSE old[s]) \in S
        BY <2>2
      <3>2. QED
        BY <3>1
    <2>4. \A s \in SUBSET (1..k) :
            it[s] = IF k \in s THEN step[<<old[s \ {k}], k>>] ELSE old[s]
      OBVIOUS
    <2> HIDE DEF it
    <2>5. ASSUME NEW s \in SUBSET (1..k)
          PROVE  it[s] = IF s = {} THEN base ELSE step[<<it[s \ {Max(s)}], Max(s)>>]
      <3>1. CASE k \in s
        <4>1. it[s \ {k}] = old[s \ {k}]
          <5>1. s \ {k} \in SUBSET (1..k) /\ k \notin s \ {k}
            OBVIOUS
          <5>2. QED
            BY <2>4, <5>1
        <4>2. QED
          BY <2>2, <2>4, <3>1, <4>1
      <3>2. CASE k \notin s
        <4>1. s \in SUBSET (1..(k - 1)) /\ it[s] = old[s]
          BY <2>2, <2>4, <3>2
        <4>2. CASE s = {}
          BY <2>1, <4>1, <4>2
        <4>3. CASE s # {}
          <5>1. s \ {Max(s)} \in SUBSET (1..(k - 1))
            BY <4>1
          <5>2. s \ {Max(s)} \in SUBSET (1..k) /\ k \notin s \ {Max(s)}
            BY <3>2
          <5>3. it[s \ {Max(s)}] = old[s \ {Max(s)}]
            BY <2>4, <5>2
          <5>4. QED
            BY <2>1, <4>1, <4>3, <5>3
        <4>4. QED
          BY <4>2, <4>3
      <3>3. QED
        BY <3>1, <3>2
    <2>6. Solves(it, k)
      BY <2>5
    <2>7. k \in 0..n
      OBVIOUS
    <2> HIDE DEF Solves
    <2>8. QED
      BY <2>3, <2>6, <2>7
  <1>3. n \in B
    <2> HIDE DEF B
    <2>1. QED
      BY <1>1, <1>2, BoundedInduction
  <1>4. QED
    BY <1>3

(* Its values on the first numbers.                                        *)
LEMMA StepsOfSets ==
  ASSUME NEW n \in Nat, NEW k \in 1..n
  PROVE  /\ 1..k \in SUBSET (1..n) /\ 1..k # {} /\ Max(1..k) = k
         /\ (1..k) \ {Max(1..k)} = 1..(k - 1)
  <1>1. Max(1..k) = k
    <2>1. 1..k \subseteq Nat /\ k \in 1..k /\ \A i \in 1..k : i <= k
      OBVIOUS
    <2>2. QED
      BY <2>1, GreatestIs
  <1>2. (1..k) \ {k} = 1..(k - 1)
    OBVIOUS
  <1>3. QED
    BY <1>1, <1>2

(* And on the numbers themselves: one step after the other.                *)
OneByOne(f, n, base, step) ==
  f[0] = base /\ \A k \in 1..n : f[k] = step[<<f[k - 1], k>>]

(* Along a sequence the greatest element is the last one: the fold goes    *)
(* through it in order.                                                    *)
LEMMA StepRecursion ==
  ASSUME NEW n \in Nat, NEW S, NEW base \in S, NEW step \in [S \X (1..n) -> S]
  PROVE  \E f \in [0..n -> S] : OneByOne(f, n, base, step)
  <1>1. PICK it \in [SUBSET (1..n) -> S] : GoesByGreatest(it, n, base, step)
    BY SetRecursion
  <1> DEFINE f == [k \in 0..n |-> it[1..k]]
  <1>2. f \in [0..n -> S] /\ \A k \in 0..n : f[k] = it[1..k]
    <2>1. \A k \in 0..n : 1..k \in SUBSET (1..n)
      OBVIOUS
    <2>2. QED
      BY <1>1, <2>1
  <1> HIDE DEF f
  <1>3. f[0] = base
    <2>1. 1..0 = {} /\ {} \in SUBSET (1..n) /\ 0 \in 0..n
      OBVIOUS
    <2>2. QED
      BY <1>1, <1>2, <2>1 DEF GoesByGreatest
  <1>4. ASSUME NEW k \in 1..n
        PROVE  f[k] = step[<<f[k - 1], k>>]
    <2>1. k \in 0..n /\ k - 1 \in 0..n
      OBVIOUS
    <2>2. it[1..k] = step[<<it[1..(k - 1)], k>>]
      BY <1>1, StepsOfSets DEF GoesByGreatest
    <2>3. QED
      BY <1>2, <2>1, <2>2
  <1>5. QED
    BY <1>2, <1>3, <1>4 DEF OneByOne

-----------------------------------------------------------------------------
(* FlattenSeq puts the sequences in a row, one after the other.            *)
Flattens(s, it) ==
  it = [i \in 1..Len(s) |-> IF i = 1 THEN s[i] ELSE it[i - 1] \o s[i]]

(* FlattenSeq is what the community modules define.                        *)
LEMMA FlattenUnfolds ==
  ASSUME NEW s
  PROVE  /\ Len(s) = 0 => FlattenSeq(s) = s
         /\ Len(s) # 0 => FlattenSeq(s) = (CHOOSE it : Flattens(s, it))[Len(s)]
  BY Zenon DEF FlattenSeq, Flattens

(* Nothing before a sequence leaves it as it is.                           *)
LEMMA EmptyFirst ==
  ASSUME NEW R, NEW t \in Seq(R)
  PROVE  <<>> \o t = t
  OBVIOUS

(* FlattenSeq appends one sequence after the other.                        *)
LEMMA FlattenSteps ==
  ASSUME NEW R, NEW s \in Seq(Seq(R))
  PROVE  \E f : /\ f[0] = <<>>
                /\ \A k \in 1..Len(s) : f[k - 1] \in Seq(R) /\ f[k] = f[k - 1] \o s[k]
                /\ FlattenSeq(s) = f[Len(s)] /\ f[Len(s)] \in Seq(R)
  <1> DEFINE n    == Len(s)
             S    == Seq(R)
             step == [p \in S \X (1..n) |-> p[1] \o s[p[2]]]
             c    == CHOOSE it : Flattens(s, it)
  <1>1. n \in Nat /\ DOMAIN s = 1..n /\ <<>> \in S /\ \A i \in 1..n : s[i] \in S
    OBVIOUS
  <1>2. /\ step \in [S \X (1..n) -> S]
        /\ \A a \in S, i \in 1..n : step[<<a, i>>] = a \o s[i]
    <2>1. \A a \in S, i \in 1..n : a \o s[i] \in S
      BY <1>1
    <2> HIDE DEF n, S
    <2>2. \A p \in S \X (1..n) : p[1] \o s[p[2]] \in S
      BY <2>1
    <2>3. QED
      BY <2>2
  <1>3. n = 0 => FlattenSeq(s) = <<>>
    <2>1. n = 0 => s = <<>>
      OBVIOUS
    <2>2. Len(s) = 0 => FlattenSeq(s) = s
      BY FlattenUnfolds, Zenon
    <2>3. QED
      BY <2>1, <2>2
  <1>4. n # 0 => FlattenSeq(s) = c[n]
    BY FlattenUnfolds, Zenon
  <1>5. n = Len(s)
    OBVIOUS
  <1>6. Flattens(s, c) <=> Flattens(s, CHOOSE it : Flattens(s, it))
    OBVIOUS
  <1>7. (\E h : Flattens(s, h)) => Flattens(s, c)
    BY <1>6, Zenon
  <1> HIDE DEF n, S, step, c
  <1>8. PICK f \in [0..n -> S] : OneByOne(f, n, <<>>, step)
    BY <1>1, <1>2, StepRecursion
  <1>9. /\ f[0] = <<>>
        /\ \A k \in 1..n : f[k - 1] \in S /\ f[k] = f[k - 1] \o s[k]
    <2>1. \A k \in 1..n : k - 1 \in 0..n
      BY <1>1
    <2>2. QED
      BY <1>1, <1>2, <1>8, <2>1 DEF OneByOne
  <1>10. ASSUME 1 \in 1..n
        PROVE  f[1] = s[1]
    <2>1. 1 - 1 = 0
      OBVIOUS
    <2>2. f[1] = f[1 - 1] \o s[1]
      BY <1>10, <1>9, Zenon
    <2>3. s[1] \in Seq(R)
      BY <1>10, <1>1 DEF S
    <2>4. <<>> \o s[1] = s[1]
      BY <2>3, EmptyFirst
    <2>5. QED
      BY <1>9, <2>1, <2>2, <2>4, Zenon
  <1> DEFINE h == [i \in 1..n |-> f[i]]
  <1>11. Flattens(s, h)
    <2>1. ASSUME NEW i \in 1..n
          PROVE  f[i] = IF i = 1 THEN s[i] ELSE h[i - 1] \o s[i]
      <3>1. CASE i = 1
        BY <1>10, <3>1
      <3>2. CASE i # 1
        <4>1. i - 1 \in 1..n
          BY <1>1, <3>2
        <4>2. QED
          BY <1>9, <3>2, <4>1
      <3>3. QED
        BY <3>1, <3>2
    <2>2. h = [i \in 1..n |-> IF i = 1 THEN s[i] ELSE h[i - 1] \o s[i]]
      BY <2>1, Zenon
    <2> HIDE DEF h
    <2>3. QED
      BY <1>5, <2>2, Zenon DEF Flattens
  <1>12. \A i \in 1..n : c[i] = IF i = 1 THEN s[i] ELSE c[i - 1] \o s[i]
    BY <1>5, <1>7, <1>11, Zenon DEF Flattens
  <1> DEFINE Same == {k \in 0..n : k # 0 => c[k] = f[k]}
  <1>13. \A k \in 0..n : k \in Same
    <2>1. 0 \in Same
      BY <1>1
    <2>2. ASSUME NEW k \in 1..n, k - 1 \in Same
          PROVE  k \in Same
      <3>1. k \in 0..n
        BY <1>1
      <3>2. CASE k = 1
        BY <1>10, <1>12, <3>1, <3>2
      <3>3. CASE k # 1
        <4>1. k - 1 # 0 /\ c[k - 1] = f[k - 1]
          BY <1>1, <2>2, <3>3
        <4>2. QED
          BY <1>9, <1>12, <3>1, <3>3, <4>1
      <3>4. QED
        BY <3>2, <3>3
    <2> HIDE DEF Same
    <2>3. QED
      BY <1>1, <2>1, <2>2, BoundedInduction
  <1>14. FlattenSeq(s) = f[n]
    BY <1>1, <1>3, <1>4, <1>9, <1>13
  <1>15. f[n] \in S
    BY <1>1, <1>8
  <1> HIDE DEF h, Same
  <1>16. QED
    BY <1>5, <1>9, <1>14, <1>15 DEF S
=============================================================================
