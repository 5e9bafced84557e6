-------------------------- MODULE FieldWriteProofs --------------------------
(***************************************************************************)
(* A write changes one value of one field in one slot, is one hunk of a    *)
(* diff and is accepted by the gates, for every document, template and     *)
(* request.                                                                *)
(***************************************************************************)
EXTENDS Conformance, FoldProofs, SequenceTheorems

-----------------------------------------------------------------------------
(* The first place of a key.                                               *)
LEMMA LeastExists ==
  ASSUME NEW S, S \subseteq Nat, S # {}
  PROVE  Least(S) \in S /\ \A j \in S : Least(S) <= j
  <1>1. PICK i \in S : \A j \in S : ~ (<<j, i>> \in OpToRel(<, Nat))
    BY NatLessThanWellFounded, WFMin
  <1>2. \A j \in S : ~ (j < i)
    BY <1>1, Zenon DEF OpToRel
  <1>3. \A j \in S : i <= j
    BY <1>2
  <1>4. QED
    BY <1>3 DEF Least

LEMMA FirstPlace ==
  ASSUME NEW S, NEW list \in Seq(S), NEW k
  PROVE  /\ At(list, k) \in 0..Len(list)
         /\ At(list, k) = 0 => \A i \in 1..Len(list) : list[i].key # k
         /\ At(list, k) # 0 => /\ list[At(list, k)].key = k
                               /\ \A i \in 1..Len(list) : list[i].key = k => At(list, k) <= i
  <1>1. Places(list, k) \subseteq 1..Len(list) /\ Len(list) \in Nat
    BY DEF Places
  <1>2. CASE Places(list, k) = {}
    BY <1>1, <1>2 DEF At, Places
  <1>3. CASE Places(list, k) # {}
    <2>1. /\ Least(Places(list, k)) \in Places(list, k)
          /\ \A j \in Places(list, k) : Least(Places(list, k)) <= j
      BY <1>1, <1>3, LeastExists
    <2>2. QED
      BY <1>1, <1>3, <2>1 DEF At, Places
  <1>4. QED
    BY <1>2, <1>3

(* What identifies it.                                                     *)
LEMMA FirstPlaceIs ==
  ASSUME NEW S, NEW list \in Seq(S), NEW i \in 1..Len(list),
         \A j \in 1..Len(list) : list[j].key = list[i].key => i <= j
  PROVE  At(list, list[i].key) = i
  <1>1. At(list, list[i].key) # 0 /\ At(list, list[i].key) \in 0..Len(list)
    BY FirstPlace
  <1>2. At(list, list[i].key) <= i
    BY FirstPlace, <1>1
  <1>3. list[At(list, list[i].key)].key = list[i].key
    BY FirstPlace, <1>1
  <1>4. i <= At(list, list[i].key)
    BY <1>1, <1>3
  <1>5. QED
    BY <1>1, <1>2, <1>4

(* Lists with the same keys have the same first places.                    *)
LEMMA SameKeys ==
  ASSUME NEW S, NEW T, NEW list \in Seq(S), NEW other \in Seq(T), NEW k,
         Len(list) = Len(other),
         \A i \in 1..Len(list) : list[i].key = other[i].key
  PROVE  At(list, k) = At(other, k)
  <1>1. Places(list, k) = Places(other, k)
    BY DEF Places
  <1>2. QED
    BY <1>1 DEF At

(* To insert moves what is behind by one.                                  *)
LEMMA InsertedAt ==
  ASSUME NEW S, NEW list \in Seq(S), NEW i \in 1..(Len(list) + 1), NEW e \in S
  PROVE  /\ InsertAt(list, i, e) \in Seq(S)
         /\ Len(InsertAt(list, i, e)) = Len(list) + 1
         /\ \A j \in 1..(Len(list) + 1) :
              InsertAt(list, i, e)[j] =
                IF j < i THEN list[j] ELSE IF j = i THEN e ELSE list[j - 1]
  <1> DEFINE front == SubSeq(list, 1, i - 1)
             back  == SubSeq(list, i, Len(list))
  <1>1. Len(list) \in Nat /\ i \in Int /\ \A j \in 1..Len(list) : list[j] \in S
    OBVIOUS
  <1>2. /\ front \in Seq(S) /\ Len(front) = i - 1
        /\ \A j \in 1..(i - 1) : front[j] = list[j]
    <2>1. \A j \in 1..(i - 1) : list[j] \in S
      BY <1>1
    <2>2. QED
      BY <1>1, <2>1, SubSeqProperties
  <1>3. /\ back \in Seq(S) /\ Len(back) = Len(list) - i + 1
        /\ \A j \in 1..(Len(list) - i + 1) : back[j] = list[i + j - 1]
    <2>1. \A j \in i..Len(list) : list[j] \in S
      BY <1>1
    <2>2. QED
      BY <1>1, <2>1, SubSeqProperties
  <1>4. <<e>> \in Seq(S) /\ Len(<<e>>) = 1 /\ <<e>>[1] = e
    OBVIOUS
  <1> HIDE DEF front, back
  <1>5. /\ front \o <<e>> \in Seq(S) /\ Len(front \o <<e>>) = i
        /\ \A j \in 1..i : (front \o <<e>>)[j] = IF j < i THEN list[j] ELSE e
    BY <1>1, <1>2, <1>4, ConcatProperties
  <1>6. /\ (front \o <<e>>) \o back \in Seq(S)
        /\ Len((front \o <<e>>) \o back) = Len(list) + 1
        /\ \A j \in 1..(Len(list) + 1) :
             ((front \o <<e>>) \o back)[j] =
               IF j <= i THEN (front \o <<e>>)[j] ELSE back[j - i]
    BY <1>1, <1>3, <1>5, ConcatProperties
  <1>7. \A j \in 1..(Len(list) + 1) : j > i => back[j - i] = list[j - 1]
    <2>1. SUFFICES ASSUME NEW j \in 1..(Len(list) + 1), j > i
                   PROVE  back[j - i] = list[j - 1]
      OBVIOUS
    <2>2. j - i \in 1..(Len(list) - i + 1) /\ i + (j - i) - 1 = j - 1
      BY <1>1, <2>1
    <2>3. QED
      BY <1>3, <2>2
  <1>8. InsertAt(list, i, e) = (front \o <<e>>) \o back
    BY DEF InsertAt, front, back
  <1>9. QED
    BY <1>1, <1>5, <1>6, <1>7, <1>8

-----------------------------------------------------------------------------
(* Two lists have the same first entry for a key, or neither has one.      *)
SameEntry(new, list, k) ==
  /\ At(new, k) = 0 <=> At(list, k) = 0
  /\ At(list, k) # 0 => new[At(new, k)] = list[At(list, k)]

(* The list with the entry at a place and what was behind moved by one.    *)
Inserted(new, list, e, p) ==
  /\ Len(new) = Len(list) + 1
  /\ \A j \in 1..(Len(list) + 1) :
       new[j] = IF j < p THEN list[j] ELSE IF j = p THEN e ELSE list[j - 1]

LEMMA SomewhereInserted ==
  ASSUME NEW S, NEW list \in Seq(S), NEW e \in S
  PROVE  /\ InsertKeyed(list, e) \in Seq(S)
         /\ \E p \in 1..(Len(list) + 1) :
              /\ Inserted(InsertKeyed(list, e), list, e, p)
              /\ \A i \in 1..Len(list) : i < p => ~ (list[i].key > e.key)
              /\ p \in 1..Len(list) => list[p].key > e.key
  <1> DEFINE greater == {i \in DOMAIN list : list[i].key > e.key}
  <1>1. greater \subseteq 1..Len(list) /\ Len(list) \in Nat
    OBVIOUS
  <1>2. CASE greater = {}
    <2>1. InsertKeyed(list, e) = Append(list, e)
      BY <1>2 DEF InsertKeyed
    <2> HIDE DEF greater
    <2>2. /\ Append(list, e) \in Seq(S) /\ Len(Append(list, e)) = Len(list) + 1
          /\ \A j \in 1..(Len(list) + 1) :
               Append(list, e)[j] = IF j < Len(list) + 1 THEN list[j] ELSE e
      BY <1>1
    <2>3. Len(list) + 1 \in 1..(Len(list) + 1)
      BY <1>1
    <2>4. Inserted(InsertKeyed(list, e), list, e, Len(list) + 1)
      BY <1>1, <2>1, <2>2 DEF Inserted
    <2>5. \A i \in 1..Len(list) : ~ (list[i].key > e.key)
      BY <1>2 DEF greater
    <2>6. Len(list) + 1 \notin 1..Len(list)
      BY <1>1
    <2>7. QED
      BY <2>1, <2>2, <2>3, <2>4, <2>5, <2>6
  <1>3. CASE greater # {}
    <2>1. InsertKeyed(list, e) = InsertAt(list, Least(greater), e)
      BY <1>3 DEF InsertKeyed
    <2> HIDE DEF greater
    <2>2. greater \subseteq Nat
      BY <1>1
    <2>3. Least(greater) \in greater /\ \A i \in greater : Least(greater) <= i
      BY <1>3, <2>2, LeastExists
    <2>4. PICK p \in 1..Len(list) : p = Least(greater)
      BY <1>1, <2>3, Zenon
    <2>5. p \in 1..(Len(list) + 1) /\ InsertKeyed(list, e) = InsertAt(list, p, e)
      BY <1>1, <2>1, <2>4
    <2>6. InsertKeyed(list, e) \in Seq(S) /\ Inserted(InsertKeyed(list, e), list, e, p)
      BY <2>5, InsertedAt DEF Inserted
    <2>7. list[p].key > e.key
      BY <2>3, <2>4 DEF greater
    <2>8. ASSUME NEW i \in 1..Len(list), i < p, list[i].key > e.key PROVE FALSE
      <3>1. i \in greater
        BY <2>8 DEF greater
      <3>2. QED
        BY <1>1, <2>3, <2>4, <2>8, <3>1
    <2>9. QED
      BY <2>5, <2>6, <2>7, <2>8, Zenon
  <1>4. QED
    BY <1>2, <1>3

(* The new entry is found, and what was found under another key still is.  *)
LEMMA InsertedIsFound ==
  ASSUME NEW S, NEW list \in Seq(S), NEW e \in S
  PROVE  /\ InsertKeyed(list, e) \in Seq(S)
         /\ At(list, e.key) = 0 =>
              /\ At(InsertKeyed(list, e), e.key) # 0
              /\ InsertKeyed(list, e)[At(InsertKeyed(list, e), e.key)] = e
         /\ \A k : k # e.key => SameEntry(InsertKeyed(list, e), list, k)
  <1> DEFINE new == InsertKeyed(list, e)
  <1>0. new \in Seq(S) /\ \E p \in 1..(Len(list) + 1) : Inserted(new, list, e, p)
    BY SomewhereInserted
  <1> HIDE DEF new
  <1>a. PICK p \in 1..(Len(list) + 1) : Inserted(new, list, e, p)
    BY <1>0
  <1>1. /\ new \in Seq(S) /\ Len(new) = Len(list) + 1
        /\ \A j \in 1..(Len(list) + 1) :
             new[j] = IF j < p THEN list[j] ELSE IF j = p THEN e ELSE list[j - 1]
    BY <1>0, <1>a DEF Inserted
  <1>2. Len(list) \in Nat
    OBVIOUS
  <1>3. ASSUME At(list, e.key) = 0
        PROVE  At(new, e.key) # 0 /\ new[At(new, e.key)] = e
    <2>1. \A i \in 1..Len(list) : list[i].key # e.key
      BY <1>3, FirstPlace
    <2>2. new[p] = e
      BY <1>1
    <2>3. \A j \in 1..Len(new) : new[j].key = new[p].key => p <= j
      <3>1. SUFFICES ASSUME NEW j \in 1..Len(new), new[j].key = e.key, j < p
                     PROVE  FALSE
        BY <1>1, <2>2
      <3>2. j \in 1..Len(list) /\ new[j] = list[j]
        BY <1>1, <1>2, <3>1
      <3>3. QED
        BY <2>1, <3>1, <3>2
    <2>4. At(new, new[p].key) = p
      BY <1>1, <2>3, FirstPlaceIs
    <2>5. QED
      BY <2>2, <2>4
  <1>4. ASSUME NEW k, k # e.key, At(list, k) = 0 PROVE At(new, k) = 0
    <2>1. \A i \in 1..Len(list) : list[i].key # k
      BY <1>4, FirstPlace
    <2>2. SUFFICES ASSUME At(new, k) # 0 PROVE FALSE
      OBVIOUS
    <2>3. At(new, k) \in 1..(Len(list) + 1) /\ new[At(new, k)].key = k
      BY <1>1, <1>2, <2>2, FirstPlace
    <2>4. CASE At(new, k) < p
      BY <1>1, <1>2, <2>1, <2>3, <2>4
    <2>5. CASE At(new, k) = p
      BY <1>1, <1>4, <2>3, <2>5
    <2>6. CASE At(new, k) > p
      <3>1. At(new, k) - 1 \in 1..Len(list) /\ new[At(new, k)] = list[At(new, k) - 1]
        BY <1>1, <1>2, <2>3, <2>6
      <3>2. QED
        BY <2>1, <2>3, <3>1
    <2>7. QED
      BY <1>1, <2>3, <2>4, <2>5, <2>6
  <1>5. ASSUME NEW k, k # e.key, At(list, k) # 0
        PROVE  At(new, k) # 0 /\ new[At(new, k)] = list[At(list, k)]
    <2> DEFINE a == At(list, k)
               b == IF a < p THEN a ELSE a + 1
    <2>1. /\ a \in 1..Len(list) /\ list[a].key = k
          /\ \A i \in 1..Len(list) : list[i].key = k => a <= i
      BY <1>2, <1>5, FirstPlace
    <2> HIDE DEF a
    <2>2. b \in 1..Len(new) /\ new[b] = list[a]
      BY <1>1, <1>2, <2>1
    <2>3. ASSUME NEW j \in 1..Len(new), new[j].key = new[b].key PROVE b <= j
      <3>1. new[j].key = k
        BY <2>1, <2>2, <2>3
      <3>2. CASE j < p
        BY <1>1, <1>2, <2>1, <3>1, <3>2
      <3>3. CASE j = p
        BY <1>1, <1>5, <3>1, <3>3
      <3>4. CASE j > p
        <4>1. j - 1 \in 1..Len(list) /\ new[j] = list[j - 1]
          BY <1>1, <1>2, <3>4
        <4>2. a <= j - 1
          BY <2>1, <3>1, <4>1
        <4>3. QED
          BY <1>1, <1>2, <2>1, <4>1, <4>2
      <3>5. QED
        BY <1>1, <3>2, <3>3, <3>4
    <2> HIDE DEF b
    <2>4. At(new, new[b].key) = b
      BY <1>1, <2>2, <2>3, FirstPlaceIs
    <2>5. QED
      BY <2>1, <2>2, <2>4 DEF a
  <1>6. QED
    BY <1>1, <1>3, <1>4, <1>5 DEF SameEntry, new

(* An entry is found afterwards, an old one if there was one.              *)
LEMMA EnsuredIsFound ==
  ASSUME NEW S, NEW list \in Seq(S), NEW e \in S
  PROVE  /\ Ensure(list, e) \in Seq(S)
         /\ At(Ensure(list, e), e.key) \in 1..Len(Ensure(list, e))
         /\ Ensure(list, e)[At(Ensure(list, e), e.key)] =
              IF At(list, e.key) = 0 THEN e ELSE list[At(list, e.key)]
         /\ Ensure(list, e)[At(Ensure(list, e), e.key)].key = e.key
         /\ \A k : k # e.key => SameEntry(Ensure(list, e), list, k)
  <1>1. CASE At(list, e.key) = 0
    <2>1. Ensure(list, e) = InsertKeyed(list, e)
      BY <1>1 DEF Ensure
    <2>2. /\ Ensure(list, e) \in Seq(S)
          /\ At(Ensure(list, e), e.key) # 0
          /\ Ensure(list, e)[At(Ensure(list, e), e.key)] = e
          /\ \A k : k # e.key => SameEntry(Ensure(list, e), list, k)
      BY <1>1, <2>1, InsertedIsFound
    <2>3. At(Ensure(list, e), e.key) \in 1..Len(Ensure(list, e))
      BY <2>2, FirstPlace
    <2>4. QED
      BY <1>1, <2>2, <2>3
  <1>2. CASE At(list, e.key) # 0
    <2>1. Ensure(list, e) = list
      BY <1>2 DEF Ensure
    <2>2. At(list, e.key) \in 1..Len(list) /\ list[At(list, e.key)].key = e.key
      BY <1>2, FirstPlace
    <2>3. QED
      BY <1>2, <2>1, <2>2 DEF SameEntry
  <1>3. QED
    BY <1>1, <1>2

(* An ascending list stays one, and there is nothing new in it but the     *)
(* entry.                                                                  *)
LEMMA EnsuredAscends ==
  ASSUME NEW S, NEW list \in Seq(S), NEW e \in S, \A x \in S : x.key \in Nat
  PROVE  /\ Ascending(list) => Ascending(Ensure(list, e))
         /\ \A i \in DOMAIN Ensure(list, e) :
              Ensure(list, e)[i] = e \/ \E j \in DOMAIN list : Ensure(list, e)[i] = list[j]
  <1>1. CASE At(list, e.key) = 0
    <2> DEFINE new == InsertKeyed(list, e)
    <2>1. Ensure(list, e) = new
      BY <1>1 DEF Ensure
    <2>2. new \in Seq(S)
      BY SomewhereInserted
    <2>3. PICK p \in 1..(Len(list) + 1) :
            /\ Inserted(new, list, e, p)
            /\ \A i \in 1..Len(list) : i < p => ~ (list[i].key > e.key)
            /\ p \in 1..Len(list) => list[p].key > e.key
      BY SomewhereInserted
    <2> HIDE DEF new
    <2>4. /\ DOMAIN new = 1..(Len(list) + 1) /\ Len(list) \in Nat /\ DOMAIN list = 1..Len(list)
          /\ \A j \in 1..(Len(list) + 1) :
               new[j] = IF j < p THEN list[j] ELSE IF j = p THEN e ELSE list[j - 1]
      BY <2>2, <2>3 DEF Inserted
    <2>5. /\ e.key \in Nat
          /\ \A i \in 1..Len(list) : list[i].key \in Nat /\ list[i].key # e.key
      BY <1>1, FirstPlace
    <2>6. ASSUME NEW i \in DOMAIN new
          PROVE  new[i] = e \/ \E j \in DOMAIN list : new[i] = list[j]
      <3>1. CASE i < p
        BY <2>4, <3>1
      <3>2. CASE i > p
        <4>1. i - 1 \in DOMAIN list /\ new[i] = list[i - 1]
          BY <2>4, <3>2
        <4>2. QED
          BY <4>1
      <3>3. QED
        BY <2>4, <3>1, <3>2
    <2>7. ASSUME Ascending(list) PROVE Ascending(new)
      <3>1. \A i, j \in 1..Len(list) : i < j => list[i].key < list[j].key
        BY <2>4, <2>7 DEF Ascending
      <3>2. \A i \in 1..Len(list) : i < p => list[i].key < e.key
        BY <2>3, <2>5
      <3>3. \A j \in 1..Len(list) : p <= j => e.key < list[j].key
        <4>1. SUFFICES ASSUME NEW j \in 1..Len(list), p <= j PROVE e.key < list[j].key
          OBVIOUS
        <4>2. p \in 1..Len(list) /\ e.key < list[p].key
          BY <2>3, <2>4, <2>5, <4>1
        <4>3. CASE p = j
          BY <4>2, <4>3
        <4>4. CASE p < j
          BY <2>5, <3>1, <4>2, <4>4
        <4>5. QED
          BY <2>4, <4>1, <4>3, <4>4
      <3>4. SUFFICES ASSUME NEW i \in 1..(Len(list) + 1), NEW j \in 1..(Len(list) + 1), i < j
                     PROVE  new[i].key < new[j].key
        BY <2>4 DEF Ascending
      <3>5. CASE j < p
        BY <2>4, <3>1, <3>4, <3>5
      <3>6. CASE j = p
        BY <2>4, <3>2, <3>4, <3>6
      <3>7. CASE j > p
        <4>1. j - 1 \in 1..Len(list) /\ new[j] = list[j - 1] /\ p <= j - 1
          BY <2>4, <3>7
        <4>2. CASE i < p
          BY <2>4, <3>1, <3>4, <4>1, <4>2
        <4>3. CASE i = p
          BY <2>4, <3>3, <4>1, <4>3
        <4>4. CASE i > p
          <5>1. i - 1 \in 1..Len(list) /\ new[i] = list[i - 1] /\ i - 1 < j - 1
            BY <2>4, <3>4, <4>4
          <5>2. QED
            BY <3>1, <4>1, <5>1
        <4>5. QED
          BY <2>4, <4>2, <4>3, <4>4
      <3>8. QED
        BY <2>4, <3>5, <3>6, <3>7
    <2>8. QED
      BY <2>1, <2>6, <2>7
  <1>2. CASE At(list, e.key) # 0
    BY <1>2 DEF Ensure
  <1>3. QED
    BY <1>1, <1>2

LEMMA ReplacedAscends ==
  ASSUME NEW S, NEW list \in Seq(S), NEW i \in 1..Len(list), NEW x \in S,
         x.key = list[i].key, Ascending(list)
  PROVE  Ascending([list EXCEPT ![i] = x])
  <1> DEFINE new == [list EXCEPT ![i] = x]
  <1>1. DOMAIN new = DOMAIN list /\ \A j \in DOMAIN list : new[j].key = list[j].key
    OBVIOUS
  <1> HIDE DEF new
  <1>2. QED
    BY <1>1 DEF Ascending, new

(* A change to an entry that leaves its key leaves every first place.      *)
LEMMA ChangedInPlace ==
  ASSUME NEW S, NEW list \in Seq(S), NEW i \in 1..Len(list), NEW new \in Seq(S),
         Len(new) = Len(list), new[i].key = list[i].key,
         \A j \in 1..Len(list) : j # i => new[j] = list[j]
  PROVE  /\ \A k : At(new, k) = At(list, k)
         /\ \A k : i # At(list, k) => SameEntry(new, list, k)
  <1>1. \A j \in 1..Len(list) : new[j].key = list[j].key
    OBVIOUS
  <1>2. \A k : At(new, k) = At(list, k)
    BY <1>1, SameKeys
  <1>3. ASSUME NEW k, i # At(list, k) PROVE SameEntry(new, list, k)
    <2>1. At(list, k) \in 0..Len(list) /\ Len(list) \in Nat
      BY FirstPlace
    <2>2. QED
      BY <1>2, <1>3, <2>1 DEF SameEntry
  <1>4. QED
    BY <1>2, <1>3

-----------------------------------------------------------------------------
(* A value written to a list of fields is the entry of its key.            *)
LEMMA WrittenField ==
  ASSUME NEW fields \in Seq(Field), NEW id \in FieldIds, NEW hint \in Names \cup {Absent},
         NEW type \in Types \cup {Absent}, NEW value \in Values
  PROVE  /\ SetInList(fields, id, hint, type, value) \in Seq(Field)
         /\ At(SetInList(fields, id, hint, type, value), id) # 0
         /\ SetInList(fields, id, hint, type, value)[
              At(SetInList(fields, id, hint, type, value), id)].blob =
              (At(fields, id) # 0 /\ fields[At(fields, id)].blob)
         /\ SetInList(fields, id, hint, type, value)[
              At(SetInList(fields, id, hint, type, value), id)].value = value
         /\ type # Absent =>
              SetInList(fields, id, hint, type, value)[
                At(SetInList(fields, id, hint, type, value), id)].type = type
         /\ \A k : k # id => SameEntry(SetInList(fields, id, hint, type, value), fields, k)
         /\ Ascending(fields) => Ascending(SetInList(fields, id, hint, type, value))
  <1> DEFINE new == SetInList(fields, id, hint, type, value)
             at  == At(fields, id)
  <1>1. CASE at = 0
    <2> DEFINE e == [key |-> id, hint |-> hint, type |-> type, blob |-> FALSE,
                     value |-> value]
    <2>1. new = InsertKeyed(fields, e)
      BY <1>1 DEF SetInList
    <2>2. e \in Field /\ e.key = id /\ e.blob = FALSE /\ e.value = value /\ e.type = type
      BY DEF Field
    <2> HIDE DEF e
    <2>3. new = Ensure(fields, e)
      BY <1>1, <2>1, <2>2 DEF Ensure
    <2>4. Ascending(fields) => Ascending(Ensure(fields, e))
      <3>1. \A f \in Field : f.key \in Nat
        BY KeysAssumption DEF Field
      <3>2. QED
        BY <2>2, <3>1, EnsuredAscends
    <2>5. /\ new \in Seq(Field) /\ At(new, id) # 0 /\ new[At(new, id)] = e
          /\ \A k : k # id => SameEntry(new, fields, k)
      BY <1>1, <2>1, <2>2, InsertedIsFound
    <2>6. new[At(new, id)].blob = (at # 0 /\ fields[at].blob)
      BY <1>1, <2>2, <2>5
    <2> HIDE DEF new
    <2>7. new[At(new, id)].value = value /\ new[At(new, id)].type = type
      BY <2>2, <2>5
    <2>8. QED
      BY <2>3, <2>4, <2>5, <2>6, <2>7, Zenon DEF new
  <1>2. CASE at # 0
    <2> DEFINE x == [fields[at] EXCEPT !.value = value,
                                       !.type = IF type = Absent THEN @ ELSE type]
    <2>1. at \in 1..Len(fields) /\ fields[at] \in Field /\ fields[at].key = id
      BY <1>2, FirstPlace
    <2>2. /\ x \in Field /\ x.key = id /\ x.blob = fields[at].blob
          /\ x.value = value /\ (type # Absent => x.type = type)
      BY <2>1 DEF Field
    <2>3. new = [fields EXCEPT ![at] = x]
      BY <1>2, <2>1 DEF SetInList, Field
    <2> HIDE DEF x, new
    <2>4. /\ new \in Seq(Field) /\ new[at] = x
          /\ \A k : At(new, k) = At(fields, k)
          /\ \A k : at # At(fields, k) => SameEntry(new, fields, k)
      <3>1. x.key = fields[at].key
        BY <2>1, <2>2
      <3> HIDE DEF at
      <3>2. /\ new \in Seq(Field) /\ Len(new) = Len(fields) /\ new[at] = x
            /\ \A j \in 1..Len(fields) : j # at => new[j] = fields[j]
        BY <2>1, <2>2, <2>3, ExceptSeq
      <3>3. QED
        BY <2>1, <3>1, <3>2, ChangedInPlace
    <2>5. \A k : k # id => SameEntry(new, fields, k)
      <3>1. SUFFICES ASSUME NEW k, k # id, at = At(fields, k) PROVE FALSE
        BY <2>4
      <3>2. fields[at].key = k
        BY <1>2, <3>1, FirstPlace
      <3>3. QED
        BY <2>1, <3>1, <3>2
    <2>6. /\ At(new, id) = at /\ new[at].blob = fields[at].blob
          /\ new[at].value = value /\ (type # Absent => new[at].type = type)
      BY <2>2, <2>4
    <2>7. new[At(new, id)].blob = (at # 0 /\ fields[at].blob)
      BY <1>2, <2>1, <2>6 DEF Field
    <2>8. At(new, id) # 0
      BY <1>2, <2>6
    <2>9. Ascending(fields) => Ascending(new)
      <3>1. x.key = fields[at].key
        BY <2>1, <2>2
      <3> HIDE DEF at
      <3>2. QED
        BY <2>1, <2>2, <2>3, <3>1, ReplacedAscends
    <2>10. QED
      BY <2>4, <2>5, <2>6, <2>7, <2>8, <2>9 DEF new
  <1>3. QED
    BY <1>1, <1>2

(* To write it again changes nothing.                                      *)
LEMMA WrittenAgain ==
  ASSUME NEW fields \in Seq(Field), NEW id \in FieldIds, NEW hint \in Names \cup {Absent},
         NEW type \in Types \cup {Absent}, NEW value \in Values
  PROVE  SetInList(SetInList(fields, id, hint, type, value), id, hint, type, value)
           = SetInList(fields, id, hint, type, value)
  <1>0. PICK new : /\ new = SetInList(fields, id, hint, type, value)
                   /\ new \in Seq(Field) /\ At(new, id) # 0
                   /\ new[At(new, id)].value = value
                   /\ type # Absent => new[At(new, id)].type = type
    <2> DEFINE new == SetInList(fields, id, hint, type, value)
    <2>1. new \in Seq(Field) /\ At(new, id) # 0
      BY WrittenField
    <2>2. new[At(new, id)].value = value
      BY WrittenField
    <2>3. type # Absent => new[At(new, id)].type = type
      BY WrittenField
    <2>4. QED
      BY <2>1, <2>2, <2>3
  <1> DEFINE at  == At(new, id)
             x   == [new[at] EXCEPT !.value = value, !.type = IF type = Absent THEN @ ELSE type]
  <1>1. /\ new \in Seq(Field) /\ at # 0 /\ new[at].value = value
        /\ type # Absent => new[at].type = type
    BY <1>0
  <1>2. at \in 1..Len(new) /\ new[at] \in Field
    BY <1>1, FirstPlace
  <1>3. x = new[at]
    <2>1. PICK f \in Field : f = new[at]
      BY <1>2
    <2>2. f.value = value /\ (type # Absent => f.type = type)
      BY <1>1, <2>1
    <2>3. [f EXCEPT !.value = value, !.type = IF type = Absent THEN @ ELSE type] = f
      BY <2>2 DEF Field
    <2>4. QED
      BY <2>1, <2>3
  <1>4. SetInList(new, id, hint, type, value) = [new EXCEPT ![at] = x]
    BY <1>1, <1>2 DEF SetInList, Field
  <1> HIDE DEF x
  <1>5. [new EXCEPT ![at] = new[at]] = new
    BY <1>1, <1>2
  <1>6. QED
    BY <1>0, <1>3, <1>4, <1>5

(* The block of a language and of a version, the one that would be made if *)
(* there is none.                                                          *)
Block(languages, language) ==
  IF At(languages, language) = 0
    THEN [key |-> language, fields |-> <<>>, versions |-> <<>>]
    ELSE languages[At(languages, language)]

VersionBlock(versions, version) ==
  IF At(versions, version) = 0 THEN [key |-> version, fields |-> <<>>]
  ELSE versions[At(versions, version)]

LEMMA BlockType ==
  ASSUME NEW languages \in Seq(Language), NEW language \in Languages
  PROVE  Block(languages, language) \in Language /\ Block(languages, language).key = language
  <1>1. CASE At(languages, language) = 0
    BY <1>1 DEF Block, Language
  <1>2. CASE At(languages, language) # 0
    <2>1. At(languages, language) \in 1..Len(languages)
      BY <1>2, FirstPlace
    <2>2. languages[At(languages, language)] \in Language
      BY <2>1
    <2>3. QED
      BY <1>2, <2>2, FirstPlace DEF Block
  <1>3. QED
    BY <1>1, <1>2

LEMMA VersionBlockType ==
  ASSUME NEW versions \in Seq(Version), NEW version \in Versions
  PROVE  /\ VersionBlock(versions, version) \in Version
         /\ VersionBlock(versions, version).key = version
  <1>1. CASE At(versions, version) = 0
    BY <1>1 DEF VersionBlock, Version
  <1>2. CASE At(versions, version) # 0
    <2>1. At(versions, version) \in 1..Len(versions)
      BY <1>2, FirstPlace
    <2>2. versions[At(versions, version)] \in Version
      BY <2>1
    <2>3. QED
      BY <1>2, <2>2, FirstPlace DEF VersionBlock
  <1>3. QED
    BY <1>1, <1>2

(* The three kinds of slots.                                               *)
Unversioned(language) == [kind |-> "unversioned", language |-> language]
Versioned(language, version) ==
  [kind |-> "versioned", language |-> language, version |-> version]

(* A slot is a place in blocks.                                            *)
LEMMA SharedFields ==
  ASSUME NEW d
  PROVE  FieldsIn(d, SharedSlot) = d.shared
  BY DEF FieldsIn, SharedSlot

LEMMA UnversionedFields ==
  ASSUME NEW d, NEW l
  PROVE  FieldsIn(d, Unversioned(l)) = Block(d.languages, l).fields
  BY DEF FieldsIn, Block, Unversioned

LEMMA VersionedFields ==
  ASSUME NEW d, NEW l, NEW v
  PROVE  FieldsIn(d, Versioned(l, v)) = VersionBlock(Block(d.languages, l).versions, v).fields
  <1>1. \A k : At(<<>>, k) = 0
    BY DEF At, Places
  <1>2. CASE At(d.languages, l) = 0
    BY <1>1, <1>2 DEF FieldsIn, Block, VersionBlock, Versioned
  <1>3. CASE At(d.languages, l) # 0
    BY <1>3 DEF FieldsIn, Block, VersionBlock, Versioned
  <1>4. QED
    BY <1>2, <1>3

(* The lists with another block in the place of the first one.             *)
NewVersion(version) == [key |-> version, fields |-> <<>>]

ReplaceBlock(languages, language, x) ==
  [EnsureLanguage(languages, language) EXCEPT
     ![At(EnsureLanguage(languages, language), language)] = x]

ReplaceVersion(versions, version, x) ==
  [Ensure(versions, NewVersion(version)) EXCEPT
     ![At(Ensure(versions, NewVersion(version)), version)] = x]

LEMMA EnsuredLanguage ==
  ASSUME NEW languages \in Seq(Language), NEW language \in Languages
  PROVE  /\ EnsureLanguage(languages, language) \in Seq(Language)
         /\ At(EnsureLanguage(languages, language), language)
              \in 1..Len(EnsureLanguage(languages, language))
         /\ EnsureLanguage(languages, language)[
              At(EnsureLanguage(languages, language), language)] = Block(languages, language)
         /\ \A k : k # language =>
              SameEntry(EnsureLanguage(languages, language), languages, k)
  <1> DEFINE e == [key |-> language, fields |-> <<>>, versions |-> <<>>]
  <1>1. e \in Language /\ e.key = language
    BY DEF Language
  <1>2. EnsureLanguage(languages, language) = Ensure(languages, e)
    BY DEF EnsureLanguage
  <1>3. Block(languages, language) =
          IF At(languages, language) = 0 THEN e ELSE languages[At(languages, language)]
    BY DEF Block
  <1> HIDE DEF e
  <1>4. /\ Ensure(languages, e) \in Seq(Language)
        /\ At(Ensure(languages, e), e.key) \in 1..Len(Ensure(languages, e))
        /\ Ensure(languages, e)[At(Ensure(languages, e), e.key)] =
             IF At(languages, e.key) = 0 THEN e ELSE languages[At(languages, e.key)]
        /\ \A k : k # e.key => SameEntry(Ensure(languages, e), languages, k)
    BY <1>1, EnsuredIsFound
  <1>5. QED
    BY <1>1, <1>2, <1>3, <1>4

LEMMA EnsuredVersion ==
  ASSUME NEW versions \in Seq(Version), NEW version \in Versions
  PROVE  /\ Ensure(versions, NewVersion(version)) \in Seq(Version)
         /\ At(Ensure(versions, NewVersion(version)), version)
              \in 1..Len(Ensure(versions, NewVersion(version)))
         /\ Ensure(versions, NewVersion(version))[
              At(Ensure(versions, NewVersion(version)), version)]
              = VersionBlock(versions, version)
         /\ \A k : k # version => SameEntry(Ensure(versions, NewVersion(version)), versions, k)
  <1>1. NewVersion(version) \in Version /\ NewVersion(version).key = version
    BY DEF Version, NewVersion
  <1>2. VersionBlock(versions, version) =
          IF At(versions, version) = 0 THEN NewVersion(version)
          ELSE versions[At(versions, version)]
    BY DEF VersionBlock, NewVersion
  <1>3. PICK e : e = NewVersion(version)
    OBVIOUS
  <1>4. /\ Ensure(versions, e) \in Seq(Version)
        /\ At(Ensure(versions, e), e.key) \in 1..Len(Ensure(versions, e))
        /\ Ensure(versions, e)[At(Ensure(versions, e), e.key)] =
             IF At(versions, e.key) = 0 THEN e ELSE versions[At(versions, e.key)]
        /\ \A k : k # e.key => SameEntry(Ensure(versions, e), versions, k)
    BY <1>1, <1>3, EnsuredIsFound
  <1>5. QED
    BY <1>1, <1>2, <1>3, <1>4

LEMMA BlockReplaced ==
  ASSUME NEW languages \in Seq(Language), NEW language \in Languages,
         NEW x \in Language, x.key = language
  PROVE  /\ ReplaceBlock(languages, language, x) \in Seq(Language)
         /\ Block(ReplaceBlock(languages, language, x), language) = x
         /\ \A k : k # language =>
              Block(ReplaceBlock(languages, language, x), k) = Block(languages, k)
  <1> DEFINE ensured == EnsureLanguage(languages, language)
             l       == At(ensured, language)
             new     == ReplaceBlock(languages, language, x)
  <1>1. /\ ensured \in Seq(Language) /\ l \in 1..Len(ensured)
        /\ \A k : k # language => SameEntry(ensured, languages, k)
        /\ ensured[l].key = language
    BY EnsuredLanguage, BlockType
  <1>2. new = [ensured EXCEPT ![l] = x]
    BY DEF ReplaceBlock
  <1> HIDE DEF ensured, new
  <1>3. /\ new \in Seq(Language) /\ Len(new) = Len(ensured) /\ new[l] = x
        /\ \A j \in 1..Len(ensured) : j # l => new[j] = ensured[j]
    BY <1>1, <1>2, ExceptSeq
  <1>4. /\ \A k : At(new, k) = At(ensured, k)
        /\ \A k : l # At(ensured, k) => SameEntry(new, ensured, k)
    <2> HIDE DEF l
    <2>1. QED
      BY <1>1, <1>3, ChangedInPlace
  <1>5. Block(new, language) = x
    BY <1>1, <1>3, <1>4 DEF Block
  <1>6. ASSUME NEW k, k # language PROVE Block(new, k) = Block(languages, k)
    <2>1. At(ensured, k) # l
      BY <1>1, <1>6, FirstPlace
    <2>2. SameEntry(new, ensured, k) /\ SameEntry(ensured, languages, k)
      BY <1>1, <1>4, <1>6, <2>1
    <2>3. QED
      BY <2>2 DEF SameEntry, Block
  <1>7. QED
    BY <1>3, <1>5, <1>6 DEF new

LEMMA VersionReplaced ==
  ASSUME NEW versions \in Seq(Version), NEW version \in Versions,
         NEW x \in Version, x.key = version
  PROVE  /\ ReplaceVersion(versions, version, x) \in Seq(Version)
         /\ VersionBlock(ReplaceVersion(versions, version, x), version) = x
         /\ \A k : k # version =>
              VersionBlock(ReplaceVersion(versions, version, x), k) = VersionBlock(versions, k)
         /\ \A k : At(ReplaceVersion(versions, version, x), k) # 0 <=>
                    k = version \/ At(versions, k) # 0
  <1> DEFINE ensured == Ensure(versions, NewVersion(version))
             v       == At(ensured, version)
             new     == ReplaceVersion(versions, version, x)
  <1>1. /\ ensured \in Seq(Version) /\ v \in 1..Len(ensured)
        /\ \A k : k # version => SameEntry(ensured, versions, k)
        /\ ensured[v].key = version
    BY EnsuredVersion, VersionBlockType
  <1>2. new = [ensured EXCEPT ![v] = x]
    BY DEF ReplaceVersion
  <1> HIDE DEF ensured, new
  <1>3. /\ new \in Seq(Version) /\ Len(new) = Len(ensured) /\ new[v] = x
        /\ \A j \in 1..Len(ensured) : j # v => new[j] = ensured[j]
    BY <1>1, <1>2, ExceptSeq
  <1>4. /\ \A k : At(new, k) = At(ensured, k)
        /\ \A k : v # At(ensured, k) => SameEntry(new, ensured, k)
    <2> HIDE DEF v
    <2>1. QED
      BY <1>1, <1>3, ChangedInPlace
  <1>5. VersionBlock(new, version) = x
    BY <1>1, <1>3, <1>4 DEF VersionBlock
  <1>6. ASSUME NEW k, k # version PROVE VersionBlock(new, k) = VersionBlock(versions, k)
    <2>1. At(ensured, k) # v
      BY <1>1, <1>6, FirstPlace
    <2>2. SameEntry(new, ensured, k) /\ SameEntry(ensured, versions, k)
      BY <1>1, <1>4, <1>6, <2>1
    <2>3. QED
      BY <2>2 DEF SameEntry, VersionBlock
  <1>7. ASSUME NEW k PROVE At(new, k) # 0 <=> k = version \/ At(versions, k) # 0
    <2>1. At(new, k) = At(ensured, k)
      BY <1>4
    <2>2. k = version => At(ensured, k) # 0
      BY <1>1
    <2>3. k # version => (At(ensured, k) = 0 <=> At(versions, k) = 0)
      BY <1>1 DEF SameEntry
    <2>4. QED
      BY <2>1, <2>2, <2>3
  <1>8. QED
    BY <1>3, <1>5, <1>6, <1>7 DEF new

-----------------------------------------------------------------------------
(* The order of a document is the order of its parts.                      *)
OrderedVersions(versions) ==
  /\ Ascending(versions)
  /\ \A i \in DOMAIN versions : Ascending(versions[i].fields)

OrderedBlock(b) == Ascending(b.fields) /\ OrderedVersions(b.versions)

OrderedLanguages(languages) ==
  /\ Ascending(languages)
  /\ \A i \in DOMAIN languages : OrderedBlock(languages[i])

LEMMA SortedIs ==
  ASSUME NEW d
  PROVE  Sorted(d) <=> Ascending(d.shared) /\ OrderedLanguages(d.languages)
  BY DEF Sorted, OrderedLanguages, OrderedBlock, OrderedVersions, Range

LEMMA NothingAscends == Ascending(<<>>)
  BY DEF Ascending

LEMMA VersionsStayOrdered ==
  ASSUME NEW versions \in Seq(Version), NEW version \in Versions,
         NEW x \in Version, x.key = version,
         OrderedVersions(versions), Ascending(x.fields)
  PROVE  OrderedVersions(ReplaceVersion(versions, version, x))
  <1> DEFINE e       == NewVersion(version)
             ensured == Ensure(versions, e)
             v       == At(ensured, version)
             new     == ReplaceVersion(versions, version, x)
  <1>1. /\ ensured \in Seq(Version) /\ v \in 1..Len(ensured) /\ ensured[v].key = version
    BY EnsuredVersion, VersionBlockType
  <1>2. new = [ensured EXCEPT ![v] = x]
    BY DEF ReplaceVersion
  <1>3. e \in Version /\ e.fields = <<>>
    BY DEF Version, NewVersion
  <1>4. \A y \in Version : y.key \in Nat
    BY KeysAssumption DEF Version, Versions
  <1> HIDE DEF e, new
  <1>5. /\ Ascending(ensured)
        /\ \A i \in DOMAIN ensured :
             ensured[i] = e \/ \E j \in DOMAIN versions : ensured[i] = versions[j]
    BY <1>3, <1>4, EnsuredAscends DEF OrderedVersions
  <1>6. \A i \in DOMAIN ensured : Ascending(ensured[i].fields)
    BY <1>3, <1>5, NothingAscends DEF OrderedVersions
  <1> HIDE DEF ensured, v
  <1>7. Ascending(new)
    BY <1>1, <1>2, <1>5, ReplacedAscends
  <1>8. \A i \in DOMAIN new : Ascending(new[i].fields)
    BY <1>1, <1>2, <1>6
  <1>9. QED
    BY <1>7, <1>8 DEF OrderedVersions, new

LEMMA LanguagesStayOrdered ==
  ASSUME NEW languages \in Seq(Language), NEW language \in Languages,
         NEW x \in Language, x.key = language,
         OrderedLanguages(languages), OrderedBlock(x)
  PROVE  OrderedLanguages(ReplaceBlock(languages, language, x))
  <1> DEFINE e       == [key |-> language, fields |-> <<>>, versions |-> <<>>]
             ensured == EnsureLanguage(languages, language)
             l       == At(ensured, language)
             new     == ReplaceBlock(languages, language, x)
  <1>1. /\ ensured \in Seq(Language) /\ l \in 1..Len(ensured) /\ ensured[l].key = language
    BY EnsuredLanguage, BlockType
  <1>2. new = [ensured EXCEPT ![l] = x]
    BY DEF ReplaceBlock
  <1>3. e \in Language /\ e.fields = <<>> /\ e.versions = <<>> /\ ensured = Ensure(languages, e)
    BY DEF Language, EnsureLanguage
  <1>4. \A y \in Language : y.key \in Nat
    BY KeysAssumption DEF Language
  <1> HIDE DEF e, new, ensured
  <1>5. /\ Ascending(ensured)
        /\ \A i \in DOMAIN ensured :
             ensured[i] = e \/ \E j \in DOMAIN languages : ensured[i] = languages[j]
    BY <1>3, <1>4, EnsuredAscends DEF OrderedLanguages
  <1>6. OrderedBlock(e)
    BY <1>3, NothingAscends DEF OrderedBlock, OrderedVersions
  <1>7. \A i \in DOMAIN ensured : OrderedBlock(ensured[i])
    BY <1>5, <1>6 DEF OrderedLanguages
  <1> HIDE DEF l
  <1>8. Ascending(new)
    BY <1>1, <1>2, <1>5, ReplacedAscends
  <1>9. \A i \in DOMAIN new : OrderedBlock(new[i])
    BY <1>1, <1>2, <1>7
  <1>10. QED
    BY <1>8, <1>9 DEF OrderedLanguages, new

LEMMA BlockOrdered ==
  ASSUME NEW languages \in Seq(Language), NEW language \in Languages,
         OrderedLanguages(languages)
  PROVE  OrderedBlock(Block(languages, language))
  <1>1. CASE At(languages, language) = 0
    BY <1>1, NothingAscends DEF Block, OrderedBlock, OrderedVersions
  <1>2. CASE At(languages, language) # 0
    <2>1. At(languages, language) \in DOMAIN languages
      BY <1>2, FirstPlace
    <2>2. QED
      BY <1>2, <2>1 DEF Block, OrderedLanguages
  <1>3. QED
    BY <1>1, <1>2

-----------------------------------------------------------------------------
LEMMA KindsOfSlots ==
  ASSUME NEW slot \in Slots
  PROVE  \/ slot = SharedSlot
         \/ \E l \in Languages : slot = Unversioned(l)
         \/ \E l \in Languages, v \in Versions : slot = Versioned(l, v)
  <1>1. CASE slot \in [kind : {"unversioned"}, language : Languages]
    <2>1. slot.language \in Languages /\ slot = Unversioned(slot.language)
      BY <1>1 DEF Unversioned
    <2>2. QED
      BY <2>1
  <1>2. CASE slot \in [kind : {"versioned"}, language : Languages, version : Versions]
    <2>1. /\ slot.language \in Languages /\ slot.version \in Versions
          /\ slot = Versioned(slot.language, slot.version)
      BY <1>2 DEF Versioned
    <2>2. QED
      BY <2>1
  <1>3. QED
    BY <1>1, <1>2 DEF Slots

LEMMA SlotsDiffer ==
  ASSUME NEW l \in Languages, NEW v \in Versions
  PROVE  /\ SharedSlot # Unversioned(l) /\ SharedSlot # Versioned(l, v)
         /\ Unversioned(l) # Versioned(l, v)
         /\ SharedSlot.kind = "shared" /\ Unversioned(l).kind = "unversioned"
         /\ Versioned(l, v).kind = "versioned"
         /\ Unversioned(l) \in Slots /\ Versioned(l, v) \in Slots /\ SharedSlot \in Slots
  BY DEF SharedSlot, Unversioned, Versioned, Slots

LEMMA FieldsType ==
  ASSUME NEW d \in Document, NEW slot \in Slots
  PROVE  FieldsIn(d, slot) \in Seq(Field)
  <1>1. d.shared \in Seq(Field) /\ d.languages \in Seq(Language)
    BY DEF Document
  <1>2. CASE slot = SharedSlot
    BY <1>1, <1>2, SharedFields
  <1>3. ASSUME NEW l \in Languages, slot = Unversioned(l)
        PROVE  FieldsIn(d, slot) \in Seq(Field)
    <2>1. Block(d.languages, l).fields \in Seq(Field)
      BY <1>1, BlockType DEF Language
    <2>2. QED
      BY <1>3, <2>1, UnversionedFields
  <1>4. ASSUME NEW l \in Languages, NEW v \in Versions, slot = Versioned(l, v)
        PROVE  FieldsIn(d, slot) \in Seq(Field)
    <2>1. Block(d.languages, l).versions \in Seq(Version)
      BY <1>1, BlockType DEF Language
    <2>2. VersionBlock(Block(d.languages, l).versions, v).fields \in Seq(Field)
      BY <2>1, VersionBlockType DEF Version
    <2>3. QED
      BY <1>4, <2>2, VersionedFields
  <1>5. QED
    BY <1>2, <1>3, <1>4, KindsOfSlots

LEMMA FieldsOrdered ==
  ASSUME NEW d \in Document, NEW slot \in Slots, Sorted(d)
  PROVE  Ascending(FieldsIn(d, slot))
  <1>1. Ascending(d.shared) /\ OrderedLanguages(d.languages) /\ d.languages \in Seq(Language)
    BY SortedIs DEF Document
  <1>2. CASE slot = SharedSlot
    BY <1>1, <1>2 DEF FieldsIn, SharedSlot
  <1>3. ASSUME NEW l \in Languages, slot = Unversioned(l)
        PROVE  Ascending(FieldsIn(d, slot))
    <2>1. FieldsIn(d, slot) = Block(d.languages, l).fields
      BY <1>3 DEF FieldsIn, Block, Unversioned
    <2>2. QED
      BY <1>1, <2>1, BlockOrdered DEF OrderedBlock
  <1>4. ASSUME NEW l \in Languages, NEW v \in Versions, slot = Versioned(l, v)
        PROVE  Ascending(FieldsIn(d, slot))
    <2>1. FieldsIn(d, slot) = VersionBlock(Block(d.languages, l).versions, v).fields
      BY <1>4, VersionedFields
    <2>2. PICK versions \in Seq(Version) : versions = Block(d.languages, l).versions
      BY <1>1, BlockType DEF Language
    <2>3. OrderedVersions(versions)
      BY <1>1, <2>2, BlockOrdered DEF OrderedBlock
    <2>4. At(versions, v) # 0 => At(versions, v) \in DOMAIN versions
      BY FirstPlace
    <2>5. Ascending(VersionBlock(versions, v).fields)
      BY <2>3, <2>4, NothingAscends DEF VersionBlock, OrderedVersions
    <2>6. QED
      BY <2>1, <2>2, <2>5
  <1>5. QED
    BY <1>2, <1>3, <1>4, KindsOfSlots

(* The versions a language has are those its block has a place for.        *)
LEMMA VersionsAre ==
  ASSUME NEW d \in Document, NEW l \in Languages, NEW v
  PROVE  v \in VersionsOf(d, l) <=> At(Block(d.languages, l).versions, v) # 0
  <1>1. d.languages \in Seq(Language)
    BY DEF Document
  <1>2. PICK versions \in Seq(Version) : versions = Block(d.languages, l).versions
    BY <1>1, BlockType DEF Language
  <1>3. At(versions, v) # 0 <=> \E i \in DOMAIN versions : versions[i].key = v
    <2>1. At(versions, v) # 0 => At(versions, v) \in DOMAIN versions
      BY FirstPlace
    <2>2. QED
      BY <2>1, FirstPlace
  <1>4. v \in VersionsOf(d, l) <=> \E i \in DOMAIN versions : versions[i].key = v
    BY <1>2 DEF VersionsOf, Block
  <1>5. QED
    BY <1>2, <1>3, <1>4

(* set_field changes the list of its slot and no other (item.rs:293-345),  *)
(* makes no version but that of its slot, and keeps the order of a         *)
(* document that has one.                                                  *)
WritesItsSlot(d, new, slot, fields) ==
  /\ new \in Document
  /\ FieldsIn(new, slot) = fields
  /\ \A other \in Slots : other # slot => FieldsIn(new, other) = FieldsIn(d, other)
  /\ \A l \in Languages, v \in Versions :
       v \in VersionsOf(new, l) <=> v \in VersionsOf(d, l) \/ slot = Versioned(l, v)
  /\ Sorted(d) /\ Ascending(fields) => Sorted(new)

LEMMA WritesShared ==
  ASSUME NEW d \in Document, NEW fields \in Seq(Field)
  PROVE  WritesItsSlot(d, [d EXCEPT !.shared = fields], SharedSlot, fields)
  <1> DEFINE new == [d EXCEPT !.shared = fields]
  <1>1. new \in Document /\ new.shared = fields /\ new.languages = d.languages
    BY DEF Document
  <1> HIDE DEF new
  <1>2. FieldsIn(new, SharedSlot) = fields
    BY <1>1, SharedFields
  <1>3. ASSUME NEW other \in Slots, other # SharedSlot
        PROVE  FieldsIn(new, other) = FieldsIn(d, other)
    <2>1. ASSUME NEW l \in Languages
          PROVE  FieldsIn(new, Unversioned(l)) = FieldsIn(d, Unversioned(l))
      BY <1>1, UnversionedFields
    <2>2. ASSUME NEW l \in Languages, NEW v \in Versions
          PROVE  FieldsIn(new, Versioned(l, v)) = FieldsIn(d, Versioned(l, v))
      BY <1>1, VersionedFields
    <2>3. QED
      BY <1>3, <2>1, <2>2, KindsOfSlots
  <1>4. ASSUME NEW l \in Languages, NEW v \in Versions
        PROVE  v \in VersionsOf(new, l) <=> v \in VersionsOf(d, l) \/ SharedSlot = Versioned(l, v)
    BY <1>1, SlotsDiffer DEF VersionsOf
  <1>5. Sorted(d) /\ Ascending(fields) => Sorted(new)
    BY <1>1, SortedIs
  <1>6. QED
    BY <1>1, <1>2, <1>3, <1>4, <1>5 DEF WritesItsSlot, new

LEMMA WritesUnversioned ==
  ASSUME NEW d \in Document, NEW language \in Languages, NEW fields \in Seq(Field)
  PROVE  WritesItsSlot(d,
           [d EXCEPT !.languages = ReplaceBlock(d.languages, language,
              [Block(d.languages, language) EXCEPT !.fields = fields])],
           Unversioned(language), fields)
  <1> DEFINE b   == Block(d.languages, language)
             x   == [b EXCEPT !.fields = fields]
             new == [d EXCEPT !.languages = ReplaceBlock(d.languages, language, x)]
  <1>1. d.shared \in Seq(Field) /\ d.languages \in Seq(Language)
    BY DEF Document
  <1>2. b \in Language /\ b.key = language
    BY <1>1, BlockType
  <1>3. x \in Language /\ x.key = language /\ x.fields = fields /\ x.versions = b.versions
    <2> HIDE DEF b
    <2>1. QED
      BY <1>2 DEF Language
  <1> HIDE DEF x
  <1>4. /\ ReplaceBlock(d.languages, language, x) \in Seq(Language)
        /\ Block(ReplaceBlock(d.languages, language, x), language) = x
        /\ \A k : k # language =>
             Block(ReplaceBlock(d.languages, language, x), k) = Block(d.languages, k)
    BY <1>1, <1>3, BlockReplaced
  <1>5. /\ new \in Document /\ new.shared = d.shared
        /\ new.languages = ReplaceBlock(d.languages, language, x)
    BY <1>1, <1>4 DEF Document
  <1> HIDE DEF new, b
  <1>6. FieldsIn(new, Unversioned(language)) = fields
    BY <1>3, <1>4, <1>5, UnversionedFields
  <1>7. ASSUME NEW other \in Slots, other # Unversioned(language)
        PROVE  FieldsIn(new, other) = FieldsIn(d, other)
    <2>1. FieldsIn(new, SharedSlot) = FieldsIn(d, SharedSlot)
      BY <1>5, SharedFields
    <2>2. ASSUME NEW l \in Languages, l # language
          PROVE  FieldsIn(new, Unversioned(l)) = FieldsIn(d, Unversioned(l))
      BY <1>4, <1>5, <2>2, UnversionedFields
    <2>3. ASSUME NEW l \in Languages
          PROVE  Block(new.languages, l).versions = Block(d.languages, l).versions
      BY <1>3, <1>4, <1>5 DEF b
    <2>4. ASSUME NEW l \in Languages, NEW v \in Versions
          PROVE  FieldsIn(new, Versioned(l, v)) = FieldsIn(d, Versioned(l, v))
      BY <1>5, <2>3, VersionedFields
    <2>5. QED
      BY <1>7, <2>1, <2>2, <2>4, KindsOfSlots
  <1>8. ASSUME NEW l \in Languages, NEW v \in Versions
        PROVE  /\ v \in VersionsOf(new, l) <=> v \in VersionsOf(d, l)
               /\ Unversioned(language) # Versioned(l, v)
    <2>1. Block(new.languages, l).versions = Block(d.languages, l).versions
      BY <1>3, <1>4, <1>5 DEF b
    <2>2. Unversioned(language).kind # Versioned(l, v).kind
      BY SlotsDiffer
    <2>3. QED
      BY <1>5, <2>1, <2>2, VersionsAre
  <1>9. ASSUME Sorted(d), Ascending(fields) PROVE Sorted(new)
    <2>1. Ascending(d.shared) /\ OrderedLanguages(d.languages)
      BY <1>9, SortedIs
    <2>2. OrderedBlock(x)
      BY <1>1, <1>3, <1>9, <2>1, BlockOrdered DEF OrderedBlock, b
    <2>3. OrderedLanguages(new.languages)
      BY <1>1, <1>3, <1>5, <2>1, <2>2, LanguagesStayOrdered
    <2>4. QED
      BY <1>5, <2>1, <2>3, SortedIs
  <1>10. WritesItsSlot(d, new, Unversioned(language), fields)
    BY <1>5, <1>6, <1>7, <1>8, <1>9 DEF WritesItsSlot
  <1>11. QED
    BY <1>10 DEF new, x, b

WithVersion(block, version, fields) ==
  [block EXCEPT !.versions = ReplaceVersion(block.versions, version,
     [VersionBlock(block.versions, version) EXCEPT !.fields = fields])]

LEMMA WritesVersioned ==
  ASSUME NEW d \in Document, NEW language \in Languages, NEW version \in Versions,
         NEW fields \in Seq(Field)
  PROVE  WritesItsSlot(d,
           [d EXCEPT !.languages = ReplaceBlock(d.languages, language,
              WithVersion(Block(d.languages, language), version, fields))],
           Versioned(language, version), fields)
  <1> DEFINE b   == Block(d.languages, language)
             y   == [VersionBlock(b.versions, version) EXCEPT !.fields = fields]
             x   == [b EXCEPT !.versions = ReplaceVersion(b.versions, version, y)]
             new == [d EXCEPT !.languages = ReplaceBlock(d.languages, language, x)]
  <1>1. d.shared \in Seq(Field) /\ d.languages \in Seq(Language)
    BY DEF Document
  <1>2. b \in Language /\ b.key = language /\ b.versions \in Seq(Version)
    BY <1>1, BlockType DEF Language
  <1> HIDE DEF b
  <1>3. y \in Version /\ y.key = version /\ y.fields = fields
    BY <1>2, VersionBlockType DEF Version
  <1> HIDE DEF y
  <1>4. /\ ReplaceVersion(b.versions, version, y) \in Seq(Version)
        /\ VersionBlock(ReplaceVersion(b.versions, version, y), version) = y
        /\ \A k : k # version =>
             VersionBlock(ReplaceVersion(b.versions, version, y), k)
               = VersionBlock(b.versions, k)
        /\ \A k : At(ReplaceVersion(b.versions, version, y), k) # 0 <=>
                   k = version \/ At(b.versions, k) # 0
    BY <1>2, <1>3, VersionReplaced
  <1>5. /\ x \in Language /\ x.key = language /\ x.fields = b.fields
        /\ x.versions = ReplaceVersion(b.versions, version, y)
    BY <1>2, <1>4 DEF Language
  <1> HIDE DEF x
  <1>6. /\ ReplaceBlock(d.languages, language, x) \in Seq(Language)
        /\ Block(ReplaceBlock(d.languages, language, x), language) = x
        /\ \A k : k # language =>
             Block(ReplaceBlock(d.languages, language, x), k) = Block(d.languages, k)
    BY <1>1, <1>5, BlockReplaced
  <1>7. /\ new \in Document /\ new.shared = d.shared
        /\ new.languages = ReplaceBlock(d.languages, language, x)
    BY <1>1, <1>6 DEF Document
  <1> HIDE DEF new
  <1>8. FieldsIn(new, Versioned(language, version)) = fields
    BY <1>3, <1>4, <1>5, <1>6, <1>7, VersionedFields
  <1>9. ASSUME NEW other \in Slots, other # Versioned(language, version)
        PROVE  FieldsIn(new, other) = FieldsIn(d, other)
    <2>1. FieldsIn(new, SharedSlot) = FieldsIn(d, SharedSlot)
      BY <1>7, SharedFields
    <2>2. ASSUME NEW l \in Languages
          PROVE  FieldsIn(new, Unversioned(l)) = FieldsIn(d, Unversioned(l))
      <3>1. Block(new.languages, l).fields = Block(d.languages, l).fields
        BY <1>5, <1>6, <1>7 DEF b
      <3>2. QED
        BY <1>7, <3>1, UnversionedFields
    <2>3. ASSUME NEW l \in Languages, NEW v \in Versions, l # language \/ v # version
          PROVE  FieldsIn(new, Versioned(l, v)) = FieldsIn(d, Versioned(l, v))
      <3>1. VersionBlock(Block(new.languages, l).versions, v)
              = VersionBlock(Block(d.languages, l).versions, v)
        BY <1>4, <1>5, <1>6, <1>7, <2>3 DEF b
      <3>2. QED
        BY <1>7, <3>1, VersionedFields
    <2>4. QED
      BY <1>9, <2>1, <2>2, <2>3, KindsOfSlots
  <1>10. ASSUME NEW l \in Languages, NEW v \in Versions
         PROVE  v \in VersionsOf(new, l) <=>
                  v \in VersionsOf(d, l) \/ Versioned(language, version) = Versioned(l, v)
    <2>1. Versioned(language, version) = Versioned(l, v) <=> l = language /\ v = version
      BY DEF Versioned
    <2>2. At(Block(new.languages, l).versions, v) # 0 <=>
            At(Block(d.languages, l).versions, v) # 0 \/ (l = language /\ v = version)
      <3>1. CASE l = language
        BY <1>4, <1>5, <1>6, <1>7, <3>1 DEF b
      <3>2. CASE l # language
        BY <1>6, <1>7, <3>2
      <3>3. QED
        BY <3>1, <3>2
    <2>3. QED
      BY <1>7, <2>1, <2>2, VersionsAre
  <1>11. ASSUME Sorted(d), Ascending(fields) PROVE Sorted(new)
    <2>1. Ascending(d.shared) /\ OrderedLanguages(d.languages)
      BY <1>11, SortedIs
    <2>2. OrderedBlock(b)
      BY <1>1, <2>1, BlockOrdered DEF b
    <2>3. OrderedVersions(x.versions)
      BY <1>2, <1>3, <1>5, <1>11, <2>2, VersionsStayOrdered DEF OrderedBlock
    <2>4. OrderedBlock(x)
      BY <1>5, <2>2, <2>3 DEF OrderedBlock
    <2>5. OrderedLanguages(new.languages)
      BY <1>1, <1>5, <1>7, <2>1, <2>4, LanguagesStayOrdered
    <2>6. QED
      BY <1>7, <2>1, <2>5, SortedIs
  <1>12. WritesItsSlot(d, new, Versioned(language, version), fields)
    BY <1>7, <1>8, <1>9, <1>10, <1>11 DEF WritesItsSlot
  <1>13. QED
    BY <1>12 DEF new, x, y, b, WithVersion

(* SetField replaces one block, in the shape WithVersion gives it.          *)
LEMMA SetFieldReplaces ==
  ASSUME NEW d \in Document, NEW slot \in Slots, NEW id, NEW hint, NEW type, NEW value
  PROVE  LET new == SetInList(FieldsIn(d, slot), id, hint, type, value)
             set == SetField(d, slot, id, hint, type, value)
         IN  /\ slot = SharedSlot => set = [d EXCEPT !.shared = new]
             /\ \A l \in Languages : slot = Unversioned(l) =>
                  set = [d EXCEPT !.languages = ReplaceBlock(d.languages, l,
                           [Block(d.languages, l) EXCEPT !.fields = new])]
             /\ \A l \in Languages, v \in Versions : slot = Versioned(l, v) =>
                  set = [d EXCEPT !.languages = ReplaceBlock(d.languages, l,
                           WithVersion(Block(d.languages, l), v, new))]
  <1> DEFINE Set(fields) == SetInList(fields, id, hint, type, value)
  <1>1. d.shared \in Seq(Field) /\ d.languages \in Seq(Language)
    BY DEF Document
  <1>2. ASSUME NEW l \in Languages, slot = Unversioned(l)
        PROVE  SetField(d, slot, id, hint, type, value)
                 = [d EXCEPT !.languages = ReplaceBlock(d.languages, l,
                      [Block(d.languages, l) EXCEPT !.fields = Set(FieldsIn(d, slot))])]
    <2> DEFINE ensured == EnsureLanguage(d.languages, l)
               at      == At(ensured, l)
               b       == Block(d.languages, l)
    <2>1. ensured \in Seq(Language) /\ at \in 1..Len(ensured) /\ ensured[at] = b
      BY <1>1, EnsuredLanguage
    <2>2. FieldsIn(d, slot) = b.fields
      BY <1>2, UnversionedFields
    <2>3. SetField(d, slot, id, hint, type, value)
            = [d EXCEPT !.languages = [ensured EXCEPT ![at].fields = Set(@)]]
      BY <1>2 DEF SetField, Unversioned
    <2> HIDE DEF ensured, at, b, Set
    <2>4. [ensured EXCEPT ![at].fields = Set(@)]
            = [ensured EXCEPT ![at] = [b EXCEPT !.fields = Set(b.fields)]]
      BY <2>1
    <2>5. ReplaceBlock(d.languages, l, [b EXCEPT !.fields = Set(b.fields)])
            = [ensured EXCEPT ![at] = [b EXCEPT !.fields = Set(b.fields)]]
      BY DEF ReplaceBlock, ensured, at
    <2>6. QED
      BY <2>2, <2>3, <2>4, <2>5 DEF b
  <1>3. ASSUME NEW l \in Languages, NEW v \in Versions, slot = Versioned(l, v)
        PROVE  SetField(d, slot, id, hint, type, value)
                 = [d EXCEPT !.languages = ReplaceBlock(d.languages, l,
                      WithVersion(Block(d.languages, l), v, Set(FieldsIn(d, slot))))]
    <2> DEFINE ensured  == EnsureLanguage(d.languages, l)
               at       == At(ensured, l)
               b        == Block(d.languages, l)
               versions == Ensure(b.versions, NewVersion(v))
               both     == EnsureVersion(d.languages, l, v)
               y        == VersionBlock(b.versions, v)
    <2>1. ensured \in Seq(Language) /\ at \in 1..Len(ensured) /\ ensured[at] = b
      BY <1>1, EnsuredLanguage
    <2>2. b \in Language /\ b.versions \in Seq(Version) /\ b.key = l
      BY <1>1, BlockType DEF Language
    <2>3. /\ versions \in Seq(Version) /\ At(versions, v) \in 1..Len(versions)
          /\ versions[At(versions, v)] = y
      BY <2>2, EnsuredVersion
    <2>4. FieldsIn(d, slot) = y.fields
      BY <1>3, VersionedFields
    <2>5. both = [ensured EXCEPT ![at].versions = Ensure(@, NewVersion(v))]
      BY DEF EnsureVersion, NewVersion
    <2> HIDE DEF ensured, b, at, versions, y
    <2>6. both = [ensured EXCEPT ![at] = [b EXCEPT !.versions = versions]]
      BY <2>1, <2>5 DEF versions
    <2>7. [b EXCEPT !.versions = versions] \in Language
      BY <2>2, <2>3 DEF Language
    <2>8. /\ both \in Seq(Language) /\ Len(both) = Len(ensured)
          /\ \A j \in 1..Len(ensured) : j # at => both[j] = ensured[j]
          /\ both[at] = [b EXCEPT !.versions = versions]
      BY <2>1, <2>6, <2>7, ExceptSeq
    <2>9. both[at].key = ensured[at].key /\ both[at].versions = versions
      BY <2>1, <2>2, <2>8 DEF Language
    <2> HIDE DEF both
    <2>10. At(both, l) = at
      <3>1. /\ ensured \in Seq(Language) /\ at \in 1..Len(ensured)
            /\ both \in Seq(Language) /\ Len(both) = Len(ensured)
            /\ both[at].key = ensured[at].key
            /\ \A j \in 1..Len(ensured) : j # at => both[j] = ensured[j]
        BY <2>1, <2>8, <2>9
      <3>2. \A k : At(both, k) = At(ensured, k)
        BY <3>1, ChangedInPlace
      <3>3. QED
        BY <3>2 DEF at
    <2>11. SetField(d, slot, id, hint, type, value)
             = [d EXCEPT !.languages =
                  [both EXCEPT ![at].versions[At(versions, v)].fields = Set(@)]]
      BY <1>3, <2>9, <2>10 DEF SetField, Versioned, both
    <2> HIDE DEF Set
    <2> DEFINE z == [y EXCEPT !.fields = Set(y.fields)]
               x == [b EXCEPT !.versions = [versions EXCEPT ![At(versions, v)] = z]]
    <2>12. [both EXCEPT ![at].versions[At(versions, v)].fields = Set(@)]
             = [ensured EXCEPT ![at] = x]
      BY <2>1, <2>2, <2>3, <2>6, <2>8, <2>9 DEF Language
    <2>13. x = WithVersion(b, v, Set(y.fields))
      BY DEF WithVersion, ReplaceVersion, versions, y
    <2>14. ReplaceBlock(d.languages, l, x) = [ensured EXCEPT ![at] = x]
      BY DEF ReplaceBlock, ensured, at
    <2>15. QED
      BY <2>4, <2>11, <2>12, <2>13, <2>14 DEF b
  <1>4. slot = SharedSlot =>
          SetField(d, slot, id, hint, type, value) = [d EXCEPT !.shared = Set(FieldsIn(d, slot))]
    BY SharedFields DEF SetField, SharedSlot
  <1>5. QED
    BY <1>2, <1>3, <1>4

LEMMA SetFieldWritesItsSlot ==
  ASSUME NEW d \in Document, NEW slot \in Slots, NEW id \in FieldIds,
         NEW hint \in Names \cup {Absent}, NEW type \in Types \cup {Absent},
         NEW value \in Values
  PROVE  WritesItsSlot(d, SetField(d, slot, id, hint, type, value), slot,
                       SetInList(FieldsIn(d, slot), id, hint, type, value))
  <1> DEFINE new == SetInList(FieldsIn(d, slot), id, hint, type, value)
             set == SetField(d, slot, id, hint, type, value)
  <1>1. new \in Seq(Field)
    BY FieldsType, WrittenField
  <1>2. /\ slot = SharedSlot => set = [d EXCEPT !.shared = new]
        /\ \A l \in Languages : slot = Unversioned(l) =>
             set = [d EXCEPT !.languages = ReplaceBlock(d.languages, l,
                      [Block(d.languages, l) EXCEPT !.fields = new])]
        /\ \A l \in Languages, v \in Versions : slot = Versioned(l, v) =>
             set = [d EXCEPT !.languages = ReplaceBlock(d.languages, l,
                      WithVersion(Block(d.languages, l), v, new))]
    BY SetFieldReplaces
  <1> HIDE DEF new, set
  <1>3. ASSUME slot = SharedSlot PROVE WritesItsSlot(d, set, slot, new)
    BY <1>1, <1>2, <1>3, WritesShared
  <1>4. ASSUME NEW l \in Languages, slot = Unversioned(l)
        PROVE  WritesItsSlot(d, set, slot, new)
    BY <1>1, <1>2, <1>4, WritesUnversioned
  <1>5. ASSUME NEW l \in Languages, NEW v \in Versions, slot = Versioned(l, v)
        PROVE  WritesItsSlot(d, set, slot, new)
    BY <1>1, <1>2, <1>5, WritesVersioned
  <1>6. WritesItsSlot(d, set, slot, new)
    BY <1>3, <1>4, <1>5, KindsOfSlots
  <1>7. QED
    BY <1>6 DEF new, set

-----------------------------------------------------------------------------
(* What a request writes is what a document may hold.                      *)
LEMMA LatestExists ==
  ASSUME NEW S, S \subseteq Versions, S # {}
  PROVE  Greatest(S) \in S /\ \A j \in S : j <= Greatest(S)
  <1> DEFINE T == {MaxVersion - v : v \in S}
  <1>1. MaxVersion \in Nat
    BY KeysAssumption
  <1>2. T \subseteq Nat /\ T # {}
    <2>1. ASSUME NEW v \in S PROVE MaxVersion - v \in Nat
      BY <1>1, KeysAssumption DEF Versions
    <2>2. PICK v \in S : TRUE
      OBVIOUS
    <2>3. MaxVersion - v \in T
      OBVIOUS
    <2>4. QED
      BY <2>1, <2>3
  <1>3. PICK m \in T : \A t \in T : m <= t
    BY <1>2, LeastExists
  <1>4. PICK i \in S : m = MaxVersion - i
    BY <1>3
  <1>5. \A j \in S : j <= i
    <2>1. SUFFICES ASSUME NEW j \in S PROVE j <= i
      OBVIOUS
    <2>2. MaxVersion - j \in T
      OBVIOUS
    <2>3. i \in Int /\ j \in Int /\ MaxVersion - i <= MaxVersion - j
      BY <1>1, <1>3, <1>4, <2>2 DEF Versions
    <2>4. QED
      BY <1>1, <2>3
  <1>6. QED
    BY <1>5 DEF Greatest

LEMMA ExistingVersions ==
  ASSUME NEW d \in Document, NEW language
  PROVE  VersionsOf(d, language) \subseteq Versions
  <1>1. CASE At(d.languages, language) = 0
    BY <1>1 DEF VersionsOf
  <1>2. CASE At(d.languages, language) # 0
    <2>1. d.languages \in Seq(Language)
      BY DEF Document
    <2>2. At(d.languages, language) \in 1..Len(d.languages)
      BY <1>2, <2>1, FirstPlace
    <2>3. d.languages[At(d.languages, language)] \in Language
      BY <2>1, <2>2
    <2>4. PICK versions \in Seq(Version) :
            versions = d.languages[At(d.languages, language)].versions
      BY <2>3 DEF Language
    <2>5. \A i \in DOMAIN versions : versions[i].key \in Versions
      <3>1. \A i \in DOMAIN versions : versions[i] \in Version
        OBVIOUS
      <3>2. QED
        BY <3>1 DEF Version
    <2>6. VersionsOf(d, language) = {versions[i].key : i \in DOMAIN versions}
      BY <1>2, <2>4 DEF VersionsOf
    <2>7. QED
      BY <2>5, <2>6
  <1>3. QED
    BY <1>1, <1>2

LEMMA TargetType ==
  ASSUME NEW r \in Request, schema \in Schemas, Resolves(r)
  PROVE  Target(r) \in Definition
  <1>1. schema \in Seq(Definition) /\ WellKnown \in Seq(Definition)
    BY RequestsAssumption
  <1>2. Known \in Seq(Definition)
    BY <1>1 DEF Known
  <1>3. Meant(r.field) \subseteq 1..Len(Known) /\ Meant(r.field) # {}
    BY <1>2 DEF Meant, Resolves
  <1>4. Meant(r.field) \subseteq Nat
    BY <1>3
  <1>5. Least(Meant(r.field)) \in Meant(r.field)
    BY <1>3, <1>4, LeastExists
  <1>6. Least(Meant(r.field)) \in 1..Len(Known)
    BY <1>3, <1>5, Zenon
  <1>7. QED
    BY <1>2, <1>6 DEF Target, First

LEMMA SlotType ==
  ASSUME NEW r \in Request, schema \in Schemas, doc \in Document, Resolves(r), SlotFits(r)
  PROVE  /\ SlotFor(r) \in Slots
         /\ SlotFor(r).kind = Target(r).section
         /\ SlotFor(r).kind = "versioned" =>
              SlotFor(r) = Versioned(GivenOr(r.language, English), VersionFor(r))
  <1>1. Target(r) \in Definition
    BY TargetType
  <1>2. Target(r).section \in {"shared", "unversioned", "versioned"}
    BY <1>1 DEF Definition
  <1>3. GivenOr(r.language, English) \in Languages
    BY RequestsAssumption DEF Request, GivenOr
  <1>4. VersionFor(r) \in Versions
    <2>1. VersionsOf(doc, GivenOr(r.language, English)) \subseteq Versions
      BY ExistingVersions
    <2>2. 1 \in Versions
      BY KeysAssumption DEF Versions
    <2>3. VersionsOf(doc, GivenOr(r.language, English)) # {} =>
            Greatest(VersionsOf(doc, GivenOr(r.language, English))) \in Versions
      BY <2>1, LatestExists
    <2>4. r.version \in Versions \cup {NotGiven}
      BY DEF Request
    <2>5. QED
      BY <2>2, <2>3, <2>4 DEF VersionFor
  <1>5. SlotFor(r) = IF Target(r).section = "shared" THEN SharedSlot
                     ELSE IF Target(r).section = "unversioned"
                            THEN Unversioned(GivenOr(r.language, English))
                     ELSE Versioned(GivenOr(r.language, English), VersionFor(r))
    BY <1>2 DEF SlotFor, Unversioned, Versioned
  <1>6. QED
    BY <1>2, <1>3, <1>4, <1>5, SlotsDiffer

LEMMA PreparedType ==
  ASSUME NEW v \in Values, NEW type \in Types, Accepted(type, v)
  PROVE  Prepared(type, v) \in Values
  <1>1. v \in [is : Forms, text : Nat, newline : BOOLEAN]
    BY RequestsAssumption
  <1>2. CASE type = "multilist" /\ v.is = "piped guids"
    <2>1. Prepared(type, v) = [v EXCEPT !.is = "guids", !.newline = FALSE]
      BY <1>2 DEF Prepared
    <2>2. QED
      BY <1>2, <2>1, RequestsAssumption
  <1>3. CASE type = "multilist" /\ v.is \in {"guid", "guids", "empty"}
    <2>1. Prepared(type, v) = [v EXCEPT !.newline = FALSE]
      BY <1>1, <1>3 DEF Prepared
    <2>2. QED
      BY <2>1, RequestsAssumption
  <1>4. CASE type # "multilist" \/ v.is \notin {"guid", "guids", "piped guids", "empty"}
    BY <1>4 DEF Prepared
  <1>5. QED
    BY <1>2, <1>3, <1>4

(* A write: the list of the slot of its field, and no other, is another.   *)
LEMMA WriteChangesOneList ==
  ASSUME NEW r \in Request, TypeOK, Write(r)
  PROVE  /\ SlotFor(r) \in Slots /\ SlotFor(r).kind = Target(r).section
         /\ Target(r).id \in FieldIds
         /\ doc' \in Document
         /\ \A other \in Slots : other # SlotFor(r) =>
              FieldsIn(doc', other) = FieldsIn(doc, other)
         /\ LET id  == Target(r).id
                old == FieldsIn(doc, SlotFor(r))
                new == FieldsIn(doc', SlotFor(r))
            IN  /\ \A k : k # id => SameEntry(new, old, k)
                /\ At(new, id) # 0
                /\ new[At(new, id)].blob = (At(old, id) # 0 /\ old[At(old, id)].blob)
         /\ \A l \in Languages, n \in Versions :
              n \in VersionsOf(doc', l) <=> n \in VersionsOf(doc, l) \/ SlotFor(r) = Versioned(l, n)
         /\ Sorted(doc) => Sorted(doc')
  <1> DEFINE t == Target(r)
             v == Prepared(t.type, r.value)
  <1>1. schema \in Schemas /\ doc \in Document /\ Resolves(r) /\ SlotFits(r)
    BY DEF TypeOK, Write
  <1>2. SlotFor(r) \in Slots /\ SlotFor(r).kind = t.section
    BY <1>1, SlotType
  <1>3. t \in Definition
    BY <1>1, TargetType
  <1>4. t.id \in FieldIds /\ t.name \in Names \cup {Absent} /\ t.type \in Types
    BY <1>3 DEF Definition
  <1>5. v \in Values
    BY <1>4, PreparedType DEF Write, Request
  <1>6. Stamp(t.type) \in Types \cup {Absent}
    BY <1>4 DEF Stamp
  <1>7. doc' = SetField(doc, SlotFor(r), t.id, t.name, Stamp(t.type), v)
    BY DEF Write
  <1> HIDE DEF t, v
  <1>8. WritesItsSlot(doc, doc', SlotFor(r),
                      SetInList(FieldsIn(doc, SlotFor(r)), t.id, t.name, Stamp(t.type), v))
    BY <1>1, <1>2, <1>4, <1>5, <1>6, <1>7, SetFieldWritesItsSlot
  <1>9. FieldsIn(doc, SlotFor(r)) \in Seq(Field)
    BY <1>1, <1>2, FieldsType
  <1>10. FieldsIn(doc', SlotFor(r))
           = SetInList(FieldsIn(doc, SlotFor(r)), t.id, t.name, Stamp(t.type), v)
    BY <1>8 DEF WritesItsSlot
  <1>11. /\ \A k : k # t.id =>
              SameEntry(FieldsIn(doc', SlotFor(r)), FieldsIn(doc, SlotFor(r)), k)
         /\ At(FieldsIn(doc', SlotFor(r)), t.id) # 0
         /\ FieldsIn(doc', SlotFor(r))[At(FieldsIn(doc', SlotFor(r)), t.id)].blob =
              (/\ At(FieldsIn(doc, SlotFor(r)), t.id) # 0
               /\ FieldsIn(doc, SlotFor(r))[At(FieldsIn(doc, SlotFor(r)), t.id)].blob)
    <2>1. PICK old \in Seq(Field), id \in FieldIds, hint \in Names \cup {Absent},
               type \in Types \cup {Absent} :
            /\ old = FieldsIn(doc, SlotFor(r)) /\ id = t.id /\ hint = t.name
            /\ type = Stamp(t.type)
      BY <1>4, <1>6, <1>9
    <2>2. PICK new : new = FieldsIn(doc', SlotFor(r))
      OBVIOUS
    <2>3. new = SetInList(old, id, hint, type, v)
      BY <1>10, <2>1, <2>2
    <2>4. /\ At(new, id) # 0
          /\ new[At(new, id)].blob = (At(old, id) # 0 /\ old[At(old, id)].blob)
          /\ \A k : k # id => SameEntry(new, old, k)
      BY <1>5, <2>3, WrittenField
    <2>5. QED
      BY <2>1, <2>2, <2>4
  <1>12. Sorted(doc) => Sorted(doc')
    <2>1. SUFFICES ASSUME Sorted(doc) PROVE Sorted(doc')
      OBVIOUS
    <2>2. Ascending(FieldsIn(doc, SlotFor(r)))
      BY <1>1, <1>2, <2>1, FieldsOrdered
    <2>3. Ascending(SetInList(FieldsIn(doc, SlotFor(r)), t.id, t.name, Stamp(t.type), v))
      BY <1>4, <1>5, <1>6, <1>9, <2>2, WrittenField
    <2>4. QED
      BY <1>8, <2>1, <2>3 DEF WritesItsSlot
  <1>13. QED
    BY <1>2, <1>4, <1>8, <1>11, <1>12 DEF WritesItsSlot, t

-----------------------------------------------------------------------------
(* The variables keep their types: whatever is written, the file stays a   *)
(* document (set_field of the workspace).                                  *)
THEOREM TypeCorrect == Spec => []TypeOK
  <1>1. Init => TypeOK
    <2>1. Documents \subseteq Document /\ MaxRequests \in Nat
      BY RequestsAssumption
    <2>2. QED
      BY <2>1 DEF Init, TypeOK
  <1>2. TypeOK /\ [Next]_vars => TypeOK'
    <2>1. SUFFICES ASSUME TypeOK, [Next]_vars PROVE TypeOK'
      OBVIOUS
    <2>2. CASE UNCHANGED vars
      BY <2>1, <2>2 DEF TypeOK, vars
    <2>3. ASSUME NEW r \in Requests, Serve(r) PROVE TypeOK'
      <3>1. served + 1 \in 0..MaxRequests
        <4>1. MaxRequests \in Nat
          BY RequestsAssumption
        <4>2. QED
          BY <2>1, <2>3, <4>1 DEF Serve, TypeOK
      <3>2. ASSUME NEW code \in {"unknown-field", "no-slot", "invalid-value",
                                 "blob-unsupported"},
                   Refuse(r, code)
            PROVE  TypeOK'
        BY <2>1, <3>1, <3>2 DEF TypeOK, Refuse
      <3>3. CASE Write(r)
        <4>1. doc' \in Document
          BY <2>1, <3>3, WriteChangesOneList, RequestsAssumption
        <4>2. QED
          BY <2>1, <3>1, <3>3, <4>1 DEF TypeOK, Write
      <3>4. QED
        BY <2>3, <3>2, <3>3
          DEF Serve, RefuseField, RefuseSlot, RefuseValue, RefuseBlob
    <2>4. QED
      BY <2>1, <2>2, <2>3 DEF Next
  <1>3. QED
    BY <1>1, <1>2, PTL DEF Spec

(* What a step leaves alone.                                               *)
LEMMA OtherValuesStay ==
  ASSUME NEW r \in Requests, TypeOK, Write(r), NEW slot \in Slots, NEW id \in FieldIds,
         slot # SlotFor(r) \/ id # Target(r).id
  PROVE  /\ ReadSlot(doc', slot, id) = ReadSlot(doc, slot, id)
         /\ IsBlob(doc', slot, id) <=> IsBlob(doc, slot, id)
  <1>1. r \in Request
    BY RequestsAssumption
  <1>2. CASE slot # SlotFor(r)
    <2>1. FieldsIn(doc', slot) = FieldsIn(doc, slot)
      BY <1>1, <1>2, WriteChangesOneList
    <2>2. QED
      BY <2>1 DEF ReadSlot, IsBlob
  <1>3. CASE slot = SlotFor(r) /\ id # Target(r).id
    <2>1. SameEntry(FieldsIn(doc', slot), FieldsIn(doc, slot), id)
      BY <1>1, <1>3, WriteChangesOneList
    <2>2. QED
      BY <2>1 DEF ReadSlot, IsBlob, SameEntry
  <1>4. QED
    BY <1>2, <1>3

LEMMA RefusalsChangeNothing ==
  ASSUME [Next]_vars
  PROVE  doc' = doc \/ \E r \in Requests : Write(r) /\ request' = r
  BY DEF Next, vars, Serve, RefuseField, RefuseSlot, RefuseValue, RefuseBlob, Refuse, Write

LEMMA ReadType ==
  ASSUME NEW d \in Document, NEW slot \in Slots, NEW id
  PROVE  ReadSlot(d, slot, id) \in Contents
  <1>1. PICK fields \in Seq(Field) : fields = FieldsIn(d, slot)
    BY FieldsType
  <1>2. CASE At(fields, id) = 0
    BY <1>1, <1>2 DEF ReadSlot, Contents
  <1>3. CASE At(fields, id) # 0
    <2>1. At(fields, id) \in 1..Len(fields)
      BY <1>3, FirstPlace
    <2>2. fields[At(fields, id)] \in Field
      BY <2>1
    <2>3. QED
      BY <1>1, <1>3, <2>2 DEF ReadSlot, Contents, Field
  <1>4. QED
    BY <1>2, <1>3

(* Of every document, template and sequence of requests: a request changes *)
(* the value of one field in one slot at most (set_field of the workspace  *)
(* over ParsedItem::set_field).                                            *)
THEOREM OneValueAtMost == Spec => WritesOneValue
  <1>1. TypeOK /\ Init => Store!Init
    BY ReadType DEF TypeOK, Store!Init, Cells
  <1>2. TypeOK /\ TypeOK' /\ [Next]_vars =>
          [Store!Next]_[cell \in Cells |-> ReadSlot(doc, cell[1], cell[2])]
    <2> DEFINE values == [cell \in Cells |-> ReadSlot(doc, cell[1], cell[2])]
    <2>1. SUFFICES ASSUME TypeOK, TypeOK', [Next]_vars PROVE [Store!Next]_values
      OBVIOUS
    <2>2. CASE doc' = doc
      BY <2>2
    <2>3. ASSUME NEW r \in Requests, Write(r) PROVE Store!Next
      <3>1. \A a \in Cells : values'[a] \in Contents
        BY <2>1, ReadType DEF TypeOK, Cells
      <3>2. ASSUME NEW a \in Cells, values'[a] # values[a]
            PROVE  a = <<SlotFor(r), Target(r).id>>
        <4>1. PICK s \in Slots, i \in FieldIds : a = <<s, i>>
          BY DEF Cells
        <4>2. ReadSlot(doc', s, i) # ReadSlot(doc, s, i)
          BY <3>2, <4>1
        <4>3. QED
          BY <2>1, <2>3, <4>1, <4>2, OtherValuesStay
      <3>3. QED
        BY <3>1, <3>2 DEF Store!Next, Store!Changed
    <2>4. QED
      BY <2>1, <2>2, <2>3, RefusalsChangeNothing
  <1>3. QED
    BY <1>1, <1>2, TypeCorrect, PTL DEF Spec, WritesOneValue, Store!Spec

-----------------------------------------------------------------------------
(* find_field comes by the first block of a slot before any other of it.   *)
Rank == Nat \X Nat \X Nat \X Nat

LEMMA SmallestAt ==
  ASSUME NEW B, B # {}, \A b \in B : b.rank \in Rank, NEW k \in 1..4
  PROVE  \E n \in Nat : (\E b \in B : b.rank[k] = n) /\ \A b \in B : n <= b.rank[k]
  <1> DEFINE S == {b.rank[k] : b \in B}
  <1>1. S \subseteq Nat /\ S # {}
    BY DEF Rank
  <1>2. Least(S) \in S /\ \A n \in S : Least(S) <= n
    BY <1>1, LeastExists
  <1>3. QED
    BY <1>1, <1>2

LEMMA SmallestRank ==
  ASSUME NEW B, B # {}, \A b \in B : b.rank \in Rank
  PROVE  \E b \in B : \A c \in B : c.rank = b.rank \/ ComesBefore(b.rank, c.rank)
  <1>1. PICK n1 \in Nat :
          (\E b \in B : b.rank[1] = n1) /\ \A b \in B : n1 <= b.rank[1]
    <2>1. 1 \in 1..4 /\ B # {} /\ \A b \in B : b.rank \in Rank
      OBVIOUS
    <2>2. QED
      BY <2>1, SmallestAt, Zenon
  <1> DEFINE B1 == {b \in B : b.rank[1] = n1}
  <1>2. PICK n2 \in Nat :
          (\E b \in B1 : b.rank[2] = n2) /\ \A b \in B1 : n2 <= b.rank[2]
    <2>1. 2 \in 1..4 /\ B1 # {} /\ \A b \in B1 : b.rank \in Rank
      BY <1>1
    <2> HIDE DEF B1
    <2>2. QED
      BY <2>1, SmallestAt, Zenon
  <1> DEFINE B2 == {b \in B1 : b.rank[2] = n2}
  <1>3. PICK n3 \in Nat :
          (\E b \in B2 : b.rank[3] = n3) /\ \A b \in B2 : n3 <= b.rank[3]
    <2>1. 3 \in 1..4 /\ B2 # {} /\ \A b \in B2 : b.rank \in Rank
      BY <1>2
    <2> HIDE DEF B2
    <2>2. QED
      BY <2>1, SmallestAt, Zenon
  <1> DEFINE B3 == {b \in B2 : b.rank[3] = n3}
  <1>4. PICK n4 \in Nat :
          (\E b \in B3 : b.rank[4] = n4) /\ \A b \in B3 : n4 <= b.rank[4]
    <2>1. 4 \in 1..4 /\ B3 # {} /\ \A b \in B3 : b.rank \in Rank
      BY <1>3
    <2> HIDE DEF B3
    <2>2. QED
      BY <2>1, SmallestAt, Zenon
  <1>5. PICK b \in B : /\ b.rank[1] = n1 /\ b.rank[2] = n2 /\ b.rank[3] = n3 /\ b.rank[4] = n4
    BY <1>4
  <1>6. ASSUME NEW c \in B PROVE c.rank = b.rank \/ ComesBefore(b.rank, c.rank)
    <2>1. b.rank \in Rank /\ c.rank \in Rank
      OBVIOUS
    <2>2. CASE c.rank[1] # n1
      <3>1. b.rank[1] < c.rank[1]
        BY <1>1, <1>5, <2>1, <2>2 DEF Rank
      <3>2. \A m \in 1..(1 - 1) : b.rank[m] = c.rank[m]
        OBVIOUS
      <3>3. QED
        BY <3>1, <3>2 DEF ComesBefore
    <2>3. CASE c.rank[1] = n1 /\ c.rank[2] # n2
      <3>1. b.rank[2] < c.rank[2]
        BY <1>2, <1>5, <2>1, <2>3 DEF Rank
      <3>2. \A m \in 1..(2 - 1) : b.rank[m] = c.rank[m]
        BY <1>5, <2>3
      <3>3. QED
        BY <3>1, <3>2 DEF ComesBefore
    <2>4. CASE c.rank[1] = n1 /\ c.rank[2] = n2 /\ c.rank[3] # n3
      <3>1. b.rank[3] < c.rank[3]
        BY <1>3, <1>5, <2>1, <2>4 DEF Rank
      <3>2. \A m \in 1..(3 - 1) : b.rank[m] = c.rank[m]
        BY <1>5, <2>4
      <3>3. QED
        BY <3>1, <3>2 DEF ComesBefore
    <2>5. CASE c.rank[1] = n1 /\ c.rank[2] = n2 /\ c.rank[3] = n3 /\ c.rank[4] # n4
      <3>1. b.rank[4] < c.rank[4]
        BY <1>4, <1>5, <2>1, <2>5 DEF Rank
      <3>2. \A m \in 1..(4 - 1) : b.rank[m] = c.rank[m]
        BY <1>5, <2>5
      <3>3. QED
        BY <3>1, <3>2 DEF ComesBefore
    <2>6. CASE c.rank[1] = n1 /\ c.rank[2] = n2 /\ c.rank[3] = n3 /\ c.rank[4] = n4
      BY <1>5, <2>1, <2>6 DEF Rank
    <2>7. QED
      BY <2>2, <2>3, <2>4, <2>5, <2>6
  <1>7. QED
    BY <1>6

(* A block is the shared list, the list of a language, or that of one of   *)
(* its versions.                                                           *)
SharedBlock(d) == [slot |-> SharedSlot, rank |-> <<0, 0, 0, 0>>, fields |-> d.shared]
LanguageBlock(d, l) ==
  [slot |-> Unversioned(d.languages[l].key), rank |-> <<d.languages[l].key + 1, l, 0, 0>>,
   fields |-> d.languages[l].fields]
NumberBlock(d, l, v) ==
  [slot |-> Versioned(d.languages[l].key, d.languages[l].versions[v].key),
   rank |-> <<d.languages[l].key + 1, l, d.languages[l].versions[v].key, v>>,
   fields |-> d.languages[l].versions[v].fields]

LEMMA BlocksAre ==
  ASSUME NEW d
  PROVE  \A b : b \in Blocks(d) <=>
           \/ b = SharedBlock(d)
           \/ \E l \in DOMAIN d.languages :
                \/ b = LanguageBlock(d, l)
                \/ \E v \in DOMAIN d.languages[l].versions : b = NumberBlock(d, l, v)
  <1> DEFINE Numbers(l) == {NumberBlock(d, l, v) : v \in DOMAIN d.languages[l].versions}
             Of(l)      == {LanguageBlock(d, l)} \cup Numbers(l)
             All        == {Of(l) : l \in DOMAIN d.languages}
  <1>1. Blocks(d) = {SharedBlock(d)} \cup UNION All
    BY Zenon DEF Blocks, SharedBlock, LanguageBlock, NumberBlock, Unversioned, Versioned
  <1>2. \A b, l : b \in Of(l) <=>
          \/ b = LanguageBlock(d, l)
          \/ \E v \in DOMAIN d.languages[l].versions : b = NumberBlock(d, l, v)
    OBVIOUS
  <1> HIDE DEF Of
  <1>3. \A b : b \in UNION All <=> \E l \in DOMAIN d.languages : b \in Of(l)
    OBVIOUS
  <1> HIDE DEF All
  <1>4. QED
    BY <1>1, <1>2, <1>3

LEMMA BlockRanks ==
  ASSUME NEW d \in Document
  PROVE  /\ \A b \in Blocks(d) : b.rank \in Rank
         /\ \A b, c \in Blocks(d) : b.rank = c.rank => b = c
  <1>1. d.languages \in Seq(Language)
    BY DEF Document
  <1>2. ASSUME NEW l \in DOMAIN d.languages
        PROVE  /\ l \in Nat \ {0} /\ d.languages[l].key \in Nat
               /\ d.languages[l].versions \in Seq(Version)
    <2>1. l \in Nat \ {0} /\ d.languages[l] \in Language
      BY <1>1, <1>2
    <2>2. QED
      BY <2>1, KeysAssumption DEF Language
  <1>3. ASSUME NEW l \in DOMAIN d.languages, NEW v \in DOMAIN d.languages[l].versions
        PROVE  v \in Nat \ {0} /\ d.languages[l].versions[v].key \in Nat \ {0}
    <2>1. PICK versions \in Seq(Version) : versions = d.languages[l].versions
      BY <1>2
    <2>2. v \in DOMAIN versions
      BY <1>3, <2>1
    <2>3. versions[v] \in Version /\ v \in Nat \ {0}
      BY <2>2
    <2>4. versions[v].key \in Nat \ {0}
      BY <2>3, KeysAssumption DEF Version, Versions
    <2>5. QED
      BY <2>1, <2>3, <2>4
  <1>4. SharedBlock(d).rank = <<0, 0, 0, 0>>
    BY DEF SharedBlock
  <1>5. \A l : LanguageBlock(d, l).rank = <<d.languages[l].key + 1, l, 0, 0>>
    BY DEF LanguageBlock
  <1>6. \A l, v : NumberBlock(d, l, v).rank
                    = <<d.languages[l].key + 1, l, d.languages[l].versions[v].key, v>>
    BY DEF NumberBlock
  <1>7. \A b \in Blocks(d) : b.rank \in Rank
    <2>1. SharedBlock(d).rank \in Rank
      BY <1>4 DEF Rank
    <2>2. ASSUME NEW l \in DOMAIN d.languages
          PROVE  LanguageBlock(d, l).rank \in Rank
      <3>1. d.languages[l].key + 1 \in Nat /\ l \in Nat
        BY <1>2
      <3>2. <<d.languages[l].key + 1, l, 0, 0>> \in Rank
        BY <3>1 DEF Rank
      <3>3. QED
        BY <1>5, <3>2, Zenon
    <2>3. ASSUME NEW l \in DOMAIN d.languages, NEW v \in DOMAIN d.languages[l].versions
          PROVE  NumberBlock(d, l, v).rank \in Rank
      <3>1. /\ d.languages[l].key + 1 \in Nat /\ l \in Nat
            /\ d.languages[l].versions[v].key \in Nat /\ v \in Nat
        BY <1>2, <1>3
      <3>2. <<d.languages[l].key + 1, l, d.languages[l].versions[v].key, v>> \in Rank
        BY <3>1 DEF Rank
      <3>3. QED
        BY <1>6, <3>2, Zenon
    <2>4. QED
      BY <2>1, <2>2, <2>3, BlocksAre
  <1>8. ASSUME NEW b \in Blocks(d), NEW c \in Blocks(d), b.rank = c.rank PROVE b = c
    <2>1. CASE b = SharedBlock(d)
      <3>1. ASSUME NEW l \in DOMAIN d.languages, c = LanguageBlock(d, l) PROVE FALSE
        BY <1>2, <1>4, <1>5, <1>8, <2>1, <3>1
      <3>2. ASSUME NEW l \in DOMAIN d.languages, NEW v \in DOMAIN d.languages[l].versions,
                   c = NumberBlock(d, l, v)
            PROVE  FALSE
        BY <1>2, <1>4, <1>6, <1>8, <2>1, <3>2
      <3>3. QED
        BY <2>1, <3>1, <3>2, BlocksAre
    <2>2. ASSUME NEW l \in DOMAIN d.languages, b = LanguageBlock(d, l) PROVE b = c
      <3>1. c # SharedBlock(d)
        BY <1>2, <1>4, <1>5, <1>8, <2>2
      <3>2. ASSUME NEW k \in DOMAIN d.languages, c = LanguageBlock(d, k) PROVE k = l
        BY <1>2, <1>5, <1>8, <2>2, <3>2
      <3>3. ASSUME NEW k \in DOMAIN d.languages, NEW v \in DOMAIN d.languages[k].versions,
                   c = NumberBlock(d, k, v)
            PROVE  FALSE
        BY <1>2, <1>3, <1>5, <1>6, <1>8, <2>2, <3>3
      <3>4. QED
        BY <2>2, <3>1, <3>2, <3>3, BlocksAre
    <2>3. ASSUME NEW l \in DOMAIN d.languages, NEW v \in DOMAIN d.languages[l].versions,
                 b = NumberBlock(d, l, v)
          PROVE  b = c
      <3>1. c # SharedBlock(d)
        BY <1>2, <1>4, <1>6, <1>8, <2>3
      <3>2. ASSUME NEW k \in DOMAIN d.languages, c = LanguageBlock(d, k) PROVE FALSE
        BY <1>2, <1>3, <1>5, <1>6, <1>8, <2>3, <3>2
      <3>3. ASSUME NEW k \in DOMAIN d.languages, NEW w \in DOMAIN d.languages[k].versions,
                   c = NumberBlock(d, k, w)
            PROVE  k = l /\ w = v
        BY <1>2, <1>3, <1>6, <1>8, <2>3, <3>3
      <3>4. QED
        BY <2>3, <3>1, <3>2, <3>3, BlocksAre
    <2>4. QED
      BY <2>1, <2>2, <2>3, BlocksAre
  <1>9. QED
    BY <1>7, <1>8

LEMMA FoundIsFirst ==
  ASSUME NEW d \in Document, NEW id, Holding(d, id) # {}
  PROVE  /\ FindField(d, id) \in Holding(d, id)
         /\ \A c \in Holding(d, id) \ {FindField(d, id)} :
              ComesBefore(FindField(d, id).rank, c.rank)
  <1>1. Holding(d, id) \subseteq Blocks(d)
    BY DEF Holding
  <1>2. \E b \in Holding(d, id) :
          \A c \in Holding(d, id) : c.rank = b.rank \/ ComesBefore(b.rank, c.rank)
    BY <1>1, BlockRanks, SmallestRank
  <1>3. \E b \in Holding(d, id) :
          \A c \in Holding(d, id) \ {b} : ComesBefore(b.rank, c.rank)
    BY <1>1, <1>2, BlockRanks
  <1>4. QED
    BY <1>3 DEF FindField

(* The list that readers take for the one of a slot is that of its block   *)
(* of the lowest rank.                                                     *)
LEMMA ReadFromFirst ==
  ASSUME NEW d \in Document, NEW slot \in Slots, NEW id, At(FieldsIn(d, slot), id) # 0
  PROVE  \E f \in Blocks(d) :
           /\ f.slot = slot /\ f.fields = FieldsIn(d, slot)
           /\ \A b \in Blocks(d) : b.slot = slot => ~ ComesBefore(b.rank, f.rank)
  <1>1. d.languages \in Seq(Language)
    BY DEF Document
  <1>2. \A k : At(<<>>, k) = 0
    BY DEF At, Places
  <1>3. CASE slot = SharedSlot
    <2>1. SharedBlock(d) \in Blocks(d)
      BY BlocksAre
    <2>2. SharedBlock(d).slot = slot /\ SharedBlock(d).fields = FieldsIn(d, slot)
      BY <1>3, SharedFields DEF SharedBlock
    <2>3. ASSUME NEW b \in Blocks(d), b.slot = slot PROVE b = SharedBlock(d)
      <3>1. \A l : LanguageBlock(d, l).slot.kind = "unversioned"
        BY DEF LanguageBlock, Unversioned
      <3>2. \A l, v : NumberBlock(d, l, v).slot.kind = "versioned"
        BY DEF NumberBlock, Versioned
      <3>3. b.slot.kind = "shared"
        BY <1>3, <2>3 DEF SharedSlot
      <3>4. QED
        BY <3>1, <3>2, <3>3, BlocksAre
    <2>4. ~ ComesBefore(SharedBlock(d).rank, SharedBlock(d).rank)
      BY BlockRanks, <2>1 DEF ComesBefore, Rank
    <2>5. QED
      BY <2>1, <2>2, <2>3, <2>4
  <1>4. ASSUME NEW language \in Languages, slot = Unversioned(language)
        PROVE  \E f \in Blocks(d) :
                 /\ f.slot = slot /\ f.fields = FieldsIn(d, slot)
                 /\ \A b \in Blocks(d) : b.slot = slot => ~ ComesBefore(b.rank, f.rank)
    <2> DEFINE l == At(d.languages, language)
               f == LanguageBlock(d, l)
    <2>1. l # 0
      BY <1>2, <1>4 DEF FieldsIn, Unversioned
    <2>2. /\ l \in DOMAIN d.languages /\ d.languages[l].key = language
          /\ \A k \in DOMAIN d.languages : d.languages[k].key = language => l <= k
      BY <1>1, <2>1, FirstPlace
    <2>3. f \in Blocks(d) /\ f.slot = slot /\ f.fields = FieldsIn(d, slot)
      BY <1>4, <2>1, <2>2, BlocksAre DEF LanguageBlock, FieldsIn, Unversioned
    <2>4. ASSUME NEW b \in Blocks(d), b.slot = slot PROVE ~ ComesBefore(b.rank, f.rank)
      <3>1. \A k, v : NumberBlock(d, k, v).slot.kind = "versioned"
        BY DEF NumberBlock, Versioned
      <3>2. b.slot.kind = "unversioned" /\ b.slot.language = language
        BY <1>4, <2>4 DEF Unversioned
      <3>3. SharedBlock(d).slot.kind = "shared"
        BY DEF SharedBlock, SharedSlot
      <3>4. PICK k \in DOMAIN d.languages : b = LanguageBlock(d, k)
        BY <3>1, <3>2, <3>3, BlocksAre
      <3>5. d.languages[k].key = language
        BY <3>2, <3>4 DEF LanguageBlock, Unversioned
      <3>6. l <= k /\ l \in Nat /\ k \in Nat /\ language \in Nat
        BY <1>1, <2>2, <3>5, KeysAssumption
      <3>7. b.rank = <<language + 1, k, 0, 0>> /\ f.rank = <<language + 1, l, 0, 0>>
        BY <2>2, <3>4, <3>5 DEF LanguageBlock
      <3>8. QED
        BY <3>6, <3>7 DEF ComesBefore
    <2>5. QED
      BY <2>3, <2>4
  <1>5. ASSUME NEW language \in Languages, NEW version \in Versions,
               slot = Versioned(language, version)
        PROVE  \E f \in Blocks(d) :
                 /\ f.slot = slot /\ f.fields = FieldsIn(d, slot)
                 /\ \A b \in Blocks(d) : b.slot = slot => ~ ComesBefore(b.rank, f.rank)
    <2> DEFINE l == At(d.languages, language)
               v == At(d.languages[l].versions, version)
               f == NumberBlock(d, l, v)
    <2>1. l # 0 /\ v # 0
      BY <1>2, <1>5 DEF FieldsIn, Versioned
    <2>2. /\ l \in DOMAIN d.languages /\ d.languages[l].key = language
          /\ \A k \in DOMAIN d.languages : d.languages[k].key = language => l <= k
      BY <1>1, <2>1, FirstPlace
    <2>3. d.languages[l].versions \in Seq(Version)
      <3>1. \A k \in DOMAIN d.languages : d.languages[k] \in Language
        BY <1>1
      <3>2. QED
        BY <2>2, <3>1 DEF Language
    <2>4. /\ v \in DOMAIN d.languages[l].versions
          /\ d.languages[l].versions[v].key = version
          /\ \A w \in DOMAIN d.languages[l].versions :
               d.languages[l].versions[w].key = version => v <= w
      BY <2>1, <2>3, FirstPlace
    <2>5. f \in Blocks(d) /\ f.slot = slot /\ f.fields = FieldsIn(d, slot)
      <3>1. f \in Blocks(d)
        BY <2>2, <2>4, BlocksAre
      <3>2. f.slot = slot
        BY <1>5, <2>2, <2>4 DEF NumberBlock
      <3>3. FieldsIn(d, slot) = d.languages[l].versions[v].fields
        BY <1>5, <2>1 DEF FieldsIn, Versioned
      <3>4. QED
        BY <3>1, <3>2, <3>3 DEF NumberBlock
    <2>6. ASSUME NEW b \in Blocks(d), b.slot = slot PROVE ~ ComesBefore(b.rank, f.rank)
      <3>1. \A k : LanguageBlock(d, k).slot.kind = "unversioned"
        BY DEF LanguageBlock, Unversioned
      <3>2. /\ b.slot.kind = "versioned" /\ b.slot.language = language
            /\ b.slot.version = version
        BY <1>5, <2>6 DEF Versioned
      <3>3. SharedBlock(d).slot.kind = "shared"
        BY DEF SharedBlock, SharedSlot
      <3>4. PICK k \in DOMAIN d.languages :
              \E w \in DOMAIN d.languages[k].versions : b = NumberBlock(d, k, w)
        BY <3>1, <3>2, <3>3, BlocksAre
      <3>5. PICK w \in DOMAIN d.languages[k].versions : b = NumberBlock(d, k, w)
        BY <3>4
      <3>6. d.languages[k].key = language /\ d.languages[k].versions[w].key = version
        BY <3>2, <3>5 DEF NumberBlock, Versioned
      <3>7. /\ l <= k /\ l \in Nat /\ k \in Nat /\ language \in Nat /\ version \in Nat
            /\ k = l => v <= w
        BY <1>1, <2>2, <2>4, <3>6, KeysAssumption DEF Versions
      <3>8. v \in Nat /\ w \in Nat
        <4>1. \A j \in DOMAIN d.languages : d.languages[j] \in Language
          BY <1>1
        <4>2. d.languages[k].versions \in Seq(Version)
          BY <3>4, <4>1 DEF Language
        <4>3. QED
          BY <2>3, <2>4, <3>5, <4>2
      <3>9. /\ b.rank = <<language + 1, k, version, w>>
            /\ f.rank = <<language + 1, l, version, v>>
        BY <2>2, <2>4, <3>5, <3>6 DEF NumberBlock
      <3> HIDE DEF l, v, f
      <3>10. QED
        BY <3>7, <3>8, <3>9 DEF ComesBefore
    <2>7. QED
      BY <2>5, <2>6
  <1>6. QED
    BY <1>3, <1>4, <1>5, KindsOfSlots

LEMMA FoundIsRead ==
  ASSUME NEW d \in Document, NEW slot \in Slots, NEW id, At(FieldsIn(d, slot), id) # 0
  PROVE  /\ Holding(d, id) # {}
         /\ FindField(d, id).slot = slot => FindField(d, id).fields = FieldsIn(d, slot)
  <1>1. PICK f \in Blocks(d) :
          /\ f.slot = slot /\ f.fields = FieldsIn(d, slot)
          /\ \A b \in Blocks(d) : b.slot = slot => ~ ComesBefore(b.rank, f.rank)
    BY ReadFromFirst
  <1>2. f \in Holding(d, id)
    BY <1>1 DEF Holding
  <1>3. /\ FindField(d, id) \in Blocks(d)
        /\ f = FindField(d, id) \/ ComesBefore(FindField(d, id).rank, f.rank)
    BY <1>2, FoundIsFirst DEF Holding
  <1>4. QED
    BY <1>1, <1>2, <1>3

(* Of every document, template and sequence of requests: no write makes or *)
(* unmakes a blob, and the first place of a field is not written if it is  *)
(* one (the check of set_field in the kernel).                             *)
THEOREM BlobsAreKept == Spec => FirstBlobKept
  <1> DEFINE Kept(slot, id) ==
        IsBlob(doc, slot, id) =>
          /\ IsBlob(doc', slot, id)
          /\ FindField(doc, id).slot = slot => ReadSlot(doc', slot, id) = ReadSlot(doc, slot, id)
  <1>1. ASSUME TypeOK, NEW r \in Requests, Write(r), NEW slot \in Slots, NEW id \in FieldIds
        PROVE  Kept(slot, id)
    <2>1. r \in Request
      BY RequestsAssumption
    <2>2. CASE slot # SlotFor(r) \/ id # Target(r).id
      BY <1>1, <2>2, OtherValuesStay
    <2>3. CASE slot = SlotFor(r) /\ id = Target(r).id
      <3>1. SUFFICES ASSUME IsBlob(doc, slot, id)
                     PROVE  IsBlob(doc', slot, id) /\ FindField(doc, id).slot # slot
        OBVIOUS
      <3>2. At(FieldsIn(doc, slot), id) # 0 /\ FieldsIn(doc, slot)[At(FieldsIn(doc, slot), id)].blob
        BY <3>1 DEF IsBlob
      <3>3. IsBlob(doc', slot, id)
        BY <1>1, <2>1, <2>3, <3>2, WriteChangesOneList DEF IsBlob
      <3>4. /\ Holding(doc, id) # {}
            /\ FindField(doc, id).slot = slot => FindField(doc, id).fields = FieldsIn(doc, slot)
        BY <1>1, <3>2, FoundIsRead DEF TypeOK
      <3>5. ~ BlobBlocks(r)
        BY <1>1 DEF Write
      <3>6. QED
        BY <2>3, <3>2, <3>3, <3>4, <3>5 DEF BlobBlocks
    <2>4. QED
      BY <2>2, <2>3
  <1>2. ASSUME TypeOK, [Next]_vars, NEW slot \in Slots, NEW id \in FieldIds PROVE Kept(slot, id)
    <2>1. CASE doc' = doc
      BY <2>1 DEF IsBlob
    <2>2. QED
      BY <1>1, <1>2, <2>1, RefusalsChangeNothing
  <1>3. TypeOK /\ [Next]_vars =>
          [\A slot \in Slots, id \in FieldIds : Kept(slot, id)]_vars
    BY <1>2
  <1>4. QED
    BY <1>3, TypeCorrect, PTL DEF Spec, FirstBlobKept

(* Of every document in order, of fields, languages and versions, stays in *)
(* it whatever is written to it (ParsedItem::set_field, insert_keyed).     *)
THEOREM OrderIsKept == Spec => SortedStaysSorted
  <1>1. TypeOK /\ [Next]_vars => [Sorted(doc) => Sorted(doc')]_vars
    <2>1. SUFFICES ASSUME TypeOK, [Next]_vars, Sorted(doc) PROVE Sorted(doc')
      OBVIOUS
    <2>2. CASE doc' = doc
      BY <2>1, <2>2 DEF Sorted
    <2>3. ASSUME NEW r \in Requests, Write(r) PROVE Sorted(doc')
      <3>1. r \in Request
        BY RequestsAssumption
      <3>2. QED
        BY <2>1, <2>3, <3>1, WriteChangesOneList
    <2>4. QED
      BY <2>1, <2>2, <2>3, RefusalsChangeNothing
  <1>2. QED
    BY <1>1, TypeCorrect, PTL DEF Spec, SortedStaysSorted

(* Of every document, template and sequence of requests: a write without a *)
(* version goes to the latest one, makes none but the first, and leaves    *)
(* what is older alone (slot_for and latest_version of the kernel).        *)
THEOREM LatestIsWritten == Spec => DefaultWritesLatest
  <1> DEFINE Untouched ==
        \A l \in Languages :
          /\ VersionsOf(doc', l) # VersionsOf(doc, l) =>
               VersionsOf(doc, l) = {} /\ VersionsOf(doc', l) = {1}
          /\ \A v \in Versions, id \in FieldIds :
               LET slot == [kind |-> "versioned", language |-> l, version |-> v]
               IN  (\E later \in VersionsOf(doc, l) : later > v) =>
                     ReadSlot(doc', slot, id) = ReadSlot(doc, slot, id)
  <1>1. ASSUME TypeOK, TypeOK', NEW r \in Requests, Write(r), r.version = NotGiven
        PROVE  Untouched
    <2>1. r \in Request
      BY RequestsAssumption
    <2>2. doc \in Document /\ doc' \in Document /\ SlotFor(r) \in Slots
      BY <1>1, <2>1, WriteChangesOneList DEF TypeOK
    <2>3. \A l \in Languages, n \in Versions :
            n \in VersionsOf(doc', l) <=> n \in VersionsOf(doc, l) \/ SlotFor(r) = Versioned(l, n)
      BY <1>1, <2>1, WriteChangesOneList
    <2>4. SlotFor(r).kind = "versioned" =>
            SlotFor(r) = Versioned(GivenOr(r.language, English), VersionFor(r))
      BY <1>1, <2>1, SlotType DEF TypeOK, Write
    <2>5. ASSUME NEW l \in Languages, NEW n \in Versions, SlotFor(r) = Versioned(l, n)
          PROVE  n = IF VersionsOf(doc, l) # {} THEN Greatest(VersionsOf(doc, l)) ELSE 1
      <3>1. l = GivenOr(r.language, English) /\ n = VersionFor(r)
        BY <2>4, <2>5 DEF Versioned
      <3>2. QED
        BY <1>1, <3>1 DEF VersionFor
    <2>6. ASSUME NEW l \in Languages
          PROVE  /\ VersionsOf(doc, l) \subseteq Versions
                 /\ VersionsOf(doc', l) \subseteq Versions
                 /\ VersionsOf(doc, l) # {} =>
                      /\ Greatest(VersionsOf(doc, l)) \in VersionsOf(doc, l)
                      /\ \A n \in VersionsOf(doc, l) : n <= Greatest(VersionsOf(doc, l))
      <3>1. VersionsOf(doc, l) \subseteq Versions /\ VersionsOf(doc', l) \subseteq Versions
        BY <2>2, ExistingVersions
      <3>2. QED
        BY <3>1, LatestExists
    <2>7. ASSUME NEW l \in Languages, VersionsOf(doc', l) # VersionsOf(doc, l)
          PROVE  VersionsOf(doc, l) = {} /\ VersionsOf(doc', l) = {1}
      <3>1. PICK n \in Versions : SlotFor(r) = Versioned(l, n) /\ n \notin VersionsOf(doc, l)
        BY <2>3, <2>6, <2>7
      <3>2. VersionsOf(doc, l) = {} /\ n = 1
        BY <2>5, <2>6, <3>1
      <3>3. \A m : SlotFor(r) = Versioned(l, m) => m = n
        BY <3>1 DEF Versioned
      <3>4. QED
        BY <2>3, <2>6, <3>1, <3>2, <3>3
    <2>8. ASSUME NEW l \in Languages, NEW v \in Versions, NEW id \in FieldIds,
                 NEW later \in VersionsOf(doc, l), later > v
          PROVE  ReadSlot(doc', Versioned(l, v), id) = ReadSlot(doc, Versioned(l, v), id)
      <3>1. Versioned(l, v) # SlotFor(r)
        <4>1. SUFFICES ASSUME SlotFor(r) = Versioned(l, v) PROVE FALSE
          OBVIOUS
        <4>2. v = Greatest(VersionsOf(doc, l)) /\ later <= v
          BY <2>5, <2>6, <2>8, <4>1
        <4>3. later \in Int /\ v \in Int
          BY <2>6 DEF Versions
        <4>4. QED
          BY <2>8, <4>2, <4>3
      <3>2. Versioned(l, v) \in Slots
        BY SlotsDiffer
      <3>3. QED
        BY <1>1, <3>1, <3>2, OtherValuesStay
    <2>9. QED
      BY <2>7, <2>8 DEF Versioned
  <1>2. TypeOK /\ TypeOK' /\ [Next]_vars => [request'.version = NotGiven => Untouched]_vars
    <2>1. SUFFICES ASSUME TypeOK, TypeOK', [Next]_vars, request'.version = NotGiven
                   PROVE  Untouched
      OBVIOUS
    <2>2. CASE doc' = doc
      BY <2>2 DEF VersionsOf
    <2>3. QED
      BY <1>1, <2>1, <2>2, RefusalsChangeNothing
  <1>3. QED
    BY <1>2, TypeCorrect, PTL DEF Spec, DefaultWritesLatest

-----------------------------------------------------------------------------
(* Where the field is there already, nothing is made for it.               *)
InSlot(d, new, old, fields) ==
  \/ d.shared = old /\ new = [d EXCEPT !.shared = fields]
  \/ \E l \in DOMAIN d.languages :
       /\ d.languages[l].fields = old
       /\ new = [d EXCEPT !.languages =
                   [d.languages EXCEPT ![l] = [d.languages[l] EXCEPT !.fields = fields]]]
  \/ \E l \in DOMAIN d.languages : \E v \in DOMAIN d.languages[l].versions :
       /\ d.languages[l].versions[v].fields = old
       /\ new = [d EXCEPT !.languages =
                   [d.languages EXCEPT ![l] =
                      [d.languages[l] EXCEPT !.versions =
                         [d.languages[l].versions EXCEPT ![v] =
                            [d.languages[l].versions[v] EXCEPT !.fields = fields]]]]]

LEMMA SetInPlace ==
  ASSUME NEW d \in Document, NEW slot \in Slots, NEW id, NEW hint, NEW type, NEW value,
         At(FieldsIn(d, slot), id) # 0
  PROVE  InSlot(d, SetField(d, slot, id, hint, type, value), FieldsIn(d, slot),
                SetInList(FieldsIn(d, slot), id, hint, type, value))
  <1> DEFINE Set(fields) == SetInList(fields, id, hint, type, value)
             new         == SetField(d, slot, id, hint, type, value)
  <1>1. d.languages \in Seq(Language)
    BY DEF Document
  <1>2. \A k : At(<<>>, k) = 0
    BY DEF At, Places
  <1>3. CASE slot = SharedSlot
    <2>1. new = [d EXCEPT !.shared = Set(d.shared)] /\ FieldsIn(d, slot) = d.shared
      BY <1>3 DEF SetField, FieldsIn, SharedSlot
    <2> HIDE DEF Set, new
    <2>2. InSlot(d, new, FieldsIn(d, slot), Set(FieldsIn(d, slot)))
      BY <2>1 DEF InSlot
    <2>3. QED
      BY <2>2 DEF Set, new
  <1>4. ASSUME NEW language \in Languages, slot = Unversioned(language)
        PROVE  InSlot(d, new, FieldsIn(d, slot), Set(FieldsIn(d, slot)))
    <2> DEFINE l == At(d.languages, language)
    <2>1. l # 0
      BY <1>2, <1>4 DEF FieldsIn, Unversioned
    <2>2. l \in DOMAIN d.languages
      BY <1>1, <2>1, FirstPlace
    <2>3. FieldsIn(d, slot) = d.languages[l].fields
      BY <1>4, <2>1 DEF FieldsIn, Unversioned
    <2>4. EnsureLanguage(d.languages, language) = d.languages
      BY <2>1 DEF EnsureLanguage, Ensure
    <2>5. new = [d EXCEPT !.languages = [d.languages EXCEPT ![l].fields = Set(@)]]
      BY <1>4, <2>4 DEF SetField, Unversioned
    <2> HIDE DEF Set, new, l
    <2>6. [d.languages EXCEPT ![l].fields = Set(@)]
            = [d.languages EXCEPT ![l] =
                 [d.languages[l] EXCEPT !.fields = Set(FieldsIn(d, slot))]]
      BY <2>3
    <2>7. QED
      BY <2>2, <2>3, <2>5, <2>6 DEF InSlot
  <1>5. ASSUME NEW language \in Languages, NEW version \in Versions,
               slot = Versioned(language, version)
        PROVE  InSlot(d, new, FieldsIn(d, slot), Set(FieldsIn(d, slot)))
    <2> DEFINE l == At(d.languages, language)
               b == d.languages[l]
               v == At(b.versions, version)
    <2>1. l # 0 /\ v # 0
      BY <1>2, <1>5 DEF FieldsIn, Versioned
    <2>2. l \in DOMAIN d.languages
      BY <1>1, <2>1, FirstPlace
    <2>3. b \in Language /\ b.versions \in Seq(Version)
      <3>1. \A k \in DOMAIN d.languages : d.languages[k] \in Language
        BY <1>1
      <3>2. QED
        BY <2>2, <3>1 DEF Language
    <2>4. v \in DOMAIN b.versions
      BY <2>1, <2>3, FirstPlace
    <2>5. FieldsIn(d, slot) = b.versions[v].fields
      BY <1>5, <2>1 DEF FieldsIn, Versioned
    <2>6. EnsureLanguage(d.languages, language) = d.languages
      BY <2>1 DEF EnsureLanguage, Ensure
    <2>7. Ensure(b.versions, NewVersion(version)) = b.versions
      BY <2>1 DEF Ensure, NewVersion
    <2>8. EnsureVersion(d.languages, language, version) = d.languages
      <3>1. EnsureVersion(d.languages, language, version)
              = [d.languages EXCEPT ![l].versions = Ensure(@, NewVersion(version))]
        BY <2>6 DEF EnsureVersion, NewVersion
      <3> HIDE DEF l
      <3>2. [d.languages EXCEPT ![l].versions = Ensure(@, NewVersion(version))]
              = [d.languages EXCEPT ![l] = [b EXCEPT !.versions = b.versions]]
        BY <2>7
      <3>3. [b EXCEPT !.versions = b.versions] = b
        BY <2>3 DEF Language
      <3>4. [d.languages EXCEPT ![l] = b] = d.languages
        BY <1>1, <2>2
      <3>5. QED
        BY <3>1, <3>2, <3>3, <3>4
    <2>9. new = [d EXCEPT !.languages = [d.languages EXCEPT ![l].versions[v].fields = Set(@)]]
      BY <1>5, <2>8 DEF SetField, Versioned
    <2> HIDE DEF Set, new, l, v
    <2>10. [d.languages EXCEPT ![l].versions[v].fields = Set(@)]
             = [d.languages EXCEPT ![l] =
                  [b EXCEPT !.versions =
                     [b.versions EXCEPT ![v] =
                        [b.versions[v] EXCEPT !.fields = Set(FieldsIn(d, slot))]]]]
      BY <2>5
    <2>11. QED
      BY <2>2, <2>4, <2>5, <2>9, <2>10 DEF InSlot
  <1>6. QED
    BY <1>3, <1>4, <1>5, KindsOfSlots

LEMMA SameListSameDocument ==
  ASSUME NEW d \in Document, NEW new, NEW old, InSlot(d, new, old, old)
  PROVE  new = d
  <1>1. d.languages \in Seq(Language)
    BY DEF Document
  <1>2. ASSUME NEW l \in DOMAIN d.languages
        PROVE  /\ d.languages[l] \in Language /\ d.languages[l].versions \in Seq(Version)
               /\ [d.languages EXCEPT ![l] = d.languages[l]] = d.languages
    <2>1. \A k \in DOMAIN d.languages : d.languages[k] \in Language
      BY <1>1
    <2>2. d.languages[l].versions \in Seq(Version)
      BY <1>2, <2>1 DEF Language
    <2>3. [d.languages EXCEPT ![l] = d.languages[l]] = d.languages
      BY <1>1, <1>2
    <2>4. QED
      BY <1>2, <2>1, <2>2, <2>3
  <1>3. [d EXCEPT !.shared = d.shared] = d /\ [d EXCEPT !.languages = d.languages] = d
    BY DEF Document
  <1>4. ASSUME NEW l \in DOMAIN d.languages
        PROVE  [d.languages[l] EXCEPT !.fields = d.languages[l].fields] = d.languages[l]
    BY <1>2 DEF Language
  <1>5. ASSUME NEW l \in DOMAIN d.languages, NEW v \in DOMAIN d.languages[l].versions
        PROVE  [d.languages[l] EXCEPT !.versions =
                  [d.languages[l].versions EXCEPT ![v] =
                     [d.languages[l].versions[v] EXCEPT
                        !.fields = d.languages[l].versions[v].fields]]] = d.languages[l]
    <2>1. PICK versions \in Seq(Version) : versions = d.languages[l].versions
      BY <1>2
    <2>2. versions[v] \in Version
      BY <1>5, <2>1
    <2>3. [versions[v] EXCEPT !.fields = versions[v].fields] = versions[v]
      BY <2>2 DEF Version
    <2>4. [versions EXCEPT ![v] = versions[v]] = versions
      OBVIOUS
    <2>5. [d.languages[l] EXCEPT !.versions = versions] = d.languages[l]
      BY <1>2, <2>1 DEF Language
    <2>6. QED
      BY <2>1, <2>3, <2>4, <2>5
  <1>6. QED
    BY <1>2, <1>3, <1>4, <1>5 DEF InSlot

(* The same blocks, with the field in the same ones.                       *)
SameShape(d, new, id) ==
  /\ At(new.shared, id) = 0 <=> At(d.shared, id) = 0
  /\ DOMAIN new.languages = DOMAIN d.languages
  /\ \A l \in DOMAIN d.languages :
       /\ new.languages[l].key = d.languages[l].key
       /\ At(new.languages[l].fields, id) = 0 <=> At(d.languages[l].fields, id) = 0
       /\ DOMAIN new.languages[l].versions = DOMAIN d.languages[l].versions
       /\ \A v \in DOMAIN d.languages[l].versions :
            /\ new.languages[l].versions[v].key = d.languages[l].versions[v].key
            /\ At(new.languages[l].versions[v].fields, id) = 0 <=>
                 At(d.languages[l].versions[v].fields, id) = 0

LEMMA ShapeStays ==
  ASSUME NEW d \in Document, NEW new, NEW id, NEW old, NEW fields,
         InSlot(d, new, old, fields), At(old, id) # 0, At(fields, id) # 0
  PROVE  SameShape(d, new, id)
  <1>1. d.languages \in Seq(Language)
    BY DEF Document
  <1>2. ASSUME NEW l \in DOMAIN d.languages
        PROVE  d.languages[l] \in Language /\ d.languages[l].versions \in Seq(Version)
    <2>1. \A k \in DOMAIN d.languages : d.languages[k] \in Language
      BY <1>1
    <2>2. QED
      BY <1>2, <2>1 DEF Language
  <1>3. CASE d.shared = old /\ new = [d EXCEPT !.shared = fields]
    <2>1. new.shared = fields /\ new.languages = d.languages
      BY <1>3 DEF Document
    <2>2. QED
      BY <1>3, <2>1 DEF SameShape
  <1>4. ASSUME NEW l \in DOMAIN d.languages, d.languages[l].fields = old,
               new = [d EXCEPT !.languages =
                        [d.languages EXCEPT ![l] = [d.languages[l] EXCEPT !.fields = fields]]]
        PROVE  SameShape(d, new, id)
    <2> DEFINE x == [d.languages[l] EXCEPT !.fields = fields]
    <2>1. x.key = d.languages[l].key /\ x.fields = fields /\ x.versions = d.languages[l].versions
      BY <1>2 DEF Language
    <2> HIDE DEF x
    <2>2. new.shared = d.shared /\ new.languages = [d.languages EXCEPT ![l] = x]
      BY <1>4 DEF Document, x
    <2>3. /\ DOMAIN new.languages = DOMAIN d.languages
          /\ \A k \in DOMAIN d.languages :
               new.languages[k] = IF k = l THEN x ELSE d.languages[k]
      BY <1>1, <2>2
    <2>4. QED
      BY <1>4, <2>1, <2>2, <2>3 DEF SameShape
  <1>5. ASSUME NEW l \in DOMAIN d.languages, NEW v \in DOMAIN d.languages[l].versions,
               d.languages[l].versions[v].fields = old,
               new = [d EXCEPT !.languages =
                        [d.languages EXCEPT ![l] =
                           [d.languages[l] EXCEPT !.versions =
                              [d.languages[l].versions EXCEPT ![v] =
                                 [d.languages[l].versions[v] EXCEPT !.fields = fields]]]]]
        PROVE  SameShape(d, new, id)
    <2>1. PICK versions \in Seq(Version) : versions = d.languages[l].versions
      BY <1>2
    <2> DEFINE y == [versions[v] EXCEPT !.fields = fields]
               w == [versions EXCEPT ![v] = y]
               x == [d.languages[l] EXCEPT !.versions = w]
    <2>2. y.key = versions[v].key /\ y.fields = fields
      <3>1. versions[v] \in Version
        BY <1>5, <2>1
      <3>2. QED
        BY <3>1 DEF Version
    <2> HIDE DEF y
    <2>3. /\ DOMAIN w = DOMAIN versions
          /\ \A k \in DOMAIN versions : w[k] = IF k = v THEN y ELSE versions[k]
      OBVIOUS
    <2> HIDE DEF w
    <2>4. x.key = d.languages[l].key /\ x.fields = d.languages[l].fields /\ x.versions = w
      BY <1>2 DEF Language
    <2> HIDE DEF x
    <2>5. new.shared = d.shared /\ new.languages = [d.languages EXCEPT ![l] = x]
      BY <1>5, <2>1 DEF Document, x, w, y
    <2>6. /\ DOMAIN new.languages = DOMAIN d.languages
          /\ \A k \in DOMAIN d.languages :
               new.languages[k] = IF k = l THEN x ELSE d.languages[k]
      BY <1>1, <2>5
    <2>7. /\ DOMAIN x.versions = DOMAIN d.languages[l].versions
          /\ \A k \in DOMAIN d.languages[l].versions :
               /\ x.versions[k].key = d.languages[l].versions[k].key
               /\ At(x.versions[k].fields, id) = 0 <=>
                    At(d.languages[l].versions[k].fields, id) = 0
      BY <1>5, <2>1, <2>2, <2>3, <2>4
    <2>8. QED
      BY <2>4, <2>5, <2>6, <2>7 DEF SameShape
  <1>6. QED
    BY <1>3, <1>4, <1>5 DEF InSlot

LEMMA Counterparts ==
  ASSUME NEW d, NEW new, NEW id, SameShape(d, new, id)
  PROVE  /\ \A b \in Holding(d, id) : \E c \in Holding(new, id) : c.slot = b.slot /\ c.rank = b.rank
         /\ \A c \in Holding(new, id) : \E b \in Holding(d, id) : c.slot = b.slot /\ c.rank = b.rank
  <1>1. /\ SharedBlock(d).slot = SharedBlock(new).slot
        /\ SharedBlock(d).rank = SharedBlock(new).rank
        /\ At(SharedBlock(new).fields, id) = 0 <=> At(SharedBlock(d).fields, id) = 0
    BY DEF SharedBlock, SameShape
  <1>2. /\ DOMAIN new.languages = DOMAIN d.languages
        /\ \A l \in DOMAIN d.languages :
             DOMAIN new.languages[l].versions = DOMAIN d.languages[l].versions
    BY DEF SameShape
  <1>3. ASSUME NEW l \in DOMAIN d.languages
        PROVE  /\ LanguageBlock(d, l).slot = LanguageBlock(new, l).slot
               /\ LanguageBlock(d, l).rank = LanguageBlock(new, l).rank
               /\ At(LanguageBlock(new, l).fields, id) = 0 <=>
                    At(LanguageBlock(d, l).fields, id) = 0
    BY DEF LanguageBlock, SameShape
  <1>4. ASSUME NEW l \in DOMAIN d.languages, NEW v \in DOMAIN d.languages[l].versions
        PROVE  /\ NumberBlock(d, l, v).slot = NumberBlock(new, l, v).slot
               /\ NumberBlock(d, l, v).rank = NumberBlock(new, l, v).rank
               /\ At(NumberBlock(new, l, v).fields, id) = 0 <=>
                    At(NumberBlock(d, l, v).fields, id) = 0
    BY DEF NumberBlock, SameShape
  <1>5. \A b \in Holding(d, id) : \E c \in Holding(new, id) : c.slot = b.slot /\ c.rank = b.rank
    <2>1. SUFFICES ASSUME NEW b \in Blocks(d), At(b.fields, id) # 0
                   PROVE  \E c \in Blocks(new) :
                            At(c.fields, id) # 0 /\ c.slot = b.slot /\ c.rank = b.rank
      BY DEF Holding
    <2>2. CASE b = SharedBlock(d)
      BY <1>1, <2>1, <2>2, BlocksAre
    <2>3. ASSUME NEW l \in DOMAIN d.languages, b = LanguageBlock(d, l)
          PROVE  \E c \in Blocks(new) :
                   At(c.fields, id) # 0 /\ c.slot = b.slot /\ c.rank = b.rank
      BY <1>2, <1>3, <2>1, <2>3, BlocksAre
    <2>4. ASSUME NEW l \in DOMAIN d.languages, NEW v \in DOMAIN d.languages[l].versions,
                 b = NumberBlock(d, l, v)
          PROVE  \E c \in Blocks(new) :
                   At(c.fields, id) # 0 /\ c.slot = b.slot /\ c.rank = b.rank
      BY <1>2, <1>4, <2>1, <2>4, BlocksAre
    <2>5. QED
      BY <2>2, <2>3, <2>4, BlocksAre
  <1>6. \A c \in Holding(new, id) : \E b \in Holding(d, id) : c.slot = b.slot /\ c.rank = b.rank
    <2>1. SUFFICES ASSUME NEW c \in Blocks(new), At(c.fields, id) # 0
                   PROVE  \E b \in Blocks(d) :
                            At(b.fields, id) # 0 /\ c.slot = b.slot /\ c.rank = b.rank
      BY DEF Holding
    <2>2. CASE c = SharedBlock(new)
      BY <1>1, <2>1, <2>2, BlocksAre
    <2>3. ASSUME NEW l \in DOMAIN d.languages, c = LanguageBlock(new, l)
          PROVE  \E b \in Blocks(d) :
                   At(b.fields, id) # 0 /\ c.slot = b.slot /\ c.rank = b.rank
      BY <1>3, <2>1, <2>3, BlocksAre
    <2>4. ASSUME NEW l \in DOMAIN d.languages, NEW v \in DOMAIN d.languages[l].versions,
                 c = NumberBlock(new, l, v)
          PROVE  \E b \in Blocks(d) :
                   At(b.fields, id) # 0 /\ c.slot = b.slot /\ c.rank = b.rank
      BY <1>4, <2>1, <2>4, BlocksAre
    <2>5. QED
      BY <1>2, <2>2, <2>3, <2>4, BlocksAre
  <1>7. QED
    BY <1>5, <1>6

LEMMA RanksAreOrdered ==
  ASSUME NEW a \in Rank, NEW b \in Rank, ComesBefore(a, b)
  PROVE  ~ ComesBefore(b, a)
  <1>1. SUFFICES ASSUME ComesBefore(b, a) PROVE FALSE
    OBVIOUS
  <1>2. PICK k \in 1..4 : a[k] < b[k] /\ \A m \in 1..(k - 1) : a[m] = b[m]
    BY DEF ComesBefore
  <1>3. PICK j \in 1..4 : b[j] < a[j] /\ \A m \in 1..(j - 1) : b[m] = a[m]
    BY <1>1 DEF ComesBefore
  <1>4. \A i \in 1..4 : a[i] \in Nat /\ b[i] \in Nat
    BY DEF Rank
  <1>5. CASE k < j
    <2>1. k \in 1..(j - 1)
      BY <1>5
    <2>2. QED
      BY <1>2, <1>3, <1>4, <2>1
  <1>6. CASE j < k
    <2>1. j \in 1..(k - 1)
      BY <1>6
    <2>2. QED
      BY <1>2, <1>3, <1>4, <2>1
  <1>7. CASE j = k
    BY <1>2, <1>3, <1>4, <1>7
  <1>8. QED
    BY <1>5, <1>6, <1>7

LEMMA FoundInTheSameSlot ==
  ASSUME NEW d \in Document, NEW new \in Document, NEW id, SameShape(d, new, id),
         Holding(d, id) # {}
  PROVE  FindField(new, id).slot = FindField(d, id).slot
  <1> DEFINE f == FindField(d, id)
             g == FindField(new, id)
  <1>1. Holding(new, id) # {}
    BY Counterparts
  <1>2. f \in Holding(d, id) /\ \A c \in Holding(d, id) : c = f \/ ComesBefore(f.rank, c.rank)
    BY FoundIsFirst
  <1>3. g \in Holding(new, id) /\ \A c \in Holding(new, id) : c = g \/ ComesBefore(g.rank, c.rank)
    BY <1>1, FoundIsFirst
  <1> HIDE DEF f, g
  <1>4. PICK c \in Holding(new, id) : c.slot = f.slot /\ c.rank = f.rank
    BY <1>2, Counterparts
  <1>5. PICK b \in Holding(d, id) : b.slot = g.slot /\ b.rank = g.rank
    BY <1>3, Counterparts
  <1>6. f.rank \in Rank /\ g.rank \in Rank
    BY <1>2, <1>3, BlockRanks DEF Holding
  <1>7. b = f \/ c = g
    BY <1>2, <1>3, <1>4, <1>5, <1>6, RanksAreOrdered
  <1>8. QED
    BY <1>4, <1>5, <1>7 DEF f, g

(* A request that was written is in the document: what it asks for is      *)
(* there, and nothing is in its way.                                       *)
Stands(r) ==
  /\ Resolves(r) /\ SlotFits(r) /\ Accepted(Target(r).type, r.value) /\ ~ BlobBlocks(r)
  /\ doc = SetField(doc, SlotFor(r), Target(r).id, Target(r).name, Stamp(Target(r).type),
                    Prepared(Target(r).type, r.value))

RepeatInv == outcome = "written" => request \in Requests /\ Stands(request)

LEMMA WrittenStands ==
  ASSUME TypeOK, NEW r \in Requests, Write(r)
  PROVE  Stands(r)'
  <1> DEFINE t        == Target(r)
             v        == Prepared(t.type, r.value)
             slot     == SlotFor(r)
             language == GivenOr(r.language, English)
             new      == SetInList(FieldsIn(doc, slot), t.id, t.name, Stamp(t.type), v)
  <1>1. /\ r \in Request /\ doc \in Document /\ schema \in Schemas /\ schema' = schema
        /\ Resolves(r) /\ SlotFits(r) /\ Accepted(t.type, r.value) /\ ~ BlobBlocks(r)
        /\ doc' = SetField(doc, slot, t.id, t.name, Stamp(t.type), v)
    BY RequestsAssumption DEF TypeOK, Write
  <1>2. /\ slot \in Slots /\ slot.kind = t.section /\ doc' \in Document
        /\ slot.kind = "versioned" => slot = Versioned(language, VersionFor(r))
        /\ \A l \in Languages, n \in Versions :
             n \in VersionsOf(doc', l) <=> n \in VersionsOf(doc, l) \/ slot = Versioned(l, n)
    BY <1>1, WriteChangesOneList, SlotType
  <1>3. t \in Definition
    BY <1>1, TargetType
  <1>4. /\ t.id \in FieldIds /\ t.name \in Names \cup {Absent} /\ t.type \in Types
        /\ Stamp(t.type) \in Types \cup {Absent} /\ v \in Values
        /\ t.section \in {"shared", "unversioned", "versioned"}
    <2>1. /\ t.id \in FieldIds /\ t.name \in Names \cup {Absent} /\ t.type \in Types
          /\ t.section \in {"shared", "unversioned", "versioned"}
      BY <1>3 DEF Definition
    <2>2. v \in Values
      BY <1>1, <2>1, PreparedType DEF Request
    <2>3. QED
      BY <2>1, <2>2 DEF Stamp
  <1>5. Resolves(r)' = Resolves(r) /\ Target(r)' = t
    BY <1>1 DEF Resolves, Target, First, Meant, Known
  <1>6. language \in Languages
    BY <1>1, RequestsAssumption DEF Request, GivenOr
  <1>7. VersionsOf(doc, language) \subseteq Versions /\ VersionsOf(doc', language) \subseteq Versions
    BY <1>1, <1>2, ExistingVersions
  <1>8. /\ slot.kind = "versioned" => VersionFor(r)' = VersionFor(r)
        /\ SlotFits(r)'
    <2>1. slot.kind = "versioned" =>
            \A n \in Versions :
              n \in VersionsOf(doc', language) <=>
                n \in VersionsOf(doc, language) \/ n = VersionFor(r)
      BY <1>2, <1>6 DEF Versioned
    <2>2. CASE slot.kind = "versioned" /\ r.version = NotGiven
      <3>1. CASE VersionsOf(doc, language) # {}
        <4>1. VersionFor(r) = Greatest(VersionsOf(doc, language))
          BY <2>2, <3>1 DEF VersionFor
        <4>2. VersionFor(r) \in VersionsOf(doc, language)
          BY <1>7, <3>1, <4>1, LatestExists
        <4>3. VersionsOf(doc', language) = VersionsOf(doc, language)
          BY <1>7, <2>1, <2>2, <4>2
        <4>4. VersionFor(r)' = VersionFor(r)
          BY <2>2, <3>1, <4>1, <4>3 DEF VersionFor
        <4>5. QED
          BY <1>2, <1>5, <2>2, <3>1, <4>3, <4>4 DEF SlotFits
      <3>2. CASE VersionsOf(doc, language) = {}
        <4>1. VersionFor(r) = 1
          BY <2>2, <3>2 DEF VersionFor
        <4>2. 1 \in Versions
          BY KeysAssumption DEF Versions
        <4>3. VersionsOf(doc', language) = {1}
          BY <1>7, <2>1, <2>2, <3>2, <4>1, <4>2
        <4>4. Greatest(VersionsOf(doc', language)) \in VersionsOf(doc', language)
          BY <1>7, <4>3, LatestExists
        <4>5. VersionFor(r)' = VersionFor(r)
          BY <2>2, <4>1, <4>3, <4>4 DEF VersionFor
        <4>6. QED
          BY <1>2, <1>5, <2>2, <4>3, <4>5 DEF SlotFits
      <3>3. QED
        BY <3>1, <3>2
    <2>3. CASE slot.kind = "versioned" /\ r.version # NotGiven
      BY <1>2, <1>5, <2>3 DEF VersionFor, SlotFits
    <2>4. CASE slot.kind # "versioned"
      BY <1>1, <1>2, <1>4, <1>5, <2>4 DEF SlotFits
    <2>5. QED
      BY <2>2, <2>3, <2>4
  <1>9. SlotFor(r)' = slot
    <2> HIDE DEF t
    <2>1. SlotFor(r) = IF t.section = "shared" THEN SharedSlot
                       ELSE IF t.section = "unversioned" THEN Unversioned(language)
                       ELSE Versioned(language, VersionFor(r))
      BY <1>4 DEF SlotFor, Unversioned, Versioned, t
    <2>2. SlotFor(r)' = IF t.section = "shared" THEN SharedSlot
                        ELSE IF t.section = "unversioned" THEN Unversioned(language)
                        ELSE Versioned(language, VersionFor(r)')
      BY <1>4, <1>5 DEF SlotFor, Unversioned, Versioned
    <2>3. QED
      BY <1>2, <1>4, <1>8, <2>1, <2>2
  <1>10. FieldsIn(doc, slot) \in Seq(Field)
    BY <1>1, <1>2, FieldsType
  <1>11. FieldsIn(doc', slot) = new
    <2>1. WritesItsSlot(doc, doc', slot, new)
      BY <1>1, <1>2, <1>4, SetFieldWritesItsSlot
    <2>2. QED
      BY <2>1 DEF WritesItsSlot
  <1>12. /\ new \in Seq(Field) /\ At(new, t.id) # 0
         /\ new[At(new, t.id)].blob =
              (/\ At(FieldsIn(doc, slot), t.id) # 0
               /\ FieldsIn(doc, slot)[At(FieldsIn(doc, slot), t.id)].blob)
         /\ SetInList(new, t.id, t.name, Stamp(t.type), v) = new
    <2>1. PICK old \in Seq(Field), id \in FieldIds, hint \in Names \cup {Absent},
               type \in Types \cup {Absent} :
            old = FieldsIn(doc, slot) /\ id = t.id /\ hint = t.name /\ type = Stamp(t.type)
      BY <1>4, <1>10
    <2>2. PICK n : n = new
      OBVIOUS
    <2> HIDE DEF v
    <2>3. n = SetInList(old, id, hint, type, v)
      BY <2>1, <2>2
    <2>4. v \in Values
      BY <1>4
    <2>5. n \in Seq(Field) /\ At(n, id) # 0
      BY <2>3, <2>4, WrittenField
    <2>6. n[At(n, id)].blob = (At(old, id) # 0 /\ old[At(old, id)].blob)
      BY <2>3, <2>4, WrittenField
    <2>7. SetInList(n, id, hint, type, v) = n
      BY <2>3, <2>4, WrittenAgain
    <2>8. QED
      BY <2>1, <2>2, <2>5, <2>6, <2>7
  <1>13. doc' = SetField(doc', slot, t.id, t.name, Stamp(t.type), v)
    <2> HIDE DEF t, v, slot, new
    <2>1. InSlot(doc', SetField(doc', slot, t.id, t.name, Stamp(t.type), v),
                 FieldsIn(doc', slot),
                 SetInList(FieldsIn(doc', slot), t.id, t.name, Stamp(t.type), v))
      BY <1>2, <1>11, <1>12, SetInPlace
    <2>2. InSlot(doc', SetField(doc', slot, t.id, t.name, Stamp(t.type), v), new, new)
      BY <1>11, <1>12, <2>1
    <2>3. QED
      BY <1>2, <2>2, SameListSameDocument
  <1>14. ~ BlobBlocks(r)'
    <2> HIDE DEF t, v, slot, new
    <2>1. SUFFICES ASSUME FindField(doc', t.id).slot = slot,
                          FindField(doc', t.id).fields[
                            At(FindField(doc', t.id).fields, t.id)].blob
                   PROVE  FALSE
      BY <1>5, <1>9 DEF BlobBlocks, t
    <2>2. FindField(doc', t.id).fields = new
      BY <1>2, <1>11, <1>12, <2>1, FoundIsRead
    <2>3. /\ At(FieldsIn(doc, slot), t.id) # 0
          /\ FieldsIn(doc, slot)[At(FieldsIn(doc, slot), t.id)].blob
      BY <1>12, <2>1, <2>2
    <2>4. /\ Holding(doc, t.id) # {}
          /\ FindField(doc, t.id).slot = slot =>
               FindField(doc, t.id).fields = FieldsIn(doc, slot)
      BY <1>1, <1>2, <2>3, FoundIsRead
    <2>5. FindField(doc, t.id).slot # slot
      BY <1>1, <2>3, <2>4 DEF BlobBlocks, t, slot
    <2>6. InSlot(doc, doc', FieldsIn(doc, slot), new)
      BY <1>1, <1>2, <2>3, SetInPlace DEF new
    <2>7. SameShape(doc, doc', t.id)
      BY <1>1, <1>12, <2>3, <2>6, ShapeStays
    <2>8. QED
      BY <1>1, <1>2, <2>1, <2>4, <2>5, <2>7, FoundInTheSameSlot
  <1>15. QED
    BY <1>1, <1>5, <1>8, <1>9, <1>13, <1>14 DEF Stands

(* Of every document, template and sequence of requests: to repeat a       *)
(* request that was written writes the same again (set_field of the        *)
(* kernel is idempotent).                                                  *)
THEOREM RepeatsAreHarmless == Spec => RepeatChangesNothing
  <1>1. Init => RepeatInv
    BY DEF Init, RepeatInv
  <1>2. TypeOK /\ RepeatInv /\ [Next]_vars => RepeatInv'
    <2>1. SUFFICES ASSUME TypeOK, RepeatInv, [Next]_vars PROVE RepeatInv'
      OBVIOUS
    <2>2. CASE UNCHANGED vars
      <3>1. Stands(request)' = Stands(request)
        BY <2>2 DEF vars, Stands, Resolves, Target, First, Meant, Known, SlotFits, BlobBlocks,
                    SlotFor, VersionFor
      <3>2. QED
        BY <2>1, <2>2, <3>1 DEF RepeatInv, vars
    <2>3. ASSUME NEW r \in Requests, Write(r) PROVE RepeatInv'
      <3>1. Stands(r)'
        BY <2>1, <2>3, WrittenStands
      <3>2. request' = r
        BY <2>3 DEF Write
      <3>3. Stands(request)'
        BY <3>1, <3>2 DEF Stands, Resolves, Target, First, Meant, Known, SlotFits, BlobBlocks,
                          SlotFor, VersionFor
      <3>4. QED
        BY <2>3, <3>2, <3>3 DEF RepeatInv
    <2>4. ASSUME NEW r \in Requests,
                 RefuseField(r) \/ RefuseSlot(r) \/ RefuseValue(r) \/ RefuseBlob(r)
          PROVE  RepeatInv'
      BY <2>4 DEF RefuseField, RefuseSlot, RefuseValue, RefuseBlob, Refuse, RepeatInv
    <2>5. QED
      BY <2>1, <2>2, <2>3, <2>4 DEF Next, Serve
  <1>3. TypeOK /\ RepeatInv /\ [Next]_vars =>
          [request' = request /\ outcome = "written" => doc' = doc /\ outcome' = "written"]_vars
    <2>1. SUFFICES ASSUME RepeatInv, [Next]_vars, request' = request, outcome = "written"
                   PROVE  doc' = doc /\ outcome' = "written"
      OBVIOUS
    <2>2. CASE UNCHANGED vars
      BY <2>1, <2>2 DEF vars
    <2>3. ASSUME NEW r \in Requests, Serve(r) PROVE doc' = doc /\ outcome' = "written"
      <3>1. r = request
        BY <2>1, <2>3
          DEF Serve, RefuseField, RefuseSlot, RefuseValue, RefuseBlob, Refuse, Write
      <3>2. Stands(r)
        BY <2>1, <3>1 DEF RepeatInv
      <3>3. Write(r)
        BY <2>3, <3>2 DEF Serve, RefuseField, RefuseSlot, RefuseValue, RefuseBlob, Stands
      <3>4. QED
        BY <3>2, <3>3 DEF Write, Stands
    <2>4. QED
      BY <2>1, <2>2, <2>3 DEF Next
  <1>4. Spec => []RepeatInv
    BY <1>1, <1>2, TypeCorrect, PTL DEF Spec
  <1>5. QED
    BY <1>3, <1>4, TypeCorrect, PTL DEF Spec, RepeatChangesNothing
-----------------------------------------------------------------------------
(* To remove a field goes through the list and leaves its entries out.     *)
Kept(id, kept, f) == IF f.key = id THEN kept ELSE Append(kept, f)

KeepFolds(id, s, it) ==
  it = [u \in SUBSET DOMAIN s |->
         IF u = {} THEN <<>> ELSE Kept(id, it[u \ {Max(u)}], s[Max(u)])]

LEMMA KeepSteps ==
  ASSUME NEW id, NEW s \in Seq(Field)
  PROVE  \E g : /\ g[0] = <<>>
                /\ \A k \in 1..Len(s) : g[k - 1] \in Seq(Field) /\ g[k] = Kept(id, g[k - 1], s[k])
                /\ g[Len(s)] \in Seq(Field)
                /\ (CHOOSE it : KeepFolds(id, s, it))[DOMAIN s] = g[Len(s)]
  <1> DEFINE n    == Len(s)
             S    == Seq(Field)
             step == [p \in S \X (1..n) |-> Kept(id, p[1], s[p[2]])]
             c    == CHOOSE it : KeepFolds(id, s, it)
  <1>1. n \in Nat /\ DOMAIN s = 1..n /\ <<>> \in S /\ \A i \in 1..n : s[i] \in Field
    OBVIOUS
  <1>2. /\ step \in [S \X (1..n) -> S]
        /\ \A a \in S, i \in 1..n : step[<<a, i>>] = Kept(id, a, s[i]) /\ Kept(id, a, s[i]) \in S
    <2>1. \A a \in S, i \in 1..n : Kept(id, a, s[i]) \in S
      BY <1>1 DEF Kept
    <2>2. \A p \in S \X (1..n) : Kept(id, p[1], s[p[2]]) \in S
      BY <2>1
    <2>3. QED
      BY <2>1, <2>2
  <1>3. n = Len(s) /\ S = Seq(Field)
    OBVIOUS
  <1> HIDE DEF n, S, step, c
  <1>4. PICK it \in [SUBSET (1..n) -> S] : GoesByGreatest(it, n, <<>>, step)
    BY <1>1, <1>2, SetRecursion
  <1>5. KeepFolds(id, s, it)
    <2>1. ASSUME NEW u \in SUBSET (1..n), u # {}
          PROVE  it[u] = Kept(id, it[u \ {Max(u)}], s[Max(u)])
      <3>1. Max(u) \in u
        BY <1>1, <2>1, GreatestExists
      <3>2. Max(u) \in 1..n /\ it[u \ {Max(u)}] \in S
        BY <1>4, <3>1
      <3>3. it[u] = step[<<it[u \ {Max(u)}], Max(u)>>]
        BY <1>4, <2>1 DEF GoesByGreatest
      <3>4. QED
        BY <1>2, <3>2, <3>3, Zenon
    <2>2. \A u \in SUBSET (1..n) :
            it[u] = IF u = {} THEN <<>> ELSE Kept(id, it[u \ {Max(u)}], s[Max(u)])
      <3>1. {} \in SUBSET (1..n) /\ it[{}] = <<>>
        BY <1>4 DEF GoesByGreatest
      <3>2. QED
        BY <2>1, <3>1
    <2>3. it = [u \in SUBSET (1..n) |-> it[u]]
      BY <1>4
    <2>4. QED
      BY <1>1, <2>2, <2>3, Zenon DEF KeepFolds
  <1>6. KeepFolds(id, s, c)
    BY <1>5, Zenon DEF c
  <1>7. \A u \in SUBSET (1..n) :
          c[u] = IF u = {} THEN <<>> ELSE Kept(id, c[u \ {Max(u)}], s[Max(u)])
    BY <1>1, <1>6, Zenon DEF KeepFolds
  <1> DEFINE g == [k \in 0..n |-> c[1..k]]
  <1>8. g[0] = <<>>
    <2>1. 1..0 = {} /\ {} \in SUBSET (1..n) /\ 0 \in 0..n
      BY <1>1
    <2>2. QED
      BY <1>7, <2>1
  <1>9. ASSUME NEW k \in 1..n
        PROVE  g[k] = Kept(id, g[k - 1], s[k])
    <2>1. k \in 0..n /\ k - 1 \in 0..n
      BY <1>1
    <2>2. c[1..k] = Kept(id, c[1..(k - 1)], s[k])
      BY <1>1, <1>7, StepsOfSets
    <2>3. QED
      BY <2>1, <2>2
  <1>10. g[n] = c[1..n]
    BY <1>1
  <1> HIDE DEF g
  <1>11. \A k \in 0..n : g[k] \in S
    <2> DEFINE B == {k \in 0..n : g[k] \in S}
    <2>1. 0 \in B
      BY <1>1, <1>8
    <2>2. ASSUME NEW k \in 1..n, k - 1 \in B
          PROVE  k \in B
      <3>1. g[k - 1] \in S /\ k \in 0..n
        BY <1>1, <2>2
      <3>2. g[k] = Kept(id, g[k - 1], s[k])
        BY <1>9
      <3>3. Kept(id, g[k - 1], s[k]) \in S
        BY <1>2, <3>1, Zenon
      <3>4. QED
        BY <3>1, <3>2, <3>3
    <2>3. QED
      <3> HIDE DEF B
      <3>1. \A k \in 0..n : k \in B
        BY <1>1, <2>1, <2>2, BoundedInduction
      <3>2. QED
        BY <3>1 DEF B
  <1>12. \A k \in 1..n : k - 1 \in 0..n
    BY <1>1
  <1>13. \A k \in 1..n : g[k - 1] \in Seq(Field) /\ g[k] = Kept(id, g[k - 1], s[k])
    BY <1>3, <1>9, <1>11, <1>12
  <1>14. g[n] \in Seq(Field) /\ c[DOMAIN s] = g[n]
    BY <1>1, <1>3, <1>10, <1>11
  <1>15. QED
    BY <1>3, <1>8, <1>13, <1>14, Zenon DEF c

LEMMA WithoutFolds ==
  ASSUME NEW fields, NEW id
  PROVE  Without(fields, id) = (CHOOSE it : KeepFolds(id, fields, it))[DOMAIN fields]
  BY Zenon DEF Without, FoldLeft, MapThenFoldSet, KeepFolds, Kept

LEMMA KeptOneByOne ==
  ASSUME NEW id, NEW fields \in Seq(Field)
  PROVE  \E g : /\ g[0] = <<>>
                /\ \A k \in 1..Len(fields) : g[k] = Kept(id, g[k - 1], fields[k])
                /\ Without(fields, id) = g[Len(fields)]
  <1> DEFINE last == (CHOOSE it : KeepFolds(id, fields, it))[DOMAIN fields]
  <1>1. last = Without(fields, id)
    BY WithoutFolds, Zenon
  <1>2. \E g : /\ g[0] = <<>>
               /\ \A k \in 1..Len(fields) : /\ g[k - 1] \in Seq(Field)
                                              /\ g[k] = Kept(id, g[k - 1], fields[k])
               /\ g[Len(fields)] \in Seq(Field)
               /\ last = g[Len(fields)]
    BY KeepSteps, Zenon
  <1> HIDE DEF last
  <1>3. QED
    BY <1>1, <1>2, Zenon

(* A field that was not there leaves the list as it was.                   *)
LEMMA WithoutUndoesSet ==
  ASSUME NEW fields \in Seq(Field), NEW id \in FieldIds, NEW hint \in Names \cup {Absent},
         NEW type \in Types \cup {Absent}, NEW value \in Values, At(fields, id) = 0
  PROVE  Without(SetInList(fields, id, hint, type, value), id) = fields
  <1> DEFINE e   == [key |-> id, hint |-> hint, type |-> type, blob |-> FALSE, value |-> value]
             new == InsertKeyed(fields, e)
             n   == Len(fields)
  <1>1. SetInList(fields, id, hint, type, value) = new
    BY DEF SetInList
  <1>2. e \in Field /\ e.key = id
    BY DEF Field
  <1> HIDE DEF e
  <1>3. new \in Seq(Field) /\ n \in Nat /\ fields \in Seq(Field)
    BY <1>2, SomewhereInserted
  <1>4. PICK p \in 1..(n + 1) : Inserted(new, fields, e, p)
    BY <1>2, SomewhereInserted
  <1>5. \A i \in 1..n : fields[i].key # id
    BY FirstPlace
  <1> HIDE DEF new
  <1>6. PICK g : /\ g[0] = <<>>
                 /\ \A k \in 1..Len(new) : g[k] = Kept(id, g[k - 1], new[k])
                 /\ Without(new, id) = g[Len(new)]
    BY <1>3, KeptOneByOne
  <1> USE DEF Kept
  <1>7. /\ Len(new) = n + 1
        /\ \A j \in 1..(n + 1) :
             new[j] = IF j < p THEN fields[j] ELSE IF j = p THEN e ELSE fields[j - 1]
    BY <1>4 DEF Inserted
  <1>8. n = Len(fields)
    OBVIOUS
  <1> HIDE DEF n
  <1> DEFINE B == {k \in 0..(n + 1) : g[k] = SubSeq(fields, 1, IF k < p THEN k ELSE k - 1)}
  <1>9. 0 \in B
    <2>1. SubSeq(fields, 1, 0) = <<>>
      BY SubSeqEmpty
    <2>2. 0 < p /\ 0 \in 0..(n + 1)
      BY <1>3
    <2>3. QED
      BY <1>6, <2>1, <2>2
  <1>10. ASSUME NEW k \in 1..(n + 1), k - 1 \in B
         PROVE  k \in B
    <2>1. k \in 0..(n + 1)
      BY <1>3
    <2>2. ASSUME NEW m \in 1..n
          PROVE  Append(SubSeq(fields, 1, m - 1), fields[m]) = SubSeq(fields, 1, m)
      <3>1. SubSeq(fields, 1, m) = SubSeq(fields, 1, m - 1) \o <<fields[m]>>
        <4>1. m \in 1..Len(fields) /\ 1 \in 1..Len(fields) /\ m \in 1..Len(fields)
          BY <1>3, <1>8
        <4>2. QED
          BY <1>3, <4>1, SubSeqRecursiveSecond
      <3>2. SubSeq(fields, 1, m - 1) \in Seq(Field) /\ fields[m] \in Field
        <4>1. \A i \in 1..(m - 1) : fields[i] \in Field
          BY <1>3, <1>8
        <4>2. QED
          BY <1>3, <1>8, <4>1, SubSeqProperties
      <3>3. QED
        BY <3>1, <3>2
    <2>3. CASE k < p
      <3>1. k \in 1..n /\ new[k] = fields[k] /\ k - 1 < p
        BY <1>3, <1>7, <2>3
      <3>2. g[k] = Append(g[k - 1], fields[k])
        BY <1>5, <1>6, <1>7, <1>8, <3>1
      <3>3. g[k] = SubSeq(fields, 1, k)
        BY <1>10, <2>2, <3>1, <3>2
      <3>4. QED
        BY <2>1, <2>3, <3>3
    <2>4. CASE k = p
      <3>1. new[k].key = id /\ k - 1 < p
        BY <1>2, <1>7, <2>4
      <3>2. g[k] = g[k - 1]
        BY <1>6, <1>7, <3>1
      <3>3. QED
        BY <1>10, <2>1, <2>4, <3>1, <3>2
    <2>5. CASE k > p
      <3>1. k - 1 \in 1..n /\ new[k] = fields[k - 1] /\ ~ (k - 1 < p) /\ ~ (k < p)
        BY <1>3, <1>7, <2>5
      <3>2. g[k] = Append(g[k - 1], fields[k - 1])
        BY <1>5, <1>6, <1>7, <1>8, <3>1
      <3>3. g[k - 1] = SubSeq(fields, 1, (k - 1) - 1)
        BY <1>10, <3>1
      <3>4. g[k] = SubSeq(fields, 1, k - 1)
        BY <2>2, <3>1, <3>2, <3>3
      <3>5. QED
        BY <2>1, <3>1, <3>4
    <2>6. QED
      BY <1>3, <2>3, <2>4, <2>5
  <1>11. n + 1 \in B
    <2> HIDE DEF B
    <2>1. n + 1 \in Nat /\ n + 1 \in 0..(n + 1)
      BY <1>3
    <2>2. QED
      BY <1>9, <1>10, <2>1, BoundedInduction
  <1>12. g[n + 1] = SubSeq(fields, 1, n)
    BY <1>3, <1>11
  <1>13. SubSeq(fields, 1, n) = fields
    BY <1>3, <1>8, SubSeqFull
  <1>14. QED
    BY <1>1, <1>6, <1>7, <1>12, <1>13

(* A new entry is where its key is, and without it the list is as before.  *)
LEMMA RemoveUndoesInsert ==
  ASSUME NEW S, NEW list \in Seq(S), NEW e \in S, At(list, e.key) = 0
  PROVE  RemoveAt(InsertKeyed(list, e), At(InsertKeyed(list, e), e.key)) = list
  <1> DEFINE new == InsertKeyed(list, e)
             n   == Len(list)
  <1>1. new \in Seq(S) /\ n \in Nat
    BY SomewhereInserted
  <1>2. PICK p \in 1..(n + 1) : Inserted(new, list, e, p)
    BY SomewhereInserted
  <1>3. \A i \in 1..n : list[i].key # e.key
    BY FirstPlace
  <1>4. /\ Len(new) = n + 1
        /\ \A j \in 1..(n + 1) :
             new[j] = IF j < p THEN list[j] ELSE IF j = p THEN e ELSE list[j - 1]
    BY <1>2 DEF Inserted
  <1> HIDE DEF new
  <1>5. At(new, e.key) = p
    <2>1. p \in 1..Len(new) /\ new[p] = e
      BY <1>1, <1>4
    <2>2. \A j \in 1..Len(new) : new[j].key = e.key => p <= j
      BY <1>1, <1>3, <1>4
    <2>3. QED
      BY <1>1, <2>1, <2>2, FirstPlaceIs
  <1> DEFINE front == SubSeq(new, 1, p - 1)
             back  == SubSeq(new, p + 1, n + 1)
  <1>6. /\ front \in Seq(S) /\ Len(front) = p - 1
        /\ \A i \in 1..(p - 1) : front[i] = list[i]
    <2>1. \A i \in 1..(p - 1) : new[i] \in S /\ new[i] = list[i]
      BY <1>1, <1>4
    <2>2. /\ front \in Seq(S) /\ Len(front) = p - 1
          /\ \A i \in 1..(p - 1) : front[i] = new[i]
      <3>1. /\ 1 \in Int /\ p - 1 \in Int
            /\ (IF 1 <= p - 1 THEN (p - 1) - 1 + 1 ELSE 0) = p - 1
            /\ \A i \in 1..(p - 1) : i \in 1..((p - 1) - 1 + 1) /\ 1 + i - 1 = i
        BY <1>1
      <3>2. \A i \in 1..(p - 1) : new[i] \in S
        BY <2>1
      <3>3. QED
        BY <1>1, <3>1, <3>2, SubSeqProperties
    <2>3. QED
      BY <2>1, <2>2
  <1>7. /\ back \in Seq(S) /\ Len(back) = n + 1 - p
        /\ \A i \in 1..(n + 1 - p) : back[i] = list[p + i - 1]
    <2>1. \A i \in (p + 1)..(n + 1) : new[i] \in S /\ new[i] = list[i - 1]
      BY <1>1, <1>4
    <2>2. /\ back \in Seq(S) /\ Len(back) = n + 1 - p
          /\ \A i \in 1..(n + 1 - p) : back[i] = new[(p + 1) + i - 1]
      <3>1. p + 1 \in Int /\ n + 1 \in Int
        BY <1>1
      <3>2. QED
        BY <1>1, <2>1, <3>1, SubSeqProperties
    <2>3. \A i \in 1..(n + 1 - p) : (p + 1) + i - 1 \in (p + 1)..(n + 1)
                                    /\ ((p + 1) + i - 1) - 1 = p + i - 1
      BY <1>1
    <2>4. QED
      BY <2>1, <2>2, <2>3
  <1>8. RemoveAt(new, p) = front \o back
    BY <1>4 DEF RemoveAt
  <1> HIDE DEF front, back
  <1>9. /\ front \o back \in Seq(S) /\ Len(front \o back) = n
        /\ \A i \in 1..n : (front \o back)[i] = IF i <= p - 1 THEN front[i] ELSE back[i - (p - 1)]
    BY <1>1, <1>6, <1>7, ConcatProperties
  <1>10. \A i \in 1..n : (front \o back)[i] = list[i]
    <2>1. SUFFICES ASSUME NEW i \in 1..n PROVE (front \o back)[i] = list[i]
      OBVIOUS
    <2>2. CASE i <= p - 1
      <3>1. i \in 1..(p - 1)
        BY <1>1, <2>2
      <3>2. QED
        BY <1>6, <1>9, <2>2, <3>1
    <2>3. CASE ~ (i <= p - 1)
      <3>1. i - (p - 1) \in 1..(n + 1 - p) /\ p + (i - (p - 1)) - 1 = i
        BY <1>1, <2>3
      <3>2. QED
        BY <1>7, <1>9, <2>3, <3>1
    <2>4. QED
      BY <2>2, <2>3
  <1>11. front \o back = list
    BY <1>9, <1>10, SeqEqual
  <1>12. QED
    BY <1>5, <1>8, <1>11 DEF new

(* The block that was replaced can be put back.                            *)
PutAt(list, i, x) == [list EXCEPT ![i] = x]

LEMMA PutBackBlock ==
  ASSUME NEW languages \in Seq(Language), NEW language \in Languages,
         NEW x \in Language, x.key = language
  PROVE  LET new == ReplaceBlock(languages, language, x)
             at  == At(new, language)
         IN  /\ new \in Seq(Language) /\ at \in 1..Len(new) /\ new[at] = x
             /\ PutAt(new, at, Block(languages, language)) = EnsureLanguage(languages, language)
  <1> DEFINE ensured == EnsureLanguage(languages, language)
             at      == At(ensured, language)
             new     == ReplaceBlock(languages, language, x)
             b       == Block(languages, language)
  <1>1. ensured \in Seq(Language) /\ at \in 1..Len(ensured) /\ ensured[at] = b
    BY EnsuredLanguage
  <1>2. b \in Language /\ b.key = language
    BY BlockType
  <1>3. new = [ensured EXCEPT ![at] = x]
    BY DEF ReplaceBlock
  <1> HIDE DEF ensured, at, new, b
  <1>4. /\ new \in Seq(Language) /\ Len(new) = Len(ensured) /\ new[at] = x
        /\ \A j \in 1..Len(ensured) : j # at => new[j] = ensured[j]
    BY <1>1, <1>3, ExceptSeq
  <1>5. \A k : At(new, k) = At(ensured, k)
    BY <1>1, <1>2, <1>4, ChangedInPlace
  <1>6. At(new, language) = at
    BY <1>5 DEF at
  <1>7. [new EXCEPT ![at] = b] = ensured
    <2> DEFINE back == [new EXCEPT ![at] = b]
    <2>1. at \in 1..Len(new)
      BY <1>1, <1>4
    <2>2. /\ back \in Seq(Language) /\ Len(back) = Len(new) /\ back[at] = b
          /\ \A j \in 1..Len(new) : j # at => back[j] = new[j]
      BY <1>2, <1>4, <2>1, ExceptSeq
    <2> HIDE DEF back
    <2>3. \A j \in 1..Len(back) : back[j] = ensured[j]
      BY <1>1, <1>4, <2>2
    <2>4. back = ensured
      BY <1>1, <1>4, <2>2, <2>3, SeqEqual
    <2>5. QED
      BY <2>4 DEF back
  <1>8. /\ new \in Seq(Language) /\ At(new, language) \in 1..Len(new)
        /\ new[At(new, language)] = x
        /\ PutAt(new, At(new, language), b) = ensured
    BY <1>1, <1>4, <1>6, <1>7 DEF PutAt
  <1>9. QED
    BY <1>8 DEF new, b, ensured

LEMMA PutBackVersion ==
  ASSUME NEW versions \in Seq(Version), NEW version \in Versions,
         NEW x \in Version, x.key = version
  PROVE  LET new == ReplaceVersion(versions, version, x)
             at  == At(new, version)
         IN  /\ new \in Seq(Version) /\ at \in 1..Len(new) /\ new[at] = x
             /\ at = At(Ensure(versions, NewVersion(version)), version)
             /\ PutAt(new, at, VersionBlock(versions, version))
                  = Ensure(versions, NewVersion(version))
  <1> DEFINE ensured == Ensure(versions, NewVersion(version))
             at      == At(ensured, version)
             new     == ReplaceVersion(versions, version, x)
             y       == VersionBlock(versions, version)
  <1>1. ensured \in Seq(Version) /\ at \in 1..Len(ensured) /\ ensured[at] = y
    BY EnsuredVersion
  <1>2. y \in Version /\ y.key = version
    BY VersionBlockType
  <1>3. new = [ensured EXCEPT ![at] = x]
    BY DEF ReplaceVersion
  <1> HIDE DEF ensured, at, new, y
  <1>4. /\ new \in Seq(Version) /\ Len(new) = Len(ensured) /\ new[at] = x
        /\ \A j \in 1..Len(ensured) : j # at => new[j] = ensured[j]
    BY <1>1, <1>3, ExceptSeq
  <1>5. \A k : At(new, k) = At(ensured, k)
    BY <1>1, <1>2, <1>4, ChangedInPlace
  <1>6. At(new, version) = at
    BY <1>5 DEF at
  <1>7. [new EXCEPT ![at] = y] = ensured
    <2> DEFINE back == [new EXCEPT ![at] = y]
    <2>1. at \in 1..Len(new)
      BY <1>1, <1>4
    <2>2. /\ back \in Seq(Version) /\ Len(back) = Len(new) /\ back[at] = y
          /\ \A j \in 1..Len(new) : j # at => back[j] = new[j]
      BY <1>2, <1>4, <2>1, ExceptSeq
    <2> HIDE DEF back
    <2>3. \A j \in 1..Len(back) : back[j] = ensured[j]
      BY <1>1, <1>4, <2>2
    <2>4. back = ensured
      BY <1>1, <1>4, <2>2, <2>3, SeqEqual
    <2>5. QED
      BY <2>4 DEF back
  <1>8. /\ new \in Seq(Version) /\ At(new, version) \in 1..Len(new)
        /\ new[At(new, version)] = x /\ At(new, version) = At(ensured, version)
        /\ PutAt(new, At(new, version), y) = ensured
    BY <1>1, <1>4, <1>6, <1>7 DEF at, PutAt
  <1>9. QED
    BY <1>8 DEF new, y, ensured

(* What was made for a write is pruned, what was there is not.             *)
LEMMA LanguagePruned ==
  ASSUME NEW languages \in Seq(Language), NEW language \in Languages,
         \A l \in DOMAIN languages : languages[l].fields # <<>> \/ languages[l].versions # <<>>
  PROVE  PruneLanguage(EnsureLanguage(languages, language), language) = languages
  <1> DEFINE e == [key |-> language, fields |-> <<>>, versions |-> <<>>]
             l == At(languages, language)
  <1>1. e \in Language /\ e.key = language /\ e.fields = <<>> /\ e.versions = <<>>
    BY DEF Language
  <1>2. EnsureLanguage(languages, language) = IF l = 0 THEN InsertKeyed(languages, e) ELSE languages
    BY DEF EnsureLanguage, Ensure
  <1>3. Block(languages, language) = IF l = 0 THEN e ELSE languages[l]
    BY DEF Block
  <1> HIDE DEF e
  <1>4. CASE l = 0
    <2> DEFINE new == InsertKeyed(languages, e)
    <2>1. new = EnsureLanguage(languages, language)
      BY <1>2, <1>4
    <2>2. new[At(new, language)] = e
      BY <1>3, <1>4, <2>1, EnsuredLanguage
    <2>3. RemoveAt(new, At(new, language)) = languages
      BY <1>1, <1>4, RemoveUndoesInsert
    <2> HIDE DEF new
    <2>4. QED
      BY <1>1, <2>1, <2>2, <2>3 DEF PruneLanguage
  <1>5. CASE l # 0
    <2>1. l \in DOMAIN languages
      BY <1>5, FirstPlace
    <2>2. EnsureLanguage(languages, language) = languages
      BY <1>2, <1>5
    <2>3. QED
      BY <2>1, <2>2 DEF PruneLanguage
  <1>6. QED
    BY <1>4, <1>5

LEMMA VersionPruned ==
  ASSUME NEW versions \in Seq(Version), NEW version \in Versions,
         \A v \in DOMAIN versions : versions[v].fields # <<>>
  PROVE  LET ensured == Ensure(versions, NewVersion(version))
         IN  PruneVersion(ensured, At(ensured, version)) = versions
  <1> DEFINE e == NewVersion(version)
             v == At(versions, version)
  <1>1. e \in Version /\ e.key = version /\ e.fields = <<>>
    BY DEF NewVersion, Version
  <1>2. Ensure(versions, e) = IF v = 0 THEN InsertKeyed(versions, e) ELSE versions
    BY <1>1 DEF Ensure
  <1>3. VersionBlock(versions, version) = IF v = 0 THEN e ELSE versions[v]
    BY DEF VersionBlock, NewVersion
  <1>4. CASE v = 0
    <2> DEFINE new == InsertKeyed(versions, e)
    <2>1. new = Ensure(versions, e)
      BY <1>2, <1>4
    <2>2. new[At(new, version)] = e
      BY <1>3, <1>4, <2>1, EnsuredVersion
    <2> HIDE DEF e
    <2>3. RemoveAt(new, At(new, version)) = versions
      BY <1>1, <1>4, RemoveUndoesInsert
    <2> HIDE DEF new
    <2>4. PruneVersion(new, At(new, version)) = versions
      BY <1>1, <2>2, <2>3 DEF PruneVersion
    <2>5. QED
      BY <2>1, <2>4 DEF e
  <1>5. CASE v # 0
    <2>1. v \in DOMAIN versions
      BY <1>5, FirstPlace
    <2>2. Ensure(versions, e) = versions
      BY <1>2, <1>5
    <2>3. QED
      BY <2>1, <2>2 DEF PruneVersion
  <1>6. QED
    BY <1>4, <1>5

(* remove_field after set_field of a field that was not there.             *)
LEMMA RemovalUndoesSet ==
  ASSUME NEW d \in Document, NEW slot \in Slots, NEW id \in FieldIds,
         NEW hint \in Names \cup {Absent}, NEW type \in Types \cup {Absent},
         NEW value \in Values, At(FieldsIn(d, slot), id) = 0, NoEmptySection(d)
  PROVE  RemoveField(SetField(d, slot, id, hint, type, value), slot, id) = d
  <1> DEFINE old == FieldsIn(d, slot)
             new == SetInList(old, id, hint, type, value)
             set == SetField(d, slot, id, hint, type, value)
  <1>1. d.shared \in Seq(Field) /\ d.languages \in Seq(Language)
    BY DEF Document
  <1>2. old \in Seq(Field) /\ new \in Seq(Field) /\ Without(new, id) = old
    BY FieldsType, WrittenField, WithoutUndoesSet
  <1>3. /\ slot = SharedSlot => set = [d EXCEPT !.shared = new]
        /\ \A l \in Languages : slot = Unversioned(l) =>
             set = [d EXCEPT !.languages = ReplaceBlock(d.languages, l,
                      [Block(d.languages, l) EXCEPT !.fields = new])]
        /\ \A l \in Languages, v \in Versions : slot = Versioned(l, v) =>
             set = [d EXCEPT !.languages = ReplaceBlock(d.languages, l,
                      WithVersion(Block(d.languages, l), v, new))]
    BY SetFieldReplaces
  <1>4. \A l \in DOMAIN d.languages :
          /\ d.languages[l].fields # <<>> \/ d.languages[l].versions # <<>>
          /\ \A v \in DOMAIN d.languages[l].versions : d.languages[l].versions[v].fields # <<>>
    BY Zenon DEF NoEmptySection, Range
  <1>5. \A new_ : [[d EXCEPT !.languages = new_] EXCEPT !.languages = d.languages] = d
    BY DEF Document
  <1> HIDE DEF set, new
  <1>6. ASSUME slot = SharedSlot PROVE RemoveField(set, slot, id) = d
    <2>1. old = d.shared
      BY <1>6, SharedFields
    <2>2. set = [d EXCEPT !.shared = new] /\ set.shared = new
      BY <1>3, <1>6 DEF Document
    <2>3. RemoveField(set, slot, id) = [set EXCEPT !.shared = Without(set.shared, id)]
      BY <1>6 DEF RemoveField, SharedSlot
    <2> HIDE DEF old
    <2>4. QED
      BY <1>2, <2>1, <2>2, <2>3 DEF Document
  <1>7. ASSUME NEW l \in Languages, slot = Unversioned(l) PROVE RemoveField(set, slot, id) = d
    <2> DEFINE b   == Block(d.languages, l)
               x   == [b EXCEPT !.fields = new]
               all == ReplaceBlock(d.languages, l, x)
               at  == At(all, l)
    <2>1. old = b.fields
      BY <1>7, UnversionedFields
    <2> HIDE DEF old
    <2>2. b \in Language /\ b.key = l
      BY <1>1, BlockType
    <2> HIDE DEF b
    <2>3. x \in Language /\ x.key = l /\ x.fields = new /\ [x EXCEPT !.fields = old] = b
      BY <1>2, <2>1, <2>2 DEF Language
    <2> HIDE DEF x
    <2>4. /\ all \in Seq(Language) /\ at \in 1..Len(all) /\ all[at] = x
          /\ PutAt(all, at, b) = EnsureLanguage(d.languages, l)
      BY <1>1, <2>3, PutBackBlock DEF b
    <2>5. set = [d EXCEPT !.languages = all] /\ set.languages = all
      <3>1. set = [d EXCEPT !.languages = all]
        BY <1>3, <1>7 DEF x, b
      <3> HIDE DEF all
      <3>2. QED
        BY <3>1 DEF Document
    <2> HIDE DEF all, at
    <2>6. at # 0
      BY <2>4
    <2>7. RemoveField(set, slot, id)
            = [set EXCEPT !.languages =
                 PruneLanguage([all EXCEPT ![at].fields = Without(@, id)], l)]
      <3>1. At(set.languages, l) = at
        BY <2>5 DEF at
      <3>2. slot.kind = "unversioned" /\ slot.language = l
        BY <1>7 DEF Unversioned
      <3>3. QED
        BY <2>5, <2>6, <3>1, <3>2 DEF RemoveField
    <2>8. [all EXCEPT ![at].fields = Without(@, id)] = EnsureLanguage(d.languages, l)
      <3>1. [all EXCEPT ![at].fields = Without(@, id)]
              = [all EXCEPT ![at] = [x EXCEPT !.fields = Without(x.fields, id)]]
        BY <2>4
      <3>2. QED
        BY <1>2, <2>3, <2>4, <3>1 DEF PutAt
    <2>9. PruneLanguage(EnsureLanguage(d.languages, l), l) = d.languages
      BY <1>1, <1>4, LanguagePruned
    <2>10. QED
      BY <1>5, <2>5, <2>7, <2>8, <2>9
  <1>8. ASSUME NEW l \in Languages, NEW v \in Versions, slot = Versioned(l, v)
        PROVE  RemoveField(set, slot, id) = d
    <2> DEFINE b        == Block(d.languages, l)
               y        == VersionBlock(b.versions, v)
               z        == [y EXCEPT !.fields = new]
               versions == ReplaceVersion(b.versions, v, z)
               vat      == At(versions, v)
               x        == [b EXCEPT !.versions = versions]
               all      == ReplaceBlock(d.languages, l, x)
               at       == At(all, l)
    <2>1. old = y.fields
      BY <1>8, VersionedFields
    <2> HIDE DEF old
    <2>2. b \in Language /\ b.key = l /\ b.versions \in Seq(Version)
      BY <1>1, BlockType DEF Language
    <2>3. \A i \in DOMAIN b.versions : b.versions[i].fields # <<>>
      <3>1. CASE At(d.languages, l) = 0
        BY <3>1 DEF Block
      <3>2. CASE At(d.languages, l) # 0
        <4>1. At(d.languages, l) \in DOMAIN d.languages
          BY <1>1, <3>2, FirstPlace
        <4>2. QED
          BY <1>4, <3>2, <4>1 DEF Block
      <3>3. QED
        BY <3>1, <3>2
    <2> HIDE DEF b
    <2>4. y \in Version /\ y.key = v
      BY <2>2, VersionBlockType
    <2> HIDE DEF y
    <2>5. z \in Version /\ z.key = v /\ z.fields = new /\ [z EXCEPT !.fields = old] = y
      BY <1>2, <2>1, <2>4 DEF Version
    <2> HIDE DEF z
    <2>6. /\ versions \in Seq(Version) /\ vat \in 1..Len(versions) /\ versions[vat] = z
          /\ vat = At(Ensure(b.versions, NewVersion(v)), v)
          /\ PutAt(versions, vat, y) = Ensure(b.versions, NewVersion(v))
      BY <2>2, <2>5, PutBackVersion DEF y
    <2>7. x = WithVersion(b, v, new)
      BY DEF WithVersion, z, y
    <2> HIDE DEF versions
    <2>8. /\ x \in Language /\ x.key = l /\ x.versions = versions
          /\ [x EXCEPT !.versions = b.versions] = b
      BY <2>2, <2>6 DEF Language
    <2> HIDE DEF x
    <2>9. /\ all \in Seq(Language) /\ at \in 1..Len(all) /\ all[at] = x
          /\ PutAt(all, at, b) = EnsureLanguage(d.languages, l)
      BY <1>1, <2>8, PutBackBlock DEF b
    <2>10. set = [d EXCEPT !.languages = all] /\ set.languages = all
      <3>1. set = [d EXCEPT !.languages = all]
        BY <1>3, <1>8, <2>7 DEF b
      <3> HIDE DEF all
      <3>2. QED
        BY <3>1 DEF Document
    <2> HIDE DEF all, at, vat
    <2> DEFINE rest == [versions EXCEPT ![vat].fields = Without(@, id)]
    <2>11. at # 0 /\ vat # 0
      BY <2>6, <2>9
    <2>12. RemoveField(set, slot, id)
             = [set EXCEPT !.languages =
                  PruneLanguage([all EXCEPT ![at].versions = PruneVersion(rest, vat)], l)]
      <3>1. At(set.languages, l) = at /\ set.languages[at].versions = versions
        BY <2>8, <2>9, <2>10 DEF at
      <3>2. At(versions, v) = vat
        BY DEF vat
      <3>3. slot.kind = "versioned" /\ slot.language = l /\ slot.version = v
        BY <1>8 DEF Versioned
      <3>4. QED
        BY <2>10, <2>11, <3>1, <3>2, <3>3 DEF RemoveField
    <2>13. rest = Ensure(b.versions, NewVersion(v))
      <3>1. rest = [versions EXCEPT ![vat] = [z EXCEPT !.fields = Without(z.fields, id)]]
        BY <2>6
      <3>2. QED
        BY <1>2, <2>5, <2>6, <3>1 DEF PutAt
    <2> HIDE DEF rest
    <2>14. PruneVersion(rest, vat) = b.versions
      BY <2>2, <2>3, <2>6, <2>13, VersionPruned
    <2>15. [all EXCEPT ![at].versions = PruneVersion(rest, vat)] = EnsureLanguage(d.languages, l)
      <3>1. [all EXCEPT ![at].versions = b.versions]
              = [all EXCEPT ![at] = [x EXCEPT !.versions = b.versions]]
        BY <2>9
      <3>2. QED
        BY <2>8, <2>9, <2>14, <3>1 DEF PutAt
    <2>16. PruneLanguage(EnsureLanguage(d.languages, l), l) = d.languages
      BY <1>1, <1>4, LanguagePruned
    <2>17. QED
      BY <1>5, <2>10, <2>12, <2>15, <2>16
  <1>9. RemoveField(set, slot, id) = d
    BY <1>6, <1>7, <1>8, KindsOfSlots
  <1>10. QED
    BY <1>9 DEF set

(* Of every document without empty sections, every template and request:   *)
(* to remove the field a write has added gives the document back, with the *)
(* version and the language that were made for it gone (remove_field of    *)
(* the format undoes set_field).                                           *)
THEOREM RemovalIsInverse == Spec => RemovalUndoesWrite
  <1> DEFINE Undone ==
        LET slot == SlotFor(request')
            id   == Target(request').id
        IN  outcome' = "written" /\ At(FieldsIn(doc, slot), id) = 0 /\ NoEmptySection(doc) =>
              RemoveField(doc', slot, id) = doc
  <1>1. TypeOK /\ [Next]_vars => [Undone]_vars
    <2>1. SUFFICES ASSUME TypeOK, Next PROVE Undone
      BY DEF vars
    <2>2. PICK r \in Requests : Serve(r)
      BY <2>1 DEF Next
    <2>3. r \in Request /\ request' = r
      BY <2>2, RequestsAssumption
        DEF Serve, RefuseField, RefuseSlot, RefuseValue, RefuseBlob, Refuse, Write
    <2>4. SUFFICES ASSUME outcome' = "written", At(FieldsIn(doc, SlotFor(r)), Target(r).id) = 0,
                          NoEmptySection(doc)
                   PROVE  RemoveField(doc', SlotFor(r), Target(r).id) = doc
      BY <2>3
    <2>5. Write(r)
      BY <2>2, <2>4 DEF Serve, RefuseField, RefuseSlot, RefuseValue, RefuseBlob, Refuse
    <2> DEFINE t == Target(r)
    <2>6. /\ Resolves(r) /\ SlotFits(r) /\ Accepted(t.type, r.value)
          /\ doc' = SetField(doc, SlotFor(r), t.id, t.name, Stamp(t.type), Prepared(t.type, r.value))
      BY <2>5 DEF Write
    <2>7. t \in Definition /\ SlotFor(r) \in Slots /\ doc \in Document
      BY <2>1, <2>3, <2>6, TargetType, SlotType DEF TypeOK
    <2> HIDE DEF t
    <2>8. /\ t.id \in FieldIds /\ t.name \in Names \cup {Absent} /\ t.type \in Types
          /\ Stamp(t.type) \in Types \cup {Absent}
      BY <2>7 DEF Definition, Stamp
    <2>9. Prepared(t.type, r.value) \in Values
      <3>1. r.value \in Values
        BY <2>3 DEF Request
      <3>2. QED
        BY <2>6, <2>8, <3>1, PreparedType
    <2>10. At(FieldsIn(doc, SlotFor(r)), t.id) = 0
      BY <2>4 DEF t
    <2>11. RemoveField(doc', SlotFor(r), t.id) = doc
      BY <2>4, <2>6, <2>7, <2>8, <2>9, <2>10, RemovalUndoesSet
    <2>12. QED
      BY <2>11 DEF t
  <1>2. QED
    BY <1>1, TypeCorrect, PTL DEF Spec, RemovalUndoesWrite

-----------------------------------------------------------------------------
(* No key twice, of the languages and of the versions of each.             *)
KeysOnce(list) == \A i, j \in DOMAIN list : list[i].key = list[j].key => i = j

VersionsOnce(languages) == \A l \in DOMAIN languages : KeysOnce(languages[l].versions)

BlocksOnce(d) == KeysOnce(d.languages) /\ VersionsOnce(d.languages)

LEMMA NothingTwice == KeysOnce(<<>>)
  BY DEF KeysOnce

(* What is made is made because it was not there, and what is replaced     *)
(* keeps its key.                                                          *)
LEMMA EnsuredOnce ==
  ASSUME NEW S, NEW list \in Seq(S), NEW e \in S, KeysOnce(list)
  PROVE  /\ KeysOnce(Ensure(list, e))
         /\ \A i \in DOMAIN Ensure(list, e) :
              Ensure(list, e)[i] = e \/ \E j \in DOMAIN list : Ensure(list, e)[i] = list[j]
  <1>1. CASE At(list, e.key) # 0
    BY <1>1 DEF Ensure
  <1>2. CASE At(list, e.key) = 0
    <2> DEFINE new == InsertKeyed(list, e)
    <2>1. Ensure(list, e) = new
      BY <1>2 DEF Ensure
    <2>2. new \in Seq(S) /\ \E p \in 1..(Len(list) + 1) : Inserted(new, list, e, p)
      BY SomewhereInserted
    <2>3. \A i \in 1..Len(list) : list[i].key # e.key
      BY <1>2, FirstPlace
    <2> HIDE DEF new
    <2>4. PICK p \in 1..(Len(list) + 1) : Inserted(new, list, e, p)
      BY <2>2
    <2>5. /\ DOMAIN new = 1..(Len(list) + 1) /\ DOMAIN list = 1..Len(list) /\ Len(list) \in Nat
          /\ \A j \in 1..(Len(list) + 1) :
               new[j] = IF j < p THEN list[j] ELSE IF j = p THEN e ELSE list[j - 1]
      BY <2>2, <2>4 DEF Inserted
    <2>6. \A j \in 1..(Len(list) + 1) :
            /\ j < p => j \in 1..Len(list)
            /\ j > p => j - 1 \in 1..Len(list)
      BY <2>5
    <2>7. ASSUME NEW i \in DOMAIN new, NEW j \in DOMAIN new, new[i].key = new[j].key
          PROVE  i = j
      <3>1. i = p <=> j = p
        <4>1. ASSUME NEW k \in 1..(Len(list) + 1), k # p PROVE new[k].key # e.key
          <5>1. CASE k < p
            BY <2>3, <2>5, <2>6, <4>1, <5>1
          <5>2. CASE k > p
            <6>1. k - 1 \in 1..Len(list) /\ new[k] = list[k - 1]
              BY <2>5, <2>6, <4>1, <5>2
            <6>2. QED
              BY <2>3, <6>1
          <5>3. QED
            BY <2>5, <4>1, <5>1, <5>2
        <4>2. new[p].key = e.key
          BY <2>5
        <4>3. QED
          BY <2>5, <2>7, <4>1, <4>2
      <3>2. ASSUME i # p PROVE i = j
        <4> DEFINE k == IF i < p THEN i ELSE i - 1
                   m == IF j < p THEN j ELSE j - 1
        <4>1. k \in DOMAIN list /\ m \in DOMAIN list /\ list[k].key = list[m].key
          BY <2>5, <2>6, <2>7, <3>1, <3>2
        <4>2. k = m
          BY <4>1 DEF KeysOnce
        <4>3. QED
          BY <2>5, <3>1, <3>2, <4>2
      <3>3. QED
        BY <3>1, <3>2
    <2>8. \A i \in DOMAIN new : new[i] = e \/ \E j \in DOMAIN list : new[i] = list[j]
      BY <2>5, <2>6
    <2>9. QED
      BY <2>1, <2>7, <2>8 DEF KeysOnce
  <1>3. QED
    BY <1>1, <1>2

LEMMA ReplacedOnce ==
  ASSUME NEW S, NEW list \in Seq(S), KeysOnce(list), NEW i \in 1..Len(list),
         NEW x, x.key = list[i].key
  PROVE  KeysOnce([list EXCEPT ![i] = x])
  <1> DEFINE new == [list EXCEPT ![i] = x]
  <1>1. DOMAIN new = DOMAIN list /\ DOMAIN list = 1..Len(list)
    OBVIOUS
  <1>2. \A j \in DOMAIN list : new[j] = IF j = i THEN x ELSE list[j]
    OBVIOUS
  <1> HIDE DEF new
  <1>3. \A j \in DOMAIN list : new[j].key = list[j].key
    BY <1>1, <1>2
  <1>4. \A j, k \in DOMAIN list : list[j].key = list[k].key => j = k
    BY DEF KeysOnce
  <1>5. KeysOnce(new)
    BY <1>1, <1>3, <1>4 DEF KeysOnce
  <1>6. QED
    BY <1>5 DEF new

LEMMA VersionsStayOnce ==
  ASSUME NEW versions \in Seq(Version), NEW version \in Versions,
         NEW x \in Version, x.key = version, KeysOnce(versions)
  PROVE  KeysOnce(ReplaceVersion(versions, version, x))
  <1> DEFINE e       == NewVersion(version)
             ensured == Ensure(versions, e)
             v       == At(ensured, version)
  <1>1. /\ ensured \in Seq(Version) /\ v \in 1..Len(ensured) /\ ensured[v].key = version
    BY EnsuredVersion, VersionBlockType
  <1>2. e \in Version
    BY DEF Version, NewVersion
  <1> HIDE DEF e
  <1>3. KeysOnce(ensured)
    BY <1>2, EnsuredOnce
  <1>4. ReplaceVersion(versions, version, x) = [ensured EXCEPT ![v] = x]
    BY DEF ReplaceVersion, e
  <1> HIDE DEF ensured, v
  <1>5. KeysOnce([ensured EXCEPT ![v] = x])
    BY <1>1, <1>3, ReplacedOnce
  <1>6. QED
    BY <1>4, <1>5

LEMMA LanguagesStayOnce ==
  ASSUME NEW languages \in Seq(Language), NEW language \in Languages,
         NEW x \in Language, x.key = language, KeysOnce(x.versions),
         KeysOnce(languages), VersionsOnce(languages)
  PROVE  /\ KeysOnce(ReplaceBlock(languages, language, x))
         /\ VersionsOnce(ReplaceBlock(languages, language, x))
  <1> DEFINE e       == [key |-> language, fields |-> <<>>, versions |-> <<>>]
             ensured == EnsureLanguage(languages, language)
             l       == At(ensured, language)
  <1>1. /\ ensured \in Seq(Language) /\ l \in 1..Len(ensured) /\ ensured[l].key = language
    BY EnsuredLanguage, BlockType
  <1>2. e \in Language /\ e.versions = <<>> /\ ensured = Ensure(languages, e)
    BY DEF Language, EnsureLanguage
  <1>3. ReplaceBlock(languages, language, x) = [ensured EXCEPT ![l] = x]
    BY DEF ReplaceBlock
  <1> HIDE DEF e, ensured
  <1>4. /\ KeysOnce(ensured)
        /\ \A i \in DOMAIN ensured :
             ensured[i] = e \/ \E j \in DOMAIN languages : ensured[i] = languages[j]
    BY <1>2, EnsuredOnce
  <1>5. VersionsOnce(ensured)
    BY <1>2, <1>4, NothingTwice DEF VersionsOnce
  <1> HIDE DEF l
  <1>6. KeysOnce([ensured EXCEPT ![l] = x])
    BY <1>1, <1>4, ReplacedOnce
  <1>7. VersionsOnce([ensured EXCEPT ![l] = x])
    BY <1>1, <1>5 DEF VersionsOnce
  <1>8. QED
    BY <1>3, <1>6, <1>7

LEMMA BlockHasOnce ==
  ASSUME NEW languages \in Seq(Language), NEW language \in Languages, VersionsOnce(languages)
  PROVE  KeysOnce(Block(languages, language).versions)
  <1>1. CASE At(languages, language) = 0
    BY <1>1, NothingTwice DEF Block
  <1>2. CASE At(languages, language) # 0
    <2>1. At(languages, language) \in DOMAIN languages
      BY <1>2, FirstPlace
    <2>2. QED
      BY <1>2, <2>1 DEF Block, VersionsOnce
  <1>3. QED
    BY <1>1, <1>2

(* set_field makes no language and no version a second time.               *)
LEMMA SetFieldKeepsOnce ==
  ASSUME NEW d \in Document, BlocksOnce(d), NEW slot \in Slots, NEW id \in FieldIds,
         NEW hint \in Names \cup {Absent}, NEW type \in Types \cup {Absent},
         NEW value \in Values
  PROVE  BlocksOnce(SetField(d, slot, id, hint, type, value))
  <1> DEFINE new == SetInList(FieldsIn(d, slot), id, hint, type, value)
             set == SetField(d, slot, id, hint, type, value)
  <1>1. new \in Seq(Field)
    BY FieldsType, WrittenField
  <1>2. /\ slot = SharedSlot => set = [d EXCEPT !.shared = new]
        /\ \A l \in Languages : slot = Unversioned(l) =>
             set = [d EXCEPT !.languages = ReplaceBlock(d.languages, l,
                      [Block(d.languages, l) EXCEPT !.fields = new])]
        /\ \A l \in Languages, v \in Versions : slot = Versioned(l, v) =>
             set = [d EXCEPT !.languages = ReplaceBlock(d.languages, l,
                      WithVersion(Block(d.languages, l), v, new))]
    BY SetFieldReplaces
  <1>3. d.languages \in Seq(Language) /\ KeysOnce(d.languages) /\ VersionsOnce(d.languages)
    BY DEF Document, BlocksOnce
  <1> HIDE DEF new, set
  <1>4. ASSUME slot = SharedSlot PROVE BlocksOnce(set)
    <2>1. set.languages = d.languages
      BY <1>2, <1>4 DEF Document
    <2>2. QED
      BY <1>3, <2>1 DEF BlocksOnce
  <1>5. ASSUME NEW l \in Languages, NEW x \in Language, x.key = l, KeysOnce(x.versions),
               set = [d EXCEPT !.languages = ReplaceBlock(d.languages, l, x)]
        PROVE  BlocksOnce(set)
    <2>1. set.languages = ReplaceBlock(d.languages, l, x)
      BY <1>5 DEF Document
    <2>2. QED
      BY <1>3, <1>5, <2>1, LanguagesStayOnce DEF BlocksOnce
  <1>6. ASSUME NEW l \in Languages, slot = Unversioned(l) PROVE BlocksOnce(set)
    <2> DEFINE b == Block(d.languages, l)
               x == [b EXCEPT !.fields = new]
    <2>1. b \in Language /\ b.key = l /\ KeysOnce(b.versions)
      BY <1>3, BlockType, BlockHasOnce
    <2> HIDE DEF b
    <2>2. x \in Language /\ x.key = l /\ x.versions = b.versions
      BY <1>1, <2>1 DEF Language
    <2>3. set = [d EXCEPT !.languages = ReplaceBlock(d.languages, l, x)]
      BY <1>2, <1>6 DEF b
    <2> HIDE DEF x
    <2>4. QED
      BY <1>5, <2>1, <2>2, <2>3
  <1>7. ASSUME NEW l \in Languages, NEW v \in Versions, slot = Versioned(l, v)
        PROVE  BlocksOnce(set)
    <2> DEFINE b == Block(d.languages, l)
               w == VersionBlock(b.versions, v)
               y == [w EXCEPT !.fields = new]
               x == [b EXCEPT !.versions = ReplaceVersion(b.versions, v, y)]
    <2>1. b \in Language /\ b.key = l /\ KeysOnce(b.versions)
      BY <1>3, BlockType, BlockHasOnce
    <2>2. set = [d EXCEPT !.languages = ReplaceBlock(d.languages, l, x)]
      BY <1>2, <1>7 DEF WithVersion
    <2> HIDE DEF b
    <2>3. b.versions \in Seq(Version)
      BY <2>1 DEF Language
    <2>4. w \in Version /\ w.key = v
      BY <2>3, VersionBlockType
    <2> HIDE DEF w
    <2>5. y \in Version /\ y.key = v
      BY <1>1, <2>4 DEF Version
    <2> HIDE DEF y
    <2>6. /\ ReplaceVersion(b.versions, v, y) \in Seq(Version)
          /\ KeysOnce(ReplaceVersion(b.versions, v, y))
      BY <2>1, <2>3, <2>5, VersionReplaced, VersionsStayOnce
    <2>7. x \in Language /\ x.key = l /\ x.versions = ReplaceVersion(b.versions, v, y)
      BY <2>1, <2>6 DEF Language
    <2> HIDE DEF x
    <2>8. QED
      BY <1>5, <2>2, <2>6, <2>7
  <1>8. BlocksOnce(set)
    BY <1>4, <1>6, <1>7, KindsOfSlots
  <1>9. QED
    BY <1>8 DEF set

(* Then a slot has one block.                                              *)
LEMMA OneBlockASlot ==
  ASSUME NEW d \in Document
  PROVE  NoBlockTwice(d) <=> BlocksOnce(d)
  <1>1. d.languages \in Seq(Language)
    BY DEF Document
  <1>2. SharedBlock(d).slot.kind = "shared"
    BY DEF SharedBlock, SharedSlot
  <1>3. \A l : /\ LanguageBlock(d, l).slot.kind = "unversioned"
               /\ LanguageBlock(d, l).slot.language = d.languages[l].key
               /\ LanguageBlock(d, l).rank[2] = l
    BY DEF LanguageBlock, Unversioned
  <1>4. \A l, v : /\ NumberBlock(d, l, v).slot.kind = "versioned"
                  /\ NumberBlock(d, l, v).slot.language = d.languages[l].key
                  /\ NumberBlock(d, l, v).slot.version = d.languages[l].versions[v].key
                  /\ NumberBlock(d, l, v).rank[4] = v
    BY DEF NumberBlock, Versioned
  <1>5. ASSUME NoBlockTwice(d) PROVE BlocksOnce(d)
    <2>1. ASSUME NEW k \in DOMAIN d.languages, NEW l \in DOMAIN d.languages,
                 d.languages[k].key = d.languages[l].key
          PROVE  k = l
      <3>1. LanguageBlock(d, k) \in Blocks(d) /\ LanguageBlock(d, l) \in Blocks(d)
        BY BlocksAre
      <3>2. LanguageBlock(d, k).slot = LanguageBlock(d, l).slot
        BY <2>1 DEF LanguageBlock
      <3>3. LanguageBlock(d, k) = LanguageBlock(d, l)
        BY <1>5, <3>1, <3>2 DEF NoBlockTwice
      <3>4. QED
        BY <1>3, <3>3
    <2>2. ASSUME NEW l \in DOMAIN d.languages, NEW v \in DOMAIN d.languages[l].versions,
                 NEW w \in DOMAIN d.languages[l].versions,
                 d.languages[l].versions[v].key = d.languages[l].versions[w].key
          PROVE  v = w
      <3>1. NumberBlock(d, l, v) \in Blocks(d) /\ NumberBlock(d, l, w) \in Blocks(d)
        BY BlocksAre
      <3>2. NumberBlock(d, l, v).slot = NumberBlock(d, l, w).slot
        BY <2>2 DEF NumberBlock
      <3>3. NumberBlock(d, l, v) = NumberBlock(d, l, w)
        BY <1>5, <3>1, <3>2 DEF NoBlockTwice
      <3>4. QED
        BY <1>4, <3>3
    <2>3. QED
      BY <2>1, <2>2 DEF BlocksOnce, VersionsOnce, KeysOnce
  <1>6. ASSUME BlocksOnce(d), NEW b \in Blocks(d), NEW c \in Blocks(d), b.slot = c.slot
        PROVE  b = c
    <2>1. CASE b = SharedBlock(d)
      BY <1>2, <1>3, <1>4, <1>6, <2>1, BlocksAre
    <2>2. ASSUME NEW l \in DOMAIN d.languages, b = LanguageBlock(d, l) PROVE b = c
      <3>1. PICK k \in DOMAIN d.languages : c = LanguageBlock(d, k)
        BY <1>2, <1>3, <1>4, <1>6, <2>2, BlocksAre
      <3>2. k = l
        BY <1>3, <1>6, <2>2, <3>1 DEF BlocksOnce, KeysOnce
      <3>3. QED
        BY <2>2, <3>1, <3>2
    <2>3. ASSUME NEW l \in DOMAIN d.languages, NEW v \in DOMAIN d.languages[l].versions,
                 b = NumberBlock(d, l, v)
          PROVE  b = c
      <3>1. PICK k \in DOMAIN d.languages :
              \E w \in DOMAIN d.languages[k].versions : c = NumberBlock(d, k, w)
        BY <1>2, <1>3, <1>4, <1>6, <2>3, BlocksAre
      <3>2. PICK w \in DOMAIN d.languages[k].versions : c = NumberBlock(d, k, w)
        BY <3>1
      <3>3. k = l
        BY <1>4, <1>6, <2>3, <3>2 DEF BlocksOnce, KeysOnce
      <3>4. w = v
        BY <1>4, <1>6, <2>3, <3>2, <3>3 DEF BlocksOnce, VersionsOnce, KeysOnce
      <3>5. QED
        BY <2>3, <3>2, <3>3, <3>4
    <2>4. QED
      BY <2>1, <2>2, <2>3, BlocksAre
  <1>7. QED
    BY <1>5, <1>6 DEF NoBlockTwice

(* Which slots the index reads of an item: where the field is, but not an  *)
(* older version; and the order it reads them in.                          *)
Newest(d, slot) ==
  slot.kind = "versioned" => slot.version = Greatest(VersionsOf(d, slot.language))

Readable(d, id, slot) == ReadSlot(d, slot, id) # Absent /\ Newest(d, slot)

Precedes(one, other) ==
  \/ one.kind = "shared" /\ other.kind # "shared"
  \/ one.kind = "unversioned" /\ other.kind = "unversioned" /\ one.language < other.language
  \/ one.kind = "unversioned" /\ other.kind = "versioned"
  \/ one.kind = "versioned" /\ other.kind = "versioned" /\ one.language < other.language

IsFirst(d, id, slot) ==
  /\ Readable(d, id, slot)
  /\ \A other \in Slots \ {slot} : Readable(d, id, other) => Precedes(slot, other)

LEMMA OtherKinds ==
  ASSUME NEW slot \in Slots, slot # SharedSlot
  PROVE  slot.kind \in {"unversioned", "versioned"}
  <1>1. \A l : Unversioned(l).kind = "unversioned"
    BY DEF Unversioned
  <1>2. \A l, v : Versioned(l, v).kind = "versioned"
    BY DEF Versioned
  <1>3. QED
    BY <1>1, <1>2, KindsOfSlots

LEMMA ReadIfThere ==
  ASSUME NEW d \in Document, NEW slot \in Slots, NEW id
  PROVE  ReadSlot(d, slot, id) # Absent <=> At(FieldsIn(d, slot), id) # 0
  <1>1. PICK fields \in Seq(Field) : fields = FieldsIn(d, slot)
    BY FieldsType
  <1>2. CASE At(fields, id) = 0
    BY <1>1, <1>2 DEF ReadSlot
  <1>3. CASE At(fields, id) # 0
    <2>1. At(fields, id) \in 1..Len(fields)
      BY <1>3, FirstPlace
    <2>2. fields[At(fields, id)] \in Field
      BY <2>1
    <2>3. fields[At(fields, id)].value # Absent
      BY <2>2, KeysAssumption DEF Field
    <2>4. QED
      BY <1>1, <1>3, <2>3 DEF ReadSlot
  <1>4. QED
    BY <1>2, <1>3

(* A version that is read is one that is there.                            *)
LEMMA ReadVersionIsThere ==
  ASSUME NEW d \in Document, NEW l \in Languages, NEW v \in Versions, NEW id,
         ReadSlot(d, Versioned(l, v), id) # Absent
  PROVE  v \in VersionsOf(d, l)
  <1>1. At(FieldsIn(d, Versioned(l, v)), id) # 0
    BY ReadIfThere, SlotsDiffer
  <1>2. PICK versions : versions = Block(d.languages, l).versions
    OBVIOUS
  <1>3. FieldsIn(d, Versioned(l, v)) = VersionBlock(versions, v).fields
    BY <1>2, VersionedFields
  <1>4. At(<<>>, id) = 0
    BY DEF At, Places
  <1>5. At(versions, v) # 0
    BY <1>1, <1>3, <1>4 DEF VersionBlock
  <1>6. QED
    BY <1>2, <1>5, VersionsAre

(* Two slots that are read come one after the other.                       *)
LEMMA ReadOneByOne ==
  ASSUME NEW d, NEW id, NEW s \in Slots, NEW t \in Slots, s # t,
         Readable(d, id, s), Readable(d, id, t)
  PROVE  /\ Precedes(s, t) \/ Precedes(t, s)
         /\ ReadBefore(d, s, t) <=> Precedes(s, t)
  <1>1. \A l \in Languages, k \in Languages : l < k \/ k < l \/ l = k
    BY KeysAssumption
  <1>2. CASE s = SharedSlot
    <2>1. t.kind \in {"unversioned", "versioned"} /\ s.kind = "shared"
      BY <1>2, OtherKinds DEF SharedSlot
    <2>2. Precedes(s, t)
      BY <2>1 DEF Precedes
    <2>3. ReadBefore(d, s, t)
      BY <2>1 DEF ReadBefore
    <2>4. QED
      BY <2>2, <2>3
  <1>3. ASSUME NEW l \in Languages, s = Unversioned(l)
        PROVE  /\ Precedes(s, t) \/ Precedes(t, s)
               /\ ReadBefore(d, s, t) <=> Precedes(s, t)
    <2>1. s.kind = "unversioned" /\ s.language = l
      BY <1>3 DEF Unversioned
    <2>2. CASE t = SharedSlot
      BY <2>1, <2>2 DEF Precedes, ReadBefore, SharedSlot
    <2>3. ASSUME NEW k \in Languages, t = Unversioned(k)
          PROVE  /\ Precedes(s, t) \/ Precedes(t, s)
                 /\ ReadBefore(d, s, t) <=> Precedes(s, t)
      <3>1. t.kind = "unversioned" /\ t.language = k /\ k # l
        BY <1>3, <2>3 DEF Unversioned
      <3>2. QED
        BY <1>1, <2>1, <3>1 DEF Precedes, ReadBefore
    <2>4. ASSUME NEW k \in Languages, NEW v \in Versions, t = Versioned(k, v)
          PROVE  /\ Precedes(s, t) \/ Precedes(t, s)
                 /\ ReadBefore(d, s, t) <=> Precedes(s, t)
      <3>1. t.kind = "versioned"
        BY <2>4 DEF Versioned
      <3>2. QED
        BY <2>1, <3>1 DEF Precedes, ReadBefore
    <2>5. QED
      BY <2>2, <2>3, <2>4, KindsOfSlots
  <1>4. ASSUME NEW l \in Languages, NEW v \in Versions, s = Versioned(l, v)
        PROVE  /\ Precedes(s, t) \/ Precedes(t, s)
               /\ ReadBefore(d, s, t) <=> Precedes(s, t)
    <2>1. s.kind = "versioned" /\ s.language = l /\ v = Greatest(VersionsOf(d, l))
      BY <1>4 DEF Versioned, Readable, Newest
    <2>2. CASE t = SharedSlot
      BY <2>1, <2>2 DEF Precedes, ReadBefore, SharedSlot
    <2>3. ASSUME NEW k \in Languages, t = Unversioned(k)
          PROVE  /\ Precedes(s, t) \/ Precedes(t, s)
                 /\ ReadBefore(d, s, t) <=> Precedes(s, t)
      <3>1. t.kind = "unversioned"
        BY <2>3 DEF Unversioned
      <3>2. QED
        BY <2>1, <3>1 DEF Precedes, ReadBefore
    <2>4. ASSUME NEW k \in Languages, NEW w \in Versions, t = Versioned(k, w)
          PROVE  /\ Precedes(s, t) \/ Precedes(t, s)
                 /\ ReadBefore(d, s, t) <=> Precedes(s, t)
      <3>1. t.kind = "versioned" /\ t.language = k /\ w = Greatest(VersionsOf(d, k))
        BY <2>4 DEF Versioned, Readable, Newest
      <3>2. k # l
        BY <1>4, <2>1, <2>4, <3>1
      <3>3. s.version = Greatest(VersionsOf(d, s.language))
        BY <1>4, <2>1 DEF Versioned
      <3>4. QED
        BY <1>1, <2>1, <3>1, <3>2, <3>3 DEF Precedes, ReadBefore
    <2>5. QED
      BY <2>2, <2>3, <2>4, KindsOfSlots
  <1>5. QED
    BY <1>2, <1>3, <1>4, KindsOfSlots

(* Of what is read one comes first.                                        *)
LEMMA SomeFirst ==
  ASSUME NEW d, NEW id, NEW slot \in Slots, Readable(d, id, slot)
  PROVE  \E s \in Slots : IsFirst(d, id, s)
  <1>1. SharedSlot \in Slots /\ \A l \in Languages : Unversioned(l) \in Slots
    BY DEF SharedSlot, Unversioned, Slots
  <1>2. CASE Readable(d, id, SharedSlot)
    <2>1. ASSUME NEW t \in Slots \ {SharedSlot} PROVE Precedes(SharedSlot, t)
      <3>1. t.kind # "shared"
        BY <2>1, OtherKinds
      <3>2. QED
        BY <3>1 DEF Precedes, SharedSlot
    <2>2. QED
      BY <1>1, <1>2, <2>1 DEF IsFirst
  <1>3. ASSUME ~ Readable(d, id, SharedSlot),
               NEW k \in Languages, Readable(d, id, Unversioned(k))
        PROVE  \E s \in Slots : IsFirst(d, id, s)
    <2> DEFINE S == {l \in Languages : Readable(d, id, Unversioned(l))}
               m == Least(S)
    <2>1. S \subseteq Nat /\ S # {}
      BY <1>3, KeysAssumption
    <2>2. m \in S /\ \A l \in S : m <= l
      BY <2>1, LeastExists
    <2> HIDE DEF m
    <2>3. m \in Languages /\ Readable(d, id, Unversioned(m))
      BY <2>2
    <2>4. ASSUME NEW t \in Slots, t # Unversioned(m), Readable(d, id, t)
          PROVE  Precedes(Unversioned(m), t)
      <3>1. t # SharedSlot
        BY <1>3, <2>4
      <3>2. ASSUME NEW l \in Languages, t = Unversioned(l) PROVE Precedes(Unversioned(m), t)
        <4>1. m <= l /\ m # l
          BY <2>2, <2>4, <3>2
        <4>a. m \in Nat /\ l \in Nat
          BY <2>3, <3>2, KeysAssumption
        <4>2. QED
          BY <3>2, <4>1, <4>a DEF Precedes, Unversioned
      <3>3. ASSUME NEW l \in Languages, NEW v \in Versions, t = Versioned(l, v)
            PROVE  Precedes(Unversioned(m), t)
        BY <3>3 DEF Precedes, Unversioned, Versioned
      <3>4. QED
        BY <3>1, <3>2, <3>3, KindsOfSlots
    <2>5. QED
      BY <1>1, <2>3, <2>4 DEF IsFirst
  <1>4. ASSUME ~ Readable(d, id, SharedSlot),
               \A k \in Languages : ~ Readable(d, id, Unversioned(k))
        PROVE  \E s \in Slots : IsFirst(d, id, s)
    <2> DEFINE S == {l \in Languages : \E v \in Versions : Readable(d, id, Versioned(l, v))}
               m == Least(S)
    <2>1. S \subseteq Nat /\ S # {}
      BY <1>4, KindsOfSlots, KeysAssumption
    <2>2. m \in S /\ \A l \in S : m <= l
      BY <2>1, LeastExists
    <2> HIDE DEF m
    <2>3. m \in Languages
      BY <2>2
    <2>4. PICK v \in Versions : Readable(d, id, Versioned(m, v))
      BY <2>2
    <2>5. Versioned(m, v) \in Slots
      BY <2>3, SlotsDiffer
    <2>6. ASSUME NEW t \in Slots, t # Versioned(m, v), Readable(d, id, t)
          PROVE  Precedes(Versioned(m, v), t)
      <3>1. PICK l \in Languages, w \in Versions : t = Versioned(l, w)
        BY <1>4, <2>6, KindsOfSlots
      <3>2. m <= l /\ m \in Nat /\ l \in Nat
        BY <2>2, <2>3, <2>6, <3>1, KeysAssumption
      <3>3. /\ Precedes(Versioned(m, v), t) => m < l
            /\ Precedes(t, Versioned(m, v)) => l < m
        BY <3>1 DEF Precedes, Versioned
      <3>4. Precedes(Versioned(m, v), t) \/ Precedes(t, Versioned(m, v))
        BY <2>4, <2>5, <2>6, ReadOneByOne
      <3>5. QED
        BY <3>2, <3>3, <3>4
    <2>7. QED
      BY <2>4, <2>5, <2>6 DEF IsFirst
  <1>5. QED
    BY <1>2, <1>3, <1>4

-----------------------------------------------------------------------------
(* What definition_value reads (template/lib.rs:283): the blocks it comes  *)
(* by are the slots that are read, and it comes by them in that order.     *)
HoldingNow(d, id) == {b \in Current(d) : At(b.fields, id) # 0}

Sooner(b, c) ==
  IF (b.slot.kind = "versioned") = (c.slot.kind = "versioned") THEN ComesBefore(b.rank, c.rank)
  ELSE c.slot.kind = "versioned"

LEMMA DefinitionIs ==
  ASSUME NEW d, NEW id
  PROVE  LET first == CHOOSE b \in HoldingNow(d, id) :
                        \A c \in HoldingNow(d, id) \ {b} : Sooner(b, c)
         IN  DefinitionValue(d, id) =
               IF HoldingNow(d, id) = {} THEN Absent
               ELSE first.fields[At(first.fields, id)].value
  BY DEF DefinitionValue, HoldingNow, Sooner

LEMMA BlockOfSlot ==
  ASSUME NEW d \in Document, BlocksOnce(d), NEW b \in Blocks(d)
  PROVE  b.slot \in Slots /\ b.fields = FieldsIn(d, b.slot)
  <1>1. d.languages \in Seq(Language)
    BY DEF Document
  <1>2. CASE b = SharedBlock(d)
    BY <1>2, SharedFields, SlotsDiffer DEF SharedBlock, SharedSlot, Slots
  <1>3. ASSUME NEW l \in DOMAIN d.languages
        PROVE  /\ At(d.languages, d.languages[l].key) = l /\ l # 0
               /\ d.languages[l].key \in Languages /\ d.languages[l].versions \in Seq(Version)
    <2>1. /\ l \in 1..Len(d.languages) /\ l # 0
          /\ \A k \in 1..Len(d.languages) : d.languages[k].key = d.languages[l].key => l <= k
      BY <1>1, <1>3 DEF BlocksOnce, KeysOnce
    <2>2. At(d.languages, d.languages[l].key) = l
      BY <1>1, <2>1, FirstPlaceIs
    <2>3. d.languages[l] \in Language
      BY <1>1, <2>1
    <2>4. QED
      BY <2>1, <2>2, <2>3 DEF Language
  <1>4. ASSUME NEW l \in DOMAIN d.languages, b = LanguageBlock(d, l)
        PROVE  b.slot \in Slots /\ b.fields = FieldsIn(d, b.slot)
    <2>1. b.slot = Unversioned(d.languages[l].key) /\ b.fields = d.languages[l].fields
      BY <1>4 DEF LanguageBlock
    <2>2. FieldsIn(d, Unversioned(d.languages[l].key)) = d.languages[l].fields
      BY <1>3, UnversionedFields DEF Block
    <2>3. Unversioned(d.languages[l].key) \in Slots
      BY <1>3 DEF Unversioned, Slots
    <2>4. QED
      BY <2>1, <2>2, <2>3
  <1>5. ASSUME NEW l \in DOMAIN d.languages, NEW v \in DOMAIN d.languages[l].versions,
               b = NumberBlock(d, l, v)
        PROVE  b.slot \in Slots /\ b.fields = FieldsIn(d, b.slot)
    <2>1. PICK versions \in Seq(Version) : versions = d.languages[l].versions
      BY <1>3
    <2>2. KeysOnce(versions) /\ v \in 1..Len(versions) /\ v # 0
      BY <1>5, <2>1 DEF BlocksOnce, VersionsOnce
    <2>3. \A w \in 1..Len(versions) : versions[w].key = versions[v].key => v <= w
      BY <2>2 DEF KeysOnce
    <2>4. At(versions, versions[v].key) = v
      BY <2>2, <2>3, FirstPlaceIs
    <2>5. versions[v].key \in Versions
      <3>1. versions[v] \in Version
        BY <2>2
      <3>2. QED
        BY <3>1 DEF Version
    <2>6. /\ b.slot = Versioned(d.languages[l].key, versions[v].key)
          /\ b.fields = versions[v].fields
      BY <1>5, <2>1 DEF NumberBlock
    <2>7. Block(d.languages, d.languages[l].key).versions = versions
      BY <1>3, <2>1 DEF Block
    <2>8. VersionBlock(versions, versions[v].key) = versions[v]
      BY <2>2, <2>4 DEF VersionBlock
    <2>9. FieldsIn(d, Versioned(d.languages[l].key, versions[v].key)) = versions[v].fields
      BY <2>7, <2>8, VersionedFields
    <2>10. QED
      BY <1>3, <2>5, <2>6, <2>9, SlotsDiffer
  <1>6. QED
    BY <1>2, <1>4, <1>5, BlocksAre

(* The highest version of a language is the current one.                   *)
LEMMA CurrentIsNewest ==
  ASSUME NEW d \in Document, BlocksOnce(d), NEW b \in Blocks(d)
  PROVE  b \in Current(d) <=> Newest(d, b.slot)
  <1>1. d.languages \in Seq(Language)
    BY DEF Document
  <1>2. CASE b.slot.kind # "versioned"
    BY <1>2 DEF Current, Newest
  <1>3. CASE b.slot.kind = "versioned"
    <2>1. SharedBlock(d).slot.kind = "shared" /\ \A l : LanguageBlock(d, l).slot.kind = "unversioned"
      BY DEF SharedBlock, SharedSlot, LanguageBlock, Unversioned
    <2>2. \A k, w : /\ NumberBlock(d, k, w).rank
                         = <<d.languages[k].key + 1, k, d.languages[k].versions[w].key, w>>
                    /\ NumberBlock(d, k, w).rank[2] = k
                    /\ NumberBlock(d, k, w).slot.kind = "versioned"
                    /\ NumberBlock(d, k, w).slot.language = d.languages[k].key
                    /\ NumberBlock(d, k, w).slot.version = d.languages[k].versions[w].key
      BY DEF NumberBlock, Versioned
    <2>3. PICK l \in DOMAIN d.languages :
            \E v \in DOMAIN d.languages[l].versions : b = NumberBlock(d, l, v)
      BY <1>3, <2>1, BlocksAre
    <2>4. PICK v \in DOMAIN d.languages[l].versions : b = NumberBlock(d, l, v)
      BY <2>3
    <2>5. d.languages[l] \in Language /\ l \in Nat \ {0}
      BY <1>1
    <2>6. PICK versions \in Seq(Version) : versions = d.languages[l].versions
      BY <2>5 DEF Language
    <2>7. KeysOnce(versions) /\ v \in DOMAIN versions
      BY <2>4, <2>6 DEF BlocksOnce, VersionsOnce
    <2>8. \A w \in DOMAIN versions : versions[w].key \in Nat /\ w \in Nat
      <3>1. \A w \in DOMAIN versions : versions[w] \in Version /\ w \in Nat
        OBVIOUS
      <3>2. QED
        BY <3>1, KeysAssumption DEF Version, Versions
    <2>9. At(d.languages, d.languages[l].key) = l
      <3>1. \A k \in 1..Len(d.languages) : d.languages[k].key = d.languages[l].key => l <= k
        BY <1>1, <2>5 DEF BlocksOnce, KeysOnce
      <3>2. PICK list \in Seq(Language) : list = d.languages
        BY <1>1
      <3>3. PICK key : key = list[l].key
        OBVIOUS
      <3>4. l \in 1..Len(list) /\ list[l].key = key
        BY <3>2, <3>3
      <3>5. \A k \in 1..Len(list) : list[k].key = key => l <= k
        BY <3>1, <3>2, <3>3
      <3>6. At(list, key) = l
        BY <3>4, <3>5, FirstPlaceIs
      <3>7. QED
        BY <3>2, <3>3, <3>6
    <2>10. VersionsOf(d, b.slot.language) = {versions[w].key : w \in DOMAIN versions}
      BY <2>2, <2>4, <2>5, <2>6, <2>9 DEF VersionsOf
    <2>11. b \in Current(d) <=> \A w \in DOMAIN versions : versions[w].key <= versions[v].key
      <3>1. b \in Current(d) <=>
              \A w \in DOMAIN versions : ~ ComesBefore(b.rank, NumberBlock(d, l, w).rank)
        <4>1. b \in Current(d) <=>
                \A c \in Blocks(d) :
                  c.slot.kind = "versioned" /\ c.rank[2] = l => ~ ComesBefore(b.rank, c.rank)
          BY <1>3, <2>2, <2>4 DEF Current
        <4>2. \A w \in DOMAIN versions : NumberBlock(d, l, w) \in Blocks(d)
          BY <2>6, BlocksAre
        <4>3. \A c \in Blocks(d) : c.slot.kind = "versioned" /\ c.rank[2] = l =>
                \E w \in DOMAIN versions : c = NumberBlock(d, l, w)
          <5>1. SUFFICES ASSUME NEW c \in Blocks(d), c.slot.kind = "versioned", c.rank[2] = l
                         PROVE  \E w \in DOMAIN versions : c = NumberBlock(d, l, w)
            OBVIOUS
          <5>2. PICK k \in DOMAIN d.languages :
                  \E w \in DOMAIN d.languages[k].versions : c = NumberBlock(d, k, w)
            BY <2>1, <5>1, BlocksAre
          <5>3. k = l
            BY <2>2, <5>1, <5>2
          <5>4. QED
            BY <2>6, <5>2, <5>3
        <4>4. QED
          BY <2>2, <4>1, <4>2, <4>3
      <3>2. ASSUME NEW w \in DOMAIN versions
            PROVE  ComesBefore(b.rank, NumberBlock(d, l, w).rank)
                     <=> versions[v].key < versions[w].key
        <4>1. PICK key : key = d.languages[l].key + 1
          OBVIOUS
        <4>2. /\ b.rank = <<key, l, versions[v].key, v>>
              /\ NumberBlock(d, l, w).rank = <<key, l, versions[w].key, w>>
          BY <2>2, <2>4, <2>6, <4>1
        <4>3. key \in Nat
          <5>1. d.languages[l].key \in Languages
            BY <2>5 DEF Language
          <5>2. \A k \in Languages : k + 1 \in Nat
            BY KeysAssumption
          <5>3. QED
            BY <4>1, <5>1, <5>2
        <4>4. versions[v].key = versions[w].key => v = w
          BY <2>7, <3>2 DEF KeysOnce
        <4>5. PICK m, n \in Nat : m = versions[v].key /\ n = versions[w].key
          BY <2>7, <2>8
        <4>6. v \in Nat /\ w \in Nat /\ l \in Nat
          BY <2>5, <2>7, <2>8
        <4>7. QED
          BY <4>2, <4>3, <4>4, <4>5, <4>6 DEF ComesBefore
      <3>3. QED
        BY <2>7, <2>8, <3>1, <3>2
    <2>12. versions[v].key = Greatest(VersionsOf(d, b.slot.language)) <=>
             \A w \in DOMAIN versions : versions[w].key <= versions[v].key
      <3> DEFINE V == VersionsOf(d, b.slot.language)
      <3>1. V \subseteq Versions /\ versions[v].key \in V
        BY <2>7, <2>10, ExistingVersions
      <3>2. Greatest(V) \in V /\ \A n \in V : n <= Greatest(V)
        BY <3>1, LatestExists
      <3>3. \A w \in DOMAIN versions : versions[w].key <= Greatest(V)
        BY <2>10, <3>2
      <3>4. PICK u \in DOMAIN versions : Greatest(V) = versions[u].key
        BY <2>10, <3>2
      <3> HIDE DEF V
      <3>5. (\A w \in DOMAIN versions : versions[w].key <= versions[v].key)
              => versions[v].key = Greatest(V)
        BY <2>7, <2>8, <3>3, <3>4
      <3>6. QED
        BY <3>3, <3>5 DEF V
    <2>13. QED
      BY <1>3, <2>2, <2>4, <2>6, <2>11, <2>12 DEF Newest
  <1>4. QED
    BY <1>2, <1>3

LEMMA SlotRanks ==
  ASSUME NEW d \in Document, NEW b \in Blocks(d), NEW c \in Blocks(d), Precedes(b.slot, c.slot)
  PROVE  Sooner(b, c) /\ ~ Sooner(c, b)
  <1>1. b.rank \in Rank /\ c.rank \in Rank
    BY BlockRanks
  <1>2. \A e \in Blocks(d) :
          /\ e.slot.kind \in {"shared", "unversioned", "versioned"}
          /\ e.slot.kind = "shared" => e.rank[1] = 0
          /\ e.slot.kind # "shared" => e.slot.language \in Nat /\ e.rank[1] = e.slot.language + 1
    <2>1. d.languages \in Seq(Language)
      BY DEF Document
    <2>2. \A l \in DOMAIN d.languages : d.languages[l].key \in Nat
      <3>1. \A l \in DOMAIN d.languages : d.languages[l] \in Language
        BY <2>1
      <3>2. QED
        BY <3>1, KeysAssumption DEF Language
    <2>3. SharedBlock(d).slot.kind = "shared" /\ SharedBlock(d).rank[1] = 0
      BY DEF SharedBlock, SharedSlot
    <2>4. \A l : /\ LanguageBlock(d, l).slot.kind = "unversioned"
                 /\ LanguageBlock(d, l).slot.language = d.languages[l].key
                 /\ LanguageBlock(d, l).rank[1] = d.languages[l].key + 1
      BY DEF LanguageBlock, Unversioned
    <2>5. \A l, v : /\ NumberBlock(d, l, v).slot.kind = "versioned"
                    /\ NumberBlock(d, l, v).slot.language = d.languages[l].key
                    /\ NumberBlock(d, l, v).rank[1] = d.languages[l].key + 1
      BY DEF NumberBlock, Versioned
    <2>6. QED
      BY <2>2, <2>3, <2>4, <2>5, BlocksAre
  <1>3. \A r, s \in Rank : r[1] < s[1] => ComesBefore(r, s) /\ ~ ComesBefore(s, r)
    BY DEF ComesBefore, Rank
  <1>4. CASE (b.slot.kind = "versioned") # (c.slot.kind = "versioned")
    BY <1>2, <1>4 DEF Precedes, Sooner
  <1>5. CASE (b.slot.kind = "versioned") = (c.slot.kind = "versioned")
    <2>1. b.rank[1] < c.rank[1]
      BY <1>2, <1>5 DEF Precedes
    <2>2. QED
      BY <1>1, <1>3, <1>5, <2>1 DEF Sooner
  <1>6. QED
    BY <1>4, <1>5

LEMMA WriteKeepsOnce ==
  ASSUME NEW r \in Request, TypeOK, Write(r), BlocksOnce(doc)
  PROVE  BlocksOnce(doc')
  <1> DEFINE t == Target(r)
  <1>1. /\ Resolves(r) /\ SlotFits(r) /\ Accepted(t.type, r.value)
        /\ doc' = SetField(doc, SlotFor(r), t.id, t.name, Stamp(t.type), Prepared(t.type, r.value))
    BY DEF Write
  <1>2. t \in Definition /\ SlotFor(r) \in Slots /\ doc \in Document
    BY <1>1, TargetType, SlotType DEF TypeOK
  <1> HIDE DEF t
  <1>3. /\ t.id \in FieldIds /\ t.name \in Names \cup {Absent} /\ t.type \in Types
        /\ Stamp(t.type) \in Types \cup {Absent}
    BY <1>2 DEF Definition, Stamp
  <1>4. r.value \in Values
    BY DEF Request
  <1>5. Prepared(t.type, r.value) \in Values
    BY <1>1, <1>3, <1>4, PreparedType
  <1>6. QED
    BY <1>1, <1>2, <1>3, <1>5, SetFieldKeepsOnce

LEMMA HeldIsReadable ==
  ASSUME NEW d \in Document, BlocksOnce(d), NEW id
  PROVE  /\ \A b \in HoldingNow(d, id) :
              /\ b \in Blocks(d) /\ b.slot \in Slots /\ Readable(d, id, b.slot)
              /\ b.fields[At(b.fields, id)].value = ReadSlot(d, b.slot, id)
         /\ \A s \in Slots : Readable(d, id, s) =>
              \E b \in HoldingNow(d, id) : b.slot = s
  <1>1. ASSUME NEW b \in HoldingNow(d, id)
        PROVE  /\ b \in Blocks(d) /\ b.slot \in Slots /\ Readable(d, id, b.slot)
               /\ b.fields[At(b.fields, id)].value = ReadSlot(d, b.slot, id)
    <2>1. b \in Blocks(d) /\ b \in Current(d) /\ At(b.fields, id) # 0
      BY <1>1 DEF HoldingNow, Current
    <2>2. b.slot \in Slots /\ b.fields = FieldsIn(d, b.slot)
      BY <2>1, BlockOfSlot
    <2>3. Newest(d, b.slot)
      BY <2>1, CurrentIsNewest
    <2>4. ReadSlot(d, b.slot, id) # Absent
      BY <2>1, <2>2, ReadIfThere
    <2>5. QED
      BY <2>1, <2>2, <2>3, <2>4 DEF Readable, ReadSlot
  <1>2. ASSUME NEW s \in Slots, Readable(d, id, s)
        PROVE  \E b \in HoldingNow(d, id) : b.slot = s
    <2>1. At(FieldsIn(d, s), id) # 0 /\ Newest(d, s)
      BY <1>2, ReadIfThere DEF Readable
    <2>2. PICK b \in Blocks(d) : b.slot = s /\ b.fields = FieldsIn(d, s)
      BY <2>1, ReadFromFirst
    <2>3. b \in Current(d)
      BY <2>1, <2>2, CurrentIsNewest
    <2>4. QED
      BY <2>1, <2>2, <2>3 DEF HoldingNow
  <1>3. QED
    BY <1>1, <1>2

LEMMA DefinitionOfFirst ==
  ASSUME NEW d \in Document, BlocksOnce(d), NEW id, NEW s \in Slots, IsFirst(d, id, s)
  PROVE  DefinitionValue(d, id) = ReadSlot(d, s, id)
  <1> DEFINE H     == HoldingNow(d, id)
             first == CHOOSE b \in H : \A c \in H \ {b} : Sooner(b, c)
  <1>1. /\ \A b \in H : /\ b \in Blocks(d) /\ b.slot \in Slots /\ Readable(d, id, b.slot)
                        /\ b.fields[At(b.fields, id)].value = ReadSlot(d, b.slot, id)
        /\ \A t \in Slots : Readable(d, id, t) => \E b \in H : b.slot = t
    BY HeldIsReadable
  <1>2. PICK b \in H : b.slot = s
    BY <1>1 DEF IsFirst
  <1>3. ASSUME NEW c \in H, c # b PROVE Sooner(b, c) /\ ~ Sooner(c, b)
    <2>1. c.slot # s
      BY <1>1, <1>2, <1>3, OneBlockASlot DEF NoBlockTwice
    <2>2. Precedes(b.slot, c.slot)
      BY <1>1, <1>2, <2>1 DEF IsFirst
    <2>3. QED
      BY <1>1, <2>2, SlotRanks
  <1>4. DefinitionValue(d, id) =
          IF H = {} THEN Absent ELSE first.fields[At(first.fields, id)].value
    BY DefinitionIs
  <1> HIDE DEF H
  <1>5. first \in H /\ \A c \in H \ {first} : Sooner(first, c)
    BY <1>2, <1>3
  <1> HIDE DEF first
  <1>6. first = b
    BY <1>2, <1>3, <1>5
  <1>7. QED
    BY <1>1, <1>2, <1>4, <1>6

LEMMA DefinitionOfNone ==
  ASSUME NEW d \in Document, BlocksOnce(d), NEW id, \A s \in Slots : ~ Readable(d, id, s)
  PROVE  DefinitionValue(d, id) = Absent
  <1>1. HoldingNow(d, id) = {}
    BY HeldIsReadable
  <1>2. QED
    BY <1>1, DefinitionIs

(* What is read of two documents is the same if the slots that are read    *)
(* are the same and say the same.                                          *)
LEMMA SameDefinition ==
  ASSUME NEW d \in Document, NEW new \in Document, BlocksOnce(d), BlocksOnce(new), NEW id,
         \A s \in Slots :
           /\ Readable(new, id, s) <=> Readable(d, id, s)
           /\ Readable(d, id, s) => ReadSlot(new, s, id) = ReadSlot(d, s, id)
  PROVE  DefinitionValue(new, id) = DefinitionValue(d, id)
  <1>1. CASE \A s \in Slots : ~ Readable(d, id, s)
    BY <1>1, DefinitionOfNone
  <1>2. ASSUME NEW t \in Slots, Readable(d, id, t)
        PROVE  DefinitionValue(new, id) = DefinitionValue(d, id)
    <2>1. PICK s \in Slots : IsFirst(d, id, s)
      BY <1>2, SomeFirst
    <2>2. IsFirst(new, id, s) /\ Readable(d, id, s)
      BY <2>1 DEF IsFirst
    <2>3. QED
      BY <2>1, <2>2, DefinitionOfFirst
  <1>3. QED
    BY <1>1, <1>2

(* Of every document, template and sequence of requests: what is written   *)
(* to an item that defines a field is what the template index reads of it, *)
(* and what else it reads is as it was unless a version was made.          *)
THEOREM DefinitionsAreFollowed == Spec => DefinitionsFollowWrites
  <1> DEFINE Hides(slot) ==
        /\ slot.kind = "versioned" /\ Newest(doc', slot)
        /\ slot.version \notin VersionsOf(doc, slot.language)
             FollowedAt(slot, id) ==
        /\ Newest(doc', slot)
             /\ (\A s \in Slots : ReadSlot(doc, s, id) # Absent => ~ReadBefore(doc', s, slot))
             => DefinitionValue(doc', id) = ReadSlot(doc', slot, id)
        /\ \A other \in FieldIds \ {id} :
             DefinitionValue(doc', other) = DefinitionValue(doc, other) \/ Hides(slot)
             Followed ==
        outcome' = "written" /\ NoBlockTwice(doc) =>
          LET slot    == SlotFor(request')
              id      == Target(request').id
              newest  == slot.kind = "versioned" =>
                           slot.version = Greatest(VersionsOf(doc', slot.language))
              Newer   == slot.kind = "versioned" /\ newest
                           /\ slot.version \notin VersionsOf(doc, slot.language)
          IN  /\ newest
                 /\ (\A s \in Slots : ReadSlot(doc, s, id) # Absent => ~ReadBefore(doc', s, slot))
                 => DefinitionValue(doc', id) = ReadSlot(doc', slot, id)
              /\ \A other \in FieldIds \ {id} :
                   DefinitionValue(doc', other) = DefinitionValue(doc, other) \/ Newer
  <1>1. TypeOK /\ [Next]_vars => [Followed]_vars
    <2>1. SUFFICES ASSUME TypeOK, Next, outcome' = "written", NoBlockTwice(doc) PROVE Followed
      BY DEF vars
    <2>2. PICK r \in Requests : Serve(r)
      BY <2>1 DEF Next
    <2>3. r \in Request /\ request' = r
      BY <2>2, RequestsAssumption
        DEF Serve, RefuseField, RefuseSlot, RefuseValue, RefuseBlob, Refuse, Write
    <2>4. Write(r)
      BY <2>1, <2>2 DEF Serve, RefuseField, RefuseSlot, RefuseValue, RefuseBlob, Refuse
    <2>5. PICK slot, id : slot = SlotFor(r) /\ id = Target(r).id
      OBVIOUS
    <2>6. /\ slot \in Slots /\ id \in FieldIds /\ doc \in Document /\ doc' \in Document
          /\ At(FieldsIn(doc', slot), id) # 0
          /\ \A l \in Languages, n \in Versions :
               n \in VersionsOf(doc', l) <=> n \in VersionsOf(doc, l) \/ slot = Versioned(l, n)
      BY <2>1, <2>3, <2>4, <2>5, WriteChangesOneList DEF TypeOK
    <2>7. \A s \in Slots, k \in FieldIds : s # slot \/ k # id =>
            ReadSlot(doc', s, k) = ReadSlot(doc, s, k)
      BY <2>1, <2>4, <2>5, OtherValuesStay
    <2>8. BlocksOnce(doc) /\ BlocksOnce(doc')
      BY <2>1, <2>3, <2>4, <2>6, OneBlockASlot, WriteKeepsOnce
    <2>9. ASSUME Newest(doc', slot),
                 \A s \in Slots : ReadSlot(doc, s, id) # Absent => ~ ReadBefore(doc', s, slot)
          PROVE  DefinitionValue(doc', id) = ReadSlot(doc', slot, id)
      <3>1. Readable(doc', id, slot)
        BY <2>6, <2>9, ReadIfThere DEF Readable
      <3>2. ASSUME NEW t \in Slots, t # slot, Readable(doc', id, t) PROVE Precedes(slot, t)
        <4>1. ~ ReadBefore(doc', t, slot)
          BY <2>6, <2>7, <2>9, <3>2 DEF Readable
        <4>2. /\ Precedes(t, slot) \/ Precedes(slot, t)
              /\ ReadBefore(doc', t, slot) <=> Precedes(t, slot)
          BY <2>6, <3>1, <3>2, ReadOneByOne
        <4>3. QED
          BY <4>1, <4>2
      <3>3. IsFirst(doc', id, slot)
        BY <3>1, <3>2 DEF IsFirst
      <3>4. QED
        BY <2>6, <2>8, <3>3, DefinitionOfFirst
    <2>10. ASSUME NEW other \in FieldIds, other # id, ~ Hides(slot)
           PROVE  DefinitionValue(doc', other) = DefinitionValue(doc, other)
      <3>1. ASSUME NEW s \in Slots, ReadSlot(doc, s, other) # Absent
            PROVE  Newest(doc', s) <=> Newest(doc, s)
        <4>1. CASE s.kind # "versioned"
          BY <4>1 DEF Newest
        <4>2. ASSUME NEW l \in Languages, NEW n \in Versions, s = Versioned(l, n)
              PROVE  Newest(doc', s) <=> Newest(doc, s)
          <5>1. n \in VersionsOf(doc, l)
            BY <2>6, <3>1, <4>2, ReadVersionIsThere
          <5>2. PICK V, W : V = VersionsOf(doc, l) /\ W = VersionsOf(doc', l)
            OBVIOUS
          <5>3. V \subseteq Versions /\ W \subseteq Versions /\ V \subseteq W /\ V # {}
            BY <2>6, <5>1, <5>2, ExistingVersions
          <5>4. /\ Greatest(V) \in V /\ \A m \in V : m <= Greatest(V)
                /\ Greatest(W) \in W /\ \A m \in W : m <= Greatest(W)
            BY <5>3, LatestExists
          <5>5. Greatest(W) \in V
            <6>1. SUFFICES ASSUME Greatest(W) \notin V PROVE FALSE
              OBVIOUS
            <6>2. slot = Versioned(l, Greatest(W))
              BY <2>6, <5>2, <5>3, <5>4, <6>1
            <6>3. /\ slot.kind = "versioned" /\ slot.language = l
                  /\ slot.version = Greatest(W)
              BY <6>2 DEF Versioned
            <6>4. Newest(doc', slot)
              BY <5>2, <6>3 DEF Newest
            <6>5. QED
              BY <2>10, <5>2, <6>1, <6>3, <6>4
          <5>6. Greatest(V) = Greatest(W)
            <6>1. \A m \in Versions : m \in Int
              BY DEF Versions
            <6>2. QED
              BY <5>3, <5>4, <5>5, <6>1
          <5>7. QED
            BY <4>2, <5>2, <5>6 DEF Newest, Versioned
        <4>3. QED
          BY <4>1, <4>2, KindsOfSlots DEF SharedSlot, Unversioned
      <3>2. ASSUME NEW s \in Slots
            PROVE  /\ Readable(doc', other, s) <=> Readable(doc, other, s)
                   /\ ReadSlot(doc', s, other) = ReadSlot(doc, s, other)
        BY <2>7, <2>10, <3>1 DEF Readable
      <3>3. QED
        BY <2>6, <2>8, <3>2, SameDefinition
    <2>11. FollowedAt(slot, id)
      BY <2>9, <2>10
    <2>12. slot = SlotFor(request') /\ id = Target(request').id
      BY <2>3, <2>5
    <2> HIDE DEF FollowedAt
    <2>13. FollowedAt(SlotFor(request'), Target(request').id)
      BY <2>11, <2>12
    <2>14. QED
      BY <2>13 DEF FollowedAt, Newest
  <1>2. QED
    BY <1>1, TypeCorrect, PTL DEF Spec, DefinitionsFollowWrites

-----------------------------------------------------------------------------
(* A sequence with one piece of it in the place of another.                *)
Swapped(S, old, new, x, y) ==
  \E a, b \in Seq(S) : old = (a \o x) \o b /\ new = (a \o y) \o b

(* Five pieces in a row, joined in another order.                          *)
Rejoined(c, a, z, b, e) ==
  (c \o ((a \o z) \o b)) \o e = ((c \o a) \o z) \o (b \o e)

LEMMA FiveInRow ==
  ASSUME NEW S, NEW c \in Seq(S), NEW a \in Seq(S), NEW z \in Seq(S), NEW b \in Seq(S),
         NEW e \in Seq(S)
  PROVE  Rejoined(c, a, z, b, e)
  <1>1. PICK az \in Seq(S), ca \in Seq(S) : az = a \o z /\ ca = c \o a
    BY ConcatProperties
  <1>2. PICK caz \in Seq(S) : caz = ca \o z
    BY ConcatProperties
  <1>3. c \o (az \o b) = (c \o az) \o b
    OBVIOUS
  <1>4. (c \o a) \o z = c \o (a \o z)
    OBVIOUS
  <1>5. (caz \o b) \o e = caz \o (b \o e)
    OBVIOUS
  <1>6. QED
    BY <1>1, <1>2, <1>3, <1>4, <1>5, Zenon DEF Rejoined

(* What is around it can grow.                                             *)
LEMMA SwappedInContext ==
  ASSUME NEW S, NEW old \in Seq(S), NEW new \in Seq(S), NEW x \in Seq(S), NEW y \in Seq(S),
         Swapped(S, old, new, x, y), NEW c \in Seq(S), NEW e \in Seq(S)
  PROVE  Swapped(S, (c \o old) \o e, (c \o new) \o e, x, y)
  <1>1. PICK a, b \in Seq(S) : old = (a \o x) \o b /\ new = (a \o y) \o b
    BY Zenon DEF Swapped
  <1>2. c \o a \in Seq(S) /\ b \o e \in Seq(S)
    BY ConcatProperties
  <1>3. Rejoined(c, a, x, b, e) /\ Rejoined(c, a, y, b, e)
    BY FiveInRow
  <1>4. QED
    BY <1>1, <1>2, <1>3, Zenon DEF Swapped, Rejoined

(* The piece itself is one place after the other.                          *)
LEMMA SwappedAlone ==
  ASSUME NEW S, NEW x \in Seq(S), NEW y \in Seq(S)
  PROVE  Swapped(S, x, y, x, y)
  <1>1. <<>> \in Seq(S)
    OBVIOUS
  <1>2. \A z \in Seq(S) : z = (<<>> \o z) \o <<>>
    BY ConcatEmptySeq
  <1>3. QED
    BY <1>1, <1>2, Zenon DEF Swapped

(* Three pieces in a row, entry by entry.                                  *)
InRow(m, a, z, b) ==
  /\ Len(m) = Len(a) + Len(z) + Len(b)
  /\ \A j \in 1..Len(a) : m[j] = a[j]
  /\ \A j \in 1..Len(z) : m[Len(a) + j] = z[j]
  /\ \A j \in 1..Len(b) : m[Len(a) + Len(z) + j] = b[j]

LEMMA JoinedInRow ==
  ASSUME NEW S, NEW a \in Seq(S), NEW z \in Seq(S), NEW b \in Seq(S)
  PROVE  (a \o z) \o b \in Seq(S) /\ InRow((a \o z) \o b, a, z, b)
  <1>1. Len(a) \in Nat /\ Len(z) \in Nat /\ Len(b) \in Nat
    OBVIOUS
  <1>2. /\ a \o z \in Seq(S) /\ Len(a \o z) = Len(a) + Len(z)
        /\ \A i \in 1..(Len(a) + Len(z)) :
             (a \o z)[i] = IF i <= Len(a) THEN a[i] ELSE z[i - Len(a)]
    BY ConcatProperties
  <1>3. PICK az \in Seq(S) : az = a \o z
    BY <1>2
  <1>4. /\ az \o b \in Seq(S) /\ Len(az \o b) = Len(az) + Len(b)
        /\ \A i \in 1..(Len(az) + Len(b)) :
             (az \o b)[i] = IF i <= Len(az) THEN az[i] ELSE b[i - Len(az)]
    BY ConcatProperties
  <1>5. ASSUME NEW j \in 1..Len(z) PROVE (az \o b)[Len(a) + j] = z[j]
    <2>1. Len(a) + j \in 1..(Len(a) + Len(z)) /\ (Len(a) + j) - Len(a) = j
      BY <1>1
    <2>2. QED
      BY <1>1, <1>2, <1>3, <1>4, <2>1
  <1>6. ASSUME NEW j \in 1..Len(b) PROVE (az \o b)[Len(a) + Len(z) + j] = b[j]
    <2>1. /\ Len(a) + Len(z) + j \in 1..(Len(az) + Len(b))
          /\ (Len(a) + Len(z) + j) - Len(az) = j /\ ~ (Len(a) + Len(z) + j <= Len(az))
      BY <1>1, <1>2, <1>3
    <2>2. QED
      BY <1>4, <2>1
  <1>7. ASSUME NEW j \in 1..Len(a) PROVE (az \o b)[j] = a[j]
    BY <1>1, <1>2, <1>3, <1>4
  <1>8. Len(az \o b) = Len(a) + Len(z) + Len(b)
    BY <1>2, <1>3, <1>4
  <1>9. QED
    BY <1>3, <1>4, <1>5, <1>6, <1>7, <1>8, Zenon DEF InRow

LEMMA RowIsJoined ==
  ASSUME NEW S, NEW a \in Seq(S), NEW z \in Seq(S), NEW b \in Seq(S),
         NEW m \in Seq(S), InRow(m, a, z, b)
  PROVE  m = (a \o z) \o b
  <1>1. PICK n \in Seq(S) : n = (a \o z) \o b /\ InRow(n, a, z, b)
    BY JoinedInRow
  <1>2. Len(a) \in Nat /\ Len(z) \in Nat /\ Len(b) \in Nat /\ Len(m) = Len(n)
    BY <1>1 DEF InRow
  <1>3. ASSUME NEW i \in 1..Len(m) PROVE m[i] = n[i]
    <2>1. CASE i <= Len(a)
      BY <1>1, <1>2, <2>1 DEF InRow
    <2>2. ASSUME i > Len(a), i <= Len(a) + Len(z) PROVE m[i] = n[i]
      <3>1. i - Len(a) \in 1..Len(z) /\ Len(a) + (i - Len(a)) = i
        BY <1>2, <2>2
      <3>2. m[i] = z[i - Len(a)] /\ n[i] = z[i - Len(a)]
        BY <1>1, <3>1 DEF InRow
      <3>3. QED
        BY <3>2
    <2>3. ASSUME i > Len(a) + Len(z) PROVE m[i] = n[i]
      <3>1. /\ i - (Len(a) + Len(z)) \in 1..Len(b)
            /\ Len(a) + Len(z) + (i - (Len(a) + Len(z))) = i
        BY <1>2, <2>3 DEF InRow
      <3>2. m[i] = b[i - (Len(a) + Len(z))] /\ n[i] = b[i - (Len(a) + Len(z))]
        BY <1>1, <3>1 DEF InRow
      <3>3. QED
        BY <3>2
    <2>4. i <= Len(a) \/ (i > Len(a) /\ i <= Len(a) + Len(z)) \/ i > Len(a) + Len(z)
      BY <1>2
    <2>5. QED
      BY <2>1, <2>2, <2>3, <2>4
  <1>4. m = n
    BY <1>2, <1>3, SeqEqual
  <1>5. QED
    BY <1>1, <1>4

(* A list cut before a place.                                              *)
Halves(list, p, a, b) ==
  /\ Len(a) = p - 1 /\ Len(b) = Len(list) + 1 - p
  /\ \A j \in 1..(p - 1) : a[j] = list[j]
  /\ \A j \in 1..(Len(list) + 1 - p) : b[j] = list[p + j - 1]

LEMMA CutBefore ==
  ASSUME NEW S, NEW list \in Seq(S), NEW p \in 1..(Len(list) + 1)
  PROVE  \E a, b \in Seq(S) : Halves(list, p, a, b)
  <1>1. Len(list) \in Nat /\ p \in Int /\ p - 1 \in Int /\ \A j \in 1..Len(list) : list[j] \in S
    OBVIOUS
  <1>2. \A j \in 1..(p - 1) : list[j] \in S
    BY <1>1
  <1>3. \A j \in p..Len(list) : list[j] \in S
    BY <1>1
  <1>4. /\ SubSeq(list, 1, p - 1) \in Seq(S) /\ Len(SubSeq(list, 1, p - 1)) = p - 1
        /\ \A j \in 1..(p - 1) : SubSeq(list, 1, p - 1)[j] = list[j]
    BY <1>1, <1>2, SubSeqProperties
  <1>5. /\ SubSeq(list, p, Len(list)) \in Seq(S)
        /\ Len(SubSeq(list, p, Len(list))) = Len(list) + 1 - p
        /\ \A j \in 1..(Len(list) - p + 1) : SubSeq(list, p, Len(list))[j] = list[p + j - 1]
    BY <1>1, <1>3, SubSeqProperties
  <1>6. Len(list) - p + 1 = Len(list) + 1 - p
    BY <1>1
  <1>7. QED
    BY <1>4, <1>5, <1>6, Zenon DEF Halves

(* One entry.                                                              *)
LEMMA OneEntry ==
  ASSUME NEW S, NEW e \in S
  PROVE  <<e>> \in Seq(S) /\ Len(<<e>>) = 1 /\ <<e>>[1] = e
  OBVIOUS

(* To insert puts one entry where nothing was.                             *)
LEMMA InsertedSwaps ==
  ASSUME NEW S, NEW list \in Seq(S), NEW e \in S, NEW p \in 1..(Len(list) + 1),
         NEW new \in Seq(S), Inserted(new, list, e, p)
  PROVE  Swapped(S, list, new, <<>>, <<e>>)
  <1>1. PICK a, b \in Seq(S) : Halves(list, p, a, b)
    BY CutBefore
  <1>2. Len(list) \in Nat /\ p \in Int /\ <<>> \in Seq(S) /\ Len(<<>>) = 0
    OBVIOUS
  <1>3. PICK z \in Seq(S) : z = <<e>> /\ Len(z) = 1 /\ z[1] = e
    BY OneEntry
  <1>4. InRow(list, a, <<>>, b)
    <2>1. Len(list) = Len(a) + Len(<<>>) + Len(b)
      BY <1>1, <1>2 DEF Halves
    <2>2. \A j \in 1..Len(a) : list[j] = a[j]
      BY <1>1, <1>2 DEF Halves
    <2>3. \A j \in 1..Len(b) : list[Len(a) + Len(<<>>) + j] = b[j]
      <3>1. SUFFICES ASSUME NEW j \in 1..Len(b)
                     PROVE  list[Len(a) + Len(<<>>) + j] = b[j]
        OBVIOUS
      <3>2. j \in 1..(Len(list) + 1 - p) /\ Len(a) + Len(<<>>) + j = p + j - 1
        BY <1>1, <1>2 DEF Halves
      <3>3. QED
        BY <1>1, <3>2 DEF Halves
    <2>4. QED
      BY <1>2, <2>1, <2>2, <2>3 DEF InRow
  <1>5. InRow(new, a, z, b)
    <2>1. Len(new) = Len(list) + 1
      BY DEF Inserted
    <2>2. Len(new) = Len(a) + Len(z) + Len(b)
      BY <1>1, <1>2, <1>3, <2>1 DEF Halves
    <2>3. ASSUME NEW j \in 1..Len(a) PROVE new[j] = a[j]
      <3>1. j \in 1..(p - 1) /\ j \in 1..(Len(list) + 1) /\ j < p
        BY <1>1, <1>2 DEF Halves
      <3>2. new[j] = list[j] /\ a[j] = list[j]
        BY <1>1, <3>1 DEF Halves, Inserted
      <3>3. QED
        BY <3>2
    <2>4. new[Len(a) + 1] = z[1]
      <3>1. Len(a) + 1 = p
        BY <1>1, <1>2 DEF Halves
      <3>2. QED
        BY <1>3, <3>1 DEF Inserted
    <2>5. ASSUME NEW j \in 1..Len(b) PROVE new[Len(a) + Len(z) + j] = b[j]
      <3>1. /\ j \in 1..(Len(list) + 1 - p) /\ Len(a) + Len(z) + j = p + j
            /\ p + j \in 1..(Len(list) + 1) /\ ~ (p + j < p) /\ p + j # p
        BY <1>1, <1>2, <1>3 DEF Halves
      <3>2. new[p + j] = list[p + j - 1]
        BY <3>1 DEF Inserted
      <3>3. QED
        BY <1>1, <3>1, <3>2 DEF Halves
    <2>6. \A j \in 1..Len(z) : new[Len(a) + j] = z[j]
      BY <1>3, <2>4
    <2>7. QED
      BY <2>2, <2>3, <2>5, <2>6 DEF InRow
  <1>6. list = (a \o <<>>) \o b /\ new = (a \o z) \o b
    BY <1>2, <1>4, <1>5, RowIsJoined
  <1>7. QED
    BY <1>3, <1>6, Zenon DEF Swapped

(* And another entry at a place is one in the place of one.                *)
LEMMA ReplacedSwaps ==
  ASSUME NEW S, NEW list \in Seq(S), NEW p \in 1..Len(list), NEW x \in S
  PROVE  Swapped(S, list, [list EXCEPT ![p] = x], <<list[p]>>, <<x>>)
  <1>1. Len(list) \in Nat /\ p \in Int /\ list[p] \in S
    OBVIOUS
  <1>2. PICK a, b \in Seq(S) :
          /\ Len(a) = p - 1 /\ Len(b) = Len(list) - p
          /\ \A j \in 1..(p - 1) : a[j] = list[j]
          /\ \A j \in 1..(Len(list) - p) : b[j] = list[p + j]
    <2>1. p \in 1..(Len(list) + 1) /\ p + 1 \in 1..(Len(list) + 1)
      BY <1>1
    <2>2. PICK a, c \in Seq(S) : Halves(list, p, a, c)
      BY <2>1, CutBefore
    <2>3. PICK d, b \in Seq(S) : Halves(list, p + 1, d, b)
      BY <2>1, CutBefore
    <2>4. Len(a) = p - 1 /\ \A j \in 1..(p - 1) : a[j] = list[j]
      BY <2>2 DEF Halves
    <2>5. Len(b) = Len(list) - p
      BY <1>1, <2>3 DEF Halves
    <2>6. ASSUME NEW j \in 1..(Len(list) - p) PROVE b[j] = list[p + j]
      <3>1. j \in 1..(Len(list) + 1 - (p + 1)) /\ p + 1 + j - 1 = p + j
        BY <1>1
      <3>2. QED
        BY <2>3, <3>1 DEF Halves
    <2>7. QED
      BY <2>4, <2>5, <2>6
  <1>3. ASSUME NEW y \in S, NEW new \in Seq(S), Len(new) = Len(list), new[p] = y,
               \A j \in 1..Len(list) : j # p => new[j] = list[j]
        PROVE  new = (a \o <<y>>) \o b
    <2>1. PICK z \in Seq(S) : z = <<y>> /\ Len(z) = 1 /\ z[1] = y
      BY OneEntry
    <2>2. ASSUME NEW j \in 1..Len(a) PROVE new[j] = a[j]
      <3>1. j \in 1..(p - 1) /\ j \in 1..Len(list) /\ j # p
        BY <1>1, <1>2
      <3>2. new[j] = list[j]
        BY <1>3, <3>1
      <3>3. QED
        BY <1>2, <3>1, <3>2
    <2>3. ASSUME NEW j \in 1..Len(z) PROVE new[Len(a) + j] = z[j]
      BY <1>1, <1>2, <1>3, <2>1
    <2>4. ASSUME NEW j \in 1..Len(b) PROVE new[Len(a) + Len(z) + j] = b[j]
      <3>1. /\ j \in 1..(Len(list) - p) /\ Len(a) + Len(z) + j = p + j
            /\ p + j \in 1..Len(list) /\ p + j # p
        BY <1>1, <1>2, <2>1
      <3>2. QED
        BY <1>2, <1>3, <3>1
    <2>5. Len(new) = Len(a) + Len(z) + Len(b)
      <3>1. Len(new) = Len(list) /\ Len(z) = 1 /\ Len(a) = p - 1 /\ Len(b) = Len(list) - p
        BY <1>2, <1>3, <2>1
      <3>2. QED
        BY <1>1, <3>1
    <2>6. InRow(new, a, z, b)
      BY <2>2, <2>3, <2>4, <2>5 DEF InRow
    <2>7. QED
      BY <2>1, <2>6, RowIsJoined
  <1>4. list = (a \o <<list[p]>>) \o b
    BY <1>1, <1>3
  <1>5. [list EXCEPT ![p] = x] = (a \o <<x>>) \o b
    <2>1. PICK new : new = [list EXCEPT ![p] = x]
      OBVIOUS
    <2>2. /\ new \in Seq(S) /\ Len(new) = Len(list) /\ new[p] = x
          /\ \A j \in 1..Len(list) : j # p => new[j] = list[j]
      BY <2>1, ExceptSeq
    <2>3. QED
      BY <1>3, <2>1, <2>2
  <1>6. QED
    BY <1>4, <1>5, Zenon DEF Swapped

(* To flatten a row of lists is to flatten one part of it and the other.   *)
FlattensTo(s, f, R) ==
  /\ f[0] = <<>>
  /\ \A k \in 1..Len(s) : f[k - 1] \in Seq(R) /\ f[k] = f[k - 1] \o s[k]
  /\ FlattenSeq(s) = f[Len(s)] /\ f[Len(s)] \in Seq(R)

LEMMA FlattenFunction ==
  ASSUME NEW R, NEW s \in Seq(Seq(R))
  PROVE  \E f : FlattensTo(s, f, R)
  BY FlattenSteps, Zenon DEF FlattensTo

LEMMA FlattenJoins ==
  ASSUME NEW R, NEW s \in Seq(Seq(R)), NEW t \in Seq(Seq(R))
  PROVE  /\ FlattenSeq(s) \in Seq(R) /\ FlattenSeq(t) \in Seq(R)
         /\ FlattenSeq(s \o t) = FlattenSeq(s) \o FlattenSeq(t)
  <1>1. PICK st \in Seq(Seq(R)) :
          /\ st = s \o t /\ Len(st) = Len(s) + Len(t)
          /\ \A k \in 1..Len(s) : st[k] = s[k]
          /\ \A k \in 1..Len(t) : st[Len(s) + k] = t[k]
    <2>1. s \o t \in Seq(Seq(R)) /\ Len(s \o t) = Len(s) + Len(t)
      BY ConcatProperties
    <2>2. \A k \in 1..Len(s) : (s \o t)[k] = s[k]
      OBVIOUS
    <2>3. \A k \in 1..Len(t) : (s \o t)[Len(s) + k] = t[k]
      OBVIOUS
    <2>4. QED
      BY <2>1, <2>2, <2>3
  <1>2. PICK f : FlattensTo(s, f, R)
    BY FlattenFunction
  <1>3. PICK g : FlattensTo(t, g, R)
    BY FlattenFunction
  <1>4. PICK h : FlattensTo(st, h, R)
    BY FlattenFunction
  <1>5. PICK m \in Nat, n \in Nat : m = Len(s) /\ n = Len(t)
    OBVIOUS
  <1>6. \A k \in 0..m : h[k] = f[k]
    <2> DEFINE B == {k \in 0..m : h[k] = f[k]}
    <2>1. 0 \in B
      BY <1>2, <1>4, <1>5 DEF FlattensTo
    <2>2. ASSUME NEW k \in 1..m, k - 1 \in B PROVE k \in B
      <3>1. k \in 1..Len(st) /\ k \in 0..m
        BY <1>1, <1>5
      <3>2. h[k] = h[k - 1] \o st[k] /\ f[k] = f[k - 1] \o s[k]
        BY <1>2, <1>4, <1>5, <3>1 DEF FlattensTo
      <3>3. h[k - 1] = f[k - 1] /\ st[k] = s[k]
        BY <1>1, <1>5, <2>2
      <3>4. h[k] = f[k]
        BY <3>2, <3>3, Zenon
      <3>5. QED
        BY <3>1, <3>4
    <2> HIDE DEF B
    <2>3. \A k \in 0..m : k \in B
      BY <2>1, <2>2, BoundedInduction
    <2>4. QED
      BY <2>3 DEF B
  <1>7. PICK front \in Seq(R) : front = f[m] /\ front = FlattenSeq(s)
    BY <1>2, <1>5 DEF FlattensTo
  <1>8. \A k \in 0..n : h[m + k] = front \o g[k]
    <2> DEFINE B == {k \in 0..n : h[m + k] = front \o g[k]}
    <2>1. 0 \in B
      <3>1. h[m + 0] = front
        <4>1. m \in 0..m /\ m + 0 = m
          OBVIOUS
        <4>2. h[m] = front
          BY <1>6, <1>7, <4>1, Zenon
        <4>3. QED
          BY <4>1, <4>2, Zenon
      <3>2. front \o <<>> = front
        BY ConcatEmptySeq
      <3>3. g[0] = <<>>
        BY <1>3 DEF FlattensTo
      <3>4. h[m + 0] = front \o g[0]
        BY <3>1, <3>2, <3>3, Zenon
      <3>5. 0 \in 0..n
        BY <1>5
      <3>6. QED
        BY <3>4, <3>5
    <2>2. ASSUME NEW k \in 1..n, k - 1 \in B PROVE k \in B
      <3>1. m + k \in 1..Len(st) /\ (m + k) - 1 = m + (k - 1) /\ k \in 0..n
        BY <1>1, <1>5
      <3>2. h[m + k] = h[m + (k - 1)] \o st[m + k]
        BY <1>4, <3>1 DEF FlattensTo
      <3>3. g[k - 1] \in Seq(R) /\ g[k] = g[k - 1] \o t[k]
        BY <1>3, <1>5 DEF FlattensTo
      <3>4. h[m + (k - 1)] = front \o g[k - 1] /\ st[m + k] = t[k] /\ t[k] \in Seq(R)
        <4>1. h[m + (k - 1)] = front \o g[k - 1]
          BY <2>2, Zenon
        <4>2. k \in 1..Len(t)
          BY <1>5
        <4>3. st[m + k] = t[k]
          BY <1>1, <1>5, <4>2, Zenon
        <4>4. t[k] \in Seq(R)
          BY <4>2
        <4>5. QED
          BY <4>1, <4>3, <4>4
      <3>5. PICK u \in Seq(R), v \in Seq(R) : u = g[k - 1] /\ v = t[k]
        BY <3>3, <3>4
      <3>6. (front \o u) \o v = front \o (u \o v)
        OBVIOUS
      <3>7. h[m + k] = front \o g[k]
        BY <3>2, <3>3, <3>4, <3>5, <3>6, Zenon
      <3>8. QED
        BY <3>1, <3>7
    <2> HIDE DEF B
    <2>3. \A k \in 0..n : k \in B
      BY <2>1, <2>2, BoundedInduction
    <2>4. QED
      BY <2>3 DEF B
  <1>9. h[m + n] = front \o g[n]
    BY <1>5, <1>8
  <1>10. FlattenSeq(st) = h[m + n] /\ FlattenSeq(t) = g[n] /\ g[n] \in Seq(R)
    BY <1>1, <1>3, <1>4, <1>5 DEF FlattensTo
  <1>11. QED
    BY <1>1, <1>7, <1>9, <1>10, Zenon

LEMMA FlattenOne ==
  ASSUME NEW R, NEW t \in Seq(R)
  PROVE  FlattenSeq(<<t>>) = t
  <1>1. PICK s \in Seq(Seq(R)) : s = <<t>> /\ Len(s) = 1 /\ s[1] = t
    BY OneEntry
  <1>2. PICK f : FlattensTo(s, f, R)
    BY FlattenFunction
  <1>3. 1 \in 1..Len(s) /\ 1 - 1 = 0
    BY <1>1
  <1>4. f[1] = f[0] \o s[1] /\ f[0] = <<>> /\ FlattenSeq(s) = f[1]
    <2>1. f[1] = f[1 - 1] \o s[1] /\ FlattenSeq(s) = f[1]
      BY <1>1, <1>2, <1>3, Zenon DEF FlattensTo
    <2>2. QED
      BY <1>2, <1>3, <2>1, Zenon DEF FlattensTo
  <1>5. <<>> \o t = t
    BY EmptyFirst
  <1>6. QED
    BY <1>1, <1>4, <1>5, Zenon

LEMMA FlattenNone == FlattenSeq(<<>>) = <<>>
  <1>1. Len(<<>>) = 0
    OBVIOUS
  <1>2. QED
    BY <1>1, FlattenUnfolds, Zenon

-----------------------------------------------------------------------------
(* What each entry of a list is written as, one after the other.           *)
Images(F, list) == [i \in DOMAIN list |-> F[list[i]]]
Flat(F, list)   == FlattenSeq(Images(F, list))

Writes(F, T, U)       == F \in [T -> U]
ImagesOf(F, list, U)  == /\ Images(F, list) \in Seq(U)
                         /\ Len(Images(F, list)) = Len(list)
                         /\ \A i \in 1..Len(list) : Images(F, list)[i] = F[list[i]]
FlatInRow(F, a, b, R) == /\ Flat(F, a \o b) = Flat(F, a) \o Flat(F, b)
                         /\ Flat(F, a) \in Seq(R) /\ Flat(F, b) \in Seq(R)

LEMMA ImagesType ==
  ASSUME NEW T, NEW U, NEW F, Writes(F, T, U), NEW list \in Seq(T)
  PROVE  ImagesOf(F, list, U)
  <1>1. DOMAIN list = 1..Len(list) /\ Len(list) \in Nat
    OBVIOUS
  <1>2. Images(F, list) = [i \in 1..Len(list) |-> F[list[i]]]
    BY <1>1 DEF Images
  <1>3. \A i \in 1..Len(list) : F[list[i]] \in U
    BY DEF Writes
  <1>4. PICK s : s = [i \in 1..Len(list) |-> F[list[i]]]
    OBVIOUS
  <1>5. s \in Seq(U) /\ Len(s) = Len(list) /\ \A i \in 1..Len(list) : s[i] = F[list[i]]
    BY <1>1, <1>3, <1>4
  <1>6. QED
    BY <1>2, <1>4, <1>5, Zenon DEF ImagesOf

LEMMA FlatJoins ==
  ASSUME NEW T, NEW R, NEW F, Writes(F, T, Seq(R)), NEW a \in Seq(T), NEW b \in Seq(T)
  PROVE  FlatInRow(F, a, b, R)
  <1>1. ImagesOf(F, a, Seq(R)) /\ ImagesOf(F, b, Seq(R))
    BY ImagesType
  <1>2. PICK ab \in Seq(T) : ab = a \o b
    BY ConcatProperties
  <1>3. ImagesOf(F, ab, Seq(R))
    BY ImagesType
  <1>4. PICK s \in Seq(Seq(R)), t \in Seq(Seq(R)), u \in Seq(Seq(R)) :
          /\ s = Images(F, a) /\ t = Images(F, b) /\ u = Images(F, ab)
          /\ Len(s) = Len(a) /\ Len(t) = Len(b) /\ Len(u) = Len(ab)
          /\ \A i \in 1..Len(a) : s[i] = F[a[i]]
          /\ \A i \in 1..Len(b) : t[i] = F[b[i]]
          /\ \A i \in 1..Len(ab) : u[i] = F[ab[i]]
    BY <1>1, <1>3, Zenon DEF ImagesOf
  <1>5. /\ Len(ab) = Len(a) + Len(b) /\ Len(a) \in Nat /\ Len(b) \in Nat
        /\ \A i \in 1..(Len(a) + Len(b)) :
             ab[i] = IF i <= Len(a) THEN a[i] ELSE b[i - Len(a)]
    BY <1>2, ConcatProperties
  <1>6. /\ s \o t \in Seq(Seq(R)) /\ Len(s \o t) = Len(s) + Len(t)
        /\ \A i \in 1..(Len(s) + Len(t)) :
             (s \o t)[i] = IF i <= Len(s) THEN s[i] ELSE t[i - Len(s)]
    BY ConcatProperties
  <1>7. PICK st \in Seq(Seq(R)) :
          /\ st = s \o t /\ Len(st) = Len(a) + Len(b)
          /\ \A i \in 1..(Len(a) + Len(b)) : st[i] = IF i <= Len(a) THEN s[i] ELSE t[i - Len(a)]
    <2>1. PICK st \in Seq(Seq(R)) : st = s \o t
      BY <1>6, Zenon
    <2>2. /\ Len(st) = Len(s) + Len(t)
          /\ \A i \in 1..(Len(s) + Len(t)) :
               st[i] = IF i <= Len(s) THEN s[i] ELSE t[i - Len(s)]
      BY <1>6, <2>1, Zenon
    <2>3. /\ Len(st) = Len(a) + Len(b)
          /\ \A i \in 1..(Len(a) + Len(b)) :
               st[i] = IF i <= Len(a) THEN s[i] ELSE t[i - Len(a)]
      BY <1>4, <2>2
    <2>4. QED
      BY <2>1, <2>3, Zenon
  <1>8. ASSUME NEW i \in 1..Len(u) PROVE u[i] = st[i]
    <2>1. i \in 1..(Len(a) + Len(b)) /\ u[i] = F[ab[i]]
      BY <1>4, <1>5
    <2>2. CASE i <= Len(a)
      <3>1. i \in 1..Len(a)
        BY <1>5, <2>1, <2>2
      <3>2. ab[i] = a[i] /\ st[i] = s[i] /\ s[i] = F[a[i]]
        BY <1>4, <1>5, <1>7, <2>1, <2>2, <3>1, Zenon
      <3>3. QED
        BY <2>1, <3>2
    <2>3. CASE ~ (i <= Len(a))
      <3>1. i - Len(a) \in 1..Len(b)
        BY <1>5, <2>1, <2>3
      <3>2. ab[i] = b[i - Len(a)] /\ st[i] = t[i - Len(a)]
        BY <1>5, <1>7, <2>1, <2>3, Zenon
      <3>3. t[i - Len(a)] = F[b[i - Len(a)]]
        BY <1>4, <3>1, Zenon
      <3>4. QED
        BY <2>1, <3>2, <3>3
    <2>4. QED
      BY <2>2, <2>3
  <1>9. Len(u) = Len(st)
    BY <1>4, <1>5, <1>7
  <1>10. u = st
    BY <1>8, <1>9, SeqEqual
  <1>11. /\ FlattenSeq(s) \in Seq(R) /\ FlattenSeq(t) \in Seq(R)
         /\ FlattenSeq(s \o t) = FlattenSeq(s) \o FlattenSeq(t)
    BY FlattenJoins
  <1>12. QED
    BY <1>2, <1>4, <1>7, <1>10, <1>11, Zenon DEF FlatInRow, Flat

LEMMA FlatOne ==
  ASSUME NEW T, NEW R, NEW F, Writes(F, T, Seq(R)), NEW e \in T
  PROVE  Flat(F, <<e>>) = F[e] /\ Flat(F, <<>>) = <<>>
  <1>1. Images(F, <<e>>) = <<F[e]>>
    BY DEF Images
  <1>2. Images(F, <<>>) = <<>>
    BY DEF Images
  <1>3. FlattenSeq(<<F[e]>>) = F[e]
    <2>1. PICK t \in Seq(R) : t = F[e]
      BY DEF Writes
    <2>2. FlattenSeq(<<t>>) = t
      BY FlattenOne
    <2>3. QED
      BY <2>1, <2>2, Zenon
  <1>4. QED
    BY <1>1, <1>2, <1>3, FlattenNone, Zenon DEF Flat

(* What is swapped in the list is swapped in what it is written as.        *)
LEMMA FlatSwaps ==
  ASSUME NEW T, NEW R, NEW F, Writes(F, T, Seq(R)), NEW old, NEW new,
         NEW x \in Seq(T), NEW y \in Seq(T), Swapped(T, old, new, x, y)
  PROVE  Swapped(R, Flat(F, old), Flat(F, new), Flat(F, x), Flat(F, y))
  <1>1. PICK a, b \in Seq(T) : old = (a \o x) \o b /\ new = (a \o y) \o b
    BY Zenon DEF Swapped
  <1>2. ASSUME NEW z \in Seq(T)
        PROVE  Flat(F, (a \o z) \o b) = (Flat(F, a) \o Flat(F, z)) \o Flat(F, b)
    <2>1. PICK az \in Seq(T) : az = a \o z
      BY ConcatProperties
    <2>2. FlatInRow(F, az, b, R) /\ FlatInRow(F, a, z, R)
      BY FlatJoins
    <2>3. QED
      BY <2>1, <2>2, Zenon DEF FlatInRow
  <1>3. Flat(F, a) \in Seq(R) /\ Flat(F, b) \in Seq(R)
    <2>1. FlatInRow(F, a, b, R)
      BY FlatJoins
    <2>2. QED
      BY <2>1, Zenon DEF FlatInRow
  <1>4. /\ Flat(F, old) = (Flat(F, a) \o Flat(F, x)) \o Flat(F, b)
        /\ Flat(F, new) = (Flat(F, a) \o Flat(F, y)) \o Flat(F, b)
    BY <1>1, <1>2, Zenon
  <1>5. QED
    BY <1>3, <1>4, Zenon DEF Swapped

(* The same for a list that is written one entry as one.                   *)
LEMMA ImagesSwap ==
  ASSUME NEW T, NEW U, NEW F, Writes(F, T, U), NEW old, NEW new,
         NEW x \in Seq(T), NEW y \in Seq(T), Swapped(T, old, new, x, y)
  PROVE  Swapped(U, Images(F, old), Images(F, new), Images(F, x), Images(F, y))
  <1>1. PICK a, b \in Seq(T) : old = (a \o x) \o b /\ new = (a \o y) \o b
    BY Zenon DEF Swapped
  <1>2. \A l \in Seq(T) :
          \E p \in Seq(U) :
            p = Images(F, l) /\ Len(p) = Len(l) /\ \A i \in 1..Len(l) : p[i] = F[l[i]]
    <2>1. ASSUME NEW l \in Seq(T) PROVE ImagesOf(F, l, U)
      BY ImagesType
    <2>2. QED
      BY <2>1, Zenon DEF ImagesOf
  <1>3. ASSUME NEW z \in Seq(T)
        PROVE  Images(F, (a \o z) \o b) = (Images(F, a) \o Images(F, z)) \o Images(F, b)
    <2>1. PICK m \in Seq(T) : m = (a \o z) \o b /\ InRow(m, a, z, b)
      BY JoinedInRow
    <2>2. PICK p \in Seq(U) :
            /\ p = Images(F, a) /\ Len(p) = Len(a)
            /\ \A i \in 1..Len(a) : p[i] = F[a[i]]
      BY <1>2
    <2>3. PICK q \in Seq(U) :
            /\ q = Images(F, z) /\ Len(q) = Len(z)
            /\ \A i \in 1..Len(z) : q[i] = F[z[i]]
      BY <1>2
    <2>4. PICK s \in Seq(U) :
            /\ s = Images(F, b) /\ Len(s) = Len(b)
            /\ \A i \in 1..Len(b) : s[i] = F[b[i]]
      BY <1>2
    <2>5. PICK n \in Seq(U) :
            /\ n = Images(F, m) /\ Len(n) = Len(m)
            /\ \A i \in 1..Len(m) : n[i] = F[m[i]]
      BY <1>2
    <2>6. Len(a) \in Nat /\ Len(z) \in Nat /\ Len(b) \in Nat
      OBVIOUS
    <2>7. Len(m) = Len(a) + Len(z) + Len(b)
      BY <2>1 DEF InRow
    <2>8. ASSUME NEW j \in 1..Len(a) PROVE n[j] = p[j]
      <3>1. j \in 1..Len(m)
        BY <2>6, <2>7
      <3>2. m[j] = a[j]
        BY <2>1, Zenon DEF InRow
      <3>3. QED
        BY <2>2, <2>5, <3>1, <3>2, Zenon
    <2>9. ASSUME NEW j \in 1..Len(z) PROVE n[Len(a) + j] = q[j]
      <3>1. Len(a) + j \in 1..Len(m)
        BY <2>6, <2>7
      <3>2. m[Len(a) + j] = z[j]
        BY <2>1, Zenon DEF InRow
      <3>3. QED
        BY <2>3, <2>5, <3>1, <3>2, Zenon
    <2>10. ASSUME NEW j \in 1..Len(b) PROVE n[Len(a) + Len(z) + j] = s[j]
      <3>1. Len(a) + Len(z) + j \in 1..Len(m)
        BY <2>6, <2>7
      <3>2. m[Len(a) + Len(z) + j] = b[j]
        BY <2>1, Zenon DEF InRow
      <3>3. QED
        BY <2>4, <2>5, <3>1, <3>2, Zenon
    <2>11. InRow(n, p, q, s)
      <3>1. /\ Len(n) = Len(p) + Len(q) + Len(s)
            /\ \A j \in 1..Len(p) : n[j] = p[j]
            /\ \A j \in 1..Len(q) : n[Len(p) + j] = q[j]
            /\ \A j \in 1..Len(s) : n[Len(p) + Len(q) + j] = s[j]
        BY <2>2, <2>3, <2>4, <2>5, <2>7, <2>8, <2>9, <2>10, Zenon
      <3>2. QED
        BY <3>1, Zenon DEF InRow
    <2>12. n = (p \o q) \o s
      BY <2>11, RowIsJoined
    <2>13. QED
      BY <2>1, <2>2, <2>3, <2>4, <2>5, <2>12, Zenon
  <1>4. Images(F, a) \in Seq(U) /\ Images(F, b) \in Seq(U)
    <2>1. ImagesOf(F, a, U) /\ ImagesOf(F, b, U)
      BY ImagesType
    <2>2. QED
      BY <2>1, Zenon DEF ImagesOf
  <1>5. /\ Images(F, old) = (Images(F, a) \o Images(F, x)) \o Images(F, b)
        /\ Images(F, new) = (Images(F, a) \o Images(F, y)) \o Images(F, b)
    BY <1>1, <1>3, Zenon
  <1>6. QED
    BY <1>4, <1>5, Zenon DEF Swapped

(* A piece of a piece is a piece.                                          *)
LEMMA SwappedInside ==
  ASSUME NEW S, NEW old, NEW new, NEW x \in Seq(S), NEW y \in Seq(S),
         NEW u \in Seq(S), NEW v \in Seq(S),
         Swapped(S, old, new, x, y), Swapped(S, x, y, u, v)
  PROVE  Swapped(S, old, new, u, v)
  <1>1. PICK a, b \in Seq(S) : old = (a \o x) \o b /\ new = (a \o y) \o b
    BY Zenon DEF Swapped
  <1>2. Swapped(S, (a \o x) \o b, (a \o y) \o b, u, v)
    BY SwappedInContext
  <1>3. QED
    BY <1>1, <1>2, Zenon

Balanced(old, new, x, y) == Len(new) = Len(old) - Len(x) + Len(y)

LEMMA SwappedLengths ==
  ASSUME NEW S, NEW old, NEW new, NEW x \in Seq(S), NEW y \in Seq(S), Swapped(S, old, new, x, y)
  PROVE  Balanced(old, new, x, y)
  <1>1. PICK a, b \in Seq(S) : old = (a \o x) \o b /\ new = (a \o y) \o b
    BY Zenon DEF Swapped
  <1>2. InRow(old, a, x, b) /\ InRow(new, a, y, b)
    BY <1>1, JoinedInRow
  <1>3. Len(old) = Len(a) + Len(x) + Len(b) /\ Len(new) = Len(a) + Len(y) + Len(b)
    BY <1>2 DEF InRow
  <1>4. Len(a) \in Nat /\ Len(b) \in Nat /\ Len(x) \in Nat /\ Len(y) \in Nat
    OBVIOUS
  <1>5. QED
    BY <1>3, <1>4 DEF Balanced

-----------------------------------------------------------------------------
(* A value written to a list of fields: one field is new, or one has       *)
(* another value and another type.                                         *)
Revalued(f, g) == g = [f EXCEPT !.value = g.value, !.type = g.type]

OneField(x, y) ==
  \/ x = <<>> /\ \E f \in Field : y = <<f>>
  \/ \E f, g \in Field : x = <<f>> /\ y = <<g>> /\ Revalued(f, g)

LEMMA SetSwaps ==
  ASSUME NEW fields \in Seq(Field), NEW id \in FieldIds, NEW hint \in Names \cup {Absent},
         NEW type \in Types \cup {Absent}, NEW value \in Values
  PROVE  \E x, y \in Seq(Field) :
           OneField(x, y) /\ Swapped(Field, fields, SetInList(fields, id, hint, type, value), x, y)
  <1> DEFINE new == SetInList(fields, id, hint, type, value)
             at  == At(fields, id)
  <1>1. CASE at = 0
    <2>1. PICK e \in Field : e = [key |-> id, hint |-> hint, type |-> type, blob |-> FALSE,
                                  value |-> value]
      BY DEF Field
    <2>2. new = InsertKeyed(fields, e)
      BY <1>1, <2>1 DEF SetInList
    <2>3. PICK p \in 1..(Len(fields) + 1) : Inserted(InsertKeyed(fields, e), fields, e, p)
      BY SomewhereInserted
    <2>4. InsertKeyed(fields, e) \in Seq(Field)
      BY SomewhereInserted
    <2>5. Swapped(Field, fields, InsertKeyed(fields, e), <<>>, <<e>>)
      <3>1. PICK list \in Seq(Field) : list = InsertKeyed(fields, e)
        BY <2>4
      <3>2. Inserted(list, fields, e, p)
        BY <2>3, <3>1
      <3>3. QED
        BY <3>1, <3>2, InsertedSwaps
    <2>6. <<>> \in Seq(Field) /\ <<e>> \in Seq(Field)
      OBVIOUS
    <2>7. QED
      BY <2>2, <2>5, <2>6, Zenon DEF OneField
  <1>2. CASE at # 0
    <2>1. at \in 1..Len(fields)
      BY <1>2, FirstPlace
    <2>2. PICK f \in Field : f = fields[at]
      BY <2>1
    <2>3. PICK g \in Field :
            g = [f EXCEPT !.value = value, !.type = IF type = Absent THEN @ ELSE type]
      BY DEF Field
    <2>4. Revalued(f, g)
      BY <2>3 DEF Revalued, Field
    <2>5. new = [fields EXCEPT ![at] = g]
      BY <1>2, <2>1, <2>2, <2>3 DEF SetInList, Field
    <2>6. Swapped(Field, fields, [fields EXCEPT ![at] = g], <<fields[at]>>, <<g>>)
      <3> HIDE DEF at
      <3>1. QED
        BY <2>1, ReplacedSwaps
    <2>7. <<f>> \in Seq(Field) /\ <<g>> \in Seq(Field)
      OBVIOUS
    <2>8. QED
      BY <2>2, <2>4, <2>5, <2>6, <2>7, Zenon DEF OneField
  <1>3. QED
    BY <1>1, <1>2

(* Another entry of a key: in the place of the first one, or where one is  *)
(* made.                                                                   *)
Put(list, e, x) == [Ensure(list, e) EXCEPT ![At(Ensure(list, e), e.key)] = x]

LEMMA PutSwaps ==
  ASSUME NEW S, NEW list \in Seq(S), NEW e \in S, NEW x \in S
  PROVE  /\ At(list, e.key) = 0 => Swapped(S, list, Put(list, e, x), <<>>, <<x>>)
         /\ At(list, e.key) # 0 =>
              /\ At(list, e.key) \in 1..Len(list)
              /\ Swapped(S, list, Put(list, e, x), <<list[At(list, e.key)]>>, <<x>>)
         /\ Put(list, e, x) \in Seq(S)
  <1>1. Put(list, e, x) \in Seq(S)
    <2>1. PICK l \in Seq(S) : l = Ensure(list, e) /\ At(l, e.key) \in 1..Len(l)
      BY EnsuredIsFound
    <2>2. PICK i \in 1..Len(l) : i = At(l, e.key)
      BY <2>1
    <2>3. [l EXCEPT ![i] = x] \in Seq(S)
      BY ExceptSeq
    <2>4. QED
      BY <2>1, <2>2, <2>3 DEF Put
  <1>2. ASSUME At(list, e.key) # 0
        PROVE  /\ At(list, e.key) \in 1..Len(list)
               /\ Swapped(S, list, Put(list, e, x), <<list[At(list, e.key)]>>, <<x>>)
    <2>1. PICK i \in 1..Len(list) : i = At(list, e.key)
      BY <1>2, FirstPlace
    <2>2. Put(list, e, x) = [list EXCEPT ![i] = x]
      BY <1>2, <2>1 DEF Put, Ensure
    <2>3. Swapped(S, list, [list EXCEPT ![i] = x], <<list[i]>>, <<x>>)
      BY ReplacedSwaps
    <2>4. QED
      BY <2>1, <2>2, <2>3
  <1>3. ASSUME At(list, e.key) = 0
        PROVE  Swapped(S, list, Put(list, e, x), <<>>, <<x>>)
    <2>1. PICK l \in Seq(S), p \in 1..(Len(list) + 1) :
            l = InsertKeyed(list, e) /\ Inserted(l, list, e, p)
      BY SomewhereInserted
    <2>2. Ensure(list, e) = l
      BY <1>3, <2>1 DEF Ensure
    <2>3. /\ Len(l) = Len(list) + 1 /\ Len(list) \in Nat
          /\ \A j \in 1..(Len(list) + 1) :
               l[j] = IF j < p THEN list[j] ELSE IF j = p THEN e ELSE list[j - 1]
      BY <2>1 DEF Inserted
    <2>4. At(l, e.key) = p
      <3>1. p \in 1..Len(l) /\ l[p] = e
        BY <2>3
      <3>2. ASSUME NEW j \in 1..Len(l), l[j].key = l[p].key PROVE p <= j
        <4>1. SUFFICES ASSUME j < p PROVE FALSE
          BY <2>3
        <4>2. j \in 1..Len(list) /\ l[j] = list[j]
          BY <2>3, <4>1
        <4>3. list[j].key # e.key
          BY <1>3, <4>2, FirstPlace
        <4>4. QED
          BY <3>1, <3>2, <4>2, <4>3
      <3>3. At(l, l[p].key) = p
        BY <3>1, <3>2, FirstPlaceIs
      <3>4. QED
        BY <3>1, <3>3
    <2>5. PICK m \in Seq(S) : m = [l EXCEPT ![p] = x]
      BY <2>3, ExceptSeq
    <2>6. Put(list, e, x) = m
      BY <2>2, <2>4, <2>5 DEF Put
    <2>7. Inserted(m, list, x, p)
      BY <2>3, <2>5 DEF Inserted
    <2>8. Swapped(S, list, m, <<>>, <<x>>)
      BY <2>7, InsertedSwaps
    <2>9. QED
      BY <2>6, <2>8
  <1>4. QED
    BY <1>1, <1>2, <1>3

-----------------------------------------------------------------------------
(* The lines of a document, with what they are made of by name.            *)
LineOf(language, version, fields) ==
  [language |-> language, version |-> version, fields |-> fields]

LineSet ==
  [language : Languages \cup {-1}, version : Versions \cup {0}, fields : Seq(Field)]

FieldLines(language, version) == [f \in Field |-> LineOf(language, version, <<f>>)]

UnderHead(language, version, fields) == Images(FieldLines(language, version), fields)

VersionText(language, v) ==
  <<LineOf(language, v.key, <<>>)>> \o UnderHead(language, v.key, v.fields)

VersionLines(language) == [v \in Version |-> VersionText(language, v)]

BlockText(b) ==
  (<<LineOf(b.key, 0, <<>>)>> \o UnderHead(b.key, 0, b.fields))
    \o Flat(VersionLines(b.key), b.versions)

LanguageLines == [b \in Language |-> BlockText(b)]

LEMMA FieldLinesType ==
  ASSUME NEW l \in Languages \cup {-1}, NEW v \in Versions \cup {0}
  PROVE  /\ Writes(FieldLines(l, v), Field, LineSet)
         /\ \A fields \in Seq(Field) :
              /\ UnderHead(l, v, fields) \in Seq(LineSet)
              /\ Len(UnderHead(l, v, fields)) = Len(fields)
  <1>1. \A f \in Field : LineOf(l, v, <<f>>) \in LineSet
    BY DEF LineOf, LineSet
  <1>2. Writes(FieldLines(l, v), Field, LineSet)
    BY <1>1 DEF Writes, FieldLines
  <1>3. ASSUME NEW fields \in Seq(Field) PROVE ImagesOf(FieldLines(l, v), fields, LineSet)
    BY <1>2, ImagesType
  <1>4. QED
    BY <1>2, <1>3, Zenon DEF ImagesOf, UnderHead

LEMMA HeadType ==
  ASSUME NEW l \in Languages \cup {-1}, NEW v \in Versions \cup {0}
  PROVE  <<LineOf(l, v, <<>>)>> \in Seq(LineSet) /\ Len(<<LineOf(l, v, <<>>)>>) = 1
  <1>1. LineOf(l, v, <<>>) \in LineSet
    BY DEF LineOf, LineSet
  <1>2. QED
    BY <1>1

LEMMA VersionLinesType ==
  ASSUME NEW l \in Languages
  PROVE  /\ Writes(VersionLines(l), Version, Seq(LineSet))
         /\ \A v \in Version : VersionLines(l)[v] = VersionText(l, v)
         /\ \A versions \in Seq(Version) : Flat(VersionLines(l), versions) \in Seq(LineSet)
  <1>1. ASSUME NEW v \in Version PROVE VersionText(l, v) \in Seq(LineSet)
    <2>1. v.key \in Versions \cup {0} /\ v.fields \in Seq(Field)
      BY DEF Version
    <2>2. PICK head \in Seq(LineSet), under \in Seq(LineSet) :
            head = <<LineOf(l, v.key, <<>>)>> /\ under = UnderHead(l, v.key, v.fields)
      BY <2>1, HeadType, FieldLinesType
    <2>3. head \o under \in Seq(LineSet)
      BY ConcatProperties
    <2>4. QED
      BY <2>2, <2>3, Zenon DEF VersionText
  <1>2. Writes(VersionLines(l), Version, Seq(LineSet))
    BY <1>1, Zenon DEF Writes, VersionLines
  <1>3. \A v \in Version : VersionLines(l)[v] = VersionText(l, v)
    BY Zenon DEF VersionLines
  <1>4. ASSUME NEW versions \in Seq(Version)
        PROVE  Flat(VersionLines(l), versions) \in Seq(LineSet)
    <2>1. FlatInRow(VersionLines(l), versions, versions, LineSet)
      BY <1>2, FlatJoins
    <2>2. QED
      BY <2>1, Zenon DEF FlatInRow
  <1>5. QED
    BY <1>2, <1>3, <1>4

LEMMA LanguageLinesType ==
  /\ Writes(LanguageLines, Language, Seq(LineSet))
  /\ \A b \in Language : LanguageLines[b] = BlockText(b) /\ BlockText(b) \in Seq(LineSet)
  /\ \A languages \in Seq(Language) : Flat(LanguageLines, languages) \in Seq(LineSet)
  <1>1. ASSUME NEW b \in Language PROVE BlockText(b) \in Seq(LineSet)
    <2>1. b.key \in Languages /\ b.fields \in Seq(Field) /\ b.versions \in Seq(Version)
      BY DEF Language
    <2>2. PICK head \in Seq(LineSet), under \in Seq(LineSet) :
            head = <<LineOf(b.key, 0, <<>>)>> /\ under = UnderHead(b.key, 0, b.fields)
      BY <2>1, HeadType, FieldLinesType
    <2>3. PICK flat \in Seq(LineSet) : flat = Flat(VersionLines(b.key), b.versions)
      BY <2>1, VersionLinesType
    <2>4. (head \o under) \o flat \in Seq(LineSet)
      BY JoinedInRow
    <2>5. QED
      BY <2>2, <2>3, <2>4, Zenon DEF BlockText
  <1>2. Writes(LanguageLines, Language, Seq(LineSet))
    BY <1>1, Zenon DEF Writes, LanguageLines
  <1>3. \A b \in Language : LanguageLines[b] = BlockText(b)
    BY Zenon DEF LanguageLines
  <1>4. ASSUME NEW languages \in Seq(Language)
        PROVE  Flat(LanguageLines, languages) \in Seq(LineSet)
    <2>1. FlatInRow(LanguageLines, languages, languages, LineSet)
      BY <1>2, FlatJoins
    <2>2. QED
      BY <2>1, Zenon DEF FlatInRow
  <1>5. QED
    BY <1>1, <1>2, <1>3, <1>4

LEMMA LinesAre ==
  ASSUME NEW d \in Document
  PROVE  Lines(d) = UnderHead(-1, 0, d.shared) \o Flat(LanguageLines, d.languages)
  <1> DEFINE Under(language, version, fields) ==
        [i \in DOMAIN fields |->
           [language |-> language, version |-> version, fields |-> <<fields[i]>>]]
             OfVersion(language, version) ==
        <<[language |-> language, version |-> version.key, fields |-> <<>>]>>
          \o Under(language, version.key, version.fields)
             OfLanguage(language) ==
        <<[language |-> language.key, version |-> 0, fields |-> <<>>]>>
          \o Under(language.key, 0, language.fields)
          \o FlattenSeq([v \in DOMAIN language.versions |->
                           OfVersion(language.key, language.versions[v])])
  <1>1. Lines(d) = Under(-1, 0, d.shared)
                     \o FlattenSeq([l \in DOMAIN d.languages |-> OfLanguage(d.languages[l])])
    BY Zenon DEF Lines
  <1>2. ASSUME NEW fields \in Seq(Field), NEW l, NEW v
        PROVE  Under(l, v, fields) = UnderHead(l, v, fields)
    <2>1. ASSUME NEW i \in DOMAIN fields
          PROVE  FieldLines(l, v)[fields[i]] = LineOf(l, v, <<fields[i]>>)
      <3>1. fields[i] \in Field
        OBVIOUS
      <3>2. QED
        BY <3>1 DEF FieldLines
    <2>2. QED
      BY <2>1, Zenon DEF UnderHead, Images, LineOf
  <1> HIDE DEF Under
  <1>3. ASSUME NEW v \in Version, NEW l
        PROVE  OfVersion(l, v) = VersionText(l, v)
    <2>1. v.fields \in Seq(Field)
      BY DEF Version
    <2>2. QED
      BY <1>2, <2>1, Zenon DEF VersionText, LineOf
  <1> HIDE DEF OfVersion
  <1>4. ASSUME NEW b \in Language PROVE OfLanguage(b) = BlockText(b)
    <2>1. b.fields \in Seq(Field) /\ b.versions \in Seq(Version) /\ b.key \in Languages
      BY DEF Language
    <2>2. ASSUME NEW v \in DOMAIN b.versions
          PROVE  OfVersion(b.key, b.versions[v]) = VersionLines(b.key)[b.versions[v]]
      <3>1. b.versions[v] \in Version
        BY <2>1
      <3>2. QED
        BY <1>3, <3>1, Zenon DEF VersionLines
    <2>3. [v \in DOMAIN b.versions |-> OfVersion(b.key, b.versions[v])]
            = Images(VersionLines(b.key), b.versions)
      BY <2>2, Zenon DEF Images
    <2>4. Under(b.key, 0, b.fields) = UnderHead(b.key, 0, b.fields)
      BY <1>2, <2>1
    <2>5. QED
      BY <2>3, <2>4, Zenon DEF BlockText, LineOf, Flat
  <1> HIDE DEF OfLanguage
  <1>5. d.shared \in Seq(Field) /\ d.languages \in Seq(Language)
    BY DEF Document
  <1>6. ASSUME NEW l \in DOMAIN d.languages
        PROVE  OfLanguage(d.languages[l]) = LanguageLines[d.languages[l]]
    <2>1. d.languages[l] \in Language
      BY <1>5
    <2>2. QED
      BY <1>4, <2>1, LanguageLinesType, Zenon
  <1>7. [l \in DOMAIN d.languages |-> OfLanguage(d.languages[l])]
          = Images(LanguageLines, d.languages)
    BY <1>6, Zenon DEF Images
  <1>8. Under(-1, 0, d.shared) = UnderHead(-1, 0, d.shared)
    BY <1>2, <1>5
  <1>9. QED
    BY <1>1, <1>7, <1>8, Zenon DEF Flat

-----------------------------------------------------------------------------
(* One field is another value on its line, or up to so many lines are new. *)
ChangedLine(x, y) ==
  \E l \in Languages \cup {-1}, v \in Versions \cup {0}, f, g \in Field :
    x = <<LineOf(l, v, <<f>>)>> /\ y = <<LineOf(l, v, <<g>>)>> /\ Revalued(f, g)

SmallChange(x, y, most) == ChangedLine(x, y) \/ (x = <<>> /\ Len(y) \in 1..most)

Hunk(old, new, most) ==
  \E x, y \in Seq(LineSet) : SmallChange(x, y, most) /\ Swapped(LineSet, old, new, x, y)

LEMMA HunkInside ==
  ASSUME NEW x \in Seq(LineSet), NEW y \in Seq(LineSet), NEW most \in Nat, Hunk(x, y, most),
         NEW old, NEW new, Swapped(LineSet, old, new, x, y)
  PROVE  Hunk(old, new, most) /\ Hunk(old, new, most + 1)
  <1>1. PICK u, v \in Seq(LineSet) : SmallChange(u, v, most) /\ Swapped(LineSet, x, y, u, v)
    BY Zenon DEF Hunk
  <1>2. Swapped(LineSet, old, new, u, v)
    BY <1>1, SwappedInside
  <1>3. SmallChange(u, v, most + 1)
    BY <1>1 DEF SmallChange
  <1>4. QED
    BY <1>1, <1>2, <1>3, Zenon DEF Hunk

LEMMA HunkAfter ==
  ASSUME NEW x \in Seq(LineSet), NEW y \in Seq(LineSet), NEW most \in Nat, Hunk(x, y, most),
         NEW c \in Seq(LineSet)
  PROVE  Hunk(c \o x, c \o y, most)
  <1>1. <<>> \in Seq(LineSet)
    OBVIOUS
  <1>2. c \o x \in Seq(LineSet) /\ c \o y \in Seq(LineSet)
    BY ConcatProperties
  <1>3. (c \o x) \o <<>> = c \o x /\ (c \o y) \o <<>> = c \o y
    <2>1. PICK cx \in Seq(LineSet), cy \in Seq(LineSet) : cx = c \o x /\ cy = c \o y
      BY <1>2
    <2>2. cx \o <<>> = cx /\ cy \o <<>> = cy
      BY ConcatEmptySeq
    <2>3. QED
      BY <2>1, <2>2, Zenon
  <1>4. Swapped(LineSet, x, y, x, y)
    BY SwappedAlone
  <1>5. Swapped(LineSet, (c \o x) \o <<>>, (c \o y) \o <<>>, x, y)
    BY <1>1, <1>4, SwappedInContext
  <1>6. Swapped(LineSet, c \o x, c \o y, x, y)
    BY <1>3, <1>5, Zenon
  <1>7. QED
    BY <1>6, HunkInside

LEMMA HunkBefore ==
  ASSUME NEW x \in Seq(LineSet), NEW y \in Seq(LineSet), NEW most \in Nat, Hunk(x, y, most),
         NEW e \in Seq(LineSet)
  PROVE  Hunk(x \o e, y \o e, most)
  <1>1. <<>> \in Seq(LineSet)
    OBVIOUS
  <1>2. <<>> \o x = x /\ <<>> \o y = y
    BY ConcatEmptySeq
  <1>3. Swapped(LineSet, x, y, x, y)
    BY SwappedAlone
  <1>4. Swapped(LineSet, (<<>> \o x) \o e, (<<>> \o y) \o e, x, y)
    BY <1>1, <1>3, SwappedInContext
  <1>5. Swapped(LineSet, x \o e, y \o e, x, y)
    BY <1>2, <1>4, Zenon
  <1>6. QED
    BY <1>5, HunkInside

(* A hunk does not take lines away, and does not add more than so many.    *)
LEMMA HunkLengths ==
  ASSUME NEW old, NEW new, NEW most \in Nat, Hunk(old, new, most), Len(old) \in Nat
  PROVE  Len(new) \in Len(old)..(Len(old) + most)
  <1>1. PICK x \in Seq(LineSet), y \in Seq(LineSet) :
          SmallChange(x, y, most) /\ Swapped(LineSet, old, new, x, y)
    BY Zenon DEF Hunk
  <1>2. Len(x) \in Nat /\ Len(y) \in Nat
    OBVIOUS
  <1>3. Swapped(LineSet, old, new, x, y)
    BY <1>1
  <1>4. Len(new) = Len(old) - Len(x) + Len(y)
    <2>1. Balanced(old, new, x, y)
      BY <1>3, SwappedLengths
    <2>2. QED
      BY <2>1 DEF Balanced
  <1>5. CASE ChangedLine(x, y)
    <2>1. Len(x) = 1 /\ Len(y) = 1
      BY <1>5 DEF ChangedLine
    <2>2. QED
      BY <1>2, <1>4, <2>1
  <1>6. CASE x = <<>> /\ Len(y) \in 1..most
    <2>1. Len(x) = 0
      BY <1>6
    <2>2. QED
      BY <1>2, <1>4, <1>6, <2>1
  <1>7. QED
    BY <1>1, <1>5, <1>6 DEF SmallChange

(* A field that is written is a hunk of its list,                          *)
LEMMA FieldsHunk ==
  ASSUME NEW l \in Languages \cup {-1}, NEW v \in Versions \cup {0},
         NEW fields \in Seq(Field), NEW id \in FieldIds, NEW hint \in Names \cup {Absent},
         NEW type \in Types \cup {Absent}, NEW value \in Values
  PROVE  Hunk(UnderHead(l, v, fields),
              UnderHead(l, v, SetInList(fields, id, hint, type, value)), 1)
  <1> DEFINE new == SetInList(fields, id, hint, type, value)
             F   == FieldLines(l, v)
  <1>1. PICK x, y \in Seq(Field) : OneField(x, y) /\ Swapped(Field, fields, new, x, y)
    BY SetSwaps
  <1>2. /\ Writes(F, Field, LineSet)
        /\ \A list \in Seq(Field) : UnderHead(l, v, list) \in Seq(LineSet)
    BY FieldLinesType
  <1> HIDE DEF new
  <1>3. Swapped(LineSet, UnderHead(l, v, fields), UnderHead(l, v, new),
                UnderHead(l, v, x), UnderHead(l, v, y))
    <2>1. Swapped(LineSet, Images(F, fields), Images(F, new), Images(F, x), Images(F, y))
      <3> HIDE DEF F
      <3>1. QED
        BY <1>1, <1>2, ImagesSwap
    <2>2. QED
      BY <2>1, Zenon DEF UnderHead
  <1>4. \A f \in Field : UnderHead(l, v, <<f>>) = <<LineOf(l, v, <<f>>)>>
    <2>1. ASSUME NEW f \in Field PROVE UnderHead(l, v, <<f>>) = <<LineOf(l, v, <<f>>)>>
      BY DEF UnderHead, Images, FieldLines
    <2>2. QED
      BY <2>1, Zenon
  <1>5. SmallChange(UnderHead(l, v, x), UnderHead(l, v, y), 1)
    <2>1. ASSUME NEW f \in Field, x = <<>>, y = <<f>>
          PROVE  SmallChange(UnderHead(l, v, x), UnderHead(l, v, y), 1)
      <3>1. UnderHead(l, v, <<>>) = <<>>
        BY DEF UnderHead, Images
      <3>2. Len(<<LineOf(l, v, <<f>>)>>) \in 1..1
        OBVIOUS
      <3>3. QED
        BY <1>4, <2>1, <3>1, <3>2, Zenon DEF SmallChange
    <2>2. ASSUME NEW f \in Field, NEW g \in Field, x = <<f>>, y = <<g>>, Revalued(f, g)
          PROVE  SmallChange(UnderHead(l, v, x), UnderHead(l, v, y), 1)
      <3>1. ChangedLine(UnderHead(l, v, x), UnderHead(l, v, y))
        BY <1>4, <2>2, Zenon DEF ChangedLine
      <3>2. QED
        BY <3>1 DEF SmallChange
    <2>3. QED
      BY <1>1, <2>1, <2>2, Zenon DEF OneField
  <1>6. Hunk(UnderHead(l, v, fields), UnderHead(l, v, new), 1)
    BY <1>2, <1>3, <1>5, Zenon DEF Hunk
  <1>7. QED
    BY <1>6 DEF new

(* a list with a hunk in the entry of a key has a hunk, of a line more     *)
(* where the entry is new.                                                 *)
Found(list, e) == IF At(list, e.key) = 0 THEN e ELSE list[At(list, e.key)]

OneLine(text) == Len(text) = 1

PutIsHunk(F, list, e, x, most) == Hunk(Flat(F, list), Flat(F, Put(list, e, x)), most + 1)

LEMMA PutHunk ==
  ASSUME NEW T, NEW F, Writes(F, T, Seq(LineSet)), NEW list \in Seq(T), NEW e \in T, NEW x \in T,
         NEW most \in Nat, OneLine(F[e]), Hunk(F[Found(list, e)], F[x], most)
  PROVE  PutIsHunk(F, list, e, x, most)
  <1>1. F[x] \in Seq(LineSet) /\ Flat(F, <<x>>) = F[x] /\ Flat(F, <<>>) = <<>>
    <2>1. F[x] \in Seq(LineSet)
      BY DEF Writes
    <2>2. QED
      BY <2>1, FlatOne
  <1>2. <<>> \in Seq(T) /\ <<x>> \in Seq(T) /\ <<>> \in Seq(LineSet)
    OBVIOUS
  <1>3. CASE At(list, e.key) = 0
    <2>1. Swapped(T, list, Put(list, e, x), <<>>, <<x>>)
      BY <1>3, PutSwaps
    <2>2. PICK a \in Seq(T), b \in Seq(T) : a = <<>> /\ b = <<x>>
      BY <1>2
    <2>3. Swapped(LineSet, Flat(F, list), Flat(F, Put(list, e, x)), Flat(F, a), Flat(F, b))
      BY <2>1, <2>2, FlatSwaps
    <2>4. Swapped(LineSet, Flat(F, list), Flat(F, Put(list, e, x)), <<>>, F[x])
      BY <1>1, <2>2, <2>3, Zenon
    <2>5. Hunk(F[e], F[x], most)
      BY <1>3 DEF Found
    <2>6. Len(F[x]) \in 1..(most + 1)
      <3>1. Len(F[e]) \in Nat /\ Len(F[e]) + most = most + 1
        BY DEF OneLine
      <3>2. Len(F[x]) \in Len(F[e])..(Len(F[e]) + most)
        BY <2>5, <3>1, HunkLengths
      <3>3. QED
        BY <3>1, <3>2
    <2>7. SmallChange(<<>>, F[x], most + 1)
      BY <2>6 DEF SmallChange
    <2>8. QED
      BY <1>1, <1>2, <2>4, <2>7, Zenon DEF Hunk, PutIsHunk
  <1>4. CASE At(list, e.key) # 0
    <2>1. At(list, e.key) \in 1..Len(list)
      BY <1>4, PutSwaps
    <2>2. PICK old \in T : old = list[At(list, e.key)]
      BY <2>1
    <2>3. Swapped(T, list, Put(list, e, x), <<old>>, <<x>>)
      BY <1>4, <2>2, PutSwaps
    <2>4. PICK a \in Seq(T), b \in Seq(T) : a = <<old>> /\ b = <<x>>
      BY <1>2, OneEntry
    <2>5. Swapped(LineSet, Flat(F, list), Flat(F, Put(list, e, x)), Flat(F, a), Flat(F, b))
      BY <2>3, <2>4, FlatSwaps
    <2>6. F[old] \in Seq(LineSet) /\ Flat(F, <<old>>) = F[old]
      <3>1. F[old] \in Seq(LineSet)
        BY DEF Writes
      <3>2. QED
        BY <3>1, FlatOne
    <2>7. Swapped(LineSet, Flat(F, list), Flat(F, Put(list, e, x)), F[old], F[x])
      BY <1>1, <2>4, <2>5, <2>6, Zenon
    <2>8. Hunk(F[old], F[x], most)
      BY <1>4, <2>2 DEF Found
    <2>9. Hunk(Flat(F, list), Flat(F, Put(list, e, x)), most + 1)
      BY <1>1, <2>6, <2>7, <2>8, HunkInside
    <2>10. QED
      BY <2>9 DEF PutIsHunk
  <1>5. QED
    BY <1>3, <1>4

LEMMA NothingWritten ==
  ASSUME NEW l, NEW v
  PROVE  UnderHead(l, v, <<>>) = <<>>
  BY DEF UnderHead, Images

LEMMA VersionHunk ==
  ASSUME NEW l \in Languages, NEW y \in Version,
         NEW id \in FieldIds, NEW hint \in Names \cup {Absent},
         NEW type \in Types \cup {Absent}, NEW value \in Values
  PROVE  Hunk(VersionText(l, y),
              VersionText(l, [y EXCEPT !.fields = SetInList(y.fields, id, hint, type, value)]), 1)
  <1>1. y.key \in Versions \cup {0} /\ y.fields \in Seq(Field)
    BY DEF Version
  <1>2. PICK old \in Seq(Field), new \in Seq(Field), k \in Versions \cup {0} :
          old = y.fields /\ new = SetInList(y.fields, id, hint, type, value) /\ k = y.key
    BY <1>1, WrittenField
  <1>3. PICK z : z = [y EXCEPT !.fields = new]
    OBVIOUS
  <1>4. z.key = k /\ z.fields = new
    BY <1>2, <1>3 DEF Version
  <1>5. PICK head \in Seq(LineSet), before \in Seq(LineSet), after \in Seq(LineSet) :
          /\ head = <<LineOf(l, k, <<>>)>>
          /\ before = UnderHead(l, k, old) /\ after = UnderHead(l, k, new)
    BY HeadType, FieldLinesType
  <1>6. Hunk(before, after, 1)
    BY <1>2, <1>5, FieldsHunk
  <1>7. Hunk(head \o before, head \o after, 1)
    BY <1>6, HunkAfter
  <1>8. VersionText(l, y) = head \o before /\ VersionText(l, z) = head \o after
    BY <1>2, <1>4, <1>5, Zenon DEF VersionText
  <1>9. QED
    BY <1>2, <1>3, <1>7, <1>8, Zenon

LEMMA VersionsHunk ==
  ASSUME NEW l \in Languages, NEW versions \in Seq(Version), NEW version \in Versions,
         NEW y \in Version,
         Hunk(VersionText(l, VersionBlock(versions, version)), VersionText(l, y), 1)
  PROVE  Hunk(Flat(VersionLines(l), versions),
              Flat(VersionLines(l), ReplaceVersion(versions, version, y)), 2)
  <1>1. PICK e \in Version : e = NewVersion(version) /\ e.key = version /\ e.fields = <<>>
    <2> DEFINE made == NewVersion(version)
    <2>1. made \in Version /\ made.key = version /\ made.fields = <<>>
      BY DEF NewVersion, Version
    <2> HIDE DEF made
    <2>2. \E e \in Version : e = made /\ e.key = version /\ e.fields = <<>>
      BY <2>1, Zenon
    <2>3. QED
      BY <2>2 DEF made
  <1>2. PICK F : F = VersionLines(l) /\ Writes(F, Version, Seq(LineSet))
                 /\ \A v \in Version : F[v] = VersionText(l, v)
    BY VersionLinesType
  <1>3. OneLine(F[e])
    <2>1. UnderHead(l, version, <<>>) = <<>>
      BY NothingWritten
    <2>2. PICK head \in Seq(LineSet) : head = <<LineOf(l, version, <<>>)>> /\ Len(head) = 1
      BY HeadType
    <2>3. head \o <<>> = head
      BY ConcatEmptySeq
    <2>4. VersionText(l, e) = head
      BY <1>1, <2>1, <2>2, <2>3, Zenon DEF VersionText
    <2>5. QED
      BY <1>2, <2>2, <2>4 DEF OneLine
  <1>4. VersionBlock(versions, version) = Found(versions, e)
    BY <1>1 DEF VersionBlock, NewVersion, Found
  <1>5. VersionBlock(versions, version) \in Version
    BY VersionBlockType
  <1>6. Hunk(F[Found(versions, e)], F[y], 1)
    BY <1>2, <1>4, <1>5, Zenon
  <1>7. PutIsHunk(F, versions, e, y, 1)
    <2>1. Writes(F, Version, Seq(LineSet)) /\ 1 \in Nat
      BY <1>2
    <2>2. QED
      BY <1>3, <1>6, <2>1, PutHunk, Zenon
  <1>8. ReplaceVersion(versions, version, y) = Put(versions, e, y)
    BY <1>1 DEF ReplaceVersion, Put
  <1>9. QED
    BY <1>2, <1>7, <1>8 DEF PutIsHunk

LEMMA BlocksHunk ==
  ASSUME NEW languages \in Seq(Language), NEW language \in Languages, NEW x \in Language,
         NEW most \in Nat, Hunk(BlockText(Block(languages, language)), BlockText(x), most)
  PROVE  Hunk(Flat(LanguageLines, languages),
              Flat(LanguageLines, ReplaceBlock(languages, language, x)), most + 1)
  <1>1. PICK e \in Language : /\ e = [key |-> language, fields |-> <<>>, versions |-> <<>>]
                              /\ e.key = language /\ e.fields = <<>> /\ e.versions = <<>>
    <2> DEFINE made == [key |-> language, fields |-> <<>>, versions |-> <<>>]
    <2>1. /\ made \in Language /\ made.key = language /\ made.fields = <<>>
          /\ made.versions = <<>>
      BY DEF Language
    <2> HIDE DEF made
    <2>2. \E e \in Language : /\ e = made /\ e.key = language /\ e.fields = <<>>
                              /\ e.versions = <<>>
      BY <2>1, Zenon
    <2>3. QED
      BY <2>2 DEF made
  <1>2. PICK F : F = LanguageLines /\ Writes(F, Language, Seq(LineSet))
                 /\ \A b \in Language : F[b] = BlockText(b)
    BY LanguageLinesType
  <1>3. OneLine(F[e])
    <2>1. UnderHead(language, 0, <<>>) = <<>>
      BY NothingWritten
    <2>2. PICK head \in Seq(LineSet) : head = <<LineOf(language, 0, <<>>)>> /\ Len(head) = 1
      BY HeadType
    <2>3. head \o <<>> = head
      BY ConcatEmptySeq
    <2>4. Flat(VersionLines(language), <<>>) = <<>>
      BY FlattenNone DEF Flat, Images
    <2>5. BlockText(e) = head
      BY <1>1, <2>1, <2>2, <2>3, <2>4, Zenon DEF BlockText
    <2>6. QED
      BY <1>2, <2>2, <2>5 DEF OneLine
  <1>4. Block(languages, language) = Found(languages, e)
    BY <1>1 DEF Block, Found
  <1>5. Block(languages, language) \in Language
    BY BlockType
  <1>6. Hunk(F[Found(languages, e)], F[x], most)
    BY <1>2, <1>4, <1>5, Zenon
  <1>7. PutIsHunk(F, languages, e, x, most)
    <2>1. Writes(F, Language, Seq(LineSet))
      BY <1>2
    <2>2. QED
      BY <1>3, <1>6, <2>1, PutHunk, Zenon
  <1>8. ReplaceBlock(languages, language, x) = Put(languages, e, x)
    BY <1>1 DEF ReplaceBlock, Put, EnsureLanguage
  <1>9. QED
    BY <1>2, <1>7, <1>8, Zenon DEF PutIsHunk

(* A block with a field written: the head and what follows are as they     *)
(* were.                                                                   *)
LEMMA FieldOfBlockHunk ==
  ASSUME NEW b \in Language,
         NEW id \in FieldIds, NEW hint \in Names \cup {Absent},
         NEW type \in Types \cup {Absent}, NEW value \in Values
  PROVE  Hunk(BlockText(b),
              BlockText([b EXCEPT !.fields = SetInList(b.fields, id, hint, type, value)]), 1)
  <1>1. b.key \in Languages /\ b.fields \in Seq(Field) /\ b.versions \in Seq(Version)
    BY DEF Language
  <1>2. PICK old \in Seq(Field), new \in Seq(Field), l \in Languages :
          old = b.fields /\ new = SetInList(b.fields, id, hint, type, value) /\ l = b.key
    BY <1>1, WrittenField
  <1>3. PICK x : x = [b EXCEPT !.fields = new]
    OBVIOUS
  <1>4. x.key = l /\ x.fields = new /\ x.versions = b.versions
    BY <1>2, <1>3 DEF Language
  <1>5. PICK head \in Seq(LineSet), before \in Seq(LineSet), after \in Seq(LineSet) :
          /\ head = <<LineOf(l, 0, <<>>)>>
          /\ before = UnderHead(l, 0, old) /\ after = UnderHead(l, 0, new)
    BY HeadType, FieldLinesType
  <1>6. PICK rest \in Seq(LineSet) : rest = Flat(VersionLines(l), b.versions)
    BY <1>1, VersionLinesType
  <1>7. Hunk(before, after, 1)
    BY <1>2, <1>5, FieldsHunk
  <1>8. PICK p \in Seq(LineSet), q \in Seq(LineSet) : p = head \o before /\ q = head \o after
    BY ConcatProperties
  <1>9. Hunk(p, q, 1)
    BY <1>7, <1>8, HunkAfter
  <1>10. Hunk(p \o rest, q \o rest, 1)
    BY <1>9, HunkBefore
  <1>11. BlockText(b) = p \o rest /\ BlockText(x) = q \o rest
    BY <1>2, <1>4, <1>5, <1>6, <1>8, Zenon DEF BlockText
  <1>12. QED
    BY <1>2, <1>3, <1>10, <1>11, Zenon

LEMMA VersionOfBlockHunk ==
  ASSUME NEW b \in Language, NEW version \in Versions,
         NEW id \in FieldIds, NEW hint \in Names \cup {Absent},
         NEW type \in Types \cup {Absent}, NEW value \in Values
  PROVE  Hunk(BlockText(b),
              BlockText(WithVersion(b, version,
                SetInList(VersionBlock(b.versions, version).fields, id, hint, type, value))), 2)
  <1>1. b.key \in Languages /\ b.fields \in Seq(Field) /\ b.versions \in Seq(Version)
    BY DEF Language
  <1>2. PICK old \in Version, versions \in Seq(Version), l \in Languages :
          /\ old = VersionBlock(b.versions, version) /\ old.key = version
          /\ versions = b.versions /\ l = b.key
    BY <1>1, VersionBlockType
  <1>3. PICK y : y = [old EXCEPT !.fields = SetInList(old.fields, id, hint, type, value)]
    OBVIOUS
  <1>4. y \in Version /\ y.key = version
    <2>1. SetInList(old.fields, id, hint, type, value) \in Seq(Field)
      BY WrittenField DEF Version
    <2>2. QED
      BY <1>2, <1>3, <2>1 DEF Version
  <1>5. Hunk(VersionText(l, old), VersionText(l, y), 1)
    BY <1>3, VersionHunk
  <1>6. PICK new \in Seq(Version) : new = ReplaceVersion(versions, version, y)
    BY <1>2, <1>4, VersionReplaced
  <1>7. Hunk(Flat(VersionLines(l), versions), Flat(VersionLines(l), new), 2)
    BY <1>2, <1>4, <1>5, <1>6, VersionsHunk
  <1>8. PICK x : x = [b EXCEPT !.versions = new]
    OBVIOUS
  <1>9. x = WithVersion(b, version, SetInList(old.fields, id, hint, type, value))
    BY <1>2, <1>3, <1>6, <1>8, Zenon DEF WithVersion
  <1>10. x.key = l /\ x.fields = b.fields /\ x.versions = new
    BY <1>2, <1>8 DEF Language
  <1>11. PICK head \in Seq(LineSet), under \in Seq(LineSet) :
           head = <<LineOf(l, 0, <<>>)>> /\ under = UnderHead(l, 0, b.fields)
    BY <1>1, HeadType, FieldLinesType
  <1>12. PICK p \in Seq(LineSet), before \in Seq(LineSet), after \in Seq(LineSet) :
           /\ p = head \o under
           /\ before = Flat(VersionLines(l), versions) /\ after = Flat(VersionLines(l), new)
    BY <1>2, <1>6, ConcatProperties, VersionLinesType
  <1>13. Hunk(p \o before, p \o after, 2)
    BY <1>7, <1>12, HunkAfter
  <1>14. BlockText(b) = p \o before /\ BlockText(x) = p \o after
    BY <1>2, <1>10, <1>11, <1>12, Zenon DEF BlockText
  <1>15. QED
    BY <1>2, <1>9, <1>13, <1>14, Zenon

LEMMA HunkGrows ==
  ASSUME NEW x, NEW y, NEW most \in Nat, NEW more \in Nat, most <= more, Hunk(x, y, most)
  PROVE  Hunk(x, y, more)
  <1>1. PICK u, v \in Seq(LineSet) : SmallChange(u, v, most) /\ Swapped(LineSet, x, y, u, v)
    BY Zenon DEF Hunk
  <1>2. SmallChange(u, v, more)
    BY <1>1 DEF SmallChange
  <1>3. QED
    BY <1>1, <1>2, Zenon DEF Hunk

(* A field written to a document: a hunk of its list, of the block that    *)
(* has the list, of the blocks that have that one, and of the document.    *)
LEMMA BlocksHunkIsOfDocument ==
  ASSUME NEW d \in Document, NEW languages \in Seq(Language), NEW most \in 0..3,
         Hunk(Flat(LanguageLines, d.languages), Flat(LanguageLines, languages), most)
  PROVE  Hunk(Lines(d), Lines([d EXCEPT !.languages = languages]), 3)
  <1>1. PICK n : n = [d EXCEPT !.languages = languages]
    OBVIOUS
  <1>2. n \in Document /\ n.shared = d.shared /\ n.languages = languages
    BY <1>1 DEF Document
  <1>3. d.shared \in Seq(Field) /\ d.languages \in Seq(Language) /\ -1 \in Languages \cup {-1}
        /\ 0 \in Versions \cup {0}
    BY DEF Document
  <1>4. PICK top \in Seq(LineSet), before \in Seq(LineSet), after \in Seq(LineSet) :
          /\ top = UnderHead(-1, 0, d.shared)
          /\ before = Flat(LanguageLines, d.languages) /\ after = Flat(LanguageLines, languages)
    BY <1>3, FieldLinesType, LanguageLinesType
  <1>5. Hunk(top \o before, top \o after, most)
    BY <1>4, HunkAfter
  <1>6. Lines(d) = top \o before /\ Lines(n) = top \o after
    BY <1>2, <1>4, LinesAre
  <1>7. Hunk(Lines(d), Lines(n), most)
    BY <1>5, <1>6, Zenon
  <1>8. QED
    BY <1>1, <1>7, HunkGrows

LEMMA SetFieldHunk ==
  ASSUME NEW d \in Document, NEW slot \in Slots, NEW id \in FieldIds,
         NEW hint \in Names \cup {Absent}, NEW type \in Types \cup {Absent},
         NEW value \in Values
  PROVE  Hunk(Lines(d), Lines(SetField(d, slot, id, hint, type, value)), 3)
  <1> DEFINE new == SetInList(FieldsIn(d, slot), id, hint, type, value)
             set == SetField(d, slot, id, hint, type, value)
  <1>1. /\ slot = SharedSlot => set = [d EXCEPT !.shared = new]
        /\ \A l \in Languages : slot = Unversioned(l) =>
             set = [d EXCEPT !.languages = ReplaceBlock(d.languages, l,
                      [Block(d.languages, l) EXCEPT !.fields = new])]
        /\ \A l \in Languages, v \in Versions : slot = Versioned(l, v) =>
             set = [d EXCEPT !.languages = ReplaceBlock(d.languages, l,
                      WithVersion(Block(d.languages, l), v, new))]
    BY SetFieldReplaces
  <1>2. new \in Seq(Field) /\ set \in Document
    BY FieldsType, WrittenField, SetFieldWritesItsSlot DEF WritesItsSlot
  <1>3. d.shared \in Seq(Field) /\ d.languages \in Seq(Language) /\ set.languages \in Seq(Language)
    BY <1>2 DEF Document
  <1>4. PICK written : written = set
    OBVIOUS
  <1>5. ASSUME slot = SharedSlot PROVE Hunk(Lines(d), Lines(written), 3)
    <2>1. FieldsIn(d, slot) = d.shared
      BY <1>5, SharedFields
    <2>2. PICK fields \in Seq(Field), out \in Seq(Field) :
            fields = d.shared /\ out = SetInList(fields, id, hint, type, value) /\ out = new
      BY <1>2, <1>3, <2>1
    <2>3. written = [d EXCEPT !.shared = out]
      BY <1>1, <1>4, <1>5, <2>2, Zenon
    <2>4. written \in Document /\ written.shared = out /\ written.languages = d.languages
      BY <1>2, <1>4, <2>3 DEF Document
    <2>5. -1 \in Languages \cup {-1} /\ 0 \in Versions \cup {0}
      OBVIOUS
    <2>6. Hunk(UnderHead(-1, 0, fields), UnderHead(-1, 0, out), 1)
      BY <2>2, <2>5, FieldsHunk
    <2>7. PICK before \in Seq(LineSet), after \in Seq(LineSet), rest \in Seq(LineSet) :
            /\ before = UnderHead(-1, 0, fields) /\ after = UnderHead(-1, 0, out)
            /\ rest = Flat(LanguageLines, d.languages)
      BY <1>3, <2>5, FieldLinesType, LanguageLinesType
    <2>8. Hunk(before \o rest, after \o rest, 1)
      BY <2>6, <2>7, HunkBefore
    <2>9. Lines(d) = before \o rest /\ Lines(written) = after \o rest
      BY <2>2, <2>4, <2>7, LinesAre
    <2>10. Hunk(Lines(d), Lines(written), 1)
      BY <2>8, <2>9, Zenon
    <2>11. QED
      BY <2>10, HunkGrows
  <1>6. ASSUME NEW l \in Languages, slot = Unversioned(l)
        PROVE  Hunk(Lines(d), Lines(written), 3)
    <2>1. PICK b \in Language : b = Block(d.languages, l) /\ b.key = l
      BY <1>3, BlockType
    <2>2. FieldsIn(d, slot) = b.fields
      BY <1>6, <2>1, UnversionedFields
    <2>3. PICK x : x = [b EXCEPT !.fields = SetInList(b.fields, id, hint, type, value)]
      OBVIOUS
    <2>4. x = [b EXCEPT !.fields = new] /\ x \in Language
      BY <1>2, <2>2, <2>3 DEF Language
    <2>5. Hunk(BlockText(b), BlockText(x), 1)
      BY <2>3, FieldOfBlockHunk
    <2>6. PICK languages : languages = ReplaceBlock(d.languages, l, x)
      OBVIOUS
    <2>7. Hunk(Flat(LanguageLines, d.languages), Flat(LanguageLines, languages), 2)
      <3>1. 1 \in Nat /\ 1 + 1 = 2
        OBVIOUS
      <3>2. Hunk(Flat(LanguageLines, d.languages), Flat(LanguageLines, languages), 1 + 1)
        BY <1>3, <2>1, <2>4, <2>5, <2>6, <3>1, BlocksHunk, Zenon
      <3>3. QED
        BY <3>1, <3>2
    <2>8. written = [d EXCEPT !.languages = languages]
      BY <1>1, <1>4, <1>6, <2>1, <2>4, <2>6, Zenon
    <2>9. languages \in Seq(Language)
      BY <1>3, <1>4, <2>8 DEF Document
    <2>10. QED
      BY <2>7, <2>8, <2>9, BlocksHunkIsOfDocument
  <1>7. ASSUME NEW l \in Languages, NEW v \in Versions, slot = Versioned(l, v)
        PROVE  Hunk(Lines(d), Lines(written), 3)
    <2>1. PICK b \in Language : b = Block(d.languages, l) /\ b.key = l
      BY <1>3, BlockType
    <2>2. FieldsIn(d, slot) = VersionBlock(b.versions, v).fields
      BY <1>7, <2>1, VersionedFields
    <2>3. PICK x : x = WithVersion(b, v,
                         SetInList(VersionBlock(b.versions, v).fields, id, hint, type, value))
      OBVIOUS
    <2>4. x = WithVersion(b, v, new)
      BY <2>2, <2>3, Zenon
    <2>5. x \in Language
      <3>1. PICK y \in Version : y = [VersionBlock(b.versions, v) EXCEPT !.fields = new]
                                 /\ y.key = v
        <4>1. PICK o \in Version : o = VersionBlock(b.versions, v) /\ o.key = v
          BY VersionBlockType DEF Language
        <4>2. [o EXCEPT !.fields = new] \in Version /\ [o EXCEPT !.fields = new].key = v
          BY <1>2, <4>1 DEF Version
        <4>3. QED
          BY <4>1, <4>2, Zenon
      <3>2. ReplaceVersion(b.versions, v, y) \in Seq(Version)
        BY <3>1, VersionReplaced DEF Language
      <3>3. x = [b EXCEPT !.versions = ReplaceVersion(b.versions, v, y)]
        BY <2>4, <3>1, Zenon DEF WithVersion
      <3>4. QED
        BY <3>2, <3>3 DEF Language
    <2>6. Hunk(BlockText(b), BlockText(x), 2)
      BY <2>3, VersionOfBlockHunk
    <2>7. PICK languages : languages = ReplaceBlock(d.languages, l, x)
      OBVIOUS
    <2>8. Hunk(Flat(LanguageLines, d.languages), Flat(LanguageLines, languages), 3)
      <3>1. 2 \in Nat /\ 2 + 1 = 3
        OBVIOUS
      <3>2. Hunk(Flat(LanguageLines, d.languages), Flat(LanguageLines, languages), 2 + 1)
        BY <1>3, <2>1, <2>5, <2>6, <2>7, <3>1, BlocksHunk, Zenon
      <3>3. QED
        BY <3>1, <3>2
    <2>9. written = [d EXCEPT !.languages = languages]
      BY <1>1, <1>4, <1>7, <2>1, <2>4, <2>7, Zenon
    <2>10. languages \in Seq(Language)
      BY <1>3, <1>4, <2>9 DEF Document
    <2>11. QED
      BY <2>8, <2>9, <2>10, BlocksHunkIsOfDocument
  <1>8. Hunk(Lines(d), Lines(written), 3)
    BY <1>5, <1>6, <1>7, KindsOfSlots
  <1>9. QED
    BY <1>4, <1>8, Zenon

-----------------------------------------------------------------------------
(* What the diff of a document shows.                                      *)
AddedAt(old, new, i, added) ==
  /\ SubSeq(new, 1, i) = SubSeq(old, 1, i)
  /\ SubSeq(new, i + added + 1, Len(new)) = SubSeq(old, i + 1, Len(old))

ChangedAt(old, new, i) ==
  /\ \A k \in DOMAIN old : k # i => new[k] = old[k]
  /\ new # old =>
       /\ i > 0 /\ new[i].fields # <<>> /\ old[i].fields # <<>>
       /\ new[i] = [old[i] EXCEPT !.fields[1].value = new[i].fields[1].value,
                                  !.fields[1].type = new[i].fields[1].type]

IsOneHunk(old, new) ==
  /\ Len(new) - Len(old) \in 0..3
  /\ \E i \in 0..Len(old) :
       \/ Len(new) - Len(old) > 0 /\ AddedAt(old, new, i, Len(new) - Len(old))
       \/ Len(new) - Len(old) = 0 /\ ChangedAt(old, new, i)

LEMMA PieceOf ==
  ASSUME NEW S, NEW s \in Seq(S), NEW p \in Seq(S), NEW from \in Nat,
         Len(s) >= from + Len(p), \A j \in 1..Len(p) : s[from + j] = p[j]
  PROVE  SubSeq(s, from + 1, from + Len(p)) = p
  <1>1. Len(s) \in Nat /\ Len(p) \in Nat /\ \A j \in 1..Len(s) : s[j] \in S
    OBVIOUS
  <1>2. PICK m \in Int, n \in Int : m = from + 1 /\ n = from + Len(p)
    BY <1>1
  <1>3. n - m + 1 = Len(p) /\ (IF m <= n THEN n - m + 1 ELSE 0) = Len(p)
    BY <1>1, <1>2
  <1>4. \A i \in m..n : s[i] \in S
    BY <1>1, <1>2
  <1>5. PICK cut : cut = SubSeq(s, m, n)
    OBVIOUS
  <1>6. cut \in Seq(S) /\ Len(cut) = Len(p) /\ \A i \in 1..Len(p) : cut[i] = s[m + i - 1]
    BY <1>3, <1>4, <1>5, SubSeqProperties
  <1>7. ASSUME NEW i \in 1..Len(cut) PROVE cut[i] = p[i]
    <2>1. m + i - 1 = from + i /\ i \in 1..Len(p)
      BY <1>1, <1>2, <1>6
    <2>2. QED
      BY <1>6, <2>1
  <1>8. cut = p
    BY <1>6, <1>7, SeqEqual
  <1>9. QED
    BY <1>2, <1>5, <1>8

(* Some entries put in one place.                                          *)
LEMMA InsertionIsOneHunk ==
  ASSUME NEW S, NEW a \in Seq(S), NEW y \in Seq(S), NEW b \in Seq(S), Len(y) \in 1..3,
         NEW old \in Seq(S), NEW new \in Seq(S), InRow(old, a, <<>>, b), InRow(new, a, y, b)
  PROVE  IsOneHunk(old, new)
  <1>1. Len(a) \in Nat /\ Len(b) \in Nat /\ Len(y) \in Nat /\ Len(<<>>) = 0
    OBVIOUS
  <1>2. /\ Len(old) = Len(a) + Len(b) /\ Len(new) = Len(a) + Len(y) + Len(b)
        /\ \A j \in 1..Len(a) : old[0 + j] = a[j] /\ new[0 + j] = a[j]
        /\ \A j \in 1..Len(b) : old[Len(a) + j] = b[j]
        /\ \A j \in 1..Len(b) : new[(Len(a) + Len(y)) + j] = b[j]
    <2>1. Len(old) = Len(a) + Len(b) /\ Len(new) = Len(a) + Len(y) + Len(b)
      BY <1>1 DEF InRow
    <2>2. ASSUME NEW j \in 1..Len(a) PROVE old[0 + j] = a[j] /\ new[0 + j] = a[j]
      <3>1. 0 + j = j
        OBVIOUS
      <3>2. QED
        BY <3>1 DEF InRow
    <2>3. ASSUME NEW j \in 1..Len(b) PROVE old[Len(a) + j] = b[j]
      <3>1. Len(a) + Len(<<>>) + j = Len(a) + j
        BY <1>1
      <3>2. old[Len(a) + Len(<<>>) + j] = b[j]
        BY DEF InRow
      <3>3. QED
        BY <3>1, <3>2, Zenon
    <2>4. ASSUME NEW j \in 1..Len(b) PROVE new[(Len(a) + Len(y)) + j] = b[j]
      BY DEF InRow
    <2>5. QED
      BY <2>1, <2>2, <2>3, <2>4
  <1>3. SubSeq(old, 0 + 1, 0 + Len(a)) = a /\ SubSeq(new, 0 + 1, 0 + Len(a)) = a
    <2>1. Len(old) >= 0 + Len(a) /\ Len(new) >= 0 + Len(a) /\ 0 \in Nat
      BY <1>1, <1>2
    <2>2. QED
      BY <1>2, <2>1, PieceOf
  <1>4. SubSeq(old, Len(a) + 1, Len(a) + Len(b)) = b
    <2>1. Len(old) >= Len(a) + Len(b)
      BY <1>1, <1>2
    <2>2. QED
      BY <1>1, <1>2, <2>1, PieceOf
  <1>5. SubSeq(new, (Len(a) + Len(y)) + 1, (Len(a) + Len(y)) + Len(b)) = b
    <2>1. PICK from \in Nat : from = Len(a) + Len(y)
      BY <1>1
    <2>2. Len(new) >= from + Len(b) /\ \A j \in 1..Len(b) : new[from + j] = b[j]
      BY <1>1, <1>2, <2>1
    <2>3. SubSeq(new, from + 1, from + Len(b)) = b
      BY <2>2, PieceOf
    <2>4. QED
      BY <2>1, <2>3
  <1>6. Len(new) - Len(old) = Len(y) /\ Len(y) > 0 /\ Len(y) \in 0..3 /\ Len(a) \in 0..Len(old)
    <2>1. PICK k \in Nat, m \in 1..3, n \in Nat : k = Len(a) /\ m = Len(y) /\ n = Len(b)
      BY <1>1
    <2>2. Len(old) = k + n /\ Len(new) = k + m + n
      BY <1>2, <2>1
    <2>3. /\ (k + m + n) - (k + n) = m /\ m > 0 /\ m \in 0..3 /\ k \in 0..(k + n)
      OBVIOUS
    <2>4. QED
      BY <2>1, <2>2, <2>3, Zenon
  <1>7. 0 + 1 = 1 /\ 0 + Len(a) = Len(a)
    BY <1>1
  <1>8. AddedAt(old, new, Len(a), Len(y))
    BY <1>2, <1>3, <1>4, <1>5, <1>7 DEF AddedAt
  <1>9. QED
    BY <1>6, <1>8 DEF IsOneHunk

(* One field another value.                                                *)
LineRevalued(p, q) ==
  /\ p.fields # <<>> /\ q.fields # <<>>
  /\ q = [p EXCEPT !.fields[1].value = q.fields[1].value,
                   !.fields[1].type = q.fields[1].type]

LEMMA RevaluedLine ==
  ASSUME NEW l, NEW v, NEW f \in Field, NEW g \in Field, Revalued(f, g),
         NEW p, NEW q, p = LineOf(l, v, <<f>>), q = LineOf(l, v, <<g>>)
  PROVE  LineRevalued(p, q)
  <1>1. p.fields = <<f>> /\ q.fields = <<g>> /\ p.fields[1] = f /\ q.fields[1] = g
    BY DEF LineOf
  <1>2. p.fields # <<>> /\ q.fields # <<>>
    BY <1>1
  <1>3. [f EXCEPT !.value = g.value, !.type = g.type] = g
    BY DEF Revalued
  <1>4. PICK h : h = [f EXCEPT !.value = g.value]
    OBVIOUS
  <1>5. g = [h EXCEPT !.type = g.type]
    BY <1>3, <1>4
  <1>6. ASSUME NEW e, NEW k PROVE [LineOf(l, v, <<e>>) EXCEPT !.fields[1] = k] = LineOf(l, v, <<k>>)
    <2>1. [<<e>> EXCEPT ![1] = k] = <<k>>
      OBVIOUS
    <2>2. QED
      BY <2>1 DEF LineOf
  <1>7. PICK m : m = LineOf(l, v, <<h>>)
    OBVIOUS
  <1>8. m.fields = <<h>> /\ m.fields[1] = h
    BY <1>7 DEF LineOf
  <1>9. [p EXCEPT !.fields[1].value = g.value] = m
    BY <1>1, <1>4, <1>6, <1>7
  <1>10. [m EXCEPT !.fields[1].type = g.type] = q
    BY <1>5, <1>6, <1>7, <1>8
  <1>11. [p EXCEPT !.fields[1].value = g.value, !.fields[1].type = g.type] = q
    BY <1>9, <1>10
  <1>12. QED
    BY <1>1, <1>2, <1>11, Zenon DEF LineRevalued

LEMMA ChangeIsOneHunk ==
  ASSUME NEW a \in Seq(LineSet), NEW x \in Seq(LineSet), NEW y \in Seq(LineSet),
         NEW b \in Seq(LineSet), ChangedLine(x, y), NEW old \in Seq(LineSet),
         NEW new \in Seq(LineSet), InRow(old, a, x, b), InRow(new, a, y, b)
  PROVE  IsOneHunk(old, new)
  <1>1. PICK l \in Languages \cup {-1}, v \in Versions \cup {0}, f \in Field, g \in Field :
          x = <<LineOf(l, v, <<f>>)>> /\ y = <<LineOf(l, v, <<g>>)>> /\ Revalued(f, g)
    BY Zenon DEF ChangedLine
  <1>2. PICK p, q : p = LineOf(l, v, <<f>>) /\ q = LineOf(l, v, <<g>>)
    OBVIOUS
  <1>3. Len(x) = 1 /\ Len(y) = 1 /\ x[1] = p /\ y[1] = q
    BY <1>1, <1>2
  <1>4. Len(a) \in Nat /\ Len(b) \in Nat
    OBVIOUS
  <1>5. PICK i \in Nat : i = Len(a) + 1
    BY <1>4
  <1>6. /\ Len(old) = Len(a) + 1 + Len(b) /\ Len(new) = Len(a) + 1 + Len(b)
        /\ old[i] = p /\ new[i] = q
        /\ \A j \in 1..Len(a) : old[j] = a[j] /\ new[j] = a[j]
        /\ \A j \in 1..Len(b) : old[i + j] = b[j] /\ new[i + j] = b[j]
    <2>1. 1 \in 1..Len(x) /\ 1 \in 1..Len(y)
      BY <1>3
    <2>2. old[Len(a) + 1] = x[1] /\ new[Len(a) + 1] = y[1]
      BY <2>1 DEF InRow
    <2>3. ASSUME NEW j \in 1..Len(b) PROVE old[i + j] = b[j] /\ new[i + j] = b[j]
      BY <1>3, <1>5 DEF InRow
    <2>4. ASSUME NEW j \in 1..Len(a) PROVE old[j] = a[j] /\ new[j] = a[j]
      BY DEF InRow
    <2>5. Len(old) = Len(a) + 1 + Len(b) /\ Len(new) = Len(a) + 1 + Len(b)
      BY <1>3 DEF InRow
    <2>6. QED
      BY <1>3, <1>5, <2>2, <2>3, <2>4, <2>5
  <1>7. ASSUME NEW k \in DOMAIN old, k # i PROVE new[k] = old[k]
    <2>1. k \in 1..Len(old)
      OBVIOUS
    <2>2. CASE k \in 1..Len(a)
      BY <1>6, <2>2
    <2>3. CASE k \notin 1..Len(a)
      <3>1. k - i \in 1..Len(b) /\ i + (k - i) = k
        BY <1>4, <1>5, <1>6, <1>7, <2>1, <2>3
      <3>2. QED
        BY <1>6, <3>1
    <2>4. QED
      BY <2>2, <2>3
  <1>8. LineRevalued(p, q)
    BY <1>1, <1>2, RevaluedLine
  <1>9. i > 0 /\ i \in 0..Len(old) /\ Len(new) - Len(old) = 0 /\ 0 \in 0..3
    BY <1>4, <1>5, <1>6
  <1>10. ChangedAt(old, new, i)
    BY <1>6, <1>7, <1>8, <1>9 DEF ChangedAt, LineRevalued
  <1>11. QED
    BY <1>9, <1>10 DEF IsOneHunk

LEMMA HunkIsOne ==
  ASSUME NEW old, NEW new, Hunk(old, new, 3)
  PROVE  IsOneHunk(old, new)
  <1>1. PICK x \in Seq(LineSet), y \in Seq(LineSet) :
          SmallChange(x, y, 3) /\ Swapped(LineSet, old, new, x, y)
    BY Zenon DEF Hunk
  <1>2. PICK a \in Seq(LineSet), b \in Seq(LineSet) :
          old = (a \o x) \o b /\ new = (a \o y) \o b
    BY <1>1, Zenon DEF Swapped
  <1>3. /\ old \in Seq(LineSet) /\ new \in Seq(LineSet)
        /\ InRow(old, a, x, b) /\ InRow(new, a, y, b)
    BY <1>2, JoinedInRow
  <1>4. CASE ChangedLine(x, y)
    BY <1>3, <1>4, ChangeIsOneHunk
  <1>5. CASE x = <<>> /\ Len(y) \in 1..3
    <2>1. InRow(old, a, <<>>, b)
      BY <1>3, <1>5
    <2>2. QED
      BY <1>3, <1>5, <2>1, InsertionIsOneHunk
  <1>6. QED
    BY <1>1, <1>4, <1>5 DEF SmallChange

LEMMA SameIsOneHunk ==
  ASSUME NEW d \in Document
  PROVE  IsOneHunk(Lines(d), Lines(d))
  <1>1. d.shared \in Seq(Field) /\ d.languages \in Seq(Language)
    BY DEF Document
  <1>2. -1 \in Languages \cup {-1} /\ 0 \in Versions \cup {0}
    OBVIOUS
  <1>3. PICK top \in Seq(LineSet), rest \in Seq(LineSet) :
          top = UnderHead(-1, 0, d.shared) /\ rest = Flat(LanguageLines, d.languages)
    BY <1>1, <1>2, FieldLinesType, LanguageLinesType
  <1>4. PICK lines \in Seq(LineSet) : lines = Lines(d)
    BY <1>3, LinesAre, ConcatProperties
  <1>5. Len(lines) \in Nat /\ Len(lines) - Len(lines) = 0
    OBVIOUS
  <1>6. ChangedAt(lines, lines, 0)
    BY DEF ChangedAt
  <1>7. QED
    BY <1>4, <1>5, <1>6 DEF IsOneHunk

LEMMA WriteIsHunk ==
  ASSUME NEW r \in Request, TypeOK, Write(r)
  PROVE  IsOneHunk(Lines(doc), Lines(doc'))
  <1> DEFINE t == Target(r)
  <1>1. /\ Resolves(r) /\ SlotFits(r) /\ Accepted(t.type, r.value)
        /\ doc' = SetField(doc, SlotFor(r), t.id, t.name, Stamp(t.type), Prepared(t.type, r.value))
    BY DEF Write
  <1>2. t \in Definition /\ SlotFor(r) \in Slots /\ doc \in Document
    BY <1>1, TargetType, SlotType DEF TypeOK
  <1> HIDE DEF t
  <1>3. /\ t.id \in FieldIds /\ t.name \in Names \cup {Absent} /\ t.type \in Types
        /\ Stamp(t.type) \in Types \cup {Absent}
    BY <1>2 DEF Definition, Stamp
  <1>4. r.value \in Values
    BY DEF Request
  <1>5. Prepared(t.type, r.value) \in Values
    BY <1>1, <1>3, <1>4, PreparedType
  <1>6. Hunk(Lines(doc), Lines(doc'), 3)
    BY <1>1, <1>2, <1>3, <1>5, SetFieldHunk
  <1>7. QED
    BY <1>6, HunkIsOne

(* A write is one hunk of a diff, whatever the document has and in         *)
(* whatever order: one field another value and nothing else, or the field  *)
(* and the heads it needs (at most its language and its version) new in    *)
(* one place.                                                              *)
THEOREM WriteIsOneHunk == Spec => OneHunk
  <1>1. TypeOK /\ [Next]_vars =>
          [LET old == Lines(doc)  new == Lines(doc')
               added == Len(new) - Len(old)
           IN  /\ added \in 0..3
               /\ \E i \in 0..Len(old) :
                    \/ /\ added > 0
                       /\ SubSeq(new, 1, i) = SubSeq(old, 1, i)
                       /\ SubSeq(new, i + added + 1, Len(new)) = SubSeq(old, i + 1, Len(old))
                    \/ /\ added = 0
                       /\ \A k \in DOMAIN old : k # i => new[k] = old[k]
                       /\ new # old =>
                            /\ i > 0 /\ new[i].fields # <<>> /\ old[i].fields # <<>>
                            /\ new[i] = [old[i] EXCEPT !.fields[1].value = new[i].fields[1].value,
                                                       !.fields[1].type = new[i].fields[1].type]
          ]_vars
    <2>1. SUFFICES ASSUME TypeOK, [Next]_vars PROVE IsOneHunk(Lines(doc), Lines(doc'))
      BY DEF IsOneHunk, AddedAt, ChangedAt
    <2>2. CASE doc' = doc
      BY <2>1, <2>2, SameIsOneHunk DEF TypeOK
    <2>3. ASSUME NEW r \in Requests, Write(r) PROVE IsOneHunk(Lines(doc), Lines(doc'))
      BY <2>1, <2>3, WriteIsHunk, RequestsAssumption
    <2>4. QED
      BY <2>1, <2>2, <2>3, RefusalsChangeNothing
  <1>2. QED
    BY <1>1, TypeCorrect, PTL DEF Spec, OneHunk

-----------------------------------------------------------------------------
(* The fields of a document by slot and place, when no block is there      *)
(* twice.                                                                  *)
RankAt(d, slot) == (CHOOSE b \in Blocks(d) : b.slot = slot).rank

Entry(d, slot, i) ==
  [slot |-> slot, rank |-> Append(RankAt(d, slot), i), field |-> FieldsIn(d, slot)[i]]

LEMMA RankIsSequence ==
  ASSUME NEW r \in Rank, NEW i \in Nat, NEW j \in Nat, Append(r, i) = Append(r, j)
  PROVE  i = j
  <1>1. PICK n1 \in Nat, n2 \in Nat, n3 \in Nat, n4 \in Nat : r = <<n1, n2, n3, n4>>
    BY DEF Rank
  <1>2. PICK s \in Seq(Nat) : s = <<n1, n2, n3, n4>>
    <2> DEFINE s == <<n1, n2, n3, n4>>
    <2>1. s \in Seq(Nat)
      OBVIOUS
    <2> HIDE DEF s
    <2>2. \E t \in Seq(Nat) : t = s
      BY <2>1
    <2>3. QED
      BY <2>2 DEF s
  <1>3. Append(s, i) = Append(s, j)
    BY <1>1, <1>2
  <1>4. Append(s, i)[Len(s) + 1] = i /\ Append(s, j)[Len(s) + 1] = j
    OBVIOUS
  <1>5. QED
    BY <1>3, <1>4, Zenon

LEMMA BlockOfList ==
  ASSUME NEW d \in Document, BlocksOnce(d), NEW b \in Blocks(d)
  PROVE  RankAt(d, b.slot) = b.rank /\ b.rank \in Rank
  <1>1. NoBlockTwice(d)
    BY OneBlockASlot
  <1>2. PICK c : c = CHOOSE e \in Blocks(d) : e.slot = b.slot
    OBVIOUS
  <1>3. c \in Blocks(d) /\ c.slot = b.slot
    BY <1>2
  <1>4. c = b
    BY <1>1, <1>3 DEF NoBlockTwice
  <1>5. QED
    BY <1>2, <1>4, BlockRanks DEF RankAt

LEMMA EntriesAre ==
  ASSUME NEW d \in Document, BlocksOnce(d)
  PROVE  /\ \A f \in AllFields(d) :
              \E s \in Slots : \E i \in DOMAIN FieldsIn(d, s) : f = Entry(d, s, i)
         /\ \A s \in Slots : \A i \in DOMAIN FieldsIn(d, s) : Entry(d, s, i) \in AllFields(d)
         /\ \A s \in Slots : \A i, j \in DOMAIN FieldsIn(d, s) :
              Entry(d, s, i) = Entry(d, s, j) => i = j
  <1> DEFINE Of(b) == {[slot |-> b.slot, rank |-> Append(b.rank, i), field |-> b.fields[i]] :
                         i \in DOMAIN b.fields}
  <1>1. \A f : f \in AllFields(d) <=> \E b \in Blocks(d) : f \in Of(b)
    BY DEF AllFields
  <1>2. ASSUME NEW f \in AllFields(d)
        PROVE  \E s \in Slots : \E i \in DOMAIN FieldsIn(d, s) : f = Entry(d, s, i)
    <2>1. PICK b \in Blocks(d) : f \in Of(b)
      BY <1>1
    <2>2. PICK i \in DOMAIN b.fields :
            f = [slot |-> b.slot, rank |-> Append(b.rank, i), field |-> b.fields[i]]
      BY <2>1
    <2>3. b.slot \in Slots /\ b.fields = FieldsIn(d, b.slot) /\ RankAt(d, b.slot) = b.rank
      BY BlockOfSlot, BlockOfList
    <2>4. f = Entry(d, b.slot, i) /\ i \in DOMAIN FieldsIn(d, b.slot)
      BY <2>2, <2>3, Zenon DEF Entry
    <2>5. QED
      BY <2>3, <2>4
  <1>3. ASSUME NEW s \in Slots, NEW i \in DOMAIN FieldsIn(d, s)
        PROVE  \E b \in Blocks(d) : b.slot = s /\ b.fields = FieldsIn(d, s)
    <2>1. FieldsIn(d, s) \in Seq(Field) /\ i \in 1..Len(FieldsIn(d, s))
      BY FieldsType
    <2>2. At(FieldsIn(d, s), FieldsIn(d, s)[i].key) # 0
      BY <2>1, FirstPlace
    <2>3. QED
      BY <2>2, ReadFromFirst
  <1>4. ASSUME NEW s \in Slots, NEW i \in DOMAIN FieldsIn(d, s)
        PROVE  Entry(d, s, i) \in AllFields(d)
    <2>1. PICK b \in Blocks(d) : b.slot = s /\ b.fields = FieldsIn(d, s)
      BY <1>3
    <2>2. RankAt(d, s) = b.rank
      BY <2>1, BlockOfList
    <2>3. Entry(d, s, i) = [slot |-> b.slot, rank |-> Append(b.rank, i), field |-> b.fields[i]]
      BY <2>1, <2>2, Zenon DEF Entry
    <2>4. Entry(d, s, i) \in Of(b)
      BY <2>1, <2>3
    <2>5. QED
      BY <1>1, <2>4
  <1>5. ASSUME NEW s \in Slots, NEW i \in DOMAIN FieldsIn(d, s), NEW j \in DOMAIN FieldsIn(d, s),
               Entry(d, s, i) = Entry(d, s, j)
        PROVE  i = j
    <2>1. PICK b \in Blocks(d) : b.slot = s
      BY <1>3
    <2>2. RankAt(d, s) \in Rank
      BY <2>1, BlockOfList
    <2>3. Append(RankAt(d, s), i) = Append(RankAt(d, s), j)
      BY <1>5 DEF Entry
    <2>4. i \in Nat /\ j \in Nat
      <3>1. FieldsIn(d, s) \in Seq(Field)
        BY FieldsType
      <3>2. QED
        BY <3>1
    <2>5. QED
      BY <2>2, <2>3, <2>4, RankIsSequence
  <1>6. QED
    BY <1>2, <1>4, <1>5

(* What the gates say of one field of a list.                              *)
Doubled(list, i) == \E j \in DOMAIN list : j # i /\ list[j].key = list[i].key

Conforms(list, slot, i) ==
  LET id == list[i].key
  IN  IF IsWellKnown(id) THEN {}
      ELSE IF ~ Defines(id) THEN {Finding("unknown-field", slot, id)}
      ELSE (IF Doubled(list, i) THEN {Finding("duplicate-field", slot, id)} ELSE {})
             \cup (IF FieldById(id).section # slot.kind
                     THEN {Finding("wrong-section", slot, id)} ELSE {})
             \cup (IF ~ Valid(FieldById(id).type, list[i].value)
                     THEN {Finding("invalid-value", slot, id)} ELSE {})

PointsBadly(list, slot, i) ==
  {Finding(code, slot, list[i].key) : code \in Pointers(EffectiveType(list[i]), list[i].value)}

Noted(list, slot, i, x) ==
  \/ Selected("G5", AllGates) /\ x \in PointsBadly(list, slot, i)
  \/ Selected("G6", AllGates) /\ schema # <<>> /\ x \in Conforms(list, slot, i)

LEMMA EntryConforms ==
  ASSUME NEW d \in Document, BlocksOnce(d), NEW s \in Slots, NEW i \in DOMAIN FieldsIn(d, s)
  PROVE  FindingsOn(AllFields(d), Entry(d, s, i)) = Conforms(FieldsIn(d, s), s, i)
  <1>1. Repeated(AllFields(d), Entry(d, s, i)) <=> Doubled(FieldsIn(d, s), i)
    <2>1. ASSUME NEW g \in AllFields(d), g # Entry(d, s, i), g.slot = s,
                 g.field.key = FieldsIn(d, s)[i].key
          PROVE  Doubled(FieldsIn(d, s), i)
      <3>1. PICK t \in Slots : \E j \in DOMAIN FieldsIn(d, t) : g = Entry(d, t, j)
        BY EntriesAre
      <3>2. PICK j \in DOMAIN FieldsIn(d, t) : g = Entry(d, t, j)
        BY <3>1
      <3>3. t = s /\ g.field = FieldsIn(d, t)[j]
        BY <2>1, <3>2 DEF Entry
      <3>4. j # i
        BY <2>1, <3>2, <3>3
      <3>5. QED
        BY <2>1, <3>3, <3>4 DEF Doubled
    <2>2. ASSUME NEW j \in DOMAIN FieldsIn(d, s), j # i,
                 FieldsIn(d, s)[j].key = FieldsIn(d, s)[i].key
          PROVE  Repeated(AllFields(d), Entry(d, s, i))
      <3>1. Entry(d, s, j) \in AllFields(d) /\ Entry(d, s, j) # Entry(d, s, i)
        BY <2>2, EntriesAre
      <3>2. /\ Entry(d, s, j).slot = Entry(d, s, i).slot
            /\ Entry(d, s, j).field.key = Entry(d, s, i).field.key
        BY <2>2 DEF Entry
      <3>3. QED
        BY <3>1, <3>2 DEF Repeated
    <2>3. Entry(d, s, i).slot = s /\ Entry(d, s, i).field = FieldsIn(d, s)[i]
      BY DEF Entry
    <2>4. QED
      BY <2>1, <2>2, <2>3 DEF Repeated, Doubled
  <1>2. Entry(d, s, i).slot = s /\ Entry(d, s, i).field = FieldsIn(d, s)[i]
    BY DEF Entry
  <1>3. QED
    BY <1>1, <1>2, Zenon DEF FindingsOn, Conforms

LEMMA ReportIs ==
  ASSUME NEW d \in Document, BlocksOnce(d), NEW x
  PROVE  x \in Report(d, AllGates) <=>
           \/ \E s \in Slots : \E i \in DOMAIN FieldsIn(d, s) : Noted(FieldsIn(d, s), s, i, x)
           \/ Selected("G7", AllGates) /\ x \in MissingLanguages(d)
  <1> DEFINE Bad(f) == {Finding(code, f.slot, f.field.key) :
                          code \in Pointers(EffectiveType(f.field), f.field.value)}
  <1>1. ASSUME NEW s \in Slots, NEW i \in DOMAIN FieldsIn(d, s)
        PROVE  Bad(Entry(d, s, i)) = PointsBadly(FieldsIn(d, s), s, i)
    <2>1. Entry(d, s, i).slot = s /\ Entry(d, s, i).field = FieldsIn(d, s)[i]
      BY DEF Entry
    <2>2. QED
      BY <2>1, Zenon DEF PointsBadly
  <1>2. x \in BrokenPointers(d) <=> \E f \in AllFields(d) : x \in Bad(f)
    BY DEF BrokenPointers
  <1>3. x \in BrokenPointers(d) <=>
          \E s \in Slots : \E i \in DOMAIN FieldsIn(d, s) : x \in PointsBadly(FieldsIn(d, s), s, i)
    <2> HIDE DEF Bad
    <2>1. QED
      BY <1>1, <1>2, EntriesAre
  <1>4. x \in Findings(d) <=>
          /\ schema # <<>>
          /\ \E f \in AllFields(d) : x \in FindingsOn(AllFields(d), f)
    BY DEF Findings
  <1>5. x \in Findings(d) <=>
          /\ schema # <<>>
          /\ \E s \in Slots : \E i \in DOMAIN FieldsIn(d, s) : x \in Conforms(FieldsIn(d, s), s, i)
    BY <1>4, EntriesAre, EntryConforms
  <1>6. x \in Report(d, AllGates) <=>
          \/ Selected("G5", AllGates) /\ x \in BrokenPointers(d)
          \/ Selected("G6", AllGates) /\ x \in Findings(d)
          \/ Selected("G7", AllGates) /\ x \in MissingLanguages(d)
    BY DEF Report
  <1>7. QED
    BY <1>3, <1>5, <1>6, Zenon DEF Noted

(* A list with a value written: but for the entry of the field, each entry *)
(* is one there was, and two are two there were.                           *)
Carried(old, new, at, back) ==
  /\ \A i \in DOMAIN new \ {at} : back[i] \in DOMAIN old /\ new[i] = old[back[i]]
  /\ \A i, j \in DOMAIN new \ {at} : back[i] = back[j] => i = j

Made(fields, new, id) ==
  /\ \A i \in DOMAIN new : new[i].key = id => i = At(new, id)
  /\ \E back : Carried(fields, new, At(new, id), back)

OnlyAt(fields, new, id) ==
  /\ At(new, id) = At(fields, id) /\ DOMAIN new = DOMAIN fields
  /\ \A i \in DOMAIN fields : new[i].key = fields[i].key
  /\ \A i \in DOMAIN fields : i # At(new, id) => new[i] = fields[i]

LEMMA SetMakesEntry ==
  ASSUME NEW fields \in Seq(Field), NEW id \in FieldIds, NEW hint \in Names \cup {Absent},
         NEW type \in Types \cup {Absent}, NEW value \in Values, At(fields, id) = 0
  PROVE  Made(fields, SetInList(fields, id, hint, type, value), id)
  <1>1. PICK e \in Field : e = [key |-> id, hint |-> hint, type |-> type, blob |-> FALSE,
                                value |-> value]
    BY DEF Field
  <1>2. PICK new \in Seq(Field) : new = InsertKeyed(fields, e)
    BY SomewhereInserted
  <1>3. new = SetInList(fields, id, hint, type, value)
    BY <1>1, <1>2 DEF SetInList
  <1>4. PICK p \in 1..(Len(fields) + 1) : Inserted(new, fields, e, p)
    BY <1>2, SomewhereInserted
  <1>5. Len(fields) \in Nat /\ e.key = id /\ \A i \in 1..Len(fields) : fields[i].key # id
    BY <1>1, FirstPlace
  <1>6. Len(new) = Len(fields) + 1
        /\ \A j \in 1..(Len(fields) + 1) :
             new[j] = IF j < p THEN fields[j] ELSE IF j = p THEN e ELSE fields[j - 1]
    BY <1>4 DEF Inserted
  <1>7. DOMAIN new = 1..(Len(fields) + 1) /\ DOMAIN fields = 1..Len(fields)
    BY <1>6
  <1>8. \A i \in DOMAIN new : new[i].key = id => i = p
    <2>1. ASSUME NEW i \in 1..(Len(fields) + 1), i # p PROVE new[i].key # id
      <3>1. CASE i < p
        <4>1. i \in 1..Len(fields) /\ new[i] = fields[i]
          BY <1>5, <1>6, <3>1
        <4>2. QED
          BY <1>5, <4>1
      <3>2. CASE ~ (i < p)
        <4>1. i - 1 \in 1..Len(fields) /\ new[i] = fields[i - 1]
          BY <1>5, <1>6, <2>1, <3>2
        <4>2. QED
          BY <1>5, <4>1
      <3>3. QED
        BY <3>1, <3>2
    <2>2. QED
      BY <1>7, <2>1
  <1>9. At(new, id) = p
    <2>1. new[p] = e
      BY <1>6
    <2>2. p \in 1..Len(new)
      BY <1>6
    <2>3. At(new, id) # 0 /\ At(new, id) \in DOMAIN new /\ new[At(new, id)].key = id
      BY <1>5, <2>1, <2>2, FirstPlace
    <2>4. QED
      BY <1>8, <2>3
  <1>10. PICK back : back = [i \in 1..(Len(fields) + 1) |-> IF i < p THEN i ELSE i - 1]
    OBVIOUS
  <1>11. ASSUME NEW i \in DOMAIN new \ {p}
         PROVE  back[i] \in DOMAIN fields /\ new[i] = fields[back[i]]
    <2>1. i \in 1..(Len(fields) + 1) /\ i # p
      BY <1>7
    <2>2. back[i] = IF i < p THEN i ELSE i - 1
      BY <1>10, <2>1
    <2>3. QED
      BY <1>5, <1>6, <1>7, <2>1, <2>2
  <1>12. ASSUME NEW i \in DOMAIN new \ {p}, NEW j \in DOMAIN new \ {p}, back[i] = back[j]
         PROVE  i = j
    <2>1. /\ i \in 1..(Len(fields) + 1) /\ i # p /\ j \in 1..(Len(fields) + 1) /\ j # p
      BY <1>7
    <2>2. /\ back[i] = IF i < p THEN i ELSE i - 1
          /\ back[j] = IF j < p THEN j ELSE j - 1
      BY <1>10, <2>1
    <2>3. i \in Int /\ j \in Int /\ p \in Int
      BY <1>5, <2>1
    <2>4. (IF i < p THEN i ELSE i - 1) = (IF j < p THEN j ELSE j - 1)
      BY <1>12, <2>2
    <2>5. QED
      BY <2>1, <2>3, <2>4
  <1>13. Carried(fields, new, p, back)
    BY <1>11, <1>12 DEF Carried
  <1>14. QED
    BY <1>3, <1>8, <1>9, <1>13 DEF Made

LEMMA SetKeepsEntry ==
  ASSUME NEW fields \in Seq(Field), NEW id \in FieldIds, NEW hint \in Names \cup {Absent},
         NEW type \in Types \cup {Absent}, NEW value \in Values, At(fields, id) # 0
  PROVE  OnlyAt(fields, SetInList(fields, id, hint, type, value), id)
  <1>1. PICK at \in 1..Len(fields) : at = At(fields, id) /\ fields[at].key = id
                                     /\ \A i \in 1..Len(fields) : fields[i].key = id => at <= i
    BY FirstPlace
  <1>2. PICK f \in Field : f = fields[at]
    OBVIOUS
  <1>3. PICK g : g = [f EXCEPT !.value = value, !.type = IF type = Absent THEN @ ELSE type]
    OBVIOUS
  <1>4. g \in Field /\ g.key = f.key
    BY <1>3 DEF Field
  <1>5. PICK new : new = SetInList(fields, id, hint, type, value)
    OBVIOUS
  <1>6. new = [fields EXCEPT ![at] = g]
    BY <1>1, <1>2, <1>3, <1>5 DEF SetInList, Field
  <1>7. new \in Seq(Field) /\ Len(new) = Len(fields) /\ DOMAIN new = DOMAIN fields
        /\ \A i \in 1..Len(fields) : new[i] = IF i = at THEN g ELSE fields[i]
    BY <1>4, <1>6
  <1>8. \A i \in 1..Len(fields) : new[i].key = fields[i].key
    BY <1>2, <1>4, <1>7
  <1>9. At(new, new[at].key) = at
    <2>1. \A j \in 1..Len(new) : new[j].key = new[at].key => at <= j
      BY <1>1, <1>7, <1>8
    <2>2. at \in 1..Len(new)
      BY <1>7
    <2>3. QED
      BY <1>7, <2>1, <2>2, FirstPlaceIs
  <1>10. At(new, id) = at
    BY <1>1, <1>8, <1>9
  <1>11. DOMAIN fields = 1..Len(fields)
    OBVIOUS
  <1>12. QED
    BY <1>1, <1>5, <1>7, <1>8, <1>10, <1>11 DEF OnlyAt

(* What is noted of an entry that was there was noted before.              *)
LEMMA NotedAgain ==
  ASSUME NEW old, NEW new, NEW s, NEW i, NEW j, NEW x, new[i] = old[j],
         Doubled(new, i) => Doubled(old, j), Noted(new, s, i, x)
  PROVE  Noted(old, s, j, x)
  <1>1. PointsBadly(new, s, i) = PointsBadly(old, s, j)
    BY DEF PointsBadly
  <1>2. x \in Conforms(new, s, i) => x \in Conforms(old, s, j)
    BY Zenon DEF Conforms
  <1>3. QED
    BY <1>1, <1>2, Zenon DEF Noted

LEMMA OthersNoted ==
  ASSUME NEW fields \in Seq(Field), NEW id \in FieldIds, NEW hint \in Names \cup {Absent},
         NEW type \in Types \cup {Absent}, NEW value \in Values,
         NEW new, new = SetInList(fields, id, hint, type, value),
         NEW i \in DOMAIN new, i # At(new, id), NEW s, NEW x, Noted(new, s, i, x)
  PROVE  /\ \E j \in DOMAIN fields : Noted(fields, s, j, x)
         /\ new[i].key = id => Doubled(new, i)
  <1>1. At(new, id) \in DOMAIN new /\ new[At(new, id)].key = id
    <2>1. new \in Seq(Field) /\ At(new, id) # 0
      BY WrittenField
    <2>2. QED
      BY <2>1, FirstPlace
  <1>2. CASE At(fields, id) = 0
    <2>1. \A k \in DOMAIN new : new[k].key = id => k = At(new, id)
      BY <1>2, SetMakesEntry DEF Made
    <2>2. PICK back : Carried(fields, new, At(new, id), back)
      BY <1>2, SetMakesEntry DEF Made
    <2>3. new[i].key # id /\ i \in DOMAIN new \ {At(new, id)}
      BY <2>1
    <2>4. back[i] \in DOMAIN fields /\ new[i] = fields[back[i]]
      BY <2>2, <2>3 DEF Carried
    <2>5. ASSUME Doubled(new, i) PROVE Doubled(fields, back[i])
      <3>1. PICK j \in DOMAIN new : j # i /\ new[j].key = new[i].key
        BY <2>5 DEF Doubled
      <3>2. j \in DOMAIN new \ {At(new, id)}
        BY <1>1, <2>3, <3>1
      <3>3. back[j] \in DOMAIN fields /\ new[j] = fields[back[j]] /\ back[j] # back[i]
        BY <2>2, <2>3, <3>1, <3>2 DEF Carried
      <3>4. QED
        BY <2>4, <3>1, <3>3 DEF Doubled
    <2>6. Noted(fields, s, back[i], x)
      BY <2>4, <2>5, NotedAgain
    <2>7. QED
      BY <2>3, <2>4, <2>6
  <1>3. CASE At(fields, id) # 0
    <2>1. /\ DOMAIN new = DOMAIN fields
          /\ \A k \in DOMAIN fields : new[k].key = fields[k].key
          /\ \A k \in DOMAIN fields : k # At(new, id) => new[k] = fields[k]
      <3>1. OnlyAt(fields, new, id)
        BY <1>3, SetKeepsEntry
      <3>2. QED
        BY <3>1 DEF OnlyAt
    <2>2. new[i] = fields[i] /\ i \in DOMAIN fields
      BY <2>1
    <2>3. Doubled(new, i) => Doubled(fields, i)
      BY <2>1, <2>2 DEF Doubled
    <2>4. Noted(fields, s, i, x)
      BY <2>2, <2>3, NotedAgain
    <2>5. QED
      BY <1>1, <2>2, <2>4 DEF Doubled
  <1>4. QED
    BY <1>2, <1>3

(* A well-known field is known by its id alone; any other one is defined,  *)
(* as the first definition of its id says.                                 *)
LEMMA TargetDefined ==
  ASSUME NEW r \in Request, schema \in Schemas, Resolves(r)
  PROVE  \/ IsWellKnown(Target(r).id)
         \/ Defines(Target(r).id) /\ FieldById(Target(r).id) = Target(r)
  <1>1. schema \in Seq(Definition) /\ WellKnown \in Seq(Definition)
    BY RequestsAssumption
  <1>2. Len(schema) \in Nat /\ Len(WellKnown) \in Nat /\ Known \in Seq(Definition)
        /\ Len(Known) = Len(schema) + Len(WellKnown)
        /\ \A i \in 1..(Len(schema) + Len(WellKnown)) :
             Known[i] = IF i <= Len(schema) THEN schema[i] ELSE WellKnown[i - Len(schema)]
    BY <1>1, ConcatProperties DEF Known
  <1>3. PICK p : p = Least(Meant(r.field))
    OBVIOUS
  <1>4. p \in 1..Len(Known) /\ Target(r) = Known[p]
    <2>1. Meant(r.field) \subseteq 1..Len(Known) /\ Meant(r.field) # {}
      BY <1>2 DEF Meant, Resolves
    <2>2. Meant(r.field) \subseteq Nat
      BY <2>1
    <2>3. p \in Meant(r.field)
      BY <1>3, <2>1, <2>2, LeastExists
    <2>4. QED
      BY <1>3, <2>1, <2>3 DEF Target, First
  <1>5. CASE p <= Len(schema)
    <2>1. p \in DOMAIN schema /\ Target(r) = schema[p]
      BY <1>1, <1>2, <1>4, <1>5
    <2>2. PICK S : S = {i \in DOMAIN schema : schema[i].id = Target(r).id}
      OBVIOUS
    <2>3. S \subseteq Nat /\ p \in S
      <3>1. DOMAIN schema \subseteq Nat
        BY <1>1
      <3>2. QED
        BY <2>1, <2>2, <3>1
    <2>4. Least(S) \in S
      BY <2>3, LeastExists
    <2>5. \A i, j \in DOMAIN schema : schema[i].id = schema[j].id => i = j
      BY GatesAssumption
    <2>6. Least(S) = p
      BY <2>1, <2>2, <2>3, <2>4, <2>5
    <2>7. QED
      BY <2>1, <2>2, <2>6 DEF Defines, FieldById
  <1>6. CASE ~ (p <= Len(schema))
    <2>1. p - Len(schema) \in DOMAIN WellKnown /\ Target(r) = WellKnown[p - Len(schema)]
      BY <1>1, <1>2, <1>4, <1>6
    <2>2. QED
      BY <2>1 DEF IsWellKnown
  <1>7. QED
    BY <1>5, <1>6

(* What the codes of G5 may be for a value that is valid.                  *)
LEMMA PointersAre ==
  ASSUME NEW type, NEW v
  PROVE  /\ Pointers(type, v) \subseteq {"broken-reference", "invalid-guid-token"}
         /\ type \notin {"multilist", "reference", "link"} => Pointers(type, v) = {}
         /\ type \in {"multilist", "reference"} /\ Valid(type, v) =>
              Pointers(type, v) \subseteq {"broken-reference"}
  <1>1. CASE type \in {"multilist", "reference"}
    <2>1. Pointers(type, v) = IF v.is \in {"guid", "guids", "piped guids"}
                                THEN IF v.text \in Serialized THEN {} ELSE {"broken-reference"}
                              ELSE IF v.is = "empty" THEN {} ELSE {"invalid-guid-token"}
      BY <1>1 DEF Pointers
    <2>2. Valid(type, v) => v.is \in {"guid", "guids", "piped guids", "empty"}
      BY <1>1 DEF Valid
    <2>3. QED
      BY <1>1, <2>1, <2>2
  <1>2. CASE type = "link"
    BY <1>2 DEF Pointers
  <1>3. CASE type \notin {"multilist", "reference", "link"}
    BY <1>3 DEF Pointers
  <1>4. QED
    BY <1>1, <1>2, <1>3

MisreadIn(list, id, type) ==
  IsWellKnown(id) /\ \E k \in DOMAIN list :
    list[k].key = id /\ EffectiveType(list[k]) \notin {type, Absent}

PointsOf(type, misread) ==
  IF type = "link" \/ misread THEN {"broken-reference", "invalid-guid-token"}
  ELSE IF type \in {"multilist", "reference"} THEN {"broken-reference"}
  ELSE {}

LEMMA NoteIs ==
  ASSUME NEW list, NEW s, NEW i, NEW x, Noted(list, s, i, x)
  PROVE  x.slot = s /\ x.field = list[i].key /\ x.code # "missing-language"
  <1>1. CASE x \in PointsBadly(list, s, i)
    <2>1. PICK code \in Pointers(EffectiveType(list[i]), list[i].value) :
            x = Finding(code, s, list[i].key)
      BY <1>1 DEF PointsBadly
    <2>2. code # "missing-language"
      BY PointersAre
    <2>3. QED
      BY <2>1, <2>2 DEF Finding
  <1>2. CASE x \in Conforms(list, s, i)
    BY <1>2 DEF Conforms, Finding
  <1>3. QED
    BY <1>1, <1>2 DEF Noted

LEMMA WrittenNoted ==
  ASSUME NEW fields \in Seq(Field), NEW id \in FieldIds, NEW hint \in Names \cup {Absent},
         NEW stamp \in Types \cup {Absent}, NEW value \in Values,
         NEW new, new = SetInList(fields, id, hint, stamp, value), NEW s, NEW t, NEW x,
         Noted(new, s, At(new, id), x), Valid(t.type, value), t.section = s.kind,
         IsWellKnown(id) \/ (Defines(id) /\ FieldById(id) = t)
  PROVE  \/ x.code \in PointsOf(t.type, MisreadIn(new, id, t.type))
         \/ Doubled(new, At(new, id)) /\ \E j \in DOMAIN fields : Noted(fields, s, j, x)
  <1>1. PICK at : at = At(new, id)
    OBVIOUS
  <1>2. at \in DOMAIN new /\ new[at].key = id /\ new[at].value = value
    <2>1. new \in Seq(Field) /\ At(new, id) # 0 /\ new[At(new, id)].value = value
      BY WrittenField
    <2>2. QED
      BY <1>1, <2>1, FirstPlace
  <1>3. CASE x \in PointsBadly(new, s, at)
    <2>1. PICK code \in Pointers(EffectiveType(new[at]), value) : x = Finding(code, s, id)
      BY <1>2, <1>3 DEF PointsBadly
    <2>2. x.code = code
      BY <2>1 DEF Finding
    <2>3. EffectiveType(new[at]) = t.type \/ EffectiveType(new[at]) = Absent
            \/ MisreadIn(new, id, t.type)
      <3>1. CASE IsWellKnown(id)
        BY <1>2, <3>1, Zenon DEF MisreadIn
      <3>2. CASE Defines(id) /\ FieldById(id) = t
        BY <1>2, <3>2 DEF EffectiveType
      <3>3. QED
        BY <3>1, <3>2
    <2>4. CASE EffectiveType(new[at]) = t.type
      <3>1. code \in Pointers(t.type, value)
        BY <2>1, <2>4
      <3>2. QED
        BY <2>2, <3>1, PointersAre DEF PointsOf
    <2>5. CASE EffectiveType(new[at]) = Absent
      <3>1. Absent \notin {"multilist", "reference", "link"}
        BY RequestsAssumption
      <3>2. QED
        BY <2>1, <2>5, <3>1, PointersAre
    <2>6. CASE MisreadIn(new, id, t.type)
      BY <2>1, <2>2, <2>6, PointersAre DEF PointsOf
    <2>7. QED
      BY <2>3, <2>4, <2>5, <2>6
  <1>4. CASE /\ Selected("G6", AllGates) /\ schema # <<>> /\ x \in Conforms(new, s, at)
    <2>1. ~ IsWellKnown(id) /\ Defines(id) /\ FieldById(id) = t
      BY <1>2, <1>4 DEF Conforms
    <2>2. Doubled(new, at) /\ x = Finding("duplicate-field", s, id)
      BY <1>2, <1>4, <2>1 DEF Conforms
    <2>3. At(fields, id) # 0
      <3>1. SUFFICES ASSUME At(fields, id) = 0 PROVE FALSE
        OBVIOUS
      <3>2. Made(fields, new, id)
        BY <3>1, SetMakesEntry
      <3>3. QED
        BY <1>1, <1>2, <2>2, <3>2 DEF Made, Doubled
    <2>4. OnlyAt(fields, new, id)
      BY <2>3, SetKeepsEntry
    <2>5. at \in DOMAIN fields /\ fields[at].key = id /\ Doubled(fields, at)
      BY <1>1, <1>2, <2>2, <2>4 DEF OnlyAt, Doubled
    <2>6. x \in Conforms(fields, s, at)
      BY <2>1, <2>2, <2>5 DEF Conforms
    <2>7. Noted(fields, s, at, x)
      BY <1>4, <2>6 DEF Noted
    <2>8. QED
      BY <1>1, <2>2, <2>5, <2>7
  <1>5. QED
    BY <1>1, <1>3, <1>4 DEF Noted

(* Languages with versions keep some.                                      *)
LEMMA LanguagesStay ==
  ASSUME NEW d \in Document, NEW n \in Document, BlocksOnce(d),
         \A l \in Languages : VersionsOf(d, l) \subseteq VersionsOf(n, l)
  PROVE  Present(d) \subseteq Present(n)
  <1>1. d.languages \in Seq(Language) /\ n.languages \in Seq(Language)
    BY DEF Document
  <1>2. ASSUME NEW l \in Present(d) PROVE l \in Present(n)
    <2>1. PICK m \in Range(d.languages) : m.versions # <<>> /\ m.key = l
      BY DEF Present
    <2>2. PICK i \in DOMAIN d.languages : m = d.languages[i]
      BY <2>1 DEF Range
    <2>3. m \in Language /\ l \in Languages /\ m.versions \in Seq(Version) /\ i \in 1..Len(d.languages)
      <3>1. PICK languages \in Seq(Language) : languages = d.languages
        BY <1>1
      <3>2. i \in 1..Len(languages) /\ m = languages[i]
        BY <2>2, <3>1
      <3>3. m \in Language
        BY <3>2
      <3>4. m.key \in Languages /\ m.versions \in Seq(Version)
        BY <3>3 DEF Language
      <3>5. QED
        BY <2>1, <3>1, <3>2, <3>3, <3>4
    <2>4. At(d.languages, l) = i /\ i # 0
      <3>1. At(d.languages, l) # 0
        BY <1>1, <2>1, <2>2, <2>3, FirstPlace
      <3>2. At(d.languages, l) \in 1..Len(d.languages) /\ d.languages[At(d.languages, l)].key = l
        BY <1>1, <3>1, FirstPlace
      <3>3. QED
        BY <2>1, <2>2, <2>3, <3>2 DEF BlocksOnce, KeysOnce
    <2>5. 1 \in DOMAIN m.versions
      BY <2>1, <2>3
    <2>6. m.versions[1].key \in VersionsOf(d, l)
      BY <2>2, <2>4, <2>5 DEF VersionsOf
    <2>7. VersionsOf(n, l) # {}
      BY <2>3, <2>6
    <2>8. PICK at : at = At(n.languages, l)
      OBVIOUS
    <2>9. at # 0 /\ n.languages[at].versions # <<>>
      BY <2>7, <2>8 DEF VersionsOf
    <2>10. at \in DOMAIN n.languages /\ n.languages[at].key = l
      BY <1>1, <2>8, <2>9, FirstPlace
    <2>11. n.languages[at] \in Range(n.languages)
      BY <2>10 DEF Range
    <2>12. QED
      BY <2>9, <2>10, <2>11 DEF Present
  <1>3. QED
    BY <1>2

LEMMA WriteConforms ==
  ASSUME NEW r \in Request, TypeOK, Write(r), BlocksOnce(doc), NEW n, n = doc',
         NEW x \in Report(n, AllGates)
  PROVE  LET slot == SlotFor(r)
             t    == Target(r)
             new  == FieldsIn(n, slot)
         IN  IF x.code = "missing-language" THEN x \in Report(doc, AllGates) \/ Present(doc) = {}
             ELSE \/ /\ x \in Report(doc, AllGates)
                     /\ \/ \E i \in DOMAIN new : new[i].key = t.id /\ Doubled(new, i)
                        \/ x.slot # slot \/ x.field # t.id
                  \/ /\ x.slot = slot /\ x.field = t.id
                     /\ x.code \in PointsOf(t.type, MisreadIn(new, t.id, t.type))
  <1>1. PICK t, slot, stamp, value :
          /\ t = Target(r) /\ slot = SlotFor(r) /\ stamp = Stamp(t.type)
          /\ value = Prepared(t.type, r.value)
    OBVIOUS
  <1>2. /\ Resolves(r) /\ SlotFits(r) /\ Accepted(t.type, r.value)
        /\ n = SetField(doc, slot, t.id, t.name, stamp, value)
    BY <1>1 DEF Write
  <1>3. /\ t \in Definition /\ slot \in Slots /\ slot.kind = t.section
        /\ schema \in Schemas /\ doc \in Document
    BY <1>1, <1>2, TargetType, SlotType DEF TypeOK
  <1>4. /\ t.id \in FieldIds /\ t.name \in Names \cup {Absent} /\ t.type \in Types
        /\ stamp \in Types \cup {Absent}
    BY <1>1, <1>3 DEF Definition, Stamp
  <1>5. r.value \in Values
    BY DEF Request
  <1>6. value \in Values /\ Valid(t.type, value)
    BY <1>1, <1>2, <1>4, <1>5, PreparedType DEF Accepted
  <1>7. PICK id \in FieldIds, hint \in Names \cup {Absent} : id = t.id /\ hint = t.name
    BY <1>4
  <1>8. PICK new : new = FieldsIn(n, slot)
    OBVIOUS
  <1>9. PICK fields \in Seq(Field) : fields = FieldsIn(doc, slot)
    BY <1>3, FieldsType
  <1>10. /\ n \in Document /\ new \in Seq(Field) /\ new = SetInList(fields, id, hint, stamp, value)
         /\ \A other \in Slots : other # slot => FieldsIn(n, other) = FieldsIn(doc, other)
         /\ \A l \in Languages, v \in Versions : v \in VersionsOf(doc, l) => v \in VersionsOf(n, l)
    <2>1. WritesItsSlot(doc, n, slot, SetInList(fields, id, hint, stamp, value))
      BY <1>2, <1>3, <1>4, <1>7, <1>6, <1>9, SetFieldWritesItsSlot
    <2>2. SetInList(fields, id, hint, stamp, value) \in Seq(Field)
      BY <1>4, <1>6, WrittenField
    <2>3. QED
      BY <1>8, <2>1, <2>2 DEF WritesItsSlot
  <1>11. BlocksOnce(n)
    BY WriteKeepsOnce
  <1>12. IsWellKnown(id) \/ (Defines(id) /\ FieldById(id) = t)
    BY <1>1, <1>2, <1>3, <1>7, TargetDefined
  <1>13. At(new, id) \in DOMAIN new /\ new[At(new, id)].key = id
    <2>1. At(new, id) # 0
      BY <1>4, <1>6, <1>10, WrittenField
    <2>2. QED
      BY <1>10, <2>1, FirstPlace
  <1> DEFINE Before == \E s \in Slots : \E i \in DOMAIN FieldsIn(doc, s) :
                         Noted(FieldsIn(doc, s), s, i, x)
             Twice  == \E i \in DOMAIN new : new[i].key = id /\ Doubled(new, i)
             Points == x.code \in PointsOf(t.type, MisreadIn(new, id, t.type))
  <1>14. Before => x \in Report(doc, AllGates)
    BY <1>3, ReportIs
  <1>15. ASSUME NEW s \in Slots, NEW i \in DOMAIN FieldsIn(n, s), Noted(FieldsIn(n, s), s, i, x)
         PROVE  /\ x.code # "missing-language"
                /\ \/ Before /\ (Twice \/ x.slot # slot \/ x.field # id)
                   \/ x.slot = slot /\ x.field = id /\ Points
    <2>1. x.slot = s /\ x.field = FieldsIn(n, s)[i].key /\ x.code # "missing-language"
      BY <1>15, NoteIs
    <2>2. CASE s # slot
      <3>1. FieldsIn(n, s) = FieldsIn(doc, s)
        BY <1>10, <2>2
      <3>2. Before
        BY <1>15, <3>1
      <3>3. QED
        BY <2>1, <2>2, <3>2
    <2>3. CASE s = slot /\ i # At(new, id)
      <3>1. i \in DOMAIN new /\ Noted(new, s, i, x) /\ x.field = new[i].key
        BY <1>8, <1>15, <2>1, <2>3
      <3>2. /\ \E j \in DOMAIN fields : Noted(fields, s, j, x)
            /\ new[i].key = id => Doubled(new, i)
        BY <1>4, <1>6, <1>10, <2>3, <3>1, OthersNoted
      <3>3. Before
        BY <1>9, <2>3, <3>2
      <3>4. QED
        BY <2>1, <3>1, <3>2, <3>3
    <2>4. CASE s = slot /\ i = At(new, id)
      <3>1. Noted(new, s, At(new, id), x) /\ x.field = id /\ t.section = s.kind
        BY <1>3, <1>8, <1>13, <1>15, <2>1, <2>4
      <3>2. \/ Points
            \/ Doubled(new, At(new, id)) /\ \E j \in DOMAIN fields : Noted(fields, s, j, x)
        BY <1>4, <1>6, <1>10, <1>12, <3>1, WrittenNoted
      <3>3. CASE Points
        BY <2>1, <2>4, <3>1, <3>3
      <3>4. CASE Doubled(new, At(new, id)) /\ \E j \in DOMAIN fields : Noted(fields, s, j, x)
        <4>1. Twice
          BY <1>13, <3>4
        <4>2. Before
          BY <1>9, <2>4, <3>4
        <4>3. QED
          BY <2>1, <4>1, <4>2
      <3>5. QED
        BY <3>2, <3>3, <3>4
    <2>5. QED
      BY <2>2, <2>3, <2>4
  <1>16. ASSUME Selected("G7", AllGates), x \in MissingLanguages(n)
         PROVE  x.code = "missing-language" /\ (x \in Report(doc, AllGates) \/ Present(doc) = {})
    <2>1. Present(doc) \subseteq Present(n)
      <3>1. \A l \in Languages : VersionsOf(doc, l) \subseteq VersionsOf(n, l)
        BY <1>3, <1>10, ExistingVersions
      <3>2. QED
        BY <1>3, <1>10, <3>1, LanguagesStay
    <2>2. PICK l \in Policy \ Present(n) : x = [code |-> "missing-language", language |-> l]
      BY <1>16 DEF MissingLanguages
    <2>3. Present(doc) # {} => x \in MissingLanguages(doc)
      BY <2>1, <2>2 DEF MissingLanguages
    <2>4. x \in MissingLanguages(doc) => x \in Report(doc, AllGates)
      BY <1>3, <1>16, ReportIs
    <2>5. QED
      BY <2>2, <2>3, <2>4
  <1>17. \/ \E s \in Slots : \E i \in DOMAIN FieldsIn(n, s) : Noted(FieldsIn(n, s), s, i, x)
         \/ Selected("G7", AllGates) /\ x \in MissingLanguages(n)
    BY <1>10, <1>11, ReportIs
  <1> HIDE DEF Before, Twice, Points
  <1>18. IF x.code = "missing-language" THEN x \in Report(doc, AllGates) \/ Present(doc) = {}
         ELSE \/ x \in Report(doc, AllGates) /\ (Twice \/ x.slot # slot \/ x.field # id)
              \/ x.slot = slot /\ x.field = id /\ Points
    BY <1>14, <1>15, <1>16, <1>17
  <1>19. QED
    BY <1>1, <1>7, <1>8, <1>18, Zenon DEF Twice, Points

(* What set-field writes, the gates accept, for every document that has no *)
(* block twice and every template: a write adds no finding but where it    *)
(* wrote, for what the value points to, and what the policy asks of an     *)
(* item with its first version.                                            *)
THEOREM WritesAreAccepted == Spec => WritesConform
  <1>1. TypeOK /\ [Next]_vars =>
          [outcome' = "written" /\ NoBlockTwice(doc) =>
             LET before  == Report(doc, AllGates)
                 slot    == SlotFor(request')
                 id      == Target(request').id
                 type    == Target(request').type
                 fields  == FieldsIn(doc', slot)
                 Written == {i \in DOMAIN fields : fields[i].key = id}
                 Twice   == \E i, j \in Written : i # j
                 Misread == /\ IsWellKnown(id)
                            /\ \E i \in Written : EffectiveType(fields[i]) \notin {type, Absent}
                 Points  == IF type = "link" \/ Misread
                              THEN {"broken-reference", "invalid-guid-token"}
                            ELSE IF type \in {"multilist", "reference"} THEN {"broken-reference"}
                            ELSE {}
             IN  \A x \in Report(doc', AllGates) :
                   IF x.code = "missing-language" THEN x \in before \/ Present(doc) = {}
                   ELSE \/ x \in before /\ (Twice \/ x.slot # slot \/ x.field # id)
                        \/ x.slot = slot /\ x.field = id /\ x.code \in Points]_vars
    <2>1. ASSUME TypeOK, Next, outcome' = "written", NoBlockTwice(doc),
                 NEW x \in Report(doc', AllGates)
          PROVE  LET slot == SlotFor(request')
                     t    == Target(request')
                     new  == FieldsIn(doc', slot)
                 IN  IF x.code = "missing-language"
                       THEN x \in Report(doc, AllGates) \/ Present(doc) = {}
                     ELSE \/ /\ x \in Report(doc, AllGates)
                             /\ \/ \E i \in DOMAIN new : new[i].key = t.id /\ Doubled(new, i)
                                \/ x.slot # slot \/ x.field # t.id
                          \/ /\ x.slot = slot /\ x.field = t.id
                             /\ x.code \in PointsOf(t.type, MisreadIn(new, t.id, t.type))
      <3>1. PICK r \in Requests : Serve(r)
        BY <2>1 DEF Next
      <3>2. r \in Request /\ request' = r
        BY <3>1, RequestsAssumption
          DEF Serve, RefuseField, RefuseSlot, RefuseValue, RefuseBlob, Refuse, Write
      <3>3. Write(r)
        BY <2>1, <3>1 DEF Serve, RefuseField, RefuseSlot, RefuseValue, RefuseBlob, Refuse
      <3>4. BlocksOnce(doc)
        BY <2>1, OneBlockASlot DEF TypeOK
      <3>5. PICK n : n = doc'
        OBVIOUS
      <3>6. x \in Report(n, AllGates)
        BY <2>1, <3>5
      <3>7. QED
        BY <2>1, <3>2, <3>3, <3>4, <3>5, <3>6, WriteConforms
    <2>2. QED
      BY <2>1 DEF vars, MisreadIn, PointsOf, Doubled
  <1>2. QED
    BY <1>1, TypeCorrect, PTL DEF Spec, WritesConform

=============================================================================
