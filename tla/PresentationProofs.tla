------------------------ MODULE PresentationProofs -------------------------
(***************************************************************************)
(* What TemplateChainProofs says of the walk holds in Presentation; and    *)
(* what the merge of the layers keeps, for every page, every set of        *)
(* layouts and every template index: the folds of LayoutDelta first, then  *)
(* the layers of a page, the invariants of the merge, what the gates of    *)
(* LayoutGates say of a page, and at the end that the nearest layer wins.  *)
(***************************************************************************)
EXTENDS LayoutGates, TemplateChainProofs

(* The resolution of a page walks the base templates as TemplateChain      *)
(* says: to collect and to merge layers leaves the walk alone.             *)
THEOREM ResolutionWalks == Spec => WalkSpec
  <1>1. Init => WalkInit
    BY DEF Init
  <1>2. [Next]_vars => [WalkNext]_walkVars
    BY DEF Next, Walk, CollectLayers, ApplyLayer, vars, walkVars
  <1>3. QED
    BY <1>1, <1>2, PTL DEF Spec, WalkSpec

(* Layers are collected from a chain that is complete, with each template  *)
(* once and bases before what derives from them only where the lists say   *)
(* so: standard values are neither missed nor merged twice for one         *)
(* template, and which of them win can be read off the base lists          *)
(* (collect_layers after std_values_chain).  The fields of the page are    *)
(* those of the first templates that define them.                          *)
THEOREM ChainOfPage ==
  Spec => [](/\ NoRepetition /\ ChainIsClosure
             /\ BaseFirstOnlyByListing /\ FirstDefinitionWins)
  BY ResolutionWalks, NeverTwice, ChainIsComplete, ListsDecideOrder,
     FirstDefinitionCounts, PTL

-----------------------------------------------------------------------------
(* The first of a sequence that something holds of.                        *)
LEMMA LeastIs ==
  ASSUME NEW S, S \subseteq Nat, S # {}
  PROVE  Min(S) \in S /\ \A k \in S : Min(S) <= k
  <1>1. PICK x \in S : \A y \in S : ~ (<<y, x>> \in OpToRel(<, Nat))
    BY NatLessThanWellFounded, WFMin
  <1>2. \A y \in S : ~ (y < x)
    BY <1>1, Zenon DEF OpToRel
  <1>3. \A y \in S : x <= y
    BY <1>2
  <1>4. QED
    BY <1>3, Zenon DEF Min

(* The first rendering of a uid, and the first device of an id.            *)
LEMMA RenderingAtIs ==
  ASSUME NEW rs \in Seq(Renderings), NEW uid
  PROVE  /\ RenderingAt(rs, uid) \in 0..Len(rs)
         /\ RenderingAt(rs, uid) = 0 <=> \A k \in DOMAIN rs : rs[k].uid # uid
         /\ RenderingAt(rs, uid) > 0 => rs[RenderingAt(rs, uid)].uid = uid
  <1> DEFINE I == {i \in 1..Len(rs) : rs[i].uid = uid}
  <1>1. RenderingAt(rs, uid) = IF I # {} THEN Min(I) ELSE 0
    BY Zenon DEF RenderingAt, SelectInSeq
  <1>2. Len(rs) \in Nat /\ DOMAIN rs = 1..Len(rs)
    OBVIOUS
  <1>3. I # {} => Min(I) \in I
    <2>1. I \subseteq Nat
      OBVIOUS
    <2> HIDE DEF I
    <2>2. QED
      BY <2>1, LeastIs
  <1> DEFINE at == RenderingAt(rs, uid)
  <1> HIDE DEF at
  <1>4. at = IF I # {} THEN Min(I) ELSE 0
    BY <1>1 DEF at
  <1>5. CASE I = {}
    BY <1>2, <1>4, <1>5 DEF at
  <1>6. CASE I # {}
    BY <1>2, <1>3, <1>4, <1>6 DEF at
  <1>7. QED
    BY <1>5, <1>6

(* The same of the first device of an id.                                  *)
LEMMA DeviceAtIs ==
  ASSUME NEW layout \in Layouts, NEW id
  PROVE  /\ DeviceAt(layout, id) \in 0..Len(layout)
         /\ DeviceAt(layout, id) = 0 <=> \A k \in DOMAIN layout : layout[k].id # id
         /\ DeviceAt(layout, id) > 0 => layout[DeviceAt(layout, id)].id = id
  <1> DEFINE I == {i \in 1..Len(layout) : layout[i].id = id}
  <1>1. DeviceAt(layout, id) = IF I # {} THEN Min(I) ELSE 0
    BY Zenon DEF DeviceAt, SelectInSeq
  <1>2. Len(layout) \in Nat /\ DOMAIN layout = 1..Len(layout)
    BY DEF Layouts
  <1>3. I # {} => Min(I) \in I
    <2>1. I \subseteq Nat
      BY <1>2
    <2> HIDE DEF I
    <2>2. QED
      BY <2>1, LeastIs
  <1> DEFINE at == DeviceAt(layout, id)
  <1> HIDE DEF at
  <1>4. at = IF I # {} THEN Min(I) ELSE 0
    BY <1>1 DEF at
  <1>5. CASE I = {}
    BY <1>2, <1>4, <1>5 DEF at
  <1>6. CASE I # {}
    BY <1>2, <1>3, <1>4, <1>6 DEF at
  <1>7. QED
    BY <1>5, <1>6

(* A sequence with one more element in it.                                 *)
OneMore(t, s, i, e) ==
  /\ Len(t) = Len(s) + 1
  /\ \A k \in 1..(Len(s) + 1) :
       t[k] = IF k < i THEN s[k] ELSE IF k = i THEN e ELSE s[k - 1]

(* What InsertAt gives has one element more, at the place asked for.       *)
LEMMA InsertedIs ==
  ASSUME NEW S, NEW s \in Seq(S), NEW i \in 1..(Len(s) + 1), NEW e \in S
  PROVE  InsertAt(s, i, e) \in Seq(S) /\ OneMore(InsertAt(s, i, e), s, i, e)
  <1> DEFINE a == SubSeq(s, 1, i - 1)
             b == SubSeq(s, i, Len(s))
             c == a \o <<e>>
             t == c \o b
  <1>1. /\ a \in Seq(S) /\ Len(a) = i - 1 /\ \A k \in 1..(i - 1) : a[k] = s[k]
    OBVIOUS
  <1>2. /\ b \in Seq(S) /\ Len(b) = Len(s) - i + 1
        /\ \A k \in 1..(Len(s) - i + 1) : b[k] = s[i + k - 1]
    OBVIOUS
  <1> HIDE DEF a, b
  <1>3. /\ c \in Seq(S) /\ Len(c) = i /\ c[i] = e
        /\ \A k \in 1..(i - 1) : c[k] = s[k]
    <2>1. c = Append(a, e)
      BY <1>1
    <2>2. QED
      BY <1>1, <2>1
  <1> HIDE DEF c
  <1>4. /\ t \in Seq(S) /\ Len(t) = Len(s) + 1
        /\ \A k \in 1..(Len(s) + 1) : t[k] = IF k <= i THEN c[k] ELSE b[k - i]
    <2>1. /\ t \in Seq(S) /\ Len(t) = Len(c) + Len(b)
          /\ \A k \in 1..(Len(c) + Len(b)) : t[k] = IF k <= Len(c) THEN c[k] ELSE b[k - Len(c)]
      BY <1>2, <1>3
    <2>2. Len(c) + Len(b) = Len(s) + 1
      BY <1>2, <1>3
    <2> HIDE DEF t
    <2>3. QED
      BY <1>3, <2>1, <2>2
  <1>5. InsertAt(s, i, e) = t
    BY DEF InsertAt, a, b, c
  <1> HIDE DEF t
  <1>6. ASSUME NEW k \in 1..(Len(s) + 1)
        PROVE  t[k] = IF k < i THEN s[k] ELSE IF k = i THEN e ELSE s[k - 1]
    <2>1. CASE k <= i
      BY <1>3, <1>4, <2>1
    <2>2. CASE k > i
      <3>1. k - i \in 1..(Len(s) - i + 1) /\ i + (k - i) - 1 = k - 1
        BY <2>2
      <3>2. t[k] = b[k - i]
        BY <1>4, <2>2
      <3>3. QED
        BY <1>2, <2>2, <3>1, <3>2
    <2>3. QED
      BY <2>1, <2>2
  <1>7. QED
    BY <1>4, <1>5, <1>6 DEF OneMore

(* A sequence with one element replaced.                                   *)
LEMMA ReplacedIs ==
  ASSUME NEW S, NEW s \in Seq(S), NEW i \in DOMAIN s, NEW e \in S
  PROVE  /\ [s EXCEPT ![i] = e] \in Seq(S) /\ Len([s EXCEPT ![i] = e]) = Len(s)
         /\ DOMAIN [s EXCEPT ![i] = e] = DOMAIN s
         /\ \A k \in DOMAIN s : [s EXCEPT ![i] = e][k] = IF k = i THEN e ELSE s[k]
  <1> DEFINE t == [s EXCEPT ![i] = e]
  <1>1. Len(s) \in Nat /\ DOMAIN s = 1..Len(s) /\ \A k \in 1..Len(s) : s[k] \in S
    OBVIOUS
  <1>2. DOMAIN t = DOMAIN s /\ \A k \in DOMAIN s : t[k] = IF k = i THEN e ELSE s[k]
    OBVIOUS
  <1>3. t = [k \in 1..Len(s) |-> IF k = i THEN e ELSE s[k]]
    BY <1>1
  <1>4. t \in Seq(S) /\ Len(t) = Len(s)
    BY <1>1, <1>3
  <1>5. QED
    BY <1>2, <1>4

-----------------------------------------------------------------------------
(* A rendering that says what the other does.                              *)
Like(q, r) == q.uid = r.uid /\ (r.uid = NoUid => q.attrs = r.attrs)

Patched == [rs : Seq(Renderings), notes : Seq(Notes)]

Unknown(id, r) == [kind |-> "UnknownUid", device |-> id, ref |-> r.uid]

Bare(r) == [r EXCEPT !.pos = NoPosition]

(* What one rendering of a delta does: it changes the rendering of its     *)
(* uid, is dropped with a note, or comes in as a new one.                  *)
Changed(rs, new, r) ==
  /\ r.uid # NoUid
  /\ \E at \in DOMAIN rs, q \in Renderings :
       rs[at].uid = r.uid /\ q.uid = r.uid /\ new = [rs EXCEPT ![at] = q]

Dropped(id, acc, next, r) ==
  next.rs = acc.rs /\ Unknown(id, r) \in Range(next.notes)

Inserted(rs, new, r) ==
  /\ r.uid = NoUid \/ \A k \in DOMAIN rs : rs[k].uid # r.uid
  /\ \E i \in 1..(Len(rs) + 1) : OneMore(new, rs, i, Bare(r))

(* patch_device does one of these for each rendering.                      *)
LEMMA PatchIs ==
  ASSUME NEW id \in Devices, NEW acc \in Patched, NEW r \in Renderings
  PROVE  LET next == PatchRendering(id, acc, r)
         IN  /\ next \in Patched /\ Range(acc.notes) \subseteq Range(next.notes)
             /\ \/ Changed(acc.rs, next.rs, r)
                \/ Dropped(id, acc, next, r)
                \/ Inserted(acc.rs, next.rs, r)
  <1> DEFINE rs    == acc.rs
             at    == MatchedAt(rs, r)
             index == InsertionIndex(rs, r.pos)
             bare  == Bare(r)
             next  == PatchRendering(id, acc, r)
             q     == [rs[at] EXCEPT !.attrs = Overlay(rs[at].attrs, r.attrs)]
  <1>1. /\ rs \in Seq(Renderings) /\ acc.notes \in Seq(Notes) /\ Len(rs) \in Nat
        /\ DOMAIN rs = 1..Len(rs)
    BY DEF Patched
  <1>2. /\ r.uid \in Uids \cup {NoUid} /\ r.attrs \in [{"id", "ph", "ds"} -> Attribute]
        /\ r.pos \in Positions
    BY DEF Renderings
  <1>3. bare \in Renderings /\ bare.uid = r.uid /\ bare.attrs = r.attrs
    BY DEF Renderings, Positions, NoPosition, Bare
  <1>4. /\ at \in 0..Len(rs)
        /\ at > 0 => r.uid # NoUid /\ rs[at].uid = r.uid
        /\ at = 0 => r.uid = NoUid \/ \A k \in DOMAIN rs : rs[k].uid # r.uid
    BY <1>1, RenderingAtIs DEF MatchedAt
  <1>5. index \in 0..(Len(rs) + 1)
    BY <1>1, RenderingAtIs DEF InsertionIndex
  <1>6. at > 0 => q \in Renderings /\ q.uid = r.uid
    <2>1. SUFFICES ASSUME at > 0 PROVE q \in Renderings /\ q.uid = r.uid
      OBVIOUS
    <2>2. rs[at] \in Renderings /\ rs[at].uid = r.uid
      BY <1>1, <1>4, <2>1
    <2>3. Overlay(rs[at].attrs, r.attrs) \in [{"id", "ph", "ds"} -> Attribute]
      BY <1>2, <2>2 DEF Overlay, Renderings
    <2>4. QED
      BY <2>2, <2>3 DEF Renderings
  <1>7. next = IF at > 0 THEN [acc EXCEPT !.rs = ReplaceAt(rs, at, q)]
               ELSE IF ~Given(r.attrs["id"])
                 THEN [acc EXCEPT !.notes = Append(@, Unknown(id, r))]
               ELSE IF index > 0 THEN [acc EXCEPT !.rs = InsertAt(rs, index, bare)]
               ELSE [rs    |-> Append(rs, bare),
                     notes |-> IF r.pos = NoPosition THEN acc.notes
                               ELSE Append(acc.notes, [kind |-> "BadPositionRef",
                                                       device |-> id, ref |-> r.pos.uid])]
    BY DEF PatchRendering, Unknown, Bare
  <1> DEFINE Goal == /\ next \in Patched /\ Range(acc.notes) \subseteq Range(next.notes)
                     /\ \/ Changed(rs, next.rs, r)
                        \/ Dropped(id, acc, next, r)
                        \/ Inserted(rs, next.rs, r)
  <1>8. rs = acc.rs /\ bare = Bare(r)
    OBVIOUS
  <1> HIDE DEF rs, at, index, bare, q, next
  <1>9. /\ \A n : [acc EXCEPT !.notes = n] = [rs |-> rs, notes |-> n]
        /\ \A x : [acc EXCEPT !.rs = x] = [rs |-> x, notes |-> acc.notes]
        /\ \A e \in Notes : /\ Append(acc.notes, e) \in Seq(Notes)
                            /\ Range(Append(acc.notes, e)) = Range(acc.notes) \cup {e}
    BY <1>1, RangeOfAppend DEF Patched, rs
  <1>10. ASSUME at > 0 PROVE Goal
    <2>1. ReplaceAt(rs, at, q) = [rs EXCEPT ![at] = q] /\ at \in DOMAIN rs
      BY <1>1, <1>4, <1>10 DEF ReplaceAt
    <2>2. [rs EXCEPT ![at] = q] \in Seq(Renderings)
      BY <1>1, <1>6, <1>10, <2>1, ReplacedIs
    <2>3. next = [rs |-> [rs EXCEPT ![at] = q], notes |-> acc.notes]
      BY <1>7, <1>9, <1>10, <2>1
    <2>4. Changed(rs, next.rs, r)
      BY <1>4, <1>6, <1>10, <2>1, <2>3 DEF Changed
    <2>5. QED
      BY <1>1, <2>2, <2>3, <2>4 DEF Patched
  <1>11. ASSUME ~(at > 0), ~Given(r.attrs["id"]) PROVE Goal
    <2>1. Unknown(id, r) \in Notes
      BY <1>2 DEF Unknown, Notes
    <2>2. next = [rs |-> rs, notes |-> Append(acc.notes, Unknown(id, r))]
      BY <1>7, <1>9, <1>11
    <2>3. Dropped(id, acc, next, r)
      BY <1>9, <1>8, <2>1, <2>2 DEF Dropped
    <2>4. QED
      BY <1>1, <1>9, <2>1, <2>2, <2>3 DEF Patched
  <1>12. ASSUME ~(at > 0), Given(r.attrs["id"]), index > 0 PROVE Goal
    <2>1. next = [rs |-> InsertAt(rs, index, bare), notes |-> acc.notes]
      BY <1>7, <1>9, <1>12
    <2>2. index \in 1..(Len(rs) + 1)
      BY <1>1, <1>5, <1>12
    <2>3. next.rs \in Seq(Renderings) /\ OneMore(next.rs, rs, index, bare)
      BY <1>1, <1>3, <2>1, <2>2, InsertedIs
    <2>4. Inserted(rs, next.rs, r)
      BY <1>4, <1>12, <1>8, <2>2, <2>3 DEF Inserted
    <2>5. QED
      BY <1>1, <2>1, <2>3, <2>4 DEF Patched
  <1>13. ASSUME ~(at > 0), Given(r.attrs["id"]), ~(index > 0) PROVE Goal
    <2>1. /\ next.rs = Append(rs, bare)
          /\ next = [rs |-> next.rs, notes |-> next.notes]
          /\ next.notes = acc.notes \/
               (r.pos # NoPosition /\ next.notes = Append(acc.notes, [kind |-> "BadPositionRef",
                                               device |-> id, ref |-> r.pos.uid]))
      BY <1>7, <1>13
    <2>2. r.pos # NoPosition => r.pos.uid \in Uids \cup {NoUid, Garbled}
      BY <1>2 DEF Positions, NoPosition
    <2>3. next.notes \in Seq(Notes) /\ Range(acc.notes) \subseteq Range(next.notes)
      <3> DEFINE e == [kind |-> "BadPositionRef", device |-> id, ref |-> r.pos.uid]
      <3>1. r.pos # NoPosition => e \in Notes
        BY <2>2 DEF Notes
      <3> HIDE DEF e
      <3>2. next.notes = acc.notes \/ (r.pos # NoPosition /\ next.notes = Append(acc.notes, e))
        BY <2>1 DEF e
      <3>3. QED
        BY <1>1, <1>9, <3>1, <3>2
    <2> DEFINE n == Len(rs) + 1
    <2>4. /\ next.rs \in Seq(Renderings) /\ Len(next.rs) = n
          /\ \A k \in 1..n :
               next.rs[k] = IF k < n THEN rs[k] ELSE IF k = n THEN bare ELSE rs[k - 1]
          /\ n \in 1..n
      BY <1>1, <1>3, <2>1
    <2>5. OneMore(next.rs, rs, n, bare)
      BY <2>4 DEF OneMore
    <2> HIDE DEF n
    <2>6. Inserted(rs, next.rs, r)
      <3>1. r.uid = NoUid \/ \A k \in DOMAIN rs : rs[k].uid # r.uid
        BY <1>4, <1>13
      <3>2. n \in 1..(Len(rs) + 1)
        BY <2>4 DEF n
      <3>3. QED
        BY <1>8, <2>5, <3>1, <3>2 DEF Inserted
    <2>7. QED
      BY <1>1, <2>1, <2>3, <2>4, <2>6 DEF Patched
  <1>14. Goal
    BY <1>10, <1>11, <1>12, <1>13
  <1>15. QED
    BY <1>14 DEF next, rs

(* What a sequence with one more element has.                              *)
LEMMA OneMoreHas ==
  ASSUME NEW S, NEW s \in Seq(S), NEW t \in Seq(S), NEW i \in 1..(Len(s) + 1), NEW e \in S,
         OneMore(t, s, i, e)
  PROVE  /\ Range(t) = Range(s) \cup {e}
         /\ \A j \in DOMAIN t : (j = i /\ t[j] = e) \/ \E k \in DOMAIN s :
              t[j] = s[k] /\ k = (IF j < i THEN j ELSE j - 1) /\ j # i
  <1>1. /\ Len(s) \in Nat /\ DOMAIN s = 1..Len(s) /\ DOMAIN t = 1..(Len(s) + 1)
        /\ \A k \in 1..(Len(s) + 1) : t[k] = IF k < i THEN s[k] ELSE IF k = i THEN e ELSE s[k - 1]
    BY DEF OneMore
  <1>2. ASSUME NEW j \in DOMAIN t
        PROVE  (j = i /\ t[j] = e) \/ \E k \in DOMAIN s :
                 t[j] = s[k] /\ k = (IF j < i THEN j ELSE j - 1) /\ j # i
    <2>1. CASE j < i
      BY <1>1, <2>1
    <2>2. CASE j = i
      BY <1>1, <2>2
    <2>3. CASE j > i
      <3>1. j - 1 \in DOMAIN s /\ t[j] = s[j - 1]
        BY <1>1, <2>3
      <3>2. QED
        BY <1>1, <2>3, <3>1
    <2>4. QED
      BY <1>1, <2>1, <2>2, <2>3
  <1>3. ASSUME NEW k \in DOMAIN s
        PROVE  s[k] \in Range(t)
    <2>1. CASE k < i
      <3>1. k \in DOMAIN t /\ t[k] = s[k]
        BY <1>1, <2>1
      <3>2. QED
        BY <3>1 DEF Range
    <2>2. CASE ~(k < i)
      <3>1. k + 1 \in DOMAIN t /\ ~(k + 1 < i) /\ k + 1 # i /\ (k + 1) - 1 = k
        BY <1>1, <2>2
      <3>2. t[k + 1] = s[k]
        BY <1>1, <3>1
      <3>3. QED
        BY <3>1, <3>2 DEF Range
    <2>3. QED
      BY <2>1, <2>2
  <1>4. e \in Range(t)
    BY <1>1 DEF Range
  <1>5. QED
    BY <1>2, <1>3, <1>4 DEF Range

(* What was there is still there, what is new is what the delta says, what *)
(* the delta says is there or noted, and uids stay unique.                 *)
LEMMA PatchKeeps ==
  ASSUME NEW id \in Devices, NEW acc \in Patched, NEW r \in Renderings
  PROVE  LET next == PatchRendering(id, acc, r)
         IN  /\ next \in Patched /\ Range(acc.notes) \subseteq Range(next.notes)
             /\ \A q \in Range(acc.rs) : \E p \in Range(next.rs) : Same(p, q)
             /\ \A p \in Range(next.rs) : Like(p, r) \/ \E q \in Range(acc.rs) : Same(p, q)
             /\ (\E p \in Range(next.rs) : Like(p, r)) \/ Unknown(id, r) \in Range(next.notes)
             /\ UniqueUids(acc.rs) => UniqueUids(next.rs)
  <1> DEFINE next == PatchRendering(id, acc, r)
             rs   == acc.rs
             new  == next.rs
  <1>1. /\ next \in Patched /\ Range(acc.notes) \subseteq Range(next.notes)
        /\ Changed(rs, new, r) \/ Dropped(id, acc, next, r) \/ Inserted(rs, new, r)
    BY PatchIs
  <1>2. rs \in Seq(Renderings) /\ new \in Seq(Renderings)
    BY <1>1 DEF Patched
  <1> DEFINE Goal == /\ \A q \in Range(rs) : \E p \in Range(new) : Same(p, q)
                     /\ \A p \in Range(new) : Like(p, r) \/ \E q \in Range(rs) : Same(p, q)
                     /\ (\E p \in Range(new) : Like(p, r)) \/ Unknown(id, r) \in Range(next.notes)
                     /\ UniqueUids(rs) => UniqueUids(new)
  <1>3. \A p, q : p = q => Same(p, q)
    BY DEF Same
  <1> HIDE DEF next, rs, new
  <1>4. ASSUME Changed(rs, new, r) PROVE Goal
    <2>1. PICK at \in DOMAIN rs, q \in Renderings :
            rs[at].uid = r.uid /\ q.uid = r.uid /\ new = [rs EXCEPT ![at] = q] /\ r.uid # NoUid
      BY <1>4 DEF Changed
    <2>2. DOMAIN new = DOMAIN rs /\ \A k \in DOMAIN rs : new[k] = IF k = at THEN q ELSE rs[k]
      BY <1>2, <2>1, ReplacedIs
    <2>3. \A k \in DOMAIN rs : Same(new[k], rs[k])
      BY <2>1, <2>2 DEF Same
    <2>4. Like(new[at], r)
      BY <2>1, <2>2 DEF Like
    <2>5. UniqueUids(rs) => UniqueUids(new)
      BY <2>1, <2>2 DEF UniqueUids
    <2>6. \A x \in Range(rs) : \E p \in Range(new) : Same(p, x)
      BY <2>2, <2>3, Zenon DEF Range
    <2>7. \A p \in Range(new) : \E x \in Range(rs) : Same(p, x)
      BY <2>2, <2>3, Zenon DEF Range
    <2>8. \E p \in Range(new) : Like(p, r)
      BY <2>1, <2>2, <2>4, Zenon DEF Range
    <2>9. QED
      BY <2>5, <2>6, <2>7, <2>8, Zenon
  <1>5. ASSUME Dropped(id, acc, next, r) PROVE Goal
    <2>1. new = rs /\ Unknown(id, r) \in Range(next.notes)
      BY <1>5 DEF Dropped, new, rs
    <2>2. QED
      BY <1>3, <2>1, Zenon
  <1>6. ASSUME Inserted(rs, new, r) PROVE Goal
    <2>1. PICK i \in 1..(Len(rs) + 1) : OneMore(new, rs, i, Bare(r))
      BY <1>6 DEF Inserted
    <2>2. Bare(r) \in Renderings /\ Bare(r).uid = r.uid /\ Bare(r).attrs = r.attrs
      BY DEF Bare, Renderings, Positions, NoPosition
    <2>3. /\ Range(new) = Range(rs) \cup {Bare(r)}
          /\ \A j \in DOMAIN new : (j = i /\ new[j] = Bare(r)) \/ \E k \in DOMAIN rs :
               new[j] = rs[k] /\ k = (IF j < i THEN j ELSE j - 1) /\ j # i
      BY <1>2, <2>1, <2>2, OneMoreHas
    <2>4. Like(Bare(r), r)
      BY <2>2 DEF Like
    <2>5. ASSUME UniqueUids(rs)
          PROVE  UniqueUids(new)
      <3>1. SUFFICES ASSUME NEW j \in DOMAIN new, NEW m \in DOMAIN new,
                            new[j].uid = new[m].uid, new[j].uid # NoUid
                     PROVE  j = m
        BY DEF UniqueUids
      <3>2. r.uid # NoUid => \A k \in DOMAIN rs : rs[k].uid # r.uid
        BY <1>6 DEF Inserted
      <3>3. j \in Nat /\ m \in Nat /\ i \in Nat
        BY <1>2
      <3>4. CASE j = i
        BY <2>2, <2>3, <3>1, <3>2, <3>4
      <3>5. CASE m = i
        BY <2>2, <2>3, <3>1, <3>2, <3>5
      <3>6. CASE j # i /\ m # i
        <4>1. PICK k \in DOMAIN rs, l \in DOMAIN rs :
                /\ new[j] = rs[k] /\ k = (IF j < i THEN j ELSE j - 1)
                /\ new[m] = rs[l] /\ l = (IF m < i THEN m ELSE m - 1)
          BY <2>3, <3>6
        <4>2. k = l
          BY <2>5, <3>1, <4>1 DEF UniqueUids
        <4>3. QED
          BY <3>3, <3>6, <4>1, <4>2
      <3>7. QED
        BY <3>4, <3>5, <3>6
    <2>6. \A x \in Range(rs) : \E p \in Range(new) : Same(p, x)
      BY <1>3, <2>3, Zenon
    <2>7. \A p \in Range(new) : Like(p, r) \/ \E x \in Range(rs) : Same(p, x)
      BY <1>3, <2>3, <2>4, Zenon
    <2>8. \E p \in Range(new) : Like(p, r)
      BY <2>3, <2>4, Zenon
    <2>9. QED
      BY <2>5, <2>6, <2>7, <2>8, Zenon
  <1>7. Goal
    BY <1>1, <1>4, <1>5, <1>6
  <1>8. QED
    BY <1>1, <1>7 DEF next, rs, new

(* The renderings of a delta, one after the other.                         *)
PatchFolds(id, start, s, it) ==
  it = [u \in SUBSET DOMAIN s |->
         IF u = {} THEN start ELSE PatchRendering(id, it[u \ {Max(u)}], s[Max(u)])]

(* The fold of patch_device, one rendering of the delta after the other.   *)
LEMMA PatchSteps ==
  ASSUME NEW id \in Devices, NEW start \in Patched, NEW s \in Seq(Renderings)
  PROVE  \E g : /\ g[0] = start
                /\ \A k \in 1..Len(s) : g[k - 1] \in Patched /\ g[k] = PatchRendering(id, g[k - 1], s[k])
                /\ g[Len(s)] \in Patched
                /\ (CHOOSE it : PatchFolds(id, start, s, it))[DOMAIN s] = g[Len(s)]
  <1> DEFINE n    == Len(s)
             S    == Patched
             step == [p \in S \X (1..n) |-> PatchRendering(id, p[1], s[p[2]])]
             c    == CHOOSE it : PatchFolds(id, start, s, it)
  <1>1. n \in Nat /\ DOMAIN s = 1..n /\ start \in S /\ \A i \in 1..n : s[i] \in Renderings
    OBVIOUS
  <1>2. /\ step \in [S \X (1..n) -> S]
        /\ \A a \in S, i \in 1..n :
             step[<<a, i>>] = PatchRendering(id, a, s[i]) /\ PatchRendering(id, a, s[i]) \in S
    <2>1. \A a \in S, i \in 1..n : PatchRendering(id, a, s[i]) \in S
      BY <1>1, PatchKeeps
    <2>2. \A p \in S \X (1..n) : PatchRendering(id, p[1], s[p[2]]) \in S
      BY <2>1
    <2>3. QED
      BY <2>1, <2>2
  <1>3. n = Len(s) /\ S = Patched
    OBVIOUS
  <1> HIDE DEF n, S, step, c
  <1>4. PICK it \in [SUBSET (1..n) -> S] : GoesByGreatest(it, n, start, step)
    BY <1>1, <1>2, SetRecursion
  <1>5. PatchFolds(id, start, s, it)
    <2>1. ASSUME NEW u \in SUBSET (1..n), u # {}
          PROVE  it[u] = PatchRendering(id, it[u \ {Max(u)}], s[Max(u)])
      <3>1. Max(u) \in u
        BY <1>1, <2>1, GreatestExists
      <3>2. Max(u) \in 1..n /\ it[u \ {Max(u)}] \in S
        BY <1>4, <3>1
      <3>3. it[u] = step[<<it[u \ {Max(u)}], Max(u)>>]
        BY <1>4, <2>1 DEF GoesByGreatest
      <3>4. QED
        BY <1>2, <3>2, <3>3, Zenon
    <2>2. \A u \in SUBSET (1..n) :
            it[u] = IF u = {} THEN start ELSE PatchRendering(id, it[u \ {Max(u)}], s[Max(u)])
      <3>1. {} \in SUBSET (1..n) /\ it[{}] = start
        BY <1>4 DEF GoesByGreatest
      <3>2. QED
        BY <2>1, <3>1
    <2>3. it = [u \in SUBSET (1..n) |-> it[u]]
      BY <1>4
    <2>4. QED
      BY <1>1, <2>2, <2>3, Zenon DEF PatchFolds
  <1>6. PatchFolds(id, start, s, c)
    BY <1>5, Zenon DEF c
  <1>7. \A u \in SUBSET (1..n) :
          c[u] = IF u = {} THEN start ELSE PatchRendering(id, c[u \ {Max(u)}], s[Max(u)])
    BY <1>1, <1>6, Zenon DEF PatchFolds
  <1> DEFINE g == [k \in 0..n |-> c[1..k]]
  <1>8. g[0] = start
    <2>1. 1..0 = {} /\ {} \in SUBSET (1..n) /\ 0 \in 0..n
      BY <1>1
    <2>2. QED
      BY <1>7, <2>1
  <1>9. ASSUME NEW k \in 1..n
        PROVE  g[k] = PatchRendering(id, g[k - 1], s[k])
    <2>1. k \in 0..n /\ k - 1 \in 0..n
      BY <1>1
    <2>2. c[1..k] = PatchRendering(id, c[1..(k - 1)], s[k])
      BY <1>1, <1>7, StepsOfSets
    <2>3. QED
      BY <2>1, <2>2
  <1>10. g[n] = c[1..n]
    BY <1>1
  <1> HIDE DEF g
  <1>11. \A k \in 0..n : g[k] \in S
    <2> DEFINE B == {k \in 0..n : g[k] \in S}
    <2>1. 0 \in B
      BY <1>1, <1>8
    <2>2. ASSUME NEW k \in 1..n, k - 1 \in B
          PROVE  k \in B
      <3>1. g[k - 1] \in S /\ k \in 0..n
        BY <1>1, <2>2
      <3>2. g[k] = PatchRendering(id, g[k - 1], s[k])
        BY <1>9
      <3>3. PatchRendering(id, g[k - 1], s[k]) \in S
        BY <1>2, <3>1, Zenon
      <3>4. QED
        BY <3>1, <3>2, <3>3
    <2>3. QED
      <3> HIDE DEF B
      <3>1. \A k \in 0..n : k \in B
        BY <1>1, <2>1, <2>2, BoundedInduction
      <3>2. QED
        BY <3>1 DEF B
  <1>12. \A k \in 1..n : k - 1 \in 0..n
    BY <1>1
  <1>13. \A k \in 1..n : g[k - 1] \in Patched /\ g[k] = PatchRendering(id, g[k - 1], s[k])
    BY <1>3, <1>9, <1>11, <1>12
  <1>14. g[n] \in Patched /\ c[DOMAIN s] = g[n]
    BY <1>1, <1>3, <1>10, <1>11
  <1>15. QED
    BY <1>3, <1>8, <1>13, <1>14, Zenon DEF c

(* patch_device is such a fold.                                            *)
LEMMA PatchUnfolds ==
  ASSUME NEW base, NEW delta
  PROVE  LET start   == [rs |-> base.rs, notes |-> <<>>]
             patched == (CHOOSE it : PatchFolds(delta.id, start, delta.rs, it))[DOMAIN delta.rs]
         IN  PatchDevice(base, delta) =
               [device |-> [base EXCEPT !.l = IF delta.l = Missing THEN @ ELSE delta.l,
                                        !.rs = patched.rs],
                notes  |-> patched.notes]
  BY Zenon DEF PatchDevice, FoldLeft, MapThenFoldSet, PatchFolds

(* After some renderings of a delta: what was there still is, what is      *)
(* there was there or is said, what is said is there or noted.             *)
KeptIn(old, new) == \A q \in Range(old) : \E p \in Range(new) : Same(p, q)

FromEither(new, old, said) ==
  \A p \in Range(new) : (\E r \in said : Like(p, r)) \/ \E q \in Range(old) : Same(p, q)

SaidIn(said, new, id, noted) ==
  \A r \in said : (\E p \in Range(new) : Like(p, r)) \/ Unknown(id, r) \in noted

Upto(id, old, acc, said) ==
  /\ KeptIn(old, acc.rs)
  /\ FromEither(acc.rs, old, said)
  /\ SaidIn(said, acc.rs, id, Range(acc.notes))
  /\ UniqueUids(old) => UniqueUids(acc.rs)

(* What is the same as the same is the same.                               *)
LEMMA Chained ==
  ASSUME NEW p, NEW q, NEW r
  PROVE  /\ Same(p, q) /\ Same(q, r) => Same(p, r)
         /\ Same(p, q) /\ Like(q, r) => Like(p, r)
  BY DEF Same, Like

(* One more rendering of the delta.                                        *)
LEMMA OneMoreSaid ==
  ASSUME NEW id \in Devices, NEW old, NEW acc \in Patched, NEW r \in Renderings, NEW said,
         Upto(id, old, acc, said)
  PROVE  Upto(id, old, PatchRendering(id, acc, r), said \cup {r})
  <1> DEFINE next == PatchRendering(id, acc, r)
             rs   == acc.rs
             new  == next.rs
             was  == Range(acc.notes)
             now  == Range(next.notes)
  <1>1. /\ was \subseteq now
        /\ \A q \in Range(rs) : \E p \in Range(new) : Same(p, q)
        /\ \A p \in Range(new) : Like(p, r) \/ \E q \in Range(rs) : Same(p, q)
        /\ (\E p \in Range(new) : Like(p, r)) \/ Unknown(id, r) \in now
        /\ UniqueUids(rs) => UniqueUids(new)
    BY PatchKeeps
  <1>2. /\ KeptIn(old, rs) /\ FromEither(rs, old, said) /\ SaidIn(said, rs, id, was)
        /\ UniqueUids(old) => UniqueUids(rs)
    BY DEF Upto
  <1> HIDE DEF next, rs, new, was, now
  <1>3. KeptIn(old, new)
    BY <1>1, <1>2, Chained, Zenon DEF KeptIn
  <1>4. FromEither(new, old, said \cup {r})
    <2>1. SUFFICES ASSUME NEW p \in Range(new)
                   PROVE  (\E x \in said \cup {r} : Like(p, x)) \/ \E q \in Range(old) : Same(p, q)
      BY Zenon DEF FromEither
    <2>2. CASE Like(p, r)
      BY <2>2
    <2>3. ASSUME NEW q \in Range(rs), Same(p, q)
          PROVE  (\E x \in said \cup {r} : Like(p, x)) \/ \E y \in Range(old) : Same(p, y)
      <3>1. (\E x \in said : Like(q, x)) \/ \E y \in Range(old) : Same(q, y)
        BY <1>2, Zenon DEF FromEither
      <3>2. CASE \E x \in said : Like(q, x)
        BY <2>3, <3>2, Chained
      <3>3. CASE \E y \in Range(old) : Same(q, y)
        BY <2>3, <3>3, Chained
      <3>4. QED
        BY <3>1, <3>2, <3>3
    <2>4. QED
      BY <1>1, <2>2, <2>3
  <1>5. SaidIn(said \cup {r}, new, id, now)
    <2>1. SUFFICES ASSUME NEW x \in said \cup {r}
                   PROVE  (\E p \in Range(new) : Like(p, x)) \/ Unknown(id, x) \in now
      BY Zenon DEF SaidIn
    <2>2. CASE x = r
      BY <1>1, <2>2
    <2>3. CASE x \in said
      <3>1. (\E q \in Range(rs) : Like(q, x)) \/ Unknown(id, x) \in was
        BY <1>2, <2>3, Zenon DEF SaidIn
      <3>2. CASE Unknown(id, x) \in was
        BY <1>1, <3>2
      <3>3. ASSUME NEW q \in Range(rs), Like(q, x)
            PROVE  \E p \in Range(new) : Like(p, x)
        BY <1>1, <3>3, Chained
      <3>4. QED
        BY <3>1, <3>2, <3>3
    <2>4. QED
      BY <2>2, <2>3
  <1>6. QED
    BY <1>1, <1>2, <1>3, <1>4, <1>5, Zenon DEF Upto, next, new, rs, now

(* patch_device, as a whole.                                               *)
DevicePatched(base, delta, device, noted) ==
  /\ KeptIn(base.rs, device.rs)
  /\ FromEither(device.rs, base.rs, Range(delta.rs))
  /\ SaidIn(Range(delta.rs), device.rs, delta.id, noted)
  /\ UniqueUids(base.rs) => UniqueUids(device.rs)

(* All renderings of a delta, by induction over their number.              *)
LEMMA DevicePatchedIs ==
  ASSUME NEW base \in DeviceEntries, NEW delta \in DeviceEntries
  PROVE  LET patched == PatchDevice(base, delta)
         IN  /\ patched.device \in DeviceEntries /\ patched.device.id = base.id
             /\ patched.notes \in Seq(Notes)
             /\ DevicePatched(base, delta, patched.device, Range(patched.notes))
  <1> DEFINE id    == delta.id
             s     == delta.rs
             start == [rs |-> base.rs, notes |-> <<>>]
             last  == (CHOOSE it : PatchFolds(id, start, s, it))[DOMAIN s]
             n     == Len(s)
             device == [base EXCEPT !.l = IF delta.l = Missing THEN @ ELSE delta.l,
                                    !.rs = last.rs]
  <1>1. /\ id \in Devices /\ s \in Seq(Renderings) /\ start \in Patched /\ n \in Nat
        /\ DOMAIN s = 1..n /\ \A k \in 1..n : s[k] \in Renderings
    BY DEF DeviceEntries, Patched
  <1>2. PatchDevice(base, delta) = [device |-> device, notes |-> last.notes]
    BY PatchUnfolds, Zenon
  <1>3. start.rs = base.rs
    OBVIOUS
  <1> HIDE DEF start
  <1>4. PICK g : /\ g[0] = start
                 /\ \A k \in 1..n : g[k - 1] \in Patched /\ g[k] = PatchRendering(id, g[k - 1], s[k])
                 /\ g[n] \in Patched
                 /\ last = g[n]
    <2> HIDE DEF id, s
    <2>1. QED
      BY <1>1, PatchSteps
  <1> HIDE DEF id, s, n, last
  <1> DEFINE Heard(k) == {s[i] : i \in 1..k}
             B == {k \in 0..n : Upto(id, base.rs, g[k], Heard(k))}
  <1>5. 0 \in B
    <2>1. Heard(0) = {} /\ 0 \in 0..n /\ g[0].rs = base.rs
      BY <1>1, <1>3, <1>4
    <2>2. Upto(id, base.rs, g[0], {})
      BY <2>1, Zenon DEF Upto, KeptIn, FromEither, SaidIn, Same
    <2>3. QED
      BY <2>1, <2>2
  <1>6. ASSUME NEW k \in 1..n, k - 1 \in B
        PROVE  k \in B
    <2>1. Upto(id, base.rs, g[k - 1], Heard(k - 1)) /\ k \in 0..n
      BY <1>1, <1>6
    <2>2. Heard(k) = Heard(k - 1) \cup {s[k]}
      BY <1>1
    <2>3. g[k - 1] \in Patched /\ g[k] = PatchRendering(id, g[k - 1], s[k]) /\ s[k] \in Renderings
      BY <1>1, <1>4
    <2> HIDE DEF Heard
    <2>4. Upto(id, base.rs, g[k], Heard(k))
      BY <1>1, <2>1, <2>2, <2>3, OneMoreSaid
    <2>5. QED
      BY <2>1, <2>4
  <1>7. Upto(id, base.rs, last, Range(s))
    <2>1. n \in 0..n /\ Heard(n) = Range(s)
      BY <1>1 DEF Range
    <2> HIDE DEF B, Heard
    <2>2. n \in B
      BY <1>1, <1>5, <1>6, <2>1, BoundedInduction
    <2>3. QED
      BY <1>4, <2>1, <2>2 DEF B
  <1>8. last.rs \in Seq(Renderings) /\ last.notes \in Seq(Notes)
    BY <1>4 DEF Patched
  <1>9. /\ device \in DeviceEntries /\ device.id = base.id /\ device.rs = last.rs
    BY <1>8 DEF DeviceEntries
  <1> HIDE DEF device
  <1>10. DevicePatched(base, delta, device, Range(last.notes))
    BY <1>7, <1>9, Zenon DEF DevicePatched, Upto, id, s
  <1>11. QED
    BY <1>2, <1>8, <1>9, <1>10

-----------------------------------------------------------------------------
(* What one device of a delta does: it comes in as a new one, or takes the *)
(* place of the device of its id, whole or patched into it.                *)
Merges == [layout : Layouts, notes : Seq(Notes)]

HasDevice(layout, id) == \E k \in DOMAIN layout : layout[k].id = id

Added(layout, new, delta) ==
  ~HasDevice(layout, delta.id) /\ new = Append(layout, delta)

Merged(layout, new, delta, noted) ==
  \E slot \in DOMAIN layout, device \in DeviceEntries :
    /\ layout[slot].id = delta.id /\ device.id = delta.id
    /\ new = [layout EXCEPT ![slot] = device]
    /\ \/ IsReplaceMode(delta) /\ device = delta
       \/ DevicePatched(layout[slot], delta, device, noted)

(* apply_delta does one of these for each device.                          *)
LEMMA DeviceIs ==
  ASSUME NEW acc \in Merges, NEW delta \in DeviceEntries
  PROVE  LET next == ApplyDevice(acc, delta)
         IN  /\ next \in Merges /\ Range(acc.notes) \subseteq Range(next.notes)
             /\ Added(acc.layout, next.layout, delta)
                \/ Merged(acc.layout, next.layout, delta, Range(next.notes))
  <1> DEFINE layout == acc.layout
             old == acc.notes
             slot   == DeviceAt(layout, delta.id)
             e      == [kind |-> "DeviceWithoutLayout", device |-> delta.id, ref |-> NoUid]
             patched == PatchDevice(layout[slot], delta)
             next   == ApplyDevice(acc, delta)
  <1>1. /\ layout \in Layouts /\ layout \in Seq(DeviceEntries) /\ old \in Seq(Notes)
        /\ DOMAIN layout = 1..Len(layout) /\ Len(layout) \in Nat
        /\ acc = [layout |-> layout, notes |-> old]
    BY DEF Merges, Layouts
  <1>2. e \in Notes
    BY DEF Notes, DeviceEntries
  <1>3. /\ slot \in 0..Len(layout)
        /\ slot = 0 => ~HasDevice(layout, delta.id)
        /\ slot > 0 => layout[slot].id = delta.id
    BY <1>1, DeviceAtIs DEF HasDevice
  <1>4. next = IF slot = 0
                 THEN [layout |-> Append(layout, delta),
                       notes  |-> IF Given(delta.l) THEN old ELSE Append(old, e)]
               ELSE IF IsReplaceMode(delta) THEN [acc EXCEPT !.layout[slot] = delta]
               ELSE [layout |-> [layout EXCEPT ![slot] = patched.device],
                     notes  |-> old \o patched.notes]
    BY DEF ApplyDevice
  <1>5. [acc EXCEPT !.layout[slot] = delta]
           = [layout |-> [layout EXCEPT ![slot] = delta], notes |-> old]
    <2>1. \A x : [acc EXCEPT !.layout = x] = [layout |-> x, notes |-> old]
      BY DEF Merges
    <2>2. QED
      BY <2>1
  <1>6. layout = acc.layout /\ old = acc.notes
    OBVIOUS
  <1> DEFINE Goal == /\ next \in Merges /\ Range(old) \subseteq Range(next.notes)
                     /\ Added(layout, next.layout, delta)
                        \/ Merged(layout, next.layout, delta, Range(next.notes))
  <1> HIDE DEF layout, old, slot, e, patched, next
  <1>7. ASSUME slot = 0 PROVE Goal
    <2>1. /\ next.layout = Append(layout, delta)
          /\ next = [layout |-> next.layout, notes |-> next.notes]
          /\ next.notes = old \/ next.notes = Append(old, e)
      BY <1>4, <1>7
    <2>2. /\ Append(old, e) \in Seq(Notes)
          /\ Range(Append(old, e)) = Range(old) \cup {e}
      BY <1>1, <1>2, RangeOfAppend
    <2>3. next.notes \in Seq(Notes) /\ Range(old) \subseteq Range(next.notes)
      BY <1>1, <2>1, <2>2
    <2>4. next.layout \in Layouts
      BY <1>1, <2>1 DEF Layouts
    <2>5. Added(layout, next.layout, delta)
      BY <1>3, <1>7, <2>1 DEF Added
    <2>6. QED
      BY <2>1, <2>3, <2>4, <2>5 DEF Merges
  <1>8. ASSUME slot # 0, IsReplaceMode(delta) PROVE Goal
    <2>1. next = [layout |-> [layout EXCEPT ![slot] = delta], notes |-> old]
      BY <1>4, <1>5, <1>8
    <2>2. slot \in DOMAIN layout /\ layout[slot].id = delta.id
      BY <1>1, <1>3, <1>8
    <2>3. [layout EXCEPT ![slot] = delta] \in Seq(DeviceEntries)
      BY <1>1, <2>2, ReplacedIs
    <2>4. Merged(layout, next.layout, delta, Range(next.notes))
      BY <1>8, <2>1, <2>2 DEF Merged
    <2>5. QED
      BY <1>1, <2>1, <2>3, <2>4 DEF Merges, Layouts
  <1>9. ASSUME slot # 0, ~IsReplaceMode(delta) PROVE Goal
    <2> DEFINE device == patched.device
               more   == patched.notes
    <2>1. slot \in DOMAIN layout /\ layout[slot].id = delta.id /\ layout[slot] \in DeviceEntries
      BY <1>1, <1>3, <1>9
    <2>2. /\ device \in DeviceEntries /\ device.id = layout[slot].id /\ more \in Seq(Notes)
          /\ DevicePatched(layout[slot], delta, device, Range(more))
      BY <2>1, DevicePatchedIs DEF patched
    <2>3. next = [layout |-> [layout EXCEPT ![slot] = device], notes |-> old \o more]
      BY <1>4, <1>9
    <2> HIDE DEF device, more
    <2>4. old \o more \in Seq(Notes) /\ Range(old \o more) = Range(old) \cup Range(more)
      BY <1>1, <2>2, RangeOfBoth
    <2>5. [layout EXCEPT ![slot] = device] \in Seq(DeviceEntries)
      BY <1>1, <2>1, <2>2, ReplacedIs
    <2>6. DevicePatched(layout[slot], delta, device, Range(old \o more))
      BY <2>2, <2>4 DEF DevicePatched, SaidIn
    <2>7. Merged(layout, next.layout, delta, Range(next.notes))
      <3>1. device.id = delta.id
        BY <2>1, <2>2
      <3>2. next.layout = [layout EXCEPT ![slot] = device] /\ next.notes = old \o more
        BY <2>3
      <3>3. QED
        BY <2>1, <2>2, <2>6, <3>1, <3>2, Zenon DEF Merged
    <2>8. QED
      BY <2>3, <2>4, <2>5, <2>7 DEF Merges, Layouts
  <1>10. Goal
    BY <1>7, <1>8, <1>9
  <1>11. QED
    BY <1>10 DEF next, layout, old

(* What becomes of a layout, seen as a set of devices.                     *)
Enters(layout, new, delta, noted, d) ==
  /\ d.id = delta.id
  /\ d \in Range(new) /\ Range(new) \subseteq Range(layout) \cup {d}
  /\ \A b \in Range(layout) : b.id # delta.id => b \in Range(new)
  /\ \/ d = delta /\ (IsReplaceMode(delta) \/ ~HasDevice(layout, delta.id))
     \/ \E b \in Range(layout) : b.id = delta.id /\ DevicePatched(b, delta, d, noted)
  /\ OnceEach(layout) => OnceEach(new)

(* Whether it is new, replaces or is patched in, a device enters.          *)
LEMMA SomeEnters ==
  ASSUME NEW layout \in Layouts, NEW new \in Layouts, NEW delta \in DeviceEntries, NEW noted,
         Added(layout, new, delta) \/ Merged(layout, new, delta, noted)
  PROVE  \E d : Enters(layout, new, delta, noted, d)
  <1>1. /\ layout \in Seq(DeviceEntries) /\ Len(layout) \in Nat
        /\ DOMAIN layout = 1..Len(layout)
    BY DEF Layouts
  <1>2. ASSUME Added(layout, new, delta)
        PROVE  Enters(layout, new, delta, noted, delta)
    <2>1. /\ DOMAIN new = 1..(Len(layout) + 1) /\ new[Len(layout) + 1] = delta
          /\ \A i \in DOMAIN layout : new[i] = layout[i]
          /\ \A i \in DOMAIN new : i \in DOMAIN layout \/ i = Len(layout) + 1
      BY <1>1, <1>2 DEF Added
    <2>2. \A i \in DOMAIN layout : layout[i].id # delta.id
      BY <1>2 DEF Added, HasDevice
    <2>3. OnceEach(layout) => OnceEach(new)
      BY <2>1, <2>2 DEF OnceEach
    <2>4. Range(new) = Range(layout) \cup {delta}
      BY <1>1, <1>2, RangeOfAppend DEF Added
    <2>5. ~HasDevice(layout, delta.id)
      BY <1>2 DEF Added
    <2>6. QED
      BY <2>3, <2>4, <2>5 DEF Enters
  <1>3. ASSUME Merged(layout, new, delta, noted)
        PROVE  \E d : Enters(layout, new, delta, noted, d)
    <2>1. PICK slot \in DOMAIN layout, d \in DeviceEntries :
            /\ layout[slot].id = delta.id /\ d.id = delta.id
            /\ new = [layout EXCEPT ![slot] = d]
            /\ \/ IsReplaceMode(delta) /\ d = delta
               \/ DevicePatched(layout[slot], delta, d, noted)
      BY <1>3 DEF Merged
    <2>2. DOMAIN new = DOMAIN layout /\ \A k \in DOMAIN layout : new[k] = IF k = slot THEN d ELSE layout[k]
      BY <1>1, <2>1, ReplacedIs
    <2>3. \A k \in DOMAIN layout : new[k].id = layout[k].id
      BY <2>1, <2>2
    <2>4. OnceEach(layout) => OnceEach(new)
      BY <2>2, <2>3 DEF OnceEach
    <2>5. d \in Range(new) /\ Range(new) \subseteq Range(layout) \cup {d}
      BY <2>2 DEF Range
    <2>6. \A b \in Range(layout) : b.id # delta.id => b \in Range(new)
      BY <2>1, <2>2 DEF Range
    <2>7. layout[slot] \in Range(layout)
      BY DEF Range
    <2>8. \/ d = delta /\ IsReplaceMode(delta)
          \/ \E b \in Range(layout) : b.id = delta.id /\ DevicePatched(b, delta, d, noted)
      BY <2>1, <2>7, Zenon
    <2>9. QED
      BY <2>1, <2>4, <2>5, <2>6, <2>8, Zenon DEF Enters
  <1>4. QED
    BY <1>2, <1>3

(* After some devices of a delta.  What layers do to the ids and the uids, *)
(* and where renderings are from:                                          *)
Excused(base, did, id) ==
  \/ \E b \in Range(base) : b.id = id /\ ~UniqueUids(b.rs)
  \/ \E e \in did : e.id = id /\ ~UniqueUids(e.rs) /\ (IsReplaceMode(e) \/ ~HasDevice(base, id))

OfBase(base, id, p) == \E b \in Range(base) : b.id = id /\ \E q \in Range(b.rs) : Same(p, q)
OfDelta(did, id, p) == \E e \in did : e.id = id /\ \E r \in Range(e.rs) : Like(p, r)

Always(base, layout, did) ==
  /\ \A id : HasDevice(layout, id) <=> HasDevice(base, id) \/ \E e \in did : e.id = id
  /\ \A d \in Range(layout) : UniqueUids(d.rs) \/ Excused(base, did, d.id)
  /\ \A d \in Range(layout) : \A p \in Range(d.rs) : OfBase(base, d.id, p) \/ OfDelta(did, d.id, p)
  /\ OnceEach(base) => OnceEach(layout)

(* Devices of a layout as a set.                                           *)
LEMMA HasInRange ==
  ASSUME NEW layout, NEW id
  PROVE  HasDevice(layout, id) <=> \E d \in Range(layout) : d.id = id
  BY Zenon DEF HasDevice, Range

(* One more device of the delta.                                           *)
LEMMA OneMoreDevice ==
  ASSUME NEW base, NEW layout, NEW new, NEW delta, NEW noted, NEW d, NEW did,
         Always(base, layout, did), Enters(layout, new, delta, noted, d)
  PROVE  Always(base, new, did \cup {delta})
  <1> DEFINE now == did \cup {delta}
  <1>1. \A x : x \in now <=> x \in did \/ x = delta
    OBVIOUS
  <1> HIDE DEF now
  <1>2. /\ d.id = delta.id /\ d \in Range(new)
        /\ \A b \in Range(new) : b \in Range(layout) \/ b = d
        /\ \A b \in Range(layout) : b.id # delta.id => b \in Range(new)
    BY DEF Enters
  <1>3. \A id : HasDevice(layout, id) <=> HasDevice(base, id) \/ \E e \in did : e.id = id
    BY DEF Always
  <1>4. ASSUME NEW id
        PROVE  HasDevice(new, id) <=> HasDevice(base, id) \/ \E e \in now : e.id = id
    <2>1. HasDevice(new, id) <=> HasDevice(layout, id) \/ id = delta.id
      BY <1>2, HasInRange, Zenon
    <2>2. QED
      BY <1>1, <1>3, <2>1
  <1>5. \A id : Excused(base, did, id) => Excused(base, now, id)
    BY <1>1 DEF Excused
  <1>6. ASSUME NEW b \in Range(new)
        PROVE  UniqueUids(b.rs) \/ Excused(base, now, b.id)
    <2>1. CASE b \in Range(layout)
      BY <1>5, <2>1 DEF Always
    <2>2. CASE b = d /\ d = delta /\ (IsReplaceMode(delta) \/ ~HasDevice(layout, delta.id))
      BY <1>1, <1>3, <2>2 DEF Excused
    <2>3. ASSUME b = d, NEW c \in Range(layout), c.id = delta.id, DevicePatched(c, delta, d, noted)
          PROVE  UniqueUids(b.rs) \/ Excused(base, now, b.id)
      <3>1. UniqueUids(c.rs) \/ Excused(base, now, c.id)
        BY <1>5, <2>3 DEF Always
      <3>2. UniqueUids(c.rs) => UniqueUids(d.rs)
        BY <2>3 DEF DevicePatched
      <3>3. QED
        BY <1>2, <2>3, <3>1, <3>2
    <2>4. QED
      BY <1>2, <2>1, <2>2, <2>3, Zenon DEF Enters
  <1>7. \A id, p : OfDelta(did, id, p) => OfDelta(now, id, p)
    BY <1>1, Zenon DEF OfDelta
  <1>8. ASSUME NEW b \in Range(new), NEW p \in Range(b.rs)
        PROVE  OfBase(base, b.id, p) \/ OfDelta(now, b.id, p)
    <2>1. CASE b \in Range(layout)
      BY <1>7, <2>1, Zenon DEF Always
    <2>2. CASE b = d /\ d = delta
      <3>1. Like(p, p)
        BY Zenon DEF Like
      <3>2. QED
        BY <1>1, <2>2, <3>1, Zenon DEF OfDelta
    <2>3. ASSUME b = d, NEW c \in Range(layout), c.id = delta.id, DevicePatched(c, delta, d, noted)
          PROVE  OfBase(base, b.id, p) \/ OfDelta(now, b.id, p)
      <3>1. (\E r \in Range(delta.rs) : Like(p, r)) \/ \E q \in Range(c.rs) : Same(p, q)
        BY <2>3, Zenon DEF DevicePatched, FromEither
      <3>2. CASE \E r \in Range(delta.rs) : Like(p, r)
        BY <1>1, <1>2, <2>3, <3>2, Zenon DEF OfDelta
      <3>3. ASSUME NEW q \in Range(c.rs), Same(p, q)
            PROVE  OfBase(base, b.id, p) \/ OfDelta(now, b.id, p)
        <4>1. OfBase(base, c.id, q) \/ OfDelta(now, c.id, q)
          BY <1>7, <2>3, <3>3, Zenon DEF Always
        <4>2. OfBase(base, c.id, q) => OfBase(base, c.id, p)
          BY <3>3, Chained, Zenon DEF OfBase
        <4>3. OfDelta(now, c.id, q) => OfDelta(now, c.id, p)
          BY <3>3, Chained, Zenon DEF OfDelta
        <4>4. c.id = b.id
          BY <1>2, <2>3
        <4>5. QED
          BY <4>1, <4>2, <4>3, <4>4
      <3>4. QED
        BY <3>1, <3>2, <3>3
    <2>4. QED
      BY <1>2, <2>1, <2>2, <2>3, Zenon DEF Enters
  <1>9. OnceEach(base) => OnceEach(new)
    BY DEF Always, Enters
  <1>10. QED
    BY <1>4, <1>6, <1>8, <1>9, Zenon DEF Always, now

(* What is kept of the base and what of the delta is there, when both name *)
(* each device once:                                                       *)
Kept(base, layout, did, noted) ==
  /\ \A b \in Range(base) : \E d \in Range(layout) :
       d.id = b.id /\ (KeptIn(b.rs, d.rs) \/ \E e \in did : e.id = b.id /\ IsReplaceMode(e))
  /\ \A e \in did : \E d \in Range(layout) :
       d.id = e.id /\ SaidIn(Range(e.rs), d.rs, e.id, noted)

(* And what it keeps.                                                      *)
LEMMA OneMoreKept ==
  ASSUME NEW base, NEW layout, NEW new, NEW delta, NEW was, NEW noted, NEW d, NEW did,
         Kept(base, layout, did, was), Enters(layout, new, delta, noted, d),
         was \subseteq noted, OnceEach(layout), \A e \in did : e.id # delta.id
  PROVE  Kept(base, new, did \cup {delta}, noted)
  <1> DEFINE now == did \cup {delta}
  <1>1. \A x : x \in now <=> x \in did \/ x = delta
    OBVIOUS
  <1> HIDE DEF now
  <1>2. /\ d.id = delta.id /\ d \in Range(new)
        /\ \A b \in Range(layout) : b.id # delta.id => b \in Range(new)
    BY DEF Enters
  <1>3. ASSUME NEW b \in Range(base)
        PROVE  \E c \in Range(new) :
                 c.id = b.id /\ (KeptIn(b.rs, c.rs) \/ \E e \in now : e.id = b.id /\ IsReplaceMode(e))
    <2>1. PICK c \in Range(layout) :
            c.id = b.id /\ (KeptIn(b.rs, c.rs) \/ \E e \in did : e.id = b.id /\ IsReplaceMode(e))
      BY Zenon DEF Kept
    <2>2. CASE \E e \in did : e.id = b.id /\ IsReplaceMode(e)
      BY <1>1, <1>2, <2>1, <2>2
    <2>3. CASE c.id # delta.id
      BY <1>1, <1>2, <2>1, <2>3
    <2>4. CASE KeptIn(b.rs, c.rs) /\ c.id = delta.id
      <3>1. CASE d = delta /\ IsReplaceMode(delta)
        BY <1>1, <1>2, <2>1, <2>4, <3>1
      <3>2. CASE d = delta /\ ~HasDevice(layout, delta.id)
        BY <2>4, <3>2, HasInRange
      <3>3. ASSUME NEW a \in Range(layout), a.id = delta.id, DevicePatched(a, delta, d, noted)
            PROVE  KeptIn(b.rs, d.rs)
        <4>1. a = c
          BY <2>4, <3>3 DEF OnceEach, Range
        <4>2. KeptIn(c.rs, d.rs)
          BY <3>3, <4>1 DEF DevicePatched
        <4>3. QED
          BY <2>4, <4>2, Chained, Zenon DEF KeptIn
      <3>4. QED
        <4>1. \/ d = delta /\ (IsReplaceMode(delta) \/ ~HasDevice(layout, delta.id))
              \/ \E a \in Range(layout) : a.id = delta.id /\ DevicePatched(a, delta, d, noted)
          BY DEF Enters
        <4>2. QED
          BY <1>2, <2>1, <2>4, <3>1, <3>2, <3>3, <4>1
    <2>5. QED
      BY <2>1, <2>2, <2>3, <2>4
  <1>4. ASSUME NEW e \in now
        PROVE  \E c \in Range(new) : c.id = e.id /\ SaidIn(Range(e.rs), c.rs, e.id, noted)
    <2>1. CASE e \in did
      <3>1. PICK c \in Range(layout) : c.id = e.id /\ SaidIn(Range(e.rs), c.rs, e.id, was)
        BY <2>1, Zenon DEF Kept
      <3>2. c \in Range(new)
        BY <1>2, <2>1, <3>1
      <3>3. SaidIn(Range(e.rs), c.rs, e.id, noted)
        BY <3>1 DEF SaidIn
      <3>4. QED
        BY <3>1, <3>2, <3>3
    <2>2. CASE e = delta
      <3>1. CASE d = delta
        <4>1. SaidIn(Range(delta.rs), d.rs, delta.id, noted)
          BY <3>1, Zenon DEF SaidIn, Like
        <4>2. QED
          BY <1>2, <2>2, <4>1
      <3>2. CASE \E a \in Range(layout) : a.id = delta.id /\ DevicePatched(a, delta, d, noted)
        BY <1>2, <2>2, <3>2 DEF DevicePatched
      <3>3. QED
        BY <3>1, <3>2 DEF Enters
    <2>3. QED
      BY <1>1, <2>1, <2>2
  <1>5. QED
    BY <1>3, <1>4, Zenon DEF Kept, now

(* The devices of a delta, one after the other.                            *)
DeltaFolds(start, s, it) ==
  it = [u \in SUBSET DOMAIN s |->
         IF u = {} THEN start ELSE ApplyDevice(it[u \ {Max(u)}], s[Max(u)])]

(* The fold of apply_delta, one device of the delta after the other.       *)
LEMMA DeltaSteps ==
  ASSUME NEW start \in Merges, NEW s \in Seq(DeviceEntries)
  PROVE  \E g : /\ g[0] = start
                /\ \A k \in 1..Len(s) : g[k - 1] \in Merges /\ g[k] = ApplyDevice(g[k - 1], s[k])
                /\ g[Len(s)] \in Merges
                /\ (CHOOSE it : DeltaFolds(start, s, it))[DOMAIN s] = g[Len(s)]
  <1> DEFINE n    == Len(s)
             S    == Merges
             step == [p \in S \X (1..n) |-> ApplyDevice(p[1], s[p[2]])]
             c    == CHOOSE it : DeltaFolds(start, s, it)
  <1>1. n \in Nat /\ DOMAIN s = 1..n /\ start \in S /\ \A i \in 1..n : s[i] \in DeviceEntries
    OBVIOUS
  <1>2. /\ step \in [S \X (1..n) -> S]
        /\ \A a \in S, i \in 1..n : step[<<a, i>>] = ApplyDevice(a, s[i]) /\ ApplyDevice(a, s[i]) \in S
    <2>1. \A a \in S, i \in 1..n : ApplyDevice(a, s[i]) \in S
      BY <1>1, DeviceIs
    <2>2. \A p \in S \X (1..n) : ApplyDevice(p[1], s[p[2]]) \in S
      BY <2>1
    <2>3. QED
      BY <2>1, <2>2
  <1>3. n = Len(s) /\ S = Merges
    OBVIOUS
  <1> HIDE DEF n, S, step, c
  <1>4. PICK it \in [SUBSET (1..n) -> S] : GoesByGreatest(it, n, start, step)
    BY <1>1, <1>2, SetRecursion
  <1>5. DeltaFolds(start, s, it)
    <2>1. ASSUME NEW u \in SUBSET (1..n), u # {}
          PROVE  it[u] = ApplyDevice(it[u \ {Max(u)}], s[Max(u)])
      <3>1. Max(u) \in u
        BY <1>1, <2>1, GreatestExists
      <3>2. Max(u) \in 1..n /\ it[u \ {Max(u)}] \in S
        BY <1>4, <3>1
      <3>3. it[u] = step[<<it[u \ {Max(u)}], Max(u)>>]
        BY <1>4, <2>1 DEF GoesByGreatest
      <3>4. QED
        BY <1>2, <3>2, <3>3, Zenon
    <2>2. \A u \in SUBSET (1..n) :
            it[u] = IF u = {} THEN start ELSE ApplyDevice(it[u \ {Max(u)}], s[Max(u)])
      <3>1. {} \in SUBSET (1..n) /\ it[{}] = start
        BY <1>4 DEF GoesByGreatest
      <3>2. QED
        BY <2>1, <3>1
    <2>3. it = [u \in SUBSET (1..n) |-> it[u]]
      BY <1>4
    <2>4. QED
      BY <1>1, <2>2, <2>3, Zenon DEF DeltaFolds
  <1>6. DeltaFolds(start, s, c)
    BY <1>5, Zenon DEF c
  <1>7. \A u \in SUBSET (1..n) :
          c[u] = IF u = {} THEN start ELSE ApplyDevice(c[u \ {Max(u)}], s[Max(u)])
    BY <1>1, <1>6, Zenon DEF DeltaFolds
  <1> DEFINE g == [k \in 0..n |-> c[1..k]]
  <1>8. g[0] = start
    <2>1. 1..0 = {} /\ {} \in SUBSET (1..n) /\ 0 \in 0..n
      BY <1>1
    <2>2. QED
      BY <1>7, <2>1
  <1>9. ASSUME NEW k \in 1..n
        PROVE  g[k] = ApplyDevice(g[k - 1], s[k])
    <2>1. k \in 0..n /\ k - 1 \in 0..n
      BY <1>1
    <2>2. c[1..k] = ApplyDevice(c[1..(k - 1)], s[k])
      BY <1>1, <1>7, StepsOfSets
    <2>3. QED
      BY <2>1, <2>2
  <1>10. g[n] = c[1..n]
    BY <1>1
  <1> HIDE DEF g
  <1>11. \A k \in 0..n : g[k] \in S
    <2> DEFINE B == {k \in 0..n : g[k] \in S}
    <2>1. 0 \in B
      BY <1>1, <1>8
    <2>2. ASSUME NEW k \in 1..n, k - 1 \in B
          PROVE  k \in B
      <3>1. g[k - 1] \in S /\ k \in 0..n
        BY <1>1, <2>2
      <3>2. g[k] = ApplyDevice(g[k - 1], s[k])
        BY <1>9
      <3>3. ApplyDevice(g[k - 1], s[k]) \in S
        BY <1>2, <3>1, Zenon
      <3>4. QED
        BY <3>1, <3>2, <3>3
    <2>3. QED
      <3> HIDE DEF B
      <3>1. \A k \in 0..n : k \in B
        BY <1>1, <2>1, <2>2, BoundedInduction
      <3>2. QED
        BY <3>1 DEF B
  <1>12. \A k \in 1..n : k - 1 \in 0..n
    BY <1>1
  <1>13. \A k \in 1..n : g[k - 1] \in Merges /\ g[k] = ApplyDevice(g[k - 1], s[k])
    BY <1>3, <1>9, <1>11, <1>12
  <1>14. g[n] \in Merges /\ c[DOMAIN s] = g[n]
    BY <1>1, <1>3, <1>10, <1>11
  <1>15. QED
    BY <1>3, <1>8, <1>13, <1>14, Zenon DEF c

(* All devices of a delta, by induction over their number.                 *)
LEMMA DeltaIs ==
  ASSUME NEW base \in Layouts, NEW delta \in Layouts
  PROVE  LET next == ApplyDelta(base, delta)
         IN  /\ next \in Merges
             /\ Always(base, next.layout, Range(delta))
             /\ OnceEach(base) /\ OnceEach(delta) =>
                  Kept(base, next.layout, Range(delta), Range(next.notes))
  <1> DEFINE start == [layout |-> base, notes |-> <<>>]
             last  == (CHOOSE it : DeltaFolds(start, delta, it))[DOMAIN delta]
             n     == Len(delta)
  <1>1. /\ start \in Merges /\ start.layout = base /\ n \in Nat /\ delta \in Seq(DeviceEntries)
        /\ DOMAIN delta = 1..n /\ \A k \in 1..n : delta[k] \in DeviceEntries
    BY DEF Layouts, Merges
  <1>2. ApplyDelta(base, delta) = last
    BY Zenon DEF ApplyDelta, FoldLeft, MapThenFoldSet, DeltaFolds
  <1>3. n = Len(delta)
    OBVIOUS
  <1> HIDE DEF start, n
  <1>4. PICK g : /\ g[0] = start
                 /\ \A k \in 1..n : g[k - 1] \in Merges /\ g[k] = ApplyDevice(g[k - 1], delta[k])
                 /\ g[n] \in Merges /\ last = g[n]
    BY <1>1, <1>3, DeltaSteps
  <1> HIDE DEF last
  <1> DEFINE Did(k) == {delta[i] : i \in 1..k}
             Good(k) == /\ Always(base, g[k].layout, Did(k))
                        /\ OnceEach(base) /\ OnceEach(delta) =>
                             Kept(base, g[k].layout, Did(k), Range(g[k].notes))
             B == {k \in 0..n : Good(k)}
  <1>5. 0 \in B
    <2>1. Did(0) = {} /\ 0 \in 0..n /\ g[0].layout = base
      BY <1>1, <1>4
    <2>2. \A p : Same(p, p)
      BY DEF Same
    <2>3. Always(base, base, {})
      BY <2>2, Zenon DEF Always, Excused, OfBase
    <2>4. \A noted : Kept(base, base, {}, noted)
      BY <2>2, Zenon DEF Kept, KeptIn
    <2>5. QED
      BY <2>1, <2>3, <2>4
  <1>6. ASSUME NEW k \in 1..n, k - 1 \in B
        PROVE  k \in B
    <2> DEFINE acc  == g[k - 1]
               next == g[k]
               e    == delta[k]
               did  == Did(k - 1)
               was  == Range(acc.notes)
               now  == Range(next.notes)
    <2>1. Good(k - 1) /\ k \in 0..n
      <3> HIDE DEF Good
      <3>1. QED
        BY <1>1, <1>6
    <2>2. Did(k) = did \cup {e}
      BY <1>1
    <2>3. acc \in Merges /\ next = ApplyDevice(acc, e) /\ e \in DeviceEntries
      BY <1>1, <1>4
    <2>4. /\ next \in Merges /\ was \subseteq now
          /\ Added(acc.layout, next.layout, e) \/ Merged(acc.layout, next.layout, e, now)
      BY <2>3, DeviceIs
    <2>5. OnceEach(delta) => \A x \in did : x.id # e.id
      <3>1. \A i \in 1..(k - 1) : i \in 1..n /\ i # k
        BY <1>1
      <3>2. QED
        BY <1>1, <3>1 DEF OnceEach
    <2> HIDE DEF acc, next, e, was, now
    <2>6. acc.layout \in Layouts /\ next.layout \in Layouts
      BY <2>3, <2>4 DEF Merges
    <2>7. PICK d : Enters(acc.layout, next.layout, e, now, d)
      BY <2>3, <2>4, <2>6, SomeEnters
    <2>8. /\ Always(base, acc.layout, did)
          /\ OnceEach(base) /\ OnceEach(delta) => Kept(base, acc.layout, did, was)
      BY <2>1 DEF acc, was
    <2> HIDE DEF Did, did, Good
    <2>9. Always(base, next.layout, did \cup {e})
      BY <2>7, <2>8, OneMoreDevice
    <2>10. OnceEach(base) /\ OnceEach(delta) => Kept(base, next.layout, did \cup {e}, now)
      <3>1. OnceEach(base) => OnceEach(acc.layout)
        BY <2>8, Zenon DEF Always
      <3>2. QED
        BY <2>4, <2>5, <2>7, <2>8, <3>1, OneMoreKept
    <2>11. Good(k)
      BY <2>2, <2>9, <2>10, Zenon DEF Good, next, now
    <2>12. QED
      BY <2>1, <2>11
  <1>7. n \in B
    <2>1. n \in 0..n
      BY <1>1
    <2> HIDE DEF B
    <2>2. QED
      BY <1>1, <1>5, <1>6, <2>1, BoundedInduction
  <1>8. Did(n) = Range(delta)
    BY <1>1 DEF Range
  <1> HIDE DEF Did
  <1>9. QED
    BY <1>2, <1>4, <1>7, <1>8

-----------------------------------------------------------------------------
(* What a delta has noted is about its devices.                            *)
About(ids, noted) == \A note \in Range(noted) : note.device \in ids

(* What is noted of a rendering is about the device.                       *)
LEMMA PatchNotes ==
  ASSUME NEW id \in Devices, NEW acc \in Patched, NEW r \in Renderings,
         About({id}, acc.notes)
  PROVE  About({id}, PatchRendering(id, acc, r).notes)
  <1> DEFINE next == PatchRendering(id, acc, r)
             old  == acc.notes
             U    == Unknown(id, r)
             P    == [kind |-> "BadPositionRef", device |-> id, ref |-> r.pos.uid]
  <1>1. next.notes = old \/ next.notes = Append(old, U) \/ next.notes = Append(old, P)
    BY DEF PatchRendering, Patched, Unknown
  <1>2. U.device = id /\ P.device = id /\ old \in Seq(Notes)
    BY DEF Unknown, Patched
  <1> HIDE DEF next, old, U, P
  <1>3. \A e : Range(Append(old, e)) = Range(old) \cup {e}
    <2>1. /\ DOMAIN old = 1..Len(old) /\ Len(old) \in Nat
          /\ \A e : /\ DOMAIN Append(old, e) = 1..(Len(old) + 1)
                    /\ Append(old, e)[Len(old) + 1] = e
                    /\ \A i \in 1..Len(old) : Append(old, e)[i] = old[i]
      BY <1>2
    <2>2. \A i : i \in 1..(Len(old) + 1) <=> i \in 1..Len(old) \/ i = Len(old) + 1
      BY <2>1
    <2>3. QED
      BY <2>1, <2>2 DEF Range
  <1>4. /\ About({id}, old)
        /\ About({id}, Append(old, U))
        /\ About({id}, Append(old, P))
    <2>1. About({id}, old)
      BY DEF old
    <2>2. ASSUME NEW e, e.device = id
          PROVE  About({id}, Append(old, e))
      BY <1>3, <2>1, <2>2, Zenon DEF About
    <2>3. QED
      BY <1>2, <2>1, <2>2
  <1>5. About({id}, next.notes)
    BY <1>1, <1>4
  <1>6. QED
    BY <1>5 DEF next

(* What is noted of a device is about it.                                  *)
LEMMA PatchedNotes ==
  ASSUME NEW base \in DeviceEntries, NEW delta \in DeviceEntries
  PROVE  About({delta.id}, PatchDevice(base, delta).notes)
  <1> DEFINE id    == delta.id
             s     == delta.rs
             start == [rs |-> base.rs, notes |-> <<>>]
             last  == (CHOOSE it : PatchFolds(id, start, s, it))[DOMAIN s]
             n     == Len(s)
  <1>1. /\ id \in Devices /\ s \in Seq(Renderings) /\ start \in Patched /\ n \in Nat
        /\ DOMAIN s = 1..n /\ \A k \in 1..n : s[k] \in Renderings
    BY DEF DeviceEntries, Patched
  <1>2. PatchDevice(base, delta).notes = last.notes
    BY PatchUnfolds, Zenon
  <1>3. start.notes = <<>>
    OBVIOUS
  <1> HIDE DEF start
  <1>4. PICK g : /\ g[0] = start
                 /\ \A k \in 1..n : g[k - 1] \in Patched /\ g[k] = PatchRendering(id, g[k - 1], s[k])
                 /\ g[n] \in Patched
                 /\ last = g[n]
    <2> HIDE DEF id, s
    <2>1. QED
      BY <1>1, PatchSteps
  <1> HIDE DEF id, s, n, last
  <1> DEFINE B == {k \in 0..n : About({id}, g[k].notes)}
  <1>5. 0 \in B
    BY <1>1, <1>3, <1>4 DEF About, Range
  <1>6. ASSUME NEW k \in 1..n, k - 1 \in B
        PROVE  k \in B
    <2>1. k \in 0..n /\ About({id}, g[k - 1].notes)
      BY <1>1, <1>6
    <2>2. QED
      BY <1>1, <1>4, <2>1, PatchNotes
  <1>7. n \in B
    <2>1. n \in 0..n
      BY <1>1
    <2> HIDE DEF B
    <2>2. QED
      BY <1>1, <1>5, <1>6, <2>1, BoundedInduction
  <1>8. QED
    BY <1>2, <1>4, <1>7 DEF id

(* One more device of the delta.                                           *)
LEMMA DeviceNotes ==
  ASSUME NEW acc \in Merges, NEW delta \in DeviceEntries, NEW ids, About(ids, acc.notes)
  PROVE  About(ids \cup {delta.id}, ApplyDevice(acc, delta).notes)
  <1> DEFINE layout == acc.layout
             old    == acc.notes
             slot   == DeviceAt(layout, delta.id)
             e      == [kind |-> "DeviceWithoutLayout", device |-> delta.id, ref |-> NoUid]
             more   == PatchDevice(layout[slot], delta).notes
             next   == ApplyDevice(acc, delta)
  <1>1. /\ layout \in Seq(DeviceEntries) /\ old \in Seq(Notes)
        /\ DOMAIN layout = 1..Len(layout) /\ Len(layout) \in Nat
    BY DEF Merges, Layouts
  <1>2. e \in Notes /\ e.device = delta.id
    BY DEF Notes, DeviceEntries
  <1>3. slot \in 0..Len(layout)
    BY <1>1, DeviceAtIs DEF Layouts
  <1>4. \/ next.notes = old
        \/ next.notes = Append(old, e)
        \/ slot # 0 /\ next.notes = old \o more
    <2>1. \A x : [acc EXCEPT !.layout = x].notes = old
      BY DEF Merges
    <2>2. [acc EXCEPT !.layout[slot] = delta].notes = old
      BY <2>1
    <2>3. QED
      BY <2>2 DEF ApplyDevice
  <1>5. slot # 0 => more \in Seq(Notes) /\ About({delta.id}, more)
    <2>1. slot # 0 => layout[slot] \in DeviceEntries
      BY <1>1, <1>3
    <2> HIDE DEF layout, slot
    <2>2. QED
      BY <2>1, DevicePatchedIs, PatchedNotes
  <1> HIDE DEF layout, old, slot, e, more, next
  <1>6. Range(Append(old, e)) = Range(old) \cup {e}
    BY <1>1, <1>2, RangeOfAppend
  <1>7. slot # 0 => Range(old \o more) = Range(old) \cup Range(more)
    BY <1>1, <1>5, RangeOfBoth
  <1>8. QED
    BY <1>2, <1>4, <1>5, <1>6, <1>7 DEF About, next, old

(* So is what is noted of the whole delta.                                 *)
LEMMA DeltaNotes ==
  ASSUME NEW base \in Layouts, NEW delta \in Layouts
  PROVE  About({d.id : d \in Range(delta)}, ApplyDelta(base, delta).notes)
  <1> DEFINE start == [layout |-> base, notes |-> <<>>]
             last  == (CHOOSE it : DeltaFolds(start, delta, it))[DOMAIN delta]
             n     == Len(delta)
  <1>1. /\ start \in Merges /\ start.notes = <<>> /\ n \in Nat /\ delta \in Seq(DeviceEntries)
        /\ DOMAIN delta = 1..n /\ \A k \in 1..n : delta[k] \in DeviceEntries
    BY DEF Layouts, Merges
  <1>2. ApplyDelta(base, delta) = last
    BY Zenon DEF ApplyDelta, FoldLeft, MapThenFoldSet, DeltaFolds
  <1>3. n = Len(delta)
    OBVIOUS
  <1> HIDE DEF start, n
  <1>4. PICK g : /\ g[0] = start
                 /\ \A k \in 1..n : g[k - 1] \in Merges /\ g[k] = ApplyDevice(g[k - 1], delta[k])
                 /\ g[n] \in Merges /\ last = g[n]
    BY <1>1, <1>3, DeltaSteps
  <1> HIDE DEF last
  <1> DEFINE ids == {d.id : d \in Range(delta)}
             B   == {k \in 0..n : About(ids, g[k].notes)}
  <1>5. \A k \in 1..n : delta[k].id \in ids
    BY <1>1 DEF Range
  <1> HIDE DEF ids
  <1>6. 0 \in B
    BY <1>1, <1>4 DEF About, Range
  <1>7. ASSUME NEW k \in 1..n, k - 1 \in B
        PROVE  k \in B
    <2>1. k \in 0..n /\ About(ids, g[k - 1].notes)
      BY <1>1, <1>7
    <2>2. About(ids \cup {delta[k].id}, g[k].notes)
      BY <1>1, <1>4, <2>1, DeviceNotes
    <2>3. ids \cup {delta[k].id} = ids
      BY <1>5
    <2>4. QED
      BY <2>1, <2>2, <2>3
  <1>8. n \in B
    <2>1. n \in 0..n
      BY <1>1
    <2> HIDE DEF B
    <2>2. QED
      BY <1>1, <1>6, <1>7, <2>1, BoundedInduction
  <1>9. QED
    BY <1>2, <1>4, <1>8 DEF ids

-----------------------------------------------------------------------------
(* The standard values of the chain are items that can hold some.          *)
LEMMA StandardType ==
  ASSUME IInv, NEW values \in Seq(Holders), NEW t \in Known
  PROVE  AddStandard(values, t) \in Seq(Holders)
  <1>1. defs[t].standard \in Holders \cup {None}
    BY DEF IInv, WalkTypeOK, Definitions
  <1>2. QED
    BY <1>1 DEF AddStandard

(* The templates of the chain, one after the other.                        *)
StandardFolds(start, s, it) ==
  it = [u \in SUBSET DOMAIN s |->
         IF u = {} THEN start ELSE AddStandard(it[u \ {Max(u)}], s[Max(u)])]

(* The fold of std_values_chain, one template after the other.             *)
LEMMA StandardSteps ==
  ASSUME IInv, NEW start \in Seq(Holders), NEW s \in Seq(Known)
  PROVE  \E g : /\ g[0] = start
                /\ \A k \in 1..Len(s) : g[k - 1] \in Seq(Holders) /\ g[k] = AddStandard(g[k - 1], s[k])
                /\ g[Len(s)] \in Seq(Holders)
                /\ (CHOOSE it : StandardFolds(start, s, it))[DOMAIN s] = g[Len(s)]
  <1> DEFINE n    == Len(s)
             S    == Seq(Holders)
             step == [p \in S \X (1..n) |-> AddStandard(p[1], s[p[2]])]
             c    == CHOOSE it : StandardFolds(start, s, it)
  <1>1. n \in Nat /\ DOMAIN s = 1..n /\ start \in S /\ \A i \in 1..n : s[i] \in Known
    OBVIOUS
  <1>2. /\ step \in [S \X (1..n) -> S]
        /\ \A a \in S, i \in 1..n : step[<<a, i>>] = AddStandard(a, s[i]) /\ AddStandard(a, s[i]) \in S
    <2>1. \A a \in S, i \in 1..n : AddStandard(a, s[i]) \in S
      BY <1>1, StandardType
    <2>2. \A p \in S \X (1..n) : AddStandard(p[1], s[p[2]]) \in S
      BY <2>1
    <2>3. QED
      BY <2>1, <2>2
  <1>3. n = Len(s) /\ S = Seq(Holders)
    OBVIOUS
  <1> HIDE DEF n, S, step, c
  <1>4. PICK it \in [SUBSET (1..n) -> S] : GoesByGreatest(it, n, start, step)
    BY <1>1, <1>2, SetRecursion
  <1>5. StandardFolds(start, s, it)
    <2>1. ASSUME NEW u \in SUBSET (1..n), u # {}
          PROVE  it[u] = AddStandard(it[u \ {Max(u)}], s[Max(u)])
      <3>1. Max(u) \in u
        BY <1>1, <2>1, GreatestExists
      <3>2. Max(u) \in 1..n /\ it[u \ {Max(u)}] \in S
        BY <1>4, <3>1
      <3>3. it[u] = step[<<it[u \ {Max(u)}], Max(u)>>]
        BY <1>4, <2>1 DEF GoesByGreatest
      <3>4. QED
        BY <1>2, <3>2, <3>3, Zenon
    <2>2. \A u \in SUBSET (1..n) :
            it[u] = IF u = {} THEN start ELSE AddStandard(it[u \ {Max(u)}], s[Max(u)])
      <3>1. {} \in SUBSET (1..n) /\ it[{}] = start
        BY <1>4 DEF GoesByGreatest
      <3>2. QED
        BY <2>1, <3>1
    <2>3. it = [u \in SUBSET (1..n) |-> it[u]]
      BY <1>4
    <2>4. QED
      BY <1>1, <2>2, <2>3, Zenon DEF StandardFolds
  <1>6. StandardFolds(start, s, c)
    BY <1>5, Zenon DEF c
  <1>7. \A u \in SUBSET (1..n) :
          c[u] = IF u = {} THEN start ELSE AddStandard(c[u \ {Max(u)}], s[Max(u)])
    BY <1>1, <1>6, Zenon DEF StandardFolds
  <1> DEFINE g == [k \in 0..n |-> c[1..k]]
  <1>8. g[0] = start
    <2>1. 1..0 = {} /\ {} \in SUBSET (1..n) /\ 0 \in 0..n
      BY <1>1
    <2>2. QED
      BY <1>7, <2>1
  <1>9. ASSUME NEW k \in 1..n
        PROVE  g[k] = AddStandard(g[k - 1], s[k])
    <2>1. k \in 0..n /\ k - 1 \in 0..n
      BY <1>1
    <2>2. c[1..k] = AddStandard(c[1..(k - 1)], s[k])
      BY <1>1, <1>7, StepsOfSets
    <2>3. QED
      BY <2>1, <2>2
  <1>10. g[n] = c[1..n]
    BY <1>1
  <1> HIDE DEF g
  <1>11. \A k \in 0..n : g[k] \in S
    <2> DEFINE B == {k \in 0..n : g[k] \in S}
    <2>1. 0 \in B
      BY <1>1, <1>8
    <2>2. ASSUME NEW k \in 1..n, k - 1 \in B
          PROVE  k \in B
      <3>1. g[k - 1] \in S /\ k \in 0..n
        BY <1>1, <2>2
      <3>2. g[k] = AddStandard(g[k - 1], s[k])
        BY <1>9
      <3>3. AddStandard(g[k - 1], s[k]) \in S
        BY <1>2, <3>1, Zenon
      <3>4. QED
        BY <3>1, <3>2, <3>3
    <2>3. QED
      <3> HIDE DEF B
      <3>1. \A k \in 0..n : k \in B
        BY <1>1, <2>1, <2>2, BoundedInduction
      <3>2. QED
        BY <3>1 DEF B
  <1>12. \A k \in 1..n : k - 1 \in 0..n
    BY <1>1
  <1>13. \A k \in 1..n : g[k - 1] \in Seq(Holders) /\ g[k] = AddStandard(g[k - 1], s[k])
    BY <1>3, <1>9, <1>11, <1>12
  <1>14. g[n] \in Seq(Holders) /\ c[DOMAIN s] = g[n]
    BY <1>1, <1>3, <1>10, <1>11
  <1>15. QED
    BY <1>3, <1>8, <1>13, <1>14, Zenon DEF c

(* The fold that lists them.                                               *)
LEMMA StandardsAre ==
  ASSUME IInv
  PROVE  StdValuesChain \in Seq(Holders)
  <1>1. chain \in Seq(Known) /\ <<>> \in Seq(Holders)
    BY DEF IInv, WalkTypeOK
  <1>2. StdValuesChain = (CHOOSE it : StandardFolds(<<>>, chain, it))[DOMAIN chain]
    BY Zenon DEF StdValuesChain, FoldLeft, MapThenFoldSet, StandardFolds
  <1> HIDE DEF IInv
  <1>3. QED
    BY <1>1, <1>2, StandardSteps

(* Layers that say something, and the shared ones before the others.       *)
Entries(V) == [kind : {"shared", "final"}, item : Holders \cup {Page}, value : V]

Stacks(V) == Seq(Entries(V \ {NoLayout}))

SharedFirst(s) ==
  \A i, j \in DOMAIN s : i < j /\ s[j].kind = "shared" => s[i].kind = "shared"

(* A layer is passed over or comes on top.                                 *)
LEMMA LayerType ==
  ASSUME NEW V, NEW stack \in Stacks(V), NEW layer \in Entries(V)
  PROVE  AddLayer(stack, layer) \in Stacks(V)
  <1>1. layer.value # NoLayout => layer \in Entries(V \ {NoLayout})
    BY DEF Entries
  <1>2. QED
    BY <1>1 DEF AddLayer, Stacks

(* The layers in a row, those that say nothing passed over.                *)
LayersFolds(start, s, it) ==
  it = [u \in SUBSET DOMAIN s |->
         IF u = {} THEN start ELSE AddLayer(it[u \ {Max(u)}], s[Max(u)])]

(* The fold of collect_layers, one value after the other.                  *)
LEMMA LayersSteps ==
  ASSUME NEW V, NEW start \in Stacks(V), NEW s \in Seq(Entries(V))
  PROVE  \E g : /\ g[0] = start
                /\ \A k \in 1..Len(s) : g[k - 1] \in Stacks(V) /\ g[k] = AddLayer(g[k - 1], s[k])
                /\ g[Len(s)] \in Stacks(V)
                /\ (CHOOSE it : LayersFolds(start, s, it))[DOMAIN s] = g[Len(s)]
  <1> DEFINE n    == Len(s)
             S    == Stacks(V)
             step == [p \in S \X (1..n) |-> AddLayer(p[1], s[p[2]])]
             c    == CHOOSE it : LayersFolds(start, s, it)
  <1>1. n \in Nat /\ DOMAIN s = 1..n /\ start \in S /\ \A i \in 1..n : s[i] \in Entries(V)
    OBVIOUS
  <1>2. /\ step \in [S \X (1..n) -> S]
        /\ \A a \in S, i \in 1..n : step[<<a, i>>] = AddLayer(a, s[i]) /\ AddLayer(a, s[i]) \in S
    <2>1. \A a \in S, i \in 1..n : AddLayer(a, s[i]) \in S
      BY <1>1, LayerType
    <2>2. \A p \in S \X (1..n) : AddLayer(p[1], s[p[2]]) \in S
      BY <2>1
    <2>3. QED
      BY <2>1, <2>2
  <1>3. n = Len(s) /\ S = Stacks(V)
    OBVIOUS
  <1> HIDE DEF n, S, step, c
  <1>4. PICK it \in [SUBSET (1..n) -> S] : GoesByGreatest(it, n, start, step)
    BY <1>1, <1>2, SetRecursion
  <1>5. LayersFolds(start, s, it)
    <2>1. ASSUME NEW u \in SUBSET (1..n), u # {}
          PROVE  it[u] = AddLayer(it[u \ {Max(u)}], s[Max(u)])
      <3>1. Max(u) \in u
        BY <1>1, <2>1, GreatestExists
      <3>2. Max(u) \in 1..n /\ it[u \ {Max(u)}] \in S
        BY <1>4, <3>1
      <3>3. it[u] = step[<<it[u \ {Max(u)}], Max(u)>>]
        BY <1>4, <2>1 DEF GoesByGreatest
      <3>4. QED
        BY <1>2, <3>2, <3>3, Zenon
    <2>2. \A u \in SUBSET (1..n) :
            it[u] = IF u = {} THEN start ELSE AddLayer(it[u \ {Max(u)}], s[Max(u)])
      <3>1. {} \in SUBSET (1..n) /\ it[{}] = start
        BY <1>4 DEF GoesByGreatest
      <3>2. QED
        BY <2>1, <3>1
    <2>3. it = [u \in SUBSET (1..n) |-> it[u]]
      BY <1>4
    <2>4. QED
      BY <1>1, <2>2, <2>3, Zenon DEF LayersFolds
  <1>6. LayersFolds(start, s, c)
    BY <1>5, Zenon DEF c
  <1>7. \A u \in SUBSET (1..n) :
          c[u] = IF u = {} THEN start ELSE AddLayer(c[u \ {Max(u)}], s[Max(u)])
    BY <1>1, <1>6, Zenon DEF LayersFolds
  <1> DEFINE g == [k \in 0..n |-> c[1..k]]
  <1>8. g[0] = start
    <2>1. 1..0 = {} /\ {} \in SUBSET (1..n) /\ 0 \in 0..n
      BY <1>1
    <2>2. QED
      BY <1>7, <2>1
  <1>9. ASSUME NEW k \in 1..n
        PROVE  g[k] = AddLayer(g[k - 1], s[k])
    <2>1. k \in 0..n /\ k - 1 \in 0..n
      BY <1>1
    <2>2. c[1..k] = AddLayer(c[1..(k - 1)], s[k])
      BY <1>1, <1>7, StepsOfSets
    <2>3. QED
      BY <2>1, <2>2
  <1>10. g[n] = c[1..n]
    BY <1>1
  <1> HIDE DEF g
  <1>11. \A k \in 0..n : g[k] \in S
    <2> DEFINE B == {k \in 0..n : g[k] \in S}
    <2>1. 0 \in B
      BY <1>1, <1>8
    <2>2. ASSUME NEW k \in 1..n, k - 1 \in B
          PROVE  k \in B
      <3>1. g[k - 1] \in S /\ k \in 0..n
        BY <1>1, <2>2
      <3>2. g[k] = AddLayer(g[k - 1], s[k])
        BY <1>9
      <3>3. AddLayer(g[k - 1], s[k]) \in S
        BY <1>2, <3>1, Zenon
      <3>4. QED
        BY <3>1, <3>2, <3>3
    <2>3. QED
      <3> HIDE DEF B
      <3>1. \A k \in 0..n : k \in B
        BY <1>1, <2>1, <2>2, BoundedInduction
      <3>2. QED
        BY <3>1 DEF B
  <1>12. \A k \in 1..n : k - 1 \in 0..n
    BY <1>1
  <1>13. \A k \in 1..n : g[k - 1] \in Stacks(V) /\ g[k] = AddLayer(g[k - 1], s[k])
    BY <1>3, <1>9, <1>11, <1>12
  <1>14. g[n] \in Stacks(V) /\ c[DOMAIN s] = g[n]
    BY <1>1, <1>3, <1>10, <1>11
  <1>15. QED
    BY <1>3, <1>8, <1>13, <1>14, Zenon DEF c

(* The fold that stacks them keeps the shared ones first.                  *)
LEMMA StackIs ==
  ASSUME NEW V, NEW s \in Seq(Entries(V)), SharedFirst(s)
  PROVE  LET stack == FoldLeft(AddLayer, <<>>, s)
         IN  stack \in Stacks(V) /\ SharedFirst(stack)
  <1> DEFINE R     == Entries(V \ {NoLayout})
             n     == Len(s)
             stack == FoldLeft(AddLayer, <<>>, s)
  <1>1. n \in Nat /\ DOMAIN s = 1..n /\ <<>> \in Stacks(V) /\ \A k \in 1..n : s[k] \in Entries(V)
    BY DEF Stacks
  <1>2. stack = (CHOOSE it : LayersFolds(<<>>, s, it))[DOMAIN s]
    BY Zenon DEF FoldLeft, MapThenFoldSet, LayersFolds
  <1>3. n = Len(s)
    OBVIOUS
  <1> HIDE DEF n, stack
  <1>4. PICK g : /\ g[0] = <<>>
                 /\ \A k \in 1..n : g[k - 1] \in Stacks(V) /\ g[k] = AddLayer(g[k - 1], s[k])
                 /\ g[n] \in Stacks(V) /\ stack = g[n]
    BY <1>1, <1>2, <1>3, LayersSteps
  <1> HIDE DEF R
  <1> DEFINE Good(k) == /\ SharedFirst(g[k])
                        /\ \A i \in DOMAIN g[k] : \E j \in 1..k : s[j].kind = g[k][i].kind
             B == {k \in 0..n : Good(k)}
  <1>5. 0 \in B
    BY <1>1, <1>4 DEF SharedFirst
  <1>6. ASSUME NEW k \in 1..n, k - 1 \in B
        PROVE  k \in B
    <2> DEFINE a == g[k - 1]
               b == g[k]
               l == s[k]
    <2>1. Good(k - 1) /\ k \in 0..n
      <3> HIDE DEF Good
      <3>1. QED
        BY <1>1, <1>6
    <2>2. a \in Seq(R) /\ b = IF l.value = NoLayout THEN a ELSE Append(a, l)
      BY <1>4 DEF AddLayer, Stacks, R
    <2>3. SharedFirst(a) /\ \A i \in DOMAIN a : \E j \in 1..(k - 1) : s[j].kind = a[i].kind
      BY <2>1
    <2>4. \A j \in 1..(k - 1) : j \in 1..k /\ j \in 1..n /\ j < k
      BY <1>1
    <2> HIDE DEF a, b
    <2>5. CASE b = a
      <3>1. SharedFirst(b) /\ \A i \in DOMAIN b : \E j \in 1..k : s[j].kind = b[i].kind
        BY <2>3, <2>4, <2>5
      <3>2. QED
        BY <2>1, <3>1 DEF b
    <2>6. CASE b = Append(a, l)
      <3>1. /\ Len(a) \in Nat /\ DOMAIN a = 1..Len(a) /\ DOMAIN b = 1..(Len(a) + 1)
            /\ b[Len(a) + 1] = l /\ \A i \in 1..Len(a) : b[i] = a[i]
        BY <2>2, <2>6
      <3>2. \A i \in DOMAIN b : i \in DOMAIN a \/ i = Len(a) + 1
        BY <3>1
      <3>3. l.kind = "shared" => \A i \in DOMAIN a : a[i].kind = "shared"
        <4>1. SUFFICES ASSUME l.kind = "shared", NEW i \in DOMAIN a PROVE a[i].kind = "shared"
          OBVIOUS
        <4>2. PICK j \in 1..(k - 1) : s[j].kind = a[i].kind
          BY <2>3
        <4>3. QED
          BY <1>1, <2>4, <4>1, <4>2 DEF SharedFirst
      <3>4. SharedFirst(b)
        <4>1. SUFFICES ASSUME NEW i \in DOMAIN b, NEW j \in DOMAIN b, i < j, b[j].kind = "shared"
                       PROVE  b[i].kind = "shared"
          BY DEF SharedFirst
        <4>2. i \in DOMAIN a
          BY <3>1, <4>1
        <4>3. QED
          BY <2>3, <3>1, <3>2, <3>3, <4>1, <4>2 DEF SharedFirst
      <3>5. \A i \in DOMAIN b : \E j \in 1..k : s[j].kind = b[i].kind
        BY <2>3, <2>4, <3>1, <3>2
      <3>6. QED
        BY <2>1, <3>4, <3>5 DEF b
    <2>7. QED
      BY <2>2, <2>5, <2>6
  <1>7. n \in B
    <2>1. n \in 0..n
      BY <1>1
    <2> HIDE DEF B
    <2>2. QED
      BY <1>1, <1>5, <1>6, <2>1, BoundedInduction
  <1>8. SharedFirst(stack) /\ stack \in Stacks(V)
    BY <1>4, <1>7
  <1>9. QED
    BY <1>8 DEF stack

(* The layers of a page, whatever set its values are from.                 *)
DocumentsIn(V) ==
  /\ NoLayout \in V
  /\ \A item \in DOMAIN documents :
       /\ documents[item].shared \in V
       /\ \A v \in Versions : documents[item].final[v] \in V \cup {NoVersion}

(* The newest of some versions is one of them.                             *)
LEMMA NewestIs ==
  ASSUME NEW S, S \subseteq Versions, S # {}
  PROVE  Newest(S) \in S
  <1>1. MaxVersion \in Nat /\ S \in SUBSET (1..MaxVersion)
    BY PagesAssumption DEF Versions
  <1>2. Max(S) \in S /\ \A x \in S : Max(S) >= x
    BY <1>1, GreatestExists
  <1>3. \A x \in S : x <= Max(S)
    BY <1>2
  <1>4. QED
    BY <1>2, <1>3, Zenon DEF Newest

(* Whatever a layer is made of is a value of the documents.                *)
LEMMA ValuesAre ==
  ASSUME NEW V, DocumentsIn(V), NEW item, NEW version
  PROVE  /\ SharedOf(item) \in V
         /\ FinalAtMost(item, version) \in V
         /\ FinalExact(item, version) \in V
  <1>1. SharedOf(item) \in V
    BY DEF SharedOf, DocumentsIn
  <1>2. FinalExact(item, version) \in V
    BY DEF FinalExact, ExistingVersions, DocumentsIn
  <1>3. FinalAtMost(item, version) \in V
    <2> DEFINE older == {v \in ExistingVersions(item) : v <= version}
               v     == Newest(older)
    <2>1. FinalAtMost(item, version) = IF older = {} THEN NoLayout ELSE documents[item].final[v]
      BY DEF FinalAtMost
    <2>2. older \subseteq Versions
      BY DEF ExistingVersions
    <2>3. older # {} => v \in older
      <3> HIDE DEF older
      <3>1. QED
        BY <2>2, NewestIs
    <2>4. older # {} => v \in Versions /\ item \in DOMAIN documents /\ documents[item].final[v] # NoVersion
      <3> HIDE DEF v
      <3>1. QED
        BY <2>3 DEF ExistingVersions
    <2> HIDE DEF older, v
    <2>5. QED
      BY <2>1, <2>4 DEF DocumentsIn
  <1>4. QED
    BY <1>1, <1>2, <1>3

KindIs(s, kind) == \A i \in DOMAIN s : s[i].kind = kind

(* Layers of one kind after each other.                                    *)
LEMMA JoinedKinds ==
  ASSUME NEW R, NEW s \in Seq(R), NEW t \in Seq(R)
  PROVE  /\ s \o t \in Seq(R)
         /\ \A kind : KindIs(s, kind) /\ KindIs(t, kind) => KindIs(s \o t, kind)
         /\ SharedFirst(s) /\ KindIs(t, "final") => SharedFirst(s \o t)
  <1> DEFINE b == s \o t
             m == Len(s)
             n == Len(t)
  <1>1. /\ DOMAIN s = 1..m /\ m \in Nat /\ DOMAIN t = 1..n /\ n \in Nat
        /\ b \in Seq(R) /\ DOMAIN b = 1..(m + n)
        /\ \A i \in 1..(m + n) : b[i] = IF i <= m THEN s[i] ELSE t[i - m]
    OBVIOUS
  <1> HIDE DEF b, m, n
  <1>2. \A i \in DOMAIN b : (i \in DOMAIN s /\ i <= m /\ b[i] = s[i])
                            \/ (i > m /\ i - m \in DOMAIN t /\ b[i] = t[i - m])
    BY <1>1
  <1>3. \A kind : KindIs(s, kind) /\ KindIs(t, kind) => KindIs(b, kind)
    BY <1>2 DEF KindIs
  <1>4. ASSUME SharedFirst(s), KindIs(t, "final")
        PROVE  SharedFirst(b)
    <2>1. SUFFICES ASSUME NEW i \in DOMAIN b, NEW j \in DOMAIN b, i < j, b[j].kind = "shared"
                   PROVE  b[i].kind = "shared"
      BY DEF SharedFirst
    <2>2. j \in DOMAIN s /\ j <= m /\ b[j] = s[j]
      BY <1>2, <1>4, <2>1 DEF KindIs
    <2>3. i \in DOMAIN s /\ b[i] = s[i]
      BY <1>1, <1>2, <2>1, <2>2
    <2>4. QED
      BY <1>4, <2>1, <2>2, <2>3 DEF SharedFirst
  <1>5. QED
    BY <1>1, <1>3, <1>4 DEF b

(* collect_layers: the layers of a page are values of its documents, the   *)
(* shared ones first.                                                      *)
LEMMA LayersAre ==
  ASSUME NEW V, IInv, DocumentsIn(V), NEW version
  PROVE  LayersAt(version) \in Stacks(V) /\ SharedFirst(LayersAt(version))
  <1> DEFINE R   == Entries(V)
             std == Reverse(StdValuesChain)
             n   == Len(std)
             A   == [i \in 1..n |-> Layer("shared", std[i], SharedOf(std[i]))]
             B   == <<Layer("shared", Page, SharedOf(Page))>>
             C   == [i \in 1..n |-> Layer("final", std[i], FinalAtMost(std[i], version))]
             D   == <<Layer("final", Page, FinalExact(Page, version))>>
             all == A \o B \o C \o D
  <1>1. n \in Nat /\ \A i \in 1..n : std[i] \in Holders
    <2> DEFINE s == StdValuesChain
    <2>1. s \in Seq(Holders)
      BY StandardsAre
    <2> HIDE DEF s
    <2>2. Reverse(s) \in Seq(Holders)
      BY <2>1 DEF Reverse
    <2>3. std \in Seq(Holders)
      BY <2>2 DEF s
    <2> HIDE DEF std
    <2>4. QED
      BY <2>3
  <1> HIDE DEF std, n
  <1>2. \A kind \in {"shared", "final"}, item \in Holders \cup {Page}, value \in V :
          Layer(kind, item, value) \in R /\ Layer(kind, item, value).kind = kind
    BY DEF Layer, Entries
  <1>3. /\ A \in Seq(R) /\ KindIs(A, "shared")
        /\ B \in Seq(R) /\ KindIs(B, "shared")
        /\ C \in Seq(R) /\ KindIs(C, "final")
        /\ D \in Seq(R) /\ KindIs(D, "final")
    <2> HIDE DEF R
    <2>1. \A i \in 1..n : /\ Layer("shared", std[i], SharedOf(std[i])) \in R
                          /\ Layer("shared", std[i], SharedOf(std[i])).kind = "shared"
                          /\ Layer("final", std[i], FinalAtMost(std[i], version)) \in R
                          /\ Layer("final", std[i], FinalAtMost(std[i], version)).kind = "final"
      BY <1>1, <1>2, ValuesAre
    <2>2. /\ Layer("shared", Page, SharedOf(Page)) \in R
          /\ Layer("shared", Page, SharedOf(Page)).kind = "shared"
          /\ Layer("final", Page, FinalExact(Page, version)) \in R
          /\ Layer("final", Page, FinalExact(Page, version)).kind = "final"
      BY <1>2, ValuesAre
    <2>3. A \in Seq(R) /\ KindIs(A, "shared")
      BY <1>1, <2>1 DEF KindIs
    <2>4. C \in Seq(R) /\ KindIs(C, "final")
      BY <1>1, <2>1 DEF KindIs
    <2>5. B \in Seq(R) /\ KindIs(B, "shared")
      BY <2>2 DEF KindIs
    <2>6. D \in Seq(R) /\ KindIs(D, "final")
      BY <2>2 DEF KindIs
    <2>7. QED
      BY <2>3, <2>4, <2>5, <2>6
  <1>4. LayersAt(version) = FoldLeft(AddLayer, <<>>, all)
    BY Zenon DEF LayersAt, std, n
  <1> HIDE DEF A, B, C, D
  <1>5. A \o B \in Seq(R) /\ KindIs(A \o B, "shared")
    BY <1>3, JoinedKinds
  <1>6. SharedFirst(A \o B)
    BY <1>5, Zenon DEF KindIs, SharedFirst
  <1>7. A \o B \o C \in Seq(R) /\ SharedFirst(A \o B \o C)
    BY <1>3, <1>5, <1>6, JoinedKinds
  <1>8. all \in Seq(R) /\ SharedFirst(all)
    BY <1>3, <1>7, JoinedKinds
  <1> HIDE DEF all
  <1>9. QED
    BY <1>4, <1>8, StackIs DEF Stacks

-----------------------------------------------------------------------------
(* The merge goes layer by layer: layers that were applied are layouts, and *)
(* there is a layout as soon as one was.                                   *)
MergeInv ==
  /\ IInv /\ TypeOK
  /\ stage = "walk" => layers = <<>>
  /\ SharedFirst(layers)
  /\ \A i \in 1..applied : layers[i].value \in Layouts
  /\ merged = NoLayout <=> applied = 0

(* What one more layer does to a merge.                                    *)
Applied(layer, next) ==
  /\ applied > 0 /\ next \in Merges
  /\ merged' = next.layout /\ notes' = notes \o next.notes
  /\ About({d.id : d \in Range(layer.value)}, next.notes)
  /\ Always(merged, merged', Range(layer.value))
  /\ OnceEach(merged) /\ OnceEach(layer.value) =>
       Kept(merged, merged', Range(layer.value), Range(next.notes))

Advances(layer) ==
  /\ applied + 1 \in DOMAIN layers /\ layer = layers[applied + 1]
  /\ layer.value \in Layouts /\ applied' = applied + 1
  /\ sharedMerged' = IF layer.kind = "shared" THEN merged' ELSE sharedMerged
  /\ \/ applied = 0 /\ merged' = layer.value /\ notes' = notes
     \/ \E next : Applied(layer, next)

(* merge_layers ends at a layer that is no layout, or takes it in.         *)
LEMMA LayerAdvances ==
  ASSUME MergeInv, ApplyLayer
  PROVE  /\ layers' = layers
         /\ \/ UNCHANGED <<applied, merged, sharedMerged, notes>> /\ stage' = "malformed"
            \/ stage' = stage /\ \E layer : Advances(layer)
  <1> DEFINE layer == layers[applied + 1]
             first == [layout |-> layer.value, notes |-> <<>>]
             next  == IF applied = 0 THEN first ELSE ApplyDelta(merged, layer.value)
  <1>1. /\ layers \in Seq(Entries(Layouts \cup {Malformed})) /\ Len(layers) \in Nat
        /\ DOMAIN layers = 1..Len(layers) /\ applied \in 0..Len(layers)
        /\ merged \in Layouts \cup {NoLayout} /\ notes \in Seq(Notes)
    BY DEF MergeInv, TypeOK, Entries
  <1>2. /\ applied < Len(layers) /\ layers' = layers
        /\ IF layer.value = Malformed
             THEN stage' = "malformed" /\ UNCHANGED <<applied, merged, sharedMerged, notes>>
             ELSE /\ applied' = applied + 1 /\ merged' = next.layout
                  /\ notes' = notes \o next.notes /\ stage' = stage
                  /\ sharedMerged' = IF layer.kind = "shared" THEN next.layout ELSE sharedMerged
    BY DEF ApplyLayer
  <1>3. applied + 1 \in DOMAIN layers
    BY <1>1, <1>2
  <1>4. layer.value \in Layouts \cup {Malformed}
    <2> DEFINE W == Layouts \cup {Malformed}
    <2>1. layers \in Seq(Entries(W)) /\ applied + 1 \in DOMAIN layers
      BY <1>1, <1>3
    <2> HIDE DEF W
    <2>2. layer \in Entries(W)
      BY <2>1
    <2>3. layer.value \in W
      <3> HIDE DEF layer
      <3>1. QED
        BY <2>2 DEF Entries
    <2>4. QED
      BY <2>3 DEF W
  <1>5. CASE layer.value = Malformed
    BY <1>2, <1>5
  <1>6. CASE layer.value # Malformed /\ applied = 0
    <2>1. next.layout = layer.value /\ next.notes = <<>>
      BY <1>6
    <2>2. notes \o <<>> = notes
      BY <1>1
    <2> HIDE DEF next, layer
    <2>3. Advances(layer)
      BY <1>2, <1>3, <1>4, <1>6, <2>1, <2>2 DEF Advances, layer
    <2>4. QED
      BY <1>2, <1>6, <2>3
  <1>7. CASE layer.value # Malformed /\ applied # 0
    <2>1. merged \in Layouts /\ applied > 0 /\ layer.value \in Layouts
      BY <1>1, <1>4, <1>7 DEF MergeInv
    <2>2. next = ApplyDelta(merged, layer.value)
      BY <1>7
    <2>3. merged' = next.layout /\ notes' = notes \o next.notes
      BY <1>2, <1>7
    <2> HIDE DEF next
    <2>4. /\ next \in Merges
          /\ About({d.id : d \in Range(layer.value)}, next.notes)
          /\ Always(merged, next.layout, Range(layer.value))
          /\ OnceEach(merged) /\ OnceEach(layer.value) =>
               Kept(merged, next.layout, Range(layer.value), Range(next.notes))
      <3> HIDE DEF layer
      <3>1. QED
        BY <2>1, <2>2, DeltaIs, DeltaNotes
    <2> HIDE DEF layer
    <2>5. Applied(layer, next)
      BY <2>1, <2>3, <2>4 DEF Applied
    <2>6. Advances(layer)
      BY <1>2, <1>3, <1>7, <2>1, <2>3, <2>5 DEF Advances, layer
    <2>7. QED
      BY <1>2, <1>7, <2>6
  <1>8. QED
    BY <1>5, <1>6, <1>7

(* The documents have layout values.                                       *)
LEMMA VersionIs ==
  ASSUME TypeOK
  PROVE  DocumentsIn(LayoutValues)
  BY DEF TypeOK, Documents, DocumentsIn, LayoutValues

(* It holds before the walk.                                               *)
LEMMA MergeInitially ==
  ASSUME Init
  PROVE  MergeInv
  <1>1. IInv
    BY InitHolds DEF Init
  <1>2. TypeOK
    BY <1>1, PagesAssumption DEF Init, TypeOK, IInv
  <1>3. QED
    BY <1>1, <1>2 DEF Init, MergeInv, SharedFirst

(* Walking, collecting and merging keep it.                                *)
LEMMA MergeStep ==
  ASSUME MergeInv, [Next]_vars
  PROVE  MergeInv'
  <1>1. IInv'
    <2>1. [WalkNext]_walkVars
      BY DEF Next, Walk, CollectLayers, ApplyLayer, vars, walkVars
    <2>2. QED
      BY <2>1, EnterStep, NoteStep, SkipStep, StutterStep DEF MergeInv, WalkNext
  <1>2. WalkTypeOK'
    BY <1>1 DEF IInv
  <1>3. CASE UNCHANGED pageVars
    BY <1>1, <1>2, <1>3 DEF MergeInv, TypeOK, pageVars, SharedFirst
  <1>4. CASE CollectLayers
    <2>1. layers' = LayersAt(VersionOf(requested)) /\ stage' = "merge"
      BY <1>4 DEF CollectLayers
    <2>2. /\ LayersAt(VersionOf(requested)) \in Stacks(LayoutValues)
          /\ SharedFirst(LayersAt(VersionOf(requested)))
      BY VersionIs, LayersAre DEF MergeInv
    <2>3. layers' \in Seq(Entries(Layouts \cup {Malformed}))
      <3> DEFINE V == LayoutValues \ {NoLayout}
                 W == Layouts \cup {Malformed}
      <3>1. V \subseteq W
        BY DEF LayoutValues
      <3>2. layers' \in Seq(Entries(V))
        BY <2>1, <2>2 DEF Stacks
      <3> HIDE DEF V, W
      <3>3. Entries(V) \subseteq Entries(W)
        BY <3>1 DEF Entries
      <3>4. layers' \in Seq(Entries(W))
        BY <3>2, <3>3
      <3>5. QED
        BY <3>4 DEF W
    <2>4. applied = 0 /\ applied' = 0
      BY <1>4 DEF MergeInv, TypeOK, CollectLayers
    <2>5. SharedFirst(layers')
      BY <2>1, <2>2
    <2>6. TypeOK'
      BY <1>2, <1>4, <2>1, <2>3, <2>4 DEF MergeInv, TypeOK, CollectLayers, Entries
    <2>7. QED
      BY <1>1, <1>4, <2>1, <2>4, <2>5, <2>6 DEF MergeInv, CollectLayers, SharedFirst
  <1>5. CASE ApplyLayer
    <2>1. /\ layers' = layers
          /\ \/ UNCHANGED <<applied, merged, sharedMerged, notes>> /\ stage' = "malformed"
             \/ stage' = stage /\ \E layer : Advances(layer)
      BY <1>5, LayerAdvances
    <2>2. UNCHANGED <<documents, requested>> /\ stage = "merge"
      BY <1>5 DEF ApplyLayer
    <2>3. CASE UNCHANGED <<applied, merged, sharedMerged, notes>> /\ stage' = "malformed"
      BY <1>1, <1>2, <2>1, <2>2, <2>3 DEF MergeInv, TypeOK, SharedFirst
    <2>4. ASSUME stage' = stage, NEW layer, Advances(layer)
          PROVE  MergeInv'
      <3>1. /\ applied + 1 \in DOMAIN layers /\ layer.value \in Layouts /\ applied' = applied + 1
            /\ layer = layers[applied + 1]
            /\ sharedMerged' = IF layer.kind = "shared" THEN merged' ELSE sharedMerged
        BY <2>4 DEF Advances
      <3>2. merged' \in Layouts /\ notes' \in Seq(Notes)
        <4>1. CASE applied = 0 /\ merged' = layer.value /\ notes' = notes
          BY <3>1, <4>1 DEF MergeInv, TypeOK
        <4>2. ASSUME NEW next, Applied(layer, next)
              PROVE  merged' \in Layouts /\ notes' \in Seq(Notes)
          <5>1. notes \in Seq(Notes) /\ next.notes \in Seq(Notes) /\ next.layout \in Layouts
            BY <4>2 DEF Applied, Merges, MergeInv, TypeOK
          <5>2. QED
            BY <4>2, <5>1 DEF Applied
        <4>3. QED
          BY <2>4, <4>1, <4>2, Zenon DEF Advances
      <3>3. applied' \in 0..Len(layers') /\ applied' > 0 /\ applied \in Nat
        BY <2>1, <3>1 DEF MergeInv, TypeOK
      <3>4. TypeOK'
        BY <1>2, <2>1, <2>2, <2>4, <3>1, <3>2, <3>3 DEF MergeInv, TypeOK
      <3>5. \A i \in 1..applied' : layers'[i].value \in Layouts
        <4>1. \A i \in 1..applied' : i \in 1..applied \/ i = applied + 1
          BY <3>1, <3>3
        <4>2. QED
          BY <2>1, <3>1, <4>1 DEF MergeInv
      <3>6. merged' # NoLayout
        BY <3>2, PagesAssumption
      <3>7. QED
        BY <1>1, <2>1, <2>2, <2>4, <3>3, <3>4, <3>5, <3>6 DEF MergeInv, SharedFirst
    <2>5. QED
      BY <2>1, <2>3, <2>4
  <1>6. QED
    BY <1>3, <1>4, <1>5 DEF Next, Walk, vars

(* Steps other than that of a layer, seen from the merge.                  *)
LEMMA OtherSteps ==
  ASSUME MergeInv, [Next]_vars
  PROVE  \/ UNCHANGED <<layers, applied, merged, sharedMerged, notes>>
         \/ applied = 0 /\ UNCHANGED <<applied, merged, sharedMerged, notes>>
         \/ layers' = layers /\ \E layer : Advances(layer)
  <1>1. CASE UNCHANGED pageVars
    BY <1>1 DEF pageVars
  <1>2. CASE CollectLayers
    BY <1>2 DEF CollectLayers, MergeInv, TypeOK
  <1>3. CASE ApplyLayer
    BY <1>3, LayerAdvances
  <1>4. QED
    BY <1>1, <1>2, <1>3 DEF Next, Walk, vars

(* So it always holds.                                                     *)
LEMMA MergeInvariance == Spec => []MergeInv
  BY MergeInitially, MergeStep, PTL DEF Spec

(* The variables of the resolution keep their types, for every page, every *)
(* set of layouts and every template index: what is merged is a layout,    *)
(* and only layers that are layouts are merged (merge_layers).             *)
THEOREM PageTypes == Spec => []TypeOK
  BY MergeInvariance, PTL DEF MergeInv

-----------------------------------------------------------------------------
(* Devices are never dropped: those of the merge are those of its layers.  *)
Mentioned(id) == \E i \in 1..applied : HasDevice(layers[i].value, id)

DevicesInv == applied > 0 => \A id : HasDevice(merged, id) <=> Mentioned(id)

(* The layers that were applied, and one more.                             *)
LEMMA UptoNext ==
  ASSUME MergeInv, layers' = layers, NEW layer, Advances(layer)
  PROVE  /\ applied \in Nat /\ applied' = applied + 1 /\ applied + 1 \in 1..applied'
         /\ layers'[applied + 1] = layer
         /\ \A i : i \in 1..applied' <=> i \in 1..applied \/ i = applied + 1
         /\ \A i \in 1..applied : layers'[i] = layers[i]
  <1>1. applied \in Nat /\ applied' = applied + 1 /\ layer = layers[applied + 1]
    BY DEF MergeInv, TypeOK, Advances
  <1>2. QED
    BY <1>1

(* A delta leaves no device out and invents none.                          *)
LEMMA DevicesStep ==
  ASSUME MergeInv, DevicesInv, [Next]_vars
  PROVE  DevicesInv'
  <1>1. CASE UNCHANGED <<layers, applied, merged, sharedMerged, notes>>
    BY <1>1 DEF DevicesInv, Mentioned
  <1>2. CASE applied = 0 /\ UNCHANGED <<applied, merged, sharedMerged, notes>>
    BY <1>2 DEF DevicesInv
  <1>3. ASSUME layers' = layers, NEW layer, Advances(layer)
        PROVE  DevicesInv'
    <2>1. /\ applied \in Nat /\ applied' = applied + 1
          /\ layers'[applied + 1] = layer
          /\ \A i : i \in 1..applied' <=> i \in 1..applied \/ i = applied + 1
          /\ \A i \in 1..applied : layers'[i] = layers[i]
      BY <1>3, UptoNext
    <2>2. \A id : Mentioned(id)' <=> Mentioned(id) \/ HasDevice(layer.value, id)
      BY <2>1 DEF Mentioned
    <2>3. CASE applied = 0 /\ merged' = layer.value
      <3>1. \A id : ~Mentioned(id)
        BY <2>3 DEF Mentioned
      <3>2. QED
        BY <2>2, <2>3, <3>1 DEF DevicesInv
    <2>4. ASSUME NEW next, Applied(layer, next)
          PROVE  DevicesInv'
      <3>1. /\ applied > 0
            /\ \A id : HasDevice(merged', id) <=>
                 HasDevice(merged, id) \/ \E e \in Range(layer.value) : e.id = id
        BY <2>4 DEF Applied, Always
      <3>2. \A id : HasDevice(layer.value, id) <=> \E e \in Range(layer.value) : e.id = id
        BY HasInRange, Zenon
      <3>3. \A id : HasDevice(merged, id) <=> Mentioned(id)
        BY <3>1 DEF DevicesInv
      <3>4. QED
        BY <2>2, <3>1, <3>2, <3>3 DEF DevicesInv
    <2>5. QED
      BY <1>3, <2>3, <2>4, Zenon DEF Advances
  <1>4. QED
    BY <1>1, <1>2, <1>3, OtherSteps, Zenon

(* A layer brings a uid twice, and was not patched into what was there.    *)
Twin(i, id) ==
  \E e \in Range(layers[i].value) :
    /\ e.id = id /\ ~UniqueUids(e.rs)
    /\ IsReplaceMode(e) \/ \A j \in 1..(i - 1) : ~HasDevice(layers[j].value, id)

UidsInv ==
  merged # NoLayout =>
    \A d \in Range(merged) : UniqueUids(d.rs) \/ \E i \in 1..applied : Twin(i, d.id)

(* A delta has no uid twice but by Twin.                                   *)
LEMMA UidsStep ==
  ASSUME MergeInv, DevicesInv, UidsInv, [Next]_vars
  PROVE  UidsInv'
  <1>1. CASE UNCHANGED <<layers, applied, merged, sharedMerged, notes>>
    BY <1>1 DEF UidsInv, Twin
  <1>2. CASE applied = 0 /\ UNCHANGED <<applied, merged, sharedMerged, notes>>
    BY <1>2 DEF UidsInv, MergeInv
  <1>3. ASSUME layers' = layers, NEW layer, Advances(layer)
        PROVE  UidsInv'
    <2>1. /\ applied \in Nat /\ applied' = applied + 1
          /\ layers'[applied + 1] = layer
          /\ \A i : i \in 1..applied' <=> i \in 1..applied \/ i = applied + 1
      BY <1>3, UptoNext
    <2>2. \A i, id : Twin(i, id)' <=> Twin(i, id)
      BY <1>3 DEF Twin
    <2>3. ASSUME NEW e \in Range(layer.value), ~UniqueUids(e.rs),
                 IsReplaceMode(e) \/ ~Mentioned(e.id)
          PROVE  Twin(applied + 1, e.id)
      <3>1. layers[applied + 1] = layer /\ (applied + 1) - 1 = applied
        BY <1>3, <2>1
      <3>2. IsReplaceMode(e) \/ \A j \in 1..((applied + 1) - 1) : ~HasDevice(layers[j].value, e.id)
        BY <2>3, <3>1 DEF Mentioned
      <3>3. QED
        BY <2>3, <3>1, <3>2, Zenon DEF Twin
    <2>4. CASE applied = 0 /\ merged' = layer.value
      <3>1. \A id : ~Mentioned(id)
        BY <2>4 DEF Mentioned
      <3>2. QED
        BY <2>1, <2>2, <2>3, <2>4, <3>1 DEF UidsInv
    <2>5. ASSUME NEW next, Applied(layer, next)
          PROVE  UidsInv'
      <3>1. /\ applied > 0
            /\ \A d \in Range(merged') : UniqueUids(d.rs) \/ Excused(merged, Range(layer.value), d.id)
        BY <2>5 DEF Applied, Always
      <3>2. merged # NoLayout /\ \A id : HasDevice(merged, id) <=> Mentioned(id)
        BY <3>1 DEF DevicesInv, MergeInv
      <3>3. ASSUME NEW id, Excused(merged, Range(layer.value), id)
            PROVE  \E i \in 1..applied' : Twin(i, id)'
        <4>1. CASE \E b \in Range(merged) : b.id = id /\ ~UniqueUids(b.rs)
          BY <2>1, <2>2, <3>2, <4>1 DEF UidsInv
        <4>2. ASSUME NEW e \in Range(layer.value), e.id = id, ~UniqueUids(e.rs),
                     IsReplaceMode(e) \/ ~HasDevice(merged, id)
              PROVE  \E i \in 1..applied' : Twin(i, id)'
          <5>1. Twin(applied + 1, id)
            BY <2>3, <3>2, <4>2
          <5>2. QED
            BY <2>1, <2>2, <5>1
        <4>3. QED
          BY <3>3, <4>1, <4>2, Zenon DEF Excused
      <3>4. QED
        BY <3>1, <3>3 DEF UidsInv
    <2>6. QED
      BY <1>3, <2>4, <2>5, Zenon DEF Advances
  <1>4. QED
    BY <1>1, <1>2, <1>3, OtherSteps, Zenon

(* However many layers patch a device, in whatever order and with whatever *)
(* positions, a uid names one rendering of it, unless one layer gives the  *)
(* device whole with a uid twice (apply_delta; patch_device).              *)
THEOREM UidsAreUnique == Spec => []UidsStayUnique
  <1>1. Init => DevicesInv /\ UidsInv
    BY DEF Init, DevicesInv, UidsInv
  <1>2. MergeInv /\ UidsInv => UidsStayUnique
    <2>1. SUFFICES ASSUME MergeInv, UidsInv, merged # NoLayout, NEW d \in Range(merged),
                          ~UniqueUids(d.rs)
                   PROVE  \E i \in 1..applied : \E e \in Range(layers[i].value) :
                            /\ e.id = d.id /\ ~UniqueUids(e.rs)
                            /\ \/ IsReplaceMode(e)
                               \/ \A j \in 1..(i - 1) : DeviceAt(layers[j].value, d.id) = 0
      BY DEF UidsStayUnique
    <2>2. PICK i \in 1..applied : Twin(i, d.id)
      BY <2>1 DEF UidsInv
    <2>3. \A j \in 1..(i - 1) : layers[j].value \in Layouts
      BY <2>1 DEF MergeInv, TypeOK
    <2>4. \A j \in 1..(i - 1) : ~HasDevice(layers[j].value, d.id) => DeviceAt(layers[j].value, d.id) = 0
      BY <2>3, DeviceAtIs DEF HasDevice
    <2>5. QED
      BY <2>2, <2>4 DEF Twin
  <1>3. QED
    BY <1>1, <1>2, MergeInvariance, DevicesStep, UidsStep, PTL DEF Spec

-----------------------------------------------------------------------------
(* When no layout names a device twice, no merge does.                     *)
OnceValues == {v \in LayoutValues : v \in Layouts => OnceEach(v)}

OnceInv ==
  /\ DocumentsIn(OnceValues)
  /\ \A i \in DOMAIN layers : layers[i].value \in Layouts => OnceEach(layers[i].value)
  /\ merged # NoLayout => OnceEach(merged)

(* Pages are like this at first.                                           *)
LEMMA OnceInitially ==
  ASSUME DevicesOnce, Init
  PROVE  OnceInv
  <1>1. /\ documents \in Pages
        /\ \A item \in DOMAIN documents : documents[item] \in Documents
    BY PagesAssumption DEF Init
  <1>2. NoLayout \in OnceValues
    BY PagesAssumption DEF OnceValues, LayoutValues
  <1>3. ASSUME NEW item \in DOMAIN documents
        PROVE  /\ documents[item].shared \in OnceValues
               /\ \A v \in Versions : documents[item].final[v] \in OnceValues \cup {NoVersion}
    <2>1. /\ documents[item].shared \in LayoutValues
          /\ \A v \in Versions : documents[item].final[v] \in LayoutValues \cup {NoVersion}
      BY <1>1 DEF Documents
    <2>2. \A value \in {documents[item].shared} \cup {documents[item].final[v] : v \in Versions} :
            value \in Layouts => OnceEach(value)
      BY <1>1, Zenon DEF DevicesOnce
    <2>3. QED
      BY <2>1, <2>2 DEF OnceValues
  <1>4. DocumentsIn(OnceValues)
    BY <1>2, <1>3 DEF DocumentsIn
  <1>5. QED
    BY <1>4 DEF Init, OnceInv

(* And the layers and the merge stay so.                                   *)
LEMMA OnceStep ==
  ASSUME MergeInv, OnceInv, [Next]_vars
  PROVE  OnceInv'
  <1>1. DocumentsIn(OnceValues)'
    BY DEF OnceInv, DocumentsIn, Next, Walk, CollectLayers, ApplyLayer, vars, pageVars
  <1>2. CASE UNCHANGED pageVars
    BY <1>1, <1>2 DEF OnceInv, pageVars
  <1>3. CASE CollectLayers
    <2> DEFINE V == OnceValues \ {NoLayout}
    <2>1. layers' \in Seq(Entries(V)) /\ merged' = merged
      BY <1>3, LayersAre DEF CollectLayers, OnceInv, MergeInv, Stacks
    <2> HIDE DEF V
    <2>2. \A i \in DOMAIN layers' : layers'[i].value \in V
      <3>1. \A i \in DOMAIN layers' : layers'[i] \in Entries(V)
        BY <2>1
      <3>2. \A l \in Entries(V) : l.value \in V
        BY DEF Entries
      <3>3. QED
        BY <3>1, <3>2, Zenon
    <2>3. QED
      BY <1>1, <2>1, <2>2 DEF OnceInv, OnceValues, V
  <1>4. CASE ApplyLayer
    <2>1. layers' = layers /\ (merged' = merged \/ \E layer : Advances(layer))
      BY <1>4, LayerAdvances
    <2>2. ASSUME NEW layer, Advances(layer)
          PROVE  OnceEach(merged')
      <3>1. OnceEach(layer.value)
        BY <2>2 DEF Advances, OnceInv
      <3>2. ASSUME NEW next, Applied(layer, next)
            PROVE  OnceEach(merged')
        BY <3>2 DEF Applied, Always, OnceInv, MergeInv
      <3>3. QED
        BY <2>2, <3>1, <3>2 DEF Advances
    <2>3. QED
      BY <1>1, <2>1, <2>2 DEF OnceInv
  <1>5. QED
    BY <1>2, <1>3, <1>4 DEF Next, Walk, vars

(* In such a layout the first device of an id is the only one.             *)
LEMMA OnlyDevice ==
  ASSUME NEW layout \in Layouts, OnceEach(layout), NEW d \in Range(layout)
  PROVE  DeviceAt(layout, d.id) \in DOMAIN layout /\ layout[DeviceAt(layout, d.id)] = d
  <1>1. PICK k \in DOMAIN layout : layout[k] = d
    BY DEF Range
  <1> DEFINE at == DeviceAt(layout, d.id)
  <1>2. /\ at \in 0..Len(layout)
        /\ at = 0 <=> \A j \in DOMAIN layout : layout[j].id # d.id
        /\ at > 0 => layout[at].id = d.id
    BY DeviceAtIs
  <1>3. DOMAIN layout = 1..Len(layout) /\ Len(layout) \in Nat
    BY DEF Layouts
  <1> HIDE DEF at
  <1>4. at \in DOMAIN layout /\ layout[at].id = d.id
    BY <1>1, <1>2, <1>3
  <1>5. at = k
    BY <1>1, <1>4 DEF OnceEach
  <1>6. QED
    BY <1>1, <1>4, <1>5 DEF at

-----------------------------------------------------------------------------
(* What a layer says of a device is in the merge or noted, unless a later  *)
(* layer replaced the device.                                              *)
SaidOf(e) ==
  \E d \in Range(merged) : d.id = e.id /\ SaidIn(Range(e.rs), d.rs, e.id, Range(notes))

DroppedInv ==
  \A i \in 2..applied : \A e \in Range(layers[i].value) : ReplacedBy(i, applied, e.id) \/ SaidOf(e)

(* A layer replaces, keeps or notes what those below it say.               *)
LEMMA DroppedStep ==
  ASSUME MergeInv, OnceInv, DroppedInv, [Next]_vars
  PROVE  DroppedInv'
  <1>1. CASE UNCHANGED <<layers, applied, merged, sharedMerged, notes>>
    BY <1>1 DEF DroppedInv, ReplacedBy, SaidOf
  <1>2. CASE applied = 0 /\ UNCHANGED <<applied, merged, sharedMerged, notes>>
    BY <1>2 DEF DroppedInv
  <1>3. ASSUME layers' = layers, NEW layer, Advances(layer)
        PROVE  DroppedInv'
    <2>1. /\ applied \in Nat /\ applied' = applied + 1 /\ layers[applied + 1] = layer
          /\ \A i : i \in 2..applied' => i \in 2..applied \/ i = applied + 1
      BY <1>3, UptoNext
    <2>2. CASE applied = 0
      BY <2>1, <2>2 DEF DroppedInv
    <2>3. ASSUME NEW next, Applied(layer, next)
          PROVE  DroppedInv'
      <3>1. /\ OnceEach(merged) /\ OnceEach(layer.value)
            /\ notes \in Seq(Notes) /\ next.notes \in Seq(Notes) /\ notes' = notes \o next.notes
        BY <1>3, <2>3 DEF Applied, Advances, OnceInv, MergeInv, TypeOK, Merges
      <3>2. Kept(merged, merged', Range(layer.value), Range(next.notes))
        BY <2>3, <3>1 DEF Applied
      <3>3. Range(notes') = Range(notes) \cup Range(next.notes)
        BY <3>1, RangeOfBoth
      <3>4. ASSUME NEW e \in Range(layer.value)
            PROVE  SaidOf(e)'
        <4>1. PICK d \in Range(merged') :
                d.id = e.id /\ SaidIn(Range(e.rs), d.rs, e.id, Range(next.notes))
          BY <3>2, Zenon DEF Kept
        <4>2. SaidIn(Range(e.rs), d.rs, e.id, Range(notes'))
          BY <3>3, <4>1 DEF SaidIn
        <4>3. QED
          BY <4>1, <4>2 DEF SaidOf
      <3>5. ASSUME NEW i \in 2..applied, NEW e, ReplacedBy(i, applied, e.id)
            PROVE  ReplacedBy(i, applied, e.id)'
        <4>1. \A j \in (i + 1)..applied : j \in (i + 1)..applied'
          BY <2>1
        <4>2. QED
          BY <1>3, <3>5, <4>1 DEF ReplacedBy
      <3>6. ASSUME NEW i \in 2..applied, NEW e, SaidOf(e)
            PROVE  ReplacedBy(i, applied, e.id)' \/ SaidOf(e)'
        <4>1. PICK d \in Range(merged) :
                d.id = e.id /\ SaidIn(Range(e.rs), d.rs, e.id, Range(notes))
          BY <3>6 DEF SaidOf
        <4>2. PICK c \in Range(merged') :
                c.id = d.id /\ (KeptIn(d.rs, c.rs)
                                \/ \E f \in Range(layer.value) : f.id = d.id /\ IsReplaceMode(f))
          BY <3>2, Zenon DEF Kept
        <4>3. CASE KeptIn(d.rs, c.rs)
          <5>1. SaidIn(Range(e.rs), c.rs, e.id, Range(notes'))
            <6>1. SUFFICES ASSUME NEW r \in Range(e.rs), Unknown(e.id, r) \notin Range(notes')
                           PROVE  \E p \in Range(c.rs) : Like(p, r)
              BY Zenon DEF SaidIn
            <6>2. PICK q \in Range(d.rs) : Like(q, r)
              BY <3>3, <4>1, <6>1 DEF SaidIn
            <6>3. PICK p \in Range(c.rs) : Same(p, q)
              BY <4>3 DEF KeptIn
            <6>4. QED
              BY <6>2, <6>3, Chained
          <5>2. QED
            BY <4>1, <4>2, <5>1 DEF SaidOf
        <4>4. CASE \E f \in Range(layer.value) : f.id = d.id /\ IsReplaceMode(f)
          <5>1. applied + 1 \in (i + 1)..applied'
            BY <2>1
          <5>2. QED
            BY <1>3, <2>1, <4>1, <4>4, <5>1 DEF ReplacedBy
        <4>5. QED
          BY <4>2, <4>3, <4>4
      <3>7. QED
        BY <1>3, <2>1, <3>4, <3>5, <3>6 DEF DroppedInv
    <2>4. QED
      BY <1>3, <2>2, <2>3, Zenon DEF Advances
  <1>4. QED
    BY <1>1, <1>2, <1>3, OtherSteps, Zenon

(* At the end of the loop it says what the property does.                  *)
LEMMA DropsFollow ==
  ASSUME MergeInv, OnceInv, DroppedInv
  PROVE  NothingDroppedSilently
  <1>1. SUFFICES ASSUME Resolved, NEW i \in 2..Len(layers),
                        NEW e \in Range(layers[i].value),
                        ~ \E j \in (i + 1)..Len(layers) : \E f \in Range(layers[j].value) :
                            f.id = e.id /\ IsReplaceMode(f),
                        NEW r \in Range(e.rs)
                 PROVE  LET rs == merged[DeviceAt(merged, e.id)].rs
                        IN  \/ \E k \in DOMAIN rs :
                                 rs[k].uid = r.uid /\ (r.uid = NoUid => rs[k].attrs = r.attrs)
                            \/ [kind |-> "UnknownUid", device |-> e.id, ref |-> r.uid] \in Range(notes)
    BY Zenon DEF NothingDroppedSilently
  <1>2. applied = Len(layers) /\ SaidOf(e)
    BY <1>1 DEF Resolved, DroppedInv, ReplacedBy
  <1>3. PICK d \in Range(merged) :
          d.id = e.id /\ SaidIn(Range(e.rs), d.rs, e.id, Range(notes))
    BY <1>2 DEF SaidOf
  <1>4. merged \in Layouts /\ OnceEach(merged)
    BY <1>1, <1>2 DEF MergeInv, TypeOK, OnceInv
  <1>5. merged[DeviceAt(merged, e.id)] = d
    BY <1>3, <1>4, OnlyDevice
  <1>6. (\E p \in Range(d.rs) : Like(p, r)) \/ Unknown(e.id, r) \in Range(notes)
    BY <1>1, <1>3, Zenon DEF SaidIn
  <1>7. QED
    BY <1>5, <1>6 DEF Like, Unknown, Range

(* Report, don't crash (delta.rs:1-21): whatever the layers of a page are, *)
(* what each but the first says of a rendering is in the result, or noted, *)
(* or a later layer replaced the device.  The pages have no layout that    *)
(* names a device twice.                                                   *)
THEOREM DropsAreNoted ==
  ASSUME DevicesOnce
  PROVE  Spec => []NothingDroppedSilently
  <1>1. Init => OnceInv /\ DroppedInv
    BY OnceInitially DEF Init, DroppedInv
  <1>2. QED
    BY <1>1, DropsFollow, MergeInvariance, OnceStep, DroppedStep, PTL DEF Spec

-----------------------------------------------------------------------------
(* Where renderings are from: the shared merge has what shared layers say, *)
(* and what the merge has beyond it a final layer says.                    *)
Backed(kind, id, r) ==
  \E i \in 1..applied : layers[i].kind = kind /\ OfDelta(Range(layers[i].value), id, r)

InShared(id, r) == sharedMerged # NoLayout /\ OfBase(sharedMerged, id, r)

SourceInv ==
  /\ applied > 0 /\ layers[applied].kind = "shared" => sharedMerged = merged
  /\ sharedMerged # NoLayout =>
       /\ applied > 0 /\ OnceEach(sharedMerged)
       /\ \A d \in Range(sharedMerged) : \A r \in Range(d.rs) : Backed("shared", d.id, r)
  /\ merged # NoLayout =>
       \A d \in Range(merged) : \A r \in Range(d.rs) :
         Backed("final", d.id, r) \/ InShared(d.id, r)

(* To patch a rendering leaves its origin alone.                           *)
LEMMA BackedBy ==
  ASSUME NEW id, NEW p, NEW q, Same(p, q)
  PROVE  /\ \A S : OfDelta(S, id, q) => OfDelta(S, id, p)
         /\ \A layout : OfBase(layout, id, q) => OfBase(layout, id, p)
  BY Chained, Zenon DEF OfDelta, OfBase

(* A layout says its own renderings.                                       *)
LEMMA OfOwn ==
  ASSUME NEW layout, NEW d \in Range(layout), NEW r \in Range(d.rs)
  PROVE  OfDelta(Range(layout), d.id, r) /\ OfBase(layout, d.id, r)
  BY Zenon DEF OfDelta, OfBase, Like, Same

(* A shared layer tells the merge of shared layers, a final layer backs    *)
(* what it brings.                                                         *)
LEMMA SourceStep ==
  ASSUME MergeInv, OnceInv, OnceInv', SourceInv, [Next]_vars
  PROVE  SourceInv'
  <1>1. CASE UNCHANGED <<layers, applied, merged, sharedMerged, notes>>
    BY <1>1 DEF SourceInv, Backed, InShared
  <1>2. CASE applied = 0 /\ UNCHANGED <<applied, merged, sharedMerged, notes>>
    BY <1>2 DEF SourceInv, MergeInv
  <1>3. ASSUME layers' = layers, NEW layer, Advances(layer)
        PROVE  SourceInv'
    <2>1. /\ applied \in Nat /\ applied' = applied + 1 /\ layers[applied + 1] = layer
          /\ \A i : i \in 1..applied' <=> i \in 1..applied \/ i = applied + 1
      BY <1>3, UptoNext
    <2>2. \A kind, id, r : Backed(kind, id, r)' <=>
            Backed(kind, id, r) \/ (layer.kind = kind /\ OfDelta(Range(layer.value), id, r))
      BY <1>3, <2>1 DEF Backed
    <2>3. /\ layer.kind \in {"shared", "final"} /\ layer.value \in Layouts
          /\ sharedMerged' = IF layer.kind = "shared" THEN merged' ELSE sharedMerged
          /\ applied > 0 /\ layer.kind = "shared" => layers[applied].kind = "shared"
      <3>1. applied + 1 \in DOMAIN layers /\ layer.value \in Layouts
            /\ sharedMerged' = IF layer.kind = "shared" THEN merged' ELSE sharedMerged
        BY <1>3 DEF Advances
      <3>2. layer.kind \in {"shared", "final"}
        <4> DEFINE W == Layouts \cup {Malformed}
        <4>1. layers \in Seq(Entries(W))
          BY DEF MergeInv, TypeOK, Entries
        <4> HIDE DEF W
        <4>2. layer \in Entries(W)
          BY <2>1, <3>1, <4>1
        <4>3. QED
          BY <4>2 DEF Entries
      <3>3. applied > 0 => applied \in DOMAIN layers /\ applied < applied + 1
        BY <2>1, <3>1 DEF MergeInv, TypeOK
      <3>4. applied > 0 /\ layer.kind = "shared" => layers[applied].kind = "shared"
        BY <2>1, <3>1, <3>3 DEF MergeInv, SharedFirst
      <3>5. QED
        BY <3>1, <3>2, <3>4
    <2>4. ASSUME NEW d \in Range(merged'), NEW r \in Range(d.rs)
          PROVE  \/ OfDelta(Range(layer.value), d.id, r)
                 \/ applied > 0 /\ OfBase(merged, d.id, r)
      <3>1. CASE merged' = layer.value
        BY <2>4, <3>1, OfOwn
      <3>2. ASSUME NEW next, Applied(layer, next)
            PROVE  OfBase(merged, d.id, r) \/ OfDelta(Range(layer.value), d.id, r)
        BY <2>4, <3>2, Zenon DEF Applied, Always
      <3>3. \A next : Applied(layer, next) => applied > 0
        BY DEF Applied
      <3>4. QED
        BY <1>3, <3>1, <3>2, <3>3, Zenon DEF Advances
    <2>5. merged' # NoLayout /\ OnceEach(merged')
      BY <1>3, MergeStep, <2>1 DEF MergeInv, OnceInv
    <2>6. CASE layer.kind = "shared"
      <3>1. sharedMerged' = merged' /\ layers'[applied'].kind = "shared"
        BY <1>3, <2>1, <2>3, <2>6
      <3>2. ASSUME NEW d \in Range(merged'), NEW r \in Range(d.rs)
            PROVE  Backed("shared", d.id, r)'
        <4>1. CASE OfDelta(Range(layer.value), d.id, r)
          BY <2>2, <2>6, <4>1
        <4>2. CASE applied > 0 /\ OfBase(merged, d.id, r)
          <5>1. sharedMerged = merged /\ merged # NoLayout
            BY <2>3, <2>6, <4>2 DEF SourceInv, MergeInv
          <5>2. PICK b, q : b \in Range(sharedMerged) /\ q \in Range(b.rs) /\ b.id = d.id /\ Same(r, q)
            BY <4>2, <5>1 DEF OfBase
          <5>3. Backed("shared", d.id, q)
            BY <5>1, <5>2 DEF SourceInv
          <5>4. Backed("shared", d.id, r)
            BY <5>2, <5>3, BackedBy, Zenon DEF Backed
          <5>5. QED
            BY <2>2, <5>4
        <4>3. QED
          BY <2>4, <3>2, <4>1, <4>2
      <3>3. ASSUME NEW d \in Range(merged'), NEW r \in Range(d.rs)
            PROVE  InShared(d.id, r)'
        BY <2>5, <3>1, <3>3, OfOwn DEF InShared
      <3>4. QED
        BY <2>1, <2>5, <3>1, <3>2, <3>3 DEF SourceInv
    <2>7. CASE layer.kind = "final"
      <3>1. sharedMerged' = sharedMerged /\ layers'[applied'].kind # "shared"
        BY <1>3, <2>1, <2>3, <2>7
      <3>2. sharedMerged # NoLayout =>
              /\ applied' > 0 /\ OnceEach(sharedMerged)
              /\ \A d \in Range(sharedMerged) : \A r \in Range(d.rs) : Backed("shared", d.id, r)'
        BY <2>1, <2>2 DEF SourceInv
      <3>3. ASSUME NEW d \in Range(merged'), NEW r \in Range(d.rs)
            PROVE  Backed("final", d.id, r)' \/ InShared(d.id, r)'
        <4>1. CASE OfDelta(Range(layer.value), d.id, r)
          BY <2>2, <2>7, <4>1
        <4>2. CASE applied > 0 /\ OfBase(merged, d.id, r)
          <5>1. merged # NoLayout
            BY <4>2 DEF MergeInv
          <5>2. PICK b, q : b \in Range(merged) /\ q \in Range(b.rs) /\ b.id = d.id /\ Same(r, q)
            BY <4>2 DEF OfBase
          <5>3. Backed("final", d.id, q) \/ InShared(d.id, q)
            BY <5>1, <5>2 DEF SourceInv
          <5>4. Backed("final", d.id, q) => Backed("final", d.id, r)
            BY <5>2, BackedBy, Zenon DEF Backed
          <5>5. InShared(d.id, q) => InShared(d.id, r)'
            BY <3>1, <5>2, BackedBy, Zenon DEF InShared
          <5>6. QED
            BY <2>2, <5>3, <5>4, <5>5
        <4>3. QED
          BY <2>4, <3>3, <4>1, <4>2
      <3>4. QED
        BY <3>1, <3>2, <3>3 DEF SourceInv
    <2>8. QED
      BY <2>3, <2>6, <2>7
  <1>4. QED
    BY <1>1, <1>2, <1>3, OtherSteps, Zenon

(* The source of a rendering (lib.rs:107-109) is true of whatever replaced *)
(* or patched its device since: a layer of the kind that the answer names  *)
(* says it of this device.  The pages have no layout that names a device   *)
(* twice; a second one of the first layer would be called final.           *)
THEOREM SourcesAreLayers ==
  ASSUME DevicesOnce
  PROVE  Spec => []SourceIsALayer
  <1>1. Init => OnceInv /\ SourceInv
    BY OnceInitially DEF Init, SourceInv
  <1>2. MergeInv /\ SourceInv => SourceIsALayer
    <2>1. SUFFICES ASSUME MergeInv, SourceInv, Resolved, merged # NoLayout,
                          NEW d \in Range(merged), NEW r \in Range(d.rs)
                   PROVE  \E layer \in Range(layers) : \E e \in Range(layer.value) :
                            /\ layer.kind = Source(d, r) /\ e.id = d.id
                            /\ \E q \in Range(e.rs) :
                                 q.uid = r.uid /\ (r.uid = NoUid => q.attrs = r.attrs)
      BY DEF SourceIsALayer
    <2>2. SUFFICES Backed(Source(d, r), d.id, r)
      <3>1. ASSUME Backed(Source(d, r), d.id, r)
            PROVE  \E i \in 1..applied : \E e \in Range(layers[i].value) :
                     /\ layers[i].kind = Source(d, r) /\ e.id = d.id
                     /\ \E q \in Range(e.rs) : Like(r, q)
        BY <3>1, Zenon DEF Backed, OfDelta
      <3>2. 1..applied \subseteq DOMAIN layers
        BY <2>1 DEF MergeInv, TypeOK
      <3>3. \A q : Like(r, q) => q.uid = r.uid /\ (r.uid = NoUid => q.attrs = r.attrs)
        BY DEF Like
      <3>4. \A i \in 1..applied : layers[i] \in Range(layers)
        BY <3>2 DEF Range
      <3>5. QED
        BY <3>1, <3>3, <3>4
    <2> DEFINE at == IF sharedMerged = NoLayout THEN 0 ELSE DeviceAt(sharedMerged, d.id)
               rs == IF at = 0 THEN <<>> ELSE sharedMerged[at].rs
               found == \E i \in DOMAIN rs : Same(rs[i], r)
    <2>3. Source(d, r) = IF found THEN "shared" ELSE "final"
      <3>1. \A q : (IF r.uid # NoUid THEN q.uid = r.uid ELSE q = r) <=> Same(q, r)
        BY DEF Same
      <3>2. Source(d, r) = IF \E i \in DOMAIN rs : IF r.uid # NoUid THEN rs[i].uid = r.uid ELSE rs[i] = r
                             THEN "shared" ELSE "final"
        BY Zenon DEF Source
      <3> HIDE DEF rs
      <3>3. found <=> \E i \in DOMAIN rs : IF r.uid # NoUid THEN rs[i].uid = r.uid ELSE rs[i] = r
        BY <3>1
      <3>4. QED
        BY <3>2, <3>3
    <2>4. sharedMerged # NoLayout => sharedMerged \in Layouts /\ OnceEach(sharedMerged)
      BY <2>1 DEF MergeInv, TypeOK, SourceInv
    <2>5. /\ at # 0 => /\ sharedMerged # NoLayout /\ sharedMerged[at] \in Range(sharedMerged)
                       /\ sharedMerged[at].id = d.id
      <3>1. at # 0 => sharedMerged # NoLayout /\ at = DeviceAt(sharedMerged, d.id)
        OBVIOUS
      <3>2. sharedMerged # NoLayout => DOMAIN sharedMerged = 1..Len(sharedMerged) /\ Len(sharedMerged) \in Nat
        BY <2>4 DEF Layouts
      <3>3. at # 0 => at \in 1..Len(sharedMerged) /\ sharedMerged[at].id = d.id
        <4> HIDE DEF at
        <4>1. QED
          BY <2>4, <3>1, <3>2, DeviceAtIs
      <3> HIDE DEF at
      <3>4. QED
        BY <3>1, <3>2, <3>3 DEF Range
    <2>6. CASE found
      <3>1. at # 0
        BY <2>6
      <3> HIDE DEF at
      <3>2. PICK q \in Range(sharedMerged[at].rs) : Same(q, r)
        BY <2>6, <3>1 DEF Range
      <3>3. Backed("shared", d.id, q)
        BY <2>1, <2>5, <3>1, <3>2 DEF SourceInv
      <3>4. Same(r, q)
        BY <3>2 DEF Same
      <3>5. Backed("shared", d.id, r)
        BY <3>3, <3>4, BackedBy, Zenon DEF Backed
      <3>6. QED
        BY <2>3, <2>6, <3>5
    <2>7. CASE ~found
      <3>1. ~InShared(d.id, r)
        <4>1. SUFFICES ASSUME InShared(d.id, r) PROVE FALSE
          OBVIOUS
        <4>2. PICK b, q :
                b \in Range(sharedMerged) /\ q \in Range(b.rs)
                /\ b.id = d.id /\ Same(r, q) /\ sharedMerged # NoLayout
          BY <4>1 DEF InShared, OfBase
        <4>3. DeviceAt(sharedMerged, d.id) \in DOMAIN sharedMerged
              /\ sharedMerged[DeviceAt(sharedMerged, d.id)] = b
          BY <2>4, <4>2, OnlyDevice
        <4>4. DeviceAt(sharedMerged, d.id) # 0
          BY <2>4, <4>2, <4>3 DEF Layouts
        <4>5. rs = b.rs
          BY <4>2, <4>3, <4>4
        <4>6. Same(q, r)
          BY <4>2 DEF Same
        <4> HIDE DEF rs
        <4>7. QED
          BY <2>7, <4>2, <4>5, <4>6 DEF Range
      <3>2. QED
        BY <2>1, <2>3, <2>7, <3>1 DEF SourceInv
    <2>8. QED
      BY <2>6, <2>7
  <1>3. MergeInv /\ OnceInv /\ SourceInv /\ [Next]_vars => OnceInv' /\ SourceInv'
    BY OnceStep, SourceStep
  <1>4. QED
    BY <1>1, <1>2, <1>3, MergeInvariance, PTL DEF Spec

-----------------------------------------------------------------------------
(* The first rendering of a uid is the one RenderingAt gives.              *)
LEMMA FirstRendering ==
  ASSUME NEW rs \in Seq(Renderings), NEW uid, NEW k \in DOMAIN rs, rs[k].uid = uid
  PROVE  /\ RenderingAt(rs, uid) \in DOMAIN rs /\ rs[RenderingAt(rs, uid)].uid = uid
         /\ RenderingAt(rs, uid) <= k
  <1> DEFINE I == {i \in 1..Len(rs) : rs[i].uid = uid}
  <1>1. RenderingAt(rs, uid) = IF I # {} THEN Min(I) ELSE 0
    BY Zenon DEF RenderingAt, SelectInSeq
  <1>2. k \in I /\ I \subseteq DOMAIN rs /\ I \subseteq Nat /\ \A i \in I : rs[i].uid = uid
    OBVIOUS
  <1> HIDE DEF I
  <1>3. Min(I) \in I /\ Min(I) <= k
    BY <1>2, LeastIs
  <1>4. QED
    BY <1>1, <1>2, <1>3

LEMMA FirstRenderingIs ==
  ASSUME NEW rs \in Seq(Renderings), NEW uid, NEW k \in DOMAIN rs, rs[k].uid = uid,
         \A j \in DOMAIN rs : rs[j].uid = uid => k <= j
  PROVE  RenderingAt(rs, uid) = k
  <1> DEFINE at == RenderingAt(rs, uid)
  <1>1. at \in DOMAIN rs /\ rs[at].uid = uid /\ at <= k
    BY FirstRendering
  <1>2. k <= at /\ at \in Nat /\ k \in Nat
    BY <1>1
  <1> HIDE DEF at
  <1>3. at = k
    BY <1>1, <1>2
  <1>4. QED
    BY <1>3 DEF at

(* Where renderings are carried, the first of a uid goes to the first.     *)
LEMMA FirstMoves ==
  ASSUME NEW old \in Seq(Renderings), NEW new \in Seq(Renderings), NEW f, Carries(f, old, new),
         NEW uid, uid # NoUid, RenderingAt(old, uid) > 0
  PROVE  /\ RenderingAt(old, uid) \in DOMAIN old
         /\ RenderingAt(new, uid) = f[RenderingAt(old, uid)]
         /\ RenderingAt(new, uid) > 0
  <1> DEFINE at == RenderingAt(old, uid)
  <1>1. at \in DOMAIN old /\ old[at].uid = uid
    BY RenderingAtIs
  <1>2. \A j \in DOMAIN old : old[j].uid = uid => at <= j
    BY FirstRendering
  <1> HIDE DEF at
  <1>3. /\ f \in [DOMAIN old -> DOMAIN new]
        /\ \A k, m \in DOMAIN old : k < m => f[k] < f[m]
        /\ \A k \in DOMAIN old : new[f[k]].uid = old[k].uid
        /\ \A j \in DOMAIN new : j \in Range(f) \/ new[j].uid # uid
    BY <1>1 DEF Carries, Same
  <1>4. f[at] \in DOMAIN new /\ new[f[at]].uid = uid /\ f[at] > 0
    BY <1>1, <1>3
  <1>5. ASSUME NEW j \in DOMAIN new, new[j].uid = uid
        PROVE  f[at] <= j
    <2>1. PICK k \in DOMAIN old : j = f[k]
      BY <1>3, <1>5 DEF Range
    <2>2. old[k].uid = uid /\ at <= k /\ at \in Nat /\ k \in Nat
      BY <1>1, <1>2, <1>3, <1>5, <2>1
    <2>3. at = k \/ at < k
      BY <2>2
    <2>4. f[at] \in Nat /\ f[k] \in Nat
      BY <1>1, <1>3
    <2>5. QED
      BY <1>1, <1>3, <2>1, <2>3, <2>4
  <1>6. RenderingAt(new, uid) = f[at]
    BY <1>4, <1>5, FirstRenderingIs
  <1>7. QED
    BY <1>1, <1>4, <1>6 DEF at

(* To leave renderings where they are carries them, and so does one after  *)
(* the other.                                                              *)
LEMMA CarriedOn ==
  ASSUME NEW old \in Seq(Renderings), NEW mid \in Seq(Renderings), NEW new \in Seq(Renderings),
         NEW f, Carries(f, old, mid), NEW h, Carries(h, mid, new)
  PROVE  Carries([k \in DOMAIN old |-> h[f[k]]], old, new)
  <1> DEFINE e == [k \in DOMAIN old |-> h[f[k]]]
  <1>1. /\ f \in [DOMAIN old -> DOMAIN mid]
        /\ \A k, m \in DOMAIN old : k < m => f[k] < f[m]
        /\ \A k \in DOMAIN old : Same(mid[f[k]], old[k])
        /\ \A j \in DOMAIN mid :
             \/ j \in Range(f) \/ mid[j].uid = NoUid
             \/ \A k \in DOMAIN old : old[k].uid # mid[j].uid
    BY DEF Carries
  <1>2. /\ h \in [DOMAIN mid -> DOMAIN new]
        /\ \A k, m \in DOMAIN mid : k < m => h[k] < h[m]
        /\ \A k \in DOMAIN mid : Same(new[h[k]], mid[k])
        /\ \A j \in DOMAIN new :
             \/ j \in Range(h) \/ new[j].uid = NoUid
             \/ \A k \in DOMAIN mid : mid[k].uid # new[j].uid
    BY DEF Carries
  <1>3. e \in [DOMAIN old -> DOMAIN new] /\ \A k \in DOMAIN old : e[k] = h[f[k]]
    BY <1>1, <1>2
  <1> HIDE DEF e
  <1>4. \A k, m \in DOMAIN old : k < m => e[k] < e[m]
    BY <1>1, <1>2, <1>3
  <1>5. \A k \in DOMAIN old : Same(new[e[k]], old[k])
    <2>1. \A k \in DOMAIN old : f[k] \in DOMAIN mid
      BY <1>1
    <2>2. QED
      BY <1>1, <1>2, <1>3, <2>1, Chained
  <1>6. ASSUME NEW j \in DOMAIN new
        PROVE  \/ j \in Range(e) \/ new[j].uid = NoUid
               \/ \A k \in DOMAIN old : old[k].uid # new[j].uid
    <2>1. CASE \A k \in DOMAIN mid : mid[k].uid # new[j].uid
      BY <1>1, <2>1 DEF Same
    <2>2. ASSUME j \in Range(h)
          PROVE  \/ j \in Range(e) \/ new[j].uid = NoUid
                 \/ \A k \in DOMAIN old : old[k].uid # new[j].uid
      <3>1. PICK m \in DOMAIN mid : j = h[m]
        BY <1>2, <2>2 DEF Range
      <3>2. mid[m].uid = new[j].uid
        BY <1>2, <3>1 DEF Same
      <3>3. ASSUME m \in Range(f)
            PROVE  j \in Range(e)
        <4>1. PICK k \in DOMAIN old : m = f[k]
          BY <1>1, <3>3 DEF Range
        <4>2. k \in DOMAIN e /\ e[k] = j
          BY <1>3, <3>1, <4>1
        <4>3. QED
          BY <4>2 DEF Range
      <3>4. QED
        BY <1>1, <3>2, <3>3
    <2>3. QED
      BY <1>2, <2>1, <2>2
  <1>7. QED
    BY <1>3, <1>4, <1>5, <1>6, Zenon DEF Carries, e

(* To change a rendering of a uid leaves all of them where they are.       *)
LEMMA ChangedCarries ==
  ASSUME NEW rs \in Seq(Renderings), NEW new, NEW r, Changed(rs, new, r) \/ new = rs
  PROVE  Carries([k \in DOMAIN rs |-> k], rs, new)
  <1> DEFINE f == [k \in DOMAIN rs |-> k]
  <1>1. DOMAIN new = DOMAIN rs /\ \A k \in DOMAIN rs : Same(new[k], rs[k])
    <2>1. CASE new = rs
      BY <2>1 DEF Same
    <2>2. ASSUME Changed(rs, new, r)
          PROVE  DOMAIN new = DOMAIN rs /\ \A k \in DOMAIN rs : Same(new[k], rs[k])
      <3>1. PICK at \in DOMAIN rs, q \in Renderings :
              rs[at].uid = r.uid /\ q.uid = r.uid /\ new = [rs EXCEPT ![at] = q] /\ r.uid # NoUid
        BY <2>2 DEF Changed
      <3>2. DOMAIN new = DOMAIN rs /\ \A k \in DOMAIN rs : new[k] = IF k = at THEN q ELSE rs[k]
        BY <3>1, ReplacedIs
      <3>3. QED
        BY <3>1, <3>2 DEF Same
    <2>3. QED
      BY <2>1, <2>2
  <1>2. f \in [DOMAIN rs -> DOMAIN new] /\ \A k \in DOMAIN rs : f[k] = k
    BY <1>1
  <1> HIDE DEF f
  <1>3. \A j \in DOMAIN new : j \in Range(f)
    BY <1>1, <1>2 DEF Range
  <1>4. QED
    BY <1>1, <1>2, <1>3 DEF Carries, f

(* To insert a rendering moves those behind it by one.                     *)
Beside(rs, i) == [k \in DOMAIN rs |-> IF k < i THEN k ELSE k + 1]

LEMMA InsertedCarries ==
  ASSUME NEW rs \in Seq(Renderings), NEW new \in Seq(Renderings), NEW e,
         NEW i \in 1..(Len(rs) + 1), OneMore(new, rs, i, e),
         e.uid = NoUid \/ \A k \in DOMAIN rs : rs[k].uid # e.uid
  PROVE  Carries(Beside(rs, i), rs, new)
  <1> DEFINE f == Beside(rs, i)
  <1>1. /\ Len(rs) \in Nat /\ DOMAIN rs = 1..Len(rs) /\ DOMAIN new = 1..(Len(rs) + 1) /\ i \in Nat
        /\ \A k \in 1..(Len(rs) + 1) :
             new[k] = IF k < i THEN rs[k] ELSE IF k = i THEN e ELSE rs[k - 1]
    BY DEF OneMore
  <1>2. DOMAIN f = DOMAIN rs /\ \A k \in DOMAIN rs : f[k] = IF k < i THEN k ELSE k + 1
    BY DEF Beside
  <1>3. f \in [DOMAIN rs -> DOMAIN new]
    <2>1. \A k \in DOMAIN rs : f[k] \in DOMAIN new
      BY <1>1, <1>2
    <2>2. f = [k \in DOMAIN rs |-> f[k]]
      BY DEF Beside
    <2>3. QED
      BY <2>1, <2>2
  <1> HIDE DEF f
  <1>4. \A k, m \in DOMAIN rs : k < m => f[k] < f[m]
    BY <1>1, <1>2
  <1>5. ASSUME NEW k \in DOMAIN rs
        PROVE  new[f[k]] = rs[k]
    <2>1. CASE k < i
      BY <1>1, <1>2, <2>1
    <2>2. CASE ~(k < i)
      <3>1. f[k] = k + 1 /\ k + 1 \in 1..(Len(rs) + 1) /\ ~(k + 1 < i) /\ k + 1 # i /\ (k + 1) - 1 = k
        BY <1>1, <1>2, <2>2
      <3>2. QED
        BY <1>1, <3>1
    <2>3. QED
      BY <2>1, <2>2
  <1>6. ASSUME NEW j \in DOMAIN new, j # i
        PROVE  j \in Range(f)
    <2>1. CASE j < i
      <3>1. j \in DOMAIN rs /\ f[j] = j
        BY <1>1, <1>2, <2>1
      <3>2. QED
        BY <1>2, <3>1 DEF Range
    <2>2. CASE ~(j < i)
      <3>1. j - 1 \in DOMAIN rs /\ ~(j - 1 < i) /\ (j - 1) + 1 = j
        BY <1>1, <1>6, <2>2
      <3>2. f[j - 1] = j
        BY <1>2, <3>1
      <3>3. QED
        BY <1>2, <3>1, <3>2 DEF Range
    <2>3. QED
      BY <2>1, <2>2
  <1>7. new[i] = e
    BY <1>1
  <1>8. QED
    BY <1>3, <1>4, <1>5, <1>6, <1>7 DEF Carries, Same, f

(* So each rendering of a delta leaves those of the device in their order. *)
LEMMA PatchCarries ==
  ASSUME NEW id \in Devices, NEW acc \in Patched, NEW r \in Renderings
  PROVE  \E f : Carries(f, acc.rs, PatchRendering(id, acc, r).rs)
  <1> DEFINE next == PatchRendering(id, acc, r)
             rs   == acc.rs
             new  == next.rs
  <1>1. /\ next \in Patched
        /\ Changed(rs, new, r) \/ Dropped(id, acc, next, r) \/ Inserted(rs, new, r)
    BY PatchIs
  <1>2. rs \in Seq(Renderings) /\ new \in Seq(Renderings)
    BY <1>1 DEF Patched
  <1>3. Dropped(id, acc, next, r) => new = rs
    BY DEF Dropped
  <1>4. Bare(r).uid = r.uid
    BY DEF Bare, Renderings
  <1> HIDE DEF next, rs, new
  <1>5. CASE Changed(rs, new, r) \/ new = rs
    <2>1. Carries([k \in DOMAIN rs |-> k], rs, new)
      BY <1>2, <1>5, ChangedCarries
    <2>2. QED
      BY <2>1, Zenon DEF next, rs, new
  <1>6. CASE Inserted(rs, new, r)
    <2>1. PICK i \in 1..(Len(rs) + 1) : OneMore(new, rs, i, Bare(r))
      BY <1>6 DEF Inserted
    <2>2. Bare(r).uid = NoUid \/ \A k \in DOMAIN rs : rs[k].uid # Bare(r).uid
      BY <1>4, <1>6 DEF Inserted
    <2>3. Carries(Beside(rs, i), rs, new)
      BY <1>2, <2>1, <2>2, InsertedCarries
    <2>4. QED
      BY <2>3, Zenon DEF next, rs, new
  <1>7. QED
    BY <1>1, <1>3, <1>5, <1>6

(* A new rendering, and the one it is placed by, in the same list.         *)
Beheld(rs, r) ==
  RenderingAt(rs, r.uid) > 0 /\ RenderingAt(rs, r.pos.uid) > 0 /\ OnItsSide(rs, r)

(* What comes in with a position is on the side it asks for.               *)
LEMMA PlacedOnItsSide ==
  ASSUME NEW id \in Devices, NEW acc \in Patched, NEW r \in Renderings,
         r.uid # NoUid, RenderingAt(acc.rs, r.uid) = 0, Given(r.attrs["id"]),
         r.pos # NoPosition, r.pos.uid # NoUid, RenderingAt(acc.rs, r.pos.uid) > 0
  PROVE  Beheld(PatchRendering(id, acc, r).rs, r)
  <1> DEFINE rs     == acc.rs
             anchor == RenderingAt(rs, r.pos.uid)
             index  == IF r.pos.side = "after" THEN anchor + 1 ELSE anchor
             bare   == Bare(r)
             new    == InsertAt(rs, index, bare)
  <1>1. rs \in Seq(Renderings) /\ Len(rs) \in Nat /\ DOMAIN rs = 1..Len(rs)
    BY DEF Patched
  <1>2. bare \in Renderings /\ bare.uid = r.uid
    BY DEF Renderings, Positions, NoPosition, Bare
  <1>3. anchor \in 1..Len(rs) /\ rs[anchor].uid = r.pos.uid /\ \A k \in DOMAIN rs : rs[k].uid # r.uid
    BY <1>1, RenderingAtIs
  <1>4. r.pos.side # "none"
    BY DEF Renderings, Positions, NoPosition
  <1>5. MatchedAt(rs, r) = 0 /\ InsertionIndex(rs, r.pos) = index
    BY <1>4 DEF MatchedAt, InsertionIndex
  <1>6. PatchRendering(id, acc, r).rs = new
    <2> DEFINE at   == MatchedAt(acc.rs, r)
               into == InsertionIndex(acc.rs, r.pos)
    <2>1. into > 0 /\ at = 0 /\ into = index
      BY <1>3, <1>5
    <2>2. PatchRendering(id, acc, r) = [acc EXCEPT !.rs = InsertAt(acc.rs, into, bare)]
      BY <2>1 DEF PatchRendering, Bare
    <2>3. \A x : [acc EXCEPT !.rs = x].rs = x
      BY DEF Patched
    <2> HIDE DEF at, into, index
    <2>4. QED
      BY <2>1, <2>2, <2>3
  <1>7. index \in 1..(Len(rs) + 1) /\ anchor \in Nat
    BY <1>1, <1>3
  <1>8. index = IF r.pos.side = "after" THEN anchor + 1 ELSE anchor
    OBVIOUS
  <1>9. anchor = RenderingAt(rs, r.pos.uid) /\ RenderingAt(rs, r.pos.uid) > 0
    OBVIOUS
  <1> HIDE DEF index, bare, rs, anchor
  <1>10. new \in Seq(Renderings) /\ OneMore(new, rs, index, bare)
    BY <1>1, <1>2, <1>7, InsertedIs
  <1> HIDE DEF new
  <1>11. Carries(Beside(rs, index), rs, new)
    BY <1>1, <1>2, <1>3, <1>7, <1>10, InsertedCarries
  <1>12. /\ RenderingAt(new, r.pos.uid) = Beside(rs, index)[anchor]
         /\ RenderingAt(new, r.pos.uid) > 0
    BY <1>1, <1>9, <1>10, <1>11, FirstMoves
  <1>13. Beside(rs, index)[anchor] = IF anchor < index THEN anchor ELSE anchor + 1
    BY <1>1, <1>3 DEF Beside
  <1>14. RenderingAt(new, r.uid) = index
    <2>1. /\ DOMAIN new = 1..(Len(rs) + 1) /\ index \in DOMAIN new /\ new[index].uid = r.uid
      BY <1>1, <1>2, <1>7, <1>10 DEF OneMore
    <2>2. ASSUME NEW j \in DOMAIN new, new[j].uid = r.uid
          PROVE  index <= j
      <3>1. j \in Range(Beside(rs, index)) => FALSE
        <4>1. SUFFICES ASSUME NEW k \in DOMAIN rs, j = Beside(rs, index)[k] PROVE FALSE
          BY DEF Range, Beside
        <4>2. new[j].uid = rs[k].uid
          BY <1>11, <4>1 DEF Carries, Same
        <4>3. QED
          BY <1>3, <2>2, <4>2
      <3>2. SUFFICES ASSUME j < index PROVE FALSE
        BY <1>7, <2>1
      <3>3. j \in DOMAIN rs /\ Beside(rs, index)[j] = j
        BY <1>1, <1>7, <2>1, <3>2 DEF Beside
      <3>4. QED
        BY <3>1, <3>3 DEF Range, Beside
    <2>3. QED
      BY <1>10, <2>1, <2>2, FirstRenderingIs
  <1>15. QED
    BY <1>6, <1>7, <1>8, <1>12, <1>13, <1>14 DEF Beheld, OnItsSide

(* And it stays there.                                                     *)
LEMMA SideStays ==
  ASSUME NEW old \in Seq(Renderings), NEW new \in Seq(Renderings), NEW f, Carries(f, old, new),
         NEW r, r.uid # NoUid, r.pos.uid # NoUid, Beheld(old, r)
  PROVE  Beheld(new, r)
  <1> DEFINE h == RenderingAt(old, r.uid)
             a == RenderingAt(old, r.pos.uid)
  <1>1. /\ h \in DOMAIN old /\ RenderingAt(new, r.uid) = f[h] /\ RenderingAt(new, r.uid) > 0
        /\ a \in DOMAIN old /\ RenderingAt(new, r.pos.uid) = f[a] /\ RenderingAt(new, r.pos.uid) > 0
    BY FirstMoves DEF Beheld
  <1>2. IF r.pos.side = "after" THEN h > a ELSE h < a
    BY DEF Beheld, OnItsSide
  <1> HIDE DEF h, a
  <1>3. h \in Nat /\ a \in Nat /\ f[h] \in Nat /\ f[a] \in Nat
    BY <1>1 DEF Carries
  <1>4. h < a => f[h] < f[a]
    BY <1>1 DEF Carries
  <1>5. a < h => f[a] < f[h]
    BY <1>1 DEF Carries
  <1>6. IF r.pos.side = "after" THEN f[h] > f[a] ELSE f[h] < f[a]
    BY <1>2, <1>3, <1>4, <1>5
  <1>7. QED
    BY <1>1, <1>6 DEF Beheld, OnItsSide

(* After some renderings of a delta: those of the device are in order, the *)
(* others are of the delta, and each new one is where it asks to be.       *)
KeepsOrder(old, acc, s, k) ==
  /\ \E f : Carries(f, old, acc.rs)
  /\ \A p \in Range(acc.rs) :
       p.uid = NoUid \/ (\E q \in Range(old) : q.uid = p.uid) \/ \E i \in 1..k : s[i].uid = p.uid
  /\ \A i \in 1..k : Places(old, s, i) => Beheld(acc.rs, s[i])

(* One more rendering of the delta.                                        *)
LEMMA KeepsOrderNext ==
  ASSUME NEW id \in Devices, NEW old \in Seq(Renderings), NEW acc \in Patched,
         NEW s \in Seq(Renderings), NEW k \in DOMAIN s, KeepsOrder(old, acc, s, k - 1)
  PROVE  KeepsOrder(old, PatchRendering(id, acc, s[k]), s, k)
  <1> DEFINE r    == s[k]
             next == PatchRendering(id, acc, r)
             rs   == acc.rs
             new  == next.rs
  <1>1. /\ r \in Renderings /\ DOMAIN s = 1..Len(s) /\ Len(s) \in Nat
        /\ rs \in Seq(Renderings) /\ 1..k = (1..(k - 1)) \cup {k}
    BY DEF Patched
  <1>2. new \in Seq(Renderings)
    BY <1>1, PatchKeeps DEF Patched
  <1>3. \A p \in Range(new) : p.uid = r.uid \/ \E q \in Range(rs) : p.uid = q.uid
    BY <1>1, PatchKeeps DEF Like, Same
  <1>4. PICK h : Carries(h, rs, new)
    BY <1>1, PatchCarries
  <1>5. PICK f : Carries(f, old, rs)
    BY DEF KeepsOrder
  <1>6. \E e : Carries(e, old, new)
    <2> HIDE DEF new, rs
    <2>1. QED
      BY <1>1, <1>2, <1>4, <1>5, CarriedOn
  <1>7. \A p \in Range(rs) :
          \/ p.uid = NoUid \/ \E q \in Range(old) : q.uid = p.uid
          \/ \E i \in 1..(k - 1) : s[i].uid = p.uid
    BY DEF KeepsOrder
  <1>8. \A i \in 1..(k - 1) : Places(old, s, i) => Beheld(rs, s[i])
    BY DEF KeepsOrder
  <1>9. ASSUME Places(old, s, k)
        PROVE  Beheld(new, r)
    <2>1. /\ r.uid # NoUid /\ RenderingAt(old, r.uid) = 0 /\ Given(r.attrs["id"])
          /\ RenderingAt(s, r.uid) = k
          /\ r.pos # NoPosition /\ r.pos.uid # NoUid /\ RenderingAt(old, r.pos.uid) > 0
      BY <1>9 DEF Places
    <2>2. RenderingAt(rs, r.pos.uid) > 0
      BY <1>1, <1>5, <2>1, FirstMoves
    <2>3. \A q \in Range(old) : q.uid # r.uid
      BY <2>1, RenderingAtIs DEF Range
    <2>4. \A i \in 1..(k - 1) : s[i].uid # r.uid
      <3>1. SUFFICES ASSUME NEW i \in 1..(k - 1), s[i].uid = r.uid PROVE FALSE
        OBVIOUS
      <3>2. i \in DOMAIN s /\ i < k
        BY <1>1
      <3>3. k <= i
        BY <2>1, <3>1, <3>2, FirstRendering
      <3>4. QED
        BY <1>1, <3>2, <3>3
    <2>5. \A j \in DOMAIN rs : rs[j].uid # r.uid
      BY <1>7, <2>1, <2>3, <2>4 DEF Range
    <2>6. RenderingAt(rs, r.uid) = 0
      BY <1>1, <2>5, RenderingAtIs
    <2>7. QED
      BY <1>1, <2>1, <2>2, <2>6, PlacedOnItsSide
  <1> HIDE DEF new, rs, r, next
  <1>10. ASSUME NEW i \in 1..k, Places(old, s, i)
         PROVE  Beheld(new, s[i])
    <2>1. CASE i = k
      BY <1>9, <1>10, <2>1 DEF r
    <2>2. CASE i # k
      <3>1. Beheld(rs, s[i])
        BY <1>1, <1>8, <1>10, <2>2
      <3>2. s[i].uid # NoUid /\ s[i].pos.uid # NoUid
        BY <1>10 DEF Places
      <3>3. QED
        BY <1>1, <1>2, <1>4, <3>1, <3>2, SideStays
    <2>3. QED
      BY <2>1, <2>2
  <1>11. ASSUME NEW p \in Range(new)
         PROVE  \/ p.uid = NoUid \/ \E q \in Range(old) : q.uid = p.uid
                \/ \E i \in 1..k : s[i].uid = p.uid
    <2>1. CASE p.uid = r.uid
      <3>1. k \in 1..k
        BY <1>1
      <3>2. QED
        BY <2>1, <3>1 DEF r
    <2>2. CASE \E q \in Range(rs) : p.uid = q.uid
      BY <1>1, <1>7, <2>2
    <2>3. QED
      BY <1>3, <2>1, <2>2
  <1>12. KeepsOrder(old, next, s, k)
    BY <1>6, <1>10, <1>11, Zenon DEF KeepsOrder, new
  <1>13. QED
    BY <1>12 DEF next, r

(* patch_device keeps the order, and places what is new.                   *)
LEMMA DevicePatchedInOrder ==
  ASSUME NEW base \in DeviceEntries, NEW delta \in DeviceEntries
  PROVE  PatchedInOrder(base.rs, PatchDevice(base, delta).device.rs, delta.rs)
  <1> DEFINE id    == delta.id
             s     == delta.rs
             old   == base.rs
             start == [rs |-> old, notes |-> <<>>]
             last  == (CHOOSE it : PatchFolds(id, start, s, it))[DOMAIN s]
             n     == Len(s)
  <1>1. /\ id \in Devices /\ s \in Seq(Renderings) /\ start \in Patched /\ n \in Nat
        /\ DOMAIN s = 1..n /\ old \in Seq(Renderings) /\ start.rs = old
    BY DEF DeviceEntries, Patched
  <1>2. PatchDevice(base, delta).device.rs = last.rs
    <2>1. PatchDevice(base, delta).device =
            [base EXCEPT !.l = IF delta.l = Missing THEN @ ELSE delta.l, !.rs = last.rs]
      BY PatchUnfolds, Zenon
    <2> HIDE DEF last
    <2>2. QED
      BY <2>1 DEF DeviceEntries
  <1> HIDE DEF start
  <1>3. PICK g : /\ g[0] = start
                 /\ \A k \in 1..n : g[k - 1] \in Patched /\ g[k] = PatchRendering(id, g[k - 1], s[k])
                 /\ g[n] \in Patched
                 /\ last = g[n]
    <2> HIDE DEF id, s
    <2>1. QED
      BY <1>1, PatchSteps
  <1> HIDE DEF id, s, n, old, last
  <1> DEFINE B == {k \in 0..n : KeepsOrder(old, g[k], s, k)}
  <1>4. 0 \in B
    <2>1. 0 \in 0..n /\ g[0].rs = old /\ 1..0 = {}
      BY <1>1, <1>3
    <2>2. Carries([k \in DOMAIN old |-> k], old, old)
      BY <1>1, ChangedCarries
    <2>3. KeepsOrder(old, g[0], s, 0)
      BY <2>1, <2>2 DEF KeepsOrder
    <2>4. QED
      BY <2>1, <2>3
  <1>5. ASSUME NEW k \in 1..n, k - 1 \in B
        PROVE  k \in B
    <2>1. KeepsOrder(old, g[k - 1], s, k - 1) /\ k \in 0..n /\ k \in DOMAIN s
      BY <1>1, <1>5
    <2>2. g[k - 1] \in Patched /\ g[k] = PatchRendering(id, g[k - 1], s[k])
      BY <1>3
    <2>3. KeepsOrder(old, g[k], s, k)
      BY <1>1, <2>1, <2>2, KeepsOrderNext
    <2>4. QED
      BY <2>1, <2>3
  <1>6. KeepsOrder(old, last, s, n)
    <2>1. n \in 0..n
      BY <1>1
    <2> HIDE DEF B
    <2>2. n \in B
      BY <1>1, <1>4, <1>5, <2>1, BoundedInduction
    <2>3. QED
      BY <1>3, <2>2 DEF B
  <1>7. PatchedInOrder(old, last.rs, s)
    <2>1. \E f \in [DOMAIN old -> DOMAIN last.rs] : Carries(f, old, last.rs)
      <3>1. PICK f : Carries(f, old, last.rs)
        BY <1>6 DEF KeepsOrder
      <3>2. f \in [DOMAIN old -> DOMAIN last.rs]
        BY <3>1 DEF Carries
      <3>3. QED
        BY <3>1, <3>2
    <2>2. \A k \in DOMAIN s : Places(old, s, k) => OnItsSide(last.rs, s[k])
      BY <1>1, <1>6 DEF KeepsOrder, Beheld
    <2>3. QED
      BY <2>1, <2>2, Zenon DEF PatchedInOrder
  <1>8. QED
    BY <1>2, <1>7 DEF old, s

(* After some devices of a delta, where no layout names one twice: each    *)
(* device is in its place, as it was, replaced or patched.                 *)
InPlace(base, layout, delta, k) ==
  \A i \in DOMAIN base :
    /\ i \in DOMAIN layout /\ layout[i].id = base[i].id
    /\ (\A j \in 1..k : delta[j].id # base[i].id) => layout[i] = base[i]
    /\ \A j \in 1..k : delta[j].id = base[i].id /\ ~IsReplaceMode(delta[j]) =>
         layout[i] = PatchDevice(base[i], delta[j]).device

(* One more device of the delta.                                           *)
LEMMA InPlaceNext ==
  ASSUME NEW base \in Layouts, NEW acc \in Merges, NEW delta \in Layouts, NEW k \in DOMAIN delta,
         OnceEach(delta), OnceEach(acc.layout), InPlace(base, acc.layout, delta, k - 1)
  PROVE  InPlace(base, ApplyDevice(acc, delta[k]).layout, delta, k)
  <1> DEFINE e      == delta[k]
             layout == acc.layout
             slot   == DeviceAt(layout, e.id)
             new    == ApplyDevice(acc, e).layout
             d      == IF IsReplaceMode(e) THEN e ELSE PatchDevice(layout[slot], e).device
  <1>1. /\ layout \in Seq(DeviceEntries) /\ Len(layout) \in Nat /\ DOMAIN layout = 1..Len(layout)
        /\ Len(delta) \in Nat /\ DOMAIN delta = 1..Len(delta) /\ layout \in Layouts
        /\ 1..k = (1..(k - 1)) \cup {k} /\ 1..(k - 1) \subseteq DOMAIN delta /\ k \notin 1..(k - 1)
    BY DEF Merges, Layouts
  <1>2. /\ slot \in 0..Len(layout)
        /\ slot = 0 => \A i \in DOMAIN layout : layout[i].id # e.id
        /\ slot > 0 => layout[slot].id = e.id
    BY <1>1, DeviceAtIs
  <1>3. slot = 0 => new = Append(layout, e)
    BY DEF ApplyDevice
  <1>4. slot # 0 => new = [layout EXCEPT ![slot] = d]
    <2>1. CASE IsReplaceMode(e)
      <3>1. slot # 0 => new = [acc EXCEPT !.layout[slot] = e].layout
        BY <2>1 DEF ApplyDevice
      <3>2. [acc EXCEPT !.layout[slot] = e].layout = [layout EXCEPT ![slot] = e]
        BY DEF Merges
      <3>3. QED
        BY <2>1, <3>1, <3>2
    <2>2. CASE ~IsReplaceMode(e)
      BY <2>2 DEF ApplyDevice
    <2>3. QED
      BY <2>1, <2>2
  <1>5. slot # 0 => d.id = e.id
    <2>1. CASE IsReplaceMode(e)
      BY <2>1
    <2>2. CASE ~IsReplaceMode(e)
      <3>1. slot # 0 => layout[slot] \in DeviceEntries /\ e \in DeviceEntries
        BY <1>1, <1>2 DEF Layouts
      <3>2. slot # 0 => PatchDevice(layout[slot], e).device.id = layout[slot].id
        BY <3>1, DevicePatchedIs
      <3>3. QED
        BY <1>2, <2>2, <3>2
    <2>3. QED
      BY <2>1, <2>2
  <1>6. /\ e = delta[k] /\ layout = acc.layout
        /\ d = IF IsReplaceMode(e) THEN e ELSE PatchDevice(layout[slot], e).device
    OBVIOUS
  <1> HIDE DEF e, layout, slot, new, d
  <1>7. \A i \in DOMAIN layout :
          i \in DOMAIN new /\ new[i] = IF slot = i THEN d ELSE layout[i]
    <2>1. CASE slot = 0
      BY <1>1, <1>3, <2>1
    <2>2. CASE slot # 0
      BY <1>1, <1>2, <1>4, <2>2
    <2>3. QED
      BY <2>1, <2>2
  <1>8. SUFFICES ASSUME NEW i \in DOMAIN base
                 PROVE  /\ i \in DOMAIN new /\ new[i].id = base[i].id
                        /\ (\A j \in 1..k : delta[j].id # base[i].id) => new[i] = base[i]
                        /\ \A j \in 1..k : delta[j].id = base[i].id /\ ~IsReplaceMode(delta[j]) =>
                             new[i] = PatchDevice(base[i], delta[j]).device
    BY DEF InPlace, new, e
  <1>9. /\ i \in DOMAIN layout /\ layout[i].id = base[i].id
        /\ (\A j \in 1..(k - 1) : delta[j].id # base[i].id) => layout[i] = base[i]
        /\ \A j \in 1..(k - 1) : delta[j].id = base[i].id /\ ~IsReplaceMode(delta[j]) =>
             layout[i] = PatchDevice(base[i], delta[j]).device
    BY <1>6 DEF InPlace
  <1>10. ASSUME e.id = base[i].id
         PROVE  slot = i /\ layout[i] = base[i] /\ new[i] = d
    <2>1. slot # 0 /\ slot \in DOMAIN layout
      BY <1>1, <1>2, <1>9, <1>10
    <2>2. slot = i
      BY <1>2, <1>6, <1>9, <1>10, <2>1 DEF OnceEach
    <2>3. \A j \in 1..(k - 1) : delta[j].id # base[i].id
      BY <1>1, <1>6, <1>10 DEF OnceEach
    <2>4. QED
      BY <1>7, <1>9, <2>2, <2>3
  <1>11. ASSUME e.id # base[i].id
         PROVE  slot # i /\ new[i] = layout[i]
    BY <1>1, <1>2, <1>7, <1>9, <1>11
  <1>12. CASE e.id = base[i].id
    <2>1. new[i].id = base[i].id
      BY <1>2, <1>5, <1>10, <1>12, <1>1, <1>9
    <2>2. \A j \in 1..k : delta[j].id = base[i].id => j = k
      BY <1>1, <1>6, <1>12 DEF OnceEach
    <2>3. ~IsReplaceMode(e) => new[i] = PatchDevice(base[i], e).device
      BY <1>6, <1>10, <1>12
    <2>4. k \in 1..k
      BY <1>1
    <2>5. QED
      BY <1>6, <1>7, <1>9, <1>12, <2>1, <2>2, <2>3, <2>4
  <1>13. CASE e.id # base[i].id
    BY <1>1, <1>6, <1>7, <1>9, <1>11, <1>13
  <1>14. QED
    BY <1>12, <1>13

(* Where a device comes from that is there after k devices of a delta.     *)
Untouched(base, delta, k, d) ==
  d \in Range(base) /\ \A j \in 1..k : delta[j].id # d.id

Whole(base, delta, k, d) ==
  \E j \in 1..k : d = delta[j] /\ (IsReplaceMode(d) \/ ~HasDevice(base, d.id))

PatchedUp(base, delta, k, d) ==
  \E j \in 1..k, b \in Range(base) :
    /\ b.id = delta[j].id /\ ~IsReplaceMode(delta[j])
    /\ d = PatchDevice(b, delta[j]).device

Origins(base, layout, delta, k) ==
  \A d \in Range(layout) :
    Untouched(base, delta, k, d) \/ Whole(base, delta, k, d) \/ PatchedUp(base, delta, k, d)

(* One more device of a delta.                                             *)
LEMMA OriginsNext ==
  ASSUME NEW base \in Layouts, NEW acc \in Merges, NEW delta \in Layouts, NEW k \in DOMAIN delta,
         OnceEach(delta), OnceEach(acc.layout),
         InPlace(base, acc.layout, delta, k - 1), Origins(base, acc.layout, delta, k - 1)
  PROVE  Origins(base, ApplyDevice(acc, delta[k]).layout, delta, k)
  <1> DEFINE e      == delta[k]
             layout == acc.layout
             slot   == DeviceAt(layout, e.id)
             new    == ApplyDevice(acc, e).layout
             d      == IF IsReplaceMode(e) THEN e ELSE PatchDevice(layout[slot], e).device
  <1>1. /\ layout \in Seq(DeviceEntries) /\ Len(layout) \in Nat /\ DOMAIN layout = 1..Len(layout)
        /\ Len(delta) \in Nat /\ DOMAIN delta = 1..Len(delta) /\ layout \in Layouts
        /\ 1..k = (1..(k - 1)) \cup {k} /\ 1..(k - 1) \subseteq DOMAIN delta /\ k \notin 1..(k - 1)
        /\ e \in DeviceEntries /\ base \in Seq(DeviceEntries) /\ \A b \in Range(base) : b \in DeviceEntries
    BY DEF Merges, Layouts, Range
  <1>2. /\ slot \in 0..Len(layout)
        /\ slot = 0 => \A i \in DOMAIN layout : layout[i].id # e.id
        /\ slot > 0 => layout[slot].id = e.id
    BY <1>1, DeviceAtIs
  <1>3. slot = 0 => new = Append(layout, e)
    BY DEF ApplyDevice
  <1>4. slot # 0 => new = [layout EXCEPT ![slot] = d]
    <2>1. CASE IsReplaceMode(e)
      <3>1. slot # 0 => new = [acc EXCEPT !.layout[slot] = e].layout
        BY <2>1 DEF ApplyDevice
      <3>2. [acc EXCEPT !.layout[slot] = e].layout = [layout EXCEPT ![slot] = e]
        BY DEF Merges
      <3>3. QED
        BY <2>1, <3>1, <3>2
    <2>2. CASE ~IsReplaceMode(e)
      BY <2>2 DEF ApplyDevice
    <2>3. QED
      BY <2>1, <2>2
  <1>5. \A j \in 1..(k - 1) : delta[j].id # e.id
    BY <1>1 DEF OnceEach
  <1>6. \A b \in Range(base) : \E i \in DOMAIN layout : layout[i].id = b.id
    BY DEF InPlace, Range
  <1>7. \A b \in Range(base), j \in 1..(k - 1) : PatchDevice(b, delta[j]).device.id = b.id
    <2>1. \A j \in 1..(k - 1) : delta[j] \in DeviceEntries
      BY <1>1 DEF Layouts
    <2>2. QED
      BY <1>1, <2>1, DevicePatchedIs
  <1>8. /\ e = delta[k] /\ layout = acc.layout /\ new = ApplyDevice(acc, delta[k]).layout
        /\ d = IF IsReplaceMode(e) THEN e ELSE PatchDevice(layout[slot], e).device
    OBVIOUS
  <1> HIDE DEF e, layout, slot, new, d
  <1>9. \A x \in Range(layout) :
          \/ Untouched(base, delta, k - 1, x) \/ Whole(base, delta, k - 1, x)
          \/ PatchedUp(base, delta, k - 1, x)
    BY <1>8, Zenon DEF Origins
  <1>10. ASSUME NEW x \in Range(layout)
         PROVE  /\ x.id = e.id => x \in Range(base)
                /\ x.id # e.id => \/ Untouched(base, delta, k, x) \/ Whole(base, delta, k, x)
                                  \/ PatchedUp(base, delta, k, x)
    <2>1. CASE Untouched(base, delta, k - 1, x)
      <3>1. x \in Range(base) /\ (x.id # e.id => Untouched(base, delta, k, x))
        BY <1>1, <1>8, <2>1 DEF Untouched
      <3>2. QED
        BY <3>1
    <2>2. CASE Whole(base, delta, k - 1, x)
      <3>1. x.id # e.id
        BY <1>5, <2>2 DEF Whole
      <3>2. Whole(base, delta, k, x)
        BY <1>1, <2>2 DEF Whole
      <3>3. QED
        BY <3>1, <3>2
    <2>3. CASE PatchedUp(base, delta, k - 1, x)
      <3>1. x.id # e.id
        BY <1>5, <1>7, <2>3 DEF PatchedUp
      <3>2. PatchedUp(base, delta, k, x)
        BY <1>1, <2>3, Zenon DEF PatchedUp
      <3>3. QED
        BY <3>1, <3>2
    <2>4. QED
      BY <1>9, <2>1, <2>2, <2>3
  <1>11. k \in 1..k
    BY <1>1
  <1>12. SUFFICES ASSUME NEW x \in Range(new)
                  PROVE  \/ Untouched(base, delta, k, x) \/ Whole(base, delta, k, x)
                         \/ PatchedUp(base, delta, k, x)
    BY <1>8, Zenon DEF Origins
  <1>13. CASE slot = 0
    <2>1. Range(new) = Range(layout) \cup {e}
      BY <1>1, <1>3, <1>13, RangeOfAppend
    <2>2. \A y \in Range(layout) : y.id # e.id
      BY <1>2, <1>13 DEF Range
    <2>3. x \in Range(layout) => \/ Untouched(base, delta, k, x) \/ Whole(base, delta, k, x)
                                 \/ PatchedUp(base, delta, k, x)
      BY <1>10, <2>2
    <2>4. ~HasDevice(base, e.id)
      BY <1>2, <1>6, <1>13 DEF HasDevice, Range
    <2>5. Whole(base, delta, k, e)
      BY <1>8, <1>11, <2>4 DEF Whole
    <2>6. QED
      BY <2>1, <2>3, <2>5
  <1>14. CASE slot # 0
    <2>1. slot \in DOMAIN layout /\ layout[slot].id = e.id
      BY <1>1, <1>2, <1>14
    <2>2. layout[slot] \in Range(base)
      BY <1>10, <2>1 DEF Range
    <2>3. /\ DOMAIN new = DOMAIN layout
          /\ \A i \in DOMAIN layout : new[i] = IF i = slot THEN d ELSE layout[i]
      BY <1>4, <1>14, <2>1
    <2>4. PICK i \in DOMAIN layout : x = IF i = slot THEN d ELSE layout[i]
      BY <2>3 DEF Range
    <2>5. CASE i # slot
      <3>1. x \in Range(layout) /\ x.id # e.id
        BY <1>8, <2>1, <2>4, <2>5 DEF Range, OnceEach
      <3>2. QED
        BY <1>10, <3>1
    <2>6. CASE i = slot /\ IsReplaceMode(e)
      <3>1. x = e
        BY <1>8, <2>4, <2>6
      <3>2. Whole(base, delta, k, x)
        BY <1>8, <1>11, <2>6, <3>1 DEF Whole
      <3>3. QED
        BY <3>2
    <2>7. CASE i = slot /\ ~IsReplaceMode(e)
      <3>1. x = PatchDevice(layout[slot], e).device
        BY <1>8, <2>4, <2>7
      <3>2. PatchedUp(base, delta, k, x)
        BY <1>8, <1>11, <2>1, <2>2, <2>7, <3>1 DEF PatchedUp
      <3>3. QED
        BY <3>2
    <2>8. QED
      BY <2>5, <2>6, <2>7
  <1>15. QED
    BY <1>13, <1>14

(* And what patching a device found odd is noted.                          *)
Noted(base, found, delta, k) ==
  \A i \in DOMAIN base, j \in 1..k :
    delta[j].id = base[i].id /\ ~IsReplaceMode(delta[j]) =>
      Range(PatchDevice(base[i], delta[j]).notes) \subseteq Range(found)

LEMMA NotedNext ==
  ASSUME NEW base \in Layouts, NEW acc \in Merges, NEW delta \in Layouts, NEW k \in DOMAIN delta,
         OnceEach(delta), OnceEach(acc.layout),
         InPlace(base, acc.layout, delta, k - 1), Noted(base, acc.notes, delta, k - 1)
  PROVE  Noted(base, ApplyDevice(acc, delta[k]).notes, delta, k)
  <1> DEFINE e       == delta[k]
             layout  == acc.layout
             slot    == DeviceAt(layout, e.id)
             next    == ApplyDevice(acc, e)
             odd     == PatchDevice(layout[slot], e).notes
  <1>1. /\ layout \in Seq(DeviceEntries) /\ Len(layout) \in Nat /\ DOMAIN layout = 1..Len(layout)
        /\ Len(delta) \in Nat /\ DOMAIN delta = 1..Len(delta) /\ layout \in Layouts
        /\ 1..k = (1..(k - 1)) \cup {k} /\ 1..(k - 1) \subseteq DOMAIN delta /\ k \notin 1..(k - 1)
        /\ acc.notes \in Seq(Notes) /\ e \in DeviceEntries
    BY DEF Merges, Layouts
  <1>2. /\ slot \in 0..Len(layout)
        /\ slot = 0 => \A i \in DOMAIN layout : layout[i].id # e.id
        /\ slot > 0 => layout[slot].id = e.id
    BY <1>1, DeviceAtIs
  <1>3. next \in Merges /\ Range(acc.notes) \subseteq Range(next.notes)
    BY <1>1, DeviceIs
  <1>4. slot # 0 /\ ~IsReplaceMode(e) => odd \in Seq(Notes) /\ next.notes = acc.notes \o odd
    <2>1. SUFFICES ASSUME slot # 0, ~IsReplaceMode(e)
                   PROVE  odd \in Seq(Notes) /\ next.notes = acc.notes \o odd
      OBVIOUS
    <2>2. layout[slot] \in DeviceEntries
      BY <1>1, <1>2, <2>1
    <2>3. odd \in Seq(Notes)
      BY <1>1, <2>2, DevicePatchedIs
    <2>4. QED
      BY <2>1, <2>3 DEF ApplyDevice
  <1>5. slot # 0 /\ ~IsReplaceMode(e) => Range(odd) \subseteq Range(next.notes)
    <2> HIDE DEF next, odd
    <2>1. SUFFICES ASSUME slot # 0, ~IsReplaceMode(e)
                   PROVE  Range(odd) \subseteq Range(next.notes)
      OBVIOUS
    <2>2. odd \in Seq(Notes) /\ next.notes = acc.notes \o odd
      BY <1>4, <2>1
    <2>3. Range(next.notes) = Range(acc.notes) \cup Range(odd)
      BY <1>1, <2>2, RangeOfBoth
    <2>4. QED
      BY <2>3
  <1>6. \A i \in DOMAIN base, j \in 1..(k - 1) :
          delta[j].id = base[i].id /\ ~IsReplaceMode(delta[j]) =>
            Range(PatchDevice(base[i], delta[j]).notes) \subseteq Range(acc.notes)
    BY DEF Noted
  <1> HIDE DEF next, layout, slot, odd
  <1>7. SUFFICES ASSUME NEW i \in DOMAIN base, NEW j \in 1..k,
                        delta[j].id = base[i].id, ~IsReplaceMode(delta[j])
                 PROVE  Range(PatchDevice(base[i], delta[j]).notes) \subseteq Range(next.notes)
    BY Zenon DEF Noted, next
  <1>8. CASE j \in 1..(k - 1)
    BY <1>3, <1>6, <1>7, <1>8
  <1>9. CASE j = k
    <2>1. \A m \in 1..(k - 1) : delta[m].id # base[i].id
      BY <1>1, <1>7, <1>9 DEF OnceEach
    <2>2. i \in DOMAIN layout /\ layout[i] = base[i] /\ layout[i].id = e.id
      BY <1>7, <1>9, <2>1 DEF InPlace, layout
    <2>3. slot \in DOMAIN layout /\ layout[slot].id = e.id /\ slot # 0
      BY <1>1, <1>2, <2>2
    <2>4. slot = i
      BY <2>2, <2>3 DEF OnceEach, layout
    <2>5. QED
      BY <1>5, <1>7, <1>9, <2>2, <2>3, <2>4 DEF odd
  <1>10. QED
    BY <1>1, <1>8, <1>9

(* apply_delta leaves each device in its place, and what is there after it *)
(* was there, came with it or is what it patched.                          *)
LEMMA DeltaInPlace ==
  ASSUME NEW base \in Layouts, NEW delta \in Layouts, OnceEach(base), OnceEach(delta)
  PROVE  /\ InPlace(base, ApplyDelta(base, delta).layout, delta, Len(delta))
         /\ Origins(base, ApplyDelta(base, delta).layout, delta, Len(delta))
         /\ Noted(base, ApplyDelta(base, delta).notes, delta, Len(delta))
  <1> DEFINE start == [layout |-> base, notes |-> <<>>]
             last  == (CHOOSE it : DeltaFolds(start, delta, it))[DOMAIN delta]
             n     == Len(delta)
  <1>1. /\ start \in Merges /\ start.layout = base /\ n \in Nat /\ delta \in Seq(DeviceEntries)
        /\ DOMAIN delta = 1..n /\ \A k \in 1..n : delta[k] \in DeviceEntries
    BY DEF Layouts, Merges
  <1>2. ApplyDelta(base, delta) = last
    BY Zenon DEF ApplyDelta, FoldLeft, MapThenFoldSet, DeltaFolds
  <1>3. n = Len(delta) /\ start \in Merges /\ delta \in Seq(DeviceEntries)
    BY <1>1
  <1> HIDE DEF start, n
  <1>4. PICK g : /\ g[0] = start
                 /\ \A k \in 1..n : g[k - 1] \in Merges /\ g[k] = ApplyDevice(g[k - 1], delta[k])
                 /\ g[n] \in Merges /\ last = g[n]
    BY <1>3, DeltaSteps
  <1> HIDE DEF last
  <1> DEFINE Good(k) == /\ OnceEach(g[k].layout) /\ InPlace(base, g[k].layout, delta, k)
                        /\ Origins(base, g[k].layout, delta, k)
                        /\ Noted(base, g[k].notes, delta, k)
             B == {k \in 0..n : Good(k)}
  <1>5. 0 \in B
    <2>1. 0 \in 0..n /\ g[0].layout = base /\ 1..0 = {}
      BY <1>1, <1>4
    <2>2. InPlace(base, base, delta, 0) /\ Origins(base, base, delta, 0)
      BY <2>1 DEF InPlace, Origins, Untouched
    <2>3. Noted(base, g[0].notes, delta, 0)
      BY <2>1 DEF Noted
    <2>4. QED
      BY <2>1, <2>2, <2>3
  <1>6. ASSUME NEW k \in 1..n, k - 1 \in B
        PROVE  k \in B
    <2>1. Good(k - 1) /\ k \in 0..n /\ k \in DOMAIN delta
      <3> HIDE DEF Good
      <3>1. QED
        BY <1>1, <1>6
    <2>2. g[k - 1] \in Merges /\ g[k] = ApplyDevice(g[k - 1], delta[k]) /\ delta[k] \in DeviceEntries
      BY <1>1, <1>4
    <2>3. InPlace(base, g[k].layout, delta, k)
      BY <2>1, <2>2, InPlaceNext
    <2>4. Origins(base, g[k].layout, delta, k)
      BY <2>1, <2>2, OriginsNext
    <2>5. OnceEach(g[k].layout)
      <3>1. /\ g[k] \in Merges
            /\ Added(g[k - 1].layout, g[k].layout, delta[k])
               \/ Merged(g[k - 1].layout, g[k].layout, delta[k], Range(g[k].notes))
        BY <2>2, DeviceIs
      <3>2. g[k - 1].layout \in Layouts /\ g[k].layout \in Layouts
        BY <2>2, <3>1 DEF Merges
      <3>3. \E d : Enters(g[k - 1].layout, g[k].layout, delta[k], Range(g[k].notes), d)
        BY <2>2, <3>1, <3>2, SomeEnters
      <3>4. QED
        BY <2>1, <3>3 DEF Enters
    <2>6. Noted(base, g[k].notes, delta, k)
      BY <2>1, <2>2, NotedNext
    <2>7. QED
      BY <2>1, <2>3, <2>4, <2>5, <2>6
  <1>7. n \in B
    <2>1. n \in 0..n
      BY <1>1
    <2> HIDE DEF B
    <2>2. QED
      BY <1>1, <1>5, <1>6, <2>1, BoundedInduction
  <1>8. QED
    BY <1>2, <1>3, <1>4, <1>7

(* Of every page whose layouts name each device once: a layer that does    *)
(* not name a device leaves it as it is; one that patches it carries its   *)
(* renderings over in the order they are in, and puts a new one before or  *)
(* after the rendering its position names, wherever earlier layers and     *)
(* earlier renderings of the same layer have put that one                  *)
(* (insertion_index in patch_device of apply_delta).                       *)
THEOREM OrderIsPatched ==
  ASSUME DevicesOnce
  PROVE  Spec => LayerKeepsOrder
  <1> DEFINE Keeps ==
        applied' = applied + 1 /\ applied > 0 =>
          \A i \in DOMAIN merged :
            LET said == layers[applied + 1].value
                at   == DeviceAt(said, merged[i].id)
            IN  IF at = 0 THEN merged'[i] = merged[i]
                ELSE \/ IsReplaceMode(said[at])
                     \/ PatchedInOrder(merged[i].rs, merged'[i].rs, said[at].rs)
  <1>1. MergeInv /\ OnceInv /\ [Next]_vars => [Keeps]_<<applied, merged>>
    <2>1. SUFFICES ASSUME MergeInv, OnceInv, [Next]_vars, applied' = applied + 1, applied > 0,
                          NEW i \in DOMAIN merged
                   PROVE  LET said == layers[applied + 1].value
                              at   == DeviceAt(said, merged[i].id)
                          IN  IF at = 0 THEN merged'[i] = merged[i]
                              ELSE \/ IsReplaceMode(said[at])
                                   \/ PatchedInOrder(merged[i].rs, merged'[i].rs, said[at].rs)
      BY Zenon
    <2> DEFINE said == layers[applied + 1].value
               at   == DeviceAt(said, merged[i].id)
    <2>2. applied \in Nat /\ applied' # applied
      BY <2>1 DEF MergeInv, TypeOK
    <2>3. ApplyLayer
      BY <2>1, <2>2 DEF Next, Walk, CollectLayers, vars, pageVars
    <2>4. \E layer : Advances(layer)
      BY <2>1, <2>2, <2>3, LayerAdvances
    <2>5. said \in Layouts /\ OnceEach(said) /\ merged \in Layouts /\ OnceEach(merged)
      <3>1. applied + 1 \in DOMAIN layers /\ said \in Layouts
        BY <2>4 DEF Advances
      <3>2. merged # NoLayout /\ merged \in Layouts
        BY <2>1, <2>2 DEF MergeInv, TypeOK
      <3>3. QED
        BY <2>1, <3>1, <3>2 DEF OnceInv
    <2>6. merged' = ApplyDelta(merged, said).layout
      <3>1. said # Malformed
        BY <2>5, PagesAssumption
      <3>2. QED
        BY <2>1, <2>2, <2>3, <3>1 DEF ApplyLayer
    <2> HIDE DEF said
    <2>7. InPlace(merged, merged', said, Len(said))
      BY <2>5, <2>6, DeltaInPlace
    <2>8. /\ (\A j \in 1..Len(said) : said[j].id # merged[i].id) => merged'[i] = merged[i]
          /\ \A j \in 1..Len(said) : said[j].id = merged[i].id /\ ~IsReplaceMode(said[j]) =>
               merged'[i] = PatchDevice(merged[i], said[j]).device
      BY <2>1, <2>7 DEF InPlace
    <2>9. /\ at \in 0..Len(said) /\ DOMAIN said = 1..Len(said) /\ Len(said) \in Nat
          /\ at = 0 => \A j \in DOMAIN said : said[j].id # merged[i].id
          /\ at > 0 => said[at].id = merged[i].id
      BY <2>5, DeviceAtIs DEF Layouts
    <2> HIDE DEF at
    <2>10. CASE at = 0
      BY <2>8, <2>9, <2>10 DEF at, said
    <2>11. ASSUME at # 0, ~IsReplaceMode(said[at])
           PROVE  PatchedInOrder(merged[i].rs, merged'[i].rs, said[at].rs)
      <3>1. at \in 1..Len(said) /\ said[at].id = merged[i].id
        BY <2>9, <2>11
      <3>2. merged'[i] = PatchDevice(merged[i], said[at]).device
        BY <2>8, <2>11, <3>1
      <3>3. merged[i] \in DeviceEntries /\ said[at] \in DeviceEntries
        BY <2>1, <2>5, <2>9, <3>1 DEF Layouts
      <3>4. QED
        BY <3>2, <3>3, DevicePatchedInOrder
    <2>12. QED
      BY <2>10, <2>11 DEF at, said
  <1>2. Init => OnceInv
    BY OnceInitially
  <1>3. MergeInv /\ OnceInv /\ [Next]_vars => OnceInv'
    BY OnceStep
  <1>4. QED
    BY <1>1, <1>2, <1>3, MergeInvariance, PTL DEF Spec, LayerKeepsOrder

-----------------------------------------------------------------------------
(* Where renderings are carried, one that stands where it asks to be still *)
(* does.                                                                   *)
LEMMA StandsOn ==
  ASSUME NEW old \in Seq(Renderings), NEW new \in Seq(Renderings), NEW f, Carries(f, old, new),
         NEW r, StandsAsAsked(old, r)
  PROVE  StandsAsAsked(new, r)
  <1>1. PICK h \in DOMAIN old, a \in DOMAIN old :
          /\ old[h].uid = r.uid /\ (r.uid = NoUid => old[h].attrs = r.attrs)
          /\ old[a].uid = r.pos.uid
          /\ IF r.pos.side = "after" THEN a < h ELSE h < a
    BY Zenon DEF StandsAsAsked
  <1>2. /\ f \in [DOMAIN old -> DOMAIN new]
        /\ \A k, m \in DOMAIN old : k < m => f[k] < f[m]
        /\ \A k \in DOMAIN old : Same(new[f[k]], old[k])
    BY DEF Carries
  <1>3. f[h] \in DOMAIN new /\ f[a] \in DOMAIN new
    BY <1>2
  <1>4. /\ new[f[h]].uid = r.uid /\ (r.uid = NoUid => new[f[h]].attrs = r.attrs)
        /\ new[f[a]].uid = r.pos.uid
    BY <1>1, <1>2 DEF Same
  <1>5. IF r.pos.side = "after" THEN f[a] < f[h] ELSE f[h] < f[a]
    BY <1>1, <1>2
  <1>6. QED
    BY <1>3, <1>4, <1>5 DEF StandsAsAsked

(* A rendering of a delta that is new in a device, and one of them that    *)
(* comes in with a position: it stands where it asks to be, or that is     *)
(* noted.                                                                  *)
NewIn(old, s, k) ==
  \/ s[k].uid = NoUid
  \/ /\ \A q \in Range(old) : q.uid # s[k].uid
     /\ \A m \in 1..(k - 1) : s[m].uid # s[k].uid

LEMMA StandsOrNoted ==
  ASSUME NEW id \in Devices, NEW acc \in Patched, NEW r \in Renderings,
         r.uid = NoUid \/ \A q \in Range(acc.rs) : q.uid # r.uid,
         r.pos # NoPosition, PatchRendering(id, acc, r).notes = <<>>
  PROVE  StandsAsAsked(PatchRendering(id, acc, r).rs, r)
  <1> DEFINE rs     == acc.rs
             anchor == RenderingAt(rs, r.pos.uid)
             index  == InsertionIndex(rs, r.pos)
             bare   == Bare(r)
             next   == PatchRendering(id, acc, r)
             new    == next.rs
  <1>1. /\ rs \in Seq(Renderings) /\ Len(rs) \in Nat /\ DOMAIN rs = 1..Len(rs)
        /\ acc.notes \in Seq(Notes)
    BY DEF Patched
  <1>2. bare \in Renderings /\ bare.uid = r.uid /\ bare.attrs = r.attrs
    BY DEF Renderings, Positions, NoPosition, Bare
  <1>3. r.pos.side # "none"
    BY DEF Renderings, Positions, NoPosition
  <1>4. MatchedAt(rs, r) = 0
    BY <1>1, RenderingAtIs DEF MatchedAt, Range
  <1>5. \A e : Append(acc.notes, e) # <<>>
    BY <1>1
  <1>6. /\ anchor \in 0..Len(rs) /\ (anchor > 0 => rs[anchor].uid = r.pos.uid)
        /\ index = IF anchor > 0 /\ r.pos.side = "after" THEN anchor + 1 ELSE anchor
    BY <1>1, <1>3, RenderingAtIs DEF InsertionIndex
  <1>7. index > 0 /\ next = [acc EXCEPT !.rs = InsertAt(rs, index, bare)]
    <2> DEFINE at   == MatchedAt(acc.rs, r)
               into == InsertionIndex(acc.rs, r.pos)
               B    == Bare(r)
               U    == [kind |-> "UnknownUid", device |-> id, ref |-> r.uid]
               P    == [kind |-> "BadPositionRef", device |-> id, ref |-> r.pos.uid]
    <2>1. at = 0 /\ into = index /\ B = bare
      BY <1>4
    <2>2. next = IF ~Given(r.attrs["id"])
                   THEN [acc EXCEPT !.notes = Append(@, U)]
                 ELSE IF into > 0
                   THEN [acc EXCEPT !.rs = InsertAt(acc.rs, into, B)]
                 ELSE [rs |-> Append(acc.rs, B), notes |-> Append(acc.notes, P)]
      BY <2>1 DEF PatchRendering, Bare
    <2> HIDE DEF at, into, B, U, P, index, bare
    <2>3. next.notes = <<>>
      OBVIOUS
    <2> HIDE DEF next, anchor
    <2>4. [acc EXCEPT !.notes = Append(@, U)].notes = Append(acc.notes, U)
      BY DEF Patched
    <2>5. QED
      BY <1>5, <2>1, <2>2, <2>3, <2>4
  <1>8. new = InsertAt(rs, index, bare)
    BY <1>7 DEF Patched
  <1>9. index \in 1..(Len(rs) + 1) /\ anchor \in Nat /\ anchor \in 1..Len(rs)
    BY <1>1, <1>6, <1>7
  <1> HIDE DEF index, bare, new, rs, anchor, next
  <1>10. OneMore(new, rs, index, bare) /\ new \in Seq(Renderings)
    BY <1>1, <1>2, <1>8, <1>9, InsertedIs
  <1>11. /\ DOMAIN new = 1..(Len(rs) + 1)
         /\ \A k \in 1..(Len(rs) + 1) :
              new[k] = IF k < index THEN rs[k] ELSE IF k = index THEN bare ELSE rs[k - 1]
    BY <1>1, <1>10 DEF OneMore
  <1>12. index \in DOMAIN new /\ new[index].uid = r.uid /\ new[index].attrs = r.attrs
    BY <1>2, <1>9, <1>11
  <1>13. CASE r.pos.side = "after"
    <2>1. index = anchor + 1 /\ anchor \in DOMAIN new /\ anchor < index
      BY <1>1, <1>6, <1>9, <1>11, <1>13
    <2>2. new[anchor].uid = r.pos.uid
      BY <1>1, <1>6, <1>9, <1>11, <2>1
    <2>3. QED
      BY <1>12, <1>13, <2>1, <2>2 DEF StandsAsAsked, new, next
  <1>14. CASE r.pos.side # "after"
    <2>1. index = anchor /\ anchor + 1 \in DOMAIN new /\ index < anchor + 1
      BY <1>1, <1>6, <1>9, <1>11, <1>14
    <2>2. ~(anchor + 1 < index) /\ anchor + 1 # index /\ (anchor + 1) - 1 = anchor
      BY <1>9, <2>1
    <2>3. new[anchor + 1].uid = r.pos.uid
      BY <1>1, <1>6, <1>9, <1>11, <2>1, <2>2
    <2>4. QED
      BY <1>12, <1>14, <2>1, <2>3 DEF StandsAsAsked, new, next
  <1>15. QED
    BY <1>13, <1>14

(* A list has nothing in it that is within one that has not.               *)
LEMMA NothingIn ==
  ASSUME NEW S, NEW s \in Seq(S), NEW t \in Seq(S), Range(s) \subseteq Range(t), t = <<>>
  PROVE  s = <<>>
  <1>1. Range(t) = {}
    BY DEF Range
  <1>2. DOMAIN s = 1..Len(s) /\ Len(s) \in Nat /\ \A k \in DOMAIN s : s[k] \in Range(s)
    BY DEF Range
  <1>3. DOMAIN s = {}
    BY <1>1, <1>2
  <1>4. QED
    BY <1>2, <1>3

(* After some renderings of a delta, if nothing was noted.                 *)
AllStand(old, acc, s, k) ==
  /\ \A p \in Range(acc.rs) :
       p.uid = NoUid \/ (\E q \in Range(old) : q.uid = p.uid) \/ \E i \in 1..k : s[i].uid = p.uid
  /\ acc.notes = <<>> =>
       \A i \in 1..k : s[i].pos # NoPosition /\ NewIn(old, s, i) => StandsAsAsked(acc.rs, s[i])

(* One more rendering of the delta.                                        *)
LEMMA AllStandNext ==
  ASSUME NEW id \in Devices, NEW old \in Seq(Renderings), NEW acc \in Patched,
         NEW s \in Seq(Renderings), NEW k \in DOMAIN s, AllStand(old, acc, s, k - 1)
  PROVE  AllStand(old, PatchRendering(id, acc, s[k]), s, k)
  <1> DEFINE r    == s[k]
             next == PatchRendering(id, acc, r)
             rs   == acc.rs
             new  == next.rs
  <1>1. /\ r \in Renderings /\ DOMAIN s = 1..Len(s) /\ Len(s) \in Nat
        /\ rs \in Seq(Renderings) /\ 1..k = (1..(k - 1)) \cup {k} /\ k \in 1..k
    BY DEF Patched
  <1>2. /\ next \in Patched /\ Range(acc.notes) \subseteq Range(next.notes)
        /\ \A p \in Range(new) : Like(p, r) \/ \E q \in Range(rs) : Same(p, q)
    <2>1. r \in Renderings
      OBVIOUS
    <2> HIDE DEF r
    <2>2. QED
      BY <2>1, PatchKeeps
  <1>12. \A p \in Range(new) : p.uid = r.uid \/ \E q \in Range(rs) : p.uid = q.uid
    BY <1>2, Zenon DEF Like, Same
  <1>3. PICK h : Carries(h, rs, new)
    BY <1>1, PatchCarries
  <1>4. /\ \A p \in Range(rs) :
             \/ p.uid = NoUid \/ \E q \in Range(old) : q.uid = p.uid
             \/ \E i \in 1..(k - 1) : s[i].uid = p.uid
        /\ acc.notes = <<>> =>
             \A i \in 1..(k - 1) :
               s[i].pos # NoPosition /\ NewIn(old, s, i) => StandsAsAsked(rs, s[i])
    BY DEF AllStand
  <1>5. ASSUME next.notes = <<>>, r.pos # NoPosition, NewIn(old, s, k)
        PROVE  StandsAsAsked(new, r)
    <2>1. r.uid = NoUid \/ \A q \in Range(rs) : q.uid # r.uid
      BY <1>4, <1>5 DEF NewIn
    <2>2. QED
      BY <1>1, <1>5, <2>1, StandsOrNoted
  <1>6. next.notes = <<>> => acc.notes = <<>>
    <2>1. acc.notes \in Seq(Notes)
      BY DEF Patched
    <2>2. next.notes \in Seq(Notes) /\ Range(acc.notes) \subseteq Range(next.notes)
      BY <1>2 DEF Patched
    <2> HIDE DEF next
    <2>3. QED
      BY <2>1, <2>2, NothingIn
  <1>7. new \in Seq(Renderings)
    BY <1>2 DEF Patched
  <1> HIDE DEF new, rs, r, next
  <1>8. ASSUME next.notes = <<>>, NEW i \in 1..k, s[i].pos # NoPosition, NewIn(old, s, i)
        PROVE  StandsAsAsked(new, s[i])
    <2>1. CASE i = k
      BY <1>5, <1>8, <2>1 DEF r
    <2>2. CASE i # k
      <3>1. StandsAsAsked(rs, s[i])
        BY <1>1, <1>4, <1>6, <1>8, <2>2
      <3>2. QED
        BY <1>1, <1>3, <1>7, <3>1, StandsOn
    <2>3. QED
      BY <2>1, <2>2
  <1>9. ASSUME NEW p \in Range(new)
        PROVE  \/ p.uid = NoUid \/ \E q \in Range(old) : q.uid = p.uid
               \/ \E i \in 1..k : s[i].uid = p.uid
    <2>1. CASE p.uid = r.uid
      BY <1>1, <2>1 DEF r
    <2>2. CASE \E q \in Range(rs) : p.uid = q.uid
      BY <1>1, <1>4, <2>2
    <2>3. QED
      BY <1>12, <2>1, <2>2
  <1>10. AllStand(old, next, s, k)
    BY <1>8, <1>9, Zenon DEF AllStand, new
  <1>11. QED
    BY <1>10 DEF next, r

(* patch_device notes a position it cannot resolve, or resolves it.        *)
LEMMA DevicePatchedAsAsked ==
  ASSUME NEW base \in DeviceEntries, NEW delta \in DeviceEntries,
         PatchDevice(base, delta).notes = <<>>,
         NEW m \in DOMAIN delta.rs, delta.rs[m].pos # NoPosition, NewIn(base.rs, delta.rs, m)
  PROVE  StandsAsAsked(PatchDevice(base, delta).device.rs, delta.rs[m])
  <1> DEFINE id    == delta.id
             s     == delta.rs
             old   == base.rs
             start == [rs |-> old, notes |-> <<>>]
             last  == (CHOOSE it : PatchFolds(id, start, s, it))[DOMAIN s]
             n     == Len(s)
  <1>1. /\ id \in Devices /\ s \in Seq(Renderings) /\ start \in Patched /\ n \in Nat
        /\ DOMAIN s = 1..n /\ old \in Seq(Renderings) /\ start.rs = old
    BY DEF DeviceEntries, Patched
  <1>2. PatchDevice(base, delta).device.rs = last.rs /\ PatchDevice(base, delta).notes = last.notes
    <2>1. PatchDevice(base, delta) =
            [device |-> [base EXCEPT !.l = IF delta.l = Missing THEN @ ELSE delta.l,
                                     !.rs = last.rs],
             notes  |-> last.notes]
      BY PatchUnfolds, Zenon
    <2> DEFINE device == [base EXCEPT !.l = IF delta.l = Missing THEN @ ELSE delta.l,
                                      !.rs = last.rs]
    <2>2. device.rs = last.rs
      <3> HIDE DEF last
      <3>1. QED
        BY DEF DeviceEntries
    <2>3. QED
      <3> HIDE DEF last, device
      <3>1. PatchDevice(base, delta) = [device |-> device, notes  |-> last.notes]
        BY <2>1 DEF device
      <3>2. QED
        BY <2>2, <3>1
  <1> HIDE DEF start
  <1>3. PICK g : /\ g[0] = start
                 /\ \A k \in 1..n : g[k - 1] \in Patched /\ g[k] = PatchRendering(id, g[k - 1], s[k])
                 /\ g[n] \in Patched
                 /\ last = g[n]
    <2> HIDE DEF id, s
    <2>1. QED
      BY <1>1, PatchSteps
  <1> HIDE DEF id, s, n, old, last
  <1> DEFINE B == {k \in 0..n : AllStand(old, g[k], s, k)}
  <1>4. 0 \in B
    <2>1. 0 \in 0..n /\ g[0].rs = old /\ 1..0 = {}
      BY <1>1, <1>3
    <2>2. AllStand(old, g[0], s, 0)
      BY <2>1 DEF AllStand
    <2>3. QED
      BY <2>1, <2>2
  <1>5. ASSUME NEW k \in 1..n, k - 1 \in B
        PROVE  k \in B
    <2>1. AllStand(old, g[k - 1], s, k - 1) /\ k \in 0..n /\ k \in DOMAIN s
      BY <1>1, <1>5
    <2>2. g[k - 1] \in Patched /\ g[k] = PatchRendering(id, g[k - 1], s[k])
      BY <1>3
    <2>3. AllStand(old, g[k], s, k)
      BY <1>1, <2>1, <2>2, AllStandNext
    <2>4. QED
      BY <2>1, <2>3
  <1>6. AllStand(old, last, s, n)
    <2>1. n \in 0..n
      BY <1>1
    <2> HIDE DEF B
    <2>2. n \in B
      BY <1>1, <1>4, <1>5, <2>1, BoundedInduction
    <2>3. QED
      BY <1>3, <2>2 DEF B
  <1>7. QED
    BY <1>1, <1>2, <1>6 DEF AllStand, old, s

(* One turn of the loop, or a step that leaves the merge alone.            *)
Takes(said) ==
  /\ layers' = layers /\ applied + 1 \in DOMAIN layers /\ layers[applied + 1].value = said
  /\ applied \in Nat /\ applied' = applied + 1
  /\ said \in Layouts /\ OnceEach(said)
  /\ \/ applied = 0 /\ merged' = said
     \/ /\ applied > 0 /\ merged \in Layouts /\ OnceEach(merged)
        /\ merged' = ApplyDelta(merged, said).layout
        /\ notes' = notes \o ApplyDelta(merged, said).notes

LEMMA TakesOne ==
  ASSUME MergeInv, OnceInv, [Next]_vars
  PROVE  \/ UNCHANGED <<layers, applied, merged, notes>>
         \/ applied = 0 /\ applied' = 0
         \/ \E said : Takes(said)
  <1>1. CASE UNCHANGED pageVars
    BY <1>1 DEF pageVars
  <1>2. CASE CollectLayers
    BY <1>2 DEF CollectLayers, MergeInv, TypeOK
  <1>3. CASE ApplyLayer
    <2> DEFINE said == layers[applied + 1].value
    <2>1. CASE applied' = applied
      <3>1. UNCHANGED <<layers, applied, merged, notes>>
        BY <1>3, <2>1, LayerAdvances DEF Advances, MergeInv, TypeOK
      <3>2. QED
        BY <3>1
    <2>2. CASE applied' # applied
      <3>1. layers' = layers /\ \E layer : Advances(layer)
        BY <1>3, <2>2, LayerAdvances
      <3>2. /\ applied \in Nat /\ applied' = applied + 1 /\ applied + 1 \in DOMAIN layers
            /\ said \in Layouts /\ OnceEach(said)
        BY <3>1 DEF Advances, OnceInv, MergeInv, TypeOK
      <3>3. said # Malformed
        BY <3>2, PagesAssumption
      <3>4. CASE applied = 0
        <4>1. merged' = said
          BY <1>3, <3>3, <3>4 DEF ApplyLayer
        <4>2. QED
          BY <3>1, <3>2, <3>4, <4>1 DEF Takes
      <3>5. CASE applied # 0
        <4>1. /\ merged' = ApplyDelta(merged, said).layout
              /\ notes' = notes \o ApplyDelta(merged, said).notes
          BY <1>3, <3>3, <3>5 DEF ApplyLayer
        <4>2. merged \in Layouts /\ OnceEach(merged)
          BY <3>5 DEF MergeInv, TypeOK, OnceInv
        <4>3. applied > 0
          BY <3>2, <3>5
        <4> HIDE DEF said
        <4>4. Takes(said)
          BY <3>1, <3>2, <4>1, <4>2, <4>3 DEF Takes, said
        <4>5. QED
          BY <4>4
      <3>6. QED
        BY <3>4, <3>5
    <2>3. QED
      BY <2>1, <2>2
  <1>4. QED
    BY <1>1, <1>2, <1>3 DEF Next, Walk, vars

(* What the merge has of a uid is said by a layer, and the device was not  *)
(* replaced since.                                                         *)
SpokenInv ==
  applied > 0 =>
    \A d \in Range(merged) : \A p \in Range(d.rs) :
      \E j \in 1..applied : \E f \in Range(layers[j].value) :
        /\ f.id = d.id /\ ~ReplacedBy(j, applied, d.id)
        /\ \E q \in Range(f.rs) : q.uid = p.uid

(* A device is replaced up to a layer, or by the next.                     *)
LEMMA ReplacedNext ==
  ASSUME NEW said, Takes(said), NEW j \in 1..(applied + 1), NEW id
  PROVE  /\ j = applied + 1 => ~ReplacedBy(j, applied, id)'
         /\ j # applied + 1 =>
              (ReplacedBy(j, applied, id)' <=>
                 ReplacedBy(j, applied, id) \/ \E e \in Range(said) : e.id = id /\ IsReplaceMode(e))
  <1>1. /\ applied \in Nat /\ applied' = applied + 1 /\ layers' = layers
        /\ layers[applied + 1].value = said
    BY DEF Takes
  <1>2. ReplacedBy(j, applied, id)' <=>
          \E h \in (j + 1)..(applied + 1) : \E f \in Range(layers[h].value) :
            f.id = id /\ IsReplaceMode(f)
    BY <1>1 DEF ReplacedBy
  <1>3. j = applied + 1 => (j + 1)..(applied + 1) = {}
    BY <1>1
  <1>4. j # applied + 1 =>
          \A h : h \in (j + 1)..(applied + 1) <=> h \in (j + 1)..applied \/ h = applied + 1
    BY <1>1
  <1>5. QED
    BY <1>1, <1>2, <1>3, <1>4 DEF ReplacedBy

LEMMA SpokenStep ==
  ASSUME MergeInv, OnceInv, SpokenInv, [Next]_vars
  PROVE  SpokenInv'
  <1>1. CASE UNCHANGED <<layers, applied, merged, notes>>
    BY <1>1 DEF SpokenInv, ReplacedBy
  <1>2. CASE applied = 0 /\ applied' = 0
    BY <1>2 DEF SpokenInv
  <1>3. ASSUME NEW said, Takes(said)
        PROVE  SpokenInv'
    <2>1. /\ layers' = layers /\ layers[applied + 1].value = said /\ said \in Layouts
          /\ applied \in Nat /\ applied' = applied + 1 /\ applied + 1 \in 1..applied'
      BY <1>3 DEF Takes
    <2> DEFINE Told(d, p) ==
          \E j \in 1..applied' : \E f \in Range(layers[j].value) :
            /\ f.id = d.id /\ ~ReplacedBy(j, applied, d.id)'
            /\ \E q \in Range(f.rs) : q.uid = p.uid
    <2>2. ASSUME NEW d, NEW p, NEW e \in Range(said), e.id = d.id, NEW q \in Range(e.rs), q.uid = p.uid
          PROVE  Told(d, p)
      <3>1. PICK j \in 1..applied' : j = applied + 1
        BY <2>1
      <3>2. ~ReplacedBy(j, applied, d.id)'
        BY <1>3, <2>1, <3>1, ReplacedNext
      <3>3. QED
        BY <2>1, <2>2, <3>1, <3>2
    <2>3. ASSUME applied > 0, NEW b \in Range(merged), NEW q \in Range(b.rs), NEW d, NEW p,
                 b.id = d.id, q.uid = p.uid,
                 \A e \in Range(said) : e.id = d.id => ~IsReplaceMode(e)
          PROVE  Told(d, p)
      <3>1. PICK j \in 1..applied : \E f \in Range(layers[j].value) :
              /\ f.id = b.id /\ ~ReplacedBy(j, applied, b.id)
              /\ \E r \in Range(f.rs) : r.uid = q.uid
        BY <2>3 DEF SpokenInv
      <3>2. j \in 1..(applied + 1) /\ j # applied + 1 /\ j \in 1..applied'
        BY <2>1
      <3>3. ~ReplacedBy(j, applied, d.id)'
        BY <1>3, <2>3, <3>1, <3>2, ReplacedNext
      <3>4. QED
        BY <2>3, <3>1, <3>2, <3>3
    <2>4. SUFFICES ASSUME NEW d \in Range(merged'), NEW p \in Range(d.rs)
                   PROVE  Told(d, p)
      BY <2>1 DEF SpokenInv
    <2>5. CASE applied = 0 /\ merged' = said
      BY <2>2, <2>4, <2>5
    <2>6. ASSUME applied > 0, merged \in Layouts, OnceEach(merged), OnceEach(said),
                 merged' = ApplyDelta(merged, said).layout
          PROVE  Told(d, p)
      <3> HIDE DEF Told
      <3>1. /\ Origins(merged, merged', said, Len(said))
            /\ DOMAIN said = 1..Len(said) /\ Range(said) = {said[j] : j \in DOMAIN said}
        BY <2>1, <2>6, DeltaInPlace DEF Layouts, Range
      <3>2. CASE Untouched(merged, said, Len(said), d)
        <4>1. d \in Range(merged) /\ \A e \in Range(said) : e.id # d.id
          BY <3>1, <3>2 DEF Untouched
        <4>2. QED
          BY <2>3, <2>4, <2>6, <4>1
      <3>3. CASE Whole(merged, said, Len(said), d)
        <4>1. d \in Range(said)
          BY <3>1, <3>3 DEF Whole
        <4>2. QED
          BY <2>2, <2>4, <4>1
      <3>4. CASE PatchedUp(merged, said, Len(said), d)
        <4>1. PICK j \in DOMAIN said, b \in Range(merged) :
                /\ b.id = said[j].id /\ ~IsReplaceMode(said[j])
                /\ d = PatchDevice(b, said[j]).device
          BY <3>1, <3>4 DEF PatchedUp
        <4>2. b \in DeviceEntries /\ said[j] \in DeviceEntries
          BY <2>1, <2>6, <4>1 DEF Layouts, Range
        <4>3. d.id = b.id /\ FromEither(d.rs, b.rs, Range(said[j].rs))
          BY <4>1, <4>2, DevicePatchedIs DEF DevicePatched
        <4>4. said[j] \in Range(said)
          BY <3>1
        <4>5. CASE \E r \in Range(said[j].rs) : Like(p, r)
          <5>1. PICK r \in Range(said[j].rs) : r.uid = p.uid
            BY <4>5 DEF Like
          <5>2. QED
            BY <2>2, <4>1, <4>3, <4>4, <5>1
        <4>6. CASE \E q \in Range(b.rs) : Same(p, q)
          <5>1. PICK q \in Range(b.rs) : q.uid = p.uid
            BY <4>6 DEF Same
          <5>2. \A e \in Range(said) : e.id = d.id => e = said[j]
            BY <2>6, <3>1, <4>1, <4>3 DEF OnceEach
          <5>3. QED
            BY <2>3, <2>6, <4>1, <4>3, <5>1, <5>2
        <4>7. QED
          BY <2>4, <4>3, <4>5, <4>6 DEF FromEither
      <3>5. QED
        BY <2>4, <3>1, <3>2, <3>3, <3>4 DEF Origins
    <2>7. QED
      BY <1>3, <2>5, <2>6 DEF Takes
  <1>4. QED
    BY <1>1, <1>2, <1>3, TakesOne

(* While nothing is noted, what came in with a position stands as asked.   *)
StoodAsAsked(i, e) ==
  \A k \in DOMAIN e.rs :
    ComesIn(i, e, k) => \E d \in Range(merged) : d.id = e.id /\ StandsAsAsked(d.rs, e.rs[k])

PlacedInv ==
  notes = <<>> =>
    \A i \in 1..applied : \A e \in Range(layers[i].value) :
      ReplacedBy(i, applied, e.id) \/ StoodAsAsked(i, e)

(* What a layer brings in itself.                                          *)
LEMMA PlacedByLayer ==
  ASSUME NEW said, Takes(said), applied > 0, DevicesInv, SpokenInv,
         ApplyDelta(merged, said).notes = <<>>,
         NEW e \in Range(said), NEW k \in DOMAIN e.rs, NEW i, i = applied + 1, ComesIn(i, e, k)
  PROVE  \E d \in Range(merged') : d.id = e.id /\ StandsAsAsked(d.rs, e.rs[k])
  <1>1. /\ said \in Layouts /\ merged \in Layouts /\ OnceEach(said) /\ OnceEach(merged)
        /\ merged' = ApplyDelta(merged, said).layout /\ applied \in Nat
        /\ DOMAIN said = 1..Len(said) /\ i - 1 = applied
    BY DEF Takes, Layouts
  <1>2. PICK j \in DOMAIN said : said[j] = e
    BY DEF Range
  <1>3. e.rs[k].pos # NoPosition /\ ~IsReplaceMode(e)
    BY DEF ComesIn, IsReplaceMode, HasPatchAttr
  <1>4. PICK x \in DOMAIN merged : merged[x].id = e.id
    <2>1. \E h \in 1..applied : \E f \in Range(layers[h].value) : f.id = e.id
      BY <1>1 DEF ComesIn
    <2>2. Mentioned(e.id)
      BY <2>1, HasInRange DEF Mentioned
    <2>3. QED
      BY <2>2 DEF DevicesInv, HasDevice
  <1>5. merged[x] \in DeviceEntries /\ e \in DeviceEntries
    BY <1>1, <1>2 DEF Layouts
  <1>6. /\ x \in DOMAIN merged' /\ merged'[x] = PatchDevice(merged[x], e).device
        /\ Range(PatchDevice(merged[x], e).notes) \subseteq {}
    <2>1. /\ InPlace(merged, merged', said, Len(said))
          /\ Noted(merged, ApplyDelta(merged, said).notes, said, Len(said))
      BY <1>1, DeltaInPlace
    <2>2. Range(ApplyDelta(merged, said).notes) = {}
      BY DEF Range
    <2>3. QED
      BY <1>1, <1>2, <1>3, <1>4, <2>1, <2>2 DEF InPlace, Noted
  <1>7. PatchDevice(merged[x], e).notes = <<>>
    <2>1. PatchDevice(merged[x], e).notes \in Seq(Notes)
      BY <1>5, DevicePatchedIs
    <2>2. <<>> \in Seq(Notes)
      OBVIOUS
    <2>3. QED
      BY <1>6, <2>1, <2>2, NothingIn
  <1>8. NewIn(merged[x].rs, e.rs, k)
    <2>1. SUFFICES ASSUME e.rs[k].uid # NoUid
                   PROVE  /\ \A q \in Range(merged[x].rs) : q.uid # e.rs[k].uid
                          /\ \A m \in 1..(k - 1) : e.rs[m].uid # e.rs[k].uid
      BY DEF NewIn
    <2>2. /\ \A m \in 1..(k - 1) : e.rs[m].uid # e.rs[k].uid
          /\ \A h \in 1..applied : \A f \in Range(layers[h].value) :
               f.id = e.id /\ (\E q \in Range(f.rs) : q.uid = e.rs[k].uid)
                 => ReplacedBy(h, applied, e.id)
      BY <1>1, <2>1 DEF ComesIn
    <2>3. SUFFICES ASSUME NEW q \in Range(merged[x].rs), q.uid = e.rs[k].uid PROVE FALSE
      BY <2>2
    <2>4. merged[x] \in Range(merged)
      BY DEF Range
    <2>5. \E h \in 1..applied : \E f \in Range(layers[h].value) :
            /\ f.id = e.id /\ ~ReplacedBy(h, applied, e.id)
            /\ \E r \in Range(f.rs) : r.uid = e.rs[k].uid
      BY <1>4, <2>3, <2>4 DEF SpokenInv
    <2>6. QED
      BY <2>2, <2>5
  <1>9. StandsAsAsked(merged'[x].rs, e.rs[k])
    BY <1>3, <1>5, <1>6, <1>7, <1>8, DevicePatchedAsAsked
  <1>10. merged'[x].id = e.id
    BY <1>4, <1>5, <1>6, DevicePatchedIs
  <1>11. QED
    BY <1>6, <1>9, <1>10 DEF Range

(* What a layer below brought in.                                          *)
LEMMA PlacedStays ==
  ASSUME NEW said, Takes(said), applied > 0, NEW d \in Range(merged), NEW r,
         StandsAsAsked(d.rs, r), \A e \in Range(said) : e.id = d.id => ~IsReplaceMode(e)
  PROVE  \E c \in Range(merged') : c.id = d.id /\ StandsAsAsked(c.rs, r)
  <1>1. /\ said \in Layouts /\ merged \in Layouts /\ OnceEach(said) /\ OnceEach(merged)
        /\ merged' = ApplyDelta(merged, said).layout /\ DOMAIN said = 1..Len(said)
    BY DEF Takes, Layouts
  <1>2. PICK x \in DOMAIN merged : merged[x] = d
    BY DEF Range
  <1>3. InPlace(merged, merged', said, Len(said))
    BY <1>1, DeltaInPlace
  <1>4. x \in DOMAIN merged' /\ merged'[x].id = d.id
    BY <1>2, <1>3 DEF InPlace
  <1>5. CASE \A j \in DOMAIN said : said[j].id # d.id
    <2>1. merged'[x] = d
      BY <1>1, <1>2, <1>3, <1>5 DEF InPlace
    <2>2. QED
      BY <1>4, <2>1 DEF Range
  <1>6. ASSUME NEW j \in DOMAIN said, said[j].id = d.id
        PROVE  \E c \in Range(merged') : c.id = d.id /\ StandsAsAsked(c.rs, r)
    <2>1. said[j] \in DeviceEntries /\ d \in DeviceEntries /\ ~IsReplaceMode(said[j])
      BY <1>1, <1>2, <1>6 DEF Layouts, Range
    <2>2. merged'[x] = PatchDevice(d, said[j]).device
      BY <1>1, <1>2, <1>3, <1>6, <2>1 DEF InPlace
    <2>3. PICK f : Carries(f, d.rs, merged'[x].rs)
      BY <2>1, <2>2, DevicePatchedInOrder DEF PatchedInOrder
    <2>4. d.rs \in Seq(Renderings) /\ merged'[x].rs \in Seq(Renderings)
      <3>1. merged'[x] \in DeviceEntries
        BY <2>1, <2>2, DevicePatchedIs
      <3>2. QED
        BY <2>1, <3>1 DEF DeviceEntries
    <2>5. StandsAsAsked(merged'[x].rs, r)
      BY <2>3, <2>4, StandsOn
    <2>6. QED
      BY <1>4, <2>5 DEF Range
  <1>7. QED
    BY <1>5, <1>6

LEMMA PlacedStep ==
  ASSUME MergeInv, OnceInv, DevicesInv, SpokenInv, PlacedInv, [Next]_vars
  PROVE  PlacedInv'
  <1>1. CASE UNCHANGED <<layers, applied, merged, notes>>
    BY <1>1 DEF PlacedInv, StoodAsAsked, ReplacedBy, ComesIn
  <1>2. CASE applied = 0 /\ applied' = 0
    BY <1>2 DEF PlacedInv
  <1>3. ASSUME NEW said, Takes(said)
        PROVE  PlacedInv'
    <2>1. /\ layers' = layers /\ layers[applied + 1].value = said /\ applied \in Nat
          /\ applied' = applied + 1
          /\ \A i : i \in 1..applied' <=> i \in 1..applied \/ i = applied + 1
      BY <1>3 DEF Takes
    <2>2. \A i, e, k : ComesIn(i, e, k)' <=> ComesIn(i, e, k)
      BY <2>1 DEF ComesIn, ReplacedBy
    <2>3. SUFFICES ASSUME notes' = <<>>, NEW i \in 1..applied', NEW e \in Range(layers[i].value),
                          ~ReplacedBy(i, applied, e.id)',
                          NEW k \in DOMAIN e.rs, ComesIn(i, e, k)
                   PROVE  \E d \in Range(merged') : d.id = e.id /\ StandsAsAsked(d.rs, e.rs[k])
      BY <2>1, <2>2, Zenon DEF PlacedInv, StoodAsAsked
    <2>4. applied > 0
      <3>1. i - 1 >= 1
        BY <2>1, <2>3 DEF ComesIn
      <3>2. QED
        BY <2>1, <2>3, <3>1
    <2>5. notes = <<>> /\ ApplyDelta(merged, said).notes = <<>>
      <3> DEFINE more == ApplyDelta(merged, said).notes
      <3>1. notes \in Seq(Notes) /\ notes' = notes \o more
        BY <1>3, <2>4 DEF Takes, MergeInv, TypeOK
      <3>2. more \in Seq(Notes)
        BY <1>3, <2>4, DeltaIs DEF Takes, Merges
      <3> HIDE DEF more
      <3>3. Range(notes') = Range(notes) \cup Range(more)
        BY <3>1, <3>2, RangeOfBoth
      <3>4. notes' \in Seq(Notes)
        BY <3>1, <3>2
      <3>5. notes = <<>> /\ more = <<>>
        BY <2>3, <3>1, <3>2, <3>3, <3>4, NothingIn
      <3>6. QED
        BY <3>5 DEF more
    <2>6. CASE i = applied + 1
      BY <1>3, <2>1, <2>3, <2>4, <2>5, <2>6, PlacedByLayer
    <2>7. CASE i \in 1..applied
      <3>1. i \in 1..(applied + 1) /\ i # applied + 1
        BY <2>1, <2>7
      <3>2. ~ReplacedBy(i, applied, e.id) /\ \A f \in Range(said) : f.id = e.id => ~IsReplaceMode(f)
        BY <1>3, <2>3, <3>1, ReplacedNext
      <3>3. PICK d \in Range(merged) : d.id = e.id /\ StandsAsAsked(d.rs, e.rs[k])
        BY <2>3, <2>5, <2>7, <3>2 DEF PlacedInv, StoodAsAsked
      <3>4. QED
        BY <1>3, <2>4, <3>2, <3>3, PlacedStays
    <2>8. QED
      BY <2>1, <2>3, <2>6, <2>7
  <1>4. QED
    BY <1>1, <1>2, <1>3, TakesOne

-----------------------------------------------------------------------------
(* What collect_layers makes of a chain and documents: LayersAt as a       *)
(* function of what it reads, so that a step that leaves this alone leaves *)
(* the layers alone.                                                       *)
StandardsOf(ds, c) ==
  FoldLeft(LAMBDA values, t : IF ds[t].standard = None THEN values
                              ELSE Append(values, ds[t].standard), <<>>, c)

ExistingOf(docs, item) ==
  {v \in Versions : item \in DOMAIN docs /\ docs[item].final[v] # NoVersion}

VersionIn(docs, r) ==
  IF r # Latest THEN r
  ELSE IF ExistingOf(docs, Page) # {} THEN Newest(ExistingOf(docs, Page))
  ELSE 1

SharedIn(docs, item) == IF item \in DOMAIN docs THEN docs[item].shared ELSE NoLayout

AtMostIn(docs, item, version) ==
  LET older == {v \in ExistingOf(docs, item) : v <= version}
  IN  IF older = {} THEN NoLayout ELSE docs[item].final[Newest(older)]

ExactIn(docs, item, version) ==
  IF version \in ExistingOf(docs, item) THEN docs[item].final[version] ELSE NoLayout

StackOf(values, docs, version) ==
  LET std == Reverse(values)
      n   == Len(std)
  IN  FoldLeft(AddLayer, <<>>,
        [i \in 1..n |-> Layer("shared", std[i], SharedIn(docs, std[i]))]
          \o <<Layer("shared", Page, SharedIn(docs, Page))>>
          \o [i \in 1..n |-> Layer("final", std[i], AtMostIn(docs, std[i], version))]
          \o <<Layer("final", Page, ExactIn(docs, Page, version))>>)

(* It reads nothing else.                                                  *)
LEMMA StandardsAlone == StdValuesChain = StandardsOf(defs, chain)
  BY Zenon DEF StdValuesChain, StandardsOf, AddStandard, FoldLeft, MapThenFoldSet

LEMMA StackAlone ==
  ASSUME NEW version
  PROVE  LayersAt(version) = StackOf(StandardsOf(defs, chain), documents, version)
  <1>1. LayersAt(version) = StackOf(StdValuesChain, documents, version)
    BY Zenon DEF LayersAt, StackOf, SharedOf, SharedIn, FinalAtMost, AtMostIn, FinalExact, ExactIn,
       ExistingVersions, ExistingOf
  <1>2. QED
    BY <1>1, StandardsAlone

LEMMA VersionAlone == VersionOf(requested) = VersionIn(documents, requested)
  BY DEF VersionOf, VersionIn, ExistingVersions, ExistingOf

(* collect_layers for the version a caller gets.                           *)
Collected == LayersAt(VersionOf(requested))

LEMMA CollectedAlone ==
  Collected = StackOf(StandardsOf(defs, chain), documents, VersionIn(documents, requested))
  BY StackAlone, VersionAlone DEF Collected

(* Merging leaves it alone.                                                *)
LEMMA CollectedStays ==
  ASSUME UNCHANGED <<defs, chain, documents, requested>>
  PROVE  Collected' = Collected
  <1>1. Collected = StackOf(StandardsOf(defs, chain), documents, VersionIn(documents, requested))
    BY CollectedAlone
  <1>2. (Collected = StackOf(StandardsOf(defs, chain), documents, VersionIn(documents, requested)))'
    BY CollectedAlone, PTL
  <1>3. QED
    BY <1>1, <1>2

(* What merge_layers has at any time.                                      *)
Results == [layout : Layouts \cup {NoLayout}, notes : Seq(Notes)]
Start   == [layout |-> NoLayout, notes |-> <<>>]
Result  == [layout |-> merged, notes |-> notes]

(* One layer more is a result again.                                       *)
LEMMA MergeType ==
  ASSUME NEW acc \in Results, NEW layer \in Entries(Layouts)
  PROVE  MergeLayer(acc, layer) \in Results
  <1>1. layer.value \in Layouts /\ acc.layout \in Layouts \cup {NoLayout} /\ acc.notes \in Seq(Notes)
    BY DEF Entries, Results
  <1>2. CASE acc.layout = NoLayout
    BY <1>1, <1>2 DEF MergeLayer, Results
  <1>3. CASE acc.layout # NoLayout
    <2> DEFINE next == ApplyDelta(acc.layout, layer.value)
    <2>1. next \in Merges
      BY <1>1, <1>3, DeltaIs
    <2>2. MergeLayer(acc, layer) = [layout |-> next.layout, notes |-> acc.notes \o next.notes]
      BY <1>3 DEF MergeLayer
    <2> HIDE DEF next
    <2>3. QED
      BY <1>1, <2>1, <2>2 DEF Merges, Results
  <1>4. QED
    BY <1>2, <1>3

(* The layers of a page, one after the other.                              *)
MergeFolds(start, s, it) ==
  it = [u \in SUBSET DOMAIN s |->
         IF u = {} THEN start ELSE MergeLayer(it[u \ {Max(u)}], s[Max(u)])]

(* The fold of merge_layers, one layer after the other.                    *)
LEMMA MergeSteps ==
  ASSUME NEW start \in Results, NEW s \in Seq(Entries(Layouts))
  PROVE  \E g : /\ g[0] = start
                /\ \A k \in 1..Len(s) : g[k - 1] \in Results /\ g[k] = MergeLayer(g[k - 1], s[k])
                /\ g[Len(s)] \in Results
                /\ (CHOOSE it : MergeFolds(start, s, it))[DOMAIN s] = g[Len(s)]
  <1> DEFINE n    == Len(s)
             S    == Results
             step == [p \in S \X (1..n) |-> MergeLayer(p[1], s[p[2]])]
             c    == CHOOSE it : MergeFolds(start, s, it)
  <1>1. n \in Nat /\ DOMAIN s = 1..n /\ start \in S /\ \A i \in 1..n : s[i] \in Entries(Layouts)
    OBVIOUS
  <1>2. /\ step \in [S \X (1..n) -> S]
        /\ \A a \in S, i \in 1..n : step[<<a, i>>] = MergeLayer(a, s[i]) /\ MergeLayer(a, s[i]) \in S
    <2>1. \A a \in S, i \in 1..n : MergeLayer(a, s[i]) \in S
      BY <1>1, MergeType
    <2>2. \A p \in S \X (1..n) : MergeLayer(p[1], s[p[2]]) \in S
      BY <2>1
    <2>3. QED
      BY <2>1, <2>2
  <1>3. n = Len(s) /\ S = Results
    OBVIOUS
  <1> HIDE DEF n, S, step, c
  <1>4. PICK it \in [SUBSET (1..n) -> S] : GoesByGreatest(it, n, start, step)
    BY <1>1, <1>2, SetRecursion
  <1>5. MergeFolds(start, s, it)
    <2>1. ASSUME NEW u \in SUBSET (1..n), u # {}
          PROVE  it[u] = MergeLayer(it[u \ {Max(u)}], s[Max(u)])
      <3>1. Max(u) \in u
        BY <1>1, <2>1, GreatestExists
      <3>2. Max(u) \in 1..n /\ it[u \ {Max(u)}] \in S
        BY <1>4, <3>1
      <3>3. it[u] = step[<<it[u \ {Max(u)}], Max(u)>>]
        BY <1>4, <2>1 DEF GoesByGreatest
      <3>4. QED
        BY <1>2, <3>2, <3>3, Zenon
    <2>2. \A u \in SUBSET (1..n) :
            it[u] = IF u = {} THEN start ELSE MergeLayer(it[u \ {Max(u)}], s[Max(u)])
      <3>1. {} \in SUBSET (1..n) /\ it[{}] = start
        BY <1>4 DEF GoesByGreatest
      <3>2. QED
        BY <2>1, <3>1
    <2>3. it = [u \in SUBSET (1..n) |-> it[u]]
      BY <1>4
    <2>4. QED
      BY <1>1, <2>2, <2>3, Zenon DEF MergeFolds
  <1>6. MergeFolds(start, s, c)
    BY <1>5, Zenon DEF c
  <1>7. \A u \in SUBSET (1..n) :
          c[u] = IF u = {} THEN start ELSE MergeLayer(c[u \ {Max(u)}], s[Max(u)])
    BY <1>1, <1>6, Zenon DEF MergeFolds
  <1> DEFINE g == [k \in 0..n |-> c[1..k]]
  <1>8. g[0] = start
    <2>1. 1..0 = {} /\ {} \in SUBSET (1..n) /\ 0 \in 0..n
      BY <1>1
    <2>2. QED
      BY <1>7, <2>1
  <1>9. ASSUME NEW k \in 1..n
        PROVE  g[k] = MergeLayer(g[k - 1], s[k])
    <2>1. k \in 0..n /\ k - 1 \in 0..n
      BY <1>1
    <2>2. c[1..k] = MergeLayer(c[1..(k - 1)], s[k])
      BY <1>1, <1>7, StepsOfSets
    <2>3. QED
      BY <2>1, <2>2
  <1>10. g[n] = c[1..n]
    BY <1>1
  <1> HIDE DEF g
  <1>11. \A k \in 0..n : g[k] \in S
    <2> DEFINE B == {k \in 0..n : g[k] \in S}
    <2>1. 0 \in B
      BY <1>1, <1>8
    <2>2. ASSUME NEW k \in 1..n, k - 1 \in B
          PROVE  k \in B
      <3>1. g[k - 1] \in S /\ k \in 0..n
        BY <1>1, <2>2
      <3>2. g[k] = MergeLayer(g[k - 1], s[k])
        BY <1>9
      <3>3. MergeLayer(g[k - 1], s[k]) \in S
        BY <1>2, <3>1, Zenon
      <3>4. QED
        BY <3>1, <3>2, <3>3
    <2>3. QED
      <3> HIDE DEF B
      <3>1. \A k \in 0..n : k \in B
        BY <1>1, <2>1, <2>2, BoundedInduction
      <3>2. QED
        BY <3>1 DEF B
  <1>12. \A k \in 1..n : k - 1 \in 0..n
    BY <1>1
  <1>13. \A k \in 1..n : g[k - 1] \in Results /\ g[k] = MergeLayer(g[k - 1], s[k])
    BY <1>3, <1>9, <1>11, <1>12
  <1>14. g[n] \in Results /\ c[DOMAIN s] = g[n]
    BY <1>1, <1>3, <1>10, <1>11
  <1>15. QED
    BY <1>3, <1>8, <1>13, <1>14, Zenon DEF c

(* The resolution goes the way of merge_layers, its layers are those of    *)
(* the page, and its notes are about devices it has.                       *)
ByLayers(g) ==
  /\ g[0] = Start /\ g[applied] = Result
  /\ \A k \in 1..applied : g[k] = MergeLayer(g[k - 1], layers[k])

VerdictInv ==
  /\ stage # "walk" => layers = Collected
  /\ stage = "malformed" => \E k \in DOMAIN layers : layers[k].value = Malformed
  /\ \E g : ByLayers(g)
  /\ IF applied = 0 THEN notes = <<>> ELSE \A note \in Range(notes) : HasDevice(merged, note.device)

(* There is none before the walk, and nothing is noted.                    *)
LEMMA VerdictInitially ==
  ASSUME Init
  PROVE  VerdictInv
  <1>1. ByLayers([k \in {0} |-> Start])
    BY DEF Init, ByLayers, Result, Start
  <1>2. QED
    BY <1>1 DEF Init, VerdictInv

(* One turn of the loop is one of merge_layers.                            *)
LEMMA TurnIs ==
  ASSUME MergeInv, ApplyLayer, layers[applied + 1].value # Malformed,
         applied = 0 => notes = <<>>
  PROVE  /\ Result' = MergeLayer(Result, layers[applied + 1])
         /\ applied' = applied + 1
  <1> DEFINE layer == layers[applied + 1]
             next  == IF applied = 0 THEN [layout |-> layer.value, notes |-> <<>>]
                      ELSE ApplyDelta(merged, layer.value)
  <1>1. merged' = next.layout /\ notes' = notes \o next.notes /\ applied' = applied + 1
    BY DEF ApplyLayer
  <1>2. merged = NoLayout <=> applied = 0
    BY DEF MergeInv
  <1>3. CASE applied = 0
    <2>1. next.layout = layer.value /\ next.notes = <<>> /\ notes = <<>>
      BY <1>3
    <2> HIDE DEF next, layer
    <2>2. notes \o next.notes = <<>>
      BY <2>1
    <2>3. MergeLayer(Result, layer) = [layout |-> layer.value, notes |-> <<>>]
      BY <1>2, <1>3 DEF MergeLayer, Result
    <2>4. Result' = [layout |-> layer.value, notes |-> <<>>]
      BY <1>1, <2>1, <2>2 DEF Result
    <2>5. QED
      BY <1>1, <2>3, <2>4 DEF layer
  <1>4. CASE applied # 0
    <2>1. next = ApplyDelta(merged, layer.value)
      BY <1>4
    <2> HIDE DEF next, layer
    <2>2. MergeLayer(Result, layer) = [layout |-> next.layout, notes |-> notes \o next.notes]
      BY <1>2, <1>4, <2>1 DEF MergeLayer, Result
    <2>3. Result' = [layout |-> next.layout, notes |-> notes \o next.notes]
      BY <1>1 DEF Result
    <2>4. QED
      BY <1>1, <2>2, <2>3 DEF layer
  <1>5. QED
    BY <1>3, <1>4

(* Collecting and merging keep it.                                         *)
LEMMA VerdictStep ==
  ASSUME MergeInv, VerdictInv, [Next]_vars
  PROVE  VerdictInv'
  <1>1. CASE UNCHANGED pageVars
    <2>1. stage' = stage /\ layers' = layers /\ (stage # "walk" => Collected' = Collected)
      <3>1. CASE Walk
        BY <1>1, <3>1 DEF Walk, pageVars
      <3>2. CASE UNCHANGED vars
        BY <3>2, CollectedStays DEF vars, walkVars, pageVars
      <3>3. QED
        BY <1>1, <3>1, <3>2 DEF Next, CollectLayers, ApplyLayer, pageVars, TypeOK, MergeInv
    <2>2. \A g : ByLayers(g) => ByLayers(g)'
      BY <1>1 DEF ByLayers, pageVars, Result
    <2>3. QED
      BY <1>1, <2>1, <2>2 DEF VerdictInv, pageVars
  <1>2. CASE CollectLayers
    <2>1. /\ layers' = Collected /\ stage' = "merge" /\ applied = 0
          /\ UNCHANGED <<applied, merged, notes, defs, chain, documents, requested>>
      BY <1>2 DEF CollectLayers, Collected, MergeInv, TypeOK, walkVars
    <2>2. Collected' = Collected
      BY <2>1, CollectedStays
    <2>3. \A g : ByLayers(g) => ByLayers(g)'
      BY <2>1 DEF ByLayers, Result
    <2>4. QED
      BY <2>1, <2>2, <2>3 DEF VerdictInv
  <1>3. CASE ApplyLayer
    <2> DEFINE layer == layers[applied + 1]
    <2>1. /\ stage = "merge" /\ layers' = layers /\ applied < Len(layers)
          /\ UNCHANGED <<defs, chain, documents, requested>>
      BY <1>3 DEF ApplyLayer, walkVars
    <2>2. layers' = Collected'
      BY <2>1, CollectedStays DEF VerdictInv
    <2>3. /\ applied \in Nat /\ applied + 1 \in DOMAIN layers
      BY <2>1 DEF MergeInv, TypeOK
    <2>4. CASE layer.value = Malformed
      <3>1. stage' = "malformed" /\ UNCHANGED <<applied, merged, notes>>
        BY <1>3, <2>4 DEF ApplyLayer
      <3>2. \A g : ByLayers(g) => ByLayers(g)'
        BY <2>1, <3>1 DEF ByLayers, Result
      <3>3. \E k \in DOMAIN layers' : layers'[k].value = Malformed
        BY <2>1, <2>3, <2>4
      <3>4. QED
        BY <2>2, <3>1, <3>2, <3>3 DEF VerdictInv
    <2>5. CASE layer.value # Malformed
      <3>1. Result' = MergeLayer(Result, layer) /\ applied' = applied + 1 /\ stage' = "merge"
        <4>1. applied = 0 => notes = <<>>
          BY DEF VerdictInv
        <4>2. stage' = stage
          BY <1>3, <2>5 DEF ApplyLayer
        <4>3. QED
          BY <1>3, <2>1, <2>5, <4>1, <4>2, TurnIs
      <3>2. PICK g : ByLayers(g)
        BY DEF VerdictInv
      <3> DEFINE h == [k \in 0..applied' |-> IF k = applied' THEN Result' ELSE g[k]]
      <3>3. /\ h[0] = g[0] /\ h[applied'] = Result'
            /\ \A k \in 0..applied : h[k] = g[k]
        BY <2>3, <3>1
      <3> HIDE DEF h, layer
      <3>4. \A k \in 1..applied' : k - 1 \in 0..applied /\ (k \in 1..applied \/ k = applied + 1)
                                   /\ (k \in 1..applied => k \in 0..applied)
        BY <2>3, <3>1
      <3>5. \A k \in 1..applied' : h[k] = MergeLayer(h[k - 1], layers'[k])
        <4>1. SUFFICES ASSUME NEW k \in 1..applied'
                       PROVE  h[k] = MergeLayer(h[k - 1], layers'[k])
          OBVIOUS
        <4>2. CASE k \in 1..applied
          BY <2>1, <3>2, <3>3, <3>4, <4>2 DEF ByLayers
        <4>3. CASE k = applied + 1
          <5>1. h[k - 1] = Result
            BY <2>3, <3>2, <3>3, <4>3 DEF ByLayers
          <5>2. h[k] = Result' /\ layers'[k] = layer
            BY <2>1, <3>1, <3>3, <4>3 DEF layer
          <5>3. QED
            BY <3>1, <5>1, <5>2
        <4>4. QED
          BY <3>4, <4>2, <4>3
      <3>6. (\E f : ByLayers(f))'
        <4>1. h[0] = Start /\ h[applied'] = Result'
          BY <3>2, <3>3 DEF ByLayers
        <4>2. QED
          BY <3>5, <4>1 DEF ByLayers, Start
      <3>7. \A note \in Range(notes') : HasDevice(merged', note.device)
        <4>1. PICK l : Advances(l)
          <5>1. stage' # "malformed"
            BY <3>1
          <5>2. QED
            BY <1>3, <5>1, LayerAdvances
        <4>2. CASE applied = 0 /\ notes' = notes
          <5>1. notes' = <<>>
            BY <4>2 DEF VerdictInv
          <5>2. QED
            BY <5>1 DEF Range
        <4>3. ASSUME NEW next, Applied(l, next)
              PROVE  \A note \in Range(notes') : HasDevice(merged', note.device)
          <5>1. /\ applied > 0 /\ next.notes \in Seq(Notes) /\ notes \in Seq(Notes)
                /\ notes' = notes \o next.notes
            BY <4>3 DEF Applied, Merges, MergeInv, TypeOK
          <5>2. Range(notes') = Range(notes) \cup Range(next.notes)
            BY <5>1, RangeOfBoth
          <5>3. \A note \in Range(notes) : HasDevice(merged, note.device)
            BY <5>1 DEF VerdictInv
          <5>4. \A note \in Range(next.notes) : \E d \in Range(l.value) : d.id = note.device
            BY <4>3, Zenon DEF Applied, About
          <5>5. \A id : HasDevice(merged', id) <=>
                  HasDevice(merged, id) \/ \E e \in Range(l.value) : e.id = id
            BY <4>3 DEF Applied, Always
          <5>6. QED
            BY <5>2, <5>3, <5>4, <5>5
        <4>4. QED
          BY <4>1, <4>2, <4>3 DEF Advances
      <3>8. QED
        BY <2>2, <2>3, <3>1, <3>6, <3>7 DEF VerdictInv
    <2>6. QED
      BY <2>4, <2>5
  <1>4. QED
    BY <1>1, <1>2, <1>3 DEF Next, Walk, vars

(* At the end of the loop the result is that of merge_layers.              *)
LEMMA MergedIs ==
  ASSUME MergeInv, VerdictInv, Resolved
  PROVE  MergeLayers(layers) = Result
  <1> DEFINE n == Len(layers)
  <1>1. /\ n \in Nat /\ DOMAIN layers = 1..n /\ applied = n
        /\ \A i \in 1..n : layers[i].value \in Layouts
        /\ layers \in Seq(Entries(Layouts \cup {Malformed}))
    BY DEF MergeInv, TypeOK, Resolved, Entries
  <1>2. layers \in Seq(Entries(Layouts))
    <2> DEFINE W == Layouts \cup {Malformed}
    <2> HIDE DEF W
    <2>1. layers \in Seq(Entries(W))
      BY <1>1 DEF W
    <2>2. \A i \in 1..n : layers[i] \in Entries(W)
      BY <1>1, <2>1
    <2>3. \A e \in Entries(W) : e.value \in Layouts => e \in Entries(Layouts)
      BY DEF Entries
    <2>4. \A i \in 1..n : layers[i] \in Entries(Layouts)
      BY <1>1, <2>2, <2>3
    <2>5. layers = [i \in 1..n |-> layers[i]]
      BY <1>1, <2>1
    <2>6. QED
      BY <1>1, <2>4, <2>5
  <1>3. Start \in Results
    BY DEF Start, Results
  <1>4. MergeLayers(layers) = (CHOOSE it : MergeFolds(Start, layers, it))[DOMAIN layers]
    BY Zenon DEF MergeLayers, FoldLeft, MapThenFoldSet, MergeFolds, Start
  <1> HIDE DEF n
  <1>5. PICK g : /\ g[0] = Start
                 /\ \A k \in 1..n : g[k - 1] \in Results /\ g[k] = MergeLayer(g[k - 1], layers[k])
                 /\ MergeLayers(layers) = g[n]
    BY <1>2, <1>3, <1>4, MergeSteps DEF n
  <1>6. PICK h : ByLayers(h)
    BY DEF VerdictInv
  <1> DEFINE B == {k \in 0..n : g[k] = h[k]}
  <1>7. 0 \in B
    BY <1>1, <1>5, <1>6 DEF ByLayers
  <1>8. ASSUME NEW k \in 1..n, k - 1 \in B
        PROVE  k \in B
    <2>1. g[k - 1] = h[k - 1] /\ k \in 0..n /\ k \in 1..applied
      BY <1>1, <1>8
    <2>2. g[k] = MergeLayer(g[k - 1], layers[k]) /\ h[k] = MergeLayer(h[k - 1], layers[k])
      BY <1>5, <1>6, <2>1 DEF ByLayers
    <2>3. QED
      BY <2>1, <2>2
  <1>9. n \in B
    <2>1. n \in 0..n
      BY <1>1
    <2> HIDE DEF B
    <2>2. QED
      BY <1>1, <1>7, <1>8, <2>1, BoundedInduction
  <1>10. QED
    BY <1>1, <1>5, <1>6, <1>9 DEF ByLayers

(* The gates look at what the caller gets.                                 *)
LEMMA TargetIs ==
  ASSUME requested \in ExistingVersions(Page) \cup {Latest}
  PROVE  \E target \in ResolutionTargets : VersionOf(target) = VersionOf(requested)
  <1> DEFINE S == ExistingVersions(Page)
  <1>1. S \subseteq Versions
    BY DEF ExistingVersions
  <1>2. ResolutionTargets = IF S = {} THEN {Latest} ELSE S
    BY DEF ResolutionTargets
  <1>3. \A r : VersionOf(r) = IF r # Latest THEN r ELSE IF S # {} THEN Newest(S) ELSE 1
    BY DEF VersionOf
  <1> HIDE DEF S
  <1>4. CASE S = {}
    BY <1>2, <1>4 DEF S
  <1>5. CASE S # {}
    <2>1. Newest(S) \in S
      BY <1>1, <1>5, NewestIs
    <2>2. CASE requested \in S
      BY <1>2, <1>5, <2>2
    <2>3. CASE requested = Latest
      BY <1>2, <1>3, <1>5, <2>1, <2>3
    <2>4. QED
      BY <2>2, <2>3 DEF S
  <1>6. QED
    BY <1>4, <1>5

(* The layer a gate complains of is one that does not parse.               *)
LEMMA FirstMalformedIs ==
  ASSUME NEW V, NEW s \in Seq(Entries(V))
  PROVE  /\ FirstMalformed(s) > 0 => \E k \in DOMAIN s : s[k].value = Malformed
         /\ FirstMalformed(s) > 0 \/ FirstMalformed(s) = 0
         /\ FirstMalformed(s) = 0 => \A k \in DOMAIN s : s[k].value # Malformed
  <1> DEFINE I == {i \in 1..Len(s) : s[i].value = Malformed}
  <1>1. FirstMalformed(s) = IF I # {} THEN Min(I) ELSE 0
    BY Zenon DEF FirstMalformed, SelectInSeq
  <1>2. Len(s) \in Nat /\ DOMAIN s = 1..Len(s)
    OBVIOUS
  <1>3. I # {} => Min(I) \in I
    <2>1. I \subseteq Nat
      OBVIOUS
    <2> HIDE DEF I
    <2>2. QED
      BY <2>1, LeastIs
  <1>4. I # {} => Min(I) \in Nat /\ Min(I) > 0
    BY <1>2, <1>3
  <1>5. QED
    BY <1>1, <1>2, <1>3, <1>4

(* What the gates have to say of a page with these layers.                 *)
Findings(stack) ==
  LET bad    == FirstMalformed(stack)
      result == MergeLayers(stack)
  IN  IF bad > 0
        THEN {[code |-> "malformed", at |-> stack[bad].item, about |-> stack[bad].kind]}
      ELSE UNION {DatasourceFindings(d) \cup NoteFindings(d) \cup PlaceholderFindings(d) :
                    d \in ResolvedDevices(result)}

(* Of a page without complaints none of its findings is more than a        *)
(* mention, at the version the caller gets.                                *)
LEMMA NothingFound ==
  ASSUME VerdictInv, stage # "walk", Complaints = {},
         requested \in ExistingVersions(Page) \cup {Latest}
  PROVE  \A finding \in Findings(layers) : finding.code = "dynamic"
  <1>1. PICK target \in ResolutionTargets : VersionOf(target) = VersionOf(requested)
    BY TargetIs
  <1>2. FindingsAt(target) = Findings(layers)
    <2>1. layers = LayersAt(VersionOf(target))
      BY <1>1 DEF VerdictInv, Collected
    <2>2. QED
      BY <2>1, Zenon DEF FindingsAt, Findings
  <1>3. FindingsAt(target) \subseteq Report
    BY <1>1, Zenon DEF Report
  <1>4. QED
    BY <1>2, <1>3, Zenon DEF Complaints

(* The gates cannot miss what a caller sees (gate/lib.rs:213).  At every   *)
(* version it has and at the latest, a page without complaints parses and  *)
(* has all renderings of its layers that no higher layer replaced.  Those  *)
(* that came in as new ones with a position stand on the side of the one   *)
(* they name, whatever later layers did, and the datasources and the       *)
(* placeholders are there.  Of positions where nothing came in as a new    *)
(* one (ComesIn) it says nothing, and of versions the page does not have.  *)
THEOREM VerdictsCover ==
  ASSUME DevicesOnce
  PROVE  Spec => []CleanVerdictCoversEveryVersion
  <1>1. Init => OnceInv /\ DevicesInv /\ DroppedInv /\ SpokenInv /\ PlacedInv /\ VerdictInv
    BY OnceInitially, VerdictInitially DEF Init, DevicesInv, DroppedInv, SpokenInv, PlacedInv
  <1>2. MergeInv /\ OnceInv /\ DroppedInv /\ PlacedInv /\ VerdictInv => CleanVerdictCoversEveryVersion
    <2>1. SUFFICES ASSUME MergeInv, OnceInv, DroppedInv, PlacedInv, VerdictInv,
                          Resolved \/ stage = "malformed",
                          requested \in ExistingVersions(Page) \cup {Latest},
                          Complaints = {}
                   PROVE  /\ stage # "malformed"
                          /\ \A i \in 2..Len(layers) : \A e \in Range(layers[i].value) :
                               LET rs == merged[DeviceAt(merged, e.id)].rs
                               IN  \/ ReplacedBy(i, Len(layers), e.id)
                                   \/ /\ \A r \in Range(e.rs) : \E q \in Range(rs) :
                                           q.uid = r.uid /\ (r.uid = NoUid => q.attrs = r.attrs)
                                      /\ \A k \in DOMAIN e.rs :
                                           ComesIn(i, e, k) => StandsAsAsked(rs, e.rs[k])
                          /\ \A d \in DevicesOf(merged) : \A r \in Range(d.rs) :
                               /\ ResolveDatasource(r.attrs["ds"]) # "missing"
                               /\ PlaceholderLeaf(r.attrs["ph"]) \in Exposed \cup {Blank}
      BY Zenon DEF CleanVerdictCoversEveryVersion
    <2>2. \A finding \in Findings(layers) : finding.code = "dynamic"
      <3>1. stage # "walk"
        BY <2>1 DEF Resolved
      <3>2. QED
        BY <2>1, <3>1, NothingFound
    <2>3. layers \in Seq(Entries(Layouts \cup {Malformed}))
      BY <2>1 DEF MergeInv, TypeOK, Entries
    <2>4. FirstMalformed(layers) = 0
      <3>1. FirstMalformed(layers) > 0 =>
              [code |-> "malformed", at |-> layers[FirstMalformed(layers)].item,
               about |-> layers[FirstMalformed(layers)].kind] \in Findings(layers)
        BY DEF Findings
      <3>2. ~(FirstMalformed(layers) > 0)
        BY <2>2, <3>1
      <3>3. QED
        BY <2>3, <3>2, FirstMalformedIs
    <2>5. stage # "malformed" /\ Resolved
      BY <2>1, <2>3, <2>4, FirstMalformedIs DEF VerdictInv
    <2>6. MergeLayers(layers) = Result
      BY <2>1, <2>5, MergedIs
    <2>7. \A d \in ResolvedDevices(Result) :
            DatasourceFindings(d) \cup NoteFindings(d) \cup PlaceholderFindings(d) \subseteq Findings(layers)
      <3>1. ~(FirstMalformed(layers) > 0)
        BY <2>4
      <3>2. QED
        BY <2>6, <3>1, Zenon DEF Findings
    <2>8. ASSUME NEW device \in DevicesOf(merged)
          PROVE  /\ ResolveDevice(device, notes) \in ResolvedDevices(Result)
                 /\ ResolveDevice(device, notes).id = device.id
      BY DEF ResolvedDevices, Result, ResolveDevice
    <2>9. ASSUME NEW device \in DevicesOf(merged), NEW note \in Range(notes), note.device = device.id
          PROVE  note.kind = "dynamic"
      <3> DEFINE d == ResolveDevice(device, notes)
      <3>1. note \in d.notes
        BY <2>9 DEF ResolveDevice
      <3>2. Finding(note.kind, d, note.ref) \in NoteFindings(d)
        BY <3>1, Zenon DEF NoteFindings
      <3>3. Finding(note.kind, d, note.ref) \in Findings(layers)
        BY <2>7, <2>8, <3>2
      <3>4. QED
        BY <2>2, <3>3 DEF Finding
    <2>10. ASSUME NEW device \in DevicesOf(merged), NEW r \in Range(device.rs)
           PROVE  /\ ResolveDatasource(r.attrs["ds"]) # "missing"
                  /\ PlaceholderLeaf(r.attrs["ph"]) \in Exposed \cup {Blank}
      <3> DEFINE d == ResolveDevice(device, notes)
                 q == ResolveRendering(r)
      <3>1. q \in d.renderings
        BY <2>10 DEF ResolveDevice
      <3>2. q.datasource = ResolveDatasource(r.attrs["ds"]) /\ q.leaf = PlaceholderLeaf(r.attrs["ph"])
        BY DEF ResolveRendering
      <3>3. /\ DatasourceFindings(d) \subseteq Findings(layers)
            /\ PlaceholderFindings(d) \subseteq Findings(layers)
        BY <2>7, <2>8
      <3> HIDE DEF d, q
      <3>4. q.datasource # "missing"
        <4>1. q.datasource = "missing" => Finding(q.datasource, d, q) \in DatasourceFindings(d)
          BY <3>1, Zenon DEF DatasourceFindings
        <4>2. QED
          BY <2>2, <3>3, <4>1 DEF Finding
      <3>5. q.leaf \in Exposed \cup {Blank}
        <4>1. q.leaf \notin Exposed \cup {Blank} => Finding("not exposed", d, q) \in PlaceholderFindings(d)
          BY <3>1, Zenon DEF PlaceholderFindings
        <4>2. QED
          BY <2>2, <3>3, <4>1 DEF Finding
      <3>6. QED
        BY <3>2, <3>4, <3>5
    <2>11. ASSUME NEW note \in Range(notes)
           PROVE  FALSE
      <3>1. note \in Notes /\ applied # 0
        BY <2>1, <2>11 DEF MergeInv, TypeOK, VerdictInv, Range
      <3>2. HasDevice(merged, note.device)
        BY <2>1, <3>1 DEF VerdictInv
      <3>3. PICK device \in Range(merged) : device.id = note.device
        BY <3>2, HasInRange
      <3>4. device \in DevicesOf(merged)
        BY <2>1, <3>1 DEF DevicesOf, MergeInv
      <3>5. note.kind = "dynamic"
        BY <2>9, <3>3, <3>4
      <3>6. QED
        BY <3>1, <3>5 DEF Notes
    <2>12. NothingDroppedSilently
      BY <2>1, DropsFollow
    <2>13. ASSUME NEW i \in 2..Len(layers), NEW e \in Range(layers[i].value),
                  ~ReplacedBy(i, Len(layers), e.id), NEW r \in Range(e.rs)
           PROVE  \E q \in Range(merged[DeviceAt(merged, e.id)].rs) :
                    q.uid = r.uid /\ (r.uid = NoUid => q.attrs = r.attrs)
      <3> DEFINE rs == merged[DeviceAt(merged, e.id)].rs
      <3>1. \/ \E k \in DOMAIN rs : rs[k].uid = r.uid /\ (r.uid = NoUid => rs[k].attrs = r.attrs)
            \/ [kind |-> "UnknownUid", device |-> e.id, ref |-> r.uid] \in Range(notes)
        BY <2>5, <2>12, <2>13, Zenon DEF NothingDroppedSilently, ReplacedBy
      <3> HIDE DEF rs
      <3>2. PICK k \in DOMAIN rs : rs[k].uid = r.uid /\ (r.uid = NoUid => rs[k].attrs = r.attrs)
        BY <2>11, <3>1
      <3>3. rs[k] \in Range(rs)
        BY DEF Range
      <3>4. QED
        BY <3>2, <3>3 DEF rs
    <2>14. ASSUME NEW i \in 2..Len(layers), NEW e \in Range(layers[i].value),
                  ~ReplacedBy(i, Len(layers), e.id), NEW k \in DOMAIN e.rs, ComesIn(i, e, k)
           PROVE  StandsAsAsked(merged[DeviceAt(merged, e.id)].rs, e.rs[k])
      <3>1. /\ applied = Len(layers) /\ i \in 1..applied /\ applied > 0
            /\ notes \in Seq(Notes)
        <4>1. applied = Len(layers) /\ applied \in Nat /\ notes \in Seq(Notes)
          BY <2>1, <2>5 DEF Resolved, MergeInv, TypeOK
        <4>2. i \in 1..applied /\ applied > 0
          BY <2>14, <4>1
        <4>3. QED
          BY <4>1, <4>2
      <3>2. notes = <<>>
        <4>1. Range(notes) = {} /\ <<>> \in Seq(Notes)
          BY <2>11
        <4>2. QED
          BY <3>1, <4>1, NothingIn
      <3>3. PICK d \in Range(merged) : d.id = e.id /\ StandsAsAsked(d.rs, e.rs[k])
        BY <2>1, <2>14, <3>1, <3>2 DEF PlacedInv, StoodAsAsked
      <3>4. merged \in Layouts /\ OnceEach(merged)
        BY <2>1, <3>1 DEF MergeInv, TypeOK, OnceInv
      <3>5. merged[DeviceAt(merged, e.id)] = d
        BY <3>3, <3>4, OnlyDevice
      <3>6. QED
        BY <3>3, <3>5
    <2>15. QED
      BY <2>5, <2>10, <2>13, <2>14, Zenon
  <1>3. QED
    BY <1>1, <1>2, MergeInvariance, OnceStep, DevicesStep, DroppedStep, SpokenStep, PlacedStep,
       VerdictStep, PTL DEF Spec

-----------------------------------------------------------------------------
(* The nearest layer wins.  Mentions are pairs of numbers, in the order of *)
(* Earlier; one that comes after all others is added to what was said.     *)
Spots == Nat \X Nat

OneLater(new, old, m) ==
  /\ m \in Spots /\ DOMAIN old \subseteq Spots
  /\ DOMAIN new = DOMAIN old \cup {m}
  /\ \A n \in DOMAIN old : new[n] = old[n] /\ Earlier(n, m)

(* No mention comes before itself, and no two before each other.           *)
LEMMA EarlierIs ==
  ASSUME NEW m \in Spots, NEW n \in Spots
  PROVE  ~Earlier(m, m) /\ ~(Earlier(m, n) /\ Earlier(n, m))
  BY DEF Spots, Earlier

(* The last that is said, with one more that is said after the others.     *)
LEMMA LatestNext ==
  ASSUME NEW new, NEW old, NEW m, OneLater(new, old, m), NEW value, LatestIs(value, old)
  PROVE  LatestIs(IF new[m] = Missing THEN value ELSE new[m], new)
  <1>1. /\ DOMAIN new = DOMAIN old \cup {m} /\ ~Earlier(m, m)
        /\ \A n \in DOMAIN old : new[n] = old[n] /\ Earlier(n, m) /\ ~Earlier(m, n)
    BY EarlierIs DEF OneLater
  <1>2. CASE new[m] # Missing
    BY <1>1, <1>2 DEF LatestIs
  <1>3. CASE new[m] = Missing /\ value = Missing
    BY <1>1, <1>3 DEF LatestIs
  <1>4. CASE new[m] = Missing /\ value # Missing
    <2>1. PICK k \in DOMAIN old : old[k] = value /\ \A n \in DOMAIN old : Earlier(k, n) => old[n] = Missing
      BY <1>4 DEF LatestIs
    <2>2. k \in DOMAIN new /\ new[k] = value /\ \A n \in DOMAIN new : Earlier(k, n) => new[n] = Missing
      BY <1>1, <1>4, <2>1
    <2>3. QED
      BY <1>4, <2>2 DEF LatestIs
  <1>5. QED
    BY <1>2, <1>3, <1>4

(* Of one that is said alone.                                              *)
LEMMA LatestAlone ==
  ASSUME NEW said, NEW m \in Spots, DOMAIN said = {m}
  PROVE  LatestIs(said[m], said)
  <1>1. ~Earlier(m, m)
    BY EarlierIs
  <1>2. QED
    BY <1>1 DEF LatestIs

(* What counts, with one more mention after the others.                    *)
LEMMA CountingNext ==
  ASSUME NEW new, NEW old, NEW m, OneLater(new, old, m), NEW uid
  PROVE  Counting(new, uid) =
           IF new[m].r.uid = uid /\ (new[m].stands \/ Counting(old, uid) # {})
             THEN Counting(old, uid) \cup {m} ELSE Counting(old, uid)
  <1>1. /\ DOMAIN new = DOMAIN old \cup {m} /\ ~Earlier(m, m) /\ m \notin DOMAIN old
        /\ \A n \in DOMAIN old : /\ new[n] = old[n] /\ Earlier(n, m) /\ ~Earlier(m, n)
                                 /\ ~Earlier(n, n)
    BY EarlierIs DEF OneLater
  <1> DEFINE Stood(f) == {s \in DOMAIN f : f[s].r.uid = uid /\ f[s].stands}
  <1>2. \A f : Counting(f, uid) =
                 {n \in DOMAIN f : f[n].r.uid = uid /\ \E s \in Stood(f) : ~Earlier(n, s)}
    BY DEF Counting
  <1>3. Stood(new) = IF new[m].r.uid = uid /\ new[m].stands THEN Stood(old) \cup {m} ELSE Stood(old)
    BY <1>1
  <1>4. Stood(old) # {} <=> Counting(old, uid) # {}
    <2>1. Stood(old) \subseteq Counting(old, uid)
      BY <1>1, <1>2
    <2>2. QED
      BY <1>2, <2>1
  <1>5. ASSUME NEW n \in DOMAIN old
        PROVE  n \in Counting(new, uid) <=> n \in Counting(old, uid)
    <2>1. (\E s \in Stood(new) : ~Earlier(n, s)) <=> (\E s \in Stood(old) : ~Earlier(n, s))
      BY <1>1, <1>3
    <2>2. QED
      BY <1>1, <1>2, <1>5, <2>1
  <1>6. m \in Counting(new, uid) <=> new[m].r.uid = uid /\ (new[m].stands \/ Stood(old) # {})
    <2>1. (\E s \in Stood(new) : ~Earlier(m, s)) <=> Stood(new) # {}
      BY <1>1, <1>3
    <2>2. new[m].r.uid = uid => (Stood(new) # {} <=> new[m].stands \/ Stood(old) # {})
      BY <1>3
    <2>3. QED
      BY <1>1, <1>2, <2>1, <2>2
  <1>7. Counting(new, uid) \subseteq DOMAIN old \cup {m} /\ Counting(old, uid) \subseteq DOMAIN old
    BY <1>1 DEF Counting
  <1> HIDE DEF Stood
  <1>8. QED
    BY <1>1, <1>4, <1>5, <1>6, <1>7

(* What a rendering of the uid has to say.                                 *)
Attributed(mentions, uid, r) ==
  \A a \in {"id", "ph", "ds"} :
    LatestIs(r.attrs[a], [m \in Counting(mentions, uid) |-> mentions[m].r.attrs[a]])

(* RenderingsFollow, in these words.                                       *)
LEMMA FollowsIs ==
  ASSUME NEW mentions, NEW rs
  PROVE  RenderingsFollow(mentions, rs) <=>
           \A u \in Uids :
             /\ (\E r \in Range(rs) : r.uid = u) <=> Counting(mentions, u) # {}
             /\ \A r \in Range(rs) : r.uid = u => Attributed(mentions, u, r)
  BY Zenon DEF RenderingsFollow, Attributed

(* A rendering that says what it said, patched with what is said last.     *)
LEMMA AttributedNext ==
  ASSUME NEW new, NEW old, NEW m, OneLater(new, old, m), NEW uid, NEW p, NEW q
  PROVE  /\ new[m].r.uid # uid /\ Attributed(old, uid, p) => Attributed(new, uid, p)
         /\ /\ new[m].r.uid = uid /\ Counting(old, uid) # {} /\ Attributed(old, uid, p)
            /\ \A a \in {"id", "ph", "ds"} :
                 q.attrs[a] = IF new[m].r.attrs[a] = Missing THEN p.attrs[a] ELSE new[m].r.attrs[a]
            => Attributed(new, uid, q)
         /\ /\ new[m].r.uid = uid /\ new[m].stands /\ Counting(old, uid) = {}
            /\ q.attrs = new[m].r.attrs
            => Attributed(new, uid, q)
  <1> DEFINE C == Counting(old, uid)
             D == Counting(new, uid)
             Old(a) == [n \in C |-> old[n].r.attrs[a]]
             New(a) == [n \in D |-> new[n].r.attrs[a]]
  <1>1. /\ m \in Spots /\ DOMAIN old \subseteq Spots
        /\ C \subseteq DOMAIN old /\ \A n \in C : new[n] = old[n] /\ Earlier(n, m)
    BY DEF Counting, OneLater
  <1>2. D = IF new[m].r.uid = uid /\ (new[m].stands \/ C # {}) THEN C \cup {m} ELSE C
    BY CountingNext
  <1>3. /\ \A x : Attributed(old, uid, x) <=> \A a \in {"id", "ph", "ds"} : LatestIs(x.attrs[a], Old(a))
        /\ \A x : Attributed(new, uid, x) <=> \A a \in {"id", "ph", "ds"} : LatestIs(x.attrs[a], New(a))
    BY Zenon DEF Attributed
  <1> HIDE DEF C, D
  <1>4. ASSUME new[m].r.uid # uid, Attributed(old, uid, p)
        PROVE  Attributed(new, uid, p)
    <2>1. \A a : Old(a) = New(a)
      BY <1>1, <1>2, <1>4
    <2>2. QED
      BY <1>3, <1>4, <2>1, Zenon
  <1>5. ASSUME new[m].r.uid = uid, C # {}, Attributed(old, uid, p),
               \A a \in {"id", "ph", "ds"} :
                 q.attrs[a] = IF new[m].r.attrs[a] = Missing THEN p.attrs[a] ELSE new[m].r.attrs[a]
        PROVE  Attributed(new, uid, q)
    <2>1. D = C \cup {m}
      BY <1>2, <1>5
    <2>2. ASSUME NEW a \in {"id", "ph", "ds"}
          PROVE  LatestIs(q.attrs[a], New(a))
      <3> DEFINE s == Old(a)
                 t == New(a)
      <3>1. OneLater(t, s, m) /\ t[m] = new[m].r.attrs[a]
        BY <1>1, <2>1 DEF OneLater
      <3>2. LatestIs(p.attrs[a], s)
        BY <1>3, <1>5
      <3> HIDE DEF s, t
      <3>3. LatestIs(IF t[m] = Missing THEN p.attrs[a] ELSE t[m], t)
        BY <3>1, <3>2, LatestNext
      <3>4. QED
        BY <1>5, <3>1, <3>3 DEF t
    <2>3. QED
      BY <1>3, <2>2, Zenon
  <1>6. ASSUME new[m].r.uid = uid, new[m].stands, C = {}, q.attrs = new[m].r.attrs
        PROVE  Attributed(new, uid, q)
    <2>1. ASSUME NEW a \in {"id", "ph", "ds"}
          PROVE  LatestIs(q.attrs[a], New(a))
      <3> DEFINE t == New(a)
      <3>1. DOMAIN t = {m} /\ t[m] = q.attrs[a]
        BY <1>2, <1>6
      <3> HIDE DEF t
      <3>2. LatestIs(t[m], t)
        BY <1>1, <3>1, LatestAlone
      <3>3. QED
        BY <3>1, <3>2 DEF t
    <2>2. QED
      BY <1>3, <2>1, Zenon
  <1>7. QED
    BY <1>4, <1>5, <1>6 DEF C

(* What the renderings are after one of a delta.                           *)
Fresh(rs, uid) == uid = NoUid \/ \A p \in Range(rs) : p.uid # uid

(* It is what the delta's rendering says over what the matched one says,   *)
(* or it is dropped, or it comes in as it is (patch_device).               *)
LEMMA PatchSays ==
  ASSUME NEW id \in Devices, NEW acc \in Patched, NEW r \in Renderings, UniqueUids(acc.rs)
  PROVE  LET new == PatchRendering(id, acc, r).rs
         IN  \/ \E p \in Range(acc.rs), q \in Renderings :
                  /\ r.uid # NoUid /\ p.uid = r.uid /\ q.uid = r.uid
                  /\ q.attrs = Overlay(p.attrs, r.attrs)
                  /\ Range(new) = (Range(acc.rs) \ {p}) \cup {q}
             \/ Fresh(acc.rs, r.uid) /\ ~Given(r.attrs["id"]) /\ Range(new) = Range(acc.rs)
             \/ Fresh(acc.rs, r.uid) /\ Given(r.attrs["id"]) /\ Range(new) = Range(acc.rs) \cup {Bare(r)}
  <1> DEFINE rs    == acc.rs
             at    == MatchedAt(rs, r)
             index == InsertionIndex(rs, r.pos)
             bare  == Bare(r)
             new   == PatchRendering(id, acc, r).rs
             q     == [rs[at] EXCEPT !.attrs = Overlay(rs[at].attrs, r.attrs)]
  <1>1. /\ rs \in Seq(Renderings) /\ Len(rs) \in Nat /\ DOMAIN rs = 1..Len(rs)
    BY DEF Patched
  <1>2. /\ r.attrs \in [{"id", "ph", "ds"} -> Attribute]
        /\ bare \in Renderings
    BY DEF Renderings, Positions, NoPosition, Bare
  <1>3. /\ at \in 0..Len(rs)
        /\ at > 0 => r.uid # NoUid /\ rs[at].uid = r.uid
        /\ at = 0 => Fresh(rs, r.uid)
    <2>1. /\ RenderingAt(rs, r.uid) \in 0..Len(rs)
          /\ RenderingAt(rs, r.uid) = 0 <=> \A k \in DOMAIN rs : rs[k].uid # r.uid
          /\ RenderingAt(rs, r.uid) > 0 => rs[RenderingAt(rs, r.uid)].uid = r.uid
      BY <1>1, RenderingAtIs
    <2>2. QED
      BY <1>1, <2>1 DEF MatchedAt, Fresh, Range
  <1>4. index \in 0..(Len(rs) + 1)
    BY <1>1, RenderingAtIs DEF InsertionIndex
  <1>5. at > 0 => q \in Renderings /\ q.uid = r.uid /\ q.attrs = Overlay(rs[at].attrs, r.attrs)
    <2>1. SUFFICES ASSUME at > 0
                   PROVE  q \in Renderings /\ q.uid = r.uid /\ q.attrs = Overlay(rs[at].attrs, r.attrs)
      OBVIOUS
    <2>2. rs[at] \in Renderings /\ rs[at].uid = r.uid
      BY <1>1, <1>3, <2>1
    <2>3. Overlay(rs[at].attrs, r.attrs) \in [{"id", "ph", "ds"} -> Attribute]
      BY <1>2, <2>2 DEF Overlay, Renderings
    <2>4. QED
      BY <2>2, <2>3 DEF Renderings
  <1>6. new = IF at > 0 THEN ReplaceAt(rs, at, q)
              ELSE IF ~Given(r.attrs["id"]) THEN rs
              ELSE IF index > 0 THEN InsertAt(rs, index, bare)
              ELSE Append(rs, bare)
    BY DEF PatchRendering, Bare, Patched
  <1> DEFINE Goal == \/ \E p \in Range(rs), x \in Renderings :
                          /\ r.uid # NoUid /\ p.uid = r.uid /\ x.uid = r.uid
                          /\ x.attrs = Overlay(p.attrs, r.attrs)
                          /\ Range(new) = (Range(rs) \ {p}) \cup {x}
                     \/ Fresh(rs, r.uid) /\ ~Given(r.attrs["id"]) /\ Range(new) = Range(rs)
                     \/ Fresh(rs, r.uid) /\ Given(r.attrs["id"]) /\ Range(new) = Range(rs) \cup {bare}
  <1>7. UniqueUids(rs)
    OBVIOUS
  <1> SUFFICES Goal
    OBVIOUS
  <1> HIDE DEF rs, at, index, bare, q, new
  <1>8. CASE at > 0
    <2>1. ReplaceAt(rs, at, q) = [rs EXCEPT ![at] = q] /\ at \in DOMAIN rs
      BY <1>1, <1>3, <1>8 DEF ReplaceAt
    <2>2. /\ DOMAIN new = DOMAIN rs
          /\ \A k \in DOMAIN rs : new[k] = IF k = at THEN q ELSE rs[k]
      BY <1>6, <1>8, <2>1
    <2>3. \A k \in DOMAIN rs : rs[k] = rs[at] => k = at
      BY <1>3, <1>7, <1>8, <2>1 DEF UniqueUids
    <2>4. Range(new) = (Range(rs) \ {rs[at]}) \cup {q}
      BY <2>1, <2>2, <2>3 DEF Range
    <2>5. rs[at] \in Range(rs)
      BY <2>1 DEF Range
    <2>6. QED
      BY <1>3, <1>5, <1>8, <2>4, <2>5
  <1>9. CASE ~(at > 0)
    <2>1. Fresh(rs, r.uid)
      BY <1>1, <1>3, <1>9
    <2>2. CASE ~Given(r.attrs["id"])
      BY <1>6, <1>9, <2>1, <2>2
    <2>3. CASE Given(r.attrs["id"]) /\ index > 0
      <3>1. index \in 1..(Len(rs) + 1)
        BY <1>1, <1>4, <2>3
      <3>2. new \in Seq(Renderings) /\ OneMore(new, rs, index, bare)
        BY <1>1, <1>2, <1>6, <1>9, <2>3, <3>1, InsertedIs
      <3>3. Range(new) = Range(rs) \cup {bare}
        BY <1>1, <1>2, <3>1, <3>2, OneMoreHas
      <3>4. QED
        BY <2>1, <2>3, <3>3
    <2>4. CASE Given(r.attrs["id"]) /\ ~(index > 0)
      <3>1. Range(new) = Range(rs) \cup {bare}
        BY <1>1, <1>2, <1>6, <1>9, <2>4, RangeOfAppend
      <3>2. QED
        BY <2>1, <2>4, <3>1
    <2>5. QED
      BY <2>2, <2>3, <2>4
  <1>10. QED
    BY <1>8, <1>9

(* One more rendering of a delta, and one more mention.                    *)
LEMMA OneMoreMention ==
  ASSUME NEW id \in Devices, NEW acc \in Patched, NEW r \in Renderings, UniqueUids(acc.rs),
         NEW new, NEW old, NEW m, OneLater(new, old, m),
         new[m] = [r |-> r, stands |-> Given(r.attrs["id"])],
         RenderingsFollow(old, acc.rs)
  PROVE  RenderingsFollow(new, PatchRendering(id, acc, r).rs)
  <1> DEFINE next == PatchRendering(id, acc, r).rs
             P == Range(acc.rs)
             Q == Range(next)
  <1>1. \A x, y \in P : x.uid = y.uid /\ x.uid # NoUid => x = y
    BY DEF UniqueUids, Range
  <1>2. /\ Bare(r).uid = r.uid /\ Bare(r).attrs = r.attrs
        /\ \A p \in P : DOMAIN p.attrs = {"id", "ph", "ds"}
    <2>1. Bare(r).uid = r.uid /\ Bare(r).attrs = r.attrs
      BY DEF Bare, Renderings
    <2>2. acc.rs \in Seq(Renderings)
      BY DEF Patched
    <2>3. P \subseteq Renderings
      BY <2>2 DEF Range
    <2>4. QED
      BY <2>1, <2>3 DEF Renderings
  <1>3. new[m].r = r /\ new[m].stands = Given(r.attrs["id"])
    OBVIOUS
  <1>4. \/ \E p \in P, q \in Renderings :
             /\ r.uid # NoUid /\ p.uid = r.uid /\ q.uid = r.uid
             /\ q.attrs = Overlay(p.attrs, r.attrs) /\ Q = (P \ {p}) \cup {q}
        \/ Fresh(acc.rs, r.uid) /\ ~Given(r.attrs["id"]) /\ Q = P
        \/ Fresh(acc.rs, r.uid) /\ Given(r.attrs["id"]) /\ Q = P \cup {Bare(r)}
    BY PatchSays
  <1>5. Fresh(acc.rs, r.uid) <=> r.uid = NoUid \/ \A p \in P : p.uid # r.uid
    BY DEF Fresh
  <1> HIDE DEF next, P, Q
  <1>6. SUFFICES ASSUME NEW u \in Uids
                 PROVE  /\ (\E x \in Q : x.uid = u) <=> Counting(new, u) # {}
                        /\ \A x \in Q : x.uid = u => Attributed(new, u, x)
    BY FollowsIs DEF next, Q
  <1>7. /\ (\E x \in P : x.uid = u) <=> Counting(old, u) # {}
        /\ \A x \in P : x.uid = u => Attributed(old, u, x)
    BY FollowsIs DEF P
  <1>8. Counting(new, u) = IF r.uid = u /\ (Given(r.attrs["id"]) \/ Counting(old, u) # {})
                             THEN Counting(old, u) \cup {m} ELSE Counting(old, u)
    BY <1>3, CountingNext
  <1>9. CASE r.uid # u
    <2>1. \A x : x.uid = u => (x \in Q <=> x \in P)
      BY <1>2, <1>4, <1>9
    <2>2. \A x : Attributed(old, u, x) => Attributed(new, u, x)
      BY <1>3, <1>9, AttributedNext
    <2>3. Counting(new, u) = Counting(old, u)
      BY <1>8, <1>9
    <2>4. QED
      BY <1>7, <2>1, <2>2, <2>3
  <1>10. ASSUME r.uid = u,
                NEW p \in P, NEW q \in Renderings,
                p.uid = r.uid, q.uid = r.uid,
                q.attrs = Overlay(p.attrs, r.attrs), Q = (P \ {p}) \cup {q}
         PROVE  /\ (\E x \in Q : x.uid = u) <=> Counting(new, u) # {}
                /\ \A x \in Q : x.uid = u => Attributed(new, u, x)
    <2>1. Counting(old, u) # {} /\ Attributed(old, u, p) /\ u # NoUid
      BY <1>7, <1>10, UidsAssumption
    <2>2. \A a \in {"id", "ph", "ds"} :
            q.attrs[a] = IF new[m].r.attrs[a] = Missing THEN p.attrs[a] ELSE new[m].r.attrs[a]
      BY <1>2, <1>3, <1>10 DEF Overlay
    <2>3. Attributed(new, u, q)
      <3>1. new[m].r.uid = u
        BY <1>3, <1>10
      <3>2. QED
        BY <2>1, <2>2, <3>1, AttributedNext
    <2>4. \A x \in Q : x.uid = u => x = q
      BY <1>1, <1>10, <2>1
    <2>5. q \in Q /\ Counting(new, u) # {}
      BY <1>8, <1>10, <2>1
    <2>6. QED
      BY <1>10, <2>3, <2>4, <2>5
  <1>11. ASSUME r.uid = u, Fresh(acc.rs, r.uid), ~Given(r.attrs["id"]), Q = P
         PROVE  /\ (\E x \in Q : x.uid = u) <=> Counting(new, u) # {}
                /\ \A x \in Q : x.uid = u => Attributed(new, u, x)
    BY <1>5, <1>7, <1>8, <1>11, UidsAssumption
  <1>12. ASSUME r.uid = u, Fresh(acc.rs, r.uid), Given(r.attrs["id"]), Q = P \cup {Bare(r)}
         PROVE  /\ (\E x \in Q : x.uid = u) <=> Counting(new, u) # {}
                /\ \A x \in Q : x.uid = u => Attributed(new, u, x)
    <2>1. Counting(old, u) = {} /\ \A p \in P : p.uid # u
      BY <1>5, <1>7, <1>12, UidsAssumption
    <2>2. Attributed(new, u, Bare(r))
      <3>1. new[m].r.uid = u /\ new[m].stands /\ Bare(r).attrs = new[m].r.attrs
        BY <1>2, <1>3, <1>12
      <3>2. QED
        BY <2>1, <3>1, AttributedNext
    <2>3. \A x \in Q : x.uid = u => x = Bare(r)
      BY <1>12, <2>1
    <2>4. Bare(r) \in Q /\ Bare(r).uid = u /\ Counting(new, u) # {}
      BY <1>2, <1>8, <1>12
    <2>5. QED
      BY <2>2, <2>3, <2>4
  <1>13. QED
    BY <1>4, <1>9, <1>10, <1>11, <1>12

(* The same mentions say the same.                                         *)
LEMMA SameMentions ==
  ASSUME NEW f, NEW g, DOMAIN f = DOMAIN g, \A m \in DOMAIN f : f[m] = g[m], NEW rs
  PROVE  RenderingsFollow(f, rs) <=> RenderingsFollow(g, rs)
  <1>1. ASSUME NEW u PROVE Counting(f, u) = Counting(g, u) /\ Counting(f, u) \subseteq DOMAIN f
    BY DEF Counting
  <1>2. ASSUME NEW u, NEW r PROVE Attributed(f, u, r) <=> Attributed(g, u, r)
    <2>1. ASSUME NEW a
          PROVE  [m \in Counting(f, u) |-> f[m].r.attrs[a]] = [m \in Counting(g, u) |-> g[m].r.attrs[a]]
      BY <1>1
    <2>2. QED
      BY <2>1, Zenon DEF Attributed
  <1>3. QED
    BY <1>1, <1>2, FollowsIs

(* What a device says that is patched, by the renderings that were there   *)
(* and those of the delta after them.                                      *)
MentionedAfter(new, old, rank, rs) ==
  /\ rank \in Nat /\ DOMAIN old \subseteq Spots
  /\ DOMAIN new = DOMAIN old \cup ({rank} \X DOMAIN rs)
  /\ \A m \in DOMAIN old : m[1] < rank /\ new[m] = old[m]
  /\ \A i \in DOMAIN rs :
       new[<<rank, i>>] = [r |-> rs[i], stands |-> Given(rs[i].attrs["id"])]

(* The renderings of a patched device are what the mentions say, if they   *)
(* were before (patch_device).                                             *)
LEMMA PatchFollows ==
  ASSUME NEW base \in DeviceEntries, NEW delta \in DeviceEntries, UniqueUids(base.rs),
         NEW rank, NEW old, NEW new, MentionedAfter(new, old, rank, delta.rs),
         RenderingsFollow(old, base.rs)
  PROVE  RenderingsFollow(new, PatchDevice(base, delta).device.rs)
  <1>0. MentionedAfter(new, old, rank, delta.rs)
    OBVIOUS
  <1> DEFINE id    == delta.id
             s     == delta.rs
             start == [rs |-> base.rs, notes |-> <<>>]
             last  == (CHOOSE it : PatchFolds(id, start, s, it))[DOMAIN s]
             n     == Len(s)
  <1>1. /\ id \in Devices /\ s \in Seq(Renderings) /\ start \in Patched /\ n \in Nat
        /\ DOMAIN s = 1..n /\ \A k \in 1..n : s[k] \in Renderings
    BY DEF DeviceEntries, Patched
  <1>2. PatchDevice(base, delta).device.rs = last.rs
    <2>1. PatchDevice(base, delta) =
            [device |-> [base EXCEPT !.l = IF delta.l = Missing THEN @ ELSE delta.l,
                                     !.rs = last.rs],
             notes  |-> last.notes]
      BY PatchUnfolds, Zenon
    <2> HIDE DEF last
    <2>2. PatchDevice(base, delta).device =
            [base EXCEPT !.l = IF delta.l = Missing THEN @ ELSE delta.l, !.rs = last.rs]
      BY <2>1
    <2>3. QED
      BY <2>2 DEF DeviceEntries
  <1>3. start.rs = base.rs
    OBVIOUS
  <1> HIDE DEF start
  <1>4. PICK g : /\ g[0] = start
                 /\ \A k \in 1..n : g[k - 1] \in Patched /\ g[k] = PatchRendering(id, g[k - 1], s[k])
                 /\ g[n] \in Patched
                 /\ last = g[n]
    <2> HIDE DEF id, s
    <2>1. QED
      BY <1>1, PatchSteps
  <1>5. /\ rank \in Nat /\ DOMAIN old \subseteq Spots
        /\ DOMAIN new = DOMAIN old \cup ({rank} \X (1..n))
        /\ \A m \in DOMAIN old : m[1] < rank /\ new[m] = old[m]
        /\ \A i \in 1..n : new[<<rank, i>>] = [r |-> s[i], stands |-> Given(s[i].attrs["id"])]
    BY <1>0, <1>1 DEF MentionedAfter
  <1> HIDE DEF id, s, n, last
  <1> DEFINE Part(k) == [m \in DOMAIN old \cup ({rank} \X (1..k)) |-> new[m]]
             B == {k \in 0..n : UniqueUids(g[k].rs) /\ RenderingsFollow(Part(k), g[k].rs)}
  <1>6. 0 \in B
    <2>1. 0 \in 0..n /\ g[0].rs = base.rs /\ {rank} \X (1..0) = {}
      BY <1>1, <1>3, <1>4
    <2>2. DOMAIN Part(0) = DOMAIN old /\ \A m \in DOMAIN old : Part(0)[m] = old[m]
      BY <1>5, <2>1
    <2> HIDE DEF Part
    <2>3. RenderingsFollow(Part(0), base.rs)
      BY <2>2, SameMentions
    <2>4. QED
      BY <2>1, <2>3
  <1>7. ASSUME NEW k \in 1..n, k - 1 \in B
        PROVE  k \in B
    <2>1. /\ UniqueUids(g[k - 1].rs) /\ RenderingsFollow(Part(k - 1), g[k - 1].rs)
          /\ k \in 0..n /\ k \in Nat
      BY <1>1, <1>7
    <2>2. g[k - 1] \in Patched /\ g[k] = PatchRendering(id, g[k - 1], s[k]) /\ s[k] \in Renderings
      BY <1>1, <1>4
    <2> DEFINE m   == <<rank, k>>
               was == Part(k - 1)
               is  == Part(k)
    <2>3. m \in Spots /\ DOMAIN was = DOMAIN old \cup ({rank} \X (1..(k - 1)))
      BY <1>5, <2>1 DEF Spots
    <2>4. DOMAIN was \subseteq Spots
      BY <1>5, <2>3, <2>1 DEF Spots
    <2>5. DOMAIN is = DOMAIN was \cup {m}
      <3>1. 1..k = (1..(k - 1)) \cup {k}
        BY <2>1
      <3>2. QED
        BY <2>3, <3>1
    <2>6. ASSUME NEW x \in DOMAIN was
          PROVE  is[x] = was[x] /\ Earlier(x, m)
      <3>1. is[x] = was[x]
        BY <2>5
      <3>2. x[1] < rank \/ (x[1] = rank /\ x[2] < k)
        BY <1>5, <2>1, <2>3
      <3>3. QED
        BY <3>1, <3>2 DEF Earlier
    <2>7. OneLater(is, was, m)
      BY <2>3, <2>4, <2>5, <2>6, Zenon DEF OneLater
    <2>8. is[m] = [r |-> s[k], stands |-> Given(s[k].attrs["id"])]
      <3>1. m \in DOMAIN is
        BY <2>5
      <3>2. QED
        BY <1>5, <3>1
    <2> HIDE DEF m, was, is, Part
    <2>9. RenderingsFollow(is, g[k].rs)
      <3>1. RenderingsFollow(was, g[k - 1].rs)
        BY <2>1 DEF was
      <3>2. QED
        BY <1>1, <2>1, <2>2, <2>7, <2>8, <3>1, OneMoreMention
    <2>10. UniqueUids(g[k].rs)
      BY <1>1, <2>1, <2>2, PatchKeeps
    <2>11. QED
      BY <2>1, <2>9, <2>10 DEF is
  <1>8. UniqueUids(last.rs) /\ RenderingsFollow(Part(n), last.rs)
    <2>1. n \in 0..n
      BY <1>1
    <2> HIDE DEF B
    <2>2. n \in B
      BY <1>1, <1>6, <1>7, <2>1, BoundedInduction
    <2>3. QED
      BY <1>4, <2>2 DEF B
  <1>9. RenderingsFollow(new, last.rs)
    <2>1. /\ DOMAIN Part(n) = DOMAIN new /\ \A m \in DOMAIN new : Part(n)[m] = new[m]
      BY <1>5
    <2> HIDE DEF Part
    <2>2. QED
      BY <1>8, <2>1, SameMentions
  <1>10. QED
    BY <1>2, <1>9

(* Layers in a row that name no device twice, and what one says.           *)
Tower(values) == values \in Seq(Layouts) /\ \A i \in DOMAIN values : OnceEach(values[i])

(* The entry of a device is the one the layer has of it.                   *)
LEMMA TellsIs ==
  ASSUME NEW values, NEW rank, values[rank] \in Layouts, NEW id
  PROVE  /\ Tells(values, rank, id) <=> HasDevice(values[rank], id)
         /\ Tells(values, rank, id) =>
              /\ Entry(values, rank, id) \in Range(values[rank])
              /\ Entry(values, rank, id) \in DeviceEntries /\ Entry(values, rank, id).id = id
         /\ OnceEach(values[rank]) => \A d \in Range(values[rank]) :
              d.id = id => Tells(values, rank, id) /\ Entry(values, rank, id) = d
  <1> DEFINE layout == values[rank]
             at     == DeviceAt(layout, id)
  <1>1. /\ layout # NoLayout /\ layout \in Seq(DeviceEntries) /\ DOMAIN layout = 1..Len(layout)
        /\ Len(layout) \in Nat
    BY PagesAssumption DEF Layouts
  <1>2. /\ at \in 0..Len(layout)
        /\ at = 0 <=> \A k \in DOMAIN layout : layout[k].id # id
        /\ at > 0 => layout[at].id = id
    BY DeviceAtIs
  <1>3. Tells(values, rank, id) <=> at > 0
    BY <1>1 DEF Tells
  <1>4. Entry(values, rank, id) = layout[at]
    BY DEF Entry
  <1>5. layout = values[rank]
    OBVIOUS
  <1> HIDE DEF layout, at
  <1>6. at > 0 => at \in DOMAIN layout
    BY <1>1, <1>2
  <1>7. at > 0 <=> HasDevice(layout, id)
    BY <1>1, <1>2, <1>6 DEF HasDevice
  <1>8. at > 0 => layout[at] \in Range(layout) /\ layout[at] \in DeviceEntries
    BY <1>1, <1>6 DEF Range
  <1>9. OnceEach(layout) => \A d \in Range(layout) : d.id = id => at > 0 /\ layout[at] = d
    <2>1. SUFFICES ASSUME OnceEach(layout), NEW k \in DOMAIN layout, layout[k].id = id
                   PROVE  at > 0 /\ layout[at] = layout[k]
      BY DEF Range
    <2>2. at > 0
      BY <1>1, <1>2, <2>1
    <2>3. at = k
      BY <1>2, <1>6, <2>1, <2>2 DEF OnceEach
    <2>4. QED
      BY <2>2, <2>3
  <1>10. QED
    BY <1>2, <1>3, <1>4, <1>5, <1>7, <1>8, <1>9

(* Nearest, with what a patch needs to find.                               *)
LastWhole(values, whole, id) ==
  /\ GivesWhole(values, whole, id)
  /\ \A higher \in (whole + 1)..Len(values) : ~GivesWhole(values, higher, id)

Shown(values, whole, d) ==
  /\ LatestIs(d.l, Ls(values, whole, d.id))
  /\ UniqueUids(Entry(values, whole, d.id).rs) =>
       UniqueUids(d.rs) /\ RenderingsFollow(Mentions(values, whole, d.id), d.rs)

Gathered(values, d) ==
  \E whole \in DOMAIN values : LastWhole(values, whole, d.id) /\ Shown(values, whole, d)

(* Mentions and Ls, one rank after the other.                              *)
LEMMA MentionsAre ==
  ASSUME NEW values, NEW whole, NEW id
  PROVE  /\ \A m : m \in DOMAIN Mentions(values, whole, id) <=>
                     \E rank \in whole..Len(values) :
                       /\ Tells(values, rank, id)
                       /\ m \in {rank} \X DOMAIN Entry(values, rank, id).rs
         /\ \A rank \in whole..Len(values) : Tells(values, rank, id) =>
              \A i \in DOMAIN Entry(values, rank, id).rs :
                Mentions(values, whole, id)[<<rank, i>>] =
                  [r |-> Entry(values, rank, id).rs[i],
                   stands |-> rank = whole \/ Given(Entry(values, rank, id).rs[i].attrs["id"])]
         /\ \A m : m \in DOMAIN Ls(values, whole, id) <=>
                     \E rank \in whole..Len(values) : Tells(values, rank, id) /\ m = <<rank, 0>>
         /\ \A rank \in whole..Len(values) : Tells(values, rank, id) =>
              Ls(values, whole, id)[<<rank, 0>>] = Entry(values, rank, id).l
  <1> DEFINE I == {k \in whole..Len(values) : Tells(values, k, id)}
             D == UNION {{rank} \X DOMAIN Entry(values, rank, id).rs : rank \in I}
  <1>1. \A m : m \in D <=> \E rank \in I : m \in {rank} \X DOMAIN Entry(values, rank, id).rs
    OBVIOUS
  <1>2. Mentions(values, whole, id) =
          [m \in D |-> [r |-> Entry(values, m[1], id).rs[m[2]],
                        stands |-> m[1] = whole \/ Given(Entry(values, m[1], id).rs[m[2]].attrs["id"])]]
    BY DEF Mentions
  <1>3. Ls(values, whole, id) = [m \in I \X {0} |-> Entry(values, m[1], id).l]
    BY DEF Ls
  <1>4. \A rank \in I : \A i \in DOMAIN Entry(values, rank, id).rs : <<rank, i>> \in D
    OBVIOUS
  <1>5. \A rank : rank \in I <=> rank \in whole..Len(values) /\ Tells(values, rank, id)
    OBVIOUS
  <1> HIDE DEF I, D
  <1>6. \A m : m \in DOMAIN Mentions(values, whole, id) <=>
                 \E rank \in whole..Len(values) :
                   /\ Tells(values, rank, id)
                   /\ m \in {rank} \X DOMAIN Entry(values, rank, id).rs
    BY <1>1, <1>2, <1>5
  <1>7. \A rank \in I : \A i \in DOMAIN Entry(values, rank, id).rs :
                Mentions(values, whole, id)[<<rank, i>>] =
                  [r |-> Entry(values, rank, id).rs[i],
                   stands |-> rank = whole \/ Given(Entry(values, rank, id).rs[i].attrs["id"])]
    BY <1>2, <1>4
  <1>8. /\ \A m : m \in DOMAIN Ls(values, whole, id) <=> \E rank \in I : m = <<rank, 0>>
        /\ \A rank \in I : Ls(values, whole, id)[<<rank, 0>>] = Entry(values, rank, id).l
    BY <1>3
  <1>9. QED
    BY <1>5, <1>6, <1>7, <1>8

(* A device that a layer gives whole.                                      *)
LEMMA WholeIsGathered ==
  ASSUME NEW values, Tower(values), NEW n \in Nat, n = Len(values), n > 0,
         NEW d \in Range(values[n]),
         IsReplaceMode(d) \/ \A lower \in 1..(n - 1) : ~Tells(values, lower, d.id)
  PROVE  Gathered(values, d)
  <1> DEFINE id   == d.id
             ls   == Ls(values, n, id)
             said == Mentions(values, n, id)
  <1>1. /\ n \in DOMAIN values /\ values[n] \in Layouts /\ OnceEach(values[n])
        /\ n..Len(values) = {n} /\ (n + 1)..Len(values) = {}
    BY DEF Tower
  <1>2. /\ Tells(values, n, id) /\ Entry(values, n, id) = d /\ d \in DeviceEntries
    BY <1>1, TellsIs
  <1>3. LastWhole(values, n, id)
    BY <1>1, <1>2 DEF LastWhole, GivesWhole
  <1>4. /\ \A m : m \in DOMAIN ls <=> m = <<n, 0>>
        /\ ls[<<n, 0>>] = d.l
    BY <1>1, <1>2, MentionsAre
  <1>5. LatestIs(d.l, ls)
    <2>1. DOMAIN ls = {<<n, 0>>} /\ <<n, 0>> \in Spots
      BY <1>4 DEF Spots
    <2> HIDE DEF ls
    <2>2. LatestIs(ls[<<n, 0>>], ls)
      BY <2>1, LatestAlone
    <2>3. QED
      BY <1>4, <2>2
  <1>6. d.rs \in Seq(Renderings) /\ DOMAIN d.rs = 1..Len(d.rs) /\ Len(d.rs) \in Nat
    BY <1>2 DEF DeviceEntries
  <1>7. /\ \A m : m \in DOMAIN said <=> m \in {n} \X DOMAIN d.rs
        /\ \A i \in DOMAIN d.rs : said[<<n, i>>].r = d.rs[i] /\ said[<<n, i>>].stands
    <2>1. /\ \A m : m \in DOMAIN said <=>
                      \E rank \in n..Len(values) :
                         Tells(values, rank, id) /\ m \in {rank} \X DOMAIN Entry(values, rank, id).rs
          /\ \A i \in DOMAIN Entry(values, n, id).rs :
                said[<<n, i>>] =
                  [r |-> Entry(values, n, id).rs[i],
                   stands |-> n = n \/ Given(Entry(values, n, id).rs[i].attrs["id"])]
      BY <1>1, <1>2, MentionsAre
    <2> HIDE DEF said, id
    <2>2. n \in n..Len(values) /\ \A rank \in n..Len(values) : rank = n
      BY <1>1
    <2>3. ASSUME NEW m
          PROVE  m \in DOMAIN said <=> m \in {n} \X DOMAIN Entry(values, n, id).rs
      <3>1. \A rank \in n..Len(values) :
              Tells(values, rank, id) /\ m \in {rank} \X DOMAIN Entry(values, rank, id).rs
                <=> m \in {n} \X DOMAIN Entry(values, n, id).rs
        BY <1>2, <2>2, Zenon
      <3>2. QED
        BY <2>1, <2>2, <3>1, Zenon
    <2>4. \A i \in DOMAIN Entry(values, n, id).rs :
            said[<<n, i>>].r = Entry(values, n, id).rs[i] /\ said[<<n, i>>].stands
      <3>1. \A x, g : [r |-> x, stands |-> n = n \/ g].r = x /\ [r |-> x, stands |-> n = n \/ g].stands
        OBVIOUS
      <3>2. QED
        BY <2>1, <3>1, Zenon
    <2>5. QED
      BY <1>2, <2>3, <2>4
  <1>8. ASSUME UniqueUids(d.rs)
        PROVE  RenderingsFollow(said, d.rs)
    <2>1. SUFFICES ASSUME NEW u \in Uids
                   PROVE  /\ (\E r \in Range(d.rs) : r.uid = u) <=> Counting(said, u) # {}
                          /\ \A r \in Range(d.rs) : r.uid = u => Attributed(said, u, r)
      BY FollowsIs
    <2>2. \A i \in DOMAIN d.rs : <<n, i>> \in DOMAIN said /\ <<n, i>> \in Spots
      BY <1>6, <1>7 DEF Spots
    <2>3. \A i \in DOMAIN d.rs : ~Earlier(<<n, i>>, <<n, i>>)
      BY <2>2, EarlierIs
    <2> HIDE DEF said
    <2>4. \A m : m \in Counting(said, u) <=> \E i \in DOMAIN d.rs : m = <<n, i>> /\ d.rs[i].uid = u
      BY <1>7, <2>2, <2>3 DEF Counting
    <2>5. ASSUME NEW k \in DOMAIN d.rs, d.rs[k].uid = u
          PROVE  Attributed(said, u, d.rs[k])
      <3>1. Counting(said, u) = {<<n, k>>}
        BY <1>8, <2>4, <2>5, UidsAssumption DEF UniqueUids
      <3>2. ASSUME NEW a \in {"id", "ph", "ds"}
            PROVE  LatestIs(d.rs[k].attrs[a], [m \in Counting(said, u) |-> said[m].r.attrs[a]])
        <4> DEFINE t == [m \in Counting(said, u) |-> said[m].r.attrs[a]]
        <4>1. DOMAIN t = {<<n, k>>} /\ t[<<n, k>>] = d.rs[k].attrs[a] /\ <<n, k>> \in Spots
          BY <1>7, <2>2, <3>1
        <4> HIDE DEF t
        <4>2. LatestIs(t[<<n, k>>], t)
          BY <4>1, LatestAlone
        <4>3. QED
          BY <4>1, <4>2 DEF t
      <3>3. QED
        BY <3>2, Zenon DEF Attributed
    <2>6. QED
      BY <2>4, <2>5 DEF Range
  <1>9. Shown(values, n, d)
    BY <1>2, <1>5, <1>8 DEF Shown
  <1>10. QED
    BY <1>1, <1>3, <1>9 DEF Gathered

(* One more layer that does not give the device whole: what was said of it *)
(* stays, and what this layer says comes after it.                         *)
Grows(values, next) ==
  /\ Tower(values) /\ Tower(next) /\ Len(next) = Len(values) + 1
  /\ \A i \in 1..Len(values) : next[i] = values[i]

(* Below that layer nothing changes, and what it says is added.            *)
LEMMA SaidStays ==
  ASSUME NEW values, NEW next, Grows(values, next), NEW n \in Nat, n = Len(values), NEW id,
         NEW whole \in 1..n, LastWhole(values, whole, id),
         ~Tells(next, n + 1, id) \/ ~IsReplaceMode(Entry(next, n + 1, id))
  PROVE  /\ LastWhole(next, whole, id) /\ Entry(next, whole, id) = Entry(values, whole, id)
         /\ LET new == Mentions(next, whole, id)
                old == Mentions(values, whole, id)
            IN  /\ \A m : m \in DOMAIN new <=>
                            \/ m \in DOMAIN old
                            \/ /\ Tells(next, n + 1, id)
                               /\ m \in {n + 1} \X DOMAIN Entry(next, n + 1, id).rs
                /\ DOMAIN old \subseteq Spots
                /\ \A m \in DOMAIN old : m[1] < n + 1 /\ new[m] = old[m]
         /\ LET new == Ls(next, whole, id)
                old == Ls(values, whole, id)
            IN  /\ \A m : m \in DOMAIN new <=>
                            m \in DOMAIN old \/ (Tells(next, n + 1, id) /\ m = <<n + 1, 0>>)
                /\ DOMAIN old \subseteq Spots
                /\ \A m \in DOMAIN old : m[1] < n + 1 /\ new[m] = old[m]
  <1>1. /\ \A i \in 1..n : next[i] = values[i] /\ values[i] \in Layouts
        /\ Len(next) = n + 1 /\ 1..(n + 1) = (1..n) \cup {n + 1}
        /\ whole..(n + 1) = (whole..n) \cup {n + 1} /\ whole..n \subseteq 1..n
        /\ (whole + 1)..(n + 1) = ((whole + 1)..n) \cup {n + 1} /\ (whole + 1)..n \subseteq 1..n
    BY DEF Grows, Tower
  <1>2. \A i \in 1..n : /\ Tells(next, i, id) <=> Tells(values, i, id)
                        /\ Entry(next, i, id) = Entry(values, i, id)
    BY <1>1 DEF Tells, Entry
  <1>3. \A i \in 1..n : GivesWhole(next, i, id) <=> GivesWhole(values, i, id)
    <2>1. \A i \in 1..n : 1..(i - 1) \subseteq 1..n
      OBVIOUS
    <2>2. QED
      BY <1>2, <2>1 DEF GivesWhole
  <1>4. ~GivesWhole(next, n + 1, id)
    <2>1. Tells(next, whole, id) /\ whole \in 1..((n + 1) - 1)
      BY <1>2 DEF LastWhole, GivesWhole
    <2>2. QED
      BY <2>1 DEF GivesWhole
  <1>5. LastWhole(next, whole, id)
    <2>1. \A higher \in (whole + 1)..n : ~GivesWhole(next, higher, id)
      BY <1>1, <1>3 DEF LastWhole
    <2>2. GivesWhole(next, whole, id)
      BY <1>3 DEF LastWhole
    <2>3. QED
      BY <1>1, <1>4, <2>1, <2>2 DEF LastWhole
  <1>6. \A rank \in 1..n : Tells(values, rank, id) =>
          \A i \in DOMAIN Entry(values, rank, id).rs : i \in Nat /\ <<rank, i>> \in Spots
    <2>1. SUFFICES ASSUME NEW rank \in 1..n, Tells(values, rank, id),
                          NEW i \in DOMAIN Entry(values, rank, id).rs
                   PROVE  i \in Nat
      BY DEF Spots
    <2>2. Entry(values, rank, id) \in DeviceEntries
      BY <1>1, <2>1, TellsIs
    <2>3. Entry(values, rank, id).rs \in Seq(Renderings)
      BY <2>2 DEF DeviceEntries
    <2>4. QED
      BY <2>3
  <1> DEFINE new == Mentions(next, whole, id)
             old == Mentions(values, whole, id)
             nls == Ls(next, whole, id)
             ols == Ls(values, whole, id)
  <1>7. /\ \A m : m \in DOMAIN old <=>
                    \E rank \in whole..n :
                      Tells(values, rank, id) /\ m \in {rank} \X DOMAIN Entry(values, rank, id).rs
        /\ \A m : m \in DOMAIN new <=>
                    \E rank \in whole..(n + 1) :
                      Tells(next, rank, id) /\ m \in {rank} \X DOMAIN Entry(next, rank, id).rs
        /\ \A m : m \in DOMAIN ols <=>
                    \E rank \in whole..n : Tells(values, rank, id) /\ m = <<rank, 0>>
        /\ \A m : m \in DOMAIN nls <=>
                    \E rank \in whole..(n + 1) : Tells(next, rank, id) /\ m = <<rank, 0>>
    BY <1>1, MentionsAre
  <1>8. /\ \A rank \in whole..n : Tells(values, rank, id) =>
             \A i \in DOMAIN Entry(values, rank, id).rs : new[<<rank, i>>] = old[<<rank, i>>]
        /\ \A rank \in whole..n : Tells(values, rank, id) => nls[<<rank, 0>>] = ols[<<rank, 0>>]
    <2>1. ASSUME NEW rank \in whole..n, Tells(values, rank, id)
          PROVE  /\ \A i \in DOMAIN Entry(values, rank, id).rs : new[<<rank, i>>] = old[<<rank, i>>]
                 /\ nls[<<rank, 0>>] = ols[<<rank, 0>>]
      <3>1. /\ rank \in whole..Len(values) /\ rank \in whole..Len(next)
            /\ Tells(next, rank, id) /\ Entry(next, rank, id) = Entry(values, rank, id)
        BY <1>1, <1>2, <2>1
      <3>2. /\ \A i \in DOMAIN Entry(values, rank, id).rs :
                 old[<<rank, i>>] =
                  [r |-> Entry(values, rank, id).rs[i],
                   stands |-> rank = whole \/ Given(Entry(values, rank, id).rs[i].attrs["id"])]
            /\ ols[<<rank, 0>>] = Entry(values, rank, id).l
        BY <2>1, <3>1, MentionsAre
      <3>3. /\ \A i \in DOMAIN Entry(next, rank, id).rs :
                 new[<<rank, i>>] =
                  [r |-> Entry(next, rank, id).rs[i],
                   stands |-> rank = whole \/ Given(Entry(next, rank, id).rs[i].attrs["id"])]
            /\ nls[<<rank, 0>>] = Entry(next, rank, id).l
        BY <2>1, <3>1, MentionsAre
      <3> HIDE DEF new, old, nls, ols
      <3>4. QED
        BY <3>1, <3>2, <3>3
    <2>2. QED
      BY <2>1
  <1> HIDE DEF new, old, nls, ols
  <1>9. \A m : m \in DOMAIN new <=>
                 \/ m \in DOMAIN old
                 \/ Tells(next, n + 1, id) /\ m \in {n + 1} \X DOMAIN Entry(next, n + 1, id).rs
    <2> DEFINE In(t, rank, m) == Tells(t, rank, id) /\ m \in {rank} \X DOMAIN Entry(t, rank, id).rs
    <2>1. \A m : \A rank \in whole..n : In(next, rank, m) <=> In(values, rank, m)
      BY <1>1, <1>2
    <2>2. /\ \A m : m \in DOMAIN old <=> \E rank \in whole..n : In(values, rank, m)
          /\ \A m : m \in DOMAIN new <=> \E rank \in whole..(n + 1) : In(next, rank, m)
      BY <1>7
    <2>3. \A rank : rank \in whole..(n + 1) <=> rank \in whole..n \/ rank = n + 1
      BY <1>1
    <2> HIDE DEF In
    <2>4. \A m : m \in DOMAIN new <=> m \in DOMAIN old \/ In(next, n + 1, m)
      BY <2>1, <2>2, <2>3
    <2>5. QED
      BY <2>4 DEF In
  <1>10. \A m \in DOMAIN old : m \in Spots /\ m[1] < n + 1 /\ new[m] = old[m]
    <2>1. SUFFICES ASSUME NEW m \in DOMAIN old PROVE m \in Spots /\ m[1] < n + 1 /\ new[m] = old[m]
      OBVIOUS
    <2>2. PICK rank \in whole..n :
            Tells(values, rank, id) /\ m \in {rank} \X DOMAIN Entry(values, rank, id).rs
      BY <1>7
    <2>3. PICK i \in DOMAIN Entry(values, rank, id).rs : m = <<rank, i>>
      BY <2>2
    <2>4. m \in Spots /\ new[m] = old[m]
      BY <1>1, <1>6, <1>8, <2>2, <2>3
    <2>5. QED
      BY <2>3, <2>4
  <1>11. \A m : m \in DOMAIN nls <=>
                 m \in DOMAIN ols \/ (Tells(next, n + 1, id) /\ m = <<n + 1, 0>>)
    <2>1. \A rank \in whole..n : Tells(next, rank, id) <=> Tells(values, rank, id)
      BY <1>1, <1>2
    <2>2. \A rank : rank \in whole..(n + 1) <=> rank \in whole..n \/ rank = n + 1
      BY <1>1
    <2>3. QED
      BY <1>7, <2>1, <2>2
  <1>12. \A m \in DOMAIN ols : m \in Spots /\ m[1] < n + 1 /\ nls[m] = ols[m]
    <2>1. SUFFICES ASSUME NEW m \in DOMAIN ols PROVE m \in Spots /\ m[1] < n + 1 /\ nls[m] = ols[m]
      OBVIOUS
    <2>2. PICK rank \in whole..n : Tells(values, rank, id) /\ m = <<rank, 0>>
      BY <1>7
    <2>3. QED
      BY <1>8, <2>2 DEF Spots
  <1>13. QED
    BY <1>1, <1>2, <1>5, <1>9, <1>10, <1>11, <1>12 DEF new, old, nls, ols

(* A layer that does not name the device.                                  *)
LEMMA GatheredStays ==
  ASSUME NEW values, NEW next, Grows(values, next), NEW n \in Nat, n = Len(values),
         NEW d, Gathered(values, d), ~Tells(next, n + 1, d.id)
  PROVE  Gathered(next, d)
  <1>1. DOMAIN values = 1..n /\ DOMAIN next = 1..(n + 1)
    BY DEF Grows, Tower
  <1>2. PICK whole \in 1..n : LastWhole(values, whole, d.id) /\ Shown(values, whole, d)
    BY <1>1 DEF Gathered
  <1> DEFINE new == Mentions(next, whole, d.id)
             old == Mentions(values, whole, d.id)
             nls == Ls(next, whole, d.id)
             ols == Ls(values, whole, d.id)
  <1>3. /\ LastWhole(next, whole, d.id) /\ Entry(next, whole, d.id) = Entry(values, whole, d.id)
        /\ \A m : m \in DOMAIN new <=> m \in DOMAIN old
        /\ \A m \in DOMAIN old : new[m] = old[m]
        /\ \A m : m \in DOMAIN nls <=> m \in DOMAIN ols
        /\ \A m \in DOMAIN ols : nls[m] = ols[m]
    BY <1>2, SaidStays
  <1> HIDE DEF new, old, nls, ols
  <1>4. DOMAIN new = DOMAIN old /\ DOMAIN nls = DOMAIN ols
    BY <1>3
  <1>5. LatestIs(d.l, nls)
    <2>1. LatestIs(d.l, ols)
      BY <1>2 DEF Shown, ols
    <2>2. QED
      BY <1>3, <1>4, <2>1 DEF LatestIs
  <1>6. ASSUME UniqueUids(Entry(next, whole, d.id).rs)
        PROVE  UniqueUids(d.rs) /\ RenderingsFollow(new, d.rs)
    <2>1. UniqueUids(d.rs) /\ RenderingsFollow(old, d.rs)
      BY <1>2, <1>3, <1>6 DEF Shown, old
    <2>2. QED
      BY <1>3, <1>4, <2>1, SameMentions
  <1>7. Shown(next, whole, d)
    BY <1>5, <1>6 DEF Shown, new, nls
  <1>8. QED
    BY <1>1, <1>3, <1>7 DEF Gathered

(* A layer that patches the device.                                        *)
LEMMA GatheredNext ==
  ASSUME NEW values, NEW next, Grows(values, next), NEW n \in Nat, n = Len(values),
         NEW b \in DeviceEntries, Gathered(values, b), NEW e \in DeviceEntries, e.id = b.id,
         Tells(next, n + 1, b.id), Entry(next, n + 1, b.id) = e, ~IsReplaceMode(e)
  PROVE  Gathered(next, PatchDevice(b, e).device)
  <1> DEFINE d  == PatchDevice(b, e).device
             id == b.id
  <1>1. DOMAIN values = 1..n /\ DOMAIN next = 1..(n + 1)
    BY DEF Grows, Tower
  <1>2. /\ d.id = id
        /\ d.l = IF e.l = Missing THEN b.l ELSE e.l
        /\ UniqueUids(b.rs) => UniqueUids(d.rs)
    <2>1. d.id = id /\ (UniqueUids(b.rs) => UniqueUids(d.rs))
      BY DevicePatchedIs DEF DevicePatched
    <2>2. d.l = IF e.l = Missing THEN b.l ELSE e.l
      BY DEF PatchDevice, DeviceEntries
    <2>3. QED
      BY <2>1, <2>2
  <1>3. PICK whole \in 1..n : LastWhole(values, whole, id) /\ Shown(values, whole, b)
    BY <1>1 DEF Gathered
  <1> DEFINE new == Mentions(next, whole, id)
             old == Mentions(values, whole, id)
             nls == Ls(next, whole, id)
             ols == Ls(values, whole, id)
  <1>4. e.rs \in Seq(Renderings) /\ n + 1 \in whole..Len(next) /\ n + 1 \in Nat
    BY DEF DeviceEntries, Grows
  <1>5. /\ \A i \in DOMAIN e.rs :
             new[<<n + 1, i>>] = [r |-> e.rs[i], stands |-> n + 1 = whole \/ Given(e.rs[i].attrs["id"])]
        /\ nls[<<n + 1, 0>>] = e.l
    BY <1>4, MentionsAre
  <1>6. /\ LastWhole(next, whole, id) /\ Entry(next, whole, id) = Entry(values, whole, id)
        /\ \A m : m \in DOMAIN new <=> m \in DOMAIN old \/ m \in {n + 1} \X DOMAIN e.rs
        /\ DOMAIN old \subseteq Spots
        /\ \A m \in DOMAIN old : m[1] < n + 1 /\ new[m] = old[m]
        /\ \A m : m \in DOMAIN nls <=> m \in DOMAIN ols \/ m = <<n + 1, 0>>
        /\ DOMAIN ols \subseteq Spots
        /\ \A m \in DOMAIN ols : m[1] < n + 1 /\ nls[m] = ols[m]
    BY <1>3, SaidStays
  <1> HIDE DEF new, old, nls, ols, d
  <1>7. LatestIs(d.l, nls)
    <2>1. LatestIs(b.l, ols)
      BY <1>3 DEF Shown, ols
    <2>2. OneLater(nls, ols, <<n + 1, 0>>)
      <3>1. DOMAIN nls = DOMAIN ols \cup {<<n + 1, 0>>} /\ <<n + 1, 0>> \in Spots
        BY <1>4, <1>6 DEF Spots
      <3>2. \A m \in DOMAIN ols : Earlier(m, <<n + 1, 0>>)
        BY <1>6 DEF Earlier
      <3>3. QED
        BY <1>6, <3>1, <3>2, Zenon DEF OneLater
    <2>3. LatestIs(IF nls[<<n + 1, 0>>] = Missing THEN b.l ELSE nls[<<n + 1, 0>>], nls)
      BY <2>1, <2>2, LatestNext
    <2>4. QED
      BY <1>2, <1>5, <2>3
  <1>8. ASSUME UniqueUids(Entry(next, whole, id).rs)
        PROVE  UniqueUids(d.rs) /\ RenderingsFollow(new, d.rs)
    <2>1. UniqueUids(b.rs) /\ RenderingsFollow(old, b.rs)
      BY <1>3, <1>6, <1>8 DEF Shown, old
    <2>2. DOMAIN new = DOMAIN old \cup ({n + 1} \X DOMAIN e.rs)
      BY <1>6
    <2>3. \A i \in DOMAIN e.rs : new[<<n + 1, i>>] = [r |-> e.rs[i], stands |-> Given(e.rs[i].attrs["id"])]
      <3>1. n + 1 # whole
        OBVIOUS
      <3>2. \A g : (n + 1 = whole \/ Given(g)) = Given(g)
        BY <3>1 DEF Given
      <3>3. \A i \in DOMAIN e.rs : [r |-> e.rs[i], stands |-> n + 1 = whole \/ Given(e.rs[i].attrs["id"])]
              = [r |-> e.rs[i], stands |-> Given(e.rs[i].attrs["id"])]
        BY <3>2, Zenon
      <3>4. QED
        BY <1>5, <3>3, Zenon
    <2>4. MentionedAfter(new, old, n + 1, e.rs)
      BY <1>4, <1>6, <2>2, <2>3, Zenon DEF MentionedAfter
    <2>5. RenderingsFollow(new, d.rs)
      BY <2>1, <2>4, PatchFollows DEF d
    <2>6. QED
      BY <1>2, <2>1, <2>5
  <1>9. Shown(next, whole, d)
    BY <1>2, <1>7, <1>8 DEF Shown, new, nls
  <1>10. LastWhole(next, whole, d.id)
    BY <1>2, <1>6
  <1>11. QED
    BY <1>1, <1>9, <1>10 DEF Gathered, d

(* A device of the merge, when one more layer is merged.                   *)
LEMMA DeltaGathers ==
  ASSUME NEW values, NEW next, Grows(values, next), NEW n \in Nat, n = Len(values), n > 0,
         NEW base \in Layouts, OnceEach(base), \A d \in Range(base) : Gathered(values, d),
         \A id : HasDevice(base, id) <=> \E i \in 1..n : HasDevice(values[i], id),
         NEW d \in Range(ApplyDelta(base, next[n + 1]).layout)
  PROVE  Gathered(next, d)
  <1> DEFINE said == next[n + 1]
             k    == Len(said)
  <1>1. /\ said \in Layouts /\ OnceEach(said) /\ n + 1 \in Nat /\ n + 1 = Len(next) /\ n + 1 > 0
        /\ k \in Nat /\ DOMAIN said = 1..k /\ Tower(next)
        /\ \A i \in 1..n : next[i] = values[i] /\ next[i] \in Layouts
    <2>1. /\ next \in Seq(Layouts) /\ Len(next) = n + 1 /\ Tower(next)
          /\ \A i \in 1..n : next[i] = values[i]
      BY DEF Grows, Tower
    <2>2. \A i \in 1..(n + 1) : i \in DOMAIN next /\ next[i] \in Layouts
      BY <2>1
    <2>3. said \in Layouts /\ OnceEach(said)
      BY <2>1, <2>2 DEF Tower
    <2>4. k \in Nat /\ DOMAIN said = 1..k
      BY <2>3 DEF Layouts
    <2> HIDE DEF said, k
    <2>5. QED
      BY <2>1, <2>2, <2>3, <2>4
  <1> HIDE DEF said, k
  <1>2. Untouched(base, said, k, d) \/ Whole(base, said, k, d) \/ PatchedUp(base, said, k, d)
    <2>1. base \in Layouts /\ OnceEach(base)
      OBVIOUS
    <2>2. Origins(base, ApplyDelta(base, said).layout, said, Len(said))
      BY <1>1, <2>1, DeltaInPlace
    <2>3. d \in Range(ApplyDelta(base, said).layout)
      BY DEF said
    <2>4. QED
      BY <2>2, <2>3, Zenon DEF Origins, k
  <1>3. \A id : /\ Tells(next, n + 1, id) <=> HasDevice(said, id)
                /\ \A e \in Range(said) : e.id = id =>
                     Tells(next, n + 1, id) /\ Entry(next, n + 1, id) = e
    BY <1>1, TellsIs DEF said
  <1>4. CASE Untouched(base, said, k, d)
    <2>1. d \in Range(base) /\ ~HasDevice(said, d.id)
      BY <1>1, <1>4 DEF Untouched, HasDevice
    <2>2. ~Tells(next, n + 1, d.id)
      BY <1>3, <2>1
    <2>3. QED
      BY <2>1, <2>2, GatheredStays
  <1>5. CASE Whole(base, said, k, d)
    <2>1. d \in Range(said) /\ (IsReplaceMode(d) \/ ~HasDevice(base, d.id))
      BY <1>1, <1>5 DEF Whole, Range
    <2>2. ~HasDevice(base, d.id) => \A lower \in 1..((n + 1) - 1) : ~Tells(next, lower, d.id)
      <3>1. \A lower \in 1..n : Tells(next, lower, d.id) <=> HasDevice(values[lower], d.id)
        BY <1>1, TellsIs
      <3>2. (n + 1) - 1 = n
        OBVIOUS
      <3>3. QED
        BY <3>1, <3>2
    <2>3. d \in Range(next[n + 1])
      BY <2>1 DEF said
    <2>4. QED
      BY <1>1, <2>1, <2>2, <2>3, WholeIsGathered
  <1>6. CASE PatchedUp(base, said, k, d)
    <2>1. PICK j \in 1..k, b \in Range(base) :
            /\ b.id = said[j].id /\ ~IsReplaceMode(said[j])
            /\ d = PatchDevice(b, said[j]).device
      BY <1>6 DEF PatchedUp
    <2> DEFINE e == said[j]
    <2>2. e \in Range(said) /\ e \in DeviceEntries /\ b \in DeviceEntries
      BY <1>1 DEF Layouts, Range
    <2>3. /\ b.id = e.id /\ ~IsReplaceMode(e) /\ d = PatchDevice(b, e).device
          /\ Gathered(values, b)
      BY <2>1
    <2> HIDE DEF e
    <2>4. Tells(next, n + 1, b.id) /\ Entry(next, n + 1, b.id) = e
      BY <1>3, <2>2, <2>3
    <2>5. QED
      BY <2>2, <2>3, <2>4, GatheredNext
  <1>7. QED
    BY <1>2, <1>4, <1>5, <1>6

(* The layers that were merged, and that the merge is what they say.       *)
Taken == [i \in 1..applied |-> layers[i].value]

NearestInv == applied > 0 => \A d \in Range(merged) : Gathered(Taken, d)

(* Layers that are layouts, as values one over the other.                  *)
LEMMA TakenIs ==
  ASSUME NEW k \in Nat, NEW stack,
         \A i \in 1..k : stack[i].value \in Layouts /\ OnceEach(stack[i].value)
  PROVE  LET values == [i \in 1..k |-> stack[i].value]
         IN  Tower(values) /\ Len(values) = k /\ \A i \in 1..k : values[i] = stack[i].value
  BY DEF Tower

(* Each layer of merge_layers keeps it.                                    *)
LEMMA NearestStep ==
  ASSUME MergeInv, MergeInv', OnceInv, OnceInv', DevicesInv, NearestInv, [Next]_vars
  PROVE  NearestInv'
  <1>1. CASE UNCHANGED <<layers, applied, merged, sharedMerged, notes>>
    BY <1>1 DEF NearestInv, Taken
  <1>2. CASE applied = 0 /\ UNCHANGED <<applied, merged, sharedMerged, notes>>
    BY <1>2 DEF NearestInv
  <1>3. ASSUME layers' = layers, NEW layer, Advances(layer)
        PROVE  NearestInv'
    <2>1. /\ applied \in Nat /\ applied' = applied + 1
          /\ layers'[applied + 1] = layer
          /\ \A i : i \in 1..applied' <=> i \in 1..applied \/ i = applied + 1
          /\ \A i \in 1..applied : layers'[i] = layers[i]
      BY <1>3, UptoNext
    <2> DEFINE values == Taken
               next   == Taken'
    <2>2. /\ Tower(values) /\ Len(values) = applied /\ \A i \in 1..applied : values[i] = layers[i].value
          /\ Tower(next) /\ Len(next) = applied + 1 /\ next[applied + 1] = layer.value
          /\ \A i \in 1..applied : next[i] = layers[i].value
      <3>1. /\ \A i \in 1..applied : layers[i].value \in Layouts /\ OnceEach(layers[i].value)
            /\ \A i \in 1..applied' : layers'[i].value \in Layouts /\ OnceEach(layers'[i].value)
        <4>1. /\ \A i \in 1..applied : i \in DOMAIN layers
              /\ \A i \in 1..applied' : i \in DOMAIN layers'
          BY <2>1 DEF MergeInv, TypeOK
        <4>2. QED
          BY <4>1 DEF MergeInv, OnceInv
      <3>2. Tower(values) /\ Len(values) = applied /\ \A i \in 1..applied : values[i] = layers[i].value
        BY <2>1, <3>1, TakenIs DEF Taken
      <3>3. /\ Tower(next) /\ Len(next) = applied'
            /\ \A i \in 1..applied' : next[i] = layers'[i].value
        <4>1. applied' \in Nat /\ Taken' = [i \in 1..applied' |-> layers'[i].value]
          BY <2>1 DEF Taken
        <4>2. QED
          BY <3>1, <4>1, TakenIs
      <3> HIDE DEF values, next
      <3>4. QED
        BY <2>1, <3>2, <3>3
    <2>3. NearestInv' <=> \A d \in Range(merged') : Gathered(next, d)
      BY <2>1 DEF NearestInv
    <2>4. applied > 0 => \A d \in Range(merged) : Gathered(values, d)
      BY DEF NearestInv
    <2> HIDE DEF values, next
    <2>5. CASE applied = 0
      <3>1. merged' = layer.value
        BY <1>3, <2>5 DEF Advances, Applied
      <3>2. 1 \in Nat /\ 1 = Len(next) /\ 1 > 0 /\ next[1] = layer.value /\ 1..(1 - 1) = {}
        BY <2>2, <2>5
      <3>3. \A d \in Range(next[1]) : Gathered(next, d)
        <4>1. ASSUME NEW d \in Range(next[1]) PROVE Gathered(next, d)
          <5>1. \A lower \in 1..(1 - 1) : ~Tells(next, lower, d.id)
            BY <3>2
          <5>2. QED
            BY <2>2, <3>2, <5>1, WholeIsGathered
        <4>2. QED
          BY <4>1
      <3>4. QED
        BY <2>3, <3>1, <3>2, <3>3, Zenon
    <2>6. CASE applied # 0
      <3>1. applied > 0 /\ Grows(values, next)
        BY <2>1, <2>2, <2>6 DEF Grows
      <3>2. merged \in Layouts /\ OnceEach(merged)
        BY <2>6, <3>1 DEF MergeInv, TypeOK, OnceInv
      <3>3. merged' = ApplyDelta(merged, layer.value).layout
        <4>1. applied' # applied
          BY <2>1
        <4>2. ApplyLayer
          BY <1>3, <4>1 DEF Next, Walk, CollectLayers, vars, pageVars
        <4>3. layer.value # Malformed /\ layer = layers[applied + 1]
          BY <1>3, PagesAssumption DEF Advances
        <4>4. QED
          BY <2>6, <4>2, <4>3 DEF ApplyLayer
      <3>4. \A id : HasDevice(merged, id) <=> \E i \in 1..applied : HasDevice(values[i], id)
        BY <2>2, <3>1 DEF DevicesInv, Mentioned
      <3>5. QED
        BY <2>1, <2>2, <2>3, <2>4, <3>1, <3>2, <3>3, <3>4, DeltaGathers
    <2>7. QED
      BY <2>5, <2>6
  <1>4. QED
    BY <1>1, <1>2, <1>3, OtherSteps, Zenon

(* The same, said at other spots in the same order.                        *)
Shifted(new, old, g) ==
  /\ \A m : m \in DOMAIN new <=> \E k \in DOMAIN old : m = g[k]
  /\ \A m \in DOMAIN old : new[g[m]] = old[m]
  /\ \A m, n \in DOMAIN old : Earlier(g[m], g[n]) <=> Earlier(m, n)

(* The last that is said is the same,                                      *)
LEMMA LatestShifted ==
  ASSUME NEW new, NEW old, NEW g, Shifted(new, old, g), NEW value, LatestIs(value, old)
  PROVE  LatestIs(value, new)
  <1>1. /\ \A m : m \in DOMAIN new <=> \E k \in DOMAIN old : m = g[k]
        /\ \A m \in DOMAIN old : new[g[m]] = old[m] /\ g[m] \in DOMAIN new
        /\ \A m, n \in DOMAIN old : Earlier(g[m], g[n]) <=> Earlier(m, n)
    BY Zenon DEF Shifted
  <1>2. CASE value = Missing
    BY <1>1, <1>2 DEF LatestIs
  <1>3. CASE value # Missing
    <2>1. PICK m \in DOMAIN old : old[m] = value /\ \A n \in DOMAIN old : Earlier(m, n) => old[n] = Missing
      BY <1>3 DEF LatestIs
    <2>2. g[m] \in DOMAIN new /\ new[g[m]] = value
      BY <1>1, <2>1
    <2>3. \A n \in DOMAIN new : Earlier(g[m], n) => new[n] = Missing
      BY <1>1, <2>1
    <2>4. QED
      BY <1>3, <2>2, <2>3 DEF LatestIs
  <1>4. QED
    BY <1>2, <1>3

(* and so are the renderings that follow.                                  *)
LEMMA FollowsShifted ==
  ASSUME NEW new, NEW old, NEW g, Shifted(new, old, g), NEW rs, RenderingsFollow(old, rs)
  PROVE  RenderingsFollow(new, rs)
  <1>1. /\ \A m : m \in DOMAIN new <=> \E k \in DOMAIN old : m = g[k]
        /\ \A m \in DOMAIN old : new[g[m]] = old[m] /\ g[m] \in DOMAIN new
        /\ \A m, n \in DOMAIN old : Earlier(g[m], g[n]) <=> Earlier(m, n)
    BY Zenon DEF Shifted
  <1>2. ASSUME NEW u
        PROVE  \A m : m \in Counting(new, u) <=> \E k \in Counting(old, u) : m = g[k]
    <2>1. ASSUME NEW k \in DOMAIN old
          PROVE  k \in Counting(old, u) <=> g[k] \in Counting(new, u)
      <3>1. /\ g[k] \in Counting(new, u) <=>
                 /\ new[g[k]].r.uid = u
                 /\ \E s \in DOMAIN new : new[s].r.uid = u /\ new[s].stands /\ ~Earlier(g[k], s)
            /\ k \in Counting(old, u) <=>
                 /\ old[k].r.uid = u
                 /\ \E s \in DOMAIN old : old[s].r.uid = u /\ old[s].stands /\ ~Earlier(k, s)
        BY <1>1, <2>1, Zenon DEF Counting
      <3>2. \A s \in DOMAIN old : /\ new[g[s]] = old[s] /\ g[s] \in DOMAIN new
                                  /\ Earlier(g[k], g[s]) <=> Earlier(k, s)
        BY <1>1, <2>1
      <3>3. \A t \in DOMAIN new : \E s \in DOMAIN old : t = g[s]
        BY <1>1
      <3>4. QED
        BY <2>1, <3>1, <3>2, <3>3
    <2>2. Counting(new, u) \subseteq DOMAIN new /\ Counting(old, u) \subseteq DOMAIN old
      BY DEF Counting
    <2>3. QED
      BY <1>1, <2>1, <2>2
  <1>3. ASSUME NEW u, NEW r, Attributed(old, u, r)
        PROVE  Attributed(new, u, r)
    <2>1. ASSUME NEW a \in {"id", "ph", "ds"}
          PROVE  LatestIs(r.attrs[a], [m \in Counting(new, u) |-> new[m].r.attrs[a]])
      <3> DEFINE s == [m \in Counting(old, u) |-> old[m].r.attrs[a]]
                 t == [m \in Counting(new, u) |-> new[m].r.attrs[a]]
      <3>1. LatestIs(r.attrs[a], s)
        BY <1>3, Zenon DEF Attributed
      <3>2. Counting(old, u) \subseteq DOMAIN old
        BY DEF Counting
      <3>3. \A m \in Counting(old, u) : g[m] \in Counting(new, u) /\ new[g[m]] = old[m]
        BY <1>1, <1>2, <3>2
      <3>4. Shifted(t, s, g)
        BY <1>1, <1>2, <3>2, <3>3 DEF Shifted
      <3> HIDE DEF s, t
      <3>5. LatestIs(r.attrs[a], t)
        BY <3>1, <3>4, LatestShifted
      <3>6. QED
        BY <3>5 DEF t
    <2>2. QED
      BY <2>1, Zenon DEF Attributed
  <1>4. \A u : Counting(new, u) # {} <=> Counting(old, u) # {}
    BY <1>2
  <1>5. QED
    BY <1>3, <1>4, FollowsIs

(* Values in a row, and the same with those that say nothing left out.     *)
Thinned(thin, full, void, f) ==
  /\ f \in [DOMAIN thin -> DOMAIN full]
  /\ \A i, j \in DOMAIN thin : i < j => f[i] < f[j]
  /\ \A i \in DOMAIN thin : full[f[i]] = thin[i]
  /\ \A j \in DOMAIN full : full[j] # void => \E i \in DOMAIN thin : f[i] = j

(* A device that is what some layers say is what they say with those in    *)
(* between that say nothing.                                               *)
LEMMA ThinIsEnough ==
  ASSUME NEW thin, Tower(thin), NEW S, NEW full \in Seq(S), NEW f, Thinned(thin, full, NoLayout, f),
         NEW d, Gathered(thin, d)
  PROVE  Nearest(full, d)
  <1> DEFINE id == d.id
             n  == Len(thin)
             m  == Len(full)
  <1>1. /\ n \in Nat /\ DOMAIN thin = 1..n /\ m \in Nat /\ DOMAIN full = 1..m
        /\ \A i \in 1..n : thin[i] \in Layouts
    BY DEF Tower
  <1>2. /\ \A i \in 1..n : f[i] \in 1..m /\ full[f[i]] = thin[i]
        /\ \A i, j \in 1..n : i < j <=> f[i] < f[j]
        /\ \A i, j \in 1..n : f[i] = f[j] <=> i = j
    <2>1. \A i \in 1..n : f[i] \in 1..m /\ full[f[i]] = thin[i]
      BY <1>1 DEF Thinned
    <2>2. \A i, j \in 1..n : i < j => f[i] < f[j]
      BY <1>1 DEF Thinned
    <2>3. QED
      BY <1>1, <2>1, <2>2
  <1>3. \A i \in 1..n : /\ Tells(full, f[i], id) <=> Tells(thin, i, id)
                        /\ Entry(full, f[i], id) = Entry(thin, i, id)
    BY <1>2 DEF Tells, Entry
  <1>4. \A j \in 1..m : Tells(full, j, id) => \E i \in 1..n : f[i] = j
    BY <1>1 DEF Thinned, Tells
  <1> HIDE DEF n, m, id
  <1>5. ASSUME NEW i \in 1..n
        PROVE  GivesWhole(full, f[i], id) <=> GivesWhole(thin, i, id)
    <2>1. (\A j \in 1..(f[i] - 1) : ~Tells(full, j, id)) <=> (\A k \in 1..(i - 1) : ~Tells(thin, k, id))
      <3>1. ASSUME NEW j \in 1..(f[i] - 1), Tells(full, j, id)
            PROVE  \E k \in 1..(i - 1) : Tells(thin, k, id)
        <4>1. j \in 1..m /\ j < f[i]
          BY <1>1, <1>2, <1>5, <3>1
        <4>2. PICK k \in 1..n : f[k] = j
          BY <1>4, <3>1, <4>1
        <4>3. k < i /\ Tells(thin, k, id)
          BY <1>2, <1>3, <3>1, <4>1, <4>2
        <4>4. k \in 1..(i - 1)
          BY <1>1, <4>3
        <4>5. QED
          BY <4>3, <4>4
      <3>2. ASSUME NEW k \in 1..(i - 1), Tells(thin, k, id)
            PROVE  \E j \in 1..(f[i] - 1) : Tells(full, j, id)
        <4>1. k \in 1..n /\ k < i
          BY <1>1, <3>2
        <4>2. Tells(full, f[k], id) /\ f[k] < f[i] /\ f[k] \in 1..m /\ f[i] \in 1..m
          BY <1>2, <1>3, <3>2, <4>1
        <4>3. f[k] \in 1..(f[i] - 1)
          BY <1>1, <4>2
        <4>4. QED
          BY <4>2, <4>3
      <3>3. QED
        BY <3>1, <3>2
    <2>2. QED
      BY <1>3, <2>1 DEF GivesWhole
  <1>6. PICK whole \in 1..n : LastWhole(thin, whole, id) /\ Shown(thin, whole, d)
    BY <1>1 DEF Gathered, n, id
  <1>7. /\ GivesWhole(full, f[whole], id)
        /\ \A j \in (f[whole] + 1)..Len(full) : ~GivesWhole(full, j, id)
    <2>1. GivesWhole(full, f[whole], id)
      BY <1>5, <1>6 DEF LastWhole
    <2>2. ASSUME NEW j \in (f[whole] + 1)..Len(full), GivesWhole(full, j, id)
          PROVE  FALSE
      <3>1. j \in 1..m /\ f[whole] < j
        BY <1>1, <1>2, <2>2 DEF m
      <3>2. PICK i \in 1..n : f[i] = j
        BY <1>4, <2>2, <3>1 DEF GivesWhole
      <3>3. whole < i
        BY <1>2, <3>1, <3>2
      <3>4. i \in (whole + 1)..n
        BY <1>1, <3>3
      <3>5. QED
        BY <1>5, <1>6, <2>2, <3>2, <3>4 DEF LastWhole, n
    <2>3. QED
      BY <2>1, <2>2
  <1>8. \A rank : rank \in f[whole]..Len(full) /\ Tells(full, rank, id) <=>
                  \E i \in whole..n : rank = f[i] /\ Tells(thin, i, id)
    <2>1. ASSUME NEW rank \in f[whole]..Len(full), Tells(full, rank, id)
          PROVE  \E i \in whole..n : rank = f[i] /\ Tells(thin, i, id)
      <3>1. rank \in 1..m /\ f[whole] \in 1..m /\ f[whole] <= rank
        BY <1>1, <1>2, <2>1 DEF m
      <3>2. PICK i \in 1..n : f[i] = rank
        BY <1>4, <2>1, <3>1
      <3>3. ~(i < whole)
        BY <1>2, <3>1, <3>2
      <3>4. i \in whole..n
        BY <1>1, <3>3
      <3>5. QED
        BY <1>3, <2>1, <3>2, <3>4
    <2>2. ASSUME NEW i \in whole..n, Tells(thin, i, id)
          PROVE  f[i] \in f[whole]..Len(full) /\ Tells(full, f[i], id)
      <3>1. i \in 1..n /\ (i = whole \/ whole < i)
        BY <1>1
      <3>2. f[i] \in 1..m /\ f[whole] \in 1..m /\ (f[i] = f[whole] \/ f[whole] < f[i])
        BY <1>2, <3>1
      <3>3. f[i] \in f[whole]..m
        BY <1>1, <3>2
      <3>4. QED
        BY <1>3, <2>2, <3>1, <3>3 DEF m
    <2>3. QED
      BY <2>1, <2>2
  <1> DEFINE new == Mentions(full, f[whole], id)
             old == Mentions(thin, whole, id)
             nls == Ls(full, f[whole], id)
             ols == Ls(thin, whole, id)
             g   == [k \in Spots |-> <<f[k[1]], k[2]>>]
  <1>9. ASSUME NEW i \in whole..n, Tells(thin, i, id)
        PROVE  /\ i \in 1..n /\ f[i] \in f[whole]..Len(full) /\ Tells(full, f[i], id)
               /\ Entry(full, f[i], id) = Entry(thin, i, id) /\ (f[i] = f[whole] <=> i = whole)
               /\ Entry(thin, i, id).rs \in Seq(Renderings)
               /\ nls[<<f[i], 0>>] = ols[<<i, 0>>]
               /\ \A k \in DOMAIN Entry(thin, i, id).rs :
                    k \in Nat /\ new[<<f[i], k>>] = old[<<i, k>>]
    <2>1. i \in 1..n /\ f[i] \in f[whole]..Len(full) /\ Tells(full, f[i], id) /\ i \in whole..Len(thin)
      BY <1>1, <1>8, <1>9 DEF n
    <2>2. Entry(full, f[i], id) = Entry(thin, i, id) /\ (f[i] = f[whole] <=> i = whole)
      BY <1>2, <1>3, <2>1
    <2>3. Entry(thin, i, id).rs \in Seq(Renderings)
      <3>1. Entry(thin, i, id) \in DeviceEntries
        BY <1>1, <1>9, <2>1, TellsIs
      <3>2. QED
        BY <3>1 DEF DeviceEntries
    <2> HIDE DEF n
    <2>told. i \in whole..Len(thin) /\ Tells(thin, i, id)
      BY <1>9, <2>1
    <2>4. /\ nls[<<f[i], 0>>] = Entry(full, f[i], id).l
          /\ \A k \in DOMAIN Entry(full, f[i], id).rs :
               new[<<f[i], k>>] =
                 [r |-> Entry(full, f[i], id).rs[k],
                  stands |-> f[i] = f[whole] \/ Given(Entry(full, f[i], id).rs[k].attrs["id"])]
      BY <2>1, MentionsAre
    <2>5. /\ ols[<<i, 0>>] = Entry(thin, i, id).l
          /\ \A k \in DOMAIN Entry(thin, i, id).rs :
               old[<<i, k>>] =
                 [r |-> Entry(thin, i, id).rs[k],
                  stands |-> i = whole \/ Given(Entry(thin, i, id).rs[k].attrs["id"])]
      BY <2>told, MentionsAre
    <2> HIDE DEF new, old, nls, ols
    <2>6. ASSUME NEW k \in DOMAIN Entry(thin, i, id).rs
          PROVE  k \in Nat /\ new[<<f[i], k>>] = old[<<i, k>>]
      <3> DEFINE r == Entry(thin, i, id).rs[k]
      <3>1. Entry(full, f[i], id).rs = Entry(thin, i, id).rs
        BY <2>2
      <3>2. new[<<f[i], k>>] = [r |-> r, stands |-> f[i] = f[whole] \/ Given(r.attrs["id"])]
        BY <2>4, <3>1, Zenon
      <3>3. old[<<i, k>>] = [r |-> r, stands |-> i = whole \/ Given(r.attrs["id"])]
        BY <2>5, Zenon
      <3>4. (f[i] = f[whole] \/ Given(r.attrs["id"])) = (i = whole \/ Given(r.attrs["id"]))
        BY <2>2, Zenon
      <3> HIDE DEF r
      <3>5. new[<<f[i], k>>] = old[<<i, k>>]
        BY <3>2, <3>3, <3>4, Zenon
      <3>6. k \in Nat
        BY <2>3
      <3>7. QED
        BY <3>5, <3>6
    <2>7. QED
      BY <2>1, <2>2, <2>3, <2>4, <2>5, <2>6
  <1>10. /\ \A x : x \in DOMAIN old <=>
                     \E i \in whole..n : Tells(thin, i, id) /\ x \in {i} \X DOMAIN Entry(thin, i, id).rs
         /\ \A x : x \in DOMAIN ols <=> \E i \in whole..n : Tells(thin, i, id) /\ x = <<i, 0>>
         /\ \A x : x \in DOMAIN new <=>
                     \E j \in f[whole]..Len(full) :
                       Tells(full, j, id) /\ x \in {j} \X DOMAIN Entry(full, j, id).rs
         /\ \A x : x \in DOMAIN nls <=>
                     \E j \in f[whole]..Len(full) : Tells(full, j, id) /\ x = <<j, 0>>
    BY MentionsAre DEF n
  <1> HIDE DEF new, old, nls, ols
  <1>11. /\ \A x \in DOMAIN old : \E i \in whole..n : /\ Tells(thin, i, id)
                                   /\ \E k \in DOMAIN Entry(thin, i, id).rs : x = <<i, k>>
         /\ \A x \in DOMAIN new : \E i \in whole..n : /\ Tells(thin, i, id)
                                   /\ \E k \in DOMAIN Entry(thin, i, id).rs : x = <<f[i], k>>
         /\ \A i \in whole..n : Tells(thin, i, id) =>
              \A k \in DOMAIN Entry(thin, i, id).rs :
                 <<i, k>> \in DOMAIN old /\ <<f[i], k>> \in DOMAIN new
    <2>1. ASSUME NEW x \in DOMAIN old
          PROVE  \E i \in whole..n : /\ Tells(thin, i, id)
                                     /\ \E k \in DOMAIN Entry(thin, i, id).rs : x = <<i, k>>
      BY <1>10
    <2>2. ASSUME NEW x \in DOMAIN new
          PROVE  \E i \in whole..n : /\ Tells(thin, i, id)
                                     /\ \E k \in DOMAIN Entry(thin, i, id).rs : x = <<f[i], k>>
      <3>1. PICK j \in f[whole]..Len(full) :
              Tells(full, j, id) /\ x \in {j} \X DOMAIN Entry(full, j, id).rs
        BY <1>10
      <3>2. PICK i \in whole..n : j = f[i] /\ Tells(thin, i, id)
        BY <1>8, <3>1
      <3>3. Entry(full, j, id) = Entry(thin, i, id)
        BY <1>9, <3>2
      <3>4. PICK k \in DOMAIN Entry(full, j, id).rs : x = <<j, k>>
        BY <3>1
      <3>5. QED
        BY <3>2, <3>3, <3>4
    <2>3. ASSUME NEW i \in whole..n, Tells(thin, i, id), NEW k \in DOMAIN Entry(thin, i, id).rs
          PROVE  <<i, k>> \in DOMAIN old /\ <<f[i], k>> \in DOMAIN new
      <3>1. <<i, k>> \in DOMAIN old
        <4>1. <<i, k>> \in {i} \X DOMAIN Entry(thin, i, id).rs
          BY <2>3
        <4>2. QED
          BY <1>10, <2>3, <4>1
      <3>2. /\ f[i] \in f[whole]..Len(full) /\ Tells(full, f[i], id)
            /\ Entry(full, f[i], id) = Entry(thin, i, id)
        BY <1>9, <2>3
      <3>3. <<f[i], k>> \in {f[i]} \X DOMAIN Entry(full, f[i], id).rs
        BY <2>3, <3>2
      <3>4. QED
        BY <1>10, <3>1, <3>2, <3>3
    <2>4. QED
      BY <2>1, <2>2, <2>3
  <1>12. \A x, y \in Spots : x[1] \in 1..n /\ y[1] \in 1..n =>
           (Earlier(g[x], g[y]) <=> Earlier(x, y))
    <2>1. ASSUME NEW x \in Spots, NEW y \in Spots, x[1] \in 1..n, y[1] \in 1..n
          PROVE  Earlier(g[x], g[y]) <=> Earlier(x, y)
      <3>1. g[x] = <<f[x[1]], x[2]>> /\ g[y] = <<f[y[1]], y[2]>>
        BY <2>1
      <3>2. (f[x[1]] < f[y[1]] <=> x[1] < y[1]) /\ (f[x[1]] = f[y[1]] <=> x[1] = y[1])
        BY <1>2, <2>1
      <3> HIDE DEF g
      <3>3. QED
        BY <3>1, <3>2 DEF Earlier
    <2>2. QED
      BY <2>1
  <1>13. ASSUME NEW i \in 1..n, NEW k \in Nat
         PROVE  <<i, k>> \in Spots /\ <<i, k>>[1] \in 1..n /\ g[<<i, k>>] = <<f[i], k>>
    <2>1. <<i, k>> \in Spots
      BY <1>1 DEF Spots
    <2>2. QED
      BY <2>1
  <1> HIDE DEF g
  <1>14. \A x \in DOMAIN old : /\ x \in Spots /\ x[1] \in 1..n
                               /\ g[x] \in DOMAIN new /\ new[g[x]] = old[x]
    <2>1. SUFFICES ASSUME NEW x \in DOMAIN old
                   PROVE  x \in Spots /\ x[1] \in 1..n /\ g[x] \in DOMAIN new /\ new[g[x]] = old[x]
      OBVIOUS
    <2>2. PICK i \in whole..n : /\ Tells(thin, i, id)
                                /\ \E k \in DOMAIN Entry(thin, i, id).rs : x = <<i, k>>
      BY <1>11
    <2>3. PICK k \in DOMAIN Entry(thin, i, id).rs : x = <<i, k>>
      BY <2>2
    <2>4. i \in 1..n /\ k \in Nat /\ new[<<f[i], k>>] = old[<<i, k>>] /\ <<f[i], k>> \in DOMAIN new
      BY <1>9, <1>11, <2>2, <2>3
    <2>5. <<i, k>> \in Spots /\ <<i, k>>[1] \in 1..n /\ g[<<i, k>>] = <<f[i], k>>
      BY <1>13, <2>4
    <2>6. QED
      BY <2>3, <2>4, <2>5, Zenon
  <1>15. Shifted(new, old, g)
    <2>1. ASSUME NEW x \in DOMAIN new PROVE \E y \in DOMAIN old : x = g[y]
      <3>1. PICK i \in whole..n : /\ Tells(thin, i, id)
                                  /\ \E k \in DOMAIN Entry(thin, i, id).rs : x = <<f[i], k>>
        BY <1>11
      <3>2. PICK k \in DOMAIN Entry(thin, i, id).rs : x = <<f[i], k>>
        BY <3>1
      <3>3. i \in 1..n /\ k \in Nat /\ <<i, k>> \in DOMAIN old
        BY <1>9, <1>11, <3>1, <3>2
      <3>4. g[<<i, k>>] = <<f[i], k>>
        BY <1>13, <3>3
      <3>5. QED
        BY <3>2, <3>3, <3>4, Zenon
    <2>2. QED
      BY <1>12, <1>14, <2>1 DEF Shifted
  <1>16. Shifted(nls, ols, g)
    <2>1. ASSUME NEW i \in whole..n, Tells(thin, i, id)
          PROVE  /\ <<i, 0>> \in Spots /\ <<i, 0>>[1] \in 1..n /\ g[<<i, 0>>] = <<f[i], 0>>
                 /\ <<i, 0>> \in DOMAIN ols /\ <<f[i], 0>> \in DOMAIN nls
                 /\ nls[<<f[i], 0>>] = ols[<<i, 0>>]
      <3>1. /\ i \in 1..n /\ f[i] \in f[whole]..Len(full) /\ Tells(full, f[i], id)
            /\ nls[<<f[i], 0>>] = ols[<<i, 0>>]
        BY <1>9, <2>1
      <3>2. /\ <<i, 0>> \in Spots /\ <<i, 0>>[1] \in 1..n /\ g[<<i, 0>>] = <<f[i], 0>>
        BY <1>13, <3>1
      <3>3. <<i, 0>> \in DOMAIN ols /\ <<f[i], 0>> \in DOMAIN nls
        BY <1>10, <2>1, <3>1
      <3>4. QED
        BY <3>1, <3>2, <3>3
    <2>2. \A x \in DOMAIN ols : \E i \in whole..n : Tells(thin, i, id) /\ x = <<i, 0>>
      BY <1>10
    <2>3. \A x \in DOMAIN nls : \E i \in whole..n : Tells(thin, i, id) /\ x = <<f[i], 0>>
      BY <1>8, <1>10
    <2>4. /\ \A x \in DOMAIN ols : /\ x \in Spots /\ x[1] \in 1..n
                                   /\ g[x] \in DOMAIN nls /\ nls[g[x]] = ols[x]
          /\ \A x \in DOMAIN nls : \E y \in DOMAIN ols : x = g[y]
      <3>1. ASSUME NEW x \in DOMAIN ols
            PROVE  x \in Spots /\ x[1] \in 1..n /\ g[x] \in DOMAIN nls /\ nls[g[x]] = ols[x]
        BY <2>1, <2>2, Zenon
      <3>2. ASSUME NEW x \in DOMAIN nls
            PROVE  \E y \in DOMAIN ols : x = g[y]
        <4>1. PICK i \in whole..n : Tells(thin, i, id) /\ x = <<f[i], 0>>
          BY <2>3
        <4>2. <<i, 0>> \in DOMAIN ols /\ g[<<i, 0>>] = <<f[i], 0>>
          BY <2>1, <4>1
        <4>3. x = g[<<i, 0>>]
          BY <4>1, <4>2
        <4>4. QED
          BY <4>2, <4>3, Zenon
      <3>3. QED
        BY <3>1, <3>2
    <2>5. QED
      BY <1>12, <2>4 DEF Shifted
  <1>17. LatestIs(d.l, nls)
    BY <1>6, <1>16, LatestShifted DEF Shown, ols, id
  <1>18. Entry(full, f[whole], id) = Entry(thin, whole, id)
    BY <1>3
  <1>19. UniqueUids(Entry(full, f[whole], id).rs) => RenderingsFollow(new, d.rs)
    BY <1>6, <1>15, <1>18, FollowsShifted DEF Shown, old, id
  <1>20. f[whole] \in DOMAIN full
    BY <1>1, <1>2
  <1>21. QED
    BY <1>7, <1>17, <1>19, <1>20 DEF Nearest, new, nls, id

(* What is left when a value is skipped wherever it comes, one after the   *)
(* other.                                                                  *)
LEMMA SkipsThin ==
  ASSUME NEW S, NEW full \in Seq(S), NEW void, NEW g, g[0] = <<>>,
         \A k \in 1..Len(full) :
           /\ g[k - 1] \in Seq(S)
           /\ g[k] = IF full[k] = void THEN g[k - 1] ELSE Append(g[k - 1], full[k])
  PROVE  \E f : Thinned(g[Len(full)], full, void, f)
  <1> DEFINE n == Len(full)
             Held(k, f) == /\ f \in [DOMAIN g[k] -> 1..k]
                           /\ \A i, j \in DOMAIN g[k] : i < j => f[i] < f[j]
                           /\ \A i \in DOMAIN g[k] : full[f[i]] = g[k][i]
                           /\ \A j \in 1..k : full[j] # void => \E i \in DOMAIN g[k] : f[i] = j
             B == {k \in 0..n : \E f : Held(k, f)}
  <1>1. n \in Nat /\ DOMAIN full = 1..n
    OBVIOUS
  <1> HIDE DEF n
  <1>2. 0 \in B
    <2>1. Held(0, <<>>)
      OBVIOUS
    <2> HIDE DEF Held
    <2>2. QED
      BY <1>1, <2>1
  <1>3. ASSUME NEW k \in 1..n, k - 1 \in B
        PROVE  k \in B
    <2> DEFINE a == g[k - 1]
               b == g[k]
               m == Len(a)
    <2>1. PICK f : Held(k - 1, f)
      BY <1>3
    <2>2. a \in Seq(S) /\ b = IF full[k] = void THEN a ELSE Append(a, full[k])
      BY <1>3 DEF n
    <2>3. m \in Nat /\ DOMAIN a = 1..m
      BY <2>2
    <2>4. k \in 0..n /\ \A j \in 1..k : j \in 1..(k - 1) \/ j = k
      BY <1>1
    <2>5. /\ f \in [1..m -> 1..(k - 1)]
          /\ \A i, j \in 1..m : i < j => f[i] < f[j]
          /\ \A i \in 1..m : full[f[i]] = a[i]
          /\ \A j \in 1..(k - 1) : full[j] # void => \E i \in 1..m : f[i] = j
      BY <2>1, <2>3
    <2>6. \A i \in 1..m : f[i] \in 1..k /\ f[i] < k
      BY <1>1, <2>3, <2>5
    <2>7. CASE full[k] = void
      <3>1. b = a
        BY <2>2, <2>7
      <3>2. f \in [1..m -> 1..k]
        BY <2>5, <2>6
      <3>3. \A j \in 1..k : full[j] # void => \E i \in 1..m : f[i] = j
        BY <2>4, <2>5, <2>7
      <3>4. Held(k, f)
        <4> HIDE DEF m, a
        <4>1. QED
          BY <2>3, <2>5, <3>1, <3>2, <3>3
      <3> HIDE DEF Held
      <3>5. QED
        BY <2>4, <3>4
    <2>8. CASE full[k] # void
      <3> DEFINE h == [i \in 1..(m + 1) |-> IF i <= m THEN f[i] ELSE k]
      <3>1. /\ DOMAIN b = 1..(m + 1) /\ b[m + 1] = full[k] /\ \A i \in 1..m : b[i] = a[i]
        BY <2>2, <2>3, <2>8
      <3> HIDE DEF a, b, m
      <3>2. /\ h[m + 1] = k /\ \A i \in 1..m : h[i] = f[i]
            /\ DOMAIN h = 1..(m + 1)
        BY <2>3
      <3>3. h \in [1..(m + 1) -> 1..k]
        BY <1>1, <2>3, <2>6
      <3> HIDE DEF h
      <3>4. \A i \in 1..(m + 1) : i \in 1..m \/ i = m + 1
        BY <2>3
      <3>5. \A i, j \in 1..(m + 1) : i < j => h[i] < h[j]
        <4>1. SUFFICES ASSUME NEW i \in 1..(m + 1), NEW j \in 1..(m + 1), i < j
                       PROVE  h[i] < h[j]
          OBVIOUS
        <4>2. i \in 1..m
          BY <2>3, <4>1
        <4>3. QED
          BY <2>5, <2>6, <3>2, <3>4, <4>1, <4>2
      <3>6. \A i \in 1..(m + 1) : full[h[i]] = b[i]
        BY <2>5, <3>1, <3>2, <3>4
      <3>7. \A j \in 1..k : full[j] # void => \E i \in 1..(m + 1) : h[i] = j
        <4>1. m + 1 \in 1..(m + 1) /\ \A i \in 1..m : i \in 1..(m + 1)
          BY <2>3
        <4>2. QED
          BY <2>4, <2>5, <3>2, <4>1
      <3>8. Held(k, h)
        BY <3>1, <3>3, <3>5, <3>6, <3>7 DEF b
      <3> HIDE DEF Held
      <3>9. QED
        BY <2>4, <3>8
    <2>9. QED
      BY <2>7, <2>8
  <1>4. n \in B
    <2>1. n \in 0..n
      BY <1>1
    <2> HIDE DEF B
    <2>2. QED
      BY <1>1, <1>2, <1>3, <2>1, BoundedInduction
  <1>5. PICK f : Held(n, f)
    BY <1>4
  <1>6. Thinned(g[n], full, void, f)
    BY <1>1, <1>5 DEF Thinned
  <1>7. QED
    BY <1>6 DEF n

(* Leaving out some and then some more is leaving out.                     *)
LEMMA ThinnedTwice ==
  ASSUME NEW thin, NEW mid, NEW full, NEW void, NEW f, NEW h,
         Thinned(thin, mid, void, f), Thinned(mid, full, void, h)
  PROVE  \E e : Thinned(thin, full, void, e)
  <1> DEFINE e == [i \in DOMAIN thin |-> h[f[i]]]
  <1>1. \A i \in DOMAIN thin : f[i] \in DOMAIN mid /\ e[i] = h[f[i]] /\ mid[f[i]] = thin[i]
    BY DEF Thinned
  <1>2. e \in [DOMAIN thin -> DOMAIN full]
    BY DEF Thinned
  <1>3. \A i, j \in DOMAIN thin : i < j => e[i] < e[j]
    BY <1>1 DEF Thinned
  <1>4. \A i \in DOMAIN thin : full[e[i]] = thin[i]
    BY <1>1 DEF Thinned
  <1>5. \A j \in DOMAIN full : full[j] # void => \E i \in DOMAIN thin : e[i] = j
    <2>1. SUFFICES ASSUME NEW j \in DOMAIN full, full[j] # void
                   PROVE  \E i \in DOMAIN thin : e[i] = j
      OBVIOUS
    <2>2. PICK k \in DOMAIN mid : h[k] = j /\ mid[k] # void
      BY <2>1 DEF Thinned
    <2>3. PICK i \in DOMAIN thin : f[i] = k
      BY <2>2 DEF Thinned
    <2>4. QED
      BY <1>1, <2>2, <2>3
  <1> HIDE DEF e
  <1>6. QED
    BY <1>2, <1>3, <1>4, <1>5 DEF Thinned

(* The standard values of the chain are those of its templates, in order.  *)
LEMMA StandardsThin ==
  ASSUME IInv
  PROVE  \E f : Thinned(StdValuesChain, [j \in 1..Len(chain) |-> defs[chain[j]].standard], None, f)
  <1> DEFINE full == [j \in 1..Len(chain) |-> defs[chain[j]].standard]
             S    == Holders \cup {None}
             T    == Seq(Holders)
  <1>1. /\ chain \in Seq(Known) /\ <<>> \in T
        /\ \A t \in Known : defs[t].standard \in S
    BY DEF IInv, WalkTypeOK, Definitions
  <1>2. StdValuesChain = (CHOOSE it : StandardFolds(<<>>, chain, it))[DOMAIN chain]
    BY Zenon DEF StdValuesChain, FoldLeft, MapThenFoldSet, StandardFolds
  <1>3. Len(chain) \in Nat /\ \A k \in 1..Len(chain) : chain[k] \in Known
    BY <1>1
  <1>4. /\ full \in Seq(S) /\ Len(full) = Len(chain)
        /\ \A k \in 1..Len(chain) : full[k] = defs[chain[k]].standard
    BY <1>1, <1>3
  <1>5. PICK g : /\ g[0] = <<>>
                 /\ \A k \in 1..Len(chain) : g[k - 1] \in T /\ g[k] = AddStandard(g[k - 1], chain[k])
                 /\ StdValuesChain = g[Len(chain)]
    <2> DEFINE start == <<>>
    <2>1. start \in Seq(Holders) /\ start = <<>>
      BY <1>1
    <2> HIDE DEF start
    <2>2. \E g : /\ g[0] = start
                 /\ \A k \in 1..Len(chain) :
                      g[k - 1] \in Seq(Holders) /\ g[k] = AddStandard(g[k - 1], chain[k])
                 /\ g[Len(chain)] \in Seq(Holders)
                 /\ (CHOOSE it : StandardFolds(start, chain, it))[DOMAIN chain] = g[Len(chain)]
      BY <1>1, <2>1, StandardSteps, Zenon
    <2>3. (CHOOSE it : StandardFolds(start, chain, it))[DOMAIN chain] = StdValuesChain
      BY <1>2, <2>1, Zenon
    <2>4. QED
      BY <2>1, <2>2, <2>3, Zenon
  <1>6. T \subseteq Seq(S)
    OBVIOUS
  <1> HIDE DEF full, S, T
  <1>7. \A k \in 1..Len(full) :
          /\ g[k - 1] \in Seq(S)
          /\ g[k] = IF full[k] = None THEN g[k - 1] ELSE Append(g[k - 1], full[k])
    BY <1>4, <1>5, <1>6 DEF AddStandard
  <1>8. \E f : Thinned(g[Len(full)], full, None, f)
    BY <1>4, <1>5, <1>7, SkipsThin
  <1>9. QED
    BY <1>4, <1>5, <1>8 DEF full

(* What layers say, without where it is from.                              *)
ValuesOf(stack) == [i \in 1..Len(stack) |-> stack[i].value]

(* The layers are those of all that say something, in order.               *)
LEMMA LayersThin ==
  ASSUME NEW V, NEW s \in Seq(Entries(V))
  PROVE  \E f : Thinned(ValuesOf(FoldLeft(AddLayer, <<>>, s)), ValuesOf(s), NoLayout, f)
  <1> DEFINE stack == FoldLeft(AddLayer, <<>>, s)
             full  == ValuesOf(s)
             n     == Len(s)
  <1>1. n \in Nat /\ DOMAIN s = 1..n /\ <<>> \in Stacks(V) /\ \A k \in 1..n : s[k] \in Entries(V)
    BY DEF Stacks
  <1>2. stack = (CHOOSE it : LayersFolds(<<>>, s, it))[DOMAIN s]
    BY Zenon DEF FoldLeft, MapThenFoldSet, LayersFolds
  <1>3. full \in Seq(V) /\ Len(full) = n /\ \A k \in 1..n : full[k] = s[k].value
    BY <1>1 DEF ValuesOf, Entries
  <1>4. n = Len(s)
    OBVIOUS
  <1> HIDE DEF n, stack, full
  <1>5. PICK g : /\ g[0] = <<>>
                 /\ \A k \in 1..n : g[k - 1] \in Stacks(V) /\ g[k] = AddLayer(g[k - 1], s[k])
                 /\ g[n] \in Stacks(V) /\ stack = g[n]
    BY <1>1, <1>2, <1>4, LayersSteps
  <1> DEFINE h == [k \in 0..n |-> ValuesOf(g[k])]
  <1>6. \A k \in 0..n : h[k] = ValuesOf(g[k])
    OBVIOUS
  <1>7. 0 \in 0..n /\ n \in 0..n /\ \A k \in 1..n : k \in 0..n /\ k - 1 \in 0..n
    BY <1>1
  <1> HIDE DEF h
  <1>8. h[0] = <<>>
    <2>1. h[0] = ValuesOf(<<>>)
      BY <1>5, <1>6, <1>7
    <2>2. QED
      BY <2>1 DEF ValuesOf
  <1>9. ASSUME NEW k \in 1..Len(full)
        PROVE  /\ h[k - 1] \in Seq(V)
               /\ h[k] = IF full[k] = NoLayout THEN h[k - 1] ELSE Append(h[k - 1], full[k])
    <2> DEFINE R == Entries(V \ {NoLayout})
    <2>1. k \in 1..n /\ h[k - 1] = ValuesOf(g[k - 1]) /\ h[k] = ValuesOf(g[k]) /\ full[k] = s[k].value
      BY <1>3, <1>6, <1>7
    <2>2. /\ g[k - 1] \in Seq(R)
          /\ g[k] = IF full[k] = NoLayout THEN g[k - 1] ELSE Append(g[k - 1], s[k])
      BY <1>5, <2>1 DEF AddLayer, Stacks
    <2>3. \A x \in R : x.value \in V
      BY DEF Entries
    <2> HIDE DEF R
    <2>4. ValuesOf(g[k - 1]) \in Seq(V)
      BY <2>2, <2>3 DEF ValuesOf
    <2>5. ValuesOf(Append(g[k - 1], s[k])) = Append(ValuesOf(g[k - 1]), s[k].value)
      BY <2>2 DEF ValuesOf
    <2>6. QED
      BY <2>1, <2>2, <2>4, <2>5
  <1>10. \E f : Thinned(h[Len(full)], full, NoLayout, f)
    BY <1>3, <1>8, <1>9, SkipsThin
  <1>11. h[Len(full)] = ValuesOf(stack)
    BY <1>3, <1>5, <1>6, <1>7
  <1>12. QED
    BY <1>10, <1>11 DEF stack, full

(* Sequences of one length with one more value after each, in a row.       *)
RowOf(all, R, n, a, x, b, y) ==
  /\ all \in Seq(R) /\ Len(all) = 2 * n + 2
  /\ \A i \in 1..n : all[i] = a[i] /\ all[n + 1 + i] = b[i]
  /\ all[n + 1] = x /\ all[2 * n + 2] = y

LEMMA InARow ==
  ASSUME NEW R, NEW n \in Nat, NEW a \in Seq(R), Len(a) = n, NEW x \in R,
         NEW b \in Seq(R), Len(b) = n, NEW y \in R
  PROVE  RowOf(a \o <<x>> \o b \o <<y>>, R, n, a, x, b, y)
  <1> DEFINE c == a \o <<x>>
             e == c \o b
             f == e \o <<y>>
  <1>1. /\ c \in Seq(R) /\ Len(c) = n + 1 /\ c[n + 1] = x
        /\ \A i \in 1..n : c[i] = a[i]
    OBVIOUS
  <1> HIDE DEF c
  <1>2. /\ e \in Seq(R) /\ Len(e) = 2 * n + 1
        /\ \A i \in 1..(n + 1) : e[i] = c[i]
        /\ \A i \in 1..n : e[n + 1 + i] = b[i]
    BY <1>1
  <1> HIDE DEF e
  <1>3. /\ f \in Seq(R) /\ Len(f) = 2 * n + 2 /\ f[2 * n + 2] = y
        /\ \A i \in 1..(2 * n + 1) : f[i] = e[i]
    <2> DEFINE m == 2 * n + 1
    <2>1. m \in Nat /\ Len(e) = m /\ e \in Seq(R) /\ m + 1 = 2 * n + 2
      BY <1>2
    <2> HIDE DEF m
    <2>2. f \in Seq(R) /\ Len(f) = m + 1 /\ f[m + 1] = y /\ \A i \in 1..m : f[i] = e[i]
      BY <2>1
    <2> HIDE DEF f
    <2>3. QED
      BY <2>1, <2>2 DEF m
  <1> HIDE DEF f
  <1>4. /\ n + 1 \in 1..(n + 1) /\ n + 1 \in 1..(2 * n + 1)
        /\ \A i \in 1..n : i \in 1..(n + 1) /\ i \in 1..(2 * n + 1) /\ n + 1 + i \in 1..(2 * n + 1)
    OBVIOUS
  <1>5. /\ f \in Seq(R) /\ Len(f) = 2 * n + 2
        /\ \A i \in 1..n : f[i] = a[i] /\ f[n + 1 + i] = b[i]
        /\ f[n + 1] = x /\ f[2 * n + 2] = y
    BY <1>1, <1>2, <1>3, <1>4
  <1>6. RowOf(f, R, n, a, x, b, y)
    BY <1>5 DEF RowOf
  <1>7. QED
    BY <1>6 DEF c, e, f

(* A rank is that of a template of the chain or of the page, once for what *)
(* they share and once for what they say of a version.                     *)
LEMMA RankedIs ==
  ASSUME IInv, NEW N, N = Len(chain) + 1
  PROVE  /\ N \in Nat /\ N > 0 /\ Ranks = 1..(2 * N)
         /\ Ranked(N) = SharedOf(Page) /\ Ranked(2 * N) = FinalExact(Page, VersionOf(requested))
         /\ \A k \in 1..(N - 1) :
              /\ Ranked(k) = SharedOf(defs[chain[N - k]].standard)
              /\ Ranked(N + k) = FinalAtMost(defs[chain[N - k]].standard, VersionOf(requested))
  <1>1. N \in Nat /\ N > 0 /\ Ranks = 1..(2 * N)
    <2>1. Len(chain) \in Nat
      BY DEF IInv, WalkTypeOK
    <2>2. QED
      BY <2>1 DEF Ranks
  <1>2. /\ N % N = 0 /\ (2 * N) % N = 0
        /\ \A k \in 1..(N - 1) : k % N = k /\ (N + k) % N = k
    BY <1>1
  <1>3. \A item, version : item \notin DOMAIN documents =>
          /\ SharedOf(item) = NoLayout
          /\ FinalExact(item, version) = NoLayout
          /\ FinalAtMost(item, version) = NoLayout
    BY DEF SharedOf, FinalExact, FinalAtMost, ExistingVersions
  <1>4. \A item : item \in DOMAIN documents => SharedOf(item) = documents[item].shared
    BY DEF SharedOf
  <1> DEFINE At(rank, own, item) ==
               IF item \notin DOMAIN documents THEN NoLayout
               ELSE IF rank <= N THEN documents[item].shared
               ELSE IF own THEN FinalExact(item, VersionOf(requested))
               ELSE FinalAtMost(item, VersionOf(requested))
  <1>5. \A rank : Ranked(rank) =
          At(rank, rank % N = 0, IF rank % N = 0 THEN Page ELSE defs[chain[N - (rank % N)]].standard)
    BY Zenon DEF Ranked
  <1>6. Ranked(N) = SharedOf(Page)
    <2>1. Ranked(N) = At(N, TRUE, Page) /\ N <= N
      BY <1>5, <1>1, <1>2
    <2>2. QED
      BY <1>3, <1>4, <2>1
  <1>7. Ranked(2 * N) = FinalExact(Page, VersionOf(requested))
    <2> DEFINE rank == 2 * N
    <2>1. rank % N = 0
      BY <1>2
    <2>2. ~(rank <= N)
      BY <1>1
    <2> HIDE DEF rank, At
    <2>3. Ranked(rank) = At(rank, TRUE, Page)
      BY <1>5, <2>1
    <2>4. Ranked(rank) = FinalExact(Page, VersionOf(requested))
      BY <1>3, <2>2, <2>3 DEF At
    <2>5. QED
      BY <2>4 DEF rank
  <1>8. ASSUME NEW k \in 1..(N - 1)
        PROVE  /\ Ranked(k) = SharedOf(defs[chain[N - k]].standard)
               /\ Ranked(N + k) = FinalAtMost(defs[chain[N - k]].standard, VersionOf(requested))
    <2>1. k # 0 /\ k <= N /\ ~(N + k <= N)
      BY <1>1
    <2>2. k % N = k /\ (N + k) % N = k
      BY <1>2
    <2>3. Ranked(k) = SharedOf(defs[chain[N - k]].standard)
      BY <1>3, <1>4, <2>1, <2>2 DEF Ranked
    <2>4. Ranked(N + k) = FinalAtMost(defs[chain[N - k]].standard, VersionOf(requested))
      BY <1>3, <2>1, <2>2 DEF Ranked
    <2>5. QED
      BY <2>3, <2>4
  <1>9. QED
    BY <1>1, <1>6, <1>7, <1>8

(* n of N - 1 ranks, and the last, twice: q says where they are.           *)
Twice(n, N, q, thin, full, void) ==
  /\ n \in Nat /\ N \in Nat /\ N > 0 /\ q \in [1..n -> 1..(N - 1)]
  /\ \A i, j \in 1..n : i < j => q[i] < q[j]
  /\ DOMAIN thin = 1..(2 * n + 2) /\ DOMAIN full = 1..(2 * N)
  /\ \A i \in 1..n : thin[i] = full[q[i]] /\ thin[n + 1 + i] = full[N + q[i]]
  /\ thin[n + 1] = full[N] /\ thin[2 * n + 2] = full[2 * N]
  /\ \A k \in 1..(N - 1) : full[k] # void \/ full[N + k] # void => \E i \in 1..n : q[i] = k

(* So they are all that is left of twice N.                                *)
LEMMA RowThin ==
  ASSUME NEW n, NEW N, NEW q, NEW thin, NEW full, NEW void, Twice(n, N, q, thin, full, void)
  PROVE  \E f : Thinned(thin, full, void, f)
  <1> DEFINE f == [i \in 1..(2 * n + 2) |->
                     IF i <= n THEN q[i]
                     ELSE IF i = n + 1 THEN N
                     ELSE IF i <= 2 * n + 1 THEN N + q[i - (n + 1)]
                     ELSE 2 * N]
  <1> USE DEF Twice
  <1>1. \A i \in 1..n : i \in 1..(2 * n + 2) /\ n + 1 + i \in 1..(2 * n + 2) /\ q[i] \in 1..(N - 1)
    OBVIOUS
  <1>2. n + 1 \in 1..(2 * n + 2) /\ 2 * n + 2 \in 1..(2 * n + 2)
    OBVIOUS
  <1>3. /\ \A i \in 1..n : f[i] = q[i] /\ f[n + 1 + i] = N + q[i]
        /\ f[n + 1] = N /\ f[2 * n + 2] = 2 * N
    <2>1. ASSUME NEW i \in 1..n PROVE f[i] = q[i] /\ f[n + 1 + i] = N + q[i]
      <3>1. f[i] = q[i]
        BY <1>1
      <3>2. f[n + 1 + i] = N + q[(n + 1 + i) - (n + 1)]
        BY <1>1
      <3>3. (n + 1 + i) - (n + 1) = i
        OBVIOUS
      <3> HIDE DEF f
      <3>4. QED
        BY <3>1, <3>2, <3>3
    <2>2. QED
      BY <1>2, <2>1
  <1>4. DOMAIN f = 1..(2 * n + 2)
    OBVIOUS
  <1>5. f = [i \in 1..(2 * n + 2) |-> f[i]]
    OBVIOUS
  <1> HIDE DEF f
  <1>6. ASSUME NEW i \in 1..(2 * n + 2)
        PROVE  \/ i \in 1..n
               \/ i = n + 1
               \/ \E k \in 1..n : i = n + 1 + k
               \/ i = 2 * n + 2
    <2>1. CASE i > n + 1 /\ i < 2 * n + 2
      <3>1. i - (n + 1) \in 1..n /\ i = n + 1 + (i - (n + 1))
        BY <2>1
      <3>2. QED
        BY <3>1
    <2>2. QED
      BY <2>1
  <1>7. \A i \in 1..(2 * n + 2) : f[i] \in 1..(2 * N) /\ full[f[i]] = thin[i]
    <2>1. SUFFICES ASSUME NEW i \in 1..(2 * n + 2)
                   PROVE  f[i] \in 1..(2 * N) /\ full[f[i]] = thin[i]
      OBVIOUS
    <2>2. CASE i \in 1..n
      BY <1>1, <1>3, <2>2
    <2>3. CASE i = n + 1
      BY <1>3, <2>3
    <2>4. ASSUME NEW k \in 1..n, i = n + 1 + k
          PROVE  f[i] \in 1..(2 * N) /\ full[f[i]] = thin[i]
      <3>1. f[i] = N + q[k] /\ q[k] \in 1..(N - 1) /\ thin[i] = full[N + q[k]]
        BY <1>1, <1>3, <2>4
      <3>2. QED
        BY <3>1
    <2>5. CASE i = 2 * n + 2
      BY <1>3, <2>5
    <2>6. QED
      BY <1>6, <2>2, <2>3, <2>4, <2>5
  <1>8. \A i, j \in 1..(2 * n + 2) : i < j => f[i] < f[j]
    <2>1. SUFFICES ASSUME NEW i \in 1..(2 * n + 2), NEW j \in 1..(2 * n + 2), i < j
                   PROVE  f[i] < f[j]
      OBVIOUS
    <2>2. CASE i \in 1..n
      <3>1. f[i] = q[i] /\ q[i] \in 1..(N - 1)
        BY <1>1, <1>3, <2>2
      <3>2. CASE j \in 1..n
        BY <1>3, <2>1, <2>2, <3>1, <3>2
      <3>3. CASE j = n + 1
        BY <1>3, <3>1, <3>3
      <3>4. ASSUME NEW k \in 1..n, j = n + 1 + k PROVE f[i] < f[j]
        <4>1. f[j] = N + q[k] /\ q[k] \in 1..(N - 1)
          BY <1>1, <1>3, <3>4
        <4>2. QED
          BY <3>1, <4>1
      <3>5. CASE j = 2 * n + 2
        BY <1>3, <3>1, <3>5
      <3>6. QED
        BY <1>6, <3>2, <3>3, <3>4, <3>5
    <2>3. CASE i = n + 1
      <3>1. f[i] = N /\ j \notin 1..n /\ j # n + 1
        BY <1>3, <2>1, <2>3
      <3>2. ASSUME NEW k \in 1..n, j = n + 1 + k PROVE f[i] < f[j]
        <4>1. f[j] = N + q[k] /\ q[k] \in 1..(N - 1)
          BY <1>1, <1>3, <3>2
        <4>2. QED
          BY <3>1, <4>1
      <3>3. CASE j = 2 * n + 2
        BY <1>3, <3>1, <3>3
      <3>4. QED
        BY <1>6, <3>1, <3>2, <3>3
    <2>4. ASSUME NEW k \in 1..n, i = n + 1 + k PROVE f[i] < f[j]
      <3>1. f[i] = N + q[k] /\ q[k] \in 1..(N - 1) /\ j \notin 1..n /\ j # n + 1
        BY <1>1, <1>3, <2>1, <2>4
      <3>2. ASSUME NEW m \in 1..n, j = n + 1 + m PROVE f[i] < f[j]
        <4>1. k < m
          BY <2>1, <2>4, <3>2
        <4>2. q[k] < q[m] /\ f[j] = N + q[m] /\ q[m] \in 1..(N - 1)
          BY <1>1, <1>3, <3>2, <4>1
        <4>3. QED
          BY <3>1, <4>2
      <3>3. CASE j = 2 * n + 2
        BY <1>3, <3>1, <3>3
      <3>4. QED
        BY <1>6, <3>1, <3>2, <3>3
    <2>5. i # 2 * n + 2
      BY <2>1
    <2>6. QED
      BY <1>6, <2>2, <2>3, <2>4, <2>5
  <1>9. \A j \in 1..(2 * N) : full[j] # void => \E i \in 1..(2 * n + 2) : f[i] = j
    <2>1. SUFFICES ASSUME NEW j \in 1..(2 * N), full[j] # void
                   PROVE  \E i \in 1..(2 * n + 2) : f[i] = j
      OBVIOUS
    <2>2. CASE j \in 1..(N - 1)
      <3>1. PICK i \in 1..n : q[i] = j
        BY <2>1, <2>2
      <3>2. QED
        BY <1>1, <1>3, <3>1
    <2>3. CASE j = N
      BY <1>2, <1>3, <2>3
    <2>4. CASE j > N /\ j < 2 * N
      <3>1. j - N \in 1..(N - 1) /\ j = N + (j - N)
        BY <2>4
      <3>2. PICK i \in 1..n : q[i] = j - N
        BY <2>1, <3>1
      <3>3. f[n + 1 + i] = j
        BY <1>3, <3>1, <3>2
      <3>4. QED
        BY <1>1, <3>3
    <2>5. CASE j = 2 * N
      BY <1>2, <1>3, <2>5
    <2>6. QED
      BY <2>2, <2>3, <2>4, <2>5
  <1>10. f \in [1..(2 * n + 2) -> 1..(2 * N)]
    BY <1>5, <1>7
  <1>11. Thinned(thin, full, void, f)
    BY <1>7, <1>8, <1>9, <1>10 DEF Thinned
  <1>12. QED
    BY <1>11

(* collect_layers leaves out only ranks where nothing is said, and keeps   *)
(* the others in order: the chain from its last template to its first and  *)
(* then the page, first what is shared.                                    *)
LEMMA RankedThin ==
  ASSUME IInv, TypeOK
  PROVE  \E f : Thinned(ValuesOf(Collected), [rank \in Ranks |-> Ranked(rank)], NoLayout, f)
  <1> DEFINE version == VersionOf(requested)
             R    == Entries(LayoutValues)
             s    == StdValuesChain
             std  == Reverse(s)
             n    == Len(std)
             a    == [i \in 1..n |-> Layer("shared", std[i], SharedOf(std[i]))]
             b    == [i \in 1..n |-> Layer("final", std[i], FinalAtMost(std[i], version))]
             x    == Layer("shared", Page, SharedOf(Page))
             y    == Layer("final", Page, FinalExact(Page, version))
             all  == a \o <<x>> \o b \o <<y>>
             thin == ValuesOf(all)
             full == [rank \in Ranks |-> Ranked(rank)]
             from == [j \in 1..Len(chain) |-> defs[chain[j]].standard]
             N    == Len(chain) + 1
  <1>1. /\ N \in Nat /\ N > 0 /\ Ranks = 1..(2 * N)
        /\ Ranked(N) = SharedOf(Page) /\ Ranked(2 * N) = FinalExact(Page, version)
        /\ \A k \in 1..(N - 1) :
             /\ Ranked(k) = SharedOf(defs[chain[N - k]].standard)
             /\ Ranked(N + k) = FinalAtMost(defs[chain[N - k]].standard, version)
    <2> HIDE DEF N, version
    <2>1. N = Len(chain) + 1
      BY DEF N
    <2>2. QED
      BY <2>1, RankedIs DEF version
  <1>2. Collected = FoldLeft(AddLayer, <<>>, all)
    BY Zenon DEF Collected, LayersAt
  <1>3. PICK h : Thinned(s, from, None, h)
    BY StandardsThin
  <1>4. /\ s \in Seq(Holders) /\ n \in Nat /\ Len(s) = n /\ DOMAIN s = 1..n
        /\ \A i \in 1..n : std[i] \in Holders /\ n + 1 - i \in 1..n /\ std[i] = s[n + 1 - i]
    <2>1. s \in Seq(Holders)
      BY StandardsAre
    <2> HIDE DEF s
    <2>2. QED
      BY <2>1 DEF Reverse
  <1>5. /\ DOMAIN from = 1..(N - 1)
        /\ \A j \in 1..(N - 1) : from[j] = defs[chain[j]].standard
    <2>1. Len(chain) = N - 1
      <3>1. Len(chain) \in Nat
        BY DEF IInv, WalkTypeOK
      <3>2. QED
        BY <3>1
    <2> HIDE DEF N
    <2>2. QED
      BY <2>1
  <1> HIDE DEF N, version, s, std, n, from
  <1>6. /\ \A i \in 1..n : h[i] \in 1..(N - 1) /\ defs[chain[h[i]]].standard = s[i]
        /\ \A i, j \in 1..n : i < j => h[i] < h[j]
        /\ \A j \in 1..(N - 1) : defs[chain[j]].standard # None => \E i \in 1..n : h[i] = j
    BY <1>3, <1>4, <1>5 DEF Thinned
  <1> DEFINE q == [i \in 1..n |-> N - h[n + 1 - i]]
  <1>7. \A i \in 1..n : q[i] = N - h[n + 1 - i] /\ h[n + 1 - i] \in 1..(N - 1)
    BY <1>4, <1>6
  <1>8. \A i \in 1..n : q[i] \in 1..(N - 1) /\ N - q[i] = h[n + 1 - i]
    <2> HIDE DEF q
    <2>1. QED
      BY <1>1, <1>7
  <1>9. q \in [1..n -> 1..(N - 1)]
    BY <1>8
  <1> HIDE DEF q
  <1>10. \A i, j \in 1..n : i < j => q[i] < q[j]
    <2>1. SUFFICES ASSUME NEW i \in 1..n, NEW j \in 1..n, i < j PROVE q[i] < q[j]
      OBVIOUS
    <2>2. n + 1 - i \in 1..n /\ n + 1 - j \in 1..n /\ n + 1 - j < n + 1 - i
      BY <1>4, <2>1
    <2>3. h[n + 1 - j] < h[n + 1 - i]
      BY <1>6, <2>2
    <2>4. QED
      BY <1>1, <1>7, <2>3
  <1>11. \A i \in 1..n : defs[chain[N - q[i]]].standard = std[i]
    BY <1>4, <1>6, <1>8
  <1>12. \A k \in 1..(N - 1) : defs[chain[N - k]].standard # None => \E i \in 1..n : q[i] = k
    <2>1. SUFFICES ASSUME NEW k \in 1..(N - 1), defs[chain[N - k]].standard # None
                   PROVE  \E i \in 1..n : q[i] = k
      OBVIOUS
    <2>2. N - k \in 1..(N - 1) /\ N - (N - k) = k
      BY <1>1
    <2>3. PICK i \in 1..n : h[i] = N - k
      BY <1>6, <2>1, <2>2
    <2>4. n + 1 - i \in 1..n /\ n + 1 - (n + 1 - i) = i
      BY <1>4
    <2>5. q[n + 1 - i] = k
      BY <1>7, <2>2, <2>3, <2>4
    <2>6. QED
      BY <2>4, <2>5
  <1>13. SharedOf(None) = NoLayout /\ FinalAtMost(None, version) = NoLayout
    <2>1. None \notin DOMAIN documents
      BY PagesAssumption DEF TypeOK
    <2>2. QED
      BY <2>1 DEF SharedOf, FinalAtMost, ExistingVersions
  <1>14. /\ a \in Seq(R) /\ Len(a) = n /\ b \in Seq(R) /\ Len(b) = n /\ x \in R /\ y \in R
         /\ \A i \in 1..n : a[i].value = SharedOf(std[i]) /\ b[i].value = FinalAtMost(std[i], version)
         /\ x.value = SharedOf(Page) /\ y.value = FinalExact(Page, version)
    <2>1. DocumentsIn(LayoutValues)
      BY VersionIs
    <2>2. \A kind \in {"shared", "final"}, item \in Holders \cup {Page}, value \in LayoutValues :
            Layer(kind, item, value) \in R /\ Layer(kind, item, value).value = value
      BY DEF Layer, Entries
    <2>3. \A item : /\ SharedOf(item) \in LayoutValues
                    /\ FinalAtMost(item, version) \in LayoutValues
                    /\ FinalExact(item, version) \in LayoutValues
      BY <2>1, ValuesAre
    <2>4. /\ x \in R /\ x.value = SharedOf(Page)
          /\ y \in R /\ y.value = FinalExact(Page, version)
      BY <2>2, <2>3
    <2>5. \A i \in 1..n :
            /\ Layer("shared", std[i], SharedOf(std[i])) \in R
            /\ Layer("shared", std[i], SharedOf(std[i])).value = SharedOf(std[i])
            /\ Layer("final", std[i], FinalAtMost(std[i], version)) \in R
            /\ Layer("final", std[i], FinalAtMost(std[i], version)).value = FinalAtMost(std[i], version)
      BY <1>4, <2>2, <2>3
    <2> HIDE DEF R, x, y
    <2>6. /\ a \in Seq(R) /\ Len(a) = n
          /\ \A i \in 1..n : a[i].value = SharedOf(std[i])
      BY <1>4, <2>5
    <2>7. /\ b \in Seq(R) /\ Len(b) = n
          /\ \A i \in 1..n : b[i].value = FinalAtMost(std[i], version)
      BY <1>4, <2>5
    <2>8. QED
      BY <2>4, <2>6, <2>7
  <1> HIDE DEF a, b, x, y, R
  <1>15. /\ all \in Seq(R) /\ Len(all) = 2 * n + 2
         /\ \A i \in 1..n : all[i] = a[i] /\ all[n + 1 + i] = b[i]
         /\ all[n + 1] = x /\ all[2 * n + 2] = y
    <2>1. RowOf(all, R, n, a, x, b, y)
      BY <1>4, <1>14, InARow, Zenon
    <2>2. QED
      BY <2>1, Zenon DEF RowOf
  <1> HIDE DEF all
  <1>16. /\ DOMAIN thin = 1..(2 * n + 2)
         /\ \A i \in 1..n : /\ thin[i] = SharedOf(std[i])
                            /\ thin[n + 1 + i] = FinalAtMost(std[i], version)
         /\ thin[n + 1] = SharedOf(Page) /\ thin[2 * n + 2] = FinalExact(Page, version)
    <2>1. DOMAIN thin = 1..(2 * n + 2) /\ \A i \in 1..(2 * n + 2) : thin[i] = all[i].value
      BY <1>15 DEF ValuesOf
    <2>2. /\ n + 1 \in 1..(2 * n + 2) /\ 2 * n + 2 \in 1..(2 * n + 2)
          /\ \A i \in 1..n : i \in 1..(2 * n + 2) /\ n + 1 + i \in 1..(2 * n + 2)
      BY <1>4
    <2> HIDE DEF thin
    <2>3. QED
      BY <1>14, <1>15, <2>1, <2>2
  <1>17. /\ DOMAIN full = 1..(2 * N) /\ full[N] = SharedOf(Page) /\ full[2 * N] = FinalExact(Page, version)
         /\ \A k \in 1..(N - 1) :
              /\ full[k] = SharedOf(defs[chain[N - k]].standard)
              /\ full[N + k] = FinalAtMost(defs[chain[N - k]].standard, version)
    <2>1. DOMAIN full = 1..(2 * N) /\ \A k \in 1..(2 * N) : full[k] = Ranked(k)
      BY <1>1
    <2>2. /\ N \in 1..(2 * N) /\ 2 * N \in 1..(2 * N)
          /\ \A k \in 1..(N - 1) : k \in 1..(2 * N) /\ N + k \in 1..(2 * N)
      BY <1>1
    <2> HIDE DEF full
    <2>3. QED
      BY <1>1, <2>1, <2>2
  <1> HIDE DEF thin, full
  <1>18. \A i \in 1..n : thin[i] = full[q[i]] /\ thin[n + 1 + i] = full[N + q[i]]
    BY <1>8, <1>11, <1>16, <1>17
  <1>19. \A k \in 1..(N - 1) :
           full[k] # NoLayout \/ full[N + k] # NoLayout => \E i \in 1..n : q[i] = k
    BY <1>12, <1>13, <1>17
  <1>20. \E f : Thinned(thin, full, NoLayout, f)
    <2>1. thin[n + 1] = full[N] /\ thin[2 * n + 2] = full[2 * N]
      BY <1>16, <1>17
    <2>2. Twice(n, N, q, thin, full, NoLayout)
      BY <1>1, <1>4, <1>9, <1>10, <1>16, <1>17, <1>18, <1>19, <2>1, Zenon DEF Twice
    <2>3. QED
      BY <2>2, RowThin
  <1>21. \E f : Thinned(ValuesOf(Collected), thin, NoLayout, f)
    <2>1. all \in Seq(Entries(LayoutValues))
      BY <1>15 DEF R
    <2>2. QED
      BY <1>2, <2>1, LayersThin DEF thin
  <1>22. QED
    BY <1>20, <1>21, ThinnedTwice DEF full

(* The nearest layer wins, whatever the chain, the documents and the       *)
(* layouts are, as long as no layout names a device twice: a device of a   *)
(* resolved page is what the standard values of the chain and the page say *)
(* of it, each by its rank (std_values_chain, collect_layers, apply_delta, *)
(* patch_device).                                                          *)
THEOREM NearestWins ==
  ASSUME DevicesOnce
  PROVE  Spec => []NearestLayerWins
  <1>1. Init => OnceInv /\ DevicesInv /\ VerdictInv /\ NearestInv
    <2>1. Init => DevicesInv /\ NearestInv
      BY DEF Init, DevicesInv, NearestInv
    <2>2. QED
      BY <2>1, OnceInitially, VerdictInitially
  <1>2. MergeInv /\ OnceInv /\ [Next]_vars => OnceInv'
    BY OnceStep
  <1>3. MergeInv /\ MergeInv' /\ OnceInv /\ OnceInv' /\ DevicesInv /\ NearestInv /\ [Next]_vars
          => NearestInv'
    BY NearestStep
  <1>4. MergeInv /\ OnceInv /\ VerdictInv /\ NearestInv => NearestLayerWins
    <2>1. SUFFICES ASSUME MergeInv, OnceInv, VerdictInv, NearestInv, Resolved, merged # NoLayout,
                          NEW d \in Range(merged)
                   PROVE  Nearest([rank \in Ranks |-> Ranked(rank)], d)
      BY DEF NearestLayerWins
    <2> DEFINE thin == ValuesOf(layers)
               full == [rank \in Ranks |-> Ranked(rank)]
               S    == {Ranked(rank) : rank \in Ranks}
    <2>2. applied > 0 /\ applied \in Nat /\ applied = Len(layers)
      BY <2>1 DEF MergeInv, TypeOK, Resolved
    <2>3. Taken = thin
      BY <2>2 DEF Taken, ValuesOf
    <2>4. Tower(thin)
      <3>1. \A i \in 1..applied : layers[i].value \in Layouts /\ OnceEach(layers[i].value)
        <4>1. \A i \in 1..applied : i \in DOMAIN layers
          BY <2>1, <2>2 DEF MergeInv, TypeOK
        <4>2. QED
          BY <2>1, <4>1 DEF MergeInv, OnceInv
      <3>2. Tower([i \in 1..applied |-> layers[i].value])
        BY <2>2, <3>1, TakenIs
      <3>3. QED
        BY <2>2, <3>2 DEF ValuesOf
    <2>5. Gathered(thin, d)
      BY <2>1, <2>2, <2>3 DEF NearestInv
    <2>6. PICK f : Thinned(thin, full, NoLayout, f)
      <3>1. layers = Collected
        BY <2>1 DEF VerdictInv, Resolved
      <3>2. QED
        BY <2>1, <3>1, RankedThin DEF MergeInv
    <2>7. full \in Seq(S)
      <3>1. Len(chain) \in Nat
        BY <2>1 DEF MergeInv, IInv, WalkTypeOK
      <3> DEFINE top == 2 * (Len(chain) + 1)
      <3>2. top \in Nat /\ Ranks = 1..top
        BY <3>1 DEF Ranks
      <3>3. \A rank \in Ranks : Ranked(rank) \in S
        OBVIOUS
      <3> HIDE DEF top, S
      <3>4. QED
        BY <3>2, <3>3
    <2> HIDE DEF thin, full, S
    <2>8. Nearest(full, d)
      BY <2>4, <2>5, <2>6, <2>7, ThinIsEnough
    <2>9. QED
      BY <2>8 DEF full
  <1>5. QED
    BY <1>1, <1>2, <1>3, <1>4, MergeInvariance, DevicesStep, VerdictStep, PTL DEF Spec
=============================================================================
