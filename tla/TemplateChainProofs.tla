------------------------ MODULE TemplateChainProofs ------------------------
(***************************************************************************)
(* The walk over base templates, for every template index.                 *)
(***************************************************************************)
EXTENDS TemplateChain, FoldProofs, TLAPS

-----------------------------------------------------------------------------
(* Ranges of sequences.                                                    *)
LEMMA RangeOfAppend ==
  ASSUME NEW S, NEW s \in Seq(S), NEW e
  PROVE  Range(Append(s, e)) = Range(s) \cup {e}
  <1>1. /\ DOMAIN s = 1..Len(s) /\ Len(s) \in Nat
        /\ DOMAIN Append(s, e) = 1..(Len(s) + 1)
        /\ Append(s, e)[Len(s) + 1] = e
        /\ \A i \in 1..Len(s) : Append(s, e)[i] = s[i]
    OBVIOUS
  <1>2. ASSUME NEW x \in Range(Append(s, e)) PROVE x \in Range(s) \cup {e}
    BY <1>1, <1>2 DEF Range
  <1>3. ASSUME NEW x \in Range(s) \cup {e} PROVE x \in Range(Append(s, e))
    <2>1. CASE x \in Range(s)
      BY <1>1, <2>1 DEF Range
    <2>2. CASE x = e
      <3>1. Len(s) + 1 \in DOMAIN Append(s, e)
        BY <1>1
      <3>2. QED
        BY <1>1, <2>2, <3>1 DEF Range
    <2>3. QED
      BY <1>3, <2>1, <2>2
  <1>4. QED
    BY <1>2, <1>3

LEMMA RangeOfBoth ==
  ASSUME NEW S, NEW s \in Seq(S), NEW t \in Seq(S)
  PROVE  Range(s \o t) = Range(s) \cup Range(t)
  <1>1. /\ DOMAIN s = 1..Len(s) /\ Len(s) \in Nat
        /\ DOMAIN t = 1..Len(t) /\ Len(t) \in Nat
        /\ DOMAIN (s \o t) = 1..(Len(s) + Len(t))
        /\ \A i \in 1..(Len(s) + Len(t)) :
             (s \o t)[i] = IF i <= Len(s) THEN s[i] ELSE t[i - Len(s)]
    OBVIOUS
  <1>2. ASSUME NEW i \in DOMAIN (s \o t) PROVE (s \o t)[i] \in Range(s) \cup Range(t)
    <2>1. CASE i <= Len(s)
      <3>1. i \in DOMAIN s
        BY <1>1, <2>1
      <3>2. QED
        BY <1>1, <2>1, <3>1 DEF Range
    <2>2. CASE ~(i <= Len(s))
      <3>1. i - Len(s) \in DOMAIN t
        BY <1>1, <2>2
      <3>2. QED
        BY <1>1, <2>2, <3>1 DEF Range
    <2>3. QED
      BY <2>1, <2>2
  <1>3. ASSUME NEW i \in DOMAIN s PROVE s[i] \in Range(s \o t)
    <2>1. i \in DOMAIN (s \o t) /\ (s \o t)[i] = s[i]
      BY <1>1
    <2>2. QED
      BY <2>1 DEF Range
  <1>4. ASSUME NEW i \in DOMAIN t PROVE t[i] \in Range(s \o t)
    <2>1. i + Len(s) \in DOMAIN (s \o t) /\ (s \o t)[i + Len(s)] = t[i]
      BY <1>1
    <2>2. QED
      BY <2>1 DEF Range
  <1>5. QED
    BY <1>2, <1>3, <1>4 DEF Range

LEMMA RangeHeadTail ==
  ASSUME NEW S, NEW s \in Seq(S), s # <<>>
  PROVE  /\ Head(s) \in S /\ Tail(s) \in Seq(S)
         /\ Len(Tail(s)) = Len(s) - 1 /\ Len(s) \in Nat
         /\ Range(s) = {Head(s)} \cup Range(Tail(s))
  <1>1. /\ DOMAIN s = 1..Len(s) /\ Len(s) \in Nat /\ Len(s) >= 1
        /\ Head(s) = s[1] /\ Head(s) \in S
        /\ Tail(s) \in Seq(S) /\ Len(Tail(s)) = Len(s) - 1
        /\ DOMAIN Tail(s) = 1..(Len(s) - 1)
        /\ \A i \in 1..(Len(s) - 1) : Tail(s)[i] = s[i + 1]
    OBVIOUS
  <1>2. ASSUME NEW i \in DOMAIN s PROVE s[i] \in {Head(s)} \cup Range(Tail(s))
    <2>1. CASE i = 1
      BY <1>1, <2>1
    <2>2. CASE i # 1
      <3>1. i - 1 \in DOMAIN Tail(s) /\ Tail(s)[i - 1] = s[i]
        BY <1>1, <2>2
      <3>2. QED
        BY <3>1 DEF Range
    <2>3. QED
      BY <2>1, <2>2
  <1>3. ASSUME NEW i \in DOMAIN Tail(s) PROVE Tail(s)[i] \in Range(s)
    <2>1. i + 1 \in DOMAIN s /\ Tail(s)[i] = s[i + 1]
      BY <1>1
    <2>2. QED
      BY <2>1 DEF Range
  <1>4. Head(s) \in Range(s)
    <2>1. 1 \in DOMAIN s
      BY <1>1
    <2>2. QED
      BY <1>1, <2>1 DEF Range
  <1>5. QED
    BY <1>1, <1>2, <1>3, <1>4 DEF Range

LEMMA AppendKeepsInjective ==
  ASSUME NEW S, NEW s \in Seq(S), NEW e, IsInjective(s), e \notin Range(s)
  PROVE  IsInjective(Append(s, e))
  <1>1. \A i \in 1..Len(s) : s[i] # e
    BY DEF Range
  <1>2. QED
    BY <1>1 DEF IsInjective

-----------------------------------------------------------------------------
(* What holds while the walk is under way: every base of a template in the *)
(* chain has been met or is still to be looked at, and nothing was met     *)
(* that does not have to be in the chain.                                  *)
Underway ==
  /\ template \in Known => template \in Range(chain) \cup Range(pending)
  /\ \A t \in Range(chain) : Bases(t) \subseteq visited \cup Range(pending)
  /\ \A S \in SUBSET Known :
       template \in S /\ ClosedUnderBases(S) =>
         Range(chain) \subseteq S /\ Range(pending) \cap Known \subseteq S

(* An unknown base is named by a template of the chain.                    *)
Named ==
  /\ Range(unresolved) \subseteq UNION {Bases(t) : t \in Range(chain)}
  /\ \A b \in Range(pending) :
       b \in UNION {Bases(t) : t \in Range(chain)} \/ (b = template /\ template \in Known)

IInv == WalkTypeOK /\ NoRepetition /\ Underway /\ Named

LEMMA InitHolds == WalkInit => IInv
  <1> SUFFICES ASSUME WalkInit PROVE IInv
    OBVIOUS
  <1>1. WalkTypeOK
    BY IndexesAssumption DEF WalkInit, WalkTypeOK, Known, Range
  <1>2. NoRepetition
    BY DEF WalkInit, NoRepetition, IsInjective
  <1>3. Range(pending) = IF template \in Known THEN {template} ELSE {}
    BY DEF WalkInit, Range
  <1>4. Range(chain) = {} /\ Range(unresolved) = {}
    BY DEF WalkInit, Range
  <1>5. QED
    BY <1>1, <1>2, <1>3, <1>4 DEF IInv, Underway, Named

LEMMA EnterStep == IInv /\ EnterTemplate => IInv'
  <1> SUFFICES ASSUME IInv, EnterTemplate PROVE IInv'
    OBVIOUS
  <1> DEFINE b == Head(pending)
  <1>1. /\ b \in Known /\ b \notin visited /\ visited' = visited \cup {b}
        /\ chain' = Append(chain, b) /\ pending' = defs[b].bases \o Tail(pending)
        /\ unresolved' = unresolved /\ defs' = defs /\ template' = template
        /\ pending # <<>> /\ Known' = Known
    BY DEF EnterTemplate, Visit, Known
  <1>2. WalkTypeOK /\ NoRepetition /\ Underway /\ Named
    BY DEF IInv
  <1>3. /\ Tail(pending) \in Seq(Guids) /\ Range(pending) = {b} \cup Range(Tail(pending))
        /\ defs[b].bases \in Seq(Guids)
    BY <1>1, <1>2, RangeHeadTail DEF WalkTypeOK, Definitions
  <1>4. Range(pending') = Bases(b) \cup Range(Tail(pending))
    <2>1. Range(defs[b].bases \o Tail(pending)) = Range(defs[b].bases) \cup Range(Tail(pending))
      <3>1. defs[b].bases \in Seq(Guids) /\ Tail(pending) \in Seq(Guids)
        BY <1>3
      <3>2. QED
        BY ONLY <3>1, RangeOfBoth
    <2>2. QED
      BY <1>1, <2>1 DEF Bases
  <1>5. Range(chain') = Range(chain) \cup {b}
    BY <1>1, <1>2, RangeOfAppend DEF WalkTypeOK
  <1>6. \A t : Bases(t)' = Bases(t)
    BY <1>1 DEF Bases
  <1>7. WalkTypeOK'
    <2>1. pending' \in Seq(Guids)
      BY <1>1, <1>3
    <2>2. visited' = Range(chain') \cup Range(unresolved')
      BY <1>1, <1>2, <1>5 DEF WalkTypeOK
    <2>3. chain \in Seq(Known)
      BY <1>2 DEF WalkTypeOK
    <2>4. Append(chain, b) \in Seq(Known)
      BY <1>1, <2>3
    <2>5. QED
      BY <1>1, <1>2, <2>1, <2>2, <2>4 DEF WalkTypeOK
  <1>8. NoRepetition'
    <2>1. b \notin Range(chain) /\ chain \in Seq(Known)
      BY <1>1, <1>2 DEF WalkTypeOK
    <2>2. IsInjective(chain) /\ IsInjective(unresolved)
      BY <1>2 DEF NoRepetition
    <2>3. IsInjective(Append(chain, b))
      BY <2>1, <2>2, AppendKeepsInjective
    <2>4. QED
      BY <1>1, <2>2, <2>3 DEF NoRepetition
  <1>9. Underway'
    <2>1. \A t \in Range(chain') : Bases(t) \subseteq visited' \cup Range(pending')
      BY <1>1, <1>2, <1>3, <1>4, <1>5 DEF Underway
    <2>2. ASSUME NEW S \in SUBSET Known, template \in S, ClosedUnderBases(S)
          PROVE  Range(chain') \subseteq S /\ Range(pending') \cap Known \subseteq S
      <3>1. b \in S /\ Range(chain) \subseteq S /\ Range(pending) \cap Known \subseteq S
        BY <1>1, <1>2, <1>3, <2>2 DEF Underway
      <3>2. Bases(b) \cap Known \subseteq S
        BY <2>2, <3>1 DEF ClosedUnderBases
      <3>3. QED
        BY <1>3, <1>4, <1>5, <3>1, <3>2
    <2>3. template \in Known => template \in Range(chain') \cup Range(pending')
      BY <1>2, <1>3, <1>4, <1>5 DEF Underway
    <2>4. \A S : ClosedUnderBases(S)' <=> ClosedUnderBases(S)
      BY <1>1, <1>6 DEF ClosedUnderBases
    <2>5. QED
      BY <1>1, <1>6, <2>1, <2>2, <2>3, <2>4 DEF Underway
  <1>10. Named'
    BY <1>1, <1>2, <1>3, <1>4, <1>5, <1>6 DEF Named
  <1>11. QED
    BY <1>7, <1>8, <1>9, <1>10 DEF IInv

LEMMA NoteStep == IInv /\ NoteUnresolved => IInv'
  <1> SUFFICES ASSUME IInv, NoteUnresolved PROVE IInv'
    OBVIOUS
  <1> DEFINE b == Head(pending)
  <1>1. /\ b \notin Known /\ b \notin visited /\ visited' = visited \cup {b}
        /\ unresolved' = Append(unresolved, b) /\ pending' = Tail(pending)
        /\ chain' = chain /\ defs' = defs /\ template' = template
        /\ pending # <<>> /\ Known' = Known
    BY DEF NoteUnresolved, Visit, Known
  <1>2. WalkTypeOK /\ NoRepetition /\ Underway /\ Named
    BY DEF IInv
  <1>3. /\ b \in Guids /\ Tail(pending) \in Seq(Guids)
        /\ Range(pending) = {b} \cup Range(Tail(pending))
    BY <1>1, <1>2, RangeHeadTail DEF WalkTypeOK
  <1>4. unresolved \in Seq(Guids \ Known) /\ b \in Guids \ Known
    BY <1>1, <1>2, <1>3 DEF WalkTypeOK
  <1>5. Range(unresolved') = Range(unresolved) \cup {b}
    BY <1>1, <1>4, RangeOfAppend
  <1>6. /\ \A t : Bases(t)' = Bases(t)
        /\ \A S : ClosedUnderBases(S)' <=> ClosedUnderBases(S)
    BY <1>1 DEF Bases, ClosedUnderBases
  <1>7. WalkTypeOK'
    <2>1. Append(unresolved, b) \in Seq(Guids \ Known)
      BY <1>4
    <2>2. visited' = Range(chain') \cup Range(unresolved')
      BY <1>1, <1>2, <1>5 DEF WalkTypeOK
    <2>3. QED
      BY <1>1, <1>2, <1>3, <2>1, <2>2 DEF WalkTypeOK
  <1>8. NoRepetition'
    <2>1. b \notin Range(unresolved)
      BY <1>1, <1>2 DEF WalkTypeOK
    <2>2. IsInjective(chain) /\ IsInjective(unresolved)
      BY <1>2 DEF NoRepetition
    <2>3. IsInjective(Append(unresolved, b))
      BY <1>4, <2>1, <2>2, AppendKeepsInjective
    <2>4. QED
      BY <1>1, <2>2, <2>3 DEF NoRepetition
  <1>9. Underway'
    <2>1. template \in Known => template \in Range(chain) \cup Range(Tail(pending))
      BY <1>1, <1>2, <1>3 DEF Underway
    <2>2. \A t \in Range(chain) : Bases(t) \subseteq visited' \cup Range(Tail(pending))
      BY <1>1, <1>2, <1>3 DEF Underway
    <2>3. \A S \in SUBSET Known :
            template \in S /\ ClosedUnderBases(S) =>
              Range(chain) \subseteq S /\ Range(Tail(pending)) \cap Known \subseteq S
      BY <1>2, <1>3 DEF Underway
    <2>4. QED
      BY <1>1, <1>6, <2>1, <2>2, <2>3 DEF Underway
  <1>10. Named'
    <2>1. b \in UNION {Bases(t) : t \in Range(chain)}
      BY <1>1, <1>2, <1>3 DEF Named
    <2>2. QED
      BY <1>1, <1>2, <1>3, <1>5, <1>6, <2>1 DEF Named
  <1>11. QED
    BY <1>7, <1>8, <1>9, <1>10 DEF IInv

LEMMA SkipStep == IInv /\ SkipVisited => IInv'
  <1> SUFFICES ASSUME IInv, SkipVisited PROVE IInv'
    OBVIOUS
  <1> DEFINE b == Head(pending)
  <1>1. /\ b \in visited /\ pending # <<>> /\ pending' = Tail(pending)
        /\ visited' = visited /\ unresolved' = unresolved
        /\ chain' = chain /\ defs' = defs /\ template' = template
        /\ Known' = Known
    BY DEF SkipVisited, Known
  <1>2. WalkTypeOK /\ NoRepetition /\ Underway /\ Named
    BY DEF IInv
  <1>3. /\ Tail(pending) \in Seq(Guids)
        /\ Range(pending) = {b} \cup Range(Tail(pending))
    BY <1>1, <1>2, RangeHeadTail DEF WalkTypeOK
  <1>4. /\ \A t : Bases(t)' = Bases(t)
        /\ \A S : ClosedUnderBases(S)' <=> ClosedUnderBases(S)
    BY <1>1 DEF Bases, ClosedUnderBases
  <1>5. b \in Known => b \in Range(chain)
    <2>1. Range(unresolved) \subseteq Guids \ Known
      BY <1>2 DEF WalkTypeOK, Range
    <2>2. QED
      BY <1>1, <1>2, <2>1 DEF WalkTypeOK
  <1>6. WalkTypeOK' /\ NoRepetition'
    BY <1>1, <1>2, <1>3 DEF WalkTypeOK, NoRepetition
  <1>7. Underway'
    <2>1. template \in Known => template \in Range(chain) \cup Range(Tail(pending))
      BY <1>2, <1>3, <1>5 DEF Underway
    <2>2. \A t \in Range(chain) : Bases(t) \subseteq visited \cup Range(Tail(pending))
      BY <1>1, <1>2, <1>3 DEF Underway
    <2>3. \A S \in SUBSET Known :
            template \in S /\ ClosedUnderBases(S) =>
              Range(chain) \subseteq S /\ Range(Tail(pending)) \cap Known \subseteq S
      BY <1>2, <1>3 DEF Underway
    <2>4. QED
      BY <1>1, <1>4, <2>1, <2>2, <2>3 DEF Underway
  <1>8. Named'
    BY <1>1, <1>2, <1>3, <1>4 DEF Named
  <1>9. QED
    BY <1>6, <1>7, <1>8 DEF IInv

LEMMA StutterStep == IInv /\ UNCHANGED walkVars => IInv'
  BY DEF IInv, walkVars, WalkTypeOK, NoRepetition, Underway, Named, Known, Bases,
         ClosedUnderBases

LEMMA Invariance == WalkSpec => []IInv
  <1>1. IInv /\ [WalkNext]_walkVars => IInv'
    BY EnterStep, NoteStep, SkipStep, StutterStep DEF WalkNext
  <1>2. QED
    BY InitHolds, <1>1, PTL DEF WalkSpec

-----------------------------------------------------------------------------
(* The variables of the walk keep their types, and visited is always what  *)
(* the chain and the unresolved list have together (template/lib.rs:188).  *)
THEOREM WalkTypeCorrect == WalkSpec => []WalkTypeOK
  BY Invariance, PTL DEF IInv

(* No template is entered twice and no unknown base is noted twice, on     *)
(* whatever base lists: the one set of walk_chain is enough of a guard.    *)
THEOREM NeverTwice == WalkSpec => []NoRepetition
  BY Invariance, PTL DEF IInv

(* When the walk is over the chain is the closure of the template under    *)
(* base lists, no more and no less, and exactly the unknown bases it names *)
(* are reported (resolve and walk_chain).                                  *)
THEOREM ChainIsComplete == WalkSpec => []ChainIsClosure
  <1>1. IInv => ChainIsClosure
    <2> SUFFICES ASSUME IInv, Walked, template \in Known
                 PROVE  /\ template \in Range(chain) /\ ClosedUnderBases(Range(chain))
                        /\ \A S \in SUBSET Known :
                             template \in S /\ ClosedUnderBases(S) => Range(chain) \subseteq S
                        /\ Range(unresolved) = (UNION {Bases(t) : t \in Range(chain)}) \ Known
      BY DEF ChainIsClosure
    <2>1. WalkTypeOK /\ Underway /\ Named
      BY DEF IInv
    <2>2. Range(pending) = {}
      BY DEF Walked, Range
    <2>3. Range(chain) \subseteq Known /\ Range(unresolved) \cap Known = {}
      BY <2>1 DEF WalkTypeOK, Range
    <2>4. \A t \in Range(chain) : Bases(t) \subseteq Range(chain) \cup Range(unresolved)
      BY <2>1, <2>2 DEF Underway, WalkTypeOK
    <2>5. template \in Range(chain) /\ ClosedUnderBases(Range(chain))
      BY <2>1, <2>2, <2>3, <2>4 DEF Underway, ClosedUnderBases
    <2>6. \A S \in SUBSET Known :
            template \in S /\ ClosedUnderBases(S) => Range(chain) \subseteq S
      BY <2>1 DEF Underway
    <2>7. Range(unresolved) = (UNION {Bases(t) : t \in Range(chain)}) \ Known
      <3>1. Range(unresolved) \subseteq UNION {Bases(t) : t \in Range(chain)}
        BY <2>1 DEF Named
      <3>2. ASSUME NEW b \in UNION {Bases(t) : t \in Range(chain)}, b \notin Known
            PROVE  b \in Range(unresolved)
        <4>1. PICK t \in Range(chain) : b \in Bases(t)
          BY <3>2
        <4>2. QED
          BY <2>3, <2>4, <3>2, <4>1
      <3>3. QED
        BY <2>3, <3>1, <3>2
    <2>8. QED
      BY <2>5, <2>6, <2>7
  <1>2. QED
    BY Invariance, <1>1, PTL

(* Each turn of the walk meets a new id or leaves less to look at, so base *)
(* templates that derive from each other cannot keep it busy.              *)
THEOREM WalkAlwaysProgresses == WalkSpec => WalkProgresses
  <1> DEFINE Progress == \/ visited \subseteq visited' /\ visited' # visited
                         \/ visited' = visited /\ Len(pending') < Len(pending)
  <1>1. Visit => Progress
    BY DEF Visit
  <1>2. IInv /\ SkipVisited => Progress
    BY RangeHeadTail DEF SkipVisited, IInv, WalkTypeOK
  <1>3. IInv /\ [WalkNext]_walkVars => [Progress]_<<pending, visited>>
    BY <1>1, <1>2 DEF WalkNext, EnterTemplate, NoteUnresolved, walkVars
  <1>4. QED
    BY Invariance, <1>3, PTL DEF WalkSpec, WalkProgresses

-----------------------------------------------------------------------------
(***************************************************************************)
(* The order of the chain.  The loops that are open list, of two bases of  *)
(* a template that was met, what is left of the list: what is pending was  *)
(* listed after what was met, below a template of the chain, or is below   *)
(* what was met (Ordered).  Two that are pending are always of the first   *)
(* kind (Listed).                                                          *)
(***************************************************************************)
Listed(x, y) ==
  \E t \in Range(chain) : \E k, m \in DOMAIN defs[t].bases :
    /\ k < m
    /\ {defs[t].bases[k], defs[t].bases[m]} \subseteq Known
    /\ x \in Lineage(defs[t].bases[k])
    /\ y \in Lineage(defs[t].bases[m])

Ordered(x, y) == y \in Lineage(x) \/ Listed(x, y)

Before(s, x, y) == \E i, j \in DOMAIN s : i < j /\ s[i] = x /\ s[j] = y

OrderInv ==
  \A x, y \in Known :
    /\ Before(chain, x, y) => Ordered(x, y)
    /\ x \in Range(chain) /\ y \in Range(pending) => Ordered(x, y)
    /\ Before(pending, x, y) => Listed(x, y)

(* What comes before what in sequences.                                    *)
LEMMA BeforeOfAppend ==
  ASSUME NEW S, NEW s \in Seq(S), NEW e, NEW x, NEW y, Before(Append(s, e), x, y)
  PROVE  Before(s, x, y) \/ (x \in Range(s) /\ y = e)
  <1>1. /\ Len(s) \in Nat /\ DOMAIN s = 1..Len(s) /\ DOMAIN Append(s, e) = 1..(Len(s) + 1)
        /\ Append(s, e)[Len(s) + 1] = e /\ \A i \in 1..Len(s) : Append(s, e)[i] = s[i]
    OBVIOUS
  <1>2. PICK i, j \in DOMAIN Append(s, e) :
           i < j /\ Append(s, e)[i] = x /\ Append(s, e)[j] = y
    BY DEF Before
  <1>3. i \in DOMAIN s /\ s[i] = x
    BY <1>1, <1>2
  <1>4. CASE j = Len(s) + 1
    BY <1>1, <1>2, <1>3, <1>4 DEF Range
  <1>5. CASE j # Len(s) + 1
    <2>1. j \in DOMAIN s /\ s[j] = y
      BY <1>1, <1>2, <1>5
    <2>2. QED
      BY <1>2, <1>3, <2>1 DEF Before
  <1>6. QED
    BY <1>4, <1>5

LEMMA BeforeOfTail ==
  ASSUME NEW S, NEW s \in Seq(S), s # <<>>
  PROVE  /\ \A x, y : Before(Tail(s), x, y) => Before(s, x, y)
         /\ \A y \in Range(Tail(s)) : Before(s, Head(s), y)
  <1>1. /\ Len(s) \in Nat /\ Len(s) >= 1 /\ DOMAIN s = 1..Len(s) /\ Head(s) = s[1]
        /\ DOMAIN Tail(s) = 1..(Len(s) - 1)
        /\ \A i \in 1..(Len(s) - 1) : Tail(s)[i] = s[i + 1]
    OBVIOUS
  <1>2. ASSUME NEW x, NEW y, Before(Tail(s), x, y)
        PROVE  Before(s, x, y)
    <2>1. PICK i, j \in DOMAIN Tail(s) : i < j /\ Tail(s)[i] = x /\ Tail(s)[j] = y
      BY <1>2 DEF Before
    <2>2. /\ i + 1 \in DOMAIN s /\ j + 1 \in DOMAIN s /\ i + 1 < j + 1
          /\ s[i + 1] = x /\ s[j + 1] = y
      BY <1>1, <2>1
    <2>3. QED
      BY <2>2 DEF Before
  <1>3. ASSUME NEW y \in Range(Tail(s))
        PROVE  Before(s, Head(s), y)
    <2>1. PICK i \in DOMAIN Tail(s) : y = Tail(s)[i]
      BY DEF Range
    <2>2. i + 1 \in DOMAIN s /\ 1 \in DOMAIN s /\ 1 < i + 1 /\ y = s[i + 1]
      BY <1>1, <2>1
    <2>3. QED
      BY <1>1, <2>2 DEF Before
  <1>4. QED
    BY <1>2, <1>3

LEMMA BeforeOfBoth ==
  ASSUME NEW S, NEW s \in Seq(S), NEW t \in Seq(S), NEW x, NEW y, Before(s \o t, x, y)
  PROVE  \/ Before(s, x, y) \/ Before(t, x, y)
         \/ x \in Range(s) /\ y \in Range(t)
  <1> DEFINE u == s \o t
  <1>1. /\ Len(s) \in Nat /\ Len(t) \in Nat /\ DOMAIN s = 1..Len(s) /\ DOMAIN t = 1..Len(t)
        /\ DOMAIN u = 1..(Len(s) + Len(t))
        /\ \A i \in 1..(Len(s) + Len(t)) : u[i] = IF i <= Len(s) THEN s[i] ELSE t[i - Len(s)]
    OBVIOUS
  <1>2. PICK i, j \in DOMAIN u : i < j /\ u[i] = x /\ u[j] = y
    BY DEF Before
  <1> HIDE DEF u
  <1>3. CASE j <= Len(s)
    <2>1. i \in DOMAIN s /\ j \in DOMAIN s /\ s[i] = x /\ s[j] = y
      BY <1>1, <1>2, <1>3
    <2>2. QED
      BY <1>2, <2>1 DEF Before
  <1>4. CASE i <= Len(s) /\ ~(j <= Len(s))
    <2>1. i \in DOMAIN s /\ j - Len(s) \in DOMAIN t /\ s[i] = x /\ t[j - Len(s)] = y
      BY <1>1, <1>2, <1>4
    <2>2. QED
      BY <2>1 DEF Range
  <1>5. CASE ~(i <= Len(s))
    <2>1. /\ i - Len(s) \in DOMAIN t /\ j - Len(s) \in DOMAIN t /\ i - Len(s) < j - Len(s)
          /\ t[i - Len(s)] = x /\ t[j - Len(s)] = y
      BY <1>1, <1>2, <1>5
    <2>2. QED
      BY <2>1 DEF Before
  <1>6. QED
    BY <1>1, <1>2, <1>3, <1>4, <1>5

(* To derive from is reflexive and transitive, and the bases are in it.    *)
LEMMA LineageOfKnown ==
  /\ \A t \in Known : t \in Lineage(t)
  /\ \A t : Bases(t) \cap Known \subseteq Lineage(t)
  /\ \A t : \A u \in Lineage(t) : Lineage(u) \subseteq Lineage(t)
  BY DEF Lineage, ClosedUnderBases

LEMMA ListedBelow ==
  ASSUME NEW x, NEW y, Listed(x, y), NEW v \in Lineage(x), NEW w \in Lineage(y)
  PROVE  Listed(v, w)
  BY LineageOfKnown DEF Listed

LEMMA OrderedBelow ==
  ASSUME NEW x \in Known, NEW y, Ordered(x, y), NEW w \in Lineage(y)
  PROVE  Ordered(x, w)
  BY LineageOfKnown, ListedBelow DEF Ordered

(* A walk that goes on keeps what was listed.                              *)
LEMMA ListedStays ==
  ASSUME defs' = defs, Range(chain) \subseteq Range(chain')
  PROVE  /\ \A t : Lineage(t)' = Lineage(t)
         /\ \A x, y : Listed(x, y) => Listed(x, y)'
         /\ \A x, y : Ordered(x, y) => Ordered(x, y)'
  <1>1. \A t : Lineage(t)' = Lineage(t)
    BY DEF Lineage, Known, ClosedUnderBases, Bases
  <1>2. \A x, y : Listed(x, y) => Listed(x, y)'
    BY <1>1 DEF Listed, Known
  <1>3. QED
    BY <1>1, <1>2 DEF Ordered

LEMMA EnterKeepsOrder ==
  ASSUME IInv, OrderInv, EnterTemplate
  PROVE  OrderInv'
  <1> DEFINE c    == Head(pending)
             bs   == defs[c].bases
             rest == Tail(pending)
  <1>1. /\ c \in Known /\ chain' = Append(chain, c) /\ pending' = bs \o rest
        /\ pending # <<>> /\ defs' = defs /\ Known' = Known
    BY DEF EnterTemplate, Visit, Known
  <1>2. pending \in Seq(Guids) /\ chain \in Seq(Known) /\ bs \in Seq(Guids)
    BY <1>1 DEF IInv, WalkTypeOK, Definitions
  <1>3. rest \in Seq(Guids) /\ Range(pending) = {c} \cup Range(rest)
    BY <1>1, <1>2, RangeHeadTail
  <1>4. /\ \A x, y : Before(rest, x, y) => Before(pending, x, y)
        /\ \A y \in Range(rest) : Before(pending, c, y)
    BY <1>1, <1>2, BeforeOfTail
  <1>5. bs = defs[c].bases /\ Bases(c) = Range(bs)
    BY DEF Bases
  <1> HIDE DEF c, bs, rest
  <1>6. Range(chain') = Range(chain) \cup {c} /\ Range(pending') = Bases(c) \cup Range(rest)
    BY <1>1, <1>2, <1>3, <1>5, RangeOfAppend, RangeOfBoth
  <1>7. /\ \A t : Lineage(t)' = Lineage(t)
        /\ \A x, y : Listed(x, y) => Listed(x, y)'
        /\ \A x, y : Ordered(x, y) => Ordered(x, y)'
    BY <1>1, <1>6, ListedStays
  <1>8. ASSUME NEW x \in Known, NEW y \in Known, Before(chain', x, y)
        PROVE  Ordered(x, y)'
    <2>1. CASE Before(chain, x, y)
      BY <1>7, <2>1 DEF OrderInv
    <2>2. CASE x \in Range(chain) /\ y = c
      BY <1>3, <1>7, <2>2 DEF OrderInv
    <2>3. QED
      BY <1>1, <1>2, <1>8, <2>1, <2>2, BeforeOfAppend
  <1>9. ASSUME NEW x \in Known, NEW y \in Known, x \in Range(chain'), y \in Range(pending')
        PROVE  Ordered(x, y)'
    <2>1. CASE x \in Range(chain) /\ y \in Bases(c)
      <3>1. Ordered(x, c)
        BY <1>1, <1>3, <2>1 DEF OrderInv
      <3>2. y \in Lineage(c)
        BY <2>1, LineageOfKnown
      <3>3. QED
        BY <1>7, <3>1, <3>2, OrderedBelow
    <2>2. CASE x \in Range(chain) /\ y \in Range(rest)
      BY <1>3, <1>7, <2>2 DEF OrderInv
    <2>3. CASE x = c /\ y \in Bases(c)
      <3>1. y \in Lineage(c)
        BY <2>3, LineageOfKnown
      <3>2. QED
        BY <1>7, <2>3, <3>1 DEF Ordered
    <2>4. CASE x = c /\ y \in Range(rest)
      <3>1. Listed(x, y)
        BY <1>4, <2>4 DEF OrderInv
      <3>2. QED
        BY <1>7, <3>1 DEF Ordered
    <2>5. QED
      BY <1>6, <1>9, <2>1, <2>2, <2>3, <2>4
  <1>10. ASSUME NEW x \in Known, NEW y \in Known, Before(pending', x, y)
         PROVE  Listed(x, y)'
    <2>1. CASE Before(bs, x, y)
      <3>1. PICK k, m \in DOMAIN bs : k < m /\ bs[k] = x /\ bs[m] = y
        BY <2>1 DEF Before
      <3>2. c \in Range(chain') /\ defs'[c].bases = bs
        BY <1>1, <1>5, <1>6
      <3>3. x \in Lineage(x)' /\ y \in Lineage(y)'
        BY <1>7, LineageOfKnown
      <3>4. QED
        BY <1>1, <3>1, <3>2, <3>3 DEF Listed
    <2>2. CASE x \in Range(bs) /\ y \in Range(rest)
      <3>1. Listed(c, y)
        BY <1>1, <1>4, <2>2 DEF OrderInv
      <3>2. x \in Lineage(c) /\ y \in Lineage(y)
        BY <1>5, <2>2, LineageOfKnown
      <3>3. QED
        BY <1>7, <3>1, <3>2, ListedBelow
    <2>3. CASE Before(rest, x, y)
      BY <1>4, <1>7, <2>3 DEF OrderInv
    <2>4. QED
      BY <1>1, <1>2, <1>3, <1>10, <2>1, <2>2, <2>3, BeforeOfBoth
  <1>11. QED
    BY <1>1, <1>8, <1>9, <1>10 DEF OrderInv

(* Nothing enters the chain; what is pending is one less.                  *)
LEMMA SkipKeepsOrder ==
  ASSUME IInv, OrderInv, NoteUnresolved \/ SkipVisited
  PROVE  OrderInv'
  <1>1. /\ defs' = defs /\ chain' = chain /\ pending' = Tail(pending)
        /\ pending # <<>> /\ Known' = Known
    BY DEF NoteUnresolved, SkipVisited, Visit, Known
  <1>2. pending \in Seq(Guids)
    BY DEF IInv, WalkTypeOK
  <1>3. /\ Range(pending') \subseteq Range(pending)
        /\ \A x, y : Before(pending', x, y) => Before(pending, x, y)
    BY <1>1, <1>2, RangeHeadTail, BeforeOfTail
  <1>4. /\ \A x, y : Listed(x, y) => Listed(x, y)'
        /\ \A x, y : Ordered(x, y) => Ordered(x, y)'
    BY <1>1, ListedStays
  <1>5. QED
    BY <1>1, <1>3, <1>4 DEF OrderInv

(* A base comes before what derives from it only where the lists say so,   *)
(* on whatever base lists: walk_chain is depth first and in list order, so *)
(* that whose definitions win can be read off the lists.                   *)
THEOREM ListsDecideOrder == WalkSpec => []BaseFirstOnlyByListing
  <1>1. WalkInit => OrderInv
    BY DEF WalkInit, OrderInv, Range, Before
  <1>2. IInv /\ OrderInv /\ [WalkNext]_walkVars => OrderInv'
    <2>1. ASSUME OrderInv, UNCHANGED walkVars
          PROVE  OrderInv'
      <3>1. defs' = defs /\ chain' = chain /\ pending' = pending /\ Known' = Known
        BY <2>1 DEF walkVars, Known
      <3>2. /\ \A x, y : Listed(x, y) => Listed(x, y)'
            /\ \A x, y : Ordered(x, y) => Ordered(x, y)'
        BY <3>1, ListedStays
      <3>3. QED
        BY <2>1, <3>1, <3>2 DEF OrderInv
    <2>2. QED
      BY <2>1, EnterKeepsOrder, SkipKeepsOrder DEF WalkNext
  <1>3. ASSUME IInv, OrderInv
        PROVE  BaseFirstOnlyByListing
    <2>1. SUFFICES ASSUME NEW i \in DOMAIN chain, NEW j \in DOMAIN chain, i < j,
                          ~(chain[j] \in Lineage(chain[i]))
                   PROVE  Listed(chain[i], chain[j])
      BY DEF BaseFirstOnlyByListing, Listed
    <2>2. chain[i] \in Known /\ chain[j] \in Known
      BY <1>3 DEF IInv, WalkTypeOK
    <2>3. Before(chain, chain[i], chain[j])
      BY <2>1 DEF Before
    <2>4. Ordered(chain[i], chain[j])
      BY <1>3, <2>2, <2>3 DEF OrderInv
    <2>5. QED
      BY <2>1, <2>4 DEF Ordered
  <1>4. QED
    BY Invariance, <1>1, <1>2, <1>3, PTL DEF WalkSpec

-----------------------------------------------------------------------------
(* The list of effective fields: own fields of the chain in a row, gone    *)
(* through by KeepFirst one after the other.                               *)
EffectiveField == [id : Fields, defined_by : Guids]

Folds(s, it) ==
  it = [u \in SUBSET DOMAIN s |->
         IF u = {} THEN <<>> ELSE KeepFirst(it[u \ {Max(u)}], s[Max(u)])]

LEMMA KeepFirstType ==
  ASSUME NEW s \in Seq(EffectiveField), NEW e \in EffectiveField
  PROVE  KeepFirst(s, e) \in Seq(EffectiveField)
  BY DEF KeepFirst

LEMMA FoldUnfolds ==
  ASSUME NEW s
  PROVE  FoldLeft(KeepFirst, <<>>, s) = (CHOOSE it : Folds(s, it))[DOMAIN s]
  BY Zenon DEF FoldLeft, MapThenFoldSet, Folds

LEMMA FoldSteps ==
  ASSUME NEW s \in Seq(EffectiveField)
  PROVE  \E g : /\ g[0] = <<>>
                /\ \A k \in 1..Len(s) : g[k] = KeepFirst(g[k - 1], s[k])
                /\ FoldLeft(KeepFirst, <<>>, s) = g[Len(s)]
  <1> DEFINE n    == Len(s)
             S    == Seq(EffectiveField)
             step == [p \in S \X (1..n) |-> KeepFirst(p[1], s[p[2]])]
             c    == CHOOSE it : Folds(s, it)
  <1>1. n \in Nat /\ DOMAIN s = 1..n /\ <<>> \in S /\ \A i \in 1..n : s[i] \in EffectiveField
    OBVIOUS
  <1>2. /\ step \in [S \X (1..n) -> S]
        /\ \A a \in S, i \in 1..n : step[<<a, i>>] = KeepFirst(a, s[i])
    BY <1>1, KeepFirstType
  <1>3. FoldLeft(KeepFirst, <<>>, s) = c[DOMAIN s]
    BY FoldUnfolds, Zenon
  <1> HIDE DEF n, S, step, c
  <1>4. PICK it \in [SUBSET (1..n) -> S] : GoesByGreatest(it, n, <<>>, step)
    BY <1>1, <1>2, SetRecursion
  <1>5. Folds(s, it)
    <2>1. ASSUME NEW u \in SUBSET (1..n), u # {}
          PROVE  it[u] = KeepFirst(it[u \ {Max(u)}], s[Max(u)])
      <3>1. Max(u) \in u
        BY <1>1, <2>1, GreatestExists
      <3>2. Max(u) \in 1..n /\ it[u \ {Max(u)}] \in S
        BY <1>4, <3>1
      <3>3. QED
        BY <1>2, <1>4, <2>1, <3>2 DEF GoesByGreatest
    <2>2. \A u \in SUBSET (1..n) :
            it[u] = IF u = {} THEN <<>> ELSE KeepFirst(it[u \ {Max(u)}], s[Max(u)])
      BY <1>4, <2>1 DEF GoesByGreatest
    <2>3. it = [u \in SUBSET (1..n) |-> it[u]]
      BY <1>4
    <2>4. QED
      BY <1>1, <2>2, <2>3, Zenon DEF Folds
  <1>6. Folds(s, c)
    BY <1>5, Zenon DEF c
  <1>7. \A u \in SUBSET (1..n) :
          c[u] = IF u = {} THEN <<>> ELSE KeepFirst(c[u \ {Max(u)}], s[Max(u)])
    BY <1>1, <1>6, Zenon DEF Folds
  <1> DEFINE g == [k \in 0..n |-> c[1..k]]
  <1>8. g[0] = <<>>
    <2>1. 1..0 = {} /\ {} \in SUBSET (1..n) /\ 0 \in 0..n
      BY <1>1
    <2>2. QED
      BY <1>7, <2>1
  <1>9. ASSUME NEW k \in 1..n
        PROVE  g[k] = KeepFirst(g[k - 1], s[k])
    <2>1. k \in 0..n /\ k - 1 \in 0..n
      BY <1>1
    <2>2. c[1..k] = KeepFirst(c[1..(k - 1)], s[k])
      BY <1>1, <1>7, StepsOfSets
    <2>3. QED
      BY <2>1, <2>2
  <1>10. g[n] = c[1..n]
    BY <1>1
  <1> HIDE DEF g
  <1>11. QED
    BY <1>1, <1>3, <1>8, <1>9, <1>10 DEF n

(* A list of resolved fields has a field, and the first one of it is by d. *)
Has(s, x) == \E p \in DOMAIN s : s[p].id = x

Lead(s, x, d) ==
  \E p \in DOMAIN s :
    s[p].id = x /\ s[p].defined_by = d /\ \A q \in 1..(p - 1) : s[q].id # x

LEMMA BothHave ==
  ASSUME NEW R, NEW s \in Seq(R), NEW t \in Seq(R), NEW x
  PROVE  /\ Has(s \o t, x) <=> Has(s, x) \/ Has(t, x)
         /\ \A d : Lead(s \o t, x, d) => Lead(s, x, d) \/ (~Has(s, x) /\ Lead(t, x, d))
  <1>1. /\ DOMAIN s = 1..Len(s) /\ Len(s) \in Nat
        /\ DOMAIN t = 1..Len(t) /\ Len(t) \in Nat
        /\ DOMAIN (s \o t) = 1..(Len(s) + Len(t))
        /\ \A i \in 1..Len(s) : (s \o t)[i] = s[i]
        /\ \A i \in 1..Len(t) : (s \o t)[Len(s) + i] = t[i]
    OBVIOUS
  <1> DEFINE b == s \o t
             m == Len(s)
             n == Len(t)
  <1> HIDE DEF b, m, n
  <1>2. /\ DOMAIN s = 1..m /\ m \in Nat /\ DOMAIN t = 1..n /\ n \in Nat
        /\ DOMAIN b = 1..(m + n)
        /\ \A i \in 1..m : b[i] = s[i]
        /\ \A i \in 1..n : b[m + i] = t[i] /\ m + i \in 1..(m + n)
    BY <1>1 DEF b, m, n
  <1>3. \A i \in 1..(m + n) : i \in 1..m \/ (i - m \in 1..n /\ b[i] = t[i - m])
    <2>1. ASSUME NEW i \in 1..(m + n), i \notin 1..m
          PROVE  i - m \in 1..n /\ m + (i - m) = i
      BY <1>2, <2>1
    <2>2. QED
      BY <1>2, <2>1
  <1>4. ASSUME Has(b, x) PROVE Has(s, x) \/ Has(t, x)
    <2>1. PICK p \in 1..(m + n) : b[p].id = x
      BY <1>2, <1>4 DEF Has
    <2>2. CASE p \in 1..m
      BY <1>2, <2>1, <2>2 DEF Has
    <2>3. CASE p - m \in 1..n /\ b[p] = t[p - m]
      BY <1>2, <2>1, <2>3 DEF Has
    <2>4. QED
      BY <1>3, <2>2, <2>3
  <1>5. Has(s, x) => Has(b, x)
    BY <1>2 DEF Has
  <1>6. ASSUME Has(t, x) PROVE Has(b, x)
    <2>1. PICK p \in 1..n : t[p].id = x
      BY <1>2, <1>6 DEF Has
    <2>2. m + p \in DOMAIN b /\ b[m + p].id = x
      BY <1>2, <2>1
    <2>3. QED
      BY <2>2 DEF Has
  <1>7. ASSUME NEW d, Lead(b, x, d), ~Lead(s, x, d)
        PROVE  ~Has(s, x) /\ Lead(t, x, d)
    <2>1. PICK p \in 1..(m + n) :
            b[p].id = x /\ b[p].defined_by = d /\ \A q \in 1..(p - 1) : b[q].id # x
      BY <1>2, <1>7 DEF Lead
    <2>2. p \notin 1..m
      <3>1. SUFFICES ASSUME p \in 1..m PROVE FALSE
        OBVIOUS
      <3>2. \A q \in 1..(p - 1) : q \in 1..m
        BY <1>2, <3>1
      <3>3. QED
        BY <1>2, <1>7, <2>1, <3>1, <3>2 DEF Lead
    <2>3. p - m \in 1..n /\ b[p] = t[p - m]
      BY <1>3, <2>2
    <2>4. \A q \in 1..m : q \in 1..(p - 1)
      BY <1>2, <2>2
    <2>5. ~Has(s, x)
      BY <1>2, <2>1, <2>4 DEF Has
    <2>6. \A q \in 1..((p - m) - 1) : q \in 1..n /\ m + q \in 1..(p - 1)
      BY <1>2, <2>3
    <2>7. \A q \in 1..((p - m) - 1) : t[q].id # x
      BY <1>2, <2>1, <2>6
    <2>8. QED
      BY <1>2, <2>1, <2>3, <2>5, <2>7 DEF Lead
  <1>8. QED
    BY <1>4, <1>5, <1>6, <1>7 DEF b

LEMMA OwnHas ==
  ASSUME IInv, NEW t \in Known
  PROVE  /\ OwnFields(t) \in Seq(EffectiveField)
         /\ \A x : Has(OwnFields(t), x) <=> x \in Range(defs[t].fields)
         /\ \A x, d : Lead(OwnFields(t), x, d) => d = t
  <1>1. defs[t].fields \in Seq(Fields) /\ t \in Guids
    BY DEF IInv, WalkTypeOK, Definitions, Known
  <1> DEFINE s == defs[t].fields
             o == OwnFields(t)
  <1>2. /\ DOMAIN o = DOMAIN s /\ DOMAIN s = 1..Len(s) /\ Len(s) \in Nat
        /\ \A i \in DOMAIN s : /\ o[i] = [id |-> s[i], defined_by |-> t]
                               /\ o[i] \in EffectiveField /\ o[i].id = s[i] /\ o[i].defined_by = t
    BY <1>1 DEF OwnFields, EffectiveField
  <1>3. o = [i \in 1..Len(s) |-> o[i]]
    BY <1>2 DEF OwnFields
  <1> HIDE DEF s, o
  <1>4. o \in Seq(EffectiveField)
    BY <1>2, <1>3
  <1>5. \A x : Has(o, x) <=> x \in Range(s)
    BY <1>2 DEF Has, Range
  <1>6. \A x, d : Lead(o, x, d) => d = t
    BY <1>2 DEF Lead
  <1>7. QED
    BY <1>5, <1>6, <1>4 DEF s, o

(* The template at a place of the chain has a definition of the field, and *)
(* is the first that has.                                                  *)
DefinedAt(i, x) == x \in Range(defs[chain[i]].fields)

FirstAt(i, x) == DefinedAt(i, x) /\ \A j \in 1..(i - 1) : ~DefinedAt(j, x)

Listing == FlattenSeq([i \in DOMAIN chain |-> OwnFields(chain[i])])

(* The own fields of the chain in a row: all of them, those of the first   *)
(* template that has a field before all others.                            *)
LEMMA ListingIs ==
  ASSUME IInv
  PROVE  /\ Listing \in Seq(EffectiveField)
         /\ \A x : Has(Listing, x) <=> \E i \in DOMAIN chain : DefinedAt(i, x)
         /\ \A x, d : Lead(Listing, x, d) =>
              \E i \in DOMAIN chain : FirstAt(i, x) /\ chain[i] = d
  <1> DEFINE s == [i \in DOMAIN chain |-> OwnFields(chain[i])]
             n == Len(chain)
  <1>1. chain \in Seq(Known) /\ n \in Nat /\ DOMAIN chain = 1..n /\ \A i \in 1..n : chain[i] \in Known
    BY DEF IInv, WalkTypeOK
  <1>2. \A i \in 1..n : s[i] = OwnFields(chain[i]) /\ s[i] \in Seq(EffectiveField)
    BY <1>1, OwnHas
  <1>3. s \in Seq(Seq(EffectiveField)) /\ Len(s) = n
    <2>1. s = [i \in 1..n |-> s[i]]
      BY <1>1
    <2> HIDE DEF s
    <2>2. QED
      BY <1>1, <1>2, <2>1
  <1>4. Listing = FlattenSeq(s)
    BY DEF Listing
  <1> HIDE DEF s, n
  <1>5. PICK f : /\ f[0] = <<>>
                 /\ \A k \in 1..n : f[k - 1] \in Seq(EffectiveField) /\ f[k] = f[k - 1] \o s[k]
                 /\ FlattenSeq(s) = f[n] /\ f[n] \in Seq(EffectiveField)
    BY <1>3, FlattenSteps
  <1> DEFINE Good(k) ==
               /\ \A x : Has(f[k], x) <=> \E i \in 1..k : DefinedAt(i, x)
               /\ \A x, d : Lead(f[k], x, d) => \E i \in 1..k : FirstAt(i, x) /\ chain[i] = d
             B == {k \in 0..n : Good(k)}
  <1>6. 0 \in B
    <2>1. \A x, d : ~Has(f[0], x) /\ ~Lead(f[0], x, d)
      BY <1>5 DEF Has, Lead
    <2>2. 1..0 = {} /\ 0 \in 0..n
      BY <1>1
    <2>3. QED
      BY <2>1, <2>2
  <1>7. ASSUME NEW k \in 1..n, k - 1 \in B
        PROVE  k \in B
    <2>1. Good(k - 1)
      BY <1>7
    <2>2. /\ f[k - 1] \in Seq(EffectiveField) /\ s[k] \in Seq(EffectiveField) /\ f[k] = f[k - 1] \o s[k]
          /\ s[k] = OwnFields(chain[k]) /\ chain[k] \in Known
      BY <1>1, <1>2, <1>5
    <2>3. \A x : Has(f[k], x) <=> Has(f[k - 1], x) \/ DefinedAt(k, x)
      BY <2>2, BothHave, OwnHas DEF DefinedAt
    <2>4. \A i : i \in 1..k <=> i \in 1..(k - 1) \/ i = k
      BY <1>1
    <2>5. \A x : Has(f[k], x) <=> \E i \in 1..k : DefinedAt(i, x)
      BY <2>1, <2>3, <2>4
    <2>6. ASSUME NEW x, NEW d, Lead(f[k], x, d)
          PROVE  \E i \in 1..k : FirstAt(i, x) /\ chain[i] = d
      <3>1. CASE Lead(f[k - 1], x, d)
        BY <2>1, <2>4, <3>1
      <3>2. CASE ~Has(f[k - 1], x) /\ Lead(s[k], x, d)
        <4>1. Has(s[k], x)
          BY <3>2 DEF Has, Lead
        <4>2. DefinedAt(k, x) /\ d = chain[k]
          BY <2>2, <3>2, <4>1, OwnHas DEF DefinedAt
        <4>3. \A j \in 1..(k - 1) : ~DefinedAt(j, x)
          BY <2>1, <3>2
        <4>4. QED
          BY <2>4, <4>2, <4>3 DEF FirstAt
      <3>3. QED
        <4>1. Lead(f[k - 1] \o s[k], x, d)
          BY <2>2, <2>6
        <4>2. Lead(f[k - 1], x, d) \/ (~Has(f[k - 1], x) /\ Lead(s[k], x, d))
          <5> DEFINE a == f[k - 1]
                     b == s[k]
          <5>1. a \in Seq(EffectiveField) /\ b \in Seq(EffectiveField) /\ Lead(a \o b, x, d)
            BY <2>2, <4>1
          <5> HIDE DEF a, b
          <5>2. Lead(a, x, d) \/ (~Has(a, x) /\ Lead(b, x, d))
            BY ONLY <5>1, BothHave
          <5>3. QED
            BY <5>2 DEF a, b
        <4>3. QED
          BY <3>1, <3>2, <4>2
    <2>7. k \in 0..n
      BY <1>1
    <2>8. QED
      BY <2>5, <2>6, <2>7
  <1>8. n \in B
    <2>1. n \in 0..n
      BY <1>1
    <2> HIDE DEF B
    <2>2. QED
      BY <1>1, <1>6, <1>7, <2>1, BoundedInduction
  <1>9. QED
    BY <1>1, <1>4, <1>5, <1>8


(* KeepFirst goes through the listing: an entry is the first of its field, *)
(* no field is left out and none is there twice.                           *)
LEMMA KeptIs ==
  ASSUME NEW s \in Seq(EffectiveField)
  PROVE  LET e == FoldLeft(KeepFirst, <<>>, s)
         IN  /\ e \in Seq(EffectiveField)
             /\ \A x : Has(e, x) <=> Has(s, x)
             /\ \A p \in DOMAIN e : Lead(s, e[p].id, e[p].defined_by)
             /\ \A p, q \in DOMAIN e : e[p].id = e[q].id => p = q
  <1> DEFINE n == Len(s)
             e == FoldLeft(KeepFirst, <<>>, s)
  <1>1. n \in Nat /\ DOMAIN s = 1..n /\ \A k \in 1..n : s[k] \in EffectiveField
    OBVIOUS
  <1>2. PICK g : /\ g[0] = <<>>
                 /\ \A k \in 1..n : g[k] = KeepFirst(g[k - 1], s[k])
                 /\ e = g[n]
    BY FoldSteps
  <1> HIDE DEF n, e
  <1> DEFINE Good(k) ==
               /\ g[k] \in Seq(EffectiveField)
               /\ \A x : Has(g[k], x) <=> \E i \in 1..k : s[i].id = x
               /\ \A p \in DOMAIN g[k] : Lead(s, g[k][p].id, g[k][p].defined_by)
               /\ \A p, q \in DOMAIN g[k] : g[k][p].id = g[k][q].id => p = q
             B == {k \in 0..n : Good(k)}
  <1>3. 0 \in B
    <2>1. 1..0 = {} /\ 0 \in 0..n /\ DOMAIN g[0] = {} /\ g[0] \in Seq(EffectiveField)
      BY <1>1, <1>2
    <2>2. \A x : ~Has(g[0], x)
      BY <2>1 DEF Has
    <2>3. QED
      BY <2>1, <2>2
  <1>4. ASSUME NEW k \in 1..n, k - 1 \in B
        PROVE  k \in B
    <2> DEFINE a == g[k - 1]
               b == g[k]
               f == s[k]
    <2>1. /\ a \in Seq(EffectiveField)
          /\ \A x : Has(a, x) <=> \E i \in 1..(k - 1) : s[i].id = x
          /\ \A p \in DOMAIN a : Lead(s, a[p].id, a[p].defined_by)
          /\ \A p, q \in DOMAIN a : a[p].id = a[q].id => p = q
      BY <1>4
    <2>2. b = KeepFirst(a, f) /\ f \in EffectiveField /\ k \in 0..n
      BY <1>1, <1>2
    <2>3. b \in Seq(EffectiveField)
      BY <2>1, <2>2, KeepFirstType
    <2>4. b = IF Has(a, f.id) THEN a ELSE Append(a, f)
      BY <2>2 DEF KeepFirst, Has
    <2>5. \A i : i \in 1..k <=> i \in 1..(k - 1) \/ i = k
      BY <1>1
    <2> HIDE DEF a, b, f
    <2>6. CASE Has(a, f.id)
      <3>1. b = a /\ \E i \in 1..(k - 1) : s[i].id = f.id
        BY <2>1, <2>4, <2>6
      <3>2. \A x : Has(b, x) <=> \E i \in 1..k : s[i].id = x
        BY <2>1, <2>5, <3>1 DEF f
      <3>3. QED
        BY <2>1, <2>2, <2>3, <3>1, <3>2 DEF b
    <2>7. CASE ~Has(a, f.id)
      <3>1. /\ b = Append(a, f) /\ Len(a) \in Nat /\ DOMAIN a = 1..Len(a)
            /\ DOMAIN b = 1..(Len(a) + 1) /\ b[Len(a) + 1] = f
            /\ \A p \in 1..Len(a) : b[p] = a[p]
        BY <2>1, <2>4, <2>7
      <3>2. \A p : p \in DOMAIN b <=> p \in DOMAIN a \/ p = Len(a) + 1
        BY <3>1
      <3>3. \A x : Has(b, x) <=> Has(a, x) \/ x = f.id
        BY <3>1, <3>2 DEF Has
      <3>4. \A x : Has(b, x) <=> \E i \in 1..k : s[i].id = x
        BY <2>1, <2>5, <3>3 DEF f
      <3>5. Lead(s, f.id, f.defined_by)
        <4>1. \A i \in 1..(k - 1) : s[i].id # f.id
          BY <2>1, <2>7
        <4>2. QED
          BY <1>1, <4>1 DEF Lead, f
      <3>6. \A p \in DOMAIN b : Lead(s, b[p].id, b[p].defined_by)
        BY <2>1, <3>1, <3>2, <3>5
      <3>7. \A p \in DOMAIN a : a[p].id # f.id
        BY <2>7 DEF Has
      <3>8. \A p, q \in DOMAIN b : b[p].id = b[q].id => p = q
        BY <2>1, <3>1, <3>2, <3>7
      <3>9. QED
        BY <2>2, <2>3, <3>4, <3>6, <3>8 DEF b
    <2>8. QED
      BY <2>6, <2>7
  <1>5. n \in B
    <2>1. n \in 0..n
      BY <1>1
    <2> HIDE DEF B
    <2>2. QED
      BY <1>1, <1>3, <1>4, <2>1, BoundedInduction
  <1>6. \A x : Has(s, x) <=> \E i \in 1..n : s[i].id = x
    BY <1>1 DEF Has
  <1>7. QED
    BY <1>2, <1>5, <1>6 DEF e

(* Of several definitions of a field that of the first template in the     *)
(* chain counts, none is missing and none is there twice.                  *)
THEOREM FirstDefinitionCounts == WalkSpec => []FirstDefinitionWins
  <1>1. ASSUME IInv
        PROVE  FirstDefinitionWins
    <2> DEFINE e == EffectiveFields
    <2>1. /\ \A x : Has(e, x) <=> \E i \in DOMAIN chain : DefinedAt(i, x)
          /\ \A p \in DOMAIN e : \E i \in DOMAIN chain :
               FirstAt(i, e[p].id) /\ chain[i] = e[p].defined_by
          /\ \A p, q \in DOMAIN e : e[p].id = e[q].id => p = q
      <3>1. e = FoldLeft(KeepFirst, <<>>, Listing)
        BY DEF EffectiveFields, Listing
      <3> HIDE DEF e
      <3>2. QED
        BY <1>1, <3>1, ListingIs, KeptIs
    <2> HIDE DEF e
    <2>2. ASSUME NEW x \in Fields, NEW i \in DOMAIN chain, NEW j \in DOMAIN chain,
                 FirstAt(i, x), FirstAt(j, x)
          PROVE  i = j
      <3>1. chain \in Seq(Known)
        BY <1>1 DEF IInv, WalkTypeOK
      <3>2. i \in Nat /\ j \in Nat /\ i >= 1 /\ j >= 1
        BY <3>1
      <3>3. ~(i < j) /\ ~(j < i)
        BY <2>2, <3>2 DEF FirstAt
      <3>4. QED
        BY <3>2, <3>3
    <2> DEFINE Of(x)  == {k \in DOMAIN e : e[k].id = x}
               At(x)  == {i \in DOMAIN chain : FirstAt(i, x)}
    <2>3. ASSUME NEW x \in Fields
          PROVE  {e[k].defined_by : k \in Of(x)} = {chain[i] : i \in At(x)}
      <3>1. ASSUME NEW k \in Of(x)
            PROVE  \E i \in At(x) : chain[i] = e[k].defined_by
        BY <2>1
      <3>2. ASSUME NEW i \in At(x)
            PROVE  \E k \in Of(x) : e[k].defined_by = chain[i]
        <4>1. Has(e, x)
          BY <2>1 DEF FirstAt
        <4>2. PICK k \in Of(x) : TRUE
          BY <4>1 DEF Has
        <4>3. PICK j \in At(x) : chain[j] = e[k].defined_by
          BY <3>1
        <4>4. QED
          BY <2>2, <4>3
      <3>3. QED
        BY <3>1, <3>2
    <2>4. \A x \in Fields : \A k, m \in Of(x) : k = m
      BY <2>1
    <2>5. QED
      BY <2>3, <2>4 DEF FirstDefinitionWins, FirstAt, DefinedAt, e
  <1>2. QED
    BY <1>1, Invariance, PTL
=============================================================================
