---------------------------- MODULE MoveTreeProofs ---------------------------
(***************************************************************************)
(* Theorems of MoveTree, for every tree, every set of names and ids, every *)
(* number of requests and of failures.                                     *)
(*                                                                         *)
(* What a request plans is a Plan: it rewrites items as they are, creates  *)
(* one, or relocates a subtree, and the tree it aims at is well laid out   *)
(* again (ForgePlans, MovePlans).  At every moment of it a scan finds a    *)
(* tree that is Midway in the plan, and such a tree is one of three        *)
(* outcomes: a fault, the tree before, the tree after (MidwayOutcome).     *)
(* The inductive invariant says that a request under way is Midway in a    *)
(* Plan of the graph in memory (Progress), that this graph is what a scan  *)
(* gave (Mirror), and that what ended requests left is such an outcome     *)
(* (Settled).                                                              *)
(***************************************************************************)
EXTENDS MoveTree, SequenceTheorems, WellFoundedInduction, TLAPS

-----------------------------------------------------------------------------
(* Paths: to be at or below a path is to continue it.                      *)
LEMMA AppendPath ==
  ASSUME NEW p \in Paths, NEW n \in Names
  PROVE  /\ Append(p, n) \in Paths \ {NoRef} /\ Last(Append(p, n)) = n
  <1>1. Append(p, n) \in Paths \ {NoRef}
    BY AppendProperties DEF Paths, NoRef
  <1>2. Last(Append(p, n)) = n
    BY AppendProperties DEF Paths, Last
  <1>3. QED
    BY <1>1, <1>2

LEMMA AppendOnce ==
  ASSUME NEW p \in Paths, NEW q \in Paths, NEW n \in Names, NEW m \in Names,
         Append(p, n) = Append(q, m)
  PROVE  p = q /\ n = m
  BY AppendInjective DEF Paths

LEMMA NameIsName ==
  ASSUME NEW p \in Paths \ {NoRef}
  PROVE  Last(p) \in Names /\ \E q \in Paths : p = Append(q, Last(p))
  <1>1. PICK q \in Paths, n \in Names : p = Append(q, n)
    BY SequenceEmptyOrAppend DEF Paths, NoRef
  <1>2. QED
    BY <1>1, AppendPath

LEMMA JoinPaths ==
  ASSUME NEW p \in Paths, NEW r \in Paths
  PROVE  /\ p \o r \in Paths /\ Len(p \o r) = Len(p) + Len(r)
         /\ p \o NoRef = p
         /\ p \o r = NoRef => p = NoRef
  <1>1. p \o r \in Paths /\ Len(p \o r) = Len(p) + Len(r)
    BY ConcatProperties DEF Paths
  <1>2. p \o NoRef = p /\ (p \o r = NoRef => p = NoRef)
    BY ConcatEmptySeq, ConcatEqualIffEmpty DEF Paths, NoRef
  <1>3. QED
    BY <1>1, <1>2

LEMMA JoinAppend ==
  ASSUME NEW p \in Paths, NEW r \in Paths, NEW n \in Names
  PROVE  Append(p \o r, n) = p \o Append(r, n)
  <1>1. /\ Append(p \o r, n) = (p \o r) \o <<n>> /\ Append(r, n) = r \o <<n>>
        /\ <<n>> \in Seq(Names)
    BY JoinPaths, AppendIsConcat DEF Paths
  <1>2. QED
    BY <1>1, ConcatAssociative DEF Paths

LEMMA JoinCancels ==
  ASSUME NEW p \in Paths, NEW r \in Paths, NEW q \in Paths, p \o r = p \o q
  PROVE  r = q
  BY ConcatSimplifications DEF Paths

LEMMA BelowJoin ==
  ASSUME NEW p \in Paths, NEW r \in Paths
  PROVE  SubSeq(p \o r, Len(p) + 1, Len(p \o r)) = r /\ IsPrefix(p, p \o r)
  <1>1. Len(p) \in Nat /\ Len(r) \in Nat /\ Len(p \o r) = Len(p) + Len(r)
    BY LenProperties, ConcatProperties DEF Paths
  <1>2. SubSeq(p \o r, Len(p) + 1, Len(p \o r)) = r
    <2>1. CASE r = << >>
      BY <1>1, <2>1, SubSeqEmpty, EmptySeq
    <2>2. CASE r # << >>
      <3>1. Len(r) >= 1
        BY <2>2, EmptySeq DEF Paths
      <3>2. SubSeq(p \o r, Len(p) + 1, Len(p) + Len(r)) = SubSeq(r, 1, Len(r))
        BY <1>1, <3>1, SubSeqOfConcat2 DEF Paths
      <3>3. QED
        BY <1>1, <3>2, SubSeqFull DEF Paths
    <2>3. QED
      BY <2>1, <2>2
  <1>3. SubSeq(p, 1, Len(p)) = SubSeq(p \o r, 1, Len(p))
    <2>1. CASE p = << >>
      BY <2>1, SubSeqEmpty, EmptySeq
    <2>2. CASE p # << >>
      <3>1. Len(p) >= 1
        BY <2>2, EmptySeq DEF Paths
      <3>2. QED
        BY <1>1, <3>1, SubSeqOfConcat1 DEF Paths
    <2>3. QED
      BY <2>1, <2>2
  <1>4. QED
    BY <1>1, <1>2, <1>3 DEF IsPrefix

LEMMA SplitPath ==
  ASSUME NEW q \in Seq(Names), NEW k \in Nat, k <= Len(q)
  PROVE  SubSeq(q, 1, k) \o SubSeq(q, k + 1, Len(q)) = q
  <1>1. /\ Len(q) \in Nat /\ 1 \in 1..(Len(q) + 1) /\ k \in (1 - 1)..Len(q)
        /\ Len(q) \in k..Len(q)
    BY LenProperties
  <1>2. SubSeq(q, 1, k) \o SubSeq(q, k + 1, Len(q)) = SubSeq(q, 1, Len(q))
    BY ONLY <1>1, ConcatAdjacentSubSeq, q \in Seq(Names)
  <1>3. QED
    BY <1>2, SubSeqFull

LEMMA PrefixContinues ==
  ASSUME NEW p \in Paths, NEW q \in Paths
  PROVE  /\ IsPrefix(p, q) <=> \E r \in Paths : q = p \o r
         /\ IsPrefix(p, q) => Len(p) <= Len(q)
  <1>1. ASSUME IsPrefix(p, q) PROVE \E r \in Paths : q = p \o r
    <2>1. Len(p) \in Nat /\ Len(q) \in Nat /\ Len(p) <= Len(q)
      BY <1>1, LenProperties DEF IsPrefix, Paths
    <2>2. SubSeq(q, 1, Len(p)) = p
      BY <1>1, SubSeqFull DEF IsPrefix, Paths
    <2>3. q = p \o SubSeq(q, Len(p) + 1, Len(q))
      BY <2>1, <2>2, SplitPath DEF Paths
    <2>4. SubSeq(q, Len(p) + 1, Len(q)) \in Paths
      <3>1. \A i \in (Len(p) + 1)..Len(q) : q[i] \in Names
        BY <2>1, ElementOfSeq DEF Paths
      <3>2. QED
        BY <2>1, <3>1, SubSeqProperties DEF Paths
    <2>5. QED
      BY <2>3, <2>4
  <1>2. QED
    BY <1>1, BelowJoin DEF IsPrefix

(* What lies above a child lies above its parent or is the child itself.   *)
LEMMA PrefixOfAppend ==
  ASSUME NEW p \in Paths, NEW q \in Paths, NEW n \in Names
  PROVE  IsPrefix(p, Append(q, n)) <=> IsPrefix(p, q) \/ p = Append(q, n)
  <1>1. ASSUME IsPrefix(p, Append(q, n)), p # Append(q, n) PROVE IsPrefix(p, q)
    <2>1. PICK r \in Paths : Append(q, n) = p \o r
      BY <1>1, AppendPath, PrefixContinues
    <2>2. r # NoRef
      BY <1>1, <2>1, JoinPaths
    <2>3. PICK s \in Paths, m \in Names : r = Append(s, m)
      BY <2>2, NameIsName
    <2>4. p \o s \in Paths
      BY JoinPaths
    <2>5. q = p \o s
      <3>1. Append(q, n) = Append(p \o s, m)
        BY <2>1, <2>3, JoinAppend
      <3>2. QED
        BY <2>4, <3>1, AppendOnce
    <2>6. QED
      BY <2>5, PrefixContinues
  <1>2. ASSUME IsPrefix(p, q) PROVE IsPrefix(p, Append(q, n))
    <2>1. PICK r \in Paths : q = p \o r
      BY <1>2, PrefixContinues
    <2>2. Append(q, n) = p \o Append(r, n) /\ Append(r, n) \in Paths
      <3>1. Append(p \o r, n) = p \o Append(r, n)
        BY JoinAppend
      <3>2. QED
        BY <2>1, <3>1, AppendPath
    <2>3. QED
      BY <2>2, AppendPath, PrefixContinues
  <1>3. IsPrefix(Append(q, n), Append(q, n))
    BY AppendPath DEF IsPrefix
  <1>4. QED
    BY <1>1, <1>2, <1>3

LEMMA RewriteMeans ==
  ASSUME NEW old \in Paths, NEW new \in Paths
  PROVE  /\ \A r \in Paths : Rewrite(old \o r, old, new) = new \o r
         /\ \A p \in Paths : ~IsPrefix(old, p) => Rewrite(p, old, new) = p
         /\ \A p \in Paths : Rewrite(p, old, new) \in Paths
  <1>1. ASSUME NEW r \in Paths PROVE Rewrite(old \o r, old, new) = new \o r
    BY BelowJoin DEF Rewrite
  <1>2. ASSUME NEW p \in Paths PROVE Rewrite(p, old, new) \in Paths
    <2>1. CASE IsPrefix(old, p)
      <3>1. PICK r \in Paths : p = old \o r
        BY <2>1, PrefixContinues
      <3>2. Rewrite(p, old, new) = new \o r
        BY <1>1, <3>1
      <3>3. QED
        BY <3>2, JoinPaths
    <2>2. CASE ~IsPrefix(old, p)
      BY <2>2 DEF Rewrite
    <2>3. QED
      BY <2>1, <2>2
  <1>3. QED
    BY <1>1, <1>2 DEF Rewrite

-----------------------------------------------------------------------------
(* What a scan makes of a tree; without a fault every file is an item and  *)
(* an id leads to its file.                                                *)
IsGraph(tree) ==
  DOMAIN tree \subseteq Paths /\ tree \in [DOMAIN tree -> Items \cup {Broken}]

LEMMA NoMarkIsItem == Broken \notin Items /\ Alien \notin Items /\ Broken # Alien
  BY MarksAssumption

LEMMA UnfaultedGraph ==
  ASSUME NEW tree, IsGraph(tree), ~Faulted(tree)
  PROVE  /\ \A f \in DOMAIN tree : tree[f] \in Items
         /\ \A f, g \in DOMAIN tree : tree[f].id = tree[g].id => f = g
         /\ Documents(tree) = {tree[f] : f \in DOMAIN tree}
         /\ IdsIn(tree) = {tree[f].id : f \in DOMAIN tree}
         /\ \A f \in DOMAIN tree : /\ FileOf(tree, tree[f].id) = f
                                   /\ Doc(tree, tree[f].id) = tree[f]
  <1>1. \A f \in DOMAIN tree : tree[f] \in Items /\ tree[f] \notin {Broken, Alien}
    BY NoMarkIsItem DEF IsGraph, Faulted
  <1>2. \A f, g \in DOMAIN tree : tree[f].id = tree[g].id => f = g
    BY <1>1 DEF Faulted
  <1>3. Documents(tree) = {tree[f] : f \in DOMAIN tree}
    BY <1>1 DEF Documents
  <1>4. IdsIn(tree) = {tree[f].id : f \in DOMAIN tree}
    BY <1>3 DEF IdsIn
  <1>5. \A f \in DOMAIN tree : FileOf(tree, tree[f].id) = f
    BY <1>1, <1>2 DEF FileOf
  <1>6. QED
    BY <1>1, <1>2, <1>3, <1>4, <1>5 DEF Doc

LEMMA IdHasFile ==
  ASSUME NEW tree, IsGraph(tree), ~Faulted(tree), NEW id \in IdsIn(tree)
  PROVE  /\ FileOf(tree, id) \in DOMAIN tree /\ FileOf(tree, id) \in Paths
         /\ Doc(tree, id) = tree[FileOf(tree, id)]
         /\ Doc(tree, id) \in Items /\ Doc(tree, id).id = id
         /\ Doc(tree, id) \in Documents(tree)
         /\ NameOf(Doc(tree, id)) \in Names
  <1>1. PICK f \in DOMAIN tree : id = tree[f].id
    BY UnfaultedGraph
  <1>2. FileOf(tree, id) = f /\ Doc(tree, id) = tree[f] /\ tree[f] \in Items
    BY <1>1, UnfaultedGraph
  <1>3. tree[f].path \in Paths \ {NoRef}
    BY <1>2 DEF Items
  <1>4. QED
    BY <1>1, <1>2, <1>3, UnfaultedGraph, NameIsName DEF IsGraph, NameOf

(* The documents, and the document of an id.                               *)
LEMMA DocOfDocument ==
  ASSUME NEW tree, IsGraph(tree), ~Faulted(tree), NEW d \in Documents(tree)
  PROVE  d.id \in IdsIn(tree) /\ Doc(tree, d.id) = d /\ d \in Items
  BY UnfaultedGraph

-----------------------------------------------------------------------------
(* The subtree is what children of its members make of it.                 *)
LEMMA SubtreeCloses ==
  ASSUME NEW tree, NEW id \in IdsIn(tree)
  PROVE  /\ id \in Subtree(tree, id) /\ Subtree(tree, id) \subseteq IdsIn(tree)
         /\ ClosedUnderChildren(tree, Subtree(tree, id))
  <1>1. id \in Subtree(tree, id) /\ Subtree(tree, id) \subseteq IdsIn(tree)
    BY DEF Subtree
  <1>2. ASSUME NEW d \in Documents(tree), d.parent \in Subtree(tree, id)
        PROVE  d.id \in Subtree(tree, id)
    BY <1>2 DEF Subtree, ClosedUnderChildren, IdsIn
  <1>3. QED
    BY <1>1, <1>2 DEF ClosedUnderChildren

(* Induction along the parent links: what holds of the root and passes     *)
(* from a parent to its children holds in the whole subtree.               *)
LEMMA SubtreeLeast ==
  ASSUME NEW tree, NEW id \in IdsIn(tree), NEW ids, id \in ids,
         \A d \in Documents(tree) :
           d.parent \in ids /\ d.parent \in Subtree(tree, id) => d.id \in ids
  PROVE  Subtree(tree, id) \subseteq ids
  <1> DEFINE both == ids \cap Subtree(tree, id)
  <1>1. both \in SUBSET IdsIn(tree) /\ id \in both
    BY SubtreeCloses
  <1>2. ClosedUnderChildren(tree, both)
    BY SubtreeCloses DEF ClosedUnderChildren
  <1>3. QED
    <2> HIDE DEF both
    <2>1. Subtree(tree, id) \subseteq both
      BY <1>1, <1>2 DEF Subtree
    <2>2. QED
      BY <2>1 DEF both

LEMMA SubtreeParents ==
  ASSUME NEW tree, IsGraph(tree), ~Faulted(tree), NEW id \in IdsIn(tree),
         NEW i \in Subtree(tree, id), i # id
  PROVE  Doc(tree, i).parent \in Subtree(tree, id)
  <1>1. SUFFICES ASSUME Doc(tree, i).parent \notin Subtree(tree, id) PROVE FALSE
    OBVIOUS
  <1>2. Subtree(tree, id) \subseteq Subtree(tree, id) \ {i}
    <2>1. ASSUME NEW d \in Documents(tree), d.parent \in Subtree(tree, id)
          PROVE  d.id \in Subtree(tree, id) \ {i}
      BY <1>1, <2>1, SubtreeCloses, DocOfDocument DEF ClosedUnderChildren
    <2>2. id \in Subtree(tree, id) \ {i}
      BY SubtreeCloses
    <2>3. QED
      BY <2>1, <2>2, SubtreeLeast
  <1>3. QED
    BY <1>2

(* The files plan_subtree plans for: the recursion over the parent links   *)
(* has one solution, whatever the tree, since each member of the subtree   *)
(* has one parent and is reached from the root.                            *)
Places(tree, id, rootFile) ==
  {x \in Subtree(tree, id) \X Paths :
     \A reached \in SUBSET (Subtree(tree, id) \X Paths) :
       /\ <<id, rootFile>> \in reached
       /\ \A i \in Subtree(tree, id) \ {id}, p \in Paths :
            <<Doc(tree, i).parent, p>> \in reached =>
              <<i, ChildFile(p, NameOf(Doc(tree, i)))>> \in reached
       => x \in reached}

OnePlaceEach(tree, id, rootFile, places) ==
  /\ places \subseteq Subtree(tree, id) \X Paths
  /\ \A p : <<id, p>> \in places <=> p = rootFile
  /\ \A i \in Subtree(tree, id) \ {id} : \A p :
       <<i, p>> \in places <=>
         \E q \in Paths : /\ <<Doc(tree, i).parent, q>> \in places
                          /\ p = ChildFile(q, NameOf(Doc(tree, i)))

LEMMA PlaceIsUnique ==
  ASSUME NEW tree, IsGraph(tree), ~Faulted(tree), NEW id \in IdsIn(tree),
         NEW rootFile \in Paths
  PROVE  OnePlaceEach(tree, id, rootFile, Places(tree, id, rootFile))
  <1> DEFINE Sub == Subtree(tree, id)
             R == Places(tree, id, rootFile)
             Next1(i, p) == <<i, ChildFile(p, NameOf(Doc(tree, i)))>>
             Closed(Q) ==
               /\ <<id, rootFile>> \in Q
               /\ \A i \in Sub \ {id}, p \in Paths :
                    <<Doc(tree, i).parent, p>> \in Q => Next1(i, p) \in Q
  <1>1. id \in Sub /\ \A i \in Sub : NameOf(Doc(tree, i)) \in Names
    BY SubtreeCloses, IdHasFile
  <1>2. \A i \in Sub, p \in Paths : Next1(i, p) \in Sub \X Paths
    BY <1>1, AppendPath DEF ChildFile
  <1>3. R \subseteq Sub \X Paths
    BY DEF Places
  <1>4. \A x \in Sub \X Paths : x \in R <=> \A Q \in SUBSET (Sub \X Paths) : Closed(Q) => x \in Q
    BY DEF Places
  <1> HIDE DEF Sub, R
  <1>5. Closed(R)
    <2>1. <<id, rootFile>> \in R
      BY <1>1, <1>4
    <2>2. ASSUME NEW i \in Sub \ {id}, NEW p \in Paths, <<Doc(tree, i).parent, p>> \in R
          PROVE  Next1(i, p) \in R
      <3>1. Next1(i, p) \in Sub \X Paths
        BY <1>2
      <3>2. ASSUME NEW Q \in SUBSET (Sub \X Paths), Closed(Q)
            PROVE  Next1(i, p) \in Q
        BY <1>3, <1>4, <2>2, <3>2
      <3> HIDE DEF Next1
      <3>3. QED
        BY <1>4, <3>1, <3>2
    <2>3. QED
      BY <2>1, <2>2
  <1>6. ASSUME NEW x \in R, Closed(R \ {x}) PROVE FALSE
    <2>1. R \ {x} \in SUBSET (Sub \X Paths) /\ x \in Sub \X Paths
      BY <1>3
    <2>2. QED
      BY <1>4, <1>6, <2>1
  <1>7. ASSUME NEW p PROVE <<id, p>> \in R <=> p = rootFile
    <2>1. ASSUME <<id, p>> \in R, p # rootFile PROVE FALSE
      <3>1. Closed(R \ {<<id, p>>})
        BY <1>5, <2>1
      <3>2. QED
        BY <1>6, <2>1, <3>1
    <2>2. QED
      BY <1>5, <2>1
  <1>8. ASSUME NEW i \in Sub \ {id}, NEW p
        PROVE  <<i, p>> \in R <=>
                 \E q \in Paths : /\ <<Doc(tree, i).parent, q>> \in R
                                  /\ p = ChildFile(q, NameOf(Doc(tree, i)))
    <2>1. ASSUME <<i, p>> \in R,
                 \A q \in Paths : <<Doc(tree, i).parent, q>> \in R =>
                                    p # ChildFile(q, NameOf(Doc(tree, i)))
          PROVE  FALSE
      <3>1. Closed(R \ {<<i, p>>})
        BY <1>5, <2>1
      <3>2. QED
        BY <1>6, <2>1, <3>1
    <2>2. QED
      BY <1>5, <2>1
  <1>9. QED
    BY <1>3, <1>7, <1>8 DEF R, Sub, OnePlaceEach

LEMMA NewFilesSolve ==
  ASSUME NEW tree, IsGraph(tree), ~Faulted(tree), NEW id \in IdsIn(tree),
         NEW rootFile \in Paths
  PROVE  NewFiles(tree, id, rootFile) =
           [i \in Subtree(tree, id) |->
              IF i = id THEN rootFile
              ELSE ChildFile(NewFiles(tree, id, rootFile)[Doc(tree, i).parent],
                             NameOf(Doc(tree, i)))]
  <1> DEFINE Sub == Subtree(tree, id)
             R == Places(tree, id, rootFile)
             Solves(g) ==
               g = [i \in Sub |-> IF i = id THEN rootFile
                                  ELSE ChildFile(g[Doc(tree, i).parent], NameOf(Doc(tree, i)))]
             h == [i \in Sub |-> CHOOSE p \in Paths : <<i, p>> \in R]
  <1>a. OnePlaceEach(tree, id, rootFile, R)
    BY PlaceIsUnique
  <1>1. \A i \in Sub \ {id} : Doc(tree, i).parent \in Sub /\ NameOf(Doc(tree, i)) \in Names
    BY SubtreeParents, SubtreeCloses, IdHasFile
  <1> HIDE DEF R
  <1>0. /\ \A p : <<id, p>> \in R <=> p = rootFile
        /\ \A i \in Sub \ {id} : \A p :
             <<i, p>> \in R <=>
               \E q \in Paths : /\ <<Doc(tree, i).parent, q>> \in R
                                /\ p = ChildFile(q, NameOf(Doc(tree, i)))
    BY <1>a DEF OnePlaceEach
  <1>2. \A i \in Sub : \E p \in Paths : \A x : <<i, x>> \in R <=> x = p
    <2> DEFINE ids == {i \in Sub : \E p \in Paths : \A x : <<i, x>> \in R <=> x = p}
    <2>1. id \in ids
      BY <1>0, SubtreeCloses
    <2>2. ASSUME NEW d \in Documents(tree), d.parent \in ids, d.parent \in Sub
          PROVE  d.id \in ids
      <3>1. CASE d.id = id
        BY <2>1, <3>1
      <3>2. CASE d.id # id
        <4>1. d.id \in Sub \ {id} /\ Doc(tree, d.id) = d
          BY <2>2, <3>2, SubtreeCloses, DocOfDocument DEF ClosedUnderChildren
        <4>2. PICK q \in Paths : \A x : <<d.parent, x>> \in R <=> x = q
          BY <2>2
        <4>3. ChildFile(q, NameOf(d)) \in Paths
          BY <1>1, <4>1, AppendPath DEF ChildFile
        <4>4. \A p : <<d.id, p>> \in R <=> p = ChildFile(q, NameOf(d))
          <5>1. \A p : <<d.id, p>> \in R <=> \E x \in Paths : /\ <<d.parent, x>> \in R
                                                         /\ p = ChildFile(x, NameOf(d))
            <6> DEFINE i == d.id
            <6>1. i \in Sub \ {id} /\ Doc(tree, i) = d
              BY <4>1
            <6> HIDE DEF i, Sub
            <6>2. \A p : <<i, p>> \in R <=> \E x \in Paths : /\ <<Doc(tree, i).parent, x>> \in R
                                                         /\ p = ChildFile(x, NameOf(Doc(tree, i)))
              BY <1>0, <6>1
            <6>3. QED
              BY <6>1, <6>2 DEF i
          <5>2. <<d.parent, q>> \in R /\ \A x : <<d.parent, x>> \in R => x = q
            BY <4>2
          <5>3. SUFFICES ASSUME NEW p
                         PROVE  <<d.id, p>> \in R <=> p = ChildFile(q, NameOf(d))
            OBVIOUS
          <5>4. QED
            BY <4>2, <5>1, <5>2
        <4>5. QED
          BY <4>1, <4>3, <4>4
      <3>3. QED
        BY <3>1, <3>2
    <2>3. Sub \subseteq ids
      <3> HIDE DEF ids
      <3> QED
        BY <2>1, <2>2, SubtreeLeast
    <2>4. QED
      BY <2>3
  <1>3. \A i \in Sub : h[i] \in Paths /\ \A p : <<i, p>> \in R <=> p = h[i]
    <2>1. SUFFICES ASSUME NEW i \in Sub
                   PROVE  h[i] \in Paths /\ \A p : <<i, p>> \in R <=> p = h[i]
      OBVIOUS
    <2>2. PICK p \in Paths : \A x : <<i, x>> \in R <=> x = p
      BY <1>2
    <2>3. h[i] = p
      BY <2>2
    <2>4. QED
      BY <2>2, <2>3
  <1>4. Solves(h)
    <2>1. h[id] = rootFile
      BY <1>0, <1>3, SubtreeCloses
    <2>2. ASSUME NEW i \in Sub \ {id}
          PROVE  h[i] = ChildFile(h[Doc(tree, i).parent], NameOf(Doc(tree, i)))
      <3>1. <<i, h[i]>> \in R
        BY <1>3
      <3>2. PICK q \in Paths : /\ <<Doc(tree, i).parent, q>> \in R
                               /\ h[i] = ChildFile(q, NameOf(Doc(tree, i)))
        <4> HIDE DEF h
        <4> QED
          BY <1>0, <3>1
      <3>3. q = h[Doc(tree, i).parent]
        BY <1>1, <1>3, <3>2
      <3>4. QED
        BY <3>2, <3>3
    <2>3. \A i \in Sub : h[i] = IF i = id THEN rootFile
                              ELSE ChildFile(h[Doc(tree, i).parent], NameOf(Doc(tree, i)))
      <3> HIDE DEF h
      <3> QED
        BY <2>1, <2>2
    <2>4. h \in [Sub -> Paths]
      BY <1>3
    <2>5. QED
      <3> HIDE DEF h
      <3> QED
        BY <2>3, <2>4
  <1>5. NewFiles(tree, id, rootFile) = CHOOSE g : Solves(g)
    BY DEF NewFiles
  <1>6. Solves(CHOOSE g : Solves(g))
    <2> HIDE DEF Solves
    <2> QED
      BY <1>4
  <1>7. QED
    BY <1>5, <1>6

LEMMA NewFilesMeans ==
  ASSUME NEW tree, IsGraph(tree), ~Faulted(tree), NEW id \in IdsIn(tree),
         NEW rootFile \in Paths
  PROVE  /\ NewFiles(tree, id, rootFile)[id] = rootFile
         /\ \A i \in Subtree(tree, id) :
              /\ NewFiles(tree, id, rootFile)[i] \in Paths
              /\ i # id => NewFiles(tree, id, rootFile)[i] =
                             ChildFile(NewFiles(tree, id, rootFile)[Doc(tree, i).parent],
                                       NameOf(Doc(tree, i)))
  <1> DEFINE Sub == Subtree(tree, id)
             new == NewFiles(tree, id, rootFile)
             ids == {i \in Sub : new[i] \in Paths}
  <1>1. new = [i \in Sub |-> IF i = id THEN rootFile
                             ELSE ChildFile(new[Doc(tree, i).parent], NameOf(Doc(tree, i)))]
    BY NewFilesSolve
  <1>2. id \in Sub /\ Sub \subseteq IdsIn(tree) /\ ClosedUnderChildren(tree, Sub)
    BY SubtreeCloses
  <1> HIDE DEF new, Sub
  <1>3. new[id] = rootFile /\ \A i \in Sub : i # id =>
          new[i] = ChildFile(new[Doc(tree, i).parent], NameOf(Doc(tree, i)))
    BY <1>1, <1>2
  <1>4. id \in ids
    BY <1>2, <1>3
  <1>5. ASSUME NEW d \in Documents(tree), d.parent \in ids
        PROVE  d.id \in ids
    <2>1. d.id \in Sub /\ Doc(tree, d.id) = d /\ NameOf(d) \in Names
      BY <1>2, <1>5, DocOfDocument, IdHasFile DEF ClosedUnderChildren
    <2>2. CASE d.id = id
      BY <1>4, <2>2
    <2>3. CASE d.id # id
      <3>1. new[d.id] = ChildFile(new[d.parent], NameOf(d))
        BY <1>3, <2>1, <2>3
      <3>2. QED
        BY <1>5, <2>1, <3>1, AppendPath DEF ChildFile
    <2>4. QED
      BY <2>2, <2>3
  <1>6. Sub \subseteq ids
    <2> HIDE DEF ids
    <2> QED
      BY <1>4, <1>5, SubtreeLeast DEF Sub
  <1>7. QED
    BY <1>3, <1>6 DEF new, Sub

-----------------------------------------------------------------------------
(* What a scan finds of a working tree.                                    *)
IsTree(tree) ==
  DOMAIN tree \subseteq Paths /\ tree \in [DOMAIN tree -> Items \cup {Broken, Alien}]

LEMMA ParsedMeans ==
  ASSUME NEW tree, IsTree(tree)
  PROVE  /\ IsGraph(Parsed(tree))
         /\ \A f : f \in DOMAIN Parsed(tree) <=>
                     f \in DOMAIN tree /\ tree[f] # Alien /\ EntersOnly(f)
         /\ \A f \in DOMAIN Parsed(tree) : Parsed(tree)[f] = tree[f]
         /\ Documents(Parsed(tree)) \subseteq Items
  <1>1. /\ \A f : f \in DOMAIN Parsed(tree) <=>
                    f \in DOMAIN tree /\ tree[f] # Alien /\ EntersOnly(f)
        /\ \A f \in DOMAIN Parsed(tree) : Parsed(tree)[f] = tree[f]
        /\ Parsed(tree) = [f \in DOMAIN Parsed(tree) |-> Parsed(tree)[f]]
    BY DEF Parsed
  <1> HIDE DEF Parsed
  <1>2. \A f \in DOMAIN Parsed(tree) : Parsed(tree)[f] \in Items \cup {Broken}
    BY <1>1 DEF IsTree
  <1>3. IsGraph(Parsed(tree))
    BY <1>1, <1>2 DEF IsTree, IsGraph
  <1>4. QED
    BY <1>1, <1>2, <1>3 DEF Documents

LEMMA PutMeans ==
  ASSUME NEW file \in Paths, NEW content \in Items \cup {Broken, Alien}, IsTree(disk),
         Put(file, content)
  PROVE  /\ IsTree(disk') /\ DOMAIN disk' = DOMAIN disk \cup {file}
         /\ disk'[file] = content
         /\ \A f \in DOMAIN disk \ {file} : disk'[f] = disk[f]
  BY DEF Put, IsTree

LEMMA PartialIsContent ==
  ASSUME NEW doc \in Items
  PROVE  Partial(doc) \subseteq Items \cup {Broken, Alien}
  <1>1. NoRef \in Paths
    BY EmptySeq DEF NoRef, Paths
  <1>2. [doc EXCEPT !.ref = NoRef] \in Items
    BY <1>1 DEF Items
  <1>3. QED
    BY <1>2 DEF Partial

LEMMA MovedIsItem ==
  ASSUME NEW doc \in Items, NEW id, NEW newParent \in Ids,
         NEW old \in Paths \ {NoRef}, NEW new \in Paths \ {NoRef}
  PROVE  /\ Follow(doc, old, new) \in Items
         /\ Follow(doc, old, new) =
              [id |-> doc.id, parent |-> doc.parent, path |-> doc.path,
               ref |-> Rewrite(doc.ref, old, new)]
         /\ Moved(doc, id, newParent, old, new) \in Items
         /\ Moved(doc, id, newParent, old, new) =
              [id |-> doc.id, parent |-> IF doc.id = id THEN newParent ELSE doc.parent,
               path |-> Rewrite(doc.path, old, new), ref |-> Rewrite(doc.ref, old, new)]
  <1>1. /\ doc.path \in Paths \ {NoRef} /\ doc.ref \in Paths
        /\ doc = [id |-> doc.id, parent |-> doc.parent, path |-> doc.path, ref |-> doc.ref]
        /\ doc.id \in Ids /\ doc.parent \in Ids \cup {Outside}
    BY DEF Items
  <1>2. Rewrite(doc.ref, old, new) \in Paths
    BY <1>1, RewriteMeans
  <1>3. Rewrite(doc.path, old, new) \in Paths \ {NoRef}
    <2>1. CASE IsPrefix(old, doc.path)
      <3>1. PICK r \in Paths : doc.path = old \o r
        BY <1>1, <2>1, PrefixContinues
      <3>2. Rewrite(doc.path, old, new) = new \o r
        BY <3>1, RewriteMeans
      <3>3. QED
        BY <3>2, JoinPaths
    <2>2. CASE ~IsPrefix(old, doc.path)
      BY <1>1, <2>2, RewriteMeans
    <2>3. QED
      BY <2>1, <2>2
  <1> DEFINE ref == Rewrite(doc.ref, old, new)
             path == Rewrite(doc.path, old, new)
  <1>4. Follow(doc, old, new) =
          [id |-> doc.id, parent |-> doc.parent, path |-> doc.path, ref |-> ref]
    BY <1>1 DEF Follow
  <1>5. Moved(doc, id, newParent, old, new) =
          [id |-> doc.id, parent |-> IF doc.id = id THEN newParent ELSE doc.parent,
           path |-> path, ref |-> ref]
    <2> DEFINE follow == [id |-> doc.id, parent |-> doc.parent, path |-> doc.path, ref |-> ref]
               parent == IF doc.id = id THEN newParent ELSE doc.parent
    <2>1. Moved(doc, id, newParent, old, new) =
            [follow EXCEPT !.parent = parent, !.path = path]
      <3> HIDE DEF follow
      <3> QED
        BY <1>4 DEF Moved, follow
    <2> HIDE DEF ref, path, parent
    <2>2. [follow EXCEPT !.parent = parent] =
            [id |-> doc.id, parent |-> parent, path |-> doc.path, ref |-> ref]
      OBVIOUS
    <2>3. [[id |-> doc.id, parent |-> parent, path |-> doc.path, ref |-> ref]
              EXCEPT !.path = path] =
            [id |-> doc.id, parent |-> parent, path |-> path, ref |-> ref]
      OBVIOUS
    <2>4. [follow EXCEPT !.parent = parent, !.path = path] =
            [id |-> doc.id, parent |-> parent, path |-> path, ref |-> ref]
      BY ONLY <2>2, <2>3
    <2>5. QED
      BY <2>1, <2>4 DEF parent
  <1> HIDE DEF ref, path
  <1>6. Follow(doc, old, new) \in Items
    BY <1>1, <1>2, <1>4 DEF Items, ref
  <1>7. Moved(doc, id, newParent, old, new) \in Items
    <2> DEFINE parent == IF doc.id = id THEN newParent ELSE doc.parent
    <2>1. parent \in Ids \cup {Outside}
      BY <1>1
    <2> HIDE DEF parent
    <2>2. [id |-> doc.id, parent |-> parent, path |-> path, ref |-> ref] \in Items
      BY <1>1, <1>2, <1>3, <2>1 DEF Items, ref, path
    <2>3. QED
      BY <1>5, <2>2 DEF parent
  <1>8. QED
    BY <1>4, <1>5, <1>6, <1>7 DEF ref, path

-----------------------------------------------------------------------------
(* What a move plans, in the words of the module.                          *)
NewPath(tree, parent, name) == Append(Doc(tree, parent).path, name)
NewAt(tree, id, parent, name) == NewFiles(tree, id, ChildFile(FileOf(tree, parent), name))
Moves(tree, id, parent, name) ==
  {[file |-> NewAt(tree, id, parent, name)[i],
    doc  |-> Moved(Doc(tree, i), id, parent, Doc(tree, id).path, NewPath(tree, parent, name))] :
     i \in Subtree(tree, id)}
Kept(tree, id) == {d \in Documents(tree) : d.id \notin Subtree(tree, id)}
Others(tree, id, parent, name) ==
  {[file |-> FileOf(tree, d.id),
    doc  |-> Follow(d, Doc(tree, id).path, NewPath(tree, parent, name))] :
     d \in {e \in Kept(tree, id) : IsPrefix(Doc(tree, id).path, e.ref)}}
Vacates(tree, id, parent, name) ==
  {FileOf(tree, i) :
     i \in {j \in Subtree(tree, id) : NewAt(tree, id, parent, name)[j] # FileOf(tree, j)}}

LEMMA MoveItemMeans ==
  ASSUME NEW id, NEW parent, NEW name, MoveItem(id, parent, name)
  PROVE  /\ MayAct
         /\ id \in IdsIn(files) /\ parent \in IdsIn(files) /\ parent # id
         /\ ~IsPrefix(Doc(files, id).path, Doc(files, parent).path)
         /\ \A c \in Children(files, parent) : c.id # id => NameOf(c) # name
         /\ \A i \in Subtree(files, id) :
              NewAt(files, id, parent, name)[i] # FileOf(files, i) =>
                NewAt(files, id, parent, name)[i] \notin DOMAIN disk
         /\ Begin(Moves(files, id, parent, name), Others(files, id, parent, name),
                  Vacates(files, id, parent, name))
  BY DEF MoveItem, Moves, Kept, Others, Vacates, NewAt, NewPath

LEMMA MovePlanIsTyped ==
  ASSUME NEW tree, IsGraph(tree), ~Faulted(tree),
         NEW id \in IdsIn(tree), NEW parent \in IdsIn(tree), NEW name \in Names
  PROVE  /\ Moves(tree, id, parent, name) \subseteq [file : Paths, doc : Items]
         /\ Others(tree, id, parent, name) \subseteq [file : Paths, doc : Items]
         /\ Vacates(tree, id, parent, name) \subseteq Paths
         /\ \A i \in Subtree(tree, id) : NewAt(tree, id, parent, name)[i] \in Paths
         /\ Doc(tree, id).path \in Paths \ {NoRef}
         /\ NewPath(tree, parent, name) \in Paths \ {NoRef} /\ parent \in Ids
  <1> DEFINE old == Doc(tree, id).path
             new == NewPath(tree, parent, name)
             at == NewAt(tree, id, parent, name)
             Sub == Subtree(tree, id)
  <1>1. /\ old \in Paths \ {NoRef} /\ Doc(tree, parent).path \in Paths /\ parent \in Ids
        /\ FileOf(tree, parent) \in Paths
    BY IdHasFile DEF Items
  <1>2. new \in Paths \ {NoRef} /\ ChildFile(FileOf(tree, parent), name) \in Paths
    BY <1>1, AppendPath DEF NewPath, ChildFile
  <1>3. \A i \in Sub : at[i] \in Paths
    BY <1>2, NewFilesMeans DEF NewAt
  <1>4. \A i \in Sub : Doc(tree, i) \in Items /\ FileOf(tree, i) \in Paths
    BY SubtreeCloses, IdHasFile
  <1> HIDE DEF old, new, at, Sub
  <1>5. Moves(tree, id, parent, name) \subseteq [file : Paths, doc : Items]
    <2>1. \A i \in Sub : Moved(Doc(tree, i), id, parent, old, new) \in Items
      BY <1>1, <1>2, <1>4, MovedIsItem
    <2>2. \A i \in Sub : [file |-> at[i], doc |-> Moved(Doc(tree, i), id, parent, old, new)]
                           \in [file : Paths, doc : Items]
      BY <1>3, <2>1
    <2>3. Moves(tree, id, parent, name) =
            {[file |-> at[i], doc |-> Moved(Doc(tree, i), id, parent, old, new)] : i \in Sub}
      BY DEF Moves, at, old, new, Sub
    <2>4. QED
      BY <2>2, <2>3
  <1>6. Others(tree, id, parent, name) \subseteq [file : Paths, doc : Items]
    <2>1. \A d \in Documents(tree) : /\ FileOf(tree, d.id) \in Paths
                                     /\ Follow(d, old, new) \in Items
      BY <1>1, <1>2, DocOfDocument, IdHasFile, MovedIsItem
    <2>2. \A d \in Documents(tree) : [file |-> FileOf(tree, d.id), doc |-> Follow(d, old, new)]
                                       \in [file : Paths, doc : Items]
      BY <2>1
    <2>3. Others(tree, id, parent, name) =
            {[file |-> FileOf(tree, d.id), doc |-> Follow(d, old, new)] :
               d \in {e \in Kept(tree, id) : IsPrefix(old, e.ref)}}
      BY DEF Others, old, new
    <2>4. Kept(tree, id) \subseteq Documents(tree)
      BY DEF Kept
    <2>5. QED
      BY <2>2, <2>3, <2>4
  <1>7. Vacates(tree, id, parent, name) \subseteq Paths
    BY <1>4 DEF Vacates, Sub
  <1>8. QED
    BY <1>1, <1>2, <1>3, <1>5, <1>6, <1>7 DEF old, new, at, Sub

LEMMA BeginIsTyped ==
  ASSUME TypeOK, NEW moves, NEW others, NEW old,
         moves \cup others \subseteq [file : Paths, doc : Items], old \subseteq Paths,
         MayAct, Begin(moves, others, old)
  PROVE  TypeOK'
  <1>1. \A w \in moves \cup others : w.file \in Paths /\ w.doc \in Items
    OBVIOUS
  <1>2. before' \subseteq Items
    BY ParsedMeans DEF TypeOK, Begin, IsTree
  <1>3. after' \subseteq Items
    BY <1>1, <1>2 DEF Begin
  <1>4. relocations' \cup rewrites' \subseteq [file : Paths, doc : Items]
    BY DEF Begin
  <1>5. vacated' \cup refresh' \subseteq Paths
    BY <1>1 DEF Begin
  <1>6. requests' \in 0..MaxRequests /\ blind' \in BOOLEAN
    BY BoundsAssumption DEF MayAct, Begin, TypeOK
  <1>7. QED
    BY <1>2, <1>3, <1>4, <1>5, <1>6 DEF TypeOK, Begin

(* The types of the model: every file holds an item or a mark, and nothing *)
(* planned, vacated or abandoned is other than a file path.                *)
THEOREM MoveTypes == Spec => []TypeOK
  <1>1. Init => TypeOK
    <2> SUFFICES ASSUME Init PROVE TypeOK
      OBVIOUS
    <2>2. /\ disk \in InitialTrees /\ files = << >> /\ pc = "down"
          /\ relocations = {} /\ rewrites = {} /\ vacated = {} /\ refresh = {}
          /\ requests = 0 /\ failures = 0
          /\ before = Documents(Parsed(disk)) /\ after = before
          /\ abandoned = {} /\ blind = FALSE /\ risked = {}
      BY DEF Init
    <2>3. IsTree(disk)
      <3>1. /\ DOMAIN disk \subseteq Paths /\ disk = [f \in DOMAIN disk |-> disk[f]]
            /\ \A f \in DOMAIN disk : disk[f] \in Items \cup {Broken, Alien}
        BY <2>2, TreesAssumption, Zenon
      <3>2. [f \in DOMAIN disk |-> disk[f]] \in [DOMAIN disk -> Items \cup {Broken, Alien}]
        BY <3>1
      <3>3. QED
        BY <3>1, <3>2, Zenon DEF IsTree
    <2>4. Documents(Parsed(disk)) \subseteq Items
      BY <2>3, ParsedMeans
    <2>5. DOMAIN files = {} /\ files \in [DOMAIN files -> Items \cup {Broken}]
      <3>1. files \in Seq(Items) /\ Len(files) = 0
        BY <2>2, EmptySeq
      <3>2. files \in [1..0 -> Items] /\ DOMAIN files = 1..0
        BY ONLY <3>1, LenProperties
      <3>3. QED
        BY <3>2
    <2>6. requests \in 0..MaxRequests /\ failures \in 0..MaxFailures
      BY <2>2, BoundsAssumption
    <2>7. before \cup after \subseteq Items /\ abandoned \subseteq Paths
          /\ blind \in BOOLEAN /\ risked \subseteq Ids
      BY <2>2, <2>4
    <2>8. /\ relocations \cup rewrites \subseteq [file : Paths, doc : Items]
          /\ vacated \cup refresh \subseteq Paths
      BY <2>2
    <2>9. QED
      BY <2>2, <2>3, <2>5, <2>6, <2>7, <2>8, Zenon DEF TypeOK, IsTree
  <1>2. TypeOK /\ [Next]_vars => TypeOK'
    <2> SUFFICES ASSUME TypeOK, [Next]_vars PROVE TypeOK'
      OBVIOUS
    <2>0. IsTree(disk) /\ IsGraph(files)
      BY DEF TypeOK, IsTree, IsGraph
    <2>1. CASE Open
      BY <2>0, <2>1, ParsedMeans DEF Open, TypeOK, IsGraph, plan
    <2>2. CASE \E id \in Ids, parent \in Ids, name \in Names : Forge(id, parent, name)
      <3>1. PICK id \in Ids, parent \in Ids, name \in Names : Forge(id, parent, name)
        BY <2>2
      <3> DEFINE p == Doc(files, parent)
                 file == ChildFile(FileOf(files, parent), name)
                 doc == [id |-> id, parent |-> parent, path |-> Append(p.path, name), ref |-> NoRef]
      <3>2. MayAct /\ parent \in IdsIn(files) /\ Begin({[file |-> file, doc |-> doc]}, {}, {})
        BY <3>1 DEF Forge
      <3>3. p \in Items /\ FileOf(files, parent) \in Paths
        BY <2>0, <3>2, IdHasFile DEF MayAct
      <3>4. file \in Paths /\ Append(p.path, name) \in Paths \ {NoRef} /\ NoRef \in Paths
        BY <3>3, AppendPath, EmptySeq DEF Items, ChildFile, NoRef, Paths
      <3>5. [file |-> file, doc |-> doc] \in [file : Paths, doc : Items]
        BY <3>4 DEF Items
      <3> HIDE DEF file, doc
      <3>6. QED
        BY <3>2, <3>5, BeginIsTyped
    <2>3. CASE \E id \in Ids, parent \in Ids, name \in Names : MoveItem(id, parent, name)
      <3>1. PICK id \in Ids, parent \in Ids, name \in Names : MoveItem(id, parent, name)
        BY <2>3
      <3>2. MayAct /\ ~Faulted(files)
        BY <3>1, MoveItemMeans DEF MayAct
      <3>3. QED
        BY <2>0, <3>1, <3>2, MoveItemMeans, MovePlanIsTyped, BeginIsTyped
    <2>4. CASE \E w \in relocations \cup rewrites : StartWrite(w)
      <3>1. PICK w \in relocations \cup rewrites : StartWrite(w)
        BY <2>4
      <3>2. w \in [file : Paths, doc : Items]
        BY DEF TypeOK
      <3>3. w.file \in Paths /\ w.doc.id \in Ids
        BY <3>2 DEF Items
      <3>4. IsTree(disk')
        BY <2>0, <3>1, <3>3, PutMeans DEF StartWrite
      <3>5. risked' \subseteq Ids
        BY <3>1, <3>3 DEF StartWrite, TypeOK
      <3>6. QED
        BY <3>1, <3>2, <3>4, <3>5 DEF StartWrite, TypeOK, IsTree
    <2>5. CASE FinishWrite
      <3>1. current.file \in Paths /\ current.doc \in Items
        BY <2>5 DEF FinishWrite, TypeOK
      <3>2. IsTree(disk')
        BY <2>0, <2>5, <3>1, PutMeans DEF FinishWrite
      <3>3. QED
        BY <2>5, <3>2 DEF FinishWrite, TypeOK, IsTree, plan
    <2>6. CASE \E f \in vacated : RemoveOld(f)
      <3>1. PICK f \in vacated : RemoveOld(f)
        BY <2>6
      <3>2. CASE f \in DOMAIN disk
        BY <3>1, <3>2 DEF RemoveOld, TypeOK
      <3>3. CASE f \notin DOMAIN disk
        BY <3>1, <3>3 DEF RemoveOld, Abort, TypeOK
      <3>4. QED
        BY <3>2, <3>3
    <2>7. CASE RefreshPaths
      <3>1. \A f \in DOMAIN Parsed(disk) : disk[f] \in Items \cup {Broken}
        BY <2>0, ParsedMeans DEF IsTree
      <3>2. DOMAIN files' \subseteq Paths /\ files' \in [DOMAIN files' -> Items \cup {Broken}]
        BY <2>0, <2>7, <3>1, ParsedMeans DEF RefreshPaths, IsGraph, TypeOK
      <3>3. QED
        BY <2>7, <3>2 DEF RefreshPaths, TypeOK, history
    <2>8. CASE Fail
      <3>1. IsTree(disk')
        <4>1. CASE UNCHANGED disk
          BY <2>0, <4>1
        <4>2. CASE pc = "filling" /\ \E content \in Partial(current.doc) : Put(current.file, content)
          BY <2>0, <4>2, PutMeans, PartialIsContent DEF TypeOK
        <4>3. QED
          BY <2>8, <4>1, <4>2 DEF Fail
      <3>2. failures' \in 0..MaxFailures
        BY <2>8, BoundsAssumption DEF Fail, TypeOK
      <3>3. QED
        BY <2>8, <3>1, <3>2 DEF Fail, Abort, TypeOK, IsTree
    <2>9. CASE Kill
      <3>1. failures' \in 0..MaxFailures
        BY <2>9, BoundsAssumption DEF Kill, TypeOK
      <3>2. files' = [f \in {} |-> f]
        BY <2>9 DEF Kill
      <3>3. DOMAIN files' \subseteq Paths /\ files' \in [DOMAIN files' -> Items \cup {Broken}]
        BY <3>2
      <3>4. QED
        BY <2>9, <3>1, <3>3 DEF Kill, TypeOK
    <2>10. CASE UNCHANGED vars
      BY <2>10 DEF vars, plan, history, TypeOK
    <2>11. QED
      BY <2>1, <2>2, <2>3, <2>4, <2>5, <2>6, <2>7, <2>8, <2>9, <2>10 DEF Next
  <1>3. QED
    BY <1>1, <1>2, PTL DEF Spec

-----------------------------------------------------------------------------
(* The graph in memory and a scan agree at a path: the same record, or no  *)
(* item file.                                                              *)
Agrees(f) ==
  /\ f \in DOMAIN files <=> f \in DOMAIN Found
  /\ f \in DOMAIN files => files[f] = Found[f]

(* The inductive invariant behind GraphMirrorsDisk: a running server's     *)
(* graph is stale at most where a failed request has been, and where the   *)
(* request under way is going to re-parse; it writes nowhere else.         *)
Mirror ==
  /\ pc # "down" => \A f : f \notin abandoned \cup refresh => Agrees(f)
  /\ \A w \in relocations \cup rewrites : w.file \in refresh
  /\ vacated \subseteq refresh
  /\ pc = "filling" => current.file \in refresh
  /\ pc \in {"idle", "down"} =>
       relocations = {} /\ rewrites = {} /\ vacated = {} /\ refresh = {}

LEMMA ScanMeans ==
  ASSUME TypeOK
  PROVE  /\ IsTree(disk) /\ IsGraph(files) /\ IsGraph(Found)
         /\ \A f : f \in DOMAIN Found <=> f \in DOMAIN disk /\ disk[f] # Alien /\ EntersOnly(f)
         /\ \A f \in DOMAIN Found : Found[f] = disk[f]
  <1>1. IsTree(disk) /\ IsGraph(files)
    BY DEF TypeOK, IsTree, IsGraph
  <1>2. QED
    BY <1>1, ParsedMeans DEF Found

(* A file that is left alone is found as before.                           *)
LEMMA UntouchedFile ==
  ASSUME TypeOK, TypeOK', NEW f,
         f \in DOMAIN disk' <=> f \in DOMAIN disk,
         f \in DOMAIN disk => disk'[f] = disk[f]
  PROVE  /\ f \in DOMAIN Found' <=> f \in DOMAIN Found
         /\ f \in DOMAIN Found => Found'[f] = Found[f]
  <1>1. /\ f \in DOMAIN Found <=> f \in DOMAIN disk /\ disk[f] # Alien /\ EntersOnly(f)
        /\ f \in DOMAIN Found => Found[f] = disk[f]
    BY ScanMeans
  <1>2. IsTree(disk')
    BY DEF TypeOK, IsTree
  <1>3. /\ f \in DOMAIN Found' <=> f \in DOMAIN disk' /\ disk'[f] # Alien /\ EntersOnly(f)
        /\ f \in DOMAIN Found' => Found'[f] = disk'[f]
    BY <1>2, ParsedMeans DEF Found
  <1>4. QED
    BY <1>1, <1>3

LEMMA AgreesStays ==
  ASSUME TypeOK, TypeOK', UNCHANGED files, NEW f, Agrees(f),
         f \in DOMAIN disk' <=> f \in DOMAIN disk,
         f \in DOMAIN disk => disk'[f] = disk[f]
  PROVE  Agrees(f)'
  <1>1. /\ f \in DOMAIN Found' <=> f \in DOMAIN Found
        /\ f \in DOMAIN Found => Found'[f] = Found[f]
    BY UntouchedFile
  <1>2. QED
    BY <1>1 DEF Agrees

LEMMA AlwaysMirrored == Spec => []Mirror
  <1>1. Init => Mirror
    BY DEF Init, Mirror
  <1>2. TypeOK /\ TypeOK' /\ Mirror /\ [Next]_vars => Mirror'
    <2> SUFFICES ASSUME TypeOK, TypeOK', Mirror, [Next]_vars PROVE Mirror'
      OBVIOUS
    <2>0. ASSUME UNCHANGED <<disk, files>>, NEW f, Agrees(f) PROVE Agrees(f)'
      BY <2>0 DEF Agrees, Found
    <2>1. CASE Open
      <3>1. \A f : Agrees(f)'
        BY <2>1 DEF Open, Agrees, Found
      <3>2. QED
        BY <2>1, <3>1 DEF Open, Mirror, plan
    <2>2. ASSUME NEW moves, NEW others, NEW old, MayAct, Begin(moves, others, old)
          PROVE  Mirror'
      <3>1. \A f : f \notin abandoned => Agrees(f)
        BY <2>2 DEF Mirror, MayAct
      <3>2. \A f : f \notin abandoned' => Agrees(f)'
        BY <2>0, <2>2, <3>1 DEF Begin
      <3>3. \A w \in moves \cup others : w.file \in refresh'
        BY <2>2 DEF Begin
      <3>4. QED
        BY <2>2, <3>2, <3>3 DEF Begin, Mirror
    <2>3. CASE \E id \in Ids, parent \in Ids, name \in Names :
                 Forge(id, parent, name) \/ MoveItem(id, parent, name)
      <3>1. PICK id \in Ids, parent \in Ids, name \in Names :
              Forge(id, parent, name) \/ MoveItem(id, parent, name)
        BY <2>3
      <3>2. CASE Forge(id, parent, name)
        BY <2>2, <3>2 DEF Forge
      <3>3. CASE MoveItem(id, parent, name)
        BY <2>2, <3>3, MoveItemMeans
      <3>4. QED
        BY <3>1, <3>2, <3>3
    <2>4. ASSUME NEW file \in refresh, NEW content \in Items \cup {Broken, Alien},
                 file \in Paths, Put(file, content), UNCHANGED files,
                 abandoned \cup refresh \subseteq abandoned' \cup refresh', pc # "down"
          PROVE  \A f : f \notin abandoned' \cup refresh' => Agrees(f)'
      <3>1. SUFFICES ASSUME NEW f, f \notin abandoned' \cup refresh' PROVE Agrees(f)'
        OBVIOUS
      <3>2. Agrees(f) /\ f # file
        BY <2>4, <3>1 DEF Mirror
      <3>3. /\ f \in DOMAIN disk' <=> f \in DOMAIN disk
            /\ f \in DOMAIN disk => disk'[f] = disk[f]
        BY <2>4, <3>2, ScanMeans, PutMeans
      <3>4. QED
        BY <2>4, <3>2, <3>3, AgreesStays
    <2>5. CASE \E w \in relocations \cup rewrites : StartWrite(w)
      <3>1. PICK w \in relocations \cup rewrites : StartWrite(w)
        BY <2>5
      <3>2. w.file \in refresh /\ w.file \in Paths
        BY <3>1 DEF Mirror, TypeOK
      <3>3. \A f : f \notin abandoned' \cup refresh' => Agrees(f)'
        BY <2>4, <3>1, <3>2 DEF StartWrite
      <3>4. QED
        BY <3>1, <3>2, <3>3 DEF StartWrite, Mirror
    <2>6. CASE FinishWrite
      <3>1. current.file \in refresh /\ current.file \in Paths /\ current.doc \in Items
        BY <2>6 DEF FinishWrite, Mirror, TypeOK
      <3>2. \A f : f \notin abandoned' \cup refresh' => Agrees(f)'
        BY <2>4, <2>6, <3>1 DEF FinishWrite, plan
      <3>3. QED
        BY <2>6, <3>2 DEF FinishWrite, plan, Mirror
    <2>7. CASE \E f \in vacated : RemoveOld(f)
      <3>1. PICK f \in vacated : RemoveOld(f)
        BY <2>7
      <3>2. CASE f \in DOMAIN disk
        <4>1. ASSUME NEW g, g \notin abandoned' \cup refresh' PROVE Agrees(g)'
          <5>1. Agrees(g) /\ g # f
            BY <3>1, <3>2, <4>1 DEF RemoveOld, Mirror
          <5>2. /\ g \in DOMAIN disk' <=> g \in DOMAIN disk
                /\ g \in DOMAIN disk => disk'[g] = disk[g]
            BY <3>1, <3>2, <5>1 DEF RemoveOld
          <5>3. UNCHANGED files
            BY <3>1 DEF RemoveOld
          <5>4. QED
            BY <5>1, <5>2, <5>3, AgreesStays
        <4>2. QED
          BY <3>1, <3>2, <4>1 DEF RemoveOld, Mirror
      <3>3. CASE f \notin DOMAIN disk
        <4>1. \A g : g \notin abandoned' \cup refresh' => Agrees(g)'
          BY <2>0, <3>1, <3>3 DEF RemoveOld, Abort, Mirror
        <4>2. QED
          BY <3>1, <3>3, <4>1 DEF RemoveOld, Abort, Mirror
      <3>4. QED
        BY <3>2, <3>3
    <2>8. CASE RefreshPaths
      <3>1. ASSUME NEW f, f \notin abandoned' \cup refresh' PROVE Agrees(f)'
        <4>0. f \notin abandoned /\ pc # "down" /\ UNCHANGED disk
          BY <2>8, <3>1 DEF RefreshPaths, history
        <4>a. UNCHANGED Found
          BY <4>0 DEF Found
        <4>b. /\ f \in DOMAIN files' <=>
                   f \in (DOMAIN files \ refresh) \cup (DOMAIN Found \cap refresh)
              /\ f \in DOMAIN files' =>
                   files'[f] = IF f \in refresh THEN disk[f] ELSE files[f]
          BY <2>8 DEF RefreshPaths, Found
        <4>1. CASE f \in refresh
          BY <4>a, <4>b, <4>1, ScanMeans DEF Agrees
        <4>2. CASE f \notin refresh
          <5>1. Agrees(f)
            BY <4>0, <4>2 DEF Mirror
          <5>2. QED
            BY <4>a, <4>b, <4>2, <5>1 DEF Agrees
        <4>3. QED
          BY <4>1, <4>2
      <3>2. QED
        BY <2>8, <3>1 DEF RefreshPaths, Mirror
    <2>9. CASE Fail
      <3>1. \A f : f \notin abandoned' \cup refresh' => Agrees(f)'
        <4>1. CASE pc = "writing" /\ UNCHANGED disk
          BY <2>0, <2>9, <4>1 DEF Fail, Abort, Mirror
        <4>2. CASE pc = "filling" /\ \E content \in Partial(current.doc) : Put(current.file, content)
          <5>1. PICK content \in Partial(current.doc) : Put(current.file, content)
            BY <4>2
          <5>2. /\ current.file \in refresh /\ current.file \in Paths
                /\ content \in Items \cup {Broken, Alien}
            BY <4>2, PartialIsContent DEF Mirror, TypeOK
          <5>3. QED
            BY <2>4, <2>9, <4>2, <5>1, <5>2 DEF Fail, Abort
        <4>3. QED
          BY <2>9, <4>1, <4>2 DEF Fail
      <3>2. QED
        BY <2>9, <3>1 DEF Fail, Abort, Mirror
    <2>10. CASE Kill
      BY <2>10 DEF Kill, Mirror
    <2>11. CASE UNCHANGED vars
      <3>1. \A f : Agrees(f) => Agrees(f)'
        BY <2>0, <2>11 DEF vars
      <3>2. QED
        BY <2>11, <3>1 DEF vars, plan, history, Mirror
    <2>12. QED
      BY <2>1, <2>3, <2>5, <2>6, <2>7, <2>8, <2>9, <2>10, <2>11 DEF Next
  <1>3. QED
    BY <1>1, <1>2, MoveTypes, PTL DEF Spec

(* Between requests the graph in memory is what a scan of the disk would   *)
(* give, except where a failed request has been since the last full scan:  *)
(* whatever the tree, the moves and the I/O errors.                        *)
THEOREM GraphIsMirrored == Spec => []GraphMirrorsDisk
  <1>1. Mirror => GraphMirrorsDisk
    BY DEF Mirror, GraphMirrorsDisk, Agrees
  <1>2. QED
    BY <1>1, AlwaysMirrored, PTL

-----------------------------------------------------------------------------
(* A tree as the code lays it out, with no fault in it.                    *)
Good(tree) == ~Faulted(tree) /\ Placed(tree)

LEMMA JoinCancelsRight ==
  ASSUME NEW p \in Paths, NEW q \in Paths, NEW r \in Paths, p \o r = q \o r
  PROVE  p = q
  BY ConcatSimplifications DEF Paths

LEMMA AbovePrefix ==
  ASSUME NEW p \in Paths, NEW n \in Names, NEW q \in Paths, IsPrefix(Append(p, n), q)
  PROVE  IsPrefix(p, q) /\ Len(p) < Len(q) /\ q # p
  <1>1. /\ Append(p, n) \in Paths /\ Len(Append(p, n)) = Len(p) + 1
        /\ Len(p) \in Nat /\ Len(q) \in Nat
    BY AppendPath, AppendProperties, LenProperties DEF Paths
  <1>2. Len(Append(p, n)) <= Len(q)
    BY <1>1, PrefixContinues
  <1>3. PICK r \in Paths : q = Append(p, n) \o r
    BY <1>1, PrefixContinues
  <1>4. Append(p, n) = p \o <<n>> /\ <<n>> \in Paths
    BY AppendIsConcat DEF Paths
  <1>5. q = p \o (<<n>> \o r) /\ <<n>> \o r \in Paths
    BY <1>3, <1>4, ConcatAssociative, JoinPaths DEF Paths
  <1>6. IsPrefix(p, q)
    BY <1>5, PrefixContinues
  <1>7. QED
    BY <1>1, <1>2, <1>6

LEMMA PrefixOfPrefix ==
  ASSUME NEW p \in Paths, NEW q \in Paths, NEW s \in Paths, IsPrefix(p, q), IsPrefix(q, s)
  PROVE  IsPrefix(p, s)
  <1>1. PICK r \in Paths : q = p \o r
    BY PrefixContinues
  <1>2. PICK t \in Paths : s = q \o t
    BY PrefixContinues
  <1>3. s = p \o (r \o t) /\ r \o t \in Paths
    BY <1>1, <1>2, ConcatAssociative, JoinPaths DEF Paths
  <1>4. QED
    BY <1>3, PrefixContinues

LEMMA ShortestExists ==
  ASSUME NEW S \in SUBSET Paths, S # {}
  PROVE  \E p \in S : \A q \in S : Len(p) <= Len(q)
  <1> DEFINE lens == {Len(p) : p \in S}
  <1>1. lens \subseteq Nat /\ lens # {}
    BY LenProperties DEF Paths
  <1>2. PICK k \in lens : \A j \in lens : ~ (<<j, k>> \in OpToRel(<, Nat))
    <2> HIDE DEF lens
    <2> QED
      BY <1>1, NatLessThanWellFounded, WFMin
  <1>3. \A j \in lens : k <= j
    <2> HIDE DEF lens
    <2>1. \A j \in lens : ~ (j < k)
      BY <1>1, <1>2, Zenon DEF OpToRel
    <2>2. QED
      BY <1>1, <2>1
  <1>4. QED
    BY <1>3

(* Nothing lies at or below the place of a child that is not there: along  *)
(* the parent links, the highest item there would be such a child or a     *)
(* root below another item.  "at" is the file or the path of an item.      *)
Layout(D, parent, id, at, label, g0, name, kept) ==
  /\ g0 \in D /\ name \in Names /\ kept \subseteq D
  /\ \A f \in D : at[f] \in Paths /\ label[f] \in Names
  /\ \A f \in kept : parent[f] # Outside =>
       \E g \in kept : id[g] = parent[f] /\ at[f] = Append(at[g], label[f])
  /\ \A f \in kept : parent[f] = Outside => \A g \in D \ {f} : ~IsPrefix(at[g], at[f])
  /\ \A f \in D, g \in D : at[f] = at[g] => f = g
  /\ \A f \in kept : parent[f] = id[g0] => label[f] # name

LEMMA NothingBelow ==
  ASSUME NEW D, NEW parent, NEW id, NEW at, NEW label, NEW g0, NEW name, NEW kept,
         Layout(D, parent, id, at, label, g0, name, kept)
  PROVE  \A f \in kept : ~IsPrefix(Append(at[g0], name), at[f])
  <1> DEFINE new == Append(at[g0], name)
             bad == {f \in kept : IsPrefix(new, at[f])}
  <1> USE DEF Layout
  <1>1. SUFFICES ASSUME bad # {} PROVE FALSE
    OBVIOUS
  <1>2. PICK f \in bad : \A g \in bad : Len(at[f]) <= Len(at[g])
    <2>1. {at[f] : f \in bad} \in SUBSET Paths /\ {at[f] : f \in bad} # {}
      BY <1>1
    <2>2. PICK p \in {at[f] : f \in bad} : \A q \in {at[f] : f \in bad} : Len(p) <= Len(q)
      <3> HIDE DEF bad
      <3> QED
        BY <2>1, ShortestExists
    <2>3. QED
      BY <2>2
  <1>3. f \in kept /\ IsPrefix(new, at[f]) /\ at[f] \in Paths /\ at[g0] \in Paths /\ new \in Paths
    BY AppendPath
  <1>4. IsPrefix(at[g0], at[f]) /\ at[f] # at[g0]
    BY <1>3, AbovePrefix
  <1>5. PICK g \in kept : id[g] = parent[f] /\ at[f] = Append(at[g], label[f])
    BY <1>3, <1>4
  <1>6. at[g] \in Paths /\ label[f] \in Names
    BY <1>3, <1>5
  <1>7. CASE IsPrefix(new, at[g])
    <2>1. Len(at[f]) = Len(at[g]) + 1 /\ Len(at[g]) \in Nat
      BY <1>5, <1>6, AppendProperties, LenProperties DEF Paths
    <2>2. Len(at[f]) <= Len(at[g])
      BY <1>2, <1>7
    <2>3. QED
      BY <2>1, <2>2
  <1>8. CASE new = at[f]
    <2>1. at[g0] = at[g] /\ name = label[f]
      <3>1. Append(at[g0], name) = Append(at[g], label[f])
        BY <1>5, <1>8
      <3>2. QED
        BY <1>3, <1>6, <3>1, AppendOnce
    <2>2. QED
      BY <1>3, <1>5, <2>1
  <1>9. QED
    <2>1. IsPrefix(new, Append(at[g], label[f]))
      BY <1>3, <1>5
    <2> HIDE DEF new
    <2>2. IsPrefix(new, at[g]) \/ new = Append(at[g], label[f])
      BY <1>3, <1>6, <2>1, PrefixOfAppend
    <2>3. QED
      BY <1>5, <1>7, <1>8, <2>2

(* The same, of a well-laid-out tree: kept are files with the files of     *)
(* their parents, none of which is a child of g0 with the name.            *)
LEMMA FreePlace ==
  ASSUME NEW tree, IsGraph(tree), Good(tree), NEW g0 \in DOMAIN tree, NEW name \in Names,
         NEW kept \in SUBSET DOMAIN tree,
         \A f \in kept, g \in DOMAIN tree : tree[f].parent = tree[g].id => g \in kept,
         \A f \in kept : tree[f].parent = tree[g0].id => NameOf(tree[f]) # name
  PROVE  \A f \in kept : /\ ~IsPrefix(Append(tree[g0].path, name), tree[f].path)
                         /\ ~IsPrefix(Append(g0, name), f)
  <1> DEFINE D == DOMAIN tree
             parent == [f \in D |-> tree[f].parent]
             id == [f \in D |-> tree[f].id]
             path == [f \in D |-> tree[f].path]
             file == [f \in D |-> f]
             label == [f \in D |-> NameOf(tree[f])]
  <1>1. \A f \in D : /\ f \in Paths /\ tree[f] \in Items
                     /\ tree[f].path \in Paths /\ NameOf(tree[f]) \in Names
    <2>1. \A f \in D : f \in Paths /\ tree[f] \in Items
      BY UnfaultedGraph DEF Good, IsGraph
    <2>2. \A f \in D : tree[f].path \in Paths \ {NoRef}
      BY <2>1 DEF Items
    <2>3. QED
      BY <2>1, <2>2, NameIsName DEF NameOf
  <1>2. \A f \in kept : tree[f].parent # Outside =>
          \E g \in kept : /\ tree[g].id = tree[f].parent
                          /\ tree[f].path = Append(tree[g].path, NameOf(tree[f]))
                          /\ f = Append(g, NameOf(tree[f]))
    BY DEF Good, Placed, ChildFile
  <1>3. /\ \A f \in kept : tree[f].parent = Outside =>
             \A g \in D \ {f} : ~IsPrefix(tree[g].path, tree[f].path) /\ ~IsPrefix(g, f)
        /\ \A f \in D, g \in D : tree[f].path = tree[g].path => f = g
    BY DEF Good, Placed
  <1>4. \A f \in kept : ~IsPrefix(Append(path[g0], name), path[f])
    <2>1. Layout(D, parent, id, path, label, g0, name, kept)
      BY <1>1, <1>2, <1>3 DEF Layout
    <2> HIDE DEF D, parent, id, path, label
    <2>2. QED
      BY <2>1, NothingBelow
  <1>5. \A f \in kept : ~IsPrefix(Append(file[g0], name), file[f])
    <2>1. Layout(D, parent, id, file, label, g0, name, kept)
      BY <1>1, <1>2, <1>3 DEF Layout
    <2> HIDE DEF D, parent, id, file, label
    <2>2. QED
      BY <2>1, NothingBelow
  <1>6. QED
    BY <1>4, <1>5

-----------------------------------------------------------------------------
(* An item of a well-laid-out tree has the path and the file that its      *)
(* parent and its name give it.                                            *)
LEMMA ChildOfParent ==
  ASSUME NEW tree, IsGraph(tree), Good(tree), NEW d \in Documents(tree), d.parent # Outside
  PROVE  /\ d.parent \in IdsIn(tree)
         /\ d.path = Append(Doc(tree, d.parent).path, NameOf(d))
         /\ FileOf(tree, d.id) = ChildFile(FileOf(tree, d.parent), NameOf(d))
  <1>1. PICK f \in DOMAIN tree : d = tree[f]
    BY UnfaultedGraph DEF Good
  <1>2. PICK g \in DOMAIN tree : /\ tree[g].id = tree[f].parent
                                 /\ tree[f].path = Append(tree[g].path, NameOf(tree[f]))
                                 /\ f = ChildFile(g, NameOf(tree[f]))
    BY <1>1 DEF Good, Placed
  <1>3. /\ FileOf(tree, d.id) = f /\ FileOf(tree, d.parent) = g
        /\ Doc(tree, d.parent) = tree[g] /\ d.parent \in IdsIn(tree)
    BY <1>1, <1>2, UnfaultedGraph DEF Good
  <1>4. QED
    BY <1>1, <1>2, <1>3

(* A subtree lies below its root, in the same places of the paths, the     *)
(* files and the files that a move plans.                                  *)
LiesAt(tree, id, at, i, r) ==
  /\ Doc(tree, i).path = Doc(tree, id).path \o r
  /\ FileOf(tree, i) = FileOf(tree, id) \o r
  /\ at[i] = at[id] \o r

LEMMA SubtreeLies ==
  ASSUME NEW tree, IsGraph(tree), Good(tree), NEW id \in IdsIn(tree), NEW rootFile \in Paths
  PROVE  \A i \in Subtree(tree, id) :
           \E r \in Paths : LiesAt(tree, id, NewFiles(tree, id, rootFile), i, r)
  <1> DEFINE at == NewFiles(tree, id, rootFile)
             Sub == Subtree(tree, id)
             ids == {i \in Sub : \E r \in Paths : LiesAt(tree, id, at, i, r)}
  <1>0. ~Faulted(tree) /\ NoRef \in Paths
    BY EmptySeq DEF Good, NoRef, Paths
  <1>1. id \in Sub /\ ClosedUnderChildren(tree, Sub) /\ Sub \subseteq IdsIn(tree)
    BY SubtreeCloses
  <1>2. /\ at[id] \in Paths /\ FileOf(tree, id) \in Paths /\ Doc(tree, id).path \in Paths
        /\ \A i \in Sub : i # id => at[i] = ChildFile(at[Doc(tree, i).parent], NameOf(Doc(tree, i)))
    BY <1>0, NewFilesMeans, IdHasFile DEF Items
  <1>3. id \in ids
    <2> HIDE DEF at
    <2>1. LiesAt(tree, id, at, id, NoRef)
      BY <1>2, JoinPaths DEF LiesAt
    <2>2. QED
      BY <1>0, <1>1, <2>1
  <1>4. ASSUME NEW d \in Documents(tree), d.parent \in ids, d.parent \in Sub
        PROVE  d.id \in ids
    <2> HIDE DEF at
    <2>1. d.id \in Sub /\ Doc(tree, d.id) = d /\ NameOf(d) \in Names
      BY <1>0, <1>1, <1>4, DocOfDocument, IdHasFile DEF ClosedUnderChildren
    <2>2. CASE d.id = id
      BY <1>3, <2>2
    <2>3. CASE d.id # id
      <3>1. PICK r \in Paths : LiesAt(tree, id, at, d.parent, r)
        BY <1>4
      <3>2. d.parent # Outside
        BY <1>0, <1>1, <1>4, IdHasFile, MarksAssumption DEF Items
      <3>3. /\ d.path = Append(Doc(tree, id).path \o r, NameOf(d))
            /\ FileOf(tree, d.id) = Append(FileOf(tree, id) \o r, NameOf(d))
            /\ at[d.id] = Append(at[id] \o r, NameOf(d))
        BY <1>2, <2>1, <2>3, <3>1, <3>2, ChildOfParent DEF LiesAt, ChildFile
      <3>4. Append(r, NameOf(d)) \in Paths
        BY <2>1, AppendPath
      <3>5. LiesAt(tree, id, at, d.id, Append(r, NameOf(d)))
        BY <1>2, <2>1, <3>3, JoinAppend DEF LiesAt
      <3>6. QED
        BY <2>1, <3>4, <3>5
    <2>4. QED
      BY <2>2, <2>3
  <1>5. Sub \subseteq ids
    <2> HIDE DEF ids, at
    <2> QED
      BY <1>3, <1>4, SubtreeLeast DEF Sub
  <1>6. QED
    BY <1>5

(* A tree in which part of the items kept their places and the others were *)
(* grafted at a free place below one that stays is well laid out again.    *)
Grafted(tree, g0, name, kept, F, graft) ==
  /\ g0 \in kept /\ kept \subseteq DOMAIN tree /\ name \in Names
  /\ IsGraph(F) /\ DOMAIN F = kept \cup graft
  /\ \A f \in kept, g \in DOMAIN tree : tree[f].parent = tree[g].id => g \in kept
  /\ \A f \in kept : tree[f].parent = tree[g0].id => NameOf(tree[f]) # name
  /\ \A f \in kept : /\ F[f] \in Items /\ F[f].id = tree[f].id
                     /\ F[f].parent = tree[f].parent /\ F[f].path = tree[f].path
  /\ \A f \in graft :
       /\ F[f] \in Items /\ F[f].parent # Outside
       /\ IsPrefix(Append(tree[g0].path, name), F[f].path) /\ IsPrefix(Append(g0, name), f)
       /\ \E g \in graft \cup {g0} : /\ F[g].id = F[f].parent
                                     /\ F[f].path = Append(F[g].path, NameOf(F[f]))
                                     /\ f = ChildFile(g, NameOf(F[f]))
       /\ \A g \in graft : F[f].id = F[g].id \/ F[f].path = F[g].path => f = g
       /\ \A g \in kept : F[f].id # tree[g].id

LEMMA GraftIsGood ==
  ASSUME NEW tree, IsGraph(tree), Good(tree), NEW g0, NEW name, NEW kept, NEW F, NEW graft,
         Grafted(tree, g0, name, kept, F, graft)
  PROVE  Good(F)
  <1> USE DEF Grafted
  <1>1. \A f \in kept : /\ ~IsPrefix(Append(tree[g0].path, name), tree[f].path)
                        /\ ~IsPrefix(Append(g0, name), f)
    BY FreePlace
  <1>2. \A f \in DOMAIN F : F[f] \in Items
    OBVIOUS
  <1>3. \A f, g \in kept : /\ tree[f].id = tree[g].id => f = g
                           /\ tree[f].path = tree[g].path => f = g
                           /\ f # g /\ tree[f].parent = Outside =>
                                ~IsPrefix(tree[g].path, tree[f].path) /\ ~IsPrefix(g, f)
    BY UnfaultedGraph DEF Good, Placed
  <1>4. ~Faulted(F)
    <2>1. \A f, g \in DOMAIN F : F[f].id = F[g].id => f = g
      BY <1>3
    <2>2. QED
      BY <1>2, <2>1, NoMarkIsItem DEF Faulted
  <1>5. \A f \in DOMAIN F : NameOf(F[f]) = Last(F[f].path)
    BY DEF NameOf
  <1>6. ASSUME NEW f \in DOMAIN F, F[f].parent # Outside
        PROVE  \E g \in DOMAIN F : /\ F[g].id = F[f].parent
                                   /\ F[f].path = Append(F[g].path, NameOf(F[f]))
                                   /\ f = ChildFile(g, NameOf(F[f]))
    <2>1. CASE f \in kept
      <3>1. PICK g \in DOMAIN tree : /\ tree[g].id = tree[f].parent
                                     /\ tree[f].path = Append(tree[g].path, NameOf(tree[f]))
                                     /\ f = ChildFile(g, NameOf(tree[f]))
        BY <1>6, <2>1 DEF Good, Placed
      <3>2. g \in kept /\ NameOf(F[f]) = NameOf(tree[f])
        BY <2>1, <3>1 DEF NameOf
      <3>3. QED
        BY <2>1, <3>1, <3>2
    <2>2. CASE f \in graft
      <3>1. graft \cup {g0} \subseteq DOMAIN F
        OBVIOUS
      <3>2. QED
        BY <2>2, <3>1
    <2>3. QED
      BY <2>1, <2>2
  <1>7. ASSUME NEW f \in DOMAIN F, NEW g \in DOMAIN F, f # g
        PROVE  /\ F[g].path # F[f].path
               /\ F[f].parent = Outside => ~IsPrefix(F[g].path, F[f].path) /\ ~IsPrefix(g, f)
    <2>1. \A h \in DOMAIN F : F[h].path \in Paths /\ h \in Paths
      BY <1>2 DEF IsGraph, Items
    <2>2. Append(tree[g0].path, name) \in Paths /\ Append(g0, name) \in Paths
      <3>1. g0 \in Paths /\ tree[g0].path \in Paths
        BY <2>1
      <3>2. QED
        BY <3>1, AppendPath
    <2>3. CASE f \in kept /\ g \in kept
      BY <1>3, <1>7, <2>3
    <2>4. CASE f \in graft /\ g \in graft
      BY <1>7, <2>4
    <2>5. CASE f \in graft /\ g \in kept
      BY <1>1, <2>5
    <2>6. CASE f \in kept /\ g \in graft
      <3>1. F[g].path # F[f].path
        BY <1>1, <2>6
      <3>2. ~IsPrefix(F[g].path, F[f].path)
        BY <1>1, <2>1, <2>2, <2>6, PrefixOfPrefix
      <3>3. ~IsPrefix(g, f)
        BY <1>1, <2>1, <2>2, <2>6, PrefixOfPrefix
      <3>4. QED
        BY <3>1, <3>2, <3>3
    <2>7. QED
      BY <2>3, <2>4, <2>5, <2>6
  <1>8. QED
    BY <1>4, <1>6, <1>7 DEF Good, Placed

-----------------------------------------------------------------------------
(* What a request means to do to a tree.  Final: the tree when every write *)
(* is done and every vacated file removed.                                 *)
FilesOf(writes) == {w.file : w \in writes}
Final(tree, writes, old) ==
  [f \in (DOMAIN tree \ old) \cup FilesOf(writes) |->
     IF f \in FilesOf(writes) THEN (CHOOSE w \in writes : w.file = f).doc ELSE tree[f]]

(* A request rewrites items as they are, or stores a new item, or stores   *)
(* items in new files, has others follow, and vacates the old files.       *)
InPlace(tree, moves, others, old) ==
  /\ old = {}
  /\ \A w \in moves \cup others : w.file \in DOMAIN tree /\ tree[w.file] = w.doc
Creates(tree, moves, others, old) ==
  /\ old = {} /\ others = {}
  /\ \E w : moves = {w} /\ w.file \notin DOMAIN tree /\ w.doc.ref = NoRef
Relocates(tree, moves, others, old) ==
  /\ moves # {}
  /\ \A w \in moves : w.file \notin DOMAIN tree /\ \E f \in old : tree[f].id = w.doc.id
  /\ \A f \in old : \E w \in moves : tree[f].id = w.doc.id
  /\ \A w \in others : w.file \in DOMAIN tree

Shape(tree, writes, old) ==
  /\ writes \subseteq [file : Paths, doc : Items]
  /\ \A w, v \in writes : w.file = v.file \/ w.doc.id = v.doc.id => w = v
  /\ old \subseteq DOMAIN tree \ FilesOf(writes)
  /\ \A w \in writes : w.file \in DOMAIN tree => tree[w.file].id = w.doc.id
  /\ \A f \in DOMAIN tree : f \in old \cup FilesOf(writes) <=>
                              \E w \in writes : w.doc.id = tree[f].id

Plan(tree, moves, others, old) ==
  /\ Shape(tree, moves \cup others, old) /\ moves \cap others = {}
  /\ InPlace(tree, moves, others, old) \/ Creates(tree, moves, others, old)
       \/ Relocates(tree, moves, others, old)
  /\ Good(Final(tree, moves \cup others, old))

Carried(tree, writes, old, F) ==
  /\ IsGraph(F) /\ DOMAIN F = (DOMAIN tree \ old) \cup FilesOf(writes)
  /\ \A w \in writes : F[w.file] = w.doc
  /\ \A f \in DOMAIN tree \ (old \cup FilesOf(writes)) : F[f] = tree[f]

LEMMA FinalMeans ==
  ASSUME NEW tree, IsGraph(tree), NEW writes, NEW old, Shape(tree, writes, old)
  PROVE  Carried(tree, writes, old, Final(tree, writes, old))
  <1> DEFINE F == Final(tree, writes, old)
  <1>1. DOMAIN F = (DOMAIN tree \ old) \cup FilesOf(writes)
    BY DEF Final
  <1>2. \A w \in writes : F[w.file] = w.doc
    <2>1. SUFFICES ASSUME NEW w \in writes PROVE F[w.file] = w.doc
      OBVIOUS
    <2>2. w.file \in FilesOf(writes)
      BY DEF FilesOf
    <2>3. F[w.file] = (CHOOSE v \in writes : v.file = w.file).doc
      BY <2>2 DEF Final
    <2>4. (CHOOSE v \in writes : v.file = w.file) = w
      BY DEF Shape
    <2>5. QED
      BY <2>3, <2>4
  <1>3. \A f \in DOMAIN tree \ (old \cup FilesOf(writes)) : F[f] = tree[f]
    BY DEF Final
  <1>4. F = [f \in DOMAIN F |-> F[f]]
    BY DEF Final
  <1>5. \A w \in writes : w.file \in Paths /\ w.doc \in Items
    BY DEF Shape
  <1> HIDE DEF F
  <1>6. \A f \in DOMAIN F : f \in Paths /\ F[f] \in Items \cup {Broken}
    <2>1. SUFFICES ASSUME NEW f \in DOMAIN F PROVE f \in Paths /\ F[f] \in Items \cup {Broken}
      OBVIOUS
    <2>2. CASE f \in FilesOf(writes)
      BY <1>2, <1>5, <2>2 DEF FilesOf
    <2>3. CASE f \in DOMAIN tree \ (old \cup FilesOf(writes))
      BY <1>3, <2>3 DEF IsGraph
    <2>4. QED
      BY <1>1, <2>2, <2>3
  <1>7. IsGraph(F)
    BY <1>4, <1>6 DEF IsGraph
  <1>8. QED
    BY <1>1, <1>2, <1>3, <1>7 DEF F, Carried

(* The documents of the final tree: those of the writes, and those of the  *)
(* items that none of them stores.                                         *)
LEMMA FinalDocuments ==
  ASSUME NEW tree, IsGraph(tree), ~Faulted(tree), NEW writes, NEW old,
         Shape(tree, writes, old), ~Faulted(Final(tree, writes, old))
  PROVE  Documents(Final(tree, writes, old)) =
           {d \in Documents(tree) : \A w \in writes : d.id # w.doc.id}
             \cup {w.doc : w \in writes}
  <1> DEFINE F == Final(tree, writes, old)
             rest == {d \in Documents(tree) : \A w \in writes : d.id # w.doc.id}
  <1>1. /\ IsGraph(F) /\ DOMAIN F = (DOMAIN tree \ old) \cup FilesOf(writes)
        /\ \A w \in writes : F[w.file] = w.doc
        /\ \A f \in DOMAIN tree \ (old \cup FilesOf(writes)) : F[f] = tree[f]
    <2>1. Carried(tree, writes, old, F)
      BY FinalMeans
    <2> HIDE DEF F
    <2>2. QED
      BY <2>1 DEF Carried
  <1>2. /\ Documents(F) = {F[f] : f \in DOMAIN F}
        /\ Documents(tree) = {tree[f] : f \in DOMAIN tree}
    BY <1>1, UnfaultedGraph
  <1> HIDE DEF F
  <1>3. ASSUME NEW f \in DOMAIN F PROVE F[f] \in rest \cup {w.doc : w \in writes}
    <2>1. CASE f \in FilesOf(writes)
      BY <1>1, <2>1 DEF FilesOf
    <2>2. CASE f \in DOMAIN tree \ (old \cup FilesOf(writes))
      <3>1. F[f] = tree[f] /\ \A w \in writes : tree[f].id # w.doc.id
        BY <1>1, <2>2 DEF Shape
      <3>2. QED
        BY <1>2, <2>2, <3>1
    <2>3. QED
      BY <1>1, <2>1, <2>2
  <1>4. ASSUME NEW w \in writes PROVE w.doc \in Documents(F)
    <2>1. w.file \in DOMAIN F /\ F[w.file] = w.doc
      BY <1>1 DEF FilesOf
    <2>2. QED
      BY <1>2, <2>1
  <1>5. ASSUME NEW d \in rest PROVE d \in Documents(F)
    <2>1. PICK f \in DOMAIN tree : d = tree[f]
      BY <1>2
    <2>2. f \notin old \cup FilesOf(writes)
      BY <2>1 DEF Shape
    <2>3. f \in DOMAIN F /\ F[f] = d
      BY <1>1, <2>1, <2>2
    <2>4. QED
      BY <1>2, <2>3
  <1>6. QED
    <2> HIDE DEF rest
    <2>1. Documents(F) = rest \cup {w.doc : w \in writes}
      BY <1>2, <1>3, <1>4, <1>5
    <2>2. QED
      BY <2>1 DEF F, rest

LEMMA ForgePlans ==
  ASSUME NEW tree, IsGraph(tree), Good(tree), NEW parent \in IdsIn(tree), parent \in Ids,
         NEW id \in Ids, id \notin IdsIn(tree), NEW name \in Names,
         \A c \in Children(tree, parent) : NameOf(c) # name,
         ChildFile(FileOf(tree, parent), name) \notin DOMAIN tree
  PROVE  Plan(tree,
              {[file |-> ChildFile(FileOf(tree, parent), name),
                doc |-> [id |-> id, parent |-> parent,
                         path |-> Append(Doc(tree, parent).path, name), ref |-> NoRef]]},
              {}, {})
  <1> DEFINE g0 == FileOf(tree, parent)
             file == ChildFile(g0, name)
             path == Append(Doc(tree, parent).path, name)
             doc == [id |-> id, parent |-> parent, path |-> path, ref |-> NoRef]
             w == [file |-> file, doc |-> doc]
             F == Final(tree, {w}, {})
  <1>1. /\ g0 \in DOMAIN tree /\ g0 \in Paths /\ Doc(tree, parent) = tree[g0]
        /\ tree[g0].path \in Paths /\ tree[g0].id = parent
    BY IdHasFile DEF Good, Items
  <1>2. /\ file \in Paths /\ path \in Paths \ {NoRef} /\ NoRef \in Paths
        /\ NameOf(doc) = name /\ file = Append(g0, name)
    BY <1>1, AppendPath, EmptySeq DEF NameOf, ChildFile, NoRef, Paths
  <1>3. doc \in Items /\ doc.id = id /\ doc.parent = parent /\ doc.path = path /\ doc.ref = NoRef
    BY <1>2 DEF Items
  <1> HIDE DEF doc
  <1>4. w \in [file : Paths, doc : Items] /\ w.file = file /\ w.doc = doc
    BY <1>2, <1>3
  <1>5. file \notin DOMAIN tree
    OBVIOUS
  <1>6. \A f \in DOMAIN tree : tree[f].id # id
    BY UnfaultedGraph DEF Good
  <1> HIDE DEF w, file, g0, path
  <1>7. Shape(tree, {w}, {}) /\ FilesOf({w}) = {file}
    BY <1>3, <1>4, <1>5, <1>6 DEF Shape, FilesOf
  <1>8. /\ IsGraph(F) /\ DOMAIN F = DOMAIN tree \cup {file} /\ F[file] = doc
        /\ \A f \in DOMAIN tree : F[f] = tree[f]
    <2>1. Carried(tree, {w}, {}, F)
      BY <1>7, FinalMeans
    <2> HIDE DEF F
    <2>2. QED
      BY <1>4, <1>5, <1>7, <2>1 DEF Carried
  <1> HIDE DEF F
  <1>9. Grafted(tree, g0, name, DOMAIN tree, F, {file})
    <2>1. \A f \in DOMAIN tree : tree[f] \in Items /\ tree[f] \in Documents(tree)
      BY UnfaultedGraph DEF Good
    <2>2. \A f \in DOMAIN tree : tree[f].parent = tree[g0].id => NameOf(tree[f]) # name
      BY <1>1, <2>1 DEF Children
    <2>3. /\ IsPrefix(Append(tree[g0].path, name), F[file].path) /\ IsPrefix(Append(g0, name), file)
      <3>1. path = Append(tree[g0].path, name)
        BY <1>1 DEF path
      <3>2. IsPrefix(path, path) /\ IsPrefix(file, file)
        BY DEF IsPrefix
      <3>3. QED
        BY <1>2, <1>3, <1>8, <3>1, <3>2
    <2>4. F[file].parent # Outside
      BY <1>3, <1>8, MarksAssumption
    <2>5. /\ F[g0].id = F[file].parent
          /\ F[file].path = Append(F[g0].path, NameOf(F[file])) /\ file = ChildFile(g0, NameOf(F[file]))
      BY <1>1, <1>2, <1>3, <1>8 DEF path, ChildFile
    <2>6. QED
      BY <1>1, <1>3, <1>6, <1>8, <2>1, <2>2, <2>3, <2>4, <2>5 DEF Grafted
  <1>10. Good(F)
    BY <1>9, GraftIsGood
  <1>11. Creates(tree, {w}, {}, {})
    BY <1>3, <1>4, <1>5 DEF Creates
  <1>12. Plan(tree, {w}, {}, {})
    <2>1. {w} \cup {} = {w}
      OBVIOUS
    <2>2. QED
      BY <1>7, <1>10, <1>11, <2>1 DEF Plan, F
  <1>13. QED
    BY <1>12 DEF w, file, g0, path, doc

(* What a move asks of the tree before it plans.                           *)
MayMove(tree, id, parent, name) ==
  /\ id \in IdsIn(tree) /\ parent \in IdsIn(tree) /\ parent # id /\ name \in Names
  /\ ~IsPrefix(Doc(tree, id).path, Doc(tree, parent).path)
  /\ \A c \in Children(tree, parent) : c.id # id => NameOf(c) # name
  /\ \A i \in Subtree(tree, id) :
       NewAt(tree, id, parent, name)[i] # FileOf(tree, i) =>
         NewAt(tree, id, parent, name)[i] \notin DOMAIN tree

(* Where the members of the moved subtree go, and as what.                 *)
Transplants(tree, id, parent, name, at, moved, path) ==
  /\ parent \notin Subtree(tree, id)
  /\ \A i \in Subtree(tree, id) :
       /\ moved[i] \in Items /\ moved[i].id = i
       /\ \E r \in Paths : LiesAt(tree, id, at, i, r) /\ moved[i].path = path \o r
       /\ i # id =>
            LET p == Doc(tree, i).parent
            IN  /\ p \in Subtree(tree, id) /\ moved[i].parent = p
                /\ moved[i].path = Append(moved[p].path, NameOf(moved[i]))
                /\ at[i] = ChildFile(at[p], NameOf(moved[i]))
  /\ at[id] = Append(FileOf(tree, parent), name) /\ at[id] \in Paths
  /\ moved[id].parent = parent /\ moved[id].path = path /\ NameOf(moved[id]) = name

MovedDocs(tree, id, parent, name) ==
  [i \in Subtree(tree, id) |->
     Moved(Doc(tree, i), id, parent, Doc(tree, id).path, NewPath(tree, parent, name))]

LEMMA MoveTransplants ==
  ASSUME NEW tree, IsGraph(tree), Good(tree), NEW id, NEW parent, NEW name,
         MayMove(tree, id, parent, name)
  PROVE  Transplants(tree, id, parent, name, NewAt(tree, id, parent, name),
                     MovedDocs(tree, id, parent, name), NewPath(tree, parent, name))
  <1> DEFINE Sub == Subtree(tree, id)
             at == NewAt(tree, id, parent, name)
             moved == MovedDocs(tree, id, parent, name)
             old == Doc(tree, id).path
             new == NewPath(tree, parent, name)
  <1>0. /\ ~Faulted(tree) /\ id \in IdsIn(tree) /\ parent \in IdsIn(tree) /\ name \in Names
        /\ NoRef \in Paths
    BY EmptySeq DEF Good, MayMove, NoRef, Paths
  <1>1. /\ id \in Sub /\ Sub \subseteq IdsIn(tree)
        /\ \A i \in Sub : i # id => Doc(tree, i).parent \in Sub
    BY <1>0, SubtreeCloses, SubtreeParents
  <1>2. /\ old \in Paths \ {NoRef} /\ new \in Paths \ {NoRef} /\ parent \in Ids
        /\ \A i \in Sub : at[i] \in Paths
    BY <1>0, MovePlanIsTyped
  <1>a. \A r \in Paths : Rewrite(old \o r, old, new) = new \o r
    <2> HIDE DEF old, new
    <2>1. old \in Paths /\ new \in Paths
      BY <1>2
    <2>2. QED
      BY ONLY <2>1, RewriteMeans
  <1>3. /\ FileOf(tree, parent) \in Paths
        /\ \A i \in Sub : /\ Doc(tree, i) \in Items /\ Doc(tree, i).id = i
                          /\ Doc(tree, i) \in Documents(tree)
                          /\ NameOf(Doc(tree, i)) \in Names /\ i \in Ids
    <2>1. \A i \in IdsIn(tree) : i \in Ids
      BY <1>0, IdHasFile DEF Items
    <2>2. QED
      BY <1>0, <1>1, <2>1, IdHasFile
  <1>4. /\ at[id] = Append(FileOf(tree, parent), name)
        /\ \A i \in Sub : i # id => at[i] = ChildFile(at[Doc(tree, i).parent], NameOf(Doc(tree, i)))
    <2>1. ChildFile(FileOf(tree, parent), name) \in Paths
      BY <1>0, <1>3, AppendPath DEF ChildFile
    <2>2. QED
      BY <1>0, <2>1, NewFilesMeans DEF NewAt, ChildFile
  <1>5. \A i \in Sub : \E r \in Paths : LiesAt(tree, id, at, i, r)
    <2>1. ChildFile(FileOf(tree, parent), name) \in Paths
      BY <1>0, <1>3, AppendPath DEF ChildFile
    <2>2. QED
      BY <1>0, <2>1, SubtreeLies DEF NewAt
  <1>6. \A i \in Sub : /\ moved[i] \in Items /\ moved[i].id = i
                       /\ moved[i].parent = IF i = id THEN parent ELSE Doc(tree, i).parent
                       /\ moved[i].path = Rewrite(Doc(tree, i).path, old, new)
    <2>1. SUFFICES ASSUME NEW i \in Sub
                   PROVE  /\ moved[i] \in Items /\ moved[i].id = i
                          /\ moved[i].parent = IF i = id THEN parent ELSE Doc(tree, i).parent
                          /\ moved[i].path = Rewrite(Doc(tree, i).path, old, new)
      OBVIOUS
    <2>2. moved[i] = Moved(Doc(tree, i), id, parent, old, new)
      BY DEF MovedDocs
    <2> HIDE DEF moved, old, new
    <2>3. QED
      BY <1>2, <1>3, <2>2, MovedIsItem
  <1> HIDE DEF moved, at, old, new
  <1>7. ASSUME NEW i \in Sub, NEW r \in Paths, LiesAt(tree, id, at, i, r)
        PROVE  moved[i].path = new \o r
    <2>1. Doc(tree, i).path = old \o r
      BY <1>7 DEF LiesAt, old
    <2>2. QED
      BY <1>a, <1>6, <2>1
  <1>8. ASSUME NEW i \in Sub, i # id
        PROVE  LET p == Doc(tree, i).parent
               IN  /\ p \in Sub /\ moved[i].parent = p
                   /\ moved[i].path = Append(moved[p].path, NameOf(moved[i]))
                   /\ at[i] = ChildFile(at[p], NameOf(moved[i]))
    <2> DEFINE p == Doc(tree, i).parent
               n == NameOf(Doc(tree, i))
    <2>1. p \in Sub /\ p # Outside
      BY <1>1, <1>3, <1>8, MarksAssumption
    <2>2. PICK r \in Paths : LiesAt(tree, id, at, p, r)
      BY <1>5, <2>1
    <2>3. moved[p].path = new \o r
      BY <1>7, <2>1, <2>2
    <2>4. Doc(tree, i).path = Append(Doc(tree, p).path, n) /\ n \in Names
      BY <1>3, <2>1, ChildOfParent
    <2>5. Doc(tree, i).path = old \o Append(r, n) /\ Append(r, n) \in Paths
      <3>1. Doc(tree, p).path = old \o r
        BY <2>2 DEF LiesAt, old
      <3>2. Append(old \o r, n) = old \o Append(r, n)
        BY <1>2, <2>4, JoinAppend
      <3>3. QED
        BY <2>4, <3>1, <3>2, AppendPath
    <2>6. moved[i].path = new \o Append(r, n)
      <3>1. moved[i].path = Rewrite(old \o Append(r, n), old, new)
        BY <1>6, <2>5
      <3>2. QED
        BY <1>a, <2>5, <3>1
    <2>7. moved[i].path = Append(moved[p].path, n) /\ moved[p].path \in Paths
      <3>1. Append(new \o r, n) = new \o Append(r, n)
        BY <1>2, <2>4, JoinAppend
      <3>2. new \o r \in Paths
        BY <1>2, JoinPaths
      <3>3. QED
        BY <2>3, <2>6, <3>1, <3>2, Zenon
    <2>8. NameOf(moved[i]) = n
      BY <2>4, <2>7, AppendPath DEF NameOf
    <2>9. QED
      BY <1>4, <1>6, <1>8, <2>1, <2>7, <2>8
  <1>9. moved[id].parent = parent /\ moved[id].path = new /\ NameOf(moved[id]) = name
    <2>1. Doc(tree, id).path = old \o NoRef /\ new \o NoRef = new
      BY <1>0, <1>2, JoinPaths DEF old
    <2>2. moved[id].path = new
      BY <1>0, <1>1, <1>a, <1>6, <2>1
    <2>3. Last(new) = name
      <3>1. Doc(tree, parent).path \in Paths
        BY <1>0, IdHasFile DEF Items
      <3>2. QED
        BY <1>0, <3>1, AppendPath DEF NewPath, new
    <2>4. QED
      BY <1>1, <1>6, <2>2, <2>3 DEF NameOf
  <1>10. parent \notin Sub
    <2>1. SUFFICES ASSUME parent \in Sub PROVE FALSE
      OBVIOUS
    <2>2. PICK r \in Paths : Doc(tree, parent).path = old \o r
      BY <1>5, <2>1 DEF LiesAt, old
    <2>3. IsPrefix(old, Doc(tree, parent).path)
      BY <1>2, <2>2, BelowJoin
    <2>4. QED
      BY <2>3 DEF MayMove, old
  <1>11. \A i \in Sub : \E r \in Paths : LiesAt(tree, id, at, i, r) /\ moved[i].path = new \o r
    BY <1>5, <1>7
  <1>12. QED
    <2>1. Transplants(tree, id, parent, name, at, moved, new)
      BY <1>1, <1>2, <1>4, <1>6, <1>8, <1>9, <1>10, <1>11 DEF Transplants
    <2>2. QED
      BY <2>1 DEF at, moved, new

LEMMA RewriteToSame ==
  ASSUME NEW old \in Paths, NEW p \in Paths
  PROVE  Rewrite(p, old, old) = p
  <1>1. CASE IsPrefix(old, p)
    <2>1. PICK r \in Paths : p = old \o r
      BY <1>1, PrefixContinues
    <2>2. Rewrite(old \o r, old, old) = old \o r
      BY RewriteMeans
    <2>3. QED
      BY <2>1, <2>2
  <1>2. CASE ~IsPrefix(old, p)
    BY <1>2 DEF Rewrite
  <1>3. QED
    BY <1>1, <1>2

(* A move whose new file is the old one changes nothing.                   *)
LEMMA MoveNowhere ==
  ASSUME NEW tree, IsGraph(tree), Good(tree), NEW id, NEW parent, NEW name,
         MayMove(tree, id, parent, name),
         FileOf(tree, id) = Append(FileOf(tree, parent), name)
  PROVE  /\ \A i \in Subtree(tree, id) : MovedDocs(tree, id, parent, name)[i] = Doc(tree, i)
         /\ \A d \in Documents(tree) :
              Follow(d, Doc(tree, id).path, NewPath(tree, parent, name)) = d
  <1> DEFINE f == FileOf(tree, id)
             g == FileOf(tree, parent)
             old == Doc(tree, id).path
             new == NewPath(tree, parent, name)
  <1>0. /\ ~Faulted(tree) /\ id \in IdsIn(tree) /\ parent \in IdsIn(tree) /\ name \in Names
        /\ parent # id
    BY DEF Good, MayMove
  <1>1. /\ f \in DOMAIN tree /\ g \in DOMAIN tree /\ f \in Paths /\ g \in Paths /\ g # f
        /\ Doc(tree, id) = tree[f] /\ Doc(tree, parent) = tree[g]
        /\ Doc(tree, id) \in Documents(tree) /\ Doc(tree, id).id = id
    <2>1. /\ f \in DOMAIN tree /\ f \in Paths /\ Doc(tree, id) = tree[f] /\ tree[f].id = id
          /\ Doc(tree, id) \in Documents(tree)
      BY <1>0, IdHasFile
    <2>2. g \in DOMAIN tree /\ g \in Paths /\ Doc(tree, parent) = tree[g] /\ tree[g].id = parent
      BY <1>0, IdHasFile
    <2> HIDE DEF f, g
    <2>3. QED
      BY <1>0, <2>1, <2>2
  <1>2. old \in Paths \ {NoRef} /\ new \in Paths \ {NoRef} /\ parent \in Ids
    BY <1>0, MovePlanIsTyped
  <1>3. Doc(tree, id).parent # Outside
    <2>1. IsPrefix(g, f)
      <3>1. IsPrefix(g, g)
        BY DEF IsPrefix
      <3>2. QED
        BY <1>0, <1>1, <3>1, PrefixOfAppend
    <2>2. QED
      BY <1>1, <2>1 DEF Good, Placed
  <1> DEFINE p == Doc(tree, id).parent
  <1>4. /\ p \in IdsIn(tree) /\ old = Append(Doc(tree, p).path, NameOf(Doc(tree, id)))
        /\ f = Append(FileOf(tree, p), NameOf(Doc(tree, id)))
    BY <1>1, <1>3, ChildOfParent DEF ChildFile
  <1>5. FileOf(tree, p) = g /\ NameOf(Doc(tree, id)) = name
    <2>1. FileOf(tree, p) \in Paths /\ NameOf(Doc(tree, id)) \in Names
      BY <1>0, <1>4, IdHasFile
    <2>2. Append(FileOf(tree, p), NameOf(Doc(tree, id))) = Append(g, name)
      BY <1>4
    <2> HIDE DEF f, g, p
    <2>3. QED
      BY <1>0, <1>1, <2>1, <2>2, AppendOnce
  <1>6. p = parent
    <2>1. tree[FileOf(tree, p)].id = p /\ tree[g].id = parent
      BY <1>0, <1>4, IdHasFile
    <2>2. QED
      BY <1>5, <2>1
  <1>7. new = old
    BY <1>4, <1>5, <1>6 DEF NewPath
  <1>8. ASSUME NEW i \in Subtree(tree, id)
        PROVE  MovedDocs(tree, id, parent, name)[i] = Doc(tree, i)
    <2> DEFINE d == Doc(tree, i)
    <2>1. d \in Items /\ d.id = i
      BY <1>0, SubtreeCloses, IdHasFile
    <2>2. MovedDocs(tree, id, parent, name)[i] = Moved(d, id, parent, old, old)
      BY <1>7 DEF MovedDocs
    <2>3. i = id => d.parent = parent
      BY <1>6
    <2> HIDE DEF d, old
    <2>4. Moved(d, id, parent, old, old) =
            [id |-> d.id, parent |-> IF d.id = id THEN parent ELSE d.parent,
             path |-> Rewrite(d.path, old, old), ref |-> Rewrite(d.ref, old, old)]
      BY <1>2, <2>1, MovedIsItem
    <2>5. Rewrite(d.path, old, old) = d.path /\ Rewrite(d.ref, old, old) = d.ref
      BY <1>2, <2>1, RewriteToSame DEF Items
    <2>6. (IF d.id = id THEN parent ELSE d.parent) = d.parent
      BY <2>1, <2>3
    <2>7. Moved(d, id, parent, old, old) =
            [id |-> d.id, parent |-> d.parent, path |-> d.path, ref |-> d.ref]
      BY <2>4, <2>5, <2>6
    <2>8. d = [id |-> d.id, parent |-> d.parent, path |-> d.path, ref |-> d.ref]
      BY <2>1 DEF Items
    <2>9. QED
      BY <2>2, <2>7, <2>8 DEF d
  <1>9. ASSUME NEW d \in Documents(tree) PROVE Follow(d, old, new) = d
    <2>1. d \in Items
      BY <1>0, DocOfDocument
    <2> HIDE DEF old, new
    <2>2. Follow(d, old, old) = [id |-> d.id, parent |-> d.parent, path |-> d.path,
                                 ref |-> Rewrite(d.ref, old, old)]
      BY <1>2, <2>1, MovedIsItem
    <2>3. Rewrite(d.ref, old, old) = d.ref
      BY <1>2, <2>1, RewriteToSame DEF Items
    <2>4. d = [id |-> d.id, parent |-> d.parent, path |-> d.path, ref |-> d.ref]
      BY <2>1 DEF Items
    <2>5. QED
      BY <1>7, <2>2, <2>3, <2>4
  <1>10. QED
    BY <1>8, <1>9

(* Whatever the tree, a move plans a tree that is well laid out again.     *)
LEMMA MovePlans ==
  ASSUME NEW tree, IsGraph(tree), Good(tree), NEW id, NEW parent, NEW name,
         MayMove(tree, id, parent, name)
  PROVE  Plan(tree, Moves(tree, id, parent, name), Others(tree, id, parent, name),
              Vacates(tree, id, parent, name))
  <1> DEFINE Sub == Subtree(tree, id)
             at == NewAt(tree, id, parent, name)
             moved == MovedDocs(tree, id, parent, name)
             old == Doc(tree, id).path
             new == NewPath(tree, parent, name)
             M == Moves(tree, id, parent, name)
             O == Others(tree, id, parent, name)
             V == Vacates(tree, id, parent, name)
             F == Final(tree, M \cup O, V)
  <1>0. /\ ~Faulted(tree) /\ id \in IdsIn(tree) /\ parent \in IdsIn(tree) /\ name \in Names
        /\ parent # id
        /\ \A i \in Sub : at[i] # FileOf(tree, i) => at[i] \notin DOMAIN tree
    BY DEF Good, MayMove
  <1>1. id \in Sub /\ Sub \subseteq IdsIn(tree)
    BY <1>0, SubtreeCloses
  <1>2. \A i \in IdsIn(tree) :
          /\ FileOf(tree, i) \in DOMAIN tree /\ tree[FileOf(tree, i)] = Doc(tree, i)
          /\ Doc(tree, i) \in Items /\ Doc(tree, i).id = i /\ FileOf(tree, i) \in Paths
    BY <1>0, IdHasFile
  <1>3. \A f \in DOMAIN tree : tree[f].id \in IdsIn(tree) /\ FileOf(tree, tree[f].id) = f
    BY <1>0, UnfaultedGraph
  <1>4. Transplants(tree, id, parent, name, at, moved, new)
    BY MoveTransplants
  <1>5. /\ M \subseteq [file : Paths, doc : Items] /\ O \subseteq [file : Paths, doc : Items]
        /\ old \in Paths \ {NoRef} /\ new \in Paths \ {NoRef} /\ parent \in Ids
    BY <1>0, MovePlanIsTyped
  <1>6. M = {[file |-> at[i], doc |-> moved[i]] : i \in Sub}
    BY DEF Moves, MovedDocs
  <1>7. /\ \A d \in Documents(tree) : d \in Items /\ d.id \in IdsIn(tree) /\ Doc(tree, d.id) = d
        /\ \A f \in DOMAIN tree : tree[f] \in Documents(tree)
    BY <1>0, DocOfDocument, UnfaultedGraph
  <1>8. /\ \A w \in O : \E d \in Documents(tree) :
             /\ d.id \notin Sub /\ w = [file |-> FileOf(tree, d.id), doc |-> Follow(d, old, new)]
        /\ \A d \in Documents(tree) : /\ Follow(d, old, new).id = d.id
                                      /\ Follow(d, old, new).parent = d.parent
                                      /\ Follow(d, old, new).path = d.path
    <2>1. \A w \in O : \E d \in Documents(tree) :
            /\ d.id \notin Sub /\ w = [file |-> FileOf(tree, d.id), doc |-> Follow(d, old, new)]
      BY DEF Others, Kept
    <2>2. ASSUME NEW d \in Documents(tree)
          PROVE  /\ Follow(d, old, new).id = d.id /\ Follow(d, old, new).parent = d.parent
                 /\ Follow(d, old, new).path = d.path
      <3> HIDE DEF old, new
      <3>1. Follow(d, old, new) = [id |-> d.id, parent |-> d.parent, path |-> d.path,
                                   ref |-> Rewrite(d.ref, old, new)]
        BY <1>5, <1>7, MovedIsItem
      <3>2. QED
        BY <3>1
    <2>3. QED
      BY <2>1, <2>2
  <1>9. V = {FileOf(tree, i) : i \in {j \in Sub : at[j] # FileOf(tree, j)}}
    BY DEF Vacates
  <1> HIDE DEF at, moved, old, new, M, O, V, F, Sub
  <1>10. /\ \A i \in Sub : moved[i] \in Items /\ moved[i].id = i
         /\ \A i, j \in Sub : at[i] = at[j] \/ moved[i].path = moved[j].path => i = j
         /\ parent \notin Sub
    <2>1. \A i \in Sub : moved[i] \in Items /\ moved[i].id = i
      BY <1>4 DEF Transplants, Sub
    <2>2. ASSUME NEW i \in Sub, NEW j \in Sub, at[i] = at[j] \/ moved[i].path = moved[j].path
          PROVE  i = j
      <3>1. PICK r \in Paths : LiesAt(tree, id, at, i, r) /\ moved[i].path = new \o r
        BY <1>4 DEF Transplants, Sub
      <3>2. PICK s \in Paths : LiesAt(tree, id, at, j, s) /\ moved[j].path = new \o s
        BY <1>4 DEF Transplants, Sub
      <3>3. at[id] \in Paths /\ new \in Paths
        BY <1>4, <1>5 DEF Transplants
      <3>4. r = s
        <4>1. CASE at[i] = at[j]
          <5>1. at[id] \o r = at[id] \o s
            BY <3>1, <3>2, <4>1 DEF LiesAt
          <5>2. QED
            BY <3>3, <5>1, JoinCancels
        <4>2. CASE moved[i].path = moved[j].path
          BY <3>1, <3>2, <3>3, <4>2, JoinCancels
        <4>3. QED
          BY <2>2, <4>1, <4>2
      <3>5. FileOf(tree, i) = FileOf(tree, j)
        BY <3>1, <3>2, <3>4 DEF LiesAt
      <3>6. QED
        BY <1>1, <1>2, <3>5
    <2>3. QED
      BY <1>4, <2>1, <2>2 DEF Transplants, Sub
  (* A new file that is there already is the item's own.                   *)
  <1>11. \A i \in Sub, f \in DOMAIN tree : at[i] = f => tree[f].id = i
    BY <1>0, <1>1, <1>2
  <1>12. /\ \A w \in M : w.doc.id \in Sub /\ w.file = at[w.doc.id] /\ w.doc = moved[w.doc.id]
         /\ \A i \in Sub : [file |-> at[i], doc |-> moved[i]] \in M
    BY <1>6, <1>10
  <1>13. \A w \in O : /\ w.doc.id \notin Sub /\ w.file \in DOMAIN tree
                      /\ tree[w.file].id = w.doc.id /\ w.file = FileOf(tree, w.doc.id)
                      /\ w.doc.id \in IdsIn(tree)
                      /\ w = [file |-> FileOf(tree, w.doc.id),
                              doc |-> Follow(Doc(tree, w.doc.id), old, new)]
    <2>1. SUFFICES ASSUME NEW w \in O
                   PROVE  /\ w.doc.id \notin Sub /\ w.file \in DOMAIN tree
                          /\ tree[w.file].id = w.doc.id /\ w.file = FileOf(tree, w.doc.id)
                          /\ w.doc.id \in IdsIn(tree)
                          /\ w = [file |-> FileOf(tree, w.doc.id),
                                  doc |-> Follow(Doc(tree, w.doc.id), old, new)]
      OBVIOUS
    <2>2. PICK d \in Documents(tree) :
            /\ d.id \notin Sub /\ w = [file |-> FileOf(tree, d.id), doc |-> Follow(d, old, new)]
      BY <1>8
    <2>3. w.file = FileOf(tree, d.id) /\ w.doc.id = d.id
      BY <1>8, <2>2
    <2>4. d.id \in IdsIn(tree) /\ Doc(tree, d.id) = d
      BY <1>7
    <2>5. QED
      BY <1>2, <2>2, <2>3, <2>4
  <1>14. Shape(tree, M \cup O, V)
    <2>1. M \cup O \subseteq [file : Paths, doc : Items]
      BY <1>5
    <2>2. ASSUME NEW w \in M \cup O, NEW v \in M \cup O, w.file = v.file \/ w.doc.id = v.doc.id
          PROVE  w = v
      <3>0. /\ w = [file |-> w.file, doc |-> w.doc] /\ v = [file |-> v.file, doc |-> v.doc]
        BY <2>1
      <3>1. CASE w \in M /\ v \in M
        <4>1. w.doc.id = v.doc.id
          BY <1>10, <1>12, <2>2, <3>1
        <4>2. w.file = v.file /\ w.doc = v.doc
          BY <1>12, <3>1, <4>1
        <4>3. QED
          BY <3>0, <4>2
      <3>2. CASE w \in O /\ v \in O
        <4>1. w.doc.id = v.doc.id
          BY <1>13, <2>2, <3>2
        <4>2. QED
          BY <1>13, <3>2, <4>1
      <3>3. CASE (w \in M /\ v \in O) \/ (w \in O /\ v \in M)
        BY <1>11, <1>12, <1>13, <2>2, <3>3
      <3>4. QED
        BY <3>1, <3>2, <3>3
    <2>3. V \subseteq DOMAIN tree \ FilesOf(M \cup O)
      <3>1. SUFFICES ASSUME NEW i \in Sub, at[i] # FileOf(tree, i)
                     PROVE  /\ FileOf(tree, i) \in DOMAIN tree
                            /\ \A w \in M \cup O : w.file # FileOf(tree, i)
        BY <1>9 DEF FilesOf
      <3>2. FileOf(tree, i) \in DOMAIN tree /\ tree[FileOf(tree, i)].id = i
        BY <1>1, <1>2
      <3>3. QED
        BY <1>11, <1>12, <1>13, <3>1, <3>2
    <2>4. \A w \in M \cup O : w.file \in DOMAIN tree => tree[w.file].id = w.doc.id
      BY <1>11, <1>12, <1>13
    <2>5. ASSUME NEW f \in DOMAIN tree
          PROVE  f \in V \cup FilesOf(M \cup O) <=> \E w \in M \cup O : w.doc.id = tree[f].id
      <3>1. ASSUME f \in V PROVE \E w \in M \cup O : w.doc.id = tree[f].id
        <4>1. PICK i \in Sub : f = FileOf(tree, i)
          BY <1>9, <3>1
        <4>2. tree[f].id = i /\ [file |-> at[i], doc |-> moved[i]] \in M
          BY <1>1, <1>2, <1>12, <4>1
        <4>3. QED
          BY <1>10, <4>2
      <3>2. ASSUME f \in FilesOf(M \cup O) PROVE \E w \in M \cup O : w.doc.id = tree[f].id
        BY <2>4, <3>2 DEF FilesOf
      <3>3. ASSUME NEW w \in M \cup O, w.doc.id = tree[f].id PROVE f \in V \cup FilesOf(M \cup O)
        <4>1. CASE w \in M
          <5>1. tree[f].id \in Sub /\ f = FileOf(tree, tree[f].id) /\ w.file = at[tree[f].id]
            BY <1>3, <1>12, <3>3, <4>1
          <5>2. CASE at[tree[f].id] = f
            BY <5>1, <5>2 DEF FilesOf
          <5>3. CASE at[tree[f].id] # f
            BY <1>9, <5>1, <5>3
          <5>4. QED
            BY <5>2, <5>3
        <4>2. CASE w \in O
          BY <1>3, <1>13, <3>3, <4>2 DEF FilesOf
        <4>3. QED
          BY <4>1, <4>2
      <3>4. QED
        BY <3>1, <3>2, <3>3
    <2>6. QED
      BY <2>1, <2>2, <2>3, <2>4, <2>5 DEF Shape
  <1>15. M \cap O = {}
    BY <1>12, <1>13
  <1>16. Carried(tree, M \cup O, V, F)
    BY <1>14, FinalMeans DEF F
  <1>17. CASE at[id] = FileOf(tree, id)
    <2>1. /\ \A i \in Sub : moved[i] = Doc(tree, i)
          /\ \A d \in Documents(tree) : Follow(d, old, new) = d
      <3>1. FileOf(tree, id) = Append(FileOf(tree, parent), name)
        BY <1>4, <1>17 DEF Transplants
      <3>2. QED
        BY <3>1, MoveNowhere DEF Sub, moved, old, new
    <2>2. \A i \in Sub : at[i] = FileOf(tree, i)
      <3>1. SUFFICES ASSUME NEW i \in Sub PROVE at[i] = FileOf(tree, i)
        OBVIOUS
      <3>2. PICK r \in Paths : LiesAt(tree, id, at, i, r)
        BY <1>4 DEF Transplants, Sub
      <3>3. QED
        BY <1>17, <3>2 DEF LiesAt
    <2>3. V = {}
      BY <1>9, <2>2
    <2>4. \A w \in M \cup O : w.file \in DOMAIN tree /\ tree[w.file] = w.doc
      <3>1. \A w \in M : w.file \in DOMAIN tree /\ tree[w.file] = w.doc
        BY <1>1, <1>2, <1>12, <2>1, <2>2
      <3>2. \A w \in O : w.file \in DOMAIN tree /\ tree[w.file] = w.doc
        <4>1. SUFFICES ASSUME NEW w \in O PROVE w.file \in DOMAIN tree /\ tree[w.file] = w.doc
          OBVIOUS
        <4>2. PICK d \in Documents(tree) :
                w = [file |-> FileOf(tree, d.id), doc |-> Follow(d, old, new)]
          BY <1>8
        <4>3. w.file = FileOf(tree, d.id) /\ w.doc = d
          BY <2>1, <4>2
        <4>4. QED
          BY <1>2, <1>7, <4>3
      <3>3. QED
        BY <3>1, <3>2
    <2>5. InPlace(tree, M, O, V)
      BY <2>3, <2>4 DEF InPlace
    <2>6. Good(F)
      <3>1. DOMAIN F = DOMAIN tree
        BY <1>16, <2>3, <2>4 DEF Carried, FilesOf
      <3>2. \A f \in DOMAIN tree : F[f] = tree[f]
        BY <1>16, <2>3, <2>4 DEF Carried, FilesOf
      <3>3. F \in [DOMAIN tree -> Items \cup {Broken}] /\ tree \in [DOMAIN tree -> Items \cup {Broken}]
        BY <1>16, <3>1 DEF Carried, IsGraph
      <3>4. F = tree
        BY <3>2, <3>3
      <3>5. QED
        BY <3>4
    <2>7. QED
      BY <1>14, <1>15, <2>5, <2>6 DEF Plan, M, O, V, F
  <1>18. CASE at[id] # FileOf(tree, id)
    <2>1. \A i \in Sub : at[i] # FileOf(tree, i) /\ at[i] \notin DOMAIN tree
      <3>1. SUFFICES ASSUME NEW i \in Sub PROVE at[i] # FileOf(tree, i)
        BY <1>0 DEF at, Sub
      <3>2. PICK r \in Paths : LiesAt(tree, id, at, i, r)
        BY <1>4 DEF Transplants, Sub
      <3>3. at[id] \in Paths /\ FileOf(tree, id) \in Paths
        BY <1>0, <1>2, <1>4 DEF Transplants
      <3>4. QED
        BY <1>18, <3>2, <3>3, JoinCancelsRight DEF LiesAt
    <2>2. V = {FileOf(tree, i) : i \in Sub}
      BY <1>9, <2>1
    <2>3. Relocates(tree, M, O, V)
      <3>1. M # {}
        BY <1>1, <1>12
      <3>2. \A w \in M : w.file \notin DOMAIN tree /\ \E f \in V : tree[f].id = w.doc.id
        BY <1>1, <1>2, <1>12, <2>1, <2>2
      <3>3. \A f \in V : \E w \in M : tree[f].id = w.doc.id
        <4>1. SUFFICES ASSUME NEW i \in Sub PROVE \E w \in M : tree[FileOf(tree, i)].id = w.doc.id
          BY <2>2
        <4>2. /\ tree[FileOf(tree, i)].id = i /\ [file |-> at[i], doc |-> moved[i]] \in M
              /\ moved[i].id = i
          BY <1>1, <1>2, <1>10, <1>12
        <4>3. QED
          BY <4>2
      <3>4. QED
        BY <1>13, <3>1, <3>2, <3>3 DEF Relocates
    <2> DEFINE g0 == FileOf(tree, parent)
               kept == {f \in DOMAIN tree : tree[f].id \notin Sub}
               graft == FilesOf(M)
    <2>4. DOMAIN F = kept \cup graft
      <3>1. DOMAIN F = (DOMAIN tree \ V) \cup FilesOf(M \cup O)
        BY <1>16 DEF Carried
      <3>2. \A f \in DOMAIN tree : f \in V <=> tree[f].id \in Sub
        BY <1>1, <1>2, <1>3, <2>2
      <3>3. FilesOf(M \cup O) = graft \cup FilesOf(O) /\ FilesOf(O) \subseteq kept
        BY <1>13 DEF FilesOf
      <3>4. QED
        BY <3>1, <3>2, <3>3
    <2>5. \A f \in kept : F[f].id = tree[f].id /\ F[f].parent = tree[f].parent
                          /\ F[f].path = tree[f].path /\ F[f] \in Items
      <3>1. SUFFICES ASSUME NEW f \in kept
                     PROVE  F[f].id = tree[f].id /\ F[f].parent = tree[f].parent
                            /\ F[f].path = tree[f].path /\ F[f] \in Items
        OBVIOUS
      <3>2. CASE f \in FilesOf(M \cup O)
        <4>1. PICK w \in M \cup O : w.file = f
          BY <3>2 DEF FilesOf
        <4>2. w \in O
          BY <1>12, <2>1, <4>1
        <4>3. PICK d \in Documents(tree) :
                w = [file |-> FileOf(tree, d.id), doc |-> Follow(d, old, new)]
          BY <1>8, <4>2
        <4>4. tree[f] = d
          BY <1>2, <1>7, <4>1, <4>3
        <4>5. F[f] = Follow(d, old, new) /\ F[f] \in Items
          BY <1>5, <1>16, <4>1, <4>2, <4>3 DEF Carried
        <4>6. QED
          BY <1>8, <4>4, <4>5
      <3>3. CASE f \notin FilesOf(M \cup O)
        <4>1. f \notin V
          BY <1>1, <1>2, <2>2
        <4>2. F[f] = tree[f]
          BY <1>16, <3>3, <4>1 DEF Carried
        <4>3. QED
          BY <1>7, <4>2
      <3>4. QED
        BY <3>2, <3>3
    <2>6. \A i \in Sub : at[i] \in graft /\ F[at[i]] = moved[i]
      <3>1. SUFFICES ASSUME NEW i \in Sub PROVE at[i] \in graft /\ F[at[i]] = moved[i]
        OBVIOUS
      <3>2. PICK w \in M : w.file = at[i] /\ w.doc = moved[i]
        BY <1>12
      <3>3. QED
        BY <1>16, <3>2 DEF Carried, FilesOf
    <2>7. \A f \in graft : \E i \in Sub : f = at[i]
      BY <1>12 DEF FilesOf
    <2>8. /\ g0 \in kept /\ kept \subseteq DOMAIN tree /\ tree[g0] = Doc(tree, parent)
          /\ tree[g0].id = parent /\ new = Append(tree[g0].path, name)
      BY <1>0, <1>2, <1>10 DEF new, NewPath
    <2>9. ASSUME NEW f \in kept, NEW g \in DOMAIN tree, tree[f].parent = tree[g].id
          PROVE  g \in kept
      <3>1. ClosedUnderChildren(tree, Sub)
        BY <1>0, SubtreeCloses DEF Sub
      <3>2. QED
        BY <1>7, <2>9, <3>1 DEF ClosedUnderChildren
    <2>10. \A f \in kept : tree[f].parent = tree[g0].id => NameOf(tree[f]) # name
      <3>1. \A f \in kept : tree[f] \in Documents(tree) /\ tree[f].id # id
        BY <1>1, <1>7
      <3>2. QED
        BY <2>8, <3>1 DEF MayMove, Children
    <2>11. ASSUME NEW i \in Sub
           PROVE  /\ moved[i].parent # Outside
                  /\ IsPrefix(new, moved[i].path) /\ IsPrefix(Append(g0, name), at[i])
                  /\ \E g \in graft \cup {g0} :
                       /\ F[g].id = moved[i].parent
                       /\ moved[i].path = Append(F[g].path, NameOf(moved[i]))
                       /\ at[i] = ChildFile(g, NameOf(moved[i]))
      <3>1. PICK r \in Paths : LiesAt(tree, id, at, i, r) /\ moved[i].path = new \o r
        BY <1>4 DEF Transplants, Sub
      <3>2. IsPrefix(new, moved[i].path) /\ IsPrefix(Append(g0, name), at[i])
        <4>1. at[id] = Append(g0, name) /\ at[id] \in Paths /\ at[i] = at[id] \o r
          BY <1>4, <3>1 DEF Transplants, LiesAt
        <4>2. QED
          BY <1>5, <3>1, <4>1, BelowJoin
      <3>3. CASE i = id
        <4>1. /\ moved[i].parent = parent /\ moved[i].path = new /\ NameOf(moved[i]) = name
              /\ at[i] = Append(g0, name)
          BY <1>4, <3>3 DEF Transplants
        <4>2. F[g0].id = parent /\ F[g0].path = tree[g0].path
          BY <2>5, <2>8
        <4>3. moved[i].parent # Outside
          BY <1>5, <4>1, MarksAssumption
        <4>4. QED
          BY <2>8, <3>2, <4>1, <4>2, <4>3 DEF ChildFile
      <3>4. CASE i # id
        <4>1. PICK p \in Sub : /\ moved[i].parent = p
                               /\ moved[i].path = Append(moved[p].path, NameOf(moved[i]))
                               /\ at[i] = ChildFile(at[p], NameOf(moved[i]))
          BY <1>4, <3>4 DEF Transplants, Sub
        <4>2. at[p] \in graft /\ F[at[p]] = moved[p] /\ moved[p].id = p
          BY <1>10, <2>6
        <4>3. moved[i].parent # Outside
          <5>1. p \in Ids
            BY <1>1, <1>2 DEF Items
          <5>2. QED
            BY <4>1, <5>1, MarksAssumption
        <4>4. QED
          BY <3>2, <4>1, <4>2, <4>3
      <3>5. QED
        BY <3>3, <3>4
    <2>12. Grafted(tree, g0, name, kept, F, graft)
      <3>1. IsGraph(F)
        BY <1>16 DEF Carried
      <3>2. ASSUME NEW f \in graft
            PROVE  /\ F[f] \in Items /\ F[f].parent # Outside
                   /\ IsPrefix(Append(tree[g0].path, name), F[f].path)
                   /\ IsPrefix(Append(g0, name), f)
                   /\ \E g \in graft \cup {g0} : /\ F[g].id = F[f].parent
                                                 /\ F[f].path = Append(F[g].path, NameOf(F[f]))
                                                 /\ f = ChildFile(g, NameOf(F[f]))
                   /\ \A g \in graft : F[f].id = F[g].id \/ F[f].path = F[g].path => f = g
                   /\ \A g \in kept : F[f].id # tree[g].id
        <4>1. PICK i \in Sub : f = at[i]
          BY <2>7
        <4>2. F[f] = moved[i] /\ moved[i] \in Items /\ moved[i].id = i
          BY <1>10, <2>6, <4>1
        <4>3. \A g \in graft : F[f].id = F[g].id \/ F[f].path = F[g].path => f = g
          <5>1. SUFFICES ASSUME NEW g \in graft, F[f].id = F[g].id \/ F[f].path = F[g].path
                         PROVE  f = g
            OBVIOUS
          <5>2. PICK j \in Sub : g = at[j]
            BY <2>7
          <5>3. F[g] = moved[j] /\ moved[j].id = j
            BY <1>10, <2>6, <5>2
          <5>4. i = j
            BY <1>10, <4>2, <5>1, <5>3
          <5>5. QED
            BY <4>1, <5>2, <5>4
        <4>4. \A g \in kept : F[f].id # tree[g].id
          BY <4>2
        <4> HIDE DEF kept, graft, g0
        <4>5. QED
          BY <2>8, <2>11, <4>1, <4>2, <4>3, <4>4
      <3> HIDE DEF kept, graft, g0
      <3>3. QED
        BY <1>0, <2>4, <2>5, <2>8, <2>9, <2>10, <3>1, <3>2 DEF Grafted
    <2>13. Good(F)
      BY <2>12, GraftIsGood
    <2>14. QED
      BY <1>14, <1>15, <2>3, <2>13 DEF Plan, M, O, V, F
  <1>19. QED
    BY <1>17, <1>18

-----------------------------------------------------------------------------
(* A request under way, seen as what a scan finds: the tree T differs from *)
(* the tree it was planned for only in the writes that are done or begun   *)
(* and in the old files that are removed, and these come in their order.   *)
Same(T, tree, f) ==
  (f \in DOMAIN T <=> f \in DOMAIN tree) /\ (f \in DOMAIN tree => T[f] = tree[f])

Midway(T, tree, moves, others, old, pending, partial, left) ==
  /\ \A f : f \notin FilesOf(moves \cup others) \cup old => Same(T, tree, f)
  /\ \A w \in pending : Same(T, tree, w.file)
  /\ \A w \in partial : w.file \in DOMAIN T =>
                          T[w.file] \in {Broken, [w.doc EXCEPT !.ref = NoRef]}
  /\ \A w \in (moves \cup others) \ (pending \cup partial) :
       w.file \in DOMAIN T /\ T[w.file] = w.doc
  /\ \A f \in left : Same(T, tree, f)
  /\ \A f \in old \ left : f \notin DOMAIN T
  /\ pending \cup partial \subseteq moves \cup others /\ pending \cap partial = {}
  /\ \A w, v \in partial : w = v
  /\ (pending \cup partial) \cap moves # {} => others \subseteq pending
  /\ left \subseteq old /\ (left # old => pending \cup partial = {})

(* What a request must leave to whoever scans: a fault, the tree as it was *)
(* or the tree as it is to be, but for the documents at risk; no id lost;  *)
(* and paths that follow the parents.                                      *)
SafeOf(docs, risky) == {d \in docs : d.id \notin risky}
Outcome(T, docs, final, risky) ==
  /\ \/ Faulted(T)
     \/ SafeOf(Documents(T), risky) = SafeOf(docs, risky)
     \/ SafeOf(Documents(T), risky) = SafeOf(final, risky)
  /\ {d.id : d \in docs} \subseteq IdsIn(T) \cup risky
  /\ risky = {} => Faulted(T) \/ Placed(T)

Risky(tree, partial) == {w.doc.id : w \in {v \in partial : v.file \in DOMAIN tree}}

LEMMA SameTrees ==
  ASSUME NEW T, IsGraph(T), NEW S, IsGraph(S), \A f : Same(T, S, f)
  PROVE  T = S
  <1>1. DOMAIN T = DOMAIN S /\ \A f \in DOMAIN S : T[f] = S[f]
    BY DEF Same
  <1>2. T \in [DOMAIN S -> Items \cup {Broken}] /\ S \in [DOMAIN S -> Items \cup {Broken}]
    BY <1>1 DEF IsGraph
  <1>3. QED
    BY <1>1, <1>2

LEMMA TwiceIsFault ==
  ASSUME NEW T, NEW f \in DOMAIN T, NEW g \in DOMAIN T, f # g,
         T[f] \in Items, T[g] \in Items, T[f].id = T[g].id
  PROVE  Faulted(T)
  BY NoMarkIsItem DEF Faulted

(* No id is ever lost.                                                     *)
LEMMA NoIdLost ==
  ASSUME NEW tree, IsGraph(tree), Good(tree), NEW T, IsGraph(T),
         NEW moves, NEW others, NEW old, Plan(tree, moves, others, old),
         NEW pending, NEW partial, NEW left,
         Midway(T, tree, moves, others, old, pending, partial, left)
  PROVE  {d.id : d \in Documents(tree)} \subseteq IdsIn(T) \cup Risky(tree, partial)
  <1>1. /\ \A f \in DOMAIN tree : tree[f] \in Items
        /\ Documents(tree) = {tree[f] : f \in DOMAIN tree}
    BY UnfaultedGraph DEF Good
  <1>2. \A f \in DOMAIN T : T[f] \in Items => T[f].id \in IdsIn(T)
    BY NoMarkIsItem DEF IdsIn, Documents
  <1>3. SUFFICES ASSUME NEW f \in DOMAIN tree
                 PROVE  tree[f].id \in IdsIn(T) \cup Risky(tree, partial)
    BY <1>1
  <1>4. CASE Same(T, tree, f)
    BY <1>1, <1>2, <1>4 DEF Same
  <1>5. CASE \E w \in moves \cup others : w.doc.id = tree[f].id /\ w \notin pending \cup partial
    <2>1. PICK w \in (moves \cup others) \ (pending \cup partial) : w.doc.id = tree[f].id
      BY <1>5
    <2>2. w.file \in DOMAIN T /\ T[w.file] = w.doc /\ w.doc \in Items
      BY <2>1 DEF Midway, Plan, Shape
    <2>3. QED
      BY <1>2, <2>1, <2>2
  <1>6. CASE f \in old \ left
    <2>1. pending \cup partial = {}
      BY <1>6 DEF Midway
    <2>2. \E w \in moves \cup others : w.doc.id = tree[f].id
      BY <1>6 DEF Plan, Shape
    <2>3. QED
      BY <1>5, <2>1, <2>2
  <1>7. CASE f \in FilesOf(moves \cup others)
    <2>1. PICK w \in moves \cup others : w.file = f
      BY <1>7 DEF FilesOf
    <2>2. tree[f].id = w.doc.id
      BY <2>1 DEF Plan, Shape
    <2>3. CASE w \in pending
      BY <1>4, <2>1, <2>3 DEF Midway
    <2>4. CASE w \in partial
      BY <2>1, <2>2, <2>4 DEF Risky
    <2>5. CASE w \notin pending \cup partial
      BY <1>5, <2>1, <2>2, <2>5
    <2>6. QED
      BY <2>3, <2>4, <2>5
  <1>8. CASE f \in left
    BY <1>4, <1>8 DEF Midway
  <1>9. CASE f \notin FilesOf(moves \cup others) \cup old
    BY <1>4, <1>9 DEF Midway
  <1>10. QED
    BY <1>6, <1>7, <1>8, <1>9

(* When everything is written and removed, the final tree is found.        *)
LEMMA DoneIsFinal ==
  ASSUME NEW tree, IsGraph(tree), NEW T, IsGraph(T),
         NEW moves, NEW others, NEW old, Plan(tree, moves, others, old),
         Midway(T, tree, moves, others, old, {}, {}, {})
  PROVE  T = Final(tree, moves \cup others, old)
  <1> DEFINE writes == moves \cup others
             F == Final(tree, writes, old)
  <1>1. Carried(tree, writes, old, F)
    BY FinalMeans DEF Plan
  <1> HIDE DEF F
  <1>2. SUFFICES ASSUME NEW f PROVE Same(T, F, f)
    <2>1. T = F
      BY <1>1, <1>2, SameTrees DEF Carried
    <2>2. QED
      BY <2>1 DEF F
  <1>3. CASE f \in FilesOf(writes)
    <2>1. PICK w \in writes : w.file = f
      BY <1>3 DEF FilesOf
    <2>2. f \in DOMAIN T /\ T[f] = w.doc
      BY <2>1 DEF Midway
    <2>3. f \in DOMAIN F /\ F[f] = w.doc
      BY <1>1, <1>3, <2>1 DEF Carried
    <2>4. QED
      BY <2>2, <2>3 DEF Same
  <1>4. CASE f \in old
    <2>1. f \notin FilesOf(writes)
      BY <1>4 DEF Plan, Shape
    <2>2. f \notin DOMAIN T
      BY <1>4 DEF Midway
    <2>3. QED
      BY <1>1, <1>4, <2>1, <2>2 DEF Carried, Same
  <1>5. CASE f \notin FilesOf(writes) \cup old
    <2>1. Same(T, tree, f)
      BY <1>5 DEF Midway
    <2>2. QED
      BY <1>1, <1>5, <2>1 DEF Carried, Same
  <1>6. QED
    BY <1>3, <1>4, <1>5

(* A tree that is whole is a good outcome: the one before or the one after.*)
LEMMA WholeIsOutcome ==
  ASSUME NEW T, NEW docs, NEW final, NEW risky, {d.id : d \in docs} \subseteq IdsIn(T) \cup risky,
         Faulted(T) \/ (Placed(T) /\ (Documents(T) = docs \/ Documents(T) = final))
  PROVE  Outcome(T, docs, final, risky)
  BY DEF Outcome, SafeOf

LEMMA UntouchedIsOutcome ==
  ASSUME NEW tree, IsGraph(tree), Good(tree), NEW T, IsGraph(T), NEW final, NEW risky,
         {d.id : d \in Documents(tree)} \subseteq IdsIn(T) \cup risky,
         \A f : Same(T, tree, f)
  PROVE  Outcome(T, Documents(tree), final, risky)
  <1>1. T = tree
    BY SameTrees
  <1>2. QED
    BY <1>1, WholeIsOutcome DEF Good

LEMMA InPlaceOutcome ==
  ASSUME NEW tree, IsGraph(tree), Good(tree), NEW T, IsGraph(T),
         NEW moves, NEW others, NEW old, Plan(tree, moves, others, old),
         NEW pending, NEW partial, NEW left,
         Midway(T, tree, moves, others, old, pending, partial, left),
         InPlace(tree, moves, others, old), NEW final
  PROVE  Outcome(T, Documents(tree), final, Risky(tree, partial))
  <1> DEFINE writes == moves \cup others
  <1>0. {d.id : d \in Documents(tree)} \subseteq IdsIn(T) \cup Risky(tree, partial)
    BY NoIdLost
  <1>1. \A w \in writes : /\ w.file \in DOMAIN tree /\ tree[w.file] = w.doc
                          /\ w.doc \in Items
    BY DEF InPlace, Plan, Shape
  <1>2. ASSUME NEW f, f \notin FilesOf(partial) PROVE Same(T, tree, f)
    <2>1. CASE f \in FilesOf(writes)
      <3>1. PICK w \in writes : w.file = f
        BY <2>1 DEF FilesOf
      <3>2. w \notin partial
        BY <1>2, <3>1 DEF FilesOf
      <3>3. CASE w \in pending
        BY <3>1, <3>3 DEF Midway
      <3>4. CASE w \notin pending
        BY <1>1, <3>1, <3>2, <3>4 DEF Midway, Same
      <3>5. QED
        BY <3>3, <3>4
    <2>2. CASE f \notin FilesOf(writes)
      BY <2>2 DEF Midway, InPlace
    <2>3. QED
      BY <2>1, <2>2
  <1>3. CASE partial = {}
    BY <1>0, <1>2, <1>3, UntouchedIsOutcome DEF FilesOf
  <1>4. CASE partial # {}
    <2>1. PICK w \in partial : partial = {w}
      BY <1>4 DEF Midway
    <2>2. w \in writes
      BY <2>1 DEF Midway
    <2> DEFINE f0 == w.file
    <2>3. Risky(tree, partial) = {w.doc.id} /\ f0 \in DOMAIN tree /\ tree[f0] = w.doc
      BY <1>1, <2>1, <2>2 DEF Risky
    <2>4. \A f : f # f0 => Same(T, tree, f)
      BY <1>2, <2>1 DEF FilesOf
    <2>5. f0 \in DOMAIN T => T[f0] = Broken \/ (T[f0] \in Items /\ T[f0].id = w.doc.id)
      <3>1. [w.doc EXCEPT !.ref = NoRef].id = w.doc.id
        BY <1>1, <2>2 DEF Items
      <3>2. f0 \in DOMAIN T => T[f0] = Broken \/ T[f0] = [w.doc EXCEPT !.ref = NoRef]
        BY <2>1 DEF Midway
      <3>3. f0 \in DOMAIN T => T[f0] \in Items \cup {Broken}
        BY DEF IsGraph
      <3>4. QED
        BY <3>1, <3>2, <3>3
    <2>6. SafeOf(Documents(T), {w.doc.id}) = SafeOf(Documents(tree), {w.doc.id})
      <3>1. \A f \in DOMAIN tree : /\ tree[f] \in Items
                                   /\ f # f0 => tree[f].id # w.doc.id
        BY <2>3, UnfaultedGraph DEF Good
      <3>2. Documents(tree) = {tree[f] : f \in DOMAIN tree}
        BY UnfaultedGraph DEF Good
      <3>3. ASSUME NEW d \in Documents(T), d.id # w.doc.id PROVE d \in Documents(tree)
        <4>1. PICK f \in DOMAIN T : d = T[f]
          BY DEF Documents
        <4>2. f # f0
          BY <2>5, <3>3, <4>1 DEF Documents
        <4>3. QED
          BY <2>4, <3>2, <4>1, <4>2 DEF Same
      <3>4. ASSUME NEW d \in Documents(tree), d.id # w.doc.id PROVE d \in Documents(T)
        <4>1. PICK f \in DOMAIN tree : d = tree[f]
          BY <3>2
        <4>2. f # f0
          BY <2>3, <3>4, <4>1
        <4>3. f \in DOMAIN T /\ T[f] = d /\ d \in Items
          BY <2>4, <3>1, <4>1, <4>2 DEF Same
        <4>4. QED
          BY <4>3, NoMarkIsItem DEF Documents
      <3>5. QED
        BY <3>3, <3>4 DEF SafeOf
    <2>7. QED
      BY <1>0, <2>3, <2>6 DEF Outcome
  <1>5. QED
    BY <1>3, <1>4

LEMMA CreatesOutcome ==
  ASSUME NEW tree, IsGraph(tree), Good(tree), NEW T, IsGraph(T),
         NEW moves, NEW others, NEW old, Plan(tree, moves, others, old),
         NEW pending, NEW partial, NEW left,
         Midway(T, tree, moves, others, old, pending, partial, left),
         Creates(tree, moves, others, old)
  PROVE  Outcome(T, Documents(tree), Documents(Final(tree, moves \cup others, old)),
                 Risky(tree, partial))
  <1> DEFINE final == Documents(Final(tree, moves \cup others, old))
  <1>0. {d.id : d \in Documents(tree)} \subseteq IdsIn(T) \cup Risky(tree, partial)
    BY NoIdLost
  <1>1. PICK w \in moves : /\ moves = {w} /\ w.file \notin DOMAIN tree /\ w.doc.ref = NoRef
                           /\ others = {} /\ old = {} /\ w.doc \in Items
    BY DEF Creates, Plan, Shape
  <1>2. \A f : f # w.file => Same(T, tree, f)
    BY <1>1 DEF Midway, FilesOf
  <1>3. w.file \notin DOMAIN T => Outcome(T, Documents(tree), final, Risky(tree, partial))
    <2>1. SUFFICES ASSUME w.file \notin DOMAIN T
                   PROVE  \A f : Same(T, tree, f)
      BY <1>0, UntouchedIsOutcome
    <2>2. QED
      BY <1>1, <1>2, <2>1 DEF Same
  <1>4. w.file \in DOMAIN T /\ T[w.file] = Broken =>
          Outcome(T, Documents(tree), final, Risky(tree, partial))
    BY <1>0, WholeIsOutcome DEF Faulted
  <1>5. w.file \in DOMAIN T /\ T[w.file] = w.doc =>
          Outcome(T, Documents(tree), final, Risky(tree, partial))
    <2>1. SUFFICES ASSUME w.file \in DOMAIN T, T[w.file] = w.doc
                   PROVE  Outcome(T, Documents(tree), final, Risky(tree, partial))
      OBVIOUS
    <2>2. Midway(T, tree, moves, others, old, {}, {}, {})
      BY <1>1, <1>2, <2>1 DEF Midway, FilesOf
    <2>3. T = Final(tree, moves \cup others, old)
      BY <2>2, DoneIsFinal
    <2>4. Placed(T) /\ Documents(T) = final
      BY <2>3 DEF Plan, Good
    <2>5. QED
      BY <1>0, <2>4, WholeIsOutcome
  <1>6. [w.doc EXCEPT !.ref = NoRef] = w.doc
    BY <1>1 DEF Items
  <1>7. w \in pending => w.file \notin DOMAIN T
    BY <1>1 DEF Midway, Same
  <1>8. w \in partial /\ w.file \in DOMAIN T => T[w.file] \in {Broken, w.doc}
    BY <1>6 DEF Midway
  <1>9. w \notin pending \cup partial => w.file \in DOMAIN T /\ T[w.file] = w.doc
    BY DEF Midway
  <1>10. QED
    BY <1>3, <1>4, <1>5, <1>7, <1>8, <1>9

LEMMA RelocatesOutcome ==
  ASSUME NEW tree, IsGraph(tree), Good(tree), NEW T, IsGraph(T),
         NEW moves, NEW others, NEW old, Plan(tree, moves, others, old),
         NEW pending, NEW partial, NEW left,
         Midway(T, tree, moves, others, old, pending, partial, left),
         Relocates(tree, moves, others, old)
  PROVE  Outcome(T, Documents(tree), Documents(Final(tree, moves \cup others, old)),
                 Risky(tree, partial))
  <1> DEFINE final == Documents(Final(tree, moves \cup others, old))
             Good1 == Outcome(T, Documents(tree), final, Risky(tree, partial))
  <1>0. {d.id : d \in Documents(tree)} \subseteq IdsIn(T) \cup Risky(tree, partial)
    BY NoIdLost
  <1>1. Faulted(T) => Good1
    BY <1>0, WholeIsOutcome
  <1>2. /\ \A f \in DOMAIN tree : tree[f] \in Items
        /\ \A w \in moves : w.file \notin DOMAIN tree /\ w.doc \in Items
        /\ old \subseteq DOMAIN tree
    BY UnfaultedGraph DEF Good, Relocates, Plan, Shape
  <1> SUFFICES Good1
    OBVIOUS
  <1> HIDE DEF Good1, final
  (* An item that is found in its new file as in its old one is a fault.   *)
  <1>3. ASSUME NEW w \in moves, NEW f \in left, tree[f].id = w.doc.id,
               w.file \in DOMAIN T, T[w.file] \in Items, T[w.file].id = w.doc.id
        PROVE  Faulted(T)
    <2>1. f \in DOMAIN T /\ T[f] = tree[f] /\ f # w.file /\ T[f] \in Items
      BY <1>2 DEF Midway, Same
    <2>2. QED
      BY <1>3, <2>1, TwiceIsFault
  <1>4. CASE moves \subseteq pending \cup partial
    <2>1. others \subseteq pending /\ left = old /\ partial \subseteq moves
      BY <1>4 DEF Midway, Relocates, Plan
    <2>2. ASSUME NEW f, f \notin FilesOf(partial) PROVE Same(T, tree, f)
      <3>1. CASE f \in FilesOf(moves \cup others)
        <4>1. PICK w \in moves \cup others : w.file = f
          BY <3>1 DEF FilesOf
        <4>2. w \in pending
          BY <1>4, <2>1, <2>2, <4>1 DEF FilesOf
        <4>3. QED
          BY <4>1, <4>2 DEF Midway
      <3>2. CASE f \in old
        BY <2>1, <3>2 DEF Midway
      <3>3. CASE f \notin FilesOf(moves \cup others) \cup old
        BY <3>3 DEF Midway
      <3>4. QED
        BY <3>1, <3>2, <3>3
    <2>3. CASE \A w \in partial : w.file \notin DOMAIN T
      <3>1. \A f : Same(T, tree, f)
        <4>1. \A f \in FilesOf(partial) : Same(T, tree, f)
          BY <1>2, <2>1, <2>3 DEF FilesOf, Same
        <4>2. QED
          BY <2>2, <4>1
      <3>2. QED
        BY <1>0, <3>1, UntouchedIsOutcome DEF Good1
    <2>4. CASE \E w \in partial : w.file \in DOMAIN T
      <3>1. PICK w \in partial : w.file \in DOMAIN T
        BY <2>4
      <3>2. w \in moves /\ w.doc \in Items
        BY <1>2, <2>1
      <3>3. T[w.file] = Broken \/ T[w.file] = [w.doc EXCEPT !.ref = NoRef]
        BY <3>1 DEF Midway
      <3>4. CASE T[w.file] = Broken
        BY <1>1, <3>1, <3>4 DEF Faulted
      <3>5. CASE T[w.file] = [w.doc EXCEPT !.ref = NoRef]
        <4>1. T[w.file].id = w.doc.id
          BY <3>2, <3>5 DEF Items
        <4>2. NoRef \in Paths
          BY EmptySeq DEF NoRef, Paths
        <4>3. T[w.file] \in Items
          BY <3>2, <3>5, <4>2 DEF Items
        <4>4. PICK f \in old : tree[f].id = w.doc.id
          BY <3>2 DEF Relocates
        <4>5. QED
          BY <1>1, <1>3, <2>1, <3>1, <3>2, <4>1, <4>3, <4>4
      <3>6. QED
        BY <3>3, <3>4, <3>5
    <2>5. QED
      BY <2>3, <2>4
  <1>5. CASE \E w \in moves : w \notin pending \cup partial
    <2>1. PICK w \in moves : w \notin pending \cup partial
      BY <1>5
    <2>2. CASE left = old
      <3>1. PICK f \in old : tree[f].id = w.doc.id
        BY DEF Relocates
      <3>2. w.file \in DOMAIN T /\ T[w.file] = w.doc
        BY <2>1 DEF Midway
      <3>3. QED
        BY <1>1, <1>2, <1>3, <2>2, <3>1, <3>2
    <2>3. CASE left # old
      <3>1. pending = {} /\ partial = {} /\ left \subseteq old
        BY <2>3 DEF Midway
      <3>2. CASE left = {}
        <4>1. Midway(T, tree, moves, others, old, {}, {}, {})
          BY <3>1, <3>2
        <4>2. T = Final(tree, moves \cup others, old)
          BY <4>1, DoneIsFinal
        <4>3. Placed(T) /\ Documents(T) = final
          BY <4>2 DEF Plan, Good, final
        <4>4. QED
          BY <1>0, <4>3, WholeIsOutcome DEF Good1
      <3>3. CASE left # {}
        <4>1. PICK f \in left : TRUE
          BY <3>3
        <4>2. PICK v \in moves : tree[f].id = v.doc.id
          BY <3>1 DEF Relocates
        <4>3. v.file \in DOMAIN T /\ T[v.file] = v.doc
          BY <3>1 DEF Midway
        <4>4. QED
          BY <1>1, <1>2, <1>3, <4>2, <4>3
      <3>4. QED
        BY <3>2, <3>3
    <2>4. QED
      BY <2>2, <2>3
  <1>6. QED
    BY <1>4, <1>5

(* At every moment of a request, whoever scans finds one of the outcomes.  *)
LEMMA MidwayOutcome ==
  ASSUME NEW tree, IsGraph(tree), Good(tree), NEW T, IsGraph(T),
         NEW moves, NEW others, NEW old, Plan(tree, moves, others, old),
         NEW pending, NEW partial, NEW left,
         Midway(T, tree, moves, others, old, pending, partial, left)
  PROVE  Outcome(T, Documents(tree), Documents(Final(tree, moves \cup others, old)),
                 Risky(tree, partial))
  <1>1. CASE InPlace(tree, moves, others, old)
    BY <1>1, InPlaceOutcome
  <1>2. CASE Creates(tree, moves, others, old)
    BY <1>2, CreatesOutcome
  <1>3. CASE Relocates(tree, moves, others, old)
    BY <1>3, RelocatesOutcome
  <1>4. QED
    BY <1>1, <1>2, <1>3 DEF Plan

(* ---- The steps of a request, seen the same way.                         *)
LEMMA MidwayBegins ==
  ASSUME NEW tree, NEW moves, NEW others, NEW old, Plan(tree, moves, others, old)
  PROVE  Midway(tree, tree, moves, others, old, moves \cup others, {}, old)
  BY DEF Midway, Same

(* A write is begun, ends or fails: w was pending or partial, and is now   *)
(* partial (B = {w}) or done (B = {}).                                     *)
LEMMA WriteStep ==
  ASSUME NEW tree, NEW moves, NEW others, NEW old, Plan(tree, moves, others, old),
         NEW T, NEW pending, NEW partial, NEW left,
         Midway(T, tree, moves, others, old, pending, partial, left),
         NEW w \in pending \cup partial, partial \subseteq {w},
         w \in moves \/ pending \cap moves = {},
         NEW S, \A f : f # w.file => Same(S, T, f), NEW B \in {{}, {w}},
         B = {} => w.file \in DOMAIN S /\ S[w.file] = w.doc,
         w.file \in DOMAIN S => S[w.file] \in {Broken, [w.doc EXCEPT !.ref = NoRef]} \/ B = {}
  PROVE  Midway(S, tree, moves, others, old, pending \ {w}, B, left)
  <1> DEFINE writes == moves \cup others
  <1>1. w \in writes /\ left = old
    BY DEF Midway
  <1>2. \A f : f # w.file /\ Same(T, tree, f) => Same(S, tree, f)
    BY DEF Same
  <1>3. /\ \A v \in writes : v.file = w.file => v = w
        /\ \A f \in old : f # w.file
        /\ \A f : f \notin FilesOf(writes) => f # w.file
    BY <1>1 DEF Plan, Shape, FilesOf
  <1>4. \A f : f \notin FilesOf(writes) \cup old => Same(S, tree, f)
    BY <1>2, <1>3 DEF Midway
  <1>5. \A v \in pending \ {w} : Same(S, tree, v.file)
    BY <1>2, <1>3 DEF Midway
  <1>6. \A v \in B : v.file \in DOMAIN S =>
                        S[v.file] \in {Broken, [v.doc EXCEPT !.ref = NoRef]}
    OBVIOUS
  <1>7. ASSUME NEW v \in writes \ ((pending \ {w}) \cup B)
        PROVE  v.file \in DOMAIN S /\ S[v.file] = v.doc
    <2>1. CASE v = w
      BY <1>7, <2>1
    <2>2. CASE v # w
      <3>1. v.file # w.file /\ v \notin pending \cup partial
        BY <1>3, <1>7, <2>2
      <3>2. v.file \in DOMAIN T /\ T[v.file] = v.doc
        BY <1>7, <3>1 DEF Midway
      <3>3. QED
        BY <3>1, <3>2 DEF Same
    <2>3. QED
      BY <2>1, <2>2
  <1>8. \A f \in left : Same(S, tree, f)
    BY <1>1, <1>2, <1>3 DEF Midway
  <1>9. /\ (pending \ {w}) \cup B \subseteq writes /\ (pending \ {w}) \cap B = {}
        /\ \A x, y \in B : x = y
    BY <1>1 DEF Midway
  <1>10. ((pending \ {w}) \cup B) \cap moves # {} => others \subseteq pending \ {w}
    BY <1>1 DEF Midway, Plan
  <1>11. QED
    BY <1>1, <1>4, <1>5, <1>6, <1>7, <1>8, <1>9, <1>10 DEF Midway

(* An old file is removed, once everything is written.                     *)
LEMMA RemoveStep ==
  ASSUME NEW tree, NEW moves, NEW others, NEW old, Plan(tree, moves, others, old),
         NEW T, NEW left, Midway(T, tree, moves, others, old, {}, {}, left),
         NEW f \in left, NEW S, f \notin DOMAIN S, \A g : g # f => Same(S, T, g)
  PROVE  Midway(S, tree, moves, others, old, {}, {}, left \ {f})
  <1> DEFINE writes == moves \cup others
  <1>1. f \in old /\ left \subseteq old
    BY DEF Midway
  <1>2. \A g : g # f /\ Same(T, tree, g) => Same(S, tree, g)
    BY DEF Same
  <1>3. \A v \in writes : v.file # f
    BY <1>1 DEF Plan, Shape, FilesOf
  <1>4. \A g : g \notin FilesOf(writes) \cup old => Same(S, tree, g)
    BY <1>1, <1>2 DEF Midway
  <1>5. \A v \in writes : v.file \in DOMAIN S /\ S[v.file] = v.doc
    BY <1>3 DEF Midway, Same
  <1>6. \A g \in left \ {f} : Same(S, tree, g)
    BY <1>2 DEF Midway
  <1>7. \A g \in old \ (left \ {f}) : g \notin DOMAIN S
    BY DEF Midway, Same
  <1>8. QED
    BY <1>1, <1>4, <1>5, <1>6, <1>7 DEF Midway

-----------------------------------------------------------------------------
(* The writes that are begun and not ended.                                *)
Doing == IF pc = "filling" THEN {current} ELSE {}

(* A request under way, planned from the graph in memory.                  *)
Underway(moves, others, old) ==
  /\ Plan(files, moves, others, old)
  /\ relocations \subseteq moves /\ rewrites \subseteq others
  /\ Midway(Found, files, moves, others, old, relocations \cup rewrites, Doing, vacated)
  /\ \A w \in relocations \cup rewrites : w.file \in DOMAIN disk <=> w.file \in DOMAIN files
  /\ risked = Risky(files, Doing)
  /\ before = Documents(files)
  /\ after = Documents(Final(files, moves \cup others, old))

(* The inductive invariant, for requests that were not planned blindly: a  *)
(* request under way is somewhere in its plan, and what it leaves when it  *)
(* ends, in whatever way, is one of the outcomes.                          *)
Progress ==
  pc \in {"writing", "filling"} /\ ~blind =>
    Good(files) /\ \E moves, others, old : Underway(moves, others, old)
Settled == pc \in {"idle", "down"} /\ ~blind => Outcome(Found, before, after, risked)
Sound == ~blind => Outcome(Found, before, after, risked)

LEMMA UnderwayMeans ==
  ASSUME TypeOK, Good(files), NEW moves, NEW others, NEW old, Underway(moves, others, old)
  PROVE  Outcome(Found, before, after, risked)
  <1>1. IsGraph(Found) /\ IsGraph(files)
    BY ScanMeans
  <1>2. Outcome(Found, Documents(files), Documents(Final(files, moves \cup others, old)),
                Risky(files, Doing))
    BY <1>1, MidwayOutcome DEF Underway
  <1>3. QED
    BY <1>2 DEF Underway

LEMMA SoundThroughout ==
  ASSUME TypeOK, Progress, Settled
  PROVE  Sound
  <1>1. CASE pc \in {"idle", "down"}
    BY <1>1 DEF Settled, Sound
  <1>2. CASE pc \in {"writing", "filling"}
    BY <1>2, UnderwayMeans DEF Progress, Sound
  <1>3. QED
    BY <1>1, <1>2 DEF TypeOK

(* What a scan finds after a write, when it enters every directory.        *)
LEMMA FoundAfterPut ==
  ASSUME Excluded \cap Names = {}, TypeOK, NEW file \in Paths,
         NEW content \in Items \cup {Broken, Alien}, Put(file, content)
  PROVE  /\ IsGraph(Found') /\ \A f : f # file => Same(Found', Found, f)
         /\ file \in DOMAIN Found' <=> content # Alien
         /\ content # Alien => Found'[file] = content
  <1>1. /\ IsTree(disk) /\ IsGraph(Found)
        /\ \A f : f \in DOMAIN Found <=> f \in DOMAIN disk /\ disk[f] # Alien /\ EntersOnly(f)
        /\ \A f \in DOMAIN Found : Found[f] = disk[f]
    BY ScanMeans
  <1>2. /\ IsTree(disk') /\ DOMAIN disk' = DOMAIN disk \cup {file}
        /\ disk'[file] = content /\ \A f \in DOMAIN disk \ {file} : disk'[f] = disk[f]
    BY <1>1, PutMeans
  <1>3. /\ IsGraph(Found')
        /\ \A f : f \in DOMAIN Found' <=>
                    f \in DOMAIN disk' /\ disk'[f] # Alien /\ EntersOnly(f)
        /\ \A f \in DOMAIN Found' : Found'[f] = disk'[f]
    BY <1>2, ParsedMeans DEF Found
  <1>4. EntersOnly(file)
    BY ElementOfSeq DEF EntersOnly, Paths
  <1>5. \A f : f # file => Same(Found', Found, f)
    BY <1>1, <1>2, <1>3 DEF Same
  <1>6. QED
    BY <1>2, <1>3, <1>4, <1>5

(* A request that may act and sees all there is finds a good tree.         *)
LEMMA ReadyMeans ==
  ASSUME TypeOK, Mirror, Settled, MayAct, ~blind, abandoned = {}
  PROVE  /\ IsGraph(files) /\ Good(files) /\ Found = files
         /\ DOMAIN files \subseteq DOMAIN disk
  <1>1. IsGraph(files) /\ IsGraph(Found) /\ DOMAIN Found \subseteq DOMAIN disk
    BY ScanMeans
  <1>2. \A f : Agrees(f)
    BY DEF Mirror, MayAct
  <1>3. Found = files
    BY <1>1, <1>2, SameTrees DEF Agrees, Same
  <1>4. Faulted(Found) \/ Placed(Found)
    BY DEF Settled, MayAct, Outcome
  <1>5. QED
    BY <1>1, <1>3, <1>4 DEF MayAct, Good

(* What such a request sets out from and means to leave.                   *)
LEMMA BeginAims ==
  ASSUME TypeOK, Mirror, Settled, MayAct, ~blind, abandoned = {},
         NEW moves, NEW others, NEW old, Begin(moves, others, old),
         Plan(files, moves, others, old)
  PROVE  /\ before' = Documents(files)
         /\ after' = Documents(Final(files, moves \cup others, old))
  <1> DEFINE writes == moves \cup others
             docs == {w.doc : w \in writes}
  <1>1. IsGraph(files) /\ Good(files) /\ Found = files
    BY ReadyMeans
  <1>2. before' = Documents(files)
    BY <1>1 DEF Begin, Found
  <1>3. after' = {d \in Documents(files) : \A e \in docs : d.id # e.id} \cup docs
    BY <1>2 DEF Begin
  <1>4. Documents(Final(files, writes, old)) =
          {d \in Documents(files) : \A w \in writes : d.id # w.doc.id} \cup docs
    <2>1. Shape(files, writes, old) /\ ~Faulted(Final(files, writes, old))
      BY DEF Plan, Good
    <2> HIDE DEF writes
    <2>2. QED
      BY <1>1, <2>1, FinalDocuments DEF Good
  <1>5. QED
    BY <1>2, <1>3, <1>4

LEMMA BeginProgresses ==
  ASSUME TypeOK, Mirror, Settled, NEW moves, NEW others, NEW old,
         MayAct, Begin(moves, others, old),
         ~blind /\ abandoned = {} =>
           /\ Plan(files, moves, others, old)
           /\ \A w \in moves \cup others : w.file \in DOMAIN disk <=> w.file \in DOMAIN files
  PROVE  Progress' /\ Settled'
  <1>1. pc' = "writing" /\ UNCHANGED <<disk, files, current, risked>> /\ risked = {}
    BY DEF Begin, MayAct
  <1>2. Settled'
    BY <1>1 DEF Settled
  <1>3. ASSUME ~blind' PROVE Good(files) /\ Underway(moves, others, old)'
    <2>1. ~blind /\ abandoned = {}
      BY <1>3 DEF Begin, TypeOK
    <2>2. IsGraph(files) /\ Good(files) /\ Found = files
      BY <2>1, ReadyMeans
    <2>3. Doing' = {} /\ Found' = files
      BY <1>1, <2>2 DEF Doing, Found
    <2>4. /\ relocations' = moves /\ rewrites' = others /\ vacated' = old
          /\ before' = Documents(files)
      BY <2>2 DEF Begin, Found
    <2>5. Plan(files, moves, others, old)
      BY <2>1
    <2>6. Midway(files, files, moves, others, old, moves \cup others, {}, old)
      BY <2>5, MidwayBegins
    <2>7. after' = Documents(Final(files, moves \cup others, old))
      BY <2>1, <2>5, BeginAims
    <2>8. Risky(files, {}) = {}
      BY DEF Risky
    <2>9. QED
      BY <1>1, <2>1, <2>2, <2>3, <2>4, <2>5, <2>6, <2>7, <2>8 DEF Underway
  <1>4. QED
    BY <1>1, <1>2, <1>3 DEF Progress

(* What forge and move_item plan from a graph that shows all there is.     *)
LEMMA ForgeBegins ==
  ASSUME TypeOK, Mirror, Settled, NEW id \in Ids, NEW parent \in Ids, NEW name \in Names,
         Forge(id, parent, name)
  PROVE  \E w : /\ MayAct /\ Begin({w}, {}, {})
                /\ ~blind /\ abandoned = {} =>
                     /\ Plan(files, {w}, {}, {})
                     /\ w.file \in DOMAIN disk <=> w.file \in DOMAIN files
                     /\ w.doc \in Items /\ w.doc.ref = NoRef /\ w.doc.id \notin IdsIn(files)
  <1> DEFINE file == ChildFile(FileOf(files, parent), name)
             doc == [id |-> id, parent |-> parent, path |-> Append(Doc(files, parent).path, name),
                     ref |-> NoRef]
             w == [file |-> file, doc |-> doc]
  <1>1. /\ MayAct /\ parent \in IdsIn(files) /\ id \notin IdsIn(files)
        /\ \A c \in Children(files, parent) : NameOf(c) # name
        /\ file \notin DOMAIN disk /\ Begin({w}, {}, {})
    BY DEF Forge
  <1>2. ASSUME ~blind, abandoned = {}
        PROVE  /\ Plan(files, {w}, {}, {})
               /\ w.file \in DOMAIN disk <=> w.file \in DOMAIN files
               /\ w.doc \in Items /\ w.doc.ref = NoRef /\ w.doc.id \notin IdsIn(files)
    <2>1. IsGraph(files) /\ Good(files) /\ DOMAIN files \subseteq DOMAIN disk
      BY <1>1, <1>2, ReadyMeans
    <2>2. file \notin DOMAIN files
      BY <1>1, <2>1
    <2>3. Plan(files, {w}, {}, {})
      BY <1>1, <2>1, <2>2, ForgePlans
    <2>4. w.doc \in Items
      <3> HIDE DEF w
      <3>1. QED
        BY <2>3 DEF Plan, Shape
    <2>5. QED
      BY <1>1, <2>2, <2>3, <2>4
  <1> HIDE DEF w
  <1>3. QED
    BY <1>1, <1>2

LEMMA ForgeProgresses ==
  ASSUME TypeOK, Mirror, Settled, NEW id \in Ids, NEW parent \in Ids, NEW name \in Names,
         Forge(id, parent, name)
  PROVE  Progress' /\ Settled'
  <1>1. PICK w : /\ MayAct /\ Begin({w}, {}, {})
                 /\ ~blind /\ abandoned = {} =>
                      /\ Plan(files, {w}, {}, {})
                      /\ w.file \in DOMAIN disk <=> w.file \in DOMAIN files
    BY ForgeBegins
  <1>2. QED
    BY <1>1, BeginProgresses

LEMMA MoveBegins ==
  ASSUME TypeOK, Mirror, Settled, NEW id \in Ids, NEW parent \in Ids, NEW name \in Names,
         MoveItem(id, parent, name), NEW M, M = Moves(files, id, parent, name),
         NEW O, O = Others(files, id, parent, name), NEW V, V = Vacates(files, id, parent, name)
  PROVE  /\ MayAct /\ Begin(M, O, V)
         /\ ~blind /\ abandoned = {} =>
              /\ MayMove(files, id, parent, name) /\ Plan(files, M, O, V)
              /\ \A w \in M \cup O : w.file \in DOMAIN disk <=> w.file \in DOMAIN files
  <1> DEFINE at == NewAt(files, id, parent, name)
  <1>1. /\ MayAct /\ id \in IdsIn(files) /\ parent \in IdsIn(files) /\ parent # id
        /\ ~IsPrefix(Doc(files, id).path, Doc(files, parent).path)
        /\ \A c \in Children(files, parent) : c.id # id => NameOf(c) # name
        /\ \A i \in Subtree(files, id) : at[i] # FileOf(files, i) => at[i] \notin DOMAIN disk
        /\ Begin(M, O, V)
    BY MoveItemMeans
  <1>2. ASSUME ~blind, abandoned = {}
        PROVE  /\ MayMove(files, id, parent, name) /\ Plan(files, M, O, V)
               /\ \A w \in M \cup O : w.file \in DOMAIN disk <=> w.file \in DOMAIN files
    <2>1. IsGraph(files) /\ Good(files) /\ DOMAIN files \subseteq DOMAIN disk
      BY <1>1, <1>2, ReadyMeans
    <2>2. MayMove(files, id, parent, name)
      BY <1>1, <2>1 DEF MayMove
    <2>3. Plan(files, M, O, V)
      BY <2>1, <2>2, MovePlans
    <2>4. \A i \in IdsIn(files) : FileOf(files, i) \in DOMAIN files
      BY <2>1, IdHasFile DEF Good
    <2>5. Subtree(files, id) \subseteq IdsIn(files) /\ Documents(files) \subseteq Items
      BY <1>1, <2>1, SubtreeCloses, UnfaultedGraph DEF Good
    <2>6. ASSUME NEW w \in M PROVE w.file \in DOMAIN disk <=> w.file \in DOMAIN files
      <3>1. PICK i \in Subtree(files, id) : w.file = at[i]
        BY DEF Moves
      <3>2. QED
        BY <1>1, <2>1, <2>4, <2>5, <3>1
    <2>7. ASSUME NEW w \in O PROVE w.file \in DOMAIN files
      <3>1. PICK d \in Documents(files) : w.file = FileOf(files, d.id)
        BY DEF Others, Kept
      <3>2. d.id \in IdsIn(files)
        BY DEF IdsIn
      <3>3. QED
        BY <2>4, <3>1, <3>2
    <2>8. QED
      BY <2>1, <2>2, <2>3, <2>6, <2>7
  <1>3. QED
    BY <1>1, <1>2

LEMMA MoveProgresses ==
  ASSUME TypeOK, Mirror, Settled, NEW id \in Ids, NEW parent \in Ids, NEW name \in Names,
         MoveItem(id, parent, name)
  PROVE  Progress' /\ Settled'
  BY MoveBegins, BeginProgresses

LEMMA StartProgresses ==
  ASSUME Excluded \cap Names = {}, TypeOK, Progress, NEW w \in relocations \cup rewrites,
         StartWrite(w)
  PROVE  Progress'
  <1>1. SUFFICES ASSUME ~blind'
                 PROVE  Good(files)' /\ \E moves, others, old : Underway(moves, others, old)'
    BY DEF Progress
  <1>2. /\ pc = "writing" /\ ~blind /\ pc' = "filling" /\ current' = w
        /\ UNCHANGED <<files, vacated, before, after>>
        /\ relocations' = relocations \ {w} /\ rewrites' = rewrites \ {w}
        /\ Put(w.file, Alien) /\ w \in NextWrites
        /\ risked' = IF w.file \in DOMAIN disk THEN risked \cup {w.doc.id} ELSE risked
    BY <1>1 DEF StartWrite
  <1>3. PICK moves, others, old : Good(files) /\ Underway(moves, others, old)
    BY <1>2 DEF Progress
  <1> DEFINE pending == relocations \cup rewrites
  <1>4. /\ Plan(files, moves, others, old) /\ relocations \subseteq moves /\ rewrites \subseteq others
        /\ Midway(Found, files, moves, others, old, pending, {}, vacated)
        /\ \A v \in pending : v.file \in DOMAIN disk <=> v.file \in DOMAIN files
        /\ risked = {}
    BY <1>2, <1>3 DEF Underway, Doing, Risky
  <1>5. w \in moves \/ pending \cap moves = {}
    BY <1>2, <1>4 DEF NextWrites, Plan
  <1>6. w.file \in Paths /\ \A v \in pending : v.file = w.file => v = w
    BY <1>4 DEF TypeOK, Plan, Shape
  <1>7. /\ IsGraph(Found') /\ \A f : f # w.file => Same(Found', Found, f)
        /\ w.file \notin DOMAIN Found'
    BY <1>2, <1>6, FoundAfterPut
  <1>8. Midway(Found', files, moves, others, old, pending \ {w}, {w}, vacated)
    BY <1>4, <1>5, <1>7, WriteStep
  <1>9. \A v \in pending \ {w} : v.file \in DOMAIN disk' <=> v.file \in DOMAIN files
    BY <1>2, <1>4, <1>6 DEF Put
  <1>10. risked' = Risky(files, {w})
    BY <1>2, <1>4 DEF Risky
  <1>11. Doing' = {w} /\ relocations' \cup rewrites' = pending \ {w}
    BY <1>2 DEF Doing
  <1>12. Underway(moves, others, old)'
    BY <1>2, <1>3, <1>4, <1>8, <1>9, <1>10, <1>11 DEF Underway
  <1>13. QED
    BY <1>2, <1>3, <1>12

LEMMA FinishProgresses ==
  ASSUME Excluded \cap Names = {}, TypeOK, Progress, FinishWrite
  PROVE  Progress'
  <1>1. SUFFICES ASSUME ~blind'
                 PROVE  Good(files)' /\ \E moves, others, old : Underway(moves, others, old)'
    BY DEF Progress
  <1>2. /\ pc = "filling" /\ ~blind /\ pc' = "writing"
        /\ UNCHANGED <<files, vacated, before, after, relocations, rewrites>>
        /\ Put(current.file, current.doc) /\ risked' = risked \ {current.doc.id}
    BY <1>1 DEF FinishWrite, plan
  <1>3. PICK moves, others, old : Good(files) /\ Underway(moves, others, old)
    BY <1>2 DEF Progress
  <1> DEFINE pending == relocations \cup rewrites
             w == current
  <1>4. /\ Plan(files, moves, others, old) /\ relocations \subseteq moves /\ rewrites \subseteq others
        /\ Midway(Found, files, moves, others, old, pending, {w}, vacated)
        /\ \A v \in pending : v.file \in DOMAIN disk <=> v.file \in DOMAIN files
        /\ risked = Risky(files, {w})
    BY <1>2, <1>3 DEF Underway, Doing
  <1>5. w \notin pending /\ pending \ {w} = pending /\ w \in moves \cup others
        /\ (w \in moves \/ pending \cap moves = {})
    BY <1>4 DEF Midway, Plan
  <1>6. /\ w.file \in Paths /\ w.doc \in Items
        /\ \A v \in pending : v.file = w.file => v = w
    BY <1>2, <1>4, <1>5 DEF TypeOK, Plan, Shape
  <1>7. /\ \A f : f # w.file => Same(Found', Found, f)
        /\ w.file \in DOMAIN Found' /\ Found'[w.file] = w.doc
    BY <1>2, <1>6, FoundAfterPut, NoMarkIsItem
  <1>8. Midway(Found', files, moves, others, old, pending \ {w}, {}, vacated)
    BY <1>4, <1>5, <1>7, WriteStep
  <1>9. \A v \in pending : v.file \in DOMAIN disk' <=> v.file \in DOMAIN files
    BY <1>2, <1>4, <1>5, <1>6 DEF Put
  <1>10. risked' = Risky(files, {})
    BY <1>2, <1>4 DEF Risky
  <1>11. Doing' = {}
    BY <1>2 DEF Doing
  <1>12. Underway(moves, others, old)'
    BY <1>2, <1>3, <1>4, <1>5, <1>8, <1>9, <1>10, <1>11 DEF Underway
  <1>13. QED
    BY <1>2, <1>3, <1>12

LEMMA RemoveProgresses ==
  ASSUME TypeOK, TypeOK', Progress, NEW f \in vacated, RemoveOld(f)
  PROVE  Progress' /\ Settled'
  <1>1. SUFFICES ASSUME ~blind PROVE Progress' /\ Settled'
    BY DEF RemoveOld, Progress, Settled
  <1>2. /\ pc = "writing" /\ relocations = {} /\ rewrites = {}
        /\ UNCHANGED <<files, before, after, risked, blind>>
    BY DEF RemoveOld
  <1>3. PICK moves, others, old : Good(files) /\ Underway(moves, others, old)
    BY <1>1, <1>2 DEF Progress
  <1>4. /\ Plan(files, moves, others, old)
        /\ Midway(Found, files, moves, others, old, {}, {}, vacated)
        /\ risked = Risky(files, {})
    BY <1>2, <1>3 DEF Underway, Doing
  <1>5. f \in DOMAIN disk
    <2>1. Same(Found, files, f) /\ f \in DOMAIN files
      BY <1>4 DEF Midway, Plan, Shape
    <2>2. QED
      BY <2>1, ScanMeans DEF Same
  <1>6. /\ disk' = [g \in DOMAIN disk \ {f} |-> disk[g]] /\ vacated' = vacated \ {f}
        /\ UNCHANGED <<relocations, rewrites, pc>>
    BY <1>5 DEF RemoveOld
  <1>7. f \notin DOMAIN Found' /\ \A g : g # f => Same(Found', Found, g)
    <2>1. \A g : g # f => Same(Found', Found, g)
      BY <1>6, UntouchedFile DEF Same
    <2>2. IsTree(disk')
      BY DEF TypeOK, IsTree
    <2>3. f \notin DOMAIN Found'
      BY <1>6, <2>2, ParsedMeans DEF Found
    <2>4. QED
      BY <2>1, <2>3
  <1>8. Midway(Found', files, moves, others, old, {}, {}, vacated \ {f})
    BY <1>4, <1>7, RemoveStep
  <1>9. Doing' = {}
    BY <1>2, <1>6 DEF Doing
  <1>10. Underway(moves, others, old)'
    BY <1>2, <1>3, <1>4, <1>6, <1>8, <1>9 DEF Underway
  <1>11. QED
    BY <1>2, <1>3, <1>6, <1>10 DEF Progress, Settled

LEMMA FailSettles ==
  ASSUME Excluded \cap Names = {}, TypeOK, Progress, Settled, Fail
  PROVE  Progress' /\ Settled'
  <1>1. /\ pc \in {"writing", "filling"} /\ pc' = "idle"
        /\ UNCHANGED <<files, before, after, risked, blind>>
    BY DEF Fail, Abort
  <1>2. Progress'
    BY <1>1 DEF Progress
  <1>3. SUFFICES ASSUME ~blind PROVE Outcome(Found', before, after, risked)
    BY <1>1, <1>2 DEF Settled
  <1>4. CASE UNCHANGED disk
    <2>1. Sound /\ Found' = Found
      BY <1>4, SoundThroughout DEF Found
    <2>2. QED
      BY <1>3, <2>1 DEF Sound
  <1>5. CASE pc = "filling" /\ \E content \in Partial(current.doc) : Put(current.file, content)
    <2>1. PICK content \in Partial(current.doc) : Put(current.file, content)
      BY <1>5
    <2>2. PICK moves, others, old : Good(files) /\ Underway(moves, others, old)
      BY <1>1, <1>3 DEF Progress
    <2> DEFINE pending == relocations \cup rewrites
               w == current
    <2>3. /\ Plan(files, moves, others, old) /\ relocations \subseteq moves /\ rewrites \subseteq others
          /\ Midway(Found, files, moves, others, old, pending, {w}, vacated)
          /\ risked = Risky(files, {w}) /\ before = Documents(files)
          /\ after = Documents(Final(files, moves \cup others, old))
      BY <1>5, <2>2 DEF Underway, Doing
    <2>4. w \in moves \cup others /\ (w \in moves \/ pending \cap moves = {})
      BY <2>3 DEF Midway, Plan
    <2>5. w.file \in Paths /\ w.doc \in Items
      BY <1>5 DEF TypeOK
    <2>6. content \in Items \cup {Broken, Alien}
      BY <2>1, <2>5, PartialIsContent
    <2>7. /\ IsGraph(Found') /\ \A f : f # w.file => Same(Found', Found, f)
          /\ w.file \in DOMAIN Found' => Found'[w.file] \in {Broken, [w.doc EXCEPT !.ref = NoRef]}
      <3>1. /\ IsGraph(Found') /\ \A f : f # w.file => Same(Found', Found, f)
            /\ w.file \in DOMAIN Found' <=> content # Alien
            /\ content # Alien => Found'[w.file] = content
        BY <2>1, <2>5, <2>6, FoundAfterPut
      <3>2. QED
        BY <2>1, <3>1 DEF Partial
    <2>8. Midway(Found', files, moves, others, old, pending \ {w}, {w}, vacated)
      BY <2>3, <2>4, <2>7, WriteStep
    <2>9. IsGraph(files)
      BY ScanMeans
    <2>10. QED
      BY <2>2, <2>3, <2>7, <2>8, <2>9, MidwayOutcome
  <1>6. QED
    BY <1>4, <1>5 DEF Fail

(* Where nothing is written, nothing changes for whoever scans.            *)
LEMMA NothingWritten ==
  ASSUME Sound, UNCHANGED <<disk, before, after, risked, blind>>, pc' \in {"idle", "down"}
  PROVE  Progress' /\ Settled'
  BY DEF Sound, Found, Progress, Settled

LEMMA NextSettles ==
  ASSUME Excluded \cap Names = {}, TypeOK, TypeOK', Mirror, Progress, Settled, [Next]_vars
  PROVE  Progress' /\ Settled'
  <1>0. Sound
    BY SoundThroughout
  <1>1. CASE Open
    BY <1>0, <1>1, NothingWritten DEF Open
  <1>2. CASE \E id \in Ids, parent \in Ids, name \in Names :
               Forge(id, parent, name) \/ MoveItem(id, parent, name)
    BY <1>2, ForgeProgresses, MoveProgresses
  <1>3. CASE \E w \in relocations \cup rewrites : StartWrite(w)
    <2>1. PICK w \in relocations \cup rewrites : StartWrite(w)
      BY <1>3
    <2>2. QED
      BY <2>1, StartProgresses DEF StartWrite, Settled
  <1>4. CASE FinishWrite
    BY <1>4, FinishProgresses DEF FinishWrite, Settled
  <1>5. CASE \E f \in vacated : RemoveOld(f)
    BY <1>5, RemoveProgresses
  <1>6. CASE RefreshPaths
    BY <1>0, <1>6, NothingWritten DEF RefreshPaths, history
  <1>7. CASE Fail
    BY <1>7, FailSettles
  <1>8. CASE Kill
    BY <1>0, <1>8, NothingWritten DEF Kill
  <1>9. CASE UNCHANGED vars
    <2>1. UNCHANGED <<disk, files, pc, relocations, rewrites, vacated, current, before, after,
                      blind, risked>>
      BY <1>9 DEF vars, plan, history
    <2>2. QED
      BY <2>1 DEF Progress, Settled, Underway, Found, Doing
  <1>10. QED
    BY <1>1, <1>2, <1>3, <1>4, <1>5, <1>6, <1>7, <1>8, <1>9 DEF Next

(* The trees the module starts from, as a hypothesis of what follows: laid *)
(* out as the code does it, or at fault.                                   *)
LaidOut == \A tree \in InitialTrees : Faulted(Parsed(tree)) \/ Placed(Parsed(tree))

LEMMA InitSettles ==
  ASSUME LaidOut, Init
  PROVE  Mirror /\ Progress /\ Settled
  <1>1. Faulted(Found) \/ Placed(Found)
    BY DEF LaidOut, Init, Found
  <1>2. before = Documents(Found) /\ pc = "down" /\ risked = {}
    BY DEF Init, Found
  <1>3. {d.id : d \in before} \subseteq IdsIn(Found) \cup risked
    BY <1>2 DEF IdsIn
  <1>4. Settled
    BY <1>1, <1>2, <1>3, WholeIsOutcome DEF Settled
  <1>5. QED
    BY <1>2, <1>4 DEF Mirror, Progress, Init

LEMMA AlwaysSound ==
  ASSUME Excluded \cap Names = {}, LaidOut
  PROVE  Spec => []Sound
  <1>1. Init => Mirror /\ Progress /\ Settled
    BY InitSettles
  <1>2. TypeOK /\ TypeOK' /\ Mirror /\ Progress /\ Settled /\ [Next]_vars
          => Progress' /\ Settled'
    BY NextSettles
  <1>3. TypeOK /\ Progress /\ Settled => Sound
    BY SoundThroughout
  <1>4. QED
    BY <1>1, <1>2, <1>3, MoveTypes, AlwaysMirrored, PTL DEF Spec

-----------------------------------------------------------------------------
(* References.  What lies under the path of an item is in its subtree.     *)
LEMMA UnderIsMember ==
  ASSUME NEW tree, IsGraph(tree), Good(tree), NEW id \in IdsIn(tree)
  PROVE  \A d \in Documents(tree) : IsPrefix(Doc(tree, id).path, d.path) =>
           d.id \in Subtree(tree, id)
  <1> DEFINE old == Doc(tree, id).path
             Sub == Subtree(tree, id)
             bad == {d \in Documents(tree) : IsPrefix(old, d.path) /\ d.id \notin Sub}
  <1>0. /\ ~Faulted(tree) /\ id \in Sub /\ ClosedUnderChildren(tree, Sub)
        /\ Doc(tree, id) \in Documents(tree) /\ Doc(tree, id).id = id
        /\ \A f \in DOMAIN tree : FileOf(tree, tree[f].id) = f
        /\ Documents(tree) = {tree[f] : f \in DOMAIN tree}
    BY SubtreeCloses, IdHasFile, UnfaultedGraph DEF Good
  <1>1. \A d \in Documents(tree) : d \in Items /\ d.path \in Paths /\ NameOf(d) \in Names
    BY <1>0, DocOfDocument, IdHasFile DEF Items
  <1>2. \A d, e \in Documents(tree) : d # e => /\ d.path # e.path
                                               /\ d.parent = Outside => ~IsPrefix(e.path, d.path)
    BY <1>0 DEF Good, Placed
  <1>3. SUFFICES ASSUME bad # {} PROVE FALSE
    OBVIOUS
  <1>4. PICK d \in bad : \A e \in bad : Len(d.path) <= Len(e.path)
    <2> HIDE DEF old, Sub
    <2>1. {e.path : e \in bad} \in SUBSET Paths /\ {e.path : e \in bad} # {}
      BY <1>1, <1>3
    <2> HIDE DEF bad
    <2>2. PICK p \in {e.path : e \in bad} : \A q \in {e.path : e \in bad} : Len(p) <= Len(q)
      BY <2>1, ShortestExists
    <2>3. QED
      BY <2>2
  <1>5. /\ d \in Documents(tree) /\ IsPrefix(old, d.path) /\ d.id \notin Sub
        /\ d # Doc(tree, id) /\ d.path # old /\ d.parent # Outside
    BY <1>0, <1>2, <1>4
  <1>6. d.parent \in IdsIn(tree) /\ d.path = Append(Doc(tree, d.parent).path, NameOf(d))
    BY <1>5, ChildOfParent
  <1> DEFINE p == Doc(tree, d.parent)
  <1>7. p \in Documents(tree) /\ p.id = d.parent /\ p.path \in Paths
    BY <1>0, <1>1, <1>6, IdHasFile
  <1>8. d.parent \notin Sub
    BY <1>0, <1>5 DEF ClosedUnderChildren
  <1>9. Len(d.path) = Len(p.path) + 1 /\ Len(p.path) \in Nat
    <2> HIDE DEF p
    <2>1. d.path = Append(p.path, NameOf(d)) /\ NameOf(d) \in Names
      BY <1>1, <1>5, <1>6 DEF p
    <2>2. QED
      BY <1>7, <2>1, AppendProperties, LenProperties DEF Paths
  <1>10. ~IsPrefix(old, p.path)
    <2>1. SUFFICES ASSUME IsPrefix(old, p.path) PROVE FALSE
      OBVIOUS
    <2>2. p \in bad
      BY <1>7, <1>8, <2>1
    <2>3. Len(d.path) <= Len(p.path)
      BY <1>4, <2>2
    <2>4. QED
      BY <1>9, <2>3
  <1>11. QED
    <2>1. old \in Paths /\ NameOf(d) \in Names
      BY <1>0, <1>1, <1>5
    <2>2. IsPrefix(old, Append(p.path, NameOf(d))) /\ old # Append(p.path, NameOf(d))
      BY <1>5, <1>6
    <2> HIDE DEF old, p
    <2>3. QED
      BY <1>7, <1>10, <2>1, <2>2, PrefixOfAppend

(* The items a path names; documents whose references all name something,  *)
(* and name what they are said to name.                                    *)
Named(docs, path) == {e.id : e \in {x \in docs : x.path = path}}
Linked(docs) == \A d \in docs : d.ref = NoRef \/ \E e \in docs : e.path = d.ref
Faithful(docs, names) ==
  /\ docs \subseteq Items /\ Linked(docs) /\ DOMAIN names \subseteq {d.id : d \in docs}
  /\ \A d \in docs : d.id \in DOMAIN names => names[d.id] = Named(docs, d.ref)

Renamed(d, e, old, new) ==
  /\ e.id = d.id /\ e.path = Rewrite(d.path, old, new) /\ e.ref = Rewrite(d.ref, old, new)

LEMMA RenamedFaithful ==
  ASSUME NEW docs, NEW names, Faithful(docs, names), NEW docs2 \in SUBSET Items,
         NEW old, NEW new, Rewrite(NoRef, old, new) = NoRef,
         \A d \in docs : \E e \in docs2 : Renamed(d, e, old, new),
         \A e \in docs2 : \E d \in docs : Renamed(d, e, old, new),
         \A d, e \in docs2 : d.path = e.path => d = e
  PROVE  Faithful(docs2, names)
  <1>0. \A e \in docs2 : e.path # NoRef
    BY DEF Items
  <1>1. ASSUME NEW e \in docs2
        PROVE  /\ e.ref = NoRef \/ \E x \in docs2 : x.path = e.ref
               /\ e.id \in DOMAIN names => names[e.id] = Named(docs2, e.ref)
    <2>1. PICK d \in docs : Renamed(d, e, old, new)
      OBVIOUS
    <2>2. CASE d.ref = NoRef
      <3>1. e.ref = NoRef /\ Named(docs2, e.ref) = {}
        BY <1>0, <2>1, <2>2 DEF Renamed, Named
      <3>2. Named(docs, d.ref) = {}
        BY <2>2 DEF Named, Faithful, Items
      <3>3. QED
        BY <2>1, <3>1, <3>2 DEF Faithful, Renamed
    <2>3. CASE d.ref # NoRef
      <3>1. PICK d0 \in docs : d0.path = d.ref
        BY <2>3 DEF Faithful, Linked
      <3>2. PICK e0 \in docs2 : Renamed(d0, e0, old, new)
        OBVIOUS
      <3>3. e0.path = e.ref /\ e0.id = d0.id
        BY <2>1, <3>1, <3>2 DEF Renamed
      <3>4. \A x \in docs : x.path = d.ref => x.id = e0.id
        <4>1. SUFFICES ASSUME NEW x \in docs, x.path = d.ref PROVE x.id = e0.id
          OBVIOUS
        <4>2. PICK y \in docs2 : Renamed(x, y, old, new)
          OBVIOUS
        <4>3. y.path = e0.path
          BY <2>1, <3>3, <4>1, <4>2 DEF Renamed
        <4>4. QED
          BY <4>2, <4>3 DEF Renamed
      <3>5. Named(docs2, e.ref) = {e0.id}
        BY <3>3 DEF Named
      <3>6. Named(docs, d.ref) = {e0.id}
        BY <3>1, <3>3, <3>4 DEF Named
      <3>7. QED
        BY <2>1, <3>3, <3>5, <3>6 DEF Faithful, Renamed
    <2>4. QED
      BY <2>2, <2>3
  <1>2. DOMAIN names \subseteq {e.id : e \in docs2}
    BY DEF Faithful, Renamed
  <1>3. QED
    BY <1>1, <1>2 DEF Faithful, Linked

LEMMA GoodPaths ==
  ASSUME NEW tree, IsGraph(tree), Good(tree)
  PROVE  /\ Documents(tree) \subseteq Items
         /\ \A d, e \in Documents(tree) : d.path = e.path \/ d.id = e.id => d = e
  BY UnfaultedGraph DEF Good, Placed

LEMMA ForgeKeepsReferences ==
  ASSUME NEW tree, IsGraph(tree), Good(tree), NEW w, w.doc.ref = NoRef, w.doc \in Items,
         w.doc.id \notin IdsIn(tree), Plan(tree, {w}, {}, {}),
         NEW names, Faithful(Documents(tree), names)
  PROVE  Faithful(Documents(Final(tree, {w}, {})), names)
  <1> DEFINE F == Final(tree, {w}, {})
             docs == Documents(tree)
             new == w.doc
  <1>1. IsGraph(F) /\ Good(F) /\ Shape(tree, {w}, {})
    <2>1. Shape(tree, {w}, {}) /\ Good(F)
      BY DEF Plan
    <2>2. QED
      BY <2>1, FinalMeans DEF Carried
  <1>2. Documents(F) = {d \in docs : \A v \in {w} : d.id # v.doc.id} \cup {v.doc : v \in {w}}
    BY <1>1, FinalDocuments DEF Good
  <1>3. Documents(F) = docs \cup {new}
    BY <1>2 DEF IdsIn
  <1>4. \A d, e \in docs \cup {new} : d.path = e.path => d = e
    BY <1>1, <1>3, GoodPaths
  <1>5. docs \subseteq Items /\ new \notin docs /\ new.id \notin {d.id : d \in docs}
    BY DEF IdsIn, Faithful
  <1> HIDE DEF F, docs, new
  <1>6. \A d \in docs : Named(docs \cup {new}, d.ref) = Named(docs, d.ref)
    <2>1. SUFFICES ASSUME NEW d \in docs PROVE new.path # d.ref
      BY DEF Named
    <2>2. CASE d.ref = NoRef
      BY <2>2 DEF Items, new
    <2>3. CASE d.ref # NoRef
      BY <1>4, <1>5, <2>3 DEF Faithful, Linked, docs
    <2>4. QED
      BY <2>2, <2>3
  <1>7. new.ref = NoRef /\ new \in Items
    BY DEF new
  <1>8. Faithful(docs, names)
    BY DEF docs
  <1>9. Faithful(docs \cup {new}, names)
    <2>1. Linked(docs \cup {new})
      BY <1>7, <1>8 DEF Faithful, Linked
    <2>2. \A d \in docs \cup {new} : d.id \in DOMAIN names =>
            names[d.id] = Named(docs \cup {new}, d.ref)
      BY <1>5, <1>6, <1>8 DEF Faithful
    <2>3. QED
      BY <1>7, <1>8, <2>1, <2>2 DEF Faithful
  <1>10. QED
    BY <1>3, <1>9 DEF F

LEMMA MoveRenames ==
  ASSUME NEW tree, IsGraph(tree), Good(tree), NEW id, NEW parent, NEW name,
         MayMove(tree, id, parent, name), NEW old, old = Doc(tree, id).path,
         NEW new, new = NewPath(tree, parent, name),
         NEW writes, writes = Moves(tree, id, parent, name) \cup Others(tree, id, parent, name),
         NEW docs2, docs2 = {d \in Documents(tree) : \A w \in writes : d.id # w.doc.id}
                              \cup {w.doc : w \in writes}
  PROVE  /\ \A d \in Documents(tree) : \E e \in docs2 : Renamed(d, e, old, new)
         /\ \A e \in docs2 : \E d \in Documents(tree) : Renamed(d, e, old, new)
  <1> DEFINE Sub == Subtree(tree, id)
             docs == Documents(tree)
             at == NewAt(tree, id, parent, name)
             M == Moves(tree, id, parent, name)
             O == Others(tree, id, parent, name)
  <1>0. /\ ~Faulted(tree) /\ id \in IdsIn(tree) /\ parent \in IdsIn(tree) /\ name \in Names
    BY DEF Good, MayMove
  <1>1. old \in Paths \ {NoRef} /\ new \in Paths \ {NoRef} /\ parent \in Ids
    BY <1>0, MovePlanIsTyped
  <1>2. /\ Sub \subseteq IdsIn(tree)
        /\ \A i \in Sub : Doc(tree, i) \in docs /\ Doc(tree, i).id = i
    BY <1>0, SubtreeCloses, IdHasFile
  <1>3. \A d \in docs : d \in Items /\ d.path \in Paths /\ d.ref \in Paths
                        /\ Doc(tree, d.id) = d
    BY <1>0, DocOfDocument DEF Items
  <1>4. \A d \in docs : d.id \notin Sub => ~IsPrefix(old, d.path)
    BY <1>0, UnderIsMember
  <1>5. \A p \in Paths : ~IsPrefix(old, p) => Rewrite(p, old, new) = p
    BY <1>1, RewriteMeans
  <1>6. ASSUME NEW d \in docs
        PROVE  /\ Renamed(d, Moved(d, id, parent, old, new), old, new)
               /\ Moved(d, id, parent, old, new).id = d.id
               /\ d.id \notin Sub => Renamed(d, Follow(d, old, new), old, new)
               /\ Follow(d, old, new).id = d.id
    <2>1. /\ Follow(d, old, new) =
               [id |-> d.id, parent |-> d.parent, path |-> d.path,
                ref |-> Rewrite(d.ref, old, new)]
          /\ Moved(d, id, parent, old, new) =
               [id |-> d.id, parent |-> IF d.id = id THEN parent ELSE d.parent,
                path |-> Rewrite(d.path, old, new), ref |-> Rewrite(d.ref, old, new)]
      <3>1. d \in Items
        BY <1>3
      <3>2. QED
        BY ONLY <1>1, <3>1, MovedIsItem
    <2>2. d.id \notin Sub => Rewrite(d.path, old, new) = d.path
      BY <1>3, <1>4, <1>5
    <2>3. QED
      BY <2>1, <2>2 DEF Renamed
  <1>7. \A d \in docs : d.id \notin Sub /\ ~IsPrefix(old, d.ref) => Renamed(d, d, old, new)
    BY <1>3, <1>4, <1>5 DEF Renamed
  <1>8. M = {[file |-> at[i], doc |-> Moved(Doc(tree, i), id, parent, old, new)] : i \in Sub}
    BY DEF Moves
  <1>9. O = {[file |-> FileOf(tree, d.id), doc |-> Follow(d, old, new)] :
               d \in {e \in docs : e.id \notin Sub /\ IsPrefix(old, e.ref)}}
    BY DEF Others, Kept
  <1>a. writes = M \cup O
    OBVIOUS
  <1> HIDE DEF M, O, at, Sub, docs
  <1>10. \A i \in Sub : \E w \in M : w.doc = Moved(Doc(tree, i), id, parent, old, new)
    <2>1. SUFFICES ASSUME NEW i \in Sub
                   PROVE  \E w \in M : w.doc = Moved(Doc(tree, i), id, parent, old, new)
      OBVIOUS
    <2> DEFINE w == [file |-> at[i], doc |-> Moved(Doc(tree, i), id, parent, old, new)]
    <2>2. w \in M /\ w.doc = Moved(Doc(tree, i), id, parent, old, new)
      BY <1>8
    <2> HIDE DEF w
    <2>3. QED
      BY <2>2
  <1>11. \A w \in M : \E i \in Sub : w.doc = Moved(Doc(tree, i), id, parent, old, new)
    BY <1>8
  <1>12. \A d \in docs : d.id \notin Sub /\ IsPrefix(old, d.ref) =>
           \E w \in O : w.doc = Follow(d, old, new)
    <2>1. SUFFICES ASSUME NEW d \in docs, d.id \notin Sub, IsPrefix(old, d.ref)
                   PROVE  \E w \in O : w.doc = Follow(d, old, new)
      OBVIOUS
    <2> DEFINE w == [file |-> FileOf(tree, d.id), doc |-> Follow(d, old, new)]
    <2>2. w \in O /\ w.doc = Follow(d, old, new)
      BY <1>9, <2>1
    <2> HIDE DEF w
    <2>3. QED
      BY <2>2
  <1>13. \A w \in O : \E d \in docs : /\ d.id \notin Sub /\ IsPrefix(old, d.ref)
                                      /\ w.doc = Follow(d, old, new)
    BY <1>9
  <1>14. ASSUME NEW d \in docs PROVE \E e \in docs2 : Renamed(d, e, old, new)
    <2>1. CASE d.id \in Sub
      <3>1. PICK w \in M : w.doc = Moved(d, id, parent, old, new)
        BY <1>3, <1>10, <2>1
      <3>2. QED
        BY <1>6, <1>a, <3>1
    <2>2. CASE d.id \notin Sub /\ IsPrefix(old, d.ref)
      <3>1. PICK w \in O : w.doc = Follow(d, old, new)
        BY <1>12, <2>2
      <3>2. QED
        BY <1>6, <1>a, <2>2, <3>1
    <2>3. CASE d.id \notin Sub /\ ~IsPrefix(old, d.ref)
      <3>1. \A w \in M : d.id # w.doc.id
        BY <1>2, <1>6, <1>11, <2>3
      <3>2. \A w \in O : d.id # w.doc.id
        BY <1>3, <1>6, <1>13, <2>3
      <3>3. d \in docs2
        BY <1>a, <3>1, <3>2 DEF docs
      <3>4. QED
        BY <1>7, <2>3, <3>3
    <2>4. QED
      BY <2>1, <2>2, <2>3
  <1>15. ASSUME NEW e \in docs2 PROVE \E d \in docs : Renamed(d, e, old, new)
    <2>1. CASE \E w \in M : e = w.doc
      BY <1>2, <1>6, <1>11, <2>1
    <2>2. CASE \E w \in O : e = w.doc
      BY <1>6, <1>13, <2>2
    <2>3. CASE e \in docs /\ \A w \in writes : e.id # w.doc.id
      <3>1. e.id \notin Sub
        BY <1>3, <1>6, <1>10, <1>a, <2>3
      <3>2. ~IsPrefix(old, e.ref)
        BY <1>6, <1>12, <1>a, <2>3, <3>1
      <3>3. QED
        BY <1>7, <2>3, <3>1, <3>2
    <2>4. QED
      BY <1>a, <2>1, <2>2, <2>3 DEF docs
  <1>16. QED
    BY <1>14, <1>15 DEF docs

LEMMA MoveKeepsReferences ==
  ASSUME NEW tree, IsGraph(tree), Good(tree), NEW id, NEW parent, NEW name,
         MayMove(tree, id, parent, name), NEW names, Faithful(Documents(tree), names)
  PROVE  Faithful(Documents(Final(tree, Moves(tree, id, parent, name)
                                          \cup Others(tree, id, parent, name),
                                  Vacates(tree, id, parent, name))), names)
  <1> DEFINE old == Doc(tree, id).path
             new == NewPath(tree, parent, name)
             M == Moves(tree, id, parent, name)
             O == Others(tree, id, parent, name)
             V == Vacates(tree, id, parent, name)
             F == Final(tree, M \cup O, V)
             docs2 == {d \in Documents(tree) : \A w \in M \cup O : d.id # w.doc.id}
                        \cup {w.doc : w \in M \cup O}
  <1>1. Plan(tree, M, O, V)
    BY MovePlans
  <1>2. /\ \A d \in Documents(tree) : \E e \in docs2 : Renamed(d, e, old, new)
        /\ \A e \in docs2 : \E d \in Documents(tree) : Renamed(d, e, old, new)
    BY MoveRenames
  <1>3. Rewrite(NoRef, old, new) = NoRef
    <2>1. id \in IdsIn(tree) /\ parent \in IdsIn(tree) /\ name \in Names /\ ~Faulted(tree)
      BY DEF MayMove, Good
    <2>2. old \in Paths \ {NoRef} /\ NoRef \in Paths
      BY <2>1, MovePlanIsTyped, EmptySeq DEF NoRef, Paths
    <2>3. ~IsPrefix(old, NoRef)
      <3>1. SUFFICES ASSUME IsPrefix(old, NoRef) PROVE FALSE
        OBVIOUS
      <3>2. Len(old) <= Len(NoRef) /\ Len(NoRef) = 0 /\ Len(old) \in Nat
        BY <2>2, <3>1, PrefixContinues, EmptySeq, LenProperties DEF NoRef, Paths
      <3>3. QED
        BY <2>2, <3>2, EmptySeq DEF NoRef, Paths
    <2>4. QED
      BY <2>3 DEF Rewrite
  <1> HIDE DEF M, O, V, old, new
  <1>4. Shape(tree, M \cup O, V) /\ Good(F) /\ IsGraph(F)
    BY <1>1, FinalMeans DEF Plan, Carried
  <1>5. Documents(F) = docs2
    <2> DEFINE writes == M \cup O
    <2>1. Shape(tree, writes, V) /\ ~Faulted(Final(tree, writes, V)) /\ ~Faulted(tree)
      BY <1>4 DEF Good
    <2> HIDE DEF writes
    <2>2. Documents(Final(tree, writes, V)) =
            {d \in Documents(tree) : \A w \in writes : d.id # w.doc.id} \cup {w.doc : w \in writes}
      BY <2>1, FinalDocuments
    <2>3. QED
      BY <2>2 DEF writes
  <1> HIDE DEF F
  <1>6. docs2 \in SUBSET Items /\ \A d, e \in docs2 : d.path = e.path => d = e
    BY <1>4, <1>5, GoodPaths
  <1>7. Faithful(docs2, names)
    <2> HIDE DEF docs2
    <2>1. QED
      BY <1>2, <1>3, <1>6, RenamedFaithful
  <1>8. QED
    BY <1>5, <1>7 DEF F, M, O, V

-----------------------------------------------------------------------------
(* The references of a request that was not planned blindly: they are      *)
(* right in the documents it sets out from and in those it aims at.        *)
Refers == ~blind => Faithful(before, target) /\ Faithful(after, target)

LEMMA FoundRefers ==
  ASSUME Sound, Refers, ~blind, ~Faulted(Found), risked = {}
  PROVE  Faithful(Documents(Found), target)
  <1>1. Documents(Found) = before \/ Documents(Found) = after
    BY DEF Sound, Outcome, SafeOf
  <1>2. QED
    BY <1>1 DEF Refers

LEMMA BeginRefers ==
  ASSUME TypeOK, Mirror, Settled, Sound, Refers, NEW moves, NEW others, NEW old,
         MayAct, Begin(moves, others, old),
         ~blind /\ abandoned = {} /\ Faithful(Documents(files), target) =>
           /\ Plan(files, moves, others, old)
           /\ Faithful(Documents(Final(files, moves \cup others, old)), target)
  PROVE  Refers'
  <1>1. SUFFICES ASSUME ~blind'
                 PROVE  Faithful(before', target') /\ Faithful(after', target')
    BY DEF Refers
  <1>2. ~blind /\ abandoned = {} /\ target' = target
    BY <1>1 DEF Begin, TypeOK
  <1>3. Found = files /\ ~Faulted(files) /\ risked = {}
    BY <1>2, ReadyMeans DEF MayAct
  <1>4. Faithful(Documents(files), target)
    BY <1>2, <1>3, FoundRefers
  <1>5. /\ before' = Documents(files)
        /\ after' = Documents(Final(files, moves \cup others, old))
    BY <1>2, <1>4, BeginAims
  <1>6. QED
    BY <1>2, <1>4, <1>5

LEMMA NextRefers ==
  ASSUME TypeOK, Mirror, Progress, Settled, Refers, [Next]_vars
  PROVE  Refers'
  <1>0. Sound
    BY SoundThroughout
  <1>1. ASSUME NEW id \in Ids, NEW parent \in Ids, NEW name \in Names, Forge(id, parent, name)
        PROVE  Refers'
    <2>1. PICK w : /\ MayAct /\ Begin({w}, {}, {})
                   /\ ~blind /\ abandoned = {} =>
                        /\ Plan(files, {w}, {}, {})
                        /\ w.doc \in Items /\ w.doc.ref = NoRef /\ w.doc.id \notin IdsIn(files)
      BY <1>1, ForgeBegins
    <2>2. ASSUME ~blind, abandoned = {}, Faithful(Documents(files), target)
          PROVE  /\ Plan(files, {w}, {}, {})
                 /\ Faithful(Documents(Final(files, {w} \cup {}, {})), target)
      <3>1. IsGraph(files) /\ Good(files)
        BY <2>1, <2>2, ReadyMeans
      <3>2. Faithful(Documents(Final(files, {w}, {})), target)
        BY <2>1, <2>2, <3>1, ForgeKeepsReferences
      <3>3. {w} \cup {} = {w}
        OBVIOUS
      <3>4. QED
        BY <2>1, <2>2, <3>2, <3>3
    <2>3. QED
      BY <1>0, <2>1, <2>2, BeginRefers
  <1>2. ASSUME NEW id \in Ids, NEW parent \in Ids, NEW name \in Names, MoveItem(id, parent, name)
        PROVE  Refers'
    <2> DEFINE M == Moves(files, id, parent, name)
               O == Others(files, id, parent, name)
               V == Vacates(files, id, parent, name)
    <2>1. /\ MayAct /\ Begin(M, O, V)
          /\ ~blind /\ abandoned = {} =>
               MayMove(files, id, parent, name) /\ Plan(files, M, O, V)
      BY <1>2, MoveBegins
    <2>2. ASSUME ~blind, abandoned = {}, Faithful(Documents(files), target)
          PROVE  Plan(files, M, O, V) /\ Faithful(Documents(Final(files, M \cup O, V)), target)
      <3>1. IsGraph(files) /\ Good(files)
        BY <2>1, <2>2, ReadyMeans
      <3>2. QED
        BY <2>1, <2>2, <3>1, MoveKeepsReferences
    <2> HIDE DEF M, O, V
    <2>3. QED
      BY <1>0, <2>1, <2>2, BeginRefers
  <1>3. ASSUME UNCHANGED <<before, after, target, blind>>
        PROVE  Refers'
    BY <1>3 DEF Refers
  <1>4. CASE Open
    BY <1>3, <1>4 DEF Open
  <1>5. CASE \E w \in relocations \cup rewrites : StartWrite(w)
    BY <1>3, <1>5 DEF StartWrite
  <1>6. CASE FinishWrite
    BY <1>3, <1>6 DEF FinishWrite
  <1>7. CASE \E f \in vacated : RemoveOld(f)
    BY <1>3, <1>7 DEF RemoveOld
  <1>8. CASE RefreshPaths
    BY <1>3, <1>8 DEF RefreshPaths, history
  <1>9. CASE Fail
    BY <1>3, <1>9 DEF Fail
  <1>10. CASE Kill
    BY <1>3, <1>10 DEF Kill
  <1>11. CASE UNCHANGED vars
    BY <1>3, <1>11 DEF vars, history
  <1>12. QED
    BY <1>1, <1>2, <1>4, <1>5, <1>6, <1>7, <1>8, <1>9, <1>10, <1>11 DEF Next

(* The trees the module starts from, where references are concerned: laid  *)
(* out, without a fault, and every reference names an item.                *)
AllLinked ==
  \A tree \in InitialTrees : Good(Parsed(tree)) /\ Linked(Documents(Parsed(tree)))

LEMMA InitRefers ==
  ASSUME Excluded \cap Names = {}, AllLinked, Init
  PROVE  Refers
  <1> DEFINE docs == Documents(Found)
  <1>1. /\ Good(Found) /\ Linked(docs) /\ before = docs /\ after = docs
        /\ disk \in InitialTrees
    BY DEF AllLinked, Init, Found
  <1>2. IsTree(disk)
    BY <1>1, TreesAssumption DEF IsTree
  <1>3. /\ IsGraph(Found) /\ docs \subseteq Items
        /\ \A f : f \in DOMAIN Found <=> f \in DOMAIN disk /\ disk[f] # Alien /\ EntersOnly(f)
        /\ \A f \in DOMAIN Found : Found[f] = disk[f]
    BY <1>2, ParsedMeans DEF Found
  <1>4. \A f \in DOMAIN disk : EntersOnly(f)
    <2>1. \A f \in DOMAIN disk : f \in Seq(Names)
      BY <1>2 DEF IsTree, Paths
    <2>2. QED
      BY <2>1, ElementOfSeq DEF EntersOnly
  <1>5. Documents(disk) = docs
    BY <1>3, <1>4 DEF Documents
  <1>6. \A d \in docs : Doc(disk, d.id) = d
    <2>1. \A f \in DOMAIN disk : disk[f] \notin {Broken, Alien} =>
            f \in DOMAIN Found /\ Found[f] = disk[f]
      BY <1>3, <1>4
    <2>2. SUFFICES ASSUME NEW d \in docs PROVE Doc(disk, d.id) = d
      OBVIOUS
    <2>3. PICK f \in DOMAIN disk : disk[f] = d /\ disk[f] \notin {Broken, Alien}
      BY <1>5 DEF Documents
    <2>4. \A g \in DOMAIN disk : disk[g] \notin {Broken, Alien} /\ disk[g].id = d.id => g = f
      BY <1>1, <1>3, <2>1, <2>3, UnfaultedGraph DEF Good
    <2>5. FileOf(disk, d.id) = f
      BY <2>3, <2>4 DEF FileOf
    <2>6. QED
      BY <2>3, <2>5 DEF Doc
  <1>7. target = [i \in IdsIn(disk) |->
                    {d.id : d \in {e \in Documents(disk) : e.path = Doc(disk, i).ref}}]
    BY DEF Init
  <1>8. DOMAIN target = {d.id : d \in docs}
    BY <1>5, <1>7 DEF IdsIn
  <1>9. \A d \in docs : target[d.id] = Named(docs, d.ref)
    BY <1>5, <1>6, <1>7, <1>8 DEF Named
  <1>10. Faithful(docs, target)
    BY <1>1, <1>3, <1>8, <1>9 DEF Faithful
  <1>11. QED
    BY <1>1, <1>10 DEF Refers

LEMMA AlwaysRefers ==
  ASSUME Excluded \cap Names = {}, AllLinked
  PROVE  Spec => []Refers
  <1>0. LaidOut
    BY DEF AllLinked, LaidOut, Good
  <1>1. Init => Progress /\ Settled /\ Refers
    BY <1>0, InitSettles, InitRefers
  <1>2. TypeOK /\ TypeOK' /\ Mirror /\ Progress /\ Settled /\ Refers /\ [Next]_vars
          => Progress' /\ Settled' /\ Refers'
    BY NextSettles, NextRefers
  <1>3. QED
    BY <1>1, <1>2, MoveTypes, AlwaysMirrored, PTL DEF Spec

-----------------------------------------------------------------------------
(* Forge and move_item, with an error or a kill at any file operation,     *)
(* leave a tree that is as it was, as it is to be or visibly at fault, for *)
(* every tree laid out as the code does it and every number of requests    *)
(* and failures, as long as no name is that of a directory scans skip.     *)
THEOREM TreeIsWholeOrFaulted ==
  ASSUME Excluded \cap Names = {}, LaidOut
  PROVE  Spec => []FaultedOrWhole
  <1>1. Sound => FaultedOrWhole
    BY DEF Sound, Outcome, SafeOf, FaultedOrWhole
  <1>2. QED
    BY <1>1, AlwaysSound, PTL

(* Under the same hypotheses no item disappears, unless it is in a file    *)
(* that is truncated in place, before a request is planned blindly.        *)
THEOREM NoItemIsLost ==
  ASSUME Excluded \cap Names = {}, LaidOut
  PROVE  Spec => [](blind \/ NoItemLost)
  <1>1. Sound => blind \/ NoItemLost
    BY DEF Sound, Outcome, NoItemLost
  <1>2. QED
    BY <1>1, AlwaysSound, PTL

(* Under the same hypotheses paths and files go on following the parent    *)
(* links: forges and moves of whole subtrees keep the layout.              *)
THEOREM LayoutIsKept ==
  ASSUME Excluded \cap Names = {}, LaidOut
  PROVE  Spec => []PathsFollowParents
  <1>1. Sound => PathsFollowParents
    BY DEF Sound, Outcome, PathsFollowParents
  <1>2. QED
    BY <1>1, AlwaysSound, PTL

(* When every reference names an item at first, each goes on naming the    *)
(* same items, however the trees around both ends of it move.              *)
THEOREM ReferencesAreKept ==
  ASSUME Excluded \cap Names = {}, AllLinked
  PROVE  Spec => [](blind \/ ReferencesFollow)
  <1>0. LaidOut
    BY DEF AllLinked, LaidOut, Good
  <1>1. Sound /\ Refers => blind \/ ReferencesFollow
    <2>1. SUFFICES ASSUME Sound, Refers, ~blind, ~Faulted(Found), risked = {}
                   PROVE  ReferencesFollow
      BY DEF ReferencesFollow
    <2>2. Faithful(Documents(Found), target)
      BY <2>1, FoundRefers
    <2>3. QED
      BY <2>2 DEF Faithful, Named, ReferencesFollow
  <1>2. QED
    BY <1>0, <1>1, AlwaysSound, AlwaysRefers, PTL
=============================================================================
