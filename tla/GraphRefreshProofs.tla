------------------------- MODULE GraphRefreshProofs -------------------------
(***************************************************************************)
(* RefreshKeepsUp for every set of names and contents, every depth, every  *)
(* number of changes and every order of the refreshes.                     *)
(***************************************************************************)
EXTENDS GraphRefresh, TLAPS

-----------------------------------------------------------------------------
(* Paths and their prefixes, point by point.                               *)
LEMMA PathType ==
  ASSUME NEW p \in Paths
  PROVE  /\ p \in Seq(Names) /\ Len(p) \in 1..Depth
         /\ p \in [1..Len(p) -> Names] /\ Len(p) \in Nat /\ Len(p) >= 1
  <1>1. PICK n \in 1..Depth : p \in [1..n -> Names]
    BY DEF Paths
  <1>2. n \in Nat
    BY BoundsAssumption
  <1>3. p \in Seq(Names) /\ Len(p) = n
    BY <1>1, <1>2
  <1>4. QED
    BY <1>1, <1>2, <1>3

LEMMA PrefixPointwise ==
  ASSUME NEW p \in Paths, NEW q \in Paths
  PROVE  IsPrefix(p, q) <=> Len(p) <= Len(q) /\ \A i \in 1..Len(p) : p[i] = q[i]
  <1>1. /\ p \in Seq(Names) /\ q \in Seq(Names)
        /\ Len(p) \in Nat /\ Len(q) \in Nat /\ Len(p) >= 1
    BY PathType
  <1>2. SubSeq(p, 1, Len(p)) = p
    BY <1>1
  <1>3. ASSUME Len(p) <= Len(q)
        PROVE  SubSeq(q, 1, Len(p)) = p <=> \A i \in 1..Len(p) : p[i] = q[i]
    <2>1. /\ SubSeq(q, 1, Len(p)) \in Seq(Names)
          /\ Len(SubSeq(q, 1, Len(p))) = Len(p)
          /\ \A i \in 1..Len(p) : SubSeq(q, 1, Len(p))[i] = q[i]
      BY <1>1, <1>3
    <2>2. QED
      BY <1>1, <2>1
  <1>4. QED
    BY <1>2, <1>3 DEF IsPrefix

LEMMA PrefixTransitive ==
  ASSUME NEW p \in Paths, NEW q \in Paths, NEW r \in Paths,
         IsPrefix(p, q), IsPrefix(q, r)
  PROVE  IsPrefix(p, r)
  <1>1. Len(p) \in Nat /\ Len(q) \in Nat /\ Len(r) \in Nat
    BY PathType
  <1>2. QED
    BY <1>1, PrefixPointwise

LEMMA PrefixReflexive == ASSUME NEW p \in Paths PROVE IsPrefix(p, p)
  BY PathType, PrefixPointwise

-----------------------------------------------------------------------------
(* RefreshKeepsUp is not inductive: a refresh ignores a path with an       *)
(* excluded name in it, which is right only if the graph holds nothing     *)
(* there.                                                                  *)
Tracked ==
  \A p \in Paths :
    /\ files[p] # None => Last(p) \in ItemNames /\ ~InExcluded(p)
    /\ p \in repo => ~InExcluded(p)

IInv == TypeOK /\ Tracked /\ RefreshKeepsUp

(* What the scan makes of one path depends on what the tree has there.     *)
LEMMA ParseType ==
  ASSUME NEW p \in Paths, NEW content
  PROVE  /\ Parse(p, content) \in Records \cup {None}
         /\ Parse(p, content) # None => Last(p) \in ItemNames
  BY DEF Parse

LEMMA ScanType ==
  ASSUME NEW tree
  PROVE  /\ ScanFiles(tree) \in [Paths -> Records \cup {None}]
         /\ Walked(tree) \subseteq Paths
         /\ \A p \in Paths : /\ p \in Walked(tree) => ~InExcluded(p)
                             /\ ScanFiles(tree)[p] # None =>
                                  p \in Walked(tree) /\ Last(p) \in ItemNames
  BY ParseType DEF ScanFiles, Walked

LEMMA ScanLocal ==
  ASSUME NEW tree, NEW other, NEW p \in Paths, tree[p] = other[p]
  PROVE  /\ ScanFiles(tree)[p] = ScanFiles(other)[p]
         /\ p \in Walked(tree) <=> p \in Walked(other)
  BY DEF ScanFiles, Walked

(* A change leaves the invariant alone where it is reported at the path    *)
(* that changes or above it.                                               *)
LEMMA ChangeKeeps ==
  ASSUME IInv, NEW tree \in [Paths -> Nodes], IsTree(tree),
         NEW reported \in SUBSET Paths, Change(tree, reported),
         \A p \in Paths : tree[p] # disk[p] => \E d \in reported : IsPrefix(d, p)
  PROVE  IInv'
  <1>1. /\ disk' = tree /\ dirty' = dirty \cup reported /\ UNCHANGED <<files, repo>>
        /\ edits < MaxEdits /\ edits' = edits + 1
    BY DEF Change
  <1>2. TypeOK'
    BY <1>1, BoundsAssumption DEF IInv, TypeOK
  <1>3. Tracked'
    BY <1>1 DEF IInv, Tracked
  <1>4. ASSUME NEW p \in Paths, ~Pending(p)', ~UnderFile(p)', disk'[p] # Link
        PROVE  /\ files'[p] = ScanFiles(disk')[p]
               /\ \/ p \in repo' <=> p \in Walked(disk')
                  \/ Last(p) \in Excluded \/ disk'[p] = Dir
    <2>1. ~Pending(p) /\ \A d \in reported : ~IsPrefix(d, p)
      BY <1>1, <1>4 DEF Pending
    <2>2. disk'[p] = disk[p]
      BY <1>1, <2>1
    <2>3. \A q \in Above(p) : disk'[q] = disk[q]
      BY <1>1, <2>1, PrefixTransitive DEF Above, IsStrictPrefix
    <2>4. ~UnderFile(p)
      BY <1>4, <2>3 DEF UnderFile
    <2>5. QED
      BY <1>1, <1>4, <2>1, <2>2, <2>4, ScanLocal DEF IInv, RefreshKeepsUp
  <1>5. RefreshKeepsUp'
    BY <1>4 DEF RefreshKeepsUp
  <1>6. QED
    BY <1>2, <1>3, <1>5 DEF IInv

-----------------------------------------------------------------------------
LEMMA InitHolds == Init => IInv
  <1> SUFFICES ASSUME Init PROVE IInv
    OBVIOUS
  <1>1. TypeOK
    BY ScanType, TreesAssumption, BoundsAssumption DEF Init, TypeOK
  <1>2. Tracked
    BY ScanType DEF Init, Tracked
  <1>3. RefreshKeepsUp
    BY DEF Init, RefreshKeepsUp
  <1>4. QED
    BY <1>1, <1>2, <1>3 DEF IInv

LEMMA ScanStep == ASSUME IInv, Scan PROVE IInv'
  <1>1. /\ files' = ScanFiles(disk') /\ repo' = Walked(disk')
        /\ UNCHANGED <<disk, dirty, edits>>
    BY DEF Scan
  <1>2. TypeOK'
    BY <1>1, ScanType DEF IInv, TypeOK
  <1>3. Tracked'
    BY <1>1, ScanType DEF Tracked
  <1>4. RefreshKeepsUp'
    BY <1>1 DEF RefreshKeepsUp
  <1>5. QED
    BY <1>2, <1>3, <1>4 DEF IInv

(* Where a refresh of d does not reach, nothing changes; where it reaches, *)
(* the graph becomes right.                                                *)
LEMMA RefreshStep ==
  ASSUME IInv, NEW d \in dirty, Refresh(d)
  PROVE  IInv'
  <1>1. /\ RefreshOne(d) /\ dirty' = dirty \ {d} /\ UNCHANGED <<disk, edits>>
        /\ d \in Paths /\ TypeOK /\ Tracked /\ RefreshKeepsUp
    BY DEF Refresh, IInv, TypeOK
  <1> DEFINE Ignored == \E i \in 1..Len(d) : d[i] \in Excluded
             Right(p) == \/ UnderFile(p)' \/ disk'[p] = Link
                         \/ /\ files'[p] = ScanFiles(disk')[p]
                            /\ \/ p \in repo' <=> p \in Walked(disk')
                               \/ Last(p) \in Excluded \/ disk'[p] = Dir
             Kept(p) == files'[p] = files[p] /\ (p \in repo' <=> p \in repo)
  <1>2. SUFFICES /\ TypeOK' /\ Tracked'
                 /\ \A p \in Paths : IF p \in Below(d) THEN Right(p) ELSE Kept(p)
    <2>1. ASSUME NEW p \in Paths, p \notin Below(d), Kept(p), ~Pending(p)'
          PROVE  Right(p)
      <3>1. ~Pending(p)
        BY <1>1, <2>1 DEF Pending, Below
      <3>2. QED
        BY <1>1, <2>1, <3>1 DEF RefreshKeepsUp, UnderFile
    <2>2. QED
      BY <1>2, <2>1 DEF IInv, RefreshKeepsUp
  <1>3. CASE Ignored
    <2>1. UNCHANGED <<files, repo>>
      BY <1>1, <1>3 DEF RefreshOne
    <2>2. TypeOK' /\ Tracked'
      BY <1>1, <2>1 DEF TypeOK, Tracked
    <2>3. ASSUME NEW p \in Below(d) PROVE Right(p)
      <3>1. p \in Paths /\ \A i \in 1..Len(d) : p[i] = d[i] /\ Len(d) <= Len(p)
        BY <1>1, <2>3, PrefixPointwise DEF Below
      <3>2. PICK i \in 1..Len(d) : p[i] \in Excluded
        BY <1>3, <3>1
      <3>3. Len(p) \in Nat /\ Len(d) \in Nat /\ Last(p) = p[Len(p)]
        BY <1>1, <3>1, PathType DEF Last
      <3>4. InExcluded(p) \/ Last(p) \in Excluded
        BY <3>1, <3>2, <3>3 DEF InExcluded
      <3>5. files[p] = None
        BY <1>1, <3>1, <3>4, NamesAssumption DEF Tracked
      <3>6. ScanFiles(disk)[p] = None
        BY <3>1, <3>4, ScanType, NamesAssumption
      <3>7. InExcluded(p) => p \notin repo /\ p \notin Walked(disk)
        BY <1>1, <3>1, ScanType DEF Tracked
      <3>8. QED
        BY <1>1, <2>1, <3>4, <3>5, <3>6, <3>7
    <2>4. QED
      BY <2>1, <2>2, <2>3
  <1>4. CASE ~Ignored /\ disk[d] = Absent
    <2>1. /\ files' = [q \in Paths |-> IF q \in Below(d) THEN None ELSE files[q]]
          /\ repo' = repo \ Below(d)
      BY <1>1, <1>4 DEF RefreshOne, Forget
    <2>2. TypeOK' /\ Tracked'
      BY <1>1, <2>1 DEF TypeOK, Tracked
    <2>3. ASSUME NEW p \in Below(d) PROVE Right(p)
      <3>1. p \in Paths /\ disk[p] = Absent
        BY <1>1, <1>4, <2>3, NodesAssumption
        DEF Below, TypeOK, IsTree, Above, IsStrictPrefix
      <3>2. p \notin Walked(disk)
        BY <3>1, NodesAssumption DEF Walked, FileContents
      <3>3. QED
        BY <1>1, <2>1, <2>3, <3>1, <3>2, ScanType
    <2>4. QED
      BY <1>1, <2>1, <2>2, <2>3 DEF TypeOK
  <1>5. CASE ~Ignored /\ disk[d] = Dir
    <2>1. /\ files' = [q \in Paths |-> IF q \in Below(d) THEN ScanFiles(disk)[q] ELSE files[q]]
          /\ repo' = (repo \ (Below(d) \ {d})) \cup (Below(d) \cap Walked(disk))
      BY <1>1, <1>5, NodesAssumption DEF RefreshOne
    <2>2. TypeOK' /\ Tracked'
      BY <1>1, <2>1, ScanType DEF TypeOK, Tracked
    <2>3. ASSUME NEW p \in Below(d) PROVE Right(p)
      BY <1>1, <1>5, <2>1, <2>3 DEF Below
    <2>4. QED
      BY <1>1, <2>1, <2>2, <2>3 DEF TypeOK
  <1>6. CASE ~Ignored /\ disk[d] \notin {Absent, Dir}
    <2>1. /\ files' = [files EXCEPT ![d] =
                         Parse(d, IF disk[d] = Link THEN LinkTarget ELSE disk[d])]
          /\ repo' = repo \cup {d}
      BY <1>1, <1>6 DEF RefreshOne
    <2>2. ~InExcluded(d)
      BY <1>1, <1>6, PathType DEF InExcluded
    <2>3. TypeOK' /\ Tracked'
      BY <1>1, <2>1, <2>2, ParseType DEF TypeOK, Tracked
    <2>4. disk[d] \in FileContents \cup {Link}
      BY <1>1, <1>6 DEF TypeOK, Nodes
    <2>5. Right(d)
      <3>1. CASE disk[d] = Link
        BY <1>1, <3>1
      <3>2. CASE disk[d] # Link
        <4>1. d \in Walked(disk) /\ d \in repo'
          BY <1>1, <2>1, <2>2, <2>4, <3>2 DEF Walked
        <4>2. files'[d] = ScanFiles(disk)[d]
          BY <1>1, <2>1, <3>2, <4>1 DEF ScanFiles, TypeOK
        <4>3. QED
          BY <1>1, <4>1, <4>2
      <3>3. QED
        BY <3>1, <3>2
    <2>6. ASSUME NEW p \in Below(d), p # d PROVE UnderFile(p)'
      BY <1>1, <2>4, <2>6 DEF Below, Above, IsStrictPrefix, UnderFile
    <2>7. d \in Below(d)
      BY <1>1, PrefixReflexive DEF Below
    <2>8. QED
      BY <1>1, <2>1, <2>3, <2>5, <2>6, <2>7 DEF TypeOK
  <1>7. QED
    BY <1>1, <1>3, <1>4, <1>5, <1>6

-----------------------------------------------------------------------------
(* Every change leaves a tree behind, and reports where it happened.       *)
LEMMA AboveParent ==
  ASSUME NEW p \in Paths, NEW q \in Above(p)
  PROVE  Len(p) > 1 /\ Parent(p) \in Paths /\ (q = Parent(p) \/ q \in Above(Parent(p)))
  <1>1. /\ q \in Paths /\ q # p /\ Len(q) <= Len(p)
        /\ \A i \in 1..Len(q) : q[i] = p[i]
    BY PrefixPointwise DEF Above, IsStrictPrefix
  <1>2. /\ Len(p) \in 1..Depth /\ p \in [1..Len(p) -> Names] /\ p \in Seq(Names)
        /\ Len(q) \in 1..Depth /\ q \in [1..Len(q) -> Names] /\ Depth \in Nat
    BY <1>1, PathType, BoundsAssumption
  <1>3. Len(q) < Len(p)
    BY <1>1, <1>2
  <1> DEFINE f == Parent(p)
  <1>4. f = SubSeq(p, 1, Len(p) - 1)
    BY DEF Parent, Front
  <1>5. /\ f \in Seq(Names) /\ Len(f) = Len(p) - 1
        /\ \A i \in 1..(Len(p) - 1) : f[i] = p[i]
    BY <1>2, <1>3, <1>4
  <1>6. f \in Paths
    <2>1. f \in [1..(Len(p) - 1) -> Names] /\ Len(p) - 1 \in 1..Depth
      BY <1>2, <1>3, <1>5
    <2>2. QED
      BY <2>1 DEF Paths
  <1>7. IsPrefix(q, f)
    BY <1>1, <1>2, <1>3, <1>5, <1>6, PrefixPointwise
  <1>8. QED
    BY <1>1, <1>2, <1>3, <1>6, <1>7 DEF Above, IsStrictPrefix

LEMMA HasParentMeaning ==
  ASSUME TypeOK, NEW p \in Paths, HasParent(p)
  PROVE  \A q \in Above(p) : disk[q] = Dir
  <1> SUFFICES ASSUME NEW q \in Above(p) PROVE disk[q] = Dir
    OBVIOUS
  <1>1. disk[Parent(p)] = Dir /\ (q = Parent(p) \/ q \in Above(Parent(p))) /\ Parent(p) \in Paths
    BY AboveParent DEF HasParent
  <1>2. QED
    BY <1>1, NodesAssumption DEF TypeOK, IsTree

LEMMA CreateStep ==
  ASSUME IInv, NEW p \in Paths, NEW node \in Nodes \ {Absent}, Create(p, node)
  PROVE  IInv'
  <1> DEFINE tree == [disk EXCEPT ![p] = node]
  <1>1. TypeOK /\ disk[p] = Absent /\ HasParent(p) /\ Change(tree, {p})
    BY DEF IInv, Create
  <1>2. tree \in [Paths -> Nodes] /\ \A q \in Paths \ {p} : tree[q] = disk[q]
    BY <1>1 DEF TypeOK
  <1>3. ASSUME NEW r \in Paths, tree[r] # Absent, NEW q \in Above(r)
        PROVE  tree[q] = Dir
    <2>1. q \in Paths /\ q # r
      BY DEF Above, IsStrictPrefix
    <2>2. CASE r = p
      BY <1>1, <1>2, <2>1, <2>2, HasParentMeaning
    <2>3. CASE r # p
      <3>1. disk[q] = Dir
        BY <1>1, <1>2, <1>3, <2>3 DEF TypeOK, IsTree
      <3>2. QED
        BY <1>1, <1>2, <2>1, <3>1, NodesAssumption
    <2>4. QED
      BY <2>2, <2>3
  <1>4. IsTree(tree)
    BY <1>3 DEF IsTree
  <1>5. \A q \in Paths : tree[q] # disk[q] => \E d \in {p} : IsPrefix(d, q)
    BY <1>2, PrefixReflexive
  <1>6. QED
    BY <1>1, <1>2, <1>4, <1>5, ChangeKeeps

LEMMA OverwriteStep ==
  ASSUME IInv, NEW p \in Paths, NEW content \in FileContents, Overwrite(p, content)
  PROVE  IInv'
  <1> DEFINE tree == [disk EXCEPT ![p] = content]
  <1>1. TypeOK /\ disk[p] \in FileContents /\ Change(tree, {p})
    BY DEF IInv, Overwrite
  <1>2. tree \in [Paths -> Nodes] /\ \A q \in Paths \ {p} : tree[q] = disk[q]
    BY <1>1 DEF TypeOK, Nodes
  <1>3. ASSUME NEW r \in Paths, tree[r] # Absent, NEW q \in Above(r)
        PROVE  tree[q] = Dir
    <2>1. q \in Paths /\ disk[r] # Absent
      BY <1>1, <1>2, <1>3, NodesAssumption DEF Above, FileContents
    <2>2. disk[q] = Dir
      BY <1>1, <2>1 DEF TypeOK, IsTree
    <2>3. QED
      BY <1>1, <1>2, <2>1, <2>2, NodesAssumption DEF FileContents
  <1>4. IsTree(tree)
    BY <1>3 DEF IsTree
  <1>5. \A q \in Paths : tree[q] # disk[q] => \E d \in {p} : IsPrefix(d, q)
    BY <1>2, PrefixReflexive
  <1>6. QED
    BY <1>1, <1>2, <1>4, <1>5, ChangeKeeps

LEMMA DeleteStep ==
  ASSUME IInv, NEW p \in Paths, Delete(p)
  PROVE  IInv'
  <1> DEFINE tree == [q \in Paths |-> IF q \in Below(p) THEN Absent ELSE disk[q]]
             reported == {q \in Below(p) : disk[q] # Absent}
  <1>1. TypeOK /\ Change(tree, reported) /\ reported \subseteq Paths
    BY DEF IInv, Delete, Below
  <1>2. tree \in [Paths -> Nodes]
    BY <1>1 DEF TypeOK, Nodes
  <1>3. ASSUME NEW r \in Paths, tree[r] # Absent, NEW q \in Above(r)
        PROVE  tree[q] = Dir
    <2>1. q \in Paths /\ r \notin Below(p) /\ disk[q] = Dir
      BY <1>1, <1>3 DEF Above, TypeOK, IsTree
    <2>2. q \notin Below(p)
      BY <1>3, <2>1, PrefixTransitive DEF Below, Above, IsStrictPrefix
    <2>3. QED
      BY <2>1, <2>2
  <1>4. IsTree(tree)
    BY <1>3 DEF IsTree
  <1>5. \A q \in Paths : tree[q] # disk[q] => \E d \in reported : IsPrefix(d, q)
    BY PrefixReflexive
  <1>6. QED
    BY <1>1, <1>2, <1>4, <1>5, ChangeKeeps

LEMMA Comparable ==
  ASSUME NEW p \in Paths, NEW q \in Paths, NEW r \in Paths,
         IsPrefix(p, r), IsPrefix(q, r)
  PROVE  IsPrefix(p, q) \/ IsPrefix(q, p)
  <1>1. Len(p) \in Nat /\ Len(q) \in Nat /\ Len(r) \in Nat
    BY PathType
  <1>2. CASE Len(p) <= Len(q)
    BY <1>1, <1>2, PrefixPointwise
  <1>3. CASE Len(q) <= Len(p)
    BY <1>1, <1>3, PrefixPointwise
  <1>4. QED
    BY <1>1, <1>2, <1>3

LEMMA OriginPointwise ==
  ASSUME NEW p \in Paths, NEW q \in Paths, NEW r \in Paths, IsPrefix(q, r)
  PROVE  LET s == Origin(p, q, r)
         IN  /\ s \in Seq(Names) /\ Len(s) = Len(p) + (Len(r) - Len(q))
             /\ \A i \in 1..Len(s) :
                  s[i] = IF i <= Len(p) THEN p[i] ELSE r[i - Len(p) + Len(q)]
  <1>1. /\ p \in Seq(Names) /\ q \in Seq(Names) /\ r \in Seq(Names)
        /\ Len(p) \in Nat /\ Len(q) \in Nat /\ Len(r) \in Nat /\ Len(q) >= 1
        /\ Len(q) <= Len(r)
    BY PathType, PrefixPointwise
  <1> DEFINE tail == SubSeq(r, Len(q) + 1, Len(r))
  <1>2. tail \in Seq(Names) /\ Len(tail) = Len(r) - Len(q)
    BY <1>1
  <1>3. \A i \in 1..Len(tail) : tail[i] = r[i + Len(q)]
    BY <1>1, <1>2
  <1> HIDE DEF tail
  <1>4. /\ p \o tail \in Seq(Names) /\ Len(p \o tail) = Len(p) + Len(tail)
        /\ \A i \in 1..Len(p \o tail) :
             (p \o tail)[i] = IF i <= Len(p) THEN p[i] ELSE tail[i - Len(p)]
    BY <1>1, <1>2
  <1>5. ASSUME NEW i \in 1..Len(p \o tail), i > Len(p)
        PROVE  tail[i - Len(p)] = r[i - Len(p) + Len(q)]
    BY <1>1, <1>2, <1>3, <1>4, <1>5
  <1>6. QED
    BY <1>1, <1>2, <1>4, <1>5 DEF Origin, tail

LEMMA OriginAbove ==
  ASSUME NEW p \in Paths, NEW q \in Paths, NEW r \in Below(q), NEW a \in Above(r),
         a \in Below(q), Origin(p, q, r) \in Paths
  PROVE  Origin(p, q, a) \in Paths /\ Origin(p, q, a) \in Above(Origin(p, q, r))
  <1> DEFINE s == Origin(p, q, r)
             t == Origin(p, q, a)
  <1>1. /\ a \in Paths /\ r \in Paths /\ a # r
        /\ IsPrefix(q, a) /\ IsPrefix(q, r) /\ IsPrefix(a, r)
    BY DEF Below, Above, IsStrictPrefix
  <1>2. /\ Len(p) \in Nat /\ Len(q) \in Nat /\ Len(a) \in Nat /\ Len(r) \in Nat
        /\ Len(p) >= 1 /\ Len(q) <= Len(a) /\ Len(a) <= Len(r)
        /\ \A i \in 1..Len(a) : a[i] = r[i]
        /\ a \in [1..Len(a) -> Names] /\ r \in [1..Len(r) -> Names]
    BY <1>1, PathType, PrefixPointwise
  <1>3. Len(a) < Len(r)
    BY <1>1, <1>2
  <1>4. /\ s \in Seq(Names) /\ Len(s) = Len(p) + (Len(r) - Len(q))
        /\ \A i \in 1..Len(s) :
             s[i] = IF i <= Len(p) THEN p[i] ELSE r[i - Len(p) + Len(q)]
    BY <1>1, OriginPointwise
  <1>5. /\ t \in Seq(Names) /\ Len(t) = Len(p) + (Len(a) - Len(q))
        /\ \A i \in 1..Len(t) :
             t[i] = IF i <= Len(p) THEN p[i] ELSE a[i - Len(p) + Len(q)]
    BY <1>1, OriginPointwise
  <1> HIDE DEF s, t
  <1>6. Len(s) \in 1..Depth /\ Depth \in Nat
    BY PathType, BoundsAssumption DEF s
  <1>7. t \in Paths
    <2>1. Len(t) \in 1..Depth /\ t \in [1..Len(t) -> Names]
      BY <1>2, <1>3, <1>4, <1>5, <1>6
    <2>2. QED
      BY <2>1 DEF Paths
  <1>8. Len(t) < Len(s)
    BY <1>2, <1>3, <1>4, <1>5
  <1>9. \A i \in 1..Len(t) : t[i] = s[i]
    <2> SUFFICES ASSUME NEW i \in 1..Len(t) PROVE t[i] = s[i]
      OBVIOUS
    <2>1. i \in 1..Len(s)
      BY <1>2, <1>4, <1>5, <1>8
    <2>2. CASE i <= Len(p)
      BY <1>4, <1>5, <2>1, <2>2
    <2>3. CASE ~(i <= Len(p))
      <3>1. i - Len(p) + Len(q) \in 1..Len(a)
        BY <1>2, <1>5, <2>3
      <3>2. QED
        BY <1>2, <1>4, <1>5, <2>1, <2>3, <3>1
    <2>4. QED
      BY <2>2, <2>3
  <1>10. QED
    <2>1. IsPrefix(t, s) /\ t # s
      BY <1>2, <1>4, <1>5, <1>7, <1>8, <1>9, PrefixPointwise DEF s
    <2>2. QED
      BY <1>7, <2>1 DEF s, t, Above, IsStrictPrefix

LEMMA RenameStep ==
  ASSUME IInv, NEW p \in Paths, NEW q \in Paths, Rename(p, q)
  PROVE  IInv'
  <1> DEFINE tree == [r \in Paths |->
                        IF r \in Below(p) THEN Absent
                        ELSE IF r \in Below(q) /\ Origin(p, q, r) \in Paths
                          THEN disk[Origin(p, q, r)]
                        ELSE disk[r]]
  <1>1. /\ TypeOK /\ disk[p] # Absent /\ disk[q] = Absent /\ HasParent(q)
        /\ q \notin Below(p) /\ Change(tree, {p, q})
    BY DEF IInv, Rename
  <1>2. tree \in [Paths -> Nodes]
    BY <1>1 DEF TypeOK, Nodes
  <1>3. \A r \in Below(q) : disk[r] = Absent
    BY <1>1, NodesAssumption DEF TypeOK, IsTree, Below, Above, IsStrictPrefix
  <1>4. ASSUME NEW r \in Paths, tree[r] # Absent, NEW a \in Above(r)
        PROVE  tree[a] = Dir
    <2>1. a \in Paths /\ IsPrefix(a, r) /\ a # r /\ r \notin Below(p)
      BY <1>4 DEF Above, IsStrictPrefix
    <2>2. a \notin Below(p)
      BY <2>1, PrefixTransitive DEF Below
    <2>3. CASE r \notin Below(q)
      <3>1. a \notin Below(q)
        BY <2>1, <2>3, PrefixTransitive DEF Below
      <3>2. disk[a] = Dir
        BY <1>1, <1>4, <2>1, <2>3 DEF TypeOK, IsTree
      <3>3. QED
        BY <2>1, <2>2, <3>1, <3>2
    <2>4. CASE r \in Below(q)
      <3>1. Origin(p, q, r) \in Paths /\ disk[Origin(p, q, r)] # Absent
        BY <1>3, <1>4, <2>1, <2>4
      <3>2. CASE a \in Below(q)
        <4>1. Origin(p, q, a) \in Paths /\ Origin(p, q, a) \in Above(Origin(p, q, r))
          BY <1>4, <2>4, <3>1, <3>2, OriginAbove
        <4>2. disk[Origin(p, q, a)] = Dir
          BY <1>1, <3>1, <4>1 DEF TypeOK, IsTree
        <4>3. QED
          BY <2>1, <2>2, <3>2, <4>1, <4>2
      <3>3. CASE a \notin Below(q)
        <4>1. a \in Above(q)
          BY <2>1, <2>4, <3>3, Comparable, PrefixReflexive DEF Below, Above, IsStrictPrefix
        <4>2. disk[a] = Dir
          BY <1>1, <4>1, HasParentMeaning
        <4>3. QED
          BY <2>1, <2>2, <3>3, <4>2
      <3>4. QED
        BY <3>2, <3>3
    <2>5. QED
      BY <2>3, <2>4
  <1>5. IsTree(tree)
    BY <1>4 DEF IsTree
  <1>6. \A r \in Paths : tree[r] # disk[r] => \E d \in {p, q} : IsPrefix(d, r)
    BY DEF Below
  <1>7. QED
    BY <1>1, <1>2, <1>5, <1>6, ChangeKeeps

-----------------------------------------------------------------------------
LEMMA NextKeeps == IInv /\ Next => IInv'
  <1> SUFFICES ASSUME IInv, Next PROVE IInv'
    OBVIOUS
  <1>1. CASE Scan
    BY <1>1, ScanStep
  <1>2. CASE \E d \in dirty : Refresh(d)
    BY <1>2, RefreshStep
  <1>3. CASE \E p \in Paths : \E node \in Nodes \ {Absent} : Create(p, node)
    BY <1>3, CreateStep
  <1>4. CASE \E p \in Paths : \E content \in FileContents : Overwrite(p, content)
    BY <1>4, OverwriteStep
  <1>5. CASE \E p \in Paths : Delete(p)
    BY <1>5, DeleteStep
  <1>6. CASE \E p \in Paths, q \in Paths : Rename(p, q)
    BY <1>6, RenameStep
  <1>7. QED
    BY <1>1, <1>2, <1>3, <1>4, <1>5, <1>6 DEF Next

LEMMA Invariance == Spec => []IInv
  <1>1. IInv /\ UNCHANGED vars => IInv'
    BY DEF vars, IInv, TypeOK, Tracked, RefreshKeepsUp, Pending, UnderFile
  <1>2. QED
    BY <1>1, InitHolds, NextKeeps, PTL DEF Spec

(* Every variable keeps its type, and the tree stays a tree.               *)
THEOREM TypeCorrect == Spec => []TypeOK
  <1>1. IInv => TypeOK
    BY DEF IInv
  <1>2. QED
    BY <1>1, Invariance, PTL

(* refresh_paths keeps up with the scan: whatever comes, goes and is       *)
(* renamed, in whatever order the reports are taken up, the graph differs  *)
(* from a scan only where something is pending or at the named exceptions. *)
THEOREM RefreshIsEnough == Spec => []RefreshKeepsUp
  <1>1. IInv => RefreshKeepsUp
    BY DEF IInv
  <1>2. QED
    BY <1>1, Invariance, PTL
=============================================================================
