--------------------------- MODULE MCPresentation --------------------------
(***************************************************************************)
(* Small values for LayoutGates.   The initial states are two families:    *)
(* every base graph of three templates with lists of up to two bases, over *)
(* one page; and many pages over two base graphs.                          *)
(***************************************************************************)
EXTENDS LayoutGates

CONSTANTS A, B, C, Unknown, f, g, SvA, SvB, desktop, print, u1, u2, u3, x, y, z

MCGuids == {A, B, C, Unknown}

Def(bases, fields, standard) ==
  [bases |-> bases, fields |-> fields, standard |-> standard]

(* C has the standard values of B.                                         *)
Index(a, b, c) ==
  A :> Def(a, <<f>>, SvA) @@ B :> Def(b, <<g, f>>, SvB) @@ C :> Def(c, <<g>>, SvB)

MCIndexes ==
  LET Lists == BoundedSeq(MCGuids, 2)
  IN  {Index(a, b, c) : a \in Lists, b \in Lists, c \in Lists}

TwoIndexes ==
  { Index(<<B, Unknown>>, <<>>, <<>>),
    A :> Def(<<C, B>>, <<f>>, SvA) @@ B :> Def(<<C>>, <<g>>, SvB)
      @@ C :> Def(<<A>>, <<g, f>>, None) }

Rendering(uid, id, ph, ds, pos) ==
  [uid |-> uid, attrs |-> [a \in {"id", "ph", "ds"} |->
     CASE a = "id" -> id [] a = "ph" -> ph [] a = "ds" -> ds], pos |-> pos]

Full(uid, pos) == Rendering(uid, x, x, Missing, pos)
At(side, uid)  == [side |-> side, uid |-> uid]

Patches ==
  { Full(u1, NoPosition), Full(u3, NoPosition),
    Rendering(u1, Missing, Missing, y, NoPosition),
    Rendering(u2, y, Blank, x, At("after", u1)),
    Full(u2, At("before", u1)), Full(u3, At("before", Garbled)),
    Full(u3, At("after", u2)),
    Full(NoUid, NoPosition), Rendering(NoUid, Blank, x, x, NoPosition) }

(* A datasource that is there, one that is not, one that is computed; and  *)
(* a placeholder that no view has, for those of y.                         *)
MCReading ==
  x :> [as |-> "local", to |-> x] @@ y :> [as |-> "guid", to |-> y]
    @@ z :> [as |-> "scheme", to |-> z]

MCLeaf == [v \in {x, y, z} |-> IF v = z THEN Blank ELSE v]

Dev(id, l, rs) == [id |-> id, l |-> l, patch |-> FALSE, rs |-> rs]

Rich == {<<Dev(desktop, l, rs)>> : l \in {Missing, x}, rs \in BoundedSeq(Patches, 2)}

Base ==
  { NoLayout,
    <<Dev(desktop, x, <<Full(u1, NoPosition), Full(u2, NoPosition)>>)>>,
    <<Dev(desktop, x, <<Full(NoUid, NoPosition)>>), Dev(print, Blank, <<Full(u1, NoPosition)>>)>> }

Small ==
  { NoLayout, Malformed,
    <<Dev(desktop, Missing, <<Rendering(u1, Missing, Missing, x, NoPosition),
                              Rendering(u3, Missing, y, Missing, NoPosition)>>),
      Dev(print, Missing, <<Full(u2, NoPosition)>>)>>,
    <<Dev(desktop, y, <<Full(u2, NoPosition), Full(u3, NoPosition)>>)>>,
    <<[Dev(desktop, y, <<Full(u3, At("after", u1)), Full(u2, NoPosition)>>) EXCEPT !.patch = TRUE]>> }

Doc(shared, first, second) == [shared |-> shared, final |-> <<first, second>>]

MCPages ==
  LET Of(own, svA, svB) == Page :> own @@ SvA :> svA @@ SvB :> svB
  IN  {Of(Doc(NoLayout, small, NoVersion), Doc(rich, NoVersion, NoVersion),
          Doc(base, NoVersion, NoVersion)) : small \in Small, rich \in Rich, base \in Base}
      \cup
      {Of(Doc(NoLayout, NoVersion, rich), Doc(NoLayout, small, NoLayout),
          Doc(base, NoVersion, NoVersion)) : small \in Small, rich \in Rich, base \in Base}
      \cup
      {Page :> Doc(rich, small, NoVersion) @@ SvB :> Doc(base, NoVersion, small)
          : small \in Small, rich \in Rich, base \in Base}
      \cup
      {Page :> Doc(base, small, rich) @@ SvB :> Doc(base, NoVersion, NoVersion)
          : small \in Small, rich \in Rich, base \in Base}

OnePage ==
  LET Swap(v) == <<Dev(desktop, x, <<Full(u1, NoPosition), Rendering(u2, x, Missing, v, NoPosition)>>)>>
  IN  Page :> Doc(NoLayout, NoVersion, NoVersion) @@ SvA :> Doc(Swap(x), NoVersion, NoVersion)
        @@ SvB :> Doc(Swap(z), NoVersion, NoVersion)

MCInit ==
  \/ documents = OnePage /\ requested = Latest /\ template = A /\ Init
  \/ documents = OnePage /\ defs \in TwoIndexes /\ Init
  \/ defs \in TwoIndexes /\ template = A /\ Init

MCSpec == MCInit /\ [][Next]_vars

AllPages == MCPages \cup {OnePage}
AllIndexes == MCIndexes \cup TwoIndexes

(* What the theorems ask of the pages, these have.                         *)
ASSUME PagesNameDevicesOnce == DevicesOnce
=============================================================================
