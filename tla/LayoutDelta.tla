---------------------------- MODULE LayoutDelta ----------------------------
(***************************************************************************)
(* The merge of layout layers (treesmith-presentation/src/delta.rs).       *)
(* A layout is a sequence of devices, a device a sequence of renderings.   *)
(* Of the attributes a rendering can have, uid= and the position are kept  *)
(* apart; the others are a function, Missing where there is none and Blank *)
(* where the value is empty.  Ids are compared in their normal form.       *)
(***************************************************************************)
EXTENDS Integers, Sequences, SequencesExt

CONSTANTS Devices,     \* device ids
          Uids,        \* rendering uids
          NoUid,       \* no uid=, or an empty one
          Values,      \* what id=, ph=, ds= and l= can say
          Missing,     \* the attribute is not there
          Blank,       \* the attribute is empty
          Garbled      \* a position that does not parse

ASSUME UidsAssumption == NoUid \notin Uids

Attribute == Values \cup {Missing, Blank}

(* p:before and p:after, and where they point.                             *)
Positions ==
  {[side |-> "none"]}
    \cup [side : {"before", "after"}, uid : Uids \cup {NoUid, Garbled}]

NoPosition == [side |-> "none"]

Renderings ==
  [uid : Uids \cup {NoUid}, attrs : [{"id", "ph", "ds"} -> Attribute], pos : Positions]

(* patch: there is a p: attribute at the device or one that says nothing   *)
(* about a position.                                                       *)
DeviceEntries ==
  [id : Devices, l : Attribute, patch : BOOLEAN, rs : Seq(Renderings)]

Layouts == Seq(DeviceEntries)

(* No device is there twice.                                               *)
OnceEach(layout) ==
  \A i, j \in DOMAIN layout : layout[i].id = layout[j].id => i = j

Notes ==
  [kind : {"UnknownUid", "BadPositionRef", "DeviceWithoutLayout"},
   device : Devices, ref : Uids \cup {NoUid, Garbled}]

Given(value) == value \notin {Missing, Blank}

-----------------------------------------------------------------------------
(* The first rendering or device an id refers to, 0 if there is none.      *)
RenderingAt(rs, uid) == SelectInSeq(rs, LAMBDA r : r.uid = uid)
DeviceAt(layout, id) == SelectInSeq(layout, LAMBDA d : d.id = id)

HasPatchAttr(d) == d.patch \/ \E i \in DOMAIN d.rs : d.rs[i].pos # NoPosition

IsReplaceMode(d) ==
  /\ Given(d.l)
  /\ ~HasPatchAttr(d)
  /\ \A i \in DOMAIN d.rs : Given(d.rs[i].attrs["id"]) /\ Given(d.rs[i].attrs["ph"])

Overlay(base, delta) ==
  [a \in DOMAIN base |-> IF delta[a] = Missing THEN base[a] ELSE delta[a]]

(* Mutant: before and after are both taken as before.                      *)
InsertionIndexBefore(rs, pos) ==
  IF pos.side = "none" THEN 0 ELSE RenderingAt(rs, pos.uid)

(* insertion_index: 0 for the Err cases, else the place in the sequence.   *)
InsertionIndex(rs, pos) ==
  IF pos.side = "none" THEN 0
  ELSE LET at == RenderingAt(rs, pos.uid)
       IN  IF at > 0 /\ pos.side = "after" THEN at + 1 ELSE at

(* Mutant: a rendering with a position is always a new one.                *)
MatchedAtUnlessPlaced(rs, r) ==
  IF r.uid = NoUid \/ r.pos # NoPosition THEN 0 ELSE RenderingAt(rs, r.uid)

(* Mutant: renderings without a uid are taken for each other.              *)
MatchedAtEmpty(rs, r) == RenderingAt(rs, r.uid)

(* The rendering of the base a delta rendering speaks of, 0 for none.      *)
MatchedAt(rs, r) == IF r.uid = NoUid THEN 0 ELSE RenderingAt(rs, r.uid)

(* A fold over the renderings of a delta: acc has the renderings of the    *)
(* device so far and the notes.                                            *)
PatchRendering(id, acc, r) ==
  LET at    == MatchedAt(acc.rs, r)
      index == InsertionIndex(acc.rs, r.pos)
      bare  == [r EXCEPT !.pos = NoPosition]
  IN  IF at > 0
        THEN [acc EXCEPT !.rs = ReplaceAt(acc.rs, at,
                 [acc.rs[at] EXCEPT !.attrs = Overlay(acc.rs[at].attrs, r.attrs)])]
      ELSE IF ~Given(r.attrs["id"])
        THEN [acc EXCEPT !.notes = Append(@, [kind |-> "UnknownUid", device |-> id, ref |-> r.uid])]
      ELSE IF index > 0
        THEN [acc EXCEPT !.rs = InsertAt(acc.rs, index, bare)]
      ELSE [rs    |-> Append(acc.rs, bare),
            notes |-> IF r.pos = NoPosition THEN acc.notes
                      ELSE Append(acc.notes,
                             [kind |-> "BadPositionRef", device |-> id, ref |-> r.pos.uid])]

PatchDevice(base, delta) ==
  LET Step(acc, r) == PatchRendering(delta.id, acc, r)
      patched == FoldLeft(Step, [rs |-> base.rs, notes |-> <<>>], delta.rs)
  IN  [device |-> [base EXCEPT !.l = IF delta.l = Missing THEN @ ELSE delta.l,
                               !.rs = patched.rs],
       notes  |-> patched.notes]

(* A fold over the devices of a delta.                                     *)
ApplyDevice(acc, delta) ==
  LET slot == DeviceAt(acc.layout, delta.id)
  IN  IF slot = 0
        THEN [layout |-> Append(acc.layout, delta),
              notes  |-> IF Given(delta.l) THEN acc.notes
                         ELSE Append(acc.notes, [kind |-> "DeviceWithoutLayout",
                                                 device |-> delta.id, ref |-> NoUid])]
      ELSE IF IsReplaceMode(delta)
        THEN [acc EXCEPT !.layout[slot] = delta]
      ELSE LET patched == PatchDevice(acc.layout[slot], delta)
           IN  [layout |-> [acc.layout EXCEPT ![slot] = patched.device],
                notes  |-> acc.notes \o patched.notes]

ApplyDelta(base, delta) ==
  FoldLeft(ApplyDevice, [layout |-> base, notes |-> <<>>], delta)
=============================================================================
