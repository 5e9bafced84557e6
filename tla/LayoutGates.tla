----------------------------- MODULE LayoutGates -----------------------------
(***************************************************************************)
(* The gates that look at the layout of a page (treesmith-gate: G1, G2 and *)
(* G4), which resolve it at every version it has, beside the one           *)
(* resolution that Presentation follows step by step.                      *)
(***************************************************************************)
EXTENDS Presentation

CONSTANTS Reading,    \* what each value of ds= is taken for
          ItemIds,    \* ids of items
          ItemPaths,  \* paths of items
          BelowPage,  \* paths of items below the page, from there
          Leaf,       \* the last segment of each value of ph=, or Blank
          Exposed     \* placeholders that some view has

Forms == {"guid", "local", "path", "scheme", "text"}

ASSUME ReadingAssumption ==
  /\ DOMAIN Reading = Values /\ \A v \in Values : Reading[v].as \in Forms
  /\ DOMAIN Leaf = Values

(* resolve_datasource: none is the page itself; local: starts at the page; *)
(* of another scheme there is nothing to say.                              *)
ResolveDatasource(ds) ==
  LET Looked(to, items) == IF to \in items THEN "item" ELSE "missing"
  IN  IF ~Given(ds) THEN "context item"
      ELSE LET r == Reading[ds]
           IN  CASE r.as = "guid"   -> Looked(r.to, ItemIds)
                 [] r.as = "local"  -> Looked(r.to, BelowPage)
                 [] r.as = "path"   -> Looked(r.to, ItemPaths)
                 [] r.as = "scheme" -> "dynamic"
                 [] r.as = "text"   -> "missing"

PlaceholderLeaf(ph) == IF Given(ph) THEN Leaf[ph] ELSE Blank

-----------------------------------------------------------------------------
(* merge_layers at once: the layout with its notes, or the first layer     *)
(* that does not parse.                                                    *)
MergeLayer(acc, layer) ==
  IF acc.layout = NoLayout THEN [layout |-> layer.value, notes |-> <<>>]
  ELSE LET next == ApplyDelta(acc.layout, layer.value)
       IN  [layout |-> next.layout, notes |-> acc.notes \o next.notes]

MergeLayers(stack) == FoldLeft(MergeLayer, [layout |-> NoLayout, notes |-> <<>>], stack)

FirstMalformed(stack) == SelectInSeq(stack, LAMBDA layer : layer.value = Malformed)

(* Mutant: the gates look at the page as its visitors see it.              *)
ResolutionTargetsNewest == {Latest}

(* resolution_targets: every version of the page, or the default.          *)
ResolutionTargets ==
  IF ExistingVersions(Page) = {} THEN {Latest} ELSE ExistingVersions(Page)

DevicesOf(layout) == IF layout = NoLayout THEN {} ELSE Range(layout)

(* resolve_rendering, of what the gates look at.                           *)
ResolveRendering(r) ==
  [uid        |-> r.uid,
   id         |-> r.attrs["id"],
   leaf       |-> PlaceholderLeaf(r.attrs["ph"]),
   datasource |-> ResolveDatasource(r.attrs["ds"])]

(* resolve_device: with the notes of the merge that are about it.          *)
ResolveDevice(device, all) ==
  [id         |-> device.id,
   renderings |-> {ResolveRendering(r) : r \in Range(device.rs)},
   notes      |-> {n \in Range(all) : n.device = device.id}]

ResolvedDevices(result) == {ResolveDevice(d, result.notes) : d \in DevicesOf(result.layout)}

Finding(code, device, about) == [code |-> code, at |-> device.id, about |-> about]

(* g1_datasources                                                          *)
DatasourceFindings(device) ==
  {Finding(r.datasource, device, r) :
     r \in {q \in device.renderings : q.datasource \in {"missing", "dynamic"}}}

(* g2_layout_xml: the notes of a device count if the result has it.        *)
NoteFindings(device) == {Finding(n.kind, device, n.ref) : n \in device.notes}

(* g4_placeholders                                                         *)
PlaceholderFindings(device) ==
  {Finding("not exposed", device, r) :
     r \in {q \in device.renderings : q.leaf \notin Exposed \cup {Blank}}}

(* for_each_resolution with the three gates, on this page.                 *)
FindingsAt(target) ==
  LET stack  == LayersAt(VersionOf(target))
      bad    == FirstMalformed(stack)
      result == MergeLayers(stack)
  IN  IF bad > 0
        THEN {[code |-> "malformed", at |-> stack[bad].item, about |-> stack[bad].kind]}
      ELSE UNION {DatasourceFindings(d) \cup NoteFindings(d) \cup PlaceholderFindings(d) :
                    d \in ResolvedDevices(result)}

Report == UNION {FindingsAt(target) : target \in ResolutionTargets}

(* A datasource with a scheme is worth a mention, no more.                 *)
Complaints == {finding \in Report : finding.code # "dynamic"}

-----------------------------------------------------------------------------
(* A layer above the i-th, up to the j-th, replaces the device.            *)
ReplacedBy(i, j, id) ==
  \E h \in (i + 1)..j : \E f \in Range(layers[h].value) : f.id = id /\ IsReplaceMode(f)

(* Rendering k of what layer i says of a device asks for a place and is    *)
(* new there: a layer below has the device, and neither what is said of it *)
(* below and not replaced since nor what stands before k has the uid.      *)
ComesIn(i, e, k) ==
  LET r == e.rs[k]
  IN  /\ r.pos # NoPosition
      /\ \E j \in 1..(i - 1) : \E f \in Range(layers[j].value) : f.id = e.id
      /\ \/ r.uid = NoUid
         \/ /\ \A m \in 1..(k - 1) : e.rs[m].uid # r.uid
            /\ \A j \in 1..(i - 1) : \A f \in Range(layers[j].value) :
                 f.id = e.id /\ (\E q \in Range(f.rs) : q.uid = r.uid)
                   => ReplacedBy(j, i - 1, e.id)

(* The renderings have it on the side of its anchor that it asks for.      *)
StandsAsAsked(rs, r) ==
  \E here, anchor \in DOMAIN rs :
    /\ rs[here].uid = r.uid /\ (r.uid = NoUid => rs[here].attrs = r.attrs)
    /\ rs[anchor].uid = r.pos.uid
    /\ IF r.pos.side = "after" THEN anchor < here ELSE here < anchor

(* A page the gates have nothing against is whole at every version it has, *)
(* whoever asks for it (resolution_targets: "to cover every layout value   *)
(* in its stack", gate/lib.rs:213): its layers parse, every rendering of a *)
(* layer is on the page unless a higher layer replaced the device, each    *)
(* that came in as a new one with a position is on that side of the        *)
(* rendering it names, all with a datasource that is there and in a        *)
(* placeholder that some view has.  Of the position of a rendering that    *)
(* patches another, or of a device that comes in whole, a clean verdict    *)
(* says nothing (delta.rs:95, 145-148; see PositionsAreLookedAt).          *)
CleanVerdictCoversEveryVersion ==
  /\ Resolved \/ stage = "malformed"
  /\ requested \in ExistingVersions(Page) \cup {Latest}
  /\ Complaints = {}
  => /\ stage # "malformed"
     /\ \A i \in 2..Len(layers) : \A e \in Range(layers[i].value) :
          LET rs == merged[DeviceAt(merged, e.id)].rs
          IN  \/ ReplacedBy(i, Len(layers), e.id)
              \/ /\ \A r \in Range(e.rs) : \E q \in Range(rs) :
                      q.uid = r.uid /\ (r.uid = NoUid => q.attrs = r.attrs)
                 /\ \A k \in DOMAIN e.rs : ComesIn(i, e, k) => StandsAsAsked(rs, e.rs[k])
     /\ \A d \in DevicesOf(merged) : \A r \in Range(d.rs) :
          /\ ResolveDatasource(r.attrs["ds"]) # "missing"
          /\ PlaceholderLeaf(r.attrs["ph"]) \in Exposed \cup {Blank}

-----------------------------------------------------------------------------
(* What docs/gates.md:112 says of G2: it fires where "a delta's p:before / *)
(* p:after selector cannot be resolved".  So on a page without complaints  *)
(* a position of a layer above the first names, at the least, a rendering  *)
(* that some layer has in that device.                                     *)
PositionsAreLookedAt ==
  Resolved /\ requested \in ExistingVersions(Page) \cup {Latest} /\ Complaints = {} =>
    \A i \in 2..Len(layers) : \A e \in Range(layers[i].value) : \A r \in Range(e.rs) :
      \/ r.pos = NoPosition
      \/ \E layer \in Range(layers) : \E f \in Range(layer.value) :
           f.id = e.id /\ \E q \in Range(f.rs) : q.uid = r.pos.uid
=============================================================================
