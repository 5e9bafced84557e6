---------------------------- MODULE Presentation ---------------------------
(***************************************************************************)
(* The layout of one page (treesmith-presentation/src/lib.rs, resolve):    *)
(* the walk over the page's template and its bases, the layers their       *)
(* standard values and the page itself contribute, and the merge, layer by *)
(* layer.  One language: items are read in it or not at all.               *)
(***************************************************************************)
EXTENDS TemplateChain, LayoutDelta, FiniteSets

CONSTANTS Page,        \* the item that is resolved
          Pages,       \* the contents of the items a run looks at
          MaxVersion,  \* the highest version of an item
          NoLayout,    \* no value, or a blank one
          Malformed,   \* a value that is no layout XML
          NoVersion,   \* the item does not have the version
          Latest       \* no version was asked for

Versions == 1..MaxVersion

LayoutValues == Layouts \cup {NoLayout, Malformed}

(* An item: __Renderings, and __Final Renderings of each version.          *)
Documents ==
  [shared : LayoutValues, final : [Versions -> LayoutValues \cup {NoVersion}]]

ASSUME PagesAssumption ==
  /\ MaxVersion \in Nat \ {0}
  /\ Page \notin Holders /\ None \notin Holders \cup {Page}
  /\ {NoLayout, Malformed} \cap Layouts = {}
  /\ \A documents \in Pages :
       /\ DOMAIN documents \subseteq Holders \cup {Page} /\ Page \in DOMAIN documents
       /\ \A item \in DOMAIN documents : documents[item] \in Documents

VARIABLES
  documents,     \* the items of the graph that matter here
  requested,     \* the version the caller asks for
  stage,         \* where resolve is
  layers,        \* the layers, the base-most first
  applied,       \* how many of them are merged
  merged,        \* the merge so far
  sharedMerged,  \* the merge of the shared layers so far
  notes          \* what the merge found odd

pageVars == <<documents, requested, stage, layers, applied, merged, sharedMerged, notes>>
vars     == <<walkVars, pageVars>>

Init ==
  /\ WalkInit
  /\ documents \in Pages
  /\ requested \in Versions \cup {Latest}
  /\ stage = "walk"
  /\ layers = <<>>
  /\ applied = 0
  /\ merged = NoLayout
  /\ sharedMerged = NoLayout
  /\ notes = <<>>

-----------------------------------------------------------------------------
ExistingVersions(item) ==
  {v \in Versions : item \in DOMAIN documents /\ documents[item].final[v] # NoVersion}

Newest(S) == CHOOSE v \in S : \A w \in S : w <= v

(* The version a caller gets who asks for r.                               *)
VersionOf(r) ==
  IF r # Latest THEN r
  ELSE IF ExistingVersions(Page) # {} THEN Newest(ExistingVersions(Page))
  ELSE 1

SharedOf(item) == IF item \in DOMAIN documents THEN documents[item].shared ELSE NoLayout

(* Standard values count at the newest version up to the one asked for,    *)
(* also if that version has no layout and an older one does.               *)
FinalAtMost(item, version) ==
  LET older == {v \in ExistingVersions(item) : v <= version}
  IN  IF older = {} THEN NoLayout ELSE documents[item].final[Newest(older)]

FinalExact(item, version) ==
  IF version \in ExistingVersions(item) THEN documents[item].final[version] ELSE NoLayout

Layer(kind, item, value) == [kind |-> kind, item |-> item, value |-> value]

AddLayer(stack, layer) ==
  IF layer.value = NoLayout THEN stack ELSE Append(stack, layer)

(* Mutant: the standard values of the derived template come first.         *)
LayersAtUnreversed(version) ==
  LET std == StdValuesChain
      n   == Len(std)
      all == [i \in 1..n |-> Layer("shared", std[i], SharedOf(std[i]))]
               \o <<Layer("shared", Page, SharedOf(Page))>>
               \o [i \in 1..n |-> Layer("final", std[i], FinalAtMost(std[i], version))]
               \o <<Layer("final", Page, FinalExact(Page, version))>>
  IN  FoldLeft(AddLayer, <<>>, all)

(* collect_layers: base-most standard values first; items the graph does   *)
(* not have and empty values are passed over.                              *)
LayersAt(version) ==
  LET std == Reverse(StdValuesChain)
      n   == Len(std)
      all == [i \in 1..n |-> Layer("shared", std[i], SharedOf(std[i]))]
               \o <<Layer("shared", Page, SharedOf(Page))>>
               \o [i \in 1..n |-> Layer("final", std[i], FinalAtMost(std[i], version))]
               \o <<Layer("final", Page, FinalExact(Page, version))>>
  IN  FoldLeft(AddLayer, <<>>, all)

Walk ==
  /\ stage = "walk"
  /\ WalkNext
  /\ UNCHANGED pageVars

CollectLayers ==
  /\ stage = "walk"
  /\ Walked
  /\ layers' = LayersAt(VersionOf(requested))
  /\ stage' = "merge"
  /\ UNCHANGED <<walkVars, documents, requested, applied, merged, sharedMerged, notes>>

(* Mutant: where a rendering comes from is told from all layers.           *)
ApplyLayerAllShared ==
  /\ stage = "merge"
  /\ applied < Len(layers)
  /\ LET layer == layers[applied + 1]
         next  == IF applied = 0 THEN [layout |-> layer.value, notes |-> <<>>]
                  ELSE ApplyDelta(merged, layer.value)
     IN  IF layer.value = Malformed
           THEN /\ stage' = "malformed"
                /\ UNCHANGED <<applied, merged, sharedMerged, notes>>
           ELSE /\ applied' = applied + 1
                /\ merged' = next.layout
                /\ notes' = notes \o next.notes
                /\ sharedMerged' = next.layout
                /\ UNCHANGED stage
  /\ UNCHANGED <<walkVars, documents, requested, layers>>

(* One turn of merge_layers.  The first layer is the base as it stands.    *)
ApplyLayer ==
  /\ stage = "merge"
  /\ applied < Len(layers)
  /\ LET layer == layers[applied + 1]
         next  == IF applied = 0 THEN [layout |-> layer.value, notes |-> <<>>]
                  ELSE ApplyDelta(merged, layer.value)
     IN  IF layer.value = Malformed
           THEN /\ stage' = "malformed"
                /\ UNCHANGED <<applied, merged, sharedMerged, notes>>
           ELSE /\ applied' = applied + 1
                /\ merged' = next.layout
                /\ notes' = notes \o next.notes
                /\ sharedMerged' = IF layer.kind = "shared" THEN next.layout ELSE sharedMerged
                /\ UNCHANGED stage
  /\ UNCHANGED <<walkVars, documents, requested, layers>>

Next == Walk \/ CollectLayers \/ ApplyLayer

Spec == Init /\ [][Next]_vars

Resolved == stage = "merge" /\ applied = Len(layers)

(* Where a rendering of the result is said to come from.                   *)
Source(device, r) ==
  LET at == IF sharedMerged = NoLayout THEN 0 ELSE DeviceAt(sharedMerged, device.id)
      rs == IF at = 0 THEN <<>> ELSE sharedMerged[at].rs
  IN  IF \E i \in DOMAIN rs : IF r.uid # NoUid THEN rs[i].uid = r.uid ELSE rs[i] = r
        THEN "shared" ELSE "final"

-----------------------------------------------------------------------------
TypeOK ==
  /\ WalkTypeOK
  /\ DOMAIN documents \subseteq Holders \cup {Page} /\ Page \in DOMAIN documents
  /\ \A item \in DOMAIN documents : documents[item] \in Documents
  /\ requested \in Versions \cup {Latest}
  /\ stage \in {"walk", "merge", "malformed"}
  /\ layers \in Seq([kind : {"shared", "final"}, item : Holders \cup {Page},
                     value : Layouts \cup {Malformed}])
  /\ applied \in 0..Len(layers)
  /\ {merged, sharedMerged} \subseteq Layouts \cup {NoLayout}
  /\ notes \in Seq(Notes)

(* Pages without a layout that names a device twice.                       *)
DevicesOnce ==
  \A page \in Pages : \A item \in DOMAIN page :
    \A value \in {page[item].shared} \cup {page[item].final[v] : v \in Versions} :
      value \in Layouts => OnceEach(value)

(* The layers by rank, some of them empty: for each kind the templates of  *)
(* the chain from the last to the first, then the page.                    *)
Ranks == 1..(2 * (Len(chain) + 1))

Ranked(rank) ==
  LET n    == Len(chain) + 1
      own  == rank % n = 0
      item == IF own THEN Page ELSE defs[chain[n - (rank % n)]].standard
  IN  IF item \notin DOMAIN documents THEN NoLayout
      ELSE IF rank <= n THEN documents[item].shared
      ELSE IF own THEN FinalExact(item, VersionOf(requested))
      ELSE FinalAtMost(item, VersionOf(requested))

(* What the layer of a rank says of a device.                              *)
Tells(values, rank, id) == values[rank] # NoLayout /\ DeviceAt(values[rank], id) > 0

Entry(values, rank, id) == values[rank][DeviceAt(values[rank], id)]

(* A layer gives a device whole if it is the first or replaces it.         *)
GivesWhole(values, rank, id) ==
  /\ Tells(values, rank, id)
  /\ \/ \A lower \in 1..(rank - 1) : ~Tells(values, lower, id)
     \/ IsReplaceMode(Entry(values, rank, id))

(* A mention is a rank and the place of a rendering in what is said there. *)
Earlier(m, n) == m[1] < n[1] \/ (m[1] = n[1] /\ m[2] < n[2])

(* The last that is said at the mentions, Missing if nothing is.           *)
LatestIs(value, said) ==
  IF value = Missing THEN \A m \in DOMAIN said : said[m] = Missing
  ELSE \E m \in DOMAIN said :
         said[m] = value /\ \A n \in DOMAIN said : Earlier(m, n) => said[n] = Missing

Ls(values, whole, id) ==
  [m \in {rank \in whole..Len(values) : Tells(values, rank, id)} \X {0} |->
     Entry(values, m[1], id).l]

Mentions(values, whole, id) ==
  [m \in UNION {{rank} \X DOMAIN Entry(values, rank, id).rs :
                   rank \in {k \in whole..Len(values) : Tells(values, k, id)}} |->
     LET r == Entry(values, m[1], id).rs[m[2]]
     IN  [r |-> r, stands |-> m[1] = whole \/ Given(r.attrs["id"])]]

(* The mentions of a uid from the first that can stand alone.              *)
Counting(mentions, uid) ==
  {m \in DOMAIN mentions :
     /\ mentions[m].r.uid = uid
     /\ \E s \in DOMAIN mentions :
          mentions[s].r.uid = uid /\ mentions[s].stands /\ ~Earlier(m, s)}

RenderingsFollow(mentions, rs) ==
  \A u \in Uids :
    /\ (\E r \in Range(rs) : r.uid = u) <=> Counting(mentions, u) # {}
    /\ \A r \in Range(rs) : r.uid = u =>
         \A a \in {"id", "ph", "ds"} :
           LatestIs(r.attrs[a], [m \in Counting(mentions, u) |-> mentions[m].r.attrs[a]])

UniqueUids(rs) ==
  \A i, j \in DOMAIN rs : rs[i].uid = rs[j].uid /\ rs[i].uid # NoUid => i = j

(* What a device must be, from what is said at the ranks alone: nothing    *)
(* counts but the last rank that gives it whole and those above it; of     *)
(* these a rendering is there from the first mention that can stand alone, *)
(* and each of its attributes is what the last one says of it.             *)
Nearest(values, d) ==
  \E whole \in DOMAIN values :
    /\ GivesWhole(values, whole, d.id)
    /\ \A higher \in (whole + 1)..Len(values) : ~GivesWhole(values, higher, d.id)
    /\ LatestIs(d.l, Ls(values, whole, d.id))
    /\ UniqueUids(Entry(values, whole, d.id).rs) =>
         RenderingsFollow(Mentions(values, whole, d.id), d.rs)

(* The nearest layer wins: a device of the result is what the items of the *)
(* chain and the page say, by their rank.  The chain, the order of the     *)
(* layers (collect_layers) and the merge (apply_delta) all have a part.    *)
NearestLayerWins ==
  Resolved /\ merged # NoLayout =>
    \A d \in Range(merged) : Nearest([rank \in Ranks |-> Ranked(rank)], d)

(* A rendering a page's editor refers to by uid is one rendering: layers   *)
(* never give a device a second one of the same uid, unless they give the  *)
(* device whole with two of them.                                          *)
UidsStayUnique ==
  merged # NoLayout =>
    \A d \in Range(merged) :
      \/ UniqueUids(d.rs)
      \/ \E i \in 1..applied : \E e \in Range(layers[i].value) :
           /\ e.id = d.id /\ ~UniqueUids(e.rs)
           /\ \/ IsReplaceMode(e)
              \/ \A j \in 1..(i - 1) : DeviceAt(layers[j].value, d.id) = 0

(* Report, don't crash (delta.rs:1-21): what a layer above the first says  *)
(* of a rendering is in the result, or there is a note of it, or a later   *)
(* layer replaced the device.                                              *)
NothingDroppedSilently ==
  Resolved =>
    \A i \in 2..Len(layers) : \A e \in Range(layers[i].value) :
      \/ \E j \in (i + 1)..Len(layers) : \E f \in Range(layers[j].value) :
           f.id = e.id /\ IsReplaceMode(f)
      \/ \A r \in Range(e.rs) :
           LET rs == merged[DeviceAt(merged, e.id)].rs
           IN  \/ \E k \in DOMAIN rs : rs[k].uid = r.uid /\ (r.uid = NoUid => rs[k].attrs = r.attrs)
               \/ [kind |-> "UnknownUid", device |-> e.id, ref |-> r.uid] \in Range(notes)

(* A rendering comes from where the answer says (lib.rs:107-109): a layer  *)
(* of that kind has it, whatever replaced or patched the device since.     *)
SourceIsALayer ==
  Resolved /\ merged # NoLayout =>
    \A d \in Range(merged) : \A r \in Range(d.rs) :
      \E layer \in Range(layers) : \E e \in Range(layer.value) :
        /\ layer.kind = Source(d, r) /\ e.id = d.id
        /\ \E q \in Range(e.rs) : q.uid = r.uid /\ (r.uid = NoUid => q.attrs = r.attrs)

(* A rendering that is the other one, patched perhaps.                     *)
Same(q, r) == q.uid = r.uid /\ (r.uid = NoUid => q = r)

(* f says where the renderings of one device are in another: in the same   *)
(* order; and what else is there has no uid of theirs.                     *)
Carries(f, old, new) ==
  /\ f \in [DOMAIN old -> DOMAIN new]
  /\ \A k, m \in DOMAIN old : k < m => f[k] < f[m]
  /\ \A k \in DOMAIN old : Same(new[f[k]], old[k])
  /\ \A j \in DOMAIN new :
       \/ j \in Range(f) \/ new[j].uid = NoUid
       \/ \A k \in DOMAIN old : old[k].uid # new[j].uid

(* A rendering of a delta that comes in as a new one, on some side of one  *)
(* that was there.                                                         *)
Places(old, rs, k) ==
  LET r == rs[k]
  IN  /\ r.uid # NoUid /\ RenderingAt(old, r.uid) = 0 /\ Given(r.attrs["id"])
      /\ RenderingAt(rs, r.uid) = k
      /\ r.pos # NoPosition /\ r.pos.uid # NoUid /\ RenderingAt(old, r.pos.uid) > 0

OnItsSide(new, r) ==
  LET here   == RenderingAt(new, r.uid)
      anchor == RenderingAt(new, r.pos.uid)
  IN  IF r.pos.side = "after" THEN here > anchor ELSE here < anchor

PatchedInOrder(old, new, rs) ==
  /\ \E f \in [DOMAIN old -> DOMAIN new] : Carries(f, old, new)
  /\ \A k \in DOMAIN rs : Places(old, rs, k) => OnItsSide(new, rs[k])

(* A layer that does not name a device leaves it alone; one that patches   *)
(* it leaves the order of its renderings alone, and a new rendering comes  *)
(* on the side of its anchor that it asks for.                             *)
LayerKeepsOrder ==
  [][applied' = applied + 1 /\ applied > 0 =>
       \A i \in DOMAIN merged :
         LET said == layers[applied + 1].value
             at   == DeviceAt(said, merged[i].id)
         IN  IF at = 0 THEN merged'[i] = merged[i]
             ELSE \/ IsReplaceMode(said[at])
                  \/ PatchedInOrder(merged[i].rs, merged'[i].rs, said[at].rs)
    ]_<<applied, merged>>
=============================================================================
