# treesmith: models, checks and proofs

treesmith keeps a Sitecore content tree, serialized as one YAML file per item, in memory as
a graph, answers questions about it and writes changes back to the files. It runs as a
command that opens the tree, does one operation and ends, or as an MCP server that keeps the
tree warm between calls. This directory models the parts where the graph in memory and the
working tree on the disk can come apart: the server with its watcher, the incremental refresh
against the full scan, and the structural writes that touch many files; the sessions that clients
have with the server; and the computations with the most rules in them: from the base templates of a
page to its merged layout, from a request to write a field to the edited document, from a document to
the lines of a file and back, and what the gates make of them.

Paths below are relative to `src/crates/` unless they start with `docs/`.

## Inventory

| Component | State it keeps | Operations | What makes it correct | Modelled in |
|---|---|---|---|---|
| MCP server (`treesmith-mcp/src/lib.rs`) | the warm `Workspace`, the dirty set, whether it rebuilds per call | `serve`, `refresh_before_call`, `start_watcher`, the watcher's thread | answers reflect the tree; no report is lost; every call is answered | `WarmTree`, `McpServer` |
| MCP protocol (`treesmith-mcp/src/protocol.rs`, `tools.rs`) | none between messages | `route`, `dispatch`, `run` | every request is answered once and in order, a notification never | `McpServer` |
| Item graph (`treesmith-graph/src/lib.rs`) | `files`, `repo_set`, and what `assemble` derives: items, indexes, faults | `build`, `rebuild`, `refresh_paths` | a refresh of what changed equals a scan; a fault is never skipped | `TreeGraph`, `GraphRefresh` |
| Workspace (`treesmith-kernel/src/lib.rs`) | graph, template index, gate configuration | `open`, `refresh_paths`, `rebuild`, reads, `set_field`, `forge`, `move_item` | a write loses nothing; a crash leaves a tree that is whole or visibly faulted | `WarmTree`, `MoveTree` |
| Write path (`treesmith-kernel/src/write.rs`) | none | field resolution, slot, validation, self-check | a value lands in the slot its definition says and nowhere else | `FieldWrite` |
| Template index (`treesmith-template`) | definitions, rebuilt at every refresh | `build`, `resolve`, `std_values_chain` | terminates on cycles, finds the whole chain, keep-first fields | `TemplateChain` |
| Presentation (`treesmith-presentation`) | none between calls | `resolve`: layers, delta merge, provenance | the merge is what the layers say, positions are respected, oddities are noted | `LayoutDelta`, `Presentation`, `LayoutGates` |
| Gates (`treesmith-gate`) | none | `run_all`, `run_some`, the gates G1 to G7 | a disabled gate is skipped and listed, a request by name overrides the configuration, findings are sorted and without duplicates; what the write path accepts conforms; every version of a page is looked at | `Conformance` (G5, G6, G7), `LayoutGates` (G1, G2, G4) |
| Codec (`treesmith-format`) | none | parse, emit, the quoting of new values, item editing | `emit(parse(b)) = b`; an edit touches one slot; what is written is read back | `YamlCodec`, `ItemFile`, `ItemDocument` |
| CLI, query language, census, code map, error shapes | none | text in, text out | - | not modelled |

Interactions. The request loop owns the workspace; the watcher's thread shares only the dirty
set with it. `refresh_before_call` drains that set before every `tools/call`. A write operation
computes new documents from the graph in memory, writes the files with `std::fs::write` and then
refreshes the graph at the paths it wrote, which the watcher reports as well. Editors, git and
other treesmith processes change the same files without any lock.

What is hard: four parties interleave on the files; a scan, a refresh and a write are each many
system calls; a write truncates before it fills; a move is a list of writes and removals that can
stop anywhere; events can be lost; the server can be killed and launched again; names can be
shared by siblings, reserved for directories no scan enters, or pass from a directory to a file.
`PROJECT.json` lists the hazards at their lines with the properties that watch them.

## Modules

**`TreeGraph`** is what the graph makes of a set of files: `ParseFile` (a file whose head does not
look like an item leaves no trace), and `assemble` as the operators `Kept`, `ItemIds`, `FileOf`
and `Faults`: in path order the first file that declares an id is the item, later ones are faults.

**`WarmTree`** is the server. `disk` is the working tree, `files`/`repo` the graph, `chan` the
events between `notify` and the watcher's thread, `dirty` the shared set, `config` the gate
configuration, `pc`/`then` the place of the request loop. Each system call is a step: `WalkOne`
sees a path, `ParseOne` reads it; `RefreshOne` is the `metadata` of `refresh_one` and the read
follows as a `ParseOne`; `Truncate` and `Fill` are the halves of `std::fs::write`, each of which
can fail. `Deliver` and `DropError` are the watcher's thread, `Edit` is anybody else, `Kill` ends
the server at any point and `Open` launches it again. `missed` and `excused` are history: the
paths changed with no report on its way, and those a call cannot know of. A move is not part of
this module (it is `MoveTree`); the calls here read, refuse, set a field or forge.

**`McpServer`** puts a client in front of `WarmTree`. `stdin` and `stdout` are the pipes, with room for
`PipeSize` lines; `current` is the line the loop is at and `reply` what it is to be answered with.
`Handle` is a line that needs no workspace, `StartCall` a `tools/call` with its refresh, `Work` every step of
`WarmTree` up to the tool and from it to the end of a write, with `Conclude` for the reply once the
server is idle again, and `WriteMessage` waits for room. `Route` is `protocol::route`; `Outcomes` says
which ways a tool can go are errors of the tool. `End` is the end of file, or a line that is not UTF-8,
which `read_line` answers with an error that ends the server. `owed` is the client's book-keeping: the requests it has
no answer to; `acked` is the last write that was done.

**`GraphRefresh`** compares the refresh with the scan over a tree with directories, a link and an
excluded name. Editors create, overwrite, delete and rename files and directories; the reports
wait in `dirty` and are refreshed in any order, between further edits. A refresh of one path is
one step here; `WarmTree` splits it.

**`MoveTree`** is `forge` and `move_item`. A path is a sequence of names, a file is where
`child_file_path` puts it. `MoveItem` is the whole planning half: the guards in the order of the
code, `Subtree` and `NewFiles` for `plan_subtree`, `Moved` and `Follow` for the documents.
The other half is one action per file operation: `StartWrite`, `FinishWrite`, `RemoveOld`,
`RefreshPaths`, with `Fail` and `Kill` possible at each. The code writes in preorder and then by
path; the model allows every order that has parents before children and the subtree before the
others, which includes that one. Creating and removing empty directories is left out.

**`TemplateChain`** is `resolve` and `walk_chain` of the template index. The recursion is a loop over
`pending`, the base ids that the open loops of the recursion have still to look at, innermost
first; a step enters a template, notes an unknown base or passes over an id it has met.
`EffectiveFields` and `StdValuesChain` are computed from the chain. `Lineage`, `ClosedUnderBases`
and the properties speak of the base lists alone, so that the walk is compared with what it
should find. A base normally comes after what derives from it; where lists put it first it
comes first, which `BaseFirstOnlyByListing` spells out.

**`ItemDocument`** is a serialized item as keyed lists in the order of the file: fields by id,
languages by code, versions by number, which are numbers here because only equality and order of keys
matter. `At` is the first place of a key, which every lookup in `item.rs` uses; `InsertKeyed` is the
insertion before the first greater key; `SetField` is `ParsedItem::set_field` with the language and
version it creates, `RemoveField` is `remove_field` with its pruning (no command reaches it yet; it is
part of the library), and `DefinitionValue` is how the template index reads the items that define
fields, which has an order of its own. Whether a list is absent or empty in a block is not told apart;
the order of the entries within a field, and entries the codec does not know, are left out.

**`YamlCodec`** is `yaml.rs`: a file as lines, a line as its leading spaces, a dash and one of the few
forms the parser tells apart. `ParseMap`, `ParseEntry`, `ParseList` and `BlockLines` are the functions
of the parser with their faults in the order of the code, `EmitEntry` and `Emit` the emitter,
`ScalarFor` the style of a new value. It uses RECURSIVE operators and so stays without theorems.
**`ItemFile`** is one file between an editor, who types it line by line, and the server, which reads
it, puts a value or a field anywhere, and writes if `self_check` and the read-back pass (`Save`). A new field has
its name as a plain `Hint`; a `Type` is written the same way from one of a few words, and is left out, as are the texts of language codes.

**`FieldWrite`** is `set_field` of the workspace on one item: `Meant` (`resolve_field`), `SlotFits`
and `SlotFor` (`slot_for`), `Accepted` and `Prepared` (`prepare_value`, `validate_value`),
`BlobBlocks`, and one action per refusal and for the write. A value is known by what the check of its
type sees. The self-check and the read-back never fail on the documents of this model; they can in
`ItemFile`.
**`FieldStore`** is what it promises, a value for each field in each slot of which a
request changes at most one; `WritesOneValue` says that `FieldWrite` implements it.
**`Conformance`** has the gates that look at the same item: what G6 finds on each serialized field,
with its own idea of what a field is, where it belongs and which values it takes; what G5 finds where
a value points; which languages G7 misses; and `Selected`, which gates run when none or some are
named.

**`LayoutDelta`** is `apply_delta` as folds over devices and renderings: replace or patch mode,
matching by uid, insertion at a position, notes. **`Presentation`** extends both: `Walk` steps,
`CollectLayers`, and one `ApplyLayer` per turn of `merge_layers`. The second merge the code makes, of
the shared layers alone, is `sharedMerged`, the merge as it stood after the last shared layer; that is
the same because every shared layer lies below every final one.
`NearestLayerWins` states what the result must be without collecting or merging anything: it
ranks the standard values of the chain and the page, passes over all below the last rank that gives a
device whole, and reads off the others which renderings there are and what was last said of each attribute. **`LayoutGates`**
resolves the same page at every version at once, as the gates do: `ResolveDevice` and `ResolveRendering` with their
datasources and placeholders, and what G1, G2 and G4 find there. The page is none of the items that hold standard values
(`PagesAssumption`); the gates resolve those as pages of their own too (`gate/src/lib.rs:213-251`), with themselves in their own stack, which is left out.

`MC*.tla` give the constants small values; every `.cfg` names its run.

## Runs

| Run | Shows |
|---|---|
| `warm` | With two editor steps at any point, or one and a kill, a watcher that may lose events or fail to start, and failing writes: the graph is wrong only about paths that are tracked or were never reported (`StaleIsTracked`); an answer is wrong only about paths changed since the call began or unreported by then (`AnswerIsCurrent`); a rebuild per call loads the current configuration (`RebuildReloadsConfig`); a write replaces what it was computed from (`WritesReplaceWhatWasRead`). |
| `warm_startup` | Violated: an edit between the opening of the workspace and the start of the watcher is never seen, against `docs/mcp.md:108-113` (`ResultsReflectTheTree`). |
| `session` | Requests, calls that fail, a line that is no JSON or no UTF-8 and an unknown notification, over full pipes, with an editor, a kill and failing writes: what the client is owed is, in its order, what is answered, under way or still to be read (`AnswersMatchRequests`), and every request is answered or the session ends (`RequestsAnswered`); a call after a write finds what was written, whatever the watcher says (`ReadsOwnWrites`); what the graph is wrong about is repaired as long as the client calls, unless the report was lost (`StaleIsRepaired`). |
| `move` | Two requests, two failures or kills: at every moment whoever opens the tree finds it as it was, as it is to be, or faulted (`FaultedOrWhole`); no id disappears (`NoItemLost`); paths, parents and references agree (`PathsFollowParents`, `ReferencesFollow`); between requests the graph is what a scan gives except at paths of a failed request (`GraphMirrorsDisk`). |
| `move_loss` | Violated: two siblings of one name are moved into one file, one is lost (`NoItemLost`). Started from `MCInitialTrees`, the same model loses the descendants of an item moved to a name like `bin`, which no scan enters. |
| `refresh` | Three changes, refreshed in any order: where nothing is pending the graph is what a scan would make it; the exceptions are written into `RefreshKeepsUp`. |
| `refresh_ghost` | Violated: a directory renamed away whose name a file takes before the drain leaves its items in the graph. |
| `presentation` | Base lists with repetitions, cycles and unknown ids: the walk progresses (`WalkProgresses`), finds exactly the closure (`ChainIsClosure`) in an order the lists ask for (`BaseFirstOnlyByListing`), and the first definition of a field is the one that counts (`FirstDefinitionWins`). Layers merged along it: the nearest decides (`NearestLayerWins`), uids stay unique (`UidsStayUnique`), devices a layer does not name stay as they are, patches leave the order alone and insert on the asked side (`LayerKeepsOrder`), nothing is dropped without a note (`NothingDroppedSilently`), and each rendering is said to come from a kind of layer that has it (`SourceIsALayer`). A page the gates have nothing against is whole at every version it has and at the latest: its layers parse, every rendering is there, each that came in as a new one stands on the side it asks for, datasources and placeholders exist (`CleanVerdictCoversEveryVersion`). |
| `presentation_positions` | Violated: `p:before` or `p:after` of a rendering that patches one of its uid is not looked at, so that a selector that names nothing passes the gates, against `docs/gates.md:112` (`PositionsAreLookedAt`). |
| `set_field` | Two requests on documents that are unsorted, hold values outside their section and have languages, versions and fields twice: a request changes one value (`WritesOneValue`) as one hunk of a diff (`OneHunk`); a sorted document stays sorted (`SortedStaysSorted`); without a version the highest is written and history is left alone (`DefaultWritesLatest`); the first place of a field is not written when it is a blob (`FirstBlobKept`); a repeated request changes nothing (`RepeatChangesNothing`) and removal takes a write back (`RemovalUndoesWrite`); where the item defines a template, the index reads what was written, and what else it reads stays (`DefinitionsFollowWrites`); the gates find nothing new after a write but for where its value points, and nothing of conformance where it wrote unless the field is there twice (`WritesConform`), which also says that the section of the template decides the slot. A system field is of one type to the write and may be of another, from a template or the file, to G5: the unsorted document has one whose `Type` says so, and such a value is reported as what it is not. |
| `set_field_blob` | Violated: a blob in a place that is not the first of its field is overwritten. |
| `item_file` | Every file of a few lines an editor can type: what parses is emitted byte for byte (`EmitInvertsParse`), a fault names the first line that is wrong, which is the line that shows it or the first of the blank lines before that (`FaultIsFirst`); a value or field put anywhere is read back as the document that was meant (`WritesReadBack`), and refused only where it would come behind a block that ends in blank lines (`RefusedOnlyBehindBlanks`). |

Bounds. `warm` has two item files, `treesmith.toml` and two ids: enough for two files to declare
one id, for the kept file to go and the other to take over, and for a forge into a free name. Two
edits are enough for a change before and one after every drain, on one path or on two; the
server's writes are not bounded. In `warm` a kill takes the place of one of the edits
(`OneKillForAnEdit`, the only state constraint). `session` has one item file and the configuration, since its
liveness is about one path at a time, two requests that can be on their way and pipes of one line, so
that the loop waits for the client; the lines cover each way of `Route`. `item_file` begins with eleven openings
(nested lists and maps, a block, a key alone, other line ends, no end, no marker) and types up to two of some fifty
lines behind them, at the four indents two levels of nesting have and at an odd one; then one of eighteen values goes to every place there is, in a field with a name that has a key and a bar in it. `move` has a subtree of two, an item outside it,
references in both directions, a spare id for `forge` and four names, so that moves, renames,
no-op moves and name collisions all occur; two requests let the second plan from what a failed
first one left. `refresh` has paths of two names; depth three and four edits were checked while
developing and added nothing. `presentation` starts from two families of states: every base
graph of three templates and an unknown id with lists of up to two bases over one page, which has all
cycles, diamonds and repetitions of that size; and some eight thousand sets of layers over a diamond
with a cycle and a chain with an unknown base, with up to two renderings in the rich
layer, positions that resolve, do not or do not parse, versions that are missing or have no layout,
malformed values, and datasources and placeholders that exist, do not, or are computed. A layout names a device once in these. `set_field` has five
documents, three templates (one known and sorted, one that defines a system field itself and
has two fields of one name, and none), five fields of every section, two languages and three versions; two
requests let the second meet what the first created, or repeat it. A template that defines
a system field under another name is left out: its id and its well-known name then mean two sections. Every bound is a constant (`MaxEdits`, `MaxKills`, `MaxRequests`,
`MaxFailures`, `Depth`) used in a guard. Deadlock is not checked where the bounds end a run.

Each property has a mutant of the code it is about, a definition `...` preceded by a comment that
starts with "Mutant"; the property fails when the mutant takes the place of the original.

Each module has one type invariant. Those of `WarmTree`, `GraphRefresh` and `FieldWrite` are run and
proved, those of the walk, of `MoveTree` and of `Presentation` are proved; `SessionTypeOK` describes the
variables and is no run's property.

Fairness. `McpServer`'s liveness assumes weak fairness of `Loop`: the request loop is sequential code
that waits for nothing but a line and room in the pipe; of the watcher's thread for every event: it
is a loop over a channel; and of `Receive`: the client takes its answers, since with a full pipe that
nobody reads the server rightly waits for ever. Nothing is assumed of editors, of what the client sends
(`StaleIsRepaired` says "as long as it calls") or of whoever launches the server. `WarmTree` has the same
fairness of its own (`FairSpec`), of which only the safety part is run.

Conditions in the `move` properties: `risked` names documents whose only file was truncated in
place and not filled again, by a kill or an error: these are lost in the code, and the properties
say so instead of hiding it. `blind` marks a request planned from a graph that a failed request
left without a refresh; then paths can disagree with parents until the watcher reports it, and `FaultedOrWhole`
is not claimed of what follows: let `forge` report an error after its file is complete, so that the graph lacks the
new item `X`; move its parent, which leaves `X` where it was; open the tree again, forge `Z` below `X`, move the parent
once more (the files of `X` and `Z` follow, their paths do not) and move `X` to the name it has: both files are now
rewritten where they are, and between the two the tree is neither the one before nor the one after, without a fault.
`Placed` says how the code lays out a tree: path and file of an item continue those of its parent, no two items have
one path, and nothing lies above a root. The
violated `move_loss` has the inputs the passing run excludes: siblings of one name and excluded names.
The passing run also leaves out partial trees below the moved item. An item there whose parent is not
serialized is not in `plan_subtree` and keeps its path, while `rewrite_path_references` goes by
path prefix and makes references to it name nothing, although `docs/cli.md:324` has every descendant's path
rewritten; `ReferencesFollow` does not hold on them.

What the passing run of `WarmTree` makes allowances for, the code does. `StaleIsTracked`, `AnswerIsCurrent` and
`StaleIsRepaired` except paths that were missed: those changed before the watcher was there, and those of an event that was an
error, which the watcher's thread drops. `RebuildReloadsConfig` is about a server without a watcher: with one, a changed
`treesmith.toml` is reported, drained and never loaded. `ResultsReflectTheTree` allows none of these, and is violated by each.
`WritesReplaceWhatWasRead` bounds what a write can destroy to changes whose event is on its way or lost; within that
bound `set_field` takes back what an editor changed in the file since it was read, although "the only lines that change in a file are
the lines the mutation logically touched" (`docs/architecture.md:99-101`), and `forge` takes the place of a file created since
it looked, although an existing file "is a validation error" (`docs/cli.md:288-289`). No run shows these two.

A new field's name goes into `Hint` as it is (`item.rs:322`). One that begins with a bar or stands in quotes is read back as
something else, which neither `self_check` nor the look at the value sees, although "treesmith never emits a file it cannot re-parse
to an identical graph" (`docs/architecture.md:94-95`). `WritesReadBack` holds for the names in `Hints`, and `item_file` gives it one
that is read back as it is written.

A clean verdict says of positions only what the code looks at. A rendering that patches one of its uid keeps the place that one has
(`delta.rs:145-148`), and a device that the layers below do not have, or that a layer gives whole, comes in with its
renderings in their own order (`delta.rs:95`); a position they carry is ignored without a note. `ComesIn` is what is left: a
rendering new to a device that is patched. `CleanVerdictCoversEveryVersion` is about these, and `presentation_positions` about the others.
It is also about the versions that the gates resolve, those the page has and the latest; `resolve` of the kernel takes any
number (`kernel/src/lib.rs:157-171`).

## Proofs

`WarmTreeProofs` proves for every set of files, ids and contents, every initial tree and every
bound: `TypeCorrect`, `NothingForgotten` (`StaleIsTracked`), `AnswersAreCurrent`
(`AnswerIsCurrent`), `WritesAreFaithful` (`WritesReplaceWhatWasRead`) and `ConfigIsReloaded`
(`RebuildReloadsConfig`). `StaleIsTracked` is not
inductive: a path leaves `todo` when it is stat'ed and `cand` when it is read, and only the place
of the loop and what the stat found say that this is sound. `IInv` adds `Phases` (which sets may
be nonempty where, no events without a watcher), `Candidates` (what is to be read is in the
census and was there, or its removal is reported), `WriteTarget`, `WriteBase` and `Excuses`. One
lemma per action shows that it keeps `IInv`. `RebuildReloadsConfig` needs one fact more, in `ConfigInv`: without a
watcher no scan leads straight to a call. The assumptions are those on the constants:
`FilesAssumption`, `IdsAssumption`, `ContentsAssumption`, `TomlAssumption`, `InputsAssumption`,
`BoundsAssumption`.

`McpServerProofs` proves of every client and all sizes of the pipes: `WritesAreReadBack` (`ReadsOwnWrites`) and
`SessionAnswersAreCurrent` (`AnswerIsCurrent`, in a session). Every step of a session is one of `WarmTree` or
leaves the warm tree alone, except its end (`EndStep`), so `IInv` holds; `AckInv` adds that the file of the last write
holds its bytes and that the graph has them or the file is still to be read. `ReadsOwnWrites` alone says nothing
of the walk and the refresh between a write and the next call. `SessionAssumption` joins the assumptions.
`BooksAgree` (`AnswersMatchRequests`) follows the requests through the pipes. The line at hand and the lines in the pipe
are the `Pipeline`, and what is owed is answered in its order: it grows at its end, shrinks at its head, and loses in
the middle only what is no request (`Matches`). Two facts join the property in `BooksInv`: an answer is known only of the line at hand,
and one without an id is that of a line that did not parse (`HandInv`). The hypothesis `InitializedIsNoRequest` is what clients
do, and needed: the route answers nothing to `notifications/initialized`, whatever its id.

`GraphRefreshProofs` proves for every set of names and contents, every depth and every number of
changes: `TypeCorrect` and `RefreshIsEnough` (`RefreshKeepsUp`). Its `IInv` adds `Tracked`: the
graph holds nothing at or below an excluded name. Without it `RefreshKeepsUp` is not inductive, since
`refresh_one` ignores such a path, which is right only if there is nothing to forget.
`ChangeKeeps` carries the changes: one is harmless when every path it touches lies at or below a
reported one; what is left for each change is that it leaves a tree, which for `Rename` rests on
the lemmas about `Origin`. `RefreshStep` has one case per way a refresh can go (ignored, gone,
directory, file or link). The assumptions are `NamesAssumption`, `NodesAssumption`,
`TreesAssumption` and `BoundsAssumption`.

`TemplateChainProofs` proves of every template index: `WalkTypeCorrect`, `NeverTwice`
(no template enters the chain twice, `NoRepetition`), `ChainIsComplete` (`ChainIsClosure`) and `WalkAlwaysProgresses` (`WalkProgresses`).
Completeness is a statement about the end of the walk, so `IInv` adds what holds on the way:
`Underway` (every base of a template in the chain was met or is pending, and nothing in the chain
or known and pending lies outside a closed set that has the template) and `Named` (what is pending or
unresolved is named by a template of the chain). `ListsDecideOrder` (`BaseFirstOnlyByListing`) has an invariant
of its own, `OrderInv`: a pending template is listed, by what asked for it, after everything met before it or is a base of it, so
that of two templates that wait the lists have decided the order already. `FirstDefinitionCounts` (`FirstDefinitionWins`)
is about the folds that list the fields of the chain and keep the first of each: `ListingIs` says what is in the list
and who is first, `KeptIs` that `KeepFirst` neither loses nor repeats one. `FoldProofs` has what such proofs rest on:
the recursive function behind a fold is a `CHOOSE`, and `SetRecursion` and `StepRecursion` give the value that shows that
there is one; induction along a sequence is `BoundedInduction`, over a set of numbers instead of a predicate. The only assumption is `IndexesAssumption`, the
shape of an index. There are finitely many ids in an index, so that `WalkProgresses` bounds the number of
steps; that last sentence is not formalized.

`PresentationProofs` proves of every page, every set of layouts and every template index that resolving a page implements
`WalkSpec` (`ResolutionWalks`), which carries the results about the walk over (`ChainOfPage`); `PageTypes` (`TypeOK`);
`UidsAreUnique` (`UidsStayUnique`); and, under the hypothesis `DevicesOnce`, `DropsAreNoted` (`NothingDroppedSilently`),
`SourcesAreLayers` (`SourceIsALayer`), `OrderIsPatched` (`LayerKeepsOrder`), `NearestWins` (`NearestLayerWins`) and `VerdictsCover` (`CleanVerdictCoversEveryVersion` of `LayoutGates`). `DevicesOnce` says
that no layout names a device twice, and all five need it:
the code looks for the first device of an id, so that a second one in the first layer is found by nobody. It stays
in the answer and is reported as final wherever its renderings come from, and what it says cannot be followed. No
document or test of the code has such a layout, and `MCPresentation` asks TLC that its pages are of this kind (`PagesNameDevicesOnce`).
The argument goes from the inside out, one lemma per loop of the code: `PatchIs` and `PatchKeeps` say what one rendering of a
delta does to a device, `DevicePatchedIs` what the fold over its renderings does, `DeviceIs` what one device of
a delta does to a layout (appended, replaced or patched), `DeltaIs` what the fold over the devices does, and `LayersAre` what
`collect_layers` collects (shared layers first). `LayerAdvances` puts them together into what a step of the merge may do, and
each invariant is shown of such a step. None of the properties is inductive. `MergeInv` holds the types, the
invariant of the walk, and that the layers left are in order and those applied are layouts. `UidsInv` adds that a device
that has a uid twice has it from a layer that gave the device whole with that uid twice. `DroppedInv` says of each layer
applied what `NothingDroppedSilently` says of all of them at the end. `SourceInv` says that a shared layer
says what the shared merge has, and a final one what the merge has beyond it. For the order, `Carries` maps
the places of a device to those they move to: `PatchCarries` gives such a map for one rendering of a delta, maps compose
(`CarriedOn`) and take the first rendering of a uid to the first one (`FirstMoves`), so that what was inserted on its side
(`PlacedOnItsSide`) stays there (`SideStays`); `DeltaInPlace` says that each device is patched by the one of its id alone. For the nearest layer, `NearestInv` says of each
turn that a device of the merge is `Gathered` from the layers merged so far: `Nearest`, and with no uid twice unless it was given so. One more layer leaves
the device alone (`GatheredStays`), gives it whole (`WholeIsGathered`) or patches it (`GatheredNext`), where what it says comes after all mentions
there were: one mention more is the last word of the rendering it names (`AttributedNext`), and begins to count, or does not (`CountingNext`).
The layers are the ranks without those that say nothing (`RankedThin`): the standard values of the chain are its templates without those that have none
(`StandardsThin`), from the last to the first, `AddLayer` passes over empty values (`LayersThin`), and the nearest of the layers is the nearest
of the ranks (`ThinIsEnough`). For the gates, `VerdictInv` says that
the resolution goes the way of `MergeLayers` turn by turn (`TurnIs`, `MergedIs`), that its layers are those
of the version asked for, and that what is noted is about a device of the merge (`DeltaNotes`); otherwise a note
would be in no finding, since `g2_layout_xml` reports those of the devices of the answer. Where the new renderings stand takes two
invariants more: `SpokenInv`, that a uid the merge has is said by a layer whose device was not replaced since, so that what `ComesIn`
is new to the code as well; and `PlacedInv`, that while nothing is noted each of them stands as asked. One rendering of a delta puts itself
in its place or leaves a note (`StandsOrNoted`), the later ones of the delta and the later layers only move it along with its anchor
(`AllStandNext`, `PlacedStays`), and a note of a device is one of the delta (`NotedNext`). `CollectedStays` needs `LayersAt` as a function of
what it reads (`StackOf`): that equal chains and documents have equal layers is no step for the provers otherwise. The
assumption of `LayoutGates` is not used. The assumptions are
`IndexesAssumption`, `UidsAssumption` (no uid is a uid that is not there) and `PagesAssumption`, which says also that `None` is no item.

`FieldWriteProofs` proves of every document, sorted or not and with keys repeated or not, every set of
templates and every sequence of requests: `TypeCorrect`; `OneValueAtMost` (`WritesOneValue`, the
refinement of `FieldStore`); `BlobsAreKept` (`FirstBlobKept`); `LatestIsWritten` (`DefaultWritesLatest`);
`OrderIsKept` (`SortedStaysSorted`); `WriteIsOneHunk` (`OneHunk`); `RemovalIsInverse` (`RemovalUndoesWrite`); `DefinitionsAreFollowed`
(`DefinitionsFollowWrites`); `WritesAreAccepted` (`WritesConform`); and `RepeatsAreHarmless` (`RepeatChangesNothing`). But for the last, `TypeOK` is the
only invariant they need; the work is in the step. `SameEntry`
says that two lists have the same first entry for a key, which is all a reader of the document sees.
`SomewhereInserted` and `InsertedIsFound` show it of `InsertKeyed` for every other key,
`BlockReplaced` and `VersionReplaced` of a change to a block, and `WritesShared`, `WritesUnversioned` and
`WritesVersioned` put them together: `SetFieldWritesItsSlot` and `WriteChangesOneList` say that one
slot has another list of fields and that list another entry for one field, that the slot has its version afterwards and
no other version is new, and that what was in order still is (`EnsuredAscends`). For blobs, `FoundIsFirst` shows that
`find_field` has a first place, and `FoundIsRead` that it is the list the slot is read from if it is in that slot at all.
`RepeatsAreHarmless` needs `RepeatInv`, that what was written is accepted still and is there (`Stands`): a version that was made is
the latest one from then on, and since nothing is inserted for a field that is there (`SetInPlace`), the blocks
are the same ones afterwards and `find_field` finds it in the same slot (`FoundInTheSameSlot`).
`RemovalIsInverse` takes the write back from the inside: the list without the key is the one before the insertion
(`RemoveUndoesInsert`), and of a document with no empty section a version and a language are pruned exactly when the
write has made them (`VersionPruned`, `LanguagePruned`).
`WriteIsOneHunk` follows the change from the list of fields to the lines of the file: `Swapped` says that one piece of a
sequence is another and what is around it is the same, and a swap goes through everything a list of fields is written in: a list written
entry by entry (`ImagesSwap`), lists written one after the other (`FlatSwaps`, by `FlattenJoins`, since `FlattenSeq` is a
recursive function), a head before it (`HunkAfter`) and what follows (`HunkBefore`). Where a list is
written in a version or a language that is not there, the block with its head is what is new, one line more (`PutHunk`): at most three (`SetFieldHunk`).
`DefinitionsAreFollowed` replaces the blocks that `definition_value` comes by with the slots that are read (`Readable`): without
a language or a version twice, which a write never makes (`SetFieldKeepsOnce`), the two are the same in the same
order (`HeldIsReadable`, `SlotRanks`), so that the value is that of the first of them (`DefinitionOfFirst`) and stays
while they do (`SameDefinition`).
`WritesAreAccepted` looks at a document without a block twice as its slots with a list of fields each (`EntriesAre`), so that a report is what
the gates note on each place of each list and the languages missing (`ReportIs`). Every entry but the written one was there before,
with the same neighbours of its key or fewer (`SetKeepsEntry`, `Carried`), and is noted again as it was (`OthersNoted`); the written one (`SetMakesEntry`)
has a definition where the gates look for it or is well known (`TargetDefined`), a value its type takes, and pointers the gate can
read (`PointersAre`), so that what is noted on it is what the theorem allows (`WrittenNoted`). A language has a version afterwards if it had one (`LanguagesStay`).
The assumptions are `KeysAssumption`, `RequestsAssumption` and `GatesAssumption`, which says of templates that
no field is effective twice: `TemplateChain` makes it so, the first definition of a chain being the one that is kept.

`MoveTreeProofs` proves for every tree, every set of ids and names and every number of requests, errors and
kills: `MoveTypes` (`TypeOK`) and `GraphIsMirrored` (`GraphMirrorsDisk`) without a condition; and
`TreeIsWholeOrFaulted` (`FaultedOrWhole`), `NoItemIsLost` (`NoItemLost`, until a request is blind), `LayoutIsKept`
(`PathsFollowParents`) and `ReferencesAreKept` (`ReferencesFollow`, until a request is blind) under two
hypotheses, each of which the code needs: no name is that of a directory scans skip, and every initial tree is `Placed` or faulted (`move_loss` does without both and
violates `NoItemLost`);
for references it is also without a fault and with references that name something, since a forge or a move to
a path gives a dangling reference to it a meaning. `MCMoveTree` asks TLC that its tree is of this kind (`TreesAreLaidOut`).
The argument has four layers. Of paths: to be under a path is to continue it (`PrefixContinues`), and `Rewrite` replaces what is
continued (`RewriteMeans`). Of graphs: `Subtree` is the least set closed under children, `NewFiles` has one solution on
it (`PlaceIsUnique`, `NewFilesSolve`), in a placed tree a subtree lies below its root in the same places of paths, files and
planned files (`SubtreeLies`), nothing else lies there (`UnderIsMember`) and nothing lies below the place of a child that
is not there (`FreePlace`), so that what is grafted there leaves a placed tree (`GraftIsGood`). Of plans: `ForgePlans` and
`MovePlans` show that what the two operations plan is a `Plan`: writes in place, one new file, or a relocation with the files it
vacates, with a tree at the end that is `Good`. Of the way: `Midway` says what a scan may find when some writes
are pending, one is begun and some old files are left, each step of a request keeps it (`WriteStep`, `RemoveStep`),
and `MidwayOutcome` shows that such a tree has a fault (an item in its old and its new file), or is the one before, or
the one after. The invariants checked by TLC are not inductive: `FaultedOrWhole` does not say which writes are pending. The inductive one is
`Mirror`, `Progress` (a request that is not blind is midway in a plan for the graph in memory, which is good),
`Settled` (what ended requests left is an outcome) and, for references, `Refers`. The assumptions are `MarksAssumption`,
`TreesAssumption` and `BoundsAssumption`.

Only model-checked: all of `YamlCodec` and `ItemFile` (recursive operators); liveness (outside
the prover's reach); and of `MoveTree` what follows a blind request.

## Plan

1. `WarmTree`, `TreeGraph` and their proofs; `MoveTree`; `GraphRefresh` (done).
2. `TemplateChain`, `LayoutDelta`, `Presentation` and the proofs about the walk (done).
3. `ItemDocument`, `FieldWrite`, `FieldStore` and the proofs about writes, `Conformance` and the proof of
   `WritesConform` (done).
4. `McpServer` over `WarmTree`; `YamlCodec` and `ItemFile`; `LayoutGates` and the gates of `Conformance`;
   removal and the reading of definitions (done).
5. `WarmTree` refined to an abstract tree whose answers are snapshots.
6. Proofs about `MoveTree` and `McpServer`, and with `FoldProofs` about `KeepFirst` and the folds of `LayoutDelta` and
   `LayoutGates`, `NearestLayerWins` (done).
7. `extract_template`, so that an index is built from items; G3 and the code files of renderings.

## Not modelled

Text: layout XML, query and JSON parsing, GUID spelling, escapes inside quotes, output and exit codes.
They keep no state and their behaviour is per input: the components Query language, Kernel errors,
Layout XML and code map, Census, Command line and Identifiers of `PROJECT.json` are of that kind. A session
leaves out what the protocol allows and no client sends: a batch of messages, `notifications/initialized` with an
id (it would never be answered) and a client that closes the end it reads from. Case folding of names is part of what a name
stands for. So no run sees that `rewrite_path` (`kernel/src/lib.rs:751`) compares paths in lower case and cuts the original at the
length of the old one, another place where a letter's lower case is longer or shorter. A link in `GraphRefresh` leads to a file, never to a directory. `notify` is external:
it reports the changed paths of each change or loses the report.
`Presentation` reads one language, and the definitions of `TemplateChain` are given, not read off
items. The first layer of a page is taken as it is by the code: a final delta with nothing beneath it
gets no notes, although `docs/gates.md:111-113` describes one for each kind of oddity; the properties
about notes are about the layers above the first. `Workspace` is behind one mutex
and the server answers one message at a time, so calls do not interleave with each other.
