------------------------------- MODULE MoveTree ------------------------------
(***************************************************************************)
(* The kernel's structural writes, forge and move_item: what they plan     *)
(* from the graph in memory and what they do to the working tree, one file *)
(* at a time, with an I/O error or a kill possible at every write.         *)
(*                                                                         *)
(* An item path and the path of an item file are sequences of names.  A    *)
(* name stands for its spellings in upper and lower case, which the code   *)
(* takes for equal.  A document keeps its id, its parent link, its path    *)
(* and one path-valued reference (a `ds=` attribute or a whole field).     *)
(***************************************************************************)
EXTENDS Naturals, SequencesExt

CONSTANTS
  Ids, Names,
  Outside,        \* the parent link of a root: an item that is not serialized
  Broken,         \* a file that looks like an item and does not parse
  Alien,          \* a file that does not look like an item, an empty one too
  Excluded,       \* names of directories a scan does not enter: bin, obj ...
  InitialTrees,   \* working trees: functions from file paths to documents
  MaxRequests,    \* bound on the requests that are carried out
  MaxFailures     \* bound on I/O errors and kills

NoRef == << >>
Paths == Seq(Names)
Items == [id : Ids, parent : Ids \cup {Outside}, path : Paths \ {NoRef}, ref : Paths]

ASSUME MarksAssumption ==
  Outside \notin Ids /\ Broken # Alien /\ {Broken, Alien} \cap Items = {}
ASSUME TreesAssumption ==
  \A tree \in InitialTrees :
    /\ DOMAIN tree \subseteq Paths /\ tree = [f \in DOMAIN tree |-> tree[f]]
    /\ \A f \in DOMAIN tree : tree[f] \in Items \cup {Broken, Alien}
ASSUME BoundsAssumption == MaxRequests \in Nat /\ MaxFailures \in Nat

VARIABLES
  disk,         \* file path -> content, for the files that exist
  files,        \* Graph.files of the workspace: file path -> parsed record
  pc,           \* "down", "idle", "writing", "filling"
  relocations,  \* planned writes of the moved subtree, [file, doc]
  rewrites,     \* planned writes of other items whose reference follows
  vacated,      \* old files to remove once everything is written
  refresh,      \* paths the graph re-parses at the end
  current,      \* the write whose file is truncated and not yet filled
  requests, failures,
  before, after,\* history: the items as the request found and means to leave them
  target,       \* history: the item each item's reference named at first
  abandoned,    \* history: paths of failed requests, not re-parsed since
  blind,        \* history: a request was planned with such paths about
  risked        \* history: items truncated in place and not written since

plan == <<relocations, rewrites, vacated, refresh>>
history == <<before, after, target, abandoned, blind, risked>>
vars == <<disk, files, pc, plan, current, requests, failures, history>>

-----------------------------------------------------------------------------
(* The graph of a tree: what its item files declare.                       *)
EntersOnly(f) == \A i \in 1..(Len(f) - 1) : f[i] \notin Excluded
Parsed(tree) ==
  [f \in {g \in DOMAIN tree : tree[g] # Alien /\ EntersOnly(g)} |-> tree[f]]
Documents(tree) == {tree[f] : f \in DOMAIN tree} \ {Broken, Alien}
IdsIn(tree) == {d.id : d \in Documents(tree)}
FileOf(tree, id) ==
  CHOOSE f \in DOMAIN tree : tree[f] \notin {Broken, Alien} /\ tree[f].id = id
Doc(tree, id) == tree[FileOf(tree, id)]
NameOf(doc) == Last(doc.path)
Children(tree, id) == {d \in Documents(tree) : d.parent = id}

Faulted(tree) ==
  \E f \in DOMAIN tree :
    \/ tree[f] = Broken
    \/ \E g \in DOMAIN tree \ {f} : /\ {tree[f], tree[g]} \cap {Broken, Alien} = {}
                                    /\ tree[f].id = tree[g].id

(* child_file_path: .../Home.yml has its child X in .../Home/X.yml.        *)
ChildFile(file, name) == Append(file, name)

(* rewrite_path: a path at or under old goes to the same place under new.  *)
Rewrite(path, old, new) ==
  IF IsPrefix(old, path) THEN new \o SubSeq(path, Len(old) + 1, Len(path)) ELSE path

(* The item and its descendants along the parent links: the least set of   *)
(* ids that has the item and the children of each of its members.          *)
ClosedUnderChildren(tree, ids) ==
  \A d \in Documents(tree) : d.parent \in ids => d.id \in ids
Subtree(tree, id) ==
  {i \in IdsIn(tree) :
     \A ids \in SUBSET IdsIn(tree) :
       id \in ids /\ ClosedUnderChildren(tree, ids) => i \in ids}

(* plan_subtree: where each item of a moved subtree is to be stored.       *)
NewFiles(tree, id, rootFile) ==
  LET new[i \in Subtree(tree, id)] ==
        IF i = id THEN rootFile
        ELSE ChildFile(new[Doc(tree, i).parent], NameOf(Doc(tree, i)))
  IN  new

-----------------------------------------------------------------------------
TypeOK ==
  /\ DOMAIN disk \cup DOMAIN files \subseteq Paths
  /\ disk \in [DOMAIN disk -> Items \cup {Broken, Alien}]
  /\ files \in [DOMAIN files -> Items \cup {Broken}]
  /\ pc \in {"down", "idle", "writing", "filling"}
  /\ relocations \cup rewrites \subseteq [file : Paths, doc : Items]
  /\ pc = "filling" => current \in [file : Paths, doc : Items]
  /\ vacated \cup refresh \subseteq Paths
  /\ requests \in 0..MaxRequests /\ failures \in 0..MaxFailures
  /\ before \cup after \subseteq Items
  /\ abandoned \subseteq Paths /\ blind \in BOOLEAN /\ risked \subseteq Ids

Init ==
  /\ disk \in InitialTrees
  /\ files = << >> /\ pc = "down"
  /\ relocations = {} /\ rewrites = {} /\ vacated = {} /\ refresh = {}
  /\ LET f == CHOOSE f \in DOMAIN disk : TRUE
     IN  current = [file |-> f, doc |-> disk[f]]    \* of no use until a write
  /\ requests = 0 /\ failures = 0
  /\ before = Documents(Parsed(disk)) /\ after = before
  /\ abandoned = {} /\ blind = FALSE /\ risked = {}
  /\ target = [i \in IdsIn(disk) |->
                 {d.id : d \in {e \in Documents(disk) : e.path = Doc(disk, i).ref}}]

(* Workspace::open, or the rebuild of a running server: a full scan.       *)
Open ==
  /\ pc \in {"down", "idle"}
  /\ files' = Parsed(disk)
  /\ pc' = "idle"
  /\ abandoned' = {}
  /\ UNCHANGED <<disk, plan, current, requests, failures, before, after, target, blind, risked>>

(* What a request asks before it plans anything: ensure_tree_ok.  The      *)
(* model goes no further once a document was lost in a truncated file.     *)
MayAct ==
  /\ pc = "idle" /\ requests < MaxRequests /\ risked = {}
  /\ ~Faulted(files)
  /\ requests' = requests + 1

(* Mutant: the files a move vacates are not re-parsed.                     *)
BeginForgetsOld(moves, others, old) ==
  /\ relocations' = moves /\ rewrites' = others /\ vacated' = old
  /\ refresh' = {w.file : w \in moves \cup others}
  /\ before' = Documents(Parsed(disk))
  /\ LET docs == {w.doc : w \in moves \cup others}
     IN  after' = {d \in before' : \A e \in docs : d.id # e.id} \cup docs
  /\ blind' = (blind \/ abandoned # {})
  /\ pc' = "writing"
  /\ UNCHANGED <<disk, files, current, failures, target, abandoned, risked>>

(* A request has planned its writes, and begins to carry them out.         *)
Begin(moves, others, old) ==
  /\ relocations' = moves /\ rewrites' = others /\ vacated' = old
  /\ refresh' = old \cup {w.file : w \in moves \cup others}
  /\ before' = Documents(Parsed(disk))
  /\ LET docs == {w.doc : w \in moves \cup others}
     IN  after' = {d \in before' : \A e \in docs : d.id # e.id} \cup docs
  /\ blind' = (blind \/ abandoned # {})
  /\ pc' = "writing"
  /\ UNCHANGED <<disk, files, current, failures, target, abandoned, risked>>

(* forge: a new child, in a file that does not exist yet.                  *)
Forge(id, parent, name) ==
  LET p    == Doc(files, parent)
      file == ChildFile(FileOf(files, parent), name)
      doc  == [id |-> id, parent |-> parent, path |-> Append(p.path, name), ref |-> NoRef]
  IN  /\ MayAct
      /\ parent \in IdsIn(files) /\ id \notin IdsIn(files)
      /\ \A c \in Children(files, parent) : NameOf(c) # name
      /\ file \notin DOMAIN disk
      /\ Begin({[file |-> file, doc |-> doc]}, {}, {})

(* Mutant: references are left as they are.                                *)
FollowNothing(doc, old, new) == doc

(* rewrite_path_references: a reference at or under the old path follows.  *)
Follow(doc, old, new) == [doc EXCEPT !.ref = Rewrite(@, old, new)]

(* Mutant: the root of the subtree keeps its parent link.                  *)
MovedKeepsParent(doc, id, newParent, old, new) ==
  [Follow(doc, old, new) EXCEPT !.path = Rewrite(@, old, new)]

(* The document a moved item is stored as: its path and its reference      *)
(* follow the move, the root of the subtree gets its new parent.           *)
Moved(doc, id, newParent, old, new) ==
  [Follow(doc, old, new) EXCEPT
     !.parent = IF doc.id = id THEN newParent ELSE doc.parent,
     !.path = Rewrite(doc.path, old, new)]

MoveItem(id, newParent, name) ==
  LET old    == Doc(files, id).path
      new    == Append(Doc(files, newParent).path, name)
      at     == NewFiles(files, id, ChildFile(FileOf(files, newParent), name))
      moving == Subtree(files, id)
      kept   == {d \in Documents(files) : d.id \notin moving}
      moves  == {[file |-> at[i], doc |-> Moved(Doc(files, i), id, newParent, old, new)] :
                   i \in moving}
  IN  /\ MayAct
      /\ {id, newParent} \subseteq IdsIn(files)
      /\ newParent # id /\ ~IsPrefix(old, Doc(files, newParent).path)
      /\ \A c \in Children(files, newParent) : c.id # id => NameOf(c) # name
      /\ \A i \in moving : at[i] # FileOf(files, i) => at[i] \notin DOMAIN disk
      /\ Begin(moves,
               {[file |-> FileOf(files, d.id), doc |-> Follow(d, old, new)] :
                  d \in {e \in kept : IsPrefix(old, e.ref)}},
               {FileOf(files, i) : i \in {j \in moving : at[j] # FileOf(files, j)}})

-----------------------------------------------------------------------------
Put(file, content) == disk' = [f \in DOMAIN disk \cup {file} |->
                                 IF f = file THEN content ELSE disk[f]]

(* Mutant: the items that refer to the subtree are written first.          *)
NextWritesOthersFirst == IF rewrites # {} THEN rewrites ELSE relocations

(* The subtree is written first, a parent before its children, then the    *)
(* items whose references follow.                                          *)
NextWrites ==
  IF relocations # {}
    THEN {w \in relocations : \A v \in relocations : ~IsStrictPrefix(v.file, w.file)}
    ELSE rewrites

(* fs::write truncates the file, an existing one in place, and fills it.   *)
StartWrite(w) ==
  /\ pc = "writing" /\ w \in NextWrites
  /\ relocations' = relocations \ {w} /\ rewrites' = rewrites \ {w}
  /\ current' = w
  /\ risked' = IF w.file \in DOMAIN disk THEN risked \cup {w.doc.id} ELSE risked
  /\ Put(w.file, Alien)
  /\ pc' = "filling"
  /\ UNCHANGED <<files, vacated, refresh, requests, failures, before, after, target,
                 abandoned, blind>>

FinishWrite ==
  /\ pc = "filling"
  /\ Put(current.file, current.doc)
  /\ risked' = risked \ {current.doc.id}
  /\ pc' = "writing"
  /\ UNCHANGED <<files, plan, current, requests, failures, before, after, target, abandoned,
                 blind>>

(* A request that fails returns as it is: the graph is not refreshed.      *)
Abort ==
  /\ relocations' = {} /\ rewrites' = {} /\ vacated' = {} /\ refresh' = {}
  /\ abandoned' = abandoned \cup refresh
  /\ pc' = "idle"

(* Mutant: an old file is removed before its new one is written.       *)
RemoveOldEarly(f) ==
  /\ pc = "writing" /\ f \in vacated \cap DOMAIN disk
  /\ disk' = [g \in DOMAIN disk \ {f} |-> disk[g]]
  /\ vacated' = vacated \ {f}
  /\ UNCHANGED <<files, pc, relocations, rewrites, refresh, current, requests,
                 failures, history>>

(* Only when everything is written are the old files removed; one that an  *)
(* earlier failure removed already is an error ...                         *)
RemoveOld(f) ==
  /\ pc = "writing" /\ relocations = {} /\ rewrites = {}
  /\ f \in vacated
  /\ IF f \in DOMAIN disk
       THEN /\ disk' = [g \in DOMAIN disk \ {f} |-> disk[g]]
            /\ vacated' = vacated \ {f}
            /\ UNCHANGED <<relocations, rewrites, refresh, abandoned, pc>>
       ELSE Abort /\ UNCHANGED disk
  /\ UNCHANGED <<files, current, requests, failures, before, after, target, blind, risked>>

(* ... and only then does the graph re-parse the paths that changed.       *)
RefreshPaths ==
  /\ pc = "writing" /\ relocations = {} /\ rewrites = {} /\ vacated = {}
  /\ files' = [f \in (DOMAIN files \ refresh) \cup (DOMAIN Parsed(disk) \cap refresh) |->
                 IF f \in refresh THEN disk[f] ELSE files[f]]
  /\ refresh' = {}
  /\ pc' = "idle"
  /\ UNCHANGED <<disk, relocations, rewrites, vacated, current, requests, failures,
                 history>>

(* An I/O error: a file is not written, or only in part, or not removed.   *)
Partial(doc) == {Alien, Broken, [doc EXCEPT !.ref = NoRef]}

Fail ==
  /\ failures < MaxFailures
  /\ failures' = failures + 1
  /\ \/ /\ pc = "writing"
        /\ relocations # {} \/ rewrites # {} \/ vacated # {}
        /\ UNCHANGED disk
     \/ /\ pc = "filling"
        /\ \E content \in Partial(current.doc) : Put(current.file, content)
  /\ Abort
  /\ UNCHANGED <<files, current, requests, before, after, target, blind, risked>>

Kill ==
  /\ pc # "down" /\ failures < MaxFailures
  /\ failures' = failures + 1
  /\ relocations' = {} /\ rewrites' = {} /\ vacated' = {} /\ refresh' = {}
  /\ files' = << >> /\ pc' = "down" /\ abandoned' = {}
  /\ UNCHANGED <<disk, current, requests, before, after, target, blind, risked>>

Next ==
  \/ Open
  \/ \E id \in Ids, parent \in Ids, name \in Names :
       Forge(id, parent, name) \/ MoveItem(id, parent, name)
  \/ \E w \in relocations \cup rewrites : StartWrite(w)
  \/ FinishWrite
  \/ \E f \in vacated : RemoveOld(f)
  \/ RefreshPaths \/ Fail \/ Kill

Spec == Init /\ [][Next]_vars

-----------------------------------------------------------------------------
(* What a scan of the working tree finds now. *)
Found == Parsed(disk)

(* Whoever opens the working tree at any moment of a move, after an error  *)
(* or after a kill finds the tree as it was, the tree as it is to be, or a *)
(* fault that stops every operation: a half-moved tree is never taken for  *)
(* a good one.  Only a document in a file that was being rewritten in      *)
(* place may be missing or cut short.  A request that was planned blindly  *)
(* may leave an item where its parent no longer is, and a later move that  *)
(* rewrites it in its place is then not covered.                           *)
FaultedOrWhole ==
  LET Safe(docs) == {d \in docs : d.id \notin risked}
      safe       == Safe(Documents(Found))
  IN  blind \/ Faulted(Found) \/ safe = Safe(before) \/ safe = Safe(after)

(* No item is lost on the way: an id is found as long as it is not in a    *)
(* file that is being rewritten in place, or that failed to be.            *)
NoItemLost == {d.id : d \in before} \subseteq IdsIn(Found) \cup risked

(* A tree as the code lays it out: path and file of an item continue those *)
(* of its parent, two files hold two paths, nothing lies above a root.     *)
Placed(tree) ==
  \A f \in DOMAIN tree :
    /\ tree[f].parent # Outside =>
         \E g \in DOMAIN tree : /\ tree[g].id = tree[f].parent
                                /\ tree[f].path = Append(tree[g].path, NameOf(tree[f]))
                                /\ f = ChildFile(g, NameOf(tree[f]))
    /\ \A g \in DOMAIN tree \ {f} :
         /\ tree[g].path # tree[f].path
         /\ tree[f].parent = Outside =>
              ~IsPrefix(tree[g].path, tree[f].path) /\ ~IsPrefix(g, f)

(* Paths and files agree with parent links, and siblings have different    *)
(* names: moves and forges keep it so, hence no item becomes its own       *)
(* ancestor.                                                               *)
PathsFollowParents == Faulted(Found) \/ risked # {} \/ blind \/ Placed(Found)

(* A reference by path still names the item it named at first.             *)
ReferencesFollow ==
  LET docs == Documents(Found)
  IN  Faulted(Found) \/ risked # {} \/
        \A d \in {e \in docs : e.id \in DOMAIN target} :
          target[d.id] = {e.id : e \in {x \in docs : x.path = d.ref}}

(* Between requests the graph in memory is what a scan would give, except  *)
(* at the paths of a request that failed before its refresh.               *)
GraphMirrorsDisk ==
  pc = "idle" =>
    \A f \in (DOMAIN files \cup DOMAIN Found) \ abandoned :
      f \in DOMAIN files \cap DOMAIN Found /\ files[f] = Found[f]

=============================================================================
