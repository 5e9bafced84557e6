---------------------------- MODULE GraphRefresh ----------------------------
(***************************************************************************)
(* treesmith-graph's two ways to learn about the working tree: the scan of *)
(* everything, and the refresh of the paths a watcher or a write reports.  *)
(* The promise between them is that a refresh of what changed leaves the   *)
(* graph as a scan would.                                                  *)
(*                                                                         *)
(* Here the tree has directories, directories no scan enters, and links.   *)
(* A path is a sequence of names.  Editors create, overwrite, delete and   *)
(* rename files and whole directories; each change is reported to the      *)
(* watcher's dirty set.                                                    *)
(***************************************************************************)
EXTENDS Naturals, SequencesExt

CONSTANTS
  Names,        \* of files and directories
  ItemNames,    \* those that end in .yml
  Excluded,     \* .git, target, node_modules, bin, obj
  Depth,        \* bound on the length of a path
  Records,      \* file contents that look like an item, parsed or broken
  Alien,        \* any other content
  Dir, Link, Absent,
  LinkTarget,   \* the content of the file that a Link leads to
  InitialTrees, \* the working trees there may be at first
  MaxEdits      \* bound on the changes of the working tree

Paths == UNION {[1..n -> Names] : n \in 1..Depth}
FileContents == Records \cup {Alien}
Nodes == FileContents \cup {Dir, Link, Absent}
None == Absent

Parent(p) == Front(p)
Above(p) == {q \in Paths : IsStrictPrefix(q, p)}
Below(p) == {q \in Paths : IsPrefix(p, q)}

IsTree(tree) ==
  \A p \in Paths : tree[p] # Absent => \A q \in Above(p) : tree[q] = Dir

ASSUME NamesAssumption == ItemNames \subseteq Names /\ ItemNames \cap Excluded = {}
ASSUME NodesAssumption ==
  /\ Records \cap {Alien, Dir, Link, Absent} = {}
  /\ Alien \notin {Dir, Link, Absent} /\ Dir \notin {Link, Absent} /\ Link # Absent
  /\ LinkTarget \in FileContents
ASSUME TreesAssumption ==
  /\ InitialTrees \subseteq [Paths -> Nodes]
  /\ \A tree \in InitialTrees : IsTree(tree)
ASSUME BoundsAssumption == Depth \in Nat /\ MaxEdits \in Nat

VARIABLES
  disk,     \* the working tree
  files,    \* Graph.files: the parsed record of each path, or None
  repo,     \* Graph.repo_set
  dirty,    \* paths reported and not refreshed yet
  edits

vars == <<disk, files, repo, dirty, edits>>

-----------------------------------------------------------------------------
(* Mutant: the head of a file is not sniffed.                              *)
ParseUnsniffed(p, content) == content

(* parse_file for a name sniff_file_name accepts.                          *)
Parse(p, content) ==
  IF Last(p) \in ItemNames /\ content \in Records THEN content ELSE None

InExcluded(p) == \E i \in 1..(Len(p) - 1) : p[i] \in Excluded

(* The walk follows no link and enters no excluded directory.              *)
Walked(tree) == {p \in Paths : tree[p] \in FileContents /\ ~InExcluded(p)}

ScanFiles(tree) ==
  [p \in Paths |-> IF p \in Walked(tree) THEN Parse(p, tree[p]) ELSE None]

(* scan, and the build of the graph that starts with one.                  *)
Scan ==
  /\ files' = ScanFiles(disk) /\ repo' = Walked(disk)
  /\ UNCHANGED <<disk, dirty, edits>>

Forget(paths) == files' = [q \in Paths |-> IF q \in paths THEN None ELSE files[q]]

(* Mutant: a directory that is gone drops its own entry only.              *)
RefreshOneDropsOne(p) ==
  LET below == Below(p)
      found == below \cap Walked(disk)
  IN  IF \E i \in 1..Len(p) : p[i] \in Excluded
        THEN UNCHANGED <<files, repo>>
      ELSE IF disk[p] = Absent
        THEN Forget({p}) /\ repo' = repo \ {p}
      ELSE IF disk[p] = Dir
        THEN /\ files' = [q \in Paths |-> IF q \in below THEN ScanFiles(disk)[q] ELSE files[q]]
             /\ repo' = (repo \ (below \ {p})) \cup found
      ELSE   /\ files' = [files EXCEPT ![p] =
                            Parse(p, IF disk[p] = Link THEN LinkTarget ELSE disk[p])]
             /\ repo' = repo \cup {p}

(* refresh_one, in the order of its tests.  A path with an excluded name   *)
(* anywhere in it is ignored; std::fs::metadata follows a link; of a       *)
(* directory everything below is read again, its own census entry stays.   *)
RefreshOne(p) ==
  LET below == Below(p)
      found == below \cap Walked(disk)
  IN  IF \E i \in 1..Len(p) : p[i] \in Excluded
        THEN UNCHANGED <<files, repo>>
      ELSE IF disk[p] = Absent
        THEN Forget(below) /\ repo' = repo \ below
      ELSE IF disk[p] = Dir
        THEN /\ files' = [q \in Paths |-> IF q \in below THEN ScanFiles(disk)[q] ELSE files[q]]
             /\ repo' = (repo \ (below \ {p})) \cup found
      ELSE   /\ files' = [files EXCEPT ![p] =
                            Parse(p, IF disk[p] = Link THEN LinkTarget ELSE disk[p])]
             /\ repo' = repo \cup {p}

Refresh(p) ==
  /\ p \in dirty
  /\ RefreshOne(p)
  /\ dirty' = dirty \ {p}
  /\ UNCHANGED <<disk, edits>>

-----------------------------------------------------------------------------
(* A change of the working tree, and the paths the watcher reports for it. *)
Change(tree, reported) ==
  /\ edits < MaxEdits /\ edits' = edits + 1
  /\ disk' = tree
  /\ dirty' = dirty \cup reported
  /\ UNCHANGED <<files, repo>>

HasParent(p) == Len(p) > 1 => disk[Parent(p)] = Dir

Create(p, node) ==
  /\ disk[p] = Absent /\ HasParent(p)
  /\ Change([disk EXCEPT ![p] = node], {p})

Overwrite(p, content) ==
  /\ disk[p] \in FileContents \ {content}
  /\ Change([disk EXCEPT ![p] = content], {p})

(* rm -r: everything that goes is reported.                                *)
Delete(p) ==
  /\ disk[p] # Absent
  /\ Change([q \in Paths |-> IF q \in Below(p) THEN Absent ELSE disk[q]],
            {q \in Below(p) : disk[q] # Absent})

(* Where a path at or below q was before p was renamed to q.               *)
Origin(p, q, r) == p \o SubSeq(r, Len(q) + 1, Len(r))

(* mv: a directory takes what is below along, only the two names are       *)
(* reported.                                                               *)
Rename(p, q) ==
  /\ disk[p] # Absent /\ disk[q] = Absent /\ HasParent(q) /\ q \notin Below(p)
  /\ \A r \in Below(p) : disk[r] # Absent => Len(r) - Len(p) + Len(q) <= Depth
  /\ Change([r \in Paths |->
               IF r \in Below(p) THEN Absent
               ELSE IF r \in Below(q) /\ Origin(p, q, r) \in Paths
                 THEN disk[Origin(p, q, r)]
               ELSE disk[r]],
            {p, q})

-----------------------------------------------------------------------------
TypeOK ==
  /\ disk \in [Paths -> Nodes] /\ IsTree(disk)
  /\ files \in [Paths -> Records \cup {None}]
  /\ repo \subseteq Paths /\ dirty \subseteq Paths
  /\ edits \in 0..MaxEdits

Init ==
  /\ disk \in InitialTrees
  /\ files = ScanFiles(disk) /\ repo = Walked(disk)
  /\ dirty = {} /\ edits = 0

Next ==
  \/ Scan
  \/ \E p \in dirty : Refresh(p)
  \/ \E p \in Paths :
       \/ \E node \in Nodes \ {Absent} : Create(p, node)
       \/ \E content \in FileContents : Overwrite(p, content)
       \/ Delete(p)
       \/ \E q \in Paths : Rename(p, q)

Spec == Init /\ [][Next]_vars

-----------------------------------------------------------------------------
Pending(p) == \E d \in dirty : IsPrefix(d, p)
UnderFile(p) == \E q \in Above(p) : disk[q] \in FileContents \cup {Link}

(* In whatever order files and directories come, go and are renamed, and   *)
(* in whatever order the reports are taken up: where nothing is pending,   *)
(* the graph is what a scan would make it.  The exceptions are spelled     *)
(* out: links, what is left of a directory whose name a file took, and in  *)
(* the census also excluded names and a directory that took a file's name. *)
RefreshKeepsUp ==
  \A p \in Paths :
    \/ Pending(p) \/ UnderFile(p) \/ disk[p] = Link
    \/ /\ files[p] = ScanFiles(disk)[p]
       /\ \/ p \in repo <=> p \in Walked(disk)
          \/ Last(p) \in Excluded \/ disk[p] = Dir

(* "Re-parses the given changed paths and drops deleted ones ... (and      *)
(* drops entries under a deleted directory)": with nothing left to         *)
(* refresh, no item remains in the graph whose file is gone.               *)
DeletedEntriesAreDropped ==
  dirty = {} => \A p \in Paths : files[p] # None => disk[p] # Absent
=============================================================================
