------------------------------ MODULE TreeGraph ------------------------------
(***************************************************************************)
(* What treesmith-graph makes of the files of a serialized tree.           *)
(*                                                                         *)
(* A file is a number: the place of its path in path order, which is the   *)
(* order Graph.files (a BTreeMap) is iterated in.  What a file holds is    *)
(* abstracted to what the graph can tell apart:                            *)
(*   - an item document, with the id it declares (NoId when it has none)   *)
(*     and one value standing for the rest of the document;                *)
(*   - Broken: the head looks like an item, the document does not parse;   *)
(*   - a gate configuration (the text of treesmith.toml);                  *)
(*   - Alien: anything else, an empty or half-written file included;       *)
(*   - Absent: there is no such file.                                      *)
(***************************************************************************)
EXTENDS Naturals

CONSTANTS
  Files,      \* the paths of interest, as numbers in path order
  Ids,        \* the item ids
  Vals,       \* what the rest of an item document may be
  NoId,       \* the id of a document without a parseable ID
  Configs,    \* the gate configurations treesmith.toml can spell
  Broken, Alien, Absent

Items == [id : Ids \cup {NoId}, val : Vals]
Contents == Items \cup Configs \cup {Broken, Alien, Absent}

ASSUME FilesAssumption == Files \subseteq Nat
ASSUME IdsAssumption == NoId \notin Ids
ASSUME ContentsAssumption ==
  /\ Items \cap (Configs \cup {Broken, Alien, Absent}) = {}
  /\ Configs \cap {Broken, Alien, Absent} = {}
  /\ Broken # Alien /\ Broken # Absent /\ Alien # Absent

None == Absent
FileRecords == Items \cup {Broken}

(***************************************************************************)
(* parse_file: a file that cannot be read, or whose head does not look     *)
(* like an item, is no item file and leaves no record and no fault.        *)
(***************************************************************************)
ParseFile(content) == IF content \in FileRecords THEN content ELSE None

(***************************************************************************)
(* assemble: the files are taken in path order; a document that declares   *)
(* an id no earlier file declared becomes the item with that id, every     *)
(* other record is a fault against its file.                               *)
(***************************************************************************)
Declares(files, f, id) == files[f] \in Items /\ files[f].id = id

Kept(files, f) ==
  /\ files[f] \in Items
  /\ files[f].id \in Ids
  /\ \A g \in Files : g < f => ~Declares(files, g, files[f].id)

ItemIds(files) == {files[f].id : f \in {g \in Files : Kept(files, g)}}
FileOf(files, id) == CHOOSE f \in Files : Kept(files, f) /\ files[f].id = id
Faults(files) == {f \in Files : files[f] \in FileRecords /\ ~Kept(files, f)}
=============================================================================
