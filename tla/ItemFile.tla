------------------------------ MODULE ItemFile ------------------------------
(***************************************************************************)
(* One item file between its editors and the server.  An editor types the  *)
(* file line by line; the server reads it, puts a value into the document, *)
(* a new one or for an old one, and writes the file if it reads back       *)
(* (self_check in treesmith-kernel/src/write.rs and set_field).            *)
(*                                                                         *)
(* The document is a tree of entries; which entries are fields is the      *)
(* matter of ItemDocument.  Here a value may go to any entry, and a new    *)
(* field to any place of any list or to a list of its own.                 *)
(***************************************************************************)
EXTENDS YamlCodec

CONSTANTS Openings,    \* files an editor begins with
          Lines,       \* what can be typed
          NewValues,   \* what can be written
          FieldKeys,   \* the keys of a new field: ID, Hint and Value
          Hints,       \* names a field may have, one line each
          SectionKey,  \* the key of a new list
          MaxTyped, MaxWrites

(* prepare_value lets no value pass that ends in a newline.                *)
ASSUME ItemFileAssumption ==
  /\ MaxTyped \in Nat /\ MaxWrites \in Nat
  /\ \A v \in NewValues : Len(v) > 0 /\ (Len(v) > 1 => Last(v) # Empty)

VARIABLES
  file,     \* what is on the disk
  parsed,   \* what the server read of it
  meant,    \* the document of the last write
  step,     \* what was done last
  typed,    \* how many lines were typed
  writes    \* and how many writes there were

vars == <<file, parsed, meant, step, typed, writes>>

Init ==
  /\ file \in Openings
  /\ parsed = Parse(file)
  /\ meant = <<>>
  /\ step = "opened"
  /\ typed = 0
  /\ writes = 0

-----------------------------------------------------------------------------
(* Paths to entries: the number of an entry, of an item if it is a list,   *)
(* and so on.                                                              *)
RECURSIVE PathsIn(_)
PathsIn(entries) ==
  UNION {
    {<<i>>} \cup
      (CASE entries[i].value.style = "map" ->
              {<<i>> \o p : p \in PathsIn(entries[i].value.entries)}
         [] entries[i].value.style = "list" ->
              UNION {{<<i, j>> \o p : p \in PathsIn(entries[i].value.items[j])} :
                       j \in DOMAIN entries[i].value.items}
         [] OTHER -> {})
    : i \in DOMAIN entries}

RECURSIVE ValueAt(_, _)
ValueAt(entries, path) ==
  LET value == entries[path[1]].value
  IN  IF Len(path) = 1 THEN value
      ELSE IF value.style = "map" THEN ValueAt(value.entries, Tail(path))
      ELSE ValueAt(value.items[path[2]], Tail(Tail(path)))

RECURSIVE Replaced(_, _, _)
Replaced(entries, path, value) ==
  LET old == entries[path[1]].value
      new == IF Len(path) = 1 THEN value
             ELSE IF old.style = "map"
                    THEN Map(Replaced(old.entries, Tail(path), value))
             ELSE List([old.items EXCEPT ![path[2]] =
                          Replaced(@, Tail(Tail(path)), value)])
  IN  [entries EXCEPT ![path[1]].value = new]

IsScalar(value) == value.style \notin {"map", "list"}

(* A field as set_field makes it.  The name goes into its Hint as it is.   *)
(* The Type it may have is one of a few words, written like a Hint.        *)
NewField(hint, value) ==
  << Entry(FieldKeys[1], Quoted(Text("word", 0, None))),
     Entry(FieldKeys[2], Plain(hint)),
     Entry(FieldKeys[3], ScalarFor(value)) >>

-----------------------------------------------------------------------------
(* An editor adds a line.  Behind a fault one more line is enough.         *)
Type(line) ==
  /\ writes = 0
  /\ typed < MaxTyped
  /\ Faulted(parsed) => parsed.at = Len(file.lines)
  /\ file' = [file EXCEPT !.lines = Append(@, line)]
  /\ line # Empty \/ file.trailing
  /\ parsed' = Parse(file')
  /\ step' = "typed"
  /\ typed' = typed + 1
  /\ UNCHANGED <<meant, writes>>

(* self_check, and the value that set_field reads back.                    *)
SelfCheck(bytes, path, value) ==
  LET reparsed == Parse(bytes)
  IN  /\ ~Faulted(reparsed)
      /\ Emit(reparsed.got) = bytes
      /\ path \in PathsIn(reparsed.got.root)
      /\ LET there == ValueAt(reparsed.got.root, path)
         IN  IsScalar(there) /\ ValueOf(there) = value

(* Mutant: after the write the server keeps the document it had.           *)
SaveUnrefreshed(root, path, value) ==
  LET bytes == Emit([parsed.got EXCEPT !.root = root])
  IN  /\ writes' = writes + 1
      /\ meant' = root
      /\ SelfCheck(bytes, path, value)
      /\ file' = bytes
      /\ step' = "written"
      /\ UNCHANGED <<parsed, typed>>

(* The document with a value is written if it reads back.                  *)
Save(root, path, value) ==
  LET bytes == Emit([parsed.got EXCEPT !.root = root])
  IN  /\ writes' = writes + 1
      /\ UNCHANGED typed
      /\ meant' = root
      /\ IF SelfCheck(bytes, path, value)
           THEN file' = bytes /\ parsed' = Parse(bytes) /\ step' = "written"
           ELSE UNCHANGED <<file, parsed>> /\ step' = "refused"

MayWrite == ~Faulted(parsed) /\ writes < MaxWrites

(* The value of an entry is replaced, whatever it was.                     *)
SetValue(path, value) ==
  /\ MayWrite
  /\ path \in PathsIn(parsed.got.root)
  /\ Save(Replaced(parsed.got.root, path, ScalarFor(value)), path, value)

(* A field is put into a list there is.                                    *)
AddField(path, j, hint, value) ==
  /\ MayWrite
  /\ path \in PathsIn(parsed.got.root)
  /\ LET list == ValueAt(parsed.got.root, path)
     IN  /\ list.style = "list" /\ j \in 1..(Len(list.items) + 1)
         /\ Save(Replaced(parsed.got.root, path,
                          List(InsertAt(list.items, j, NewField(hint, value)))),
                 path \o <<j, 3>>, value)

(* A field is put into a list of its own.                                  *)
AddSection(i, hint, value) ==
  /\ MayWrite
  /\ i \in 1..(Len(parsed.got.root) + 1)
  /\ Save(InsertAt(parsed.got.root, i, Entry(SectionKey, List(<<NewField(hint, value)>>))),
          <<i, 1, 3>>, value)

(* Paths are looked for only where there is a document.                    *)
Places == IF Faulted(parsed) THEN {} ELSE PathsIn(parsed.got.root)

Write ==
  \E value \in NewValues :
    \/ \E path \in Places : SetValue(path, value)
    \/ \E hint \in Hints :
         \/ \E path \in Places, j \in 1..(Len(file.lines) + 1) : AddField(path, j, hint, value)
         \/ \E i \in 1..(Len(file.lines) + 1) : AddSection(i, hint, value)

Next == (\E line \in Lines : Type(line)) \/ Write

Spec == Init /\ [][Next]_vars

-----------------------------------------------------------------------------
(* "emit(parse(bytes)) == bytes holds by construction for any file that    *)
(* parses" (yaml.rs:3-5): no space, blank line, quote, line end or mark at *)
(* the begin or end of a file is lost or made.                             *)
EmitInvertsParse == ~Faulted(parsed) => Emit(parsed.got) = file

(* What was written is what was meant: the server reads back the document  *)
(* it wrote, entry by entry, and not only the value that the check before  *)
(* the write looks at ("treesmith never emits a file it cannot re-parse to *)
(* an identical graph", docs/architecture.md).  That is so for the field   *)
(* names in Hints: with one that begins with a bar or is in quotes among   *)
(* them it is not, a Hint is written as it is (item.rs:322).               *)
WritesReadBack ==
  step = "written" => parsed = Got([parsed.got EXCEPT !.root = meant], Len(file.lines) + 1)

(* A value that was accepted is refused by the check before the write only *)
(* where a block at the end of the file ends in blank lines and something  *)
(* new would come behind it (yaml.rs:417-428).                             *)
RefusedOnlyBehindBlanks ==
  step = "refused" =>
    /\ IsNothing(Last(file.lines))
    /\ ~IsNothing(Last(EmitEntries(meant, 0)))

(* The line a fault names is the first that is wrong.  The file parses up  *)
(* to the line before, and with the named line it does not any more; only  *)
(* the first of the blank lines behind a block is named ahead of the line  *)
(* that shows it is wrong.  A blank line is named for being blank, and no  *)
(* other is.                                                               *)
Structural == {"unexpected-blank", "bad-indent", "tab-indent", "bad-structure", "bad-list-item"}
ParsesUpTo(n) == ~Faulted(Parse([file EXCEPT !.lines = SubSeq(@, 1, n)]))
FaultIsFirst ==
  parsed.fault \in Structural =>
    /\ parsed.at \in DOMAIN file.lines
    /\ parsed.fault = "unexpected-blank" <=> IsBlank(file.lines[parsed.at])
    /\ \E shown \in parsed.at..Len(file.lines) :
         /\ ParsesUpTo(shown - 1) /\ ~ParsesUpTo(shown)
         /\ \A n \in parsed.at..(shown - 1) : IsNothing(file.lines[n])
         /\ shown > parsed.at => ~IsNothing(file.lines[parsed.at - 1])
=============================================================================
