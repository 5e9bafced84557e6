------------------------------ MODULE YamlCodec ------------------------------
(***************************************************************************)
(* The codec of item files (treesmith-format/src/yaml.rs): parse, emit and *)
(* the style of new values.                                                *)
(*                                                                         *)
(* A text is what stands between two places of a line that the codec tells *)
(* apart: leading spaces, "- ", and then one of a few forms.  A line is a  *)
(* text, and so is what follows "key: ", what stands between quotes and a  *)
(* line of a value; hence a text in a text.                                *)
(*   empty   nothing more            word    no ": ", no ":" at the end    *)
(*   marker  ---                     bar     starts with | or >            *)
(*   bare    key:                    pair    key: rest                     *)
(*   quoted  "rest"                  escape  has a quote or a backslash    *)
(* word names the key or the characters; Tab is one that begins with a tab.*)
(***************************************************************************)
EXTENDS Integers, Sequences, SequencesExt

None == [form |-> "none"]

Text(form, word, rest) ==
  [lead |-> 0, dash |-> FALSE, form |-> form, word |-> word, rest |-> rest]

Tab == -1

Empty   == Text("empty", 0, None)
Marker  == Text("marker", 0, None)
Bar     == Text("bar", 0, None)
Quote(t) == Text("quoted", 0, t)
Pair(k, rest) == Text("pair", k, rest)
BareKey(k)    == Text("bare", k, None)

Indented(t, n) == [t EXCEPT !.lead = @ + n]
Dashed(t)      == [t EXCEPT !.dash = TRUE]

(* A file.  Lines end alike, in LF or CRLF, but for the line number odd;   *)
(* utf8 is the number of the first line that is not UTF-8.  0: there is    *)
(* none.  The last line may be without an end.                             *)
File(bom, crlf, trailing, lines) ==
  [bom |-> bom, utf8 |-> 0, crlf |-> crlf, odd |-> 0, trailing |-> trailing, lines |-> lines]

-----------------------------------------------------------------------------
(* What a parser function comes back with: what it got and the line it is  *)
(* at, or a fault.                                                         *)
Got(got, at) == [fault |-> "none", got |-> got, at |-> at]

Fault(kind, line) == [fault |-> kind, got |-> <<>>, at |-> line]
Faulted(r) == r.fault # "none"

(* What a list of the results of a function and the next one make.         *)
Then(r, entry, next) ==
  IF Faulted(next) THEN next ELSE Got(<<entry>> \o next.got, next.at)

IsBlank(t)    == t.form = "empty" /\ ~t.dash
IsNothing(t)  == IsBlank(t) /\ t.lead = 0
LooksLikeEntry(t) == t.form \in {"pair", "bare"}

(* Scalars and structures.                                                 *)
Plain(t)  == [style |-> "plain", text |-> t]
PlainBare == [style |-> "bare"]
Quoted(t) == [style |-> "quoted", text |-> t]
Block(header, lines) == [style |-> "block", header |-> header, lines |-> lines]
Map(entries) == [style |-> "map", entries |-> entries]
List(items)  == [style |-> "list", items |-> items]
Entry(key, value) == [key |-> key, value |-> value]

(* Mutant: the line that ends the block is named.                          *)
BlankFaultAtEnd(at, blanks) == Fault("unexpected-blank", at)

(* Blank lines between a block and the line at that ends it: the first of  *)
(* them is at fault.                                                       *)
BlankFault(at, blanks) == Fault("unexpected-blank", at - blanks)

(* parse_block_lines.  Blank lines count once a line of the block or the   *)
(* end of the file follows.                                                *)
RECURSIVE BlockLines(_, _, _, _)
BlockLines(lines, at, base, blanks) ==
  LET pending == [b \in 1..blanks |-> Empty]
  IN  IF at > Len(lines) THEN Got(pending, at)
      ELSE LET line == lines[at]
               More(block) ==
                 LET next == BlockLines(lines, at + 1, base, 0)
                 IN  IF Faulted(next) THEN next ELSE Got(block \o next.got, next.at)
           IN  CASE IsNothing(line) -> BlockLines(lines, at + 1, base, blanks + 1)
                 [] ~IsNothing(line) /\ line.lead >= base ->
                      IF IsBlank(line) /\ line.lead = base
                        THEN Fault("unexpected-blank", at)
                        ELSE More(Append(pending, [line EXCEPT !.lead = @ - base]))
                 [] ~IsNothing(line) /\ line.lead < base ->
                      IF blanks > 0 THEN BlankFault(at, blanks) ELSE Got(<<>>, at)

RECURSIVE ParseMap(_, _, _), ParseEntry(_, _, _, _), ParseList(_, _, _)

(* parse_map: the entries at indent; a line further left ends them.        *)
ParseMap(lines, at, indent) ==
  IF at > Len(lines) THEN Got(<<>>, at)
  ELSE LET line == lines[at]
       IN  CASE IsBlank(line)                          -> Fault("unexpected-blank", at)
             [] ~IsBlank(line) /\ line.lead < indent   -> Got(<<>>, at)
             [] ~IsBlank(line) /\ line.lead > indent   -> Fault("bad-indent", at)
             [] ~IsBlank(line) /\ line.lead = indent   ->
                  IF line.dash THEN Fault("bad-structure", at)
                  ELSE IF line.word = Tab THEN Fault("tab-indent", at)
                  ELSE LET entry == ParseEntry(lines, line, at, indent)
                       IN  IF Faulted(entry) THEN entry
                           ELSE Then(entry, entry.got, ParseMap(lines, entry.at, indent))

(* parse_entry, for an entry on line number at, whose text is t.  Behind a *)
(* dash a tab is part of the key.                                          *)
ParseEntry(lines, t, at, indent) ==
  IF ~LooksLikeEntry(t) THEN Fault("bad-structure", at)
  ELSE LET Is(value, next) == Got(Entry(t.word, value), next)
           InMap(r)  == IF Faulted(r) THEN r ELSE Is(Map(r.got), r.at)
           InList(r) == IF Faulted(r) THEN r ELSE Is(List(r.got), r.at)
           InBlock(r) == IF Faulted(r) THEN r ELSE Is(Block(t.rest, r.got), r.at)
           Starts(form) == t.rest.form = form /\ t.rest.lead = 0 /\ ~t.rest.dash
           next == lines[at + 1]
       IN  IF t.form = "pair"
             THEN IF Starts("quoted") THEN Is(Quoted(t.rest.rest), at + 1)
                  ELSE IF Starts("bar") THEN InBlock(BlockLines(lines, at + 1, indent + 2, 0))
                  ELSE Is(Plain(t.rest), at + 1)
             ELSE IF at = Len(lines) THEN Is(PlainBare, at + 1)
                  ELSE IF next.dash /\ next.lead = indent
                         THEN InList(ParseList(lines, at + 1, indent))
                  ELSE IF ~next.dash /\ next.lead = indent + 2 /\ LooksLikeEntry(next)
                         THEN InMap(ParseMap(lines, at + 1, indent + 2))
                  ELSE Is(PlainBare, at + 1)

(* parse_list: an item is an entry behind the dash and the map below it.   *)
ParseList(lines, at, indent) ==
  IF at > Len(lines) THEN Got(<<>>, at)
  ELSE LET line == lines[at]
       IN  IF IsBlank(line) \/ line.lead # indent \/ ~line.dash THEN Got(<<>>, at)
           ELSE LET first == ParseEntry(lines, line, at, indent + 2)
                    below == ParseMap(lines, first.at, indent + 2)
                IN  IF Faulted(first)
                      THEN IF first.fault = "bad-structure" /\ first.at = at
                             THEN Fault("bad-list-item", at) ELSE first
                    ELSE IF Faulted(below) THEN below
                    ELSE Then(below, <<first.got>> \o below.got,
                              ParseList(lines, below.at, indent))

(* parse: what cannot be read is looked at before what cannot be parsed.   *)
Parse(file) ==
  LET root == ParseMap(file.lines, 2, 0)
  IN  IF file.utf8 # 0 THEN Fault("utf8", file.utf8)
      ELSE IF file.odd # 0 THEN Fault("mixed-newlines", file.odd)
      ELSE IF file.lines[1] # Marker THEN Fault("missing-doc-marker", 1)
      ELSE IF Faulted(root) THEN root
      ELSE Got([bom |-> file.bom, crlf |-> file.crlf, trailing |-> file.trailing,
                root |-> root.got], root.at)

-----------------------------------------------------------------------------
RECURSIVE EmitEntry(_, _)

EmitEntries(entries, indent) ==
  FlattenSeq([i \in DOMAIN entries |-> EmitEntry(entries[i], indent)])

(* Mutant: the dash goes where the item's entries are.                     *)
EmitItemIndented(item, indent) ==
  LET lines == EmitEntries(item, indent + 2)
  IN  [lines EXCEPT ![1] = Dashed(@)]

(* The dash takes the place of the first two spaces of an item.            *)
EmitItem(item, indent) ==
  LET lines == EmitEntries(item, indent + 2)
  IN  IF lines = <<>> THEN <<>>
      ELSE [lines EXCEPT ![1] = Dashed(Indented(@, -2))]

(* emit_entry                                                              *)
EmitEntry(entry, indent) ==
  LET value       == entry.value
      Keyed(rest) == Indented(Pair(entry.key, rest), indent)
      Bare        == Indented(BareKey(entry.key), indent)
      Padded(t)   == IF IsNothing(t) THEN t ELSE Indented(t, indent + 2)
  IN  CASE value.style = "plain"  -> <<Keyed(value.text)>>
        [] value.style = "bare"   -> <<Bare>>
        [] value.style = "quoted" -> <<Keyed(Quote(value.text))>>
        [] value.style = "block"  ->
             <<Keyed(value.header)>>
               \o [i \in DOMAIN value.lines |-> Padded(value.lines[i])]
        [] value.style = "map"    -> <<Bare>> \o EmitEntries(value.entries, indent + 2)
        [] value.style = "list"   ->
             <<Bare>> \o FlattenSeq([i \in DOMAIN value.items |->
                                       EmitItem(value.items[i], indent)])

(* emit.  A last line that is empty and has no end is no line: its bytes   *)
(* are those of a file whose line before it has an end.                    *)
Emit(doc) ==
  LET lines == <<Marker>> \o EmitEntries(doc.root, 0)
      cut   == ~doc.trailing /\ Len(lines) > 1 /\ IsNothing(Last(lines))
  IN  File(doc.bom, doc.crlf, doc.trailing \/ cut, IF cut THEN Front(lines) ELSE lines)

-----------------------------------------------------------------------------
(* A value is its lines, at least one.                                     *)
RECURSIVE HasEscape(_)
HasEscape(t) ==
  \/ t.form \in {"quoted", "escape"}
  \/ t.form = "pair" /\ HasEscape(t.rest)

(* Ends in a space, a colon, or has ": " in it.                            *)
EndsInSpace(t) == t.form = "empty" /\ (t.lead > 0 \/ t.dash)
NeedsQuotes(t) ==
  \/ t.lead > 0 \/ t.dash \/ t.form \in {"bar", "marker"}
  \/ LooksLikeEntry(t) \/ EndsInSpace(t)

(* Mutant: a value that starts like a block is written plain.              *)
ScalarForUnquoted(value) ==
  LET t == value[1]
  IN  IF Len(value) > 1 \/ HasEscape(t) THEN Block(Bar, value)
      ELSE IF t = Empty \/ LooksLikeEntry(t) THEN Quoted(t)
      ELSE Plain(t)

(* scalar_for_new_value                                                    *)
ScalarFor(value) ==
  LET t == value[1]
  IN  IF Len(value) > 1 \/ HasEscape(t) THEN Block(Bar, value)
      ELSE IF t = Empty \/ NeedsQuotes(t) THEN Quoted(t)
      ELSE Plain(t)

(* Scalar::value                                                           *)
ValueOf(scalar) ==
  CASE scalar.style \in {"plain", "quoted"} -> <<scalar.text>>
    [] scalar.style = "bare"                -> <<Empty>>
    [] scalar.style = "block"               ->
         IF scalar.lines = <<>> THEN <<Empty>> ELSE scalar.lines
=============================================================================
