----------------------------- MODULE FieldWrite -----------------------------
(***************************************************************************)
(* set-field on one item (treesmith-kernel, set_field and write.rs): the   *)
(* field a designator means, the slot its definition says, the value as it *)
(* is stored, and the document with the value in that slot.                *)
(*                                                                         *)
(* Every document of this model survives emit and parse, so the self-check *)
(* before the write never fails here.                                      *)
(***************************************************************************)
EXTENDS ItemDocument

CONSTANTS WellKnown,    \* system fields that need no definition
          Schemas,      \* effective fields of a template, in chain order
          Documents,    \* the documents a run starts from
          Requests,     \* what a run asks for
          English,      \* the language if none is given
          NotGiven,     \* no --language, no --version
          MaxRequests

(* A field definition.  An id and a name are both designators.             *)
Definition ==
  [id : FieldIds, name : Names, type : Types,
   section : {"shared", "unversioned", "versioned"}]

(* What a field can be given: is tells what it looks like, newline whether *)
(* one is at its end.  The text of GUIDs and of an internal link is the    *)
(* item they name; a stray link names none.                                *)
Forms ==
  {"empty", "one", "guid", "guids", "piped guids", "markup", "link", "stray link", "other"}

Request ==
  [field : FieldIds \cup Names, value : Values,
   language : Languages \cup {NotGiven}, version : Versions \cup {NotGiven},
   create : BOOLEAN]

ASSUME RequestsAssumption ==
  /\ FieldIds \cap Names = {} /\ NotGiven \notin Languages \cup Versions
  /\ English \in Languages /\ MaxRequests \in Nat
  /\ Types = {"multilist", "reference", "layout", "link", "checkbox", "text"} /\ Absent \notin Types \cup Names
  /\ Values \subseteq [is : Forms, text : Nat, newline : BOOLEAN]
  /\ \A v \in Values : v.is = "piped guids" =>
       [v EXCEPT !.is = "guids", !.newline = FALSE] \in Values
  /\ \A v \in Values : [v EXCEPT !.newline = FALSE] \in Values
  /\ WellKnown \in Seq(Definition) /\ Schemas \subseteq Seq(Definition)
  /\ Documents \subseteq Document /\ Requests \subseteq Request

VARIABLES
  doc,       \* the item, in its file and in the graph
  schema,    \* the fields of its template and the bases
  request,   \* the last request
  outcome,   \* and what became of it
  served     \* how many requests there were

vars == <<doc, schema, request, outcome, served>>

NoRequest == [field |-> Absent]

Init ==
  /\ doc \in Documents
  /\ schema \in Schemas
  /\ request = NoRequest
  /\ outcome = "none"
  /\ served = 0

-----------------------------------------------------------------------------
(* resolve_field: the template's fields go before the well-known ones.     *)
Known == schema \o WellKnown
Meant(designator) == {i \in DOMAIN Known : designator \in {Known[i].id, Known[i].name}}
First(designator) == Known[Least(Meant(designator))]

Resolves(r) == Meant(r.field) # {}
Target(r)   == First(r.field)

GivenOr(given, default) == IF given = NotGiven THEN default ELSE given

Greatest(S) == CHOOSE i \in S : \A j \in S : j <= i

(* Mutant: the version that was serialized last is taken for the latest.   *)
VersionForLast(r) ==
  LET language == GivenOr(r.language, English)
      l        == At(doc.languages, language)
  IN  IF r.version # NotGiven THEN r.version
      ELSE IF VersionsOf(doc, language) # {}
             THEN Last(doc.languages[l].versions).key
      ELSE 1

(* Mutant: a write makes a version of its own.                             *)
VersionForNew(r) ==
  LET existing == VersionsOf(doc, GivenOr(r.language, English))
  IN  IF r.version # NotGiven THEN r.version
      ELSE IF existing # {} THEN Greatest(existing) + 1
      ELSE 1

(* The version a write to a versioned field goes to.                       *)
VersionFor(r) ==
  LET existing == VersionsOf(doc, GivenOr(r.language, English))
  IN  IF r.version # NotGiven THEN r.version
      ELSE IF existing # {} THEN Greatest(existing)
      ELSE 1

(* slot_for refuses what the section of the field has no place for, and a  *)
(* first version nobody wants created.                                     *)
SlotFits(r) ==
  CASE Target(r).section = "shared" -> r.language = NotGiven /\ r.version = NotGiven
    [] Target(r).section = "unversioned" -> r.version = NotGiven
    [] Target(r).section = "versioned" ->
         r.version # NotGiven \/ r.create \/ VersionsOf(doc, GivenOr(r.language, English)) # {}

(* Mutant: a value goes where the field has one.                           *)
SlotForCurrent(r) ==
  LET language == GivenOr(r.language, English)
      id       == Target(r).id
  IN  IF Holding(doc, id) # {} THEN FindField(doc, id).slot
      ELSE CASE Target(r).section = "shared" -> SharedSlot
             [] Target(r).section = "unversioned" ->
                  [kind |-> "unversioned", language |-> language]
             [] Target(r).section = "versioned" ->
                  [kind |-> "versioned", language |-> language, version |-> VersionFor(r)]

SlotFor(r) ==
  LET language == GivenOr(r.language, English)
  IN  CASE Target(r).section = "shared" -> SharedSlot
        [] Target(r).section = "unversioned" ->
             [kind |-> "unversioned", language |-> language]
        [] Target(r).section = "versioned" ->
             [kind |-> "versioned", language |-> language, version |-> VersionFor(r)]

(* prepare_value: GUID lists are stored one GUID a line.                   *)
Prepared(type, v) ==
  IF type = "multilist" /\ v.is \in {"guid", "guids", "piped guids", "empty"}
    THEN [v EXCEPT !.is = IF @ = "piped guids" THEN "guids" ELSE @, !.newline = FALSE]
    ELSE v

(* validate_value: markup and links are not its concern.                   *)
Valid(type, v) ==
  /\ type = "multilist" => v.is \in {"guid", "guids", "piped guids", "empty"}
  /\ type = "reference" => v.is = "guid" \/ (v.is = "empty" /\ ~v.newline)
  /\ type = "checkbox"  => v.is \in {"one", "empty"} /\ ~v.newline

(* Mutant: only markup is checked before a write.                          *)
AcceptedUnchecked(type, v) ==
  /\ type = "layout" => v.is \in {"markup", "empty"}
  /\ ~Prepared(type, v).newline

Accepted(type, v) ==
  /\ Valid(type, Prepared(type, v))
  /\ type = "layout" => v.is \in {"markup", "empty"}
  /\ ~Prepared(type, v).newline

(* Values of the formatted types carry their type.                         *)
Stamp(type) == IF type \in {"multilist", "layout"} THEN type ELSE Absent

(* Mutant: no check for blobs.                                             *)
BlobBlocksNever(r) == FALSE

(* The field is looked up by its id alone and found where it is first.     *)
BlobBlocks(r) ==
  LET id    == Target(r).id
      found == FindField(doc, id)
  IN  /\ Holding(doc, id) # {}
      /\ found.slot = SlotFor(r)
      /\ found.fields[At(found.fields, id)].blob

-----------------------------------------------------------------------------
Refuse(r, code) ==
  /\ request' = r
  /\ outcome' = code
  /\ served' = served + 1
  /\ UNCHANGED <<doc, schema>>

RefuseField(r) ==
  /\ ~Resolves(r)
  /\ Refuse(r, "unknown-field")

RefuseSlot(r) ==
  /\ Resolves(r) /\ ~SlotFits(r)
  /\ Refuse(r, "no-slot")

RefuseValue(r) ==
  /\ Resolves(r) /\ SlotFits(r) /\ ~Accepted(Target(r).type, r.value)
  /\ Refuse(r, "invalid-value")

RefuseBlob(r) ==
  /\ Resolves(r) /\ SlotFits(r) /\ Accepted(Target(r).type, r.value) /\ BlobBlocks(r)
  /\ Refuse(r, "blob-unsupported")

Write(r) ==
  /\ Resolves(r) /\ SlotFits(r) /\ Accepted(Target(r).type, r.value) /\ ~BlobBlocks(r)
  /\ LET t == Target(r)
     IN  doc' = SetField(doc, SlotFor(r), t.id, t.name, Stamp(t.type),
                         Prepared(t.type, r.value))
  /\ request' = r
  /\ outcome' = "written"
  /\ served' = served + 1
  /\ UNCHANGED schema

Serve(r) ==
  /\ served < MaxRequests
  /\ RefuseField(r) \/ RefuseSlot(r) \/ RefuseValue(r) \/ RefuseBlob(r) \/ Write(r)

Next == \E r \in Requests : Serve(r)

Spec == Init /\ [][Next]_vars

-----------------------------------------------------------------------------
TypeOK ==
  /\ doc \in Document
  /\ schema \in Schemas
  /\ request \in Requests \cup {NoRequest}
  /\ outcome \in {"none", "unknown-field", "no-slot", "invalid-value", "blob-unsupported",
                  "written"}
  /\ served \in 0..MaxRequests

(* What a reader sees of the document.                                     *)
Contents == Values \cup {Absent}

Cells == Slots \X FieldIds

Store == INSTANCE FieldStore
           WITH values <- [cell \in Cells |-> ReadSlot(doc, cell[1], cell[2])]

(* A request changes the value of one field in one slot or nothing: no     *)
(* other language, version, section or field reads differently afterwards, *)
(* also where scaffolding was created and where a file has a field, a      *)
(* version or a language twice.                                            *)
WritesOneValue == Store!Spec

(* What the template index reads of an item before another: the section,   *)
(* the language, and of the versions the highest.                          *)
ReadBefore(d, one, other) ==
  CASE one.kind = "shared" -> other.kind # "shared"
    [] one.kind = "unversioned" ->
         other.kind = "versioned" \/ (other.kind = "unversioned" /\ one.language < other.language)
    [] one.kind = "versioned" ->
         /\ other.kind = "versioned" /\ one.language < other.language
         /\ one.version = Greatest(VersionsOf(d, one.language))

(* A language or a version of a language that the file has twice.          *)
NoBlockTwice(d) == \A b, c \in Blocks(d) : b.slot = c.slot => b = c

(* Templates are items too: what is written to one is what the index reads *)
(* of it at the next refresh (definition_value, template/lib.rs:283), if   *)
(* it is not an older version and the field has no place that is read      *)
(* before; and what else the index reads is as it was, unless the write    *)
(* made a version, which hides the fields of the one before.  The index    *)
(* has its own order of places, not that of find_field, and of a version   *)
(* that a file has twice it reads the last, where a write goes to the      *)
(* first.                                                                  *)
DefinitionsFollowWrites ==
  [][outcome' = "written" /\ NoBlockTwice(doc) =>
       LET slot    == SlotFor(request')
           id      == Target(request').id
           newest  == slot.kind = "versioned" =>
                        slot.version = Greatest(VersionsOf(doc', slot.language))
           Hides   == slot.kind = "versioned" /\ newest
                        /\ slot.version \notin VersionsOf(doc, slot.language)
       IN  /\ newest
              /\ (\A s \in Slots : ReadSlot(doc, s, id) # Absent => ~ReadBefore(doc', s, slot))
              => DefinitionValue(doc', id) = ReadSlot(doc', slot, id)
           /\ \A other \in FieldIds \ {id} :
                DefinitionValue(doc', other) = DefinitionValue(doc, other) \/ Hides]_vars

(* The lines of a document: heads of languages and versions, and fields.   *)
Lines(d) ==
  LET Line(language, version, fields) ==
        [language |-> language, version |-> version, fields |-> fields]
      Under(language, version, fields) ==
        [i \in DOMAIN fields |-> Line(language, version, <<fields[i]>>)]
      OfVersion(language, version) ==
        <<Line(language, version.key, <<>>)>> \o Under(language, version.key, version.fields)
      OfLanguage(language) ==
        <<Line(language.key, 0, <<>>)>> \o Under(language.key, 0, language.fields)
          \o FlattenSeq([v \in DOMAIN language.versions |->
                           OfVersion(language.key, language.versions[v])])
  IN  Under(-1, 0, d.shared)
        \o FlattenSeq([l \in DOMAIN d.languages |-> OfLanguage(d.languages[l])])

(* A write is one hunk of a diff (docs/cli.md:262): one field is another   *)
(* value, with its name, its blob and its place as they were, or one field *)
(* and the heads it needs are new in one place.  Nothing else moves, in    *)
(* whatever order the file is.                                             *)
OneHunk ==
  [][LET old == Lines(doc)  new == Lines(doc')
         added == Len(new) - Len(old)
     IN  /\ added \in 0..3
         /\ \E i \in 0..Len(old) :
              \/ /\ added > 0
                 /\ SubSeq(new, 1, i) = SubSeq(old, 1, i)
                 /\ SubSeq(new, i + added + 1, Len(new)) = SubSeq(old, i + 1, Len(old))
              \/ /\ added = 0
                 /\ \A k \in DOMAIN old : k # i => new[k] = old[k]
                 /\ new # old =>
                      /\ i > 0 /\ new[i].fields # <<>> /\ old[i].fields # <<>>
                      /\ new[i] = [old[i] EXCEPT !.fields[1].value = new[i].fields[1].value,
                                                 !.fields[1].type = new[i].fields[1].type]
    ]_vars

(* A document in Rainbow's order stays in it: fields by id, languages by   *)
(* code, versions by number.                                               *)
Ascending(list) == \A i, j \in DOMAIN list : i < j => list[i].key < list[j].key
Sorted(d) ==
  /\ Ascending(d.shared) /\ Ascending(d.languages)
  /\ \A l \in Range(d.languages) :
       /\ Ascending(l.fields) /\ Ascending(l.versions)
       /\ \A v \in Range(l.versions) : Ascending(v.fields)

SortedStaysSorted == [][Sorted(doc) => Sorted(doc')]_vars

(* Without a version the latest one is written and history is left alone:  *)
(* no version is made but the first of a language, and none with a later   *)
(* one changes.                                                            *)
DefaultWritesLatest ==
  [][request'.version = NotGiven =>
       \A l \in Languages :
         /\ VersionsOf(doc', l) # VersionsOf(doc, l) =>
              VersionsOf(doc, l) = {} /\ VersionsOf(doc', l) = {1}
         /\ \A v \in Versions, id \in FieldIds :
              LET slot == [kind |-> "versioned", language |-> l, version |-> v]
              IN  (\E later \in VersionsOf(doc, l) : later > v) =>
                    ReadSlot(doc', slot, id) = ReadSlot(doc, slot, id)]_vars

(* A blob-backed field that is the first place of its field is not         *)
(* written, and no write makes or unmakes a blob.                          *)
FirstBlobKept ==
  [][\A slot \in Slots, id \in FieldIds :
       IsBlob(doc, slot, id) =>
         /\ IsBlob(doc', slot, id)
         /\ FindField(doc, id).slot = slot =>
              ReadSlot(doc', slot, id) = ReadSlot(doc, slot, id)]_vars

(* "Blob-backed fields are not writable through set-field"                 *)
(* (kernel/lib.rs:276).                                                    *)
BlobsAreNotWritten ==
  [][\A slot \in Slots, id \in FieldIds :
       IsBlob(doc, slot, id) => ReadSlot(doc', slot, id) = ReadSlot(doc, slot, id)]_vars

(* To repeat a request that was written changes nothing and is no error.   *)
RepeatChangesNothing ==
  [][request' = request /\ outcome = "written" => doc' = doc /\ outcome' = "written"]_vars

(* Rainbow omits empty sections, and so did whoever wrote the document.    *)
NoEmptySection(d) ==
  \A l \in Range(d.languages) :
    /\ l.fields # <<>> \/ l.versions # <<>>
    /\ \A v \in Range(l.versions) : v.fields # <<>>

(* Removal takes back what a write made: the field, and the version and    *)
(* the language that were made for it, and nothing beside them, whatever   *)
(* the order of the document and whatever it has twice.                    *)
RemovalUndoesWrite ==
  [][LET slot == SlotFor(request')
         id   == Target(request').id
     IN  outcome' = "written" /\ At(FieldsIn(doc, slot), id) = 0 /\ NoEmptySection(doc) =>
           RemoveField(doc', slot, id) = doc]_vars
=============================================================================
