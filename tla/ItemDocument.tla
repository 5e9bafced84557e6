---------------------------- MODULE ItemDocument ----------------------------
(***************************************************************************)
(* A serialized item (treesmith-format/src/item.rs): lists in the order of *)
(* the file.  Each list has a key: field ids, language codes, version      *)
(* numbers.  Of a key only equality and order matter, so keys are numbers. *)
(* A list in a file need not be sorted, and a key can be there twice.      *)
(***************************************************************************)
EXTENDS Integers, Sequences, SequencesExt

CONSTANTS FieldIds, Languages, MaxVersion,
          Types,    \* classes of field types
          Names,    \* of fields, for Hint:
          Values,   \* what can be stored
          Absent    \* no Hint:, no Type:, no value

Versions == 1..MaxVersion

ASSUME KeysAssumption ==
  /\ FieldIds \subseteq Nat /\ Languages \subseteq Nat /\ MaxVersion \in Nat \ {0}
  /\ Absent \notin Values

Field ==
  [key : FieldIds, hint : Names \cup {Absent}, type : Types \cup {Absent},
   blob : BOOLEAN, value : Values]
Version  == [key : Versions, fields : Seq(Field)]
Language == [key : Languages, fields : Seq(Field), versions : Seq(Version)]
Document == [shared : Seq(Field), languages : Seq(Language)]

SharedSlot == [kind |-> "shared"]
Slots ==
  {SharedSlot}
    \cup [kind : {"unversioned"}, language : Languages]
    \cup [kind : {"versioned"}, language : Languages, version : Versions]

-----------------------------------------------------------------------------
(* The first place of a key in a list, 0 if it has none.                   *)
Places(list, k) == {i \in DOMAIN list : list[i].key = k}
Least(S) == CHOOSE i \in S : \A j \in S : i <= j
At(list, k) == IF Places(list, k) = {} THEN 0 ELSE Least(Places(list, k))

(* Mutant: new entries come last.                                          *)
InsertKeyedLast(list, e) == Append(list, e)

(* A new entry comes before the first one with a greater key.              *)
InsertKeyed(list, e) ==
  LET greater == {i \in DOMAIN list : list[i].key > e.key}
  IN  IF greater = {} THEN Append(list, e) ELSE InsertAt(list, Least(greater), e)

Ensure(list, e) == IF At(list, e.key) = 0 THEN InsertKeyed(list, e) ELSE list

(* The fields of a slot, as every reader finds them: the first block of a  *)
(* language and its first version of a number are the ones that count.     *)
FieldsIn(doc, slot) ==
  IF slot.kind = "shared" THEN doc.shared
  ELSE LET l == At(doc.languages, slot.language)
       IN  IF l = 0 THEN <<>>
           ELSE IF slot.kind = "unversioned" THEN doc.languages[l].fields
           ELSE LET versions == doc.languages[l].versions
                    v        == At(versions, slot.version)
                IN  IF v = 0 THEN <<>> ELSE versions[v].fields

(* read_slot_value                                                         *)
ReadSlot(doc, slot, id) ==
  LET fields == FieldsIn(doc, slot)
      at     == At(fields, id)
  IN  IF at = 0 THEN Absent ELSE fields[at].value

VersionsOf(doc, language) ==
  LET l == At(doc.languages, language)
  IN  IF l = 0 THEN {}
      ELSE {doc.languages[l].versions[i].key : i \in DOMAIN doc.languages[l].versions}

(* The lists of fields with their slots, and where find_field comes by:    *)
(* shared, then language by language, unversioned before versions.         *)
Blocks(doc) ==
  {[slot |-> SharedSlot, rank |-> <<0, 0, 0, 0>>, fields |-> doc.shared]}
    \cup UNION {
      LET block == doc.languages[l]
      IN  {[slot |-> [kind |-> "unversioned", language |-> block.key],
            rank |-> <<block.key + 1, l, 0, 0>>, fields |-> block.fields]}
            \cup {[slot |-> [kind |-> "versioned", language |-> block.key,
                             version |-> block.versions[v].key],
                   rank |-> <<block.key + 1, l, block.versions[v].key, v>>,
                   fields |-> block.versions[v].fields] : v \in DOMAIN block.versions}
      : l \in DOMAIN doc.languages}

ComesBefore(a, b) == \E k \in 1..4 : a[k] < b[k] /\ \A m \in 1..(k - 1) : a[m] = b[m]

Holding(doc, id) == {b \in Blocks(doc) : At(b.fields, id) # 0}

(* find_field, for a field that is there.                                  *)
FindField(doc, id) ==
  CHOOSE b \in Holding(doc, id) :
    \A c \in Holding(doc, id) \ {b} : ComesBefore(b.rank, c.rank)

(* What definition_value reads of an item: of each block of a language its *)
(* highest version, the last one if there are several.                     *)
Current(doc) ==
  {b \in Blocks(doc) :
     b.slot.kind = "versioned" =>
       \A c \in Blocks(doc) :
         c.slot.kind = "versioned" /\ c.rank[2] = b.rank[2] => ~ComesBefore(b.rank, c.rank)}

(* Mutant: in the order of find_field.                                     *)
DefinitionValueAsFound(doc, id) ==
  LET holding == {b \in Current(doc) : At(b.fields, id) # 0}
      first   == CHOOSE b \in holding : \A c \in holding \ {b} : ComesBefore(b.rank, c.rank)
  IN  IF holding = {} THEN Absent ELSE first.fields[At(first.fields, id)].value

(* definition_value (treesmith-template): how the template index reads the *)
(* items that define fields; every unversioned field before any version.   *)
DefinitionValue(doc, id) ==
  LET holding == {b \in Current(doc) : At(b.fields, id) # 0}
      Late(b) == b.slot.kind = "versioned"
      first   == CHOOSE b \in holding : \A c \in holding \ {b} :
                   IF Late(b) = Late(c) THEN ComesBefore(b.rank, c.rank) ELSE Late(c)
  IN  IF holding = {} THEN Absent ELSE first.fields[At(first.fields, id)].value

IsBlob(doc, slot, id) ==
  LET fields == FieldsIn(doc, slot)
  IN  At(fields, id) # 0 /\ fields[At(fields, id)].blob

-----------------------------------------------------------------------------
(* Mutant: a field that is written moves to where it would be inserted.    *)
SetInListAnew(fields, id, hint, type, value) ==
  LET others == SelectSeq(fields, LAMBDA f : f.key # id)
      at     == At(fields, id)
  IN  InsertKeyed(others,
        [key |-> id, hint |-> IF at = 0 THEN hint ELSE fields[at].hint,
         type |-> IF at > 0 /\ type = Absent THEN fields[at].type ELSE type,
         blob |-> at > 0 /\ fields[at].blob, value |-> value])

(* Of an existing field the value changes, and the type if one is stamped. *)
SetInList(fields, id, hint, type, value) ==
  LET at == At(fields, id)
  IN  IF at = 0
        THEN InsertKeyed(fields, [key |-> id, hint |-> hint, type |-> type,
                                  blob |-> FALSE, value |-> value])
        ELSE [fields EXCEPT ![at].value = value,
                            ![at].type = IF type = Absent THEN @ ELSE type]

EnsureLanguage(languages, language) ==
  Ensure(languages, [key |-> language, fields |-> <<>>, versions |-> <<>>])

(* Mutant: a new version starts as a copy of the one before it.            *)
EnsureVersionCopied(languages, language, version) ==
  LET ensured == EnsureLanguage(languages, language)
      l       == At(ensured, language)
      older   == {i \in DOMAIN ensured[l].versions : ensured[l].versions[i].key < version}
      fields  == IF older = {} THEN <<>>
                 ELSE ensured[l].versions[CHOOSE i \in older : \A j \in older : j <= i].fields
  IN  [ensured EXCEPT ![l].versions = Ensure(@, [key |-> version, fields |-> fields])]

EnsureVersion(languages, language, version) ==
  LET ensured == EnsureLanguage(languages, language)
      l       == At(ensured, language)
  IN  [ensured EXCEPT ![l].versions = Ensure(@, [key |-> version, fields |-> <<>>])]

(* ParsedItem::set_field, with the scaffolding it creates.                 *)
SetField(doc, slot, id, hint, type, value) ==
  LET Set(fields) == SetInList(fields, id, hint, type, value)
  IN  CASE slot.kind = "shared" -> [doc EXCEPT !.shared = Set(@)]
        [] slot.kind = "unversioned" ->
             LET languages == EnsureLanguage(doc.languages, slot.language)
                 l         == At(languages, slot.language)
             IN  [doc EXCEPT !.languages = [languages EXCEPT ![l].fields = Set(@)]]
        [] slot.kind = "versioned" ->
             LET languages == EnsureVersion(doc.languages, slot.language, slot.version)
                 l         == At(languages, slot.language)
                 v         == At(languages[l].versions, slot.version)
             IN  [doc EXCEPT !.languages =
                    [languages EXCEPT ![l].versions[v].fields = Set(@)]]

-----------------------------------------------------------------------------
(* remove_field_from_list takes every field of that id.                    *)
Without(fields, id) ==
  LET Keep(kept, f) == IF f.key = id THEN kept ELSE Append(kept, f)
  IN  FoldLeft(Keep, <<>>, fields)

(* Mutant: a version stays when its last field goes.                       *)
PruneVersionNever(versions, v) == versions

(* A version without fields goes, the number v of the list.                *)
PruneVersion(versions, v) ==
  IF versions[v].fields = <<>> THEN RemoveAt(versions, v) ELSE versions

(* So does a language without fields and versions.                         *)
PruneLanguage(languages, language) ==
  LET l == At(languages, language)
  IN  IF languages[l].fields = <<>> /\ languages[l].versions = <<>>
        THEN RemoveAt(languages, l) ELSE languages

(* ParsedItem::remove_field.  A slot that is not there is left alone; one  *)
(* that is there is pruned whether the field was in it or not.             *)
RemoveField(doc, slot, id) ==
  LET l == IF slot.kind = "shared" THEN 0 ELSE At(doc.languages, slot.language)
      v == IF slot.kind # "versioned" \/ l = 0 THEN 0
           ELSE At(doc.languages[l].versions, slot.version)
  IN  CASE slot.kind = "shared" -> [doc EXCEPT !.shared = Without(@, id)]
        [] slot.kind = "unversioned" /\ l # 0 ->
             LET rest == [doc.languages EXCEPT ![l].fields = Without(@, id)]
             IN  [doc EXCEPT !.languages = PruneLanguage(rest, slot.language)]
        [] slot.kind = "versioned" /\ v # 0 ->
             LET rest == [doc.languages[l].versions EXCEPT ![v].fields = Without(@, id)]
             IN  [doc EXCEPT !.languages =
                    PruneLanguage([@ EXCEPT ![l].versions = PruneVersion(rest, v)],
                                  slot.language)]
        [] OTHER -> doc
=============================================================================
