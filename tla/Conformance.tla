----------------------------- MODULE Conformance -----------------------------
(***************************************************************************)
(* The gates that look at an item by itself (treesmith-gate), on the item  *)
(* that FieldWrite writes: G5, where its values point; G6, what its        *)
(* template has to say about each field; G7, which languages it must have. *)
(*                                                                         *)
(* Findings about the template and its bases do not depend on the document *)
(* and are left out.  A finding keeps what tells it from others: its code, *)
(* the field and the slot or the language; findings are a set, since the   *)
(* driver removes duplicates.                                              *)
(***************************************************************************)
EXTENDS FieldWrite

CONSTANTS Serialized,   \* what a GUID names and the graph has
          Policy,       \* languages an item in scope must have, or NoPolicy
          NoPolicy,
          Disabled,     \* gates the configuration turns off
          AllGates      \* no gate was named

(* The effective fields of a template have each id once (TemplateChain).   *)
ASSUME GatesAssumption ==
  /\ Serialized \subseteq Nat /\ (Policy = NoPolicy \/ Policy \subseteq Languages)
  /\ \A s \in Schemas : \A i, j \in DOMAIN s : s[i].id = s[j].id => i = j

Finding(code, slot, id) == [code |-> code, slot |-> slot, field |-> id]

(* all_fields: every serialized field, also of repeated blocks, with the   *)
(* number of its block and its place there.                                *)
AllFields(d) ==
  UNION {{[slot |-> b.slot, rank |-> Append(b.rank, i), field |-> b.fields[i]] :
            i \in DOMAIN b.fields} : b \in Blocks(d)}

(* Exempt from conformance.  The gate's list has the fields of the write   *)
(* path's list and more.                                                   *)
IsWellKnown(id) == \E i \in DOMAIN WellKnown : WellKnown[i].id = id

Defines(id) == \E i \in DOMAIN schema : schema[i].id = id
FieldById(id) == schema[Least({i \in DOMAIN schema : schema[i].id = id})]

Repeated(all, f) ==
  \E g \in all \ {f} : g.slot = f.slot /\ g.field.key = f.field.key

(* What G6 finds for one of all the serialized fields.                     *)
FindingsOn(all, f) ==
  LET id == f.field.key
  IN  IF IsWellKnown(id) THEN {}
      ELSE IF ~Defines(id) THEN {Finding("unknown-field", f.slot, id)}
      ELSE (IF Repeated(all, f) THEN {Finding("duplicate-field", f.slot, id)} ELSE {})
             \cup (IF FieldById(id).section # f.slot.kind
                     THEN {Finding("wrong-section", f.slot, id)} ELSE {})
             \cup (IF ~Valid(FieldById(id).type, f.field.value)
                     THEN {Finding("invalid-value", f.slot, id)} ELSE {})

(* g6_conformance: the fields of an item without a template, or whose      *)
(* template is not serialized, are not looked at.                          *)
Findings(d) ==
  LET all == AllFields(d)
  IN  IF schema = <<>> THEN {} ELSE UNION {FindingsOn(all, f) : f \in all}

(* effective_field_type: what the file says counts where no definition does. *)
EffectiveType(field) == IF Defines(field.key) THEN FieldById(field.key).type ELSE field.type

(* What G5 finds for a value: GUIDs that name nothing, text that is none.  *)
(* A link counts if it is an internal one.                                 *)
Pointers(type, v) ==
  CASE type \in {"multilist", "reference"} ->
         IF v.is \in {"guid", "guids", "piped guids"}
           THEN IF v.text \in Serialized THEN {} ELSE {"broken-reference"}
         ELSE IF v.is = "empty" THEN {} ELSE {"invalid-guid-token"}
    [] type = "link" ->
         IF v.is = "link" /\ v.text \notin Serialized THEN {"broken-reference"}
         ELSE IF v.is = "stray link" THEN {"invalid-guid-token"} ELSE {}
    [] OTHER -> {}

(* g5_field_refs                                                           *)
BrokenPointers(d) ==
  UNION {{Finding(code, f.slot, f.field.key) :
            code \in Pointers(EffectiveType(f.field), f.field.value)} : f \in AllFields(d)}

(* The languages an item has versions in, in any of its blocks.            *)
Present(d) == {l.key : l \in {m \in Range(d.languages) : m.versions # <<>>}}

(* g7_languages: an item without a version is not asked for any.           *)
MissingLanguages(d) ==
  IF Present(d) = {} THEN {}
  ELSE {[code |-> "missing-language", language |-> l] : l \in Policy \ Present(d)}

(* run_selected: gates that were named run although they are disabled, and *)
(* G7 only with a policy.                                                  *)
Selected(gate, named) ==
  /\ IF named = AllGates THEN gate \notin Disabled ELSE gate \in named
  /\ gate = "G7" => Policy # NoPolicy

Report(d, named) ==
  (IF Selected("G5", named) THEN BrokenPointers(d) ELSE {})
    \cup (IF Selected("G6", named) THEN Findings(d) ELSE {})
    \cup (IF Selected("G7", named) THEN MissingLanguages(d) ELSE {})

-----------------------------------------------------------------------------
(* What set-field accepts, the gates accept: a write adds no finding but   *)
(* for what its value points to, there where it wrote, and the languages   *)
(* still to come when it makes the first version of an item; and where it  *)
(* wrote it leaves no finding, unless the file has the field there twice.  *)
(* The two sides decide separately what a field is, where it belongs and   *)
(* which values it takes (kernel/write.rs, gate/gates.rs); that a          *)
(* well-known field is another type to them, by what a template or the     *)
(* file says, is possible, and then G5 reads the value as what it is not.  *)
(* Not so in a file with a block twice, where the value goes to the first  *)
(* block and may then be in both.                                          *)
WritesConform ==
  [][outcome' = "written" /\ NoBlockTwice(doc) =>
       LET before  == Report(doc, AllGates)
           slot    == SlotFor(request')
           id      == Target(request').id
           type    == Target(request').type
           fields  == FieldsIn(doc', slot)
           Written == {i \in DOMAIN fields : fields[i].key = id}
           Twice   == \E i, j \in Written : i # j
           Misread == /\ IsWellKnown(id)
                      /\ \E i \in Written : EffectiveType(fields[i]) \notin {type, Absent}
           Points  == IF type = "link" \/ Misread THEN {"broken-reference", "invalid-guid-token"}
                      ELSE IF type \in {"multilist", "reference"} THEN {"broken-reference"}
                      ELSE {}
       IN  \A x \in Report(doc', AllGates) :
             IF x.code = "missing-language" THEN x \in before \/ Present(doc) = {}
             ELSE \/ x \in before /\ (Twice \/ x.slot # slot \/ x.field # id)
                  \/ x.slot = slot /\ x.field = id /\ x.code \in Points]_vars
=============================================================================
