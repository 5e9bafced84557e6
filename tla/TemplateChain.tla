--------------------------- MODULE TemplateChain ---------------------------
(***************************************************************************)
(* The template index of treesmith-template and the walk over the base     *)
(* templates of one template.  Base lists come from files anybody edits:   *)
(* they name a template twice, name unknown ones, and form cycles.         *)
(*                                                                         *)
(* walk_chain is recursive.  Its open loops over base lists, innermost     *)
(* first, are one sequence here: what is still to be looked at.            *)
(***************************************************************************)
EXTENDS Integers, Sequences, SequencesExt, Functions

CONSTANTS Guids,    \* what a template or a base list can name
          Fields,   \* ids of field definitions
          Holders,  \* items that can hold standard values
          None,     \* no standard values
          Indexes   \* the indexes a run looks at

(* A definition: the base list, the own fields in section and child order, *)
(* and the item with the standard values.                                  *)
Definitions ==
  [bases : Seq(Guids), fields : Seq(Fields), standard : Holders \cup {None}]

ASSUME IndexesAssumption ==
  \A index \in Indexes :
    /\ DOMAIN index \subseteq Guids
    /\ \A t \in DOMAIN index : index[t] \in Definitions

VARIABLES
  defs,        \* TemplateIndex.defs
  template,    \* the template that is resolved
  pending,     \* the base ids the open loops have still to look at
  chain,       \* the templates met, in order
  unresolved,  \* the unknown bases met, in order
  visited

walkVars == <<defs, template, pending, chain, unresolved, visited>>

Known == DOMAIN defs

(* resolve answers None for a template the index does not know.            *)
WalkInit ==
  /\ defs \in Indexes
  /\ template \in Guids
  /\ pending = IF template \in Known THEN <<template>> ELSE <<>>
  /\ chain = <<>>
  /\ unresolved = <<>>
  /\ visited = {}

Visit ==
  /\ pending # <<>>
  /\ Head(pending) \notin visited
  /\ visited' = visited \cup {Head(pending)}
  /\ UNCHANGED <<defs, template>>

(* Mutant: no cycle guard, a template is only not listed twice.            *)
EnterTemplateUnguarded ==
  /\ pending # <<>>
  /\ Head(pending) \in Known
  /\ chain' = IF Head(pending) \in visited THEN chain ELSE Append(chain, Head(pending))
  /\ visited' = visited \cup {Head(pending)}
  /\ pending' = defs[Head(pending)].bases \o Tail(pending)
  /\ UNCHANGED <<defs, template, unresolved>>

(* Mutant: a stack in place of the recursion, the last base comes first.   *)
EnterTemplateStacked ==
  /\ Visit
  /\ Head(pending) \in Known
  /\ chain' = Append(chain, Head(pending))
  /\ pending' = Reverse(defs[Head(pending)].bases) \o Tail(pending)
  /\ UNCHANGED unresolved

EnterTemplate ==
  /\ Visit
  /\ Head(pending) \in Known
  /\ chain' = Append(chain, Head(pending))
  /\ pending' = defs[Head(pending)].bases \o Tail(pending)
  /\ UNCHANGED unresolved

(* Mutant: the walk gives up at an unknown base.                           *)
NoteUnresolvedAndStop ==
  /\ Visit
  /\ Head(pending) \notin Known
  /\ unresolved' = Append(unresolved, Head(pending))
  /\ pending' = <<>>
  /\ UNCHANGED chain

NoteUnresolved ==
  /\ Visit
  /\ Head(pending) \notin Known
  /\ unresolved' = Append(unresolved, Head(pending))
  /\ pending' = Tail(pending)
  /\ UNCHANGED chain

SkipVisited ==
  /\ pending # <<>>
  /\ Head(pending) \in visited
  /\ pending' = Tail(pending)
  /\ UNCHANGED <<defs, template, chain, unresolved, visited>>

WalkNext == EnterTemplate \/ NoteUnresolved \/ SkipVisited

WalkSpec == WalkInit /\ [][WalkNext]_walkVars

Walked == pending = <<>>

(* The fields of a template and its bases, the first definition kept.      *)
OwnFields(t) ==
  [i \in DOMAIN defs[t].fields |-> [id |-> defs[t].fields[i], defined_by |-> t]]

(* Mutant: the last definition of a field is kept.                         *)
KeepLast(fields, f) ==
  Append(SelectSeq(fields, LAMBDA g : g.id # f.id), f)

KeepFirst(fields, f) ==
  IF \E i \in DOMAIN fields : fields[i].id = f.id THEN fields ELSE Append(fields, f)

EffectiveFields ==
  FoldLeft(KeepFirst, <<>>, FlattenSeq([i \in DOMAIN chain |-> OwnFields(chain[i])]))

(* Standard values, derived templates first.                               *)
AddStandard(values, t) ==
  IF defs[t].standard = None THEN values ELSE Append(values, defs[t].standard)

StdValuesChain == FoldLeft(AddStandard, <<>>, chain)

-----------------------------------------------------------------------------
WalkTypeOK ==
  /\ DOMAIN defs \subseteq Guids /\ \A t \in Known : defs[t] \in Definitions
  /\ template \in Guids
  /\ pending \in Seq(Guids)
  /\ chain \in Seq(Known)
  /\ unresolved \in Seq(Guids \ Known)
  /\ visited = Range(chain) \cup Range(unresolved)

Bases(t) == Range(defs[t].bases)

(* No template is entered twice and no unknown base noted twice, whatever  *)
(* the base lists repeat and whatever cycles they form: walk_chain's one   *)
(* set is both the cycle guard and the dedup.                              *)
NoRepetition == IsInjective(chain) /\ IsInjective(unresolved)

(* A set of templates with all they derive from, as far as it is known.    *)
ClosedUnderBases(S) == \A t \in S : Bases(t) \cap Known \subseteq S

(* resolve finds the whole chain and nothing else: the known templates     *)
(* that can be reached are in it, no other is, and what is reported as     *)
(* unresolved is exactly what they name and the index does not know.       *)
ChainIsClosure ==
  Walked /\ template \in Known =>
    /\ template \in Range(chain) /\ ClosedUnderBases(Range(chain))
    /\ \A S \in SUBSET Known :
         template \in S /\ ClosedUnderBases(S) => Range(chain) \subseteq S
    /\ Range(unresolved) = (UNION {Bases(t) : t \in Range(chain)}) \ Known

(* The known templates t derives from, t included.                         *)
Lineage(t) ==
  {u \in Known : \A S \in SUBSET Known : t \in S /\ ClosedUnderBases(S) => u \in S}

(* Derived templates come before their bases.  The order of the chain      *)
(* decides whose field definition and whose standard values win, so a base *)
(* may come first only where the lists say so: it derives from the derived *)
(* template itself, or some template lists, of two bases, first the one    *)
(* that leads to the base and then the one that leads to the derived.      *)
BaseFirstOnlyByListing ==
  \A i, j \in DOMAIN chain :
    LET base == chain[i]  derived == chain[j]
    IN  i < j /\ base \in Bases(derived) =>
          \/ derived \in Lineage(base)
          \/ \E t \in Range(chain) : \E k, m \in DOMAIN defs[t].bases :
               /\ k < m
               /\ {defs[t].bases[k], defs[t].bases[m]} \subseteq Known
               /\ base \in Lineage(defs[t].bases[k])
               /\ derived \in Lineage(defs[t].bases[m])

(* Of several definitions of a field the one that counts, and that decides *)
(* the section a write goes to, is that of the first template in the chain *)
(* that has one; no field is missing and none is listed twice.             *)
FirstDefinitionWins ==
  LET Defines(i, f) == f \in Range(defs[chain[i]].fields)
      First(f) == {i \in DOMAIN chain : Defines(i, f) /\ \A j \in 1..(i - 1) : ~Defines(j, f)}
      Listed(f) == {k \in DOMAIN EffectiveFields : EffectiveFields[k].id = f}
  IN  \A f \in Fields :
        /\ {EffectiveFields[k].defined_by : k \in Listed(f)} = {chain[i] : i \in First(f)}
        /\ \A k, m \in Listed(f) : k = m

(* Base templates that derive from each other never keep resolve busy:     *)
(* each step meets a new id, or leaves less to look at.  There are only    *)
(* finitely many ids, so that the walk ends on every set of base lists.    *)
WalkProgresses ==
  [][\/ visited \subseteq visited' /\ visited' # visited
     \/ visited' = visited /\ Len(pending') < Len(pending)]_<<pending, visited>>

=============================================================================
