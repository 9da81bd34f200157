----------------------------- MODULE DefValidation -----------------------------
(***************************************************************************)
(* The validation of a Def file (validation/document.rs): for each Def its *)
(* identity, its fields, what it lacks, and the rules of its type.         *)
(*                                                                         *)
(* A Def type has, beside what SchemaLookup needs, rules: a function from  *)
(* rule ids to [field, when], when being [field, op, value].  A def of the *)
(* index also has at, its place in its file.  Alphabet orders the words a  *)
(* rule may compare.                                                       *)
(***************************************************************************)
EXTENDS FieldValidation

CONSTANT Alphabet   \* word -> number

ElementShapes == {"Element", "Object", "ListOfLi", "NamedChildrenMap", "KeyedValueList",
                  "KeyedObjectList", "KeyedObjectMap"}

-----------------------------------------------------------------------------
(* Identity.                                                                *)

\* The def being shown does not conflict with itself: it is known by its location, its
\* path and its place.
IsCurrentSourceDocument(ctx, summary, d) ==
  ctx.loc # "none" /\ d.loc = ctx.loc /\ d.path = ctx.path /\ d.at = summary.at

ValidateDefIdentity(ctx, s) ==
  LET own == FindProjectDuplicates(ctx.index, s.type, s.name)
      others == SelectSeq(FindSourceDuplicates(ctx.index, s.type, s.name),
                          LAMBDA d : ~IsCurrentSourceDocument(ctx, s, d))
  IN  IF s.name = <<>> THEN {}
      ELSE {ErrorAt("duplicate_def_name", <<"defName">>) : n \in {n \in {Len(own)} : n > 1}}
           \cup {WarningAt("duplicate_source_def_name", <<"defName">>) :
                   n \in {n \in {Len(others)} : n > 0}}

-----------------------------------------------------------------------------
(* What must be there.                                                      *)

IsPresent(t, name, field) == ElementChildNames(t) \cap ({name} \cup ToSet(field.aliases)) # {}

\* Every type of the chain asks for its own required fields, whatever a nearer type says
\* of a field of that name.
MissingRequired(ctx, s) ==
  UNION {{f \in DOMAIN ctx.types[t].fields :
            /\ ctx.types[t].fields[f].required
            /\ ctx.types[t].fields[f].shape \in ElementShapes
            /\ ~IsPresent(s.def, f, ctx.types[t].fields[f])} :
           t \in ToSet(ParentsFirst(ctx.types, s.type, <<>>))}

ValidateRequiredFieldsPresent(ctx, s) ==
  {WarningAt("missing_required_field", <<f>>) : f \in MissingRequired(ctx, s)}

-----------------------------------------------------------------------------
(* Rules.                                                                   *)

\* By id, a nearer type's rule in place of an inherited one.
CollectEffectiveRules(types, name) ==
  FoldLeft(LAMBDA rules, t : types[t].rules @@ rules, <<>>, ParentsFirst(types, name, <<>>))

NamesOf(ctx, s, name) ==
  {name} \cup UNION {ToSet(f.aliases) : f \in FieldOf(ctx.types, s.type, name)}

IsDefFieldPresent(ctx, s, name) == ElementChildNames(s.def) \cap NamesOf(ctx, s, name) # {}

DefaultTexts(ctx, s, name) ==
  {AsText(d)[1] : d \in {d \in UNION {ToSet(f.default) : f \in FieldOf(ctx.types, s.type, name)} :
                           AsText(d) # <<>>}}

\* The text of the first element of the field, or its default: a set of at most one.
GetDefFieldText(ctx, s, name) ==
  LET held == SelectSeq(Elements(s.def), LAMBDA k : k.name \in NamesOf(ctx, s, name))
  IN  IF held # <<>> THEN {Value(Head(held))} ELSE DefaultTexts(ctx, s, name)

IsNumber(words) == IsOneOf(words, "Float")

RankOfText(words) == IF words = <<>> THEN 0 ELSE Alphabet[words[1]]

\* How a text compares with the value of a rule: the difference, in a set of at most one.
CompareConditionValues(words, value) ==
  CASE value.json = "number" /\ IsNumber(words) ->
         {Reads[words[1]].number - Reads[value.words[1]].number}
    [] value.json = "bool" ->
         {IF (words \in {<<"true">>, <<"True">>, <<"1">>}) = (value.words = <<"true">>) THEN 0
          ELSE IF value.words = <<"true">> THEN -1 ELSE 1}
    [] value.json = "string" -> {RankOfText(words) - RankOfText(value.words)}
    [] OTHER -> {}

Holds(op, difference) ==
  CASE op = "equals" -> difference = 0
    [] op = "notEquals" -> difference # 0
    [] op = "greaterThan" -> difference > 0
    [] op = "greaterThanOrEqual" -> difference >= 0
    [] op = "lessThan" -> difference < 0
    [] op = "lessThanOrEqual" -> difference <= 0

\* A field without text, or one that cannot be compared, meets no comparison.
EvaluateCondition(ctx, s, when) ==
  CASE when.op = "present" -> IsDefFieldPresent(ctx, s, when.field)
    [] when.op = "absent" -> ~IsDefFieldPresent(ctx, s, when.field)
    [] OTHER -> \E text \in GetDefFieldText(ctx, s, when.field) :
                  \E d \in CompareConditionValues(text, when.value) : Holds(when.op, d)

MissingByRule(ctx, s) ==
  LET rules == CollectEffectiveRules(ctx.types, s.type)
  IN  {rules[id].field : id \in {id \in DOMAIN rules :
                                   /\ EvaluateCondition(ctx, s, rules[id].when)
                                   /\ ~IsDefFieldPresent(ctx, s, rules[id].field)}}

EvaluateValidationRules(ctx, s) ==
  {WarningAt("missing_required_field", <<f>>) : f \in MissingByRule(ctx, s)}

-----------------------------------------------------------------------------
(* The Def and the document.                                                *)

FieldJobs(ctx, s) ==
  UNION {{Job(k, field, <<k.name>>, 0, FALSE) : field \in FieldOf(ctx.types, s.type, k.name)} :
           k \in ToSet(Elements(s.def))}

ValidateDefFields(ctx, s) ==
  {WarningAt("unknown_field", <<k.name>>) :
     k \in {k \in ToSet(Elements(s.def)) : FieldOf(ctx.types, s.type, k.name) = {}}}
  \cup ValidateSchemaFields(ctx, FieldJobs(ctx, s))
  \cup ValidateRequiredFieldsPresent(ctx, s)
  \cup EvaluateValidationRules(ctx, s)

\* A Def of an unknown type only has its identity checked.
ValidateDef(ctx, s) ==
  ValidateDefIdentity(ctx, s)
  \cup (IF s.type \notin DOMAIN ctx.types THEN {WarningAt("unknown_def_type", <<s.type>>)}
        ELSE ValidateDefFields(ctx, s))

\* The problems of each Def of the document, by its place.
ValidateDocument(ctx, doc) ==
  LET summaries == ExtractDefSummaries(doc)
  IN  UNION {{[at |-> summaries[i].at, problem |-> p] : p \in ValidateDef(ctx, summaries[i])} :
               i \in DOMAIN summaries}

=============================================================================
