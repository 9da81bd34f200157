------------------------------ MODULE DefCreation ------------------------------
(***************************************************************************)
(* Making a Def and putting it into a document (commands/create_def.rs,    *)
(* commands/def_templates.rs): from a template of the schema pack, from a  *)
(* template the user saved, from a Def of another file.                    *)
(*                                                                         *)
(* A Def type has, beside what DefValidation needs, abstract and           *)
(* templates: a function from ids to [values, includeRequired], values a   *)
(* function from field names to JSON values.  An answer is [error, doc],   *)
(* error "" when all went well.                                            *)
(*                                                                         *)
(* Abstracted: a placeholder is a word, Placeholders says whose value it   *)
(* stands for.  The text search for the closing tag of the document finds  *)
(* the first node that mentions it: CloseTag is that word in a comment or  *)
(* CDATA, where the new Def becomes the word Swallowed.  The pattern of    *)
(* defName is left out: no shipped type has one.                           *)
(***************************************************************************)
EXTENDS DefValidation, XmlEdit

CONSTANTS
  Placeholders,   \* word -> field name
  CloseTag,       \* the closing tag of the document where it is only text
  Swallowed       \* a Def where it is only text

Answer(error, doc) == [error |-> error, doc |-> doc]

NoDoc == Txt(<<>>)
Failed(error) == Answer(error, NoDoc)

-----------------------------------------------------------------------------
(* The values of the new Def.                                               *)

\* The caller's values over the template's.  A defName that is no text, or a blank one,
\* is dropped; any other is kept as it is, blanks at its ends included.
MergedValues(template, values) ==
  LET merged == values @@ template.values
      named == /\ "defName" \in DOMAIN merged
               /\ merged["defName"].json = "string" /\ Trimmed(merged["defName"].words) # <<>>
  IN  [k \in DOMAIN merged \ (IF named THEN {} ELSE {"defName"}) |-> merged[k]]

DefNameOf(merged) == IF "defName" \in DOMAIN merged THEN merged["defName"].words ELSE <<>>

FillIn(words, placeholder, text) ==
  FlattenSeq([i \in DOMAIN words |-> IF words[i] = placeholder THEN text ELSE <<words[i]>>])

\* One key after the other, so what a value brings in may be filled in again.
ApplyPlaceholders(words, merged) ==
  LET Fill(acc, key) ==
        FoldSet(LAMBDA p, ws : FillIn(ws, p, AsText(merged[key])[1]), acc,
                {p \in DOMAIN Placeholders : Placeholders[p] = key /\ AsText(merged[key]) # <<>>})
  IN  FoldLeft(Fill, words, Sorted(DOMAIN merged))

-----------------------------------------------------------------------------
(* Its fields.                                                              *)

\* The type's own order, then its ancestors', each name once.
CollectEffectiveFieldOrder(types, name) ==
  FoldLeft(LAMBDA order, t : order \o SelectSeq(types[t].order, LAMBDA f : f \notin ToSet(order)),
           <<>>, SelfFirst(types, name, <<>>))

\* A type's own field in place of its parents', a later parent's in place of an earlier's.
CollectAllFields(types, name) ==
  FoldLeft(LAMBDA fields, t : types[t].fields @@ fields, <<>>, ParentsFirst(types, name, <<>>))

Given(order, merged) ==
  SelectSeq(order, LAMBDA f : f \in DOMAIN merged)
  \o SelectSeq(Sorted(DOMAIN merged), LAMBDA f : f \notin ToSet(order))

\* The given fields, then the required ones that were not given.
IncludedFields(order, merged, fields, includeRequired) ==
  Given(order, merged)
  \o SelectSeq(order, LAMBDA f : /\ includeRequired /\ f \notin DOMAIN merged
                                  /\ f \in DOMAIN fields /\ fields[f].required)

\* A field is rendered to elements, at most one, or to the error that ends it all.
Line(trees) == [error |-> "", trees |-> trees]
NoLine(error) == [error |-> error, trees |-> <<>>]

Element(name, attrs, words) == El(name, attrs, JoinTexts(<<Txt(words)>>))

\* Elements on lines of their own.
Indented(trees) ==
  FlattenSeq([i \in DOMAIN trees |-> <<Txt(<<Space>>), trees[i]>>]) \o <<Txt(<<Space>>)>>

\* A list of scalars; a single text is a list of one, and anything else is no line.
ListLine(name, value, merged) ==
  LET Item(j) == Element("li", <<>>, ApplyPlaceholders(AsText(j)[1], merged))
  IN  CASE value.json = "array" ->
             IF \E j \in ToSet(value.items) : AsText(j) = <<>>
             THEN NoLine("create_def_invalid_field_value")
             ELSE Line(<<El(name, <<>>, Indented([i \in DOMAIN value.items |->
                                                    Item(value.items[i])]))>>)
        [] value.json = "string" -> Line(<<El(name, <<>>, Indented(<<Item(value)>>))>>)
        [] OTHER -> Line(<<>>)

IsAttribute(ctx, type, name) ==
  \E f \in FieldOf(ctx.objects, type, name) : f.shape = "Attribute"

MemberText(value, merged) ==
  ApplyPlaceholders(FlattenSeq(AsText(value)), merged)

\* An object: members that are attributes by the schema, then the others as children.
ObjectLine(ctx, name, value, type, merged) ==
  LET attrs == SelectSeq(value.members, LAMBDA m : IsAttribute(ctx, type, m[1]))
      kids == SelectSeq(value.members, LAMBDA m : ~IsAttribute(ctx, type, m[1]))
      marked == FoldLeft(LAMBDA f, m : (m[1] :> MemberText(m[2], merged)) @@ f, <<>>, attrs)
  IN  CASE value.json = "object" /\ kids = <<>> -> Line(<<[El(name, marked, <<>>) EXCEPT !.closed = TRUE]>>)
        [] value.json = "object" /\ kids # <<>> ->
             Line(<<El(name, marked, Indented([i \in DOMAIN kids |->
                       Element(kids[i][1], <<>>, MemberText(kids[i][2], merged))]))>>)
        [] value.json = "string" -> Line(<<Element(name, <<>>, ApplyPlaceholders(value.words, merged))>>)
        [] OTHER -> Line(<<>>)

IsTrue(value) ==
  IF value.json = "number" THEN Reads[value.words[1]].number # 0
  ELSE value.words \in {<<"true">>, <<"True">>}

BooleanLine(name, value) ==
  IF AsText(value) = <<>> THEN NoLine("create_def_invalid_field_value")
  ELSE Line(<<Element(name, <<>>, IF IsTrue(value) THEN <<"true">> ELSE <<"false">>)>>)

TextLine(name, value, merged) ==
  IF AsText(value) = <<>> THEN NoLine("create_def_invalid_field_value")
  ELSE Line(<<Element(name, <<>>, ApplyPlaceholders(value.words, merged))>>)

FieldLine(ctx, name, field, value, merged) ==
  CASE field.shape = "ListOfLi" -> ListLine(name, value, merged)
    [] field.shape \in {"Object", "NamedChildrenMap"} ->
         ObjectLine(ctx, name, value, field.ref, merged)
    [] field.shape \notin {"ListOfLi", "Object", "NamedChildrenMap"} /\ field.kind = "Boolean" ->
         BooleanLine(name, value)
    [] OTHER -> TextLine(name, value, merged)

\* A required field that was not given has its default, if it has one and a shape that a
\* default can be written in.
LacksValue(field) == field.default = <<>>
IsUnsupported(field) == field.shape \in {"Object", "NamedChildrenMap"}

BuildFieldLine(ctx, name, fields, merged) ==
  CASE name \notin DOMAIN fields -> TextLine(name, merged[name], merged)
    [] name \in DOMAIN fields /\ name \notin DOMAIN merged /\ IsUnsupported(fields[name]) ->
         NoLine("create_def_unsupported_required_field")
    [] name \in DOMAIN fields /\ name \notin DOMAIN merged
       /\ ~IsUnsupported(fields[name]) /\ LacksValue(fields[name]) ->
         NoLine("create_def_missing_required_field")
    [] OTHER -> FieldLine(ctx, name, fields[name],
                          IF name \in DOMAIN merged THEN merged[name] ELSE fields[name].default[1],
                          merged)

LinesOf(ctx, names, fields, merged) ==
  [i \in DOMAIN names |-> BuildFieldLine(ctx, names[i], fields, merged)]

BuildFieldLines(ctx, type, fields, merged, includeRequired) ==
  LinesOf(ctx, IncludedFields(CollectEffectiveFieldOrder(ctx.types, type), merged, fields,
                              includeRequired),
          fields, merged)

-----------------------------------------------------------------------------
(* Into the document.                                                       *)

Mentions(t) == t.kind \in {"comment", "cdata"} /\ CloseTag \in ToSet(t.words)

\* Before the first closing tag in the text, be it only mentioned.  A document whose
\* root is not <Defs> has none.
InsertDefBlock(doc, block) ==
  LET mention == SelectInSeq(doc.kids, Mentions)
      opened == [doc EXCEPT !.closed = FALSE]
  IN  CASE doc.name # "Defs" -> Failed("create_def_xml_insert_failed")
        [] doc.name = "Defs" /\ mention # 0 ->
             Answer("", [opened EXCEPT !.kids[mention].words = <<Swallowed>> \o @])
        [] OTHER -> Answer("", [opened EXCEPT !.kids = JoinTexts(@ \o Indented(<<block>>))])

\* What cannot be written at all is found before anything is written.
FirstError(errors) ==
  IF "create_def_unsupported_required_field" \in ToSet(errors)
  THEN "create_def_unsupported_required_field" ELSE Head(errors)

InsertLines(doc, type, lines, errors) ==
  IF errors # <<>> THEN Failed(FirstError(errors))
  ELSE InsertDefBlock(doc, El(type, <<>>, Indented(FlattenSeq([i \in DOMAIN lines |-> lines[i].trees]))))

ErrorsOf(lines) == SelectSeq([i \in DOMAIN lines |-> lines[i].error], LAMBDA e : e # "")

InsertBuilt(doc, type, lines) == InsertLines(doc, type, lines, ErrorsOf(lines))

CreateAndInsertDef(ctx, doc, type, merged, includeRequired) ==
  InsertBuilt(doc, type, BuildFieldLines(ctx, type, CollectAllFields(ctx.types, type), merged,
                                         includeRequired))

-----------------------------------------------------------------------------
(* Copies.                                                                  *)

StandsAlone(block, type) ==
  LET summaries == ExtractDefSummaries(block)
  IN  Len(summaries) = 1 /\ summaries[1].type = type /\ summaries[1].at = 0

SetOrInsertDefName(type, block, name) ==
  IF ~StandsAlone(block, type) THEN Failed("create_def_clone_invalid_def_block")
  ELSE Answer("", Serialized(SetChildElementText(ParseToDocument(block), Root, "defName",
                                                 name, <<>>), Root))

\* The Def at a place of the buffer, for a template.
ExtractSelectedDefXml(doc, at) ==
  LET here == SelectSeq(ExtractDefSummaries(doc), LAMBDA s : s.at = at)
  IN  IF here = <<>> THEN Failed("save_def_template_def_not_found")
      ELSE IF ~StandsAlone(here[1].def, here[1].type)
      THEN Failed("save_def_template_extraction_failed")
      ELSE Answer("", here[1].def)

\* The Def of a type and name in a file, at a place if one is given: places has at most
\* one member.
ExtractIndexedDefXml(doc, type, name, places) ==
  LET found == SelectSeq(ExtractDefSummaries(doc),
                         LAMBDA s : /\ s.type = type /\ s.name = name
                                    /\ \A at \in ToSet(places) : s.at = at)
  IN  IF Len(found) # 1 \/ ~StandsAlone(found[1].def, type)
      THEN Failed("create_def_from_indexed_def_invalid_source")
      ELSE Answer("", found[1].def)

\* The place of the first Def of the type and name; 0 for none.
InsertedNodeId(doc, type, name) ==
  LET found == SelectSeq(ExtractDefSummaries(doc), LAMBDA s : s.type = type /\ s.name = name)
  IN  IF name = <<>> \/ found = <<>> THEN 0 ELSE found[1].at

=============================================================================
