----------------------------- MODULE PatchFile -----------------------------
(***************************************************************************)
(* A patch file: parsed into a tree of operations (patches/parser.rs and   *)
(* model.rs), written back (serializer.rs), indexed (index.rs) and linked  *)
(* to the Defs its paths name (impact_graph.rs).                           *)
(*                                                                         *)
(* Source and output are XML trees of module PatchDom; line numbers,       *)
(* layout and escaping are left out.  An operation node is one record for  *)
(* every class; raw holds the source tree of an operation the parser does  *)
(* not read field by field (kind Unknown) and is Absent for the others.    *)
(***************************************************************************)
EXTENDS PatchDom

BUILT_IN_OPERATION_CLASSES ==
  {"Add", "Insert", "Remove", "Replace", "AttributeAdd", "AttributeSet",
   "AttributeRemove", "AddModExtension", "SetName", "Sequence", "FindMod",
   "Conditional", "Test"}

SuccessModes == {"Normal", "Invert", "Always", "Never"}

OrderModes == {"Append", "Prepend"}

\* recognized_field_names, without <success>, which every class has.
RecognizedFields(class) ==
  CASE class \in {"Add", "Insert"}                    -> {"xpath", "value", "order"}
    [] class \in {"Remove", "Test"}                   -> {"xpath"}
    [] class \in {"Replace", "AddModExtension"}       -> {"xpath", "value"}
    [] class \in {"AttributeAdd", "AttributeSet"}     -> {"xpath", "attribute", "value"}
    [] class = "AttributeRemove"                      -> {"xpath", "attribute"}
    [] class = "SetName"                              -> {"xpath", "name"}
    [] class = "Sequence"                             -> {"operations"}
    [] class = "FindMod"                              -> {"mods", "match", "nomatch"}
    [] class = "Conditional"                          -> {"xpath", "match", "nomatch"}
    [] OTHER                                          -> {}

\* The fields whose absence the reader reports.
RequiredFields(class) == RecognizedFields(class) \ {"order", "match", "nomatch"}

\* Field names compare without regard to case; one alternative spelling stands
\* for all of them.
Lower(tag) == IF tag = "XPath" THEN "xpath" ELSE tag

FieldsNamed(el, name) == SelectSeq(el.kids, LAMBDA k : Lower(k.tag) = name)

\* child_element_named: the last one wins.
Field(el, name) ==
  IF FieldsNamed(el, name) = <<>> THEN Absent ELSE Last(FieldsNamed(el, name))

FieldAsList(el, name) == IF Field(el, name) = Absent THEN <<>> ELSE <<Field(el, name)>>

FieldText(el, name) ==
  LET field == Field(el, name)
  IN  IF field = Absent THEN Absent
      ELSE IF field.kids = <<>> THEN "" ELSE Head(field.kids).text[1]

\* The text of an <xpath> carries the path it stands for.
XPathLeaf(path) == Elem("xpath", <<>>, <<TextNode(<<"xpath", path>>)>>)

FieldXPath(el) ==
  IF Field(el, "xpath") = Absent THEN Absent ELSE Head(Field(el, "xpath").kids).text[2]

ClassOf(el) == IF "Class" \in DOMAIN el.attrs THEN el.attrs["Class"] ELSE ""

Items(el) == SelectSeq(el.kids, LAMBDA k : k.tag = "li")

Strays(el, wanted) == {k \in ToSet(el.kids) : IsElement(k) /\ k.tag # wanted}

Diag(code, what) == [code |-> code, what |-> what]

-----------------------------------------------------------------------------
(* Parsing.                                                                 *)

\* Elements that repeat a field by the very same name.
DuplicateFields(el) ==
  {k.tag : k \in {c \in ToSet(el.kids) : IsElement(c)
                     /\ Cardinality({i \in DOMAIN el.kids : el.kids[i].tag = c.tag}) > 1}}

UnrecognizedFields(el, class) ==
  {k.tag : k \in {c \in ToSet(el.kids) : IsElement(c)
                     /\ Lower(c.tag) \notin RecognizedFields(class) \cup {"success"}}}

Known(el, class) == class \in BUILT_IN_OPERATION_CLASSES /\ UnrecognizedFields(el, class) = {}

\* Whether the reader of a class looks at a field.
Reads(el, field) ==
  LET class == ClassOf(el)
  IN  Known(el, class) /\ field \in RecognizedFields(class)

ReadList(el, field) == IF Reads(el, field) THEN FieldAsList(el, field) ELSE <<>>

ListItems(el, field) == FlattenSeq([i \in DOMAIN ReadList(el, field) |-> Items(Field(el, field))])

\* What a file's author is told of one operation, the nested ones aside.
OperationDiags(el, class, success) ==
       {Diag("patch_duplicate_field", f) : f \in DuplicateFields(el)}
  \cup (IF class = "" THEN {Diag("patch_missing_class_attribute", el.tag)} ELSE {})
  \cup (IF success \in SuccessModes \cup {Absent} THEN {}
        ELSE {Diag("patch_unrecognized_success_value", success)})
  \cup (IF class \in BUILT_IN_OPERATION_CLASSES
        THEN {Diag("patch_unrecognized_field_for_class", f) : f \in UnrecognizedFields(el, class)}
        ELSE {})
  \cup (IF Reads(el, "order") /\ FieldText(el, "order") \notin OrderModes \cup {Absent}
        THEN {Diag("patch_unrecognized_order_value", FieldText(el, "order"))} ELSE {})
  \cup {Diag("patch_missing_required_field", f) :
          f \in {g \in RequiredFields(class) : Reads(el, g) /\ Field(el, g) = Absent}}
  \cup {Diag("patch_unexpected_child_element", k.tag) :
          k \in UNION {Strays(Field(el, f), "li") :
                         f \in {g \in {"operations", "mods"} : ReadList(el, g) # <<>>}}}

\* One operation, `nested' the nodes of its children or of its branches.
OperationNode(el, id, class, success, nested) ==
  LET Opt(f, v) == IF Reads(el, f) THEN v ELSE Absent
      mods      == ListItems(el, "mods")
  IN  [id        |-> id,
       class     |-> class,
       success   |-> IF success \in SuccessModes THEN success ELSE "Normal",
       attrs     |-> [a \in DOMAIN el.attrs \ {"Class"} |-> el.attrs[a]],
       raw       |-> IF Known(el, class) THEN Absent ELSE el,
       xpath     |-> Opt("xpath", FieldXPath(el)),
       value     |-> Opt("value", IF Field(el, "value") = Absent THEN Absent
                                  ELSE Field(el, "value").kids),
       order     |-> Opt("order", IF FieldText(el, "order") \in OrderModes
                                  THEN FieldText(el, "order") ELSE Absent),
       attribute |-> Opt("attribute", FieldText(el, "attribute")),
       name      |-> Opt("name", FieldText(el, "name")),
       mods      |-> [i \in DOMAIN mods |-> Head(mods[i].kids).text[1]],
       match     |-> IF ReadList(el, "match") # <<>> THEN Head(nested) ELSE Absent,
       nomatch   |-> IF ReadList(el, "nomatch") # <<>> THEN Last(nested) ELSE Absent,
       children  |-> IF Reads(el, "match") THEN <<>> ELSE nested]

RECURSIVE ParseList(_, _)

ParsedOperation(el, id, below) ==
  [node  |-> OperationNode(el, id, ClassOf(el), FieldText(el, "success"), below.nodes),
   next  |-> below.next,
   diags |-> OperationDiags(el, ClassOf(el), FieldText(el, "success")) \cup below.diags]

\* <match> is read before <nomatch>, whatever their order in the file.
ParseOperation(el, id) ==
  ParsedOperation(el, id, ParseList(ListItems(el, "operations") \o ReadList(el, "match")
                                      \o ReadList(el, "nomatch"), id + 1))

AndThen(first, rest) ==
  [nodes |-> <<first.node>> \o rest.nodes, next |-> rest.next, diags |-> first.diags \cup rest.diags]

\* The operations of a list, numbered from next on, each before those in it.
ParseList(els, next) ==
  IF els = <<>> THEN [nodes |-> <<>>, next |-> next, diags |-> {}]
  ELSE LET first == ParseOperation(Head(els), next)
       IN  AndThen(first, ParseList(Tail(els), first.next))

\* A file is its top-level elements.
ParsePatchFile(roots) ==
  LET Rejected(code) == [operations |-> <<>>, diags |-> {Diag(code, "file")}]
      Accepted(parsed) ==
        [operations |-> parsed.nodes,
         diags      |-> parsed.diags \cup {Diag("patch_unexpected_child_element", k.tag) :
                                             k \in Strays(Head(roots), "Operation")}]
  IN  IF Len(roots) > 1 THEN Rejected("patch_invalid_root_element_count")
      ELSE IF roots = <<>> THEN Rejected("patch_missing_root_element")
      ELSE IF Head(roots).tag # "Patch" THEN Rejected("patch_invalid_root_element_name")
      ELSE Accepted(ParseList(SelectSeq(Head(roots).kids, LAMBDA k : k.tag = "Operation"), 0))

-----------------------------------------------------------------------------
(* Writing.                                                                 *)

WriteText(tag, value) == IF value = Absent THEN <<>> ELSE <<Leaf(tag, value)>>

\* Slip: an empty <value> is not written.
OmitEmptyValue(value) == IF value \in {Absent, <<>>} THEN <<>> ELSE <<Elem("value", <<>>, value)>>

\* <value> is a fragment for most classes and a text for the attribute ones;
\* both are written from what was read.
WriteValue(value) == IF value = Absent THEN <<>> ELSE <<Elem("value", <<>>, value)>>

RECURSIVE WriteOperation(_, _)

WriteBranch(op, tag) == IF op = Absent THEN <<>> ELSE <<WriteOperation(op, tag)>>

\* An operation that was not read is written back as it was, tag included.
WriteOperation(op, tag) ==
  IF op.raw # Absent THEN op.raw
  ELSE Elem(tag, ("Class" :> op.class) @@ op.attrs,
         (IF op.success = "Normal" THEN <<>> ELSE WriteText("success", op.success))
         \o (IF op.class # "Sequence" THEN <<>>
             ELSE <<Elem("operations", <<>>,
                         [i \in DOMAIN op.children |-> WriteOperation(op.children[i], "li")])>>)
         \o (IF op.class # "FindMod" THEN <<>>
             ELSE <<Elem("mods", <<>>, [i \in DOMAIN op.mods |-> Leaf("li", op.mods[i])])>>)
         \o (IF op.xpath = Absent THEN <<>> ELSE <<XPathLeaf(op.xpath)>>)
         \o WriteText("attribute", op.attribute)
         \o WriteText("name", op.name)
         \o WriteValue(op.value)
         \o WriteText("order", op.order)
         \o WriteBranch(op.match, "match")
         \o WriteBranch(op.nomatch, "nomatch"))

SerializePatchFile(operations) ==
  <<Elem("Patch", <<>>,
         [i \in DOMAIN operations |-> WriteOperation(operations[i], "Operation")])>>

-----------------------------------------------------------------------------
(* The index of a file: its operations in pre-order, with what the preview  *)
(* needs to know of each.                                                   *)
\* Slip: a step back to the parent is overlooked.
AnyTail(path) ==
  LET steps == path.steps
  IN  IF \/ ~path.ok \/ Len(steps) < 2
         \/ steps[1].tag # "Defs" \/ steps[1].test.kind # "any"
         \/ steps[2].axis # "child" \/ steps[2].tag = "*"
         \/ steps[2].test.kind \notin {"any", "defName"}
      THEN [kind |-> "Unsupported"]
      ELSE IF steps[2].test.kind = "any" THEN [kind |-> "DefType", type |-> steps[2].tag]
      ELSE [kind |-> "Defs", type |-> steps[2].tag, names |-> steps[2].test.names]

\* The Defs a path names, by the conservative reading of its first two steps. Of
\* the steps that may lead out of them again, only a `..' is noticed.
InferXPathTarget(path) ==
  LET steps == path.steps
      second == steps[2]
  IN  IF \/ ~path.ok \/ Len(steps) < 2
         \/ steps[1].tag # "Defs" \/ steps[1].test.kind # "any"
         \/ second.axis # "child" \/ second.tag = "*"
         \/ second.test.kind \notin {"any", "defName"}
         \/ \E i \in 3..Len(steps) : steps[i].axis = ".."
      THEN [kind |-> "Unsupported"]
      ELSE IF second.test.kind = "any" THEN [kind |-> "DefType", type |-> second.tag]
      ELSE [kind |-> "Defs", type |-> second.tag, names |-> second.test.names]

\* An unread operation's <xpath> child is read when it has one.
ExtractXPath(op) == IF op.raw = Absent THEN op.xpath ELSE FieldXPath(op.raw)

RECURSIVE OperationsIn(_)

\* An operation and everything nested in it, in pre-order.
OperationsIn(op) ==
  LET nested == op.children \o SelectSeq(<<op.match, op.nomatch>>, LAMBDA o : o # Absent)
  IN  <<op>> \o FlattenSeq([i \in DOMAIN nested |-> OperationsIn(nested[i])])

\* `top' stands for a tree path without a dot.
IndexOperation(op, top) ==
  LET xpath == ExtractXPath(op)
  IN  [id        |-> op.id,
       top       |-> top,
       class     |-> op.class,
       supported |-> op.raw = Absent,
       xpath     |-> xpath,
       target    |-> IF xpath = Absent THEN [kind |-> "NoXPath"] ELSE InferXPathTarget(xpath)]

BuildIndexedPatchFile(operations) ==
  FlattenSeq([i \in DOMAIN operations |->
    LET all == OperationsIn(operations[i])
    IN  [j \in DOMAIN all |-> IndexOperation(all[j], j = 1)]])

\* find_operation_node: the parsed operation a key names, at any depth.
FindOperationNode(files, key) ==
  CHOOSE op \in UNION {ToSet(OperationsIn(files[key[1]][i])) : i \in DOMAIN files[key[1]]} :
    op.id = key[2]

-----------------------------------------------------------------------------
(* The impact graph, as the sequence of references it answers with.  An     *)
(* index is a sequence of indexed files; a key names one of its operations. *)

AllKeys(index) ==
  FlattenSeq([f \in DOMAIN index |-> [i \in DOMAIN index[f] |-> <<f, index[f][i].id>>]])

IndexedOp(index, key) ==
  CHOOSE op \in ToSet(index[key[1]]) : op.id = key[2]

\* Once for each time a name occurs in an operation's chain.
ByDef(index, type, name) ==
  LET keys == AllKeys(index)
  IN  FlattenSeq([k \in DOMAIN keys |->
        LET target == IndexedOp(index, keys[k]).target
        IN  IF target.kind = "Defs" /\ target.type = type
            THEN [i \in DOMAIN SelectSeq(target.names, LAMBDA n : n = name) |-> keys[k]]
            ELSE <<>>])

TypeWideOperations(index, type) ==
  SelectSeq(AllKeys(index), LAMBDA k :
    LET target == IndexedOp(index, k).target
    IN  target.kind = "DefType" /\ target.type = type)

OperationsAffectingDef(index, type, name) ==
  ByDef(index, type, name) \o TypeWideOperations(index, type)

\* The candidates for a conflict over one Def: more than one reference.
ConflictsInvolvingDef(index, type, name) ==
  LET found == OperationsAffectingDef(index, type, name)
  IN  IF Len(found) > 1 THEN found ELSE <<>>

=============================================================================
