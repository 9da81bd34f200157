------------------------------- MODULE XmlEdit -------------------------------
(***************************************************************************)
(* The editing of a parsed XML document (xml_document/edit, serializer.rs  *)
(* and the reading of the buffer around it in services/xml_editor.rs).     *)
(* Nodes live in an arena and refer to one another by id, here their       *)
(* position; a batch of edits changes the arena, and only what an edit     *)
(* marked dirty is written anew: a clean subtree is copied from the text   *)
(* it was parsed from, its span.                                           *)
(*                                                                         *)
(* Abstracted: the text at a span is the tree it parses to (XmlTree), an   *)
(* indent one Space, however wide.  Escaping is undone by the next parse   *)
(* and left out.                                                           *)
(***************************************************************************)
EXTENDS XmlTree

CONSTANT BadNames    \* the names that is_valid_xml_name rejects

-----------------------------------------------------------------------------
(* The arena.                                                               *)

Root == 1
Nowhere == 0

Node(tree, parent, dirty) ==
  [kind |-> tree.kind, name |-> tree.name, attrs |-> tree.attrs, words |-> tree.words,
   closed |-> tree.closed, kids |-> <<>>, parent |-> parent, dirty |-> dirty, span |-> tree]

\* The children of the nodes from one on: <<parent, which child>>.
ChildrenFrom(doc, first) ==
  FlattenSeq([i \in 1..(Len(doc) - first + 1) |->
                [j \in DOMAIN doc[first + i - 1].span.kids |-> <<first + i - 1, j>>]])

\* A node knows the children that follow the present ones in the arena.
WithKids(doc, n, children) ==
  [doc[n] EXCEPT !.kids = SelectSeq([c \in DOMAIN children |-> Len(doc) + c],
                                    LAMBDA id : children[id - Len(doc)][1] = n)]

Grown(doc, first, children) ==
  [n \in DOMAIN doc |-> IF n < first THEN doc[n] ELSE WithKids(doc, n, children)]
  \o [c \in DOMAIN children |->
        Node(doc[children[c][1]].span.kids[children[c][2]], children[c][1], FALSE)]

RECURSIVE PlantBelow(_, _)

\* One level after the other; the nodes from first on have no children yet.
PlantBelow(doc, first) ==
  IF first > Len(doc) THEN doc
  ELSE PlantBelow(Grown(doc, first, ChildrenFrom(doc, first)), Len(doc) + 1)

ParseToDocument(tree) == PlantBelow(<<Node(tree, Nowhere, FALSE)>>, Root)

RECURSIVE IsSubtreeClean(_, _)

IsSubtreeClean(doc, n) ==
  ~doc[n].dirty /\ \A k \in ToSet(doc[n].kids) : IsSubtreeClean(doc, k)

RECURSIVE Serialized(_, _)

\* A clean subtree is its span; an element that is not dirty itself keeps its tags; a
\* self-closing element is written without children.
Serialized(doc, n) ==
  LET tag == IF doc[n].dirty \/ doc[n].closed THEN doc[n].name ELSE doc[n].span.name
      attrs == IF doc[n].dirty \/ doc[n].closed THEN doc[n].attrs ELSE doc[n].span.attrs
  IN  IF IsSubtreeClean(doc, n) THEN doc[n].span
      ELSE Tree(doc[n].kind, tag, attrs, doc[n].words, doc[n].closed,
                IF doc[n].closed THEN <<>>
                ELSE JoinTexts([i \in DOMAIN doc[n].kids |-> Serialized(doc, doc[n].kids[i])]))

RECURSIVE Meant(_, _)

\* What the arena says, whatever is dirty and whatever is self-closing.
Meant(doc, n) ==
  Tree(doc[n].kind, doc[n].name, doc[n].attrs, doc[n].words,
       doc[n].closed /\ doc[n].kids = <<>>,
       JoinTexts([i \in DOMAIN doc[n].kids |-> Meant(doc, doc[n].kids[i])]))

-----------------------------------------------------------------------------
(* Looking (tree.rs, format.rs, context.rs).                                *)

IsElementNode(doc, n) == n \in DOMAIN doc /\ doc[n].kind = "element"

Position(doc, p, c) == SelectInSeq(doc[p].kids, LAMBDA k : k = c)

FindChildElement(doc, p, name) ==
  LET named == SelectSeq(doc[p].kids, LAMBDA k : doc[k].kind = "element" /\ doc[k].name = name)
  IN  IF named = <<>> THEN Nowhere ELSE Head(named)

BeforeTrailingBlanks(doc, kids) ==
  SelectLastInSeq(kids, LAMBDA k : ~IsBlank(doc[k]))

\* The place of a name in a field order; 0 for a name it does not list.
Rank(order, name) == SelectInSeq(order, LAMBDA n : n = name)

RankOf(doc, order, k) == IF doc[k].kind = "element" THEN Rank(order, doc[k].name) ELSE 0

\* Slip: a field that belongs before all the known ones goes to the end.
AfterEarlier(doc, kids, order, rank) ==
  LET earlier == SelectLastInSeq(kids, LAMBDA k : RankOf(doc, order, k) \in 1..(rank - 1))
  IN  IF earlier # 0 THEN earlier ELSE BeforeTrailingBlanks(doc, kids)

\* How many children stay in front of the new one: after the last sibling the order puts
\* earlier, else before the first it puts later and that sibling's indent.
InsertAmong(doc, kids, order, rank) ==
  LET earlier == SelectLastInSeq(kids, LAMBDA k : RankOf(doc, order, k) \in 1..(rank - 1))
      later == SelectInSeq(kids, LAMBDA k : rank # 0 /\ RankOf(doc, order, k) > rank)
  IN  IF earlier # 0 THEN earlier
      ELSE IF later = 0 THEN BeforeTrailingBlanks(doc, kids)
      ELSE IF later > 1 /\ IsBlank(doc[kids[later - 1]]) THEN later - 2
      ELSE later - 1

FindInsertIndex(doc, p, name, order) == InsertAmong(doc, doc[p].kids, order, Rank(order, name))

\* A context is [order, nested], nested a function from object paths.
FieldOrderForPath(ctx, path) ==
  IF path = <<>> THEN ctx.order
  ELSE IF path \in DOMAIN ctx.nested THEN ctx.nested[path] ELSE <<>>

-----------------------------------------------------------------------------
(* Growing (tree.rs, paths.rs).                                             *)

AddNode(doc, tree, parent) == Append(doc, Node(tree, parent, TRUE))

AppendKid(doc, p, tree) ==
  [AddNode(doc, tree, p) EXCEPT ![p].kids = Append(@, Len(doc) + 1)]

Spliced(doc, p, at, ids) ==
  [doc EXCEPT ![p].kids = SubSeq(@, 1, at) \o ids \o SubSeq(@, at + 1, Len(@)),
              ![p].closed = FALSE, ![p].dirty = TRUE]

WithClosingIndent(doc, p) ==
  IF IsBlank(doc[Last(doc[p].kids)]) THEN doc ELSE AppendKid(doc, p, Txt(<<Space>>))

\* An element that is in the arena becomes a child of p, with an indent before it.
Adopt(doc, p, at, id) ==
  WithClosingIndent(Spliced(AddNode(doc, Txt(<<Space>>), p), p, at, <<Len(doc) + 1, id>>), p)

\* A new element, with a text if one is given (texts has at most one member).
CreateChildElement(doc, p, name, texts, order) ==
  LET id == Len(doc) + 1
      made == AddNode(doc, El(name, <<>>, <<>>), p)
  IN  [id |-> id,
       doc |-> Adopt(FoldLeft(LAMBDA d, words : AppendKid(d, id, Txt(words)), made, texts),
                     p, FindInsertIndex(doc, p, name, order), id)]

FindOrCreate(doc, p, name, order) ==
  LET existing == FindChildElement(doc, p, name)
  IN  IF existing # Nowhere THEN [doc |-> doc, id |-> existing]
      ELSE CreateChildElement(doc, p, name, <<>>, order)

\* Every segment of the path, created in the field order of the segments before it.
FindOrCreateObjectPath(doc, p, path, ctx) ==
  FoldLeft(LAMBDA at, i : FindOrCreate(at.doc, at.id, path[i],
                                       FieldOrderForPath(ctx, SubSeq(path, 1, i - 1))),
           [doc |-> doc, id |-> p], [i \in DOMAIN path |-> i])

-----------------------------------------------------------------------------
(* Texts, attributes and removal (scalar.rs).                               *)

\* Slip: the text is replaced without being marked.
SetTextUnmarked(doc, el, words) ==
  LET texts == SelectSeq(doc[el].kids, LAMBDA k : HoldsText(doc[k]))
  IN  IF texts # <<>> THEN [doc EXCEPT ![Head(texts)].kind = "text", ![Head(texts)].words = words]
      ELSE [AppendKid(doc, el, Txt(words)) EXCEPT ![el].closed = FALSE, ![el].dirty = TRUE]

\* The first text or CDATA child becomes the text; only without one is a child added.
SetTextOf(doc, el, words) ==
  LET texts == SelectSeq(doc[el].kids, LAMBDA k : HoldsText(doc[k]))
  IN  IF texts # <<>> THEN [doc EXCEPT ![Head(texts)].kind = "text", ![Head(texts)].words = words,
                                       ![Head(texts)].dirty = TRUE]
      ELSE [AppendKid(doc, el, Txt(words)) EXCEPT ![el].closed = FALSE, ![el].dirty = TRUE]

SetChildElementText(doc, p, name, words, order) ==
  LET existing == FindChildElement(doc, p, name)
  IN  IF existing # Nowhere THEN SetTextOf(doc, existing, words)
      ELSE CreateChildElement(doc, p, name, <<words>>, order).doc

SetElementAttribute(doc, el, name, value) ==
  [doc EXCEPT ![el].attrs = (name :> value) @@ @, ![el].dirty = TRUE]

RemoveElementAttribute(doc, el, name) ==
  IF name \notin DOMAIN doc[el].attrs THEN doc
  ELSE [doc EXCEPT ![el].attrs = [a \in DOMAIN @ \ {name} |-> @[a]], ![el].dirty = TRUE]

\* A child goes together with the indent before it; nothing happens without the child.
DropKid(doc, p, c) ==
  LET at == Position(doc, p, c)
      from == IF at > 1 /\ IsBlank(doc[doc[p].kids[at - 1]]) THEN at - 1 ELSE at
  IN  IF at = 0 THEN doc
      ELSE [doc EXCEPT ![p].kids = SubSeq(@, 1, from - 1) \o SubSeq(@, at + 1, Len(@)),
                       ![p].dirty = TRUE]

RemoveChildElement(doc, p, name) == DropKid(doc, p, FindChildElement(doc, p, name))

HasContent(doc, n) == \E k \in ToSet(doc[n].kids) : ~IsBlank(doc[k])

HasMeaningfulContent(doc, n) == DOMAIN doc[n].attrs # {} \/ HasContent(doc, n)

\* The elements of an object path from p on, cut where a segment is missing.
ResolvePath(doc, p, path) ==
  FoldLeft(LAMBDA ids, i : IF Len(ids) < i \/ FindChildElement(doc, Last(ids), path[i]) = Nowhere
                           THEN ids
                           ELSE Append(ids, FindChildElement(doc, Last(ids), path[i])),
           <<p>>, [i \in DOMAIN path |-> i])

RECURSIVE PruneUp(_, _)

\* The emptied elements of a chain go, deepest first, but never its head.
PruneUp(doc, chain) ==
  IF Len(chain) = 1 \/ HasMeaningfulContent(doc, Last(chain)) THEN doc
  ELSE PruneUp(DropKid(doc, chain[Len(chain) - 1], Last(chain)), Front(chain))

RemoveAlongPath(doc, chain, path, name, prune) ==
  IF Len(chain) <= Len(path) \/ FindChildElement(doc, Last(chain), name) = Nowhere THEN doc
  ELSE IF prune THEN PruneUp(RemoveChildElement(doc, Last(chain), name), chain)
  ELSE RemoveChildElement(doc, Last(chain), name)

RemoveNestedElement(doc, p, path, name, prune) ==
  RemoveAlongPath(doc, ResolvePath(doc, p, path), path, name, prune)

-----------------------------------------------------------------------------
(* Lists, maps and typed references (lists.rs, maps.rs,                     *)
(* typed_references.rs).  An entry is <<element name, words>>.              *)

AddEntry(doc, el, entry) ==
  LET id == Len(doc) + 2
  IN  AppendKid(AppendKid(AppendKid(doc, el, Txt(<<Space>>)), el, El(entry[1], <<>>, <<>>)),
                id, Txt(entry[2]))

\* Everything in the container is replaced by the entries, each on a line of its own.
FillWith(doc, el, entries) ==
  LET emptied == [doc EXCEPT ![el].kids = <<>>, ![el].closed = FALSE, ![el].dirty = TRUE]
      filled == FoldLeft(LAMBDA d, e : AddEntry(d, el, e), emptied, entries)
  IN  IF entries = <<>> THEN filled ELSE AppendKid(filled, el, Txt(<<Space>>))

SetEntries(doc, p, name, entries, order) ==
  LET list == FindOrCreate(doc, p, name, order)
  IN  FillWith(list.doc, list.id, entries)

SetMapEntryIn(doc, map, key, words) ==
  [SetChildElementText(doc, map, key, words, <<>>) EXCEPT ![map].dirty = TRUE]

SetNamedMapEntry(doc, p, name, key, words, order) ==
  LET map == FindOrCreate(doc, p, name, order)
  IN  SetMapEntryIn(map.doc, map.id, key, words)

RemoveNamedMapEntry(doc, p, name, key) ==
  LET map == FindChildElement(doc, p, name)
  IN  IF map = Nowhere THEN doc ELSE RemoveChildElement(doc, map, key)

ReplaceEntriesIn(doc, map, entries) ==
  FoldLeft(LAMBDA d, e : CreateChildElement(d, map, e[1], <<e[2]>>, <<>>).doc,
           [doc EXCEPT ![map].kids = <<>>, ![map].closed = (entries = <<>>), ![map].dirty = TRUE],
           entries)

ReplaceKeyedValueListEntries(doc, p, name, entries, order) ==
  LET map == FindOrCreate(doc, p, name, order)
  IN  ReplaceEntriesIn(map.doc, map.id, entries)

Renamed(doc, n, name) == [doc EXCEPT ![n].name = name, ![n].dirty = TRUE]

KeyIsTaken(doc, map, old, new) ==
  map # Nowhere /\ new # old /\ FindChildElement(doc, map, new) # Nowhere

RenameNamedMapEntry(doc, map, old, new) ==
  LET entry == IF map = Nowhere THEN Nowhere ELSE FindChildElement(doc, map, old)
  IN  IF entry = Nowhere THEN doc
      ELSE [Renamed(doc, entry, new) EXCEPT ![map].dirty = TRUE]

-----------------------------------------------------------------------------
(* Object lists (object_lists.rs).  An initial element is [name, texts,     *)
(* attrs, kids], kids its children followed by its list items.              *)

RECURSIVE ApplyInitialElements(_, _, _)

\* An element without content and attributes is not created; one that has children is
\* created without its text.
ApplyInitialElements(doc, p, elems) ==
  IF elems = <<>> THEN doc
  ELSE LET e == Head(elems)
           made == CreateChildElement(doc, p, e.name, IF e.kids = <<>> THEN e.texts ELSE <<>>,
                                      <<>>)
           marked == [made.doc EXCEPT ![made.id].attrs = e.attrs]
       IN  ApplyInitialElements(
             IF e.kids = <<>> /\ e.texts = <<>> /\ DOMAIN e.attrs = {} THEN doc
             ELSE ApplyInitialElements(marked, made.id, e.kids),
             p, Tail(elems))

\* After the given item, at the end when there is none or it is not in this list.
ItemPlace(doc, list, after) ==
  IF after # Nowhere /\ Position(doc, list, after) # 0 THEN Position(doc, list, after)
  ELSE BeforeTrailingBlanks(doc, doc[list].kids)

AddItem(doc, list, item, after) ==
  LET id == Len(doc) + 1
  IN  Adopt(AddNode(doc, item, list), list, ItemPlace(doc, list, after), id)

\* A new <li> is self-closing until something is put into it: scalar fields, then
\* elements.
InsertObjectListItem(doc, list, edit) ==
  LET id == Len(doc) + 1
      item == [El("li", edit.attrs, <<>>) EXCEPT !.closed = TRUE]
      filled == FoldLeft(LAMBDA d, e : SetChildElementText(d, id, e[1], e[2], edit.order),
                         AddItem(doc, list, item, edit.after), edit.entries)
  IN  ApplyInitialElements(filled, id, edit.elems)

\* A keyed item with initial children gets a closing indent of its own on top.
InsertKeyedObjectListItem(doc, list, key, after, elems) ==
  LET item == [El(key, <<>>, <<>>) EXCEPT !.closed = (elems = <<>>)]
      made == ApplyInitialElements(AddItem(doc, list, item, after), Len(doc) + 1, elems)
  IN  IF elems = <<>> THEN made
      ELSE [AppendKid(made, Len(doc) + 1, Txt(<<Space>>)) EXCEPT ![Len(doc) + 1].closed = FALSE]

RECURSIVE PruneToRoot(_, _)

\* Up the parents, whatever they are and whatever attributes they have.
PruneToRoot(doc, n) ==
  IF HasContent(doc, n) \/ doc[n].parent = Nowhere THEN doc
  ELSE PruneToRoot(DropKid(doc, doc[n].parent, n), doc[n].parent)

RemoveObjectListItem(doc, item, prune) ==
  LET list == doc[item].parent
  IN  IF list = Nowhere THEN doc
      ELSE IF prune THEN PruneToRoot(DropKid(doc, list, item), list)
      ELSE DropKid(doc, list, item)

-----------------------------------------------------------------------------
(* One edit, a batch, and the buffer (mod.rs, services/xml_editor.rs).  An  *)
(* edit has the fields op, at (the element it starts from), path, field,    *)
(* key, old, texts, entries, attrs, order, after, elems, prune; an         *)
(* operation reads some of them.                                            *)

NeedsPath == {"SetNestedObjectFieldText", "SetNestedElementText", "SetNestedListItems",
              "SetNestedElementAttribute"}

CreatesPath == NeedsPath \cup
  {"SetNamedMapEntry", "RemoveNamedMapEntry", "RenameNamedMapEntry",
   "ReplaceKeyedValueListEntries", "SetTypedReferenceListItems", "InsertObjectListItem",
   "InsertKeyedObjectListItem"}

NamesKey == {"SetNamedMapEntry", "RenameNamedMapEntry", "InsertKeyedObjectListItem",
             "RenameKeyedObjectListItem"}

\* The order an edit brings along wins over the context's.
OrderFor(edit, ctx) ==
  IF edit.order # <<>> THEN edit.order ELSE FieldOrderForPath(ctx, edit.path)

\* What an edit is rejected for before it changes anything.
IsRejected(doc, edit) ==
  \/ edit.op \in NamesKey /\ edit.key \in BadNames
  \/ edit.op = "SetTypedReferenceListItems" /\ \E e \in ToSet(edit.entries) : e[1] \in BadNames
  \/ edit.op \in NeedsPath /\ edit.path = <<>>
  \/ edit.op = "RemoveObjectListItem" /\ edit.at \notin DOMAIN doc
  \/ edit.op # "RemoveObjectListItem" /\ ~IsElementNode(doc, edit.at)

\* The operation at the element its path leads to.
Operate(doc, n, edit, ctx) ==
  CASE edit.op \in {"SetChildElementText", "SetNestedObjectFieldText", "SetNestedElementText"} ->
         SetChildElementText(doc, n, edit.field, edit.texts[1], OrderFor(edit, ctx))
    [] edit.op = "SetObjectListItemChildText" ->
         SetChildElementText(doc, n, edit.field, edit.texts[1], edit.order)
    [] edit.op \in {"SetElementAttribute", "SetObjectListItemAttribute",
                    "SetNestedElementAttribute"} ->
         SetElementAttribute(doc, n, edit.field, edit.texts[1])
    [] edit.op = "RemoveElementAttribute" -> RemoveElementAttribute(doc, n, edit.field)
    [] edit.op \in {"RemoveChildElement", "RemoveObjectListItemChild"} ->
         RemoveChildElement(doc, n, edit.field)
    [] edit.op = "RemoveNestedElement" ->
         RemoveNestedElement(doc, n, edit.path, edit.field, edit.prune)
    [] edit.op \in {"SetListItems", "SetNestedListItems", "SetTypedReferenceListItems"} ->
         SetEntries(doc, n, edit.field, edit.entries, OrderFor(edit, ctx))
    [] edit.op = "SetNamedMapEntry" ->
         SetNamedMapEntry(doc, n, edit.field, edit.key, edit.texts[1], OrderFor(edit, ctx))
    [] edit.op = "RemoveNamedMapEntry" -> RemoveNamedMapEntry(doc, n, edit.field, edit.key)
    [] edit.op = "RenameNamedMapEntry" ->
         RenameNamedMapEntry(doc, FindChildElement(doc, n, edit.field), edit.old, edit.key)
    [] edit.op = "ReplaceKeyedValueListEntries" ->
         ReplaceKeyedValueListEntries(doc, n, edit.field, edit.entries,
                                      FieldOrderForPath(ctx, edit.path))
    [] edit.op = "RemoveObjectListItem" -> RemoveObjectListItem(doc, n, edit.prune)
    [] edit.op = "RenameKeyedObjectListItem" -> Renamed(doc, n, edit.key)
    [] edit.op = "SetKeyedObjectListItemText" -> SetTextOf(doc, n, edit.texts[1])

\* The two insertions first find or create the list.
InsertInto(list, edit) ==
  IF edit.op = "InsertObjectListItem"
  THEN InsertObjectListItem(list.doc, list.id, edit)
  ELSE InsertKeyedObjectListItem(list.doc, list.id, edit.key, edit.after, edit.elems)

Inserts == {"InsertObjectListItem", "InsertKeyedObjectListItem"}

OperateAt(at, edit, ctx) ==
  IF edit.op \in Inserts
  THEN InsertInto(FindOrCreate(at.doc, at.id, edit.field, FieldOrderForPath(ctx, edit.path)), edit)
  ELSE Operate(at.doc, at.id, edit, ctx)

AtPath(doc, edit, ctx) ==
  IF edit.op \in CreatesPath THEN FindOrCreateObjectPath(doc, edit.at, edit.path, ctx)
  ELSE [doc |-> doc, id |-> edit.at]

\* An entry may not be renamed to a key that is there already.
ApplyWhere(at, edit, ctx) ==
  IF edit.op = "RenameNamedMapEntry"
     /\ KeyIsTaken(at.doc, FindChildElement(at.doc, at.id, edit.field), edit.old, edit.key)
  THEN [ok |-> FALSE, doc |-> at.doc]
  ELSE [ok |-> TRUE, doc |-> OperateAt(at, edit, ctx)]

ApplyXmlEdit(doc, edit, ctx) ==
  IF IsRejected(doc, edit) THEN [ok |-> FALSE, doc |-> doc]
  ELSE ApplyWhere(AtPath(doc, edit, ctx), edit, ctx)

\* One after the other on one arena, until one fails.
ApplyXmlEdits(doc, edits, ctx) ==
  FoldLeft(LAMBDA r, edit : IF r.ok THEN ApplyXmlEdit(r.doc, edit, ctx) ELSE r,
           [ok |-> TRUE, doc |-> doc], edits)

=============================================================================
