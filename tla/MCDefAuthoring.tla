---------------------------- MODULE MCDefAuthoring ----------------------------
(* A file with a comment, a template Def that holds nothing but a list and  *)
(* has a Name, and a Def with a field of every shape; an empty <Defs/>, a    *)
(* file that mentions the closing tag, a file whose root is a Def and one    *)
(* where nearly everything is wrong.                                         *)
EXTENDS DefAuthoring

-----------------------------------------------------------------------------
(* Types.                                                                   *)

Field(shape, kind) ==
  [shape |-> shape, kind |-> kind, ref |-> "", items |-> [kind |-> "none", ref |-> ""],
   required |-> FALSE, default |-> <<>>, aliases |-> <<>>, reference |-> <<>>,
   keyReference |-> <<>>, typed |-> FALSE, valueKind |-> <<>>, keyField |-> "",
   valueField |-> "", defaultValueField |-> "", min |-> <<>>, max |-> <<>>, allowed |-> {}]

Plain == Field("Element", "String")
Items(shape, kind, ref) == [Field(shape, "List") EXCEPT !.items = [kind |-> kind, ref |-> ref]]
RefTo(target) == <<[type |-> target, accepted |-> {}]>>

DefType(inherits, order, fields) ==
  [inherits |-> inherits, order |-> order, fields |-> fields, rules |-> <<>>,
   abstract |-> FALSE, templates |-> <<>>]

ObjectType(inherits, order, fields, disc) ==
  [inherits |-> inherits, order |-> order, fields |-> fields, disc |-> disc]

Number(n) == Json("number", <<n>>, <<>>, <<>>)
Word(w) == Json("string", w, <<>>, <<>>)

MCObjects ==
  [Building |-> ObjectType(<<>>, <<"skin", "deep">>,
                           "skin" :> Plain @@ "deep" :> [Field("Object", "Object") EXCEPT !.ref = "Building"],
                           <<>>),
   Comp |-> ObjectType(<<>>, <<"power">>, "power" :> Field("Element", "Integer"),
                       <<[attr |-> "Class", variants |-> <<"glow">> :> "Glow",
                          allowMissing |-> FALSE, allowUnknown |-> FALSE, fallback |-> ""]>>),
   Glow |-> ObjectType(<<"Comp">>, <<"radius">>, "radius" :> Field("Element", "Integer"), <<>>),
   Stage |-> ObjectType(<<>>, <<"hours">>, "hours" :> Field("Element", "Integer"), <<>>)]

ThingFields ==
  "label" :> [Plain EXCEPT !.aliases = <<"title">>]
  @@ "size" :> [Field("Element", "Integer") EXCEPT !.required = TRUE, !.min = <<1>>,
                                                  !.default = <<Number("1")>>]
  @@ "parent" :> [Field("Element", "DefReference") EXCEPT !.reference = RefTo("ThingDef")]
  @@ "building" :> [Field("Object", "Object") EXCEPT !.ref = "Building"]
  @@ "tags" :> Items("ListOfLi", "String", "")
  @@ "comps" :> Items("ListOfLi", "Object", "Comp")
  @@ "costs" :> [Field("NamedChildrenMap", "StatMap") EXCEPT !.keyReference = RefTo("ThingDef"),
                                                            !.valueKind = <<"Integer">>]
  @@ "stats" :> Items("KeyedValueList", "none", "")
  @@ "stages" :> [Items("KeyedObjectList", "Object", "Stage") EXCEPT !.defaultValueField = "hours"]
  @@ "phases" :> Items("KeyedObjectMap", "Object", "Stage")
  @@ "marks" :> [Field("FlagsText", "String") EXCEPT !.allowed = {"a"}]
  @@ "links" :> [Field("TypedReferenceList", "List") EXCEPT !.typed = TRUE]

Order == <<"defName", "label", "size", "parent", "building", "tags", "comps", "costs",
           "stats", "stages", "phases", "marks", "links">>

MCTypes ==
  [Def |-> [DefType(<<>>, <<"defName">>, "defName" :> [Plain EXCEPT !.required = TRUE])
              EXCEPT !.abstract = TRUE],
   ThingDef |-> [DefType(<<"Def">>, Tail(Order), ThingFields) EXCEPT
                   !.rules = "labelled" :> [field |-> "label",
                                            when |-> [field |-> "size", op |-> "greaterThan",
                                                      value |-> Number("1")]],
                   !.templates =
                     "wall" :> [values |-> "tags" :> Json("array", <<>>, <<Word(<<"a">>), Word(<<"NAME">>)>>, <<>>)
                                           @@ "building" :> Json("object", <<>>, <<>>,
                                                                 <<<<"skin", Word(<<"a">>)>>>>),
                                includeRequired |-> TRUE]
                     @@ "bare" :> [values |-> <<>>, includeRequired |-> FALSE]],
   StructureDef |-> DefType(<<"ThingDef">>, <<>>, <<>>)]

MCNames == Order \o <<"skin", "deep", "power", "radius", "hours", "title">>

Scalars(kinds, number) == [kinds |-> kinds, number |-> number]
MCReads == "1" :> Scalars({"Integer", "Float"}, 1) @@ "2" :> Scalars({"Integer", "Float"}, 2)
           @@ "0" :> Scalars({"Integer", "Float"}, 0)
MCAlphabet == "1" :> 1 @@ "2" :> 2 @@ "0" :> 0
MCPlaceholders == "NAME" :> "defName"

-----------------------------------------------------------------------------
(* Files.                                                                   *)

Blank == Txt(<<" ">>)
Leaf(name, word) == El(name, <<>>, <<Txt(<<word>>)>>)
Lines(trees) == FlattenSeq([i \in DOMAIN trees |-> <<Blank, trees[i]>>]) \o <<Blank>>
Block(name, attrs, trees) == El(name, attrs, Lines(trees))
Closed(t) == [t EXCEPT !.closed = TRUE]
Comment(word) == Tree("comment", "", <<>>, <<word>>, FALSE, <<>>)

Base == Block("ThingDef", "Name" :> <<"Base">>,
              <<Block("comps", <<>>, <<Closed(El("li", "Class" :> <<"glow">>, <<>>))>>)>>)

Wall == Block("ThingDef", "ParentName" :> <<"Base">>,
              <<Leaf("defName", "Wall"), Comment("note"), Leaf("title", "a"), Leaf("parent", "Pole"),
                Closed(El("building", <<>>, <<>>)),
                Block("costs", <<>>, <<Leaf("Wood", "1")>>),
                Block("stages", <<>>, <<Leaf("one", "1")>>)>>)

Entry(parts) == El("li", <<>>, parts)
Hours == El("value", <<>>, <<Leaf("hours", "a")>>)

Odd == El("ThingDef", <<>>,
          <<Leaf("size", "0"), El("marks", <<>>, <<Txt(<<"a", " ", "b">>)>>),
            El("phases", <<>>, <<Entry(<<Leaf("key", "k"), Hours>>), Entry(<<Leaf("key", "k")>>),
                                 Entry(<<Hours>>)>>),
            El("links", <<>>, <<Leaf("ThingDef", "Wood"), Leaf("ThingDef", "Wood"),
                                Leaf("ThingDef", "Gone"), El("ThingDef", <<>>, <<>>)>>),
            El("comps", <<>>, <<El("li", <<>>, <<Leaf("power", "a"), Leaf("radius", "1")>>)>>),
            El("costs", <<>>, <<Leaf("Wood", "a")>>), El("stats", <<>>, <<Leaf("li", "1")>>),
            El("stages", <<>>, <<Leaf("one", "a")>>), Leaf("strange", "a")>>)

WithName(type, name) == Block(type, <<>>, <<Leaf("defName", name)>>)
Defs(trees) == Block("Defs", <<>>, trees)

MCBuffers == {Defs(<<Comment("top"), Base, Wall>>), Closed(El("Defs", <<>>, <<>>)),
              Defs(<<Comment("</Defs>"), WithName("StructureDef", "Gate")>>),
              WithName("ThingDef", "Alone"),
              Defs(<<Odd, WithName("StrangeDef", "Pole")>>)}

MCPaths == <<"Core.xml", "Mine.xml", "Open.xml">>
MCPlace ==
  "Core.xml" :> [loc |-> "core", kind |-> "Source", readOnly |-> TRUE]
  @@ "Mine.xml" :> [loc |-> "mine", kind |-> "Project", readOnly |-> FALSE]
  @@ "Open.xml" :> [loc |-> "mine", kind |-> "Project", readOnly |-> FALSE]

MCStored ==
  "Core.xml" :> Defs(<<WithName("ThingDef", "Wood"), WithName("ThingDef", "Iron")>>)
  @@ "Mine.xml" :> Defs(<<WithName("StructureDef", "Pole")>>)

MCContents ==
  "Core.xml" :> {Defs(<<WithName("ThingDef", "Wood"), WithName("ThingDef", "Wood")>>)}
  @@ "Mine.xml" :> {Defs(<<WithName("ThingDef", "New")>>)}

-----------------------------------------------------------------------------
(* Edits and commands.                                                      *)

E(op, field) ==
  [op |-> op, at |-> 0, path |-> <<>>, field |-> field, key |-> "", old |-> "",
   texts |-> <<<<"2">>>>, entries |-> <<>>, attrs |-> <<>>, order |-> <<>>, after |-> 0,
   elems |-> <<>>, prune |-> FALSE]

In(path, edit) == [edit EXCEPT !.path = path]
Keyed(key, old, edit) == [edit EXCEPT !.key = key, !.old = old]
Holding(entries, edit) == [edit EXCEPT !.entries = entries]

Skin == [name |-> "power", texts |-> <<<<"1">>>>, attrs |-> <<>>, kids |-> <<>>]

MCEdits ==
  {E("SetChildElementText", "label"), E("SetChildElementText", "defName"),
   In(<<"building">>, E("SetNestedObjectFieldText", "skin")),
   In(<<"building", "deep">>, E("SetNestedElementText", "skin")),
   E("SetElementAttribute", "Name"), E("RemoveElementAttribute", "Name"),
   In(<<"building">>, E("SetNestedElementAttribute", "Class")),
   E("RemoveChildElement", "parent"),
   In(<<"building">>, [E("RemoveNestedElement", "skin") EXCEPT !.prune = TRUE]),
   Holding(<<<<"li", <<"a">>>>, <<"li", <<"2">>>>>>, E("SetListItems", "tags")),
   In(<<"building">>, Holding(<<<<"li", <<"a">>>>>>, E("SetNestedListItems", "skin"))),
   Holding(<<<<"ThingDef", <<"Wood">>>>>>, E("SetTypedReferenceListItems", "links")),
   Keyed("Iron", "", E("SetNamedMapEntry", "costs")),
   Keyed("Wood", "", E("RemoveNamedMapEntry", "costs")),
   Keyed("Gold", "", E("RemoveNamedMapEntry", "costs")),
   In(<<"building">>, Keyed("Wood", "", E("RemoveNamedMapEntry", "costs"))),
   Keyed("Iron", "Wood", E("RenameNamedMapEntry", "costs")),
   Keyed("bad name", "Wood", E("RenameNamedMapEntry", "costs")),
   Holding(<<<<"mass", <<"1">>>>>>, E("ReplaceKeyedValueListEntries", "stats")),
   Holding(<<>>, E("ReplaceKeyedValueListEntries", "stats")),
   [Holding(<<<<"power", <<"1">>>>>>, E("InsertObjectListItem", "comps"))
      EXCEPT !.attrs = "Class" :> <<"glow">>, !.elems = <<Skin>>],
   Keyed("two", "", [E("InsertKeyedObjectListItem", "stages") EXCEPT !.elems = <<Skin>>]),
   E("SetObjectListItemChildText", "power"), E("SetObjectListItemAttribute", "Class"),
   E("RemoveObjectListItemChild", "power"),
   [E("RemoveObjectListItem", "") EXCEPT !.prune = TRUE], E("RemoveObjectListItem", ""),
   Keyed("three", "", E("RenameKeyedObjectListItem", "")),
   E("SetKeyedObjectListItemText", "")}

MCBatches ==
  {<<E("RemoveChildElement", "parent"), E("SetChildElementText", "size")>>,
   <<Keyed("Iron", "", E("SetNamedMapEntry", "costs")),
     Keyed("Iron", "Wood", E("RenameNamedMapEntry", "costs"))>>}

MCListNames == {"comps", "stages"}
MCContext == [order |-> Order, nested |-> <<"building">> :> <<"skin", "deep">>]

Command(op, type, id, values, path, at, from, name) ==
  [op |-> op, type |-> type, id |-> id, values |-> values, path |-> path, at |-> at,
   from |-> from, name |-> name]

FromTemplate(id, values) == Command("template", "ThingDef", id, values, "", <<>>, <<>>, <<>>)
Called1(name) == "defName" :> Word(name)

MCCommands ==
  {FromTemplate(<<"wall">>, Called1(<<"New">>)),
   FromTemplate(<<>>, Called1(<<" ", "New">>)),
   FromTemplate(<<"bare">>, Called1(<<"New">>) @@ "size" :> Word(<<"2">>)),
   FromTemplate(<<"wall">>, Called1(<<" ">>)),
   FromTemplate(<<"nothing">>, <<>>),
   Command("saved", "", <<>>, <<>>, "", <<>>, <<>>, <<" ", "New", " ">>),
   Command("clone", "ThingDef", <<>>, <<>>, "Open.xml", <<>>, <<"Wall">>, <<"New">>),
   Command("clone", "ThingDef", <<>>, <<>>, "Core.xml", <<2>>, <<"Wood">>, <<"Wood">>)}

=============================================================================
