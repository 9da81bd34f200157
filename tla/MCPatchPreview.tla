--------------------------- MODULE MCPatchPreview ---------------------------
(* A template, a middle Def and two Defs named Wall; a pool of patch        *)
(* operations, of which every preview has two or three in two files.        *)
EXTENDS PatchPreview

A(name, value) == name :> value
Li(word) == Leaf("li", word)

Base == Elem("ThingDef", A("Name", <<"Base">>),
             <<Elem("comps", <<>>, <<Li("a")>>), Leaf("stat", "1")>>)
Mid == Elem("ThingDef", A("Name", <<"Mid">>) @@ A("ParentName", <<"Base">>), <<Leaf("label", "mid")>>)
Wall == Elem("ThingDef", A("ParentName", <<"Mid">>),
             <<Leaf("defName", "Wall"), Elem("comps", <<>>, <<Li("b")>>)>>)
OtherWall == Elem("ThingDef", A("ParentName", <<"Nobody">>),
                  <<Leaf("defName", "Wall"), Leaf("label", "other")>>)
Door == Elem("ThingDef", A("ParentName", <<"Loop">>) @@ A("Name", <<"Loop">>), <<Leaf("defName", "Door")>>)
Apart == Elem("ThingDef", A("ParentName", <<"Base">>),
              <<Leaf("defName", "Wall"),
                Elem("comps", A("Inherit", <<"False">>), <<Li("c")>>), Elem("stat", <<>>, <<>>)>>)

Defs(kids) == <<Elem("Defs", <<>>, kids)>>

MCDefWorlds ==
  {<<Defs(<<Base, Mid, Wall>>), Defs(<<OtherWall>>)>>,
   <<Defs(<<Apart>>), <<Base>>, Defs(<<Door>>)>>}

MCTargets ==
  {[file |-> 1, ordinal |-> 3, type |-> "ThingDef", identity |-> <<"Wall">>],
   [file |-> 1, ordinal |-> 1, type |-> "ThingDef", identity |-> <<"Wall">>],
   [file |-> 1, ordinal |-> 1, type |-> "ThingDef", identity |-> <<"Base">>],
   [file |-> 2, ordinal |-> 1, type |-> "ThingDef", identity |-> <<"Wall">>]}

S(tag) == Step("child", tag, NoTest)
ThingDef(test) == Step("child", "ThingDef", test)
WallTest == [kind |-> "defName", names |-> <<<<"Wall">>>>]
TwoTest == [kind |-> "defName", names |-> <<<<"Door">>, <<"Wall">>>>]
BaseTest == [kind |-> "attr", name |-> "Name", value |-> <<"Base">>]

InWall(rest) == Path(<<S("Defs"), ThingDef(WallTest)>> \o rest)
InBase(rest) == Path(<<S("Defs"), ThingDef(BaseTest)>> \o rest)
InAll(rest) == Path(<<S("Defs"), ThingDef(NoTest)>> \o rest)
InTwo(rest) == Path(<<S("Defs"), ThingDef(TwoTest)>> \o rest)
EveryLi == Path(<<Step("deep", "li", NoTest)>>)
DoorTest == [kind |-> "defName", names |-> <<<<"Door">>>>]
FromDoor(step) == Path(<<S("Defs"), ThingDef(DoorTest), step>>)
BackUp(axis) == Path(FromDoor(Step(axis, "*", NoTest)).steps \o <<ThingDef(WallTest)>>)
Every == Path(<<Step("deep", "*", NoTest)>>)

Op(tag, class, kids) == Elem(tag, A("Class", class), kids)
XP(path) == XPathLeaf(path)
Val(kids) == Elem("value", <<>>, kids)
TwoLi == Val(<<Li("x"), Li("y")>>)

AddComps(tag) == Op(tag, "Add", <<XP(InWall(<<S("comps")>>)), TwoLi>>)
RemoveStat(tag) == Op(tag, "Remove", <<XP(InBase(<<S("stat")>>)), Leaf("success", "Always")>>)
RemoveWall == Op("Operation", "Remove", <<XP(InTwo(<<>>))>>)
InsertLi == Op("Operation", "Insert", <<XP(EveryLi), TwoLi, Leaf("order", "Append")>>)
ReplaceComps == Op("Operation", "Replace", <<XP(InAll(<<S("comps")>>)),
                                             Val(<<Elem("comps", <<>>, <<Li("r")>>), Leaf("label", "r")>>)>>)
TestLabel(tag) == Op(tag, "Test", <<XP(InWall(<<S("label")>>))>>)
AddLabel(tag) == Op(tag, "Add", <<XP(InAll(<<>>)), Val(<<Leaf("label", "new")>>), Leaf("order", "Prepend")>>)
SetParent == Op("Operation", "AttributeSet", <<XP(InWall(<<>>)), Leaf("attribute", "ParentName"), Leaf("value", "Base")>>)
AddName == Op("Operation", "AttributeAdd", <<XP(InAll(<<>>)), Leaf("attribute", "Name"), Leaf("value", "Loop")>>)
DropParent(axis) == Op("Operation", "AttributeRemove", <<XP(BackUp(axis)), Leaf("attribute", "ParentName")>>)
AddEvery == Op("Operation", "Add", <<XP(Every), TwoLi>>)
InsertEvery == Op("Operation", "Insert", <<XP(Every), TwoLi>>)
ReplaceEvery == Op("Operation", "Replace", <<XP(Every), Val(<<Wall, Leaf("label", "r")>>)>>)
RenameEvery == Op("Operation", "SetName", <<XP(Every), Leaf("name", "ThingDef")>>)
Extension == Op("Operation", "AddModExtension", <<XP(InBase(<<>>)), Val(<<Li("m")>>)>>)
RenameComps == Op("Operation", "SetName", <<XP(InWall(<<S("comps")>>)), Leaf("name", "stat")>>)
Custom(tag) == Op(tag, "Mod.Custom", <<XP(InWall(<<>>)), Leaf("success", "Invert")>>)
Sequence == Op("Operation", "Sequence",
               <<Elem("operations", <<>>, <<AddComps("li"), TestLabel("li"), AddLabel("li")>>)>>)
CustomSequence == Op("Operation", "Sequence",
               <<Elem("operations", <<>>, <<Custom("li"), AddLabel("li")>>), Leaf("success", "Invert")>>)
FindMod == Op("Operation", "FindMod",
              <<Elem("mods", <<>>, <<Li("Absent Mod")>>), AddComps("match")>>)
FindActive == Op("Operation", "FindMod",
              <<Elem("mods", <<>>, <<Li("Core")>>), RemoveStat("match"), AddLabel("nomatch")>>)
Conditional == Op("Operation", "Conditional",
              <<XP(InWall(<<S("stat")>>)), AddComps("match"), RemoveStat("nomatch")>>)
OnlyMatch == Op("Operation", "Conditional", <<XP(BadPath), AddLabel("match")>>)

Careless == Op("Operation", "Replace",
               <<XP(InWall(<<S("comps")>>)), Val(<<Li("x")>>), Leaf("success", "Always"), Val(<<>>)>>)
StrayMods == Op("Operation", "FindMod",
                <<Leaf("success", "Sometimes"), Elem("mods", <<>>, <<Li("Core"), Leaf("mod", "x")>>),
                  Op("nomatch", "Test", <<XP(InAll(<<>>)), Leaf("note", "x")>>)>>)

TwoSpellings(tag) == Op(tag, "Remove", <<[XP(InWall(<<>>)) EXCEPT !.tag = "XPath"], XP(InWall(<<S("label")>>))>>)
Careful == Op("Operation", "Sequence", <<Elem("operations", <<>>, <<TwoSpellings("li")>>)>>)
Required == Op("Operation", "Replace", <<XP(InWall(<<S("comps")>>)),
                                         Elem("value", A("MayRequire", <<"Core">>), <<Li("x")>>)>>)

Pool ==
  {AddComps("Operation"), RemoveWall, InsertLi, ReplaceComps, AddLabel("Operation"),
   SetParent, AddName, DropParent(".."), DropParent("parent"), Extension, RenameComps, Custom("Operation"),
   Sequence, CustomSequence, FindMod, FindActive, Careless, StrayMods, Conditional, OnlyMatch,
   AddEvery, InsertEvery, ReplaceEvery, RenameEvery, Careful, Required}

PatchRoot(kids) == <<Elem("Patch", <<>>, kids)>>

Second == {AddLabel("Operation"), RemoveStat("Operation"), ReplaceComps, Sequence}

MCPatchWorlds == {<<PatchRoot(<<p, AddLabel("Operation")>>), PatchRoot(<<q>>)>> : p \in Pool, q \in Second}

MCOrders == {<<>>, <<<<2, 0>>, <<9, 9>>, <<1, 0>>>>}

MCDisablings == {{}, {<<1, 0>>}, {<<1, 1>>, <<2, 0>>}}

MCActiveMods == {"Core"}

=============================================================================
