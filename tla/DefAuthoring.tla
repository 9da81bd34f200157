------------------------------ MODULE DefAuthoring ------------------------------
(***************************************************************************)
(* Writing Defs in the editor: the buffer of the open file and the batches *)
(* of edits of the form (services/xml_editor.rs), the commands that insert *)
(* a new Def (commands/create_def.rs, commands/def_templates.rs), which    *)
(* work on a copy of the buffer while files and buffer may change, and the *)
(* validation of what is shown (services/validation.rs).                   *)
(*                                                                         *)
(* Abstracted: the index is a function of the files it was built from; a   *)
(* fresh load builds it from the files of that moment (IndexingService),   *)
(* the validation reads the published one.  The buffer always parses: a    *)
(* text that does not is refused by every command here.  A project keeps   *)
(* one template.  last is what the previous step answered.                 *)
(***************************************************************************)
EXTENDS DefCreation

CONSTANTS
  Types, Objects,   \* the catalog of the project
  Shipped,          \* the Def types of the shipped packs
  Paths,            \* the Def files, as a sequence
  Open,             \* the file in the editor
  Place,            \* path -> [loc, kind, readOnly]
  Buffers,          \* what the open file may hold at first
  Stored,           \* path -> what the other files hold at first
  Contents,         \* path -> what they may be changed to
  Edits, Batches,   \* single edits; further ones in twos, of one target
  ListNames,        \* the lists whose items can be addressed
  Context,          \* the context of the form: [order, nested]
  Commands,         \* the insertions that may be asked for
  MaxSteps          \* bound: edits, insertions, changes of files and of the template

VARIABLES buffer, files, published, template, pending, last, steps

vars == <<buffer, files, published, template, pending, last, steps>>

Idle == [op |-> "idle"]
NoTemplate == [type |-> "none"]

-----------------------------------------------------------------------------
(* The index and the validation.                                            *)

DefsOf(path, doc) ==
  LET named == SelectSeq(ExtractDefSummaries(doc), LAMBDA s : s.name # <<>>)
  IN  [i \in DOMAIN named |->
         [type |-> named[i].type, name |-> named[i].name, path |-> path, at |-> named[i].at,
          loc |-> Place[path].loc, kind |-> Place[path].kind,
          readOnly |-> Place[path].readOnly]]

IndexOf(contents) ==
  [defs |-> FlattenSeq([i \in DOMAIN Paths |-> DefsOf(Paths[i], contents[Paths[i]])]),
   byType |-> <<>>]

\* Slip: the file's own Defs are taken from the disk.
DiskIndex(contents, doc) == IndexOf(contents)

\* The index with the text of the editor in place of the file.
Overlaid(contents, doc) == IndexOf([contents EXCEPT ![Open] = doc])

ProjectContext(index) ==
  [types |-> Types, objects |-> Objects, index |-> index, loc |-> "none", path |-> Open]

ValidateDocForProject(doc) == ValidateDocument(ProjectContext(Overlaid(published, doc)), doc)

ValidateDocForSource(path) ==
  ValidateDocument([types |-> Types, objects |-> Objects, index |-> IndexOf(published),
                    loc |-> Place[path].loc, path |-> path], files[path])

-----------------------------------------------------------------------------
(* Edits.                                                                   *)

DefNodes(doc) ==
  IF doc[Root].name # "Defs" THEN {Root}
  ELSE {n \in DOMAIN doc : IsElementNode(doc, n) /\ doc[n].parent = Root}

ItemNodes(doc) ==
  {n \in DOMAIN doc : /\ IsElementNode(doc, n) /\ doc[n].parent # Nowhere
                      /\ doc[doc[n].parent].name \in ListNames}

OnItems == {"SetObjectListItemAttribute", "SetObjectListItemChildText",
            "RemoveObjectListItemChild", "RemoveObjectListItem",
            "RenameKeyedObjectListItem", "SetKeyedObjectListItemText"}

\* The nodes the form may address.
TargetsOf(doc, edit) == IF edit.op \in OnItems THEN ItemNodes(doc) ELSE DefNodes(doc)

At(edit, n, after) == [edit EXCEPT !.at = n, !.after = after]

AfterNodes(doc, edit) == IF edit.op \in Inserts THEN {Nowhere} \cup ItemNodes(doc) ELSE {Nowhere}

SingleEdits(doc) ==
  {<<At(x[1], x[2], x[3])>> :
     x \in UNION {{e} \X TargetsOf(doc, e) \X AfterNodes(doc, e) : e \in Edits}}

EditBatches(doc) ==
  UNION {{<<At(b[1], n, Nowhere), At(b[2], n, Nowhere)>> : n \in TargetsOf(doc, b[1])} : b \in Batches}

\* The nodes without what is only there to write them.
Bare(doc) == [n \in DOMAIN doc |-> [doc[n] EXCEPT !.span = NoDoc, !.dirty = FALSE]]

\* An edit that fails leaves the buffer as it was, whatever the ones before it did.
ApplyEditorEdits(batch, r) ==
  /\ steps' = steps + 1
  /\ buffer' = IF r.ok THEN Serialized(r.doc, Root) ELSE buffer
  /\ last' = [op |-> "edit", ok |-> r.ok, before |-> buffer, arena |-> Bare(r.doc), batch |-> batch]
  /\ UNCHANGED <<files, published, template, pending>>

Edit ==
  /\ steps < MaxSteps
  /\ \E doc \in {ParseToDocument(buffer)} :
       \E batch \in SingleEdits(doc) \cup EditBatches(doc) :
         \E r \in {ApplyXmlEdits(doc, batch, Context)} : ApplyEditorEdits(batch, r)

-----------------------------------------------------------------------------
(* Insertions.  A command is [op, type, id, values, path, at, from, name]:  *)
(* op "template" with the template id, if any, and the values of the        *)
(* wizard; "saved" with the name of the new Def; "clone" with the file,     *)
(* place, if any, and name of the Def to copy.  The command has taken the   *)
(* buffer along, and what it knows of a template, when it waits for the     *)
(* index; the files and the buffer do not wait for it.                      *)

BlankTemplate == [values |-> <<>>, includeRequired |-> TRUE]

IsKnownTemplate(cmd) ==
  /\ cmd.type \in DOMAIN Shipped
  /\ ~Shipped[cmd.type].abstract
  /\ ToSet(cmd.id) \subseteq DOMAIN Shipped[cmd.type].templates

TemplateOf(cmd) ==
  IF cmd.id = <<>> THEN BlankTemplate ELSE Shipped[cmd.type].templates[cmd.id[1]]

\* The command as it goes on: with the type, the name and the Def that are known by now.
Resolved(cmd) ==
  IF cmd.op = "template"
  THEN cmd @@ [merged |-> MergedValues(TemplateOf(cmd), cmd.values),
               required |-> TemplateOf(cmd).includeRequired, block |-> NoDoc]
  ELSE cmd @@ [merged |-> <<>>, required |-> FALSE,
               block |-> IF cmd.op = "saved" THEN template.xml ELSE NoDoc]

AskedName(cmd) == IF cmd.op = "template" THEN DefNameOf(cmd.merged) ELSE Trimmed(cmd.name)

AskedType(cmd) == IF cmd.op = "saved" THEN template.type ELSE cmd.type

Begin ==
  /\ pending = Idle /\ steps < MaxSteps
  /\ \E cmd \in Commands :
       /\ CASE cmd.op = "template" -> IsKnownTemplate(cmd)
            [] cmd.op = "saved" -> template # NoTemplate /\ Trimmed(cmd.name) # <<>>
            [] OTHER -> Trimmed(cmd.name) # <<>>
       /\ pending' = [op |-> "begun", raw |-> buffer, seen |-> files,
                      cmd |-> [Resolved(cmd) EXCEPT !.type = AskedType(cmd)]]
  /\ steps' = steps + 1
  /\ last' = Idle
  /\ UNCHANGED <<buffer, files, published, template>>

\* The name is compared with the files and the buffer, the source of a copy with the
\* files only.
IsRefused(cmd, raw) ==
  \/ /\ AskedName(cmd) # <<>>
     /\ FindProjectDuplicates(Overlaid(files, raw), cmd.type, AskedName(cmd)) # <<>>
  \/ /\ cmd.op = "clone"
     /\ \A d \in ToSet(IndexOf(files).defs) :
          ~(/\ d.path = cmd.path /\ d.type = cmd.type /\ d.name = cmd.from
            /\ \A at \in ToSet(cmd.at) : d.at = at)

\* The fresh index is there.
CheckIndex ==
  /\ pending.op = "begun"
  /\ IF IsRefused(pending.cmd, pending.raw)
     THEN pending' = Idle /\ last' = [op |-> "refused"]
     ELSE pending' = [pending EXCEPT !.op = "checked", !.seen = files] /\ last' = Idle
  /\ UNCHANGED <<buffer, files, published, template, steps>>

ShippedContext ==
  [types |-> Shipped, objects |-> Objects, index |-> IndexOf(published), loc |-> "none", path |-> Open]

\* The Def that is put in, before it gets its name.
SourceBlock(cmd) ==
  IF cmd.op = "saved" THEN Answer("", cmd.block)
  ELSE ExtractIndexedDefXml(files[cmd.path], cmd.type, cmd.from, cmd.at)

\* The next step on an answer that is no error.
Named(cmd, source) ==
  IF source.error # "" THEN source ELSE SetOrInsertDefName(cmd.type, source.doc, AskedName(cmd))

Put(raw, block) == IF block.error # "" THEN block ELSE InsertDefBlock(raw, block.doc)

Inserted(cmd, raw) ==
  IF cmd.op = "template"
  THEN CreateAndInsertDef(ShippedContext, raw, cmd.type, cmd.merged, cmd.required)
  ELSE Put(raw, Named(cmd, SourceBlock(cmd)))

\* The editor takes the answer only if its text is still the one it sent.
FinishWith(answer) ==
  /\ pending' = Idle
  /\ IF answer.error # "" \/ buffer # pending.raw
     THEN UNCHANGED buffer /\ last' = [op |-> "refused"]
     ELSE /\ buffer' = answer.doc
          /\ last' = [op |-> "create", before |-> buffer, cmd |-> pending.cmd,
                      seen |-> pending.seen, read |-> files,
                      id |-> InsertedNodeId(answer.doc, pending.cmd.type, AskedName(pending.cmd))]
  /\ UNCHANGED <<files, published, template, steps>>

Finish ==
  /\ pending.op = "checked"
  /\ \E answer \in {Inserted(pending.cmd, pending.raw)} : FinishWith(answer)

SaveUserDefTemplate ==
  /\ template = NoTemplate /\ steps < MaxSteps
  /\ \E s \in ToSet(ExtractDefSummaries(buffer)) :
       \E answer \in {ExtractSelectedDefXml(buffer, s.at)} :
         answer.error = "" /\ template' = [type |-> s.type, xml |-> answer.doc]
  /\ steps' = steps + 1 /\ last' = Idle
  /\ UNCHANGED <<buffer, files, published, pending>>

DeleteUserDefTemplate ==
  /\ template # NoTemplate
  /\ template' = NoTemplate /\ last' = Idle
  /\ UNCHANGED <<buffer, files, published, pending, steps>>

-----------------------------------------------------------------------------
(* The files around the editor.                                             *)

\* Another program, or the editor in another file.
ChangeFile ==
  /\ steps < MaxSteps
  /\ \E path \in DOMAIN Contents : \E doc \in Contents[path] :
       files' = [files EXCEPT ![path] = doc]
  /\ steps' = steps + 1 /\ last' = Idle
  /\ UNCHANGED <<buffer, published, template, pending>>

\* The worker publishes an index of the files as they are.
Publish ==
  /\ published # files
  /\ published' = files /\ last' = Idle
  /\ UNCHANGED <<buffer, files, template, pending, steps>>

SaveBuffer ==
  /\ files[Open] # buffer /\ steps < MaxSteps
  /\ files' = [files EXCEPT ![Open] = buffer]
  /\ steps' = steps + 1 /\ last' = Idle
  /\ UNCHANGED <<buffer, published, template, pending>>

Init ==
  /\ buffer \in Buffers
  /\ files = (Open :> buffer) @@ Stored
  /\ published = files
  /\ template = NoTemplate /\ pending = Idle /\ last = Idle
  /\ steps = 0

Next ==
  \/ Edit
  \/ Begin \/ CheckIndex \/ Finish
  \/ SaveUserDefTemplate \/ DeleteUserDefTemplate
  \/ ChangeFile \/ Publish \/ SaveBuffer

Spec == Init /\ [][Next]_vars

-----------------------------------------------------------------------------
(* Properties of the edits.                                                 *)

RECURSIVE Attached(_, _)
Attached(doc, n) ==
  n = Root \/ (doc[n].parent # Nowhere /\ Position(doc, doc[n].parent, n) # 0
               /\ Attached(doc, doc[n].parent))

Edited == last.op = "edit" /\ last.ok

\* What is found where an edit with a path leads.
Led(doc, edit) == Meant(doc, Last(ResolvePath(doc, edit.at, edit.path)))

OneText(t) ==
  \A i \in DOMAIN t.kids : HoldsText(t.kids[i]) /\ ~IsBlank(t.kids[i]) =>
     \A j \in DOMAIN t.kids : HoldsText(t.kids[j]) /\ ~IsBlank(t.kids[j]) => i = j

Reads1(t, words) == OneText(t) => Value(t) = Trimmed(words)

EntriesOf(t) == [i \in DOMAIN Elements(t) |-> <<Elements(t)[i].name, Value(Elements(t)[i])>>]

ReadsBack(doc, edit) ==
  CASE edit.op \in {"SetChildElementText", "SetNestedObjectFieldText", "SetNestedElementText",
                    "SetObjectListItemChildText"} ->
         Reads1(Head(Called(Led(doc, edit), edit.field)), edit.texts[1])
    [] edit.op \in {"SetElementAttribute", "SetNestedElementAttribute",
                    "SetObjectListItemAttribute"} ->
         Led(doc, edit).attrs[edit.field] = edit.texts[1]
    [] edit.op = "SetKeyedObjectListItemText" -> Reads1(Meant(doc, edit.at), edit.texts[1])
    [] edit.op \in {"SetListItems", "SetNestedListItems", "SetTypedReferenceListItems",
                    "ReplaceKeyedValueListEntries"} ->
         EntriesOf(Head(Called(Led(doc, edit), edit.field)))
           = [i \in DOMAIN edit.entries |-> <<edit.entries[i][1], Trimmed(edit.entries[i][2])>>]
    [] edit.op = "SetNamedMapEntry" ->
         Reads1(Head(Called(Head(Called(Led(doc, edit), edit.field)), edit.key)), edit.texts[1])
    [] OTHER -> TRUE

\* Whatever was marked dirty or not, and whichever tags were self-closing: the text that is
\* written says what the edited document means, and what was set is read back from it
\* (serializer.rs:23, apply_editor_edits).
EditsWritten ==
  Edited =>
    /\ buffer = Meant(last.arena, Root)
    /\ Attached(last.arena, Last(last.batch).at) => ReadsBack(last.arena, Last(last.batch))

\* The child of a Def through which an edit works.
RECURSIVE TopOf(_, _)
TopOf(doc, n) == IF doc[n].parent \in DefNodes(doc) THEN doc[n].name ELSE TopOf(doc, doc[n].parent)

Touched(doc, edit) ==
  CASE edit.op \in OnItems -> TopOf(doc, edit.at)
    [] edit.op \in {"SetElementAttribute", "RemoveElementAttribute"} -> ""
    [] OTHER -> IF edit.path # <<>> THEN edit.path[1] ELSE edit.field

RECURSIVE OwnerOf(_, _)
OwnerOf(doc, n) == IF n \in DefNodes(doc) THEN n ELSE OwnerOf(doc, doc[n].parent)

\* What a Def holds beside its blanks and some of its fields.
Rest(t, names) ==
  SelectSeq(t.kids, LAMBDA k : ~IsBlank(k) /\ ~(k.kind = "element" /\ k.name \in names))

InOrder(t) ==
  LET ranks == SelectSeq([i \in DOMAIN Elements(t) |-> Rank(Context.order, Elements(t)[i].name)],
                         LAMBDA r : r # 0)
  IN  \A i, j \in DOMAIN ranks : i < j => ranks[i] <= ranks[j]

OnlyRemoves == {"RemoveChildElement", "RemoveNestedElement", "RemoveObjectListItemChild",
                "RemoveNamedMapEntry"}

\* An entry of a map is also taken for there when the path to the map is not: removing it
\* creates that path.
IsThere(doc, edit) ==
  LET chain == ResolvePath(doc, edit.at, edit.path)
      found == IF Len(chain) <= Len(edit.path) THEN Nowhere
               ELSE FindChildElement(doc, Last(chain), edit.field)
  IN  IF edit.op = "RemoveNamedMapEntry"
      THEN \/ Len(chain) <= Len(edit.path)
           \/ found # Nowhere /\ FindChildElement(doc, found, edit.key) # Nowhere
      ELSE found # Nowhere

\* old: the nodes before; names, owner: the fields and the Def the batch is about; was and
\* is: that Def before and after.
Confined(old, names, owner, was, is) ==
  /\ \A n \in DefNodes(old) \ {owner} :
       Attached(last.arena, n) /\ Meant(last.arena, n) = Meant(old, n)
  /\ Attached(last.arena, owner) => Rest(is, names) = Rest(was, names)
  /\ InOrder(was) => InOrder(is)
  /\ (\A e \in ToSet(last.batch) : e.op \in OnlyRemoves /\ ~IsThere(old, e))
       => buffer = last.before

\* A batch changes the fields its edits name of the Def they address and nothing else:
\* comments and neighbours stay, in their order, fields that were in the order of the
\* schema stay in it (format.rs:18), and removing what is not there is no change
\* (scalar.rs:160, maps.rs:108), but for a map entry whose path is not there either.
EditsConfined ==
  Edited =>
    \A old \in {ParseToDocument(last.before)} :
      \A owner \in {OwnerOf(old, last.batch[1].at)} :
        Confined(old, {Touched(old, e) : e \in ToSet(last.batch)}, owner,
                 Meant(old, owner), Meant(last.arena, owner))

\* api.rs:124: what pruning removes are empty containers and empty object elements; a Def
\* is neither, and one with attributes is not empty (scalar.rs:229).
PruneKeepsDefs ==
  Edited => \A n \in DefNodes(ParseToDocument(last.before)) : Attached(last.arena, n)

-----------------------------------------------------------------------------
(* Properties of the insertions.                                            *)

Created == last.op = "create"

DefsAlone(doc) == [i \in DOMAIN ExtractDefSummaries(doc) |-> ExtractDefSummaries(doc)[i].def]

\* The closing tag is only mentioned, or the name has blanks around it: README,
\* Disagreements.
IsOddInput(doc, name) == (\E k \in ToSet(doc.kids) : Mentions(k)) \/ name # Trimmed(name)

\* What a copy takes over from its source.
SourceOf(cmd) ==
  IF cmd.op = "saved" THEN cmd.block
  ELSE Head(SelectSeq(ExtractDefSummaries(last.read[cmd.path]),
                      LAMBDA s : /\ s.type = cmd.type /\ s.name = cmd.from
                                 /\ \A at \in ToSet(cmd.at) : s.at = at)).def

IsCopy(def, source) ==
  /\ def.attrs = source.attrs
  /\ Rest(def, {"defName"}) = Rest(source, {"defName"})

\* What the type requires after its overrides, in its order and in a shape that is written.
RequiredOf(type) ==
  LET fields == CollectAllFields(Shipped, type)
  IN  {f \in ToSet(CollectEffectiveFieldOrder(Shipped, type)) \cap DOMAIN fields :
         fields[f].required /\ fields[f].shape \in ElementShapes}

\* An insertion appends one Def of the type and name asked for, leaves the others as they
\* are and points at the new one (insert_def_block, create_def.rs:804); a copy differs from
\* its source in nothing but its defName (def_templates.rs:186); a template that includes
\* the required fields leaves none of them out; and no other Def that was known when the
\* name was checked, in the files or in the unsaved text, has that type and name.
CreatedAsAsked ==
  Created /\ ~IsOddInput(last.before, AskedName(last.cmd)) =>
    LET defs == ExtractDefSummaries(buffer)
        new == Last(defs)
        name == AskedName(last.cmd)
        others == Front(DefsOf(Open, buffer))
        elsewhere == SelectSeq(IndexOf(last.seen).defs, LAMBDA d : d.path # Open)
    IN  /\ Front(DefsAlone(buffer)) = DefsAlone(last.before)
        /\ new.type = last.cmd.type /\ new.name = name
        /\ name # <<>> =>
             /\ last.id = new.at
             /\ \A d \in ToSet(others \o elsewhere) :
                  ~(d.type = new.type /\ d.name = name /\ d.kind = "Project")
        /\ last.cmd.op # "template" => IsCopy(new.def, SourceOf(last.cmd))
        /\ last.cmd.op = "template" /\ last.cmd.required =>
             RequiredOf(new.type) \subseteq ElementChildNames(new.def)

-----------------------------------------------------------------------------
(* Properties of the reports.                                               *)

\* What a type is: itself and what it inherits from.
IsA(type, target) == target \in ToSet(SelfFirst(Types, type, <<>>))

\* What of a buffer is reported missing, Def by Def.
MissingReports(ctx, doc) ==
  UNION {{[at |-> s.at, problem |-> p] :
            p \in ValidateRequiredFieldsPresent(ctx, s) \cup EvaluateValidationRules(ctx, s)} :
           s \in {s \in ToSet(ExtractDefSummaries(doc)) : s.type \in DOMAIN ctx.types}}

IsMissing(problem) == problem.code = "missing_required_field"

\* Where the Def is that was edited.
PlaceOf(doc, n) == IF n = Root THEN 0 ELSE Position(doc, Root, n)

\* document.rs:203: a field that was given is not reported missing, and what other Defs
\* miss is neither more nor less than before.
GivingHelps(missing, ctx) ==
  Edited /\ last.batch[1].op = "SetChildElementText" =>
    \A at \in {PlaceOf(last.arena, last.batch[1].at)} :
      /\ [at |-> at, problem |-> WarningAt("missing_required_field", <<last.batch[1].field>>)]
           \notin missing
      /\ {x \in missing : x.at # at} = {x \in MissingReports(ctx, last.before) : x.at # at}

RefersTo(s, k) ==
  {f.reference[1].type : f \in {f \in FieldOf(Types, s.type, k.name) :
                                  f.shape = "Element" /\ f.reference # <<>> /\ Value(k) # <<>>}}

\* What can be followed from there: the one Def the project may edit, or any.
Opens(index, type, name, resolution) ==
  /\ resolution.kind # "missing"
  /\ resolution.kind = "editableProjectDef" =>
       /\ Len(FindProjectDuplicates(index, type, name)) = 1
       /\ resolution.path = FindProjectDuplicates(index, type, name)[1].path

\* references.rs:10, lookup.rs:21: a field that refers to a Def is reported exactly when no
\* Def of that name is of the type asked for or of one that inherits from it; what the
\* picker suggests is never reported and can be followed.
ReferencesMeanIsA(reports, index) ==
  /\ \A s \in {s \in ToSet(ExtractDefSummaries(buffer)) : s.type \in DOMAIN Types} :
       \A k \in ToSet(Elements(s.def)) : \A target \in RefersTo(s, k) :
         ([at |-> s.at, problem |-> WarningAt("unresolved_reference", <<k.name>>)] \in reports)
           <=> \A d \in ToSet(index.defs) : d.name = Value(k) => ~IsA(d.type, target)
  /\ \A target \in DOMAIN Types : \A i \in SuggestDefReferences(index, {target}, "AllSources") :
       /\ IsReferenceResolved([types |-> Types, index |-> index], target, index.defs[i].name)
       /\ Opens(index, target, index.defs[i].name,
                ResolveDefReference(index, {target}, index.defs[i].name, "AllSources"))

\* What the form does for a field of a shape.
ShapesOf ==
  [SetChildElementText |-> {"Element", "Text", "FlagsText"}, SetListItems |-> {"ListOfLi"},
   SetNamedMapEntry |-> {"NamedChildrenMap"}, RenameNamedMapEntry |-> {"NamedChildrenMap"},
   ReplaceKeyedValueListEntries |-> {"KeyedValueList"},
   SetTypedReferenceListItems |-> {"TypedReferenceList"},
   InsertObjectListItem |-> {"ListOfLi"}, InsertKeyedObjectListItem |-> {"KeyedObjectList"}]

Fits(type, edit) ==
  /\ edit.op \in DOMAIN ShapesOf /\ edit.path = <<>>
  /\ \E f \in FieldOf(Types, type, edit.field) : f.shape \in ShapesOf[edit.op]

Misshapen(reports, field) ==
  {r \in reports : r.problem = WarningAt("field_shape_mismatch", <<field>>)
                   \/ r.problem = WarningAt("unknown_field", <<field>>)}

\* shapes.rs:3: a field that had its shape still has it after the form's own operation for
\* that shape.
FittingEditsKeepShapes(reports, ctx) ==
  Edited =>
    \A edit \in {e \in ToSet(last.batch) : \A s \in ToSet(ExtractDefSummaries(buffer)) :
                   s.type \in DOMAIN Types => Fits(s.type, e)} :
      Misshapen(ValidateDocument(ctx, last.before), edit.field) = {}
        => Misshapen(reports, edit.field) = {}

\* document.rs:120: a source file is in conflict with other Defs but not with itself.
ConflictsAreReal(index) ==
  \A path \in {p \in ToSet(Paths) : Place[p].kind = "Source"} :
    \A r \in ValidateDocForSource(path) : r.problem.code = "duplicate_source_def_name" =>
      \E s \in {s \in ToSet(ExtractDefSummaries(files[path])) : s.at = r.at} :
        Len(FindSourceDuplicates(index, s.type, s.name)) > 1

\* What the editor shows can be relied on: its references, its missing fields, its shapes
\* and its conflicts, of the buffer and of the files around it, whatever was edited, inserted or
\* changed by others before.
ReportsJustified ==
  /\ \A index \in {Overlaid(published, buffer)} :
       /\ \A reports \in {ValidateDocForProject(buffer)} :
            /\ ReferencesMeanIsA(reports, index)
            /\ FittingEditsKeepShapes(reports, ProjectContext(index))
            /\ GivingHelps({r \in reports : IsMissing(r.problem)}, ProjectContext(index))
  /\ published = files => \A index \in {IndexOf(files)} : ConflictsAreReal(index)

=============================================================================
