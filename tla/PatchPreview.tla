---------------------------- MODULE PatchPreview ----------------------------
(***************************************************************************)
(* The preview of one Def (services/patch_preview): the Def files of the   *)
(* included locations are combined into one document, the operations that  *)
(* touch the selected Def are found, the whole stream of operations is     *)
(* applied in the requested order with the requested ones disabled, and    *)
(* inheritance is resolved on what comes out.                              *)
(*                                                                         *)
(* compute_def_preview is one call; it is cut here after every top-level   *)
(* operation, so that the properties see each intermediate document.       *)
(***************************************************************************)
EXTENDS PatchApply, PatchInheritance

CONSTANTS DefWorlds,     \* the Def files on disk, in load order: sequences of fragments
          PatchWorlds,   \* the patch files: sequences of top-level element lists
          Targets,       \* [file, ordinal, type, identity]
          Orders,        \* requested orders: sequences of keys
          Disablings,    \* requested disabled keys
          ActiveMods     \* the display names of the registered locations

VARIABLES stage,      \* "closed", "opened", "applying", "shown"
          base,       \* the combined document before any patch, with its provenance
          request,    \* what the dialog asked for, and what was derived from it
          queue,      \* the top-level operations not applied yet
          run,        \* the engine
          result      \* what the dialog shows

vars == <<stage, base, request, queue, run, result>>

-----------------------------------------------------------------------------
(* The combined document and the selected Def.                              *)

\* A file's own <Defs> root is unwrapped; anything else is taken as it is.
\* The ordinal of a Def counts the elements one file contributes.
AppendDefFileContents(acc, fragment) ==
  LET content == FlattenSeq([i \in DOMAIN fragment |->
                   IF fragment[i].tag = "Defs" THEN fragment[i].kids ELSE <<fragment[i]>>])
      grown   == GrowAll(acc.doc, content)
  IN  [doc     |-> [grown.doc EXCEPT ![Root].kids = @ \o grown.ids],
       origins |-> Append(acc.origins, SelectSeq(grown.ids, LAMBDA n : IsElement(grown.doc[n])))]

CombineDefFiles(files) ==
  FoldLeft(AppendDefFileContents,
           [doc |-> <<Elem("Defs", <<>>, <<>>)>>, origins |-> <<>>], files)

\* By type and defName, or by the Name of a template.
MatchesSelectedDef(doc, n, type, identity) ==
  /\ doc[n].tag = type
  /\ \/ DefNameOf(doc, n) = identity
     \/ AttributeOf(doc, n, "Name") = identity
\* Slip: the first Def of that type and name, wherever it comes from.
FirstOfThatName(combined, target) ==
  LET named == SelectSeq(ElementKids(combined.doc, Root),
                         LAMBDA n : MatchesSelectedDef(combined.doc, n, target.type, target.identity))
  IN  IF named = <<>> THEN Absent ELSE Head(named)

\* By origin, then checked: never another Def of the same name.
ResolveTarget(combined, target) ==
  LET at == IF target.file \in DOMAIN combined.origins
               /\ target.ordinal \in DOMAIN combined.origins[target.file]
            THEN combined.origins[target.file][target.ordinal] ELSE Absent
  IN  IF at # Absent /\ MatchesSelectedDef(combined.doc, at, target.type, target.identity)
      THEN at ELSE Absent

TopLevelDefElements(doc) == ElementKids(doc, Root)

RECURSIVE AncestorWalk(_, _, _)

\* The names met going up from a Def; a name held twice is its last holder's.
AncestorWalk(doc, n, visited) ==
  LET own     == {AttributeOf(doc, n, "Name")} \ {Absent}
      parent  == AttributeOf(doc, n, "ParentName")
      holders == SelectSeq(TopLevelDefElements(doc), LAMBDA m : AttributeOf(doc, m, "Name") = parent)
  IN  IF parent = Absent \/ parent \in visited \/ holders = <<>> THEN own
      ELSE own \cup AncestorWalk(doc, Last(holders), visited \cup {parent})

PrePatchAncestorNames(doc, target) == AncestorWalk(doc, target, {})

\* A match touches the target when it, or an element above it, is the target
\* or carries the name of an ancestor.
XPathTouchesTarget(doc, xpath, target, names) ==
  /\ xpath.ok
  /\ \E n \in ToSet(SelectElements(doc, xpath)) : \E m \in Lineage(doc, n) :
       \/ m = target
       \/ AttributeOf(doc, m, "Name") \in names

-----------------------------------------------------------------------------
(* The operations shown, and the order they run in.                         *)

\* A template has no defName to look up.
Affecting(index, doc, node, target) ==
  ToSet(IF DefNameOf(doc, node) # Absent
        THEN OperationsAffectingDef(index, target.type, target.identity)
        ELSE TypeWideOperations(index, target.type))

TouchingKeys(index, doc, node) ==
  LET names == PrePatchAncestorNames(doc, node)
  IN  {k \in ToSet(AllKeys(index)) :
         LET xpath == IndexedOp(index, k).xpath
         IN  xpath # Absent /\ XPathTouchesTarget(doc, xpath, node, names)}

Unresolved(index) ==
  {k \in ToSet(AllKeys(index)) : IndexedOp(index, k).target.kind = "Unsupported"}

VisibleKeys(index, doc, node, target) ==
  (Affecting(index, doc, node, target) \cup Unresolved(index)) \cap TouchingKeys(index, doc, node)
\* Only what the static graph vouches for, and only at the top level.
EligibleKeys(index, doc, node, target) ==
  {k \in Affecting(index, doc, node, target) \cap TouchingKeys(index, doc, node) :
     IndexedOp(index, k).top}

\* Files are paired with the index by position.
FlattenTopLevelOperations(files) ==
  FlattenSeq([f \in DOMAIN files |-> [i \in DOMAIN files[f] |-> [file |-> f, op |-> files[f][i]]]])

KeyOf(entry) == <<entry.file, entry.op.id>>

FirstOccurrences(keys) ==
  FoldLeft(LAMBDA acc, k : IF k \in ToSet(acc) THEN acc ELSE Append(acc, k), <<>>, keys)
\* The slots of the eligible operations are refilled: the requested ones
\* first, then the others in their old order; every other slot is kept.
ApplyReorder(default, eligible, requested) ==
  LET slots   == SelectSeq([i \in DOMAIN default |-> i], LAMBDA i : KeyOf(default[i]) \in eligible)
      keys    == [j \in DOMAIN slots |-> KeyOf(default[slots[j]])]
      asked   == SelectSeq(FirstOccurrences(requested), LAMBDA k : k \in ToSet(keys))
      refill  == asked \o SelectSeq(keys, LAMBDA k : k \notin ToSet(asked))
      Holder(k) == CHOOSE i \in DOMAIN default : KeyOf(default[i]) = k
  IN  [i \in DOMAIN default |->
         IF i \in ToSet(slots) THEN default[Holder(refill[IndexIn(slots, i)])] ELSE default[i]]

-----------------------------------------------------------------------------
(* What the result says of the visible operations.                          *)

StatusOf(trace, key) ==
  LET at == {i \in DOMAIN trace : trace[i].key = key}
  IN  IF at = {} THEN Absent ELSE trace[CHOOSE i \in at : \A j \in at : i <= j].status

Effective(visible, trace) == {k \in visible : StatusOf(trace, k) \in {"Applied", "Unsupported"}}

\* What the graph alone says, whatever the preview does: the name of a template
\* is looked up as if it were a defName.
MultipleOperations(index, target) ==
  {<<"multiple_operations", k>> :
     k \in ToSet(ConflictsInvolvingDef(index, target.type, target.identity))}

\* (a) Replace or Remove twice at one path, (b) Add of the same child twice at
\* one path, (c) a path at or below one removed earlier, (f) not previewable.
\* Only operations that took effect conflict; in (c) the later one may have
\* failed, which is how the conflict shows.
DetectVisibleConflicts(visible, index, files, trace) ==
  LET Op(k)     == IndexedOp(index, k)
      Status(k) == StatusOf(trace, k)
      effective == Effective(visible, trace)
      Position(k) == CHOOSE i \in DOMAIN trace :
                       trace[i].key = k /\ \A j \in 1..(i - 1) : trace[j].key # k
      Added(k) == LET added == Payload(FindOperationNode(files, k))
                  IN  {<<k, i, added[i].tag>> :
                         i \in {j \in DOMAIN added : added[j].tag \notin {"#text", "li"}}}
      SameXPath(k, l) == Op(k).xpath = Op(l).xpath
      Overwrites(k) == Op(k).class \in {"Replace", "Remove"}
      Adds(k)   == Op(k).class = "Add" /\ Op(k).supported
  IN  {<<"duplicate_replace_or_remove", k>> :
         k \in {x \in effective : Overwrites(x) /\ \E y \in effective \ {x} : Overwrites(y) /\ SameXPath(x, y)}}
 \cup {<<"duplicate_add_child", k>> :
         k \in {x \in effective : Adds(x) /\ \E y \in effective :
                  Adds(y) /\ SameXPath(x, y)
                  /\ \E a \in Added(x), b \in Added(y) : a # b /\ a[3] = b[3]}}
 \cup {<<"targets_removed_node", k>> :
         k \in {x \in visible : /\ Status(x) \notin {"Skipped", Absent}
                                /\ \E y \in visible \ {x} :
                                     /\ Op(y).class = "Remove" /\ Status(y) = "Applied"
                                     /\ Position(y) < Position(x)
                                     /\ IsPrefix(Op(y).xpath.steps, Op(x).xpath.steps)}}
 \cup {<<"custom_operation_unpreviewable", k>> : k \in {x \in effective : ~Op(x).supported}}

\* A key that is not listed is not disabled.
DisabledKeys(disabled, visible) == disabled \cap visible

-----------------------------------------------------------------------------
(* One preview.                                                             *)

Combined == [defs \in DefWorlds |-> CombineDefFiles(defs)]

\* The patch files as the index cache holds them.
Loaded == [patches \in PatchWorlds |->
             LET files == [f \in DOMAIN patches |-> ParsePatchFile(patches[f]).operations]
             IN  [source |-> patches, files |-> files,
                  index |-> [f \in DOMAIN files |-> BuildIndexedPatchFile(files[f])]]]

NoResult == [found |-> FALSE, node |-> Absent, tree |-> Absent, status |-> <<>>, conflicts |-> {},
             partial |-> FALSE]

Idle ==
  /\ base = [doc |-> <<>>, origins |-> <<>>]
  /\ request = Absent
  /\ queue = <<>>
  /\ run = Engine(<<>>)
  /\ result = NoResult

Init == stage = "closed" /\ Idle

OpenOn(combined, target, loaded) ==
  /\ base' = combined
  /\ request' = [target |-> target, node |-> ResolveTarget(combined, target),
                 source |-> loaded.source, files |-> loaded.files, index |-> loaded.index,
                 default |-> <<>>, asked |-> <<>>, visible |-> {}, eligible |-> {}, disabled |-> {}]
  /\ run' = Engine(combined.doc)

\* The target is resolved first; a stale one is answered without a preview.
Open ==
  /\ stage = "closed"
  /\ \E defs \in DefWorlds, patches \in PatchWorlds, target \in Targets :
       OpenOn(Combined[defs], target, Loaded[patches])
  /\ queue' = <<>>
  /\ result' = NoResult
  /\ stage' = IF request'.node = Absent THEN "shown" ELSE "opened"

AskFor(default, visible, eligible, order, disabled) ==
  /\ request' = [request EXCEPT !.default = default, !.asked = order, !.visible = visible,
                                !.eligible = eligible,
                                !.disabled = DisabledKeys(disabled, visible)]
  /\ queue' = ApplyReorder(default, eligible, order)

\* What the dialog lists for the Def, and what it may ask for.
List ==
  /\ stage = "opened"
  /\ \E order \in Orders, disabled \in Disablings :
       AskFor(FlattenTopLevelOperations(request.files),
              VisibleKeys(request.index, base.doc, request.node, request.target),
              EligibleKeys(request.index, base.doc, request.node, request.target),
              order, disabled)
  /\ stage' = "applying"
  /\ UNCHANGED <<base, run, result>>

ApplyNext ==
  /\ stage = "applying"
  /\ queue # <<>>
  /\ run' = ApplyNode(run, Head(queue).op,
                      [file |-> Head(queue).file, active |-> ActiveMods, disabled |-> request.disabled])
  /\ queue' = Tail(queue)
  /\ UNCHANGED <<stage, base, request, result>>

ShowOf(resolution, found) ==
  result' = [found     |-> found,
             node      |-> IF found THEN request.node ELSE Absent,
             tree      |-> IF found THEN TreeOf(resolution.doc, Resolve(resolution, request.node))
                           ELSE Absent,
             status    |-> [k \in request.visible |-> StatusOf(run.trace, k)],
             conflicts |-> MultipleOperations(request.index, request.target)
                           \cup DetectVisibleConflicts(request.visible, request.index,
                                                       request.files, run.trace),
             partial   |-> run.partial]

\* The very element that was selected is shown, if the patches left it in.
Show ==
  /\ stage = "applying"
  /\ queue = <<>>
  /\ ShowOf(ResolveInheritance(run.doc, TopLevelDefElements(run.doc)),
            request.node \in ToSet(TopLevelDefElements(run.doc)))
  /\ stage' = "shown"
  /\ UNCHANGED <<base, request, queue, run>>

Close ==
  /\ stage = "shown"
  /\ stage' = "closed"
  /\ base' = [doc |-> <<>>, origins |-> <<>>]
  /\ request' = Absent
  /\ queue' = <<>>
  /\ run' = Engine(<<>>)
  /\ result' = NoResult

Next == Open \/ List \/ ApplyNext \/ Show \/ Close

Spec == Init /\ [][Next]_vars

-----------------------------------------------------------------------------
(* Properties.                                                              *)

Previewing == stage \in {"applying", "shown"} /\ request.node # Absent

Spliced == {"Add", "Insert", "Remove", "Replace", "SetName"}

RECURSIVE Rewritten(_, _, _, _)

\* A node's content once an operation has been done at each of its matches, as if
\* there were no other: what is inside a node that is taken out is of no account.
Rewritten(doc, n, op, matches) ==
  LET Stands(k) ==
        IF k \notin matches \/ op.class = "Add" THEN <<Rewritten(doc, k, op, matches)>>
        ELSE CASE op.class = "Remove"  -> <<>>
               [] op.class = "Replace" -> Payload(op)
               [] op.class = "SetName" -> <<Elem(op.name, <<>>, TreeOf(doc, k).kids)>>
               [] op.class = "Insert"  ->
                    IF op.order = "Append"
                    THEN <<Rewritten(doc, k, op, matches)>> \o Reverse(Payload(op))
                    ELSE Reverse(Payload(op)) \o <<Rewritten(doc, k, op, matches)>>
      inside == FlattenSeq([i \in DOMAIN doc[n].kids |-> Stands(doc[n].kids[i])])
  IN  [doc[n] EXCEPT !.kids =
         IF op.class # "Add" \/ n \notin matches THEN inside
         ELSE IF op.order = "Prepend" THEN Payload(op) \o inside ELSE inside \o Payload(op)]

MutatesAt(key, op) ==
  /\ op.class \in Spliced /\ op.raw = Absent /\ key \notin request.disabled
  /\ ~MissingField(op) /\ op.xpath.ok

\* An operation does at each of its matches what it would do if that were its only
\* one: every match gets a whole value of its own, a match inside another is not
\* forgotten, one inside a node that has been taken out changes nothing, and what
\* was just inserted is no match (mutations.rs: all matches are selected first, a
\* fresh fragment is parsed for each, a match without a parent is passed over).
EachMatchAlone ==
  [][(ApplyNext /\ MutatesAt(KeyOf(Head(queue)), Head(queue).op)) =>
       LET op == Head(queue).op
       IN  TreeOf(run'.doc, Root) =
             Rewritten(run.doc, Root, op, ToSet(SelectElements(run.doc, op.xpath)))]_vars

\* Every operation is reported at most once, whichever containers it sits in:
\* the dialog looks a row's status up by its key (preview.rs, trace.find).
EachTracedOnce == IsInjective([i \in DOMAIN run.trace |-> run.trace[i].key])

OpFailed(key, op) ==
  LET status == StatusOf(run.trace, key)
  IN  status = "Failed" \/ (status = "Unsupported" /\ op.success \in {"Invert", "Never"})

\* The trace is the trace of a run: nothing nested in a skipped operation ran,
\* nothing ran after a failure in a sequence, and of two branches at most one
\* (control_flow.rs).
TraceIsARun ==
  Previewing =>
    \A f \in DOMAIN request.files : \A t \in ToSet(request.files[f]) :
      \A op \in ToSet(OperationsIn(t)) :
        LET Seen(o) == o # Absent /\ StatusOf(run.trace, <<f, o.id>>) # Absent
        IN  /\ StatusOf(run.trace, <<f, op.id>>) = "Skipped" =>
                 \A o \in ToSet(OperationsIn(op)) \ {op} : ~Seen(o)
            /\ \A i, j \in DOMAIN op.children :
                 i < j /\ OpFailed(<<f, op.children[i].id>>, op.children[i]) => ~Seen(op.children[j])
            /\ ~(Seen(op.match) /\ Seen(op.nomatch))

\* What is reported of the operations is what ran (control_flow.rs, engine.rs).
TraceFaithful == EachTracedOnce /\ TraceIsARun

\* An operation that the dialog does not list for this Def is never disabled by
\* a request: what is skipped is listed, or is the branch of a FindMod whose
\* mod is not there (preview.rs: "a stale or crafted request must not ...").
SkipsAreListed ==
  Previewing =>
    \A i \in DOMAIN run.trace : run.trace[i].status = "Skipped" =>
      \/ run.trace[i].key \in request.visible
      \/ \E op \in UNION {ToSet(OperationsIn(t)) : t \in ToSet(request.files[run.trace[i].key[1]])} :
           /\ op.class = "FindMod" /\ op.match # Absent
           /\ op.match.id = run.trace[i].key[2]
           /\ ToSet(op.mods) \cap ActiveMods = {}

RECURSIVE Without(_, _, _)

\* The operations of a list, less the disabled ones, in sequences too.
Without(ops, file, disabled) ==
  LET kept == SelectSeq(ops, LAMBDA o : <<file, o.id>> \notin disabled)
  IN  [i \in DOMAIN kept |-> [kept[i] EXCEPT !.children = Without(@, file, disabled)]]

Branches == UNION {UNION {{<<f, o.id>> : o \in {op.match, op.nomatch} \ {Absent}} :
                             op \in UNION {ToSet(OperationsIn(t)) : t \in ToSet(request.files[f])}} :
                     f \in DOMAIN request.files}

\* The engine after running entries as if the disabled operations were not in
\* their files.
RunWithout(entries, disabled) ==
  FoldLeft(LAMBDA e, x : ApplyNode(e, Without(<<x.op>>, x.file, disabled)[1],
                                   [file |-> x.file, active |-> ActiveMods, disabled |-> {}]),
           Engine(base.doc),
           SelectSeq(entries, LAMBDA x : KeyOf(x) \notin disabled))

\* Disabling an operation is the same as deleting it from the file: the rest
\* of its sequence and everything after it does what it would have done.
DisabledIsAbsent ==
  (stage = "shown" /\ Previewing /\ request.disabled # {} /\ request.disabled \cap Branches = {}) =>
    TreeOf(RunWithout(ApplyReorder(request.default, request.eligible, request.asked),
                      request.disabled).doc, Root) = TreeOf(run.doc, Root)

\* Reordering moves only listed top-level operations among their own slots:
\* all others keep their place, none is lost or doubled, and the requested
\* ones run in the requested order (reorder.rs).
ReorderConfined ==
  (Previewing /\ Len(queue) = Len(request.default)) =>
    LET keys  == [i \in DOMAIN queue |-> KeyOf(queue[i])]
        asked == SelectSeq(FirstOccurrences(request.asked), LAMBDA k : k \in request.eligible)
        moved == SelectSeq(keys, LAMBDA k : k \in request.eligible)
    IN  /\ \A i \in DOMAIN queue :
             KeyOf(request.default[i]) \notin request.eligible => queue[i] = request.default[i]
        /\ ToSet(queue) = ToSet(request.default) /\ IsInjective(keys)
        /\ IsPrefix(asked, moved)

\* The two controls of the dialog, disabling and reordering, do what they say and
\* nothing else (preview.rs, reorder.rs).
ControlsConfined == SkipsAreListed /\ DisabledIsAbsent /\ ReorderConfined

\* What is shown is the Def of the requested file and position, never another
\* one of the same name (preview.rs: the read-only source fix).
OriginKept ==
  result.found =>
    /\ result.node = base.origins[request.target.file][request.target.ordinal]
    /\ result.node \in ToSet(TopLevelDefElements(run.doc))

Opened == Previewing /\ stage = "applying" /\ Len(queue) = Len(request.default)

\* Writing a parsed patch file and parsing it again gives the operations it was
\* written from, whatever they are nested in and whether the parser knows them
\* or not: the editor saves a file it parsed (serialize_patch_operations).
OperationsSurviveRewriting ==
  Opened => \A f \in DOMAIN request.files :
              ParsePatchFile(SerializePatchFile(request.files[f])).operations = request.files[f]

RECURSIVE Size(_)

\* The elements, texts and attributes of a tree; writing leaves out the mode "Normal".
Size(tree) ==
  LET implied == tree.tag = "success" /\ tree.kids = <<TextNode(<<"Normal">>)>>
  IN  Cardinality(DOMAIN tree.attrs)
      + (IF implied THEN 0 ELSE FoldLeft(LAMBDA n, kid : n + Size(kid), 1, tree.kids))

OnlyElements(el) == \A k \in ToSet(el.kids) : IsElement(k)
OnlyText(el) == el.attrs = <<>> /\ \A k \in ToSet(el.kids) : ~IsElement(k)

RECURSIVE Customary(_)

\* An operation written as they are: every field is spelled in one way, texts are
\* only text and lists only elements, and nothing but operations has attributes.
Customary(el) ==
  LET class == ClassOf(el)
      FieldCustomary(k) ==
        CASE Lower(k.tag) \in {"match", "nomatch"} -> Customary(k)
          [] k.tag = "operations" -> k.attrs = <<>> /\ OnlyElements(k) /\ \A o \in ToSet(Items(k)) : Customary(o)
          [] k.tag = "mods" -> k.attrs = <<>> /\ OnlyElements(k) /\ \A m \in ToSet(Items(k)) : OnlyText(m)
          [] k.tag = "value" /\ class \notin {"AttributeAdd", "AttributeSet"} -> k.attrs = <<>>
          [] OTHER -> OnlyText(k)
  IN  Known(el, class) =>
        /\ OnlyElements(el)
        /\ \A k, l \in ToSet(el.kids) : Lower(k.tag) = Lower(l.tag) => k.tag = l.tag
        /\ \A k \in ToSet(el.kids) : FieldCustomary(k)

CustomaryFile(root) ==
  /\ root.attrs = <<>> /\ OnlyElements(root)
  /\ \A o \in ToSet(SelectSeq(root.kids, LAMBDA k : k.tag = "Operation")) : Customary(o)

LossOf(root, parsed) ==
  LET lost == Size(Head(SerializePatchFile(parsed.operations))) < Size(root)
  IN  /\ lost => parsed.diags # {} \/ ~CustomaryFile(root)
      /\ ~CustomaryFile(root) => lost

\* Whatever parsing and writing a customary file drops, the editor was told of by a
\* diagnostic (parser.rs: a misspelled field keeps the whole element, a repeated
\* one or a stray child is reported). Of a file that is not, something is always
\* lost, and nobody told: the exception is as wide as stated.
LossReported ==
  Opened => \A f \in DOMAIN request.source :
              LossOf(Head(request.source[f]), ParsePatchFile(request.source[f]))

\* Editing a file through the form keeps what the form does not show, or says so,
\* as far as the file is written as they are.
RewritingKeeps == OperationsSurviveRewriting /\ LossReported

RECURSIVE Chain(_, _, _)

\* The Defs a Def inherits from, as inheritance links them.
Chain(doc, n, seen) ==
  LET parent == ParentDef(doc, TopLevelDefElements(doc), n)
  IN  IF parent = Absent \/ parent \in seen THEN {}
      ELSE {parent} \cup Chain(doc, parent, seen \cup {parent})

\* An operation whose path selects something in the selected Def, or in a Def
\* it inherits from, is listed: otherwise it "would change the Def's final XML
\* but never appear in its preview controls" (preview.rs:233). Excepted is a path
\* that leaves the Defs it names by a spelled out `parent::' (impact_graph.rs:87).
ChainOperationsListed ==
  Previewing =>
    \A k \in ToSet(AllKeys(request.index)) :
      LET xpath == IndexedOp(request.index, k).xpath
      IN  (/\ xpath # Absent
           /\ xpath.ok
           /\ \A i \in DOMAIN xpath.steps : xpath.steps[i].axis # "parent"
           /\ \E n \in ToSet(SelectElements(base.doc, xpath)) :
                Lineage(base.doc, n) \cap
                  ({request.node} \cup Chain(base.doc, request.node, {request.node})) # {})
          => k \in request.visible

\* A conflict is about operations that took effect in this very preview: two
\* of them at one path, or an earlier removal (conflicts.rs: a disabled or
\* failed side silences the pair).
ConflictsTookEffect ==
  stage = "shown" =>
    \A c \in {x \in result.conflicts : x[1] # "multiple_operations"} :
      LET Took(k)   == result.status[k] \in {"Applied", "Unsupported"}
          Others    == request.visible \ {c[2]}
          XPathOf(k) == IndexedOp(request.index, k).xpath
      IN  /\ c[2] \in request.visible
          /\ c[1] \in {"duplicate_replace_or_remove", "duplicate_add_child"} =>
               Took(c[2]) /\ \E k \in Others : Took(k) /\ XPathOf(k) = XPathOf(c[2])
          /\ c[1] = "targets_removed_node" =>
               /\ result.status[c[2]] # "Skipped"
               /\ \E k \in Others : Took(k) /\ IndexedOp(request.index, k).class = "Remove"
          /\ c[1] = "custom_operation_unpreviewable" => result.partial

\* What the preview shows of its operations can be relied on: none that matters is left
\* out, no conflict is reported that did not happen.
OutcomesExplained == ChainOperationsListed /\ ConflictsTookEffect

\* Resolving one Def never writes into another: the parents a child is merged
\* over are clones (inheritance.rs).
ParentsUntouched(res) == TreeOf(res.doc, Root) = TreeOf(run.doc, Root)

\* Every Def with a ParentName gets exactly one explanation: merged, its parent
\* missing, or on or below a cycle -- and a cycle is reported only when there
\* is one.
InheritanceAccounted(res, defs) ==
  LET Ancestors(n) == Chain(run.doc, n, {})
      Cyclic(n) == \E m \in {n} \cup Ancestors(n) : m \in Ancestors(m)
      children == {n \in ToSet(defs) : "ParentName" \in DOMAIN run.doc[n].attrs}
  IN  /\ res.cycles = {n \in children : Cyclic(n)}
      /\ res.missing = {n \in children : ParentDef(run.doc, defs, n) = Absent}
      /\ DOMAIN res.resolved = children \ res.cycles

Named(tree, tag) == SelectSeq(tree.kids, LAMBDA k : k.tag = tag)

Plain(tree) == "Inherit" \notin DOMAIN tree.attrs /\ Named(tree, "#text") = <<>>

\* R is C merged over P, as trees.
MergedOver(P, C, R) ==
  (Plain(C) /\ C.kids # <<>>) =>
    /\ \A k \in ToSet(P.kids) : Named(C, k.tag) = <<>> => k \in ToSet(R.kids)
    /\ \A k \in ToSet(C.kids) : Named(R, k.tag) # <<>>
    /\ \A p \in ToSet(P.kids), c \in ToSet(C.kids) :
         (/\ p.tag = c.tag /\ Len(Named(P, p.tag)) = 1 /\ Len(Named(C, p.tag)) = 1
          /\ Plain(c) /\ Named(c, "li") # <<>>)
         => Named(Named(R, p.tag)[1], "li") = Named(p, "li") \o Named(c, "li")

\* A child takes its parent's fields: those it does not name stay as they are,
\* those it names are there, and the items of a list that both have are the
\* parent's followed by its own.
InheritedContentKept(res, defs) ==
  \A n \in DOMAIN res.resolved :
    LET parent == ParentDef(run.doc, defs, n)
    IN  parent # Absent => MergedOver(TreeOf(res.doc, Resolve(res, parent)), TreeOf(run.doc, n),
                                      TreeOf(res.doc, res.resolved[n]))

ResolutionSound(res, defs) ==
  ParentsUntouched(res) /\ InheritanceAccounted(res, defs) /\ InheritedContentKept(res, defs)

\* Inheritance merges each Def once, over its parent's content, and nothing else
\* (inheritance.rs: registered first, then resolved from the roots down).
InheritanceSound ==
  (stage = "shown" /\ Previewing) =>
    ResolutionSound(ResolveInheritance(run.doc, TopLevelDefElements(run.doc)),
                    TopLevelDefElements(run.doc))

=============================================================================
