----------------------------- MODULE PatchApply -----------------------------
(***************************************************************************)
(* Applying operations to the combined document (patches/apply): the       *)
(* engine with its trace, the mutations, and the containers.               *)
(*                                                                         *)
(* e is one run: [doc, trace, partial, notes, ok], ok the result that a    *)
(* containing operation sees.  ctx is what scopes one patch file:          *)
(* [file, active, disabled].                                               *)
(***************************************************************************)
EXTENDS PatchFile

Engine(doc) == [doc |-> doc, trace |-> <<>>, partial |-> FALSE, notes |-> {}, ok |-> TRUE]

Traced(e, key, op, status, ok) ==
  [e EXCEPT !.trace = Append(@, [key |-> key, class |-> op.class, status |-> status]),
            !.ok = ok]

Noted(e, code, key) == [e EXCEPT !.notes = @ \cup {<<code, key>>}]

ApplySuccessMode(mode, raw) ==
  CASE mode = "Normal" -> raw
    [] mode = "Invert" -> ~raw
    [] mode = "Always" -> TRUE
    [] mode = "Never"  -> FALSE

-----------------------------------------------------------------------------
(* Mutations of one matched element.                                        *)

\* A missing <value> is an empty payload.
Payload(op) == IF op.value = Absent THEN <<>> ELSE op.value

IndexIn(kids, n) == CHOOSE i \in DOMAIN kids : kids[i] = n

ReplaceKids(doc, n, kids) == [doc EXCEPT ![n].kids = kids]

\* The children are cloned under the new name; the attributes are dropped.
Renamed(doc, n, op) == GrowAll(doc, <<Elem(op.name, <<>>, TreeOf(doc, n).kids)>>)

\* What an operation writes at one match: each match gets a fresh copy.
Fresh(doc, n, op) ==
  IF op.class = "SetName" THEN Renamed(doc, n, op)
  ELSE GrowAll(doc, IF op.class = "AddModExtension"
                       /\ FirstChildElementNamed(doc, n, "modExtensions") = Absent
                    THEN <<Elem("modExtensions", <<>>, Payload(op))>>
                    ELSE Payload(op))

AddTo(fresh, n, order) ==
  LET kids == fresh.doc[n].kids
  IN  ReplaceKids(fresh.doc, n, IF order = "Prepend" THEN fresh.ids \o kids ELSE kids \o fresh.ids)

\* The `drop' children of a node's parent from the node on give way to ids; the
\* root and a detached node have no parent.
Splice(doc, n, offset, drop, ids) ==
  LET parent == ParentOf(doc, n)
      kids   == doc[parent].kids
      at     == IndexIn(kids, n) + offset
  IN  IF parent = 0 THEN doc
      ELSE ReplaceKids(doc, parent,
                       SubSeq(kids, 1, at - 1) \o ids \o SubSeq(kids, at + drop, Len(kids)))

\* Every inserted node is anchored to the target, so that several end up in
\* reverse order; the default is before it.
InsertBeside(fresh, n, order) ==
  Splice(fresh.doc, n, IF order = "Append" THEN 1 ELSE 0, 0, Reverse(fresh.ids))

RemoveNode(doc, n) == Splice(doc, n, 0, 1, <<>>)

ReplaceNode(fresh, n) == Splice(fresh.doc, n, 0, 1, fresh.ids)

SetAttribute(doc, n, op) ==
  [doc EXCEPT ![n].attrs = (op.attribute :> Head(op.value).text) @@ @]

RemoveAttribute(doc, n, op) ==
  [doc EXCEPT ![n].attrs = [a \in DOMAIN @ \ {op.attribute} |-> @[a]]]

\* Into the list there is, or as a new one.
AddModExtensionTo(fresh, doc, n) ==
  LET existing == FirstChildElementNamed(doc, n, "modExtensions")
  IN  AddTo(fresh, IF existing = Absent THEN n ELSE existing, "Append")

MutateWith(fresh, doc, n, op) ==
  LET held == op.attribute \in DOMAIN doc[n].attrs
  IN  CASE op.class = "Add"                     -> AddTo(fresh, n, op.order)
        [] op.class = "Insert"                  -> InsertBeside(fresh, n, op.order)
        [] op.class = "Remove"                  -> RemoveNode(doc, n)
        [] op.class \in {"Replace", "SetName"}  -> ReplaceNode(fresh, n)
        [] op.class = "AttributeAdd"            -> IF held THEN doc ELSE SetAttribute(doc, n, op)
        [] op.class = "AttributeSet"            -> SetAttribute(doc, n, op)
        [] op.class = "AttributeRemove"         -> IF held THEN RemoveAttribute(doc, n, op) ELSE doc
        [] op.class = "AddModExtension"         -> AddModExtensionTo(fresh, doc, n)

Mutate(doc, n, op) == MutateWith(Fresh(doc, n, op), doc, n, op)

\* The fields without which an operation fails; <value> only for attributes.
MissingField(op) ==
  \/ op.xpath = Absent
  \/ op.class \in {"AttributeAdd", "AttributeSet", "AttributeRemove"} /\ op.attribute = Absent
  \/ op.class \in {"AttributeAdd", "AttributeSet"} /\ op.value = Absent
  \/ op.class = "SetName" /\ op.name = Absent

\* Whether the operation did something at one of its matches.
TookEffect(doc, op, matches) ==
  LET Holds(n) == op.attribute \in DOMAIN doc[n].attrs
  IN  CASE op.class = "AttributeAdd"    -> \E n \in ToSet(matches) : ~Holds(n)
        [] op.class = "AttributeRemove" -> \E n \in ToSet(matches) : Holds(n)
        [] OTHER                        -> TRUE

\* Slip: the value is parsed once for all the matches, so that its nodes, which
\* have one parent at a time, end up at the last.
SharedPayload(e, op, key, matches) ==
  LET made  == Fresh(e.doc, Head(matches), op)
      Freed(doc) == [m \in DOMAIN doc |->
                       [doc[m] EXCEPT !.kids = SelectSeq(@, LAMBDA k : k \notin ToSet(made.ids))]]
      Again(doc, n) == MutateWith([doc |-> Freed(doc), ids |-> made.ids], Freed(doc), n, op)
  IN  IF matches = <<>> THEN Noted([e EXCEPT !.ok = FALSE], "patch_apply_xpath_no_match", key)
      ELSE [e EXCEPT !.doc = FoldLeft(Again, made.doc, matches),
                     !.ok  = TookEffect(e.doc, op, matches)]

MutateAll(e, op, key, matches) ==
  IF matches = <<>> THEN Noted([e EXCEPT !.ok = FALSE], "patch_apply_xpath_no_match", key)
  ELSE [e EXCEPT !.doc = FoldLeft(LAMBDA doc, n : Mutate(doc, n, op), @, matches),
                 !.ok  = TookEffect(e.doc, op, matches)]

\* All the matches are selected before the first is mutated.
MutateMatches(e, op, key) ==
  IF MissingField(op) THEN Noted([e EXCEPT !.ok = FALSE], "patch_apply_missing_field", key)
  ELSE IF ~op.xpath.ok THEN Noted([e EXCEPT !.ok = FALSE], "patch_apply_xpath_error", key)
  ELSE MutateAll(e, op, key, SelectElements(e.doc, op.xpath))

-----------------------------------------------------------------------------
(* The engine and the containers.                                           *)

RECURSIVE ApplyNode(_, _, _)

\* Slip: the children after a failed one still run.
RunAllChildren(e, ops, ctx, key) ==
  FoldLeft(LAMBDA acc, op : ApplyNode(acc, op, ctx), [e EXCEPT !.ok = TRUE], ops)

\* Stops at the first operation that fails; what was done stays done.
RunInOrder(e, ops, ctx, key) ==
  FoldLeft(LAMBDA acc, op : IF acc.ok THEN ApplyNode(acc, op, ctx)
                            ELSE Noted(acc, "patch_apply_sequence_short_circuited", key),
           [e EXCEPT !.ok = TRUE], ops)

BranchOf(op) == IF op = Absent THEN <<>> ELSE <<op>>

FindModMatches(op, ctx) == ToSet(op.mods) \cap ctx.active # {}

ConditionalMatches(e, op) == SelectsSomething(e.doc, op.xpath)

\* What a container runs: a sequence its children, the others one branch.
Chosen(e, op, ctx) ==
  CASE op.class = "Sequence"    -> op.children
    [] op.class = "FindMod"     -> BranchOf(IF FindModMatches(op, ctx) THEN op.match ELSE op.nomatch)
    [] op.class = "Conditional" -> BranchOf(IF ConditionalMatches(e, op) THEN op.match ELSE op.nomatch)

\* A branch whose mod is not active and that has no alternative is reported as
\* skipped, under the branch's own key.
FindModIdle(e, op, ctx) ==
  LET skipped == <<ctx.file, op.match.id>>
  IN  IF FindModMatches(op, ctx) \/ op.match = Absent THEN [e EXCEPT !.ok = TRUE]
      ELSE Noted(Traced(e, skipped, op.match, "Skipped", TRUE),
                 "patch_find_mod_dependency_not_active", skipped)

\* Without a branch to run, the mere presence of the other one decides.
ConditionalIdle(e, op) == [e EXCEPT !.ok = op.match # Absent \/ op.nomatch # Absent]

ContainerApply(e, op, ctx, key) ==
  LET chosen == Chosen(e, op, ctx)
  IN  CASE op.class = "Conditional" /\ op.xpath = Absent ->
             Noted([e EXCEPT !.ok = FALSE], "patch_apply_missing_field", key)
        [] op.class = "FindMod" /\ chosen = <<>>     -> FindModIdle(e, op, ctx)
        [] op.class = "Conditional" /\ chosen = <<>> -> ConditionalIdle(e, op)
        [] OTHER                                     -> RunInOrder(e, chosen, ctx, key)

TestApply(e, op) == [e EXCEPT !.ok = op.xpath # Absent /\ SelectsSomething(e.doc, op.xpath)]

ApplyWorker(e, op, ctx, key) ==
  CASE op.class \in {"Sequence", "FindMod", "Conditional"} -> ContainerApply(e, op, ctx, key)
    [] op.class = "Test"                                   -> TestApply(e, op)
    [] OTHER                                               -> MutateMatches(e, op, key)

\* Slip: a disabled operation counts as a failure.
DisabledFails(e, key, op) == Traced(e, key, op, "Skipped", FALSE)

\* A disabled operation counts as a success.
SkipDisabled(e, key, op) == Traced(e, key, op, "Skipped", TRUE)

Worked(worked, key, op) ==
  LET adjusted == ApplySuccessMode(op.success, worked.ok)
  IN  Traced(IF op.success = "Always" /\ ~worked.ok
             THEN Noted(worked, "patch_apply_success_always_masks_failure", key) ELSE worked,
             key, op, IF adjusted THEN "Applied" ELSE "Failed", adjusted)

\* One that the engine does not know is assumed to have worked and makes the
\* whole preview partial.
Unsupported(e, key, op) ==
  Noted(Traced([e EXCEPT !.partial = TRUE], key, op, "Unsupported", ApplySuccessMode(op.success, TRUE)),
        "patch_apply_unsupported_operation", key)

ApplyNode(e, op, ctx) ==
  LET key == <<ctx.file, op.id>>
  IN  IF key \in ctx.disabled THEN SkipDisabled(e, key, op)
      ELSE IF op.raw # Absent THEN Unsupported(e, key, op)
      ELSE Worked(ApplyWorker(e, op, ctx, key), key, op)

=============================================================================
