------------------------------ MODULE SchemaMerge ------------------------------
(***************************************************************************)
(* Merging schema packs into one catalog (schema_pack.rs, merge.rs): which *)
(* packs take part and in which order, Def types, object types and patch   *)
(* operations.                                                             *)
(*                                                                         *)
(* Abstracted: a display text (label, description, message) is the record  *)
(* of who wrote it, [by |-> pack, sidecar |-> from a locale file?]. The    *)
(* texts of the catalog, and the pack on record as the owner of each, are  *)
(* two functions from resource ids <<kind, container, member>> (the code   *)
(* keeps them in the merged records and in LocaleOwnerMaps). A field keeps *)
(* its type, the scalars a pack may leave out as `options`, and its        *)
(* aliases; examples are merged as aliases are. An incoming record says    *)
(* with a Boolean that it sets a text.                                     *)
(***************************************************************************)
EXTENDS SchemaPacks, SchemaLookup

CONSTANT Options   \* the field scalars a pack may leave out: required, xml, defaultValue...

Unset == "unset"

OptionDefault(o) == IF o = "required" THEN "no" ELSE Unset

NoText == [by |-> "nobody", sidecar |-> FALSE]

Written(pack) == [by |-> pack, sidecar |-> FALSE]

\* Appends what is not there yet, keeping the order.
AppendNew(seq, new) ==
    FoldLeft(LAMBDA acc, x : IF x \in Range(acc) THEN acc ELSE Append(acc, x), seq, new)

-----------------------------------------------------------------------------
(* Which packs are merged, and in which order                              *)

\* A version no pack declares filters nothing.
FilterPacksByGameVersion(packs, game) ==
    IF game = NoVersion \/ \A p \in Range(packs) : p.game # game THEN packs
    ELSE SelectSeq(packs, LAMBDA p : p.game \in {NoVersion, game})

FilterDiags(packs, game) ==
    IF game = NoVersion THEN <<>>
    ELSE IF \A p \in Range(packs) : p.game # game
    THEN <<Diag("game_version_unresolvable", "catalog")>>
    ELSE LET skipped == SelectSeq(packs, LAMBDA p : p.game \notin {NoVersion, game})
         IN  [i \in DOMAIN skipped |-> Diag("game_version_mismatch", skipped[i].id)]

Rank(p) == IF p.builtin THEN 0 ELSE 1

IdPosition(p) == CHOOSE i \in DOMAIN Names : Names[i] = p.id

\* Slip: the packs of one priority keep the order they were found in.
FoundOrder(p, q) == p.priority < q.priority

\* Lower priority first, then built-in packs, then by id.
MergesBefore(p, q) ==
    \/ p.priority < q.priority
    \/ p.priority = q.priority /\ Rank(p) < Rank(q)
    \/ p.priority = q.priority /\ Rank(p) = Rank(q) /\ IdPosition(p) < IdPosition(q)

\* A stable sort: what the order does not decide stays as it was found.
SortPacks(packs) ==
    LET order == SetToSortSeq(DOMAIN packs,
                              LAMBDA i, j : MergesBefore(packs[i], packs[j])
                                  \/ (i < j /\ ~MergesBefore(packs[j], packs[i])))
    IN  [k \in DOMAIN packs |-> packs[order[k]]]

\* Of the packs of one id the first in merge order is kept.
DedupPacks(sorted) ==
    FoldLeft(LAMBDA acc, p : IF \E q \in Range(acc) : q.id = p.id THEN acc
                             ELSE Append(acc, p),
             <<>>, sorted)

-----------------------------------------------------------------------------
(* Fields and their order                                                  *)

FieldDefToSchema(inc, pack) ==
    [type |-> inc.type, aliases |-> inc.aliases, source |-> pack,
     options |-> [o \in Options |-> IF inc.options[o] = Unset THEN OptionDefault(o)
                                    ELSE inc.options[o]]]

\* Slip: an override is read as a definition, so what it leaves out is reset.
FieldRedefined(base, inc, pack) == FieldDefToSchema(inc, pack)

\* The type is always replaced, every other scalar only when the pack sets it.
ApplyFieldOverride(base, inc, pack) ==
    [type |-> inc.type, source |-> pack,
     aliases |-> AppendNew(base.aliases, inc.aliases),
     options |-> [o \in Options |-> IF inc.options[o] = Unset THEN base.options[o]
                                    ELSE inc.options[o]]]

MergeFields(base, incoming, pack) ==
    [f \in DOMAIN base \cup DOMAIN incoming |->
        IF f \notin DOMAIN incoming THEN base[f]
        ELSE IF f \in DOMAIN base THEN ApplyFieldOverride(base[f], incoming[f], pack)
        ELSE FieldDefToSchema(incoming[f], pack)]

NewFields(base, incoming) == Sorted(DOMAIN incoming \ DOMAIN base)

\* A pack that lists names moves them to the end, in its order; the fields it brings
\* without listing them follow.
MergeFieldOrder(current, incoming, new) ==
    AppendNew(AppendNew(SelectSeq(current, LAMBDA n : n \notin Range(incoming)), incoming),
              new)

-----------------------------------------------------------------------------
(* Texts: the value shown and the pack on record as its owner              *)

\* Slip: the pack that touches a record owns its texts, set or not.
OwnerOfRecord(c, id, sets, pack) ==
    [c EXCEPT !.texts = IF sets THEN (id :> Written(pack)) @@ @ ELSE @,
              !.owners = (id :> pack) @@ @]

\* Value and owner change together, and only when the pack sets the text.
SetText(c, id, sets, pack) ==
    IF sets THEN [c EXCEPT !.texts = (id :> Written(pack)) @@ @,
                           !.owners = (id :> pack) @@ @]
    ELSE c

SetFieldTexts(c, kind, container, fields, pack) ==
    FoldLeft(LAMBDA acc, f :
                 SetText(SetText(acc, <<kind \o "FieldLabel", container, f>>,
                                 fields[f].label, pack),
                         <<kind \o "FieldDescription", container, f>>,
                         fields[f].description, pack),
             c, Sorted(DOMAIN fields))

TextOf(c, id) == IF id \in DOMAIN c.texts THEN c.texts[id] ELSE NoText

\* A template is replaced whole, and one pack owns both of its texts.
SetTemplate(c, d, t, template, pack) ==
    [c EXCEPT !.texts = (<<"templateLabel", d, t>> :> Written(pack))
                        @@ (<<"templateDescription", d, t>> :>
                               IF template.description THEN Written(pack) ELSE NoText) @@ @,
              !.owners = (<<"templateLabel", d, t>> :> pack)
                         @@ (<<"templateDescription", d, t>> :> pack) @@ @]

-----------------------------------------------------------------------------
(* One pack merged into the catalog c                                      *)

EmptyDef == [inherits |-> <<>>, abstract |-> FALSE, order |-> <<>>, fields |-> <<>>,
             templates |-> {}, rules |-> <<>>, views |-> <<>>]

EmptyCatalog == [defs |-> <<>>, objects |-> <<>>, ops |-> <<>>, texts |-> <<>>,
                 owners |-> <<>>, layers |-> <<>>, diags |-> <<>>]

MergeDefType(c, pack, d) ==
    LET inc == pack.defs[d]
        base == IF d \in DOMAIN c.defs THEN c.defs[d] ELSE EmptyDef
        merged == [inherits |-> AppendNew(base.inherits, inc.inherits),
                   abstract |-> base.abstract \/ inc.abstract,
                   fields |-> MergeFields(base.fields, inc.fields, pack.id),
                   order |-> MergeFieldOrder(base.order, inc.order,
                                             NewFields(base.fields, inc.fields)),
                   templates |-> base.templates \cup DOMAIN inc.templates,
                   rules |-> inc.rules @@ base.rules, views |-> <<>>]
        layer == [pack |-> pack.id, decls |-> inc.views]
        layers == IF d \in DOMAIN c.layers THEN c.layers[d] ELSE <<>>
        c1 == [c EXCEPT !.defs = (d :> merged) @@ @,
                        !.layers = IF inc.views = <<>> THEN @
                                   ELSE (d :> Append(layers, layer)) @@ @]
        c2 == SetText(SetText(c1, <<"defLabel", d, "">>, inc.label, pack.id),
                      <<"defDescription", d, "">>, inc.description, pack.id)
        c3 == SetFieldTexts(c2, "def", d, inc.fields, pack.id)
        c4 == FoldLeft(LAMBDA acc, t : SetTemplate(acc, d, t, inc.templates[t], pack.id),
                       c3, Sorted(DOMAIN inc.templates))
    IN  FoldLeft(LAMBDA acc, r : SetText(acc, <<"ruleMessage", d, r>>, TRUE, pack.id),
                 c4, Sorted(DOMAIN inc.rules))

\* Variants are added to, the attribute replaced, the rest kept unless set.
MergeDiscriminator(base, inc) ==
    IF inc.attribute = Unset THEN base
    ELSE IF base.attribute = Unset THEN inc
    ELSE [attribute |-> inc.attribute, variants |-> inc.variants @@ base.variants,
          fallback |-> IF inc.fallback = Unset THEN base.fallback ELSE inc.fallback]

\* The first pack's lists are taken as they are, a later one's are appended to them.
ObjectDefToSchema(inc, pack) ==
    [inherits |-> inc.inherits, fields |-> MergeFields(<<>>, inc.fields, pack),
     order |-> MergeFieldOrder(inc.order, <<>>, Sorted(DOMAIN inc.fields)),
     discriminator |-> inc.discriminator]

ApplyObjectTypeOverride(base, inc, pack) ==
    [inherits |-> AppendNew(base.inherits, inc.inherits),
     fields |-> MergeFields(base.fields, inc.fields, pack),
     order |-> MergeFieldOrder(base.order, inc.order, NewFields(base.fields, inc.fields)),
     discriminator |-> MergeDiscriminator(base.discriminator, inc.discriminator)]

MergeObjectType(c, pack, o) ==
    LET inc == pack.objects[o]
        merged == IF o \in DOMAIN c.objects
                  THEN ApplyObjectTypeOverride(c.objects[o], inc, pack.id)
                  ELSE ObjectDefToSchema(inc, pack.id)
        c1 == [c EXCEPT !.objects = (o :> merged) @@ @]
        c2 == SetText(SetText(c1, <<"objectLabel", o, "">>, inc.label, pack.id),
                      <<"objectDescription", o, "">>, inc.description, pack.id)
    IN  SetFieldTexts(c2, "object", o, inc.fields, pack.id)

\* A declared preview replaces the one before, message or not; an unknown kind of
\* preview is a warning.
MergePreview(c, class, inc, pack) ==
    IF inc.preview = "none" THEN c
    ELSE [c EXCEPT
            !.texts = (<<"previewMessage", class, "">> :>
                          IF inc.message THEN Written(pack) ELSE NoText) @@ @,
            !.owners = (<<"previewMessage", class, "">> :> pack) @@ @,
            !.diags = IF inc.preview = "unsupported" THEN @
                      ELSE Append(@, Diag("unknown_preview_kind", class))]

EmptyOperation == [fields |-> <<>>, order |-> <<>>, source |-> "nobody"]

MergePatchOperation(c, pack, class) ==
    LET inc == pack.ops[class]
        base == IF class \in DOMAIN c.ops THEN c.ops[class] ELSE EmptyOperation
        merged == [fields |-> MergeFields(base.fields, inc.fields, pack.id),
                   order |-> MergeFieldOrder(base.order, inc.order,
                                             NewFields(base.fields, inc.fields)),
                   source |-> pack.id]
        c1 == [c EXCEPT !.ops = (class :> merged) @@ @]
        c2 == SetText(SetText(c1, <<"opLabel", class, "">>, inc.label, pack.id),
                      <<"opDescription", class, "">>, inc.description, pack.id)
        c3 == SetFieldTexts(c2, "op", class, inc.fields, pack.id)
    IN  MergePreview(c3, class, inc, pack.id)

MergePack(c, pack) ==
    LET afterDefs == FoldLeft(LAMBDA acc, d : MergeDefType(acc, pack, d),
                              c, Sorted(DOMAIN pack.defs))
        afterObjects == FoldLeft(LAMBDA acc, o : MergeObjectType(acc, pack, o),
                                 afterDefs, Sorted(DOMAIN pack.objects))
    IN  FoldLeft(LAMBDA acc, op : MergePatchOperation(acc, pack, op),
                 afterObjects, Sorted(DOMAIN pack.ops))

MergePacks(deduped) == FoldLeft(MergePack, EmptyCatalog, deduped)

-----------------------------------------------------------------------------
(* Warnings about the merged catalog                                       *)

StrayOrder(order, known, code, owner) ==
    LET strays == SelectSeq(order, LAMBDA n : n \notin known)
    IN  [i \in DOMAIN strays |-> Diag(code, owner)]

RuleStrays(rules, known, d) ==
    LET strays == {r \in DOMAIN rules : rules[r].field \notin known}
        conditions == {r \in DOMAIN rules : rules[r].when \notin known}
    IN  [i \in 1..Cardinality(strays) |-> Diag("validation_rule_unknown_field", d)]
        \o [i \in 1..Cardinality(conditions) |->
               Diag("validation_rule_unknown_condition_field", d)]

DanglingVariants(objects, o) ==
    LET variants == objects[o].discriminator.variants
        strays == {v \in DOMAIN variants : variants[v] \notin DOMAIN objects}
    IN  [i \in 1..Cardinality(strays) |->
            Diag("unknown_discriminator_variant_target", o)]

PostMergeWarnings(c) ==
    LET Over(names, Of(_)) ==
            FoldLeft(LAMBDA acc, n : acc \o Of(n), <<>>, Sorted(names))
        OfOp(op) == StrayOrder(c.ops[op].order, DOMAIN c.ops[op].fields,
                               "patch_operation_field_order_unknown", op)
        OfDef(d) == StrayOrder(c.defs[d].order, CollectAllInheritedFields(c.defs, d),
                               "field_order_unknown", d)
        OfRules(d) == RuleStrays(c.defs[d].rules, CollectAllInheritedFields(c.defs, d), d)
        OfObject(o) == StrayOrder(c.objects[o].order,
                                  CollectAllObjectInheritedFields(c.objects, o),
                                  "object_field_order_unknown", o)
        OfVariants(o) == DanglingVariants(c.objects, o)
    IN  Over(DOMAIN c.ops, OfOp) \o Over(DOMAIN c.defs, OfDef)
        \o Over(DOMAIN c.defs, OfRules) \o Over(DOMAIN c.objects, OfObject)
        \o Over(DOMAIN c.objects, OfVariants)

=============================================================================
