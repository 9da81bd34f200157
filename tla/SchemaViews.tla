------------------------------ MODULE SchemaViews ------------------------------
(***************************************************************************)
(* The form views of a merged catalog, and the locale sidecars applied to  *)
(* it last (the second half of schema_pack/merge.rs, locale.rs).           *)
(*                                                                         *)
(* A pack declares a view of a Def type, or amends one it inherits or that *)
(* an earlier pack declared: more hidden fields, fewer, or none of the     *)
(* inherited ones (replace), or the view disabled. icon, order and         *)
(* recommended are inherited as the description is and are left out.       *)
(***************************************************************************)
EXTENDS SchemaMerge

-----------------------------------------------------------------------------
(* The declarations of one Def type, without fields the type does not have *)

Known(seq, known) == SelectSeq(seq, LAMBDA f : f \in known)

FilterKnownFieldRefs(decl, known) ==
    [decl EXCEPT !.hidden = Known(@, known), !.unhide = Known(@, known)]

KnownFields(c, d) ==
    LET fields == EffectiveTopLevelFields(c.defs, d)
    IN  {fields[i][1] : i \in DOMAIN fields}

\* Against the fields of the type that declares the view, not of one that inherits it.
SanitizeFormViewLayers(c) ==
    [d \in DOMAIN c.layers |->
        LET Layer(l) ==
                [pack |-> l.pack,
                 decls |-> [v \in DOMAIN l.decls \ {"default"} |->
                               FilterKnownFieldRefs(l.decls[v], KnownFields(c, d))]]
        IN  [i \in DOMAIN c.layers[d] |-> Layer(c.layers[d][i])]]

UnknownRefs(decl, known) ==
    SelectSeq(decl.hidden \o decl.unhide, LAMBDA f : f \notin known)

SanitizeDiags(c) ==
    LET OfLayer(d, l) ==
            FoldLeft(LAMBDA acc, v :
                         acc \o [i \in DOMAIN UnknownRefs(l.decls[v], KnownFields(c, d)) |->
                                    Diag("form_view_unknown_field_reference", d)],
                     <<>>, Sorted(DOMAIN l.decls \ {"default"}))
        OfDef(acc, d) == FoldLeft(LAMBDA a, l : a \o OfLayer(d, l), acc, c.layers[d])
    IN  FoldLeft(OfDef, <<>>, Sorted(DOMAIN c.layers))

-----------------------------------------------------------------------------
(* All declarations a Def type inherits, and its own                       *)

Holds(layers, layer) ==
    \E i \in DOMAIN layers : layers[i].owner = layer.owner /\ layers[i].pack = layer.pack

\* Slip: a declaration reached along two paths is applied twice.
AddAlways(layers, layer) == Append(layers, layer)

AddOnce(layers, layer) == IF Holds(layers, layer) THEN layers ELSE Append(layers, layer)

InProgress == [done |-> FALSE, layers |-> <<>>]

LayersOf(defs, d) == IF d \in DOMAIN defs THEN defs[d] ELSE <<>>

Tagged(d, own) ==
    [i \in DOMAIN own |-> [owner |-> d, pack |-> own[i].pack, decls |-> own[i].decls]]

Cached(d, layers, cache) ==
    [layers |-> layers, cache |-> (d :> [done |-> TRUE, layers |-> layers]) @@ cache]

\* A type's own layers after those it inherits.
WithOwn(d, own, inherited) ==
    Cached(d, FoldLeft(AddOnce, inherited.layers, Tagged(d, own)), inherited.cache)

WithParent(acc, up) ==
    [layers |-> FoldLeft(AddOnce, acc.layers, up.layers), cache |-> up.cache]

\* Parents first, in the order of inherits, each layer where it is first reached. The
\* cache is shared by the whole resolution; a type met again while it is being computed
\* contributes nothing, and what was computed without it stays in the cache.
RECURSIVE ComputeEffectiveLayers(_, _, _, _)
ComputeEffectiveLayers(defs, sanitized, d, cache) ==
    IF d \in DOMAIN cache THEN [layers |-> cache[d].layers, cache |-> cache]
    ELSE LET OfParent(acc, parent) ==
                 WithParent(acc, ComputeEffectiveLayers(defs, sanitized, parent, acc.cache))
         IN  WithOwn(d, LayersOf(sanitized, d),
                     FoldLeft(OfParent,
                              [layers |-> <<>>, cache |-> (d :> InProgress) @@ cache],
                              IF d \in DOMAIN defs THEN defs[d].inherits ELSE <<>>))

-----------------------------------------------------------------------------
(* One declaration applied: acc is [views, texts, owners, diagnosed, diags] *)

\* At most once for a declaration, however many types inherit it.
DiagnoseAmendmentWithoutBase(acc, layer, v) ==
    LET key == <<layer.owner, layer.pack, v>>
    IN  IF key \in acc.diagnosed THEN acc
        ELSE [acc EXCEPT !.diagnosed = @ \cup {key},
                         !.diags = Append(@, Diag("form_view_amendment_without_base",
                                                  layer.owner))]

WithoutView(acc, v) ==
    [acc EXCEPT !.views = [w \in DOMAIN @ \ {v} |-> @[w]]]

ViewTexts(acc, consumer, v, decl, pack) ==
    SetText(SetText(acc, <<"viewLabel", consumer, v>>, decl.label, pack),
            <<"viewDescription", consumer, v>>, decl.description, pack)

\* A view begins with no text but its own; the owners on record stay.
FirstDeclaration(acc, consumer, v, decl, layer) ==
    LET view == [hidden |-> Range(decl.hidden), declaredOn |-> layer.owner,
                 source |-> layer.pack]
        fresh == [acc EXCEPT !.views = (v :> view) @@ @,
                             !.texts = (<<"viewDescription", consumer, v>> :> NoText) @@ @]
    IN  ViewTexts(fresh, consumer, v, decl, layer.pack)

Amended(base, decl, layer) ==
    LET kept == IF decl.replace THEN {} ELSE base.hidden
    IN  [hidden |-> (kept \cup Range(decl.hidden)) \ Range(decl.unhide),
         declaredOn |-> layer.owner, source |-> layer.pack]

ApplyFormViewDeclaration(acc, consumer, v, decl, layer) ==
    LET exists == v \in DOMAIN acc.views
    IN  CASE decl.disabled /\ exists -> WithoutView(acc, v)
          [] ~exists /\ (decl.disabled \/ ~decl.label) ->
                 DiagnoseAmendmentWithoutBase(acc, layer, v)
          [] ~exists /\ ~decl.disabled /\ decl.label ->
                 FirstDeclaration(acc, consumer, v, decl, layer)
          [] OTHER ->
                 ViewTexts([acc EXCEPT !.views[v] = Amended(@, decl, layer)],
                           consumer, v, decl, layer.pack)

FoldEffectiveLayers(acc, consumer, layers) ==
    LET OfLayer(a, layer) ==
            FoldLeft(LAMBDA b, v :
                         ApplyFormViewDeclaration(b, consumer, v, layer.decls[v], layer),
                     a, Sorted(DOMAIN layer.decls))
    IN  FoldLeft(OfLayer, [acc EXCEPT !.views = <<>>], layers)

NextLayers(acc, d, one) == [cache |-> one.cache, of |-> (d :> one.layers) @@ acc.of]

LayersOfAll(defs, sanitized) ==
    FoldLeft(LAMBDA acc, d :
                 NextLayers(acc, d, ComputeEffectiveLayers(defs, sanitized, d, acc.cache)),
             [cache |-> <<>>, of |-> <<>>], Sorted(DOMAIN defs)).of

\* The layers of every Def type, computed in the order of their names.
AllEffectiveLayers(c) == LayersOfAll(c.defs, SanitizeFormViewLayers(c))

NextViews(folded, d) == [folded EXCEPT !.of = (d :> folded.views) @@ @]

FoldAllLayers(c, layers) ==
    FoldLeft(LAMBDA acc, d : NextViews(FoldEffectiveLayers(acc, d, layers[d]), d),
             [views |-> <<>>, texts |-> c.texts, owners |-> c.owners, diagnosed |-> {},
              diags |-> c.diags \o SanitizeDiags(c), of |-> <<>>],
             Sorted(DOMAIN c.defs))

WithViews(c, all) ==
    [c EXCEPT !.defs = [d \in DOMAIN @ |-> [@[d] EXCEPT !.views = all.of[d]]],
              !.texts = all.texts, !.owners = all.owners, !.diags = all.diags]

ResolveAllFormViews(c) == WithViews(c, FoldAllLayers(c, AllEffectiveLayers(c)))

-----------------------------------------------------------------------------
(* Locale sidecars                                                         *)

\* Does the record that holds the text exist in the merged catalog?
Resolves(c, id) ==
    LET kind == id[1]  container == id[2]  member == id[3]
        Def(Has(_)) == container \in DOMAIN c.defs /\ Has(c.defs[container])
    IN  CASE kind \in {"defLabel", "defDescription"} -> container \in DOMAIN c.defs
          [] kind \in {"defFieldLabel", "defFieldDescription"} ->
                 Def(LAMBDA d : member \in DOMAIN d.fields)
          [] kind \in {"templateLabel", "templateDescription"} ->
                 Def(LAMBDA d : member \in d.templates)
          [] kind \in {"viewLabel", "viewDescription"} ->
                 Def(LAMBDA d : member \in DOMAIN d.views)
          [] kind = "ruleMessage" -> Def(LAMBDA d : member \in DOMAIN d.rules)
          [] kind \in {"objectLabel", "objectDescription"} ->
                 container \in DOMAIN c.objects
          [] kind \in {"objectFieldLabel", "objectFieldDescription"} ->
                 container \in DOMAIN c.objects
                     /\ member \in DOMAIN c.objects[container].fields
          [] kind \in {"opFieldLabel", "opFieldDescription"} ->
                 container \in DOMAIN c.ops /\ member \in DOMAIN c.ops[container].fields
          [] OTHER -> container \in DOMAIN c.ops

ApplyOneOverride(c, pack, id) ==
    IF ~Resolves(c, id) \/ id \notin DOMAIN c.owners
    THEN [c EXCEPT !.diags = Append(@, Diag("locale_unresolved_key", pack))]
    ELSE IF c.owners[id] # pack
    THEN [c EXCEPT !.diags = Append(@, Diag("locale_wrong_owner", pack))]
    ELSE [c EXCEPT !.texts = (id :> [by |-> pack, sidecar |-> TRUE]) @@ @]

\* The overlay of a pack for the locale, if it has one, pack after pack.
ApplyLocaleOverlays(c, packs, locale) ==
    LET OfPack(acc, pack) ==
            IF locale \notin DOMAIN pack.locales THEN acc
            ELSE FoldSet(LAMBDA id, a : ApplyOneOverride(a, pack.id, id),
                         acc, DOMAIN pack.locales[locale])
    IN  FoldLeft(OfPack, c, packs)

-----------------------------------------------------------------------------

WithWarnings(c) == [c EXCEPT !.diags = @ \o PostMergeWarnings(c)]

\* The catalog, step by step: merged, with views, with warnings, with sidecars.
Unlocalized(packs) == WithWarnings(ResolveAllFormViews(MergePacks(packs)))

DuplicateWarnings(sorted) ==
    LET dropped == SelectSeq(sorted, LAMBDA p : p \notin Range(DedupPacks(sorted)))
    IN  [i \in DOMAIN dropped |-> Diag("duplicate_pack_id", dropped[i].id)]

Localized(deduped, locale, warnings) ==
    [ApplyLocaleOverlays(Unlocalized(deduped), deduped, locale) EXCEPT
        !.diags = warnings \o @]

MergePacksWithLocale(packs, locale) ==
    Localized(DedupPacks(SortPacks(packs)), locale, DuplicateWarnings(SortPacks(packs)))

=============================================================================
