----------------------------- MODULE SchemaCatalog -----------------------------
(***************************************************************************)
(* The catalogs that the cache builds and serves: what CatalogCache leaves *)
(* open is here the loading of SchemaPacks and the merging of SchemaMerge  *)
(* and SchemaViews, and the properties say of each catalog built what the  *)
(* packs it was made of account for.                                       *)
(***************************************************************************)
EXTENDS CatalogCache, SchemaViews

MissingRoot(root) == Yield(<<>>, <<Diag("root_missing", root)>>)

\* Filter, merge, and collect the diagnostics in the order of the steps.
MergedCatalog(packs, diags, game, locale) ==
    [MergePacksWithLocale(FilterPacksByGameVersion(packs, game), locale) EXCEPT
        !.diags = diags \o FilterDiags(packs, game) \o @]

-----------------------------------------------------------------------------
(* Properties                                                              *)

Built == req.phase = "served" /\ ~req.hit

\* The packs that were merged for a catalog just built, in merge order.
Merged == DedupPacks(SortPacks(FilterPacksByGameVersion(req.packs, Current.game)))

\* When no two packs share an id, the catalog does not depend on the order in which
\* the roots and directories were walked (merge.rs: the sort by priority, kind and id).
DiscoveryOrderImmaterial ==
    LET packs == FilterPacksByGameVersion(req.packs, Current.game)
    IN  Built /\ (\A i, j \in DOMAIN packs : packs[i].id = packs[j].id => i = j) =>
            MergePacks(DedupPacks(SortPacks(Reverse(packs)))) = MergePacks(Merged)

\* The last of the merged packs, in their order, of which Test holds; 0 for none.
LastPack(Test(_)) == SelectLastInSeq(Merged, Test)

\* A scalar of a field is what the last pack that sets it says, the default when none
\* does, and the text shown is by the last pack that sets it: an override that leaves a
\* scalar out does not reset it (merge.rs, apply_field_override).
LastExplicitWins ==
    Built => \A d \in DOMAIN req.catalog.defs :
        \A f \in DOMAIN req.catalog.defs[d].fields :
            LET Has(p) == d \in DOMAIN p.defs /\ f \in DOMAIN p.defs[d].fields
                Setting(o) == LastPack(LAMBDA p : Has(p)
                                           /\ p.defs[d].fields[f].options[o] # Unset)
                writer == LastPack(LAMBDA p : Has(p) /\ p.defs[d].fields[f].description)
            IN  /\ \A o \in Options : req.catalog.defs[d].fields[f].options[o] =
                       IF Setting(o) = 0 THEN OptionDefault(o)
                       ELSE Merged[Setting(o)].defs[d].fields[f].options[o]
                /\ TextOf(req.catalog, <<"defFieldDescription", d, f>>).by =
                       IF writer = 0 THEN NoText.by ELSE Merged[writer].id

\* The field order of a Def type or patch operation names every field, and none twice,
\* however the packs list and re-list them (merge.rs, merge_field_order).
OrderListsFieldsOnce ==
    LET Complete(type) == ~DupIn(type.order) /\ DOMAIN type.fields \subseteq Range(type.order)
    IN  Built => /\ \A d \in DOMAIN req.catalog.defs : Complete(req.catalog.defs[d])
                 /\ \A op \in DOMAIN req.catalog.ops : Complete(req.catalog.ops[op])

\* A chain of packs that override one type loses nothing an earlier one said.
OverridesMerge == LastExplicitWins /\ OrderListsFieldsOnce

\* A sidecar changes a text that is shown only when the same pack wrote that text: a
\* pack that amends something else of the record gains no right over it (locale.rs,
\* the module comment on ownership).
SidecarKeepsAuthor ==
    Built => LET before == Unlocalized(Merged)
             IN  \A id \in DOMAIN before.texts :
                     Resolves(before, id) /\ before.texts[id] # NoText =>
                         TextOf(req.catalog, id).by = before.texts[id].by

\* A view hides only fields that a form of the consuming Def type has, although its
\* declarations were checked against the types that declare them (merge.rs,
\* sanitize_form_view_layers: "the monotonic growth of fields down an inheritance chain").
HiddenFieldsKnown(c) ==
    \A d \in DOMAIN c.defs : \A v \in DOMAIN c.defs[d].views :
        c.defs[d].views[v].hidden \subseteq KnownFields(c, d)

Up(defs, d) == Range(ParentsFirst(defs, d, <<>>))

Acyclic(defs) == \A d, e \in DOMAIN defs : d # e => ~(d \in Up(defs, e) /\ e \in Up(defs, d))

\* A name is found on a type exactly when the type or an ancestor has it as a field or
\* an alias.
FoundWhenReachable(types) ==
    \A t \in DOMAIN types, f \in Range(Names) :
        LookupField(types, t, f) # <<>> <=> \E u \in Up(types, t) : f \in FieldsAndAliases(types[u])

\* Each field of an object is offered once and as the type nearest to the object on the
\* way through inherits declares it, and its name means that field: except where a type
\* met before it on that way has the name as an alias. It then means another field, but
\* one that is offered, too, under its own name.
OfferedIsFound(objects, o) ==
    LET offered == CollectObjectFieldsOrdered(objects, o)
        way == SelfFirst(objects, o, <<>>)
        Met(t) == Min({i \in DOMAIN way : way[i] = t})
        Hides(found, name, t) ==
            /\ Met(found[1]) < Met(t)
            /\ name \in Range(objects[found[1]].fields[found[2]].aliases)
            /\ \E i \in DOMAIN offered : offered[i][1] = found[2]
    IN  /\ \A i, j \in DOMAIN offered : offered[i][1] = offered[j][1] => i = j
        /\ {x[1] : x \in Range(offered)} = UNION {DOMAIN objects[t].fields : t \in Up(objects, o)}
        /\ \A x \in Range(offered) :
               LET found == LookupField(objects, o, x[1])
               IN  found = <<x[2], x[1]>> \/ Hides(found, x[1], x[2])

\* Looking a field up, listing the fields and looking for subtypes walk inherits in
\* different ways and agree: lookups find what is there, the subtypes a reference to a
\* type may name are the types it is an ancestor of, and a field offered for an object is
\* the one that looking its name up gives (lookup.rs:157-158: the order of the list
\* mirrors the one of the lookup), unless an alias hides it.
LookupsAgree ==
    Built => LET defs == req.catalog.defs
                 objects == req.catalog.objects
             IN  /\ FoundWhenReachable(defs) /\ FoundWhenReachable(objects)
                 /\ \A base \in DOMAIN defs :
                        CollectDefSubtypes(defs, {base}) = {d \in DOMAIN defs : base \in Up(defs, d)}
                 /\ \A o \in DOMAIN objects : OfferedIsFound(objects, o)

\* Every declaration of a Def type and of its ancestors counts once, along however many
\* paths it is inherited, and those of an ancestor before those of its descendants.
LayersOnceAncestorsFirst(c, all) ==
    Acyclic(c.defs) =>
        \A d \in DOMAIN c.defs :
            LET layers == all[d]
            IN  /\ \A i, j \in DOMAIN layers : i < j =>
                       /\ <<layers[i].owner, layers[i].pack>> # <<layers[j].owner, layers[j].pack>>
                       /\ \/ layers[i].owner = layers[j].owner
                          \/ layers[j].owner \notin Up(c.defs, layers[i].owner)
                /\ {<<layers[i].owner, layers[i].pack>> : i \in DOMAIN layers} =
                       {<<o, p>> \in (Up(c.defs, d) \cap DOMAIN c.layers)
                                        \X {q.id : q \in Range(Merged)} :
                            \E k \in DOMAIN c.layers[o] : c.layers[o][k].pack = p}

\* A field of a view is hidden exactly when the last declaration that speaks of it hides
\* it: one that lists it, replaces the view, or begins it anew. So what two parents add
\* and remove both survive in the child (merge.rs:907-912).
HiddenByLastMention(hidden, layers, v, known) ==
    LET ends == {i \in DOMAIN layers : layers[i].decls[v].disabled}
        begin == Min({i \in DOMAIN layers : layers[i].decls[v].label /\ \A j \in ends : j < i})
        Speaks(i, f) == f \in Range(layers[i].decls[v].hidden) \cup Range(layers[i].decls[v].unhide)
                        \/ layers[i].decls[v].replace
        Speaking(f) == {i \in DOMAIN layers : i >= begin /\ Speaks(i, f)}
    IN  \A f \in known :
            f \in hidden <=> Speaking(f) # {}
                             /\ f \in Range(layers[Max(Speaking(f))].decls[v].hidden)

HiddenAsDeclared(c, all) ==
    \A d \in DOMAIN all : \A v \in DOMAIN c.defs[d].views :
        HiddenByLastMention(c.defs[d].views[v].hidden,
                            SelectSeq(all[d], LAMBDA l : v \in DOMAIN l.decls),
                            v, KnownFields(c, d))

\* A declaration that finds nothing to amend is reported once, however many Def types
\* inherit it (merge.rs:914-922).
AmendmentReportedOnce(c) ==
    LET Reports(d) == SelectSeq(c.diags,
            LAMBDA x : x = Diag("form_view_amendment_without_base", d))
        Declared(d) == {p \in Range(Merged) : d \in DOMAIN p.defs /\ p.defs[d].views # <<>>}
        decls(d) == UNION {{<<p.id, v>> : v \in DOMAIN p.defs[d].views} : p \in Declared(d)}
    IN  \A d \in DOMAIN c.defs : Len(Reports(d)) <= Cardinality(decls(d))

LayersFold(merged, layers) ==
    LayersOnceAncestorsFirst(merged, layers) /\ HiddenAsDeclared(req.catalog, layers)

FoldOf(merged) == LayersFold(merged, AllEffectiveLayers(merged))

\* The views of a type are its own and its ancestors' declarations, each applied once
\* (merge.rs, resolve_all_form_views).
ViewsFold ==
    Built => /\ FoldOf(MergePacks(Merged))
             /\ HiddenFieldsKnown(req.catalog)
             /\ AmendmentReportedOnce(req.catalog)

\* The Def files a pack directory lists, in order, that nothing is wrong with: form views
\* are looked at from format 3 on.
GoodFiles(dir) ==
    SelectSeq(FlattenSeq([i \in DOMAIN dir.defDirs |->
                  IF dir.defDirs[i].state = "ok" THEN dir.defDirs[i].files ELSE <<>>]),
              LAMBDA f : f.status = "ok"
                         /\ (dir.manifest.version = 3 =>
                               \A v \in DOMAIN f.schema.views :
                                   ViewFault(v, f.schema.views[v]) = "ok"))

\* What they come to: the first good files up to the limit, of one name the first, each
\* with all it says but the types that are not known and the views not yet allowed.
DefsDue(dir) ==
    LET files == GoodFiles(dir)
        kept == SubSeq(files, 1, Min({MaxDefFiles, Len(files)}))
        First(n) == SelectSeq(kept, LAMBDA f : f.name = n)[1].schema
    IN  [n \in {f.name : f \in Range(kept)} |->
            [First(n) EXCEPT !.fields = KnownTypes(@),
                             !.views = IF dir.manifest.version = 3 THEN @ ELSE <<>>]]

Acceptable(dir) ==
    dir.manifest.status = "ok" /\ dir.manifest.version \in 1..3 /\ dir.defDirs # <<>>

\* The pack directories below the registered roots; no other has the id of this one.
Installed(d) ==
    /\ \E root \in Range(Current.roots) : d \in Discovered(root, edition)
    /\ \A e \in DOMAIN world.dirs \ {d} : OnDisk(e).manifest.id # OnDisk(d).manifest.id

\* A file that is refused, whatever is wrong with it, costs its pack that file alone, and
\* form views a pack's format does not allow cost the file only the views: a pack with a
\* usable manifest is loaded, whatever else is in its directories or in other packs, and
\* has exactly its good files, up to the limit (loader/external_pack.rs, def_types.rs).
BadFileCostsItself ==
    Built /\ req.since = edition =>
        \A d \in DOMAIN world.dirs :
            Installed(d) /\ Acceptable(OnDisk(d)) =>
                \E p \in Range(req.packs) :
                    /\ p.id = OnDisk(d).manifest.id /\ ~p.builtin
                    /\ p.defs = DefsDue(OnDisk(d))

=============================================================================
