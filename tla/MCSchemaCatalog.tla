---------------------------- MODULE MCSchemaCatalog ----------------------------
(***************************************************************************)
(* Small worlds for SchemaCatalog: a built-in pack and up to two external  *)
(* ones. Five families: how overrides of a field combine; how form views   *)
(* combine over a diamond of Def types; the fields and aliases of a        *)
(* diamond of objects; packs with broken files, old formats and game       *)
(* versions; and packs edited while requests are served.                   *)
(***************************************************************************)
EXTENDS SchemaCatalog

MCNames == <<"alpha", "beta", "core", "amount", "child", "def", "left", "main", "right",
             "root", "size", "tall", "tpl", "rule", "op", "obj", "view", "ghost">>

MCOptions == {"required", "xml"}

Opt(required, xml) == [o \in MCOptions |-> IF o = "required" THEN required ELSE xml]

Field(label, description, options, aliases) ==
    [label |-> label, description |-> description, type |-> "text",
     options |-> options, aliases |-> aliases]

Plain == Field(FALSE, FALSE, Opt(Unset, Unset), <<>>)

NoSchema == [label |-> FALSE, description |-> FALSE, abstract |-> FALSE, inherits |-> <<>>,
             fields |-> <<>>, order |-> <<>>, templates |-> <<>>, rules |-> <<>>,
             views |-> <<>>]

NoObject == [label |-> FALSE, description |-> FALSE, inherits |-> <<>>, fields |-> <<>>,
             order |-> <<>>,
             discriminator |-> [attribute |-> Unset, fallback |-> Unset, variants |-> <<>>]]

NoOperation == [label |-> FALSE, description |-> FALSE, fields |-> <<>>, order |-> <<>>,
                preview |-> "none", message |-> FALSE]

File(name, schema) == [status |-> "ok", name |-> name, path |-> name, schema |-> schema]

Broken(name, status) == [File(name, NoSchema) EXCEPT !.status = status, !.path = "broken"]

Entry(files) == [state |-> "ok", name |-> "Defs", files |-> files]

NoLocales == [state |-> "missing", files |-> <<>>]

Dir(id, version, priority, builtin, defs) ==
    [name |-> id, builtin |-> builtin, present |-> TRUE,
     manifest |-> [status |-> "ok", id |-> id, version |-> version, game |-> NoVersion,
                   priority |-> priority],
     defDirs |-> <<Entry(defs)>>, objectDirs |-> <<>>, opDirs |-> <<>>,
     locales |-> NoLocales]

\* A sidecar that tries to change each of the ids.
Sidecar(keys) ==
    [state |-> "ok",
     files |-> <<[status |-> "ok", tag |-> "en",
                  entries |-> [i \in DOMAIN keys |->
                      [key |-> keys[i], text |-> "text", isText |-> TRUE, known |-> TRUE]]]>>]

With(dir, locales) == [dir EXCEPT !.locales = locales]

One == [roots |-> <<"mods">>, game |-> NoVersion]

World(builtin, dirs, roots, choices) ==
    [builtin |-> builtin, dirs |-> dirs, roots |-> roots, settings |-> choices,
     edits |-> 0, requests |-> 1]

\* A world of a built-in pack and two external ones below one root.
Trio(core, alpha, beta) ==
    World(<<core>>, ("alpha" :> <<alpha>>) @@ ("beta" :> <<beta>>),
          "mods" :> <<"alpha", "beta">>, <<One>>)

-----------------------------------------------------------------------------
(* Overrides of a field, field orders, templates, rules, objects, patch operations *)

FieldIds == <<<<"defFieldDescription", "def", "amount">>, <<"defFieldLabel", "def", "amount">>,
             <<"defLabel", "def", "">>, <<"templateLabel", "def", "tpl">>,
             <<"ruleMessage", "def", "rule">>, <<"objectLabel", "obj", "">>,
             <<"objectFieldLabel", "obj", "size">>, <<"opLabel", "op", "">>,
             <<"opFieldLabel", "op", "size">>, <<"previewMessage", "op", "">>,
             <<"defLabel", "ghost", "">>>>

Amounts == {Plain, Field(TRUE, FALSE, Opt("yes", Unset), <<>>),
            Field(FALSE, TRUE, Opt(Unset, "list"), <<"size">>),
            [Field(TRUE, TRUE, Opt("no", Unset), <<"tall", "size">>) EXCEPT !.type =
                "unrecognized"]}

Orders == {<<>>, <<"tall", "amount">>, <<"amount", "tall", "amount">>, <<"ghost">>}

FieldDefs == {NoSchema} \cup
    {[NoSchema EXCEPT !.fields = ("amount" :> a) @@ ("tall" :> Plain), !.order = o,
                      !.label = o = <<>>, !.inherits = IF o = <<>> THEN <<"root">> ELSE <<>>,
                      !.templates = IF o = <<>> THEN "tpl" :> [description |-> FALSE]
                                    ELSE <<>>,
                      !.rules = "rule" :> [field |-> "amount", when |-> "ghost"]] :
        a \in Amounts, o \in Orders}

Objects(set) ==
    <<Entry(<<File("obj", [NoObject EXCEPT
                 !.label = set, !.fields = "size" :> Plain, !.order = <<"size", "ghost">>,
                 !.inherits = <<"obj">>,
                 !.discriminator = [attribute |-> "Class", fallback |-> Unset,
                                    variants |-> "left" :> "ghost"]])>>)>>

Operations(set) ==
    <<Entry(<<File("op", [NoOperation EXCEPT
                 !.label = set, !.fields = "size" :> Plain, !.order = <<"ghost", "size">>,
                 !.preview = IF set THEN "odd" ELSE "none", !.message = set]),
              [File("op", NoOperation) EXCEPT !.status = "badFormat", !.path = "broken"]>>)>>

Full(dir, set) == [With(dir, Sidecar(FieldIds)) EXCEPT !.objectDirs = Objects(set),
                                                      !.opDirs = Operations(set)]

FieldWorlds ==
    LET core(s) == Full(Dir("core", 3, 1, TRUE, <<File("def", s), File("root", NoSchema)>>),
                        TRUE)
        alpha(s) == Full(Dir("alpha", 2, 1, FALSE, <<File("def", s)>>), FALSE)
        beta(s) == With(Dir("beta", 1, 1, FALSE, <<File("def", s)>>), Sidecar(FieldIds))
        few == {s \in FieldDefs : s = NoSchema \/ s.order \in {<<>>, <<"tall", "amount">>}}
    IN  {Trio(core(c), alpha(a), beta(b)) : c \in few, a \in FieldDefs, b \in few}

-----------------------------------------------------------------------------
(* Form views over the diamond root <- left, right <- child                *)

Decl(label, description, hidden, unhide, replace, disabled) ==
    [label |-> label, description |-> description, hidden |-> hidden, unhide |-> unhide,
     replace |-> replace, disabled |-> disabled]

Decls == {Decl(TRUE, TRUE, <<"amount">>, <<>>, FALSE, FALSE),
          Decl(TRUE, FALSE, <<>>, <<>>, FALSE, FALSE),
          Decl(FALSE, FALSE, <<"size", "ghost">>, <<>>, FALSE, FALSE),
          Decl(FALSE, FALSE, <<>>, <<"amount">>, FALSE, FALSE),
          Decl(FALSE, FALSE, <<"size">>, <<>>, TRUE, FALSE),
          Decl(FALSE, FALSE, <<>>, <<>>, FALSE, TRUE)}

Types == {"root", "left", "right", "child"}

Inherits(d) == CASE d = "root" -> <<>>
                 [] d = "child" -> <<"left", "right">>
                 [] OTHER -> <<"root">>

Type(d) == [NoSchema EXCEPT
              !.inherits = Inherits(d),
              !.fields = IF d = "root" THEN ("amount" :> Plain) @@ ("size" :> Plain)
                         ELSE d :> Plain]

ViewIds == <<<<"viewLabel", "root", "view">>, <<"viewDescription", "root", "view">>,
             <<"viewDescription", "left", "view">>, <<"viewLabel", "child", "view">>,
             <<"viewDescription", "child", "view">>>>

Viewed(d, decl) == File(d, [NoSchema EXCEPT !.views = "view" :> decl])

ViewWorlds ==
    LET core(decl) ==
            With(Dir("core", 3, 0, TRUE,
                     <<File("root", [Type("root") EXCEPT !.views = "view" :> decl]),
                       File("left", Type("left")), File("right", Type("right")),
                       File("child", Type("child"))>>), Sidecar(ViewIds))
        alpha(d, decl) == With(Dir("alpha", 3, 0, FALSE, <<Viewed(d, decl)>>),
                               Sidecar(ViewIds))
        beta(d, decl) == With(Dir("beta", 3, 0, FALSE, <<Viewed(d, decl)>>),
                              Sidecar(ViewIds))
    IN  {Trio(core(c), alpha(d, a), beta(e, b)) :
            c \in {Decl(TRUE, TRUE, <<"amount">>, <<>>, FALSE, FALSE),
                   Decl(FALSE, FALSE, <<>>, <<>>, FALSE, TRUE)},
            a \in Decls, b \in Decls, d \in Types, e \in Types}

-----------------------------------------------------------------------------
(* The fields and aliases of objects: the same diamond, amended, sometimes to a cycle *)

Object(d, inherits, fields) ==
    File(d, [NoObject EXCEPT !.inherits = inherits, !.fields = fields])

Sized(aliases) == Field(FALSE, FALSE, Opt(Unset, Unset), aliases)

ObjectWorlds ==
    LET Of(dir, files) == [dir EXCEPT !.objectDirs = <<Entry(files)>>]
        core == Of(Dir("core", 3, 0, TRUE, <<File("def", NoSchema)>>),
                   <<Object("root", <<>>, ("size" :> Sized(<<"main">>)) @@ ("tall" :> Plain)),
                     Object("left", <<"root">>, "amount" :> Sized(<<>>)),
                     Object("right", <<"root">>, "size" :> Sized(<<>>)),
                     Object("child", <<"left", "right">>, <<>>)>>)
        Patching(name, files) == Of(Dir(name, 1, 0, FALSE, <<File("def", NoSchema)>>), files)
    IN  {Trio(core, Patching("alpha", <<Object(d, up, f :> Sized(a))>>),
              Patching("beta", <<Object(e, <<>>, g :> Sized(<<"tall">>))>>)) :
            d \in Types, up \in {<<>>, <<"child">>}, f \in {"amount", "size"}, e \in Types,
            g \in {"amount", "child"}, a \in {<<>>, <<"size">>, <<"tall", "amount">>}}

-----------------------------------------------------------------------------
(* Broken files, old formats and game versions                             *)

Faulty == {Broken("left", status) : status \in {"tooLarge", "unreadable", "badJson", "noName",
                                                "badShape"}}
          \cup {Viewed("left", decl) : decl \in
                   {Decl(FALSE, TRUE, <<>>, <<>>, FALSE, FALSE),
                    Decl(FALSE, FALSE, <<"size">>, <<"size">>, FALSE, FALSE),
                    Decl(FALSE, FALSE, <<"size", "size">>, <<>>, FALSE, FALSE),
                    Decl(TRUE, FALSE, <<>>, <<>>, FALSE, TRUE)}}
          \cup {File("root", NoSchema)}

Manifests == {[status |-> status, id |-> "alpha", version |-> version, game |-> game,
               priority |-> 0] :
                  status \in {"ok", "noId"}, version \in {2, 3, 4}, game \in {NoVersion, 15}}
             \cup {[status |-> status, id |-> "alpha", version |-> 3, game |-> 15,
                    priority |-> 0] : status \in {"tooLarge", "unreadable", "badJson"}}

BadLocales == {NoLocales, [NoLocales EXCEPT !.state = "escapes"],
               [NoLocales EXCEPT !.state = "symlink"],
               [state |-> "ok",
                files |-> <<[status |-> "badJson", tag |-> "en", entries |-> <<>>],
                            [status |-> "badTag", tag |-> "e", entries |-> <<>>],
                            [status |-> "tooLarge", tag |-> "en", entries |-> <<>>],
                            [status |-> "ok", tag |-> "en", entries |->
                                <<[key |-> <<"defLabel", "root", "">>, text |-> "t",
                                   isText |-> FALSE, known |-> TRUE]>>],
                            [status |-> "ok", tag |-> "en", entries |-> <<>>]>>]}

FileWorlds ==
    LET core == [Dir("core", 3, 0, TRUE, <<File("root", Type("root"))>>)
                    EXCEPT !.manifest.game = 16]
        dirs(files) == <<[state |-> "missing", name |-> "Old", files |-> <<>>],
                         [state |-> "symlink", name |-> "Link", files |-> <<>>],
                         [state |-> "escapes", name |-> "Out", files |-> <<>>],
                         Entry(files)>>
        alpha(manifest, files, locales) ==
            [Dir("alpha", 3, 0, FALSE, <<>>) EXCEPT !.manifest = manifest,
                 !.defDirs = dirs(files), !.locales = locales]
        beta == Dir("beta", 1, 0, FALSE, <<File("left", NoSchema)>>)
        settingsOf(game) == <<[roots |-> <<"mods", "gone">>, game |-> game]>>
    IN  {World(<<core>>, ("alpha" :> <<alpha(m, files, l)>>) @@ ("beta" :> <<beta>>),
               "mods" :> <<"alpha", "beta">>, settingsOf(game)) :
            m \in Manifests, l \in BadLocales, game \in {14, 15, 16},
            files \in {<<f, File("root", NoSchema), File("child", NoSchema)>> : f \in Faulty}
                     \cup {[i \in 1..5 |-> File(MCNames[i], NoSchema)]}}

-----------------------------------------------------------------------------
(* Edits during requests: two roots that ship a pack of one id             *)

Edited(required) == Dir("alpha", 3, 0, FALSE,
    <<File("def", [NoSchema EXCEPT !.fields = "amount" :>
          Field(FALSE, FALSE, Opt(required, Unset), <<>>)])>>)

CacheWorlds ==
    {[World(<<Dir("core", 3, 0, TRUE, <<File("root", Type("root"))>>)>>,
           ("one" :> <<Edited("yes"), [Edited("yes") EXCEPT !.present = FALSE],
                       Edited("maybe")>>)
           @@ ("two" :> <<Edited("no"), Edited("maybe")>>),
           ("mods" :> <<"one">>) @@ ("more" :> <<"two">>),
           <<[roots |-> <<"mods", "more">>, game |-> NoVersion],
             [roots |-> <<"more", "mods">>, game |-> NoVersion]>>)
      EXCEPT !.edits = 2, !.requests = 3]}

MCWorlds == FieldWorlds \cup ViewWorlds \cup ObjectWorlds \cup FileWorlds \cup CacheWorlds

=============================================================================
