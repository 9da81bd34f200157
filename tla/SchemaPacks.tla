------------------------------ MODULE SchemaPacks ------------------------------
(***************************************************************************)
(* Reading one schema pack (schema_pack/loader/): the manifest, the files  *)
(* of its declared directories, the checks of each file, and the locale    *)
(* sidecars.                                                               *)
(*                                                                         *)
(* Abstracted: JSON. A file is what reading and parsing it gives: its      *)
(* status (the first check that rejects it, or "ok"), the name it declares *)
(* and its content. A directory entry of a manifest is "ok" with its JSON  *)
(* files in path order, or what resolving it meets: it leaves the pack, is *)
(* a symlink, or does not exist. A pack directory is                       *)
(*   manifest   [status, id, version, game, priority], version being       *)
(*              formatVersion and game the game version or NoVersion       *)
(*   defDirs, objectDirs, opDirs   the directories of each kind            *)
(*   locales    [state, files], each file [status, tag, entries]           *)
(* Diagnostics are [code, about] records, about naming the file or Def     *)
(* type; their texts and arguments are left out.                           *)
(***************************************************************************)
EXTENDS Naturals, Sequences, FiniteSets, SequencesExt

CONSTANTS
    MaxDefFiles  \* MAX_DEF_FILES_PER_PACK: files of one kind read from a pack

NoVersion == 0

Diag(code, about) == [code |-> code, about |-> about]

NoFile == [status |-> "none", name |-> "none"]

\* What a step of loading yields: a value and the diagnostics it pushed.
Yield(value, diags) == [value |-> value, diags |-> diags]

-----------------------------------------------------------------------------
(* The manifest                                                            *)

\* Formats 1 to 3 are read; the pack needs an id and a list of directories.
ParseSchemaPackManifest(dir) ==
    CASE dir.manifest.status = "badJson" ->
             Yield(FALSE, <<Diag("manifest_json_invalid", dir.name)>>)
      [] dir.manifest.status # "badJson" /\ dir.manifest.version \notin 1..3 ->
             Yield(FALSE, <<Diag("manifest_format_unsupported", dir.name)>>)
      [] dir.manifest.status = "noId" ->
             Yield(FALSE, <<Diag("missing_pack_id", dir.name)>>)
      [] dir.manifest.status = "ok" /\ dir.defDirs = <<>> ->
             Yield(FALSE, <<Diag("def_type_directory_missing", dir.name)>>)
      [] OTHER -> Yield(TRUE, <<>>)

ReadManifest(dir) ==
    CASE dir.manifest.status = "tooLarge" ->
             Yield(FALSE, <<Diag("manifest_too_large", dir.name)>>)
      [] dir.manifest.status = "unreadable" ->
             Yield(FALSE, <<Diag("manifest_read_failed", dir.name)>>)
      [] OTHER -> ParseSchemaPackManifest(dir)

-----------------------------------------------------------------------------
(* One file of each kind                                                   *)

DupIn(seq) == Cardinality(Range(seq)) # Len(seq)

\* The diagnostic of one form view declaration, "ok" when it is well formed.
ViewFault(id, view) ==
    LET delta == view.hidden # <<>> \/ view.unhide # <<>> \/ view.replace
    IN  CASE id = "" -> "form_view_blank_id"
          [] id = "default" -> "form_view_reserved_id"
          [] id \notin {"", "default"} /\ view.disabled
                 /\ (view.label \/ view.description \/ delta) ->
                 "form_view_disabled_with_content"
          [] ~view.label /\ ~view.description /\ ~delta /\ ~view.disabled ->
                 "form_view_empty_declaration"
          [] ~view.label /\ view.description -> "form_view_missing_label"
          [] DupIn(view.hidden) -> "form_view_duplicate_hidden_field"
          [] DupIn(view.unhide) -> "form_view_duplicate_unhide_field"
          [] Range(view.hidden) \cap Range(view.unhide) # {} ->
                 "form_view_conflicting_hidden_unhide"
          [] OTHER -> "ok"

ValidateFormViewDeclarations(views) ==
    LET faulty == {v \in DOMAIN views : ViewFault(v, views[v]) # "ok"}
    IN  [i \in 1..Cardinality(faulty) |->
            LET v == SetToSeq(faulty)[i] IN Diag(ViewFault(v, views[v]), v)]

\* What a parser rejects whatever the kind of the file.
Rejected(file) == file.status \in {"badJson", "noName", "badShape"}

RejectedDiag(file) ==
    IF file.status = "noName" THEN Diag("missing_name", file.path)
    ELSE Diag("json_invalid", file.path)

\* Field types the program does not know are read as "unknown".
KnownTypes(fields) ==
    [f \in DOMAIN fields |->
        IF fields[f].type = "unrecognized" THEN [fields[f] EXCEPT !.type = "unknown"]
        ELSE fields[f]]

TypeWarnings(file) ==
    LET odd == {f \in DOMAIN file.schema.fields :
                    file.schema.fields[f].type = "unrecognized"}
    IN  [i \in 1..Cardinality(odd) |-> Diag("invalid_field_type", file.path)]

\* Slip: the declarations are validated before the version gate strips them.
ValidatedFirst(file, version) ==
    LET views == ValidateFormViewDeclarations(file.schema.views)
    IN  IF Rejected(file) THEN Yield(NoFile, <<RejectedDiag(file)>>)
        ELSE IF views # <<>> THEN Yield(NoFile, views)
        ELSE Yield([file EXCEPT !.schema.fields = KnownTypes(@)], TypeWarnings(file))

\* formViews of a pack older than format 3 are stripped with an error, and the rest
\* of the file is kept; from format 3 on one bad declaration rejects the file. A file
\* that is JSON but not a Def type ("badShape") is stripped, and reported, first.
ParseDefTypeSchema(file, version) ==
    LET old == version < 3 /\ DOMAIN file.schema.views # {}
        gate == IF old THEN <<Diag("form_views_requires_v3", file.path)>> ELSE <<>>
        kept == IF old THEN [file EXCEPT !.schema.views = <<>>] ELSE file
        faults == ValidateFormViewDeclarations(kept.schema.views)
        typed == [kept EXCEPT !.schema.fields = KnownTypes(@)]
    IN  IF file.status \in {"badJson", "noName"} THEN Yield(NoFile, <<RejectedDiag(file)>>)
        ELSE IF file.status = "badShape" THEN Yield(NoFile, Append(gate, RejectedDiag(file)))
        ELSE IF faults # <<>> THEN Yield(NoFile, gate \o TypeWarnings(file) \o faults)
        ELSE Yield(typed, gate \o TypeWarnings(file))

ParseObjectTypeSchema(file, version) ==
    IF Rejected(file) THEN Yield(NoFile, <<RejectedDiag(file)>>)
    ELSE Yield([file EXCEPT !.schema.fields = KnownTypes(@)], TypeWarnings(file))

\* Patch operation metadata has a format version of its own, and only 1 is read.
ParsePatchOperationMetadata(file, version) ==
    IF file.status = "badFormat"
    THEN Yield(NoFile, <<Diag("patch_operation_metadata_format_unsupported", file.path)>>)
    ELSE ParseObjectTypeSchema(file, version)

-----------------------------------------------------------------------------
(* The directories of a manifest                                           *)

\* The fault of an entry that keeps it from being read; a symlink is skipped in silence.
DirectoryFault(entry) ==
    CASE entry.state = "escapes" -> <<Diag("directory_escape", entry.name)>>
      [] entry.state = "missing" -> <<Diag("directory_missing", entry.name)>>
      [] OTHER -> <<>>

ParseFile(kind, file, version) ==
    CASE kind = "def" -> ParseDefTypeSchema(file, version)
      [] kind = "object" -> ParseObjectTypeSchema(file, version)
      [] kind = "operation" -> ParsePatchOperationMetadata(file, version)

\* One file: the size check, the read, the parse. `acc` counts the files accepted.
ReadFile(acc, kind, file, version) ==
    IF file.status = "tooLarge"
    THEN [acc EXCEPT !.diags = Append(@, Diag("file_too_large", file.path))]
    ELSE IF file.status = "unreadable"
    THEN [acc EXCEPT !.diags = Append(@, Diag("file_read_failed", file.path))]
    ELSE LET parsed == ParseFile(kind, file, version)
         IN  [value |-> IF parsed.value.status = "none" THEN acc.value
                        ELSE Append(acc.value, parsed.value),
              diags |-> acc.diags \o parsed.diags]

\* The loop leaves a directory at the limit, with one warning for that directory.
ReadDirectory(acc, kind, entry, version) ==
    LET RECURSIVE From(_, _)
        From(a, rest) ==
            IF rest = <<>> THEN a
            ELSE IF Len(a.value) >= MaxDefFiles
            THEN [a EXCEPT !.diags = Append(@, Diag("too_many_files", entry.name))]
            ELSE From(ReadFile(a, kind, Head(rest), version), Tail(rest))
    IN  IF entry.state = "ok" THEN From(acc, entry.files)
        ELSE [acc EXCEPT !.diags = @ \o DirectoryFault(entry)]

ReadDirectories(kind, entries, version) ==
    FoldLeft(LAMBDA acc, entry : ReadDirectory(acc, kind, entry, version),
             Yield(<<>>, <<>>), entries)

ReadDefFiles(dir) == ReadDirectories("def", dir.defDirs, dir.manifest.version)

ReadObjectFiles(dir) == ReadDirectories("object", dir.objectDirs, dir.manifest.version)

ReadPatchOperationFiles(dir) ==
    ReadDirectories("operation", dir.opDirs, dir.manifest.version)

-----------------------------------------------------------------------------
(* Locale sidecars                                                         *)

\* The entries of a sidecar, in file order: a key that is no resource id or a value
\* that is no text is skipped; of two texts for one key the later one counts.
ParseLocaleFile(file) ==
    LET good == SelectSeq(file.entries, LAMBDA e : e.isText /\ e.known)
        last(key) == Max({i \in DOMAIN good : good[i].key = key})
    IN  [key \in {good[i].key : i \in DOMAIN good} |-> good[last(key)].text]

\* The first readable file of a tag is the tag's sidecar, whichever it turns out
\* to be: a later one of the same tag is ignored, unless the first was not JSON.
ParseLocaleBundle(files) ==
    LET Add(acc, file) ==
            CASE file.status = "badTag" ->
                     [acc EXCEPT !.diags = Append(@, Diag("locale_invalid_tag", file.tag))]
              [] file.status # "badTag" /\ file.tag \in DOMAIN acc.value ->
                     [acc EXCEPT !.diags = Append(@, Diag("locale_duplicate_tag", file.tag))]
              [] file.status = "badJson" /\ file.tag \notin DOMAIN acc.value ->
                     [acc EXCEPT !.diags = Append(@, Diag("locale_json_invalid", file.tag))]
              [] OTHER ->
                     [acc EXCEPT !.value = (file.tag :> ParseLocaleFile(file)) @@ @]
    IN  FoldLeft(Add, Yield(<<>>, <<>>), files)

\* A missing locales directory is no fault: the files of an unusable one are none.
ReadLocaleDirectoryFiles(locales) ==
    LET Ok(file) == file.status \notin {"tooLarge", "unreadable"}
        bad == SelectSeq(locales.files, LAMBDA f : ~Ok(f))
    IN  CASE locales.state = "escapes" ->
                 Yield(<<>>, <<Diag("locale_directory_escape", "locales")>>)
          [] locales.state = "symlink" ->
                 Yield(<<>>, <<Diag("locale_directory_symlink_rejected", "locales")>>)
          [] locales.state = "missing" -> Yield(<<>>, <<>>)
          [] OTHER -> Yield(SelectSeq(locales.files, Ok),
                            [i \in DOMAIN bad |-> Diag("locale_file_unusable", bad[i].tag)])

-----------------------------------------------------------------------------
(* The pack                                                                *)

\* Of the files that declare one name the first is kept, each other one is an error.
FirstOfName(files) ==
    LET nameOf(i) == files[i].name
        first(n) == Min({i \in DOMAIN files : nameOf(i) = n})
        dups == {i \in DOMAIN files : i # first(nameOf(i))}
    IN  Yield([n \in {nameOf(i) : i \in DOMAIN files} |-> files[first(n)].schema],
              [k \in 1..Cardinality(dups) |->
                   Diag("duplicate_name", files[SetToSortSeq(dups, <)[k]].path)])

Assembled(dir, defs, objects, ops) ==
    Yield([id |-> dir.manifest.id, priority |-> dir.manifest.priority,
           game |-> dir.manifest.game, builtin |-> dir.builtin,
           defs |-> defs.value, objects |-> objects.value, ops |-> ops.value],
          defs.diags \o objects.diags \o ops.diags)

AssembleSchemaPack(dir, defFiles, objectFiles, opFiles) ==
    Assembled(dir, FirstOfName(defFiles), FirstOfName(objectFiles), FirstOfName(opFiles))

WithLocales(pack, locales) == [id |-> pack.id, priority |-> pack.priority,
    game |-> pack.game, builtin |-> pack.builtin, defs |-> pack.defs,
    objects |-> pack.objects, ops |-> pack.ops, locales |-> locales]

Loaded(dir, defs, objects, ops, localeFiles, locales) ==
    LET pack == AssembleSchemaPack(dir, defs.value, objects.value, ops.value)
    IN  Yield(<<WithLocales(pack.value, locales.value)>>,
              ReadManifest(dir).diags \o defs.diags \o objects.diags \o ops.diags
              \o localeFiles.diags \o locales.diags \o pack.diags)

\* A pack directory: a sequence of one pack, or of none when its manifest is bad.
LoadPackFromDirectory(dir) ==
    IF ~ReadManifest(dir).value THEN Yield(<<>>, ReadManifest(dir).diags)
    ELSE Loaded(dir, ReadDefFiles(dir), ReadObjectFiles(dir), ReadPatchOperationFiles(dir),
                ReadLocaleDirectoryFiles(dir.locales),
                ParseLocaleBundle(ReadLocaleDirectoryFiles(dir.locales).value))

AfterPack(acc, one) == Yield(acc.value \o one.value, acc.diags \o one.diags)

\* An embedded pack goes through the same parsers; nothing of it can be unreadable.
LoadBuiltInPacks(dirs) ==
    FoldLeft(LAMBDA acc, dir : AfterPack(acc, LoadPackFromDirectory(dir)),
             Yield(<<>>, <<>>), dirs)

=============================================================================
