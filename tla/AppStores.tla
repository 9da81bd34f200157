------------------------------- MODULE AppStores -------------------------------
(***************************************************************************)
(* The files the application keeps for itself: settings.json               *)
(* (settings_store.rs, services/project_settings.rs), the form views of a   *)
(* project (form_views/store.rs) and its Def templates                     *)
(* (def_templates/store.rs), with the commands that change them.  Every    *)
(* command reads a file, computes a new content and replaces the file      *)
(* through a temporary one of a fixed name; a step may fail and the        *)
(* process may end between any two.                                        *)
(*                                                                         *)
(* The commands are synchronous, so the main thread runs one at a time.    *)
(* Nothing keeps a second instance of the application from starting:       *)
(* Processes has one member in the checked model, two to show what then    *)
(* happens.  Abstracted: names are members of a set with Trim, paths with  *)
(* Canonical; display names, descriptions and times are left out, and so   *)
(* is the order of locations, views and last selections: a file maps an id *)
(* to its location or view, and a target to the selection made last.       *)
(***************************************************************************)
EXTENDS Naturals, Sequences, FiniteSets, SequencesExt

CONSTANTS
    Processes,     \* instances of the application
    Canonical,     \* canonicalize: a path as given -> the folder it is
    Names,         \* names as typed
    Trim,          \* trim: Names -> names, Blank for nothing left
    Blank,
    Targets,       \* {gameVersion, defType} pairs of form views
    Project,       \* the id of the project whose stores are modelled
    Ids,           \* the ids that files bring along, Project among them
    GameVersions, InstalledVersions, Locales, FallbackLocale,
    InitialSettings, InitialViews, ForeignViews,  \* contents of files
    Absent, Garbage, Partial,    \* no file, not JSON, half written
    None, Keep,
    MaxCommands, MaxFaults  \* bounds

Stores == {"settings", "views", "templates"}

Selections == {"default", "schema"}

CurrentVersion == 1

VARIABLES
    disk,      \* store -> content of its file
    tmp,       \* store -> content of its temporary file
    backups,   \* the .bak files of the views: sequence of contents
    folders,   \* the folders that exist
    op,        \* process -> the command it is executing
    applied,   \* process -> settings the watchers and the generation are for
    commands, faults

vars == <<disk, tmp, backups, folders, op, applied, commands, faults>>

Stage(pc, store, new, reindex) ==
    [pc |-> pc, store |-> store, new |-> new, reindex |-> reindex, backup |-> 0]

Idle == Stage("idle", "views", Absent, FALSE)

At(p, pc) == op[p].pc = pc

-----------------------------------------------------------------------------
(* settings_store.rs *)

With(f, x, value) == [y \in DOMAIN f \cup {x} |-> IF y = x THEN value ELSE f[y]]

Without(f, x) == [y \in DOMAIN f \ {x} |-> f[y]]

DefaultSettings ==
    [version |-> 4, gameVersion |-> "1.6", locale |-> FallbackLocale, backups |-> FALSE,
     locations |-> [id \in {} |-> None], active |-> None]

Or(value, default) == IF value = None THEN default ELSE value

ResolveLocale(locale) == IF locale \in Locales THEN locale ELSE FallbackLocale

MigrateLocation(l) ==
    IF l.sourceType = "expansion" THEN [l EXCEPT !.sourceType = "Folder"] ELSE l

\* A field the file does not have is None.
MigrateSettingsJson(raw) ==
    [version |-> IF raw.version < 4 THEN 4 ELSE raw.version,
     gameVersion |-> Or(raw.gameVersion, "1.6"),
     locale |-> ResolveLocale(raw.locale),
     backups |-> Or(raw.backups, FALSE),
     locations |-> [id \in DOMAIN raw.locations |-> MigrateLocation(raw.locations[id])],
     active |-> raw.active]

SettingsReadable == disk["settings"] # Garbage

LoadSettings == IF disk["settings"] = Absent THEN DefaultSettings
                ELSE MigrateSettingsJson(disk["settings"])

-----------------------------------------------------------------------------
(* Commands: what each makes of the content it reads. An error or a command *)
(* that changes nothing leaves no trace and is no step.                     *)

Begin(p, store, new, reindex) ==
    /\ At(p, "idle")
    /\ commands < MaxCommands
    /\ commands' = commands + 1
    /\ op' = [op EXCEPT ![p] = Stage("open", store, new, reindex)]
    /\ UNCHANGED <<disk, tmp, backups, folders, applied, faults>>

SaveSettings(p, new, reindex) == Begin(p, "settings", new, reindex)

IdsOf(s) == DOMAIN s.locations

ProjectIds(s) == {id \in IdsOf(s) : s.locations[id].kind = "Project"}

HasDuplicatePath(s, folder) == \E id \in IdsOf(s) : s.locations[id].path = folder

\* The folder the project of an id is in, if there is such a project.
RootExists(s, id) ==
    id \in ProjectIds(s) /\ s.locations[id].path \in folders

DeactivateMissingActiveProject(s) ==
    IF s.active # None /\ ~RootExists(s, s.active) THEN [s EXCEPT !.active = None] ELSE s

NewLocation(folder, kind) ==
    [path |-> folder, kind |-> kind, sourceType |-> "Folder", readOnly |-> kind = "Source"]

\* Slip: the path as given is compared, not the folder it is.
UpsertLocationGivenPath(p, path, kind) ==
    LET s == LoadSettings IN
    /\ Canonical[path] \in folders
    /\ ~HasDuplicatePath(s, path)
    /\ SaveSettings(p, [s EXCEPT !.locations =
           With(@, <<p, commands>>, NewLocation(Canonical[path], kind))], TRUE)

UpsertLocation(p, path, kind) ==
    LET s == LoadSettings
        folder == Canonical[path] IN
    /\ folder \in folders
    /\ ~HasDuplicatePath(s, folder)
    /\ SaveSettings(p, [s EXCEPT !.locations =
           With(@, <<p, commands>>, NewLocation(folder, kind))], TRUE)

RemoveLocation(p, id) ==
    LET s == LoadSettings IN
    /\ id \in IdsOf(s)
    /\ SaveSettings(p, [s EXCEPT !.locations = Without(@, id),
                                 !.active = IF @ = id THEN None ELSE @], TRUE)

SetActiveProject(p, id) ==
    /\ id # None => id \in ProjectIds(LoadSettings)
    /\ SaveSettings(p, [LoadSettings EXCEPT !.active = id], TRUE)

\* Slip: the index is not told, as for a change of the locale.
UpdateLocationQuietly(p, id, sourceType) ==
    LET s == LoadSettings IN
    /\ id \in IdsOf(s)
    /\ SaveSettings(p, [s EXCEPT !.locations =
           With(@, id, [@[id] EXCEPT !.sourceType = sourceType])], FALSE)

UpdateLocation(p, id, sourceType) ==
    LET s == LoadSettings IN
    /\ id \in IdsOf(s)
    /\ SaveSettings(p, [s EXCEPT !.locations =
           With(@, id, [@[id] EXCEPT !.sourceType = sourceType])], TRUE)

UpdateProjectGameVersion(p, version) ==
    /\ InstalledVersions = {} \/ version \in InstalledVersions
    /\ SaveSettings(p, [LoadSettings EXCEPT !.gameVersion = version], TRUE)

UpdateAppLocale(p, locale) ==
    /\ locale \in Locales
    /\ SaveSettings(p, [LoadSettings EXCEPT !.locale = locale], FALSE)

UpdateSaveBackupsEnabled(p, enabled) ==
    SaveSettings(p, [LoadSettings EXCEPT !.backups = enabled], FALSE)

GetProjectSettings(p) ==
    LET s == LoadSettings
        new == DeactivateMissingActiveProject(s) IN
    /\ new.active # s.active
    /\ SaveSettings(p, new, TRUE)

-----------------------------------------------------------------------------
(* form_views/store.rs, commands/form_views.rs *)

EmptyViews == [version |-> CurrentVersion, project |-> Project,
               views |-> [id \in {} |-> None], last |-> [target \in {} |-> None]]

\* read_store_for_mutation succeeds: read_store returns Ready.
Ready(content) ==
    /\ content \notin {Garbage, Partial}
    /\ content # Absent => content.version = CurrentVersion /\ content.project = Project

Views(content) == IF content = Absent THEN EmptyViews ELSE content

RequireWritableProject ==
    /\ SettingsReadable
    /\ Project \in ProjectIds(LoadSettings)
    /\ ~LoadSettings.locations[Project].readOnly

ReadStoreForMutation == RequireWritableProject /\ Ready(disk["views"])

\* list_custom_form_views for a target: none while the store is not readable.
ListViews(target) ==
    IF Ready(disk["views"])
    THEN LET views == Views(disk["views"]).views IN {id \in DOMAIN views : views[id].target = target}
    ELSE {}

SaveViews(p, store) == Begin(p, "views", store, FALSE)

NameConflicts(views, target, name, except) ==
    \E id \in DOMAIN views \ except : views[id].target = target /\ Trim[views[id].name] = name

\* A view as it is stored: the id is new.
CreateView(p, target, name) ==
    LET store == Views(disk["views"]) IN
    /\ ReadStoreForMutation
    /\ Trim[name] # Blank
    /\ ~NameConflicts(store.views, target, Trim[name], {})
    /\ SaveViews(p, [store EXCEPT !.views =
           With(@, <<p, commands>>, [target |-> target, name |-> Trim[name], hidden |-> FALSE])])

Updated(view, name, hidden) ==
    [target |-> view.target, name |-> IF name = Keep THEN view.name ELSE Trim[name],
     hidden |-> IF hidden = Keep THEN view.hidden ELSE hidden]

\* Slip: the view itself does not count as a conflict, nor does any other.
UpdateViewAnyName(p, id, name, hidden) ==
    LET store == Views(disk["views"]) IN
    /\ ReadStoreForMutation
    /\ id \in DOMAIN store.views
    /\ name # Keep => Trim[name] # Blank
    /\ SaveViews(p, [store EXCEPT !.views = With(@, id, Updated(@[id], name, hidden))])

UpdateView(p, id, name, hidden) ==
    LET store == Views(disk["views"]) IN
    /\ ReadStoreForMutation
    /\ id \in DOMAIN store.views
    /\ name # Keep =>
           /\ Trim[name] # Blank
           /\ ~NameConflicts(store.views, store.views[id].target, Trim[name], {id})
    /\ SaveViews(p, [store EXCEPT !.views = With(@, id, Updated(@[id], name, hidden))])

DeleteView(p, id) ==
    LET store == Views(disk["views"]) IN
    /\ ReadStoreForMutation
    /\ id \in DOMAIN store.views
    /\ SaveViews(p, [store EXCEPT !.views = Without(@, id)])

SetLastSelected(p, target, view) ==
    /\ ReadStoreForMutation
    /\ SaveViews(p, [Views(disk["views"]) EXCEPT !.last = With(@, target, view)])

\* A store that is there is set aside before it is emptied, an empty one written at once
\* when there is none.
ResetStore(p) ==
    /\ At(p, "idle")
    /\ commands < MaxCommands
    /\ RequireWritableProject
    /\ commands' = commands + 1
    /\ op' = [op EXCEPT ![p] = Stage(IF disk["views"] = Absent THEN "open" ELSE "claim",
                                     "views", Views(disk["views"]), FALSE)]
    /\ UNCHANGED <<disk, tmp, backups, folders, applied, faults>>

-----------------------------------------------------------------------------
(* def_templates/store.rs: the version of the store is not looked at *)

EmptyTemplates == [version |-> CurrentVersion, templates |-> {}]

Templates == IF disk["templates"] = Absent THEN EmptyTemplates ELSE disk["templates"]

SaveTemplate(p) ==
    /\ RequireWritableProject
    /\ disk["templates"] # Garbage
    /\ Begin(p, "templates",
             [version |-> CurrentVersion, templates |-> Templates.templates \cup {<<p, commands>>}],
             FALSE)

DeleteTemplate(p, id) ==
    /\ RequireWritableProject
    /\ disk["templates"] # Garbage
    /\ id \in Templates.templates
    /\ Begin(p, "templates", [Templates EXCEPT !.templates = @ \ {id}], FALSE)

-----------------------------------------------------------------------------
(* save_settings, write_store, reset_store_in_at: the steps on disk *)

GoTo(p, pc) == op' = [op EXCEPT ![p].pc = pc]

Done(p) == op' = [op EXCEPT ![p] = Idle]

OpenTmp(p) ==
    /\ At(p, "open")
    /\ tmp' = [tmp EXCEPT ![op[p].store] = Partial]
    /\ GoTo(p, "write")
    /\ UNCHANGED <<disk, backups, folders, applied, commands, faults>>

WriteTmp(p) ==
    /\ At(p, "write")
    /\ tmp' = [tmp EXCEPT ![op[p].store] = op[p].new]
    /\ GoTo(p, "rename")
    /\ UNCHANGED <<disk, backups, folders, applied, commands, faults>>

\* Without the temporary file the call fails and the command with it.
RenameTmp(p) ==
    LET store == op[p].store IN
    /\ At(p, "rename")
    /\ IF tmp[store] = Absent THEN Done(p) /\ UNCHANGED <<disk, tmp>>
       ELSE /\ disk' = [disk EXCEPT ![store] = tmp[store]]
            /\ tmp' = [tmp EXCEPT ![store] = Absent]
            /\ IF op[p].reindex THEN GoTo(p, "reindex") ELSE Done(p)
    /\ UNCHANGED <<backups, folders, applied, commands, faults>>

\* trigger_settings_reindex: a new generation and watchers for the new settings.
TriggerReindex(p) ==
    /\ At(p, "reindex")
    /\ applied' = [applied EXCEPT ![p] = op[p].new]
    /\ Done(p)
    /\ UNCHANGED <<disk, tmp, backups, folders, commands, faults>>

\* claim_backup_path: a new, empty file of a name nothing else has.
ClaimBackup(p) ==
    /\ At(p, "claim")
    /\ backups' = Append(backups, Partial)
    /\ op' = [op EXCEPT ![p].pc = "backup", ![p].backup = Len(backups')]
    /\ UNCHANGED <<disk, tmp, folders, applied, commands, faults>>

\* Slip: the claimed file is left for later, the original removed at once.
WriteBackupLater(p) ==
    /\ At(p, "backup")
    /\ GoTo(p, "remove")
    /\ UNCHANGED <<disk, tmp, backups, folders, applied, commands, faults>>

WriteBackup(p) ==
    /\ At(p, "backup")
    /\ backups' = [backups EXCEPT ![op[p].backup] = op[p].new]
    /\ GoTo(p, "remove")
    /\ UNCHANGED <<disk, tmp, folders, applied, commands, faults>>

\* A file that is already gone is no error; the empty store is written next.
RemoveOriginal(p) ==
    /\ At(p, "remove")
    /\ disk' = [disk EXCEPT !["views"] = Absent]
    /\ op' = [op EXCEPT ![p] = Stage("open", "views", EmptyViews, FALSE)]
    /\ UNCHANGED <<tmp, backups, folders, applied, commands, faults>>

\* Any call on the file system may fail: the command returns the error.
StepFails(p) ==
    /\ op[p].pc \in {"open", "write", "rename", "claim", "backup", "remove"}
    /\ faults < MaxFaults
    /\ faults' = faults + 1
    /\ Done(p)
    /\ UNCHANGED <<disk, tmp, backups, folders, applied, commands>>

\* What setup starts the watchers for.
StartSettings == IF SettingsReadable THEN DeactivateMissingActiveProject(LoadSettings)
                 ELSE DefaultSettings

\* The process ends and is started again.
Crash(p) ==
    /\ faults < MaxFaults
    /\ faults' = faults + 1
    /\ Done(p)
    /\ applied' = [applied EXCEPT ![p] = StartSettings]
    /\ UNCHANGED <<disk, tmp, backups, folders, commands>>

\* A folder of the collection is unmounted or comes back.
ToggleFolder(folder) ==
    /\ faults < MaxFaults
    /\ faults' = faults + 1
    /\ folders' = IF folder \in folders THEN folders \ {folder} ELSE folders \cup {folder}
    /\ UNCHANGED <<disk, tmp, backups, op, applied, commands>>

\* A user or another version of the application puts a store there.
ReplaceViews(content) ==
    /\ faults < MaxFaults
    /\ \A p \in Processes : At(p, "idle")
    /\ disk["views"] # content
    /\ faults' = faults + 1
    /\ disk' = [disk EXCEPT !["views"] = content]
    /\ UNCHANGED <<tmp, backups, folders, op, applied, commands>>

-----------------------------------------------------------------------------
PartialFunctions(S, T) == UNION {[I -> T] : I \in SUBSET S}

Locations(sourceTypes) ==
    [path : {Canonical[path] : path \in DOMAIN Canonical}, kind : {"Project", "Source"},
     sourceType : sourceTypes, readOnly : BOOLEAN]

SourceTypes == {"Folder", "LocalMod"}

\* Settings as a file of any version has them, and as this version writes them, whose
\* locations have one of the ids.
StoredSettings(ids) ==
    [version : Nat, gameVersion : GameVersions \cup {None}, locale : Locales \cup {None},
     backups : BOOLEAN \cup {None}, active : ids \cup {None},
     locations : PartialFunctions(ids, Locations(SourceTypes \cup {"expansion"}))]

CurrentSettings(ids) ==
    [version : Nat, gameVersion : GameVersions, locale : Locales, backups : BOOLEAN,
     active : ids \cup {None}, locations : PartialFunctions(ids, Locations(SourceTypes))]

\* The stores whose views have one of the ids.
ViewStores(ids) ==
    [version : Nat, project : Ids,
     views : PartialFunctions(ids, [target : Targets, name : Names, hidden : BOOLEAN]),
     last : PartialFunctions(Targets, Selections)]

TemplateStores ==
    [version : {CurrentVersion}, templates : SUBSET (Processes \X (0 .. MaxCommands))]

AllIds == Ids \cup Processes \X (0 .. MaxCommands)

\* The active project is registered, as a project, and no two locations are one folder.
Consistent(s) ==
    /\ s.active # None => s.active \in ProjectIds(s)
    /\ \A l, m \in IdsOf(s) : s.locations[l].path = s.locations[m].path => l = m

NamesDistinct(views) ==
    \A v, w \in DOMAIN views :
        views[v].target = views[w].target /\ views[v].name = views[w].name => v = w

\* What is new is none of what was there, and no file is taken for another.
ASSUME StoresAssumption ==
    /\ Project \in Ids
    /\ Ids \cap (Processes \X (0 .. MaxCommands)) = {}
    /\ MaxCommands \in Nat /\ MaxFaults \in Nat
    /\ Trim \in [Names -> Names \cup {Blank}]
    /\ \A name \in Names : Trim[name] # Blank => Trim[Trim[name]] = Trim[name]
    /\ "1.6" \in GameVersions /\ None \notin GameVersions /\ FallbackLocale \in Locales
    /\ InitialViews \cup ForeignViews \subseteq {Absent, Garbage} \cup ViewStores(Ids)
    /\ InitialSettings \subseteq {Absent, Garbage} \cup StoredSettings(Ids)
    /\ \A s \in InitialSettings \ {Absent, Garbage} : Consistent(MigrateSettingsJson(s))
    /\ Absent # Garbage
    /\ Partial \notin {Absent, Garbage} \cup ViewStores(AllIds)
    /\ Partial \notin StoredSettings(AllIds) /\ Partial \notin TemplateStores
    /\ {Absent, Garbage} \cap (ViewStores(AllIds) \cup CurrentSettings(AllIds)) = {}

\* A store the application did not write names the views of a target apart too.
ASSUME FilesNamed ==
    \A store \in InitialViews \cup ForeignViews :
        Ready(store) => NamesDistinct(Views(store).views)

-----------------------------------------------------------------------------
Init ==
    /\ disk \in {[s \in Stores |-> CASE s = "settings" -> settings
                                     [] s = "views" -> views
                                     [] OTHER -> Absent] :
                    settings \in InitialSettings, views \in InitialViews}
    /\ tmp = [s \in Stores |-> Absent]
    /\ backups = <<>>
    /\ folders = {Canonical[path] : path \in DOMAIN Canonical}
    /\ op = [p \in Processes |-> Idle]
    /\ applied = [p \in Processes |-> StartSettings]
    /\ commands = 0
    /\ faults = 0

\* Each loads the settings first, and fails when it cannot.
SettingsCommand(p) ==
    /\ SettingsReadable
    /\ \/ \E path \in DOMAIN Canonical, kind \in {"Project", "Source"} :
              UpsertLocation(p, path, kind)
       \/ \E id \in IdsOf(LoadSettings) : \/ RemoveLocation(p, id)
                                          \/ UpdateLocation(p, id, "LocalMod")
       \/ \E id \in IdsOf(LoadSettings) \cup {None} : SetActiveProject(p, id)
       \/ \E version \in GameVersions : UpdateProjectGameVersion(p, version)
       \/ \E locale \in Locales : UpdateAppLocale(p, locale)
       \/ UpdateSaveBackupsEnabled(p, TRUE)
       \/ GetProjectSettings(p)

ViewsCommand(p) ==
    \/ \E target \in Targets, name \in Names : CreateView(p, target, name)
    \/ Ready(disk["views"]) /\
           \/ \E id \in DOMAIN Views(disk["views"]).views, name \in Names \cup {Keep},
                 hidden \in {TRUE, Keep} : UpdateView(p, id, name, hidden)
           \/ \E id \in DOMAIN Views(disk["views"]).views : DeleteView(p, id)
    \/ \E target \in Targets, view \in Selections : SetLastSelected(p, target, view)
    \/ ResetStore(p)

TemplatesCommand(p) ==
    \/ SaveTemplate(p)
    \/ \E id \in Templates.templates : DeleteTemplate(p, id)

Steps(p) ==
    \/ OpenTmp(p) \/ WriteTmp(p) \/ RenameTmp(p) \/ TriggerReindex(p)
    \/ ClaimBackup(p) \/ WriteBackup(p) \/ RemoveOriginal(p)

Next ==
    \/ \E p \in Processes : \/ SettingsCommand(p) \/ ViewsCommand(p) \/ TemplatesCommand(p)
                            \/ Steps(p) \/ StepFails(p) \/ Crash(p)
    \/ \E path \in DOMAIN Canonical : ToggleFolder(Canonical[path])
    \/ \E content \in ForeignViews : ReplaceViews(content)

Spec == Init /\ [][Next]_vars

-----------------------------------------------------------------------------
(* Properties *)

\* Every file holds nothing or a whole content; a command is at a known step.
StoresTypeOK ==
    /\ \A s \in Stores : disk[s] # Partial
    /\ \A p \in Processes : op[p].pc \in {"idle", "open", "write", "rename", "reindex",
                                          "claim", "backup", "remove"}
    /\ commands \in 0 .. MaxCommands /\ faults \in 0 .. MaxFaults

\* The settings stay consistent, whatever is added under several spellings, removed
\* while active or cut short (services/project_settings.rs).
LocationsConsistent == SettingsReadable => Consistent(LoadSettings)

\* One process has told the watchers and the index of these settings; a project whose
\* folder was missing at the start is inactive there.
Agrees(known, s) ==
    /\ known.locations = s.locations
    /\ known.gameVersion = s.gameVersion
    /\ known.active \in {s.active, None}

\* What the index is built from is what the settings file says, once no command runs:
\* also after an error or a crash between the two.
IndexKnowsSettings ==
    \A p \in Processes : At(p, "idle") /\ SettingsReadable => Agrees(applied[p], LoadSettings)

\* Among the views listed for a target the names are distinct.
ViewsDistinct ==
    \A target \in Targets : \A v, w \in ListViews(target) :
        Views(disk["views"]).views[v].name = Views(disk["views"]).views[w].name => v = w

\* What the files hold is well formed, whatever was cut short or foreign.
StoresSound == StoresTypeOK /\ ViewsDistinct

\* One command made the second store of the first: a view is added, deleted or changed
\* without moving to another target, or one target's last selection is.
ViewsEffect(old, new) ==
    /\ Ready(old) /\ new # Absent /\ Ready(new)
    /\ LET o == Views(old) IN
       \/ new = o
       \/ /\ new.last = o.last
          /\ \/ \E id \in DOMAIN new.views \ DOMAIN o.views : Without(new.views, id) = o.views
             \/ \E id \in DOMAIN o.views : new.views = Without(o.views, id)
             \/ \E id \in DOMAIN o.views \cap DOMAIN new.views :
                    /\ new.views[id].target = o.views[id].target
                    /\ Without(new.views, id) = Without(o.views, id)
       \/ /\ new.views = o.views
          /\ \E target \in Targets : Without(new.last, target) = Without(o.last, target)

ViewsContract == INSTANCE StoreContract WITH
    Initial <- InitialViews,
    Foreign <- ForeignViews,
    Nothing <- Absent,
    IsEffect <- ViewsEffect,
    content <- disk["views"],
    saved <- Range(backups) \ {Partial}

\* The form views behave as a store that is changed at once, one command at a
\* time, and whose content, of whatever version, is set aside before a reset
\* empties it: no error and no crash loses a view.
ViewsKept == ViewsContract!Spec

=============================================================================
