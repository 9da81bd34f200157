# RimEdit: specifications, model checking and proofs

RimEdit is a desktop editor (Tauri: a Rust backend, a React front end) for the
XML files of RimWorld mods. This directory specifies its core in TLA+, checks
the specifications with TLC on small instances, and proves theorems about them
with TLAPS for all instances. Five things are hard to get right in it, and hard
to test:

- the **def index**, a parsed view of every XML definition of the active project
  and of the game's own files, which takes seconds to build, is cached in memory
  and on disk, is repaired from file-system events, and is read by commands that
  must not block;
- the **editor session** of the front end, whose buffer is changed by the user
  and by answers of the backend that come when they like;
- **saving**: of the user's file, which must lose nobody's text whatever fails, and
  of the files the application keeps for itself;
- the **patch preview**, which mimics the order and the effect of the game's
  patch loader on a document that its operations keep changing;
- **schema packs**, merged last writer wins from several places, and the
  **authoring of Defs** on top of them: structural edits, insertions, validation.

Source paths are relative to `src/src-tauri/src/` unless they start with `src/src/`
(the front end). Line numbers are in the `map` of `PROJECT.json`.

Contents: [1 Inventory](#1-inventory) · [2 The modules](#2-the-modules) ·
[3 What the runs check](#3-what-the-runs-check) · [4 What is proved](#4-what-is-proved) ·
[5 Disagreements](#5-disagreements) · [6 What is left out, and the plan](#6-what-is-left-out-and-the-plan)

## 1. Inventory

| Component | State it keeps | Operations | What makes it correct |
|---|---|---|---|
| **Def-index slot** `def_index/state.rs` | one mutex around one entry (index, project, settings fingerprint, file fingerprints, `verified`), a generation counter, the published status | `store`, `store_if_generation_matches`, `invalidate_entry_if_unchanged`, `confirm_cache_verified`, `increment_generation`, `set_status_*` | a verified entry is fresh; only a scan that was right about it removes it |
| **Indexing worker** `services/indexing/jobs.rs` | job channel, debouncer, single-flight set, the job being executed | `run_worker`, `coalesce_batch`, `execute_full_rebuild`, `execute_verify_cache`, `execute_file_jobs`, `enqueue_*`, retry tasks | every change of disk or settings is indexed in the end; a superseded job writes nothing; bounded retries |
| **Initialization and loads** `services/def_index_cache.rs` | a detached thread per hydration; waiting loads | `schedule_initialization`, `run_hydration`, `load_for_project`, `wait_for_in_flight_job`, `persist_incremental` | one hydration per scope, which yields to a rebuild; no wake-up is lost |
| **Disk cache, fingerprints** `def_index/{cache,cache_v3,fingerprint}.rs` | the cache file | `write_cache`, `load_cached_index_unverified`, `file_fingerprints` | it holds the index of the fingerprints it names, and reads back as it was written |
| **Watcher, debouncer** `services/indexing/{watchers,debounce}.rs` | watches per location, one pending event per path | `handle_fs_event`, `record`, `drain` | no edit is left out of the index for good |
| **Def-index builder, queries** `def_index/{builder,model,overlay,query}.rs` | the index | `build_def_index`, `apply_file_change`, `remove_*`, look-ups, suggestions, overlay of an unsaved text | an update file by file gives what a build gives; tables point at the defs they are of |
| **Load folders** `rimworld_load_folders.rs` | none | `LoadFolders.xml` and the version fallback | the files the game would load |
| **Settings, views, templates** `settings_store.rs`, `services/project_settings.rs`, `form_views/`, `def_templates/` | three JSON files, backups | read with migration, change, atomic replace; reindex | a file is whole, no location twice, the index knows the settings, a reset keeps a backup |
| **File save** `project_save.rs`, `commands/xml_save.rs` | the file, its backup, a token secret | preview (issues a token), save (checks it), backup, replace | a failed save changes nothing; what is replaced can be recovered |
| **Editor session** `src/src/features/xml-editor/hooks/` | history, baseline, a dozen refs | typing, form edits, undo, insert, preview, save | an answer for an older text changes nothing; what is saved is what the dialog shows |
| **Patches** `patches/`, `services/patch_preview/` | none between calls | parse, write, index, link, apply, inheritance, preview | the effect of the game's loader, and a truthful account of it |
| **Schema packs** `schema_pack/` | an LRU of merged catalogs | load, filter, sort, merge, views, sidecars, look-ups, signature | the catalog is of the packs on disk and of nothing but their order |
| **XML documents, Def authoring** `xml_document/`, `services/{xml_editor,validation}.rs`, `commands/{create_def,def_templates}.rs` | an arena per call | parse, edit, serialize, validate, create, copy | an edit changes what it names; what is reported is so |
| **File tree, patch-index cache, previews of graphics, workspace and status polling, interface, instrumentation** | see `PROJECT.json` | | not modelled, see section 6 |

How they interact. The **main thread** runs synchronous commands one at a time:
a settings command replaces `settings.json`, bumps the generation, restarts the
watchers and enqueues a full rebuild. The **worker** is one tokio task: it drains
the job channel and the debouncer, drops the jobs of an older generation, and
runs the rest one after the other. An **initialization** (start, a project
opened, a query that finds nothing) claims a single-flight key and starts a
detached **thread** that reads the disk cache, puts it into the slot unverified
and asks for its verification; on a miss it asks for a rebuild. A verification
that cannot scan spawns a **retry task**. A **RequireFresh load** (save preview,
validation, creation of a Def) waits for the running job, or scans, builds and
stores on its own. They share the slot's mutex, held for single operations only;
everything between two of these is open to interleaving, and the generation and
the fingerprints are what the code uses to notice.

The **front end** is one JavaScript thread: a callback runs to its next `await`,
and between two of them the user types, undoes or clicks. A **save** reads the
slot, the settings and the file one after the other, and writes the backup and
the file one after the other, with no lock over any two of these. Previews,
catalog requests and insertions are one call each, on data others may change
before and after it. Each model sees the others from outside: the indexing model has a
save as `SaveFile`; the session model has the backend as answers and the file; the
save model has the slot as something that others change; the model of authoring has
the index as a function of the files it was built from.

`PROJECT.json` lists the hazards one by one, each at its line, with the property
that watches it or the reason why none does.

## 2. The modules

| Part | Modules, each extending the one before | Checked by | Theorems in |
|---|---|---|---|
| Indexing | `DefIndexState`, `IndexingService` | `MCIndexingService` | `IndexingService_proofs` |
| Events | `LoadFolders`, `DefQueries`, `DefIndex`, `EventPipeline` | `MCEventPipeline` | `EventPipeline_proofs`, `IndexedAsOnDisk_proofs`, over `SequenceFolds` |
| Session | `XmlEditorSession` | `MCXmlEditorSession` | `XmlEditorSession_proofs` |
| Save | `SaveProtocol` | `MCSaveProtocol` | `SaveProtocol_proofs` |
| Stores | `AppStores`, implementing `StoreContract` | `MCAppStores` | `AppStores_proofs` |
| Patches | `PatchDom`, `PatchFile`, `PatchApply` and `PatchInheritance`, `PatchPreview` | `MCPatchPreview` | |
| Schemas | `SchemaPacks` and `SchemaLookup`, `SchemaMerge`, `SchemaViews`; `CatalogCache`; both in `SchemaCatalog` | `MCSchemaCatalog` | `CatalogCache_proofs` |
| Authoring | `SchemaLookup`, `FieldValidation`, `DefValidation`; `XmlTree`, `XmlEdit`; `DefCreation`, `DefAuthoring` | `MCDefAuthoring` | |

The `MC*` modules name model values and small worlds for TLC and replace no definition.
Definitions marked *Slip* are plausible bugs; no specification uses one. Each can
take the place of one definition (`mutants` in `PROJECT.json`), to show that the
property of a run notices it.

### Indexing

**`DefIndexState`** is the slot: `entry`, `generation`, `status`, and one operator
per method, that is, per critical section. A check (`MayHydrate`) and the write it
protects (`StoreHydrated`) are two operators that a caller uses in one step,
because the code holds the mutex across both. **`IndexingService`** is everything
that uses it:

| Process | State | Code | Actions |
|---|---|---|---|
| the worker | `worker` (the job, and its position) | `run_worker` and the job executors | `Worker*`, `Verify*`, `Rebuild*`, `Files*` |
| initializations | `init[i]` | `schedule_initialization`, `run_hydration` | `Init*`, `Hydrate*` |
| loads | `reader[r]` | `load_for_project`, `wait_for_in_flight_job` | `Reader*` |
| main thread | `main`, `settings` | the settings commands, a query that misses | `SaveSettings`, `RestartForSettings`, `EnqueueReindex`, `Query*` |
| retry tasks | `retries` | `handle_verify_scan_failure` | `VerifyRetry` |
| users and other programs | `disk`, `fsEvent` | `save_project_xml_file`, `rename_project_path_cmd`, `handle_fs_event` | `SaveFile`, `RenameFolder`, `ExternalEdit` |
| the process itself | | `setup` in `lib.rs` | `Init`, `Restart` |

An action is what a process does between two points where another can be
observed: a critical section, or one read or write of a file. `worker.pc` names
the point inside the job. Locals that are used after such a point are fields of
the process; that is what makes a stale one possible in the model. Abstractions:

- The collection is one number, `disk`, raised by every edit. An index is the number
  it was built from; a list of file fingerprints is the scope that was scanned with
  the number found there. Which files an update misses is the subject of
  `EventPipeline`.
- A settings fingerprint is the project and the part of the settings it hashes (`Revs`).
- A pending watcher event names all the files that differ. A membership event of
  the Workshop folder takes it along: the rebuild it starts reads the same files.
- Statuses keep the fields that code reads back, not the counters and messages shown.
- A fault (`MaxFaults`) is a settings read, a scan, a cache write or a thread spawn
  that returns an error. Once there was one, reads of a verification may fail again
  without counting (`ScanFault`), as when a Workshop item does not come back: what ends the
  retries is their counter, not the bound. `Restart` loses memory and channels and keeps `settings`,
  `disk` and `cache`.

### Events

**`LoadFolders`** is which Def files the game would load from a location;
**`DefIndex`** is the index as a data structure (build, change of a file, removals,
overlay, disk form); **`DefQueries`** is what is asked of it. **`EventPipeline`** puts
them into the pipeline, file by file:

| State | Code | Actions |
|---|---|---|
| `disk`, `loadFolders`, `away` | the files of all locations | `Write`, `Delete`, `MoveFolderOut`, `MoveFolderIn`, `WriteLoadFolders`, `RemoveLoadFolders` (other programs), `Save`, `DeleteFile`, `DeleteFolder` (the project commands) |
| `active`, `generation` | the settings, the slot's generation | `SetActiveProject` |
| `watcherQueue`, `jobQueue` | `handle_fs_event`'s and the commands' channels | `ReceiveEvents`, `ReceiveJobs`, through `Coalesce` |
| `pending` | `Debouncer` | `Record`, `DrainReady(n)` |
| `worker`, `published` | `execute_file_jobs`, `execute_full_rebuild`, the slot | `FilesApply`, `FilesPublish`, `RebuildScan`, `RebuildRead`, `RebuildPublish` |

Jobs left by `Coalesce` are a set, applied in any order: the code keeps them in hash
maps. `lost` is a history variable, the files whose last change the code is known
not to apply, each with its reason where it is added: a file that becomes active or
inactive without an event of its own, a change dropped because a deletion of the path is
pending, one applied while an older deletion still waits in the channel, a deleted
`LoadFolders.xml`, and a changed one while a deletion that it overtakes is on its way. A
full rebuild that starts finds every file again (`Lose`), but for those whose deletion is
still on its way and will be applied after it. Abstractions: one location
holds the active project and only it has load folders; a deadline is the order in which
events were recorded; a text is a value of which `Document` says what parsing gives.

### Session

**`XmlEditorSession`** is one tab's session, from the load of the file on.

| State | Code | Actions |
|---|---|---|
| `history`, `latest`, `preTyping`, `debounce`, `parses` | `HistoryState`, `latestRawXmlRef`, `preTypingSnapshotRef`, the timer | `UpdateRawXml`, `DebounceExpires`, `BufferParsed`, `Undo`, `Redo` |
| `mode`, `switching`, `about` | `mode`, the wait of `switchMode` for the drafts, the profile | `RequestRaw`, `SwitchToRaw`, `SwitchToForm` |
| `formEdits` | the promise chain of `pendingFormEditRef` | `QueueFormEdit`, `SendFormEdit`, `FormEditApplied`, `FormEditFails` |
| `insertion` | `insertDefFromTemplate` and its two siblings | `RequestInsert`, `InsertDefFromTemplate`, `SendInsert`, `DefInserted`, `InsertFails` |
| `preview`, `saveBusy`, `request` | `savePreview`, `savePreviewXmlRef`, calls under way | `ClickPreview`, `RequestSavePreview`, `InvokePreview`, `LoadFullSavePreview`, `PreviewAnswered`, `PreviewReturns`, `PreviewFails`, `ClearSavePreview` |
| `base`, `save`, `disk`, `lastWrite`, `lastAnswer` | `baseRawXml`, the calls of `confirmSave`, the file; history: which call wrote it last, which was answered last | `ConfirmSave`, `FileWritten`, `SaveFails`, `SaveReturns`, `SavedTextParsed`, `SavedParseFails` |

An action is what a callback does up to its next `await`. A promise that has settled
runs its continuation before the browser handles another event, so `Next` takes a
step of `Continues` first whenever one is `Ready`; only calls to the backend and the
timer can be overtaken. Abstractions: a text is the set of the user's edits it
contains and the kind of its line ends, because the code compares texts and converts
line ends in between; an answer is two steps where the state of the file matters;
the form is a queue of commits; the validation refresh, selection, diagnostics,
read-only and patch documents are left out.

### Save

**`SaveProtocol`** is the backend's side: any number of calls of
`preview_project_xml_save` and `save_project_xml_file` for one file.

| State | Code | Actions |
|---|---|---|
| `preview[p]` | locals of the preview, then the `SavePreview` with its token | `PreviewStart`, `PreviewLoad`, `PreviewValidate`, `PreviewToken`, `PreviewFails` |
| `save[s]` | locals of the save | `SaveStart`, `SaveFingerprints`, `SaveCheckToken` (fast path), `SaveLoad`, `SaveValidate`, `SaveRejected` (slow path) |
| `file`, `backup`, `legacy`, `unsynced` | the file, `backups/<project>/<path>`, backups under older names, which of the two was renamed before it was synced | `StageBackup`, `SyncTemp`, `PersistBackup`, `PruneLegacyBackups`, `WriteTemp`, `PersistFile`, `WriteFails` |
| `slot`, `settings`, `others`, `moved` | the index slot, `settings.json`, the other files; history: previews under which the slot was replaced | `IndexStored`, `IndexHydrated`, `IndexInvalidated`, `ChangeSettings`, `ExternalEdit` |
| all | | `Crash` |

Every read of shared state, every sync and every rename is a step of its own, and calls
overlap at each of them: the dialog's disabled button does not keep two saves apart (section
5). A copy of the file carries its text and which writing of the file it is, so that equal
texts of different saves are told apart. The temporary file of a call is the field `temp`:
written, then synced. `Crash` is the end of the process or of the machine: what has been
renamed without a sync may come back half written (`Surviving`); a renaming itself is taken
to last. Abstractions: a hash is the text it is of, a token the values it hashes; the slot is
changed as `IndexingService` changes it and more freely; whether validation accepts a text is
left open, so both outcomes are checked everywhere.

### Stores

**`AppStores`** is `settings.json`, a project's form views and its Def templates, in the
steps all commands have in common: the command reads the file, with its migrations, and
computes the new content; then `OpenTmp`, `WriteTmp`, `RenameTmp`, `TriggerReindex`; or, for
a reset, `ClaimBackup`, `WriteBackup`,
`RemoveOriginal` before an empty store is written. `StepFails` and `Crash` may take the
place of any step, `ToggleFolder` lets a location's folder come and go, and
`ReplaceViews` puts a foreign file in place. `applied` is what watchers and generation
were last told. **`StoreContract`** is what a store promises: its content is replaced at
once by the effect of one command, and is emptied only after it was set aside. The form
views refine it, with a backup's content as what is set aside.

### Patches

**`PatchDom`** is the throwaway tree of the preview, a sequence of nodes whose identity is
their position, since the code selects all matches of an operation before it mutates
the first. **`PatchFile`** parses, writes, indexes and links a patch file;
**`PatchApply`** is the engine with its trace, all thirteen operations and the containers;
**`PatchInheritance`** registers and resolves parents. **`PatchPreview`** is
`compute_def_preview`, cut after every top-level operation (`Open`, `List`, `ApplyNext`,
`Show`, `Close`) so that properties see each intermediate document. XPath is the
library's, modelled for the steps and predicates patches use.

### Schemas

**`SchemaPacks`** reads a pack (manifest, directories, files, sidecars) with the
diagnostics of each refusal; **`SchemaMerge`** is which packs take part, their order, and
the merging of Def types, object types and patch operations; **`SchemaViews`** resolves
form views along inheritance and applies the sidecars; **`SchemaLookup`** walks the merged
types. A display text is the record of who wrote it, and the pack on record as its owner
is kept apart, which is what the ownership rules are about. **`CatalogCache`** is the
cache: a request signs the roots one by one (`SignRoot`), hits or misses, loads root by root
(`LoadExternalPacks`), builds and answers, while packs are edited and settings change. What
loading and merging do is a constant operator there (`LoadPacks`, `RootMissing`,
`BuildCatalog`), so that the cache can be proved about without their recursion;
**`SchemaCatalog`** puts the two together, `schemas.cfg` giving the constants their values.

### Authoring

**`XmlTree`** is what a Def file parses to; **`XmlEdit`** the arena with all 23 edit
operations, batches, and the serializer that copies clean subtrees from the text they were
parsed from. **`FieldValidation`** and **`DefValidation`** are the validation against types
and index, as a walk over jobs in place of the recursion. **`DefCreation`** makes a Def from
a pack template, a saved one, or another Def, and inserts it by the closing tag.
**`DefAuthoring`** puts them around one buffer: `Edit`; `Begin`, `CheckIndex`, `Finish` of an
insertion that waits for a fresh index; templates; and what others do (`ChangeFile`,
`Publish`, `SaveBuffer`). Each module's head names what it abstracts.

## 3. What the runs check

| Run | Question | Instance | States |
|---|---|---|---|
| `indexing_safety` | Is the verified index the one on disk, is none left unverified or lost? | 2 projects, 1 settings change, 1 initialization, 2 edits | 1 166 914 |
| `indexing_faults` | Does everything come to rest, is no wake-up lost, is the key sound? | 1 project, 1 initialization, 1 load, 1 settings change, 1 fault that may last, 1 restart | 511 066 |
| `indexing_liveness` | Is the last settings change always indexed? | 1 project, 2 revisions, 2 settings changes, 1 edit, a forced rebuild | 220 496 |
| `events` | Does each file of the index say what a rebuild would say? | 2 projects, 4 files in 3 starting collections, 2 changes, 1 project switch | 109 767 |
| `session` | Does an answer ever do harm? | 2 edits, 2 previews, 2 saves, LF and mixed line ends | 1 032 009 |
| `save` | Is anything lost or half written, whatever fails? | 1 preview, 2 overlapping saves, 2 texts, 2 game versions, 2 events | 3 504 308 |
| `stores` | Are the application's own files whole, consistent and never emptied? | 3 commands, 1 fault, 3 starting settings, foreign stores | 352 790 |
| `patches` | Does the preview do what it reports, to the right Def? | 2 worlds, every pairing of files from 25 operations, 2 orders, 3 disablings | 11 043 |
| `schemas` | Is the catalog a function of the packs, and is each rule of the merge kept? | 5 families of worlds, up to 3 packs, 2 cache entries | 41 054 |
| `authoring` | Is what is written what was meant, and what is reported so? | 5 buffers, every operation in every place, 2 steps | 17 063 |
| `session_after_save` | Does a newer edit survive a save? | 2 edits, 1 preview, 1 save | violated |
| `edits_prune_def` | Does pruning stop at the Def? | as `authoring` | violated |

The properties. Those of the *indexing* runs:

- **QuiescentFresh**: a verified entry is *known-fresh*. While an event or a job is
  pending the index may lag; once nothing is, the verified index of the active project
  is the one on disk.
- **QuiescentVerified**: an entry hydrated from the cache is never stranded unverified.
- **VerifiedKept** (action): a verified entry is removed only by a scan that found a
  difference in its own files, a change of settings or after a failure, and nothing
  unverified takes its place in its scope.
- **SingleFlight**: `in_flight_init` is exactly the keys held, none held twice. The
  run has one initialization, its key claimed, leaked or taken by a fault or a restart; the
  theorem has any number.
- **NoLostWakeup**: a load that waits while the entry it wants is present still has an
  announcement to come.
- **Settles**: whatever fails, and however long, all processes come to rest: a verification
  that always fails is given up after its last attempt, and a verification and the rebuild
  it asks for do not chase each other.
- **Converges**: after a settings change the active project gets a verified, fresh
  index, for good.

*events*: **IndexedAsOnDisk**: once all is worked off, the index says of each file of the
collection that is not `lost`, so of every file once a rebuild has run with no deletion on
its way, what a full rebuild would. **NoStaleText**: whatever was
lost, a file is indexed at its content on disk or not at all. **IndexReadable**: the
by-type table finds every def, with or without an unsaved text laid over the index, and
the disk cache gives back what was written to it.

*session*: **PreviewCurrent**: the text the dialog would write is the buffer's.
**BaselineIsFile**: the baseline `dirty` compares with is the file, whenever the save answered
last is the one that wrote last, with other saves on their way or not. **AnswersKeepText**
(action): an answer leaves the visible text or puts it where undo finds it; all answers but that of the parse after a save.

*save*: **AllOrNothing**: a save that fails or is cut off has not touched the file.
**WholeFiles**: neither the file nor its backup is ever half written, by an error or by a
loss of power. **ShownIsReplaced** (action): a save that skips validation writes the text its
preview showed over the text it was compared with, unless the file was written since the token
was checked; and that text was validated against the collection the slot named at the check,
unless the slot was replaced before the token was issued. **CopyKept** (action): once there is
a recovery copy, there is one. **PreviousKept** (action): when a save replaces the file, the
backup holds what it had read, or something newer, or what an overlapping save had read when
this one put its backup in place; so a save that met no other leaves the version before
its own in the backup.

*stores*: **StoresSound**: no file half written, names of views distinct.
**LocationsConsistent**: no folder twice, the active project registered.
**IndexKnowsSettings**: whenever no command runs, the index was told of the settings in
the file. **ViewsKept** (refinement): the form views implement `StoreContract`.

*patches*: **EachMatchAlone** (action): adding, inserting, removing, replacing and renaming do at each
match what they would do were it the only one. A match inside another is not forgotten, one
inside a node that was taken out changes nothing, each match gets a value of its own, and what
was just inserted is no match. The property has the result as one recursion over the tree as
it was, the code as one mutation after the other.
**TraceFaithful**: what is reported ran, once. **ControlsConfined**: disabling is
deleting, reordering moves only what is listed. **OriginKept**: the Def shown is of the
requested file and position. **RewritingKeeps**: writing a parsed file keeps it or says so, if the file
is *customary*: one spelling per field, texts where texts are expected, no attributes but on
operations. Of other files something is lost without a word, and the property says that, too
(section 5).
**OutcomesExplained**: what reaches the Def or a template of it is listed, a conflict
happened. **InheritanceSound**: each Def merged once over its resolved parent.

*schemas*: **DiscoveryOrderImmaterial**, **OverridesMerge** (no override resets what it
leaves out), **SidecarKeepsAuthor** (a sidecar changes only its own pack's texts),
**ViewsFold** (each declaration of a view once, after its ancestors'), **LookupsAgree** (a name is
found exactly when a type or an ancestor has it; subtypes are the inverse of ancestors; the
fields offered for an object are the ones their names find, but where an alias nearer to the
object hides one, as it does in the worlds), **BadFileCostsItself** (a pack with a usable
manifest is loaded, and has exactly its first good files up to the limit, each with all it
says), **HitIsFresh** (a catalog served from the cache is what a build
would give, unless a pack is edited during the request or comes only to go again).

*authoring*: **EditsWritten** (the text says what the edited document means),
**EditsConfined** (a batch changes the fields it names), **CreatedAsAsked** (an insertion
appends one Def as asked, with an unused name), **ReportsJustified** (references, missing
fields, shapes and conflicts are reported when they are so).

### Bounds

`MaxGeneration - 1` settings changes, `MaxEdits` edits, `MaxFaults` errors,
`MaxRestarts` restarts. `MaxQueue` stops only the *outside* callers (a forced rebuild, a
query) when the channel is longer, never a job's own hand-off. `MaxVerifyAttempts` is 2
(3 in the code): one retry and one exhaustion, which is all the comparison
distinguishes; both occur in `indexing_faults`, whose one fault may last. Two
projects and one settings change are enough for every stale result the generation has to catch: before, across and after the change; a second edit is what a
batch needs to be overtaken while it repairs the first. `indexing_safety` has no loads,
restarts or faults since each of these is known to break freshness (section 5); the
theorems say exactly how far it goes with them.

In `events` one change is an event of its own and the second the one that overtakes,
covers or hides it; four files are two that shadow each other, one in a folder that
moves, one of another project. In a session the second edit is made after the first is on
its way, and the second preview overlaps the first or follows its cancellation; two saves overlap, and
their answers may change places; `mixed`
stands for `crlf` too, a text whose form differs from the buffer's once line ends are
applied. In a save `MaxEvents` bounds what others do together: two are an edit and a crash,
or a backup left by a failed save and the change after it. In `stores` three commands are one that prepares,
one that is cut short and one that meets what it left. The worlds of `patches`, `schemas`
and `authoring` are built so that each branch of the code is taken with
something at stake; the comments in the `MC*` modules say what each is for.

Runs with faults have no property about freshness, because the code knowingly keeps an
older entry when a cache write fails (`persist_incremental` returns).

Deadlock is checked where the system never stops (`patches`). In the others it stops
legitimately when the users do and the bounds are used up; that nothing stops half-way
is `Settles`.

### Fairness

`Fairness` is weak fairness of each running task: the worker and the commands run on
tokio's pool, a hydration on its own thread, a retry on a timer, a waiting load has a
30 s timeout. Users, other programs, faults and restarts are never fair. All other
runs check safety and assume no fairness. Symmetry (projects and initializations; saves
and texts) is used only in runs without liveness properties; no definition names a
member, and the action properties are invariant under the permutations.

## 4. What is proved

24 theorems are listed in `PROJECT.json`. They hold for all values of the constants that
satisfy the named assumptions: any number of projects, processes, files, edits, faults
and restarts.

### The indexing service

`IndexingService_proofs`, from `ProjectsAssumption` (no project is called `None`), `BoundsAssumption` and
`NoneAssumption` (`None` is no list of fingerprints and no entry).

- **`TypeCorrect`**. `TypeOK` alone is not inductive: steps read fields of the settings a
  job loaded, which before the load are `None`. `SettingsLoaded` adds where in each
  process they are there. **`SingleFlightHolds`** is inductive with it: only `InitClaim`
  enters a holding position and requires the key to be absent.
- **`VerifiedAlwaysKept`**. The action property follows from `KeptInv`: the entry is of
  the project of its fingerprint (`EntryScope`); a batch of files publishes under the
  active project (`FilesActive`); no list of fingerprints is newer than the disk
  (`ListsDated`), which is why a list that differs from a scan still does later; a
  verification is of the scope it names (`JobsScoped`); and, the core, `Judged`: between
  its scan and its verdict the worker has the settings of its generation, and a verdict
  against the entry rests on a difference that is still there.
- **`WakeupsNeverLost`**. `Woken`: whoever waits for an index that is there is told by the
  rebuild under way or one announced. It needs `StaleAnnounced`: when a settings change
  overtakes a job, the change's own rebuild is announced.
- **`HydrationsAlwaysVerified`**: `Spec => [](faults = 0 => QuiescentVerified)`, across
  restarts and with any loads. `Attended` names who owes the verification of an unverified
  entry: an announced or running rebuild, a verification that no coalescing drops, a
  hydration that still has to ask for one, or the worker judging this very entry.
- **`VerifiedAlwaysFresh`**. `FreshCover` names who still replaces an index that is not
  the one on disk; `Seen` says that an edit the worker has not read is still to be
  reported, and `VersionsDated` that no index is newer than the disk.

The hypotheses of the last three are the cases in which the code does not deliver
(section 5): `[]ProjectActive` and `[]LoadsApart`; `faults = 0`; and `[]Undisturbed`. Each
was found by the proof failing without it, and TLC gives a counterexample there. All are
satisfiable: every state of `indexing_safety` satisfies `faults = 0` and `Undisturbed`, and
an application with an active project and one load at a time those of the first.

### The event pipeline

`EventPipeline_proofs` and `IndexedAsOnDisk_proofs`, from `EventsAssumption`: locations are
registered once, files are listed once and are neither directories nor the
`LoadFolders.xml`, and a text that can be read has some number of diagnostics and
summaries. Any locations, files, folders, texts, load folders and version parsers.

- **`TextNeverStale`**: `Spec => []NoStaleText`. The property is about rest, the invariant
  about everything before it. `TextInv`: `FilesSettled`, for each file the pipeline
  still *owes* something (an event of it waits, is pending, or is a job of this
  generation) or it is *settled*: the index the worker publishes next, or the slot when it
  is idle, says of the file what is on disk, or nothing. What is lost on the way matters
  only in that it leaves nothing, which is how coalescing in an arbitrary order is harmless
  to this property. `Rebuilding`: a rebuild visits each file once, so its index says nothing of those to
  come. `Superseded`: a job that will be thrown away is followed by a rebuild.
  `EventShapes` is the type invariant.
- **`IndexAlwaysReadable`**: `Spec => []IndexReadable`. `Readable`: what is published is its
  own `RebuildComputedFields`, with fingerprints of files. The lemma `CacheKeeps` is the
  disk form: each def's source is in the table of sources, each path in the fingerprints
  or, failing that, in the overflow, so no record is dropped and each reads back as it
  was.

- **`IndexAlwaysAsOnDisk`**: `Spec => []IndexedAsOnDisk`. `TextInv` is satisfied with any event
  on its way; `DiskInv` adds which is the last. A file the game would load is
  `ToBeIndexed`: what is queued last about it is a change, or nothing queued takes it away and
  the worker has its text or will read it. Any other file is `ToBeForgotten`, for which every event
  will do, since handling one removes the file. `FoldersHeard`: no deletion of the
  `LoadFolders.xml` is on its way that could swallow a change of it, which stands for every
  file of the project. The invariant was checked with TLC first. Even so the proof found the
  property false of an earlier `lost`, after six changes, more than the run makes: a load-folders change
  hides a folder, the folder is moved out, a file of it is written, the folder is deleted,
  moved in again, and a second load-folders change makes it active; the rebuild indexes the file,
  and the deletion still queued in the job channel removes it. TLC confirmed the history on
  an instance made for it. It is the last of the reasons for `lost` (section 2).

The lemma `BuildRecords` is what all three rest on, that a full build says of each file of the
scan what an index of its own would, and nothing of others; `RemoveFileRecords`,
`RemoveFolderRecords`, `AddFileRecords` and `ChangedRecords` are the same of the single
operations.

All of these are loops, in the model `FoldLeft`. **`SequenceFolds`** has the laws that make
them provable: `FoldLaws` (one more element is one more step) for a loop body `op` that is a
constant of the module, so that each use instantiates it; and `SequenceInduction`, stated with
a *set* of sequences in the place of a predicate, since the provers cannot instantiate an
operator parameter. Both come from the well-foundedness of `<` on `Nat` through the least
member of a set of numbers. `Retain` (`Vec::retain`) is a fold in `DefIndex` for the same
reason: `SelectSeq` is defined by a local recursion that cannot be unfolded.

### The editor session

`XmlEditorSession_proofs`, from `SessionAssumption`, for any number of edits,
previews and saves, all from `SessionInv`.

- **`SessionTypeCorrect`**, **`PreviewAlwaysCurrent`**. `RequestCarries`: a call under way
  carries a text and, if it is not a full diff, the flushed buffer with the file's line
  ends. A first preview is shown only when the buffer is still that text, a full one only
  in the place of a preview of the same text; every step that changes `latest` clears it.
- **`AnswersAlwaysKeepText`**: one lemma per kind of answer (a debounced parse, a form
  edit, an insertion) shows that the visible text stays or is what undo leads to.
- **`BaselineFollowsFile`**, for any number of overlapping saves: the file holds what the save
  that wrote it last proposed, and `base` what the save answered last proposed. The hypothesis
  that these are one save is the property's own; when they are not, the baseline is wrong
  (section 5).

### The save protocol

`SaveProtocol_proofs`, from `SaveAssumption` and `NoneAssumption`, for any number of previews,
saves, texts, edits, errors and crashes, whatever overlaps, all from `ProtocolInv`.

- **`SaveTypeCorrect`**, **`FailedSavesWroteNothing`** rest on `SaveCarries`: a call under way
  has its text, its settings and, while it writes, the copy it read, and only a finished call
  has written.
- **`FilesAlwaysWhole`** rests on `DiskInv` and `SaveCarries`: whoever is about to rename has synced, so nothing
  is ever `unsynced` and a loss of power finds nothing to take. It is the order of the steps
  that carries it: with `StageBackupOnly`, which renames without the sync, it fails.
- **`ShownAlwaysReplaced`**: `ShownInv`, the preview of a call under way is done and no longer
  changes, and what the file held when the token was checked is what the preview compared with;
  `ReadInv`, a file that is not that copy any more is a later writing; `HeldInv`, the slot, and
  then the token, name the collection the preview validated against, or it is in `moved`.
- **`RecoveryCopyKept`**: `CopyInv`, there is a backup when older ones are pruned.
- **`PreviousVersionKept`**: `BackedUp`, from the renaming of its backup on, a save finds there a
  copy it `Covers`: what it had read, or something newer, or what a *rival* had read, a save that
  was between reading and renaming when this one renamed. It holds because every save that can
  still rename a backup is a rival or has read no earlier copy.

### The stores

`AppStores_proofs`, from `StoresAssumption`, for one process (`Processes = {p}`), any number
of commands, faults, crashes, folders and foreign stores.

- **`ViewsAlwaysKept`**, the refinement, step by step: `StoreInv` maps each step to a step
  of `StoreContract` or to a stutter. `Writing` says what a command under way will put
  in place, `Resetting` that the content is in a backup before the file is removed.
- **`LocationsAlwaysConsistent`**, **`IndexAlwaysKnowsSettings`**, from `SettingsInv`:
  what a command is about to write is consistent and differs from the file only in what it
  will tell (`SavingSettings`, `Telling`), and when none runs the index was told
  (`Informed`).
- **`StoresAlwaysSound`**, from `SoundInv` and `FilesNamed` (the stores others put there
  have distinct names per target, as the application writes them).

### The catalog cache

`CatalogCache_proofs`, from `WorldsAssumption` (every directory below a root has editions,
and there are settings to start with), for any packs, roots, settings, edits and cache
size, and *whatever* loading and merging do: they stay constants.

- **`HitsAlwaysFresh`**: `Spec => []HitIsFresh`. The signature is read root by root, and
  what is built from it is loaded root by root later, each while packs are edited. `Made`
  says what the code still guarantees of an entry: root `j` was signed at editions `S[j]`
  and root `i` loaded at editions `L[i]`, all of the former no later than any of the
  latter, and these no later than now. A request that finds the entry has signed editions
  that were there at its beginning and at its end. So a pack directory whose stamp is
  in both signatures was of one edition throughout; one with no stamp was absent at
  both ends, and in between if none comes only to go again (`NoneComesAndGoes`).
  `SigningInv` and `LoadingInv` carry `S` and `L` through a request. That `S` need not be
  one state of the disk is why the invariant takes an edition vector *per root*.

### Only model-checked, and why

- `Settles`, `Converges`: liveness under fairness is out of the provers' reach.
- The properties of `patches` and `authoring`, and those of `schemas` but `HitIsFresh`: their modules (`DefAuthoring`,
  `FieldValidation`, `PatchApply`, `PatchDom`, `PatchFile`, `PatchInheritance`, `PatchPreview`,
  `SchemaLookup`, `SchemaPacks`, `SchemaViews`, `XmlEdit`) walk trees and inheritance with RECURSIVE
  operators, for which there is no induction here.

## 5. Disagreements

Two are runs that expect a violation, and findings in `PROJECT.json`.

1. **`session_after_save`**. `confirmSave` explains that it must not overwrite the visible
   buffer *"if the user changed it ... while this save was in flight"*, and a test covers the
   write. The check (`src/src/features/xml-editor/hooks/useXmlEditorSession.ts:668`) precedes
   a second `await`, the parse of the saved text, whose answer sets the present snapshot
   whatever the user did meanwhile. `AnswersKeepText` leaves this step out.
2. **`edits_prune_def`**. Removing the last item of an object list with pruning removes empty
   ancestors up to the root, whatever their attributes: also the Def
   (`xml_document/edit/object_lists.rs:265-294`, against `api.rs:124` and
   `scalar.rs:229`).

The others were met while modelling. Each is why a property or a theorem says what it says.

**Freshness of the def index** (hypotheses of the last three theorems in `IndexingService_proofs`):

- *A load that rebuilds* (`services/def_index_cache.rs:66-76`) scans the fingerprints it
  stores after building, takes no notice of what the worker stored meanwhile, and stores it
  verified, though `state.rs:216-219` says that what is stored needs no verification. An edit in
  between, indexed by the worker, is overwritten by the older index with fingerprints that
  match the disk. Hence `Undisturbed`, and no loads in `indexing_safety`.
- *An incremental update* persists the collection's fingerprints as of after the changed
  file was applied (`persist_incremental`, `store_prebuilt_index`,
  `def_index/cache.rs:304`). An edit in between and a restart before its event is handled
  leave a cache whose verification confirms a stale index; TLC finds it with one restart. Hence
  `Honest` in `Undisturbed`.
- *A failed scan after a build* leaves an entry without anybody to verify it, when
  coalescing has dropped the verification. Hence `faults = 0`.
- *Wake-ups*: a load's own store is not announced to other waiting loads (hence `LoadsApart`), and
  without an active project a settings change announces nothing (hence `ProjectActive`). Such
  a load waits for its timeout of 30 s.
- *Status* (`services/def_index_cache.rs:532`): a hydration overtaken by a rebuild of the same
  generation takes the arm for *"a newer initialization already owns the outcome"*; the status
  stays `Running` at the live generation until the next job, the index being right.
- *Another project's file* (`services/indexing/jobs.rs:1174`) is looked up among all
  locations and applied to the active project's index; `IndexedAsOnDisk` speaks of the included
  files. *Another project's initialization* may replace the slot of the active one:
  `Converges` is about a single project.
- *A deletion in the job channel* waits while the worker handles the watcher's events, and is
  then applied to a newer index without a look at the disk (`services/indexing/jobs.rs:1207-1215`). A
  file that is there again is missing until it changes or the index is rebuilt: hence
  `Overtaking`, and the load-folders change above.
- `services/patch_index_cache.rs` scans its fingerprints a second time after building, the same
  pattern as the load's.

**Sessions and saves**:

- `saveBusy` is reset by whichever call ends first
  (`src/src/features/xml-editor/hooks/useXmlEditorSession.ts:584`): a preview accepted earlier
  that waited for a form commit unlocks the dialog while a save is in flight. Two saves can
  then overlap. When their answers change places the baseline is not the file: hence
  `lastAnswer = lastWrite` in `BaselineIsFile`. When both have read the file before either
  replaces it, both back up that text, and what the second one replaces, which the first
  wrote, is in no backup: hence `PreviousKept` speaks of what a save had *read*. One that had
  read earlier may also put its older copy over a newer backup: hence `rivals`.
- `commands/xml_save.rs:99`: *"a matching token proves the preview validated this exact payload
  against this exact index state"*. The preview validates against the index it loaded and asks the
  slot for the token's fingerprints afterwards; when the worker stores in between, the token
  names an index the text was never checked against.
- The slow path of a save does not compare the file with the one the preview showed; only a
  backup keeps what another program wrote. A save that fails after renaming the backup has
  replaced the previous version in it by the text that the file still holds.
- Two instances of the application share the fixed names of temporary files: the theorems
  on `AppStores` are for one process.

**Schema packs**:

- A disabled view keeps the owners of its texts (`schema_pack/merge.rs:1206` against
  `locale.rs:46-49`); a template without description and a removed `previewMessage` stay owned.
- A cycle of `inherits` caches partial layers of views. The first declaration of an object
  type does not deduplicate its field order. With duplicate pack ids the order of the roots
  decides although signatures do not depend on it (`DiscoveryOrderImmaterial` excludes them).
- An alias of a type that equals the name of a parent's field hides that field from look-up
  (`lookup_object_field_recursive`), while `collect_object_fields_ordered`
  (`schema_pack/lookup.rs:180`), whose order is said to mirror the look-up's (157-158), offers both:
  the exception in `LookupsAgree`.
- *"Last occurrence wins"* of duplicate sidecar entries skips a later one that is no
  string.
- A pack that comes and goes between a request's signature and its load leaves a catalog under
  the older key, and the cache serves it once the pack is gone. Hence `NoneComesAndGoes` in
  `HitIsFresh`.

**Patches**:

- `patches/impact_graph.rs:87` takes `..` alone for a step up. An operation whose path leaves
  the Def it names by a spelled out `parent::` is taken to touch that Def only, and is not
  listed for the Def it changes: the exception in `OutcomesExplained`. `conflicts_involving_def` is
  asked with a template's `Name` (`services/patch_preview/preview.rs:325`), which
  `impact_graph.rs:351-357` rules out. Of two templates of one name the selection keeps the last
  (`selection.rs:63`), the resolver the first.
- Rewriting a patch file loses some of what the parser accepted without a diagnostic: of two
  fields that differ in case (`XPath`, `xpath`) one (`patches/parser.rs:220-241` against
  656-664), the attributes of a field element (a `<value MayRequire="...">`), elements in the
  place of a text or text in the place of elements. These are the files `RewritingKeeps` calls
  not customary. Comments are dropped, too, but for those in a value; they are not
  modelled.

**Authoring**:

- `create_def` knows the shipped packs only, and takes a defName untrimmed though
  `commands/create_def.rs:143-146` says otherwise (the wizard trims for two of the three commands).
  A closing tag mentioned in a comment is where the new Def goes (`create_def.rs:802`).
  `CreatedAsAsked` excludes these two inputs (`IsOddInput`). Required fields outside a type's field
  order are not included by templates.
- `check_required_fields_in_type` (`xml_document/validation/document.rs:241`) walks the parents
  first and reports a field that a parent requires although the type itself overrides it as not
  required; Def creation (`collect_all_fields`, `commands/create_def.rs:647`) honours the override.
- A `FloatRange` given as a single number is accepted as a field (`validation/fields.rs:203`) and
  refused inside a list (`validation/scalar.rs:90`). The reference picker and the validation differ
  on subtypes.
- Removing a map entry is meant to be idempotent (`xml_document/edit/maps.rs:108`), but creates the
  object path to the map when that is missing (104): excepted in `EditsConfined`.
- Setting text replaces mixed content; setting a field by its canonical name adds it beside an
  alias that is present.

## 6. What is left out, and the plan

Per component with the reason in `PROJECT.json`. In short: text formats (XML and JSON syntax,
escaping, layout, diagnostics' words), the text search of the index, path checks of the file
tree, XPath beyond what patches use, `schemaRef` warnings (`schema_pack/merge.rs` 400-466),
examples and icons, the form's field store, rendering, instrumentation. Not modelled at all: the
patch-index cache, previews of graphics with their asset tokens, the front end's workspace and status
polling.

Next, in this order:

1. The **patch-index cache** as an instance of the pattern of the def index's loads.
2. The **status polling** of the front end.
