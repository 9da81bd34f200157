----------------------------- MODULE EventPipeline -----------------------------
(***************************************************************************)
(* From a change on disk to the published def index, file by file: the     *)
(* watcher (services/indexing/watchers.rs), the debouncer (debounce.rs),   *)
(* the job channel with its coalescing, the incremental jobs and the full  *)
(* rebuild (jobs.rs), over the index of DefIndex and the load folders of   *)
(* LoadFolders.  IndexingService treats a collection as one version; here  *)
(* it is its files, and the question is what the index says of each.       *)
(*                                                                         *)
(* Abstracted: one location holds the active project, the others are       *)
(* inactive projects or sources; only the project's tree has a             *)
(* LoadFolders.xml. A debounce deadline is the order in which the events   *)
(* were recorded. Cache file, verification and statuses are                *)
(* IndexingService's.                                                      *)
(***************************************************************************)
EXTENDS DefIndex

CONSTANTS
    Locations,    \* settings.locations, a sequence of location records
    FileOrder,    \* every file there may be, as <<location id, path>>, sorted
    Dirs,         \* the directories of the project, in read_dir order
    Folders,      \* the directories the environment moves or deletes
    BlockChoices, \* the LoadFolders.xml files the project may have
    GameVersion,  \* settings.game_version
    Contents,     \* texts of files
    InitialDisks, \* the files the collection may start with
    MaxEdits,     \* bounds the changes on disk
    MaxGeneration \* bounds the settings changes

Projects == {l.id : l \in {m \in Range(Locations) : m.kind = "Project"}}

Files == Range(FileOrder)

LoadFoldersXml == <<"LoadFolders.xml">>

Gone == "gone"

LocationIds == {l.id : l \in Range(Locations)}

PathNames == UNION {Range(f[2]) : f \in Files}

\* Locations are registered once and files are listed once, none of them is a
\* directory or the LoadFolders.xml; a content is a text that can be read and
\* parsed into some number of diagnostics and summaries.
ASSUME EventsAssumption ==
    /\ Locations # <<>> /\ Locations \in Seq(Range(Locations))
    /\ \A i, j \in DOMAIN Locations : Locations[i].id = Locations[j].id => i = j
    /\ FileOrder \in Seq(LocationIds \X Seq(PathNames))
    /\ \A i, j \in DOMAIN FileOrder : FileOrder[i] = FileOrder[j] => i = j
    /\ \A f \in Files : /\ f[2] # LoadFoldersXml
                        /\ \A d \in Folders : IsPrefix(d, f[2]) => Under(d, f[2])
    /\ InitialDisks \subseteq [Files -> Contents \cup {Gone}]
    /\ Gone \notin Contents /\ Unreadable \notin Contents
    /\ \A c \in Contents : /\ Document[c].diagnostics \in Nat
                            /\ Document[c].summaries \in Seq(Range(Document[c].summaries))
    /\ MaxEdits \in Nat /\ MaxGeneration \in Nat

VARIABLES
    disk,         \* file -> its content, or Gone
    loadFolders,  \* the project's LoadFolders.xml, or Absent
    away,         \* directories moved out of the project, with the files in them
    active,       \* settings.active_project_id
    generation,   \* DefIndexState's generation
    watcherQueue, \* raw events the watcher sent
    jobQueue,     \* jobs the commands sent
    pending,      \* the debouncer's events, the oldest first
    worker,       \* what the indexing worker is doing
    published,    \* the index in the slot: [project, index, fingerprints]
    edits,        \* changes on disk so far
    lost          \* files whose last change the pipeline is known not to apply

fsVars == <<disk, loadFolders, away>>
vars == <<disk, loadFolders, away, active, generation, watcherQueue, jobQueue,
          pending, worker, published, edits, lost>>

-----------------------------------------------------------------------------
(* The collection on disk *)

\* The root of every location but the first is a plain pack without load folders.
TreeOf(files, blocks, loc) ==
    [dirs |-> IF loc = Locations[1].id THEN Dirs ELSE <<>>,
     loadFolders |-> IF loc = Locations[1].id THEN blocks ELSE Absent,
     files |-> {f[2] : f \in {g \in Files : g[1] = loc /\ files[g] # Gone}}]

LocationById(loc) == CHOOSE l \in Range(Locations) : l.id = loc

ActivePathsWith(files, blocks, loc) ==
    ScanIndexableDefXmlFiles(LocationById(loc).sourceType, TreeOf(files, blocks, loc),
                             GameVersion)

ActivePaths(loc) == ActivePathsWith(disk, loadFolders, loc)

\* The files a full rebuild for a project visits, in the order of the scan.
IndexableFiles(project) ==
    LET included == Range(IncludedLocations(Locations, project))
    IN  Retain(FileOrder, {f \in Files : \E l \in included :
                              l.id = f[1] /\ f[2] \in ActivePaths(f[1])})

ReadInto(files, index, f) == AddFile(index, LocationById(f[1]), f[2], files[f])

BuildDefIndex(project) ==
    RebuildComputedFields(FoldLeft(LAMBDA index, f : ReadInto(disk, index, f),
                                   EmptyIndex, IndexableFiles(project)))

-----------------------------------------------------------------------------
(* Events, jobs and the worker *)

Event(kind, loc, path) == [kind |-> kind, loc |-> loc, path |-> path]

Job(kind, loc, path, gen) == [kind |-> kind, loc |-> loc, path |-> path, gen |-> gen]

RebuildJob(gen) == Job("FullRebuild", Locations[1].id, <<>>, gen)

IdleWorker == [pc |-> "idle", gen |-> 0, project |-> Gone, jobs |-> {},
               locations |-> <<>>, files |-> <<>>, index |-> EmptyIndex]

WorkerDone == worker' = IdleWorker

Init ==
    /\ disk \in InitialDisks
    /\ loadFolders = Absent
    /\ away = [d \in Folders |-> <<>>]
    /\ active = Locations[1].id
    /\ generation = 0
    /\ watcherQueue = <<>> /\ jobQueue = <<>> /\ pending = <<>>
    /\ worker = IdleWorker
    /\ published = [project |-> active, index |-> BuildDefIndex(active),
                    fingerprints |-> IndexableFiles(active)]
    /\ edits = 0
    /\ lost = {}

-----------------------------------------------------------------------------
(* The file system and handle_fs_event. A change of one file may make       *)
(* another one active or inactive, of which no event tells: those are lost. *)

ActiveFiles(files, blocks) ==
    {f \in Files : f[2] \in ActivePathsWith(files, blocks, f[1])}

\* The files that become active or inactive without an event of their own.
Unannounced(files, blocks, told) ==
    LET before == ActiveFiles(disk, loadFolders)
        after == ActiveFiles(files, blocks)
    IN  ((before \ after) \cup (after \ before)) \ told

\* An event or a job that tells of the deletion of a file, or of a folder above it.
RemovalOf(x, f) ==
    \/ x.kind \in {"Deleted", "FileDeleted"} /\ <<x.loc, x.path>> = f
    \/ x.kind = "FolderDeleted" /\ f[1] = x.loc /\ IsPrefix(x.path, f[2])

RemovalQueued(f) == \E job \in Range(jobQueue) : job.gen = generation /\ RemovalOf(job, f)

\* A deletion is still on its way to the worker: of the file, or of the
\* LoadFolders.xml that decides about it.
RemovalAwaited(f) ==
    \/ \E ev \in Range(watcherQueue) \cup Range(pending) :
          \/ RemovalOf(ev, f)
          \/ f[1] = Locations[1].id /\ ev = Event("Deleted", f[1], LoadFoldersXml)
    \/ RemovalQueued(f)

Edit == edits < MaxEdits /\ edits' = edits + 1

Send(events) == watcherQueue' = watcherQueue \o events

\* Create or Modify of an XML file.
Write(f, c) ==
    /\ Edit
    /\ disk[f] # c
    /\ disk' = [disk EXCEPT ![f] = c]
    /\ Send(<<Event("Changed", f[1], f[2])>>)
    /\ lost' = lost \cup Unannounced(disk', loadFolders, {f})
    /\ UNCHANGED <<loadFolders, away, active, generation, jobQueue, pending, worker, published>>

\* Remove, or the old name of a rename, of an XML file.
Delete(f) ==
    /\ Edit
    /\ disk[f] # Gone
    /\ disk' = [disk EXCEPT ![f] = Gone]
    /\ Send(<<Event("Deleted", f[1], f[2])>>)
    /\ lost' = lost \cup Unannounced(disk', loadFolders, {f})
    /\ UNCHANGED <<loadFolders, away, active, generation, jobQueue, pending, worker, published>>

FilesIn(d) == {f \in Files : f[1] = Locations[1].id /\ Under(d, f[2])}

\* A directory moved out of the project: one event, for the directory.
MoveFolderOut(d) ==
    /\ Edit
    /\ away[d] = <<>>
    /\ away' = [away EXCEPT ![d] = [f \in FilesIn(d) |-> disk[f]]]
    /\ disk' = [f \in Files |-> IF f \in FilesIn(d) THEN Gone ELSE disk[f]]
    /\ Send(<<Event("FolderDeleted", Locations[1].id, d)>>)
    /\ lost' = lost \cup Unannounced(disk', loadFolders, FilesIn(d))
    /\ UNCHANGED <<loadFolders, active, generation, jobQueue, pending, worker, published>>

\* A directory moved into the project: the new name of a renamed directory is ignored.
MoveFolderIn(d) ==
    /\ Edit
    /\ away[d] # <<>>
    /\ \A f \in FilesIn(d) : disk[f] = Gone
    /\ disk' = [f \in Files |-> IF f \in FilesIn(d) THEN away[d][f] ELSE disk[f]]
    /\ away' = [away EXCEPT ![d] = <<>>]
    /\ lost' = lost \cup Unannounced(disk', loadFolders, {})
    /\ UNCHANGED <<loadFolders, active, generation, watcherQueue, jobQueue, pending,
                   worker, published>>

\* A deletion on its way may undo what the rebuild after the change finds.
WriteLoadFolders(blocks) ==
    /\ Edit
    /\ loadFolders # blocks
    /\ loadFolders' = blocks
    /\ Send(<<Event("Changed", Locations[1].id, LoadFoldersXml)>>)
    /\ lost' = lost \cup {f \in Unannounced(disk, blocks, {}) : RemovalAwaited(f)}
    /\ UNCHANGED <<disk, away, active, generation, jobQueue, pending, worker, published>>

\* The deletion is a file deletion like another: no rebuild follows, and one
\* that an earlier change of the file asked for may be forgotten.
RemoveLoadFolders ==
    /\ Edit
    /\ loadFolders # Absent
    /\ loadFolders' = Absent
    /\ Send(<<Event("Deleted", Locations[1].id, LoadFoldersXml)>>)
    /\ lost' = lost \cup {f \in Files : f[1] = Locations[1].id}
    /\ UNCHANGED <<disk, away, active, generation, jobQueue, pending, worker, published>>

\* The project commands change a file themselves: they send the job, and the
\* watcher reports the change as well.
Save(f, c) ==
    /\ Edit
    /\ f[1] = active
    /\ disk[f] # c
    /\ disk' = [disk EXCEPT ![f] = c]
    /\ Send(<<Event("Changed", f[1], f[2])>>)
    /\ jobQueue' = Append(jobQueue, Job("FileChanged", f[1], f[2], generation))
    /\ lost' = lost \cup Unannounced(disk', loadFolders, {f})
    /\ UNCHANGED <<loadFolders, away, active, generation, pending, worker, published>>

DeleteFile(f) ==
    /\ Edit
    /\ f[1] = active
    /\ disk[f] # Gone
    /\ disk' = [disk EXCEPT ![f] = Gone]
    /\ Send(<<Event("Deleted", f[1], f[2])>>)
    /\ jobQueue' = Append(jobQueue, Job("FileDeleted", f[1], f[2], generation))
    /\ lost' = lost \cup Unannounced(disk', loadFolders, {f})
    /\ UNCHANGED <<loadFolders, away, active, generation, pending, worker, published>>

DeleteFolder(d) ==
    /\ Edit
    /\ Locations[1].id = active
    /\ \E f \in FilesIn(d) : disk[f] # Gone
    /\ disk' = [f \in Files |-> IF f \in FilesIn(d) THEN Gone ELSE disk[f]]
    /\ Send(LET gone == Retain(FileOrder, {f \in FilesIn(d) : disk[f] # Gone})
            IN  Append([i \in DOMAIN gone |-> Event("Deleted", gone[i][1], gone[i][2])],
                       Event("FolderDeleted", Locations[1].id, d)))
    /\ jobQueue' = Append(jobQueue, Job("FolderDeleted", Locations[1].id, d, generation))
    /\ lost' = lost \cup Unannounced(disk', loadFolders, FilesIn(d))
    /\ UNCHANGED <<loadFolders, away, active, generation, pending, worker, published>>

\* Another active project: a new generation, whose initialization asks for a rebuild.
SetActiveProject(p) ==
    /\ generation < MaxGeneration
    /\ p # active
    /\ active' = p
    /\ generation' = generation + 1
    /\ jobQueue' = Append(jobQueue, RebuildJob(generation'))
    /\ UNCHANGED <<disk, loadFolders, away, watcherQueue, pending, worker, published, edits, lost>>

-----------------------------------------------------------------------------
(* debounce.rs *)

SameFile(a, b) == a.loc = b.loc /\ a.path = b.path

PendingOther(queue, ev) == Retain(queue, {e \in Range(queue) : ~SameFile(e, ev)})

DeletePending(queue, ev) ==
    \E e \in Range(queue) : SameFile(e, ev) /\ e.kind = "Deleted"

\* A deletion replaces whatever is pending; a change does not replace a deletion.
Record(queue, ev) ==
    IF ev.kind = "Changed" /\ DeletePending(queue, ev) THEN queue
    ELSE Append(PendingOther(queue, ev), ev)

RecordAll(queue, events) == FoldLeft(Record, queue, events)

\* The files of the changes the debouncer drops because a deletion is pending.
Dropped(queue, events) ==
    {f \in Files : \E i \in DOMAIN events :
        /\ events[i].kind = "Changed" /\ <<events[i].loc, events[i].path>> = f
        /\ DeletePending(RecordAll(queue, SubSeq(events, 1, i - 1)), events[i])}

-----------------------------------------------------------------------------
(* coalesce_batch_for_generation: the jobs left, in the order of a hash map *)

InJobFolder(job, folderJob) == InFolder(job, folderJob.loc, folderJob.path)

CoalesceJob(jobs, job) ==
    CASE job.kind = "FileChanged" ->
            IF \E j \in jobs : SameFile(j, job) /\ j.kind # "FolderDeleted"
            THEN jobs ELSE jobs \cup {job}
      [] job.kind = "FileDeleted" ->
            {j \in jobs : ~SameFile(j, job) \/ j.kind = "FolderDeleted"} \cup {job}
      [] job.kind = "FolderDeleted" ->
            {j \in jobs : j.kind = "FolderDeleted" \/ ~InJobFolder(j, job)} \cup {job}

Coalesce(batch, gen) ==
    LET live == Retain(batch, {job \in Range(batch) : job.gen = gen})
    IN  IF \E job \in Range(live) : job.kind = "FullRebuild"
        THEN {CHOOSE job \in Range(live) : job.kind = "FullRebuild"}
        ELSE FoldLeft(CoalesceJob, {}, live)

-----------------------------------------------------------------------------
(* What the pipeline loses track of, and what a full rebuild finds again *)

\* The files whose change is applied while an older deletion waits in the channel.
Overtaking(changes) ==
    {f \in Files : /\ RemovalQueued(f)
                   /\ \E i \in DOMAIN changes : /\ changes[i].kind = "Changed"
                                                /\ <<changes[i].loc, changes[i].path>> = f}

\* A rebuild that starts finds every file again but those a deletion of the past
\* may yet take away.
Lose(files) ==
    LET starts == worker'.pc = "rebuild" /\ worker.pc # "rebuild"
    IN  lost' = {f \in lost \cup files : starts => RemovalAwaited(f)'}

-----------------------------------------------------------------------------
(* run_worker, process_batch *)

StartRebuild(project) ==
    worker' = [IdleWorker EXCEPT !.pc = "rebuild", !.gen = generation, !.project = project,
                                 !.locations = IncludedLocations(Locations, project)]

\* The incremental jobs start from the verified index of these settings, or not at all.
StartFiles(jobs) ==
    IF published.project = active
    THEN worker' = [IdleWorker EXCEPT !.pc = "files", !.gen = generation, !.project = active,
                                      !.jobs = jobs, !.index = published.index]
    ELSE StartRebuild(active)

ProcessBatch(jobs) ==
    IF jobs = {} THEN UNCHANGED worker
    ELSE IF \E job \in jobs : job.kind = "FullRebuild" THEN StartRebuild(active)
    ELSE StartFiles(jobs)

ReceiveJobs ==
    /\ worker.pc = "idle"
    /\ jobQueue # <<>>
    /\ ProcessBatch(Coalesce(jobQueue, generation))
    /\ jobQueue' = <<>>
    /\ UNCHANGED <<fsVars, active, generation, watcherQueue, pending, published, edits>>
    /\ Lose({})

\* File events go to the debouncer, folder deletions are jobs at once.
ReceiveEvents ==
    /\ worker.pc = "idle"
    /\ watcherQueue # <<>>
    /\ LET files == Retain(watcherQueue, {ev \in Range(watcherQueue) : ev.kind # "FolderDeleted"})
           folders == Retain(watcherQueue, {ev \in Range(watcherQueue) : ev.kind = "FolderDeleted"})
       IN  /\ watcherQueue' = <<>>
           /\ pending' = RecordAll(pending, files)
           /\ ProcessBatch(Coalesce([i \in DOMAIN folders |->
                  Job("FolderDeleted", folders[i].loc, folders[i].path, generation)], generation))
           /\ UNCHANGED <<fsVars, active, generation, jobQueue, published, edits>>
           /\ Lose(Dropped(pending, files))

\* The first n pending events have reached their deadline.
DrainReady(n) ==
    /\ worker.pc = "idle"
    /\ n \in 1 .. Len(pending)
    /\ ProcessBatch(Coalesce([i \in 1 .. n |->
           Job(IF pending[i].kind = "Changed" THEN "FileChanged" ELSE "FileDeleted",
               pending[i].loc, pending[i].path, generation)], generation))
    /\ pending' = SubSeq(pending, n + 1, Len(pending))
    /\ UNCHANGED <<fsVars, active, generation, watcherQueue, jobQueue, published, edits>>
    /\ Lose(Overtaking(SubSeq(pending, 1, n)))

-----------------------------------------------------------------------------
(* execute_file_jobs *)

ContentOf(f) == IF disk[f] = Gone THEN Unreadable ELSE disk[f]

ApplyFileJob(index, job) ==
    CASE job.kind = "FolderDeleted" -> RemoveFolderPrefix(index, job.loc, job.path)
      [] job.kind = "FileDeleted" -> RemoveFile(index, job.loc, job.path)
      [] OTHER -> IF job.path \in ActivePaths(job.loc)
                  THEN ApplyFileChange(index, LocationById(job.loc), job.path,
                                       disk[<<job.loc, job.path>>])
                  ELSE RemoveFile(index, job.loc, job.path)

\* Every job checks the generation; a changed LoadFolders.xml rebuilds instead.
FilesApply(job) ==
    /\ worker.pc = "files"
    /\ job \in worker.jobs
    /\ IF generation # worker.gen THEN WorkerDone
       ELSE IF job.kind = "FileChanged" /\ Last(job.path) = "LoadFolders.xml"
       THEN StartRebuild(active)
       ELSE worker' = [worker EXCEPT !.jobs = @ \ {job}, !.index = ApplyFileJob(@, job)]
    /\ UNCHANGED <<fsVars, active, generation, watcherQueue, jobQueue, pending, published, edits>>
    /\ Lose({})

Published(project, index) ==
    [project |-> project, index |-> index, fingerprints |-> IndexableFiles(project)]

\* Slip: the by-type table of the index the batch started from is kept.
FilesPublishStaleTable ==
    /\ worker.pc = "files"
    /\ worker.jobs = {}
    /\ published' = IF generation # worker.gen THEN published
                    ELSE Published(worker.project, worker.index)
    /\ WorkerDone
    /\ UNCHANGED <<fsVars, active, generation, watcherQueue, jobQueue, pending, edits, lost>>

FilesPublish ==
    /\ worker.pc = "files"
    /\ worker.jobs = {}
    /\ published' = IF generation # worker.gen THEN published
                    ELSE Published(worker.project, RebuildComputedFields(worker.index))
    /\ WorkerDone
    /\ UNCHANGED <<fsVars, active, generation, watcherQueue, jobQueue, pending, edits, lost>>

-----------------------------------------------------------------------------
(* build_def_index: location by location, each scanned and then read *)

RebuildScan ==
    /\ worker.pc = "rebuild"
    /\ worker.files = <<>>
    /\ worker.locations # <<>>
    /\ LET loc == Head(worker.locations).id
       IN  worker' = [worker EXCEPT !.locations = Tail(@),
                         !.files = Retain(FileOrder, {f \in Files :
                                       f[1] = loc /\ f[2] \in ActivePaths(loc)})]
    /\ UNCHANGED <<fsVars, active, generation, watcherQueue, jobQueue, pending, published,
                   edits, lost>>

RebuildRead ==
    /\ worker.pc = "rebuild"
    /\ worker.files # <<>>
    /\ LET f == Head(worker.files)
       IN  worker' = [worker EXCEPT !.files = Tail(@),
                         !.index = AddFile(@, LocationById(f[1]), f[2], ContentOf(f))]
    /\ UNCHANGED <<fsVars, active, generation, watcherQueue, jobQueue, pending, published,
                   edits, lost>>

\* The slot is written whatever the generation is by now.
RebuildPublish ==
    /\ worker.pc = "rebuild"
    /\ worker.files = <<>> /\ worker.locations = <<>>
    /\ published' = Published(worker.project, RebuildComputedFields(worker.index))
    /\ WorkerDone
    /\ UNCHANGED <<fsVars, active, generation, watcherQueue, jobQueue, pending, edits, lost>>

-----------------------------------------------------------------------------
Environment ==
    \/ \E f \in Files, c \in Contents : Write(f, c) \/ Save(f, c)
    \/ \E f \in Files : Delete(f) \/ DeleteFile(f)
    \/ \E d \in Folders : MoveFolderOut(d) \/ MoveFolderIn(d) \/ DeleteFolder(d)
    \/ \E blocks \in BlockChoices : WriteLoadFolders(blocks)
    \/ RemoveLoadFolders
    \/ \E p \in Projects : SetActiveProject(p)

Worker ==
    \/ ReceiveJobs \/ ReceiveEvents \/ \E n \in 1 .. Len(pending) : DrainReady(n)
    \/ \E job \in worker.jobs : FilesApply(job)
    \/ FilesPublish
    \/ RebuildScan \/ RebuildRead \/ RebuildPublish

Next == Environment \/ Worker

Spec == Init /\ [][Next]_vars

\* The worker is one task of the runtime that never stops; nothing else is fair.
FairSpec == Spec /\ WF_vars(Worker)

-----------------------------------------------------------------------------
(* Properties *)

Quiescent ==
    /\ worker.pc = "idle" /\ watcherQueue = <<>> /\ jobQueue = <<>> /\ pending = <<>>

RecordsOf(index, f) ==
    LET Own(s) == Retain(s, {r \in Range(s) : InFile(r, f[1], f[2])})
    IN  [defs |-> Own(index.defs), errors |-> Own(index.errors)]

Fresh(f) ==
    RecordsOf(AddFile(EmptyIndex, LocationById(f[1]), f[2], ContentOf(f)), f)

Included(f) == \E l \in Range(IncludedLocations(Locations, active)) : l.id = f[1]

\* Once every event and job is worked off, the index says of each file of the
\* collection exactly what a full rebuild would say: its defs, once, at its
\* content on disk, and nothing if the game would not load it. Excepted are
\* only the files the code is known to lose track of.
IndexedAsOnDisk ==
    Quiescent => \A f \in Files \ lost :
        Included(f) => RecordsOf(published.index, f)
                         = RecordsOf(BuildDefIndex(active), f)

\* Whatever was lost, the index never keeps, once worked off, the text a file
\* had before: a file is indexed at its content on disk or not at all.
NoStaleText ==
    Quiescent => \A f \in Files :
        \/ RecordsOf(published.index, f).defs = <<>>
        \/ disk[f] # Gone /\ RecordsOf(published.index, f) = Fresh(f)

\* The index a query gets has a by-type table for its own defs: suggestions
\* through the table are those a scan finds, and no entry points outside the
\* index; the same holds with the unsaved text of any file laid over it.
TableMatchesDefs ==
    \A f \in Files, c \in Contents :
        \A index \in {published.index,
                      ApplyReplacementOverlay(published.index, Locations, f[1], f[2], c)} :
            LET types == TypesOf(index.defs) IN
            /\ index = RebuildComputedFields(index)
            /\ SuggestCandidates(index, types) = DOMAIN index.defs

\* What is written to the disk cache reads back as the index it was made of,
\* also when the files scanned for the fingerprints are not those indexed.
CacheKeepsIndex ==
    RebuildComputedFields(FromDto(ToDto(published.fingerprints, published.index)))
        = published.index

\* The index answers for its own Defs, from memory and after a restart.
IndexReadable == TableMatchesDefs /\ CacheKeepsIndex

=============================================================================
