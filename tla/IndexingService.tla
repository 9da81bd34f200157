----------------------------- MODULE IndexingService -----------------------------
(***************************************************************************)
(* RimEdit's background indexing service: who reads and writes the single  *)
(* DefIndexState slot, concurrently and in which steps.                    *)
(*                                                                         *)
(*   worker   the one task that owns the job channel, the debouncer and    *)
(*            every job execution            (services/indexing/jobs.rs)   *)
(*   init     schedule_initialization calls, each followed by its detached *)
(*            hydration thread               (services/def_index_cache.rs) *)
(*   reader   RequireFresh loads, which scan and store on their own when   *)
(*            the slot has nothing verified  (services/def_index_cache.rs) *)
(*   main     the settings commands of the main thread                     *)
(*                                  (commands/project_settings.rs)         *)
(*                                                                         *)
(* An action is what a process does between two points where another one   *)
(* can be observed: one critical section of DefIndexState, or one read or  *)
(* write of a file. The indexed collection is one version number, bumped   *)
(* by every edit; building, fingerprinting and applying a changed file all *)
(* read it. A failing settings read, scan, write or thread spawn is a      *)
(* fault and consumes the MaxFaults budget; only a verification may go on  *)
(* failing for nothing.                                                    *)
(*                                                                         *)
(* Two steps of a process are one action only where nothing can come       *)
(* between them that matters: a completion is announced with the write it  *)
(* announces (who registers in between reads that write), and a generation *)
(* is read with the file or the slot read next to it (a change in between  *)
(* is caught by the comparison before the first write).                    *)
(***************************************************************************)
EXTENDS DefIndexState, Sequences, FiniteSets

CONSTANTS
    Inits,              \* the schedule_initialization calls that may happen
    Readers,            \* the RequireFresh loads that may happen
    MaxVerifyAttempts,  \* MAX_VERIFY_ATTEMPTS
    MaxGeneration,      \* bound: settings changes
    MaxEdits,           \* bound: edits of the collection
    MaxQueue,           \* bound: channel length at which outside callers stop
    MaxFaults,          \* bound: failing I/O operations
    MaxRestarts         \* bound: restarts of the application

ASSUME BoundsAssumption ==
    /\ MaxVerifyAttempts \in Nat \ {0}
    /\ MaxGeneration \in Nat /\ MaxEdits \in Nat /\ MaxQueue \in Nat
    /\ MaxFaults \in Nat /\ MaxRestarts \in Nat

VARIABLES
    settings,   \* settings.json
    disk,       \* version of the indexed collection
    cache,      \* the disk cache file
    fsEvent,    \* a watcher event waits in the watcher channel or the debouncer
    queue,      \* the job channel
    retries,    \* detached tasks sleeping VERIFY_RETRY_BACKOFF
    inFlight,   \* IndexingServiceState::in_flight_init
    worker, init, reader, main,
    faults, restarts

diskVars == <<settings, disk, cache, fsEvent>>
chanVars == <<queue, retries, inFlight>>
bounds   == <<faults, restarts>>
vars == <<stateVars, diskVars, chanVars, worker, init, reader, main, bounds>>

-----------------------------------------------------------------------------
(* Data *)

Attempts == 0 .. (MaxVerifyAttempts - 1)

Jobs == [kind: {"FullRebuild", "VerifyCache", "File"}, project: ProjectIds,
         gen: Nat, fp: SettingsFingerprints \cup {None}, attempt: Attempts]

FullRebuildJob(p, g) ==
    [kind |-> "FullRebuild", project |-> p, gen |-> g, fp |-> None, attempt |-> 0]

VerifyJob(p, g, fp, a) ==
    [kind |-> "VerifyCache", project |-> p, gen |-> g, fp |-> fp, attempt |-> a]

FileJob(g) ==
    [kind |-> "File", project |-> None, gen |-> g, fp |-> None, attempt |-> 0]

Keys == [project: ProjectIds, gen: Nat, fp: SettingsFingerprints]

CacheFiles == [fp: SettingsFingerprints, fps: FileFingerprints, version: Nat]

\* file_fingerprints: the scanned locations and what they hold now.
Scan(fp) == [fp |-> fp, version |-> disk]

WorkerPcs == {"idle", "batch",
    "verifyLoad", "verifyScan", "verifyRecheck", "confirm", "scanFailed",
    "invalidate", "handoffCheck", "handoffPending", "handoffEnqueue",
    "rebuild", "pending", "load", "failed", "publishFailed", "discovering",
    "discover", "indexing", "check", "fingerprint", "build", "write", "rescan",
    "store", "finish", "readBack", "complete", "completeSummary",
    "files", "base", "running", "apply", "applied", "publish", "persist",
    "persistWrite", "persistStore"}

Workers == [pc: WorkerPcs, project: ProjectIds, gen: Nat,
            fp: SettingsFingerprints \cup {None}, attempt: Attempts,
            settings: Settings \cup {None}, fps: FileFingerprints, version: Nat,
            verdict: {"Match", "Mismatch", "ScanFailed", None},
            verify: SUBSET Jobs, files: BOOLEAN]

IdleWorker ==
    [pc |-> "idle", project |-> None, gen |-> 0, fp |-> None, attempt |-> 0,
     settings |-> None, fps |-> None, version |-> 0, verdict |-> None,
     verify |-> {}, files |-> FALSE]

InitPcs == {"ready", "lookup", "decide", "claim", "publish", "read", "store", "complete",
            "enqueue", "remove", "finish", "missFinish", "missCheck",
            "missPending", "missEnqueue", "done"}

InitStates == [pc: InitPcs, project: ProjectIds, gen: Nat,
               settings: Settings \cup {None}, fps: FileFingerprints, version: Nat]

ReadyInit == [pc |-> "ready", project |-> None, gen |-> 0, settings |-> None,
              fps |-> None, version |-> 0]

DoneInit == [ReadyInit EXCEPT !.pc = "done"]

ReaderPcs == {"ready", "hot", "inFlight", "register", "check", "waiting", "last",
              "cache", "fingerprint", "build", "write", "rescan", "store", "done"}

ReaderStates == [pc: ReaderPcs, project: ProjectIds, settings: Settings \cup {None},
                 fps: FileFingerprints, version: Nat, notified: BOOLEAN]

ReadyReader == [pc |-> "ready", project |-> None, settings |-> None,
                fps |-> None, version |-> 0, notified |-> FALSE]

IdleMain == [pc |-> "idle", project |-> None]

DoneReader == [ReadyReader EXCEPT !.pc = "done"]

InitFp(i)   == SettingsFingerprint(init[i].settings, init[i].project)
InitKey(i)  == [project |-> init[i].project, gen |-> init[i].gen, fp |-> InitFp(i)]
ReaderFp(r) == SettingsFingerprint(reader[r].settings, reader[r].project)

\* rebuild_for_project_with_progress: no explicit project means the active one.
EffectiveProject ==
    IF worker.project # None THEN worker.project ELSE worker.settings.active

WorkerFp == SettingsFingerprint(worker.settings, EffectiveProject)

TypeOK ==
    /\ StateTypeOK
    /\ settings \in Settings
    /\ disk \in Nat
    /\ cache \in CacheFiles \cup {None}
    /\ fsEvent \in BOOLEAN
    /\ queue \in Seq(Jobs)
    /\ retries \in SUBSET Jobs
    /\ inFlight \in SUBSET Keys
    /\ worker \in Workers
    /\ init \in [Inits -> InitStates]
    /\ reader \in [Readers -> ReaderStates]
    /\ main \in [pc: {"idle", "bump", "reindex", "query"}, project: ProjectIds]
    /\ faults \in Nat
    /\ restarts \in Nat

-----------------------------------------------------------------------------
(* Helpers *)

Fault == faults < MaxFaults /\ faults' = faults + 1 /\ UNCHANGED restarts
NoFault == UNCHANGED bounds

\* What fails to be read may go on failing (a Workshop item that is not coming
\* back): a verification that fails again costs nothing.
ScanFault == Fault \/ (faults > 0 /\ NoFault)

Enqueue(job) == queue' = Append(queue, job)

\* notify_waiters wakes every future already created, polled or not.
NotifyJobCompleted ==
    reader' = [r \in Readers |->
        IF reader[r].pc \in {"check", "waiting"}
        THEN [reader[r] EXCEPT !.notified = TRUE] ELSE reader[r]]

WorkerGoes(pc) == worker' = [worker EXCEPT !.pc = pc]

\* The job is over: back to the rest of the batch, or to the select loop.
WorkerDone ==
    worker' = [IdleWorker EXCEPT
                  !.pc = IF worker.verify = {} /\ ~worker.files THEN "idle" ELSE "batch",
                  !.verify = worker.verify, !.files = worker.files]

MainGoes(pc) == main' = [main EXCEPT !.pc = pc]
InitGoes(i, pc) == init' = [init EXCEPT ![i].pc = pc]
InitDone(i) == init' = [init EXCEPT ![i] = DoneInit]
ReaderGoes(r, pc) == reader' = [reader EXCEPT ![r].pc = pc]
ReaderDone(r) == reader' = [reader EXCEPT ![r] = DoneReader]

-----------------------------------------------------------------------------
(* run_worker: the select loop and coalesce_batch *)

Live(i) == i \in DOMAIN queue /\ queue[i].gen = generation

LiveRebuild(i) == Live(i) /\ queue[i].kind = "FullRebuild"

FirstRebuild(i) ==
    LiveRebuild(i) /\ \A j \in DOMAIN queue : LiveRebuild(j) => i <= j

\* The last verification of each scope wins.
LiveVerifications ==
    {queue[i] : i \in {j \in DOMAIN queue :
        /\ Live(j) /\ queue[j].kind = "VerifyCache"
        /\ \A k \in DOMAIN queue :
              (k > j /\ Live(k) /\ queue[k].kind = "VerifyCache")
              => <<queue[k].project, queue[k].fp>> # <<queue[j].project, queue[j].fp>>}}

HasLiveFileJob == \E i \in DOMAIN queue : Live(i) /\ queue[i].kind = "File"

\* Drain the channel, coalesce, and start the batch.
WorkerReceive ==
    /\ worker.pc = "idle" /\ queue # <<>>
    /\ queue' = <<>>
    /\ \/ \E i \in DOMAIN queue :
             /\ FirstRebuild(i)
             /\ worker' = [IdleWorker EXCEPT !.pc = "rebuild",
                                             !.project = queue[i].project]
       \/ /\ ~\E i \in DOMAIN queue : LiveRebuild(i)
          /\ LiveVerifications # {} \/ HasLiveFileJob
          /\ worker' = [IdleWorker EXCEPT !.pc = "batch",
                                          !.verify = LiveVerifications,
                                          !.files = HasLiveFileJob]
       \/ /\ ~\E i \in DOMAIN queue : Live(i)
          /\ UNCHANGED worker
    /\ UNCHANGED <<stateVars, diskVars, retries, inFlight, init, reader, main, bounds>>

\* The debounce deadline of the pending watcher events has passed.
WorkerDrainDebouncer ==
    /\ worker.pc = "idle" /\ fsEvent
    /\ fsEvent' = FALSE
    /\ worker' = [IdleWorker EXCEPT !.pc = "batch", !.files = TRUE]
    /\ UNCHANGED <<stateVars, settings, disk, cache, chanVars, init, reader, main, bounds>>

\* A Workshop item appeared or went: an immediate rebuild of the active project.
WorkerMembershipChanged ==
    /\ worker.pc = "idle" /\ fsEvent
    /\ fsEvent' = FALSE
    /\ worker' = [IdleWorker EXCEPT !.pc = "rebuild"]
    /\ UNCHANGED <<stateVars, settings, disk, cache, chanVars, init, reader, main, bounds>>

\* process_batch: verifications first, then the file jobs.
WorkerNextFiles ==
    /\ worker.pc = "batch" /\ worker.verify = {}
    /\ worker' = [IdleWorker EXCEPT !.pc = "files"]
    /\ UNCHANGED <<stateVars, diskVars, chanVars, init, reader, main, bounds>>

-----------------------------------------------------------------------------
(* execute_verify_cache *)

VerifyStart(job) ==
    /\ worker.pc = "batch" /\ job \in worker.verify
    /\ worker' =
         LET rest == worker.verify \ {job}
         IN  IF generation = job.gen /\ HasEntry(job.fp)
             THEN [worker EXCEPT !.pc = "verifyLoad", !.verify = rest,
                     !.project = job.project, !.gen = job.gen, !.fp = job.fp,
                     !.attempt = job.attempt, !.fps = entry.fps]
             ELSE [worker EXCEPT !.verify = rest,
                     !.pc = IF rest = {} /\ ~worker.files THEN "idle" ELSE "batch"]
    /\ UNCHANGED <<stateVars, diskVars, chanVars, init, reader, main, bounds>>

VerifyLoadSettings ==
    /\ worker.pc = "verifyLoad"
    /\ \/ NoFault /\ worker' = [worker EXCEPT !.pc = "verifyScan", !.settings = settings]
       \/ ScanFault /\ WorkerGoes("scanFailed")
    /\ UNCHANGED <<stateVars, diskVars, chanVars, init, reader, main>>

\* Slip: only what the list is of is compared, not what the files hold.
VerifyScanForgetsVersions ==
    /\ worker.pc = "verifyScan"
    /\ \/ /\ NoFault
          /\ worker' = [worker EXCEPT !.pc = "verifyRecheck",
               !.verdict = IF worker.fps # None /\ worker.fps.fp =
                              SettingsFingerprint(worker.settings, worker.project)
                           THEN "Match" ELSE "Mismatch"]
       \/ ScanFault /\ worker' = [worker EXCEPT !.pc = "verifyRecheck", !.verdict = "ScanFailed"]
    /\ UNCHANGED <<stateVars, diskVars, chanVars, init, reader, main>>

\* verify_hydrated_project scans for the captured project, never the active one.
VerifyScan ==
    /\ worker.pc = "verifyScan"
    /\ \/ /\ NoFault
          /\ worker' = [worker EXCEPT !.pc = "verifyRecheck",
               !.verdict = IF Scan(SettingsFingerprint(worker.settings, worker.project))
                              = worker.fps
                           THEN "Match" ELSE "Mismatch"]
       \/ ScanFault /\ worker' = [worker EXCEPT !.pc = "verifyRecheck", !.verdict = "ScanFailed"]
    /\ UNCHANGED <<stateVars, diskVars, chanVars, init, reader, main>>

VerifyRecheck ==
    /\ worker.pc = "verifyRecheck"
    /\ IF generation = worker.gen /\ HasEntry(worker.fp)
       THEN WorkerGoes(CASE worker.verdict = "Match" -> "confirm"
                         [] worker.verdict = "Mismatch" -> "invalidate"
                         [] OTHER -> "scanFailed")
       ELSE WorkerDone
    /\ UNCHANGED <<stateVars, diskVars, chanVars, init, reader, main, bounds>>

VerifyConfirm ==
    /\ worker.pc = "confirm"
    /\ IF MayConfirm(worker.gen, worker.fp)
       THEN ConfirmCacheVerified /\ NotifyJobCompleted
       ELSE UNCHANGED <<entry, status, reader>>
    /\ WorkerDone
    /\ UNCHANGED <<generation, diskVars, chanVars, init, main, bounds>>

\* Slip: the retry is again a first attempt.
VerifyScanFailedUncounted ==
    /\ worker.pc = "scanFailed"
    /\ retries' = retries \cup
          {VerifyJob(worker.project, worker.gen, worker.fp, worker.attempt)}
    /\ WorkerDone
    /\ UNCHANGED <<stateVars, diskVars, queue, inFlight, init, reader, main, bounds>>

\* handle_verify_scan_failure: sleep and retry, or treat the entry as stale.
VerifyScanFailed ==
    /\ worker.pc = "scanFailed"
    /\ IF worker.attempt + 1 < MaxVerifyAttempts
       THEN /\ retries' = retries \cup
                 {VerifyJob(worker.project, worker.gen, worker.fp, worker.attempt + 1)}
            /\ WorkerDone
       ELSE WorkerGoes("invalidate") /\ UNCHANGED retries
    /\ UNCHANGED <<stateVars, diskVars, queue, inFlight, init, reader, main, bounds>>

VerifyRetry(job) ==
    /\ job \in retries
    /\ retries' = retries \ {job}
    /\ IF generation = job.gen THEN Enqueue(job) ELSE UNCHANGED queue
    /\ UNCHANGED <<stateVars, diskVars, inFlight, worker, init, reader, main, bounds>>

\* invalidate_entry_and_rebuild, in its four critical sections.
VerifyInvalidate ==
    /\ worker.pc = "invalidate"
    /\ IF MayInvalidate(worker.gen, worker.fp, worker.fps)
       THEN InvalidateEntry /\ WorkerGoes("handoffCheck")
       ELSE WorkerDone /\ UNCHANGED entry
    /\ UNCHANGED <<generation, status, diskVars, chanVars, init, reader, main, bounds>>

VerifyHandoffCheck ==
    /\ worker.pc = "handoffCheck"
    /\ WorkerGoes(IF generation = worker.gen THEN "handoffPending" ELSE "handoffEnqueue")
    /\ UNCHANGED <<stateVars, diskVars, chanVars, init, reader, main, bounds>>

VerifyHandoffPending ==
    /\ worker.pc = "handoffPending"
    /\ SetStatusPending(worker.project)
    /\ WorkerGoes("handoffEnqueue")
    /\ UNCHANGED <<entry, generation, diskVars, chanVars, init, reader, main, bounds>>

VerifyHandoffEnqueue ==
    /\ worker.pc = "handoffEnqueue"
    /\ IF generation = worker.gen
       THEN Enqueue(FullRebuildJob(worker.project, worker.gen)) ELSE UNCHANGED queue
    /\ WorkerDone
    /\ UNCHANGED <<stateVars, diskVars, retries, inFlight, init, reader, main, bounds>>

-----------------------------------------------------------------------------
(* execute_full_rebuild *)

RebuildBegin ==
    /\ worker.pc = "rebuild"
    /\ worker' = [worker EXCEPT !.pc = "pending", !.gen = generation]
    /\ UNCHANGED <<stateVars, diskVars, chanVars, init, reader, main, bounds>>

RebuildPending ==
    /\ worker.pc = "pending"
    /\ SetStatusPending(worker.project)
    /\ WorkerGoes("load")
    /\ UNCHANGED <<entry, generation, diskVars, chanVars, init, reader, main, bounds>>

RebuildLoadSettings ==
    /\ worker.pc = "load"
    /\ \/ NoFault /\ worker' = [worker EXCEPT !.pc = "discovering", !.settings = settings]
       \/ Fault /\ WorkerGoes("failed")
    /\ UNCHANGED <<stateVars, diskVars, chanVars, init, reader, main>>

RebuildFailed ==
    /\ worker.pc = "failed"
    /\ IF generation = worker.gen THEN WorkerGoes("publishFailed") ELSE WorkerDone
    /\ UNCHANGED <<stateVars, diskVars, chanVars, init, reader, main, bounds>>

RebuildPublishFailed ==
    /\ worker.pc = "publishFailed"
    /\ SetStatusFailed(worker.project)
    /\ NotifyJobCompleted
    /\ WorkerDone
    /\ UNCHANGED <<entry, generation, diskVars, chanVars, init, main, bounds>>

RebuildDiscovering ==
    /\ worker.pc = "discovering"
    /\ SetStatusDiscovering(worker.project)
    /\ WorkerGoes("discover")
    /\ UNCHANGED <<entry, generation, diskVars, chanVars, init, reader, main, bounds>>

\* The two generation checks around discover_scan_stats: passing the second
\* one implies having passed the first.
RebuildDiscover ==
    /\ worker.pc = "discover"
    /\ IF generation = worker.gen THEN WorkerGoes("indexing") ELSE WorkerDone
    /\ UNCHANGED <<stateVars, diskVars, chanVars, init, reader, main, bounds>>

RebuildIndexing ==
    /\ worker.pc = "indexing"
    /\ SetStatusIndexing(worker.project)
    /\ WorkerGoes("check")
    /\ UNCHANGED <<entry, generation, diskVars, chanVars, init, reader, main, bounds>>

RebuildCheck ==
    /\ worker.pc = "check"
    /\ IF generation = worker.gen THEN WorkerGoes("fingerprint") ELSE WorkerDone
    /\ UNCHANGED <<stateVars, diskVars, chanVars, init, reader, main, bounds>>

\* rebuild_and_store_def_index_with_progress: fingerprint, build, write the
\* disk cache; a failed scan leaves an empty list, a failed write is tolerated.
\* The storage directory may be unavailable, which fails the rebuild.
RebuildFingerprint ==
    /\ worker.pc = "fingerprint"
    /\ \/ NoFault /\ worker' = [worker EXCEPT !.pc = "build", !.fps = Scan(WorkerFp)]
       \/ Fault /\ worker' = [worker EXCEPT !.pc = "build", !.fps = None]
       \/ Fault /\ WorkerGoes("failed")
    /\ UNCHANGED <<stateVars, diskVars, chanVars, init, reader, main>>

RebuildBuild ==
    /\ worker.pc = "build"
    /\ worker' = [worker EXCEPT !.pc = "write", !.version = disk]
    /\ UNCHANGED <<stateVars, diskVars, chanVars, init, reader, main, bounds>>

RebuildWrite ==
    /\ worker.pc = "write"
    /\ \/ /\ NoFault
          /\ cache' = [fp |-> WorkerFp, fps |-> worker.fps, version |-> worker.version]
       \/ Fault /\ UNCHANGED cache
    /\ WorkerGoes("rescan")
    /\ UNCHANGED <<stateVars, settings, disk, fsEvent, chanVars, init, reader, main>>

\* cache_state_inputs scans again; if that fails nothing is stored.
RebuildRescan ==
    /\ worker.pc = "rescan"
    /\ \/ NoFault /\ worker' = [worker EXCEPT !.pc = "store", !.fps = Scan(WorkerFp)]
       \/ Fault /\ WorkerGoes("finish")
    /\ UNCHANGED <<stateVars, diskVars, chanVars, init, reader, main>>

RebuildStore ==
    /\ worker.pc = "store"
    /\ Store(EffectiveProject, WorkerFp, worker.fps, worker.version)
    /\ WorkerGoes("finish")
    /\ UNCHANGED <<generation, status, diskVars, chanVars, init, reader, main, bounds>>

RebuildFinish ==
    /\ worker.pc = "finish"
    /\ IF generation = worker.gen THEN WorkerGoes("readBack") ELSE WorkerDone
    /\ UNCHANGED <<stateVars, diskVars, chanVars, init, reader, main, bounds>>

\* The stored index is read back for the status.
RebuildReadBack ==
    /\ worker.pc = "readBack"
    /\ WorkerGoes(IF HasEntry(WorkerFp) THEN "complete" ELSE "completeSummary")
    /\ UNCHANGED <<stateVars, diskVars, chanVars, init, reader, main, bounds>>

RebuildComplete ==
    /\ \/ worker.pc = "complete" /\ SetStatusComplete
       \/ worker.pc = "completeSummary" /\ SetStatusCompleteFromSummary(worker.project)
    /\ NotifyJobCompleted
    /\ WorkerDone
    /\ UNCHANGED <<entry, generation, diskVars, chanVars, init, main, bounds>>

-----------------------------------------------------------------------------
(* execute_file_jobs *)

\* A failed settings read drops the batch.
FilesBegin ==
    /\ worker.pc = "files"
    /\ \/ NoFault /\ worker' = [worker EXCEPT !.pc = "base", !.gen = generation,
                                              !.settings = settings]
       \/ Fault /\ WorkerDone
    /\ UNCHANGED <<stateVars, diskVars, chanVars, init, reader, main>>

\* Without a verified base the batch becomes a full rebuild.
FilesBase ==
    /\ worker.pc = "base"
    /\ worker' = IF HasVerifiedEntry(WorkerFp)
                 THEN [worker EXCEPT !.pc = "running", !.version = entry.version]
                 ELSE [IdleWorker EXCEPT !.pc = "rebuild",
                                         !.project = worker.settings.active]
    /\ UNCHANGED <<stateVars, diskVars, chanVars, init, reader, main, bounds>>

FilesRunning ==
    /\ worker.pc = "running"
    /\ SetStatusRunning(worker.settings.active)
    /\ WorkerGoes("apply")
    /\ UNCHANGED <<entry, generation, diskVars, chanVars, init, reader, main, bounds>>

\* Reading the changed file brings the base to the version on disk; a changed
\* LoadFolders.xml needs a full rebuild instead.
FilesApply ==
    /\ worker.pc = "apply"
    /\ \/ generation # worker.gen /\ WorkerDone
       \/ generation = worker.gen /\ worker' = [worker EXCEPT !.pc = "applied", !.version = disk]
       \/ /\ generation = worker.gen
          /\ worker' = [IdleWorker EXCEPT !.pc = "rebuild", !.project = worker.settings.active]
    /\ UNCHANGED <<stateVars, diskVars, chanVars, init, reader, main, bounds>>

FilesApplied ==
    /\ worker.pc = "applied"
    /\ IF generation = worker.gen THEN WorkerGoes("publish") ELSE WorkerDone
    /\ UNCHANGED <<stateVars, diskVars, chanVars, init, reader, main, bounds>>

FilesPublish ==
    /\ worker.pc = "publish"
    /\ SetStatusComplete
    /\ WorkerGoes("persist")
    /\ UNCHANGED <<entry, generation, diskVars, chanVars, init, reader, main, bounds>>

\* persist_incremental: the whole collection is fingerprinted again.
FilesPersist ==
    /\ worker.pc = "persist"
    /\ \/ NoFault /\ worker' = [worker EXCEPT !.pc = "persistWrite", !.fps = Scan(WorkerFp)]
       \/ Fault /\ worker' = [worker EXCEPT !.pc = "persistWrite", !.fps = None]
    /\ UNCHANGED <<stateVars, diskVars, chanVars, init, reader, main>>

\* A failed write leaves the slot as it was.
FilesPersistWrite ==
    /\ worker.pc = "persistWrite"
    /\ \/ /\ NoFault
          /\ cache' = [fp |-> WorkerFp, fps |-> worker.fps, version |-> worker.version]
          /\ WorkerGoes("persistStore")
          /\ UNCHANGED reader
       \/ /\ Fault
          /\ UNCHANGED cache
          /\ NotifyJobCompleted
          /\ WorkerDone
    /\ UNCHANGED <<stateVars, settings, disk, fsEvent, chanVars, init, main>>

FilesPersistStore ==
    /\ worker.pc = "persistStore"
    /\ Store(worker.settings.active, WorkerFp, worker.fps, worker.version)
    /\ NotifyJobCompleted
    /\ WorkerDone
    /\ UNCHANGED <<generation, status, diskVars, chanVars, init, main, bounds>>

-----------------------------------------------------------------------------
(* schedule_initialization *)

\* Setup, start_background_indexing and Interactive loads read the settings
\* and name a project; an absent one means the active project.
InitRequest(i, p) ==
    /\ init[i].pc = "ready"
    /\ init' = [init EXCEPT ![i].pc = "lookup", ![i].settings = settings, ![i].project = p]
    /\ UNCHANGED <<stateVars, diskVars, chanVars, worker, reader, main, bounds>>

\* should_attempt_initialization: no matching entry, then no job in flight.
InitLookup(i) ==
    /\ init[i].pc = "lookup"
    /\ IF HasEntry(InitFp(i)) THEN InitDone(i) ELSE InitGoes(i, "decide")
    /\ UNCHANGED <<stateVars, diskVars, chanVars, worker, reader, main, bounds>>

InitDecide(i) ==
    /\ init[i].pc = "decide"
    /\ IF RebuildInFlight(init[i].project)
       THEN InitDone(i)
       ELSE init' = [init EXCEPT ![i].pc = "claim", ![i].gen = generation]
    /\ UNCHANGED <<stateVars, diskVars, chanVars, worker, reader, main, bounds>>

\* try_schedule_init
InitClaim(i) ==
    /\ init[i].pc = "claim"
    /\ IF InitKey(i) \in inFlight
       THEN InitDone(i) /\ UNCHANGED inFlight
       ELSE InitGoes(i, "publish") /\ inFlight' = inFlight \cup {InitKey(i)}
    /\ UNCHANGED <<stateVars, diskVars, queue, retries, worker, reader, main, bounds>>

\* Slip: the key stays in the set when the spawn fails.
InitPublishKeepsKey(i) ==
    /\ init[i].pc = "publish"
    /\ SetStatusHydratingCacheIfGenerationMatches(init[i].gen, init[i].project)
    /\ \/ NoFault /\ InitGoes(i, "read")
       \/ Fault /\ InitDone(i)
    /\ UNCHANGED <<entry, generation, diskVars, inFlight, queue, retries, worker, reader, main>>

\* Publish the status, then spawn run_hydration; the spawn may fail.
InitPublish(i) ==
    /\ init[i].pc = "publish"
    /\ SetStatusHydratingCacheIfGenerationMatches(init[i].gen, init[i].project)
    /\ \/ NoFault /\ InitGoes(i, "read") /\ UNCHANGED inFlight
       \/ Fault /\ InitDone(i) /\ inFlight' = inFlight \ {InitKey(i)}
    /\ UNCHANGED <<entry, generation, diskVars, queue, retries, worker, reader, main>>

-----------------------------------------------------------------------------
(* run_hydration *)

\* load_cached_index_unverified: only the settings fingerprint is compared.
HydrateRead(i) ==
    /\ init[i].pc = "read"
    /\ \/ /\ cache # None /\ cache.fp = InitFp(i)
          /\ NoFault
          /\ init' = [init EXCEPT ![i].pc = "store", ![i].fps = cache.fps,
                                  ![i].version = cache.version]
       \/ /\ IF cache # None /\ cache.fp = InitFp(i) THEN Fault ELSE NoFault
          /\ InitGoes(i, "missFinish")
    /\ UNCHANGED <<stateVars, diskVars, chanVars, worker, reader, main>>

HydrateStore(i) ==
    /\ init[i].pc = "store"
    /\ IF MayHydrate(init[i].gen, init[i].project, InitFp(i))
       THEN /\ StoreHydrated(init[i].project, InitFp(i), init[i].fps, init[i].version)
            /\ InitGoes(i, "complete")
       ELSE InitGoes(i, "finish") /\ UNCHANGED entry
    /\ UNCHANGED <<generation, status, diskVars, chanVars, worker, reader, main, bounds>>

HydrateComplete(i) ==
    /\ init[i].pc = "complete"
    /\ IF MayComplete(init[i].gen, InitFp(i))
       THEN SetStatusCompleteForProject(init[i].project) /\ InitGoes(i, "enqueue")
       ELSE InitGoes(i, "remove") /\ UNCHANGED status
    /\ UNCHANGED <<entry, generation, diskVars, chanVars, worker, reader, main, bounds>>

HydrateEnqueue(i) ==
    /\ init[i].pc = "enqueue"
    /\ Enqueue(VerifyJob(init[i].project, init[i].gen, InitFp(i), 0))
    /\ InitGoes(i, "finish")
    /\ UNCHANGED <<stateVars, diskVars, retries, inFlight, worker, reader, main, bounds>>

HydrateRemove(i) ==
    /\ init[i].pc = "remove"
    /\ RemoveUnverifiedEntry(InitFp(i))
    /\ InitGoes(i, "finish")
    /\ UNCHANGED <<generation, status, diskVars, chanVars, worker, reader, main, bounds>>

HydrateFinish(i) ==
    /\ init[i].pc = "finish"
    /\ inFlight' = inFlight \ {InitKey(i)}
    /\ InitDone(i)
    /\ UNCHANGED <<stateVars, diskVars, queue, retries, worker, reader, main, bounds>>

HydrateMissFinish(i) ==
    /\ init[i].pc = "missFinish"
    /\ inFlight' = inFlight \ {InitKey(i)}
    /\ InitGoes(i, "missCheck")
    /\ UNCHANGED <<stateVars, diskVars, queue, retries, worker, reader, main, bounds>>

HydrateMissCheck(i) ==
    /\ init[i].pc = "missCheck"
    /\ IF generation = init[i].gen THEN InitGoes(i, "missPending") ELSE InitDone(i)
    /\ UNCHANGED <<stateVars, diskVars, chanVars, worker, reader, main, bounds>>

HydrateMissPending(i) ==
    /\ init[i].pc = "missPending"
    /\ SetStatusPending(init[i].project)
    /\ InitGoes(i, "missEnqueue")
    /\ UNCHANGED <<entry, generation, diskVars, chanVars, worker, reader, main, bounds>>

HydrateMissEnqueue(i) ==
    /\ init[i].pc = "missEnqueue"
    /\ IF generation = init[i].gen
       THEN Enqueue(FullRebuildJob(init[i].project, init[i].gen)) ELSE UNCHANGED queue
    /\ InitDone(i)
    /\ UNCHANGED <<stateVars, diskVars, retries, inFlight, worker, reader, main, bounds>>

-----------------------------------------------------------------------------
(* load_for_project (RequireFresh), and rebuild_for_project for the command *)
(* that forces a rebuild                                                    *)

ReaderRequest(r, p, pc) ==
    /\ reader[r].pc = "ready"
    /\ pc \in {"hot", "fingerprint"}
    /\ reader' = [reader EXCEPT ![r].pc = pc, ![r].settings = settings, ![r].project = p]
    /\ UNCHANGED <<stateVars, diskVars, chanVars, worker, init, main, bounds>>

ReaderHot(r) ==
    /\ reader[r].pc = "hot"
    /\ IF HasVerifiedEntry(ReaderFp(r)) THEN ReaderDone(r) ELSE ReaderGoes(r, "inFlight")
    /\ UNCHANGED <<stateVars, diskVars, chanVars, worker, init, main, bounds>>

\* wait_for_in_flight_job: a running verification shows as Checking.
JobInFlight(p) ==
    /\ status.phase \in {"Pending", "Running"} \/ status.verification = "Checking"
    /\ status.generation = generation
    /\ status.project = p

ReaderInFlight(r) ==
    /\ reader[r].pc = "inFlight"
    /\ ReaderGoes(r, IF JobInFlight(reader[r].project) THEN "register" ELSE "last")
    /\ UNCHANGED <<stateVars, diskVars, chanVars, worker, init, main, bounds>>

\* Slip: the slot is not read again after registering.
ReaderRegisterUnchecked(r) ==
    /\ reader[r].pc = "register"
    /\ reader' = [reader EXCEPT ![r].pc = "waiting", ![r].notified = FALSE]
    /\ UNCHANGED <<stateVars, diskVars, chanVars, worker, init, main, bounds>>

ReaderRegister(r) ==
    /\ reader[r].pc = "register"
    /\ reader' = [reader EXCEPT ![r].pc = "check", ![r].notified = FALSE]
    /\ UNCHANGED <<stateVars, diskVars, chanVars, worker, init, main, bounds>>

ReaderCheck(r) ==
    /\ reader[r].pc = "check"
    /\ IF HasVerifiedEntry(ReaderFp(r)) THEN ReaderDone(r) ELSE ReaderGoes(r, "waiting")
    /\ UNCHANGED <<stateVars, diskVars, chanVars, worker, init, main, bounds>>

ReaderWake(r) ==
    /\ reader[r].pc = "waiting" /\ reader[r].notified
    /\ ReaderGoes(r, "inFlight")
    /\ UNCHANGED <<stateVars, diskVars, chanVars, worker, init, main, bounds>>

\* The 30 second timeout.
ReaderTimeout(r) ==
    /\ reader[r].pc = "waiting" /\ ~reader[r].notified
    /\ ReaderGoes(r, "last")
    /\ UNCHANGED <<stateVars, diskVars, chanVars, worker, init, main, bounds>>

ReaderLast(r) ==
    /\ reader[r].pc = "last"
    /\ IF HasVerifiedEntry(ReaderFp(r)) THEN ReaderDone(r) ELSE ReaderGoes(r, "cache")
    /\ UNCHANGED <<stateVars, diskVars, chanVars, worker, init, main, bounds>>

\* load_cached_index_only compares the stored fingerprints with a fresh scan; an
\* unreadable cache is a miss, an unavailable storage directory an error.
ReaderCache(r) ==
    /\ reader[r].pc = "cache"
    /\ \/ /\ cache # None /\ cache.fp = ReaderFp(r) /\ cache.fps = Scan(ReaderFp(r))
          /\ NoFault
          /\ reader' = [reader EXCEPT ![r].pc = "rescan", ![r].version = cache.version]
       \/ /\ ~(cache # None /\ cache.fp = ReaderFp(r) /\ cache.fps = Scan(ReaderFp(r)))
          /\ NoFault
          /\ ReaderGoes(r, "fingerprint")
       \/ Fault /\ (ReaderGoes(r, "fingerprint") \/ ReaderDone(r))
    /\ UNCHANGED <<stateVars, diskVars, chanVars, worker, init, main>>

ReaderFingerprint(r) ==
    /\ reader[r].pc = "fingerprint"
    /\ \/ NoFault /\ reader' = [reader EXCEPT ![r].pc = "build", ![r].fps = Scan(ReaderFp(r))]
       \/ Fault /\ reader' = [reader EXCEPT ![r].pc = "build", ![r].fps = None]
    /\ UNCHANGED <<stateVars, diskVars, chanVars, worker, init, main>>

ReaderBuild(r) ==
    /\ reader[r].pc = "build"
    /\ reader' = [reader EXCEPT ![r].pc = "write", ![r].version = disk]
    /\ UNCHANGED <<stateVars, diskVars, chanVars, worker, init, main, bounds>>

ReaderWrite(r) ==
    /\ reader[r].pc = "write"
    /\ \/ /\ NoFault
          /\ cache' = [fp |-> ReaderFp(r), fps |-> reader[r].fps,
                       version |-> reader[r].version]
       \/ Fault /\ UNCHANGED cache
    /\ ReaderGoes(r, "rescan")
    /\ UNCHANGED <<stateVars, settings, disk, fsEvent, chanVars, worker, init, main>>

ReaderRescan(r) ==
    /\ reader[r].pc = "rescan"
    /\ \/ NoFault /\ reader' = [reader EXCEPT ![r].pc = "store", ![r].fps = Scan(ReaderFp(r))]
       \/ Fault /\ ReaderDone(r)
    /\ UNCHANGED <<stateVars, diskVars, chanVars, worker, init, main>>

ReaderStore(r) ==
    /\ reader[r].pc = "store"
    /\ Store(reader[r].project, ReaderFp(r), reader[r].fps, reader[r].version)
    /\ ReaderDone(r)
    /\ UNCHANGED <<generation, status, diskVars, chanVars, worker, init, main, bounds>>

-----------------------------------------------------------------------------
(* The main thread: settings commands, and queries that miss *)

\* upsert, update, remove, set_active_project, ...: load, modify, save. The
\* indexed locations need not change.
SaveSettings(s) ==
    /\ main.pc = "idle" /\ generation < MaxGeneration
    /\ settings' = s
    /\ MainGoes("bump")
    /\ UNCHANGED <<stateVars, disk, cache, fsEvent, chanVars, worker, init, reader, bounds>>

\* trigger_settings_reindex: restart_for_settings ...
RestartForSettings ==
    /\ main.pc = "bump"
    /\ IncrementGeneration
    /\ MainGoes("reindex")
    /\ UNCHANGED <<entry, status, diskVars, chanVars, worker, init, reader, bounds>>

\* Slip: the job carries the generation read before the change.
EnqueueReindexStale ==
    /\ main.pc = "reindex"
    /\ IF settings.active # None
       THEN Enqueue(FullRebuildJob(settings.active, generation - 1)) ELSE UNCHANGED queue
    /\ main' = IdleMain
    /\ UNCHANGED <<stateVars, diskVars, retries, inFlight, worker, init, reader, bounds>>

\* ... then a rebuild of the active project, if there is one.
EnqueueReindex ==
    /\ main.pc = "reindex"
    /\ IF settings.active # None
       THEN Enqueue(FullRebuildJob(settings.active, generation)) ELSE UNCHANGED queue
    /\ main' = IdleMain
    /\ UNCHANGED <<stateVars, diskVars, retries, inFlight, worker, init, reader, bounds>>

\* load_for_project_query: nothing to serve for p, not even a stale index ...
QueryMiss(p) ==
    /\ main.pc = "idle" /\ Len(queue) < MaxQueue
    /\ ~HasEntry(SettingsFingerprint(settings, p)) /\ ~HasEntryFor(p)
    /\ main' = [pc |-> "query", project |-> p]
    /\ UNCHANGED <<stateVars, diskVars, chanVars, worker, init, reader, bounds>>

\* ... so ask for a rebuild, unless one is under way.
QueryEnqueue ==
    /\ main.pc = "query"
    /\ IF RebuildInFlight(main.project) THEN UNCHANGED queue
       ELSE Enqueue(FullRebuildJob(main.project, generation))
    /\ main' = IdleMain
    /\ UNCHANGED <<stateVars, diskVars, retries, inFlight, worker, init, reader, bounds>>

-----------------------------------------------------------------------------
(* The collection *)

\* Another program writes an indexed file.
ExternalEdit ==
    /\ disk < MaxEdits
    /\ disk' = disk + 1 /\ fsEvent' = TRUE
    /\ UNCHANGED <<stateVars, settings, cache, chanVars, worker, init, reader, main, bounds>>

\* RimEdit writes one and enqueues the change itself; the watcher sees it too.
SaveFile ==
    /\ disk < MaxEdits /\ Len(queue) < MaxQueue
    /\ disk' = disk + 1 /\ fsEvent' = TRUE
    /\ Enqueue(FileJob(generation))
    /\ UNCHANGED <<stateVars, settings, cache, retries, inFlight, worker, init, reader,
                   main, bounds>>

\* A folder renamed in the project explorer asks for a full rebuild.
RenameFolder(p) ==
    /\ disk < MaxEdits /\ Len(queue) < MaxQueue
    /\ disk' = disk + 1 /\ fsEvent' = TRUE
    /\ Enqueue(FullRebuildJob(p, generation))
    /\ UNCHANGED <<stateVars, settings, cache, retries, inFlight, worker, init, reader,
                   main, bounds>>

-----------------------------------------------------------------------------

\* What a new process starts with, right after setup's restart_for_settings.
Fresh ==
    /\ entry = None /\ generation = 1 /\ status = IdleStatus
    /\ fsEvent = FALSE /\ queue = <<>> /\ retries = {} /\ inFlight = {}
    /\ worker = IdleWorker
    /\ init = [i \in Inits |-> ReadyInit]
    /\ reader = [r \in Readers |-> ReadyReader]
    /\ main = IdleMain

\* The disk cache, if any, was written for some settings; the collection may
\* have been edited since.
Init ==
    /\ Fresh
    /\ settings \in Settings
    /\ cache \in [fp: SettingsFingerprints,
                  fps: {[fp |-> SettingsFingerprint(s, p), version |-> 0] :
                           s \in Settings, p \in ProjectIds},
                  version: {0}] \cup {None}
    /\ cache # None => cache.fps.fp = cache.fp
    /\ disk \in {0, 1}
    /\ faults = 0 /\ restarts = 0

\* The application is closed or killed and started again.
Restart ==
    /\ restarts < MaxRestarts
    /\ restarts' = restarts + 1
    /\ entry' = None /\ generation' = 1 /\ status' = IdleStatus
    /\ fsEvent' = FALSE /\ queue' = <<>> /\ retries' = {} /\ inFlight' = {}
    /\ worker' = IdleWorker
    /\ init' = [i \in Inits |-> ReadyInit]
    /\ reader' = [r \in Readers |-> ReadyReader]
    /\ main' = IdleMain
    /\ UNCHANGED <<settings, disk, cache, faults>>

WorkerNext ==
    \/ WorkerReceive \/ WorkerDrainDebouncer \/ WorkerMembershipChanged
    \/ WorkerNextFiles
    \/ \E job \in worker.verify : VerifyStart(job)
    \/ VerifyLoadSettings \/ VerifyScan \/ VerifyRecheck \/ VerifyConfirm
    \/ VerifyScanFailed \/ VerifyInvalidate \/ VerifyHandoffCheck
    \/ VerifyHandoffPending \/ VerifyHandoffEnqueue
    \/ RebuildBegin \/ RebuildPending \/ RebuildLoadSettings \/ RebuildFailed
    \/ RebuildPublishFailed \/ RebuildDiscovering \/ RebuildDiscover
    \/ RebuildIndexing \/ RebuildCheck \/ RebuildFingerprint \/ RebuildBuild
    \/ RebuildWrite \/ RebuildRescan \/ RebuildStore \/ RebuildFinish
    \/ RebuildReadBack \/ RebuildComplete
    \/ FilesBegin \/ FilesBase \/ FilesRunning \/ FilesApply \/ FilesApplied
    \/ FilesPublish \/ FilesPersist \/ FilesPersistWrite \/ FilesPersistStore

InitNext(i) ==
    \/ InitLookup(i) \/ InitDecide(i) \/ InitClaim(i) \/ InitPublish(i)
    \/ HydrateRead(i) \/ HydrateStore(i) \/ HydrateComplete(i)
    \/ HydrateEnqueue(i) \/ HydrateRemove(i) \/ HydrateFinish(i)
    \/ HydrateMissFinish(i) \/ HydrateMissCheck(i) \/ HydrateMissPending(i)
    \/ HydrateMissEnqueue(i)

ReaderNext(r) ==
    \/ ReaderHot(r) \/ ReaderInFlight(r) \/ ReaderRegister(r) \/ ReaderCheck(r)
    \/ ReaderWake(r) \/ ReaderTimeout(r) \/ ReaderLast(r) \/ ReaderCache(r)
    \/ ReaderFingerprint(r) \/ ReaderBuild(r) \/ ReaderWrite(r)
    \/ ReaderRescan(r) \/ ReaderStore(r)

MainNext == RestartForSettings \/ EnqueueReindex \/ QueryEnqueue

RetryNext == \E job \in retries : VerifyRetry(job)

Environment ==
    \/ \E s \in Settings : SaveSettings(s)
    \/ \E p \in Projects : QueryMiss(p) \/ RenameFolder(p)
    \/ ExternalEdit \/ SaveFile
    \/ \E i \in Inits : \E p \in Projects \cup {settings.active} : InitRequest(i, p)
    \/ \E r \in Readers, p \in Projects, pc \in {"hot", "fingerprint"} :
          ReaderRequest(r, p, pc)
    \/ Restart

Next ==
    \/ WorkerNext \/ MainNext \/ RetryNext \/ Environment
    \/ \E i \in Inits : InitNext(i)
    \/ \E r \in Readers : ReaderNext(r)

Spec == Init /\ [][Next]_vars

\* Every started task runs on: the worker and the commands on tokio's pool, a
\* hydration on a thread of its own, a retry on a timer. What users and other
\* programs do is not fair.
Fairness ==
    /\ WF_vars(WorkerNext) /\ WF_vars(MainNext) /\ WF_vars(RetryNext)
    /\ \A i \in Inits : WF_vars(InitNext(i))
    /\ \A r \in Readers : WF_vars(ReaderNext(r))

FairSpec == Spec /\ Fairness

-----------------------------------------------------------------------------
(* Properties *)

\* Nothing is left that would change the slot or the status.
Quiescent ==
    /\ queue = <<>> /\ retries = {} /\ ~fsEvent
    /\ worker.pc = "idle" /\ main.pc = "idle"
    /\ \A i \in Inits : init[i].pc \in {"ready", "done"}
    /\ \A r \in Readers : reader[r].pc \in {"ready", "done"}

ActiveFp == SettingsFingerprint(settings, settings.active)

\* A verified entry is known-fresh (state.rs, DefIndexStateEntry::verified):
\* once every event, job and task is dealt with, the verified index of the
\* active project is the one on disk.
QuiescentFresh ==
    Quiescent /\ settings.active # None /\ HasVerifiedEntry(ActiveFp) => entry.version = disk

\* An unverified hydration of the active project is never stranded: when
\* nothing is left to run, its entry has been verified or replaced.
QuiescentVerified ==
    Quiescent /\ settings.active # None /\ HasEntry(ActiveFp) => entry.verified

\* At most one initialization holds a key, and exactly the held keys are in
\* in_flight_init: none leaks, none is released under its owner.
Holding(i) == init[i].pc \in {"publish", "read", "store", "complete", "enqueue",
                              "remove", "finish", "missFinish"}

SingleFlight ==
    /\ inFlight = {InitKey(i) : i \in {j \in Inits : Holding(j)}}
    /\ \A i, j \in Inits :
          Holding(i) /\ Holding(j) /\ InitKey(i) = InitKey(j) => i = j

\* The verification of an older entry never takes a fresher one with it: a verified entry
\* goes only when it is not what is on disk, when the settings are no longer the ones it
\* was built for (or about to change), or when nothing could be scanned; and no hydration
\* takes its place (def_index_cache.rs, invalidate_entry_and_rebuild; state.rs,
\* store_if_generation_matches).
VerifiedKept ==
    [][restarts' = restarts /\ entry # None /\ entry.verified =>
         IF entry' = None
         THEN \/ entry.fps # Scan(entry.fp)
              \/ entry.fp.rev # settings.rev \/ main.pc = "bump"
              \/ faults > 0
         ELSE entry'.fp = entry.fp => entry'.verified]_vars

\* No lost wake-up: while a load waits for a job, the index it wants is either
\* not there or still has a completion to be announced by the worker.
NoLostWakeup ==
    \A r \in Readers :
        reader[r].pc = "waiting" /\ ~reader[r].notified /\ HasVerifiedEntry(ReaderFp(r))
            => worker.pc # "idle" \/ queue # <<>> \/ main.pc # "idle"

\* Whatever fails, the service comes to rest: a verification and the rebuild it
\* asks for do not chase each other, a retry is not retried for ever, a load
\* does not wait for ever.
Settles == <>[]Quiescent

\* After a settings change the active project ends up with a verified index of
\* what is on disk, for good, whatever was running or edited meanwhile.
Converges ==
    <>[](generation > 1 /\ settings.active # None
            => HasVerifiedEntry(ActiveFp) /\ entry.version = disk)

=============================================================================
