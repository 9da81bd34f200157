------------------------- MODULE IndexingService_proofs -------------------------
(***************************************************************************)
(* Theorems about IndexingService, for every value of its constants.       *)
(*                                                                         *)
(* First what the data constructors and the update operators return, then  *)
(* type correctness, then the single-flight claim of an initialization,    *)
(* then that a verified index is kept, then what holds at rest.            *)
(* TypeOK is not inductive: a fingerprint is computed from the settings a  *)
(* process has loaded, and only SettingsLoaded says that it has.           *)
(***************************************************************************)
EXTENDS IndexingService, TLAPS

\* Where the worker uses the settings it has loaded.
SettingsPcs == {"discovering", "discover", "indexing", "check", "fingerprint", "build",
                "write", "rescan", "store", "base", "running", "apply", "applied",
                "publish", "persist", "persistWrite", "persistStore"}

WorkerLoaded == worker.pc \in SettingsPcs => worker.settings \in Settings

InitLoaded ==
    \A i \in Inits : init[i].pc \notin {"ready", "done"} => init[i].settings \in Settings

ReaderLoaded ==
    \A r \in Readers :
        reader[r].pc \notin {"ready", "done"} => reader[r].settings \in Settings

SettingsLoaded == WorkerLoaded /\ InitLoaded /\ ReaderLoaded

TypeInv == TypeOK /\ SettingsLoaded

-----------------------------------------------------------------------------
(* Data *)

\* What every process starts with has its type.
LEMMA StartTypes ==
    /\ IdleStatus \in Statuses
    /\ IdleWorker \in Workers /\ IdleWorker.pc = "idle"
    /\ ReadyInit \in InitStates /\ DoneInit \in InitStates
    /\ ReadyInit.pc = "ready" /\ DoneInit.pc = "done"
    /\ ReadyReader \in ReaderStates /\ DoneReader \in ReaderStates
    /\ ReadyReader.pc = "ready" /\ DoneReader.pc = "done"
    /\ IdleMain \in [pc: {"idle", "bump", "reindex", "query"}, project: ProjectIds]
<1>1. IdleStatus \in Statuses
  BY DEF IdleStatus, Statuses, ProjectIds
<1>2. 0 \in Attempts
  BY BoundsAssumption DEF Attempts
<1>3. None \in ProjectIds /\ None \in FileFingerprints
  BY DEF ProjectIds, FileFingerprints
<1>4. IdleWorker \in Workers /\ IdleWorker.pc = "idle"
  BY <1>2, <1>3 DEF IdleWorker, Workers, WorkerPcs
<1>5. /\ ReadyInit \in InitStates /\ DoneInit \in InitStates
      /\ ReadyInit.pc = "ready" /\ DoneInit.pc = "done"
  BY <1>3 DEF ReadyInit, DoneInit, InitStates, InitPcs
<1>6. /\ ReadyReader \in ReaderStates /\ DoneReader \in ReaderStates
      /\ ReadyReader.pc = "ready" /\ DoneReader.pc = "done"
  BY <1>3 DEF ReadyReader, DoneReader, ReaderStates, ReaderPcs
<1>7. IdleMain \in [pc: {"idle", "bump", "reindex", "query"}, project: ProjectIds]
  BY <1>3 DEF IdleMain
<1> QED
  BY <1>1, <1>4, <1>5, <1>6, <1>7

\* Loaded settings and a project give a fingerprint; a scan of it is a list.
LEMMA FingerprintType ==
    ASSUME NEW s \in Settings, NEW p \in ProjectIds
    PROVE  SettingsFingerprint(s, p) \in SettingsFingerprints
  BY DEF SettingsFingerprint, Settings, SettingsFingerprints

LEMMA ScanType ==
    ASSUME disk \in Nat, NEW fp \in SettingsFingerprints
    PROVE  Scan(fp) \in FileFingerprints
  BY DEF Scan, FileFingerprints

LEMMA ActiveType ==
    ASSUME NEW s \in Settings
    PROVE  s.active \in ProjectIds
  BY ProjectsAssumption DEF Settings, ProjectIds

LEMMA NewEntryType ==
    ASSUME NEW p \in ProjectIds, NEW fp \in SettingsFingerprints,
           NEW fps \in FileFingerprints, NEW v \in Nat, NEW verified \in BOOLEAN
    PROVE  NewEntry(p, fp, fps, v, verified) \in Entries
  BY DEF NewEntry, Entries

LEMMA CacheFileType ==
    ASSUME NEW fp \in SettingsFingerprints, NEW fps \in FileFingerprints, NEW v \in Nat
    PROVE  [fp |-> fp, fps |-> fps, version |-> v] \in CacheFiles
  BY DEF CacheFiles

LEMMA StatusType ==
    ASSUME generation \in Nat, NEW p \in ProjectIds,
           NEW phase \in {"Idle", "Pending", "Running", "Complete", "Failed"},
           NEW verification \in {"NotRequired", "Checking", "Verified"}
    PROVE  StatusOf(p, phase, verification) \in Statuses
  BY DEF StatusOf, Statuses

LEMMA FullRebuildJobType ==
    ASSUME NEW p \in ProjectIds, NEW g \in Nat
    PROVE  FullRebuildJob(p, g) \in Jobs
  BY BoundsAssumption DEF FullRebuildJob, Jobs, Attempts

LEMMA VerifyJobType ==
    ASSUME NEW p \in ProjectIds, NEW g \in Nat,
           NEW fp \in SettingsFingerprints \cup {None}, NEW a \in Attempts
    PROVE  VerifyJob(p, g, fp, a) \in Jobs
  BY DEF VerifyJob, Jobs

LEMMA FileJobType ==
    ASSUME NEW g \in Nat
    PROVE  FileJob(g) \in Jobs
  BY BoundsAssumption DEF FileJob, Jobs, Attempts, ProjectIds

\* The fields of a state of the worker, and what it computes from them.
LEMMA WorkerFields ==
    ASSUME worker \in Workers
    PROVE  /\ worker.project \in ProjectIds /\ worker.gen \in Nat
           /\ worker.fp \in SettingsFingerprints \cup {None}
           /\ worker.attempt \in Attempts /\ worker.fps \in FileFingerprints
           /\ worker.version \in Nat /\ worker.verify \in SUBSET Jobs
           /\ worker.files \in BOOLEAN
  BY DEF Workers

LEMMA WorkerFpType ==
    ASSUME worker \in Workers, worker.settings \in Settings
    PROVE  /\ EffectiveProject \in ProjectIds
           /\ worker.settings.active \in ProjectIds
           /\ WorkerFp \in SettingsFingerprints
  BY WorkerFields, FingerprintType, ActiveType DEF EffectiveProject, WorkerFp

LEMMA InitFields ==
    ASSUME init \in [Inits -> InitStates], InitLoaded, NEW i \in Inits
    PROVE  /\ init[i] \in InitStates
           /\ init[i].project \in ProjectIds /\ init[i].gen \in Nat
           /\ init[i].fps \in FileFingerprints /\ init[i].version \in Nat
           /\ init[i].pc \notin {"ready", "done"} =>
                InitFp(i) \in SettingsFingerprints /\ InitKey(i) \in Keys
<1>1. init[i] \in InitStates
  OBVIOUS
<1>2. /\ init[i].project \in ProjectIds /\ init[i].gen \in Nat
      /\ init[i].fps \in FileFingerprints /\ init[i].version \in Nat
  BY <1>1 DEF InitStates
<1>3. ASSUME init[i].pc \notin {"ready", "done"}
      PROVE  InitFp(i) \in SettingsFingerprints /\ InitKey(i) \in Keys
  BY <1>2, <1>3, FingerprintType DEF InitLoaded, InitFp, InitKey, Keys
<1> QED
  BY <1>1, <1>2, <1>3

LEMMA ReaderFields ==
    ASSUME reader \in [Readers -> ReaderStates], ReaderLoaded, NEW r \in Readers
    PROVE  /\ reader[r] \in ReaderStates
           /\ reader[r].project \in ProjectIds
           /\ reader[r].fps \in FileFingerprints /\ reader[r].version \in Nat
           /\ reader[r].pc \notin {"ready", "done"} => ReaderFp(r) \in SettingsFingerprints
<1>1. reader[r] \in ReaderStates
  OBVIOUS
<1>2. /\ reader[r].project \in ProjectIds
      /\ reader[r].fps \in FileFingerprints /\ reader[r].version \in Nat
  BY <1>1 DEF ReaderStates
<1>3. ASSUME reader[r].pc \notin {"ready", "done"}
      PROVE  ReaderFp(r) \in SettingsFingerprints
  BY <1>2, <1>3, FingerprintType DEF ReaderLoaded, ReaderFp
<1> QED
  BY <1>1, <1>2, <1>3

-----------------------------------------------------------------------------
(* Updates *)

LEMMA EnqueueType ==
    ASSUME queue \in Seq(Jobs), NEW job \in Jobs, Enqueue(job)
    PROVE  queue' \in Seq(Jobs)
  BY DEF Enqueue

LEMMA WorkerGoesType ==
    ASSUME worker \in Workers, NEW pc \in WorkerPcs, WorkerGoes(pc),
           pc \in SettingsPcs => worker.settings \in Settings
    PROVE  worker' \in Workers /\ WorkerLoaded'
  BY DEF WorkerGoes, Workers, WorkerLoaded

LEMMA WorkerDoneType ==
    ASSUME worker \in Workers, WorkerDone
    PROVE  worker' \in Workers /\ WorkerLoaded'
<1>1. PICK pc \in {"idle", "batch"}, verify \in SUBSET Jobs, files \in BOOLEAN :
        worker' = [IdleWorker EXCEPT !.pc = pc, !.verify = verify, !.files = files]
  <2>1. worker.verify \in SUBSET Jobs /\ worker.files \in BOOLEAN
    BY WorkerFields
  <2> QED
    BY <2>1 DEF WorkerDone
<1>2. worker' \in Workers
  BY <1>1, StartTypes DEF Workers, WorkerPcs
<1>3. worker'.pc \in {"idle", "batch"}
  BY <1>1, StartTypes DEF Workers
<1> QED
  BY <1>2, <1>3 DEF WorkerLoaded, SettingsPcs

\* A new state of one initialization, or of one load, keeps the others'.
LEMMA InitSetType ==
    ASSUME init \in [Inits -> InitStates], InitLoaded, NEW i \in Inits,
           NEW x \in InitStates, init' = [init EXCEPT ![i] = x],
           x.pc \notin {"ready", "done"} => x.settings \in Settings
    PROVE  init' \in [Inits -> InitStates] /\ InitLoaded'
  BY DEF InitLoaded

LEMMA InitGoesType ==
    ASSUME init \in [Inits -> InitStates], InitLoaded, NEW i \in Inits,
           init[i].pc \notin {"ready", "done"}, NEW pc \in InitPcs, InitGoes(i, pc)
    PROVE  init' \in [Inits -> InitStates] /\ InitLoaded'
<1> DEFINE x == [init[i] EXCEPT !.pc = pc]
<1>1. init' = [init EXCEPT ![i] = x]
  BY DEF InitGoes
<1>2. x \in InitStates /\ x.settings \in Settings
  BY InitFields DEF InitStates, InitLoaded
<1> QED
  BY <1>1, <1>2, InitSetType

LEMMA InitDoneType ==
    ASSUME init \in [Inits -> InitStates], InitLoaded, NEW i \in Inits, InitDone(i)
    PROVE  init' \in [Inits -> InitStates] /\ InitLoaded'
  BY StartTypes, InitSetType DEF InitDone

LEMMA ReaderSetType ==
    ASSUME reader \in [Readers -> ReaderStates], ReaderLoaded, NEW r \in Readers,
           NEW x \in ReaderStates, reader' = [reader EXCEPT ![r] = x],
           x.pc \notin {"ready", "done"} => x.settings \in Settings
    PROVE  reader' \in [Readers -> ReaderStates] /\ ReaderLoaded'
  BY DEF ReaderLoaded

LEMMA ReaderGoesType ==
    ASSUME reader \in [Readers -> ReaderStates], ReaderLoaded, NEW r \in Readers,
           reader[r].pc \notin {"ready", "done"}, NEW pc \in ReaderPcs, ReaderGoes(r, pc)
    PROVE  reader' \in [Readers -> ReaderStates] /\ ReaderLoaded'
<1> DEFINE x == [reader[r] EXCEPT !.pc = pc]
<1>1. reader' = [reader EXCEPT ![r] = x]
  BY DEF ReaderGoes
<1>2. x \in ReaderStates /\ x.settings \in Settings
  BY ReaderFields DEF ReaderStates, ReaderLoaded
<1> QED
  BY <1>1, <1>2, ReaderSetType

LEMMA ReaderDoneType ==
    ASSUME reader \in [Readers -> ReaderStates], ReaderLoaded, NEW r \in Readers,
           ReaderDone(r)
    PROVE  reader' \in [Readers -> ReaderStates] /\ ReaderLoaded'
  BY StartTypes, ReaderSetType DEF ReaderDone

LEMMA NotifyType ==
    ASSUME reader \in [Readers -> ReaderStates], ReaderLoaded, NotifyJobCompleted
    PROVE  reader' \in [Readers -> ReaderStates] /\ ReaderLoaded'
  BY DEF NotifyJobCompleted, ReaderStates, ReaderLoaded

LEMMA FaultType ==
    ASSUME faults \in Nat, restarts \in Nat, Fault \/ NoFault
    PROVE  faults' \in Nat /\ restarts' \in Nat
  BY DEF Fault, NoFault, bounds

LEMMA LoadedFrame ==
    /\ WorkerLoaded /\ UNCHANGED worker => WorkerLoaded'
    /\ InitLoaded /\ UNCHANGED init => InitLoaded'
    /\ ReaderLoaded /\ UNCHANGED reader => ReaderLoaded'
  BY DEF WorkerLoaded, InitLoaded, ReaderLoaded

LEMMA NoneType ==
    None \in ProjectIds /\ None \in FileFingerprints
  BY DEF ProjectIds, FileFingerprints

-----------------------------------------------------------------------------
(* Type correctness: one step per action. *)

LEMMA WorkerTypeStep ==
    ASSUME TypeInv, WorkerNext
    PROVE  TypeInv'
<1> USE DEF TypeInv, TypeOK, StateTypeOK, SettingsLoaded, stateVars, diskVars,
            chanVars, bounds
<1>1. ASSUME WorkerReceive
      PROVE  TypeInv'
  <2>1. \A i \in DOMAIN queue : queue[i] \in Jobs /\ queue[i].project \in ProjectIds
    <3>1. \A i \in DOMAIN queue : queue[i] \in Jobs
      OBVIOUS
    <3> QED
      BY <3>1 DEF Jobs
  <2>2. LiveVerifications \in SUBSET Jobs
    BY <2>1 DEF LiveVerifications
  <2>3. ASSUME \E i \in DOMAIN queue :
               /\ FirstRebuild(i)
               /\ worker' = [IdleWorker EXCEPT !.pc = "rebuild",
                                               !.project = queue[i].project]
        PROVE  worker' \in Workers /\ WorkerLoaded'
    <3>1. PICK i \in DOMAIN queue :
            worker' = [IdleWorker EXCEPT !.pc = "rebuild", !.project = queue[i].project]
      BY <2>3
    <3>2. IdleWorker \in Workers /\ queue[i].project \in ProjectIds
      BY <2>1, StartTypes
    <3>3. worker' \in Workers
      BY <3>1, <3>2 DEF Workers, WorkerPcs
    <3>4. worker'.pc = "rebuild"
      BY <3>1, <3>2 DEF Workers
    <3> QED
      BY <3>3, <3>4 DEF WorkerLoaded, SettingsPcs
  <2>4. ASSUME worker' = [IdleWorker EXCEPT !.pc = "batch", !.verify = LiveVerifications,
                                          !.files = HasLiveFileJob]
        PROVE  worker' \in Workers /\ WorkerLoaded'
    <3>1. HasLiveFileJob \in BOOLEAN
      BY DEF HasLiveFileJob
    <3>2. PICK js \in SUBSET Jobs, b \in BOOLEAN :
            worker' = [IdleWorker EXCEPT !.pc = "batch", !.verify = js, !.files = b]
      BY <2>2, <2>4, <3>1
    <3>3. worker'.pc = "batch"
      BY <3>2, StartTypes DEF Workers
    <3>4. worker' \in Workers
      BY <3>2, StartTypes, Zenon DEF Workers, WorkerPcs
    <3> QED
      BY <3>3, <3>4 DEF WorkerLoaded, SettingsPcs
  <2>5. worker' \in Workers /\ WorkerLoaded'
    BY <1>1, <2>3, <2>4, LoadedFrame DEF WorkerReceive
  <2>6. queue' \in Seq(Jobs)
    <3>1. <<>> \in Seq(Jobs)
      OBVIOUS
    <3> QED
      BY <1>1, <3>1 DEF WorkerReceive
  <2> QED
    BY <1>1, <2>5, <2>6, LoadedFrame DEF WorkerReceive
<1>2. ASSUME WorkerDrainDebouncer
      PROVE  TypeInv'
  <2>1. worker' \in Workers /\ WorkerLoaded'
    BY <1>2, WorkerFields, StartTypes
       DEF WorkerDrainDebouncer, WorkerLoaded, WorkerPcs, SettingsPcs, Workers
  <2> QED
    BY <1>2, <2>1, LoadedFrame
       DEF WorkerDrainDebouncer
<1>3. ASSUME WorkerMembershipChanged
      PROVE  TypeInv'
  <2>1. worker' \in Workers /\ WorkerLoaded'
    BY <1>3, WorkerFields, StartTypes
       DEF WorkerMembershipChanged, WorkerLoaded, WorkerPcs, SettingsPcs, Workers
  <2> QED
    BY <1>3, <2>1, LoadedFrame
       DEF WorkerMembershipChanged
<1>4. ASSUME WorkerNextFiles
      PROVE  TypeInv'
  <2>1. worker' \in Workers /\ WorkerLoaded'
    BY <1>4, WorkerFields, StartTypes
       DEF WorkerNextFiles, WorkerLoaded, WorkerPcs, SettingsPcs, Workers
  <2> QED
    BY <1>4, <2>1, LoadedFrame
       DEF WorkerNextFiles
<1>5. ASSUME NEW job \in worker.verify, VerifyStart(job)
      PROVE  TypeInv'
  <2> DEFINE rest == worker.verify \ {job}
  <2>1. job \in Jobs /\ rest \in SUBSET Jobs
    BY WorkerFields
  <2>2. ASSUME generation = job.gen /\ HasEntry(job.fp)
        PROVE  worker' \in Workers /\ WorkerLoaded'
    <3>1. entry.fps \in FileFingerprints
      BY <2>2 DEF HasEntry, Entries
    <3>2. worker' = [worker EXCEPT !.pc = "verifyLoad", !.verify = rest,
                       !.project = job.project, !.gen = job.gen, !.fp = job.fp,
                       !.attempt = job.attempt, !.fps = entry.fps]
      BY <1>5, <2>2 DEF VerifyStart
    <3>3. /\ job.project \in ProjectIds /\ job.gen \in Nat /\ job.attempt \in Attempts
          /\ job.fp \in SettingsFingerprints \cup {None}
      BY <2>1 DEF Jobs
    <3> HIDE DEF rest
    <3>4. worker' \in Workers
      BY <2>1, <3>1, <3>2, <3>3 DEF Workers, WorkerPcs
    <3>5. worker'.pc = "verifyLoad"
      BY <3>2 DEF Workers
    <3> QED
      BY <3>4, <3>5 DEF WorkerLoaded, SettingsPcs
  <2>3. ASSUME ~(generation = job.gen /\ HasEntry(job.fp))
        PROVE  worker' \in Workers /\ WorkerLoaded'
    <3>1. worker' = [worker EXCEPT !.verify = rest,
                       !.pc = IF rest = {} /\ ~worker.files THEN "idle" ELSE "batch"]
      BY <1>5, <2>3 DEF VerifyStart
    <3> HIDE DEF rest
    <3>2. PICK pc \in {"idle", "batch"} :
            worker' = [worker EXCEPT !.verify = rest, !.pc = pc]
      BY <3>1
    <3>3. worker' \in Workers
      BY <2>1, <3>2 DEF Workers, WorkerPcs
    <3>4. worker'.pc \in {"idle", "batch"}
      BY <3>2 DEF Workers
    <3> QED
      BY <3>3, <3>4 DEF WorkerLoaded, SettingsPcs
  <2> QED
    BY <1>5, <2>2, <2>3, LoadedFrame DEF VerifyStart
<1>6. ASSUME VerifyLoadSettings
      PROVE  TypeInv'
  <2>1. ASSUME worker' = [worker EXCEPT !.pc = "verifyScan", !.settings = settings]
        PROVE  worker' \in Workers /\ WorkerLoaded'
    BY <2>1 DEF Workers, WorkerPcs, WorkerLoaded, SettingsPcs
  <2>2. ASSUME WorkerGoes("scanFailed")
        PROVE  worker' \in Workers /\ WorkerLoaded'
    BY <2>2, WorkerGoesType DEF WorkerPcs, SettingsPcs
  <2>3. worker' \in Workers /\ WorkerLoaded'
    BY <1>6, <2>1, <2>2 DEF VerifyLoadSettings
  <2> QED
    BY <1>6, <2>3, FaultType, LoadedFrame DEF VerifyLoadSettings, ScanFault
<1>7. ASSUME VerifyScan
      PROVE  TypeInv'
  <2>1. PICK verdict \in {"Match", "Mismatch", "ScanFailed"} :
          worker' = [worker EXCEPT !.pc = "verifyRecheck", !.verdict = verdict]
    BY <1>7 DEF VerifyScan
  <2>2. worker' \in Workers /\ WorkerLoaded'
    <3>1. worker \in Workers
      OBVIOUS
    <3>2. worker' \in Workers
      BY <2>1, <3>1 DEF Workers, WorkerPcs
    <3>3. worker'.pc = "verifyRecheck"
      BY <2>1, <3>1 DEF Workers
    <3> QED
      BY <3>2, <3>3 DEF WorkerLoaded, SettingsPcs
  <2> QED
    BY <1>7, <2>2, FaultType, LoadedFrame DEF VerifyScan, ScanFault
<1>8. ASSUME VerifyRecheck
      PROVE  TypeInv'
  <2>1. worker' \in Workers /\ WorkerLoaded'
    BY <1>8, WorkerGoesType, WorkerDoneType
       DEF VerifyRecheck, WorkerLoaded, WorkerPcs, SettingsPcs
  <2> QED
    BY <1>8, <2>1, LoadedFrame
       DEF VerifyRecheck
<1>9. ASSUME VerifyConfirm
      PROVE  TypeInv'
  <2>1. worker' \in Workers /\ WorkerLoaded'
    BY <1>9, WorkerDoneType
       DEF VerifyConfirm
  <2>2. entry' \in Entries \cup {None} /\ status' \in Statuses
    BY <1>9, WorkerFields
       DEF VerifyConfirm, ConfirmCacheVerified, MayConfirm, HasEntry, Entries,
           Statuses
  <2> QED
    BY <1>9, <2>1, <2>2, NotifyType, LoadedFrame
       DEF VerifyConfirm
<1>10. ASSUME VerifyScanFailed
      PROVE  TypeInv'
  <2>1. worker' \in Workers /\ WorkerLoaded'
    BY <1>10, WorkerGoesType, WorkerDoneType DEF VerifyScanFailed, WorkerPcs, SettingsPcs
  <2>2. CASE worker.attempt + 1 < MaxVerifyAttempts
    <3>1. worker.attempt + 1 \in Attempts
      BY <2>2, WorkerFields, BoundsAssumption DEF Attempts
    <3>2. VerifyJob(worker.project, worker.gen, worker.fp, worker.attempt + 1) \in Jobs
      BY <3>1, WorkerFields, VerifyJobType
    <3> QED
      BY <1>10, <2>1, <2>2, <3>2, LoadedFrame DEF VerifyScanFailed
  <2>3. CASE ~(worker.attempt + 1 < MaxVerifyAttempts)
    BY <1>10, <2>1, <2>3, LoadedFrame DEF VerifyScanFailed
  <2> QED
    BY <2>2, <2>3
<1>11. ASSUME VerifyInvalidate
      PROVE  TypeInv'
  <2>1. worker' \in Workers /\ WorkerLoaded'
    BY <1>11, WorkerGoesType, WorkerDoneType
       DEF VerifyInvalidate, WorkerLoaded, WorkerPcs, SettingsPcs
  <2>2. entry' \in Entries \cup {None} /\ status' \in Statuses
    BY <1>11, WorkerFields
       DEF VerifyInvalidate, InvalidateEntry
  <2> QED
    BY <1>11, <2>1, <2>2, LoadedFrame
       DEF VerifyInvalidate
<1>12. ASSUME VerifyHandoffCheck
      PROVE  TypeInv'
  <2>1. worker' \in Workers /\ WorkerLoaded'
    BY <1>12, WorkerGoesType
       DEF VerifyHandoffCheck, WorkerLoaded, WorkerPcs, SettingsPcs
  <2> QED
    BY <1>12, <2>1, LoadedFrame
       DEF VerifyHandoffCheck
<1>13. ASSUME VerifyHandoffPending
      PROVE  TypeInv'
  <2>1. worker' \in Workers /\ WorkerLoaded'
    BY <1>13, WorkerGoesType
       DEF VerifyHandoffPending, WorkerLoaded, WorkerPcs, SettingsPcs
  <2>2. entry' \in Entries \cup {None} /\ status' \in Statuses
    BY <1>13, WorkerFields, StatusType
       DEF VerifyHandoffPending, SetStatusPending
  <2> QED
    BY <1>13, <2>1, <2>2, LoadedFrame
       DEF VerifyHandoffPending
<1>14. ASSUME VerifyHandoffEnqueue
      PROVE  TypeInv'
  <2>1. worker' \in Workers /\ WorkerLoaded'
    BY <1>14, WorkerDoneType
       DEF VerifyHandoffEnqueue
  <2>2. queue' \in Seq(Jobs)
    BY <1>14, WorkerFields, EnqueueType, FullRebuildJobType
       DEF VerifyHandoffEnqueue
  <2> QED
    BY <1>14, <2>1, <2>2, LoadedFrame
       DEF VerifyHandoffEnqueue
<1>15. ASSUME RebuildBegin
      PROVE  TypeInv'
  <2>1. worker' \in Workers /\ WorkerLoaded'
    BY <1>15, WorkerFields
       DEF RebuildBegin, WorkerLoaded, WorkerPcs, SettingsPcs, Workers
  <2> QED
    BY <1>15, <2>1, LoadedFrame
       DEF RebuildBegin
<1>16. ASSUME RebuildPending
      PROVE  TypeInv'
  <2>1. worker' \in Workers /\ WorkerLoaded'
    BY <1>16, WorkerGoesType
       DEF RebuildPending, WorkerLoaded, WorkerPcs, SettingsPcs
  <2>2. entry' \in Entries \cup {None} /\ status' \in Statuses
    BY <1>16, WorkerFields, StatusType
       DEF RebuildPending, SetStatusPending
  <2> QED
    BY <1>16, <2>1, <2>2, LoadedFrame
       DEF RebuildPending
<1>17. ASSUME RebuildLoadSettings
      PROVE  TypeInv'
  <2>1. ASSUME worker' = [worker EXCEPT !.pc = "discovering", !.settings = settings]
        PROVE  worker' \in Workers /\ WorkerLoaded'
    BY <2>1 DEF Workers, WorkerPcs, WorkerLoaded
  <2>2. ASSUME WorkerGoes("failed")
        PROVE  worker' \in Workers /\ WorkerLoaded'
    BY <2>2, WorkerGoesType DEF WorkerPcs, SettingsPcs
  <2>3. worker' \in Workers /\ WorkerLoaded'
    BY <1>17, <2>1, <2>2 DEF RebuildLoadSettings
  <2> QED
    BY <1>17, <2>3, FaultType, LoadedFrame DEF RebuildLoadSettings
<1>18. ASSUME RebuildFailed
      PROVE  TypeInv'
  <2>1. worker' \in Workers /\ WorkerLoaded'
    BY <1>18, WorkerGoesType, WorkerDoneType
       DEF RebuildFailed, WorkerLoaded, WorkerPcs, SettingsPcs
  <2> QED
    BY <1>18, <2>1, LoadedFrame
       DEF RebuildFailed
<1>19. ASSUME RebuildPublishFailed
      PROVE  TypeInv'
  <2>1. worker' \in Workers /\ WorkerLoaded'
    BY <1>19, WorkerDoneType
       DEF RebuildPublishFailed
  <2>2. entry' \in Entries \cup {None} /\ status' \in Statuses
    BY <1>19, WorkerFields, StatusType
       DEF RebuildPublishFailed, SetStatusFailed
  <2> QED
    BY <1>19, <2>1, <2>2, NotifyType, LoadedFrame
       DEF RebuildPublishFailed
<1>20. ASSUME RebuildDiscovering
      PROVE  TypeInv'
  <2>1. worker' \in Workers /\ WorkerLoaded'
    BY <1>20, WorkerGoesType
       DEF RebuildDiscovering, WorkerLoaded, WorkerPcs, SettingsPcs
  <2>2. entry' \in Entries \cup {None} /\ status' \in Statuses
    BY <1>20, WorkerFields, StatusType
       DEF RebuildDiscovering, SetStatusDiscovering
  <2> QED
    BY <1>20, <2>1, <2>2, LoadedFrame
       DEF RebuildDiscovering
<1>21. ASSUME RebuildDiscover
      PROVE  TypeInv'
  <2>1. worker' \in Workers /\ WorkerLoaded'
    BY <1>21, WorkerGoesType, WorkerDoneType
       DEF RebuildDiscover, WorkerLoaded, WorkerPcs, SettingsPcs
  <2> QED
    BY <1>21, <2>1, LoadedFrame
       DEF RebuildDiscover
<1>22. ASSUME RebuildIndexing
      PROVE  TypeInv'
  <2>1. worker' \in Workers /\ WorkerLoaded'
    BY <1>22, WorkerGoesType
       DEF RebuildIndexing, WorkerLoaded, WorkerPcs, SettingsPcs
  <2>2. entry' \in Entries \cup {None} /\ status' \in Statuses
    BY <1>22, WorkerFields, StatusType
       DEF RebuildIndexing, SetStatusIndexing
  <2> QED
    BY <1>22, <2>1, <2>2, LoadedFrame
       DEF RebuildIndexing
<1>23. ASSUME RebuildCheck
      PROVE  TypeInv'
  <2>1. worker' \in Workers /\ WorkerLoaded'
    BY <1>23, WorkerGoesType, WorkerDoneType
       DEF RebuildCheck, WorkerLoaded, WorkerPcs, SettingsPcs
  <2> QED
    BY <1>23, <2>1, LoadedFrame
       DEF RebuildCheck
<1>24. ASSUME RebuildFingerprint
      PROVE  TypeInv'
  <2>1. worker.settings \in Settings /\ Scan(WorkerFp) \in FileFingerprints
    BY <1>24, WorkerFpType, ScanType DEF RebuildFingerprint, WorkerLoaded, SettingsPcs
  <2>2. ASSUME \E fps \in FileFingerprints :
               worker' = [worker EXCEPT !.pc = "build", !.fps = fps]
        PROVE  worker' \in Workers /\ WorkerLoaded'
    <3>1. PICK fps \in FileFingerprints :
            worker' = [worker EXCEPT !.pc = "build", !.fps = fps]
      BY <2>2
    <3>2. worker' \in Workers /\ worker'.settings = worker.settings
      BY <3>1 DEF Workers, WorkerPcs
    <3> QED
      BY <2>1, <3>2 DEF WorkerLoaded
  <2>3. ASSUME WorkerGoes("failed")
        PROVE  worker' \in Workers /\ WorkerLoaded'
    BY <2>3, WorkerGoesType DEF WorkerPcs, SettingsPcs
  <2>4. worker' \in Workers /\ WorkerLoaded'
    BY <1>24, <2>1, <2>2, <2>3, NoneType DEF RebuildFingerprint
  <2> QED
    BY <1>24, <2>4, FaultType, LoadedFrame DEF RebuildFingerprint
<1>25. ASSUME RebuildBuild
      PROVE  TypeInv'
  <2>1. worker' \in Workers /\ WorkerLoaded'
    BY <1>25, WorkerFields
       DEF RebuildBuild, WorkerLoaded, WorkerPcs, SettingsPcs, Workers
  <2> QED
    BY <1>25, <2>1, LoadedFrame
       DEF RebuildBuild
<1>26. ASSUME RebuildWrite
      PROVE  TypeInv'
  <2>1. worker.settings \in Settings /\ WorkerFp \in SettingsFingerprints
    BY <1>26, WorkerFpType DEF RebuildWrite, WorkerLoaded, SettingsPcs
  <2>2. worker' \in Workers /\ WorkerLoaded'
    BY <1>26, <2>1, WorkerGoesType DEF RebuildWrite, WorkerPcs
  <2>3. [fp |-> WorkerFp, fps |-> worker.fps, version |-> worker.version] \in CacheFiles
    BY <2>1, WorkerFields, CacheFileType
  <2>4. cache' \in CacheFiles \cup {None}
    BY <1>26, <2>3 DEF RebuildWrite
  <2> QED
    BY <1>26, <2>2, <2>4, FaultType, LoadedFrame DEF RebuildWrite
<1>27. ASSUME RebuildRescan
      PROVE  TypeInv'
  <2>1. worker.settings \in Settings /\ Scan(WorkerFp) \in FileFingerprints
    BY <1>27, WorkerFpType, ScanType DEF RebuildRescan, WorkerLoaded, SettingsPcs
  <2>2. ASSUME worker' = [worker EXCEPT !.pc = "store", !.fps = Scan(WorkerFp)]
        PROVE  worker' \in Workers /\ WorkerLoaded'
    BY <2>1, <2>2 DEF Workers, WorkerPcs, WorkerLoaded
  <2>3. ASSUME WorkerGoes("finish")
        PROVE  worker' \in Workers /\ WorkerLoaded'
    BY <2>3, WorkerGoesType DEF WorkerPcs, SettingsPcs
  <2>4. worker' \in Workers /\ WorkerLoaded'
    BY <1>27, <2>2, <2>3 DEF RebuildRescan
  <2> QED
    BY <1>27, <2>4, FaultType, LoadedFrame DEF RebuildRescan
<1>28. ASSUME RebuildStore
      PROVE  TypeInv'
  <2>1. worker' \in Workers /\ WorkerLoaded'
    BY <1>28, WorkerGoesType
       DEF RebuildStore, WorkerLoaded, WorkerPcs, SettingsPcs
  <2>2. entry' \in Entries \cup {None} /\ status' \in Statuses
    BY <1>28, WorkerFields, WorkerFpType, NewEntryType
       DEF RebuildStore, WorkerLoaded, SettingsPcs, Store
  <2> QED
    BY <1>28, <2>1, <2>2, LoadedFrame
       DEF RebuildStore
<1>29. ASSUME RebuildFinish
      PROVE  TypeInv'
  <2>1. worker' \in Workers /\ WorkerLoaded'
    BY <1>29, WorkerGoesType, WorkerDoneType
       DEF RebuildFinish, WorkerLoaded, WorkerPcs, SettingsPcs
  <2> QED
    BY <1>29, <2>1, LoadedFrame
       DEF RebuildFinish
<1>30. ASSUME RebuildReadBack
      PROVE  TypeInv'
  <2>1. worker' \in Workers /\ WorkerLoaded'
    BY <1>30, WorkerGoesType
       DEF RebuildReadBack, WorkerLoaded, WorkerPcs, SettingsPcs
  <2> QED
    BY <1>30, <2>1, LoadedFrame
       DEF RebuildReadBack
<1>31. ASSUME RebuildComplete
      PROVE  TypeInv'
  <2>1. worker' \in Workers /\ WorkerLoaded'
    BY <1>31, WorkerDoneType DEF RebuildComplete
  <2>2. status.project \in ProjectIds /\ worker.project \in ProjectIds
    BY WorkerFields DEF Statuses
  <2>3. status' \in Statuses
    BY <1>31, <2>2, StatusType
       DEF RebuildComplete, SetStatusComplete, SetStatusCompleteFromSummary
  <2> QED
    BY <1>31, <2>1, <2>3, NotifyType, LoadedFrame DEF RebuildComplete
<1>32. ASSUME FilesBegin
      PROVE  TypeInv'
  <2>1. ASSUME worker' = [worker EXCEPT !.pc = "base", !.gen = generation,
                                      !.settings = settings]
        PROVE  worker' \in Workers /\ WorkerLoaded'
    BY <2>1 DEF Workers, WorkerPcs, WorkerLoaded
  <2>2. ASSUME WorkerDone
        PROVE  worker' \in Workers /\ WorkerLoaded'
    BY <2>2, WorkerDoneType
  <2>3. worker' \in Workers /\ WorkerLoaded'
    BY <1>32, <2>1, <2>2 DEF FilesBegin
  <2> QED
    BY <1>32, <2>3, FaultType, LoadedFrame DEF FilesBegin
<1>33. ASSUME FilesBase
      PROVE  TypeInv'
  <2>1. worker.settings \in Settings /\ worker.settings.active \in ProjectIds
    BY <1>33, WorkerFpType DEF FilesBase, WorkerLoaded, SettingsPcs
  <2>2. ASSUME HasVerifiedEntry(WorkerFp)
        PROVE  worker' \in Workers /\ WorkerLoaded'
    <3>1. entry.version \in Nat
      BY <2>2 DEF HasVerifiedEntry, HasEntry, Entries
    <3>2. worker' = [worker EXCEPT !.pc = "running", !.version = entry.version]
      BY <1>33, <2>2 DEF FilesBase
    <3> QED
      BY <2>1, <3>1, <3>2 DEF Workers, WorkerPcs, WorkerLoaded
  <2>3. ASSUME ~HasVerifiedEntry(WorkerFp)
        PROVE  worker' \in Workers /\ WorkerLoaded'
    <3>1. worker' = [IdleWorker EXCEPT !.pc = "rebuild",
                                       !.project = worker.settings.active]
      BY <1>33, <2>3 DEF FilesBase
    <3> QED
      BY <2>1, <3>1, StartTypes DEF Workers, WorkerPcs, WorkerLoaded, SettingsPcs
  <2> QED
    BY <1>33, <2>2, <2>3, LoadedFrame DEF FilesBase
<1>34. ASSUME FilesRunning
      PROVE  TypeInv'
  <2>1. worker' \in Workers /\ WorkerLoaded'
    BY <1>34, WorkerGoesType
       DEF FilesRunning, WorkerLoaded, WorkerPcs, SettingsPcs
  <2>2. entry' \in Entries \cup {None} /\ status' \in Statuses
    BY <1>34, WorkerFields, StatusType, WorkerFpType
       DEF FilesRunning, SetStatusRunning, WorkerLoaded, SettingsPcs
  <2> QED
    BY <1>34, <2>1, <2>2, LoadedFrame
       DEF FilesRunning
<1>35. ASSUME FilesApply
      PROVE  TypeInv'
  <2>1. worker.settings \in Settings /\ worker.settings.active \in ProjectIds
    BY <1>35, WorkerFpType DEF FilesApply, WorkerLoaded, SettingsPcs
  <2>2. ASSUME WorkerDone
        PROVE  worker' \in Workers /\ WorkerLoaded'
    BY <2>2, WorkerDoneType
  <2>3. ASSUME worker' = [worker EXCEPT !.pc = "applied", !.version = disk]
        PROVE  worker' \in Workers /\ WorkerLoaded'
    BY <2>1, <2>3 DEF Workers, WorkerPcs, WorkerLoaded
  <2>4. ASSUME worker' = [IdleWorker EXCEPT !.pc = "rebuild",
                                          !.project = worker.settings.active]
        PROVE  worker' \in Workers /\ WorkerLoaded'
    BY <2>1, <2>4, StartTypes DEF Workers, WorkerPcs, WorkerLoaded, SettingsPcs
  <2>5. worker' \in Workers /\ WorkerLoaded'
    BY <1>35, <2>2, <2>3, <2>4 DEF FilesApply
  <2> QED
    BY <1>35, <2>5, LoadedFrame DEF FilesApply
<1>36. ASSUME FilesApplied
      PROVE  TypeInv'
  <2>1. worker' \in Workers /\ WorkerLoaded'
    BY <1>36, WorkerGoesType, WorkerDoneType
       DEF FilesApplied, WorkerLoaded, WorkerPcs, SettingsPcs
  <2> QED
    BY <1>36, <2>1, LoadedFrame
       DEF FilesApplied
<1>37. ASSUME FilesPublish
      PROVE  TypeInv'
  <2>1. worker' \in Workers /\ WorkerLoaded'
    BY <1>37, WorkerGoesType
       DEF FilesPublish, WorkerLoaded, WorkerPcs, SettingsPcs
  <2>2. entry' \in Entries \cup {None} /\ status' \in Statuses
    BY <1>37, WorkerFields, StatusType
       DEF FilesPublish, SetStatusComplete, Statuses
  <2> QED
    BY <1>37, <2>1, <2>2, LoadedFrame
       DEF FilesPublish
<1>38. ASSUME FilesPersist
      PROVE  TypeInv'
  <2>1. worker.settings \in Settings /\ Scan(WorkerFp) \in FileFingerprints
    BY <1>38, WorkerFpType, ScanType DEF FilesPersist, WorkerLoaded, SettingsPcs
  <2>2. PICK fps \in FileFingerprints :
          worker' = [worker EXCEPT !.pc = "persistWrite", !.fps = fps]
    BY <1>38, <2>1, NoneType DEF FilesPersist
  <2>3. worker' \in Workers /\ worker'.settings = worker.settings
    BY <2>2 DEF Workers, WorkerPcs
  <2>4. WorkerLoaded'
    BY <2>1, <2>3 DEF WorkerLoaded
  <2> QED
    BY <1>38, <2>3, <2>4, FaultType, LoadedFrame DEF FilesPersist
<1>39. ASSUME FilesPersistWrite
      PROVE  TypeInv'
  <2>1. worker.settings \in Settings /\ WorkerFp \in SettingsFingerprints
    BY <1>39, WorkerFpType DEF FilesPersistWrite, WorkerLoaded, SettingsPcs
  <2>2. worker' \in Workers /\ WorkerLoaded'
    BY <1>39, <2>1, WorkerGoesType, WorkerDoneType DEF FilesPersistWrite, WorkerPcs
  <2>3. [fp |-> WorkerFp, fps |-> worker.fps, version |-> worker.version] \in CacheFiles
    BY <2>1, WorkerFields, CacheFileType
  <2>4. cache' \in CacheFiles \cup {None}
    BY <1>39, <2>3 DEF FilesPersistWrite
  <2> QED
    BY <1>39, <2>2, <2>4, NotifyType, FaultType, LoadedFrame DEF FilesPersistWrite
<1>40. ASSUME FilesPersistStore
      PROVE  TypeInv'
  <2>1. worker' \in Workers /\ WorkerLoaded'
    BY <1>40, WorkerDoneType
       DEF FilesPersistStore
  <2>2. entry' \in Entries \cup {None} /\ status' \in Statuses
    BY <1>40, WorkerFields, WorkerFpType, NewEntryType
       DEF FilesPersistStore, WorkerLoaded, SettingsPcs, Store
  <2> QED
    BY <1>40, <2>1, <2>2, NotifyType, LoadedFrame
       DEF FilesPersistStore
<1> QED
  BY <1>1, <1>2, <1>3, <1>4, <1>5, <1>6, <1>7, <1>8, <1>9, <1>10, <1>11, <1>12,
     <1>13, <1>14, <1>15, <1>16, <1>17, <1>18, <1>19, <1>20, <1>21, <1>22, <1>23,
     <1>24, <1>25, <1>26, <1>27, <1>28, <1>29, <1>30, <1>31, <1>32, <1>33, <1>34,
     <1>35, <1>36, <1>37, <1>38, <1>39, <1>40
     DEF WorkerNext

LEMMA InitTypeStep ==
    ASSUME TypeInv, NEW i \in Inits, InitNext(i)
    PROVE  TypeInv'
<1> USE DEF TypeInv, TypeOK, StateTypeOK, SettingsLoaded, stateVars, diskVars,
            chanVars, bounds
<1>1. ASSUME InitLookup(i)
      PROVE  TypeInv'
  <2>1. init' \in [Inits -> InitStates] /\ InitLoaded'
    BY <1>1, InitGoesType, InitDoneType
       DEF InitLookup, InitPcs
  <2> QED
    BY <1>1, <2>1, LoadedFrame
       DEF InitLookup
<1>2. ASSUME InitDecide(i)
      PROVE  TypeInv'
  <2> DEFINE x == [init[i] EXCEPT !.pc = "claim", !.gen = generation]
  <2>1. init[i].settings \in Settings
    BY <1>2 DEF InitDecide, InitLoaded
  <2>2. x \in InitStates /\ x.settings \in Settings
    BY <2>1, InitFields DEF InitStates, InitPcs
  <2>3. InitDone(i) \/ init' = [init EXCEPT ![i] = x]
    BY <1>2 DEF InitDecide
  <2>4. init' \in [Inits -> InitStates] /\ InitLoaded'
    BY <2>2, <2>3, InitSetType, InitDoneType
  <2> QED
    BY <1>2, <2>4, LoadedFrame DEF InitDecide
<1>3. ASSUME InitClaim(i)
      PROVE  TypeInv'
  <2>1. init' \in [Inits -> InitStates] /\ InitLoaded'
    BY <1>3, InitGoesType, InitDoneType
       DEF InitClaim, InitPcs
  <2>2. inFlight' \in SUBSET Keys
    BY <1>3, InitFields
       DEF InitClaim
  <2> QED
    BY <1>3, <2>1, <2>2, LoadedFrame
       DEF InitClaim
<1>4. ASSUME InitPublish(i)
      PROVE  TypeInv'
  <2>1. init' \in [Inits -> InitStates] /\ InitLoaded'
    BY <1>4, InitGoesType, InitDoneType
       DEF InitPublish, InitPcs
  <2>2. status' \in Statuses
    BY <1>4, InitFields, StatusType
       DEF InitPublish, SetStatusHydratingCacheIfGenerationMatches
  <2>3. inFlight' \in SUBSET Keys
    BY <1>4, InitFields
       DEF InitPublish
  <2> QED
    BY <1>4, <2>1, <2>2, <2>3, FaultType, LoadedFrame
       DEF InitPublish
<1>5. ASSUME HydrateRead(i)
      PROVE  TypeInv'
  <2> DEFINE x == [init[i] EXCEPT !.pc = "store", !.fps = cache.fps,
                                  !.version = cache.version]
  <2>1. init[i].settings \in Settings
    BY <1>5 DEF HydrateRead, InitLoaded
  <2>2. ASSUME cache # None
        PROVE  x \in InitStates /\ x.settings \in Settings
    <3>1. cache.fps \in FileFingerprints /\ cache.version \in Nat
      BY <2>2 DEF CacheFiles
    <3> QED
      BY <2>1, <3>1, InitFields DEF InitStates, InitPcs
  <2>3. \/ cache # None /\ init' = [init EXCEPT ![i] = x]
        \/ init[i].pc = "read" /\ InitGoes(i, "missFinish")
    BY <1>5 DEF HydrateRead
  <2>4. init' \in [Inits -> InitStates] /\ InitLoaded'
    BY <2>2, <2>3, InitSetType, InitGoesType DEF InitPcs
  <2> QED
    BY <1>5, <2>4, FaultType, LoadedFrame DEF HydrateRead
<1>6. ASSUME HydrateStore(i)
      PROVE  TypeInv'
  <2>1. init' \in [Inits -> InitStates] /\ InitLoaded'
    BY <1>6, InitGoesType DEF HydrateStore, InitPcs
  <2>2. NewEntry(init[i].project, InitFp(i), init[i].fps, init[i].version, FALSE) \in Entries
    BY <1>6, InitFields, NewEntryType DEF HydrateStore
  <2>3. entry' \in Entries \cup {None}
    BY <1>6, <2>2 DEF HydrateStore, StoreHydrated
  <2> QED
    BY <1>6, <2>1, <2>3, LoadedFrame DEF HydrateStore
<1>7. ASSUME HydrateComplete(i)
      PROVE  TypeInv'
  <2>1. init' \in [Inits -> InitStates] /\ InitLoaded'
    BY <1>7, InitGoesType
       DEF HydrateComplete, InitPcs
  <2>2. status' \in Statuses
    BY <1>7, InitFields, StatusType
       DEF HydrateComplete, SetStatusCompleteForProject
  <2> QED
    BY <1>7, <2>1, <2>2, LoadedFrame
       DEF HydrateComplete
<1>8. ASSUME HydrateEnqueue(i)
      PROVE  TypeInv'
  <2>1. init' \in [Inits -> InitStates] /\ InitLoaded'
    BY <1>8, InitGoesType DEF HydrateEnqueue, InitPcs
  <2>2. InitFp(i) \in SettingsFingerprints /\ 0 \in Attempts
    BY <1>8, InitFields, BoundsAssumption DEF HydrateEnqueue, Attempts
  <2>3. VerifyJob(init[i].project, init[i].gen, InitFp(i), 0) \in Jobs
    BY <2>2, InitFields, VerifyJobType
  <2>4. queue' \in Seq(Jobs)
    BY <1>8, <2>3, EnqueueType DEF HydrateEnqueue
  <2> QED
    BY <1>8, <2>1, <2>4, LoadedFrame DEF HydrateEnqueue
<1>9. ASSUME HydrateRemove(i)
      PROVE  TypeInv'
  <2>1. init' \in [Inits -> InitStates] /\ InitLoaded'
    BY <1>9, InitGoesType
       DEF HydrateRemove, InitPcs
  <2>2. entry' \in Entries \cup {None}
    BY <1>9
       DEF HydrateRemove, RemoveUnverifiedEntry
  <2> QED
    BY <1>9, <2>1, <2>2, LoadedFrame
       DEF HydrateRemove
<1>10. ASSUME HydrateFinish(i)
      PROVE  TypeInv'
  <2>1. init' \in [Inits -> InitStates] /\ InitLoaded'
    BY <1>10, InitDoneType
       DEF HydrateFinish
  <2>2. inFlight' \in SUBSET Keys
    BY <1>10, InitFields
       DEF HydrateFinish
  <2> QED
    BY <1>10, <2>1, <2>2, LoadedFrame
       DEF HydrateFinish
<1>11. ASSUME HydrateMissFinish(i)
      PROVE  TypeInv'
  <2>1. init' \in [Inits -> InitStates] /\ InitLoaded'
    BY <1>11, InitGoesType
       DEF HydrateMissFinish, InitPcs
  <2>2. inFlight' \in SUBSET Keys
    BY <1>11, InitFields
       DEF HydrateMissFinish
  <2> QED
    BY <1>11, <2>1, <2>2, LoadedFrame
       DEF HydrateMissFinish
<1>12. ASSUME HydrateMissCheck(i)
      PROVE  TypeInv'
  <2>1. init' \in [Inits -> InitStates] /\ InitLoaded'
    BY <1>12, InitGoesType, InitDoneType
       DEF HydrateMissCheck, InitPcs
  <2> QED
    BY <1>12, <2>1, LoadedFrame
       DEF HydrateMissCheck
<1>13. ASSUME HydrateMissPending(i)
      PROVE  TypeInv'
  <2>1. init' \in [Inits -> InitStates] /\ InitLoaded'
    BY <1>13, InitGoesType
       DEF HydrateMissPending, InitPcs
  <2>2. status' \in Statuses
    BY <1>13, InitFields, StatusType
       DEF HydrateMissPending, SetStatusPending
  <2> QED
    BY <1>13, <2>1, <2>2, LoadedFrame
       DEF HydrateMissPending
<1>14. ASSUME HydrateMissEnqueue(i)
      PROVE  TypeInv'
  <2>1. init' \in [Inits -> InitStates] /\ InitLoaded'
    BY <1>14, InitDoneType
       DEF HydrateMissEnqueue
  <2>2. queue' \in Seq(Jobs)
    BY <1>14, InitFields, FullRebuildJobType, EnqueueType
       DEF HydrateMissEnqueue
  <2> QED
    BY <1>14, <2>1, <2>2, LoadedFrame
       DEF HydrateMissEnqueue
<1> QED
  BY <1>1, <1>2, <1>3, <1>4, <1>5, <1>6, <1>7, <1>8, <1>9, <1>10, <1>11, <1>12,
     <1>13, <1>14
     DEF InitNext

LEMMA ReaderTypeStep ==
    ASSUME TypeInv, NEW r \in Readers, ReaderNext(r)
    PROVE  TypeInv'
<1> USE DEF TypeInv, TypeOK, StateTypeOK, SettingsLoaded, stateVars, diskVars,
            chanVars, bounds
<1>1. ASSUME ReaderHot(r)
      PROVE  TypeInv'
  <2>1. reader' \in [Readers -> ReaderStates] /\ ReaderLoaded'
    BY <1>1, ReaderGoesType, ReaderDoneType
       DEF ReaderHot, ReaderPcs
  <2> QED
    BY <1>1, <2>1, LoadedFrame
       DEF ReaderHot
<1>2. ASSUME ReaderInFlight(r)
      PROVE  TypeInv'
  <2>1. reader' \in [Readers -> ReaderStates] /\ ReaderLoaded'
    BY <1>2, ReaderGoesType
       DEF ReaderInFlight, ReaderPcs
  <2> QED
    BY <1>2, <2>1, LoadedFrame
       DEF ReaderInFlight
<1>3. ASSUME ReaderRegister(r)
      PROVE  TypeInv'
  <2> DEFINE x == [reader[r] EXCEPT !.pc = "check", !.notified = FALSE]
  <2>1. reader[r].settings \in Settings
    BY <1>3 DEF ReaderRegister, ReaderLoaded
  <2>2. x \in ReaderStates /\ x.settings \in Settings
    BY <2>1, ReaderFields DEF ReaderStates, ReaderPcs
  <2>3. reader' = [reader EXCEPT ![r] = x]
    BY <1>3 DEF ReaderRegister
  <2>4. reader' \in [Readers -> ReaderStates] /\ ReaderLoaded'
    BY <2>2, <2>3, ReaderSetType
  <2> QED
    BY <1>3, <2>4, LoadedFrame DEF ReaderRegister
<1>4. ASSUME ReaderCheck(r)
      PROVE  TypeInv'
  <2>1. reader' \in [Readers -> ReaderStates] /\ ReaderLoaded'
    BY <1>4, ReaderGoesType, ReaderDoneType
       DEF ReaderCheck, ReaderPcs
  <2> QED
    BY <1>4, <2>1, LoadedFrame
       DEF ReaderCheck
<1>5. ASSUME ReaderWake(r)
      PROVE  TypeInv'
  <2>1. reader' \in [Readers -> ReaderStates] /\ ReaderLoaded'
    BY <1>5, ReaderGoesType
       DEF ReaderWake, ReaderPcs
  <2> QED
    BY <1>5, <2>1, LoadedFrame
       DEF ReaderWake
<1>6. ASSUME ReaderTimeout(r)
      PROVE  TypeInv'
  <2>1. reader' \in [Readers -> ReaderStates] /\ ReaderLoaded'
    BY <1>6, ReaderGoesType
       DEF ReaderTimeout, ReaderPcs
  <2> QED
    BY <1>6, <2>1, LoadedFrame
       DEF ReaderTimeout
<1>7. ASSUME ReaderLast(r)
      PROVE  TypeInv'
  <2>1. reader' \in [Readers -> ReaderStates] /\ ReaderLoaded'
    BY <1>7, ReaderGoesType, ReaderDoneType
       DEF ReaderLast, ReaderPcs
  <2> QED
    BY <1>7, <2>1, LoadedFrame
       DEF ReaderLast
<1>8. ASSUME ReaderCache(r)
      PROVE  TypeInv'
  <2> DEFINE x == [reader[r] EXCEPT !.pc = "rescan", !.version = cache.version]
  <2>1. reader[r].settings \in Settings
    BY <1>8 DEF ReaderCache, ReaderLoaded
  <2>2. ASSUME cache # None
        PROVE  x \in ReaderStates /\ x.settings \in Settings
    <3>1. cache.version \in Nat
      BY <2>2 DEF CacheFiles
    <3> QED
      BY <2>1, <3>1, ReaderFields DEF ReaderStates, ReaderPcs
  <2>3. \/ cache # None /\ reader' = [reader EXCEPT ![r] = x]
        \/ reader[r].pc = "cache" /\ ReaderGoes(r, "fingerprint")
        \/ ReaderDone(r)
    BY <1>8 DEF ReaderCache
  <2>4. reader' \in [Readers -> ReaderStates] /\ ReaderLoaded'
    BY <2>2, <2>3, ReaderSetType, ReaderGoesType, ReaderDoneType DEF ReaderPcs
  <2> QED
    BY <1>8, <2>4, FaultType, LoadedFrame DEF ReaderCache
<1>9. ASSUME ReaderFingerprint(r)
      PROVE  TypeInv'
  <2> DEFINE x(fps) == [reader[r] EXCEPT !.pc = "build", !.fps = fps]
  <2>1. reader[r].settings \in Settings /\ Scan(ReaderFp(r)) \in FileFingerprints
    BY <1>9, ReaderFields, ScanType DEF ReaderFingerprint, ReaderLoaded
  <2>2. ASSUME NEW fps \in FileFingerprints
        PROVE  x(fps) \in ReaderStates /\ x(fps).settings \in Settings
    BY <2>1, ReaderFields DEF ReaderStates, ReaderPcs
  <2>3. (\E fps \in FileFingerprints : reader' = [reader EXCEPT ![r] = x(fps)])
    BY <1>9, <2>1, NoneType DEF ReaderFingerprint
  <2> HIDE DEF x
  <2>4. reader' \in [Readers -> ReaderStates] /\ ReaderLoaded'
    BY <2>2, <2>3, ReaderSetType
  <2> QED
    BY <1>9, <2>4, FaultType, LoadedFrame DEF ReaderFingerprint
<1>10. ASSUME ReaderBuild(r)
      PROVE  TypeInv'
  <2> DEFINE x == [reader[r] EXCEPT !.pc = "write", !.version = disk]
  <2>1. reader[r].settings \in Settings
    BY <1>10 DEF ReaderBuild, ReaderLoaded
  <2>2. x \in ReaderStates /\ x.settings \in Settings
    BY <2>1, ReaderFields DEF ReaderStates, ReaderPcs
  <2>3. reader' = [reader EXCEPT ![r] = x]
    BY <1>10 DEF ReaderBuild
  <2>4. reader' \in [Readers -> ReaderStates] /\ ReaderLoaded'
    BY <2>2, <2>3, ReaderSetType
  <2> QED
    BY <1>10, <2>4, LoadedFrame DEF ReaderBuild
<1>11. ASSUME ReaderWrite(r)
      PROVE  TypeInv'
  <2>1. reader' \in [Readers -> ReaderStates] /\ ReaderLoaded'
    BY <1>11, ReaderGoesType
       DEF ReaderWrite, ReaderPcs
  <2>2. [fp |-> ReaderFp(r), fps |-> reader[r].fps, version |-> reader[r].version]
          \in CacheFiles
    BY <1>11, ReaderFields, CacheFileType
       DEF ReaderWrite
  <2>3. cache' \in CacheFiles \cup {None}
    BY <1>11, <2>2
       DEF ReaderWrite
  <2> QED
    BY <1>11, <2>1, <2>3, FaultType, LoadedFrame
       DEF ReaderWrite
<1>12. ASSUME ReaderRescan(r)
      PROVE  TypeInv'
  <2> DEFINE x(fps) == [reader[r] EXCEPT !.pc = "store", !.fps = fps]
  <2>1. reader[r].settings \in Settings /\ Scan(ReaderFp(r)) \in FileFingerprints
    BY <1>12, ReaderFields, ScanType DEF ReaderRescan, ReaderLoaded
  <2>2. ASSUME NEW fps \in FileFingerprints
        PROVE  x(fps) \in ReaderStates /\ x(fps).settings \in Settings
    BY <2>1, ReaderFields DEF ReaderStates, ReaderPcs
  <2>3. (\E fps \in FileFingerprints : reader' = [reader EXCEPT ![r] = x(fps)]) \/ ReaderDone(r)
    BY <1>12, <2>1, NoneType DEF ReaderRescan
  <2> HIDE DEF x
  <2>4. reader' \in [Readers -> ReaderStates] /\ ReaderLoaded'
    BY <2>2, <2>3, ReaderSetType, ReaderDoneType
  <2> QED
    BY <1>12, <2>4, FaultType, LoadedFrame DEF ReaderRescan
<1>13. ASSUME ReaderStore(r)
      PROVE  TypeInv'
  <2>1. reader' \in [Readers -> ReaderStates] /\ ReaderLoaded'
    BY <1>13, ReaderDoneType
       DEF ReaderStore
  <2>2. entry' \in Entries \cup {None}
    BY <1>13, ReaderFields, NewEntryType
       DEF ReaderStore, Store
  <2> QED
    BY <1>13, <2>1, <2>2, LoadedFrame
       DEF ReaderStore
<1> QED
  BY <1>1, <1>2, <1>3, <1>4, <1>5, <1>6, <1>7, <1>8, <1>9, <1>10, <1>11, <1>12,
     <1>13
     DEF ReaderNext

LEMMA MainTypeStep ==
    ASSUME TypeInv, MainNext \/ RetryNext
    PROVE  TypeInv'
<1> USE DEF TypeInv, TypeOK, StateTypeOK, SettingsLoaded, stateVars, diskVars,
            chanVars, bounds
<1>1. ASSUME RestartForSettings
      PROVE  TypeInv'
  <2>1. /\ generation' \in Nat
        /\ main' \in [pc: {"idle", "bump", "reindex", "query"}, project: ProjectIds]
    BY <1>1 DEF RestartForSettings, IncrementGeneration, MainGoes
  <2> QED
    BY <1>1, <2>1, LoadedFrame DEF RestartForSettings
<1>2. ASSUME EnqueueReindex
      PROVE  TypeInv'
  <2>1. queue' \in Seq(Jobs)
    BY <1>2, ActiveType, FullRebuildJobType, EnqueueType DEF EnqueueReindex
  <2> QED
    BY <1>2, <2>1, StartTypes, LoadedFrame DEF EnqueueReindex
<1>3. ASSUME QueryEnqueue
      PROVE  TypeInv'
  <2>1. main.project \in ProjectIds
    OBVIOUS
  <2>2. queue' \in Seq(Jobs)
    BY <1>3, <2>1, FullRebuildJobType, EnqueueType DEF QueryEnqueue
  <2> QED
    BY <1>3, <2>2, StartTypes, LoadedFrame DEF QueryEnqueue
<1>4. ASSUME NEW job \in retries, VerifyRetry(job)
      PROVE  TypeInv'
  <2>1. queue' \in Seq(Jobs) /\ retries' \in SUBSET Jobs
    BY <1>4, EnqueueType DEF VerifyRetry
  <2> QED
    BY <1>4, <2>1, LoadedFrame DEF VerifyRetry
<1> QED
  BY <1>1, <1>2, <1>3, <1>4 DEF MainNext, RetryNext

LEMMA EnvironmentTypeStep ==
    ASSUME TypeInv, Environment
    PROVE  TypeInv'
<1> USE DEF TypeInv, TypeOK, StateTypeOK, SettingsLoaded, stateVars, diskVars,
            chanVars, bounds
<1>1. ASSUME NEW s \in Settings, SaveSettings(s)
      PROVE  TypeInv'
  <2>1. main' \in [pc: {"idle", "bump", "reindex", "query"}, project: ProjectIds]
    BY <1>1 DEF SaveSettings, MainGoes
  <2> QED
    BY <1>1, <2>1, LoadedFrame DEF SaveSettings
<1>2. ASSUME NEW p \in Projects, QueryMiss(p)
      PROVE  TypeInv'
  <2>1. main' \in [pc: {"idle", "bump", "reindex", "query"}, project: ProjectIds]
    BY <1>2 DEF QueryMiss, ProjectIds
  <2> QED
    BY <1>2, <2>1, LoadedFrame DEF QueryMiss
<1>3. ASSUME NEW p \in Projects, RenameFolder(p)
      PROVE  TypeInv'
  <2>1. p \in ProjectIds
    BY DEF ProjectIds
  <2>2. queue' \in Seq(Jobs) /\ disk' \in Nat /\ fsEvent' \in BOOLEAN
    BY <1>3, <2>1, FullRebuildJobType, EnqueueType DEF RenameFolder
  <2> QED
    BY <1>3, <2>2, LoadedFrame DEF RenameFolder
<1>4. ASSUME ExternalEdit
      PROVE  TypeInv'
  BY <1>4, LoadedFrame DEF ExternalEdit
<1>5. ASSUME SaveFile
      PROVE  TypeInv'
  <2>1. queue' \in Seq(Jobs)
    BY <1>5, FileJobType, EnqueueType DEF SaveFile
  <2> QED
    BY <1>5, <2>1, LoadedFrame DEF SaveFile
<1>6. ASSUME NEW i \in Inits, NEW p \in Projects \cup {settings.active}, InitRequest(i, p)
      PROVE  TypeInv'
  <2> DEFINE x == [init[i] EXCEPT !.pc = "lookup", !.settings = settings, !.project = p]
  <2>1. p \in ProjectIds
    BY ActiveType DEF ProjectIds
  <2>2. x \in InitStates /\ x.settings \in Settings
    BY <2>1, InitFields DEF InitStates, InitPcs
  <2>3. init' = [init EXCEPT ![i] = x]
    BY <1>6 DEF InitRequest
  <2>4. init' \in [Inits -> InitStates] /\ InitLoaded'
    BY <2>2, <2>3, InitSetType
  <2> QED
    BY <1>6, <2>4, LoadedFrame DEF InitRequest
<1>7. ASSUME NEW r \in Readers, NEW p \in Projects, NEW pc \in {"hot", "fingerprint"},
             ReaderRequest(r, p, pc)
      PROVE  TypeInv'
  <2> DEFINE x == [reader[r] EXCEPT !.pc = pc, !.settings = settings, !.project = p]
  <2>1. x \in ReaderStates /\ x.settings \in Settings
    BY ReaderFields DEF ReaderStates, ReaderPcs, ProjectIds
  <2>2. reader' = [reader EXCEPT ![r] = x]
    BY <1>7 DEF ReaderRequest
  <2>3. reader' \in [Readers -> ReaderStates] /\ ReaderLoaded'
    BY <2>1, <2>2, ReaderSetType
  <2> QED
    BY <1>7, <2>3, LoadedFrame DEF ReaderRequest
<1>8. ASSUME Restart
      PROVE  TypeInv'
  <2>1. WorkerLoaded' /\ InitLoaded' /\ ReaderLoaded'
    BY <1>8, StartTypes DEF Restart, WorkerLoaded, InitLoaded, ReaderLoaded, SettingsPcs
  <2>2. <<>> \in Seq(Jobs)
    OBVIOUS
  <2>3. /\ init' \in [Inits -> InitStates]
        /\ reader' \in [Readers -> ReaderStates]
    BY <1>8, StartTypes DEF Restart
  <2>4. worker' \in Workers /\ status' \in Statuses
    BY <1>8, StartTypes DEF Restart
  <2>5. main' \in [pc: {"idle", "bump", "reindex", "query"}, project: ProjectIds]
    BY <1>8, StartTypes DEF Restart
  <2>6. /\ queue' \in Seq(Jobs) /\ retries' \in SUBSET Jobs /\ inFlight' \in SUBSET Keys
        /\ fsEvent' \in BOOLEAN
    BY <1>8, <2>2 DEF Restart
  <2>7. /\ entry' \in Entries \cup {None} /\ generation' \in Nat
        /\ faults' \in Nat /\ restarts' \in Nat
    BY <1>8 DEF Restart
  <2>8. /\ settings' \in Settings /\ disk' \in Nat /\ cache' \in CacheFiles \cup {None}
    BY <1>8 DEF Restart
  <2> QED
    BY <2>1, <2>3, <2>4, <2>5, <2>6, <2>7, <2>8
<1> QED
  BY <1>1, <1>2, <1>3, <1>4, <1>5, <1>6, <1>7, <1>8 DEF Environment

LEMMA TypeInit ==
    ASSUME Init
    PROVE  TypeInv
<1> USE DEF TypeInv, TypeOK, StateTypeOK, SettingsLoaded, stateVars, diskVars,
            chanVars, bounds
<1>1. WorkerLoaded /\ InitLoaded /\ ReaderLoaded
  BY StartTypes DEF Init, Fresh, WorkerLoaded, InitLoaded, ReaderLoaded, SettingsPcs
<1>2. <<>> \in Seq(Jobs)
  OBVIOUS
<1>3. cache \in CacheFiles \cup {None}
  <2>1. \A s \in Settings, p \in ProjectIds :
          [fp |-> SettingsFingerprint(s, p), version |-> 0] \in FileFingerprints
    BY FingerprintType DEF FileFingerprints
  <2> QED
    BY <2>1 DEF Init, CacheFiles
<1>4. init \in [Inits -> InitStates] /\ reader \in [Readers -> ReaderStates]
  BY StartTypes DEF Init, Fresh
<1>5. main \in [pc: {"idle", "bump", "reindex", "query"}, project: ProjectIds]
  BY StartTypes DEF Init, Fresh
<1>6. /\ queue \in Seq(Jobs) /\ retries \in SUBSET Jobs /\ inFlight \in SUBSET Keys
      /\ fsEvent \in BOOLEAN
  BY <1>2 DEF Init, Fresh
<1>7. /\ entry \in Entries \cup {None} /\ generation \in Nat /\ status \in Statuses
      /\ worker \in Workers /\ faults \in Nat /\ restarts \in Nat
  BY StartTypes DEF Init, Fresh
<1>8. settings \in Settings /\ disk \in Nat
  BY DEF Init
<1> QED
  BY <1>1, <1>3, <1>4, <1>5, <1>6, <1>7, <1>8

LEMMA TypeStep ==
    ASSUME TypeInv, [Next]_vars
    PROVE  TypeInv'
<1>1. CASE UNCHANGED vars
  BY <1>1 DEF vars, stateVars, diskVars, chanVars, bounds, TypeInv, TypeOK, StateTypeOK,
              SettingsLoaded, WorkerLoaded, InitLoaded, ReaderLoaded
<1>2. CASE Next
  BY <1>2, WorkerTypeStep, InitTypeStep, ReaderTypeStep, MainTypeStep,
     EnvironmentTypeStep DEF Next
<1> QED
  BY <1>1, <1>2

\* Type correctness: every process's state, the slot, the channel and the files
\* keep their types, whatever is interleaved, fails or restarts.
THEOREM TypeCorrect == Spec => []TypeOK
<1>1. TypeInv => TypeOK
  BY DEF TypeInv
<1> QED
  BY <1>1, TypeInit, TypeStep, PTL DEF Spec

-----------------------------------------------------------------------------
(* Single flight. in_flight_init is a set of keys and every key has one      *)
(* owner: an initialization acquires its key, keeps it, or releases it.      *)

LEMMA InitGoesKeeps ==
    ASSUME init \in [Inits -> InitStates], NEW i \in Inits, NEW pc \in InitPcs,
           InitGoes(i, pc)
    PROVE  /\ init'[i].pc = pc
           /\ \A j \in Inits \ {i} : init'[j] = init[j]
           /\ \A j \in Inits : InitKey(j)' = InitKey(j)
<1>1. /\ init'[i] = [init[i] EXCEPT !.pc = pc]
      /\ \A j \in Inits \ {i} : init'[j] = init[j]
  BY DEF InitGoes
<1>2. init[i] \in InitStates
  OBVIOUS
<1>3. /\ init'[i].pc = pc /\ init'[i].project = init[i].project
      /\ init'[i].gen = init[i].gen /\ init'[i].settings = init[i].settings
  BY <1>1, <1>2 DEF InitStates
<1> QED
  BY <1>1, <1>3 DEF InitKey, InitFp, SettingsFingerprint

LEMMA InitDoneKeeps ==
    ASSUME init \in [Inits -> InitStates], NEW i \in Inits, InitDone(i)
    PROVE  /\ init'[i].pc = "done"
           /\ \A j \in Inits \ {i} : init'[j] = init[j] /\ InitKey(j)' = InitKey(j)
<1>1. init'[i] = DoneInit /\ \A j \in Inits \ {i} : init'[j] = init[j]
  BY DEF InitDone
<1> QED
  BY <1>1, StartTypes DEF InitKey, InitFp

\* Nobody acquires or releases.
LEMMA FlightKept ==
    ASSUME SingleFlight, UNCHANGED inFlight,
           \A j \in Inits : /\ Holding(j)' <=> Holding(j)
                            /\ Holding(j) => InitKey(j)' = InitKey(j)
    PROVE  SingleFlight'
  BY DEF SingleFlight

LEMMA FlightUnchanged ==
    ASSUME SingleFlight, UNCHANGED <<inFlight, init>>
    PROVE  SingleFlight'
<1>1. \A j \in Inits : (Holding(j)' <=> Holding(j)) /\ InitKey(j)' = InitKey(j)
  BY DEF Holding, InitKey, InitFp
<1> QED
  BY <1>1, FlightKept

\* A free key gets an owner.
LEMMA FlightAcquired ==
    ASSUME SingleFlight, NEW i \in Inits, InitKey(i) \notin inFlight,
           inFlight' = inFlight \cup {InitKey(i)},
           Holding(i)', InitKey(i)' = InitKey(i),
           \A j \in Inits \ {i} : (Holding(j)' <=> Holding(j)) /\ InitKey(j)' = InitKey(j)
    PROVE  SingleFlight'
<1>1. \A j \in Inits : Holding(j) => InitKey(j) \in inFlight
  BY DEF SingleFlight
<1>2. inFlight' = {InitKey(j)' : j \in {k \in Inits : Holding(k)'}}
  <2>1. ~Holding(i)
    BY <1>1
  <2> QED
    BY <2>1 DEF SingleFlight
<1>3. \A j, k \in Inits : Holding(j)' /\ Holding(k)' /\ InitKey(j)' = InitKey(k)' => j = k
  BY <1>1 DEF SingleFlight
<1> QED
  BY <1>2, <1>3 DEF SingleFlight

\* An owner gives its key up.
LEMMA FlightReleased ==
    ASSUME SingleFlight, NEW i \in Inits, Holding(i),
           inFlight' = inFlight \ {InitKey(i)}, ~Holding(i)',
           \A j \in Inits \ {i} : (Holding(j)' <=> Holding(j)) /\ InitKey(j)' = InitKey(j)
    PROVE  SingleFlight'
<1>1. \A j \in Inits \ {i} : Holding(j) => InitKey(j) # InitKey(i)
  BY DEF SingleFlight
<1>2. inFlight' = {InitKey(j)' : j \in {k \in Inits : Holding(k)'}}
  BY <1>1 DEF SingleFlight
<1>3. \A j, k \in Inits : Holding(j)' /\ Holding(k)' /\ InitKey(j)' = InitKey(k)' => j = k
  BY DEF SingleFlight
<1> QED
  BY <1>2, <1>3 DEF SingleFlight

\* Another initialization's step.
LEMMA HoldingOthers ==
    ASSUME NEW i \in Inits, \A j \in Inits \ {i} : init'[j] = init[j]
    PROVE  \A j \in Inits \ {i} : Holding(j)' <=> Holding(j)
  BY DEF Holding

LEMMA InitFlightStep ==
    ASSUME TypeOK, SingleFlight, NEW i \in Inits, InitNext(i)
    PROVE  SingleFlight'
<1>0. init \in [Inits -> InitStates]
  BY DEF TypeOK
<1>1. ASSUME InitLookup(i)
      PROVE  SingleFlight'
  <2>1. \A j \in Inits : /\ Holding(j)' <=> Holding(j)
                         /\ Holding(j) => InitKey(j)' = InitKey(j)
    BY <1>0, <1>1, InitGoesKeeps, InitDoneKeeps, HoldingOthers DEF InitLookup, Holding, InitPcs
  <2> QED
    BY <1>1, <2>1, FlightKept DEF InitLookup, chanVars
<1>2. ASSUME InitDecide(i)
      PROVE  SingleFlight'
  <2>1. init[i].pc = "decide" /\ init'[i].pc \in {"claim", "done"}
    <3>1. CASE InitDone(i)
      BY <1>0, <1>2, <3>1, InitDoneKeeps DEF InitDecide
    <3>2. CASE init' = [init EXCEPT ![i].pc = "claim", ![i].gen = generation]
      <4>1. init[i] \in InitStates
        BY <1>0
      <4>2. init'[i] = [init[i] EXCEPT !.pc = "claim", !.gen = generation]
        BY <1>0, <3>2
      <4> QED
        BY <1>2, <4>1, <4>2 DEF InitDecide, InitStates
    <3> QED
      BY <1>2, <3>1, <3>2 DEF InitDecide
  <2>2. \A j \in Inits \ {i} : init'[j] = init[j]
    BY <1>0, <1>2 DEF InitDecide, InitDone
  <2>3. \A j \in Inits : /\ Holding(j)' <=> Holding(j)
                         /\ Holding(j) => InitKey(j)' = InitKey(j)
    BY <2>1, <2>2 DEF Holding, InitKey, InitFp
  <2> QED
    BY <1>2, <2>3, FlightKept DEF InitDecide, chanVars
<1>3. ASSUME InitClaim(i)
      PROVE  SingleFlight'
  <2>1. CASE InitKey(i) \in inFlight
    <3>1. \A j \in Inits : /\ Holding(j)' <=> Holding(j)
                           /\ Holding(j) => InitKey(j)' = InitKey(j)
      BY <1>0, <1>3, <2>1, InitDoneKeeps, HoldingOthers DEF InitClaim, Holding
    <3> QED
      BY <1>3, <2>1, <3>1, FlightKept DEF InitClaim
  <2>2. CASE InitKey(i) \notin inFlight
    <3>1. InitGoes(i, "publish") /\ inFlight' = inFlight \cup {InitKey(i)}
      BY <1>3, <2>2 DEF InitClaim
    <3>2. Holding(i)' /\ InitKey(i)' = InitKey(i)
      BY <1>0, <3>1, InitGoesKeeps DEF Holding, InitPcs
    <3>3. \A j \in Inits \ {i} : (Holding(j)' <=> Holding(j)) /\ InitKey(j)' = InitKey(j)
      BY <1>0, <3>1, InitGoesKeeps, HoldingOthers DEF InitPcs
    <3> QED
      BY <2>2, <3>1, <3>2, <3>3, FlightAcquired
  <2> QED
    BY <2>1, <2>2
<1>4. ASSUME InitPublish(i)
      PROVE  SingleFlight'
  <2>1. CASE InitGoes(i, "read") /\ UNCHANGED inFlight
    <3>1. \A j \in Inits : (Holding(j)' <=> Holding(j)) /\ InitKey(j)' = InitKey(j)
      BY <1>0, <1>4, <2>1, InitGoesKeeps, HoldingOthers DEF InitPublish, Holding, InitPcs
    <3> QED
      BY <2>1, <3>1, FlightKept
  <2>2. CASE InitDone(i) /\ inFlight' = inFlight \ {InitKey(i)}
    <3>1. Holding(i) /\ ~Holding(i)'
      BY <1>0, <1>4, <2>2, InitDoneKeeps DEF InitPublish, Holding
    <3>2. \A j \in Inits \ {i} : (Holding(j)' <=> Holding(j)) /\ InitKey(j)' = InitKey(j)
      BY <1>0, <2>2, InitDoneKeeps, HoldingOthers
    <3> QED
      BY <2>2, <3>1, <3>2, FlightReleased
  <2> QED
    BY <1>4, <2>1, <2>2 DEF InitPublish
<1>5. ASSUME HydrateRead(i)
      PROVE  SingleFlight'
  <2>1. /\ init[i].pc = "read" /\ init'[i].pc \in {"store", "missFinish"}
        /\ init'[i].project = init[i].project /\ init'[i].gen = init[i].gen
        /\ init'[i].settings = init[i].settings
    <3>1. init[i] \in InitStates
      BY <1>0
    <3>2. \/ init'[i] = [init[i] EXCEPT !.pc = "store", !.fps = cache.fps,
                                        !.version = cache.version]
          \/ init'[i] = [init[i] EXCEPT !.pc = "missFinish"]
      BY <1>0, <1>5 DEF HydrateRead, InitGoes
    <3> QED
      BY <1>5, <3>1, <3>2 DEF HydrateRead, InitStates
  <2>2. \A j \in Inits \ {i} : init'[j] = init[j]
    BY <1>0, <1>5 DEF HydrateRead, InitGoes
  <2>3. \A j \in Inits : (Holding(j)' <=> Holding(j)) /\ InitKey(j)' = InitKey(j)
    BY <2>1, <2>2 DEF Holding, InitKey, InitFp, SettingsFingerprint
  <2> QED
    BY <1>5, <2>3, FlightKept DEF HydrateRead, chanVars
<1>6. ASSUME HydrateStore(i)
      PROVE  SingleFlight'
  <2>1. \A j \in Inits : /\ Holding(j)' <=> Holding(j)
                         /\ Holding(j) => InitKey(j)' = InitKey(j)
    BY <1>0, <1>6, InitGoesKeeps, HoldingOthers DEF HydrateStore, Holding, InitPcs
  <2> QED
    BY <1>6, <2>1, FlightKept DEF HydrateStore, chanVars
<1>7. ASSUME HydrateComplete(i)
      PROVE  SingleFlight'
  <2>1. \A j \in Inits : /\ Holding(j)' <=> Holding(j)
                         /\ Holding(j) => InitKey(j)' = InitKey(j)
    BY <1>0, <1>7, InitGoesKeeps, HoldingOthers DEF HydrateComplete, Holding, InitPcs
  <2> QED
    BY <1>7, <2>1, FlightKept DEF HydrateComplete, chanVars
<1>8. ASSUME HydrateEnqueue(i)
      PROVE  SingleFlight'
  <2>1. \A j \in Inits : /\ Holding(j)' <=> Holding(j)
                         /\ Holding(j) => InitKey(j)' = InitKey(j)
    BY <1>0, <1>8, InitGoesKeeps, HoldingOthers DEF HydrateEnqueue, Holding, InitPcs
  <2> QED
    BY <1>8, <2>1, FlightKept DEF HydrateEnqueue
<1>9. ASSUME HydrateRemove(i)
      PROVE  SingleFlight'
  <2>1. \A j \in Inits : /\ Holding(j)' <=> Holding(j)
                         /\ Holding(j) => InitKey(j)' = InitKey(j)
    BY <1>0, <1>9, InitGoesKeeps, HoldingOthers DEF HydrateRemove, Holding, InitPcs
  <2> QED
    BY <1>9, <2>1, FlightKept DEF HydrateRemove, chanVars
<1>10. ASSUME HydrateFinish(i)
      PROVE  SingleFlight'
  <2>1. Holding(i) /\ ~Holding(i)'
    BY <1>0, <1>10, InitDoneKeeps DEF HydrateFinish, Holding
  <2>2. \A j \in Inits \ {i} : (Holding(j)' <=> Holding(j)) /\ InitKey(j)' = InitKey(j)
    BY <1>0, <1>10, InitDoneKeeps, HoldingOthers DEF HydrateFinish
  <2> QED
    BY <1>10, <2>1, <2>2, FlightReleased DEF HydrateFinish
<1>11. ASSUME HydrateMissFinish(i)
      PROVE  SingleFlight'
  <2>1. Holding(i) /\ ~Holding(i)'
    BY <1>0, <1>11, InitGoesKeeps DEF HydrateMissFinish, Holding, InitPcs
  <2>2. \A j \in Inits \ {i} : (Holding(j)' <=> Holding(j)) /\ InitKey(j)' = InitKey(j)
    BY <1>0, <1>11, InitGoesKeeps, HoldingOthers DEF HydrateMissFinish, InitPcs
  <2> QED
    BY <1>11, <2>1, <2>2, FlightReleased DEF HydrateMissFinish
<1>12. ASSUME HydrateMissCheck(i)
      PROVE  SingleFlight'
  <2>1. \A j \in Inits : /\ Holding(j)' <=> Holding(j)
                         /\ Holding(j) => InitKey(j)' = InitKey(j)
    BY <1>0, <1>12, InitGoesKeeps, InitDoneKeeps, HoldingOthers DEF HydrateMissCheck, Holding, InitPcs
  <2> QED
    BY <1>12, <2>1, FlightKept DEF HydrateMissCheck, chanVars
<1>13. ASSUME HydrateMissPending(i)
      PROVE  SingleFlight'
  <2>1. \A j \in Inits : /\ Holding(j)' <=> Holding(j)
                         /\ Holding(j) => InitKey(j)' = InitKey(j)
    BY <1>0, <1>13, InitGoesKeeps, HoldingOthers DEF HydrateMissPending, Holding, InitPcs
  <2> QED
    BY <1>13, <2>1, FlightKept DEF HydrateMissPending, chanVars
<1>14. ASSUME HydrateMissEnqueue(i)
      PROVE  SingleFlight'
  <2>1. \A j \in Inits : /\ Holding(j)' <=> Holding(j)
                         /\ Holding(j) => InitKey(j)' = InitKey(j)
    BY <1>0, <1>14, InitDoneKeeps, HoldingOthers DEF HydrateMissEnqueue, Holding
  <2> QED
    BY <1>14, <2>1, FlightKept DEF HydrateMissEnqueue
<1> QED
  BY <1>1, <1>2, <1>3, <1>4, <1>5, <1>6, <1>7, <1>8, <1>9, <1>10, <1>11, <1>12,
     <1>13, <1>14
     DEF InitNext

LEMMA SingleFlightInit ==
    ASSUME Init
    PROVE  SingleFlight
<1>1. \A i \in Inits : ~Holding(i)
  BY StartTypes DEF Init, Fresh, Holding
<1>2. inFlight = {}
  BY DEF Init, Fresh
<1> QED
  BY <1>1, <1>2 DEF SingleFlight

LEMMA SingleFlightStep ==
    ASSUME TypeOK, SingleFlight, [Next]_vars
    PROVE  SingleFlight'
<1>1. CASE UNCHANGED vars
  BY <1>1, FlightUnchanged DEF vars, chanVars
<1>2. ASSUME NEW i \in Inits, InitNext(i)
      PROVE  SingleFlight'
  BY <1>2, InitFlightStep
<1>3. CASE WorkerNext
  BY <1>3, FlightUnchanged
     DEF WorkerNext, WorkerReceive, WorkerDrainDebouncer, WorkerMembershipChanged,
         WorkerNextFiles, VerifyStart, VerifyLoadSettings, VerifyScan,
         VerifyRecheck, VerifyConfirm, VerifyScanFailed, VerifyInvalidate,
         VerifyHandoffCheck, VerifyHandoffPending, VerifyHandoffEnqueue,
         RebuildBegin, RebuildPending, RebuildLoadSettings, RebuildFailed,
         RebuildPublishFailed, RebuildDiscovering, RebuildDiscover,
         RebuildIndexing, RebuildCheck, RebuildFingerprint, RebuildBuild,
         RebuildWrite, RebuildRescan, RebuildStore, RebuildFinish, RebuildReadBack,
         RebuildComplete, FilesBegin, FilesBase, FilesRunning, FilesApply,
         FilesApplied, FilesPublish, FilesPersist, FilesPersistWrite,
         FilesPersistStore, chanVars
<1>4. ASSUME NEW r \in Readers, ReaderNext(r)
      PROVE  SingleFlight'
  BY <1>4, FlightUnchanged
     DEF ReaderNext, ReaderHot, ReaderInFlight, ReaderRegister, ReaderCheck,
         ReaderWake, ReaderTimeout, ReaderLast, ReaderCache, ReaderFingerprint,
         ReaderBuild, ReaderWrite, ReaderRescan, ReaderStore, chanVars
<1>5. CASE MainNext \/ RetryNext
  BY <1>5, FlightUnchanged
     DEF MainNext, RetryNext, RestartForSettings, EnqueueReindex, QueryEnqueue,
         VerifyRetry, chanVars
<1>6. CASE Environment
  <2>1. ASSUME NEW i \in Inits, NEW p \in Projects \cup {settings.active},
               InitRequest(i, p)
        PROVE  SingleFlight'
    <3>1. init[i] \in InitStates /\ init \in [Inits -> InitStates]
      BY DEF TypeOK
    <3>2. init'[i] = [init[i] EXCEPT !.pc = "lookup", !.settings = settings, !.project = p]
      BY <2>1, <3>1 DEF InitRequest
    <3>3. init[i].pc = "ready" /\ init'[i].pc = "lookup"
      BY <2>1, <3>1, <3>2 DEF InitRequest, InitStates
    <3>4. \A j \in Inits \ {i} : init'[j] = init[j]
      BY <2>1, <3>1 DEF InitRequest
    <3>5. \A j \in Inits : /\ Holding(j)' <=> Holding(j)
                           /\ Holding(j) => InitKey(j)' = InitKey(j)
      BY <3>3, <3>4 DEF Holding, InitKey, InitFp
    <3> QED
      BY <2>1, <3>5, FlightKept DEF InitRequest, chanVars
  <2>2. CASE Restart
    <3>1. \A i \in Inits : ~Holding(i)'
      BY <2>2, StartTypes DEF Restart, Holding
    <3> QED
      BY <2>2, <3>1 DEF Restart, SingleFlight
  <2>3. CASE \/ \E s \in Settings : SaveSettings(s)
             \/ \E p \in Projects : QueryMiss(p) \/ RenameFolder(p)
             \/ ExternalEdit \/ SaveFile
             \/ \E r \in Readers, p \in Projects, pc \in {"hot", "fingerprint"} :
                   ReaderRequest(r, p, pc)
    BY <2>3, FlightUnchanged
       DEF SaveSettings, QueryMiss, RenameFolder, ExternalEdit, SaveFile, ReaderRequest,
           chanVars
  <2> QED
    BY <1>6, <2>1, <2>2, <2>3 DEF Environment
<1> QED
  BY <1>1, <1>2, <1>3, <1>4, <1>5, <1>6 DEF Next

\* A key of in_flight_init has exactly one owner, which is still running: no
\* initialization leaks its key, none is released under its owner, and no two
\* initializations of one project, settings and generation run at once.
THEOREM SingleFlightHolds == Spec => []SingleFlight
<1>1. TypeInv => TypeOK
  BY DEF TypeInv
<1>2. Init => TypeInv /\ SingleFlight
  BY TypeInit, SingleFlightInit
<1>3. TypeInv /\ SingleFlight /\ [Next]_vars => (TypeInv /\ SingleFlight)'
  BY <1>1, TypeStep, SingleFlightStep
<1> QED
  BY <1>2, <1>3, PTL DEF Spec

-----------------------------------------------------------------------------
(* VerifiedKept: a verified index goes only when it is stale, and no        *)
(* hydration takes its place. A hydration yields because an entry is filed  *)
(* under the project its fingerprint is of (EntryScope), so that the guard  *)
(* of the hydration looks at the entry it would replace. The second half    *)
(* rests on what the worker knows between its scan and the invalidation     *)
(* (Judged): no list of fingerprints is newer than the collection           *)
(* (ListsDated), so a list that differed from a scan differs for good; and  *)
(* a settings change either shows as a new generation or is about to.       *)

FilesPcs == {"files", "base", "running", "apply", "applied", "publish", "persist",
             "persistWrite", "persistStore"}

FilesActive == worker.pc \in FilesPcs => worker.project = None

EntryScope == entry # None => entry.fp.project = entry.project

Dated(fps) == fps # None => fps.version <= disk

ListsDated ==
    /\ entry # None => Dated(entry.fps)
    /\ cache # None => Dated(cache.fps)
    /\ Dated(worker.fps)
    /\ \A i \in Inits : Dated(init[i].fps)
    /\ \A r \in Readers : Dated(reader[r].fps)

\* A verification is of the project its fingerprint is of.
Scoped(x) == x.fp.project = x.project

JobScoped(job) == job.kind = "VerifyCache" => Scoped(job)

JobsScoped ==
    /\ \A n \in DOMAIN queue : JobScoped(queue[n])
    /\ \A job \in retries \cup worker.verify : Scoped(job)

JudgePcs == {"verifyLoad", "verifyScan", "verifyRecheck", "scanFailed", "invalidate"}

LoadedPcs == {"verifyScan", "verifyRecheck", "invalidate"}

Differs ==
    \/ worker.fps = None
    \/ worker.fps # Scan(SettingsFingerprint(worker.settings, worker.project))

Judged ==
    worker.pc \in JudgePcs =>
        /\ worker.gen <= generation
        /\ Scoped(worker)
        /\ worker.pc = "scanFailed" => faults > 0
        /\ worker.pc \in LoadedPcs /\ faults = 0 =>
             /\ worker.gen = generation /\ main.pc # "bump" => worker.settings = settings
             /\ worker.pc = "verifyRecheck" => worker.verdict \in {"Match", "Mismatch"}
             /\ worker.pc = "verifyRecheck" /\ worker.verdict = "Mismatch" => Differs
             /\ worker.pc = "invalidate" => Differs

KeptInv == EntryScope /\ FilesActive /\ ListsDated /\ JobsScoped /\ Judged

\* What one step may do to a verified entry.
Kept ==
    restarts' = restarts /\ entry # None /\ entry.verified =>
        IF entry' = None
        THEN \/ entry.fps # Scan(entry.fp)
             \/ entry.fp.rev # settings.rev \/ main.pc = "bump"
             \/ faults > 0
        ELSE entry'.fp = entry.fp => entry'.verified

-----------------------------------------------------------------------------
(* What the updates of the worker keep *)

LEMMA WorkerGoesKeeps ==
    ASSUME worker \in Workers, NEW pc \in WorkerPcs, WorkerGoes(pc)
    PROVE  worker'.pc = pc /\ worker'.project = worker.project
  BY DEF WorkerGoes, Workers

LEMMA WorkerDoneOutside ==
    ASSUME worker \in Workers, WorkerDone
    PROVE  worker'.pc \notin FilesPcs
  BY StartTypes DEF WorkerDone, Workers, FilesPcs

LEMMA WorkerGoesFields ==
    ASSUME worker \in Workers, NEW pc \in WorkerPcs, WorkerGoes(pc)
    PROVE  /\ worker'.pc = pc
           /\ worker'.project = worker.project /\ worker'.gen = worker.gen
           /\ worker'.fp = worker.fp /\ worker'.settings = worker.settings
           /\ worker'.fps = worker.fps /\ worker'.verdict = worker.verdict
           /\ worker'.verify = worker.verify
  BY DEF WorkerGoes, Workers

LEMMA WorkerDoneFields ==
    ASSUME worker \in Workers, WorkerDone
    PROVE  /\ worker'.pc \in {"idle", "batch"}
           /\ worker'.verify = worker.verify /\ worker'.fps = None
<1>1. IdleWorker \in Workers /\ IdleWorker.fps = None
  BY StartTypes DEF IdleWorker
<1> QED
  BY <1>1 DEF WorkerDone, Workers

LEMMA IdleFields ==
    IdleWorker.fps = None /\ IdleWorker.verify = {}
  BY DEF IdleWorker

\* A step of the worker that is no verification.
Quiet ==
    /\ worker'.pc \notin JudgePcs
    /\ worker'.verify \subseteq worker.verify
    /\ worker'.fps \in {worker.fps, None, Scan(WorkerFp)}

QuietNext ==
    \/ WorkerDrainDebouncer \/ WorkerMembershipChanged \/ WorkerNextFiles \/ VerifyConfirm
    \/ VerifyHandoffCheck \/ VerifyHandoffPending \/ VerifyHandoffEnqueue \/ RebuildBegin
    \/ RebuildPending \/ RebuildLoadSettings \/ RebuildFailed \/ RebuildPublishFailed
    \/ RebuildDiscovering \/ RebuildDiscover \/ RebuildIndexing \/ RebuildCheck
    \/ RebuildFingerprint \/ RebuildBuild \/ RebuildWrite \/ RebuildRescan
    \/ RebuildStore \/ RebuildFinish \/ RebuildReadBack \/ RebuildComplete
    \/ FilesBegin \/ FilesBase \/ FilesRunning \/ FilesApply
    \/ FilesApplied \/ FilesPublish \/ FilesPersist \/ FilesPersistWrite
    \/ FilesPersistStore

LEMMA WorkerNextSplit ==
    ASSUME WorkerNext
    PROVE  \/ QuietNext
           \/ WorkerReceive \/ (\E job \in worker.verify : VerifyStart(job))
           \/ VerifyLoadSettings \/ VerifyScan \/ VerifyRecheck \/ VerifyScanFailed
           \/ VerifyInvalidate
  BY DEF WorkerNext, QuietNext

LEMMA QuietStep ==
    ASSUME TypeOK, QuietNext
    PROVE  Quiet
<1>0. worker \in Workers
  BY DEF TypeOK
<1>1. CASE WorkerDrainDebouncer
  BY <1>0, <1>1, IdleFields, StartTypes
     DEF WorkerDrainDebouncer, Workers, Quiet, JudgePcs
<1>2. CASE WorkerMembershipChanged
  BY <1>0, <1>2, IdleFields, StartTypes
     DEF WorkerMembershipChanged, Workers, Quiet, JudgePcs
<1>3. CASE WorkerNextFiles
  BY <1>0, <1>3, IdleFields, StartTypes
     DEF WorkerNextFiles, Workers, Quiet, JudgePcs
<1>4. CASE VerifyConfirm
  BY <1>0, <1>4, WorkerDoneFields
     DEF VerifyConfirm, Quiet, JudgePcs
<1>5. CASE VerifyHandoffCheck
  BY <1>0, <1>5, WorkerGoesFields
     DEF VerifyHandoffCheck, WorkerPcs, Quiet, JudgePcs
<1>6. CASE VerifyHandoffPending
  BY <1>0, <1>6, WorkerGoesFields
     DEF VerifyHandoffPending, WorkerPcs, Quiet, JudgePcs
<1>7. CASE VerifyHandoffEnqueue
  BY <1>0, <1>7, WorkerDoneFields
     DEF VerifyHandoffEnqueue, Quiet, JudgePcs
<1>8. CASE RebuildBegin
  BY <1>0, <1>8
     DEF RebuildBegin, Workers, Quiet, JudgePcs
<1>9. CASE RebuildPending
  BY <1>0, <1>9, WorkerGoesFields
     DEF RebuildPending, WorkerPcs, Quiet, JudgePcs
<1>10. CASE RebuildLoadSettings
  BY <1>0, <1>10, WorkerGoesFields
     DEF RebuildLoadSettings, WorkerPcs, Workers, Quiet, JudgePcs
<1>11. CASE RebuildFailed
  BY <1>0, <1>11, WorkerGoesFields, WorkerDoneFields
     DEF RebuildFailed, WorkerPcs, Quiet, JudgePcs
<1>12. CASE RebuildPublishFailed
  BY <1>0, <1>12, WorkerDoneFields
     DEF RebuildPublishFailed, Quiet, JudgePcs
<1>13. CASE RebuildDiscovering
  BY <1>0, <1>13, WorkerGoesFields
     DEF RebuildDiscovering, WorkerPcs, Quiet, JudgePcs
<1>14. CASE RebuildDiscover
  BY <1>0, <1>14, WorkerGoesFields, WorkerDoneFields
     DEF RebuildDiscover, WorkerPcs, Quiet, JudgePcs
<1>15. CASE RebuildIndexing
  BY <1>0, <1>15, WorkerGoesFields
     DEF RebuildIndexing, WorkerPcs, Quiet, JudgePcs
<1>16. CASE RebuildCheck
  BY <1>0, <1>16, WorkerGoesFields, WorkerDoneFields
     DEF RebuildCheck, WorkerPcs, Quiet, JudgePcs
<1>17. CASE RebuildFingerprint
  BY <1>0, <1>17, WorkerGoesFields
     DEF RebuildFingerprint, WorkerPcs, Workers, Quiet, JudgePcs
<1>18. CASE RebuildBuild
  BY <1>0, <1>18
     DEF RebuildBuild, Workers, Quiet, JudgePcs
<1>19. CASE RebuildWrite
  BY <1>0, <1>19, WorkerGoesFields
     DEF RebuildWrite, WorkerPcs, Quiet, JudgePcs
<1>20. CASE RebuildRescan
  BY <1>0, <1>20, WorkerGoesFields
     DEF RebuildRescan, WorkerPcs, Workers, Quiet, JudgePcs
<1>21. CASE RebuildStore
  BY <1>0, <1>21, WorkerGoesFields
     DEF RebuildStore, WorkerPcs, Quiet, JudgePcs
<1>22. CASE RebuildFinish
  BY <1>0, <1>22, WorkerGoesFields, WorkerDoneFields
     DEF RebuildFinish, WorkerPcs, Quiet, JudgePcs
<1>23. CASE RebuildReadBack
  BY <1>0, <1>23, WorkerGoesFields
     DEF RebuildReadBack, WorkerPcs, Quiet, JudgePcs
<1>24. CASE RebuildComplete
  BY <1>0, <1>24, WorkerDoneFields
     DEF RebuildComplete, Quiet, JudgePcs
<1>25. CASE FilesBegin
  BY <1>0, <1>25, WorkerDoneFields
     DEF FilesBegin, Workers, Quiet, JudgePcs
<1>26. CASE FilesBase
  BY <1>0, <1>26, IdleFields, StartTypes
     DEF FilesBase, Workers, Quiet, JudgePcs
<1>27. CASE FilesRunning
  BY <1>0, <1>27, WorkerGoesFields
     DEF FilesRunning, WorkerPcs, Quiet, JudgePcs
<1>28. CASE FilesApply
  BY <1>0, <1>28, WorkerDoneFields, IdleFields, StartTypes
     DEF FilesApply, Workers, Quiet, JudgePcs
<1>29. CASE FilesApplied
  BY <1>0, <1>29, WorkerGoesFields, WorkerDoneFields
     DEF FilesApplied, WorkerPcs, Quiet, JudgePcs
<1>30. CASE FilesPublish
  BY <1>0, <1>30, WorkerGoesFields
     DEF FilesPublish, WorkerPcs, Quiet, JudgePcs
<1>31. CASE FilesPersist
  BY <1>0, <1>31
     DEF FilesPersist, Workers, Quiet, JudgePcs
<1>32. CASE FilesPersistWrite
  BY <1>0, <1>32, WorkerGoesFields, WorkerDoneFields
     DEF FilesPersistWrite, WorkerPcs, Quiet, JudgePcs
<1>33. CASE FilesPersistStore
  BY <1>0, <1>33, WorkerDoneFields
     DEF FilesPersistStore, Quiet, JudgePcs
<1> QED
  BY <1>1, <1>2, <1>3, <1>4, <1>5, <1>6, <1>7, <1>8, <1>9, <1>10, <1>11, <1>12,
     <1>13, <1>14, <1>15, <1>16, <1>17, <1>18, <1>19, <1>20, <1>21, <1>22, <1>23,
     <1>24, <1>25, <1>26, <1>27, <1>28, <1>29, <1>30, <1>31, <1>32, <1>33
     DEF QuietNext

LEMMA FilesActiveStep ==
    ASSUME TypeOK, FilesActive, WorkerNext
    PROVE  FilesActive'
<1>0. worker \in Workers
  BY DEF TypeOK
<1>1. ASSUME WorkerReceive
      PROVE  FilesActive'
  <2>1. worker'.pc \in {"rebuild", "batch"} \/ worker' = worker
    BY <1>1, StartTypes DEF WorkerReceive, Workers
  <2> QED
    BY <2>1 DEF FilesActive, FilesPcs
<1>2. ASSUME WorkerDrainDebouncer
      PROVE  FilesActive'
  BY <1>0, <1>2, StartTypes
     DEF WorkerDrainDebouncer, Workers, FilesActive, FilesPcs
<1>3. ASSUME WorkerMembershipChanged
      PROVE  FilesActive'
  BY <1>0, <1>3, StartTypes
     DEF WorkerMembershipChanged, Workers, FilesActive, FilesPcs
<1>4. ASSUME WorkerNextFiles
      PROVE  FilesActive'
  BY <1>0, <1>4, StartTypes
     DEF WorkerNextFiles, Workers, IdleWorker, FilesActive, FilesPcs
<1>5. ASSUME NEW job \in worker.verify, VerifyStart(job)
      PROVE  FilesActive'
  BY <1>0, <1>5
     DEF VerifyStart, Workers, FilesActive, FilesPcs
<1>6. ASSUME VerifyLoadSettings
      PROVE  FilesActive'
  <2>1. worker'.pc \in {"verifyScan", "scanFailed"}
    BY <1>0, <1>6 DEF VerifyLoadSettings, WorkerGoes, Workers
  <2> QED
    BY <2>1 DEF FilesActive, FilesPcs
<1>7. ASSUME VerifyScan
      PROVE  FilesActive'
  BY <1>0, <1>7
     DEF VerifyScan, Workers, FilesActive, FilesPcs
<1>8. ASSUME VerifyRecheck
      PROVE  FilesActive'
  BY <1>0, <1>8, WorkerGoesKeeps, WorkerDoneOutside
     DEF VerifyRecheck, WorkerPcs, FilesActive, FilesPcs
<1>9. ASSUME VerifyConfirm
      PROVE  FilesActive'
  BY <1>0, <1>9, WorkerDoneOutside
     DEF VerifyConfirm, FilesActive, FilesPcs
<1>10. ASSUME VerifyScanFailed
      PROVE  FilesActive'
  BY <1>0, <1>10, WorkerGoesKeeps, WorkerDoneOutside
     DEF VerifyScanFailed, WorkerPcs, FilesActive, FilesPcs
<1>11. ASSUME VerifyInvalidate
      PROVE  FilesActive'
  BY <1>0, <1>11, WorkerGoesKeeps, WorkerDoneOutside
     DEF VerifyInvalidate, WorkerPcs, FilesActive, FilesPcs
<1>12. ASSUME VerifyHandoffCheck
      PROVE  FilesActive'
  BY <1>0, <1>12, WorkerGoesKeeps
     DEF VerifyHandoffCheck, WorkerPcs, FilesActive, FilesPcs
<1>13. ASSUME VerifyHandoffPending
      PROVE  FilesActive'
  BY <1>0, <1>13, WorkerGoesKeeps
     DEF VerifyHandoffPending, WorkerPcs, FilesActive, FilesPcs
<1>14. ASSUME VerifyHandoffEnqueue
      PROVE  FilesActive'
  BY <1>0, <1>14, WorkerDoneOutside
     DEF VerifyHandoffEnqueue, FilesActive, FilesPcs
<1>15. ASSUME RebuildBegin
      PROVE  FilesActive'
  BY <1>0, <1>15
     DEF RebuildBegin, Workers, FilesActive, FilesPcs
<1>16. ASSUME RebuildPending
      PROVE  FilesActive'
  BY <1>0, <1>16, WorkerGoesKeeps
     DEF RebuildPending, WorkerPcs, FilesActive, FilesPcs
<1>17. ASSUME RebuildLoadSettings
      PROVE  FilesActive'
  BY <1>0, <1>17, WorkerGoesKeeps
     DEF RebuildLoadSettings, WorkerPcs, Workers, FilesActive, FilesPcs
<1>18. ASSUME RebuildFailed
      PROVE  FilesActive'
  BY <1>0, <1>18, WorkerGoesKeeps, WorkerDoneOutside
     DEF RebuildFailed, WorkerPcs, FilesActive, FilesPcs
<1>19. ASSUME RebuildPublishFailed
      PROVE  FilesActive'
  BY <1>0, <1>19, WorkerDoneOutside
     DEF RebuildPublishFailed, FilesActive, FilesPcs
<1>20. ASSUME RebuildDiscovering
      PROVE  FilesActive'
  BY <1>0, <1>20, WorkerGoesKeeps
     DEF RebuildDiscovering, WorkerPcs, FilesActive, FilesPcs
<1>21. ASSUME RebuildDiscover
      PROVE  FilesActive'
  BY <1>0, <1>21, WorkerGoesKeeps, WorkerDoneOutside
     DEF RebuildDiscover, WorkerPcs, FilesActive, FilesPcs
<1>22. ASSUME RebuildIndexing
      PROVE  FilesActive'
  BY <1>0, <1>22, WorkerGoesKeeps
     DEF RebuildIndexing, WorkerPcs, FilesActive, FilesPcs
<1>23. ASSUME RebuildCheck
      PROVE  FilesActive'
  BY <1>0, <1>23, WorkerGoesKeeps, WorkerDoneOutside
     DEF RebuildCheck, WorkerPcs, FilesActive, FilesPcs
<1>24. ASSUME RebuildFingerprint
      PROVE  FilesActive'
  BY <1>0, <1>24, WorkerGoesKeeps
     DEF RebuildFingerprint, WorkerPcs, Workers, FilesActive, FilesPcs
<1>25. ASSUME RebuildBuild
      PROVE  FilesActive'
  BY <1>0, <1>25
     DEF RebuildBuild, Workers, FilesActive, FilesPcs
<1>26. ASSUME RebuildWrite
      PROVE  FilesActive'
  BY <1>0, <1>26, WorkerGoesKeeps
     DEF RebuildWrite, WorkerPcs, FilesActive, FilesPcs
<1>27. ASSUME RebuildRescan
      PROVE  FilesActive'
  BY <1>0, <1>27, WorkerGoesKeeps
     DEF RebuildRescan, WorkerPcs, Workers, FilesActive, FilesPcs
<1>28. ASSUME RebuildStore
      PROVE  FilesActive'
  BY <1>0, <1>28, WorkerGoesKeeps
     DEF RebuildStore, WorkerPcs, FilesActive, FilesPcs
<1>29. ASSUME RebuildFinish
      PROVE  FilesActive'
  BY <1>0, <1>29, WorkerGoesKeeps, WorkerDoneOutside
     DEF RebuildFinish, WorkerPcs, FilesActive, FilesPcs
<1>30. ASSUME RebuildReadBack
      PROVE  FilesActive'
  BY <1>0, <1>30, WorkerGoesKeeps
     DEF RebuildReadBack, WorkerPcs, FilesActive, FilesPcs
<1>31. ASSUME RebuildComplete
      PROVE  FilesActive'
  BY <1>0, <1>31, WorkerDoneOutside
     DEF RebuildComplete, FilesActive, FilesPcs
<1>32. ASSUME FilesBegin
      PROVE  FilesActive'
  BY <1>0, <1>32, WorkerDoneOutside
     DEF FilesBegin, Workers, FilesActive, FilesPcs
<1>33. ASSUME FilesBase
      PROVE  FilesActive'
  BY <1>0, <1>33, StartTypes
     DEF FilesBase, Workers, FilesActive, FilesPcs
<1>34. ASSUME FilesRunning
      PROVE  FilesActive'
  BY <1>0, <1>34, WorkerGoesKeeps
     DEF FilesRunning, WorkerPcs, FilesActive, FilesPcs
<1>35. ASSUME FilesApply
      PROVE  FilesActive'
  BY <1>0, <1>35, WorkerDoneOutside, StartTypes
     DEF FilesApply, Workers, FilesActive, FilesPcs
<1>36. ASSUME FilesApplied
      PROVE  FilesActive'
  BY <1>0, <1>36, WorkerGoesKeeps, WorkerDoneOutside
     DEF FilesApplied, WorkerPcs, FilesActive, FilesPcs
<1>37. ASSUME FilesPublish
      PROVE  FilesActive'
  BY <1>0, <1>37, WorkerGoesKeeps
     DEF FilesPublish, WorkerPcs, FilesActive, FilesPcs
<1>38. ASSUME FilesPersist
      PROVE  FilesActive'
  BY <1>0, <1>38
     DEF FilesPersist, Workers, FilesActive, FilesPcs
<1>39. ASSUME FilesPersistWrite
      PROVE  FilesActive'
  BY <1>0, <1>39, WorkerGoesKeeps, WorkerDoneOutside
     DEF FilesPersistWrite, WorkerPcs, FilesActive, FilesPcs
<1>40. ASSUME FilesPersistStore
      PROVE  FilesActive'
  BY <1>0, <1>40, WorkerDoneOutside
     DEF FilesPersistStore, FilesActive, FilesPcs
<1> QED
  BY <1>1, <1>2, <1>3, <1>4, <1>5, <1>6, <1>7, <1>8, <1>9, <1>10, <1>11, <1>12,
     <1>13, <1>14, <1>15, <1>16, <1>17, <1>18, <1>19, <1>20, <1>21, <1>22, <1>23,
     <1>24, <1>25, <1>26, <1>27, <1>28, <1>29, <1>30, <1>31, <1>32, <1>33, <1>34,
     <1>35, <1>36, <1>37, <1>38, <1>39, <1>40
     DEF WorkerNext

-----------------------------------------------------------------------------
(* The lists of fingerprints *)

LEMMA WorkerReads ==
    ASSUME TypeOK, WorkerNext
    PROVE  \/ worker'.fps \in {worker.fps, None, Scan(WorkerFp)}
           \/ entry # None /\ worker'.fps = entry.fps
<1>0. worker \in Workers
  BY DEF TypeOK
<1>1. CASE QuietNext
  BY <1>1, QuietStep DEF Quiet
<1>2. CASE WorkerReceive
  BY <1>0, <1>2, StartTypes, IdleFields DEF WorkerReceive, Workers
<1>3. ASSUME NEW job \in worker.verify, VerifyStart(job)
      PROVE  \/ worker'.fps = worker.fps
             \/ entry # None /\ worker'.fps = entry.fps
  BY <1>0, <1>3 DEF VerifyStart, HasEntry, Workers
<1>4. CASE VerifyLoadSettings
  BY <1>0, <1>4, WorkerGoesFields DEF VerifyLoadSettings, WorkerPcs, Workers
<1>5. CASE VerifyScan
  BY <1>0, <1>5 DEF VerifyScan, Workers
<1>6. CASE VerifyRecheck
  BY <1>0, <1>6, WorkerGoesFields, WorkerDoneFields DEF VerifyRecheck, WorkerPcs
<1>7. CASE VerifyScanFailed
  BY <1>0, <1>7, WorkerGoesFields, WorkerDoneFields DEF VerifyScanFailed, WorkerPcs
<1>8. CASE VerifyInvalidate
  BY <1>0, <1>8, WorkerGoesFields, WorkerDoneFields DEF VerifyInvalidate, WorkerPcs
<1> QED
  BY <1>1, <1>2, <1>3, <1>4, <1>5, <1>6, <1>7, <1>8, WorkerNextSplit

\* What the worker writes to the slot and to the disk cache is its own list.
LEMMA WorkerWrites ==
    ASSUME TypeOK, WorkerNext
    PROVE  /\ \/ entry' = None
              \/ entry # None /\ entry'.fps = entry.fps
              \/ entry'.fps = worker.fps
           /\ cache' = cache \/ cache'.fps = worker.fps
<1>1. CASE VerifyConfirm
  <2>1. UNCHANGED cache
    BY <1>1 DEF VerifyConfirm, diskVars
  <2>2. CASE MayConfirm(worker.gen, worker.fp)
    <3>1. entry \in Entries /\ entry' = [entry EXCEPT !.verified = TRUE]
      BY <1>1, <2>2 DEF VerifyConfirm, MayConfirm, HasEntry, ConfirmCacheVerified,
                        TypeOK, StateTypeOK
    <3>2. entry'.fps = entry.fps
      BY <3>1 DEF Entries
    <3> QED
      BY <2>1, <2>2, <3>2 DEF MayConfirm, HasEntry
  <2>3. CASE ~MayConfirm(worker.gen, worker.fp)
    BY <1>1, <2>1, <2>3 DEF VerifyConfirm
  <2> QED
    BY <2>2, <2>3
<1>2. CASE VerifyInvalidate
  BY <1>2 DEF VerifyInvalidate, InvalidateEntry, diskVars
<1>3. CASE RebuildStore
  BY <1>3 DEF RebuildStore, Store, NewEntry, diskVars
<1>4. CASE FilesPersistStore
  BY <1>4 DEF FilesPersistStore, Store, NewEntry, diskVars
<1>5. CASE RebuildWrite
  BY <1>5 DEF RebuildWrite, stateVars
<1>6. CASE FilesPersistWrite
  BY <1>6 DEF FilesPersistWrite, stateVars
<1>7. CASE UNCHANGED <<entry, cache>>
  BY <1>7
<1> QED
  BY <1>1, <1>2, <1>3, <1>4, <1>5, <1>6, <1>7
     DEF WorkerNext, WorkerReceive, WorkerDrainDebouncer, WorkerMembershipChanged,
         WorkerNextFiles, VerifyStart, VerifyLoadSettings, VerifyScan,
         VerifyRecheck, VerifyScanFailed, VerifyHandoffCheck, VerifyHandoffPending,
         VerifyHandoffEnqueue, RebuildBegin, RebuildPending, RebuildLoadSettings,
         RebuildFailed, RebuildPublishFailed, RebuildDiscovering, RebuildDiscover,
         RebuildIndexing, RebuildCheck, RebuildFingerprint, RebuildBuild,
         RebuildRescan, RebuildFinish, RebuildReadBack,
         RebuildComplete, FilesBegin, FilesBase, FilesRunning, FilesApply,
         FilesApplied, FilesPublish, FilesPersist, stateVars, diskVars

LEMMA WorkerLeaves ==
    ASSUME WorkerNext
    PROVE  /\ UNCHANGED <<generation, settings, disk, init, main, restarts>>
           /\ UNCHANGED reader \/ NotifyJobCompleted
           /\ faults' = faults \/ faults' = faults + 1
  BY DEF WorkerNext, WorkerReceive, WorkerDrainDebouncer, WorkerMembershipChanged,
         WorkerNextFiles, VerifyStart, VerifyLoadSettings, VerifyScan, ScanFault,
         VerifyRecheck, VerifyConfirm, VerifyScanFailed, VerifyInvalidate,
         VerifyHandoffCheck, VerifyHandoffPending,
         VerifyHandoffEnqueue, RebuildBegin, RebuildPending, RebuildLoadSettings,
         RebuildFailed, RebuildPublishFailed, RebuildDiscovering, RebuildDiscover,
         RebuildIndexing, RebuildCheck, RebuildFingerprint, RebuildBuild, RebuildWrite,
         RebuildRescan, RebuildStore, RebuildFinish, RebuildReadBack,
         RebuildComplete, FilesBegin, FilesBase, FilesRunning, FilesApply,
         FilesApplied, FilesPublish, FilesPersist, FilesPersistWrite,
         FilesPersistStore, ConfirmCacheVerified, SetStatusPending, stateVars, diskVars,
         Fault, NoFault, bounds

LEMMA NotifyKeepsLists ==
    ASSUME reader \in [Readers -> ReaderStates], NotifyJobCompleted, NEW r \in Readers
    PROVE  reader'[r].fps = reader[r].fps
  BY DEF NotifyJobCompleted, ReaderStates

LEMMA ScanDated ==
    ASSUME disk \in Nat, NEW fp
    PROVE  Dated(Scan(fp)) /\ Dated(None)
  BY DEF Scan, Dated

LEMMA WorkerListsStep ==
    ASSUME TypeOK, ListsDated, WorkerNext
    PROVE  ListsDated'
<1>1. disk' = disk /\ init' = init /\ disk \in Nat
  BY WorkerLeaves DEF TypeOK
<1>2. Dated(worker'.fps)
  BY <1>1, WorkerReads, ScanDated DEF ListsDated
<1>3. entry' # None => Dated(entry'.fps)
  BY WorkerWrites DEF ListsDated
<1>4. cache' # None => Dated(cache'.fps)
  BY WorkerWrites DEF ListsDated
<1>5. \A r \in Readers : Dated(reader'[r].fps)
  <2>1. \A r \in Readers : reader'[r].fps = reader[r].fps
    BY WorkerLeaves, NotifyKeepsLists DEF TypeOK
  <2> QED
    BY <2>1 DEF ListsDated
<1> QED
  BY <1>1, <1>2, <1>3, <1>4, <1>5 DEF ListsDated, Dated

LEMMA InitListsStep ==
    ASSUME TypeOK, ListsDated, NEW i \in Inits, InitNext(i)
    PROVE  ListsDated'
<1>1. UNCHANGED <<disk, cache, worker, reader>>
  BY DEF InitNext, InitLookup, InitDecide, InitClaim, InitPublish, HydrateRead,
         HydrateStore, HydrateComplete, HydrateEnqueue, HydrateRemove, HydrateFinish,
         HydrateMissFinish, HydrateMissCheck, HydrateMissPending, HydrateMissEnqueue,
         diskVars
<1>2. init[i] \in InitStates /\ init \in [Inits -> InitStates]
  BY DEF TypeOK
<1>3. /\ \A j \in Inits \ {i} : init'[j] = init[j]
      /\ \/ init'[i].fps = init[i].fps \/ init'[i].fps = None
         \/ cache # None /\ init'[i].fps = cache.fps
  <2>1. CASE \E pc \in InitPcs : InitGoes(i, pc)
    BY <1>2, <2>1 DEF InitGoes, InitStates
  <2>2. CASE InitDone(i)
    <3>1. DoneInit.fps = None
      BY DEF DoneInit, ReadyInit
    <3> QED
      BY <1>2, <2>2, <3>1 DEF InitDone
  <2>3. CASE HydrateRead(i)
    BY <1>2, <2>1, <2>3 DEF HydrateRead, InitStates, InitPcs
  <2>4. CASE InitDecide(i)
    BY <1>2, <2>2, <2>4 DEF InitDecide, InitStates
  <2> QED
    BY <2>1, <2>2, <2>3, <2>4
       DEF InitNext, InitLookup, InitClaim, InitPublish, HydrateStore, HydrateComplete,
           HydrateEnqueue, HydrateRemove, HydrateFinish, HydrateMissFinish,
           HydrateMissCheck, HydrateMissPending, HydrateMissEnqueue, InitPcs
<1>4. \A j \in Inits : Dated(init'[j].fps)
  BY <1>3, ScanDated DEF ListsDated, TypeOK
<1>5. \/ entry' = entry \/ entry' = None \/ entry'.fps = init[i].fps
  <2>1. CASE HydrateStore(i)
    BY <2>1 DEF HydrateStore, StoreHydrated, NewEntry
  <2>2. CASE HydrateRemove(i)
    BY <2>2 DEF HydrateRemove, RemoveUnverifiedEntry
  <2> QED
    BY <2>1, <2>2
       DEF InitNext, InitLookup, InitDecide, InitClaim, InitPublish, HydrateRead,
           HydrateComplete, HydrateEnqueue, HydrateFinish, HydrateMissFinish,
           HydrateMissCheck, HydrateMissPending, HydrateMissEnqueue, stateVars
<1>6. entry' # None => Dated(entry'.fps)
  BY <1>5 DEF ListsDated
<1> QED
  BY <1>1, <1>4, <1>6 DEF ListsDated, Dated

LEMMA ReaderListsStep ==
    ASSUME TypeOK, ListsDated, NEW r \in Readers, ReaderNext(r)
    PROVE  ListsDated'
<1>1. UNCHANGED <<disk, worker, init>>
  BY DEF ReaderNext, ReaderHot, ReaderInFlight, ReaderRegister, ReaderCheck,
         ReaderWake, ReaderTimeout, ReaderLast, ReaderCache, ReaderFingerprint,
         ReaderBuild, ReaderWrite, ReaderRescan, ReaderStore, diskVars
<1>2. reader[r] \in ReaderStates /\ reader \in [Readers -> ReaderStates]
  BY DEF TypeOK
<1>3. /\ \A q \in Readers \ {r} : reader'[q] = reader[q]
      /\ reader'[r].fps \in {reader[r].fps, None, Scan(ReaderFp(r))}
  <2>1. CASE \E pc \in ReaderPcs : ReaderGoes(r, pc)
    BY <1>2, <2>1 DEF ReaderGoes, ReaderStates
  <2>2. CASE ReaderDone(r)
    <3>1. DoneReader.fps = None
      BY DEF DoneReader, ReadyReader
    <3> QED
      BY <1>2, <2>2, <3>1 DEF ReaderDone
  <2>3. CASE ReaderRegister(r)
    BY <1>2, <2>3 DEF ReaderRegister, ReaderStates
  <2>4. CASE ReaderCache(r)
    BY <1>2, <2>1, <2>2, <2>4 DEF ReaderCache, ReaderStates, ReaderPcs
  <2>5. CASE ReaderFingerprint(r)
    BY <1>2, <2>5 DEF ReaderFingerprint, ReaderStates
  <2>6. CASE ReaderBuild(r)
    BY <1>2, <2>6 DEF ReaderBuild, ReaderStates
  <2>7. CASE ReaderRescan(r)
    BY <1>2, <2>2, <2>7 DEF ReaderRescan, ReaderStates
  <2> QED
    BY <2>1, <2>2, <2>3, <2>4, <2>5, <2>6, <2>7
       DEF ReaderNext, ReaderHot, ReaderInFlight, ReaderCheck, ReaderWake,
           ReaderTimeout, ReaderLast, ReaderWrite, ReaderStore, ReaderPcs
<1>4. \A q \in Readers : Dated(reader'[q].fps)
  BY <1>3, ScanDated DEF ListsDated, TypeOK
<1>5. /\ entry' = entry \/ entry'.fps = reader[r].fps
      /\ cache' = cache \/ cache'.fps = reader[r].fps
  <2>1. CASE ReaderStore(r)
    BY <2>1 DEF ReaderStore, Store, NewEntry, diskVars
  <2>2. CASE ReaderWrite(r)
    BY <2>2 DEF ReaderWrite, stateVars
  <2> QED
    BY <2>1, <2>2
       DEF ReaderNext, ReaderHot, ReaderInFlight, ReaderRegister, ReaderCheck,
           ReaderWake, ReaderTimeout, ReaderLast, ReaderCache, ReaderFingerprint,
           ReaderBuild, ReaderRescan, stateVars, diskVars
<1>6. /\ entry' # None => Dated(entry'.fps)
      /\ cache' # None => Dated(cache'.fps)
  BY <1>5 DEF ListsDated
<1> QED
  BY <1>1, <1>4, <1>6 DEF ListsDated, Dated

\* Every other step only lets the collection grow, or forgets.
LEMMA OtherListsStep ==
    ASSUME TypeOK, ListsDated, MainNext \/ RetryNext \/ Environment \/ UNCHANGED vars
    PROVE  ListsDated'
<1>1. CASE Restart
  <2>1. IdleWorker.fps = None /\ ReadyInit.fps = None /\ ReadyReader.fps = None
    BY DEF IdleWorker, ReadyInit, ReadyReader
  <2> QED
    BY <1>1, <2>1 DEF Restart, ListsDated, Dated
<1>2. ASSUME NEW i \in Inits, NEW p, InitRequest(i, p)
      PROVE  ListsDated'
  <2>1. \A j \in Inits : init'[j].fps = init[j].fps
    BY <1>2 DEF InitRequest, TypeOK, InitStates
  <2> QED
    BY <1>2, <2>1 DEF InitRequest, ListsDated, Dated, stateVars, diskVars
<1>3. ASSUME NEW r \in Readers, NEW p, NEW pc, ReaderRequest(r, p, pc)
      PROVE  ListsDated'
  <2>1. \A q \in Readers : reader'[q].fps = reader[q].fps
    BY <1>3 DEF ReaderRequest, TypeOK, ReaderStates
  <2> QED
    BY <1>3, <2>1 DEF ReaderRequest, ListsDated, Dated, stateVars, diskVars
<1>4. CASE UNCHANGED <<entry, cache, worker, init, reader>> /\ disk' \in {disk, disk + 1}
  <2>1. ASSUME NEW fps \in FileFingerprints, Dated(fps)
        PROVE  fps # None => fps.version <= disk'
    BY <1>4, <2>1 DEF Dated, FileFingerprints, TypeOK
  <2>2. /\ entry # None => entry.fps \in FileFingerprints
        /\ cache # None => cache.fps \in FileFingerprints
        /\ worker.fps \in FileFingerprints
        /\ \A i \in Inits : init[i].fps \in FileFingerprints
        /\ \A r \in Readers : reader[r].fps \in FileFingerprints
    BY DEF TypeOK, StateTypeOK, Entries, CacheFiles, Workers, InitStates, ReaderStates
  <2> QED
    BY <1>4, <2>1, <2>2 DEF ListsDated, Dated
<1>5. CASE MainNext \/ RetryNext \/ UNCHANGED vars
  BY <1>4, <1>5
     DEF MainNext, RetryNext, RestartForSettings, EnqueueReindex, QueryEnqueue,
         VerifyRetry, stateVars, diskVars, vars
<1>6. CASE \/ \E s \in Settings : SaveSettings(s)
           \/ \E p \in Projects : QueryMiss(p) \/ RenameFolder(p)
           \/ ExternalEdit \/ SaveFile
  BY <1>4, <1>6
     DEF SaveSettings, QueryMiss, RenameFolder, ExternalEdit, SaveFile, stateVars, diskVars
<1> QED
  BY <1>1, <1>2, <1>3, <1>5, <1>6 DEF Environment


-----------------------------------------------------------------------------
(* The jobs *)

\* A job enqueued keeps the ones before it.
LEMMA EnqueueScoped ==
    ASSUME queue \in Seq(Jobs), NEW job, JobScoped(job), Enqueue(job),
           \A n \in DOMAIN queue : JobScoped(queue[n])
    PROVE  \A n \in DOMAIN queue' : JobScoped(queue'[n])
  BY DEF Enqueue

LEMMA RebuildJobScoped ==
    ASSUME NEW p, NEW g
    PROVE  JobScoped(FullRebuildJob(p, g)) /\ JobScoped(FileJob(g))
  BY DEF JobScoped, FullRebuildJob, FileJob

LEMMA WorkerJobsStep ==
    ASSUME TypeOK, JobsScoped, Judged, WorkerNext
    PROVE  JobsScoped'
<1>0. worker \in Workers /\ queue \in Seq(Jobs)
  BY DEF TypeOK
<1>1. \A n \in DOMAIN queue' : JobScoped(queue'[n])
  <2>1. CASE WorkerReceive
    <3>1. queue' = <<>>
      BY <2>1 DEF WorkerReceive
    <3> QED
      BY <3>1
  <2>2. CASE VerifyHandoffEnqueue
    BY <1>0, <2>2, EnqueueScoped, RebuildJobScoped DEF VerifyHandoffEnqueue, JobsScoped
  <2>3. CASE UNCHANGED queue
    BY <2>3 DEF JobsScoped
  <2> QED
    BY <2>1, <2>2, <2>3
     DEF WorkerNext, WorkerDrainDebouncer, WorkerMembershipChanged,
         WorkerNextFiles, VerifyStart, VerifyLoadSettings, VerifyScan,
         VerifyRecheck, VerifyConfirm, VerifyScanFailed, VerifyInvalidate,
         VerifyHandoffCheck, VerifyHandoffPending, RebuildBegin, RebuildPending,
         RebuildLoadSettings, RebuildFailed, RebuildPublishFailed, RebuildDiscovering,
         RebuildDiscover, RebuildIndexing, RebuildCheck, RebuildFingerprint, RebuildBuild,
         RebuildWrite, RebuildRescan, RebuildStore, RebuildFinish, RebuildReadBack,
         RebuildComplete, FilesBegin, FilesBase, FilesRunning, FilesApply,
         FilesApplied, FilesPublish, FilesPersist, FilesPersistWrite,
         FilesPersistStore, chanVars
<1>2. \A job \in retries' : Scoped(job)
  <2>1. CASE VerifyScanFailed
    <3>1. Scoped(worker)
      BY <2>1 DEF VerifyScanFailed, Judged, JudgePcs
    <3>2. \A a : Scoped(VerifyJob(worker.project, worker.gen, worker.fp, a))
      BY <3>1 DEF Scoped, VerifyJob
    <3> QED
      BY <2>1, <3>2 DEF VerifyScanFailed, JobsScoped
  <2>2. CASE UNCHANGED retries
    BY <2>2 DEF JobsScoped
  <2> QED
    BY <2>1, <2>2
     DEF WorkerNext, WorkerReceive, WorkerDrainDebouncer, WorkerMembershipChanged,
         WorkerNextFiles, VerifyStart, VerifyLoadSettings, VerifyScan,
         VerifyRecheck, VerifyConfirm, VerifyInvalidate, VerifyHandoffEnqueue,
         VerifyHandoffCheck, VerifyHandoffPending, RebuildBegin, RebuildPending,
         RebuildLoadSettings, RebuildFailed, RebuildPublishFailed, RebuildDiscovering,
         RebuildDiscover, RebuildIndexing, RebuildCheck, RebuildFingerprint, RebuildBuild,
         RebuildWrite, RebuildRescan, RebuildStore, RebuildFinish, RebuildReadBack,
         RebuildComplete, FilesBegin, FilesBase, FilesRunning, FilesApply,
         FilesApplied, FilesPublish, FilesPersist, FilesPersistWrite,
         FilesPersistStore, chanVars
<1>3. \A job \in worker'.verify : Scoped(job)
  <2>1. CASE QuietNext
    BY <2>1, QuietStep DEF Quiet, JobsScoped
  <2>2. CASE WorkerReceive
    <3>1. \A job \in LiveVerifications : Scoped(job)
      BY DEF LiveVerifications, JobsScoped, JobScoped
    <3>2. worker'.verify \in {worker.verify, {}, LiveVerifications}
      BY <1>0, <2>2, StartTypes, IdleFields DEF WorkerReceive, Workers
    <3> QED
      BY <3>1, <3>2 DEF JobsScoped
  <2>3. ASSUME NEW job \in worker.verify, VerifyStart(job)
        PROVE  worker'.verify = worker.verify \ {job}
    BY <1>0, <2>3 DEF VerifyStart, Workers
  <2>4. CASE VerifyLoadSettings \/ VerifyScan
    <3>1. CASE VerifyLoadSettings
      BY <1>0, <3>1, WorkerGoesFields
         DEF VerifyLoadSettings, WorkerPcs, Workers, JobsScoped
    <3>2. CASE VerifyScan
      BY <1>0, <3>2 DEF VerifyScan, Workers, JobsScoped
    <3> QED
      BY <2>4, <3>1, <3>2
  <2>5. CASE VerifyRecheck \/ VerifyScanFailed \/ VerifyInvalidate
    <3>1. worker'.verify = worker.verify
      BY <1>0, <2>5, WorkerGoesFields, WorkerDoneFields
         DEF VerifyRecheck, VerifyScanFailed, VerifyInvalidate, WorkerPcs
    <3> QED
      BY <3>1 DEF JobsScoped
  <2> QED
    BY <2>1, <2>2, <2>3, <2>4, <2>5, WorkerNextSplit DEF JobsScoped
<1> QED
  BY <1>1, <1>2, <1>3 DEF JobsScoped

LEMMA InitJobsStep ==
    ASSUME TypeOK, JobsScoped, NEW i \in Inits, InitNext(i)
    PROVE  JobsScoped'
<1>1. UNCHANGED <<retries, worker>>
  BY DEF InitNext, InitLookup, InitDecide, InitClaim, InitPublish, HydrateRead,
         HydrateStore, HydrateComplete, HydrateEnqueue, HydrateRemove, HydrateFinish,
         HydrateMissFinish, HydrateMissCheck, HydrateMissPending, HydrateMissEnqueue,
         chanVars
<1>2. queue \in Seq(Jobs) /\ \A n \in DOMAIN queue : JobScoped(queue[n])
  BY DEF TypeOK, JobsScoped
<1>3. \A n \in DOMAIN queue' : JobScoped(queue'[n])
  <2>1. CASE HydrateEnqueue(i)
    <3>1. JobScoped(VerifyJob(init[i].project, init[i].gen, InitFp(i), 0))
      BY DEF JobScoped, Scoped, VerifyJob, InitFp, SettingsFingerprint
    <3> QED
      BY <1>2, <2>1, <3>1, EnqueueScoped DEF HydrateEnqueue
  <2>2. CASE HydrateMissEnqueue(i)
    BY <1>2, <2>2, EnqueueScoped, RebuildJobScoped DEF HydrateMissEnqueue
  <2>3. CASE UNCHANGED queue
    BY <1>2, <2>3
  <2> QED
    BY <2>1, <2>2, <2>3
       DEF InitNext, InitLookup, InitDecide, InitClaim, InitPublish, HydrateRead,
           HydrateStore, HydrateComplete, HydrateRemove, HydrateFinish,
           HydrateMissFinish, HydrateMissCheck, HydrateMissPending, chanVars
<1> QED
  BY <1>1, <1>3 DEF JobsScoped

LEMMA ReaderJobsStep ==
    ASSUME JobsScoped, NEW r \in Readers, ReaderNext(r)
    PROVE  JobsScoped'
<1>1. UNCHANGED <<queue, retries, worker>>
  BY DEF ReaderNext, ReaderHot, ReaderInFlight, ReaderRegister, ReaderCheck,
         ReaderWake, ReaderTimeout, ReaderLast, ReaderCache, ReaderFingerprint,
         ReaderBuild, ReaderWrite, ReaderRescan, ReaderStore, chanVars
<1> QED
  BY <1>1 DEF JobsScoped

LEMMA OtherJobsStep ==
    ASSUME TypeOK, JobsScoped, MainNext \/ RetryNext \/ Environment \/ UNCHANGED vars
    PROVE  JobsScoped'
<1>0. queue \in Seq(Jobs) /\ \A n \in DOMAIN queue : JobScoped(queue[n])
  BY DEF TypeOK, JobsScoped
<1>1. CASE Restart
  BY <1>1, IdleFields DEF Restart, JobsScoped
<1>2. CASE UNCHANGED <<retries, worker>> /\ \E job : JobScoped(job) /\ Enqueue(job)
  BY <1>0, <1>2, EnqueueScoped DEF JobsScoped
<1>3. CASE UNCHANGED <<queue, retries, worker>>
  BY <1>3 DEF JobsScoped
<1>4. ASSUME NEW job \in retries, VerifyRetry(job)
      PROVE  JobsScoped'
  <2>1. JobScoped(job)
    BY DEF JobsScoped, JobScoped
  <2>2. \A n \in DOMAIN queue' : JobScoped(queue'[n])
    BY <1>0, <1>4, <2>1, EnqueueScoped DEF VerifyRetry
  <2> QED
    BY <1>4, <2>2 DEF VerifyRetry, JobsScoped
<1>5. CASE MainNext \/ UNCHANGED vars
  BY <1>2, <1>3, <1>5, RebuildJobScoped
     DEF MainNext, RestartForSettings, EnqueueReindex, QueryEnqueue, chanVars, vars
<1>6. CASE \E p \in Projects : RenameFolder(p)
  BY <1>2, <1>6, RebuildJobScoped DEF RenameFolder
<1>7. CASE SaveFile
  BY <1>2, <1>7, RebuildJobScoped DEF SaveFile
<1>8. CASE \/ \E s \in Settings : SaveSettings(s)
           \/ \E p \in Projects : QueryMiss(p)
           \/ ExternalEdit
           \/ \E i \in Inits : \E p \in Projects \cup {settings.active} : InitRequest(i, p)
           \/ \E r \in Readers, p \in Projects, pc \in {"hot", "fingerprint"} :
                 ReaderRequest(r, p, pc)
  BY <1>3, <1>8 DEF SaveSettings, QueryMiss, ExternalEdit, InitRequest, ReaderRequest, chanVars
<1> QED
  BY <1>1, <1>4, <1>5, <1>6, <1>7, <1>8 DEF RetryNext, Environment


-----------------------------------------------------------------------------
(* What the worker knows between its scan and the invalidation *)

\* What others do: a settings change is announced, then shows as a generation.
LEMMA JudgedFrame ==
    ASSUME TypeOK, TypeOK', ListsDated, Judged, UNCHANGED worker,
           faults <= faults', generation <= generation', disk <= disk',
           \/ main'.pc = "bump"
           \/ settings' = settings /\ (main.pc = "bump" => generation < generation')
    PROVE  Judged'
<1>0. /\ faults \in Nat /\ faults' \in Nat /\ generation \in Nat /\ generation' \in Nat
      /\ disk \in Nat /\ disk' \in Nat /\ worker \in Workers /\ worker' = worker
  BY DEF TypeOK, StateTypeOK
<1> SUFFICES ASSUME worker.pc \in JudgePcs
             PROVE  Judged'
  BY <1>0 DEF Judged
<1>1. /\ worker.gen <= generation /\ worker.gen \in Nat /\ Scoped(worker)
      /\ worker.pc = "scanFailed" => faults > 0
  BY <1>0, WorkerFields DEF Judged
<1>2. worker.gen <= generation' /\ (worker.pc = "scanFailed" => faults' > 0)
  BY <1>0, <1>1
<1>3. ASSUME Differs
      PROVE  Differs'
  <2>1. CASE worker.fps = None
    BY <1>0, <2>1 DEF Differs
  <2>2. CASE worker.fps # None
    <3>1. worker.fps.version <= disk /\ worker.fps \in FileFingerprints
      BY <1>0, <2>2, WorkerFields DEF ListsDated, Dated
    <3>2. worker.fps # [fp |-> SettingsFingerprint(worker.settings, worker.project),
                        version |-> disk']
      BY <1>0, <1>3, <2>2, <3>1 DEF Differs, Scan, FileFingerprints
    <3> QED
      BY <1>0, <3>2 DEF Differs, Scan
  <2> QED
    BY <2>1, <2>2
<1>4. ASSUME worker.pc \in LoadedPcs, faults' = 0
      PROVE  /\ worker.gen = generation' /\ main'.pc # "bump" => worker.settings = settings'
             /\ worker.pc = "verifyRecheck" => worker.verdict \in {"Match", "Mismatch"}
             /\ worker.pc = "verifyRecheck" /\ worker.verdict = "Mismatch" => Differs'
             /\ worker.pc = "invalidate" => Differs'
  <2>1. faults = 0
    BY <1>0, <1>4
  <2>2. worker.gen = generation' /\ main'.pc # "bump" => worker.settings = settings'
    BY <1>0, <1>1, <1>4, <2>1 DEF Judged
  <2>3. /\ worker.pc = "verifyRecheck" => worker.verdict \in {"Match", "Mismatch"}
        /\ worker.pc = "verifyRecheck" /\ worker.verdict = "Mismatch" => Differs
        /\ worker.pc = "invalidate" => Differs
    BY <1>4, <2>1 DEF Judged
  <2> QED
    BY <1>3, <2>2, <2>3
<1> QED
  BY <1>0, <1>1, <1>2, <1>4 DEF Judged, Scoped

LEMMA WorkerJudgedStep ==
    ASSUME TypeOK, TypeOK', JobsScoped, Judged, WorkerNext
    PROVE  Judged'
<1>0. /\ worker \in Workers /\ faults \in Nat /\ generation \in Nat
      /\ generation' = generation /\ settings' = settings /\ main' = main
      /\ disk' = disk
  BY WorkerLeaves DEF TypeOK, StateTypeOK
<1>1. CASE QuietNext
  BY <1>1, QuietStep DEF Quiet, Judged
<1>2. CASE WorkerReceive
  <2>1. worker.pc = "idle" /\ worker'.pc \in {"idle", "rebuild", "batch"}
    BY <1>0, <1>2, StartTypes DEF WorkerReceive, Workers
  <2> QED
    BY <2>1 DEF Judged, JudgePcs
<1>3. ASSUME NEW job \in worker.verify, VerifyStart(job)
      PROVE  Judged'
  <2>1. CASE generation = job.gen /\ HasEntry(job.fp)
    <3>1. /\ worker'.pc = "verifyLoad" /\ worker'.gen = job.gen
          /\ worker'.fp = job.fp /\ worker'.project = job.project
      BY <1>0, <1>3, <2>1 DEF VerifyStart, Workers
    <3>2. Scoped(job)
      BY DEF JobsScoped
    <3>3. worker'.gen <= generation'
      BY <1>0, <2>1, <3>1
    <3> QED
      BY <3>1, <3>2, <3>3 DEF Judged, LoadedPcs, Scoped
  <2>2. CASE ~(generation = job.gen /\ HasEntry(job.fp))
    <3>1. worker'.pc \in {"idle", "batch"}
      BY <1>0, <1>3, <2>2 DEF VerifyStart, Workers
    <3> QED
      BY <3>1 DEF Judged, JudgePcs
  <2> QED
    BY <2>1, <2>2
<1>4. CASE VerifyLoadSettings
  <2>1. worker.pc = "verifyLoad" /\ worker.gen <= generation /\ Scoped(worker)
    BY <1>4 DEF VerifyLoadSettings, Judged, JudgePcs
  <2>2. /\ worker'.gen = worker.gen /\ worker'.fp = worker.fp
        /\ worker'.project = worker.project
        /\ \/ worker'.pc = "verifyScan" /\ worker'.settings = settings
           \/ worker'.pc = "scanFailed" /\ ScanFault
    BY <1>0, <1>4, WorkerGoesFields DEF VerifyLoadSettings, WorkerPcs, Workers
  <2>3. ScanFault => faults' > 0
    BY <1>0 DEF ScanFault, Fault, NoFault, bounds
  <2> QED
    BY <1>0, <2>1, <2>2, <2>3 DEF Judged, LoadedPcs, Scoped
<1>5. CASE VerifyScan
  <2>1. worker.pc = "verifyScan" /\ worker.gen <= generation /\ Scoped(worker)
    BY <1>5 DEF VerifyScan, Judged, JudgePcs
  <2>2. /\ worker'.pc = "verifyRecheck"
        /\ worker'.gen = worker.gen /\ worker'.fp = worker.fp
        /\ worker'.project = worker.project /\ worker'.settings = worker.settings
        /\ worker'.fps = worker.fps
    BY <1>0, <1>5 DEF VerifyScan, Workers
  <2>3. CASE ~ScanFault
    <3>1. faults' = faults
      BY <1>5, <2>3 DEF VerifyScan, NoFault, bounds
    <3>2. /\ worker'.verdict \in {"Match", "Mismatch"}
          /\ worker'.verdict = "Mismatch" => Differs
      BY <1>0, <1>5, <2>3 DEF VerifyScan, Workers, Differs
    <3>3. Differs' <=> Differs
      BY <1>0, <2>2 DEF Differs, Scan
    <3>4. faults = 0 /\ worker.gen = generation /\ main.pc # "bump"
            => worker.settings = settings
      BY <2>1 DEF Judged, JudgePcs, LoadedPcs
    <3> QED
      BY <1>0, <2>1, <2>2, <3>1, <3>2, <3>3, <3>4 DEF Judged, Scoped
  <2>4. CASE ScanFault
    <3>1. faults' > 0
      BY <1>0, <2>4 DEF ScanFault, Fault, NoFault, bounds
    <3> QED
      BY <1>0, <2>1, <2>2, <3>1 DEF Judged, Scoped
  <2> QED
    BY <2>3, <2>4
<1>6. CASE VerifyRecheck
  <2>1. CASE generation = worker.gen /\ HasEntry(worker.fp)
    <3>1. /\ worker.pc = "verifyRecheck"
          /\ WorkerGoes(CASE worker.verdict = "Match" -> "confirm"
                          [] worker.verdict = "Mismatch" -> "invalidate"
                          [] OTHER -> "scanFailed")
          /\ faults' = faults
      BY <1>6, <2>1 DEF VerifyRecheck, bounds
    <3>2. \/ worker.verdict = "Match" /\ WorkerGoes("confirm")
          \/ worker.verdict = "Mismatch" /\ WorkerGoes("invalidate")
          \/ worker.verdict \notin {"Match", "Mismatch"} /\ WorkerGoes("scanFailed")
      BY <3>1
    <3>3. /\ worker'.gen = worker.gen /\ worker'.fp = worker.fp
          /\ worker'.project = worker.project /\ worker'.settings = worker.settings
          /\ worker'.fps = worker.fps
          /\ \/ worker'.pc = "confirm"
             \/ worker.verdict = "Mismatch" /\ worker'.pc = "invalidate"
             \/ worker.verdict \notin {"Match", "Mismatch"} /\ worker'.pc = "scanFailed"
      BY <1>0, <3>2, WorkerGoesFields DEF WorkerPcs
    <3>4. /\ worker.gen <= generation /\ Scoped(worker)
          /\ faults = 0 =>
               /\ worker.gen = generation /\ main.pc # "bump" => worker.settings = settings
               /\ worker.verdict \in {"Match", "Mismatch"}
               /\ worker.verdict = "Mismatch" => Differs
      BY <3>1 DEF Judged, JudgePcs, LoadedPcs
    <3>5. Differs' <=> Differs
      BY <1>0, <3>3 DEF Differs, Scan
    <3> QED
      BY <1>0, <3>1, <3>3, <3>4, <3>5 DEF Judged, JudgePcs, LoadedPcs, Scoped
  <2>2. CASE ~(generation = worker.gen /\ HasEntry(worker.fp))
    <3>1. worker'.pc \in {"idle", "batch"}
      BY <1>0, <1>6, <2>2, WorkerDoneFields DEF VerifyRecheck
    <3> QED
      BY <3>1 DEF Judged, JudgePcs
  <2> QED
    BY <2>1, <2>2
<1>7. CASE VerifyScanFailed
  <2>1. /\ worker.pc = "scanFailed" /\ faults > 0
        /\ worker.gen <= generation /\ Scoped(worker)
    BY <1>7 DEF VerifyScanFailed, Judged, JudgePcs
  <2>2. faults' = faults
    BY <1>7 DEF VerifyScanFailed, bounds
  <2>3. \/ worker'.pc \in {"idle", "batch"}
        \/ /\ worker'.pc = "invalidate" /\ worker'.gen = worker.gen
           /\ worker'.fp = worker.fp /\ worker'.project = worker.project
    BY <1>0, <1>7, WorkerGoesFields, WorkerDoneFields DEF VerifyScanFailed, WorkerPcs
  <2> QED
    BY <1>0, <2>1, <2>2, <2>3 DEF Judged, JudgePcs, LoadedPcs, Scoped
<1>8. CASE VerifyInvalidate
  <2>1. worker'.pc \in {"idle", "batch", "handoffCheck"}
    BY <1>0, <1>8, WorkerGoesFields, WorkerDoneFields DEF VerifyInvalidate, WorkerPcs
  <2> QED
    BY <2>1 DEF Judged, JudgePcs
<1> QED
  BY <1>1, <1>2, <1>3, <1>4, <1>5, <1>6, <1>7, <1>8, WorkerNextSplit

\* Every other process, the user and the environment.
LEMMA OtherJudgedStep ==
    ASSUME TypeOK, TypeOK', ListsDated, Judged, [Next]_vars, ~WorkerNext
    PROVE  Judged'
<1>0. faults \in Nat /\ generation \in Nat /\ disk \in Nat
  BY DEF TypeOK, StateTypeOK
<1>1. CASE Restart
  BY <1>1, StartTypes DEF Restart, Judged, JudgePcs
<1>2. CASE RestartForSettings
  <2>1. /\ UNCHANGED worker /\ faults' = faults /\ disk' = disk /\ settings' = settings
        /\ generation' = generation + 1
    BY <1>2 DEF RestartForSettings, IncrementGeneration, diskVars, bounds
  <2>2. faults <= faults' /\ generation < generation' /\ generation <= generation'
        /\ disk <= disk'
    BY <1>0, <2>1
  <2> QED
    BY <2>1, <2>2, JudgedFrame
<1>3. ASSUME NEW s \in Settings, SaveSettings(s)
      PROVE  Judged'
  <2>1. /\ UNCHANGED worker /\ faults' = faults /\ disk' = disk
        /\ generation' = generation /\ main'.pc = "bump"
    BY <1>3 DEF SaveSettings, MainGoes, stateVars, bounds, TypeOK
  <2>2. faults <= faults' /\ generation <= generation' /\ disk <= disk'
    BY <1>0, <2>1
  <2> QED
    BY <2>1, <2>2, JudgedFrame
<1>4. CASE /\ UNCHANGED <<worker, generation, settings>>
           /\ faults' \in {faults, faults + 1} /\ disk' \in {disk, disk + 1}
           /\ main' = main \/ main.pc # "bump"
  <2>1. faults <= faults' /\ generation <= generation' /\ disk <= disk'
    BY <1>0, <1>4
  <2> QED
    BY <1>4, <2>1, JudgedFrame
<1>5. ASSUME NEW i \in Inits, InitNext(i)
      PROVE  Judged'
  BY <1>4, <1>5
     DEF InitNext, InitLookup, InitDecide, InitClaim, InitPublish, HydrateRead,
         HydrateStore, HydrateComplete, HydrateEnqueue, HydrateRemove, HydrateFinish,
         HydrateMissFinish, HydrateMissCheck, HydrateMissPending, HydrateMissEnqueue,
         stateVars, diskVars, bounds, Fault, NoFault
<1>6. ASSUME NEW r \in Readers, ReaderNext(r)
      PROVE  Judged'
  BY <1>4, <1>6
     DEF ReaderNext, ReaderHot, ReaderInFlight, ReaderRegister, ReaderCheck,
         ReaderWake, ReaderTimeout, ReaderLast, ReaderCache, ReaderFingerprint,
         ReaderBuild, ReaderWrite, ReaderRescan, ReaderStore, stateVars, diskVars,
         bounds, Fault, NoFault
<1>7. CASE EnqueueReindex \/ QueryEnqueue \/ RetryNext \/ UNCHANGED vars
  BY <1>4, <1>7
     DEF EnqueueReindex, QueryEnqueue, RetryNext, VerifyRetry, vars, stateVars, diskVars,
         bounds
<1>8. CASE \/ \E p \in Projects : QueryMiss(p) \/ RenameFolder(p)
           \/ ExternalEdit \/ SaveFile
           \/ \E i \in Inits : \E p \in Projects \cup {settings.active} : InitRequest(i, p)
           \/ \E r \in Readers, p \in Projects, pc \in {"hot", "fingerprint"} :
                 ReaderRequest(r, p, pc)
  BY <1>4, <1>8
     DEF QueryMiss, RenameFolder, ExternalEdit, SaveFile, InitRequest, ReaderRequest,
         stateVars, diskVars, bounds
<1> QED
  BY <1>1, <1>2, <1>3, <1>5, <1>6, <1>7, <1>8 DEF Next, MainNext, Environment

-----------------------------------------------------------------------------
(* The entry *)

LEMMA EntryUntouched ==
    ASSUME EntryScope, UNCHANGED entry
    PROVE  EntryScope' /\ Kept
  BY DEF EntryScope, Kept

\* A store of a verified entry under the project of its fingerprint.
LEMMA EntryStored ==
    ASSUME NEW p \in ProjectIds, NEW fp \in SettingsFingerprints,
           NEW fps \in FileFingerprints, NEW v \in Nat, fp.project = p, Store(p, fp, fps, v)
    PROVE  EntryScope' /\ Kept
<1>1. entry' = NewEntry(p, fp, fps, v, TRUE) /\ entry' # None
  BY NewEntryType, NoneAssumption DEF Store
<1>2. entry'.project = p /\ entry'.fp = fp /\ entry'.verified
  BY <1>1 DEF NewEntry
<1> QED
  BY <1>1, <1>2 DEF EntryScope, Kept

\* The one step that takes a verified entry away: it differs from what is on disk.
LEMMA InvalidateKept ==
    ASSUME TypeInv, EntryScope, Judged, VerifyInvalidate
    PROVE  EntryScope' /\ Kept
<1>1. CASE MayInvalidate(worker.gen, worker.fp, worker.fps)
  <2>1. /\ entry' = None /\ generation = worker.gen /\ entry # None
        /\ entry.fp = worker.fp /\ entry.fps = worker.fps /\ entry \in Entries
    BY <1>1 DEF VerifyInvalidate, InvalidateEntry, MayInvalidate, HasEntry, TypeInv,
                TypeOK, StateTypeOK
  <2>2. worker.pc = "invalidate" /\ Scoped(worker)
    BY DEF VerifyInvalidate, Judged, JudgePcs
  <2>3. entry.fp \in SettingsFingerprints /\ faults \in Nat
    BY <2>1 DEF Entries, TypeInv, TypeOK
  <2>4. ASSUME entry.fp.rev = settings.rev, main.pc # "bump", ~(faults > 0)
        PROVE  entry.fps # Scan(entry.fp)
    <3>1. faults = 0
      BY <2>3, <2>4
    <3>2. Differs /\ worker.settings = settings
      BY <2>1, <2>2, <2>4, <3>1 DEF Judged, JudgePcs, LoadedPcs
    <3>3. SettingsFingerprint(worker.settings, worker.project) = entry.fp
      BY <2>1, <2>2, <2>3, <2>4, <3>2
         DEF SettingsFingerprint, SettingsFingerprints, Scoped
    <3>4. CASE worker.fps = None
      <4>1. Scan(entry.fp) \in [fp: SettingsFingerprints, version: Nat]
        BY <2>3 DEF Scan, TypeInv, TypeOK
      <4> QED
        BY <2>1, <3>4, <4>1, NoneAssumption
    <3>5. CASE worker.fps # None
      BY <2>1, <3>2, <3>3, <3>5 DEF Differs
    <3> QED
      BY <3>4, <3>5
  <2> QED
    BY <2>1, <2>4 DEF EntryScope, Kept
<1>2. CASE ~MayInvalidate(worker.gen, worker.fp, worker.fps)
  BY <1>2, EntryUntouched DEF VerifyInvalidate
<1> QED
  BY <1>1, <1>2

LEMMA WorkerEntryStep ==
    ASSUME TypeInv, EntryScope, FilesActive, Judged, WorkerNext
    PROVE  EntryScope' /\ Kept
<1>0. worker \in Workers /\ WorkerLoaded
  BY DEF TypeInv, TypeOK, SettingsLoaded
<1>1. CASE VerifyConfirm
  <2>1. CASE MayConfirm(worker.gen, worker.fp)
    <3>1. entry \in Entries /\ entry' = [entry EXCEPT !.verified = TRUE] /\ entry # None
      BY <1>1, <2>1 DEF VerifyConfirm, MayConfirm, HasEntry, ConfirmCacheVerified,
                        TypeInv, TypeOK, StateTypeOK
    <3>2. /\ entry'.verified /\ entry'.fp = entry.fp
          /\ entry'.project = entry.project /\ entry' \in Entries
      BY <3>1 DEF Entries
    <3> QED
      BY <3>1, <3>2, NoneAssumption DEF EntryScope, Kept
  <2>2. CASE ~MayConfirm(worker.gen, worker.fp)
    BY <1>1, <2>2, EntryUntouched DEF VerifyConfirm
  <2> QED
    BY <2>1, <2>2
<1>2. CASE VerifyInvalidate
  BY <1>2, InvalidateKept
<1>3. CASE RebuildStore
  <2>1. WorkerFp.project = EffectiveProject
    BY DEF WorkerFp, SettingsFingerprint
  <2>2. worker.settings \in Settings
    BY <1>0, <1>3 DEF RebuildStore, WorkerLoaded, SettingsPcs
  <2> QED
    BY <1>0, <1>3, <2>1, <2>2, EntryStored, WorkerFpType, WorkerFields DEF RebuildStore
<1>4. CASE FilesPersistStore
  <2>1. worker.project = None
    BY <1>4 DEF FilesPersistStore, FilesActive, FilesPcs
  <2>2. WorkerFp.project = worker.settings.active
    BY <2>1 DEF WorkerFp, EffectiveProject, SettingsFingerprint
  <2>3. worker.settings \in Settings
    BY <1>0, <1>4 DEF FilesPersistStore, WorkerLoaded, SettingsPcs
  <2> QED
    BY <1>0, <1>4, <2>2, <2>3, EntryStored, WorkerFpType, WorkerFields
       DEF FilesPersistStore
<1>5. CASE UNCHANGED entry
  BY <1>5, EntryUntouched
<1> QED
  BY <1>1, <1>2, <1>3, <1>4, <1>5
     DEF WorkerNext, WorkerReceive, WorkerDrainDebouncer, WorkerMembershipChanged,
         WorkerNextFiles, VerifyStart, VerifyLoadSettings, VerifyScan,
         VerifyRecheck, VerifyScanFailed, VerifyHandoffCheck, VerifyHandoffPending,
         VerifyHandoffEnqueue, RebuildBegin, RebuildPending, RebuildLoadSettings,
         RebuildFailed, RebuildPublishFailed, RebuildDiscovering, RebuildDiscover,
         RebuildIndexing, RebuildCheck, RebuildFingerprint, RebuildBuild,
         RebuildWrite, RebuildRescan, RebuildFinish, RebuildReadBack,
         RebuildComplete, FilesBegin, FilesBase, FilesRunning, FilesApply,
         FilesApplied, FilesPublish, FilesPersist, FilesPersistWrite, stateVars

LEMMA InitEntryStep ==
    ASSUME TypeInv, EntryScope, NEW i \in Inits, InitNext(i)
    PROVE  EntryScope' /\ Kept
<1>1. CASE HydrateStore(i)
  <2>1. CASE MayHydrate(init[i].gen, init[i].project, InitFp(i))
    <3>1. entry' = NewEntry(init[i].project, InitFp(i), init[i].fps, init[i].version, FALSE)
      BY <1>1, <2>1 DEF HydrateStore, StoreHydrated
    <3>2. entry'.project = init[i].project /\ entry'.fp = InitFp(i)
      BY <3>1 DEF NewEntry
    <3>3. InitFp(i).project = init[i].project
      BY DEF InitFp, SettingsFingerprint
    <3>4. ~(entry # None /\ entry.verified /\ entry.fp = InitFp(i))
      BY <2>1, <3>3 DEF MayHydrate, HasVerifiedEntry, HasEntry, EntryScope
    <3>5. entry' # None
      <4>1. init[i].pc \notin {"ready", "done"}
        BY <1>1 DEF HydrateStore
      <4>2. init \in [Inits -> InitStates] /\ InitLoaded
        BY DEF TypeInv, TypeOK, SettingsLoaded
      <4>3. entry' \in Entries
        BY <3>1, <4>1, <4>2, InitFields, NewEntryType
      <4> QED
        BY <4>3, NoneAssumption
    <3> QED
      BY <3>2, <3>3, <3>4, <3>5 DEF EntryScope, Kept
  <2>2. CASE ~MayHydrate(init[i].gen, init[i].project, InitFp(i))
    BY <1>1, <2>2, EntryUntouched DEF HydrateStore
  <2> QED
    BY <2>1, <2>2
<1>2. CASE HydrateRemove(i)
  <2>1. entry' = IF HasEntry(InitFp(i)) /\ ~entry.verified THEN None ELSE entry
    BY <1>2 DEF HydrateRemove, RemoveUnverifiedEntry
  <2>2. CASE HasEntry(InitFp(i)) /\ ~entry.verified
    BY <2>1, <2>2 DEF EntryScope, Kept
  <2>3. CASE ~(HasEntry(InitFp(i)) /\ ~entry.verified)
    BY <2>1, <2>3, EntryUntouched
  <2> QED
    BY <2>2, <2>3
<1>3. CASE UNCHANGED entry
  BY <1>3, EntryUntouched
<1> QED
  BY <1>1, <1>2, <1>3
     DEF InitNext, InitLookup, InitDecide, InitClaim, InitPublish, HydrateRead,
         HydrateComplete, HydrateEnqueue, HydrateFinish, HydrateMissFinish,
         HydrateMissCheck, HydrateMissPending, HydrateMissEnqueue, stateVars

LEMMA ReaderEntryStep ==
    ASSUME TypeInv, EntryScope, NEW r \in Readers, ReaderNext(r)
    PROVE  EntryScope' /\ Kept
<1>1. CASE ReaderStore(r)
  <2>1. ReaderFp(r).project = reader[r].project
    BY DEF ReaderFp, SettingsFingerprint
  <2>2. reader[r].pc \notin {"ready", "done"}
    BY <1>1 DEF ReaderStore
  <2>3. reader \in [Readers -> ReaderStates] /\ ReaderLoaded
    BY DEF TypeInv, TypeOK, SettingsLoaded
  <2> QED
    BY <1>1, <2>1, <2>2, <2>3, EntryStored, ReaderFields DEF ReaderStore
<1>2. CASE UNCHANGED entry
  BY <1>2, EntryUntouched
<1> QED
  BY <1>1, <1>2
     DEF ReaderNext, ReaderHot, ReaderInFlight, ReaderRegister, ReaderCheck,
         ReaderWake, ReaderTimeout, ReaderLast, ReaderCache, ReaderFingerprint,
         ReaderBuild, ReaderWrite, ReaderRescan, stateVars

LEMMA OtherEntryStep ==
    ASSUME TypeOK, EntryScope, MainNext \/ RetryNext \/ Environment \/ UNCHANGED vars
    PROVE  EntryScope' /\ Kept
<1>1. CASE Restart
  <2>1. restarts' # restarts
    BY <1>1 DEF Restart, TypeOK
  <2> QED
    BY <1>1, <2>1 DEF Restart, EntryScope, Kept
<1>2. CASE ~Restart
  <2>1. UNCHANGED entry
    BY <1>2
       DEF MainNext, RetryNext, Environment, RestartForSettings, EnqueueReindex,
           QueryEnqueue, VerifyRetry, SaveSettings, QueryMiss, RenameFolder,
           ExternalEdit, SaveFile, InitRequest, ReaderRequest, stateVars, vars
  <2> QED
    BY <2>1, EntryUntouched
<1> QED
  BY <1>1, <1>2

-----------------------------------------------------------------------------
(* Together *)

LEMMA FilesActiveOthers ==
    ASSUME TypeOK, FilesActive, [Next]_vars, ~WorkerNext
    PROVE  FilesActive'
<1>1. CASE Restart
  BY <1>1, StartTypes DEF Restart, FilesActive, FilesPcs
<1>2. CASE UNCHANGED worker
  BY <1>2 DEF FilesActive
<1>3. ASSUME NEW i \in Inits, InitNext(i)
      PROVE  UNCHANGED worker
  BY <1>3
     DEF InitNext, InitLookup, InitDecide, InitClaim, InitPublish, HydrateRead,
         HydrateStore, HydrateComplete, HydrateEnqueue, HydrateRemove, HydrateFinish,
         HydrateMissFinish, HydrateMissCheck, HydrateMissPending, HydrateMissEnqueue
<1>4. ASSUME NEW r \in Readers, ReaderNext(r)
      PROVE  UNCHANGED worker
  BY <1>4
     DEF ReaderNext, ReaderHot, ReaderInFlight, ReaderRegister, ReaderCheck,
         ReaderWake, ReaderTimeout, ReaderLast, ReaderCache, ReaderFingerprint,
         ReaderBuild, ReaderWrite, ReaderRescan, ReaderStore
<1>5. CASE MainNext \/ RetryNext \/ UNCHANGED vars \/ (Environment /\ ~Restart)
  BY <1>2, <1>5
     DEF MainNext, RetryNext, Environment, RestartForSettings, EnqueueReindex,
         QueryEnqueue, VerifyRetry, SaveSettings, QueryMiss, RenameFolder,
         ExternalEdit, SaveFile, InitRequest, ReaderRequest, vars
<1> QED
  BY <1>1, <1>2, <1>3, <1>4, <1>5 DEF Next

LEMMA KeptInvInit ==
    ASSUME Init
    PROVE  KeptInv
<1>1. EntryScope /\ FilesActive /\ Judged
  BY StartTypes DEF Init, Fresh, EntryScope, FilesActive, FilesPcs, Judged, JudgePcs
<1>2. JobsScoped
  BY IdleFields DEF Init, Fresh, JobsScoped
<1>3. ListsDated
  <2>1. IdleWorker.fps = None /\ ReadyInit.fps = None /\ ReadyReader.fps = None
    BY DEF IdleWorker, ReadyInit, ReadyReader
  <2>2. cache # None => Dated(cache.fps)
    <3>1. disk >= 0
      BY DEF Init
    <3>2. cache # None => cache.fps.version = 0
      BY DEF Init
    <3> QED
      BY <3>1, <3>2 DEF Dated
  <2> QED
    BY <2>1, <2>2 DEF Init, Fresh, ListsDated, Dated
<1> QED
  BY <1>1, <1>2, <1>3 DEF KeptInv

LEMMA KeptInvStep ==
    ASSUME TypeInv, TypeInv', KeptInv, [Next]_vars
    PROVE  KeptInv' /\ Kept
<1>0. TypeOK /\ TypeOK'
  BY DEF TypeInv
<1> USE DEF KeptInv
<1>1. CASE WorkerNext
  BY <1>0, <1>1, WorkerEntryStep, FilesActiveStep, WorkerListsStep, WorkerJobsStep,
     WorkerJudgedStep
<1>2. CASE ~WorkerNext
  <2>1. FilesActive' /\ Judged'
    BY <1>0, <1>2, FilesActiveOthers, OtherJudgedStep
  <2>2. ASSUME NEW i \in Inits, InitNext(i)
        PROVE  EntryScope' /\ Kept /\ ListsDated' /\ JobsScoped'
    BY <1>0, <2>2, InitEntryStep, InitListsStep, InitJobsStep
  <2>3. ASSUME NEW r \in Readers, ReaderNext(r)
        PROVE  EntryScope' /\ Kept /\ ListsDated' /\ JobsScoped'
    BY <1>0, <2>3, ReaderEntryStep, ReaderListsStep, ReaderJobsStep
  <2>4. CASE MainNext \/ RetryNext \/ Environment \/ UNCHANGED vars
    BY <1>0, <2>1, <2>4, OtherEntryStep, OtherListsStep, OtherJobsStep
  <2> QED
    BY <1>2, <2>1, <2>2, <2>3, <2>4 DEF Next
<1> QED
  BY <1>1, <1>2

\* However late it comes, the verification of an older entry never takes a fresh index
\* with it, and a hydration, which trusts whatever the disk cache holds, never takes the
\* place of a verified index of the same project and settings (def_index_cache.rs,
\* invalidate_entry_and_rebuild; state.rs, store_if_generation_matches).
THEOREM VerifiedAlwaysKept == Spec => VerifiedKept
<1>1. Init => TypeInv /\ KeptInv
  BY TypeInit, KeptInvInit
<1>2. TypeInv /\ KeptInv /\ [Next]_vars => (TypeInv /\ KeptInv)' /\ [Kept]_vars
  BY TypeStep, KeptInvStep
<1>3. Spec => [][Kept]_vars
  BY <1>1, <1>2, PTL DEF Spec
<1> QED
  BY <1>3 DEF VerifiedKept, Kept

-----------------------------------------------------------------------------
(* What IndexingService has reached when nothing is left to run: no waiting *)
(* load has missed its completion (NoLostWakeup), no hydrated entry is left *)
(* unverified (QuiescentVerified) and the index of the active project is    *)
(* the one on disk (QuiescentFresh).                                        *)
(*                                                                          *)
(* None of the three is about the state it is read in. Each is carried by   *)
(* an obligation: as long as the wanted thing is not there, something that  *)
(* brings it about is under way, and every step hands it on (Woken,         *)
(* Attended, FreshCover). What hands it on in the channel is a live         *)
(* rebuild, which no batch drops, or a verification that coalescing keeps.  *)

-----------------------------------------------------------------------------
(* What may be under way *)

\* A settings change that has still to ask for its rebuild, or a live rebuild.
RebuildQueued == \E n \in DOMAIN queue : LiveRebuild(n)

Announced == main.pc \in {"bump", "reindex"} \/ RebuildQueued

\* The worker in a rebuild that has still to store, in one that has stored, and in a
\* batch of changed files.
StoringPcs == {"rebuild", "pending", "load", "discovering", "discover", "indexing",
               "check", "fingerprint", "build", "write", "rescan", "store"}

StoredPcs == {"failed", "publishFailed", "finish", "readBack", "complete",
              "completeSummary"}

BatchPcs == FilesPcs \ {"files"}

Running(pcs) == worker.pc \in pcs /\ (worker.pc = "rebuild" \/ worker.gen = generation)

\* A verification that coalescing will keep, or that is in the worker's batch.
VerificationWaits(fp) ==
    \/ \E job \in LiveVerifications : job.fp = fp
    \/ \E job \in worker.verify : job.gen = generation /\ job.fp = fp

\* A hydration that has stored the entry and has still to ask for its verification.
Hydrating(i) ==
    /\ init[i].pc \in {"complete", "enqueue"}
    /\ init[i].gen = generation /\ InitFp(i) = entry.fp

\* The worker judges the entry that is in the slot.
VerdictPcs == {"verifyLoad", "verifyScan", "verifyRecheck", "confirm", "invalidate"}

Judging ==
    /\ worker.pc \in VerdictPcs
    /\ worker.gen = generation /\ worker.fp = entry.fp /\ worker.fps = entry.fps

-----------------------------------------------------------------------------
(* The channel *)

Grows == queue' = queue \/ \E job \in Jobs : Enqueue(job)

LEMMA QueueKept ==
    ASSUME queue \in Seq(Jobs), Grows
    PROVE  \A n \in DOMAIN queue : n \in DOMAIN queue' /\ queue'[n] = queue[n]
  BY DEF Grows, Enqueue

LEMMA RebuildQueuedKept ==
    ASSUME queue \in Seq(Jobs), Grows, generation' = generation, RebuildQueued
    PROVE  RebuildQueued'
  BY QueueKept DEF RebuildQueued, LiveRebuild, Live

LEMMA RebuildAsked ==
    ASSUME queue \in Seq(Jobs), generation' = generation, NEW p \in ProjectIds,
           generation \in Nat, Enqueue(FullRebuildJob(p, generation))
    PROVE  RebuildQueued'
<1> DEFINE job == FullRebuildJob(p, generation)
           n == Len(queue) + 1
<1>1. job \in Jobs /\ job.kind = "FullRebuild" /\ job.gen = generation
  BY FullRebuildJobType DEF FullRebuildJob
<1>2. n \in DOMAIN queue' /\ queue'[n] = job
  <2> HIDE DEF job
  <2> QED
    BY <1>1 DEF Enqueue, job
<1> QED
  BY <1>1, <1>2 DEF RebuildQueued, LiveRebuild, Live

\* A verification gives way in the channel only to one of the same scope.
LEMMA VerificationKept ==
    ASSUME queue \in Seq(Jobs), Grows, generation' = generation,
           NEW old \in LiveVerifications
    PROVE  \E job \in LiveVerifications' : job.fp = old.fp
<1> DEFINE Scope(k) == queue[k].kind = "VerifyCache" /\ queue[k].gen = generation
                         /\ queue[k].project = old.project /\ queue[k].fp = old.fp
<1>1. PICK n \in DOMAIN queue :
        /\ queue[n] = old /\ queue[n].gen = generation /\ queue[n].kind = "VerifyCache"
        /\ \A k \in DOMAIN queue : k > n => ~Scope(k)
  BY DEF LiveVerifications, Live
<1>2. CASE queue' = queue
  BY <1>2 DEF LiveVerifications, Live
<1>3. ASSUME NEW job \in Jobs, Enqueue(job)
      PROVE  \E x \in LiveVerifications' : x.fp = old.fp
  <2>1. /\ DOMAIN queue' = DOMAIN queue \cup {Len(queue) + 1}
        /\ queue'[Len(queue) + 1] = job /\ Len(queue) \in Nat
        /\ \A k \in DOMAIN queue : queue'[k] = queue[k] /\ k \in Nat /\ k <= Len(queue)
    BY <1>3 DEF Enqueue
  <2>2. CASE /\ job.kind = "VerifyCache" /\ job.gen = generation
             /\ job.project = old.project /\ job.fp = old.fp
    <3>1. queue'[Len(queue) + 1] \in LiveVerifications'
      BY <2>1, <2>2 DEF LiveVerifications, Live
    <3> QED
      BY <2>1, <2>2, <3>1
  <2>3. CASE ~(/\ job.kind = "VerifyCache" /\ job.gen = generation
               /\ job.project = old.project /\ job.fp = old.fp)
    <3>1. queue'[n] \in LiveVerifications'
      BY <1>1, <2>1, <2>3 DEF LiveVerifications, Live
    <3> QED
      BY <1>1, <2>1, <3>1
  <2> QED
    BY <2>2, <2>3
<1> QED
  BY <1>2, <1>3 DEF Grows

LEMMA VerificationAsked ==
    ASSUME queue \in Seq(Jobs), generation' = generation, NEW p, NEW fp, NEW a,
           VerifyJob(p, generation, fp, a) \in Jobs,
           Enqueue(VerifyJob(p, generation, fp, a))
    PROVE  \E job \in LiveVerifications' : job.fp = fp
<1> DEFINE job == VerifyJob(p, generation, fp, a)
           n == Len(queue) + 1
<1>1. job.kind = "VerifyCache" /\ job.gen = generation /\ job.fp = fp
  BY DEF VerifyJob
<1>2. n \in DOMAIN queue' /\ queue'[n] = job /\ \A k \in DOMAIN queue' : ~(k > n)
  <2> HIDE DEF job
  <2> QED
    BY DEF Enqueue, job
<1>3. queue'[n] \in LiveVerifications'
  BY <1>1, <1>2 DEF LiveVerifications, Live
<1> QED
  BY <1>1, <1>2, <1>3

-----------------------------------------------------------------------------
(* The worker: what it keeps of its batch *)

LEMMA WorkerGoesRest ==
    ASSUME worker \in Workers, NEW pc \in WorkerPcs, WorkerGoes(pc)
    PROVE  /\ worker'.pc = pc /\ worker'.gen = worker.gen
           /\ worker'.verify = worker.verify /\ worker'.files = worker.files
           /\ worker'.version = worker.version
  BY DEF WorkerGoes, Workers

LEMMA WorkerDoneRest ==
    ASSUME worker \in Workers, WorkerDone
    PROVE  /\ worker'.pc \in {"idle", "batch"}
           /\ worker'.pc = "idle" => worker.verify = {} /\ ~worker.files
           /\ worker'.verify = worker.verify /\ worker'.files = worker.files
           /\ worker'.version = 0
<1>1. IdleWorker \in Workers /\ IdleWorker.version = 0
  BY StartTypes DEF IdleWorker
<1> QED
  BY <1>1 DEF WorkerDone, Workers

LEMMA IdleRest ==
    /\ IdleWorker \in Workers
    /\ IdleWorker.verify = {} /\ ~IdleWorker.files /\ IdleWorker.version = 0
  BY StartTypes DEF IdleWorker

\* The rest of the batch is kept, and the worker idles only when there is none.
Carries ==
    /\ worker'.verify = worker.verify /\ worker'.files = worker.files
    /\ worker'.pc \in FilesPcs => worker.pc \in FilesPcs
    /\ worker'.pc = "idle" => worker.verify = {} /\ ~worker.files

CarryNext ==
    \/ VerifyConfirm \/ VerifyHandoffCheck \/ VerifyHandoffPending
    \/ VerifyHandoffEnqueue \/ RebuildBegin \/ RebuildPending \/ RebuildLoadSettings
    \/ RebuildFailed \/ RebuildPublishFailed \/ RebuildDiscovering \/ RebuildDiscover
    \/ RebuildIndexing \/ RebuildCheck \/ RebuildFingerprint \/ RebuildBuild
    \/ RebuildWrite \/ RebuildRescan \/ RebuildStore \/ RebuildFinish
    \/ RebuildReadBack \/ RebuildComplete \/ FilesBegin \/ FilesRunning
    \/ FilesApplied \/ FilesPublish \/ FilesPersist \/ FilesPersistWrite
    \/ FilesPersistStore \/ VerifyLoadSettings \/ VerifyScan \/ VerifyRecheck
    \/ VerifyScanFailed \/ VerifyInvalidate

LEMMA WorkerNextParts ==
    ASSUME WorkerNext
    PROVE  \/ CarryNext
           \/ WorkerReceive \/ WorkerDrainDebouncer \/ WorkerMembershipChanged
           \/ WorkerNextFiles \/ (\E job \in worker.verify : VerifyStart(job))
           \/ FilesBase \/ FilesApply
  BY DEF WorkerNext, CarryNext

LEMMA CarryStep ==
    ASSUME TypeOK, CarryNext
    PROVE  Carries
<1>0. worker \in Workers
  BY DEF TypeOK
<1>1. CASE VerifyConfirm
  BY <1>0, <1>1, WorkerDoneRest
     DEF VerifyConfirm, Carries, FilesPcs
<1>2. CASE VerifyHandoffCheck
  BY <1>0, <1>2, WorkerGoesRest
     DEF VerifyHandoffCheck, WorkerPcs, Carries, FilesPcs
<1>3. CASE VerifyHandoffPending
  BY <1>0, <1>3, WorkerGoesRest
     DEF VerifyHandoffPending, WorkerPcs, Carries, FilesPcs
<1>4. CASE VerifyHandoffEnqueue
  BY <1>0, <1>4, WorkerDoneRest
     DEF VerifyHandoffEnqueue, Carries, FilesPcs
<1>5. CASE RebuildBegin
  BY <1>0, <1>5
     DEF RebuildBegin, Workers, Carries, FilesPcs
<1>6. CASE RebuildPending
  BY <1>0, <1>6, WorkerGoesRest
     DEF RebuildPending, WorkerPcs, Carries, FilesPcs
<1>7. CASE RebuildLoadSettings
  BY <1>0, <1>7, WorkerGoesRest
     DEF RebuildLoadSettings, WorkerPcs, Workers, Carries, FilesPcs
<1>8. CASE RebuildFailed
  BY <1>0, <1>8, WorkerGoesRest, WorkerDoneRest
     DEF RebuildFailed, WorkerPcs, Carries, FilesPcs
<1>9. CASE RebuildPublishFailed
  BY <1>0, <1>9, WorkerDoneRest
     DEF RebuildPublishFailed, Carries, FilesPcs
<1>10. CASE RebuildDiscovering
  BY <1>0, <1>10, WorkerGoesRest
     DEF RebuildDiscovering, WorkerPcs, Carries, FilesPcs
<1>11. CASE RebuildDiscover
  BY <1>0, <1>11, WorkerGoesRest, WorkerDoneRest
     DEF RebuildDiscover, WorkerPcs, Carries, FilesPcs
<1>12. CASE RebuildIndexing
  BY <1>0, <1>12, WorkerGoesRest
     DEF RebuildIndexing, WorkerPcs, Carries, FilesPcs
<1>13. CASE RebuildCheck
  BY <1>0, <1>13, WorkerGoesRest, WorkerDoneRest
     DEF RebuildCheck, WorkerPcs, Carries, FilesPcs
<1>14. CASE RebuildFingerprint
  BY <1>0, <1>14, WorkerGoesRest
     DEF RebuildFingerprint, WorkerPcs, Workers, Carries, FilesPcs
<1>15. CASE RebuildBuild
  BY <1>0, <1>15
     DEF RebuildBuild, Workers, Carries, FilesPcs
<1>16. CASE RebuildWrite
  BY <1>0, <1>16, WorkerGoesRest
     DEF RebuildWrite, WorkerPcs, Carries, FilesPcs
<1>17. CASE RebuildRescan
  BY <1>0, <1>17, WorkerGoesRest
     DEF RebuildRescan, WorkerPcs, Workers, Carries, FilesPcs
<1>18. CASE RebuildStore
  BY <1>0, <1>18, WorkerGoesRest
     DEF RebuildStore, WorkerPcs, Carries, FilesPcs
<1>19. CASE RebuildFinish
  BY <1>0, <1>19, WorkerGoesRest, WorkerDoneRest
     DEF RebuildFinish, WorkerPcs, Carries, FilesPcs
<1>20. CASE RebuildReadBack
  BY <1>0, <1>20, WorkerGoesRest
     DEF RebuildReadBack, WorkerPcs, Carries, FilesPcs
<1>21. CASE RebuildComplete
  BY <1>0, <1>21, WorkerDoneRest
     DEF RebuildComplete, Carries, FilesPcs
<1>22. CASE FilesBegin
  BY <1>0, <1>22, WorkerDoneRest
     DEF FilesBegin, Workers, Carries, FilesPcs
<1>23. CASE FilesRunning
  BY <1>0, <1>23, WorkerGoesRest
     DEF FilesRunning, WorkerPcs, Carries, FilesPcs
<1>24. CASE FilesApplied
  BY <1>0, <1>24, WorkerGoesRest, WorkerDoneRest
     DEF FilesApplied, WorkerPcs, Carries, FilesPcs
<1>25. CASE FilesPublish
  BY <1>0, <1>25, WorkerGoesRest
     DEF FilesPublish, WorkerPcs, Carries, FilesPcs
<1>26. CASE FilesPersist
  BY <1>0, <1>26
     DEF FilesPersist, Workers, Carries, FilesPcs
<1>27. CASE FilesPersistWrite
  BY <1>0, <1>27, WorkerGoesRest, WorkerDoneRest
     DEF FilesPersistWrite, WorkerPcs, Carries, FilesPcs
<1>28. CASE FilesPersistStore
  BY <1>0, <1>28, WorkerDoneRest
     DEF FilesPersistStore, Carries, FilesPcs
<1>29. CASE VerifyLoadSettings
  BY <1>0, <1>29, WorkerGoesRest
     DEF VerifyLoadSettings, WorkerPcs, Workers, Carries, FilesPcs
<1>30. CASE VerifyScan
  BY <1>0, <1>30
     DEF VerifyScan, Workers, Carries, FilesPcs
<1>31. CASE VerifyRecheck
  BY <1>0, <1>31, WorkerGoesRest, WorkerDoneRest
     DEF VerifyRecheck, WorkerPcs, Carries, FilesPcs
<1>32. CASE VerifyScanFailed
  BY <1>0, <1>32, WorkerGoesRest, WorkerDoneRest
     DEF VerifyScanFailed, WorkerPcs, Carries, FilesPcs
<1>33. CASE VerifyInvalidate
  BY <1>0, <1>33, WorkerGoesRest, WorkerDoneRest
     DEF VerifyInvalidate, WorkerPcs, Carries, FilesPcs
<1> QED
  BY <1>1, <1>2, <1>3, <1>4, <1>5, <1>6, <1>7, <1>8, <1>9, <1>10, <1>11, <1>12, <1>13,
     <1>14, <1>15, <1>16, <1>17, <1>18, <1>19, <1>20, <1>21, <1>22, <1>23, <1>24,
     <1>25, <1>26, <1>27, <1>28, <1>29, <1>30, <1>31, <1>32, <1>33
     DEF CarryNext

\* Nothing of a batch is left to an idle worker, nor beside a batch of changed files.
Emptied == worker.pc \in FilesPcs \cup {"idle"} => worker.verify = {} /\ ~worker.files

LEMMA OtherWorker ==
    ASSUME [Next]_vars, ~WorkerNext, ~Restart
    PROVE  worker' = worker
<1>1. ASSUME NEW i \in Inits, InitNext(i)
      PROVE  worker' = worker
  BY <1>1
     DEF InitNext, InitLookup, InitDecide, InitClaim, InitPublish, HydrateRead,
         HydrateStore, HydrateComplete, HydrateEnqueue, HydrateRemove, HydrateFinish,
         HydrateMissFinish, HydrateMissCheck, HydrateMissPending, HydrateMissEnqueue
<1>2. ASSUME NEW r \in Readers, ReaderNext(r)
      PROVE  worker' = worker
  BY <1>2
     DEF ReaderNext, ReaderHot, ReaderInFlight, ReaderRegister, ReaderCheck,
         ReaderWake, ReaderTimeout, ReaderLast, ReaderCache, ReaderFingerprint,
         ReaderBuild, ReaderWrite, ReaderRescan, ReaderStore
<1>3. CASE MainNext \/ RetryNext \/ UNCHANGED vars \/ Environment
  BY <1>3
     DEF MainNext, RetryNext, Environment, RestartForSettings, EnqueueReindex,
         QueryEnqueue, VerifyRetry, SaveSettings, QueryMiss, RenameFolder,
         ExternalEdit, SaveFile, InitRequest, ReaderRequest, vars
<1> QED
  BY <1>1, <1>2, <1>3 DEF Next

LEMMA EmptiedStep ==
    ASSUME TypeOK, Emptied, [Next]_vars
    PROVE  Emptied'
<1>0. worker \in Workers
  BY DEF TypeOK
<1>1. CASE Restart
  BY <1>1, IdleRest DEF Restart, Emptied
<1>2. CASE worker' = worker
  BY <1>2 DEF Emptied
<1>3. CASE CarryNext
  BY <1>3, CarryStep DEF Carries, Emptied
<1>4. CASE WorkerReceive
  <2>1. \/ worker' = worker
        \/ /\ worker'.pc \in {"rebuild", "batch"}
    BY <1>4, IdleRest DEF WorkerReceive, Workers
  <2> QED
    BY <1>2, <2>1 DEF Emptied, FilesPcs
<1>5. CASE WorkerDrainDebouncer \/ WorkerMembershipChanged
  <2>1. worker'.pc \in {"rebuild", "batch"}
    BY <1>5, IdleRest DEF WorkerDrainDebouncer, WorkerMembershipChanged, Workers
  <2> QED
    BY <2>1 DEF Emptied, FilesPcs
<1>6. CASE WorkerNextFiles
  <2>1. worker'.verify = {} /\ ~worker'.files
    BY <1>6, IdleRest DEF WorkerNextFiles, Workers
  <2> QED
    BY <2>1 DEF Emptied
<1>7. ASSUME NEW job \in worker.verify, VerifyStart(job)
      PROVE  Emptied'
  BY <1>0, <1>7 DEF VerifyStart, Workers, Emptied, FilesPcs
<1>8. CASE FilesBase
  <2>1. worker.verify = {} /\ ~worker.files
    BY <1>8 DEF FilesBase, Emptied, FilesPcs
  <2>2. worker'.verify = {} /\ ~worker'.files
    BY <1>0, <1>8, <2>1, IdleRest DEF FilesBase, Workers
  <2> QED
    BY <2>2 DEF Emptied
<1>9. CASE FilesApply
  <2>1. worker.verify = {} /\ ~worker.files
    BY <1>9 DEF FilesApply, Emptied, FilesPcs
  <2>2. worker'.verify = {} /\ ~worker'.files
    BY <1>0, <1>9, <2>1, IdleRest, WorkerDoneRest DEF FilesApply, Workers
  <2> QED
    BY <2>2 DEF Emptied
<1> QED
  BY <1>1, <1>2, <1>3, <1>4, <1>5, <1>6, <1>7, <1>8, <1>9, WorkerNextParts, OtherWorker

LEMMA BatchKept ==
    ASSUME TypeOK, Emptied, WorkerNext, NEW job \in worker.verify
    PROVE  job \in worker'.verify \/ VerifyStart(job)
<1>0. worker \in Workers /\ worker.pc \notin FilesPcs \cup {"idle"}
  BY DEF TypeOK, Emptied
<1>1. CASE CarryNext
  BY <1>1, CarryStep DEF Carries
<1>2. ASSUME NEW other \in worker.verify, VerifyStart(other), other # job
      PROVE  job \in worker'.verify
  BY <1>0, <1>2 DEF VerifyStart, Workers
<1>3. ~(WorkerReceive \/ WorkerDrainDebouncer \/ WorkerMembershipChanged
          \/ WorkerNextFiles \/ FilesBase \/ FilesApply)
  BY <1>0
     DEF WorkerReceive, WorkerDrainDebouncer, WorkerMembershipChanged, WorkerNextFiles,
         FilesBase, FilesApply, FilesPcs
<1> QED
  BY <1>1, <1>2, <1>3, WorkerNextParts

LEMMA FilesKept ==
    ASSUME TypeOK, Emptied, WorkerNext, worker.files
    PROVE  worker'.files \/ worker'.pc = "files"
<1>0. worker \in Workers /\ worker.pc \notin FilesPcs \cup {"idle"}
  BY DEF TypeOK, Emptied
<1>1. CASE CarryNext
  BY <1>1, CarryStep DEF Carries
<1>2. ASSUME NEW job \in worker.verify, VerifyStart(job)
      PROVE  worker'.files
  BY <1>0, <1>2 DEF VerifyStart, Workers
<1>3. CASE WorkerNextFiles
  BY <1>3, IdleRest DEF WorkerNextFiles, Workers
<1>4. ~(WorkerReceive \/ WorkerDrainDebouncer \/ WorkerMembershipChanged
          \/ FilesBase \/ FilesApply)
  BY <1>0
     DEF WorkerReceive, WorkerDrainDebouncer, WorkerMembershipChanged, FilesBase,
         FilesApply, FilesPcs
<1> QED
  BY <1>1, <1>2, <1>3, <1>4, WorkerNextParts

-----------------------------------------------------------------------------
(* Announcements: what asks for a rebuild is handed on until one begins *)

LEMMA WorkerGrows ==
    ASSUME TypeOK, WorkerNext, ~WorkerReceive
    PROVE  Grows
<1>1. CASE VerifyHandoffEnqueue
  <2>1. FullRebuildJob(worker.project, worker.gen) \in Jobs
    BY WorkerFields, FullRebuildJobType DEF TypeOK
  <2> QED
    BY <1>1, <2>1 DEF VerifyHandoffEnqueue, Grows
<1>2. CASE queue' = queue
  BY <1>2 DEF Grows
<1> QED
  BY <1>1, <1>2
     DEF WorkerNext, WorkerDrainDebouncer, WorkerMembershipChanged,
         WorkerNextFiles, VerifyStart, VerifyLoadSettings, VerifyScan,
         VerifyRecheck, VerifyConfirm, VerifyScanFailed, VerifyInvalidate,
         VerifyHandoffCheck, VerifyHandoffPending, RebuildBegin, RebuildPending,
         RebuildLoadSettings, RebuildFailed, RebuildPublishFailed, RebuildDiscovering,
         RebuildDiscover, RebuildIndexing, RebuildCheck, RebuildFingerprint, RebuildBuild,
         RebuildWrite, RebuildRescan, RebuildStore, RebuildFinish, RebuildReadBack,
         RebuildComplete, FilesBegin, FilesBase, FilesRunning, FilesApply,
         FilesApplied, FilesPublish, FilesPersist, FilesPersistWrite,
         FilesPersistStore, chanVars

LEMMA WorkerAnnounced ==
    ASSUME TypeOK, WorkerNext, Announced
    PROVE  Announced' \/ worker'.pc = "rebuild"
<1>1. main' = main /\ generation' = generation /\ queue \in Seq(Jobs)
  BY WorkerLeaves DEF TypeOK
<1>2. CASE main.pc \in {"bump", "reindex"}
  BY <1>1, <1>2 DEF Announced
<1>3. CASE RebuildQueued /\ ~WorkerReceive
  BY <1>1, <1>3, WorkerGrows, RebuildQueuedKept DEF Announced
<1>4. CASE RebuildQueued /\ WorkerReceive
  <2>1. \E n \in DOMAIN queue : LiveRebuild(n)
    BY <1>4 DEF RebuildQueued
  <2>2. ~(\A n \in DOMAIN queue : ~Live(n))
    BY <2>1 DEF LiveRebuild
  <2>3. \E n \in DOMAIN queue :
          worker' = [IdleWorker EXCEPT !.pc = "rebuild", !.project = queue[n].project]
    BY <1>4, <2>1, <2>2 DEF WorkerReceive
  <2> QED
    BY <2>3, IdleRest DEF Workers
<1> QED
  BY <1>2, <1>3, <1>4 DEF Announced

LEMMA InitGrows ==
    ASSUME TypeInv, NEW i \in Inits, InitNext(i)
    PROVE  Grows
<1>1. init \in [Inits -> InitStates] /\ InitLoaded
  BY DEF TypeInv, TypeOK, SettingsLoaded
<1>2. CASE HydrateEnqueue(i)
  <2>1. InitFp(i) \in SettingsFingerprints /\ init[i].project \in ProjectIds
        /\ init[i].gen \in Nat /\ 0 \in Attempts
    BY <1>1, <1>2, InitFields, BoundsAssumption DEF HydrateEnqueue, Attempts
  <2>2. VerifyJob(init[i].project, init[i].gen, InitFp(i), 0) \in Jobs
    BY <2>1, VerifyJobType
  <2> QED
    BY <1>2, <2>2 DEF HydrateEnqueue, Grows
<1>3. CASE HydrateMissEnqueue(i)
  <2>1. FullRebuildJob(init[i].project, init[i].gen) \in Jobs
    BY <1>1, InitFields, FullRebuildJobType
  <2> QED
    BY <1>3, <2>1 DEF HydrateMissEnqueue, Grows
<1>4. CASE queue' = queue
  BY <1>4 DEF Grows
<1> QED
  BY <1>2, <1>3, <1>4
     DEF InitNext, InitLookup, InitDecide, InitClaim, InitPublish, HydrateRead,
         HydrateStore, HydrateComplete, HydrateRemove, HydrateFinish,
         HydrateMissFinish, HydrateMissCheck, HydrateMissPending, chanVars

LEMMA OtherGrows ==
    ASSUME TypeInv, [Next]_vars, ~WorkerNext, ~Restart
    PROVE  Grows
<1>0. /\ generation \in Nat /\ settings \in Settings /\ main.project \in ProjectIds
      /\ settings.active \in ProjectIds
  BY ActiveType DEF TypeInv, TypeOK, StateTypeOK
<1>1. /\ FileJob(generation) \in Jobs
      /\ \A p \in ProjectIds : FullRebuildJob(p, generation) \in Jobs
  BY <1>0, FileJobType, FullRebuildJobType
<1>2. ASSUME NEW i \in Inits, InitNext(i)
      PROVE  Grows
  BY <1>2, InitGrows
<1>3. ASSUME NEW r \in Readers, ReaderNext(r)
      PROVE  Grows
  BY <1>3
     DEF ReaderNext, ReaderHot, ReaderInFlight, ReaderRegister, ReaderCheck,
         ReaderWake, ReaderTimeout, ReaderLast, ReaderCache, ReaderFingerprint,
         ReaderBuild, ReaderWrite, ReaderRescan, ReaderStore, chanVars, Grows
<1>4. CASE MainNext
  BY <1>0, <1>1, <1>4
     DEF MainNext, RestartForSettings, EnqueueReindex, QueryEnqueue, chanVars, Grows
<1>5. ASSUME NEW job \in retries, VerifyRetry(job)
      PROVE  Grows
  BY <1>5 DEF VerifyRetry, Grows, TypeInv, TypeOK
<1>6. CASE Environment
  BY <1>0, <1>1, <1>6
     DEF Environment, SaveSettings, QueryMiss, RenameFolder, ExternalEdit, SaveFile,
         InitRequest, ReaderRequest, chanVars, Grows, ProjectIds
<1> QED
  BY <1>2, <1>3, <1>4, <1>5, <1>6 DEF Next, RetryNext, vars, chanVars, Grows

\* Another step leaves a rebuild announced, or leaves the settings and the generation.
LEMMA OtherAnnounced ==
    ASSUME TypeInv, [Next]_vars, ~WorkerNext, ~Restart, settings'.active # None
    PROVE  Announced' \/ (~Announced /\ generation' = generation /\ settings' = settings)
<1>0. queue \in Seq(Jobs) /\ generation \in Nat
  BY DEF TypeInv, TypeOK, StateTypeOK
<1>1. CASE RestartForSettings
  <2>1. main'.pc = "reindex"
    BY <1>1 DEF RestartForSettings, MainGoes, TypeInv, TypeOK
  <2> QED
    BY <2>1 DEF Announced
<1>2. ASSUME NEW s \in Settings, SaveSettings(s)
      PROVE  Announced'
  <2>1. main'.pc = "bump"
    BY <1>2 DEF SaveSettings, MainGoes, TypeInv, TypeOK
  <2> QED
    BY <2>1 DEF Announced
<1>3. CASE EnqueueReindex
  <2>1. settings' = settings /\ generation' = generation
    BY <1>3 DEF EnqueueReindex, stateVars, diskVars
  <2>2. settings.active \in ProjectIds
    BY ActiveType DEF TypeInv, TypeOK
  <2> QED
    BY <1>0, <1>3, <2>1, <2>2, RebuildAsked DEF EnqueueReindex, Announced
<1>4. CASE /\ generation' = generation /\ settings' = settings
           /\ main' = main \/ main.pc \notin {"bump", "reindex"}
  <2>1. Grows
    BY OtherGrows
  <2> QED
    BY <1>0, <1>4, <2>1, RebuildQueuedKept DEF Announced
<1>5. ASSUME NEW i \in Inits, InitNext(i)
      PROVE  /\ generation' = generation /\ settings' = settings /\ main' = main
  BY <1>5
     DEF InitNext, InitLookup, InitDecide, InitClaim, InitPublish, HydrateRead,
         HydrateStore, HydrateComplete, HydrateEnqueue, HydrateRemove, HydrateFinish,
         HydrateMissFinish, HydrateMissCheck, HydrateMissPending, HydrateMissEnqueue,
         stateVars, diskVars
<1>6. ASSUME NEW r \in Readers, ReaderNext(r)
      PROVE  /\ generation' = generation /\ settings' = settings /\ main' = main
  BY <1>6
     DEF ReaderNext, ReaderHot, ReaderInFlight, ReaderRegister, ReaderCheck,
         ReaderWake, ReaderTimeout, ReaderLast, ReaderCache, ReaderFingerprint,
         ReaderBuild, ReaderWrite, ReaderRescan, ReaderStore, stateVars, diskVars
<1>7. CASE QueryEnqueue \/ RetryNext \/ UNCHANGED vars
  BY <1>4, <1>7
     DEF QueryEnqueue, RetryNext, VerifyRetry, vars, stateVars, diskVars
<1>8. CASE \/ \E p \in Projects : QueryMiss(p) \/ RenameFolder(p)
           \/ ExternalEdit \/ SaveFile
           \/ \E i \in Inits : \E p \in Projects \cup {settings.active} : InitRequest(i, p)
           \/ \E r \in Readers, p \in Projects, pc \in {"hot", "fingerprint"} :
                 ReaderRequest(r, p, pc)
  BY <1>4, <1>8
     DEF QueryMiss, RenameFolder, ExternalEdit, SaveFile, InitRequest, ReaderRequest,
         stateVars, diskVars
<1> QED
  BY <1>1, <1>2, <1>3, <1>4, <1>5, <1>6, <1>7, <1>8 DEF Next, MainNext, Environment

-----------------------------------------------------------------------------
(* How far the worker gets *)

LEMMA AtStoring ==
    ASSUME WorkerNext, worker.pc \in StoringPcs
    PROVE  RebuildBegin \/ RebuildPending \/ RebuildLoadSettings \/ RebuildDiscovering
           \/ RebuildDiscover \/ RebuildIndexing \/ RebuildCheck \/ RebuildFingerprint
           \/ RebuildBuild \/ RebuildWrite \/ RebuildRescan \/ RebuildStore
  BY DEF WorkerNext, StoringPcs, WorkerReceive, WorkerDrainDebouncer,
         WorkerMembershipChanged, WorkerNextFiles, VerifyStart, VerifyLoadSettings,
         VerifyScan, VerifyRecheck, VerifyConfirm, VerifyScanFailed, VerifyInvalidate,
         VerifyHandoffCheck, VerifyHandoffPending, VerifyHandoffEnqueue, RebuildFailed,
         RebuildPublishFailed, RebuildFinish, RebuildReadBack, RebuildComplete,
         FilesBegin, FilesBase, FilesRunning, FilesApply, FilesApplied, FilesPublish,
         FilesPersist, FilesPersistWrite, FilesPersistStore

LEMMA AtStored ==
    ASSUME WorkerNext, worker.pc \in StoredPcs
    PROVE  RebuildFailed \/ RebuildPublishFailed \/ RebuildFinish \/ RebuildReadBack
           \/ RebuildComplete
  BY DEF WorkerNext, StoredPcs, WorkerReceive, WorkerDrainDebouncer,
         WorkerMembershipChanged, WorkerNextFiles, VerifyStart, VerifyLoadSettings,
         VerifyScan, VerifyRecheck, VerifyConfirm, VerifyScanFailed, VerifyInvalidate,
         VerifyHandoffCheck, VerifyHandoffPending, VerifyHandoffEnqueue, RebuildBegin,
         RebuildPending, RebuildLoadSettings, RebuildDiscovering, RebuildDiscover,
         RebuildIndexing, RebuildCheck, RebuildFingerprint, RebuildBuild, RebuildWrite,
         RebuildRescan, RebuildStore, FilesBegin, FilesBase, FilesRunning, FilesApply,
         FilesApplied, FilesPublish, FilesPersist, FilesPersistWrite,
         FilesPersistStore

LEMMA AtBatch ==
    ASSUME WorkerNext, worker.pc \in BatchPcs
    PROVE  FilesBase \/ FilesRunning \/ FilesApply \/ FilesApplied \/ FilesPublish
           \/ FilesPersist \/ FilesPersistWrite \/ FilesPersistStore
  BY DEF WorkerNext, BatchPcs, FilesPcs, WorkerReceive, WorkerDrainDebouncer,
         WorkerMembershipChanged, WorkerNextFiles, VerifyStart, VerifyLoadSettings,
         VerifyScan, VerifyRecheck, VerifyConfirm, VerifyScanFailed, VerifyInvalidate,
         VerifyHandoffCheck, VerifyHandoffPending, VerifyHandoffEnqueue, RebuildBegin,
         RebuildPending, RebuildLoadSettings, RebuildFailed, RebuildPublishFailed,
         RebuildDiscovering, RebuildDiscover, RebuildIndexing, RebuildCheck,
         RebuildFingerprint, RebuildBuild, RebuildWrite, RebuildRescan, RebuildStore,
         RebuildFinish, RebuildReadBack, RebuildComplete, FilesBegin

LEMMA AtVerdict ==
    ASSUME WorkerNext, worker.pc \in VerdictPcs
    PROVE  VerifyLoadSettings \/ VerifyScan \/ VerifyRecheck \/ VerifyConfirm
           \/ VerifyInvalidate
  BY DEF WorkerNext, VerdictPcs, WorkerReceive, WorkerDrainDebouncer,
         WorkerMembershipChanged, WorkerNextFiles, VerifyStart, VerifyScanFailed,
         VerifyHandoffCheck, VerifyHandoffPending, VerifyHandoffEnqueue, RebuildBegin,
         RebuildPending, RebuildLoadSettings, RebuildFailed, RebuildPublishFailed,
         RebuildDiscovering, RebuildDiscover, RebuildIndexing, RebuildCheck,
         RebuildFingerprint, RebuildBuild, RebuildWrite, RebuildRescan, RebuildStore,
         RebuildFinish, RebuildReadBack, RebuildComplete, FilesBegin, FilesBase,
         FilesRunning, FilesApply, FilesApplied, FilesPublish, FilesPersist,
         FilesPersistWrite, FilesPersistStore

LEMMA NoFaultYet ==
    ASSUME faults \in Nat, faults' = 0
    PROVE  ~Fault
  BY DEF Fault

\* A current rebuild goes on until it stores, unless something fails ...
LEMMA StoringAdvances ==
    ASSUME TypeOK, WorkerNext, faults' = 0, Running(StoringPcs)
    PROVE  Running(StoringPcs)' \/ RebuildStore
<1>0. worker \in Workers /\ generation' = generation /\ ~Fault
  BY WorkerLeaves, NoFaultYet DEF TypeOK
<1>1. CASE RebuildBegin
  BY <1>0, <1>1
     DEF RebuildBegin, Workers, Running, StoringPcs
<1>2. CASE RebuildPending
  BY <1>0, <1>2, WorkerGoesRest
     DEF RebuildPending, WorkerPcs, Running, StoringPcs
<1>3. CASE RebuildLoadSettings
  BY <1>0, <1>3, WorkerGoesRest
     DEF RebuildLoadSettings, WorkerPcs, Workers, Running, StoringPcs
<1>4. CASE RebuildDiscovering
  BY <1>0, <1>4, WorkerGoesRest
     DEF RebuildDiscovering, WorkerPcs, Running, StoringPcs
<1>5. CASE RebuildDiscover
  BY <1>0, <1>5, WorkerGoesRest
     DEF RebuildDiscover, WorkerPcs, Running, StoringPcs
<1>6. CASE RebuildIndexing
  BY <1>0, <1>6, WorkerGoesRest
     DEF RebuildIndexing, WorkerPcs, Running, StoringPcs
<1>7. CASE RebuildCheck
  BY <1>0, <1>7, WorkerGoesRest
     DEF RebuildCheck, WorkerPcs, Running, StoringPcs
<1>8. CASE RebuildFingerprint
  BY <1>0, <1>8, WorkerGoesRest
     DEF RebuildFingerprint, WorkerPcs, Workers, Running, StoringPcs
<1>9. CASE RebuildBuild
  BY <1>0, <1>9
     DEF RebuildBuild, Workers, Running, StoringPcs
<1>10. CASE RebuildWrite
  BY <1>0, <1>10, WorkerGoesRest
     DEF RebuildWrite, WorkerPcs, Running, StoringPcs
<1>11. CASE RebuildRescan
  BY <1>0, <1>11, WorkerGoesRest
     DEF RebuildRescan, WorkerPcs, Workers, Running, StoringPcs
<1>12. CASE RebuildStore
  BY <1>12
<1> QED
  BY <1>1, <1>2, <1>3, <1>4, <1>5, <1>6, <1>7, <1>8, <1>9, <1>10, <1>11, <1>12,
     AtStoring DEF Running

\* ... and whatever fails, until it tells those who wait.
LEMMA RebuildAdvances ==
    ASSUME TypeOK, WorkerNext, Running(StoringPcs \cup StoredPcs)
    PROVE  Running(StoringPcs \cup StoredPcs)' \/ NotifyJobCompleted
<1>0. /\ worker \in Workers /\ generation' = generation
      /\ worker.pc = "rebuild" \/ worker.gen = generation
  BY WorkerLeaves DEF TypeOK, Running
<1>1. CASE RebuildBegin
  BY <1>0, <1>1
     DEF RebuildBegin, Workers, Running, StoringPcs, StoredPcs
<1>2. CASE RebuildPending
  BY <1>0, <1>2, WorkerGoesRest
     DEF RebuildPending, WorkerPcs, Running, StoringPcs, StoredPcs
<1>3. CASE RebuildLoadSettings
  BY <1>0, <1>3, WorkerGoesRest
     DEF RebuildLoadSettings, WorkerPcs, Workers, Running, StoringPcs, StoredPcs
<1>4. CASE RebuildDiscovering
  BY <1>0, <1>4, WorkerGoesRest
     DEF RebuildDiscovering, WorkerPcs, Running, StoringPcs, StoredPcs
<1>5. CASE RebuildDiscover
  BY <1>0, <1>5, WorkerGoesRest
     DEF RebuildDiscover, WorkerPcs, Running, StoringPcs, StoredPcs
<1>6. CASE RebuildIndexing
  BY <1>0, <1>6, WorkerGoesRest
     DEF RebuildIndexing, WorkerPcs, Running, StoringPcs, StoredPcs
<1>7. CASE RebuildCheck
  BY <1>0, <1>7, WorkerGoesRest
     DEF RebuildCheck, WorkerPcs, Running, StoringPcs, StoredPcs
<1>8. CASE RebuildFingerprint
  BY <1>0, <1>8, WorkerGoesRest
     DEF RebuildFingerprint, WorkerPcs, Workers, Running, StoringPcs, StoredPcs
<1>9. CASE RebuildBuild
  BY <1>0, <1>9
     DEF RebuildBuild, Workers, Running, StoringPcs, StoredPcs
<1>10. CASE RebuildWrite
  BY <1>0, <1>10, WorkerGoesRest
     DEF RebuildWrite, WorkerPcs, Running, StoringPcs, StoredPcs
<1>11. CASE RebuildRescan
  BY <1>0, <1>11, WorkerGoesRest
     DEF RebuildRescan, WorkerPcs, Workers, Running, StoringPcs, StoredPcs
<1>12. CASE RebuildStore
  BY <1>0, <1>12, WorkerGoesRest
     DEF RebuildStore, WorkerPcs, Running, StoringPcs, StoredPcs
<1>13. CASE RebuildFailed
  BY <1>0, <1>13, WorkerGoesRest
     DEF RebuildFailed, WorkerPcs, Running, StoringPcs, StoredPcs
<1>14. CASE RebuildPublishFailed
  BY <1>14 DEF RebuildPublishFailed
<1>15. CASE RebuildFinish
  BY <1>0, <1>15, WorkerGoesRest
     DEF RebuildFinish, WorkerPcs, Running, StoringPcs, StoredPcs
<1>16. CASE RebuildReadBack
  BY <1>0, <1>16, WorkerGoesRest
     DEF RebuildReadBack, WorkerPcs, Running, StoringPcs, StoredPcs
<1>17. CASE RebuildComplete
  BY <1>17 DEF RebuildComplete
<1> QED
  BY <1>1, <1>2, <1>3, <1>4, <1>5, <1>6, <1>7, <1>8, <1>9, <1>10, <1>11, <1>12, <1>13,
     <1>14, <1>15, <1>16, <1>17,
     AtStoring, AtStored DEF Running

\* A current batch of changed files goes on until it stores or turns into a rebuild.
LEMMA BatchAdvances ==
    ASSUME TypeOK, WorkerNext, faults' = 0, Running(BatchPcs)
    PROVE  Running(BatchPcs \cup {"rebuild"})' \/ FilesPersistStore
<1>0. worker \in Workers /\ generation' = generation /\ ~Fault
  BY WorkerLeaves, NoFaultYet DEF TypeOK
<1>1. CASE FilesBase
  BY <1>0, <1>1, IdleRest
     DEF FilesBase, Workers, Running, BatchPcs, FilesPcs
<1>2. CASE FilesRunning
  BY <1>0, <1>2, WorkerGoesRest
     DEF FilesRunning, WorkerPcs, Running, BatchPcs, FilesPcs
<1>3. CASE FilesApply
  BY <1>0, <1>3, IdleRest
     DEF FilesApply, Workers, Running, BatchPcs, FilesPcs
<1>4. CASE FilesApplied
  BY <1>0, <1>4, WorkerGoesRest
     DEF FilesApplied, WorkerPcs, Running, BatchPcs, FilesPcs
<1>5. CASE FilesPublish
  BY <1>0, <1>5, WorkerGoesRest
     DEF FilesPublish, WorkerPcs, Running, BatchPcs, FilesPcs
<1>6. CASE FilesPersist
  BY <1>0, <1>6
     DEF FilesPersist, Workers, Running, BatchPcs, FilesPcs
<1>7. CASE FilesPersistWrite
  BY <1>0, <1>7, WorkerGoesRest
     DEF FilesPersistWrite, WorkerPcs, Running, BatchPcs, FilesPcs
<1>8. CASE FilesPersistStore
  BY <1>8
<1> QED
  BY <1>1, <1>2, <1>3, <1>4, <1>5, <1>6, <1>7, <1>8, AtBatch DEF Running

-----------------------------------------------------------------------------
(* No lost wake-up *)

StartedPcs == (StoringPcs \cup StoredPcs \cup BatchPcs) \ {"rebuild"}

\* A rebuild or a batch that a settings change has overtaken: the change's own rebuild
\* is announced.
StaleAnnounced ==
    worker.pc \in StartedPcs /\ worker.gen # generation /\ settings.active # None
        => Announced

\* Who waits for an index that is there is told by the rebuild under way or to come.
Woken ==
    \A r \in Readers :
        reader[r].pc = "waiting" /\ ~reader[r].notified /\ HasVerifiedEntry(ReaderFp(r))
            => Announced \/ Running(StoringPcs \cup StoredPcs)

\* What the worker starts it starts in the generation that is live.
Begun ==
    worker'.pc \in StartedPcs =>
        worker'.gen = generation \/ (worker.pc \in StartedPcs /\ worker'.gen = worker.gen)

LEMMA BegunStep ==
    ASSUME TypeOK, WorkerNext
    PROVE  Begun
<1>0. worker \in Workers
  BY DEF TypeOK
<1> USE DEF StartedPcs, StoringPcs, StoredPcs, BatchPcs, FilesPcs
<1>1. CASE WorkerReceive
  <2>1. worker'.pc \in {"rebuild", "batch", worker.pc} /\ worker.pc = "idle"
    BY <1>0, <1>1, IdleRest
       DEF WorkerReceive, Workers
  <2> QED
    BY <2>1 DEF Begun
<1>2. CASE WorkerDrainDebouncer
  BY <1>0, <1>2, IdleRest
     DEF WorkerDrainDebouncer, Workers, Begun
<1>3. CASE WorkerMembershipChanged
  BY <1>0, <1>3, IdleRest
     DEF WorkerMembershipChanged, Workers, Begun
<1>4. CASE WorkerNextFiles
  BY <1>0, <1>4, IdleRest
     DEF WorkerNextFiles, Workers, Begun
<1>5. ASSUME NEW job \in worker.verify, VerifyStart(job)
      PROVE  Begun
  BY <1>0, <1>5
     DEF VerifyStart, Workers, Begun
<1>6. CASE VerifyLoadSettings
  <2>1. worker'.pc \in {"verifyScan", "verifyRecheck", "scanFailed"}
    BY <1>0, <1>6, WorkerGoesRest
       DEF VerifyLoadSettings, WorkerPcs, Workers
  <2> QED
    BY <2>1 DEF Begun
<1>7. CASE VerifyScan
  <2>1. worker'.pc \in {"verifyScan", "verifyRecheck", "scanFailed"}
    BY <1>0, <1>7
       DEF VerifyScan, Workers
  <2> QED
    BY <2>1 DEF Begun
<1>8. CASE VerifyRecheck
  BY <1>0, <1>8, WorkerGoesRest, WorkerDoneRest
     DEF VerifyRecheck, WorkerPcs, Begun
<1>9. CASE VerifyConfirm
  BY <1>0, <1>9, WorkerDoneRest
     DEF VerifyConfirm, Begun
<1>10. CASE VerifyScanFailed
  BY <1>0, <1>10, WorkerGoesRest, WorkerDoneRest
     DEF VerifyScanFailed, WorkerPcs, Begun
<1>11. CASE VerifyInvalidate
  BY <1>0, <1>11, WorkerGoesRest, WorkerDoneRest
     DEF VerifyInvalidate, WorkerPcs, Begun
<1>12. CASE VerifyHandoffCheck
  BY <1>0, <1>12, WorkerGoesRest
     DEF VerifyHandoffCheck, WorkerPcs, Begun
<1>13. CASE VerifyHandoffPending
  BY <1>0, <1>13, WorkerGoesRest
     DEF VerifyHandoffPending, WorkerPcs, Begun
<1>14. CASE VerifyHandoffEnqueue
  BY <1>0, <1>14, WorkerDoneRest
     DEF VerifyHandoffEnqueue, Begun
<1>15. CASE RebuildBegin
  BY <1>0, <1>15
     DEF RebuildBegin, Workers, Begun
<1>16. CASE RebuildPending
  BY <1>0, <1>16, WorkerGoesRest
     DEF RebuildPending, WorkerPcs, Begun
<1>17. CASE RebuildLoadSettings
  <2>1. worker'.gen = worker.gen /\ worker.pc \in {"load", "fingerprint", "rescan"}
    BY <1>0, <1>17, WorkerGoesRest
       DEF RebuildLoadSettings, WorkerPcs, Workers
  <2> QED
    BY <2>1 DEF Begun
<1>18. CASE RebuildFailed
  BY <1>0, <1>18, WorkerGoesRest, WorkerDoneRest
     DEF RebuildFailed, WorkerPcs, Begun
<1>19. CASE RebuildPublishFailed
  BY <1>0, <1>19, WorkerDoneRest
     DEF RebuildPublishFailed, Begun
<1>20. CASE RebuildDiscovering
  BY <1>0, <1>20, WorkerGoesRest
     DEF RebuildDiscovering, WorkerPcs, Begun
<1>21. CASE RebuildDiscover
  BY <1>0, <1>21, WorkerGoesRest, WorkerDoneRest
     DEF RebuildDiscover, WorkerPcs, Begun
<1>22. CASE RebuildIndexing
  BY <1>0, <1>22, WorkerGoesRest
     DEF RebuildIndexing, WorkerPcs, Begun
<1>23. CASE RebuildCheck
  BY <1>0, <1>23, WorkerGoesRest, WorkerDoneRest
     DEF RebuildCheck, WorkerPcs, Begun
<1>24. CASE RebuildFingerprint
  <2>1. worker'.gen = worker.gen /\ worker.pc \in {"load", "fingerprint", "rescan"}
    BY <1>0, <1>24, WorkerGoesRest
       DEF RebuildFingerprint, WorkerPcs, Workers
  <2> QED
    BY <2>1 DEF Begun
<1>25. CASE RebuildBuild
  BY <1>0, <1>25
     DEF RebuildBuild, Workers, Begun
<1>26. CASE RebuildWrite
  BY <1>0, <1>26, WorkerGoesRest
     DEF RebuildWrite, WorkerPcs, Begun
<1>27. CASE RebuildRescan
  <2>1. worker'.gen = worker.gen /\ worker.pc \in {"load", "fingerprint", "rescan"}
    BY <1>0, <1>27, WorkerGoesRest
       DEF RebuildRescan, WorkerPcs, Workers
  <2> QED
    BY <2>1 DEF Begun
<1>28. CASE RebuildStore
  BY <1>0, <1>28, WorkerGoesRest
     DEF RebuildStore, WorkerPcs, Begun
<1>29. CASE RebuildFinish
  BY <1>0, <1>29, WorkerGoesRest, WorkerDoneRest
     DEF RebuildFinish, WorkerPcs, Begun
<1>30. CASE RebuildReadBack
  BY <1>0, <1>30, WorkerGoesRest
     DEF RebuildReadBack, WorkerPcs, Begun
<1>31. CASE RebuildComplete
  BY <1>0, <1>31, WorkerDoneRest
     DEF RebuildComplete, Begun
<1>32. CASE FilesBegin
  BY <1>0, <1>32, WorkerDoneRest
     DEF FilesBegin, Workers, Begun
<1>33. CASE FilesBase
  BY <1>0, <1>33, IdleRest
     DEF FilesBase, Workers, Begun
<1>34. CASE FilesRunning
  BY <1>0, <1>34, WorkerGoesRest
     DEF FilesRunning, WorkerPcs, Begun
<1>35. CASE FilesApply
  BY <1>0, <1>35, WorkerDoneRest, IdleRest
     DEF FilesApply, Workers, Begun
<1>36. CASE FilesApplied
  BY <1>0, <1>36, WorkerGoesRest, WorkerDoneRest
     DEF FilesApplied, WorkerPcs, Begun
<1>37. CASE FilesPublish
  BY <1>0, <1>37, WorkerGoesRest
     DEF FilesPublish, WorkerPcs, Begun
<1>38. CASE FilesPersist
  BY <1>0, <1>38
     DEF FilesPersist, Workers, Begun
<1>39. CASE FilesPersistWrite
  BY <1>0, <1>39, WorkerGoesRest, WorkerDoneRest
     DEF FilesPersistWrite, WorkerPcs, Begun
<1>40. CASE FilesPersistStore
  BY <1>0, <1>40, WorkerDoneRest
     DEF FilesPersistStore, Begun
<1> QED
  BY <1>1, <1>2, <1>3, <1>4, <1>5, <1>6, <1>7, <1>8, <1>9, <1>10, <1>11, <1>12, <1>13,
     <1>14, <1>15, <1>16, <1>17, <1>18, <1>19, <1>20, <1>21, <1>22, <1>23, <1>24,
     <1>25, <1>26, <1>27, <1>28, <1>29, <1>30, <1>31, <1>32, <1>33, <1>34, <1>35,
     <1>36, <1>37, <1>38, <1>39, <1>40
     DEF WorkerNext

LEMMA StaleAnnouncedStep ==
    ASSUME TypeInv, StaleAnnounced, [Next]_vars
    PROVE  StaleAnnounced'
<1>0. TypeOK
  BY DEF TypeInv
<1>1. CASE WorkerNext
  <2>1. generation' = generation /\ settings' = settings
    BY <1>1, WorkerLeaves
  <2>2. ASSUME worker'.pc \in StartedPcs, worker'.gen # generation, settings.active # None
        PROVE  Announced'
    <3>1. Announced
      BY <1>0, <1>1, <2>2, BegunStep DEF Begun, StaleAnnounced
    <3>2. worker'.pc # "rebuild"
      BY <2>2 DEF StartedPcs
    <3> QED
      BY <1>0, <1>1, <3>1, <3>2, WorkerAnnounced
  <2> QED
    BY <2>1, <2>2 DEF StaleAnnounced
<1>2. CASE Restart
  <2>1. worker'.pc = "idle"
    BY <1>2, StartTypes DEF Restart
  <2> QED
    BY <2>1 DEF StaleAnnounced, StartedPcs, StoringPcs, StoredPcs, BatchPcs, FilesPcs
<1>3. CASE ~WorkerNext /\ ~Restart
  BY <1>3, OtherAnnounced, OtherWorker DEF StaleAnnounced
<1> QED
  BY <1>1, <1>2, <1>3

LEMMA NotifiedNow ==
    ASSUME reader \in [Readers -> ReaderStates], NotifyJobCompleted, NEW r \in Readers
    PROVE  reader'[r].pc = "waiting" => reader'[r].notified
  BY DEF NotifyJobCompleted, ReaderStates

LEMMA WorkerEntryMoves ==
    ASSUME WorkerNext
    PROVE  entry' = entry \/ entry' = None \/ RebuildStore \/ NotifyJobCompleted
<1>1. CASE VerifyConfirm
  BY <1>1 DEF VerifyConfirm
<1>2. CASE VerifyInvalidate
  BY <1>2 DEF VerifyInvalidate, InvalidateEntry
<1>3. CASE FilesPersistStore
  BY <1>3 DEF FilesPersistStore
<1> QED
  BY <1>1, <1>2, <1>3
     DEF WorkerNext, WorkerReceive, WorkerDrainDebouncer, WorkerMembershipChanged,
         WorkerNextFiles, VerifyStart, VerifyLoadSettings, VerifyScan,
         VerifyRecheck, VerifyScanFailed, VerifyHandoffCheck, VerifyHandoffPending,
         VerifyHandoffEnqueue, RebuildBegin, RebuildPending, RebuildLoadSettings,
         RebuildFailed, RebuildPublishFailed, RebuildDiscovering, RebuildDiscover,
         RebuildIndexing, RebuildCheck, RebuildFingerprint, RebuildBuild,
         RebuildWrite, RebuildRescan, RebuildFinish, RebuildReadBack,
         RebuildComplete, FilesBegin, FilesBase, FilesRunning, FilesApply,
         FilesApplied, FilesPublish, FilesPersist, FilesPersistWrite, stateVars

LEMMA WokenWorkerStep ==
    ASSUME TypeInv, StaleAnnounced, Woken, WorkerNext, settings.active # None
    PROVE  Woken'
<1>0. TypeOK /\ reader \in [Readers -> ReaderStates] /\ generation' = generation
  BY WorkerLeaves DEF TypeInv, TypeOK
<1> SUFFICES ASSUME NEW r \in Readers, reader'[r].pc = "waiting", ~reader'[r].notified,
                    HasVerifiedEntry(ReaderFp(r))'
             PROVE  (Announced \/ Running(StoringPcs \cup StoredPcs))'
  BY DEF Woken
<1>1. reader' = reader /\ ~NotifyJobCompleted
  BY <1>0, WorkerLeaves, NotifiedNow
<1>2. CASE Announced
  <2>1. CASE worker'.pc = "rebuild"
    BY <2>1 DEF Running, StoringPcs
  <2> QED
    BY <1>0, <1>2, <2>1, WorkerAnnounced
<1>3. CASE Running(StoringPcs \cup StoredPcs)
  BY <1>0, <1>1, <1>3, RebuildAdvances
<1>4. CASE ~Announced /\ ~Running(StoringPcs \cup StoredPcs)
  <2>1. ~HasVerifiedEntry(ReaderFp(r))
    BY <1>1, <1>4 DEF Woken
  <2>2. entry' # entry /\ entry' # None
    BY <1>1, <2>1 DEF HasVerifiedEntry, HasEntry, ReaderFp
  <2>3. RebuildStore
    BY <1>1, <2>2, WorkerEntryMoves
  <2>4. worker.pc = "store"
    BY <2>3 DEF RebuildStore
  <2> QED
    BY <1>4, <2>4 DEF StaleAnnounced, StartedPcs, StoringPcs, Running
<1> QED
  BY <1>2, <1>3, <1>4

\* No load stores an index of its own while another one waits for a job.
LoadsApart ==
    \A r1, r2 \in Readers : ~(reader[r1].pc = "store" /\ reader[r2].pc = "waiting")

LEMMA WaitsAfterCheck ==
    ASSUME TypeOK, NEW r \in Readers, NEW x \in Readers, ReaderNext(r),
           reader'[x].pc = "waiting"
    PROVE  \/ reader'[x] = reader[x] /\ x # r
           \/ /\ ~HasVerifiedEntry(ReaderFp(x)) /\ entry' = entry
              /\ reader'[x].settings = reader[x].settings
              /\ reader'[x].project = reader[x].project
<1>0. reader \in [Readers -> ReaderStates] /\ reader[x] \in ReaderStates
  BY DEF TypeOK
<1>1. CASE ReaderCheck(r)
  <2>1. CASE HasVerifiedEntry(ReaderFp(r))
    BY <1>0, <1>1, <2>1, StartTypes DEF ReaderCheck, ReaderDone
  <2>2. CASE ~HasVerifiedEntry(ReaderFp(r))
    <3>1. reader' = [reader EXCEPT ![r].pc = "waiting"] /\ entry' = entry
      BY <1>1, <2>2 DEF ReaderCheck, ReaderGoes, stateVars
    <3>2. x = r => /\ reader'[x].settings = reader[x].settings
                   /\ reader'[x].project = reader[x].project
      BY <1>0, <3>1 DEF ReaderStates
    <3> QED
      BY <1>0, <2>2, <3>1, <3>2
  <2> QED
    BY <2>1, <2>2
<1>2. CASE ~ReaderCheck(r)
  <2>1. reader'[r].pc # "waiting"
    BY <1>0, <1>2, StartTypes
       DEF ReaderNext, ReaderHot, ReaderInFlight, ReaderRegister,
           ReaderWake, ReaderTimeout, ReaderLast, ReaderCache, ReaderFingerprint,
           ReaderBuild, ReaderWrite, ReaderRescan, ReaderStore, ReaderGoes, ReaderDone,
           ReaderStates
  <2>2. \A y \in Readers : y # r => reader'[y] = reader[y]
    BY <1>0, <1>2
       DEF ReaderNext, ReaderHot, ReaderInFlight, ReaderRegister,
           ReaderWake, ReaderTimeout, ReaderLast, ReaderCache, ReaderFingerprint,
           ReaderBuild, ReaderWrite, ReaderRescan, ReaderStore, ReaderGoes, ReaderDone
  <2> QED
    BY <2>1, <2>2
<1> QED
  BY <1>1, <1>2

\* Only a store of a load, or the worker, makes an entry verified.
LEMMA OtherEntryMoves ==
    ASSUME TypeInv, [Next]_vars, ~WorkerNext, ~Restart
    PROVE  \/ entry' = entry \/ entry' = None
           \/ \E r \in Readers : ReaderStore(r)
           \/ \E i \in Inits :
                HydrateStore(i) /\ MayHydrate(init[i].gen, init[i].project, InitFp(i))
<1>1. ASSUME NEW i \in Inits, InitNext(i), ~HydrateStore(i)
      PROVE  entry' = entry \/ entry' = None
  BY <1>1
     DEF InitNext, InitLookup, InitDecide, InitClaim, InitPublish, HydrateRead,
         HydrateComplete, HydrateEnqueue, HydrateRemove, HydrateFinish,
         HydrateMissFinish, HydrateMissCheck, HydrateMissPending, HydrateMissEnqueue,
         RemoveUnverifiedEntry, stateVars
<1>2. ASSUME NEW i \in Inits, HydrateStore(i)
      PROVE  entry' = entry \/ MayHydrate(init[i].gen, init[i].project, InitFp(i))
  BY <1>2 DEF HydrateStore
<1>3. ASSUME NEW r \in Readers, ReaderNext(r), ~ReaderStore(r)
      PROVE  entry' = entry
  BY <1>3
     DEF ReaderNext, ReaderHot, ReaderInFlight, ReaderRegister, ReaderCheck,
         ReaderWake, ReaderTimeout, ReaderLast, ReaderCache, ReaderFingerprint,
         ReaderBuild, ReaderWrite, ReaderRescan, stateVars
<1>4. CASE MainNext \/ RetryNext \/ UNCHANGED vars \/ Environment
  BY <1>4
     DEF MainNext, RetryNext, Environment, RestartForSettings, EnqueueReindex,
         QueryEnqueue, VerifyRetry, SaveSettings, QueryMiss, RenameFolder,
         ExternalEdit, SaveFile, InitRequest, ReaderRequest, vars, stateVars
<1> QED
  BY <1>1, <1>2, <1>3, <1>4 DEF Next

LEMMA OtherReaders ==
    ASSUME TypeOK, [Next]_vars, ~WorkerNext, ~Restart, NEW x \in Readers,
           reader'[x].pc = "waiting", ~\E r \in Readers : ReaderNext(r)
    PROVE  reader'[x] = reader[x]
<1>1. reader \in [Readers -> ReaderStates]
  BY DEF TypeOK
<1>2. ASSUME NEW i \in Inits, InitNext(i)
      PROVE  reader' = reader
  BY <1>2
     DEF InitNext, InitLookup, InitDecide, InitClaim, InitPublish, HydrateRead,
         HydrateStore, HydrateComplete, HydrateEnqueue, HydrateRemove, HydrateFinish,
         HydrateMissFinish, HydrateMissCheck, HydrateMissPending, HydrateMissEnqueue
<1>3. ASSUME NEW r \in Readers, NEW p \in Projects, NEW pc \in {"hot", "fingerprint"},
             ReaderRequest(r, p, pc)
      PROVE  reader'[x] = reader[x]
  BY <1>1, <1>3 DEF ReaderRequest, ReaderStates
<1>4. CASE \/ MainNext \/ RetryNext \/ UNCHANGED vars
           \/ \E s \in Settings : SaveSettings(s)
           \/ \E p \in Projects : QueryMiss(p) \/ RenameFolder(p)
           \/ ExternalEdit \/ SaveFile
           \/ \E i \in Inits : \E p \in Projects \cup {settings.active} : InitRequest(i, p)
  BY <1>4
     DEF MainNext, RetryNext, RestartForSettings, EnqueueReindex,
         QueryEnqueue, VerifyRetry, SaveSettings, QueryMiss, RenameFolder,
         ExternalEdit, SaveFile, InitRequest, vars
<1> QED
  BY <1>2, <1>3, <1>4 DEF Next, Environment

LEMMA WokenOtherStep ==
    ASSUME TypeInv, Woken, LoadsApart, [Next]_vars, ~WorkerNext, ~Restart,
           settings'.active # None
    PROVE  Woken'
<1>0. TypeOK
  BY DEF TypeInv
<1> SUFFICES ASSUME NEW x \in Readers, reader'[x].pc = "waiting", ~reader'[x].notified,
                    HasVerifiedEntry(ReaderFp(x))', ~Announced'
             PROVE  Running(StoringPcs \cup StoredPcs)'
  BY DEF Woken
<1>1. ~Announced /\ generation' = generation /\ worker' = worker
  BY OtherAnnounced, OtherWorker
<1>2. reader'[x] = reader[x]
  <2>1. ASSUME NEW r \in Readers, ReaderNext(r), reader'[x] # reader[x]
        PROVE  FALSE
    BY <1>0, <2>1, WaitsAfterCheck DEF HasVerifiedEntry, HasEntry, ReaderFp
  <2> QED
    BY <1>0, <2>1, OtherReaders
<1>3. entry' = entry
  <2>1. entry' # None /\ entry'.verified
    BY DEF HasVerifiedEntry, HasEntry
  <2>2. ASSUME NEW r \in Readers, ReaderStore(r)
        PROVE  FALSE
    BY <1>2, <2>2 DEF ReaderStore, LoadsApart
  <2> QED
    BY <2>1, <2>2, OtherEntryMoves DEF HydrateStore, StoreHydrated, NewEntry
<1>4. HasVerifiedEntry(ReaderFp(x))
  BY <1>2, <1>3 DEF HasVerifiedEntry, HasEntry, ReaderFp
<1> QED
  BY <1>1, <1>2, <1>4 DEF Woken, Running

ProjectActive == settings.active # None

\* A load that waits for a job learns that its index is there: as long as a project is
\* active and no other load stores meanwhile, some completion is still to be announced
\* (def_index_cache.rs, wait_for_in_flight_job), whatever fails, is edited or restarted.
THEOREM WakeupsNeverLost ==
    Spec /\ []ProjectActive /\ []LoadsApart => []NoLostWakeup
<1>1. Init => TypeInv /\ StaleAnnounced /\ Woken
  <2>1. Init => TypeInv
    BY TypeInit
  <2>2. Init => StaleAnnounced /\ Woken
    BY StartTypes
       DEF Init, Fresh, StaleAnnounced, Woken, StartedPcs, StoringPcs, StoredPcs,
           BatchPcs, FilesPcs
  <2> QED
    BY <2>1, <2>2
<1>2. TypeInv /\ StaleAnnounced /\ Woken /\ LoadsApart /\ [Next]_vars
        /\ ProjectActive /\ ProjectActive'
      => (TypeInv /\ StaleAnnounced /\ Woken)'
  <2> SUFFICES ASSUME TypeInv, StaleAnnounced, Woken, LoadsApart, [Next]_vars,
                      ProjectActive, ProjectActive'
               PROVE  (TypeInv /\ StaleAnnounced /\ Woken)'
    OBVIOUS
  <2>1. TypeInv' /\ StaleAnnounced'
    BY TypeStep, StaleAnnouncedStep
  <2>2. CASE Restart
    BY <2>1, <2>2, StartTypes DEF Restart, Woken
  <2>3. CASE WorkerNext
    BY <2>1, <2>3, WokenWorkerStep DEF ProjectActive
  <2>4. CASE ~WorkerNext /\ ~Restart
    BY <2>1, <2>4, WokenOtherStep DEF ProjectActive
  <2> QED
    BY <2>1, <2>2, <2>3, <2>4
<1>3. TypeInv /\ Woken => NoLostWakeup
  BY DEF TypeInv, TypeOK, Woken, NoLostWakeup, Announced, RebuildQueued, LiveRebuild,
         Live, Running, StoringPcs, StoredPcs
<1> QED
  BY <1>1, <1>2, <1>3, PTL DEF Spec

-----------------------------------------------------------------------------
(* No hydration is stranded *)

\* Someone will see to the verification of the entry.
CaredFor == VerificationWaits(entry.fp) \/ \E i \in Inits : Hydrating(i)

Attended ==
    ProjectActive /\ entry # None /\ ~entry.verified =>
        Announced \/ Running(StoringPcs) \/ CaredFor \/ Judging

LEMMA FaultsGrow ==
    ASSUME TypeOK, [Next]_vars, faults' = 0
    PROVE  faults = 0
<1>0. faults \in Nat
  BY DEF TypeOK
<1>1. CASE WorkerNext
  BY <1>0, <1>1, WorkerLeaves
<1>2. ASSUME NEW i \in Inits, InitNext(i)
      PROVE  faults = 0
  BY <1>0, <1>2
     DEF InitNext, InitLookup, InitDecide, InitClaim, InitPublish, HydrateRead,
         HydrateStore, HydrateComplete, HydrateEnqueue, HydrateRemove, HydrateFinish,
         HydrateMissFinish, HydrateMissCheck, HydrateMissPending, HydrateMissEnqueue,
         Fault, NoFault, bounds
<1>3. ASSUME NEW r \in Readers, ReaderNext(r)
      PROVE  faults = 0
  BY <1>0, <1>3
     DEF ReaderNext, ReaderHot, ReaderInFlight, ReaderRegister, ReaderCheck,
         ReaderWake, ReaderTimeout, ReaderLast, ReaderCache, ReaderFingerprint,
         ReaderBuild, ReaderWrite, ReaderRescan, ReaderStore, Fault, NoFault, bounds
<1>4. CASE MainNext \/ RetryNext \/ UNCHANGED vars \/ Environment
  BY <1>4
     DEF MainNext, RetryNext, Environment, RestartForSettings, EnqueueReindex,
         QueryEnqueue, VerifyRetry, SaveSettings, QueryMiss, RenameFolder,
         ExternalEdit, SaveFile, InitRequest, ReaderRequest, Restart, vars, bounds
<1> QED
  BY <1>1, <1>2, <1>3, <1>4 DEF Next

LEMMA WorkerEntryChange ==
    ASSUME TypeOK, WorkerNext
    PROVE  \/ entry' = entry \/ entry' = None
           \/ /\ RebuildStore \/ FilesPersistStore
              /\ entry'.verified /\ entry'.version = worker.version
           \/ /\ VerifyConfirm /\ entry # None /\ entry'.verified /\ entry'.fp = entry.fp
              /\ entry'.fps = entry.fps /\ entry'.version = entry.version
<1>1. CASE VerifyConfirm
  <2>1. CASE MayConfirm(worker.gen, worker.fp)
    <3>1. entry \in Entries /\ entry' = [entry EXCEPT !.verified = TRUE] /\ entry # None
      BY <1>1, <2>1 DEF VerifyConfirm, MayConfirm, HasEntry, ConfirmCacheVerified,
                        TypeOK, StateTypeOK
    <3>2. /\ entry'.verified /\ entry'.fp = entry.fp
          /\ entry'.fps = entry.fps /\ entry'.version = entry.version
      BY <3>1 DEF Entries
    <3> QED
      BY <1>1, <3>1, <3>2
  <2>2. CASE ~MayConfirm(worker.gen, worker.fp)
    BY <1>1, <2>2 DEF VerifyConfirm
  <2> QED
    BY <2>1, <2>2
<1>2. CASE RebuildStore
  BY <1>2 DEF RebuildStore, Store, NewEntry
<1>3. CASE FilesPersistStore
  BY <1>3 DEF FilesPersistStore, Store, NewEntry
<1>4. CASE entry' = entry \/ entry' = None
  BY <1>4
<1> QED
  BY <1>1, <1>2, <1>3, <1>4
     DEF WorkerNext, WorkerReceive, WorkerDrainDebouncer, WorkerMembershipChanged,
         WorkerNextFiles, VerifyStart, VerifyLoadSettings, VerifyScan,
         VerifyRecheck, VerifyScanFailed, VerifyInvalidate, VerifyHandoffCheck,
         VerifyHandoffPending, VerifyHandoffEnqueue, RebuildBegin, RebuildPending,
         RebuildLoadSettings, RebuildFailed, RebuildPublishFailed, RebuildDiscovering,
         RebuildDiscover, RebuildIndexing, RebuildCheck, RebuildFingerprint, RebuildBuild,
         RebuildWrite, RebuildRescan, RebuildFinish, RebuildReadBack,
         RebuildComplete, FilesBegin, FilesBase, FilesRunning, FilesApply,
         FilesApplied, FilesPublish, FilesPersist, FilesPersistWrite, InvalidateEntry,
         stateVars

\* A waiting verification goes on waiting, begins, or gives way to a rebuild.
LEMMA WaitsWorkerStep ==
    ASSUME TypeOK, Emptied, WorkerNext, NEW fp, VerificationWaits(fp)
    PROVE  \/ VerificationWaits(fp)' \/ worker'.pc = "rebuild"
           \/ \E job \in worker.verify :
                job.gen = generation /\ job.fp = fp /\ VerifyStart(job)
<1>0. generation' = generation /\ queue \in Seq(Jobs) /\ worker \in Workers
  BY WorkerLeaves DEF TypeOK
<1>1. CASE WorkerReceive
  <2>1. worker.verify = {}
    BY <1>1 DEF WorkerReceive, Emptied
  <2>2. PICK n \in DOMAIN queue :
          Live(n) /\ queue[n] \in LiveVerifications /\ queue[n].fp = fp
    BY <2>1 DEF VerificationWaits, LiveVerifications, Live
  <2>3. \/ \E i \in DOMAIN queue :
             worker' = [IdleWorker EXCEPT !.pc = "rebuild", !.project = queue[i].project]
        \/ worker' = [IdleWorker EXCEPT !.pc = "batch", !.verify = LiveVerifications,
                                        !.files = HasLiveFileJob]
    BY <1>1, <2>2 DEF WorkerReceive
  <2>4. worker'.pc = "rebuild" \/ worker'.verify = LiveVerifications
    BY <2>3, IdleRest DEF Workers
  <2> QED
    BY <1>0, <2>2, <2>4 DEF VerificationWaits, Live
<1>2. CASE ~WorkerReceive
  <2>1. Grows
    BY <1>2, WorkerGrows
  <2>2. ASSUME NEW job \in LiveVerifications, job.fp = fp
        PROVE  VerificationWaits(fp)'
    BY <1>0, <2>1, <2>2, VerificationKept DEF VerificationWaits
  <2>3. ASSUME NEW job \in worker.verify, job.gen = generation, job.fp = fp,
               ~VerifyStart(job)
        PROVE  VerificationWaits(fp)'
    BY <1>0, <2>3, BatchKept DEF VerificationWaits
  <2> QED
    BY <2>2, <2>3 DEF VerificationWaits
<1> QED
  BY <1>1, <1>2

LEMMA StartJudges ==
    ASSUME TypeOK, entry # None, NEW job \in worker.verify, VerifyStart(job),
           job.gen = generation, job.fp = entry.fp
    PROVE  Judging' /\ worker'.pc = "verifyLoad" /\ entry' = entry
<1>1. worker \in Workers /\ entry' = entry /\ generation' = generation
  BY DEF VerifyStart, stateVars, TypeOK
<1>2. worker' = [worker EXCEPT !.pc = "verifyLoad", !.verify = worker.verify \ {job},
                   !.project = job.project, !.gen = job.gen, !.fp = job.fp,
                   !.attempt = job.attempt, !.fps = entry.fps]
  BY DEF VerifyStart, HasEntry
<1>3. /\ worker'.pc = "verifyLoad" /\ worker'.gen = job.gen /\ worker'.fp = job.fp
      /\ worker'.fps = entry.fps
  BY <1>1, <1>2 DEF Workers
<1> QED
  BY <1>1, <1>3 DEF Judging, VerdictPcs

\* The worker's verdict on the entry in the slot ends in a confirmation or takes it away.
LEMMA JudgingStep ==
    ASSUME TypeOK, Judged, WorkerNext, faults' = 0, entry # None, Judging
    PROVE  Judging' \/ entry' = None \/ entry'.verified
<1>0. worker \in Workers /\ generation' = generation /\ ~Fault /\ faults = 0
  BY WorkerLeaves, NoFaultYet, FaultsGrow DEF TypeOK
<1>1. HasEntry(worker.fp) /\ worker.gen = generation /\ entry.fps = worker.fps
  BY DEF Judging, HasEntry
<1>2. CASE VerifyLoadSettings
  <2>1. /\ worker' = [worker EXCEPT !.pc = "verifyScan", !.settings = settings]
        /\ entry' = entry
    BY <1>0, <1>2 DEF VerifyLoadSettings, ScanFault, stateVars
  <2> QED
    BY <1>0, <2>1 DEF Judging, VerdictPcs, Workers
<1>3. CASE VerifyScan
  <2>1. entry' = entry /\ worker'.pc = "verifyRecheck" /\ worker'.gen = worker.gen
        /\ worker'.fp = worker.fp /\ worker'.fps = worker.fps
    BY <1>0, <1>3 DEF VerifyScan, stateVars, Workers
  <2> QED
    BY <1>0, <2>1 DEF Judging, VerdictPcs
<1>4. CASE VerifyRecheck
  <2>1. worker.pc = "verifyRecheck" /\ worker.verdict \in {"Match", "Mismatch"}
    BY <1>0, <1>4 DEF VerifyRecheck, Judged, JudgePcs, LoadedPcs
  <2>2. \E pc \in {"confirm", "invalidate"} : WorkerGoes(pc)
    BY <1>1, <1>4, <2>1 DEF VerifyRecheck
  <2>3. worker'.pc \in {"confirm", "invalidate"} /\ worker'.gen = worker.gen
        /\ worker'.fp = worker.fp /\ worker'.fps = worker.fps
    BY <1>0, <2>2, WorkerGoesFields DEF WorkerPcs
  <2> QED
    BY <1>0, <1>4, <2>3 DEF VerifyRecheck, stateVars, Judging, VerdictPcs
<1>5. CASE VerifyConfirm
  <2>1. MayConfirm(worker.gen, worker.fp)
    BY <1>1 DEF MayConfirm
  <2>2. entry \in Entries /\ entry' = [entry EXCEPT !.verified = TRUE]
    BY <1>5, <2>1 DEF VerifyConfirm, ConfirmCacheVerified, TypeOK, StateTypeOK
  <2> QED
    BY <2>2 DEF Entries
<1>6. CASE VerifyInvalidate
  BY <1>1, <1>6 DEF VerifyInvalidate, MayInvalidate, InvalidateEntry
<1> QED
  BY <1>2, <1>3, <1>4, <1>5, <1>6, AtVerdict DEF Judging

LEMMA AttendedWorkerStep ==
    ASSUME TypeOK, Judged, Emptied, Attended, WorkerNext, faults' = 0
    PROVE  Attended'
<1>1. settings' = settings /\ generation' = generation /\ init' = init
  BY WorkerLeaves
<1> SUFFICES ASSUME ProjectActive, entry' # None, ~entry'.verified
             PROVE  (Announced \/ Running(StoringPcs) \/ CaredFor \/ Judging)'
  BY <1>1 DEF Attended, ProjectActive
<1>2. entry' = entry
  BY WorkerEntryChange
<1>3. ASSUME worker'.pc = "rebuild"
      PROVE  Running(StoringPcs)'
  BY <1>3 DEF Running, StoringPcs
<1>4. CASE Announced
  BY <1>3, <1>4, WorkerAnnounced
<1>5. CASE Running(StoringPcs)
  <2>1. RebuildStore => entry'.verified
    BY DEF RebuildStore, Store, NewEntry
  <2> QED
    BY <1>5, <2>1, StoringAdvances
<1>6. CASE VerificationWaits(entry.fp)
  <2>1. VerificationWaits(entry.fp)' => CaredFor'
    BY DEF CaredFor
  <2> QED
    BY <1>2, <1>3, <1>6, <2>1, WaitsWorkerStep, StartJudges
<1>7. ASSUME NEW i \in Inits, Hydrating(i)
      PROVE  CaredFor'
  BY <1>1, <1>2, <1>7 DEF Hydrating, InitFp, CaredFor
<1>8. CASE Judging
  BY <1>2, <1>8, JudgingStep
<1> QED
  BY <1>2, <1>4, <1>5, <1>6, <1>7, <1>8 DEF Attended, CaredFor

-----------------------------------------------------------------------------

LEMMA HydratingStep ==
    ASSUME TypeInv, NEW i \in Inits, NEW j \in Inits, InitNext(j), Hydrating(i),
           entry' = entry, entry # None, generation' = generation
    PROVE  CaredFor'
<1>0. /\ init \in [Inits -> InitStates] /\ InitLoaded /\ queue \in Seq(Jobs)
      /\ init[i] \in InitStates
  BY DEF TypeInv, TypeOK, SettingsLoaded
<1>1. CASE j # i
  <2>1. init'[i] = init[i]
    BY <1>0, <1>1
       DEF InitNext, InitLookup, InitDecide, InitClaim, InitPublish, HydrateRead,
           HydrateStore, HydrateComplete, HydrateEnqueue, HydrateRemove, HydrateFinish,
           HydrateMissFinish, HydrateMissCheck, HydrateMissPending, HydrateMissEnqueue,
           InitGoes, InitDone
  <2> QED
    BY <2>1 DEF Hydrating, InitFp, CaredFor
<1>2. CASE j = i /\ init[i].pc = "complete"
  <2>1. HydrateComplete(i)
    BY <1>2
       DEF InitNext, InitLookup, InitDecide, InitClaim, InitPublish, HydrateRead,
           HydrateStore, HydrateEnqueue, HydrateRemove, HydrateFinish,
           HydrateMissFinish, HydrateMissCheck, HydrateMissPending, HydrateMissEnqueue
  <2>2. init' = [init EXCEPT ![i].pc = "enqueue"]
    BY <2>1 DEF HydrateComplete, MayComplete, HasEntry, Hydrating, InitGoes
  <2>3. /\ init'[i].pc = "enqueue" /\ init'[i].gen = init[i].gen
        /\ init'[i].settings = init[i].settings /\ init'[i].project = init[i].project
    BY <1>0, <2>2 DEF InitStates
  <2> QED
    BY <2>3 DEF Hydrating, InitFp, CaredFor
<1>3. CASE j = i /\ init[i].pc = "enqueue"
  <2>1. HydrateEnqueue(i)
    BY <1>3
       DEF InitNext, InitLookup, InitDecide, InitClaim, InitPublish, HydrateRead,
           HydrateStore, HydrateComplete, HydrateRemove, HydrateFinish,
           HydrateMissFinish, HydrateMissCheck, HydrateMissPending, HydrateMissEnqueue
  <2>2. /\ InitFp(i) \in SettingsFingerprints /\ init[i].project \in ProjectIds
        /\ init[i].gen \in Nat /\ 0 \in Attempts
    BY <1>0, <1>3, InitFields, BoundsAssumption DEF Attempts
  <2>3. VerifyJob(init[i].project, generation, InitFp(i), 0) \in Jobs
    BY <2>2, VerifyJobType DEF Hydrating
  <2>4. Enqueue(VerifyJob(init[i].project, generation, InitFp(i), 0))
    BY <2>1 DEF HydrateEnqueue, Hydrating
  <2>5. \E job \in LiveVerifications' : job.fp = InitFp(i)
    BY <1>0, <2>3, <2>4, VerificationAsked
  <2> QED
    BY <2>5 DEF Hydrating, CaredFor, VerificationWaits
<1> QED
  BY <1>1, <1>2, <1>3 DEF Hydrating

LEMMA OtherInits ==
    ASSUME TypeOK, [Next]_vars, ~WorkerNext, ~Restart, NEW i \in Inits, Hydrating(i),
           ~\E j \in Inits : InitNext(j)
    PROVE  init'[i] = init[i]
<1>1. init \in [Inits -> InitStates] /\ init[i].pc # "ready"
  BY DEF TypeOK, Hydrating
<1>2. ASSUME NEW r \in Readers, ReaderNext(r)
      PROVE  init' = init
  BY <1>2
     DEF ReaderNext, ReaderHot, ReaderInFlight, ReaderRegister, ReaderCheck,
         ReaderWake, ReaderTimeout, ReaderLast, ReaderCache, ReaderFingerprint,
         ReaderBuild, ReaderWrite, ReaderRescan, ReaderStore
<1>3. ASSUME NEW j \in Inits, NEW p \in Projects \cup {settings.active}, InitRequest(j, p)
      PROVE  init'[i] = init[i]
  <2>1. init[j].pc = "ready"
    BY <1>3 DEF InitRequest
  <2>2. i # j
    BY <1>1, <2>1
  <2> QED
    BY <1>1, <1>3, <2>2 DEF InitRequest
<1>4. CASE \/ MainNext \/ RetryNext \/ UNCHANGED vars
           \/ \E s \in Settings : SaveSettings(s)
           \/ \E p \in Projects : QueryMiss(p) \/ RenameFolder(p)
           \/ ExternalEdit \/ SaveFile
           \/ \E r \in Readers, p \in Projects, pc \in {"hot", "fingerprint"} :
                 ReaderRequest(r, p, pc)
  BY <1>4
     DEF MainNext, RetryNext, RestartForSettings, EnqueueReindex,
         QueryEnqueue, VerifyRetry, SaveSettings, QueryMiss, RenameFolder,
         ExternalEdit, SaveFile, ReaderRequest, vars
<1> QED
  BY <1>2, <1>3, <1>4 DEF Next, Environment

\* Nobody but the worker takes a care from the entry in the slot.
LEMMA CaredForOthers ==
    ASSUME TypeInv, [Next]_vars, ~WorkerNext, ~Restart, generation' = generation,
           entry' = entry, entry # None, CaredFor
    PROVE  CaredFor'
<1>0. TypeOK /\ queue \in Seq(Jobs) /\ worker' = worker /\ Grows
  BY OtherWorker, OtherGrows DEF TypeInv, TypeOK
<1>1. CASE VerificationWaits(entry.fp)
  <2>1. VerificationWaits(entry.fp)'
    BY <1>0, <1>1, VerificationKept DEF VerificationWaits
  <2> QED
    BY <2>1 DEF CaredFor
<1>2. ASSUME NEW i \in Inits, Hydrating(i)
      PROVE  CaredFor'
  <2>1. CASE \E j \in Inits : InitNext(j)
    BY <1>2, <2>1, HydratingStep
  <2>2. CASE ~\E j \in Inits : InitNext(j)
    <3>1. init'[i] = init[i]
      BY <1>0, <1>2, <2>2, OtherInits
    <3> QED
      BY <1>2, <3>1 DEF Hydrating, InitFp, CaredFor
  <2> QED
    BY <2>1, <2>2
<1> QED
  BY <1>1, <1>2 DEF CaredFor

\* A hydration that stores takes the care of what it has stored.
LEMMA HydrateStored ==
    ASSUME TypeOK, NEW i \in Inits, HydrateStore(i),
           MayHydrate(init[i].gen, init[i].project, InitFp(i))
    PROVE  CaredFor'
<1>1. init \in [Inits -> InitStates] /\ init[i] \in InitStates /\ generation = init[i].gen
  BY DEF TypeOK, MayHydrate
<1>2. /\ init' = [init EXCEPT ![i].pc = "complete"] /\ generation' = generation
      /\ entry' = NewEntry(init[i].project, InitFp(i), init[i].fps, init[i].version, FALSE)
  BY DEF HydrateStore, StoreHydrated, InitGoes
<1>3. /\ init'[i].pc = "complete" /\ init'[i].gen = init[i].gen
      /\ init'[i].settings = init[i].settings /\ init'[i].project = init[i].project
  BY <1>1, <1>2 DEF InitStates
<1>4. entry'.fp = InitFp(i) /\ InitFp(i)' = InitFp(i)
  BY <1>2, <1>3 DEF NewEntry, InitFp
<1> QED
  BY <1>1, <1>2, <1>3, <1>4 DEF Hydrating, CaredFor

LEMMA AttendedOtherStep ==
    ASSUME TypeInv, Attended, [Next]_vars, ~WorkerNext, ~Restart
    PROVE  Attended'
<1>0. TypeOK /\ worker' = worker
  BY OtherWorker DEF TypeInv
<1> SUFFICES ASSUME ProjectActive', entry' # None, ~entry'.verified, ~Announced'
             PROVE  (Running(StoringPcs) \/ CaredFor \/ Judging)'
  BY DEF Attended
<1>1. ~Announced /\ generation' = generation /\ settings' = settings
  BY OtherAnnounced DEF ProjectActive
<1>2. CASE entry' = entry
  <2>1. Running(StoringPcs) \/ CaredFor \/ Judging
    BY <1>1, <1>2 DEF Attended, ProjectActive
  <2> QED
    BY <1>0, <1>1, <1>2, <2>1, CaredForOthers DEF Running, Judging
<1>3. ASSUME NEW r \in Readers, ReaderStore(r)
      PROVE  FALSE
  BY <1>3 DEF ReaderStore, Store, NewEntry
<1> QED
  BY <1>0, <1>2, <1>3, OtherEntryMoves, HydrateStored

\* A hydrated index of the active project is never stranded: as long as nothing has
\* failed, once nothing is left to run it has been verified or replaced
\* (def_index_cache.rs, run_hydration; indexing/jobs.rs, coalesce_batch, which drops
\* verifications, and execute_verify_cache, which drops them again).
THEOREM HydrationsAlwaysVerified == Spec => [](faults = 0 => QuiescentVerified)
<1> DEFINE Inv == TypeInv /\ KeptInv /\ Emptied /\ (faults = 0 => Attended)
<1>1. Init => Inv
  <2>1. Init => TypeInv /\ KeptInv
    BY TypeInit, KeptInvInit
  <2>2. Init => Emptied /\ Attended
    BY IdleRest DEF Init, Fresh, Emptied, Attended
  <2> QED
    BY <2>1, <2>2
<1>2. Inv /\ [Next]_vars => Inv'
  <2> SUFFICES ASSUME Inv, [Next]_vars
               PROVE  Inv'
    OBVIOUS
  <2>0. TypeOK /\ Judged
    BY DEF TypeInv, KeptInv
  <2>1. TypeInv' /\ KeptInv' /\ Emptied'
    BY <2>0, TypeStep, KeptInvStep, EmptiedStep
  <2>2. ASSUME faults' = 0
        PROVE  Attended'
    <3>1. Attended
      BY <2>0, <2>2, FaultsGrow
    <3>2. CASE WorkerNext
      BY <2>0, <2>2, <3>1, <3>2, AttendedWorkerStep
    <3>3. CASE Restart
      BY <3>3 DEF Restart, Attended
    <3>4. CASE ~WorkerNext /\ ~Restart
      BY <3>1, <3>4, AttendedOtherStep
    <3> QED
      BY <3>2, <3>3, <3>4
  <2> QED
    BY <2>1, <2>2
<1>3. Inv => (faults = 0 => QuiescentVerified)
  <2> SUFFICES ASSUME Inv, faults = 0, Quiescent, ProjectActive, HasEntry(ActiveFp),
                      ~entry.verified
               PROVE  FALSE
    BY DEF QuiescentVerified, ProjectActive
  <2>1. queue = <<>> /\ worker.verify = {} /\ worker.pc = "idle" /\ main.pc = "idle"
    BY DEF Quiescent, Emptied
  <2>2. ~Announced /\ ~VerificationWaits(entry.fp)
    BY <2>1 DEF Announced, RebuildQueued, LiveRebuild, Live, VerificationWaits,
                LiveVerifications
  <2>3. ~Running(StoringPcs) /\ ~Judging
    BY <2>1 DEF Running, StoringPcs, Judging, VerdictPcs
  <2>4. \A i \in Inits : ~Hydrating(i)
    BY DEF Quiescent, Hydrating
  <2> QED
    BY <2>2, <2>3, <2>4 DEF Attended, CaredFor, HasEntry
<1> HIDE DEF Inv
<1> QED
  BY <1>1, <1>2, <1>3, PTL DEF Spec

-----------------------------------------------------------------------------
(* The verified index is the one on disk *)

\* The worker carries an index from reading the files to storing it.
CarryPcs == {"write", "rescan", "store", "applied", "publish", "persist", "persistWrite",
             "persistStore"}

\* An edit the worker has not read is still to be seen by the watcher.
Seen == worker.pc \in CarryPcs => worker.version = disk \/ fsEvent

VersionsDated ==
    /\ entry # None => entry.version <= disk
    /\ cache # None => cache.version <= disk
    /\ worker.version <= disk
    /\ \A i \in Inits : init[i].version <= disk
    /\ \A r \in Readers : reader[r].version <= disk

\* The list of an index is no newer than its text.
Honest(x) == x.fps # None => x.fps.version <= x.version

\* What a hydration is about to store is honest, and no load stores on its own.
Undisturbed ==
    /\ \A i \in Inits : init[i].pc = "store" => Honest(init[i])
    /\ \A r \in Readers : reader[r].pc # "store"

\* The worker has not found the entry in the slot to be what is on disk.
Doubting ==
    /\ Judging /\ worker.pc # "confirm"
    /\ worker.pc = "verifyRecheck" => worker.verdict = "Mismatch"

\* An index of the active project that is not what is on disk is still to be replaced.
Replacing ==
    \/ fsEvent \/ Announced \/ Running(StoringPcs \cup BatchPcs)
    \/ worker.files \/ worker.pc = "files"
    \/ Honest(entry) /\ (CaredFor \/ Doubting)

FreshCover ==
    ProjectActive /\ entry # None /\ entry.fp = ActiveFp /\ entry.version # disk
        => Replacing

\* What the worker's index is of.
Versioned ==
    /\ \/ worker'.version \in {worker.version, 0, disk}
       \/ entry # None /\ worker'.version = entry.version
    /\ worker'.pc \in CarryPcs =>
         worker'.version = disk \/ (worker.pc \in CarryPcs /\ worker'.version = worker.version)

LEMMA VersionedStep ==
    ASSUME TypeOK, WorkerNext
    PROVE  Versioned
<1>0. worker \in Workers
  BY DEF TypeOK
<1>1. CASE WorkerReceive
  <2>1. \/ worker' = worker
        \/ worker'.pc \in {"rebuild", "batch"} /\ worker'.version = IdleWorker.version
    BY <1>1, IdleRest DEF WorkerReceive, Workers
  <2> QED
    BY <1>1, <2>1, IdleRest DEF WorkerReceive, Versioned, CarryPcs
<1>2. CASE WorkerDrainDebouncer
  BY <1>0, <1>2, IdleRest
     DEF WorkerDrainDebouncer, Workers, Versioned, CarryPcs
<1>3. CASE WorkerMembershipChanged
  BY <1>0, <1>3, IdleRest
     DEF WorkerMembershipChanged, Workers, Versioned, CarryPcs
<1>4. CASE WorkerNextFiles
  BY <1>0, <1>4, IdleRest
     DEF WorkerNextFiles, Workers, Versioned, CarryPcs
<1>5. ASSUME NEW job \in worker.verify, VerifyStart(job)
      PROVE  Versioned
  BY <1>0, <1>5
     DEF VerifyStart, Workers, Versioned, CarryPcs
<1>6. CASE VerifyLoadSettings
  BY <1>0, <1>6, WorkerGoesRest
     DEF VerifyLoadSettings, WorkerPcs, Workers, Versioned, CarryPcs
<1>7. CASE VerifyScan
  BY <1>0, <1>7
     DEF VerifyScan, Workers, Versioned, CarryPcs
<1>8. CASE VerifyRecheck
  BY <1>0, <1>8, WorkerGoesRest, WorkerDoneRest
     DEF VerifyRecheck, WorkerPcs, Versioned, CarryPcs
<1>9. CASE VerifyConfirm
  BY <1>0, <1>9, WorkerDoneRest
     DEF VerifyConfirm, Versioned, CarryPcs
<1>10. CASE VerifyScanFailed
  BY <1>0, <1>10, WorkerGoesRest, WorkerDoneRest
     DEF VerifyScanFailed, WorkerPcs, Versioned, CarryPcs
<1>11. CASE VerifyInvalidate
  BY <1>0, <1>11, WorkerGoesRest, WorkerDoneRest
     DEF VerifyInvalidate, WorkerPcs, Versioned, CarryPcs
<1>12. CASE VerifyHandoffCheck
  BY <1>0, <1>12, WorkerGoesRest
     DEF VerifyHandoffCheck, WorkerPcs, Versioned, CarryPcs
<1>13. CASE VerifyHandoffPending
  BY <1>0, <1>13, WorkerGoesRest
     DEF VerifyHandoffPending, WorkerPcs, Versioned, CarryPcs
<1>14. CASE VerifyHandoffEnqueue
  BY <1>0, <1>14, WorkerDoneRest
     DEF VerifyHandoffEnqueue, Versioned, CarryPcs
<1>15. CASE RebuildBegin
  BY <1>0, <1>15
     DEF RebuildBegin, Workers, Versioned, CarryPcs
<1>16. CASE RebuildPending
  BY <1>0, <1>16, WorkerGoesRest
     DEF RebuildPending, WorkerPcs, Versioned, CarryPcs
<1>17. CASE RebuildLoadSettings
  BY <1>0, <1>17, WorkerGoesRest
     DEF RebuildLoadSettings, WorkerPcs, Workers, Versioned, CarryPcs
<1>18. CASE RebuildFailed
  BY <1>0, <1>18, WorkerGoesRest, WorkerDoneRest
     DEF RebuildFailed, WorkerPcs, Versioned, CarryPcs
<1>19. CASE RebuildPublishFailed
  BY <1>0, <1>19, WorkerDoneRest
     DEF RebuildPublishFailed, Versioned, CarryPcs
<1>20. CASE RebuildDiscovering
  BY <1>0, <1>20, WorkerGoesRest
     DEF RebuildDiscovering, WorkerPcs, Versioned, CarryPcs
<1>21. CASE RebuildDiscover
  BY <1>0, <1>21, WorkerGoesRest, WorkerDoneRest
     DEF RebuildDiscover, WorkerPcs, Versioned, CarryPcs
<1>22. CASE RebuildIndexing
  BY <1>0, <1>22, WorkerGoesRest
     DEF RebuildIndexing, WorkerPcs, Versioned, CarryPcs
<1>23. CASE RebuildCheck
  BY <1>0, <1>23, WorkerGoesRest, WorkerDoneRest
     DEF RebuildCheck, WorkerPcs, Versioned, CarryPcs
<1>24. CASE RebuildFingerprint
  BY <1>0, <1>24, WorkerGoesRest
     DEF RebuildFingerprint, WorkerPcs, Workers, Versioned, CarryPcs
<1>25. CASE RebuildBuild
  BY <1>0, <1>25
     DEF RebuildBuild, Workers, Versioned, CarryPcs
<1>26. CASE RebuildWrite
  BY <1>0, <1>26, WorkerGoesRest
     DEF RebuildWrite, WorkerPcs, Versioned, CarryPcs
<1>27. CASE RebuildRescan
  BY <1>0, <1>27, WorkerGoesRest
     DEF RebuildRescan, WorkerPcs, Workers, Versioned, CarryPcs
<1>28. CASE RebuildStore
  BY <1>0, <1>28, WorkerGoesRest
     DEF RebuildStore, WorkerPcs, Versioned, CarryPcs
<1>29. CASE RebuildFinish
  BY <1>0, <1>29, WorkerGoesRest, WorkerDoneRest
     DEF RebuildFinish, WorkerPcs, Versioned, CarryPcs
<1>30. CASE RebuildReadBack
  BY <1>0, <1>30, WorkerGoesRest
     DEF RebuildReadBack, WorkerPcs, Versioned, CarryPcs
<1>31. CASE RebuildComplete
  BY <1>0, <1>31, WorkerDoneRest
     DEF RebuildComplete, Versioned, CarryPcs
<1>32. CASE FilesBegin
  BY <1>0, <1>32, WorkerDoneRest
     DEF FilesBegin, Workers, Versioned, CarryPcs
<1>33. CASE FilesBase
  BY <1>0, <1>33, IdleRest
     DEF FilesBase, Workers, HasVerifiedEntry, HasEntry, Versioned, CarryPcs
<1>34. CASE FilesRunning
  BY <1>0, <1>34, WorkerGoesRest
     DEF FilesRunning, WorkerPcs, Versioned, CarryPcs
<1>35. CASE FilesApply
  BY <1>0, <1>35, WorkerDoneRest, IdleRest
     DEF FilesApply, Workers, Versioned, CarryPcs
<1>36. CASE FilesApplied
  BY <1>0, <1>36, WorkerGoesRest, WorkerDoneRest
     DEF FilesApplied, WorkerPcs, Versioned, CarryPcs
<1>37. CASE FilesPublish
  BY <1>0, <1>37, WorkerGoesRest
     DEF FilesPublish, WorkerPcs, Versioned, CarryPcs
<1>38. CASE FilesPersist
  BY <1>0, <1>38
     DEF FilesPersist, Workers, Versioned, CarryPcs
<1>39. CASE FilesPersistWrite
  BY <1>0, <1>39, WorkerGoesRest, WorkerDoneRest
     DEF FilesPersistWrite, WorkerPcs, Versioned, CarryPcs
<1>40. CASE FilesPersistStore
  BY <1>0, <1>40, WorkerDoneRest
     DEF FilesPersistStore, Versioned, CarryPcs
<1> QED
  BY <1>1, <1>2, <1>3, <1>4, <1>5, <1>6, <1>7, <1>8, <1>9, <1>10, <1>11, <1>12, <1>13,
     <1>14, <1>15, <1>16, <1>17, <1>18, <1>19, <1>20, <1>21, <1>22, <1>23, <1>24,
     <1>25, <1>26, <1>27, <1>28, <1>29, <1>30, <1>31, <1>32, <1>33, <1>34, <1>35,
     <1>36, <1>37, <1>38, <1>39, <1>40
     DEF WorkerNext

\* What the worker writes to the slot and to the disk cache is its own index.
LEMMA WorkerStoresIts ==
    ASSUME TypeOK, WorkerNext
    PROVE  /\ \/ entry' = None
              \/ entry # None /\ entry'.version = entry.version
              \/ entry'.version = worker.version
           /\ cache' = cache \/ cache'.version = worker.version
<1>1. \/ entry' = None
      \/ entry # None /\ entry'.version = entry.version
      \/ entry'.version = worker.version
  BY WorkerEntryChange
<1>2. CASE RebuildWrite
  BY <1>1, <1>2 DEF RebuildWrite
<1>3. CASE FilesPersistWrite
  BY <1>1, <1>3 DEF FilesPersistWrite
<1>4. CASE UNCHANGED cache
  BY <1>1, <1>4
<1> QED
  BY <1>2, <1>3, <1>4
     DEF WorkerNext, WorkerReceive, WorkerDrainDebouncer, WorkerMembershipChanged,
         WorkerNextFiles, VerifyStart, VerifyLoadSettings, VerifyScan,
         VerifyRecheck, VerifyConfirm, VerifyScanFailed, VerifyInvalidate,
         VerifyHandoffCheck, VerifyHandoffPending,
         VerifyHandoffEnqueue, RebuildBegin, RebuildPending, RebuildLoadSettings,
         RebuildFailed, RebuildPublishFailed, RebuildDiscovering, RebuildDiscover,
         RebuildIndexing, RebuildCheck, RebuildFingerprint, RebuildBuild,
         RebuildRescan, RebuildStore, RebuildFinish, RebuildReadBack,
         RebuildComplete, FilesBegin, FilesBase, FilesRunning, FilesApply,
         FilesApplied, FilesPublish, FilesPersist, FilesPersistStore, diskVars

\* A watcher event is taken only to replace the index.
LEMMA EventTaken ==
    ASSUME WorkerNext
    PROVE  \/ fsEvent' = fsEvent
           \/ worker.pc = "idle" /\ (worker'.files \/ worker'.pc = "rebuild")
<1>1. CASE WorkerDrainDebouncer
  BY <1>1, IdleRest DEF WorkerDrainDebouncer, Workers
<1>2. CASE WorkerMembershipChanged
  BY <1>2, IdleRest DEF WorkerMembershipChanged, Workers
<1>3. CASE UNCHANGED fsEvent
  BY <1>3
<1> QED
  BY <1>1, <1>2, <1>3
     DEF WorkerNext, WorkerReceive,
         WorkerNextFiles, VerifyStart, VerifyLoadSettings, VerifyScan,
         VerifyRecheck, VerifyConfirm, VerifyScanFailed, VerifyInvalidate,
         VerifyHandoffCheck, VerifyHandoffPending,
         VerifyHandoffEnqueue, RebuildBegin, RebuildPending, RebuildLoadSettings,
         RebuildFailed, RebuildPublishFailed, RebuildDiscovering, RebuildDiscover,
         RebuildIndexing, RebuildCheck, RebuildFingerprint, RebuildBuild, RebuildWrite,
         RebuildRescan, RebuildStore, RebuildFinish, RebuildReadBack,
         RebuildComplete, FilesBegin, FilesBase, FilesRunning, FilesApply,
         FilesApplied, FilesPublish, FilesPersist, FilesPersistWrite,
         FilesPersistStore, diskVars

LEMMA NotifyKeepsVersions ==
    ASSUME reader \in [Readers -> ReaderStates], NotifyJobCompleted, NEW r \in Readers
    PROVE  reader'[r].version = reader[r].version
  BY DEF NotifyJobCompleted, ReaderStates

LEMMA WorkerVersionsStep ==
    ASSUME TypeOK, VersionsDated, Seen, WorkerNext
    PROVE  VersionsDated' /\ Seen'
<1>1. disk' = disk /\ init' = init /\ disk \in Nat
  BY WorkerLeaves DEF TypeOK
<1>2. worker'.version <= disk
  BY <1>1, VersionedStep DEF Versioned, VersionsDated
<1>3. /\ entry' # None => entry'.version <= disk
      /\ cache' # None => cache'.version <= disk
  BY WorkerStoresIts DEF VersionsDated
<1>4. \A r \in Readers : reader'[r].version <= disk
  <2>1. \A r \in Readers : reader'[r].version = reader[r].version
    BY WorkerLeaves, NotifyKeepsVersions DEF TypeOK
  <2> QED
    BY <2>1 DEF VersionsDated
<1>5. VersionsDated'
  BY <1>1, <1>2, <1>3, <1>4 DEF VersionsDated
<1>6. worker'.pc \in CarryPcs => worker'.version = disk' \/ fsEvent'
  <2>1. worker.pc \in CarryPcs => fsEvent' = fsEvent
    BY EventTaken DEF CarryPcs
  <2> QED
    BY <1>1, <2>1, VersionedStep DEF Versioned, Seen
<1> QED
  BY <1>5, <1>6 DEF Seen

LEMMA InitVersionsStep ==
    ASSUME TypeOK, VersionsDated, NEW i \in Inits, InitNext(i)
    PROVE  VersionsDated'
<1>1. UNCHANGED <<disk, cache, worker, reader>>
  BY DEF InitNext, InitLookup, InitDecide, InitClaim, InitPublish, HydrateRead,
         HydrateStore, HydrateComplete, HydrateEnqueue, HydrateRemove, HydrateFinish,
         HydrateMissFinish, HydrateMissCheck, HydrateMissPending, HydrateMissEnqueue,
         diskVars
<1>2. init[i] \in InitStates /\ init \in [Inits -> InitStates] /\ disk \in Nat
  BY DEF TypeOK
<1>3. /\ \A j \in Inits \ {i} : init'[j] = init[j]
      /\ \/ init'[i].version \in {init[i].version, 0}
         \/ cache # None /\ init'[i].version = cache.version
  <2>1. CASE \E pc \in InitPcs : InitGoes(i, pc)
    BY <1>2, <2>1 DEF InitGoes, InitStates
  <2>2. CASE InitDone(i)
    <3>1. DoneInit.version = 0
      BY DEF DoneInit, ReadyInit
    <3> QED
      BY <1>2, <2>2, <3>1 DEF InitDone
  <2>3. CASE HydrateRead(i)
    BY <1>2, <2>1, <2>3 DEF HydrateRead, InitStates, InitPcs
  <2>4. CASE InitDecide(i)
    BY <1>2, <2>2, <2>4 DEF InitDecide, InitStates
  <2> QED
    BY <2>1, <2>2, <2>3, <2>4
       DEF InitNext, InitLookup, InitClaim, InitPublish, HydrateStore, HydrateComplete,
           HydrateEnqueue, HydrateRemove, HydrateFinish, HydrateMissFinish,
           HydrateMissCheck, HydrateMissPending, HydrateMissEnqueue, InitPcs
<1>4. \A j \in Inits : init'[j].version <= disk
  BY <1>2, <1>3 DEF VersionsDated
<1>5. \/ entry' = entry \/ entry' = None \/ entry'.version = init[i].version
  <2>1. CASE HydrateStore(i)
    BY <2>1 DEF HydrateStore, StoreHydrated, NewEntry
  <2>2. CASE HydrateRemove(i)
    BY <2>2 DEF HydrateRemove, RemoveUnverifiedEntry
  <2> QED
    BY <2>1, <2>2
       DEF InitNext, InitLookup, InitDecide, InitClaim, InitPublish, HydrateRead,
           HydrateComplete, HydrateEnqueue, HydrateFinish, HydrateMissFinish,
           HydrateMissCheck, HydrateMissPending, HydrateMissEnqueue, stateVars
<1> QED
  BY <1>1, <1>4, <1>5 DEF VersionsDated

LEMMA ReaderVersionsStep ==
    ASSUME TypeOK, VersionsDated, NEW r \in Readers, ReaderNext(r)
    PROVE  VersionsDated'
<1>1. UNCHANGED <<disk, worker, init>>
  BY DEF ReaderNext, ReaderHot, ReaderInFlight, ReaderRegister, ReaderCheck,
         ReaderWake, ReaderTimeout, ReaderLast, ReaderCache, ReaderFingerprint,
         ReaderBuild, ReaderWrite, ReaderRescan, ReaderStore, diskVars
<1>2. reader[r] \in ReaderStates /\ reader \in [Readers -> ReaderStates] /\ disk \in Nat
  BY DEF TypeOK
<1>3. /\ \A q \in Readers \ {r} : reader'[q] = reader[q]
      /\ \/ reader'[r].version \in {reader[r].version, 0, disk}
         \/ cache # None /\ reader'[r].version = cache.version
  <2>1. CASE \E pc \in ReaderPcs : ReaderGoes(r, pc)
    BY <1>2, <2>1 DEF ReaderGoes, ReaderStates
  <2>2. CASE ReaderDone(r)
    <3>1. DoneReader.version = 0
      BY DEF DoneReader, ReadyReader
    <3> QED
      BY <1>2, <2>2, <3>1 DEF ReaderDone
  <2>3. CASE ReaderRegister(r)
    BY <1>2, <2>3 DEF ReaderRegister, ReaderStates
  <2>4. CASE ReaderCache(r)
    BY <1>2, <2>1, <2>2, <2>4 DEF ReaderCache, ReaderStates, ReaderPcs
  <2>5. CASE ReaderFingerprint(r)
    BY <1>2, <2>5 DEF ReaderFingerprint, ReaderStates
  <2>6. CASE ReaderBuild(r)
    BY <1>2, <2>6 DEF ReaderBuild, ReaderStates
  <2>7. CASE ReaderRescan(r)
    BY <1>2, <2>2, <2>7 DEF ReaderRescan, ReaderStates
  <2> QED
    BY <2>1, <2>2, <2>3, <2>4, <2>5, <2>6, <2>7
       DEF ReaderNext, ReaderHot, ReaderInFlight, ReaderCheck, ReaderWake,
           ReaderTimeout, ReaderLast, ReaderWrite, ReaderStore, ReaderPcs
<1>4. \A q \in Readers : reader'[q].version <= disk
  BY <1>2, <1>3 DEF VersionsDated
<1>5. /\ entry' = entry \/ entry'.version = reader[r].version
      /\ cache' = cache \/ cache'.version = reader[r].version
  <2>1. CASE ReaderStore(r)
    BY <2>1 DEF ReaderStore, Store, NewEntry, diskVars
  <2>2. CASE ReaderWrite(r)
    BY <2>2 DEF ReaderWrite, stateVars
  <2> QED
    BY <2>1, <2>2
       DEF ReaderNext, ReaderHot, ReaderInFlight, ReaderRegister, ReaderCheck,
           ReaderWake, ReaderTimeout, ReaderLast, ReaderCache, ReaderFingerprint,
           ReaderBuild, ReaderRescan, stateVars, diskVars
<1>6. /\ entry' # None => entry'.version <= disk
      /\ cache' # None => cache'.version <= disk
  BY <1>5 DEF VersionsDated
<1> QED
  BY <1>1, <1>4, <1>6 DEF VersionsDated

LEMMA OtherVersionsStep ==
    ASSUME TypeOK, VersionsDated, MainNext \/ RetryNext \/ Environment \/ UNCHANGED vars
    PROVE  VersionsDated'
<1>1. CASE Restart
  <2>1. IdleWorker.version = 0 /\ ReadyInit.version = 0 /\ ReadyReader.version = 0
    BY DEF IdleWorker, ReadyInit, ReadyReader
  <2> QED
    BY <1>1, <2>1 DEF Restart, VersionsDated, TypeOK
<1>2. ASSUME NEW i \in Inits, NEW p, InitRequest(i, p)
      PROVE  VersionsDated'
  <2>1. \A j \in Inits : init'[j].version = init[j].version
    BY <1>2 DEF InitRequest, TypeOK, InitStates
  <2> QED
    BY <1>2, <2>1 DEF InitRequest, VersionsDated, stateVars, diskVars
<1>3. ASSUME NEW r \in Readers, NEW p, NEW pc, ReaderRequest(r, p, pc)
      PROVE  VersionsDated'
  <2>1. \A q \in Readers : reader'[q].version = reader[q].version
    BY <1>3 DEF ReaderRequest, TypeOK, ReaderStates
  <2> QED
    BY <1>3, <2>1
       DEF ReaderRequest, VersionsDated, stateVars, diskVars
<1>4. CASE UNCHANGED <<entry, cache, worker, init, reader>> /\ disk' \in {disk, disk + 1}
  <2>1. /\ entry # None => entry.version \in Nat
        /\ cache # None => cache.version \in Nat
        /\ worker.version \in Nat /\ disk \in Nat
        /\ \A i \in Inits : init[i].version \in Nat
        /\ \A r \in Readers : reader[r].version \in Nat
    BY DEF TypeOK, StateTypeOK, Entries, CacheFiles, Workers, InitStates, ReaderStates
  <2> QED
    BY <1>4, <2>1 DEF VersionsDated
<1>5. CASE MainNext \/ RetryNext \/ UNCHANGED vars
  BY <1>4, <1>5
     DEF MainNext, RetryNext, RestartForSettings, EnqueueReindex, QueryEnqueue,
         VerifyRetry, stateVars, diskVars, vars
<1>6. CASE \/ \E s \in Settings : SaveSettings(s)
           \/ \E p \in Projects : QueryMiss(p) \/ RenameFolder(p)
           \/ ExternalEdit \/ SaveFile
  BY <1>4, <1>6
     DEF SaveSettings, QueryMiss, RenameFolder, ExternalEdit, SaveFile, stateVars, diskVars
<1> QED
  BY <1>1, <1>2, <1>3, <1>5, <1>6 DEF Environment

\* Nobody but the worker takes an event, and who edits a file leaves one.
LEMMA OtherEvents ==
    ASSUME [Next]_vars, ~WorkerNext, ~Restart
    PROVE  (fsEvent => fsEvent') /\ (disk' = disk \/ fsEvent')
<1>1. ASSUME NEW i \in Inits, InitNext(i)
      PROVE  UNCHANGED <<fsEvent, disk>>
  BY <1>1
     DEF InitNext, InitLookup, InitDecide, InitClaim, InitPublish, HydrateRead,
         HydrateStore, HydrateComplete, HydrateEnqueue, HydrateRemove, HydrateFinish,
         HydrateMissFinish, HydrateMissCheck, HydrateMissPending, HydrateMissEnqueue,
         diskVars
<1>2. ASSUME NEW r \in Readers, ReaderNext(r)
      PROVE  UNCHANGED <<fsEvent, disk>>
  BY <1>2
     DEF ReaderNext, ReaderHot, ReaderInFlight, ReaderRegister, ReaderCheck,
         ReaderWake, ReaderTimeout, ReaderLast, ReaderCache, ReaderFingerprint,
         ReaderBuild, ReaderWrite, ReaderRescan, ReaderStore, diskVars
<1>3. CASE MainNext \/ RetryNext \/ UNCHANGED vars \/ Environment
  <2>1. UNCHANGED <<fsEvent, disk>> \/ fsEvent' = TRUE
    BY <1>3
       DEF MainNext, RetryNext, Environment, RestartForSettings, EnqueueReindex,
           QueryEnqueue, VerifyRetry, SaveSettings, QueryMiss, RenameFolder,
           ExternalEdit, SaveFile, InitRequest, ReaderRequest, vars, diskVars
  <2> QED
    BY <2>1
<1> QED
  BY <1>1, <1>2, <1>3 DEF Next

LEMMA FilesBeginAdvances ==
    ASSUME TypeOK, WorkerNext, faults' = 0, worker.pc = "files"
    PROVE  Running(BatchPcs)'
<1>0. worker \in Workers /\ generation' = generation /\ ~Fault
  BY WorkerLeaves, NoFaultYet DEF TypeOK
<1>1. FilesBegin
  BY DEF WorkerNext, WorkerReceive, WorkerDrainDebouncer, WorkerMembershipChanged,
         WorkerNextFiles, VerifyStart, VerifyLoadSettings, VerifyScan,
         VerifyRecheck, VerifyConfirm, VerifyScanFailed, VerifyInvalidate,
         VerifyHandoffCheck, VerifyHandoffPending,
         VerifyHandoffEnqueue, RebuildBegin, RebuildPending, RebuildLoadSettings,
         RebuildFailed, RebuildPublishFailed, RebuildDiscovering, RebuildDiscover,
         RebuildIndexing, RebuildCheck, RebuildFingerprint, RebuildBuild, RebuildWrite,
         RebuildRescan, RebuildStore, RebuildFinish, RebuildReadBack,
         RebuildComplete, FilesBase, FilesRunning, FilesApply,
         FilesApplied, FilesPublish, FilesPersist, FilesPersistWrite, FilesPersistStore
<1>2. worker'.pc = "base" /\ worker'.gen = generation
  BY <1>0, <1>1 DEF FilesBegin, Workers
<1> QED
  BY <1>0, <1>2 DEF Running, BatchPcs, FilesPcs

\* A doubt about a stale entry becomes the verdict that takes the entry away: its list
\* is no newer than its text, so it cannot match what is on disk.
LEMMA DoubtingStep ==
    ASSUME TypeInv, Judged, VersionsDated, WorkerNext, faults' = 0,
           entry # None, Doubting, Honest(entry), entry.version # disk, ~Announced
    PROVE  (entry' = entry /\ Doubting') \/ entry' = None
<1>0. /\ worker \in Workers /\ generation' = generation /\ ~Fault /\ faults = 0
      /\ worker.pc \in VerdictPcs /\ TypeOK
  BY WorkerLeaves, NoFaultYet, FaultsGrow DEF TypeInv, TypeOK, Doubting, Judging
<1>1. HasEntry(worker.fp) /\ worker.gen = generation /\ entry.fps = worker.fps
  BY DEF Doubting, Judging, HasEntry
<1>2. CASE VerifyLoadSettings
  <2>1. /\ worker' = [worker EXCEPT !.pc = "verifyScan", !.settings = settings]
        /\ entry' = entry
    BY <1>0, <1>2 DEF VerifyLoadSettings, ScanFault, stateVars
  <2>2. /\ worker'.pc = "verifyScan" /\ worker'.gen = worker.gen
        /\ worker'.fp = worker.fp /\ worker'.fps = worker.fps
    BY <1>0, <2>1 DEF Workers
  <2> QED
    BY <1>0, <1>1, <2>1, <2>2 DEF Doubting, Judging, VerdictPcs
<1>3. CASE VerifyScan
  <2> DEFINE now == Scan(SettingsFingerprint(worker.settings, worker.project))
  <2>1. worker.settings \in Settings /\ worker.project \in ProjectIds
    <3>1. worker.settings = settings
      BY <1>0, <1>1, <1>3 DEF VerifyScan, Judged, JudgePcs, LoadedPcs, Announced
    <3> QED
      BY <1>0, <3>1, WorkerFields DEF TypeOK
  <2>2. now # worker.fps
    <3>1. now \in [fp: SettingsFingerprints, version: Nat] /\ now.version = disk
      BY <1>0, <2>1, FingerprintType DEF Scan, TypeOK
    <3>2. now # None
      BY <3>1, NoneAssumption
    <3>3. entry \in Entries /\ disk \in Nat
      BY <1>0 DEF TypeOK, StateTypeOK
    <3>4. entry.version \in Nat /\ entry.version <= disk
      BY <3>3 DEF Entries, VersionsDated
    <3> HIDE DEF now
    <3> QED
      BY <1>1, <3>1, <3>2, <3>3, <3>4 DEF Honest
  <2>3. worker' = [worker EXCEPT !.pc = "verifyRecheck", !.verdict = "Mismatch"]
        /\ entry' = entry
    BY <1>0, <1>3, <2>2 DEF VerifyScan, ScanFault, stateVars
  <2>4. /\ worker'.pc = "verifyRecheck" /\ worker'.gen = worker.gen
        /\ worker'.fp = worker.fp /\ worker'.fps = worker.fps
        /\ worker'.verdict = "Mismatch"
    BY <1>0, <2>3 DEF Workers
  <2> QED
    BY <1>0, <1>1, <2>3, <2>4 DEF Doubting, Judging, VerdictPcs
<1>4. CASE VerifyRecheck
  <2>1. worker.verdict = "Mismatch"
    BY <1>4 DEF VerifyRecheck, Doubting
  <2>2. WorkerGoes("invalidate") /\ entry' = entry
    BY <1>1, <1>4, <2>1 DEF VerifyRecheck, stateVars
  <2>3. worker'.pc = "invalidate" /\ worker'.gen = worker.gen
        /\ worker'.fp = worker.fp /\ worker'.fps = worker.fps
    BY <1>0, <2>2, WorkerGoesFields DEF WorkerPcs
  <2> QED
    BY <1>0, <1>1, <2>2, <2>3 DEF Doubting, Judging, VerdictPcs
<1>5. ~VerifyConfirm
  BY DEF VerifyConfirm, Doubting
<1>6. CASE VerifyInvalidate
  BY <1>1, <1>6 DEF VerifyInvalidate, MayInvalidate, InvalidateEntry
<1> QED
  BY <1>0, <1>2, <1>3, <1>4, <1>5, <1>6, AtVerdict

\* Nobody the entry is left to while the worker does something else loses it.
LEMMA CaredForWorkerStep ==
    ASSUME TypeOK, Emptied, WorkerNext, entry # None, entry' # None, CaredFor,
           entry'.fp = entry.fp
    PROVE  CaredFor' \/ Running(StoringPcs)' \/ (Judging' /\ worker'.pc = "verifyLoad")
<1>1. generation' = generation /\ init' = init
  BY WorkerLeaves
<1>2. CASE VerificationWaits(entry.fp)
  <2>1. VerificationWaits(entry.fp)' => CaredFor'
    BY DEF CaredFor, VerificationWaits
  <2>2. worker'.pc = "rebuild" => Running(StoringPcs)'
    BY DEF Running, StoringPcs
  <2> QED
    BY <1>2, <2>1, <2>2, WaitsWorkerStep, StartJudges
<1>3. ASSUME NEW i \in Inits, Hydrating(i)
      PROVE  CaredFor'
  BY <1>1, <1>3 DEF Hydrating, InitFp, CaredFor
<1> QED
  BY <1>2, <1>3 DEF CaredFor

LEMMA FreshWorkerStep ==
    ASSUME TypeInv, Judged, Emptied, VersionsDated, Seen, FreshCover, WorkerNext,
           faults' = 0
    PROVE  FreshCover'
<1>0. /\ TypeOK /\ settings' = settings /\ generation' = generation /\ disk' = disk
      /\ init' = init
  BY WorkerLeaves DEF TypeInv
<1> SUFFICES ASSUME ProjectActive, entry' # None, entry'.fp = ActiveFp,
                    entry'.version # disk
             PROVE  Replacing'
  BY <1>0 DEF FreshCover, ProjectActive, ActiveFp
<1>1. fsEvent => fsEvent' \/ worker'.files \/ worker'.pc = "rebuild"
  BY EventTaken
<1>2. worker'.pc = "rebuild" => Running(StoringPcs)'
  BY DEF Running, StoringPcs
<1>3. fsEvent => Replacing'
  BY <1>1, <1>2 DEF Replacing, Running
<1>4. CASE RebuildStore \/ FilesPersistStore
  <2>1. entry'.version = worker.version /\ worker.pc \in CarryPcs
    BY <1>4 DEF RebuildStore, FilesPersistStore, Store, NewEntry, CarryPcs
  <2> QED
    BY <1>3, <2>1 DEF Seen
<1>5. CASE ~RebuildStore /\ ~FilesPersistStore
  <2>1. /\ entry # None /\ entry'.fp = entry.fp /\ entry'.fps = entry.fps
        /\ entry'.version = entry.version
        /\ entry' = entry \/ VerifyConfirm
    BY <1>0, <1>5, WorkerEntryChange
  <2>2. Replacing
    BY <2>1 DEF FreshCover
  <2>3. CASE Announced
    BY <1>0, <1>2, <2>3, WorkerAnnounced DEF Replacing, Running
  <2>4. CASE Running(StoringPcs)
    BY <1>0, <1>5, <2>4, StoringAdvances DEF Replacing, Running
  <2>5. CASE Running(BatchPcs)
    BY <1>0, <1>2, <1>5, <2>5, BatchAdvances DEF Replacing, Running
  <2>6. CASE worker.files
    BY <1>0, <2>6, FilesKept DEF Replacing
  <2>7. CASE worker.pc = "files"
    BY <1>0, <2>7, FilesBeginAdvances DEF Replacing, Running
  <2>8. Honest(entry) => Honest(entry')
    BY <2>1 DEF Honest
  <2>9. CASE Honest(entry) /\ CaredFor
    <3>1. CaredFor' \/ Running(StoringPcs)' \/ (Judging' /\ worker'.pc = "verifyLoad")
      BY <1>0, <2>1, <2>9, CaredForWorkerStep
    <3>2. Judging' /\ worker'.pc = "verifyLoad" => Doubting'
      BY DEF Doubting
    <3> QED
      BY <2>8, <2>9, <3>1, <3>2 DEF Replacing, Running, Honest
  <2>10. CASE Honest(entry) /\ Doubting /\ ~Announced
    <3>1. entry' = entry /\ Doubting'
      BY <2>1, <2>10, DoubtingStep
    <3> QED
      BY <2>10, <3>1 DEF Replacing, Honest
  <2> QED
    BY <1>3, <2>2, <2>3, <2>4, <2>5, <2>6, <2>7, <2>9, <2>10 DEF Replacing, Running
<1> QED
  BY <1>4, <1>5

LEMMA FreshOtherStep ==
    ASSUME TypeInv, FreshCover, Undisturbed, [Next]_vars, ~WorkerNext, ~Restart
    PROVE  FreshCover'
<1>0. TypeOK /\ worker' = worker
  BY OtherWorker DEF TypeInv
<1>1. (fsEvent => fsEvent') /\ (disk' = disk \/ fsEvent')
  BY OtherEvents
<1> SUFFICES ASSUME ProjectActive', entry' # None, (entry.fp = ActiveFp)',
                    (entry.version # disk)', ~Announced', ~fsEvent'
             PROVE  Replacing'
  BY DEF FreshCover, Replacing
<1>2. ~Announced /\ generation' = generation /\ settings' = settings
  BY OtherAnnounced DEF ProjectActive
<1>3. CASE entry' = entry
  <2>1. Replacing
    BY <1>1, <1>2, <1>3 DEF FreshCover, ProjectActive, ActiveFp
  <2>2. CASE CaredFor /\ Honest(entry)
    BY <1>2, <1>3, <2>2, CaredForOthers DEF Replacing, Honest
  <2>3. CASE ~(CaredFor /\ Honest(entry))
    BY <1>0, <1>1, <1>2, <1>3, <2>1, <2>3
       DEF Replacing, Running, Honest, Doubting, Judging
  <2> QED
    BY <2>2, <2>3
<1>4. ASSUME NEW i \in Inits, HydrateStore(i),
             MayHydrate(init[i].gen, init[i].project, InitFp(i))
      PROVE  Replacing'
  <2>1. Honest(entry')
    <3>1. Honest(init[i])
      BY <1>4 DEF HydrateStore, Undisturbed
    <3> QED
      BY <1>4, <3>1 DEF HydrateStore, StoreHydrated, NewEntry, Honest
  <2>2. CaredFor'
    BY <1>0, <1>4, HydrateStored
  <2> QED
    BY <2>1, <2>2 DEF Replacing, Honest
<1>5. ASSUME NEW r \in Readers, ReaderStore(r)
      PROVE  FALSE
  BY <1>5 DEF ReaderStore, Undisturbed
<1> QED
  BY <1>3, <1>4, <1>5, OtherEntryMoves

\* A verified index is known-fresh: as long as nothing has failed, no load stores on its
\* own and no hydration has read a list that is newer than its index, the verified index
\* of the active project is the one on disk once nothing is left to run, whatever was
\* edited, rebuilt, hydrated or restarted meanwhile (state.rs,
\* DefIndexStateEntry::verified).
THEOREM VerifiedAlwaysFresh ==
    Spec /\ []Undisturbed => [](faults = 0 => QuiescentFresh)
<1> DEFINE Inv == /\ TypeInv /\ KeptInv /\ Emptied /\ VersionsDated /\ Seen
                  /\ (faults = 0 => FreshCover)
<1>1. Init => Inv
  <2> SUFFICES ASSUME Init
               PROVE  Inv
    OBVIOUS
  <2>1. TypeInv /\ KeptInv
    BY TypeInit, KeptInvInit
  <2>2. Emptied /\ FreshCover
    BY IdleRest DEF Init, Fresh, Emptied, FreshCover
  <2>3. Seen
    BY StartTypes DEF Init, Fresh, Seen, CarryPcs
  <2>4. VersionsDated
    <3>1. /\ IdleWorker.version = 0 /\ ReadyInit.version = 0 /\ ReadyReader.version = 0
          /\ disk >= 0 /\ (cache # None => cache.version = 0)
      BY DEF IdleWorker, ReadyInit, ReadyReader, Init
    <3> QED
      BY <3>1 DEF Init, Fresh, VersionsDated
  <2> QED
    BY <2>1, <2>2, <2>3, <2>4
<1>2. Inv /\ Undisturbed /\ [Next]_vars => Inv'
  <2> SUFFICES ASSUME Inv, Undisturbed, [Next]_vars
               PROVE  Inv'
    OBVIOUS
  <2>0. TypeOK /\ Judged
    BY DEF TypeInv, KeptInv
  <2>1. TypeInv' /\ KeptInv' /\ Emptied'
    BY <2>0, TypeStep, KeptInvStep, EmptiedStep
  <2>2. VersionsDated'
    BY <2>0, WorkerVersionsStep, InitVersionsStep, ReaderVersionsStep, OtherVersionsStep
       DEF Next
  <2>3. Seen'
    <3>1. CASE Restart
      BY <3>1, StartTypes DEF Restart, Seen, CarryPcs
    <3>2. CASE ~WorkerNext /\ ~Restart
      BY <3>2, OtherWorker, OtherEvents DEF Seen
    <3> QED
      BY <2>0, <3>1, <3>2, WorkerVersionsStep
  <2>4. ASSUME faults' = 0
        PROVE  FreshCover'
    <3>1. FreshCover
      BY <2>0, <2>4, FaultsGrow
    <3>2. CASE WorkerNext
      BY <2>0, <2>4, <3>1, <3>2, FreshWorkerStep
    <3>3. CASE Restart
      BY <3>3 DEF Restart, FreshCover
    <3>4. CASE ~WorkerNext /\ ~Restart
      BY <3>1, <3>4, FreshOtherStep
    <3> QED
      BY <3>2, <3>3, <3>4
  <2> QED
    BY <2>1, <2>2, <2>3, <2>4
<1>3. Inv => (faults = 0 => QuiescentFresh)
  <2> SUFFICES ASSUME Inv, faults = 0, Quiescent, ProjectActive, HasVerifiedEntry(ActiveFp),
                      entry.version # disk
               PROVE  FALSE
    BY DEF QuiescentFresh, ProjectActive
  <2>1. /\ queue = <<>> /\ worker.verify = {} /\ ~worker.files /\ worker.pc = "idle"
        /\ main.pc = "idle" /\ ~fsEvent
    BY DEF Quiescent, Emptied
  <2>2. ~Announced /\ ~VerificationWaits(entry.fp)
    BY <2>1 DEF Announced, RebuildQueued, LiveRebuild, Live, VerificationWaits,
                LiveVerifications
  <2>3. ~Running(StoringPcs \cup BatchPcs) /\ ~Doubting
    BY <2>1 DEF Running, StoringPcs, BatchPcs, FilesPcs, Doubting, Judging, VerdictPcs
  <2>4. \A i \in Inits : ~Hydrating(i)
    BY DEF Quiescent, Hydrating
  <2> QED
    BY <2>1, <2>2, <2>3, <2>4
       DEF FreshCover, Replacing, CaredFor, HasVerifiedEntry, HasEntry
<1> HIDE DEF Inv
<1> QED
  BY <1>1, <1>2, <1>3, PTL DEF Spec

=============================================================================
