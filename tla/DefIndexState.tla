------------------------------ MODULE DefIndexState ------------------------------
(***************************************************************************)
(* The in-memory def-index slot of RimEdit's backend                       *)
(* (src-tauri/src/def_index/state.rs): one mutex around a single global    *)
(* cache entry, a generation counter and the published indexing status.    *)
(* Each operator below is one method of DefIndexState, that is, one        *)
(* critical section; the modules that EXTEND this one decide who calls     *)
(* them and in which order.                                                *)
(*                                                                         *)
(* Abstracted: an index is the number of the collection version it was     *)
(* parsed from, a settings fingerprint is the part of the settings and the *)
(* project it hashes, a file-fingerprint list is the fingerprint of the    *)
(* scanned locations with the version found there. The status keeps the    *)
(* fields that other code reads back to take a decision; its counters,     *)
(* stages and messages are display data and are left out.                  *)
(***************************************************************************)
EXTENDS Naturals

CONSTANTS
    Projects,  \* registered project locations
    Actives,   \* what active_project_id may be: projects, or None
    Revs,      \* everything else a settings fingerprint hashes (roots, game version)
    None       \* Rust's None: no project, no entry, no cache file, empty list

ASSUME ProjectsAssumption ==
    /\ None \notin Projects
    /\ Actives \subseteq Projects \cup {None}

VARIABLES
    entry,       \* DefIndexStateInner::entry
    generation,  \* DefIndexStateInner::generation
    status       \* DefIndexStateInner::status

stateVars == <<entry, generation, status>>

ProjectIds == Projects \cup {None}

Settings == [active: Actives, rev: Revs]

SettingsFingerprints == [project: ProjectIds, rev: Revs]

FileFingerprints == [fp: SettingsFingerprints, version: Nat] \cup {None}

Entries == [project: ProjectIds, fp: SettingsFingerprints,
            fps: FileFingerprints, version: Nat, verified: BOOLEAN]

\* None is no list of fingerprints and no entry.
ASSUME NoneAssumption ==
    None \notin [fp: SettingsFingerprints, version: Nat] /\ None \notin Entries

Statuses == [project: ProjectIds,
             phase: {"Idle", "Pending", "Running", "Complete", "Failed"},
             verification: {"NotRequired", "Checking", "Verified"},
             generation: Nat]

StateTypeOK ==
    /\ entry \in Entries \cup {None}
    /\ generation \in Nat
    /\ status \in Statuses

SettingsFingerprint(s, p) == [project |-> p, rev |-> s.rev]

IdleStatus == [project |-> None, phase |-> "Idle",
               verification |-> "NotRequired", generation |-> 0]

-----------------------------------------------------------------------------
(* Reads *)

HasEntry(fp) == entry # None /\ entry.fp = fp

HasVerifiedEntry(fp) == HasEntry(fp) /\ entry.verified

HasEntryFor(p) == entry # None /\ entry.project = p

\* The test two callers make on the status to find a rebuild already under way.
RebuildInFlight(p) ==
    /\ status.phase \in {"Pending", "Running"}
    /\ status.generation = generation
    /\ status.project = p

-----------------------------------------------------------------------------
(* Writes to the entry *)

NewEntry(p, fp, fps, v, verified) ==
    [project |-> p, fp |-> fp, fps |-> fps, version |-> v, verified |-> verified]

Store(p, fp, fps, v) == entry' = NewEntry(p, fp, fps, v, TRUE)

\* The condition under which store_if_generation_matches stores.
MayHydrate(g, p, fp) ==
    /\ generation = g
    /\ ~(HasVerifiedEntry(fp) /\ entry.project = p)

StoreHydrated(p, fp, fps, v) == entry' = NewEntry(p, fp, fps, v, FALSE)

MayInvalidate(g, fp, fps) == generation = g /\ HasEntry(fp) /\ entry.fps = fps

InvalidateEntry == entry' = None

\* Slip: a verified entry goes too.
RemoveEntry(fp) == entry' = IF HasEntry(fp) THEN None ELSE entry

RemoveUnverifiedEntry(fp) ==
    entry' = IF HasEntry(fp) /\ ~entry.verified THEN None ELSE entry

MayConfirm(g, fp) == generation = g /\ HasEntry(fp)

ConfirmCacheVerified ==
    /\ entry' = [entry EXCEPT !.verified = TRUE]
    /\ status' = [status EXCEPT !.verification = "Verified"]

-----------------------------------------------------------------------------
(* Writes to the generation and the status. Every setter but the two       *)
(* generation-checked ones stamps the generation that is live when it runs.*)

IncrementGeneration == generation' = generation + 1

StatusOf(p, phase, verification) ==
    [project |-> p, phase |-> phase, verification |-> verification,
     generation |-> generation]

SetStatusPending(p) == status' = StatusOf(p, "Pending", "NotRequired")

SetStatusRunning(p) == status' = StatusOf(p, "Running", "NotRequired")

SetStatusDiscovering(p) == status' = StatusOf(p, "Running", "NotRequired")

SetStatusIndexing(p) == status' = StatusOf(p, "Running", "NotRequired")

SetStatusHydratingCacheIfGenerationMatches(g, p) ==
    status' = IF generation = g THEN StatusOf(p, "Running", "NotRequired") ELSE status

\* Carries the project of the status it replaces.
SetStatusComplete == status' = StatusOf(status.project, "Complete", "Verified")

SetStatusCompleteFromSummary(p) == status' = StatusOf(p, "Complete", "Verified")

MayComplete(g, fp) == generation = g /\ HasEntry(fp)

SetStatusCompleteForProject(p) == status' = StatusOf(p, "Complete", "Checking")

SetStatusFailed(p) == status' = StatusOf(p, "Failed", "NotRequired")

=============================================================================
