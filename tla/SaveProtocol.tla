----------------------------- MODULE SaveProtocol -----------------------------
(***************************************************************************)
(* Saving one XML file of a project: the commands preview_project_xml_save *)
(* and save_project_xml_file of src/src-tauri/src/commands/xml_save.rs and *)
(* what they call in project_save.rs. A preview validates the proposed     *)
(* text against the def index and issues a token for it. A save whose      *)
(* token still holds writes without validating (fast path); any other      *)
(* loads the index and validates itself (slow path). The write takes a     *)
(* backup first, and both are staged in a temporary file, synced and       *)
(* renamed. Calls overlap freely: nothing is locked across two steps.      *)
(*                                                                         *)
(* Others change the file, the rest of the collection (one number), the    *)
(* index slot and the settings at any time; the application, or the whole  *)
(* machine, may crash. A renaming is taken to last and not to be reordered *)
(* with another; bytes last once they are synced. A temporary file that a  *)
(* crash leaves behind has a name of its own and matters to nobody.        *)
(* Hashes are the texts they stand for. Whether a text is accepted by a    *)
(* validation is left open. The secret is left out: a token does not       *)
(* outlive the process, nor does the dialog that holds it. The file exists *)
(* and is readable.                                                        *)
(***************************************************************************)
EXTENDS Naturals

CONSTANTS
    Previews,  \* preview calls
    Saves,     \* save calls
    Texts,     \* contents of the file
    Versions,  \* game versions, what of the settings an index depends on
    MaxEvents, \* bound: what others do, errors and crashes
    Partial,   \* a file that has been written in part
    None

ASSUME SaveAssumption ==
    /\ MaxEvents \in Nat
    /\ Partial \notin Texts /\ None \notin Texts /\ Partial # None

VARIABLES
    file,     \* the project's file: its text, and how often it was written
    others,   \* the version of the other files of the collection
    settings,
    slot,     \* the entry of DefIndexState, or None
    moved,    \* history: previews during which the slot was replaced
    backup,   \* backups/<project>/<path>, or None
    legacy,   \* whether there are backups under the old, dated names
    preview,
    save,
    unsynced, \* which of file and backup may not be on the disk yet
    events    \* what others have done

diskVars == <<file, others, settings, unsynced>>
slotVars == <<slot, moved>>
backupVars == <<backup, legacy>>
vars == <<diskVars, slotVars, backupVars, preview, save, events>>

-----------------------------------------------------------------------------
(* Data *)

Settings == [version: Versions, backups: BOOLEAN]

\* What a file holds, and which writing of the project's file that was.
Copies == [text: Texts \cup {Partial}, at: Nat]

\* What is indexed, and by their content hashes the fingerprints of it.
Collections == [file: Texts, others: 0 .. MaxEvents]

Entries == [version: Versions, files: Collections, verified: BOOLEAN]

\* The fields of a preview: index is what it validated against, files the
\* fingerprints in its token.
PreviewStates == [pc: {"idle", "load", "validate", "token", "done", "failed"},
                  text: Texts \cup {None}, version: Versions \cup {None},
                  index: Collections \cup {None}, current: Texts \cup {None},
                  files: Collections \cup {None}]

ASSUME NoneAssumption == None \notin Copies \cup Entries

\* Where a save holds the copy that it will back up, and that it will replace.
Staging == {"stage", "sync", "persist"}
Writing == Staging \cup {"prune", "temp", "flush", "replace"}

\* temp is the temporary file at hand. rivals is history: what those saves had
\* read that were about to back it up when this one did.
SaveStates == [pc: {"idle", "fast", "check", "slow", "validate", "saved", "failed"}
                       \cup Writing,
               preview: Previews \cup {None}, text: Texts \cup {None},
               settings: Settings \cup {None}, files: Collections \cup {None},
               current: Copies \cup {None}, temp: {"none", "written", "synced"},
               rivals: SUBSET Nat, token: BOOLEAN, wrote: BOOLEAN]

IdlePreview == [pc |-> "idle", text |-> None, version |-> None, index |-> None,
                current |-> None, files |-> None]

IdleSave == [pc |-> "idle", preview |-> None, text |-> None, settings |-> None,
             files |-> None, current |-> None, temp |-> "none", rivals |-> {},
             token |-> FALSE, wrote |-> FALSE]

FailedPreview == [IdlePreview EXCEPT !.pc = "failed"]

\* A call that has returned keeps nothing but whether it wrote the file.
Failed(call) == [IdleSave EXCEPT !.pc = "failed", !.wrote = call.wrote]

NewEvent == events < MaxEvents /\ events' = events + 1

Collection == [file |-> file.text, others |-> others]

FreshEntry(v) == [version |-> v, files |-> Collection, verified |-> TRUE]

\* The slot has been replaced under a preview that has its index but no token.
NoteSlot ==
    moved' = IF slot' = slot THEN moved
             ELSE moved \cup {p \in Previews : preview[p].pc \in {"validate", "token"}}

TypeOK ==
    /\ file \in Copies
    /\ others \in 0 .. MaxEvents
    /\ settings \in Settings
    /\ slot \in Entries \cup {None} /\ moved \subseteq Previews
    /\ backup \in Copies \cup {None}
    /\ unsynced \subseteq {"file", "backup"}
    /\ legacy \in BOOLEAN
    /\ preview \in [Previews -> PreviewStates]
    /\ save \in [Saves -> SaveStates]
    /\ events \in 0 .. MaxEvents
    /\ others <= events

Init ==
    /\ file \in [text: Texts, at: {1}] /\ others = 0 /\ unsynced = {}
    /\ settings \in Settings
    /\ slot = None /\ moved = {}
    /\ backup \in [text: Texts, at: {0}] \cup {None} /\ legacy \in BOOLEAN
    /\ preview = [p \in Previews |-> IdlePreview]
    /\ save = [s \in Saves |-> IdleSave]
    /\ events = 0

-----------------------------------------------------------------------------
(* Preview *)

PreviewStart(p) ==
    /\ preview[p].pc = "idle"
    /\ \E t \in Texts :
         preview' = [preview EXCEPT ![p] = [IdlePreview EXCEPT
                       !.pc = "load", !.text = t, !.version = settings.version]]
    /\ UNCHANGED <<diskVars, slotVars, backupVars, save, events>>

\* load_fresh_for_project: a verified entry of these settings, or a new one.
LoadFresh(v) ==
    /\ slot' = IF slot # None /\ slot.version = v /\ slot.verified THEN slot
               ELSE FreshEntry(v)
    /\ NoteSlot

PreviewLoad(p) ==
    /\ preview[p].pc = "load"
    /\ LoadFresh(preview[p].version)
    /\ preview' = [preview EXCEPT ![p].pc = "validate", ![p].index = slot'.files]
    /\ UNCHANGED <<diskVars, backupVars, save, events>>

\* The text is accepted, and compared with the file.
PreviewValidate(p) ==
    /\ preview[p].pc = "validate"
    /\ preview' = [preview EXCEPT ![p].pc = "token", ![p].current = file.text]
    /\ UNCHANGED <<diskVars, slotVars, backupVars, save, events>>

\* The token binds both texts and the fingerprints that are in the slot now.
PreviewToken(p) ==
    /\ preview[p].pc = "token"
    /\ preview' = [preview EXCEPT ![p].pc = "done", ![p].files =
                     IF slot # None /\ slot.version = preview[p].version
                     THEN slot.files ELSE None]
    /\ UNCHANGED <<diskVars, slotVars, backupVars, save, events>>

\* The text is rejected, or the index or the file cannot be read.
PreviewFails(p) ==
    /\ preview[p].pc \in {"load", "validate"}
    /\ preview' = [preview EXCEPT ![p] = FailedPreview]
    /\ UNCHANGED <<diskVars, slotVars, backupVars, save, events>>

-----------------------------------------------------------------------------
(* Save *)

\* The dialog sends the text of a preview with its token.
SaveStart(s) ==
    /\ save[s].pc = "idle"
    /\ \E p \in Previews :
         /\ preview[p].pc = "done"
         /\ save' = [save EXCEPT ![s] = [IdleSave EXCEPT !.pc = "fast", !.preview = p,
                       !.text = preview[p].text, !.settings = settings]]
    /\ UNCHANGED <<diskVars, slotVars, backupVars, preview, events>>

\* get_file_fingerprints_if_settings_match
SaveFingerprints(s) ==
    /\ save[s].pc = "fast"
    /\ save' = [save EXCEPT ![s] =
         IF slot # None /\ slot.version = save[s].settings.version
         THEN [@ EXCEPT !.pc = "check", !.files = slot.files]
         ELSE [@ EXCEPT !.pc = "slow"]]
    /\ UNCHANGED <<diskVars, slotVars, backupVars, preview, events>>

\* perform_file_write begins with a backup if the settings say so.
BeginWrite(s) == IF save[s].settings.backups THEN "stage" ELSE "temp"

\* Slip: the token does not bind the file's text.
SaveCheckTokenWithoutFile(s) ==
    /\ save[s].pc = "check"
    /\ LET p == preview[save[s].preview]
       IN  save' = [save EXCEPT ![s] =
             IF p.text = save[s].text /\ p.files = save[s].files
             THEN [@ EXCEPT !.pc = BeginWrite(s), !.current = file, !.token = TRUE]
             ELSE [@ EXCEPT !.pc = "slow"]]
    /\ UNCHANGED <<diskVars, slotVars, backupVars, preview, events>>

\* try_save_with_fast_token: the token is computed again for the file as it is.
SaveCheckToken(s) ==
    /\ save[s].pc = "check"
    /\ LET p == preview[save[s].preview]
       IN  save' = [save EXCEPT ![s] =
             IF p.text = save[s].text /\ p.current = file.text /\ p.files = save[s].files
             THEN [@ EXCEPT !.pc = BeginWrite(s), !.current = file, !.token = TRUE]
             ELSE [@ EXCEPT !.pc = "slow"]]
    /\ UNCHANGED <<diskVars, slotVars, backupVars, preview, events>>

SaveLoad(s) ==
    /\ save[s].pc = "slow"
    /\ LoadFresh(save[s].settings.version)
    /\ save' = [save EXCEPT ![s].pc = "validate"]
    /\ UNCHANGED <<diskVars, backupVars, preview, events>>

\* The text is accepted. What the file holds is read, not compared.
SaveValidate(s) ==
    /\ save[s].pc = "validate"
    /\ save' = [save EXCEPT ![s].pc = BeginWrite(s), ![s].current = file]
    /\ UNCHANGED <<diskVars, slotVars, backupVars, preview, events>>

\* The text is rejected, or the index cannot be loaded.
SaveRejected(s) ==
    /\ save[s].pc \in {"slow", "validate"}
    /\ save' = [save EXCEPT ![s] = Failed(@)]
    /\ UNCHANGED <<diskVars, slotVars, backupVars, preview, events>>

-----------------------------------------------------------------------------
(* perform_file_write *)

\* Slip: the temporary file is renamed without a sync.
StageBackupOnly(s) ==
    /\ save[s].pc = "stage"
    /\ save' = [save EXCEPT ![s].pc = "persist", ![s].temp = "written"]
    /\ UNCHANGED <<diskVars, slotVars, backupVars, preview, events>>

\* Slip: the dated backups go first.
StageBackupPrunes(s) ==
    /\ save[s].pc = "stage"
    /\ legacy' = FALSE
    /\ save' = [save EXCEPT ![s].pc = "sync", ![s].temp = "written"]
    /\ UNCHANGED <<diskVars, slotVars, backup, preview, events>>

StageBackup(s) ==
    /\ save[s].pc = "stage"
    /\ save' = [save EXCEPT ![s].pc = "sync", ![s].temp = "written"]
    /\ UNCHANGED <<diskVars, slotVars, backupVars, preview, events>>

\* sync_all, of the staged backup or of the new text
SyncTemp(s) ==
    /\ save[s].pc \in {"sync", "flush"}
    /\ save' = [save EXCEPT ![s].temp = "synced",
                   ![s].pc = IF @ = "sync" THEN "persist" ELSE "replace"]
    /\ UNCHANGED <<diskVars, slotVars, backupVars, preview, events>>

\* The temporary file takes the name of the file or of its backup.
Rename(s, name) ==
    unsynced' = IF save[s].temp = "synced" THEN unsynced \ {name}
                ELSE unsynced \cup {name}

\* What the saves that are about to make a backup have read.
Read == {save[t].current.at : t \in {t \in Saves : save[t].pc \in Staging}}

\* Slip: a backup that is there is kept.
PersistBackupOnce(s) ==
    /\ save[s].pc = "persist"
    /\ backup' = IF backup = None THEN save[s].current ELSE backup
    /\ Rename(s, "backup")
    /\ save' = [save EXCEPT ![s].pc = "prune", ![s].temp = "none", ![s].rivals = Read]
    /\ UNCHANGED <<file, others, settings, slotVars, legacy, preview, events>>

PersistBackup(s) ==
    /\ save[s].pc = "persist"
    /\ backup' = save[s].current
    /\ Rename(s, "backup")
    /\ save' = [save EXCEPT ![s].pc = "prune", ![s].temp = "none", ![s].rivals = Read]
    /\ UNCHANGED <<file, others, settings, slotVars, legacy, preview, events>>

PruneLegacyBackups(s) ==
    /\ save[s].pc = "prune"
    /\ legacy' = FALSE
    /\ save' = [save EXCEPT ![s].pc = "temp"]
    /\ UNCHANGED <<diskVars, slotVars, backup, preview, events>>

WriteTemp(s) ==
    /\ save[s].pc = "temp"
    /\ save' = [save EXCEPT ![s].pc = "flush", ![s].temp = "written"]
    /\ UNCHANGED <<diskVars, slotVars, backupVars, preview, events>>

NewText(s) == [text |-> save[s].text, at |-> file.at + 1]

\* Slip: pruning comes after the replacement.
PersistFileFirst(s) ==
    /\ save[s].pc = "replace"
    /\ file' = NewText(s)
    /\ Rename(s, "file")
    /\ save' = [save EXCEPT ![s].pc = "prune", ![s].temp = "none", ![s].wrote = TRUE]
    /\ UNCHANGED <<others, settings, slotVars, backupVars, preview, events>>

PersistFile(s) ==
    /\ save[s].pc = "replace"
    /\ file' = NewText(s)
    /\ Rename(s, "file")
    /\ save' = [save EXCEPT ![s] = [IdleSave EXCEPT !.pc = "saved", !.wrote = TRUE]]
    /\ UNCHANGED <<others, settings, slotVars, backupVars, preview, events>>

\* Any of these operations may fail, which ends the save and removes its
\* temporary file.
WriteFails(s) ==
    /\ save[s].pc \in Writing
    /\ NewEvent
    /\ save' = [save EXCEPT ![s] = Failed(@)]
    /\ UNCHANGED <<diskVars, slotVars, backupVars, preview>>

-----------------------------------------------------------------------------
(* What others do *)

\* Another program writes the file, or another file of the collection.
ExternalEdit ==
    /\ NewEvent
    /\ \/ /\ file' \in [text: Texts, at: {file.at + 1}]
          /\ unsynced' = unsynced \ {"file"}
          /\ UNCHANGED others
       \/ others' = others + 1 /\ UNCHANGED <<file, unsynced>>
    /\ UNCHANGED <<settings, slotVars, backupVars, preview, save>>

\* The indexing service stores a fresh entry.
IndexStored ==
    /\ slot' = FreshEntry(settings.version)
    /\ NoteSlot
    /\ UNCHANGED <<diskVars, backupVars, preview, save, events>>

\* It stores one from the cache, of an earlier state.
IndexHydrated ==
    /\ NewEvent
    /\ ~(slot # None /\ slot.version = settings.version /\ slot.verified)
    /\ slot' \in [version: {settings.version}, verified: {FALSE},
                  files: [file: Texts, others: 0 .. others]]
    /\ NoteSlot
    /\ UNCHANGED <<diskVars, backupVars, preview, save>>

\* A verification finds it outdated.
IndexInvalidated ==
    /\ slot # None /\ slot.files # Collection
    /\ slot' = None
    /\ NoteSlot
    /\ UNCHANGED <<diskVars, backupVars, preview, save, events>>

ChangeSettings ==
    /\ NewEvent
    /\ settings' \in Settings
    /\ UNCHANGED <<file, others, unsynced, slotVars, backupVars, preview, save>>

\* What is not on the disk yet may be lost with the power.
Surviving(name, copy) ==
    IF name \in unsynced THEN {copy, [copy EXCEPT !.text = Partial]} ELSE {copy}

\* A crash ends every call and closes every dialog.
Crash ==
    /\ NewEvent
    /\ file' \in Surviving("file", file)
    /\ backup' \in Surviving("backup", backup)
    /\ unsynced' = {}
    /\ slot' = None /\ NoteSlot
    /\ preview' = [p \in Previews |-> IF preview[p].pc = "idle" THEN preview[p]
                                      ELSE FailedPreview]
    /\ save' = [s \in Saves |-> IF save[s].pc \in {"idle", "saved"} THEN save[s]
                                ELSE Failed(save[s])]
    /\ UNCHANGED <<others, settings, legacy>>

-----------------------------------------------------------------------------

Previewing(p) ==
    PreviewStart(p) \/ PreviewLoad(p) \/ PreviewValidate(p) \/ PreviewToken(p)
        \/ PreviewFails(p)

Saving(s) ==
    \/ SaveStart(s) \/ SaveFingerprints(s) \/ SaveCheckToken(s)
    \/ SaveLoad(s) \/ SaveValidate(s) \/ SaveRejected(s)
    \/ StageBackup(s) \/ SyncTemp(s) \/ PersistBackup(s) \/ PruneLegacyBackups(s)
    \/ WriteTemp(s) \/ PersistFile(s) \/ WriteFails(s)

Next ==
    \/ \E p \in Previews : Previewing(p)
    \/ \E s \in Saves : Saving(s)
    \/ ExternalEdit \/ IndexStored \/ IndexHydrated \/ IndexInvalidated
    \/ ChangeSettings \/ Crash

Spec == Init /\ [][Next]_vars

-----------------------------------------------------------------------------
(* Properties *)

\* A save that fails, or is cut off by a crash, has not touched the file: the
\* all-or-nothing contract of perform_file_write.
AllOrNothing ==
    \A s \in Saves : save[s].pc = "failed" => ~save[s].wrote

\* Whatever fails, and whenever the process or the machine dies, neither the file
\* nor its backup is left half written: only synced bytes get either name.
WholeFiles == file.text # Partial /\ (backup # None => backup.text # Partial)

\* A recovery copy is never lost: the dated backups go only when the new one is
\* in place.
CopyKept ==
    [][legacy \/ backup # None => legacy' \/ backup' # None]_vars

Replaces(s) == save[s].pc = "replace" /\ save'[s].pc = "saved"

\* "Keep one previous version per file", with saves that overlap: when a save
\* replaces the file, the backup holds what this save had read, or something
\* newer, or what another had read that was about to make its backup when this
\* one did. So a save that met no other and no external edit finds in the backup
\* the very text it replaces, not that of an earlier save.
PreviousKept ==
    [][\A s \in Saves : Replaces(s) /\ save[s].settings.backups =>
          /\ backup # None
          /\ backup.at >= save[s].current.at \/ backup.at \in save[s].rivals
          /\ backup.at <= file.at
          /\ backup.at = file.at => backup.text = file.text]_vars

\* "A matching token proves the preview validated this exact payload against
\* this exact index state": a save that skips validation replaces the text that
\* its preview showed by the one it showed, unless somebody has written the file
\* since the token was checked; and that text was validated against the
\* collection that the slot named at the check, unless the slot was replaced
\* between the validation and the issue of the token.
ShownIsReplaced ==
    [][\A s \in Saves : Replaces(s) /\ save[s].token =>
          LET p == preview[save[s].preview]
          IN  /\ file'.text = p.text
              /\ file.text = p.current \/ file.at > save[s].current.at
              /\ p.index = save[s].files \/ save[s].preview \in moved]_vars

=============================================================================
