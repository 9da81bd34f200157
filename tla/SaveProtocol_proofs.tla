-------------------------- MODULE SaveProtocol_proofs --------------------------
(***************************************************************************)
(* Theorems about SaveProtocol, for any number of previews and saves that  *)
(* overlap in any way.                                                     *)
(*                                                                         *)
(* The invariant says what a call under way holds (PreviewInv, SaveInv);   *)
(* which index the token of a preview names (HeldInv); that the preview    *)
(* whose text a save writes stays as it is (ShownInv); that what a save    *)
(* has read is a state the file was in (ReadInv); that whatever gets a     *)
(* final name is synced (SaveInv, DiskInv); and, for the action            *)
(* properties, what the backup is, and what the other saves may still      *)
(* make it, from its renaming to that of the file (CopyInv, BackedUp).     *)
(***************************************************************************)
EXTENDS SaveProtocol, TLAPS

\* c is a state the file is or was in.
Dated(c) == c \in Copies /\ c.text \in Texts /\ c.at <= file.at
            /\ (c.at = file.at => c.text = file.text)

DiskInv ==
    /\ file \in Copies /\ file.text \in Texts
    /\ unsynced = {}
    /\ others \in 0 .. MaxEvents
    /\ settings \in Settings
    /\ events \in 0 .. MaxEvents
    /\ others <= events

SlotInv == slot \in Entries \cup {None} /\ moved \subseteq Previews

BackupInv == (backup # None => Dated(backup)) /\ legacy \in BOOLEAN

PreviewCarries(c) ==
    c.pc \notin {"idle", "failed"} => c.version \in Versions /\ c.text \in Texts

PreviewInv ==
    /\ preview \in [Previews -> PreviewStates]
    /\ \A p \in Previews : PreviewCarries(preview[p])

\* Until its token is issued, a preview under which the slot stayed as it was
\* finds its own index in it, and then the token names that index.
Held(c) ==
    /\ c.pc \in {"validate", "token"} =>
         slot # None /\ slot.version = c.version /\ slot.files = c.index
    /\ c.pc = "done" => c.files = c.index

HeldInv == \A p \in Previews \ moved : Held(preview[p])

Ended(c) == c.pc \in {"idle", "saved", "failed"}

SaveCarries(c) ==
    /\ ~Ended(c) => c.preview \in Previews /\ c.text \in Texts /\ c.settings \in Settings
    /\ c.pc \in Writing => c.current \in Copies
    /\ c.pc = "check" => c.files \in Collections
    /\ c.pc \in {"persist", "replace"} => c.temp = "synced"
    /\ c.wrote => c.pc = "saved"
    /\ c.token => c.pc \in Writing

SaveInv ==
    /\ save \in [Saves -> SaveStates]
    /\ \A s \in Saves : SaveCarries(save[s])

Shows(c) ==
    ~Ended(c) =>
        /\ preview[c.preview].pc = "done" /\ preview[c.preview].text = c.text
        /\ c.token => /\ preview[c.preview].current = c.current.text
                      /\ preview[c.preview].files = c.files

ShownInv == \A s \in Saves : Shows(save[s])

ReadInv == \A s \in Saves : save[s].pc \in Writing => Dated(save[s].current)

CopyInv == \A s \in Saves : save[s].pc = "prune" => backup # None

\* The backup of c has its name, and the file has not been replaced yet.
Late(c) == c.pc \in {"prune", "temp", "flush", "replace"} /\ c.settings.backups

\* A backup of this writing of the file is one that c may leave.
Covers(c, n) == n >= c.current.at \/ n \in c.rivals

BackedUp ==
    \A s \in Saves : Late(save[s]) =>
        /\ backup # None /\ Covers(save[s], backup.at)
        /\ \A t \in Saves : save[t].pc \in Staging => Covers(save[s], save[t].current.at)

ProtocolInv ==
    /\ DiskInv /\ SlotInv /\ BackupInv /\ PreviewInv /\ HeldInv /\ SaveInv
    /\ ShownInv /\ ReadInv /\ CopyInv /\ BackedUp

-----------------------------------------------------------------------------

LEMMA InvariantImplies ==
    ASSUME ProtocolInv
    PROVE  TypeOK /\ AllOrNothing /\ WholeFiles
<1> USE DEF ProtocolInv
<1>1. TypeOK
  BY DEF DiskInv, SlotInv, BackupInv, Dated, PreviewInv, SaveInv, TypeOK
<1>2. AllOrNothing
  BY DEF SaveInv, SaveCarries, AllOrNothing
<1>3. WholeFiles
  BY SaveAssumption DEF DiskInv, BackupInv, Dated, WholeFiles
<1> QED
  BY <1>1, <1>2, <1>3

LEMMA InitInv ==
    ASSUME Init
    PROVE  ProtocolInv
<1> USE DEF Init
<1>1. DiskInv /\ SlotInv /\ BackupInv
  BY SaveAssumption DEF DiskInv, SlotInv, BackupInv, Dated, Copies
<1>2. PreviewInv /\ HeldInv
  BY DEF PreviewInv, HeldInv, Held, PreviewStates, PreviewCarries, IdlePreview
<1>3. SaveInv
  BY DEF SaveInv, SaveStates, SaveCarries, IdleSave, Ended, Writing, Staging
<1>4. ShownInv /\ ReadInv /\ CopyInv /\ BackedUp
  BY DEF ShownInv, Shows, ReadInv, CopyInv, BackedUp, Late, IdleSave, Ended, Writing,
     Staging
<1> QED
  BY <1>1, <1>2, <1>3, <1>4 DEF ProtocolInv

\* What the index service puts into the slot is an entry.
LEMMA FreshTypes ==
    ASSUME DiskInv, NEW v \in Versions
    PROVE  FreshEntry(v) \in Entries
  BY DEF DiskInv, FreshEntry, Collection, Collections, Entries, Copies

\* When the slot is replaced, no preview keeps a claim to what was in it.
LEMMA NotedInv ==
    ASSUME ProtocolInv, slot' \in Entries \cup {None}, NoteSlot, UNCHANGED preview
    PROVE  SlotInv' /\ HeldInv'
  BY DEF ProtocolInv, SlotInv, HeldInv, Held, NoteSlot

LEMMA LoadTypes ==
    ASSUME ProtocolInv, NEW v \in Versions, LoadFresh(v)
    PROVE  /\ slot' \in Entries /\ slot' # None
           /\ slot'.files \in Collections /\ slot'.version = v
<1>1. slot' \in Entries /\ slot'.version = v
  BY FreshTypes DEF ProtocolInv, SlotInv, LoadFresh, FreshEntry
<1> QED
  BY <1>1, NoneAssumption DEF Entries

\* One preview moves on.
LEMMA PreviewUpdate ==
    ASSUME ProtocolInv, NEW p \in Previews, NEW c \in PreviewStates, PreviewCarries(c),
           preview[p].pc # "done", preview' = [preview EXCEPT ![p] = c],
           UNCHANGED <<diskVars, backupVars, save, events>>, SlotInv', HeldInv'
    PROVE  ProtocolInv'
<1> USE DEF ProtocolInv, diskVars, backupVars
<1>1. PreviewInv'
  BY DEF PreviewInv
<1>2. \A q \in Previews : preview[q].pc = "done" => preview'[q] = preview[q]
  BY DEF PreviewInv
<1>3. ShownInv'
  BY <1>2 DEF ShownInv, Shows, Ended, SaveInv, SaveCarries
<1>4. DiskInv' /\ BackupInv' /\ SaveInv' /\ ReadInv' /\ CopyInv' /\ BackedUp'
  BY DEF DiskInv, BackupInv, Dated, SaveInv, ReadInv, CopyInv, BackedUp, Late, Covers,
     SaveCarries, Ended
<1> QED
  BY <1>1, <1>3, <1>4

\* The same when the slot stays: its claim is to be shown for it alone.
LEMMA PreviewStep ==
    ASSUME ProtocolInv, NEW p \in Previews, NEW c \in PreviewStates, PreviewCarries(c),
           preview[p].pc # "done", preview' = [preview EXCEPT ![p] = c],
           UNCHANGED <<diskVars, slotVars, backupVars, save, events>>,
           p \notin moved => Held(c)
    PROVE  ProtocolInv'
<1>1. SlotInv' /\ HeldInv'
  BY DEF ProtocolInv, SlotInv, PreviewInv, HeldInv, Held, slotVars
<1> QED
  BY <1>1, PreviewUpdate

\* One save moves on. It has what it read from the file, and has renamed its
\* backup already or is not that far.
LEMMA SaveUpdate ==
    ASSUME ProtocolInv, NEW s \in Saves, NEW c \in SaveStates, SaveCarries(c), Shows(c),
           save' = [save EXCEPT ![s] = c],
           c.pc = "prune" => save[s].pc = "prune",
           c.pc \in Writing => \/ save[s].pc \in Writing /\ c.current = save[s].current
                               \/ c.current = file,
           c.pc \in Staging => c.current = file \/ save[s].pc \in Staging,
           Late(c) => Late(save[s]) /\ c.current = save[s].current
                        /\ c.rivals = save[s].rivals,
           UNCHANGED <<file, backup, preview>>,
           SlotInv', HeldInv', DiskInv', legacy' \in BOOLEAN
    PROVE  ProtocolInv'
<1> USE DEF ProtocolInv
<1>1. SaveInv'
  BY DEF SaveInv
<1>2. \A t \in Saves : save'[t] = IF t = s THEN c ELSE save[t]
  BY DEF SaveInv
<1>3. ShownInv'
  BY <1>2 DEF ShownInv, Shows
<1>4. Dated(file)
  BY DEF DiskInv, Dated, Copies
<1>5. ReadInv'
  BY <1>2, <1>4 DEF ReadInv, Dated
<1>6. CopyInv'
  BY <1>2 DEF CopyInv
<1>7. BackedUp'
  <2> SUFFICES ASSUME NEW t \in Saves, Late(save'[t])
               PROVE  /\ backup # None /\ Covers(save'[t], backup.at)
                      /\ \A u \in Saves : save'[u].pc \in Staging =>
                           Covers(save'[t], save'[u].current.at)
    BY DEF BackedUp, Late, Covers
  <2>1. /\ Late(save[t]) /\ save'[t].current = save[t].current
        /\ save'[t].rivals = save[t].rivals
    BY <1>2
  <2>2. backup # None /\ Covers(save'[t], backup.at)
    BY <2>1 DEF BackedUp, Covers
  <2>3. save[t].pc \in Writing
    BY <2>1 DEF Late, Writing
  <2>4. ASSUME NEW u \in Saves, save'[u].pc \in Staging
        PROVE  Covers(save'[t], save'[u].current.at)
    <3>1. CASE save'[u].current = file
      BY <2>1, <2>3, <3>1 DEF ReadInv, Dated, Covers, DiskInv, Copies
    <3>2. CASE save[u].pc \in Staging /\ save'[u].current = save[u].current
      BY <2>1, <3>2 DEF BackedUp, Covers
    <3> QED
      BY <1>2, <2>4, <3>1, <3>2 DEF Writing
  <2> QED
    BY <2>2, <2>4
<1>8. PreviewInv' /\ BackupInv'
  BY DEF PreviewInv, BackupInv, Dated
<1> QED
  BY <1>1, <1>3, <1>5, <1>6, <1>7, <1>8

-----------------------------------------------------------------------------

LEMMA PreviewingInv ==
    ASSUME ProtocolInv, NEW p \in Previews, Previewing(p)
    PROVE  ProtocolInv'
<1> USE DEF ProtocolInv, diskVars, slotVars, backupVars
<1>0. /\ preview[p] \in PreviewStates /\ PreviewCarries(preview[p])
      /\ p \notin moved => Held(preview[p])
  BY DEF PreviewInv, HeldInv
<1>1. CASE PreviewStart(p)
  <2>1. PICK t \in Texts : preview' = [preview EXCEPT ![p] = [IdlePreview EXCEPT
                       !.pc = "load", !.text = t, !.version = settings.version]]
    BY <1>1 DEF PreviewStart
  <2> DEFINE c == [IdlePreview EXCEPT !.pc = "load", !.text = t,
                                      !.version = settings.version]
  <2>2. c \in PreviewStates /\ PreviewCarries(c) /\ Held(c)
    BY DEF DiskInv, Settings, PreviewStates, PreviewCarries, IdlePreview, Held
  <2> QED
    BY <1>1, <2>1, <2>2, PreviewStep DEF PreviewStart
<1>2. CASE PreviewLoad(p)
  <2>1. preview[p].version \in Versions
    BY <1>0, <1>2 DEF PreviewLoad, PreviewCarries
  <2>2. /\ slot' \in Entries /\ slot' # None
        /\ slot'.files \in Collections /\ slot'.version = preview[p].version
    BY <1>2, <2>1, LoadTypes DEF PreviewLoad
  <2> DEFINE c == [preview[p] EXCEPT !.pc = "validate", !.index = slot'.files]
  <2>3. c \in PreviewStates /\ PreviewCarries(c)
    BY <1>0, <1>2, <2>2 DEF PreviewLoad, PreviewStates, PreviewCarries
  <2>4. /\ preview' = [preview EXCEPT ![p] = c]
        /\ c.pc = "validate" /\ c.index = slot'.files /\ c.version = preview[p].version
    BY <1>0, <1>2 DEF PreviewLoad, PreviewInv, PreviewStates
  <2> HIDE DEF c
  <2>5. NoteSlot
    BY <1>2 DEF PreviewLoad, LoadFresh
  <2>6. SlotInv' /\ HeldInv'
    <3>1. SlotInv'
      BY <2>2, <2>5 DEF SlotInv, NoteSlot
    <3>2. ASSUME NEW q \in Previews \ moved'
          PROVE  Held(preview[q])'
      <4>1. CASE q = p
        BY <2>2, <2>4, <4>1 DEF Held, PreviewInv
      <4>2. CASE q # p
        BY <2>4, <2>5, <3>2, <4>2 DEF Held, HeldInv, NoteSlot, PreviewInv
      <4> QED
        BY <4>1, <4>2
    <3> QED
      BY <3>1, <3>2 DEF HeldInv
  <2> QED
    BY <1>2, <2>3, <2>4, <2>6, PreviewUpdate DEF PreviewLoad
<1>3. CASE PreviewValidate(p)
  <2> DEFINE c == [preview[p] EXCEPT !.pc = "token", !.current = file.text]
  <2>1. c \in PreviewStates /\ PreviewCarries(c)
    BY <1>0, <1>3 DEF PreviewValidate, PreviewStates, PreviewCarries, DiskInv
  <2>2. preview' = [preview EXCEPT ![p] = c]
    BY <1>3 DEF PreviewValidate, PreviewInv, PreviewStates
  <2>3. p \notin moved => Held(c)
    BY <1>0, <1>3 DEF PreviewValidate, Held, PreviewStates
  <2> QED
    BY <1>3, <2>1, <2>2, <2>3, PreviewStep DEF PreviewValidate
<1>4. CASE PreviewToken(p)
  <2> DEFINE files == IF slot # None /\ slot.version = preview[p].version
                      THEN slot.files ELSE None
             c == [preview[p] EXCEPT !.pc = "done", !.files = files]
  <2>1. files \in Collections \cup {None}
    BY DEF SlotInv, Entries
  <2>2. c \in PreviewStates /\ PreviewCarries(c)
    BY <1>0, <1>4, <2>1 DEF PreviewToken, PreviewStates, PreviewCarries
  <2>3. preview' = [preview EXCEPT ![p] = c]
    BY <1>4 DEF PreviewToken, PreviewInv, PreviewStates
  <2>4. p \notin moved => Held(c)
    BY <1>0, <1>4 DEF PreviewToken, Held, PreviewStates
  <2> QED
    BY <1>4, <2>2, <2>3, <2>4, PreviewStep DEF PreviewToken
<1>5. CASE PreviewFails(p)
  <2>1. FailedPreview \in PreviewStates /\ PreviewCarries(FailedPreview)
          /\ Held(FailedPreview)
    BY DEF FailedPreview, IdlePreview, PreviewStates, PreviewCarries, Held
  <2> QED
    BY <1>5, <2>1, PreviewStep DEF PreviewFails
<1> QED
  BY <1>1, <1>2, <1>3, <1>4, <1>5 DEF Previewing

\* What a save under way carries, and what it may rely on.
LEMMA Carried ==
    ASSUME ProtocolInv, NEW s \in Saves
    PROVE  /\ save[s] \in SaveStates /\ SaveCarries(save[s]) /\ Shows(save[s])
           /\ save[s].pc # "saved" =>
                Failed(save[s]) \in SaveStates /\ SaveCarries(Failed(save[s]))
           /\ Failed(save[s]).pc = "failed"
<1>1. save[s] \in SaveStates /\ SaveCarries(save[s]) /\ Shows(save[s])
  BY DEF ProtocolInv, SaveInv, ShownInv
<1>2. ASSUME save[s].pc # "saved"
      PROVE  Failed(save[s]) \in SaveStates /\ SaveCarries(Failed(save[s]))
  <2>1. save[s].wrote = FALSE
    BY <1>1, <1>2 DEF SaveStates, SaveCarries
  <2>2. IdleSave \in SaveStates
    BY DEF IdleSave, SaveStates
  <2>3. Failed(save[s]) \in SaveStates
    BY <2>1, <2>2 DEF Failed, SaveStates
  <2>4. /\ Failed(save[s]).pc = "failed" /\ Failed(save[s]).wrote = FALSE
        /\ Failed(save[s]).token = FALSE
    BY <2>1 DEF Failed, IdleSave
  <2> QED
    BY <2>3, <2>4 DEF SaveCarries, Ended, Writing, Staging
<1>3. Failed(save[s]).pc = "failed"
  BY DEF Failed, IdleSave
<1> QED
  BY <1>1, <1>2, <1>3

\* Nothing else changes in a step of a save that writes no file.
LEMMA QuietInv ==
    ASSUME ProtocolInv, UNCHANGED <<diskVars, slotVars, backupVars, preview, events>>
    PROVE  SlotInv' /\ HeldInv' /\ DiskInv' /\ legacy' \in BOOLEAN
             /\ UNCHANGED <<file, backup, preview>>
  BY DEF ProtocolInv, SlotInv, HeldInv, Held, DiskInv, BackupInv, diskVars, slotVars,
     backupVars

\* A save that fails, at any point.
LEMMA FailingInv ==
    ASSUME ProtocolInv, NEW s \in Saves, save[s].pc # "saved",
           save' = [save EXCEPT ![s] = Failed(save[s])],
           UNCHANGED <<file, backup, preview>>,
           SlotInv', HeldInv', DiskInv', legacy' \in BOOLEAN
    PROVE  ProtocolInv'
<1> DEFINE c == Failed(save[s])
<1>1. c \in SaveStates /\ SaveCarries(c) /\ c.pc = "failed"
  BY Carried
<1>2. Shows(c) /\ ~Late(c) /\ c.pc \notin Writing /\ c.pc \notin Staging
  BY <1>1 DEF Shows, Ended, Late, Writing, Staging
<1> HIDE DEF c
<1> QED
  BY <1>1, <1>2, SaveUpdate DEF c

\* A save that keeps its text, settings and preview, and has not begun to write.
LEMMA ValidatingInv ==
    ASSUME ProtocolInv, NEW s \in Saves,
           \/ SaveStart(s) \/ SaveFingerprints(s) \/ SaveCheckToken(s)
           \/ SaveLoad(s) \/ SaveValidate(s) \/ SaveRejected(s)
    PROVE  ProtocolInv'
<1> USE DEF ProtocolInv
<1>0. /\ save[s] \in SaveStates /\ SaveCarries(save[s]) /\ Shows(save[s])
      /\ BeginWrite(s) \in {"stage", "temp"}
      /\ BeginWrite(s) = "temp" => ~save[s].settings.backups
  BY Carried DEF BeginWrite
<1>1. CASE SaveStart(s)
  <2>1. PICK p \in Previews :
          /\ preview[p].pc = "done"
          /\ save' = [save EXCEPT ![s] = [IdleSave EXCEPT !.pc = "fast", !.preview = p,
                        !.text = preview[p].text, !.settings = settings]]
    BY <1>1 DEF SaveStart
  <2> DEFINE c == [IdleSave EXCEPT !.pc = "fast", !.preview = p,
                        !.text = preview[p].text, !.settings = settings]
  <2>2. preview[p].text \in Texts
    BY <2>1 DEF PreviewInv, PreviewCarries
  <2>3. c \in SaveStates /\ SaveCarries(c) /\ Shows(c) /\ c.pc = "fast"
    BY <2>1, <2>2 DEF DiskInv, SaveStates, SaveCarries, Shows, IdleSave, Ended, Writing,
       Staging
  <2>4. save' = [save EXCEPT ![s] = c]
    BY <2>1
  <2> HIDE DEF c
  <2>5. ~Late(c) /\ c.pc \notin Writing /\ c.pc \notin Staging
    BY <2>3 DEF Late, Writing, Staging
  <2> QED
    BY <1>1, <2>3, <2>4, <2>5, QuietInv, SaveUpdate DEF SaveStart
<1>2. CASE SaveFingerprints(s)
  <2> DEFINE hit == [save[s] EXCEPT !.pc = "check", !.files = slot.files]
             miss == [save[s] EXCEPT !.pc = "slow"]
             c == IF slot # None /\ slot.version = save[s].settings.version
                  THEN hit ELSE miss
  <2>1. slot # None => slot.files \in Collections
    BY DEF SlotInv, Entries
  <2>2. slot # None => hit \in SaveStates /\ SaveCarries(hit) /\ Shows(hit)
    BY <1>0, <1>2, <2>1 DEF SaveFingerprints, SaveStates, SaveCarries, Shows, Ended,
       Writing, Staging
  <2>3. miss \in SaveStates /\ SaveCarries(miss) /\ Shows(miss)
    BY <1>0, <1>2 DEF SaveFingerprints, SaveStates, SaveCarries, Shows, Ended, Writing,
       Staging
  <2>4. c \in SaveStates /\ SaveCarries(c) /\ Shows(c) /\ c.pc \in {"check", "slow"}
    BY <1>0, <2>2, <2>3 DEF SaveStates
  <2>5. save' = [save EXCEPT ![s] = c]
    BY <1>2 DEF SaveFingerprints, SaveInv
  <2> HIDE DEF c
  <2>6. ~Late(c) /\ c.pc \notin Writing /\ c.pc \notin Staging
    BY <2>4 DEF Late, Writing, Staging
  <2> QED
    BY <1>2, <2>4, <2>5, <2>6, QuietInv, SaveUpdate DEF SaveFingerprints
<1>3. CASE SaveCheckToken(s)
  <2> DEFINE p == preview[save[s].preview]
             hit == [save[s] EXCEPT !.pc = BeginWrite(s), !.current = file,
                                    !.token = TRUE]
             miss == [save[s] EXCEPT !.pc = "slow"]
             holds == p.text = save[s].text /\ p.current = file.text
                        /\ p.files = save[s].files
             c == IF holds THEN hit ELSE miss
  <2>1. holds => hit \in SaveStates /\ SaveCarries(hit) /\ Shows(hit)
    BY <1>0, <1>3 DEF SaveCheckToken, SaveStates, SaveCarries, Shows, Ended, Writing,
       Staging, DiskInv
  <2>2. miss \in SaveStates /\ SaveCarries(miss) /\ Shows(miss)
    BY <1>0, <1>3 DEF SaveCheckToken, SaveStates, SaveCarries, Shows, Ended, Writing,
       Staging
  <2>3. /\ c \in SaveStates /\ SaveCarries(c) /\ Shows(c)
        /\ c.pc \in {"stage", "temp", "slow"} /\ c.settings = save[s].settings
        /\ c.pc = "temp" => ~save[s].settings.backups
        /\ c.pc # "slow" => c.current = file
    BY <1>0, <2>1, <2>2 DEF SaveStates
  <2>4. save' = [save EXCEPT ![s] = c]
    BY <1>3 DEF SaveCheckToken, SaveInv
  <2> HIDE DEF c
  <2>5. ~Late(c) /\ (c.pc \in Writing => c.current = file)
    BY <2>3 DEF Late, Writing, Staging
  <2> QED
    BY <1>3, <2>3, <2>4, <2>5, QuietInv, SaveUpdate DEF SaveCheckToken, Writing
<1>4. CASE SaveLoad(s)
  <2> DEFINE c == [save[s] EXCEPT !.pc = "validate"]
  <2>1. save[s].settings.version \in Versions
    BY <1>0, <1>4 DEF SaveLoad, SaveCarries, Ended, Settings
  <2>2. SlotInv' /\ HeldInv'
    BY <1>4, <2>1, LoadTypes, NotedInv DEF SaveLoad, LoadFresh
  <2>3. c \in SaveStates /\ SaveCarries(c) /\ Shows(c) /\ c.pc = "validate"
    BY <1>0, <1>4 DEF SaveLoad, SaveStates, SaveCarries, Shows, Ended, Writing, Staging
  <2>4. save' = [save EXCEPT ![s] = c]
    BY <1>4 DEF SaveLoad, SaveInv
  <2> HIDE DEF c
  <2>5. ~Late(c) /\ c.pc \notin Writing /\ c.pc \notin Staging
    BY <2>3 DEF Late, Writing, Staging
  <2>6. DiskInv' /\ legacy' \in BOOLEAN /\ UNCHANGED <<file, backup, preview>>
    BY <1>4 DEF SaveLoad, DiskInv, BackupInv, diskVars, backupVars
  <2> QED
    BY <2>2, <2>3, <2>4, <2>5, <2>6, SaveUpdate
<1>5. CASE SaveValidate(s)
  <2> DEFINE c == [save[s] EXCEPT !.pc = BeginWrite(s), !.current = file]
  <2>1. c \in SaveStates /\ SaveCarries(c) /\ Shows(c)
    BY <1>0, <1>5 DEF SaveValidate, SaveStates, SaveCarries, Shows, Ended, Writing,
       Staging, DiskInv
  <2>2. /\ c.pc \in {"stage", "temp"} /\ c.settings = save[s].settings
        /\ c.pc = "temp" => ~save[s].settings.backups
        /\ c.current = file
    BY <1>0 DEF SaveStates
  <2>3. save' = [save EXCEPT ![s] = c]
    BY <1>5 DEF SaveValidate, SaveInv
  <2> HIDE DEF c
  <2>4. ~Late(c)
    BY <2>2 DEF Late
  <2> QED
    BY <1>5, <2>1, <2>2, <2>3, <2>4, QuietInv, SaveUpdate DEF SaveValidate
<1>6. CASE SaveRejected(s)
  BY <1>6, QuietInv, FailingInv DEF SaveRejected
<1> QED
  BY <1>1, <1>2, <1>3, <1>4, <1>5, <1>6

-----------------------------------------------------------------------------

\* The steps of perform_file_write that rename nothing.
LEMMA WritingInv ==
    ASSUME ProtocolInv, NEW s \in Saves,
           \/ StageBackup(s) \/ SyncTemp(s) \/ PruneLegacyBackups(s)
           \/ WriteTemp(s) \/ WriteFails(s)
    PROVE  ProtocolInv'
<1> USE DEF ProtocolInv
<1>0. save[s] \in SaveStates /\ SaveCarries(save[s]) /\ Shows(save[s])
  BY Carried
<1>1. CASE StageBackup(s)
  <2> DEFINE c == [save[s] EXCEPT !.pc = "sync", !.temp = "written"]
  <2>1. /\ c \in SaveStates /\ SaveCarries(c) /\ Shows(c) /\ c.pc = "sync"
        /\ c.current = save[s].current
    BY <1>0, <1>1 DEF StageBackup, SaveStates, SaveCarries, Shows, Ended, Writing, Staging
  <2>2. save' = [save EXCEPT ![s] = c]
    BY <1>1 DEF StageBackup, SaveInv
  <2> HIDE DEF c
  <2>3. ~Late(c) /\ save[s].pc \in Writing /\ save[s].pc \in Staging
    BY <1>1, <2>1 DEF StageBackup, Late, Writing, Staging
  <2> QED
    BY <1>1, <2>1, <2>2, <2>3, QuietInv, SaveUpdate DEF StageBackup
<1>2. CASE SyncTemp(s)
  <2> DEFINE next == IF save[s].pc = "sync" THEN "persist" ELSE "replace"
             c == [save[s] EXCEPT !.temp = "synced", !.pc = next]
  <2>0. next \in {"persist", "replace"}
    OBVIOUS
  <2> HIDE DEF next
  <2>1a. c \in SaveStates
    BY <1>0, <2>0 DEF SaveStates, Writing, Staging
  <2>1b. /\ c.pc = next /\ c.temp = "synced" /\ c.current = save[s].current
        /\ c.settings = save[s].settings /\ c.rivals = save[s].rivals
        /\ c.preview = save[s].preview /\ c.text = save[s].text
        /\ c.files = save[s].files /\ c.token = save[s].token
        /\ c.wrote = save[s].wrote
    BY <1>0 DEF SaveStates
  <2> HIDE DEF c
  <2>1c. SaveCarries(c) /\ Shows(c)
    BY <1>0, <1>2, <2>0, <2>1b DEF SyncTemp, SaveCarries, Shows, Ended, Writing, Staging
  <2>1. /\ c \in SaveStates /\ SaveCarries(c) /\ Shows(c)
        /\ c.pc = next /\ c.current = save[s].current
        /\ c.settings = save[s].settings /\ c.rivals = save[s].rivals
    BY <2>1a, <2>1b, <2>1c
  <2>2. save' = [save EXCEPT ![s] = c]
    BY <1>2 DEF SyncTemp, SaveInv, SaveStates, c, next
  <2>3. /\ save[s].pc \in Writing /\ c.pc # "prune"
        /\ c.pc \in Staging => save[s].pc \in Staging
        /\ Late(c) => Late(save[s])
    BY <1>2, <2>1 DEF SyncTemp, Late, Writing, Staging, next
  <2> QED
    BY <1>2, <2>1, <2>2, <2>3, QuietInv, SaveUpdate DEF SyncTemp
<1>3. CASE PruneLegacyBackups(s)
  <2> DEFINE c == [save[s] EXCEPT !.pc = "temp"]
  <2>1. /\ c \in SaveStates /\ SaveCarries(c) /\ Shows(c)
        /\ c.pc = "temp" /\ c.current = save[s].current
        /\ c.settings = save[s].settings /\ c.rivals = save[s].rivals
    BY <1>0, <1>3 DEF PruneLegacyBackups, SaveStates, SaveCarries, Shows, Ended, Writing,
       Staging
  <2>2. save' = [save EXCEPT ![s] = c]
    BY <1>3 DEF PruneLegacyBackups, SaveInv
  <2> HIDE DEF c
  <2>3. save[s].pc \in Writing /\ c.pc \notin Staging /\ (Late(c) => Late(save[s]))
    BY <1>3, <2>1 DEF PruneLegacyBackups, Late, Writing, Staging
  <2>4. SlotInv' /\ HeldInv' /\ DiskInv' /\ legacy' \in BOOLEAN
          /\ UNCHANGED <<file, backup, preview>>
    BY <1>3 DEF PruneLegacyBackups, SlotInv, HeldInv, Held, DiskInv, diskVars, slotVars
  <2> QED
    BY <2>1, <2>2, <2>3, <2>4, SaveUpdate
<1>4. CASE WriteTemp(s)
  <2> DEFINE c == [save[s] EXCEPT !.pc = "flush", !.temp = "written"]
  <2>1. /\ c \in SaveStates /\ SaveCarries(c) /\ Shows(c)
        /\ c.pc = "flush" /\ c.current = save[s].current
        /\ c.settings = save[s].settings /\ c.rivals = save[s].rivals
    BY <1>0, <1>4 DEF WriteTemp, SaveStates, SaveCarries, Shows, Ended, Writing, Staging
  <2>2. save' = [save EXCEPT ![s] = c]
    BY <1>4 DEF WriteTemp, SaveInv
  <2> HIDE DEF c
  <2>3. save[s].pc \in Writing /\ c.pc \notin Staging /\ (Late(c) => Late(save[s]))
    BY <1>4, <2>1 DEF WriteTemp, Late, Writing, Staging
  <2> QED
    BY <1>4, <2>1, <2>2, <2>3, QuietInv, SaveUpdate DEF WriteTemp
<1>5. CASE WriteFails(s)
  <2>1. save[s].pc # "saved"
    BY <1>5 DEF WriteFails, Writing, Staging
  <2>2. SlotInv' /\ HeldInv' /\ DiskInv' /\ legacy' \in BOOLEAN
          /\ UNCHANGED <<file, backup, preview>>
    BY <1>5, SaveAssumption DEF WriteFails, NewEvent, SlotInv, HeldInv, Held, DiskInv,
       BackupInv, diskVars, slotVars, backupVars
  <2> QED
    BY <1>5, <2>1, <2>2, FailingInv DEF WriteFails
<1> QED
  BY <1>1, <1>2, <1>3, <1>4, <1>5

\* The backup is renamed: to what the others still make of it, this save adds
\* what it read itself, which each of them covers.
LEMMA PersistBackupInv ==
    ASSUME ProtocolInv, NEW s \in Saves, PersistBackup(s)
    PROVE  ProtocolInv'
<1> USE DEF ProtocolInv, PersistBackup
<1> DEFINE c == [save[s] EXCEPT !.pc = "prune", !.temp = "none", !.rivals = Read]
<1>1. save[s] \in SaveStates /\ SaveCarries(save[s]) /\ Shows(save[s])
  BY Carried
<1>2. save[s].pc \in Writing /\ save[s].pc \in Staging /\ ~Ended(save[s])
  BY DEF Writing, Staging, Ended
<1>3. \A t \in Saves : save[t].pc \in Writing => Dated(save[t].current)
  BY DEF ReadInv
<1>4. Read \subseteq Nat
  BY <1>3 DEF Read, Dated, Copies, Writing
<1>5. /\ c \in SaveStates /\ SaveCarries(c) /\ Shows(c) /\ c.pc = "prune"
      /\ c.current = save[s].current /\ c.rivals = Read
  BY <1>1, <1>2, <1>4 DEF SaveStates, SaveCarries, Shows, Ended, Writing, Staging
<1>6. \A t \in Saves : save'[t] = IF t = s THEN c ELSE save[t]
  BY DEF SaveInv, SaveStates
<1> HIDE DEF c
<1>7. Dated(backup') /\ backup' # None
  BY <1>2, <1>3, NoneAssumption DEF Dated
<1>8. DiskInv' /\ SlotInv' /\ BackupInv' /\ PreviewInv' /\ HeldInv'
  BY <1>1, <1>7 DEF DiskInv, SlotInv, BackupInv, Dated, PreviewInv, HeldInv, Held,
     SaveCarries, Rename, slotVars
<1>9. SaveInv'
  <2>1. save' \in [Saves -> SaveStates]
    BY <1>5, <1>6 DEF SaveInv
  <2> QED
    BY <1>5, <1>6, <2>1 DEF SaveInv
<1>10. ShownInv'
  <2> SUFFICES ASSUME NEW t \in Saves
               PROVE  Shows(save[t])'
    BY DEF ShownInv
  <2>1. CASE t = s
    BY <1>5, <1>6, <2>1 DEF Shows, Ended
  <2>2. CASE t # s
    <3>1. Shows(save[t]) /\ save'[t] = save[t] /\ preview' = preview
      BY <1>6, <2>2 DEF ShownInv
    <3> QED
      BY <3>1 DEF Shows, Ended
  <2> QED
    BY <2>1, <2>2
<1>11. ReadInv'
  <2> SUFFICES ASSUME NEW t \in Saves, save'[t].pc \in Writing
               PROVE  Dated(save[t].current)'
    BY DEF ReadInv
  <2>1. save[t].pc \in Writing /\ save'[t].current = save[t].current
    BY <1>2, <1>5, <1>6
  <2> QED
    BY <1>3, <2>1 DEF Dated
<1>12. CopyInv'
  BY <1>7 DEF CopyInv
<1>13. BackedUp'
  <2> SUFFICES ASSUME NEW t \in Saves, Late(save'[t])
               PROVE  /\ backup' # None /\ Covers(save'[t], backup'.at)
                      /\ \A u \in Saves : save'[u].pc \in Staging =>
                           Covers(save'[t], save'[u].current.at)
    BY DEF BackedUp, Late, Covers
  <2>1. \A u \in Saves : save'[u].pc \in Staging =>
          save[u].pc \in Staging /\ save'[u].current = save[u].current
    BY <1>5, <1>6 DEF Staging
  <2>2. CASE t = s
    <3>1. Covers(save'[t], backup'.at)
      <4>1. save[s].current.at \in Nat
        BY <1>2, <1>3 DEF Dated, Copies
      <4>2. backup'.at = save'[t].current.at
        BY <1>5, <1>6, <2>2
      <4> QED
        BY <1>5, <1>6, <2>2, <4>1, <4>2 DEF Covers
    <3>2. \A u \in Saves : save'[u].pc \in Staging =>
            Covers(save'[t], save'[u].current.at)
      BY <1>5, <1>6, <2>1, <2>2 DEF Covers, Read
    <3> QED
      BY <1>7, <3>1, <3>2
  <2>3. CASE t # s
    BY <1>2, <1>6, <1>7, <2>1, <2>3 DEF BackedUp, Covers
  <2> QED
    BY <2>2, <2>3
<1> QED
  BY <1>8, <1>9, <1>10, <1>11, <1>12, <1>13

\* The file is written once more: whatever was read of it is of before.
LEMMA PersistFileInv ==
    ASSUME ProtocolInv, NEW s \in Saves, PersistFile(s)
    PROVE  ProtocolInv'
<1> USE DEF ProtocolInv, PersistFile
<1> DEFINE c == [IdleSave EXCEPT !.pc = "saved", !.wrote = TRUE]
<1>1. c \in SaveStates /\ SaveCarries(c) /\ Shows(c) /\ c.pc = "saved"
  BY DEF SaveStates, SaveCarries, Shows, Ended, Writing, Staging, IdleSave
<1>2. save[s].text \in Texts /\ save[s].temp = "synced"
  BY Carried DEF SaveCarries, Ended
<1>3. \A t \in Saves : save'[t] = IF t = s THEN c ELSE save[t]
  BY DEF SaveInv
<1> HIDE DEF c
<1>4. file' \in Copies /\ file'.text \in Texts /\ file'.at = file.at + 1
  BY <1>2 DEF NewText, DiskInv, Copies
<1>5. DiskInv' /\ SlotInv' /\ PreviewInv' /\ HeldInv'
  BY <1>2, <1>4 DEF DiskInv, SlotInv, PreviewInv, HeldInv, Held, Rename, slotVars
<1>6. BackupInv'
  <2>1. backup # None => Dated(backup)'
    BY <1>4 DEF BackupInv, Dated, DiskInv, Copies, backupVars
  <2> QED
    BY <2>1 DEF BackupInv, Dated, backupVars
<1>7. SaveInv'
  <2>1. save' \in [Saves -> SaveStates]
    BY <1>1, <1>3 DEF SaveInv
  <2> QED
    BY <1>1, <1>3, <2>1 DEF SaveInv
<1>8. ShownInv'
  BY <1>1, <1>3 DEF ShownInv, Shows, Ended
<1>9. ReadInv'
  <2> SUFFICES ASSUME NEW t \in Saves, save'[t].pc \in Writing
               PROVE  Dated(save[t].current)'
    BY DEF ReadInv
  <2>1. t # s /\ save'[t] = save[t]
    BY <1>1, <1>3 DEF Writing, Staging
  <2>2. Dated(save[t].current)
    BY <2>1 DEF ReadInv
  <2> QED
    BY <1>4, <2>1, <2>2 DEF Dated, DiskInv, Copies
<1>10. CopyInv' /\ BackedUp'
  BY <1>1, <1>3 DEF CopyInv, BackedUp, Late, Covers, Staging, backupVars
<1> QED
  BY <1>5, <1>6, <1>7, <1>8, <1>9, <1>10

LEMMA SavingInv ==
    ASSUME ProtocolInv, NEW s \in Saves, Saving(s)
    PROVE  ProtocolInv'
  BY ValidatingInv, WritingInv, PersistBackupInv, PersistFileInv DEF Saving

\* The other programs, the indexing service and the user's settings touch
\* neither the calls nor the backups.
LEMMA OthersInv ==
    ASSUME ProtocolInv, UNCHANGED <<backupVars, preview, save>>, DiskInv', SlotInv',
           HeldInv', file' = file \/ file'.at = file.at + 1
    PROVE  ProtocolInv'
<1> USE DEF ProtocolInv
<1>1. BackupInv' /\ ReadInv'
  <2>1. CASE file' = file
    BY <2>1 DEF backupVars, BackupInv, ReadInv, Dated
  <2>2. CASE file'.at = file.at + 1
    BY <2>2 DEF backupVars, BackupInv, ReadInv, Dated, DiskInv, Copies
  <2> QED
    BY <2>1, <2>2
<1>2. PreviewInv' /\ SaveInv' /\ ShownInv' /\ CopyInv' /\ BackedUp'
  BY DEF backupVars, PreviewInv, SaveInv, ShownInv, Shows, CopyInv, BackedUp, Late,
     Covers
<1> QED
  BY <1>1, <1>2

\* All that has a final name is synced, so a crash loses nothing of it.
LEMMA CrashInv ==
    ASSUME ProtocolInv, Crash
    PROVE  ProtocolInv'
<1> USE DEF ProtocolInv, Crash
<1>0. file' = file /\ backup' = backup
  BY DEF DiskInv, Surviving
<1>1. DiskInv' /\ BackupInv'
  BY <1>0, SaveAssumption DEF NewEvent, DiskInv, BackupInv, Dated
<1>2. PreviewInv'
  BY DEF PreviewInv, PreviewStates, PreviewCarries, FailedPreview, IdlePreview
<1>3. SlotInv' /\ HeldInv'
  <2>1. SlotInv'
    BY DEF SlotInv, NoteSlot
  <2>2. \A p \in Previews : preview'[p].pc \in {"idle", "failed"}
    BY DEF PreviewInv, FailedPreview, IdlePreview
  <2> QED
    BY <2>1, <2>2 DEF HeldInv, Held
<1>4. \A s \in Saves :
        \/ save'[s] = save[s] /\ save[s].pc \in {"idle", "saved"}
        \/ save'[s] = Failed(save[s]) /\ save[s].pc # "saved"
  OBVIOUS
<1>5. \A s \in Saves : Ended(save'[s])
  BY <1>4, Carried DEF Ended
<1>6. SaveInv'
  <2>1. \A s \in Saves : save'[s] \in SaveStates /\ SaveCarries(save'[s])
    BY <1>4, Carried
  <2> QED
    BY <2>1 DEF SaveInv
<1>7. ShownInv' /\ ReadInv' /\ CopyInv' /\ BackedUp'
  BY <1>5 DEF ShownInv, Shows, ReadInv, CopyInv, BackedUp, Late, Ended, Writing, Staging
<1> QED
  BY <1>1, <1>2, <1>3, <1>6, <1>7

LEMMA NextInv ==
    ASSUME ProtocolInv, [Next]_vars
    PROVE  ProtocolInv'
<1> USE DEF ProtocolInv
<1>1. ASSUME NEW p \in Previews, Previewing(p)
      PROVE  ProtocolInv'
  BY <1>1, PreviewingInv
<1>2. ASSUME NEW s \in Saves, Saving(s)
      PROVE  ProtocolInv'
  BY <1>2, SavingInv
<1>3. CASE ExternalEdit
  <2>1. SlotInv' /\ HeldInv'
    BY <1>3 DEF ExternalEdit, SlotInv, HeldInv, Held, slotVars
  <2>2. CASE UNCHANGED <<file, unsynced>> /\ others' = others + 1
    <3>1. DiskInv'
      BY <1>3, <2>2, SaveAssumption DEF ExternalEdit, NewEvent, DiskInv
    <3> QED
      BY <1>3, <2>1, <2>2, <3>1, OthersInv DEF ExternalEdit
  <2>3. CASE /\ file' \in [text: Texts, at: {file.at + 1}]
             /\ unsynced' = unsynced \ {"file"} /\ UNCHANGED others
    <3>1. file' \in Copies /\ file'.text \in Texts /\ file'.at = file.at + 1
      BY <2>3 DEF DiskInv, Copies
    <3>2. DiskInv'
      BY <1>3, <2>3, <3>1, SaveAssumption DEF ExternalEdit, NewEvent, DiskInv
    <3> QED
      BY <1>3, <2>1, <3>1, <3>2, OthersInv DEF ExternalEdit
  <2> QED
    BY <1>3, <2>2, <2>3 DEF ExternalEdit
<1>4. CASE IndexStored
  <2>1. settings.version \in Versions
    BY DEF DiskInv, Settings
  <2>2. DiskInv' /\ file' = file
    BY <1>4 DEF IndexStored, DiskInv, diskVars
  <2>3. SlotInv' /\ HeldInv'
    BY <1>4, <2>1, FreshTypes, NotedInv DEF IndexStored
  <2> QED
    BY <1>4, <2>2, <2>3, OthersInv DEF IndexStored
<1>5. CASE IndexHydrated
  <2>1. DiskInv' /\ file' = file
    BY <1>5, SaveAssumption DEF IndexHydrated, NewEvent, DiskInv, diskVars
  <2>2. 0 .. others \subseteq 0 .. MaxEvents
    BY SaveAssumption DEF DiskInv
  <2>3. [file: Texts, others: 0 .. others] \subseteq Collections
    BY <2>2 DEF Collections
  <2>4. settings.version \in Versions
    BY DEF DiskInv, Settings
  <2>5. slot' \in Entries
    BY <1>5, <2>3, <2>4 DEF IndexHydrated, Entries
  <2>6. SlotInv' /\ HeldInv'
    BY <1>5, <2>5, NotedInv DEF IndexHydrated
  <2> QED
    BY <1>5, <2>1, <2>6, OthersInv DEF IndexHydrated
<1>6. CASE IndexInvalidated
  <2>1. DiskInv' /\ file' = file
    BY <1>6 DEF IndexInvalidated, DiskInv, diskVars
  <2>2. SlotInv' /\ HeldInv'
    BY <1>6, NotedInv DEF IndexInvalidated
  <2> QED
    BY <1>6, <2>1, <2>2, OthersInv DEF IndexInvalidated
<1>7. CASE ChangeSettings
  <2>1. DiskInv' /\ SlotInv' /\ HeldInv' /\ file' = file
    BY <1>7, SaveAssumption DEF ChangeSettings, NewEvent, DiskInv, SlotInv, HeldInv,
       Held, slotVars
  <2> QED
    BY <1>7, <2>1, OthersInv DEF ChangeSettings
<1>8. CASE Crash
  BY <1>8, CrashInv
<1>9. CASE UNCHANGED vars
  <2>1. DiskInv' /\ SlotInv' /\ HeldInv' /\ file' = file
    BY <1>9 DEF vars, diskVars, slotVars, DiskInv, SlotInv, HeldInv, Held
  <2> QED
    BY <1>9, <2>1, OthersInv DEF vars
<1> QED
  BY <1>1, <1>2, <1>3, <1>4, <1>5, <1>6, <1>7, <1>8, <1>9 DEF Next

LEMMA Invariance == Spec => []ProtocolInv
  BY InitInv, NextInv, PTL DEF Spec

-----------------------------------------------------------------------------

\* Every reachable state is type-correct; in particular a save never writes
\* anything but the text it was called with (perform_file_write).
THEOREM SaveTypeCorrect == Spec => []TypeOK
  BY Invariance, InvariantImplies, PTL

\* A save that reports an error, or is cut off, has not replaced the file.
THEOREM FailedSavesWroteNothing == Spec => []AllOrNothing
  BY Invariance, InvariantImplies, PTL

\* Neither the file nor its backup is ever half written, at whatever point the
\* machine goes down: a temporary file is synced before it gets either name.
THEOREM FilesAlwaysWhole == Spec => []WholeFiles
  BY Invariance, InvariantImplies, PTL

\* The only step in which a save replaces the file is its renaming.
LEMMA ReplacesOnlyRenaming ==
    ASSUME ProtocolInv, Next, NEW s \in Saves, Replaces(s)
    PROVE  PersistFile(s)
<1>1. save[s].pc = "replace" /\ save'[s].pc = "saved" /\ save \in [Saves -> SaveStates]
  BY DEF Replaces, ProtocolInv, SaveInv
<1>2. \A t \in Saves : Failed(save[t]).pc = "failed"
  BY DEF Failed, IdleSave
<1>3. ~Crash
  BY <1>1, <1>2 DEF Crash
<1>4. \A p \in Previews : Previewing(p) => save' = save
  BY DEF Previewing, PreviewStart, PreviewLoad, PreviewValidate, PreviewToken,
     PreviewFails
<1>5. ExternalEdit \/ IndexStored \/ IndexHydrated \/ IndexInvalidated \/ ChangeSettings
        => save' = save
  BY DEF ExternalEdit, IndexStored, IndexHydrated, IndexInvalidated, ChangeSettings
<1>6. PICK t \in Saves : Saving(t)
  BY <1>1, <1>3, <1>4, <1>5 DEF Next
<1>7. t = s
  BY <1>1, <1>6 DEF Saving, SaveStart, SaveFingerprints, SaveCheckToken, SaveLoad,
     SaveValidate, SaveRejected, StageBackup, SyncTemp, PersistBackup,
     PruneLegacyBackups, WriteTemp, PersistFile, WriteFails
<1> QED
  BY <1>1, <1>2, <1>6, <1>7 DEF Saving, SaveStart, SaveFingerprints, SaveCheckToken,
     SaveLoad, SaveValidate, SaveRejected, StageBackup, SyncTemp, PersistBackup,
     PruneLegacyBackups, WriteTemp, WriteFails, Writing, Staging

\* A save that skips validation replaces what its preview showed by what it
\* showed, or something written since the token was checked; and the text was
\* validated against the index that the token names, or the slot was replaced
\* before the token was issued.
THEOREM ShownAlwaysReplaced == Spec => ShownIsReplaced
<1> DEFINE Shown(s) ==
             LET p == preview[save[s].preview]
             IN  /\ file'.text = p.text
                 /\ file.text = p.current \/ file.at > save[s].current.at
                 /\ p.index = save[s].files \/ save[s].preview \in moved
           AllShown == \A s \in Saves : Replaces(s) /\ save[s].token => Shown(s)
<1>1. ProtocolInv /\ [Next]_vars => [AllShown]_vars
  <2> SUFFICES ASSUME ProtocolInv, Next, NEW s \in Saves, Replaces(s), save[s].token
               PROVE  Shown(s)
    BY DEF AllShown
  <2>1. SaveCarries(save[s]) /\ Shows(save[s]) /\ ~Ended(save[s])
    BY Carried DEF Replaces, Ended
  <2>2. PersistFile(s)
    BY ReplacesOnlyRenaming
  <2>3. file'.text = preview[save[s].preview].text
    BY <2>1, <2>2 DEF PersistFile, NewText, Shows
  <2>4. Dated(save[s].current)
    BY DEF ProtocolInv, ReadInv, Replaces, Writing
  <2>5. file.text = preview[save[s].preview].current \/ file.at > save[s].current.at
    BY <2>1, <2>4 DEF Shows, Dated, Copies, ProtocolInv, DiskInv
  <2>6. \/ preview[save[s].preview].index = save[s].files
        \/ save[s].preview \in moved
    BY <2>1 DEF Shows, SaveCarries, ProtocolInv, HeldInv, Held
  <2> QED
    BY <2>3, <2>5, <2>6
<1> QED
  BY <1>1, Invariance, PTL DEF Spec, ShownIsReplaced

\* A recovery copy, new or old, is never lost (prune_legacy_backups after the
\* new backup is in place).
THEOREM RecoveryCopyKept == Spec => CopyKept
<1> DEFINE Keeps == legacy \/ backup # None => legacy' \/ backup' # None
<1>1. ProtocolInv /\ [Next]_vars => [Keeps]_vars
  <2> SUFFICES ASSUME ProtocolInv, [Next]_vars
               PROVE  Keeps
    OBVIOUS
  <2>1. ASSUME NEW s \in Saves, PersistBackup(s)
        PROVE  Keeps
    BY <2>1, Carried, NoneAssumption DEF PersistBackup, SaveCarries, Writing, Staging
  <2>2. ASSUME NEW s \in Saves, PruneLegacyBackups(s)
        PROVE  Keeps
    BY <2>2 DEF PruneLegacyBackups, ProtocolInv, CopyInv
  <2>3. ASSUME NEW s \in Saves, Saving(s), ~PersistBackup(s), ~PruneLegacyBackups(s)
        PROVE  UNCHANGED backupVars
    BY <2>3 DEF Saving, SaveStart, SaveFingerprints, SaveCheckToken, SaveLoad,
       SaveValidate, SaveRejected, StageBackup, SyncTemp, WriteTemp, PersistFile,
       WriteFails
  <2>4. ASSUME NEW p \in Previews, Previewing(p)
        PROVE  UNCHANGED backupVars
    BY <2>4 DEF Previewing, PreviewStart, PreviewLoad, PreviewValidate, PreviewToken,
       PreviewFails
  <2>5. ExternalEdit \/ IndexStored \/ IndexHydrated \/ IndexInvalidated
          \/ ChangeSettings => UNCHANGED backupVars
    BY DEF ExternalEdit, IndexStored, IndexHydrated, IndexInvalidated, ChangeSettings
  <2>6. Crash => UNCHANGED backupVars
    BY DEF Crash, Surviving, ProtocolInv, DiskInv, backupVars
  <2> QED
    BY <2>1, <2>2, <2>3, <2>4, <2>5, <2>6 DEF Next, vars, backupVars
<1> QED
  BY <1>1, Invariance, PTL DEF Spec, CopyKept

\* However saves overlap, with each other and with the edits of other programs,
\* the backup is no older than what the save that replaces the file had read, or
\* what another had read that was about to make its backup at the same time.
THEOREM PreviousVersionKept == Spec => PreviousKept
<1> DEFINE Left(s) ==
             /\ backup # None
             /\ backup.at >= save[s].current.at \/ backup.at \in save[s].rivals
             /\ backup.at <= file.at
             /\ backup.at = file.at => backup.text = file.text
           Kept == \A s \in Saves : Replaces(s) /\ save[s].settings.backups => Left(s)
<1>1. ProtocolInv /\ [Next]_vars => [Kept]_vars
  BY DEF ProtocolInv, BackedUp, Late, Covers, Replaces, BackupInv, Dated
<1> QED
  BY <1>1, Invariance, PTL DEF Spec, PreviousKept

=============================================================================
