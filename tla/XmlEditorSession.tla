--------------------------- MODULE XmlEditorSession ---------------------------
(***************************************************************************)
(* One editing session of RimEdit's front end: the hook behind an editor   *)
(* tab (src/features/xml-editor/hooks/useXmlEditorSession.ts) with the     *)
(* guards its pane and the save dialog put on it. The buffer is changed by *)
(* the user (raw typing, form edits, undo, redo, inserting a Def) and by   *)
(* answers of the backend that arrive when they like. JavaScript runs to   *)
(* the next await, so an action is what one callback does up to there; and *)
(* what waits for a settled promise runs before the next event (Ready).    *)
(*                                                                         *)
(* A text is the set of the user's edits it contains and the kind of its   *)
(* line ends. A snapshot of the history adds whether it has been parsed.   *)
(* Diagnostics, the selected Def and the validation refresh, which parses  *)
(* the present text again in place, are left out, and so are patch files,  *)
(* whose form edits the raw text. The session is loaded and editable.      *)
(***************************************************************************)
EXTENDS Naturals, Sequences, SequencesExt

CONSTANTS
    Requests,  \* the previews that may be asked for
    Saves,     \* the saves that may be confirmed
    LineEnds,  \* bound: the kinds of line ends the file may open with
    MaxEdits,  \* bound: edits the user makes
    None       \* null

ASSUME SessionAssumption ==
    /\ MaxEdits \in Nat
    /\ None \notin Saves
    /\ LineEnds \subseteq {"lf", "crlf", "mixed"}

VARIABLES
    about,      \* the document is an About.xml, whose form is not gated
    mode,       \* "form" or "raw"
    switching,  \* edits a switch to raw mode waits for, or None
    history,    \* past, present, future
    latest,     \* latestRawXmlRef
    base,       \* baseRawXml
    lineEnding, \* lineEndingRef
    preTyping,  \* preTypingSnapshotRef
    debounce,   \* text the debounce timer will parse, or None
    parses,     \* debounced parses in flight
    formEdits,  \* the chain of pendingFormEditRef, its head in flight
    insertion,  \* the Def being inserted
    preview,    \* savePreview and savePreviewXmlRef, or None
    saveBusy,
    request,    \* requestSavePreview and loadFullSavePreview calls
    save,       \* confirmSave calls
    disk,       \* the file
    lastWrite,  \* history: the save that wrote it last, or None
    lastAnswer, \* history: the save whose answer came last, or None
    edits       \* edits made so far

bufferVars == <<history, latest, preTyping>>
typingVars == <<debounce, parses>>
modeVars   == <<about, mode, switching, lineEnding>>
fileVars   == <<disk, lastWrite>>
baseVars   == <<base, lastAnswer>>
saveVars   == <<baseVars, preview, saveBusy, request, save, fileVars>>
vars == <<bufferVars, typingVars, modeVars, saveVars, formEdits, insertion, edits>>

-----------------------------------------------------------------------------
(* Data *)

Marks == 1 .. MaxEdits

Texts == [edits: SUBSET Marks, eol: {"lf", "crlf", "mixed"}]

Snapshots == [text: Texts, parsed: BOOLEAN]

Histories == [past: Seq(Snapshots), present: Snapshots, future: Seq(Snapshots)]

FormEdits == [mark: Marks, base: Texts \cup {None}]

Insertions == [pc: {"idle", "drafts", "flush", "sent"}, wait: SUBSET Marks,
               base: Texts \cup {None}, mark: Marks \cup {0}]

Previews == [proposed: Texts, changed: BOOLEAN]

RequestStates == [pc: {"idle", "drafts", "flush", "sent", "answered", "done"},
                  full: BOOLEAN, wait: SUBSET Marks, flushed: Texts \cup {None},
                  proposed: Texts \cup {None}, changed: BOOLEAN]

SaveStates == [pc: {"idle", "sent", "written", "parse", "done"},
               proposed: Texts \cup {None}]

\* detectLineEnding: one "\r\n" is enough.
DetectLineEnding(t) == IF t.eol = "lf" THEN "lf" ELSE "crlf"

ApplyLineEnding(t) == [t EXCEPT !.eol = lineEnding]

\* What the backend makes of a text: the edit is in it, and what is inserted
\* has "\n" where the rest may have "\r\n".
Applied(t, m) ==
    {[edits |-> t.edits \cup {m}, eol |-> e] :
        e \in {t.eol} \cup (IF t.eol = "lf" THEN {} ELSE {"mixed"})}

IdleRequest == [pc |-> "idle", full |-> FALSE, wait |-> {}, flushed |-> None,
                proposed |-> None, changed |-> FALSE]

IdleSave == [pc |-> "idle", proposed |-> None]

DoneRequest == [IdleRequest EXCEPT !.pc = "done"]

DoneSave == [IdleSave EXCEPT !.pc = "done"]

IdleInsertion == [pc |-> "idle", wait |-> {}, base |-> None, mark |-> 0]

Present == history.present.text

ParseAnswers == {"document", "no document", "failed"}

Queued == {formEdits[i].mark : i \in DOMAIN formEdits}

TypeOK ==
    /\ about \in BOOLEAN
    /\ mode \in {"form", "raw"}
    /\ switching \in (SUBSET Marks) \cup {None}
    /\ history \in Histories
    /\ latest \in Texts /\ base \in Texts /\ disk \in Texts
    /\ lineEnding \in {"lf", "crlf"}
    /\ preTyping \in Snapshots \cup {None}
    /\ debounce \in Texts \cup {None}
    /\ parses \in SUBSET [xml: Texts, before: Snapshots \cup {None}]
    /\ formEdits \in Seq(FormEdits)
    /\ insertion \in Insertions
    /\ preview \in Previews \cup {None}
    /\ saveBusy \in BOOLEAN
    /\ request \in [Requests -> RequestStates]
    /\ save \in [Saves -> SaveStates]
    /\ lastWrite \in Saves \cup {None} /\ lastAnswer \in Saves \cup {None}
    /\ edits \in 0 .. MaxEdits

Init ==
    /\ about \in BOOLEAN
    /\ mode \in {"form", "raw"}
    /\ switching = None
    /\ disk \in [edits: {{}}, eol: LineEnds]
    /\ base = disk /\ latest = disk
    /\ lastWrite = None /\ lastAnswer = None
    /\ lineEnding = DetectLineEnding(disk)
    /\ \E ok \in BOOLEAN :
         /\ history = [past |-> <<>>, present |-> [text |-> disk, parsed |-> ok],
                       future |-> <<>>]
         /\ mode = "form" => ok
         /\ about /\ ok => mode = "form"
    /\ preTyping = None /\ debounce = None /\ parses = {}
    /\ formEdits = <<>> /\ insertion = IdleInsertion
    /\ preview = None /\ saveBusy = FALSE
    /\ request = [q \in Requests |-> IdleRequest]
    /\ save = [s \in Saves |-> IdleSave]
    /\ edits = 0

-----------------------------------------------------------------------------
(* Helpers *)

NewEdit == edits < MaxEdits /\ edits' = edits + 1
Mark == edits + 1

\* setHistory with a new present: the old one can be undone, nothing redone.
Push(h, snapshot) ==
    [past |-> Append(h.past, h.present), present |-> snapshot, future |-> <<>>]

ClearPreviewState == preview' = None

\* Undo and redo are disabled while a form commit is pending, but not by the
\* About form, which commits without the form controller.
HistoryEnabled == about \/ formEdits = <<>>

\* isBufferValid: some parsed snapshot is left to show.
IsBufferValid ==
    \/ history.present.parsed
    \/ \E i \in DOMAIN history.past : history.past[i].parsed
    \/ preTyping # None /\ preTyping.parsed

-----------------------------------------------------------------------------
(* Raw typing *)

UpdateRawXml ==
    /\ mode = "raw"
    /\ NewEdit
    /\ LET xml == [edits |-> Present.edits \cup {Mark}, eol |-> "lf"]
       IN  /\ latest' = xml
           /\ history' = [history EXCEPT !.present = [text |-> xml, parsed |-> FALSE]]
           /\ debounce' = xml
    /\ preTyping' = IF preTyping = None THEN history.present ELSE preTyping
    /\ ClearPreviewState
    /\ UNCHANGED <<modeVars, baseVars, saveBusy, request, save, fileVars,
                   parses, formEdits, insertion>>

DebounceExpires ==
    /\ debounce # None
    /\ parses' = parses \cup {[xml |-> debounce, before |-> preTyping]}
    /\ debounce' = None /\ preTyping' = None
    /\ UNCHANGED <<modeVars, saveVars, history, latest, formEdits, insertion,
                   edits>>

\* Slip: the answer is applied to whatever the buffer is now.
BufferParsedUnchecked(p, answer) ==
    /\ p \in parses
    /\ parses' = parses \ {p}
    /\ LET next == [text |-> p.xml, parsed |-> answer = "document"]
       IN  history' =
             IF p.before # None /\ p.before.text # p.xml
             THEN [past |-> Append(history.past, p.before), present |-> next,
                   future |-> <<>>]
             ELSE [history EXCEPT !.present = next,
                                  !.future = IF answer = "failed" THEN @ ELSE <<>>]
    /\ UNCHANGED <<modeVars, saveVars, latest, preTyping, debounce, formEdits,
                   insertion, edits>>

\* The answer, which may have found no document, or the failure of a debounced
\* parse.
BufferParsed(p, answer) ==
    /\ p \in parses
    /\ parses' = parses \ {p}
    /\ LET next == [text |-> p.xml, parsed |-> answer = "document"]
       IN  history' =
             IF Present # p.xml THEN history
             ELSE IF p.before # None /\ p.before.text # p.xml
             THEN [past |-> Append(history.past, p.before), present |-> next,
                   future |-> <<>>]
             ELSE [history EXCEPT !.present = next,
                                  !.future = IF answer = "failed" THEN @ ELSE <<>>]
    /\ UNCHANGED <<modeVars, saveVars, latest, preTyping, debounce, formEdits,
                   insertion, edits>>

-----------------------------------------------------------------------------
(* Undo, redo, mode *)

Undo ==
    /\ HistoryEnabled /\ history.past # <<>>
    /\ history' = [past |-> Front(history.past), present |-> Last(history.past),
                   future |-> <<history.present>> \o history.future]
    /\ latest' = Last(history.past).text
    /\ ClearPreviewState
    /\ UNCHANGED <<modeVars, typingVars, preTyping, baseVars, saveBusy, request,
                   save, fileVars, formEdits, insertion, edits>>

Redo ==
    /\ HistoryEnabled /\ history.future # <<>>
    /\ history' = [past |-> Append(history.past, history.present),
                   present |-> Head(history.future), future |-> Tail(history.future)]
    /\ latest' = Head(history.future).text
    /\ ClearPreviewState
    /\ UNCHANGED <<modeVars, typingVars, preTyping, baseVars, saveBusy, request,
                   save, fileVars, formEdits, insertion, edits>>

\* Leaving the form first commits its drafts.
RequestRaw ==
    /\ mode = "form" /\ switching = None
    /\ switching' = Queued
    /\ UNCHANGED <<about, mode, lineEnding, bufferVars, typingVars, saveVars,
                   formEdits, insertion, edits>>

SwitchToRaw ==
    /\ switching # None /\ switching \cap Queued = {}
    /\ switching' = None /\ mode' = "raw"
    /\ UNCHANGED <<about, lineEnding, bufferVars, typingVars, saveVars,
                   formEdits, insertion, edits>>

SwitchToForm ==
    /\ mode = "raw" /\ history.present.parsed
    /\ mode' = "form"
    /\ UNCHANGED <<about, switching, lineEnding, bufferVars, typingVars,
                   saveVars, formEdits, insertion, edits>>

-----------------------------------------------------------------------------
(* Form edits: applyFormEdits *)

\* A field changes, which closes the preview, and its edit is committed.
QueueFormEdit ==
    /\ mode = "form"
    /\ NewEdit
    /\ formEdits' = Append(formEdits, [mark |-> Mark, base |-> None])
    /\ preview' = IF about THEN preview ELSE None
    /\ UNCHANGED <<modeVars, bufferVars, typingVars, baseVars, saveBusy,
                   request, save, fileVars, insertion>>

SendFormEdit ==
    /\ formEdits # <<>> /\ formEdits[1].base = None
    /\ formEdits' = [formEdits EXCEPT ![1].base = latest]
    /\ UNCHANGED <<modeVars, bufferVars, typingVars, saveVars, insertion, edits>>

\* Whoever waits for the form's drafts to be committed gives up when the commit
\* of one of them rejects. The About form swallows the rejection.
Reject(m) ==
    /\ switching' = IF switching # None /\ m \in switching /\ ~about
                    THEN None ELSE switching
    /\ request' = [q \in Requests |->
         IF request[q].pc = "drafts" /\ m \in request[q].wait /\ ~about
         THEN DoneRequest ELSE request[q]]
    /\ insertion' = IF insertion.pc = "drafts" /\ m \in insertion.wait
                    THEN IdleInsertion ELSE insertion

\* The result replaces the buffer, also one that changed meanwhile. The form
\* controller then rejects the commit of a form that has been edited since, or
\* rebuilt.
FormEditApplied(stale) ==
    /\ formEdits # <<>> /\ formEdits[1].base # None
    /\ stale => ~about /\ (Len(formEdits) > 1 \/ latest # formEdits[1].base)
    /\ formEdits' = Tail(formEdits)
    /\ \E xml \in Applied(formEdits[1].base, formEdits[1].mark) :
         /\ latest' = xml
         /\ preview' = IF latest # xml \/ stale THEN None ELSE preview
         /\ history' =
              IF Present = xml
              THEN [history EXCEPT !.present = [text |-> xml, parsed |-> TRUE]]
              ELSE Push(history, [text |-> xml, parsed |-> TRUE])
    /\ IF stale THEN Reject(formEdits[1].mark)
       ELSE UNCHANGED <<switching, request, insertion>>
    /\ UNCHANGED <<about, mode, lineEnding, typingVars, preTyping, baseVars,
                   saveBusy, save, fileVars, edits>>

FormEditFails ==
    /\ formEdits # <<>> /\ formEdits[1].base # None
    /\ formEdits' = Tail(formEdits)
    /\ Reject(formEdits[1].mark)
    /\ UNCHANGED <<about, mode, lineEnding, bufferVars, typingVars, baseVars,
                   preview, saveBusy, save, fileVars, edits>>

-----------------------------------------------------------------------------
(* Inserting a Def: insertDefFromTemplate and its two siblings *)

RequestInsert ==
    /\ insertion.pc = "idle" /\ IsBufferValid /\ ~about
    /\ NewEdit
    /\ insertion' = [pc |-> "drafts", base |-> None, mark |-> Mark,
                     wait |-> IF mode = "form" THEN Queued ELSE {}]
    /\ UNCHANGED <<modeVars, bufferVars, typingVars, saveVars, formEdits>>

InsertDefFromTemplate ==
    /\ insertion.pc = "drafts" /\ insertion.wait \cap Queued = {}
    /\ insertion' = [insertion EXCEPT !.pc = "flush", !.wait = Queued]
    /\ UNCHANGED <<modeVars, bufferVars, typingVars, saveVars, formEdits, edits>>

SendInsert ==
    /\ insertion.pc = "flush" /\ insertion.wait \cap Queued = {}
    /\ insertion' = [insertion EXCEPT !.pc = "sent", !.base = latest]
    /\ UNCHANGED <<modeVars, bufferVars, typingVars, saveVars, formEdits, edits>>

\* A buffer that changed meanwhile is kept and the insertion refused.
DefInserted ==
    /\ insertion.pc = "sent"
    /\ insertion' = IdleInsertion
    /\ IF latest # insertion.base
       THEN UNCHANGED <<history, latest, preview>>
       ELSE \E xml \in Applied(insertion.base, insertion.mark) :
              /\ latest' = xml
              /\ history' = Push(history, [text |-> xml, parsed |-> TRUE])
              /\ ClearPreviewState
    /\ UNCHANGED <<modeVars, typingVars, preTyping, baseVars, saveBusy, request,
                   save, fileVars, formEdits, edits>>

InsertFails ==
    /\ insertion.pc = "sent"
    /\ insertion' = IdleInsertion
    /\ UNCHANGED <<modeVars, bufferVars, typingVars, saveVars, formEdits, edits>>

-----------------------------------------------------------------------------
(* Save preview: requestSavePreview, loadFullSavePreview *)

\* The button, the palette or the shortcut. The form's drafts are committed
\* first, and only then is the session busy.
ClickPreview(q) ==
    /\ request[q].pc = "idle" /\ ~saveBusy /\ IsBufferValid
    /\ request' = [request EXCEPT ![q] = [IdleRequest EXCEPT !.pc = "drafts",
                     !.wait = IF mode = "form" THEN Queued ELSE {}]]
    /\ UNCHANGED <<modeVars, bufferVars, typingVars, baseVars, preview,
                   saveBusy, save, fileVars, formEdits, insertion, edits>>

RequestSavePreview(q) ==
    /\ request[q].pc = "drafts" /\ request[q].wait \cap Queued = {}
    /\ saveBusy' = TRUE
    /\ request' = [request EXCEPT ![q].pc = "flush", ![q].wait = Queued]
    /\ UNCHANGED <<modeVars, bufferVars, typingVars, baseVars, preview, save,
                   fileVars, formEdits, insertion, edits>>

InvokePreview(q) ==
    /\ request[q].pc = "flush" /\ request[q].wait \cap Queued = {}
    /\ request' = [request EXCEPT ![q].pc = "sent", ![q].flushed = latest,
                     ![q].proposed = ApplyLineEnding(latest)]
    /\ UNCHANGED <<modeVars, bufferVars, typingVars, baseVars, preview,
                   saveBusy, save, fileVars, formEdits, insertion, edits>>

LoadFullSavePreview(q) ==
    /\ request[q].pc = "idle" /\ preview # None /\ ~saveBusy
    /\ saveBusy' = TRUE
    /\ request' = [request EXCEPT ![q] = [IdleRequest EXCEPT !.pc = "sent",
                     !.full = TRUE, !.proposed = preview.proposed]]
    /\ UNCHANGED <<modeVars, bufferVars, typingVars, baseVars, preview, save,
                   fileVars, formEdits, insertion, edits>>

\* The backend compares the proposed text with the file.
PreviewAnswered(q) ==
    /\ request[q].pc = "sent"
    /\ request' = [request EXCEPT ![q].pc = "answered",
                     ![q].changed = (disk # request[q].proposed)]
    /\ UNCHANGED <<modeVars, bufferVars, typingVars, baseVars, preview,
                   saveBusy, save, fileVars, formEdits, insertion, edits>>

\* Slip: the answer opens the dialog whatever the buffer is by now.
PreviewReturnsUnchecked(q) ==
    /\ request[q].pc = "answered"
    /\ preview' = [proposed |-> request[q].proposed, changed |-> request[q].changed]
    /\ saveBusy' = FALSE
    /\ request' = [request EXCEPT ![q] = DoneRequest]
    /\ UNCHANGED <<modeVars, bufferVars, typingVars, baseVars, save, fileVars,
                   formEdits, insertion, edits>>

PreviewReturns(q) ==
    /\ request[q].pc = "answered"
    /\ preview' =
         IF \/ ~request[q].full /\ latest = request[q].flushed
            \/ /\ request[q].full
               /\ preview # None /\ preview.proposed = request[q].proposed
         THEN [proposed |-> request[q].proposed, changed |-> request[q].changed]
         ELSE preview
    /\ saveBusy' = FALSE
    /\ request' = [request EXCEPT ![q] = DoneRequest]
    /\ UNCHANGED <<modeVars, bufferVars, typingVars, baseVars, save, fileVars,
                   formEdits, insertion, edits>>

PreviewFails(q) ==
    /\ request[q].pc = "sent"
    /\ saveBusy' = FALSE
    /\ request' = [request EXCEPT ![q] = DoneRequest]
    /\ UNCHANGED <<modeVars, bufferVars, typingVars, baseVars, preview, save,
                   fileVars, formEdits, insertion, edits>>

\* Cancel and the close button stay enabled while the session is busy.
ClearSavePreview ==
    /\ preview # None
    /\ ClearPreviewState
    /\ UNCHANGED <<modeVars, bufferVars, typingVars, baseVars, saveBusy,
                   request, save, fileVars, formEdits, insertion, edits>>

-----------------------------------------------------------------------------
(* Saving: confirmSave *)

ConfirmSave(s) ==
    /\ save[s].pc = "idle" /\ preview # None /\ preview.changed /\ ~saveBusy
    /\ saveBusy' = TRUE
    /\ save' = [save EXCEPT ![s] = [pc |-> "sent", proposed |-> preview.proposed]]
    /\ UNCHANGED <<modeVars, bufferVars, typingVars, baseVars, preview, request,
                   fileVars, formEdits, insertion, edits>>

\* The backend replaces the file, or reports an error and leaves it.
FileWritten(s) ==
    /\ save[s].pc = "sent"
    /\ disk' = save[s].proposed /\ lastWrite' = s
    /\ save' = [save EXCEPT ![s].pc = "written"]
    /\ UNCHANGED <<modeVars, bufferVars, typingVars, baseVars, preview,
                   saveBusy, request, formEdits, insertion, edits>>

SaveFails(s) ==
    /\ save[s].pc = "sent"
    /\ saveBusy' = FALSE
    /\ save' = [save EXCEPT ![s] = DoneSave]
    /\ UNCHANGED <<modeVars, bufferVars, typingVars, baseVars, preview, request,
                   fileVars, formEdits, insertion, edits>>

\* Slip: the baseline follows only when the buffer is still the saved text.
SaveReturnsUnlessChanged(s) ==
    /\ save[s].pc = "written"
    /\ lastAnswer' = s
    /\ preview' = None
    /\ IF latest # save[s].proposed
       THEN /\ saveBusy' = FALSE
            /\ save' = [save EXCEPT ![s] = DoneSave]
            /\ UNCHANGED base
       ELSE /\ base' = save[s].proposed
            /\ save' = [save EXCEPT ![s].pc = "parse"]
            /\ UNCHANGED saveBusy
    /\ UNCHANGED <<modeVars, bufferVars, typingVars, request, fileVars,
                   formEdits, insertion, edits>>

\* The baseline always follows the file. Only if the buffer is still the saved
\* text is it parsed again.
SaveReturns(s) ==
    /\ save[s].pc = "written"
    /\ base' = save[s].proposed /\ lastAnswer' = s
    /\ preview' = None
    /\ IF latest # save[s].proposed
       THEN /\ saveBusy' = FALSE
            /\ save' = [save EXCEPT ![s] = DoneSave]
       ELSE /\ save' = [save EXCEPT ![s].pc = "parse"]
            /\ UNCHANGED saveBusy
    /\ UNCHANGED <<modeVars, bufferVars, typingVars, request, fileVars,
                   formEdits, insertion, edits>>

\* The parsed text becomes the present; nothing compares it with the buffer.
SavedTextParsed(s) ==
    /\ save[s].pc = "parse"
    /\ saveBusy' = FALSE
    /\ save' = [save EXCEPT ![s] = DoneSave]
    /\ history' = [history EXCEPT
                     !.present = [text |-> save[s].proposed, parsed |-> TRUE]]
    /\ UNCHANGED <<modeVars, typingVars, latest, preTyping, baseVars, preview,
                   request, fileVars, formEdits, insertion, edits>>

SavedParseFails(s) ==
    /\ save[s].pc = "parse"
    /\ saveBusy' = FALSE
    /\ save' = [save EXCEPT ![s] = DoneSave]
    /\ UNCHANGED <<modeVars, bufferVars, typingVars, baseVars, preview, request,
                   fileVars, formEdits, insertion, edits>>

-----------------------------------------------------------------------------

UserActs ==
    \/ UpdateRawXml \/ Undo \/ Redo \/ RequestRaw \/ SwitchToForm \/ QueueFormEdit
    \/ RequestInsert \/ ClearSavePreview
    \/ \E q \in Requests : ClickPreview(q) \/ LoadFullSavePreview(q)
    \/ \E s \in Saves : ConfirmSave(s)

Continues ==
    \/ SwitchToRaw \/ SendFormEdit \/ InsertDefFromTemplate \/ SendInsert
    \/ \E q \in Requests : RequestSavePreview(q) \/ InvokePreview(q)

\* A promise has settled whose continuation has not run: the guards of Continues.
Ready ==
    \/ switching # None /\ switching \cap Queued = {}
    \/ formEdits # <<>> /\ formEdits[1].base = None
    \/ insertion.pc \in {"drafts", "flush"} /\ insertion.wait \cap Queued = {}
    \/ \E q \in Requests :
          request[q].pc \in {"drafts", "flush"} /\ request[q].wait \cap Queued = {}

Answered ==
    \/ \E p \in parses, answer \in ParseAnswers : BufferParsed(p, answer)
    \/ \E stale \in BOOLEAN : FormEditApplied(stale)
    \/ FormEditFails \/ DefInserted \/ InsertFails
    \/ \E q \in Requests : PreviewAnswered(q) \/ PreviewReturns(q) \/ PreviewFails(q)
    \/ \E s \in Saves :
          FileWritten(s) \/ SaveFails(s) \/ SaveReturns(s) \/ SavedTextParsed(s)
             \/ SavedParseFails(s)

Next ==
    \/ Continues
    \/ ~Ready /\ (UserActs \/ DebounceExpires \/ Answered)

Spec == Init /\ [][Next]_vars

-----------------------------------------------------------------------------
(* Properties *)

\* What the dialog would save is the buffer: an answer that arrives after an
\* edit, an undo or a cancellation never brings an older text back.
PreviewCurrent ==
    preview # None => preview.proposed = ApplyLineEnding(latest)

\* The baseline that "dirty" compares with is what is on disk, whatever was typed
\* while the write was in flight: the answer of the save that wrote the file last
\* brings it, unless the answer of an earlier one comes after that.
BaselineIsFile == lastAnswer = lastWrite => base = disk

\* The visible text is never lost to an answer of the backend: it stays, or
\* undo leads back to it.
TextKept ==
    \/ history'.present.text = Present
    \/ \E i \in DOMAIN history'.past : history'.past[i].text = Present

\* ... by any answer but that of the parse after a save.
AnswersKeepText ==
    [][edits' = edits /\ (~Undo /\ ~Redo)
         /\ (\A s \in Saves : save[s].pc = "parse" => save'[s] = save[s]) => TextKept]_vars

\* A newer edit survives a save that was on its way (the confirmSave comment
\* and its regression test).
SaveKeepsText ==
    [][edits' = edits /\ ~Undo /\ ~Redo => TextKept]_vars

=============================================================================
