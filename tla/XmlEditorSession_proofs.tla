------------------------ MODULE XmlEditorSession_proofs ------------------------
(***************************************************************************)
(* Theorems about XmlEditorSession, for every value of its constants: type *)
(* correctness, that the save dialog never shows an older text than the    *)
(* buffer, that no answer but that of the parse after a save loses the     *)
(* visible text, and that the baseline is the file once the save that      *)
(* wrote it last is the one answered last, however saves overlap.          *)
(*                                                                         *)
(* Neither TypeOK nor PreviewCurrent is inductive: what an answer of the   *)
(* backend brings is a text only because the call it answers carried one,  *)
(* and it is the buffer's only because a preview was asked for with the    *)
(* flushed buffer and the file's line ends (RequestCarries).               *)
(***************************************************************************)
EXTENDS XmlEditorSession, TLAPS

USE DEF fileVars, baseVars

\* The invariant, in parts that each name few variables.
BufferInv ==
    /\ history \in Histories
    /\ latest \in Texts
    /\ preTyping \in Snapshots \cup {None}

TypingInv ==
    /\ debounce \in Texts \cup {None}
    /\ parses \in SUBSET [xml: Texts, before: Snapshots \cup {None}]

ModeInv ==
    /\ about \in BOOLEAN
    /\ mode \in {"form", "raw"}
    /\ switching \in (SUBSET Marks) \cup {None}
    /\ lineEnding \in {"lf", "crlf"}

FileInv ==
    /\ base \in Texts /\ disk \in Texts /\ saveBusy \in BOOLEAN
    /\ lastWrite \in Saves \cup {None} /\ lastAnswer \in Saves \cup {None}

EditsInv == edits \in 0 .. MaxEdits

FormInv == formEdits \in Seq(FormEdits)

InsertionInv ==
    /\ insertion \in Insertions
    /\ insertion.pc # "idle" => insertion.mark \in Marks
    /\ insertion.pc = "sent" => insertion.base \in Texts

PreviewInv == preview \in Previews \cup {None} /\ PreviewCurrent

RequestCarries(r) ==
    r.pc \in {"sent", "answered"} =>
        /\ r.proposed \in Texts
        /\ ~r.full => r.proposed = ApplyLineEnding(r.flushed)

RequestInv ==
    /\ request \in [Requests -> RequestStates]
    /\ \A q \in Requests : RequestCarries(request[q])

SaveInv ==
    /\ save \in [Saves -> SaveStates]
    /\ \A s \in Saves : save[s].pc \in {"sent", "written", "parse"} =>
          save[s].proposed \in Texts

SessionInv ==
    /\ BufferInv /\ TypingInv /\ ModeInv /\ FileInv /\ EditsInv
    /\ FormInv /\ InsertionInv /\ PreviewInv /\ RequestInv /\ SaveInv

-----------------------------------------------------------------------------
(* Data *)

\* What the operators on texts return.
LEMMA TextTypes ==
    ASSUME NEW t \in Texts
    PROVE  /\ lineEnding \in {"lf", "crlf"} => ApplyLineEnding(t) \in Texts
           /\ \A m \in Marks : Applied(t, m) \subseteq Texts
           /\ \A m \in Marks : [edits |-> t.edits \cup {m}, eol |-> "lf"] \in Texts
  BY DEF Texts, ApplyLineEnding, Applied

\* A new present keeps a history a history.
LEMMA HistoryTypes ==
    ASSUME NEW h \in Histories, NEW s \in Snapshots
    PROVE  /\ Push(h, s) \in Histories
           /\ [h EXCEPT !.present = s] \in Histories
           /\ [h EXCEPT !.present = s, !.future = <<>>] \in Histories
           /\ \A b \in Snapshots : [past |-> Append(h.past, b), present |-> s,
                                    future |-> <<>>] \in Histories
<1>1. /\ h.past \in Seq(Snapshots) /\ h.present \in Snapshots
      /\ h.future \in Seq(Snapshots)
  BY DEF Histories
<1>2. <<>> \in Seq(Snapshots)
  OBVIOUS
<1>3. \A b \in Snapshots : Append(h.past, b) \in Seq(Snapshots)
  BY <1>1
<1>4. /\ [h EXCEPT !.present = s] \in Histories
      /\ [h EXCEPT !.present = s, !.future = <<>>] \in Histories
  BY <1>2 DEF Histories
<1>5. \A b \in Snapshots : [past |-> Append(h.past, b), present |-> s,
                            future |-> <<>>] \in Histories
  BY <1>2, <1>3 DEF Histories
<1> QED
  BY <1>1, <1>4, <1>5 DEF Push

\* Undo and redo move a snapshot between past, present and future.
LEMMA UndoTypes ==
    ASSUME NEW h \in Histories
    PROVE  /\ h.past # <<>> =>
                /\ Last(h.past) \in Snapshots
                /\ [past |-> Front(h.past), present |-> Last(h.past),
                    future |-> <<h.present>> \o h.future] \in Histories
           /\ h.future # <<>> =>
                /\ Head(h.future) \in Snapshots
                /\ [past |-> Append(h.past, h.present), present |-> Head(h.future),
                    future |-> Tail(h.future)] \in Histories
<1>1. /\ h.past \in Seq(Snapshots) /\ h.present \in Snapshots
      /\ h.future \in Seq(Snapshots)
  BY DEF Histories
<1>2. ASSUME h.past # <<>>
      PROVE  Last(h.past) \in Snapshots /\ Front(h.past) \in Seq(Snapshots)
  BY <1>1, <1>2 DEF Last, Front
<1>3. <<h.present>> \o h.future \in Seq(Snapshots)
  BY <1>1
<1>4. ASSUME h.future # <<>>
      PROVE  /\ Head(h.future) \in Snapshots /\ Tail(h.future) \in Seq(Snapshots)
             /\ Append(h.past, h.present) \in Seq(Snapshots)
  BY <1>1, <1>4
<1> QED
  BY <1>1, <1>2, <1>3, <1>4 DEF Histories

\* The marks of the queued form edits, and of a new edit, are marks.
LEMMA QueuedTypes ==
    ASSUME FormInv
    PROVE  Queued \subseteq Marks /\ \A i \in DOMAIN formEdits : formEdits[i] \in FormEdits
<1>1. \A i \in DOMAIN formEdits : formEdits[i] \in FormEdits
  BY DEF FormInv
<1> QED
  BY <1>1 DEF Queued, FormEdits

LEMMA NewEditTypes ==
    ASSUME EditsInv, NewEdit
    PROVE  Mark \in Marks /\ EditsInv'
  BY SessionAssumption DEF EditsInv, NewEdit, Mark, Marks

-----------------------------------------------------------------------------
(* The invariant *)

LEMMA InvariantImplies ==
    ASSUME SessionInv
    PROVE  TypeOK /\ PreviewCurrent
  BY DEF SessionInv, TypeOK, BufferInv, TypingInv, ModeInv, FileInv, EditsInv, FormInv,
         InsertionInv, PreviewInv, RequestInv, SaveInv

LEMMA InitInv ==
    ASSUME Init
    PROVE  SessionInv
<1>1. disk \in Texts /\ DetectLineEnding(disk) \in {"lf", "crlf"}
  BY SessionAssumption DEF Init, Texts, DetectLineEnding
<1>2. BufferInv
  BY <1>1 DEF Init, BufferInv, Histories, Snapshots
<1>3. TypingInv /\ ModeInv /\ FileInv
  BY <1>1 DEF Init, TypingInv, ModeInv, FileInv
<1>4. EditsInv /\ FormInv
  BY SessionAssumption DEF Init, EditsInv, FormInv
<1>5. InsertionInv
  BY DEF Init, InsertionInv, IdleInsertion, Insertions
<1>6. PreviewInv
  BY DEF Init, PreviewInv, PreviewCurrent
<1>7. RequestInv
  BY DEF Init, RequestInv, RequestCarries, IdleRequest, RequestStates
<1>8. SaveInv
  BY DEF Init, SaveInv, IdleSave, SaveStates
<1> QED
  BY <1>1, <1>2, <1>3, <1>4, <1>5, <1>6, <1>7, <1>8 DEF SessionInv

\* What a step leaves alone keeps its part of the invariant.
LEMMA Frames ==
    ASSUME SessionInv
    PROVE  /\ UNCHANGED bufferVars => BufferInv'
           /\ UNCHANGED typingVars => TypingInv'
           /\ UNCHANGED modeVars => ModeInv'
           /\ UNCHANGED <<baseVars, fileVars, saveBusy>> => FileInv'
           /\ UNCHANGED edits => EditsInv'
           /\ UNCHANGED formEdits => FormInv'
           /\ UNCHANGED insertion => InsertionInv'
           /\ UNCHANGED <<preview, latest, lineEnding>> => PreviewInv'
           /\ preview' = None => PreviewInv'
           /\ UNCHANGED <<request, lineEnding>> => RequestInv'
           /\ UNCHANGED save => SaveInv'
<1>1. UNCHANGED bufferVars => BufferInv'
  BY DEF SessionInv, BufferInv, bufferVars
<1>2. /\ UNCHANGED typingVars => TypingInv'
      /\ UNCHANGED modeVars => ModeInv'
  BY DEF SessionInv, TypingInv, ModeInv, typingVars, modeVars
<1>3. /\ UNCHANGED <<baseVars, fileVars, saveBusy>> => FileInv'
      /\ UNCHANGED edits => EditsInv'
      /\ UNCHANGED formEdits => FormInv'
  BY DEF SessionInv, FileInv, EditsInv, FormInv
<1>4. UNCHANGED insertion => InsertionInv'
  BY DEF SessionInv, InsertionInv
<1>5. /\ UNCHANGED <<preview, latest, lineEnding>> => PreviewInv'
      /\ preview' = None => PreviewInv'
  BY DEF SessionInv, PreviewInv, PreviewCurrent, ApplyLineEnding
<1>6. UNCHANGED <<request, lineEnding>> => RequestInv'
  BY DEF SessionInv, RequestInv, RequestCarries, ApplyLineEnding
<1>7. UNCHANGED save => SaveInv'
  BY DEF SessionInv, SaveInv
<1> QED
  BY <1>1, <1>2, <1>3, <1>4, <1>5, <1>6, <1>7

\* A request moves to a state that carries what it must.
LEMMA RequestUpdate ==
    ASSUME RequestInv, NEW q \in Requests, NEW r \in RequestStates, RequestCarries(r),
           UNCHANGED lineEnding, request' = [request EXCEPT ![q] = r]
    PROVE  RequestInv'
<1>1. \A c \in RequestStates : RequestCarries(c)' <=> RequestCarries(c)
  BY DEF RequestCarries, ApplyLineEnding
<1>2. request' \in [Requests -> RequestStates]
  BY DEF RequestInv
<1>3. \A c \in Requests : request'[c] = IF c = q THEN r ELSE request[c]
  BY DEF RequestInv
<1>4. \A c \in Requests : RequestCarries(request'[c])
  BY <1>3 DEF RequestInv
<1>5. \A c \in Requests : RequestCarries(request[c])'
  BY <1>1, <1>2, <1>4
<1> QED
  BY <1>2, <1>5 DEF RequestInv

\* A rejected commit only stops who waits for it.
LEMMA RejectInv ==
    ASSUME SessionInv, NEW m, Reject(m), UNCHANGED <<about, mode, lineEnding>>
    PROVE  ModeInv' /\ RequestInv' /\ InsertionInv'
<1> USE DEF SessionInv, Reject
<1>1. ModeInv'
  BY DEF ModeInv
<1>2. RequestInv'
  BY DEF RequestInv, RequestCarries, RequestStates, DoneRequest, IdleRequest,
         ApplyLineEnding
<1>3. InsertionInv'
  BY DEF InsertionInv, IdleInsertion, Insertions
<1> QED
  BY <1>1, <1>2, <1>3

LEMMA FormEditAppliedInv ==
    ASSUME SessionInv, NEW stale \in BOOLEAN, FormEditApplied(stale)
    PROVE  SessionInv'
<1> USE DEF SessionInv
<1>1. /\ formEdits[1] \in FormEdits /\ formEdits[1].base \in Texts
      /\ formEdits[1].mark \in Marks
  BY QueuedTypes DEF FormEditApplied, FormInv, FormEdits
<1>2. PICK xml \in Applied(formEdits[1].base, formEdits[1].mark) :
        /\ latest' = xml
        /\ preview' = IF latest # xml \/ stale THEN None ELSE preview
        /\ history' = IF Present = xml
                      THEN [history EXCEPT !.present = [text |-> xml, parsed |-> TRUE]]
                      ELSE Push(history, [text |-> xml, parsed |-> TRUE])
  BY DEF FormEditApplied
<1>3. xml \in Texts /\ [text |-> xml, parsed |-> TRUE] \in Snapshots
  BY <1>1, <1>2, TextTypes DEF Snapshots
<1>4. BufferInv'
  BY <1>2, <1>3, HistoryTypes DEF FormEditApplied, BufferInv
<1>5. FormInv'
  BY DEF FormEditApplied, FormInv
<1>6. PreviewInv'
  <2>1. preview' = None \/ UNCHANGED <<preview, latest, lineEnding>>
    BY <1>2 DEF FormEditApplied
  <2> QED
    BY <2>1, Frames
<1>7. Reject(formEdits[1].mark) \/ UNCHANGED <<switching, request, insertion>>
  BY DEF FormEditApplied
<1>8. UNCHANGED <<about, mode, lineEnding>>
  BY DEF FormEditApplied
<1>9. ModeInv' /\ RequestInv' /\ InsertionInv'
  <2>1. CASE Reject(formEdits[1].mark)
    BY <1>8, <2>1, RejectInv
  <2>2. CASE UNCHANGED <<switching, request, insertion>>
    BY <1>8, <2>2, Frames DEF modeVars
  <2> QED
    BY <1>7, <2>1, <2>2
<1> QED
  BY <1>4, <1>5, <1>6, <1>9, Frames DEF FormEditApplied, typingVars

LEMMA FormEditFailsInv ==
    ASSUME SessionInv, FormEditFails
    PROVE  SessionInv'
<1> USE DEF SessionInv
<1>1. FormInv'
  BY DEF FormEditFails, FormInv
<1>2. ModeInv' /\ RequestInv' /\ InsertionInv'
  BY RejectInv DEF FormEditFails
<1> QED
  BY <1>1, <1>2, Frames DEF FormEditFails, typingVars, bufferVars

LEMMA DefInsertedInv ==
    ASSUME SessionInv, DefInserted
    PROVE  SessionInv'
<1> USE DEF SessionInv
<1>1. InsertionInv'
  BY DEF DefInserted, InsertionInv, IdleInsertion, Insertions
<1>2. BufferInv' /\ PreviewInv'
  <2>1. CASE latest # insertion.base
    BY <2>1, Frames DEF DefInserted, bufferVars, modeVars
  <2>2. CASE latest = insertion.base
    <3>1. insertion.base \in Texts /\ insertion.mark \in Marks
      BY DEF DefInserted, InsertionInv
    <3>2. PICK xml \in Applied(insertion.base, insertion.mark) :
            /\ latest' = xml
            /\ history' = Push(history, [text |-> xml, parsed |-> TRUE])
            /\ preview' = None
      BY <2>2 DEF DefInserted, ClearPreviewState
    <3>3. xml \in Texts /\ [text |-> xml, parsed |-> TRUE] \in Snapshots
      BY <3>1, <3>2, TextTypes DEF Snapshots
    <3> QED
      BY <3>2, <3>3, HistoryTypes, Frames DEF DefInserted, BufferInv
  <2> QED
    BY <2>1, <2>2
<1> QED
  BY <1>1, <1>2, Frames DEF DefInserted, modeVars, typingVars

LEMMA NextInv ==
    ASSUME SessionInv, [Next]_vars
    PROVE  SessionInv'
<1> USE DEF SessionInv
<1>1. CASE UpdateRawXml
  <2>1. EditsInv'
    BY <1>1, NewEditTypes DEF UpdateRawXml
  <2>2. BufferInv'
    BY <1>1, NewEditTypes, TextTypes, HistoryTypes DEF UpdateRawXml, BufferInv,
       Present, Histories, Snapshots, typingVars, modeVars, bufferVars
  <2>3. TypingInv'
    BY <1>1, NewEditTypes, TextTypes DEF UpdateRawXml, TypingInv, BufferInv,
       Present, Histories, Snapshots, typingVars, modeVars, bufferVars
  <2> QED
    BY <1>1, <2>1, <2>2, <2>3, Frames DEF UpdateRawXml, bufferVars, typingVars,
       modeVars, saveVars, ClearPreviewState
<1>2. CASE DebounceExpires
  <2>1. BufferInv'
    BY <1>2 DEF DebounceExpires, BufferInv, typingVars, modeVars, bufferVars
  <2>2. TypingInv'
    BY <1>2 DEF DebounceExpires, TypingInv, BufferInv, typingVars, modeVars,
       bufferVars
  <2> QED
    BY <1>2, <2>1, <2>2, Frames DEF DebounceExpires, bufferVars, typingVars,
       modeVars, saveVars, ClearPreviewState
<1>3. ASSUME NEW p \in parses, NEW answer \in ParseAnswers, BufferParsed(p, answer)
      PROVE  SessionInv'
  <2>1. TypingInv'
    BY <1>3 DEF BufferParsed, TypingInv, typingVars, modeVars, bufferVars
  <2> DEFINE next == [text |-> p.xml, parsed |-> answer = "document"]
             pushed == [past |-> Append(history.past, p.before), present |-> next,
                        future |-> <<>>]
             shown == [history EXCEPT !.present = next]
  <2>2. next \in Snapshots
    BY <1>3 DEF TypingInv, Snapshots
  <2>3. shown \in Histories /\ [shown EXCEPT !.future = <<>>] \in Histories
    BY <2>2, HistoryTypes DEF BufferInv, Histories
  <2>4. p.before # None => pushed \in Histories
    BY <1>3, <2>2 DEF TypingInv, BufferInv, Histories
  <2>5. \/ history' \in {history, shown, [shown EXCEPT !.future = <<>>]}
        \/ p.before # None /\ history' = pushed
    BY <1>3 DEF BufferParsed, BufferInv, Histories
  <2>6. BufferInv'
    BY <1>3, <2>3, <2>4, <2>5 DEF BufferParsed, BufferInv, bufferVars
  <2> QED
    BY <1>3, <2>1, <2>6, Frames DEF BufferParsed, bufferVars, typingVars, modeVars,
       saveVars, ClearPreviewState
<1>4. CASE Undo
  <2>1. BufferInv'
    BY <1>4, UndoTypes DEF Undo, BufferInv, Snapshots, typingVars, modeVars,
       bufferVars
  <2> QED
    BY <1>4, <2>1, Frames DEF Undo, bufferVars, typingVars, modeVars, saveVars,
       ClearPreviewState
<1>5. CASE Redo
  <2>1. BufferInv'
    BY <1>5, UndoTypes DEF Redo, BufferInv, Snapshots, typingVars, modeVars,
       bufferVars
  <2> QED
    BY <1>5, <2>1, Frames DEF Redo, bufferVars, typingVars, modeVars, saveVars,
       ClearPreviewState
<1>6. CASE RequestRaw
  <2>1. ModeInv'
    BY <1>6, QueuedTypes DEF RequestRaw, ModeInv
  <2> QED
    BY <1>6, <2>1, Frames DEF RequestRaw, bufferVars, typingVars, modeVars,
       saveVars, ClearPreviewState
<1>7. CASE SwitchToRaw
  <2>1. ModeInv'
    BY <1>7 DEF SwitchToRaw, ModeInv
  <2> QED
    BY <1>7, <2>1, Frames DEF SwitchToRaw, bufferVars, typingVars, modeVars,
       saveVars, ClearPreviewState
<1>8. CASE SwitchToForm
  <2>1. ModeInv'
    BY <1>8 DEF SwitchToForm, ModeInv
  <2> QED
    BY <1>8, <2>1, Frames DEF SwitchToForm, bufferVars, typingVars, modeVars,
       saveVars, ClearPreviewState
<1>9. CASE QueueFormEdit
  <2>1. EditsInv'
    BY <1>9, NewEditTypes DEF QueueFormEdit
  <2>2. FormInv'
    BY <1>9, NewEditTypes DEF QueueFormEdit, FormInv, FormEdits
  <2> QED
    BY <1>9, <2>1, <2>2, Frames DEF QueueFormEdit, bufferVars, typingVars, modeVars,
       saveVars, ClearPreviewState
<1>10. CASE SendFormEdit
  <2>1. FormInv'
    BY <1>10, QueuedTypes DEF SendFormEdit, FormInv, BufferInv, FormEdits
  <2> QED
    BY <1>10, <2>1, Frames DEF SendFormEdit, bufferVars, typingVars, modeVars,
       saveVars, ClearPreviewState
<1>11. ASSUME NEW stale \in BOOLEAN, FormEditApplied(stale)
       PROVE  SessionInv'
  BY <1>11, FormEditAppliedInv
<1>12. CASE FormEditFails
  BY <1>12, FormEditFailsInv
<1>13. CASE RequestInsert
  <2>1. EditsInv'
    BY <1>13, NewEditTypes DEF RequestInsert
  <2>2. InsertionInv'
    BY <1>13, NewEditTypes, QueuedTypes DEF RequestInsert, InsertionInv, Insertions
  <2> QED
    BY <1>13, <2>1, <2>2, Frames DEF RequestInsert, bufferVars, typingVars,
       modeVars, saveVars, ClearPreviewState
<1>14. CASE InsertDefFromTemplate
  <2>1. InsertionInv'
    BY <1>14, QueuedTypes DEF InsertDefFromTemplate, InsertionInv, Insertions
  <2> QED
    BY <1>14, <2>1, Frames DEF InsertDefFromTemplate, bufferVars, typingVars,
       modeVars, saveVars, ClearPreviewState
<1>15. CASE SendInsert
  <2>1. InsertionInv'
    BY <1>15 DEF SendInsert, InsertionInv, BufferInv, Insertions
  <2> QED
    BY <1>15, <2>1, Frames DEF SendInsert, bufferVars, typingVars, modeVars,
       saveVars, ClearPreviewState
<1>16. CASE DefInserted
  BY <1>16, DefInsertedInv
<1>17. CASE InsertFails
  <2>1. InsertionInv'
    BY <1>17 DEF InsertFails, InsertionInv, IdleInsertion, Insertions
  <2> QED
    BY <1>17, <2>1, Frames DEF InsertFails, bufferVars, typingVars, modeVars,
       saveVars, ClearPreviewState
<1>18. ASSUME NEW q \in Requests, ClickPreview(q)
       PROVE  SessionInv'
  <2>1. RequestInv'
    <3> DEFINE r == [IdleRequest EXCEPT !.pc = "drafts",
                    !.wait = IF mode = "form" THEN Queued ELSE {}]
    <3>1. request[q] \in RequestStates /\ RequestCarries(request[q])
      BY DEF RequestInv
    <3>2. r \in RequestStates
      BY <1>18, <3>1, QueuedTypes DEF RequestStates, IdleRequest
    <3>3. RequestCarries(r)
      BY <1>18, <3>1, <3>2, QueuedTypes DEF ClickPreview, RequestCarries,
         RequestStates, IdleRequest
    <3>4. request' = [request EXCEPT ![q] = r]
      BY <1>18 DEF ClickPreview, RequestInv
    <3> HIDE DEF r
    <3> QED
      BY <1>18, <3>2, <3>3, <3>4, RequestUpdate DEF ClickPreview, modeVars
  <2> QED
    BY <1>18, <2>1, Frames DEF ClickPreview, bufferVars, typingVars, modeVars,
       saveVars, ClearPreviewState
<1>19. ASSUME NEW q \in Requests, RequestSavePreview(q)
       PROVE  SessionInv'
  <2>1. FileInv'
    BY <1>19 DEF RequestSavePreview, FileInv
  <2>2. RequestInv'
    <3> DEFINE r == [request[q] EXCEPT !.pc = "flush", !.wait = Queued]
    <3>1. request[q] \in RequestStates /\ RequestCarries(request[q])
      BY DEF RequestInv
    <3>2. r \in RequestStates
      BY <1>19, <3>1, QueuedTypes DEF RequestStates
    <3>3. RequestCarries(r)
      BY <1>19, <3>1, <3>2, QueuedTypes DEF RequestSavePreview, RequestCarries,
         RequestStates
    <3>4. request' = [request EXCEPT ![q] = r]
      BY <1>19 DEF RequestSavePreview, RequestInv
    <3> HIDE DEF r
    <3> QED
      BY <1>19, <3>2, <3>3, <3>4, RequestUpdate DEF RequestSavePreview, modeVars
  <2> QED
    BY <1>19, <2>1, <2>2, Frames DEF RequestSavePreview, bufferVars, typingVars,
       modeVars, saveVars, ClearPreviewState
<1>20. ASSUME NEW q \in Requests, InvokePreview(q)
       PROVE  SessionInv'
  <2>1. RequestInv'
    <3> DEFINE r == [request[q] EXCEPT !.pc = "sent", !.flushed = latest,
                    !.proposed = ApplyLineEnding(latest)]
    <3>1. request[q] \in RequestStates /\ RequestCarries(request[q])
      BY DEF RequestInv
    <3>2. r \in RequestStates
      BY <1>20, <3>1, TextTypes DEF RequestStates, BufferInv, ModeInv
    <3>3. RequestCarries(r)
      BY <1>20, <3>1, <3>2, TextTypes DEF InvokePreview, RequestCarries,
         RequestStates, BufferInv, ModeInv
    <3>4. request' = [request EXCEPT ![q] = r]
      BY <1>20 DEF InvokePreview, RequestInv
    <3> HIDE DEF r
    <3> QED
      BY <1>20, <3>2, <3>3, <3>4, RequestUpdate DEF InvokePreview, modeVars
  <2> QED
    BY <1>20, <2>1, Frames DEF InvokePreview, bufferVars, typingVars, modeVars,
       saveVars, ClearPreviewState
<1>21. ASSUME NEW q \in Requests, LoadFullSavePreview(q)
       PROVE  SessionInv'
  <2>1. FileInv'
    BY <1>21 DEF LoadFullSavePreview, FileInv
  <2>2. RequestInv'
    <3> DEFINE r == [IdleRequest EXCEPT !.pc = "sent", !.full = TRUE,
                    !.proposed = preview.proposed]
    <3>1. request[q] \in RequestStates /\ RequestCarries(request[q])
      BY DEF RequestInv
    <3>2. r \in RequestStates
      BY <1>21, <3>1 DEF LoadFullSavePreview, RequestStates, IdleRequest,
         PreviewInv, Previews
    <3>3. RequestCarries(r)
      BY <1>21, <3>1, <3>2 DEF LoadFullSavePreview, RequestCarries, RequestStates,
         IdleRequest, PreviewInv, Previews
    <3>4. request' = [request EXCEPT ![q] = r]
      BY <1>21 DEF LoadFullSavePreview, RequestInv
    <3> HIDE DEF r
    <3> QED
      BY <1>21, <3>2, <3>3, <3>4, RequestUpdate DEF LoadFullSavePreview, modeVars
  <2> QED
    BY <1>21, <2>1, <2>2, Frames DEF LoadFullSavePreview, bufferVars, typingVars,
       modeVars, saveVars, ClearPreviewState
<1>22. ASSUME NEW q \in Requests, PreviewAnswered(q)
       PROVE  SessionInv'
  <2>1. RequestInv'
    <3> DEFINE r == [request[q] EXCEPT !.pc = "answered",
                    !.changed = (disk # request[q].proposed)]
    <3>1. request[q] \in RequestStates /\ RequestCarries(request[q])
      BY DEF RequestInv
    <3>2. r \in RequestStates
      BY <1>22, <3>1 DEF RequestStates
    <3>3. RequestCarries(r)
      BY <1>22, <3>1, <3>2 DEF PreviewAnswered, RequestCarries, RequestStates
    <3>4. request' = [request EXCEPT ![q] = r]
      BY <1>22 DEF PreviewAnswered, RequestInv
    <3> HIDE DEF r
    <3> QED
      BY <1>22, <3>2, <3>3, <3>4, RequestUpdate DEF PreviewAnswered, modeVars
  <2> QED
    BY <1>22, <2>1, Frames DEF PreviewAnswered, bufferVars, typingVars, modeVars,
       saveVars, ClearPreviewState
<1>23. ASSUME NEW q \in Requests, PreviewReturns(q)
       PROVE  SessionInv'
  <2>1. FileInv'
    BY <1>23 DEF PreviewReturns, FileInv
  <2>2. RequestInv'
    <3> DEFINE r == DoneRequest
    <3>1. request[q] \in RequestStates /\ RequestCarries(request[q])
      BY DEF RequestInv
    <3>2. r \in RequestStates
      BY <1>23, <3>1 DEF RequestStates, DoneRequest, IdleRequest
    <3>3. RequestCarries(r)
      BY <1>23, <3>1, <3>2 DEF PreviewReturns, RequestCarries, RequestStates,
         DoneRequest, IdleRequest
    <3>4. request' = [request EXCEPT ![q] = r]
      BY <1>23 DEF PreviewReturns, RequestInv
    <3> HIDE DEF r
    <3> QED
      BY <1>23, <3>2, <3>3, <3>4, RequestUpdate DEF PreviewReturns, modeVars
  <2>3. PreviewInv'
    BY <1>23 DEF PreviewReturns, RequestInv, RequestCarries, RequestStates,
       PreviewInv, PreviewCurrent, Previews, ApplyLineEnding, typingVars, modeVars,
       bufferVars
  <2> QED
    BY <1>23, <2>1, <2>2, <2>3, Frames DEF PreviewReturns, bufferVars, typingVars,
       modeVars, saveVars, ClearPreviewState
<1>24. ASSUME NEW q \in Requests, PreviewFails(q)
       PROVE  SessionInv'
  <2>1. FileInv'
    BY <1>24 DEF PreviewFails, FileInv
  <2>2. RequestInv'
    <3> DEFINE r == DoneRequest
    <3>1. request[q] \in RequestStates /\ RequestCarries(request[q])
      BY DEF RequestInv
    <3>2. r \in RequestStates
      BY <1>24, <3>1 DEF RequestStates, DoneRequest, IdleRequest
    <3>3. RequestCarries(r)
      BY <1>24, <3>1, <3>2 DEF PreviewFails, RequestCarries, RequestStates,
         DoneRequest, IdleRequest
    <3>4. request' = [request EXCEPT ![q] = r]
      BY <1>24 DEF PreviewFails, RequestInv
    <3> HIDE DEF r
    <3> QED
      BY <1>24, <3>2, <3>3, <3>4, RequestUpdate DEF PreviewFails, modeVars
  <2> QED
    BY <1>24, <2>1, <2>2, Frames DEF PreviewFails, bufferVars, typingVars, modeVars,
       saveVars, ClearPreviewState
<1>25. CASE ClearSavePreview
  BY <1>25, Frames DEF ClearSavePreview, bufferVars, typingVars, modeVars,
     ClearPreviewState
<1>26. ASSUME NEW s \in Saves, ConfirmSave(s)
       PROVE  SessionInv'
  <2>1. FileInv'
    BY <1>26 DEF ConfirmSave, FileInv
  <2>2. SaveInv'
    BY <1>26 DEF ConfirmSave, SaveInv, SaveStates, PreviewInv, Previews, typingVars,
       modeVars, bufferVars
  <2> QED
    BY <1>26, <2>1, <2>2, Frames DEF ConfirmSave, bufferVars, typingVars, modeVars,
       saveVars, ClearPreviewState
<1>27. ASSUME NEW s \in Saves, FileWritten(s)
       PROVE  SessionInv'
  <2>1. FileInv'
    BY <1>27 DEF FileWritten, FileInv, SaveInv
  <2>2. SaveInv'
    BY <1>27 DEF FileWritten, SaveInv, SaveStates, typingVars, modeVars, bufferVars
  <2> QED
    BY <1>27, <2>1, <2>2, Frames DEF FileWritten, bufferVars, typingVars, modeVars,
       saveVars, ClearPreviewState
<1>28. ASSUME NEW s \in Saves, SaveFails(s)
       PROVE  SessionInv'
  <2>1. FileInv'
    BY <1>28 DEF SaveFails, FileInv
  <2>2. SaveInv'
    BY <1>28 DEF SaveFails, SaveInv, SaveStates, DoneSave, IdleSave, typingVars,
       modeVars, bufferVars
  <2> QED
    BY <1>28, <2>1, <2>2, Frames DEF SaveFails, bufferVars, typingVars, modeVars,
       saveVars, ClearPreviewState
<1>29. ASSUME NEW s \in Saves, SaveReturns(s)
       PROVE  SessionInv'
  <2>1. FileInv'
    BY <1>29 DEF SaveReturns, FileInv, SaveInv
  <2>2. SaveInv'
    BY <1>29 DEF SaveReturns, SaveInv, SaveStates, DoneSave, IdleSave, typingVars,
       modeVars, bufferVars
  <2> QED
    BY <1>29, <2>1, <2>2, Frames DEF SaveReturns, bufferVars, typingVars, modeVars,
       saveVars, ClearPreviewState
<1>30. ASSUME NEW s \in Saves, SavedTextParsed(s)
       PROVE  SessionInv'
  <2>1. FileInv'
    BY <1>30 DEF SavedTextParsed, FileInv
  <2>2. BufferInv'
    BY <1>30, HistoryTypes DEF SavedTextParsed, BufferInv, SaveInv, Snapshots,
       typingVars, modeVars, bufferVars
  <2>3. SaveInv'
    BY <1>30 DEF SavedTextParsed, SaveInv, SaveStates, DoneSave, IdleSave,
       typingVars, modeVars, bufferVars
  <2> QED
    BY <1>30, <2>1, <2>2, <2>3, Frames DEF SavedTextParsed, bufferVars, typingVars,
       modeVars, saveVars, ClearPreviewState
<1>31. ASSUME NEW s \in Saves, SavedParseFails(s)
       PROVE  SessionInv'
  <2>1. FileInv'
    BY <1>31 DEF SavedParseFails, FileInv
  <2>2. SaveInv'
    BY <1>31 DEF SavedParseFails, SaveInv, SaveStates, DoneSave, IdleSave,
       typingVars, modeVars, bufferVars
  <2> QED
    BY <1>31, <2>1, <2>2, Frames DEF SavedParseFails, bufferVars, typingVars,
       modeVars, saveVars, ClearPreviewState
<1>32. CASE UNCHANGED vars
  BY <1>32, Frames DEF vars, bufferVars, typingVars, modeVars, saveVars
<1> QED
  BY <1>1, <1>2, <1>3, <1>4, <1>5, <1>6, <1>7, <1>8, <1>9, <1>10, <1>11, <1>12,
     <1>13, <1>14, <1>15, <1>16, <1>17, <1>18, <1>19, <1>20, <1>21, <1>22, <1>23,
     <1>24, <1>25, <1>26, <1>27, <1>28, <1>29, <1>30, <1>31, <1>32 DEF Next,
     UserActs, Continues, Answered

-----------------------------------------------------------------------------
(* The baseline *)

\* A save is answered after it has written, and the file holds what the save that
\* wrote it last proposed for as long as its answer is on its way.
BaselineInv ==
    /\ lastAnswer # None => save[lastAnswer].pc \in {"parse", "done"}
    /\ lastWrite # None /\ save[lastWrite].pc = "written" =>
          disk = save[lastWrite].proposed
    /\ BaselineIsFile

\* Only the steps of a save touch the baseline, the file and the save.
LEMMA OthersKeepBaseline ==
    ASSUME [Next]_vars
    PROVE  \/ UNCHANGED <<baseVars, fileVars, save>>
           \/ \E s \in Saves :
                ConfirmSave(s) \/ FileWritten(s) \/ SaveFails(s) \/ SaveReturns(s)
                   \/ SavedTextParsed(s) \/ SavedParseFails(s)
<1>1. UpdateRawXml => UNCHANGED <<baseVars, fileVars, save>>
  BY DEF UpdateRawXml, saveVars
<1>2. DebounceExpires => UNCHANGED <<baseVars, fileVars, save>>
  BY DEF DebounceExpires, saveVars
<1>3. ASSUME NEW p \in parses, NEW answer \in ParseAnswers, BufferParsed(p, answer)
      PROVE  UNCHANGED <<baseVars, fileVars, save>>
  BY <1>3 DEF BufferParsed, saveVars
<1>4. Undo => UNCHANGED <<baseVars, fileVars, save>>
  BY DEF Undo, saveVars
<1>5. Redo => UNCHANGED <<baseVars, fileVars, save>>
  BY DEF Redo, saveVars
<1>6. RequestRaw => UNCHANGED <<baseVars, fileVars, save>>
  BY DEF RequestRaw, saveVars
<1>7. SwitchToRaw => UNCHANGED <<baseVars, fileVars, save>>
  BY DEF SwitchToRaw, saveVars
<1>8. SwitchToForm => UNCHANGED <<baseVars, fileVars, save>>
  BY DEF SwitchToForm, saveVars
<1>9. QueueFormEdit => UNCHANGED <<baseVars, fileVars, save>>
  BY DEF QueueFormEdit, saveVars
<1>10. SendFormEdit => UNCHANGED <<baseVars, fileVars, save>>
  BY DEF SendFormEdit, saveVars
<1>11. ASSUME NEW stale \in BOOLEAN, FormEditApplied(stale)
       PROVE  UNCHANGED <<baseVars, fileVars, save>>
  BY <1>11 DEF FormEditApplied, saveVars
<1>12. FormEditFails => UNCHANGED <<baseVars, fileVars, save>>
  BY DEF FormEditFails, saveVars
<1>13. RequestInsert => UNCHANGED <<baseVars, fileVars, save>>
  BY DEF RequestInsert, saveVars
<1>14. InsertDefFromTemplate => UNCHANGED <<baseVars, fileVars, save>>
  BY DEF InsertDefFromTemplate, saveVars
<1>15. SendInsert => UNCHANGED <<baseVars, fileVars, save>>
  BY DEF SendInsert, saveVars
<1>16. DefInserted => UNCHANGED <<baseVars, fileVars, save>>
  BY DEF DefInserted, saveVars
<1>17. InsertFails => UNCHANGED <<baseVars, fileVars, save>>
  BY DEF InsertFails, saveVars
<1>18. ASSUME NEW q \in Requests, ClickPreview(q)
       PROVE  UNCHANGED <<baseVars, fileVars, save>>
  BY <1>18 DEF ClickPreview, saveVars
<1>19. ASSUME NEW q \in Requests, RequestSavePreview(q)
       PROVE  UNCHANGED <<baseVars, fileVars, save>>
  BY <1>19 DEF RequestSavePreview, saveVars
<1>20. ASSUME NEW q \in Requests, InvokePreview(q)
       PROVE  UNCHANGED <<baseVars, fileVars, save>>
  BY <1>20 DEF InvokePreview, saveVars
<1>21. ASSUME NEW q \in Requests, LoadFullSavePreview(q)
       PROVE  UNCHANGED <<baseVars, fileVars, save>>
  BY <1>21 DEF LoadFullSavePreview, saveVars
<1>22. ASSUME NEW q \in Requests, PreviewAnswered(q)
       PROVE  UNCHANGED <<baseVars, fileVars, save>>
  BY <1>22 DEF PreviewAnswered, saveVars
<1>23. ASSUME NEW q \in Requests, PreviewReturns(q)
       PROVE  UNCHANGED <<baseVars, fileVars, save>>
  BY <1>23 DEF PreviewReturns, saveVars
<1>24. ASSUME NEW q \in Requests, PreviewFails(q)
       PROVE  UNCHANGED <<baseVars, fileVars, save>>
  BY <1>24 DEF PreviewFails, saveVars
<1>25. ClearSavePreview => UNCHANGED <<baseVars, fileVars, save>>
  BY DEF ClearSavePreview, saveVars
<1>26. UNCHANGED vars => UNCHANGED <<baseVars, fileVars, save>>
  BY DEF vars, saveVars
<1> QED
  BY <1>1, <1>2, <1>3, <1>4, <1>5, <1>6, <1>7, <1>8, <1>9, <1>10, <1>11, <1>12,
     <1>13, <1>14, <1>15, <1>16, <1>17, <1>18, <1>19, <1>20, <1>21, <1>22, <1>23,
     <1>24, <1>25, <1>26 DEF Next, UserActs, Continues, Answered

LEMMA BaselineNext ==
    ASSUME SaveInv, FileInv, BaselineInv, [Next]_vars
    PROVE  BaselineInv'
<1> USE SessionAssumption DEF BaselineIsFile
<1>1. CASE UNCHANGED <<baseVars, fileVars, save>>
  BY <1>1 DEF BaselineInv
<1>2. ASSUME NEW s \in Saves,
             \/ ConfirmSave(s) \/ FileWritten(s) \/ SaveFails(s) \/ SaveReturns(s)
             \/ SavedTextParsed(s) \/ SavedParseFails(s)
      PROVE  BaselineInv'
  <2>1. /\ save \in [Saves -> SaveStates] /\ s # None
        /\ lastWrite \in Saves \cup {None} /\ lastAnswer \in Saves \cup {None}
    BY DEF SaveInv, FileInv
  <2>2. CASE ConfirmSave(s)
    BY <2>1, <2>2 DEF ConfirmSave, BaselineInv
  <2>3. CASE FileWritten(s)
    BY <2>1, <2>3 DEF FileWritten, BaselineInv, SaveStates
  <2>4. CASE SaveFails(s)
    BY <2>1, <2>4 DEF SaveFails, BaselineInv, DoneSave, IdleSave
  <2>5. CASE SaveReturns(s)
    BY <2>1, <2>5 DEF SaveReturns, BaselineInv, DoneSave, IdleSave, SaveStates
  <2>6. CASE SavedTextParsed(s)
    BY <2>1, <2>6 DEF SavedTextParsed, BaselineInv, DoneSave, IdleSave
  <2>7. CASE SavedParseFails(s)
    BY <2>1, <2>7 DEF SavedParseFails, BaselineInv, DoneSave, IdleSave
  <2> QED
    BY <1>2, <2>2, <2>3, <2>4, <2>5, <2>6, <2>7
<1> QED
  BY <1>1, <1>2, OthersKeepBaseline

-----------------------------------------------------------------------------
(* Who changes the history *)

\* A pushed snapshot leaves the old present to be undone.
LEMMA PushKeepsText ==
    ASSUME SessionInv, NEW s, history' = Push(history, s)
    PROVE  TextKept
<1>1. /\ history.past \in Seq(Snapshots) /\ history.present \in Snapshots
      /\ history'.past = Append(history.past, history.present)
  BY DEF SessionInv, BufferInv, Histories, Push
<1>2. /\ Len(history.past) + 1 \in DOMAIN history'.past
      /\ history'.past[Len(history.past) + 1] = history.present
  BY <1>1
<1> QED
  BY <1>2 DEF TextKept, Present

\* A parse, a form edit and an insertion keep the text they replace.
LEMMA ParseKeepsText ==
    ASSUME SessionInv, NEW p \in parses, NEW answer, BufferParsed(p, answer)
    PROVE  TextKept
<1> DEFINE next == [text |-> p.xml, parsed |-> answer = "document"]
<1>1. history \in Histories
  BY DEF SessionInv, BufferInv
<1>2. CASE Present # p.xml
  BY <1>2 DEF BufferParsed, TextKept, Present
<1>3. CASE Present = p.xml
  <2>1. history'.present = next
    BY <1>1, <1>3 DEF BufferParsed, Histories
  <2> QED
    BY <1>3, <2>1 DEF TextKept, Present
<1> QED
  BY <1>2, <1>3

LEMMA FormEditKeepsText ==
    ASSUME SessionInv, NEW stale \in BOOLEAN, FormEditApplied(stale)
    PROVE  TextKept
<1>1. history \in Histories
  BY DEF SessionInv, BufferInv
<1>2. PICK xml \in Applied(formEdits[1].base, formEdits[1].mark) :
        history' = IF Present = xml
                   THEN [history EXCEPT !.present = [text |-> xml, parsed |-> TRUE]]
                   ELSE Push(history, [text |-> xml, parsed |-> TRUE])
  BY DEF FormEditApplied
<1>3. CASE Present = xml
  BY <1>1, <1>2, <1>3 DEF Histories, TextKept, Present
<1>4. CASE Present # xml
  BY <1>2, <1>4, PushKeepsText
<1> QED
  BY <1>3, <1>4

LEMMA InsertionKeepsText ==
    ASSUME SessionInv, DefInserted
    PROVE  TextKept
<1>1. \/ history' = history
      \/ \E xml \in Texts \cup Applied(insertion.base, insertion.mark) :
            history' = Push(history, [text |-> xml, parsed |-> TRUE])
  BY DEF DefInserted
<1>2. CASE history' = history
  BY <1>2 DEF TextKept, Present
<1> QED
  BY <1>1, <1>2, PushKeepsText

\* No other step but the user's own and the parse after a save touches it.
LEMMA OthersKeepHistory ==
    ASSUME [Next]_vars
    PROVE  \/ UNCHANGED history
           \/ UpdateRawXml \/ Undo \/ Redo \/ DefInserted
           \/ \E p \in parses, answer \in ParseAnswers : BufferParsed(p, answer)
           \/ \E stale \in BOOLEAN : FormEditApplied(stale)
           \/ \E s \in Saves : SavedTextParsed(s)
<1>1. DebounceExpires => UNCHANGED history
  BY DEF DebounceExpires, bufferVars
<1>2. RequestRaw => UNCHANGED history
  BY DEF RequestRaw, bufferVars
<1>3. SwitchToRaw => UNCHANGED history
  BY DEF SwitchToRaw, bufferVars
<1>4. SwitchToForm => UNCHANGED history
  BY DEF SwitchToForm, bufferVars
<1>5. QueueFormEdit => UNCHANGED history
  BY DEF QueueFormEdit, bufferVars
<1>6. SendFormEdit => UNCHANGED history
  BY DEF SendFormEdit, bufferVars
<1>7. FormEditFails => UNCHANGED history
  BY DEF FormEditFails, bufferVars
<1>8. RequestInsert => UNCHANGED history
  BY DEF RequestInsert, bufferVars
<1>9. InsertDefFromTemplate => UNCHANGED history
  BY DEF InsertDefFromTemplate, bufferVars
<1>10. SendInsert => UNCHANGED history
  BY DEF SendInsert, bufferVars
<1>11. InsertFails => UNCHANGED history
  BY DEF InsertFails, bufferVars
<1>12. ClearSavePreview => UNCHANGED history
  BY DEF ClearSavePreview, bufferVars
<1>13. ASSUME NEW q \in Requests, ClickPreview(q)
      PROVE  UNCHANGED history
  BY <1>13 DEF ClickPreview, bufferVars
<1>14. ASSUME NEW q \in Requests, RequestSavePreview(q)
      PROVE  UNCHANGED history
  BY <1>14 DEF RequestSavePreview, bufferVars
<1>15. ASSUME NEW q \in Requests, InvokePreview(q)
      PROVE  UNCHANGED history
  BY <1>15 DEF InvokePreview, bufferVars
<1>16. ASSUME NEW q \in Requests, LoadFullSavePreview(q)
      PROVE  UNCHANGED history
  BY <1>16 DEF LoadFullSavePreview, bufferVars
<1>17. ASSUME NEW q \in Requests, PreviewAnswered(q)
      PROVE  UNCHANGED history
  BY <1>17 DEF PreviewAnswered, bufferVars
<1>18. ASSUME NEW q \in Requests, PreviewReturns(q)
      PROVE  UNCHANGED history
  BY <1>18 DEF PreviewReturns, bufferVars
<1>19. ASSUME NEW q \in Requests, PreviewFails(q)
      PROVE  UNCHANGED history
  BY <1>19 DEF PreviewFails, bufferVars
<1>20. ASSUME NEW s \in Saves, ConfirmSave(s)
      PROVE  UNCHANGED history
  BY <1>20 DEF ConfirmSave, bufferVars
<1>21. ASSUME NEW s \in Saves, FileWritten(s)
      PROVE  UNCHANGED history
  BY <1>21 DEF FileWritten, bufferVars
<1>22. ASSUME NEW s \in Saves, SaveFails(s)
      PROVE  UNCHANGED history
  BY <1>22 DEF SaveFails, bufferVars
<1>23. ASSUME NEW s \in Saves, SaveReturns(s)
      PROVE  UNCHANGED history
  BY <1>23 DEF SaveReturns, bufferVars
<1>24. ASSUME NEW s \in Saves, SavedParseFails(s)
      PROVE  UNCHANGED history
  BY <1>24 DEF SavedParseFails, bufferVars
<1>25. UNCHANGED vars => UNCHANGED history
  BY DEF vars, bufferVars
<1> QED
  BY <1>1, <1>2, <1>3, <1>4, <1>5, <1>6, <1>7, <1>8, <1>9, <1>10, <1>11, <1>12,
     <1>13, <1>14, <1>15, <1>16, <1>17, <1>18, <1>19, <1>20, <1>21, <1>22,
     <1>23, <1>24, <1>25
     DEF Next, UserActs, Continues, Answered

LEMMA StepsKeepText ==
    ASSUME SessionInv, [Next]_vars, edits' = edits, ~Undo, ~Redo,
           \A s \in Saves : save[s].pc = "parse" => save'[s] = save[s]
    PROVE  TextKept
<1>1. CASE UNCHANGED history
  BY <1>1 DEF TextKept, Present
<1>2. ~UpdateRawXml
  BY DEF SessionInv, EditsInv, UpdateRawXml, NewEdit
<1>3. \A s \in Saves : ~SavedTextParsed(s)
  BY DEF SessionInv, SaveInv, SavedTextParsed, DoneSave, IdleSave
<1> QED
  BY <1>1, <1>2, <1>3, OthersKeepHistory, ParseKeepsText, FormEditKeepsText,
     InsertionKeepsText

-----------------------------------------------------------------------------

LEMMA Invariance == Spec => []SessionInv
  BY InitInv, NextInv, PTL DEF Spec

\* The session is type-correct: whatever answers arrive, in whatever order, a
\* buffer, a baseline and a preview always hold a text (the state of
\* useXmlEditorSession).
THEOREM SessionTypeCorrect == Spec => []TypeOK
  BY Invariance, InvariantImplies, PTL

\* The save dialog never offers an older text than the buffer, however many
\* previews are asked for, answered late or cancelled (requestSavePreview,
\* loadFullSavePreview and everything that calls clearPreviewState).
THEOREM PreviewAlwaysCurrent == Spec => []PreviewCurrent
  BY Invariance, InvariantImplies, PTL

\* Whatever answers arrive, however late, the visible text stays or undo leads
\* back to it, unless the user acts or the parse after a save returns
\* (parseUndebounced, applyFormEdits, insertDefFromTemplate and its siblings).
THEOREM AnswersAlwaysKeepText == Spec => AnswersKeepText
<1>1. ASSUME SessionInv, [Next]_vars
      PROVE  [edits' = edits /\ (~Undo /\ ~Redo)
                /\ (\A s \in Saves : save[s].pc = "parse" => save'[s] = save[s])
                   => TextKept]_vars
  BY <1>1, StepsKeepText
<1> QED
  BY <1>1, Invariance, PTL DEF Spec, AnswersKeepText

\* However many saves overlap, once the save that wrote the file last is the one
\* whose answer came last, the baseline is the file: a buffer shown as unchanged is
\* then a saved one, also when it changed during the save (confirmSave).
THEOREM BaselineFollowsFile == Spec => []BaselineIsFile
<1>1. Init => BaselineInv
  BY SessionAssumption DEF Init, BaselineInv, BaselineIsFile, IdleSave
<1>2. SessionInv => SaveInv /\ FileInv
  BY DEF SessionInv
<1>3. BaselineInv => BaselineIsFile
  BY DEF BaselineInv
<1> QED
  BY <1>1, <1>2, <1>3, BaselineNext, Invariance, PTL DEF Spec

=============================================================================
