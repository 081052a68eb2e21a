--------------------------- MODULE EditSessionProofs ---------------------------
(***************************************************************************)
(* For any number of sessions, calls and texts: an answer tells what the   *)
(* call did, the record of the latest edit survives, and no call of a      *)
(* session writes over what another one of it wrote.                       *)
(***************************************************************************)
EXTENDS EditSession, TLAPS

\* A call holds the queue of its session from its first step in the callback to
\* its answer.
Holding == PCs \ {"idle", "queued", "undoQueued", "done"}

\* The queue of a session is held by the one call of it that is inside, if any.
QueueInv == \A c \in Calls : pc[c] \in Holding <=> queue[Home[c]] = c

\* An undo has a snapshot, and who is to write has a text to write.
LocalsInv ==
  \A c \in Calls :
    /\ pc[c] \in {"undoQueued", "undoRead", "undoing", "undoWriting", "undoWritten"} =>
         snap[c] \in Record
    /\ pc[c] \in Holding \ {"undoRead"} => base[c] \in Contents /\ text[c] \in Contents

\* What a call has done is what its place says.
DeedInv ==
  \A c \in Calls :
    /\ pc[c] \in {"writing", "undoWriting"} => did[c] = "part"
    /\ pc[c] = "written" => did[c] = WholeDeed(c)
    /\ pc[c] = "saved" => did[c] \in {"put", "waived"}
    /\ pc[c] = "undoWritten" => did[c] = "whole"
    /\ pc[c] \notin {"writing", "undoWriting", "written", "saved", "undoWritten"} =>
         did[c] = "nothing"

\* Before a call's first write the file is as it read it, unless someone outside
\* its session changed it.
ReadInv ==
  \A c \in Calls :
    pc[c] \in {"resolved", "probed", "undoing"} /\ clean[c] => file = base[c]

IInv ==
  TypeOK /\ QueueInv /\ LocalsInv /\ DeedInv /\ ReadInv
    /\ AnswersTellTheTruth /\ SavedSurvives

-----------------------------------------------------------------------------
LEMMA InitInv == Init => IInv
<1> SUFFICES ASSUME Init PROVE IInv
  OBVIOUS
<1> USE SessionAssumption DEF Init
<1>1. TypeOK
  <2>1. 0 \in 0 .. MaxForeign /\ 0 \in 0 .. RenameAttempts /\ Texts \subseteq Contents
    BY DEF Contents
  <2>2. "idle" \in PCs /\ "nothing" \in Deeds
    BY DEF PCs, Deeds
  <2> QED
    BY <2>1, <2>2 DEF TypeOK
<1>2. QueueInv /\ LocalsInv /\ ReadInv
  BY DEF QueueInv, LocalsInv, ReadInv, Holding, PCs
<1>3. DeedInv
  BY DEF DeedInv
<1>4. AnswersTellTheTruth /\ SavedSurvives
  BY DEF AnswersTellTheTruth, SavedSurvives
<1> QED
  BY <1>1, <1>2, <1>3, <1>4 DEF IInv

\* A call that answers as its deeds admit, and leaves the file.
LEMMA FinishInv ==
  ASSUME IInv, NEW c \in Calls, NEW answer \in DOMAIN Admits, Finish(c, answer),
         did[c] \in Admits[answer], UNCHANGED <<file, foreign>>,
         rec' \in {rec, Null}, saved' \in {saved, Null}, robbed' \in BOOLEAN, SavedSurvives'
  PROVE  IInv'
<1> USE SessionAssumption DEF Finish, Goto, Forget, Releases, IInv
<1>1. TypeOK'
  <2>1. 0 \in 0 .. RenameAttempts /\ "done" \in PCs /\ "nothing" \in Deeds
    BY DEF PCs, Deeds
  <2>2. queue' \in [Sessions -> Calls \cup {Null}] /\ pc' \in [Calls -> PCs]
    BY <2>1 DEF TypeOK
  <2>3. /\ base' \in [Calls -> Contents \cup {Null}] /\ text' \in [Calls -> Contents \cup {Null}]
        /\ snap' \in [Calls -> Record \cup {Null}] /\ tries' \in [Calls -> 0 .. RenameAttempts]
        /\ clean' \in [Calls -> BOOLEAN] /\ did' \in [Calls -> Deeds]
    BY <2>1 DEF TypeOK
  <2>4. lied' \in BOOLEAN
    BY DEF TypeOK
  <2> QED
    BY <2>2, <2>3, <2>4 DEF TypeOK
<1>2. QueueInv'
  BY DEF QueueInv, Holding, PCs, TypeOK
<1>3. LocalsInv'
  BY DEF LocalsInv, Holding, PCs, TypeOK
<1>4. DeedInv'
  BY DEF DeedInv, WholeDeed, TypeOK
<1>5. ReadInv'
  BY DEF ReadInv, TypeOK
<1>6. AnswersTellTheTruth'
  BY DEF AnswersTellTheTruth
<1> QED
  BY <1>1, <1>2, <1>3, <1>4, <1>5, <1>6

\* A call that holds its queue writes to the file.
LEMMA WritesInv ==
  ASSUME IInv, NEW c \in Calls, NEW content \in Contents,
         NEW deed \in Deeds, NEW label \in Holding \ {"resolved", "probed", "undoRead", "undoing"},
         pc[c] \in Holding \ {"undoRead"}, Writes(c, content, deed), Goto(c, label),
         label \in {"undoWriting", "undoWritten"} => snap[c] \in Record,
         label \in {"writing", "undoWriting"} => deed = "part",
         label = "written" => deed = WholeDeed(c),
         label = "undoWritten" => deed = "whole", label \notin {"saved"}
  PROVE  IInv'
<1> USE SessionAssumption DEF Writes, Change, Goto, IInv
<1>1. TypeOK'
  BY DEF TypeOK, Holding
<1>2. QueueInv'
  BY DEF QueueInv, TypeOK
<1>3. LocalsInv'
  BY DEF LocalsInv, TypeOK, Holding, PCs
<1>4. DeedInv'
  BY DEF DeedInv, WholeDeed, TypeOK, Holding, PCs
<1>5. ReadInv'
  <2> SUFFICES ASSUME NEW d \in Calls, pc'[d] \in {"resolved", "probed", "undoing"}, clean'[d]
               PROVE  file' = base'[d]
    BY DEF ReadInv
  <2>1. d # c /\ pc[d] = pc'[d] /\ Home[d] = Home[c]
    BY DEF TypeOK
  <2>2. queue[Home[c]] = c /\ queue[Home[d]] = d
    BY <2>1 DEF QueueInv, Holding, PCs
  <2> QED
    BY <2>1, <2>2
<1>6. AnswersTellTheTruth' /\ SavedSurvives'
  BY DEF AnswersTellTheTruth, SavedSurvives
<1> QED
  BY <1>1, <1>2, <1>3, <1>4, <1>5, <1>6

\* Who enters a free queue is the only one inside.
LEMMA EnterInv ==
  ASSUME TypeOK, QueueInv, NEW c \in Calls, Enter(c), NEW label \in Holding, Goto(c, label)
  PROVE  QueueInv'
<1> SUFFICES ASSUME NEW d \in Calls PROVE pc'[d] \in Holding <=> queue'[Home[d]] = d
  BY DEF QueueInv
<1>1. Home[c] \in Sessions /\ Home[d] \in Sessions /\ d # Null /\ c # Null
  BY SessionAssumption
<1>2. CASE d = c
  BY <1>1, <1>2 DEF Enter, Goto, TypeOK
<1>3. CASE d # c
  <2>1. pc'[d] = pc[d] /\ (pc[d] \in Holding <=> queue[Home[d]] = d)
    BY <1>3 DEF Goto, TypeOK, QueueInv
  <2>2. CASE Home[d] = Home[c]
    BY <1>1, <1>3, <2>1, <2>2 DEF Enter, QueueFree, TypeOK
  <2>3. CASE Home[d] # Home[c]
    BY <1>1, <2>1, <2>3 DEF Enter, TypeOK
  <2> QED
    BY <2>2, <2>3
<1> QED
  BY <1>2, <1>3

-----------------------------------------------------------------------------
(* The edit tool.                                                            *)

LEMMA EditCallStep == ASSUME IInv, NEW c \in Calls, EditCall(c) PROVE IInv'
<1> USE DEF IInv, EditCall, Elsewhere, Goto, locals
<1>1. TypeOK'
  BY DEF TypeOK, PCs
<1>2. QueueInv' /\ LocalsInv' /\ ReadInv'
  BY DEF TypeOK, QueueInv, LocalsInv, ReadInv, Holding, PCs
<1>3. DeedInv'
  BY DEF TypeOK, DeedInv, WholeDeed
<1>4. AnswersTellTheTruth' /\ SavedSurvives'
  BY DEF AnswersTellTheTruth, SavedSurvives
<1> QED
  BY <1>1, <1>2, <1>3, <1>4

LEMMA EditResolvesStep == ASSUME IInv, NEW c \in Calls, EditResolves(c) PROVE IInv'
<1> USE SessionAssumption DEF IInv, EditResolves, Enter, QueueFree, Goto
<1> PICK t \in Texts : text' = [text EXCEPT ![c] = t]
  OBVIOUS
<1>1. TypeOK'
  BY DEF TypeOK, PCs, Contents
<1>2. QueueInv'
  <2>1. "resolved" \in Holding
    BY DEF Holding, PCs
  <2> QED
    BY <2>1, EnterInv
<1>3. LocalsInv'
  BY DEF TypeOK, LocalsInv, Holding, PCs, Contents
<1>4. DeedInv' /\ ReadInv'
  BY DEF TypeOK, DeedInv, WholeDeed, ReadInv
<1>5. AnswersTellTheTruth' /\ SavedSurvives'
  BY DEF AnswersTellTheTruth, SavedSurvives
<1> QED
  BY <1>1, <1>2, <1>3, <1>4, <1>5

LEMMA ElsewhereSurvives == ASSUME SavedSurvives, Elsewhere PROVE SavedSurvives'
  BY DEF SavedSurvives, Elsewhere

LEMMA EditRefusedStep == ASSUME IInv, NEW c \in Calls, EditRefused(c) PROVE IInv'
<1> PICK answer \in {"abortedEarly", "failed"} : Finish(c, answer)
  BY DEF EditRefused
<1>1. did[c] \in Admits[answer] /\ answer \in DOMAIN Admits
  BY DEF IInv, DeedInv, Admits, EditRefused
<1> QED
  BY <1>1, ElsewhereSurvives, FinishInv DEF EditRefused, Elsewhere, IInv, TypeOK

\* An edit that fails before it has installed its text.
LEMMA FailedStep ==
  ASSUME IInv, NEW c \in Calls, did[c] \in {"nothing", "part"},
         Finish(c, "failed"), Elsewhere
  PROVE  IInv'
<1>1. did[c] \in Admits["failed"] /\ "failed" \in DOMAIN Admits
  BY DEF Admits
<1> QED
  BY <1>1, ElsewhereSurvives, FinishInv DEF Elsewhere, IInv, TypeOK

LEMMA EditProbeStep == ASSUME IInv, NEW c \in Calls, EditProbe(c) PROVE IInv'
<1>1. CASE Finish(c, "failed")
  BY <1>1, FailedStep DEF EditProbe, IInv, DeedInv
<1>2. CASE Goto(c, "probed") /\ UNCHANGED <<queue, locals, lied>>
  <2> USE <1>2 DEF IInv, EditProbe, Elsewhere, Goto, locals
  <2>1. TypeOK'
    BY DEF TypeOK, PCs
  <2>2. QueueInv' /\ LocalsInv' /\ ReadInv'
    BY DEF TypeOK, QueueInv, LocalsInv, ReadInv, Holding, PCs
  <2>3. DeedInv'
    BY DEF TypeOK, DeedInv, WholeDeed
  <2>4. AnswersTellTheTruth' /\ SavedSurvives'
    BY DEF AnswersTellTheTruth, SavedSurvives
  <2> QED
    BY <2>1, <2>2, <2>3, <2>4
<1> QED
  BY <1>1, <1>2 DEF EditProbe

LEMMA EditRenameLockedStep ==
  ASSUME IInv, NEW c \in Calls, EditRenameLocked(c) PROVE IInv'
<1> USE SessionAssumption DEF IInv, EditRenameLocked, Elsewhere
<1>1. TypeOK'
  BY DEF TypeOK
<1>2. QueueInv' /\ LocalsInv' /\ ReadInv'
  BY DEF QueueInv, LocalsInv, ReadInv
<1>3. DeedInv'
  BY DEF DeedInv, WholeDeed
<1>4. AnswersTellTheTruth' /\ SavedSurvives'
  BY DEF AnswersTellTheTruth, SavedSurvives
<1> QED
  BY <1>1, <1>2, <1>3, <1>4

\* The steps of an edit that write to the file.
LEMMA EditWritesStep ==
  ASSUME IInv, NEW c \in Calls, EditRename(c) \/ EditTruncates(c) \/ EditFills(c)
  PROVE  IInv'
<1>1. /\ text[c] \in Contents /\ Torn \in Contents
      /\ pc[c] \in Holding \ {"undoRead"} /\ WholeDeed(c) \in Deeds /\ "part" \in Deeds
      /\ {"written", "writing"} \subseteq Holding \ {"resolved", "probed", "undoRead", "undoing"}
  BY DEF IInv, LocalsInv, Holding, PCs, EditRename, EditTruncates, EditFills, WholeDeed,
         Deeds, Contents
<1>2. CASE EditRename(c) \/ EditFills(c)
  BY <1>1, <1>2, WritesInv DEF EditRename, EditFills
<1>3. CASE EditTruncates(c)
  BY <1>1, <1>3, WritesInv DEF EditTruncates
<1> QED
  BY <1>2, <1>3

LEMMA EditWaivesStep == ASSUME IInv, NEW c \in Calls, EditWaives(c) PROVE IInv'
<1> USE DEF IInv, EditWaives, Elsewhere, Goto
<1>1. TypeOK'
  BY DEF TypeOK, PCs, Deeds
<1>2. QueueInv' /\ LocalsInv' /\ ReadInv'
  BY DEF TypeOK, QueueInv, LocalsInv, ReadInv, Holding, PCs
<1>3. DeedInv'
  BY DEF TypeOK, DeedInv, WholeDeed
<1>4. AnswersTellTheTruth' /\ SavedSurvives'
  BY DEF AnswersTellTheTruth, SavedSurvives
<1> QED
  BY <1>1, <1>2, <1>3, <1>4

LEMMA EditSavesStep == ASSUME IInv, NEW c \in Calls, EditSaves(c) PROVE IInv'
<1> USE DEF IInv, EditSaves, Goto
<1>1. rec' \in Record
  BY DEF LocalsInv, Holding, PCs, Record
<1>2. TypeOK'
  BY <1>1 DEF TypeOK, PCs, Deeds
<1>3. QueueInv' /\ LocalsInv' /\ ReadInv'
  BY DEF TypeOK, QueueInv, LocalsInv, ReadInv, Holding, PCs
<1>4. DeedInv'
  BY DEF TypeOK, DeedInv, WholeDeed
<1>5. AnswersTellTheTruth' /\ SavedSurvives'
  BY DEF AnswersTellTheTruth, SavedSurvives
<1> QED
  BY <1>2, <1>3, <1>4, <1>5

LEMMA EditSaveFailsStep == ASSUME IInv, NEW c \in Calls, EditSaveFails(c) PROVE IInv'
<1>1. did[c] \in Admits["undoUnavailable"] /\ "undoUnavailable" \in DOMAIN Admits
  BY DEF IInv, DeedInv, WholeDeed, Admits, EditSaveFails
<1>2. SavedSurvives'
  BY DEF EditSaveFails, SavedSurvives
<1> QED
  BY <1>1, <1>2, FinishInv DEF EditSaveFails, IInv, TypeOK

LEMMA EditAnswersStep == ASSUME IInv, NEW c \in Calls, EditAnswers(c) PROVE IInv'
<1> PICK answer \in {"ok", "noop", "abortedLate"} :
       /\ Finish(c, answer)
       /\ \/ pc[c] = "saved" /\ answer # "noop"
          \/ pc[c] = "written" /\ base[c] = text[c] /\ answer # "ok"
  BY DEF EditAnswers
<1>1. did[c] \in Admits[answer] /\ answer \in DOMAIN Admits
  BY DEF IInv, DeedInv, WholeDeed, Admits
<1> QED
  BY <1>1, ElsewhereSurvives, FinishInv DEF EditAnswers, Elsewhere, IInv, TypeOK

LEMMA EditStep == ASSUME IInv, NEW c \in Calls, Edit(c) PROVE IInv'
<1>1. CASE EditFails(c) \/ EditTears(c)
  BY <1>1, FailedStep DEF EditFails, EditTears, IInv, DeedInv
<1> QED
  BY <1>1, EditResolvesStep, EditRefusedStep, EditProbeStep, EditRenameLockedStep,
     EditWritesStep, EditWaivesStep, EditSavesStep, EditSaveFailsStep, EditAnswersStep DEF Edit

-----------------------------------------------------------------------------
(* The undo tool.                                                            *)

LEMMA UndoCallStep == ASSUME IInv, NEW c \in Calls, UndoCall(c) PROVE IInv'
<1>1. CASE rec = Null
  <2>1. did[c] \in Admits["stale"] /\ "stale" \in DOMAIN Admits
    BY DEF IInv, DeedInv, Admits, UndoCall
  <2> QED
    BY <1>1, <2>1, ElsewhereSurvives, FinishInv DEF UndoCall, Elsewhere, IInv, TypeOK
<1>2. CASE rec # Null
  <2> USE <1>2 DEF IInv, UndoCall, Elsewhere, Goto
  <2>1. TypeOK'
    BY DEF TypeOK, PCs
  <2>2. QueueInv' /\ LocalsInv' /\ ReadInv'
    BY DEF TypeOK, QueueInv, LocalsInv, ReadInv, Holding, PCs
  <2>3. DeedInv'
    BY DEF TypeOK, DeedInv, WholeDeed
  <2>4. AnswersTellTheTruth' /\ SavedSurvives'
    BY DEF AnswersTellTheTruth, SavedSurvives
  <2> QED
    BY <2>1, <2>2, <2>3, <2>4
<1> QED
  BY <1>1, <1>2

LEMMA UndoEntersStep == ASSUME IInv, NEW c \in Calls, UndoEnters(c) PROVE IInv'
<1> USE SessionAssumption DEF IInv, UndoEnters, Enter, QueueFree, Goto, Elsewhere, locals
<1>1. TypeOK'
  BY DEF TypeOK, PCs
<1>2. QueueInv'
  <2>1. "undoRead" \in Holding
    BY DEF Holding, PCs
  <2> QED
    BY <2>1, EnterInv
<1>3. LocalsInv' /\ ReadInv'
  BY DEF TypeOK, LocalsInv, ReadInv, Holding, PCs
<1>4. DeedInv'
  BY DEF TypeOK, DeedInv, WholeDeed
<1>5. AnswersTellTheTruth' /\ SavedSurvives'
  BY DEF AnswersTellTheTruth, SavedSurvives
<1> QED
  BY <1>1, <1>2, <1>3, <1>4, <1>5

LEMMA UndoAbortedStep == ASSUME IInv, NEW c \in Calls, UndoAborted(c) PROVE IInv'
<1>1. did[c] \in Admits["abortedEarly"] /\ "abortedEarly" \in DOMAIN Admits
  BY DEF IInv, DeedInv, Admits, UndoAborted
<1> QED
  BY <1>1, ElsewhereSurvives, FinishInv DEF UndoAborted, Elsewhere, IInv, TypeOK

\* A record that is cleared unread was not the latest one, or it robs.
LEMMA UndoStaleStep == ASSUME IInv, NEW c \in Calls, UndoStale(c) PROVE IInv'
<1>1. did[c] \in Admits["stale"] /\ "stale" \in DOMAIN Admits
  BY DEF IInv, DeedInv, Admits, UndoStale
<1>2. SavedSurvives'
  <2> SUFFICES ASSUME saved' # Null, robbed' # TRUE PROVE rec' = saved'
    BY DEF SavedSurvives
  <2>1. saved' = saved /\ saved # snap[c]
    BY DEF UndoStale
  <2>2. CASE UNCHANGED <<rec, robbed>>
    BY <2>1, <2>2 DEF IInv, SavedSurvives, TypeOK
  <2>3. CASE rec' = Null /\ robbed' = (robbed \/ (rec # Null /\ rec # snap[c]))
    BY <2>1, <2>3 DEF IInv, SavedSurvives, TypeOK
  <2> QED
    BY <2>2, <2>3 DEF UndoStale, Clear
<1>3. rec' \in {rec, Null} /\ saved' \in {saved, Null} /\ robbed' \in BOOLEAN
  BY DEF UndoStale, Clear, IInv, TypeOK
<1> QED
  BY <1>1, <1>2, <1>3, FinishInv DEF UndoStale

LEMMA UndoMatchesStep == ASSUME IInv, NEW c \in Calls, UndoMatches(c) PROVE IInv'
<1> USE DEF IInv, UndoMatches, Goto
<1>1. snap[c].base \in Contents /\ file \in Contents
  BY DEF LocalsInv, Record
<1>2. TypeOK'
  BY <1>1 DEF TypeOK, PCs
<1>3. QueueInv'
  BY DEF TypeOK, QueueInv, Holding, PCs
<1>4. LocalsInv'
  BY <1>1 DEF TypeOK, LocalsInv, Holding, PCs
<1>5. DeedInv' /\ ReadInv'
  BY DEF TypeOK, DeedInv, WholeDeed, ReadInv
<1>6. AnswersTellTheTruth' /\ SavedSurvives'
  BY DEF AnswersTellTheTruth, SavedSurvives
<1> QED
  BY <1>2, <1>3, <1>4, <1>5, <1>6

LEMMA UndoWritesStep ==
  ASSUME IInv, NEW c \in Calls, UndoTruncates(c) \/ UndoFills(c) PROVE IInv'
<1>1. /\ text[c] \in Contents /\ Torn \in Contents /\ snap[c] \in Record
      /\ pc[c] \in Holding \ {"undoRead"} /\ {"whole", "part"} \subseteq Deeds
      /\ {"undoWriting", "undoWritten"}
           \subseteq Holding \ {"resolved", "probed", "undoRead", "undoing"}
  BY DEF IInv, LocalsInv, Holding, PCs, UndoTruncates, UndoFills, Deeds, Contents
<1> QED
  BY <1>1, WritesInv DEF UndoTruncates, UndoFills

LEMMA UndoFailsStep == ASSUME IInv, NEW c \in Calls, UndoFails(c) PROVE IInv'
  BY FailedStep DEF UndoFails, IInv, DeedInv

LEMMA UndoClearsStep == ASSUME IInv, NEW c \in Calls, UndoClears(c) PROVE IInv'
<1>1. did[c] \in Admits["undone"] /\ "undone" \in DOMAIN Admits
  BY DEF IInv, DeedInv, Admits, UndoClears
<1>2. SavedSurvives'
  <2> SUFFICES ASSUME saved' # Null, robbed' # TRUE PROVE rec' = saved'
    BY DEF SavedSurvives
  <2>1. saved' = saved /\ saved # snap[c]
    BY DEF UndoClears
  <2>2. CASE UNCHANGED <<rec, robbed>>
    BY <2>1, <2>2 DEF IInv, SavedSurvives, TypeOK
  <2>3. CASE rec' = Null /\ robbed' = (robbed \/ (rec # Null /\ rec # snap[c]))
    BY <2>1, <2>3 DEF IInv, SavedSurvives, TypeOK
  <2> QED
    BY <2>2, <2>3 DEF UndoClears, Clear
<1>3. rec' \in {rec, Null} /\ saved' \in {saved, Null} /\ robbed' \in BOOLEAN
  BY DEF UndoClears, Clear, IInv, TypeOK
<1> QED
  BY <1>1, <1>2, <1>3, FinishInv DEF UndoClears

LEMMA UndoStep == ASSUME IInv, NEW c \in Calls, Undo(c) PROVE IInv'
  BY UndoEntersStep, UndoAbortedStep, UndoStaleStep, UndoMatchesStep, UndoWritesStep,
     UndoFailsStep, UndoClearsStep DEF Undo

-----------------------------------------------------------------------------
(* The environment.                                                          *)

LEMMA KillStep == ASSUME IInv, NEW s \in Sessions, Kill(s) PROVE IInv'
<1> USE SessionAssumption DEF IInv, Kill, Running, Forget, Elsewhere
<1>1. TypeOK'
  <2>1. 0 \in 0 .. RenameAttempts /\ "done" \in PCs /\ "nothing" \in Deeds
    BY DEF PCs, Deeds
  <2>2. queue' \in [Sessions -> Calls \cup {Null}] /\ pc' \in [Calls -> PCs]
    BY <2>1 DEF TypeOK
  <2>3. /\ base' \in [Calls -> Contents \cup {Null}] /\ text' \in [Calls -> Contents \cup {Null}]
        /\ snap' \in [Calls -> Record \cup {Null}] /\ tries' \in [Calls -> 0 .. RenameAttempts]
        /\ clean' \in [Calls -> BOOLEAN] /\ did' \in [Calls -> Deeds]
    BY <2>1 DEF TypeOK
  <2> QED
    BY <2>2, <2>3 DEF TypeOK
<1>2. QueueInv'
  BY DEF TypeOK, QueueInv, Holding, PCs
<1>3. LocalsInv' /\ ReadInv'
  BY DEF TypeOK, LocalsInv, ReadInv, Holding, PCs
<1>4. DeedInv'
  BY DEF TypeOK, DeedInv, WholeDeed
<1>5. AnswersTellTheTruth' /\ SavedSurvives'
  BY DEF AnswersTellTheTruth, SavedSurvives
<1> QED
  BY <1>1, <1>2, <1>3, <1>4, <1>5

\* Another program is in no session: whoever has read the file is not clean.
LEMMA ForeignStep == ASSUME IInv, Foreign PROVE IInv'
<1> USE SessionAssumption DEF IInv, Foreign, Change
<1>1. TypeOK'
  BY DEF TypeOK, Contents
<1>2. QueueInv' /\ LocalsInv'
  BY DEF QueueInv, LocalsInv
<1>3. DeedInv'
  BY DEF DeedInv, WholeDeed
<1>4. ReadInv'
  <2>1. SUFFICES ASSUME NEW d \in Calls PROVE ~clean'[d]
    BY <2>1 DEF ReadInv
  <2>2. Home[d] \in Sessions /\ Null \notin Sessions
    OBVIOUS
  <2>3. clean' = [c \in Calls |-> clean[c] /\ Home[c] = Null]
    OBVIOUS
  <2>4. clean'[d] = (clean[d] /\ Home[d] = Null)
    BY <2>3, Zenon
  <2> QED
    BY <2>2, <2>4
<1>5. AnswersTellTheTruth' /\ SavedSurvives'
  BY DEF AnswersTellTheTruth, SavedSurvives
<1> QED
  BY <1>1, <1>2, <1>3, <1>4, <1>5

LEMMA StoreDropsStep == ASSUME IInv, StoreDrops PROVE IInv'
<1> USE DEF IInv, StoreDrops, locals
<1>1. TypeOK'
  BY DEF TypeOK
<1>2. QueueInv' /\ LocalsInv' /\ ReadInv'
  BY DEF QueueInv, LocalsInv, ReadInv
<1>3. DeedInv'
  BY DEF DeedInv, WholeDeed
<1>4. AnswersTellTheTruth' /\ SavedSurvives'
  BY DEF AnswersTellTheTruth, SavedSurvives
<1> QED
  BY <1>1, <1>2, <1>3, <1>4

LEMMA StutterStep == ASSUME IInv, UNCHANGED vars PROVE IInv'
<1> USE DEF IInv, vars
<1>1. TypeOK'
  BY DEF TypeOK
<1>2. QueueInv' /\ LocalsInv' /\ ReadInv'
  BY DEF QueueInv, LocalsInv, ReadInv
<1>3. DeedInv'
  BY DEF DeedInv, WholeDeed
<1>4. AnswersTellTheTruth' /\ SavedSurvives'
  BY DEF AnswersTellTheTruth, SavedSurvives
<1> QED
  BY <1>1, <1>2, <1>3, <1>4

LEMMA NextInv == IInv /\ [Next]_vars => IInv'
  BY EditCallStep, UndoCallStep, EditStep, UndoStep, KillStep, ForeignStep, StoreDropsStep,
     StutterStep DEF Next

LEMMA InvariantHolds == Spec => []IInv
<1>1. Init => IInv
  BY InitInv
<1>2. IInv /\ [Next]_vars => IInv'
  BY NextInv
<1> QED
  BY <1>1, <1>2, PTL DEF Spec

-----------------------------------------------------------------------------
\* Calls, sessions, the file and the record have their types.
THEOREM TypeCorrect == Spec => []TypeOK
<1>1. IInv => TypeOK
  BY DEF IInv
<1> QED
  BY <1>1, InvariantHolds, PTL

\* For any sessions and calls: what a call answers is what it did
\* (tools/edit.ts 238-318, tools/undo.ts 69-136).
THEOREM AnswersTrue == Spec => []AnswersTellTheTruth
<1>1. IInv => AnswersTellTheTruth
  BY DEF IInv
<1> QED
  BY <1>1, InvariantHolds, PTL

\* For any sessions and calls: nothing but what SavedSurvives names takes the record
\* of the latest edit away (tools/undo.ts 69, 88, 107).
THEOREM SavedSafe == Spec => []SavedSurvives
<1>1. IInv => SavedSurvives
  BY DEF IInv
<1> QED
  BY <1>1, InvariantHolds, PTL

\* For any sessions and calls: a call writes over what it read, unless someone
\* outside its session changed it (platform/tools/edit.ts 175).
THEOREM QueueProtects == Spec => NoSiblingOverwrite
<1>1. ASSUME IInv, [Next]_vars
      PROVE  \A c \in Calls :
               EditRename(c) \/ EditTruncates(c) \/ UndoTruncates(c) =>
                 file = base[c] \/ ~clean[c]
  BY <1>1 DEF IInv, ReadInv, EditRename, EditTruncates, UndoTruncates
<1> QED
  BY <1>1, InvariantHolds, PTL DEF Spec, NoSiblingOverwrite
=============================================================================
