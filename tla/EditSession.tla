----------------------------- MODULE EditSession -----------------------------
(***************************************************************************)
(* The edit and undo tools at work on one file:                            *)
(* src/src/platform/tools/edit.ts, src/src/platform/tools/undo.ts and the  *)
(* persistence of src/src/edit/pipeline/execute.ts.  Calls of one session  *)
(* share a mutation queue; sessions are processes that share nothing but   *)
(* the file and the undo store, and other programs change the file too.    *)
(* A step runs up to an await or to a system call another process can get  *)
(* in between.  A call may be aborted at any time and notices at its next  *)
(* throwIfAborted, which is a choice made there.  The store is the one     *)
(* UndoStore details, seen through get, put and delete.                    *)
(***************************************************************************)
EXTENDS Integers, FiniteSets

CONSTANTS
  Sessions,        \* pi processes
  Calls,           \* tool calls, each made at most once
  Home,            \* Home[c]: the session of call c
  Texts,           \* contents the file may have
  Torn,            \* the content of a file written in part
  Null,            \* no file, no record, no call, no session
  RenameAttempts,  \* attempts of renameWithLockRetry (5 in the code)
  MaxForeign       \* bound: changes made by other programs

Contents == Texts \cup {Torn}
Record == [base : Contents, result : Contents]

ASSUME SessionAssumption ==
  /\ Home \in [Calls -> Sessions]
  /\ Torn \notin Texts /\ Null \notin Contents \cup Record \cup Calls \cup Sessions
  /\ RenameAttempts \in Nat \ {0} /\ MaxForeign \in Nat

VARIABLES
  file,      \* the file's content, Null when there is none
  rec,       \* the record getUndo serves for the file
  queue,     \* queue[s]: the call holding the mutation queue of s, or Null
  foreign,   \* changes made by other programs so far (bounded)
  pc,        \* pc[c]: where call c is
  base,      \* base[c]: what c read from the file
  text,      \* text[c]: what c is to write
  snap,      \* snap[c]: the record the undo c works from
  tries,     \* tries[c]: renames of c that failed
  did,       \* history: did[c]: what c has done to the file and the store
  clean,     \* history: nobody outside its session changed the file since c read it
  saved,     \* history: the record of the latest edit with one, until it is undone, goes
             \*   stale, or is dropped by the store
  robbed,    \* history: an undo cleared the latest record without having read it
  lied       \* history: a call answered what it had not done

locals == <<base, text, snap, tries, did, clean>>
vars == <<file, rec, queue, foreign, pc, base, text, snap, tries, did,
          clean, saved, robbed, lied>>

PCs == {"idle", "queued", "resolved", "probed", "writing", "written", "saved",
        "undoQueued", "undoRead", "undoing", "undoWriting", "undoWritten", "done"}

\* Part of a text written, the old text rewritten, a new text written, its
\* record put, or waived because undo is off.
Deeds == {"nothing", "part", "rewrote", "whole", "put", "waived"}

\* The deeds an answer admits: success means a new text and, with undo on, its
\* record, a late abort of a change left it just as undoable, and a plain
\* failure may have torn the file but never installed the text.
Admits ==
  [ok |-> {"put", "waived"}, noop |-> {"rewrote"}, failed |-> {"nothing", "part"},
   undoUnavailable |-> {"whole"}, abortedEarly |-> {"nothing"},
   abortedLate |-> {"put", "waived", "rewrote"}, undone |-> {"whole"},
   stale |-> {"nothing"}]

-----------------------------------------------------------------------------
Init ==
  /\ file \in Texts /\ rec = Null
  /\ queue = [s \in Sessions |-> Null] /\ foreign = 0
  /\ pc = [c \in Calls |-> "idle"]
  /\ base = [c \in Calls |-> Null]
  /\ text = [c \in Calls |-> Null]
  /\ snap = [c \in Calls |-> Null]
  /\ tries = [c \in Calls |-> 0]
  /\ did = [c \in Calls |-> "nothing"]
  /\ clean = [c \in Calls |-> FALSE]
  /\ saved = Null /\ robbed = FALSE /\ lied = FALSE

Goto(c, label) == pc' = [pc EXCEPT ![c] = label]

\* A faulty QueueFree: the queue lets everyone in.
MutQueueFree(c) == TRUE
QueueFree(c) == queue[Home[c]] = Null

Enter(c) == QueueFree(c) /\ queue' = [queue EXCEPT ![Home[c]] = c]

\* The calls cs are over and their locals go with them.
Forget(cs) ==
  /\ base' = [c \in Calls |-> IF c \in cs THEN Null ELSE base[c]]
  /\ text' = [c \in Calls |-> IF c \in cs THEN Null ELSE text[c]]
  /\ snap' = [c \in Calls |-> IF c \in cs THEN Null ELSE snap[c]]
  /\ tries' = [c \in Calls |-> IF c \in cs THEN 0 ELSE tries[c]]
  /\ did' = [c \in Calls |-> IF c \in cs THEN "nothing" ELSE did[c]]
  /\ clean' = [c \in Calls |-> clean[c] /\ c \notin cs]

\* A faulty Releases: an answer without an undo record keeps the queue.
MutReleases(c, answer) == queue[Home[c]] = c /\ answer # "undoUnavailable"

\* Whatever ends the callback releases the queue.
Releases(c, answer) == queue[Home[c]] = c

\* The call returns or throws.
Finish(c, answer) ==
  /\ Goto(c, "done")
  /\ queue' = IF Releases(c, answer) THEN [queue EXCEPT ![Home[c]] = Null] ELSE queue
  /\ lied' = (lied \/ did[c] \notin Admits[answer])
  /\ Forget({c})

\* The session s, or another program (Null), gives the file a new content.
Change(s, content) ==
  /\ file' = content
  /\ clean' = [c \in Calls |-> clean[c] /\ Home[c] = s]

\* The call c gives the file a content, which is deed.
Writes(c, content, deed) ==
  /\ Change(Home[c], content)
  /\ did' = [did EXCEPT ![c] = deed]
  /\ UNCHANGED <<rec, queue, foreign, base, text, snap, tries, saved,
                 robbed, lied>>

\* Only c itself moves on.
Elsewhere == UNCHANGED <<file, rec, foreign, saved, robbed>>

-----------------------------------------------------------------------------
(* The edit tool.                                                          *)

\* execute up to the queue.
EditCall(c) ==
  /\ pc[c] = "idle"
  /\ Goto(c, "queued")
  /\ Elsewhere /\ UNCHANGED <<queue, locals, lied>>

\* executeFile reads the file and resolves the edits, which may leave it as
\* it is.
EditResolves(c) ==
  /\ pc[c] = "queued" /\ file # Null
  /\ Enter(c)
  /\ base' = [base EXCEPT ![c] = file]
  /\ \E t \in Texts : text' = [text EXCEPT ![c] = t]
  /\ clean' = [clean EXCEPT ![c] = TRUE]
  /\ Goto(c, "resolved")
  /\ UNCHANGED <<file, rec, foreign, snap, tries, did, saved, robbed, lied>>

\* Aborted in the queue, no file, or no edit resolves.
EditRefused(c) ==
  /\ pc[c] = "queued" /\ QueueFree(c)
  /\ \E answer \in {"abortedEarly", "failed"} : Finish(c, answer)
  /\ Elsewhere

\* assertTargetWritable: a target that is gone or read-only ends the edit.
EditProbe(c) ==
  /\ pc[c] = "resolved"
  /\ \/ file # Null /\ Goto(c, "probed") /\ UNCHANGED <<queue, locals, lied>>
     \/ Finish(c, "failed")
  /\ Elsewhere

WholeDeed(c) == IF base[c] = text[c] THEN "rewrote" ELSE "whole"

\* An ordinary file is staged in a temporary one, which replaces it in one step.
EditRename(c) ==
  /\ pc[c] = "probed" /\ tries[c] < RenameAttempts
  /\ Writes(c, text[c], WholeDeed(c))
  /\ Goto(c, "written")

\* A faulty EditRenameLocked: one attempt too many.
MutEditRenameLocked(c) ==
  /\ pc[c] = "probed" /\ tries[c] <= RenameAttempts
  /\ tries' = [tries EXCEPT ![c] = @ + 1]
  /\ Elsewhere /\ UNCHANGED <<queue, pc, base, text, snap, did, clean, lied>>

\* A lock error with attempts left: await the delay.
EditRenameLocked(c) ==
  /\ pc[c] = "probed" /\ tries[c] < RenameAttempts
  /\ tries' = [tries EXCEPT ![c] = @ + 1]
  /\ Elsewhere /\ UNCHANGED <<queue, pc, base, text, snap, did, clean, lied>>

\* Any other error of the stage or the rename, which unlinks the temporary
\* file, or of opening a target that stayed locked.
EditFails(c) == pc[c] = "probed" /\ Finish(c, "failed") /\ Elsewhere

\* The target has several links, or stayed locked through every attempt:
\* writeFile truncates it first ...
EditTruncates(c) ==
  /\ pc[c] = "probed" /\ tries[c] \in {0, RenameAttempts}
  /\ Writes(c, Torn, "part")
  /\ Goto(c, "writing")

\* ... and ends, or fails half-way.
EditFills(c) ==
  /\ pc[c] = "writing"
  /\ Writes(c, text[c], WholeDeed(c))
  /\ Goto(c, "written")

EditTears(c) == pc[c] = "writing" /\ Finish(c, "failed") /\ Elsewhere

\* getConfig().undoEnabled, which the user sets at any time, is off: the edit
\* changed something and no record is made of it.
EditWaives(c) ==
  /\ pc[c] = "written" /\ base[c] # text[c]
  /\ did' = [did EXCEPT ![c] = "waived"]
  /\ Goto(c, "saved")
  /\ Elsewhere /\ UNCHANGED <<queue, base, text, snap, tries, clean, lied>>

\* It is on: saveUndo, for an edit that changed something.
EditSaves(c) ==
  /\ pc[c] = "written" /\ base[c] # text[c]
  /\ rec' = [base |-> base[c], result |-> text[c]]
  /\ saved' = rec'
  /\ robbed' = FALSE
  /\ did' = [did EXCEPT ![c] = "put"]
  /\ Goto(c, "saved")
  /\ UNCHANGED <<file, queue, foreign, base, text, snap, tries, clean, lied>>

\* A faulty EditSaveFails: the lost record is not reported.
MutEditSaveFails(c) ==
  /\ pc[c] = "written" /\ base[c] # text[c]
  /\ Finish(c, "ok")
  /\ saved' = Null
  /\ UNCHANGED <<file, rec, foreign, robbed>>

\* persisted: false is an error although the edit was applied.
EditSaveFails(c) ==
  /\ pc[c] = "written" /\ base[c] # text[c]
  /\ Finish(c, "undoUnavailable")
  /\ saved' = Null
  /\ UNCHANGED <<file, rec, foreign, robbed>>

\* The last throwIfAborted, then the answer.
EditAnswers(c) ==
  /\ \/ pc[c] = "saved" /\ Finish(c, "ok")
     \/ pc[c] = "written" /\ base[c] = text[c] /\ Finish(c, "noop")
     \/ /\ pc[c] = "saved" \/ (pc[c] = "written" /\ base[c] = text[c])
        /\ Finish(c, "abortedLate")
  /\ Elsewhere

-----------------------------------------------------------------------------
(* The undo tool.                                                          *)

\* getUndo runs before the queue is entered.
UndoCall(c) ==
  /\ pc[c] = "idle"
  /\ IF rec = Null
     THEN Finish(c, "stale")
     ELSE /\ snap' = [snap EXCEPT ![c] = rec]
          /\ Goto(c, "undoQueued")
          /\ UNCHANGED <<queue, base, text, tries, did, clean, lied>>
  /\ Elsewhere

\* clearUndo appends a tombstone, or fails and says nothing.
Clear(c) ==
  \/ /\ rec' = Null
     /\ robbed' = (robbed \/ (rec # Null /\ rec # snap[c]))
  \/ UNCHANGED <<rec, robbed>>

UndoEnters(c) ==
  /\ pc[c] = "undoQueued"
  /\ Enter(c)
  /\ Goto(c, "undoRead")
  /\ Elsewhere /\ UNCHANGED <<locals, lied>>

\* Aborted in the queue, or once the file is read and is as the edit left it.
UndoAborted(c) ==
  /\ \/ pc[c] = "undoQueued" /\ QueueFree(c)
     \/ pc[c] = "undoRead" /\ file = snap[c].result
  /\ Finish(c, "abortedEarly") /\ Elsewhere

\* The file cannot be read, whatever the reason, or is not what the snapshot's
\* edit left: whatever record there is now is cleared.
UndoStale(c) ==
  /\ pc[c] = "undoRead"
  /\ \E seen \in {file, Null} :
       /\ seen # snap[c].result
       /\ saved' = IF saved # Null /\ seen # saved.result THEN Null ELSE saved
  /\ Clear(c)
  /\ Finish(c, "stale")
  /\ UNCHANGED <<file, foreign>>

\* It is: the snapshot's base is to be written over it.
UndoMatches(c) ==
  /\ pc[c] = "undoRead" /\ file = snap[c].result
  /\ base' = [base EXCEPT ![c] = file]
  /\ text' = [text EXCEPT ![c] = snap[c].base]
  /\ clean' = [clean EXCEPT ![c] = TRUE]
  /\ Goto(c, "undoing")
  /\ UNCHANGED <<file, rec, queue, foreign, snap, tries, did, saved,
                 robbed, lied>>

\* writeFile truncates the file and fills it again, not atomically ...
UndoTruncates(c) ==
  pc[c] = "undoing" /\ Writes(c, Torn, "part") /\ Goto(c, "undoWriting")

UndoFills(c) ==
  pc[c] = "undoWriting" /\ Writes(c, text[c], "whole") /\ Goto(c, "undoWritten")

\* A faulty UndoFails: the record is cleared all the same.
MutUndoFails(c) ==
  /\ pc[c] \in {"undoing", "undoWriting"}
  /\ Finish(c, "failed") /\ Clear(c)
  /\ UNCHANGED <<file, foreign, saved>>

\* ... or rejects, before the file is opened or half-way.
UndoFails(c) ==
  /\ pc[c] \in {"undoing", "undoWriting"}
  /\ Finish(c, "failed") /\ Elsewhere

UndoClears(c) ==
  /\ pc[c] = "undoWritten"
  /\ Clear(c)
  /\ saved' = IF saved = snap[c] THEN Null ELSE saved
  /\ Finish(c, "undone")
  /\ UNCHANGED <<file, foreign>>

-----------------------------------------------------------------------------
(* The environment.                                                        *)

Running(s) == {c \in Calls : Home[c] = s /\ pc[c] \notin {"idle", "done"}}

\* A session is killed with its calls, whatever they were doing.
Kill(s) ==
  /\ Running(s) # {}
  /\ pc' = [c \in Calls |-> IF c \in Running(s) THEN "done" ELSE pc[c]]
  /\ queue' = [queue EXCEPT ![s] = Null]
  /\ Forget(Running(s))
  /\ Elsewhere /\ UNCHANGED lied

\* Another program writes or deletes the file.
Foreign ==
  /\ foreign < MaxForeign /\ foreign' = foreign + 1
  /\ \E t \in Texts \cup {Null} : Change(Null, t)
  /\ UNCHANGED <<rec, queue, pc, base, text, snap, tries, did, saved,
                 robbed, lied>>

\* The store drops the record: evicted, or lost in one of the windows of
\* UndoStore.
StoreDrops ==
  /\ rec # Null /\ rec' = Null /\ saved' = Null
  /\ UNCHANGED <<file, queue, foreign, pc, locals, robbed, lied>>

Edit(c) ==
  \/ EditResolves(c) \/ EditRefused(c) \/ EditProbe(c)
  \/ EditRename(c) \/ EditRenameLocked(c) \/ EditFails(c)
  \/ EditTruncates(c) \/ EditFills(c) \/ EditTears(c)
  \/ EditWaives(c) \/ EditSaves(c) \/ EditSaveFails(c) \/ EditAnswers(c)

Undo(c) ==
  \/ UndoEnters(c) \/ UndoAborted(c) \/ UndoStale(c)
  \/ UndoMatches(c) \/ UndoTruncates(c) \/ UndoFills(c) \/ UndoFails(c)
  \/ UndoClears(c)

Next ==
  \/ \E c \in Calls : EditCall(c) \/ UndoCall(c) \/ Edit(c) \/ Undo(c)
  \/ \E s \in Sessions : Kill(s)
  \/ Foreign \/ StoreDrops

\* The event loop of a session runs what a call awaits.
Spec == Init /\ [][Next]_vars /\ \A c \in Calls : WF_vars(Edit(c) \/ Undo(c))

-----------------------------------------------------------------------------
TypeOK ==
  /\ file \in Contents \cup {Null}
  /\ rec \in Record \cup {Null} /\ saved \in Record \cup {Null}
  /\ queue \in [Sessions -> Calls \cup {Null}]
  /\ foreign \in 0 .. MaxForeign
  /\ pc \in [Calls -> PCs]
  /\ base \in [Calls -> Contents \cup {Null}]
  /\ text \in [Calls -> Contents \cup {Null}]
  /\ snap \in [Calls -> Record \cup {Null}]
  /\ tries \in [Calls -> 0 .. RenameAttempts]
  /\ clean \in [Calls -> BOOLEAN]
  /\ did \in [Calls -> Deeds]
  /\ robbed \in BOOLEAN /\ lied \in BOOLEAN

\* What a call answers is what it did to the file and the store, as Admits
\* lists it, whatever fails, is aborted or stays locked on the way: with undo
\* on, an edit that says it succeeded has left a record (tools/edit.ts 238-318,
\* tools/undo.ts 69-136).
AnswersTellTheTruth == ~lied

\* The record of the latest edit that made one stays available until it is
\* undone, an undo cannot read the file or finds it changed, or the store drops it, unless an
\* undo that started from an older record clears it (tools/undo.ts 69, 88, 107):
\* aborts, failures, kills and lock retries never take it away.
SavedSurvives == saved # Null /\ ~robbed => rec = saved

\* A call changes only the text it read: between its read and its write nothing
\* but another session or another program can have changed the file, however
\* long it waits for a lock.
NoSiblingOverwrite ==
  [][\A c \in Calls :
       EditRename(c) \/ EditTruncates(c) \/ UndoTruncates(c) =>
         file = base[c] \/ ~clean[c]]_vars

\* Every call that reached the queue answers: no answer of another call, kill
\* or abort keeps the queue locked.
EveryCallEnds ==
  \A c \in Calls : pc[c] \in {"queued", "undoQueued"} ~> pc[c] = "done"

\* Said by tools/undo.ts 75: "The tool keeps a single snapshot per file (from
\* the most recent edit-tool edit)".
SnapshotKept == saved # Null => rec = saved
=============================================================================
