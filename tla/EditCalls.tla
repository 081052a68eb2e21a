------------------------------ MODULE EditCalls ------------------------------
(***************************************************************************)
(* The tool calls of one message of the model, from the arguments it sent  *)
(* to the end of each call, with the guards around them: the edit tool     *)
(* (src/src/platform/tools/edit.ts), the hooks on tool_call, tool_result   *)
(* and tool_execution_end in their order of registration                   *)
(* (src/src/extension.ts), and the checkpoints of the session.  Edits      *)
(* resolve and write as EditSession details; here executing one has an     *)
(* outcome.  A step runs up to an await or to the next event; a call may   *)
(* be aborted at any time and notices at its next throwIfAborted.          *)
(***************************************************************************)
EXTENDS Guards, RepairLifecycle, Telemetry, Stormbreaker

CONSTANTS
  Batches,      \* messages: their calls, the files and the settings, and (a bound)
                \* what goes on amid them: time, checkpoints, shutdowns
  Signatures,   \* error signatures of tools other than edit
  MaxShutdowns  \* bound: how often the session ends

\* Messages are sequences of calls with values as arguments, and a call that is
\* no edit names known paths.
ASSUME BatchAssumption ==
  /\ MaxShutdowns \in Nat
  /\ UNION {{b.calls[c].input : c \in DOMAIN b.calls} : b \in Batches} \subseteq Values
  /\ \A b \in Batches :
       /\ Len(b.calls) \in Nat /\ DOMAIN b.calls = 1 .. Len(b.calls)
       /\ b.telemetry \in BOOLEAN /\ b.disk \in [Files -> {"none", "empty", "full"}]
       /\ \A c \in DOMAIN b.calls :
            LET v == b.calls[c].input IN
            /\ b.calls[c].tool \in Tools
            /\ b.calls[c].tool # "edit" =>
                 \A k \in PathKeys : Names(v, k) => At(v, k).s \in Paths

VARIABLES
  batch,     \* the message
  pc,        \* pc[c]: where call c is
  args,      \* args[c]: its arguments
  result,    \* result[c]: "ok", "aborted" or the signature of its error
  feedback,  \* feedback[c]: the note execute got for it
  open,      \* the session is open
  shutdowns, \* how often it ended (bounded)
  made,      \* history: made[c]: the arguments c's preparation ended at
  since,     \* history: since[c]: notes parked after c's own, NoNote without one
  parkedAt,  \* history: parkedAt[c]: when c's note was parked
  ran,       \* history: ran[c]: executeFile gave a result
  envelopes, \* history: envelopes[c]: envelopes recorded for c
  advised,   \* history: advised[c]: path advisories recorded for c
  told,      \* history: spellings whose overwrite was blocked in this session
  late,      \* history: writes that were let pass before another call filled their
             \*   file, or before the session ended
  streak     \* history: streak[t]: failures of t since its last success or break

callVars == <<batch, pc, args, result, feedback, made, since, parkedAt, ran, envelopes, advised>>
sessionVars == <<open, shutdowns, told, late>>
vars == <<lifecycleVars, telemetryVars, stormVars, guardVars, callVars, sessionVars, streak>>

Ids == DOMAIN batch.calls
Tool(c) == batch.calls[c].tool
Raw(c) == batch.calls[c].input
Prepared(c) == PrepareEditArguments(Raw(c), batch.repair, batch.conservative)

PCs == {"sent", "prepared", "looked", "cleared", "advised", "queued", "written",
        "answered", "refused", "ended"}

Init ==
  /\ batch \in Batches
  /\ LifecycleInit /\ TelemetryInit /\ StormInit
  /\ nudged = {} /\ disk = batch.disk
  /\ pc = [c \in Ids |-> "sent"]
  /\ args = [c \in Ids |-> Raw(c)]
  /\ result = [c \in Ids |-> ""]
  /\ feedback = [c \in Ids |-> NoNote]
  /\ open = TRUE /\ shutdowns = 0
  /\ made = [c \in Ids |-> Absent]
  /\ since = [c \in Ids |-> NoNote] /\ parkedAt = [c \in Ids |-> 0]
  /\ ran = [c \in Ids |-> FALSE]
  /\ envelopes = [c \in Ids |-> 0] /\ advised = [c \in Ids |-> 0]
  /\ told = {} /\ late = {} /\ streak = [t \in Tools |-> <<>>]

Goto(c, label) == pc' = [pc EXCEPT ![c] = label]
Answer(c, r) == result' = [result EXCEPT ![c] = r]

\* What becomes of a batch of events that is flushed.
Records(n) ==
  \E o \in (IF batch.telemetry THEN {"appended", "threw"} ELSE {"off"}) : Record(n, o)

-----------------------------------------------------------------------------
(* Before a call executes.                                                   *)

\* pi prepares the calls of a message in order, and executes them together or
\* one by one.
Turn(c) ==
  \A d \in Ids : d < c =>
    pc[d] \notin (IF batch.parallel THEN {"sent", "prepared", "looked"} ELSE PCs \ {"ended"})

\* prepareArguments does not throw, and its result passes pi's own validation.
Accepted(r) == r.outcome \in {"valid", "repaired"} /\ Valid(Convert(r.args))

Refuse(c) ==
  /\ pc[c] = "sent" /\ Turn(c) /\ Tool(c) = "edit"
  /\ Goto(c, "refused") /\ Answer(c, "refused")
  /\ \E r \in {Prepared(c)} :
       ~Accepted(r) /\ Records(IF r.outcome = "unrepairable" THEN 1 ELSE 0)
  /\ UNCHANGED <<lifecycleVars, editContexts, stormVars, guardVars, sessionVars, streak,
                 batch, args, feedback, made, since, parkedAt, ran, envelopes, advised>>

\* A call that is prepared has parked a note if its arguments were repaired.
Prepare(c) ==
  /\ pc[c] = "sent" /\ Turn(c)
  /\ Goto(c, "prepared")
  /\ IF Tool(c) # "edit"
     THEN UNCHANGED <<lifecycleVars, telemetryVars, args, made, since, parkedAt>>
     ELSE \E r \in {Prepared(c)} :
          /\ Accepted(r)
          /\ args' = [args EXCEPT ![c] = Convert(r.args)]
          /\ made' = [made EXCEPT ![c] = r.args]
          /\ Records(Len(r.changes)) /\ UNCHANGED editContexts
          /\ IF r.outcome # "repaired" THEN UNCHANGED <<lifecycleVars, since, parkedAt>>
             ELSE /\ Enqueue(r.args, c)
                  /\ since' = [d \in Ids |-> IF d = c THEN 0
                                 ELSE IF since[d] = NoNote THEN NoNote ELSE since[d] + 1]
                  /\ parkedAt' = [parkedAt EXCEPT ![c] = now]
  /\ UNCHANGED <<stormVars, guardVars, sessionVars, streak, batch, result, feedback, ran,
                 envelopes, advised>>

\* The preflight hook blocks the call, or repairs its path and advises.
Preflight(c) ==
  /\ pc[c] = "prepared"
  /\ IF PreflightBlocks(Tool(c), args[c])
     THEN /\ Goto(c, "refused") /\ Answer(c, "blocked") /\ Records(1)
          /\ UNCHANGED <<args, advised>>
     ELSE /\ Goto(c, IF Tool(c) = "write" THEN "looked" ELSE "cleared")
          /\ UNCHANGED result
          /\ args' = [args EXCEPT ![c] = Repaired(Tool(c), @)]
          /\ Records(PreflightEvents(Tool(c), args[c]))
          /\ advised' = [advised EXCEPT ![c] =
               IF Advises(Tool(c), args[c]) THEN @ + 1 ELSE @]
  /\ UNCHANGED <<lifecycleVars, editContexts, stormVars, guardVars, sessionVars, streak,
                 batch, feedback, made, since, parkedAt, ran, envelopes>>

\* The overwrite guard comes after it: the first write over content is blocked.
Overwrite(c) ==
  /\ pc[c] = "looked"
  /\ IF Nudges(Tool(c), args[c])
     THEN /\ Nudge(args[c]) /\ told' = told \cup {At(args[c], "path").s}
          /\ Goto(c, "refused") /\ Answer(c, "blocked") /\ Records(1)
     ELSE /\ Goto(c, "cleared") /\ UNCHANGED <<nudged, told, result, telemetryVars>>
  /\ UNCHANGED <<lifecycleVars, editContexts, stormVars, disk, open, shutdowns, late,
                 streak, batch, args, feedback, made, since, parkedAt, ran, envelopes, advised>>

-----------------------------------------------------------------------------
(* The edit tool.                                                            *)

\* execute up to its first await: aborted, without edits, or correlated with a
\* note and advised of a path outside the working directory.
EditRefused(c) ==
  /\ pc[c] = "cleared" /\ Tool(c) = "edit"
  /\ \E r \in {"aborted", "invalid"} :
       /\ r = "invalid" => args[c].f.edits.e = <<>>
       /\ Answer(c, r)
  /\ Goto(c, "answered")
  /\ UNCHANGED <<lifecycleVars, telemetryVars, stormVars, guardVars, sessionVars, streak,
                 batch, args, feedback, made, since, parkedAt, ran, envelopes, advised>>

EditCorrelates(c) ==
  /\ pc[c] = "cleared" /\ Tool(c) = "edit" /\ args[c].f.edits.e # <<>>
  /\ Correlate(args[c], c)
  /\ feedback' = [feedback EXCEPT ![c] = Match(args[c])]
  /\ LET n == IF IsOutside(args[c]) THEN 1 ELSE 0 IN
       Records(n) /\ advised' = [advised EXCEPT ![c] = @ + n]
  /\ Goto(c, "advised")
  /\ UNCHANGED <<editContexts, stormVars, guardVars, sessionVars, streak, batch, args,
                 result, made, since, parkedAt, ran, envelopes>>

\* After the await: beginEdit, and the mutation queue is joined.
EditBegins(c) ==
  /\ pc[c] = "advised"
  /\ BeginEdit(c) /\ Goto(c, "queued")
  /\ UNCHANGED <<lifecycleVars, eventsRecorded, pendingEvents, audit, stormVars, guardVars,
                 sessionVars, streak, batch, args, result, feedback, made, since, parkedAt, ran,
                 envelopes, advised>>

\* Aborted in the queue, or executeFile throws: no envelope, the finally block
\* drops the context.
EditThrows(c) ==
  /\ pc[c] = "queued"
  /\ ClearEditContext(c)
  /\ \E r \in {"aborted", "crashed"} : Answer(c, r)
  /\ Goto(c, "answered")
  /\ UNCHANGED <<lifecycleVars, eventsRecorded, pendingEvents, audit, stormVars, guardVars,
                 sessionVars, streak, batch, args, feedback, made, since, parkedAt, ran,
                 envelopes, advised>>

\* The envelope is recorded where the call ends, and not again in finally.
Envelope(c) ==
  /\ Records(Envelopes(c)) /\ EndEdit(c)
  /\ envelopes' = [envelopes EXCEPT ![c] = @ + Envelopes(c)]

\* executeFile answers an error.
EditFails(c) ==
  /\ pc[c] = "queued"
  /\ ran' = [ran EXCEPT ![c] = TRUE]
  /\ Envelope(c) /\ Take(c)
  /\ Answer(c, "failed") /\ Goto(c, "answered")
  /\ UNCHANGED <<stormVars, guardVars, sessionVars, streak, batch, args, feedback, made, since,
                 parkedAt, advised>>

\* It answers a success, and the record for undo is being saved.
EditSucceeds(c) ==
  /\ pc[c] = "queued"
  /\ ran' = [ran EXCEPT ![c] = TRUE]
  /\ Take(c) /\ Goto(c, "written")
  /\ UNCHANGED <<telemetryVars, stormVars, guardVars, sessionVars, streak, batch, args,
                 result, feedback, made, since, parkedAt, envelopes, advised>>

\* A faulty EditAnswers: a call that ends after the write by another way has no envelope.
MutEditAnswers(c) ==
  /\ pc[c] = "written"
  /\ \E r \in {"ok", "aborted", "noUndo"} :
       /\ Answer(c, r)
       /\ IF r = "ok" THEN Envelope(c) ELSE UNCHANGED <<telemetryVars, envelopes>>
  /\ Goto(c, "answered")
  /\ UNCHANGED <<lifecycleVars, stormVars, guardVars, sessionVars, streak, batch, args,
                 feedback, made, since, parkedAt, ran, advised>>

\* Whether saving fails, an abort is noticed or the call answers: the envelope
\* is recorded.
EditAnswers(c) ==
  /\ pc[c] = "written"
  /\ \E r \in {"ok", "aborted", "noUndo"} : Answer(c, r)
  /\ Envelope(c)
  /\ Goto(c, "answered")
  /\ UNCHANGED <<lifecycleVars, stormVars, guardVars, sessionVars, streak, batch, args,
                 feedback, made, since, parkedAt, ran, advised>>

-----------------------------------------------------------------------------
(* The other tools, and what follows a call.                                 *)

IsWrite(c) == Tool(c) = "write" /\ Names(args[c], "path")

\* The calls that have passed the hooks and are to write the file of c.
Awaiting(c) ==
  {d \in Ids : pc[d] = "cleared" /\ IsWrite(d) /\ Target(args[d]) = Target(args[c])}

OtherRuns(c) ==
  /\ pc[c] = "cleared" /\ Tool(c) # "edit"
  /\ \E r \in {"ok", "aborted"} \cup Signatures :
       /\ Answer(c, r)
       /\ IF r = "ok" /\ IsWrite(c)
          THEN /\ disk' = [disk EXCEPT ![Target(args[c])] = "full"]
               /\ late' = late \cup (Awaiting(c) \ {c})
          ELSE UNCHANGED <<disk, late>>
  /\ Goto(c, "answered")
  /\ UNCHANGED <<lifecycleVars, telemetryVars, stormVars, nudged, open, shutdowns, told, streak,
                 batch, args, feedback, made, since, parkedAt, ran, envelopes, advised>>

\* The tool_result hook rewrites an error's text; a call that never executed
\* has no tool_result.
Enhance(c) ==
  /\ pc[c] = "answered"
  /\ Goto(c, "refused")
  /\ Records(IF result[c] = "ok" THEN 0 ELSE 1)
  /\ UNCHANGED <<lifecycleVars, editContexts, stormVars, guardVars, sessionVars, streak,
                 batch, args, result, feedback, made, since, parkedAt, ran, envelopes, advised>>

\* The tool_execution_end hook: a success ends the streak, an abort does not
\* count, another failure counts and may break the loop.
Watch(c) ==
  LET t == Tool(c)
      r == result[c]
  IN
  /\ pc[c] = "refused" /\ Goto(c, "ended")
  /\ \/ /\ r = "ok" /\ Records(0)
        /\ Succeed(t) /\ streak' = [streak EXCEPT ![t] = <<>>]
     \/ r = "aborted" /\ UNCHANGED <<stormVars, streak>> /\ Records(0)
     \/ /\ r \notin {"ok", "aborted"}
        /\ \/ Fail(t, r) /\ streak' = [streak EXCEPT ![t] = Append(@, r)] /\ Records(0)
           \/ Break(t, r) /\ streak' = [streak EXCEPT ![t] = <<>>] /\ Records(1)
  /\ UNCHANGED <<lifecycleVars, editContexts, guardVars, sessionVars, batch, args, result,
                 feedback, made, since, parkedAt, ran, envelopes, advised>>

\* The timer sends the retry and records it.
Retry(t) ==
  /\ FireRetry(t, open)
  /\ Records(IF open THEN 1 ELSE 0)
  /\ UNCHANGED <<lifecycleVars, editContexts, guardVars, callVars, sessionVars, streak>>

-----------------------------------------------------------------------------
(* The session.                                                              *)

Flush == \E o \in (IF batch.telemetry THEN {"appended", "threw"} ELSE {"off"}) : FlushNow(o)

Checkpoint ==
  /\ "checkpoints" \in batch.amid
  /\ pendingEvents # <<>> /\ Flush
  /\ UNCHANGED <<lifecycleVars, editContexts, stormVars, guardVars, callVars, sessionVars,
                 streak>>

\* session_shutdown: the flush, the notes and the nudges; the windows stay.
Shutdown ==
  /\ "shutdowns" \in batch.amid
  /\ open /\ shutdowns < MaxShutdowns
  /\ open' = FALSE /\ shutdowns' = shutdowns + 1
  /\ Flush /\ ClearLifecycle /\ ResetNudged
  /\ told' = {} /\ late' = late \cup {c \in Ids : pc[c] = "cleared"}
  /\ since' = [c \in Ids |-> NoNote]
  /\ UNCHANGED <<editContexts, stormVars, disk, streak, batch, pc, args, result, feedback,
                 made, parkedAt, ran, envelopes, advised>>

\* session_start flushes what the last session left.
SessionStart ==
  /\ ~open /\ open' = TRUE
  /\ Flush
  /\ UNCHANGED <<lifecycleVars, editContexts, stormVars, guardVars, callVars, shutdowns,
                 told, late, streak>>

Clock ==
  /\ "time" \in batch.amid
  /\ parked \o associated # <<>> /\ Tick
  /\ UNCHANGED <<telemetryVars, stormVars, guardVars, callVars, sessionVars, streak>>

CallStep(c) ==
  \/ Refuse(c) \/ Prepare(c) \/ Preflight(c) \/ Overwrite(c)
  \/ EditRefused(c) \/ EditCorrelates(c) \/ EditBegins(c) \/ EditThrows(c)
  \/ EditFails(c) \/ EditSucceeds(c) \/ EditAnswers(c)
  \/ OtherRuns(c) \/ Enhance(c) \/ Watch(c)

Next ==
  \/ \E c \in Ids : CallStep(c)
  \/ (\E t \in Tools : Retry(t)) \/ Checkpoint \/ Shutdown \/ SessionStart \/ Clock

\* A timer fires in the end while a session keeps the process alive, for it is
\* unref'd (platform/hooks/stormbreaker.ts 247-249); pi may stop going on with
\* a call.
Spec == Init /\ [][Next]_vars /\ \A t \in Tools : WF_vars(open /\ Retry(t))

-----------------------------------------------------------------------------
TypeOK ==
  /\ now \in 0 .. MaxNow /\ Len(parked) <= MaxPending /\ Len(associated) <= MaxAssociated
  /\ eventsRecorded \in Nat /\ editContexts \subseteq Ids
  /\ \A t \in Tools : Len(windows[t]) <= MaxWindowSize
  /\ {loopsBroken, timers, retries, missed} \subseteq [Tools -> Nat]
  /\ \A t \in Tools : timers[t] + retries[t] + missed[t] <= loopsBroken[t]
  /\ nudged \subseteq Paths /\ told \subseteq Paths /\ late \subseteq Ids
  /\ disk \in [Files -> {"none", "empty", "full"}]
  /\ pc \in [Ids -> PCs] /\ feedback \in [Ids -> Ids \cup {NoNote}]
  /\ since \in [Ids -> 0 .. Cardinality(Ids) \cup {NoNote}]

\* A note is given to one call only, and its repair ended at exactly the
\* arguments of that call (repair/lifecycle.ts 85-103).
NotesFit ==
  \A c \in Ids : feedback[c] # NoNote =>
    /\ made[feedback[c]] = args[c]
    /\ \A d \in Ids \ {c} : feedback[d] # feedback[c]

\* c's note was parked in time, under the arguments c still has.
InTime(c) ==
  /\ since[c] # NoNote /\ since[c] < MaxPending /\ now <= parkedAt[c] + TtlMs
  /\ made[c] = args[c]

\* Calls prepared to these arguments, or brought to them by a hook.
Twins(a) == {d \in Ids : made[d] # Absent /\ a \in {args[d], made[d]}}

\* A call gets a note when every call with its arguments has one parked in time,
\* and its own when it is the only such call (repair/lifecycle.ts 66-103,
\* platform/tools/edit.ts 140).
NoteArrives ==
  [][\A c \in Ids :
       EditCorrelates(c) /\ (\A d \in Twins(args[c]) : InTime(d)) =>
         /\ feedback'[c] # NoNote
         /\ Twins(args[c]) = {c} => feedback'[c] = c]_vars

\* A call that is over has left no context behind, and has recorded one envelope
\* if executeFile gave a result, and none otherwise, however it ended
\* (platform/tools/edit.ts 238-247, 446-449, 476-491).
EnvelopeOnce ==
  \A c \in Ids :
    /\ envelopes[c] <= 1
    /\ pc[c] \in {"answered", "refused", "ended"} =>
         c \notin editContexts /\ envelopes[c] = (IF ran[c] THEN 1 ELSE 0)

\* With telemetry on every event is in the log or waits for the next checkpoint,
\* once and in order, whatever flushes failed; with it off none is in the log
\* (telemetry.ts 263-271, 427-442).
AuditComplete ==
  IF batch.telemetry
  THEN audit \o pendingEvents = [i \in 1 .. eventsRecorded |-> i]
  ELSE audit = <<>>

\* To the hooks the call names the file its tool will take it for.
OneFile(v) == Names(v, "path") => HookFile[At(v, "path").s] = Target(v)

\* A call that executes outside the working directory was advised of once, by
\* the hook or by the tool, and another call never was; but for calls other than
\* edits whose path the hook takes for another file than the tool
\* (guards/workspace/advisory.ts 32-40, hooks/preflight.ts 62-104).
AdvisedOnce ==
  \A c \in Ids :
    /\ advised[c] <= 1
    /\ \/ pc[c] \in {"advised", "queued", "written"}
       \/ pc[c] = "cleared" /\ Tool(c) # "edit" /\ OneFile(args[c])
       => advised[c] = (IF Tool(c) \in PathTools /\ IsOutside(args[c]) THEN 1 ELSE 0)

\* A loop is broken by the failure with which its signature reaches the
\* threshold among the tool's last failures since a success or a break, and by
\* no other (resilience/stormbreaker.ts 118-144).
BreaksAreLoops ==
  [][\A c \in Ids :
       Watch(c) /\ result[c] \notin {"ok", "aborted"} =>
         (loopsBroken'[Tool(c)] > loopsBroken[Tool(c)] <=>
            CountOf(LastOf(Append(streak[Tool(c)], result[c]), MaxWindowSize), result[c])
              >= Threshold)]_vars

\* A broken loop has not been followed by its retry.
Owed == \E t \in Tools : retries[t] + missed[t] # loopsBroken[t]

\* With auto-continue every broken loop is followed by a retry of its tool, one
\* for each, unless the session is closed when its time comes: none is lost or
\* stands for another, whatever calls, successes and broken loops come in between
\* (platform/hooks/stormbreaker.ts 219-249).
RetriesFire == AutoContinue /\ Owed ~> ~Owed \/ ~open

\* A write that replaces content was blocked before in this session, under the
\* spelling it has, unless the content came or the session ended after the guard
\* let it pass, or the guard takes that spelling for another file than the tool;
\* and a write that was blocked passes when it comes again under its spelling
\* (guards/overwrite/guard.ts 36-68).
NoBlindOverwrite ==
  [][\A c \in Ids :
       LET p == At(args[c], "path").s IN
       /\ OtherRuns(c) /\ IsWrite(c) /\ disk[Target(args[c])] = "full" =>
            p \in told \/ c \in late \/ GuardFile[p] # ToolFile[p]
       /\ Overwrite(c) /\ IsWrite(c) /\ p \in told => pc'[c] = "cleared"]_vars
=============================================================================
