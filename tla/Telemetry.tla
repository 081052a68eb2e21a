------------------------------ MODULE Telemetry ------------------------------
(***************************************************************************)
(* src/src/telemetry.ts: events are counted and kept until a checkpoint    *)
(* flushes them to the session log in one batch, or their number forces a  *)
(* flush; and every edit call is tracked to one envelope.  An event is     *)
(* named by its number.  The ring of the latest events and the counters    *)
(* per kind, which only the status command and tests read, are left out.   *)
(***************************************************************************)
EXTENDS Naturals, Sequences

CONSTANT PendingMax  \* PENDING_MAX (128 in the code)

VARIABLES
  eventsRecorded,  \* #eventsRecorded
  pendingEvents,   \* #pending: events not yet flushed
  audit,           \* the session log's events
  editContexts     \* #editContexts: calls begun and not ended

telemetryVars == <<eventsRecorded, pendingEvents, audit, editContexts>>

TelemetryInit ==
  eventsRecorded = 0 /\ pendingEvents = <<>> /\ audit = <<>> /\ editContexts = {}

\* What the flush handler does: appendEntry may throw; with telemetry off the
\* batch is dropped.
FlushOutcomes == {"appended", "threw", "off"}

\* A faulty Flushed: a batch that was not written is dropped.
MutFlushed(st, outcome) ==
  IF st.pending = <<>> THEN st
  ELSE [n |-> st.n, pending |-> <<>>,
        audit |-> IF outcome = "appended" THEN st.audit \o st.pending ELSE st.audit]

\* flushNow keeps the batch of a handler that threw.
Flushed(st, outcome) ==
  IF st.pending = <<>> \/ outcome = "threw" THEN st
  ELSE [n |-> st.n, pending |-> <<>>,
        audit |-> IF outcome = "appended" THEN st.audit \o st.pending ELSE st.audit]

\* record, once and n times in a row.
RecordedOnce(st, outcome) ==
  LET s == [n |-> st.n + 1, pending |-> Append(st.pending, st.n + 1), audit |-> st.audit]
  IN IF Len(s.pending) >= PendingMax THEN Flushed(s, outcome) ELSE s

Recorded(st, n, outcome) ==
  LET f[i \in 0 .. n] == IF i = 0 THEN st ELSE RecordedOnce(f[i - 1], outcome) IN f[n]

Store == [n |-> eventsRecorded, pending |-> pendingEvents, audit |-> audit]

Becomes(st) ==
  eventsRecorded' = st.n /\ pendingEvents' = st.pending /\ audit' = st.audit

Record(n, outcome) == Becomes(Recorded(Store, n, outcome))
FlushNow(outcome) == Becomes(Flushed(Store, outcome))

BeginEdit(c) == editContexts' = editContexts \cup {c}

ClearEditContext(c) == editContexts' = editContexts \ {c}

\* endEdit answers an envelope, which the caller records, once.
Envelopes(c) == IF c \in editContexts THEN 1 ELSE 0
EndEdit(c) == editContexts' = editContexts \ {c}
=============================================================================
