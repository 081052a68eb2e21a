------------------------------ MODULE StaleRead ------------------------------
(***************************************************************************)
(* The stale-read guard for one file of one session: the ReadRegistry of   *)
(* src/src/guards/stale-read/registry.ts and the hooks of                  *)
(* src/src/platform/hooks/stale-read.ts that drive it.  A tool call passes *)
(* the tool_call hook, runs, and passes the tool_result hook; calls of the *)
(* same message overlap, and other programs change the file at any time.   *)
(* The registry sees the file only through its mtime.                      *)
(***************************************************************************)
EXTENDS Integers

CONSTANTS
  Calls,        \* tool calls that may be in flight at once
  ToleranceMs,  \* staleReadToleranceMs, in clock ticks
  MaxClock,     \* bound: ticks of Date.now()
  MaxForeign    \* bound: changes made by other programs

ASSUME GuardAssumption ==
  ToleranceMs \in Nat /\ MaxClock \in Nat /\ MaxForeign \in Nat

Tools == {"read", "edit", "write", "undo"}

Never == -1     \* no entry in reads, edits or driftMtime
Unknown == -2   \* the mtime of a file that cannot be statted (-1 in the code)

VARIABLES
  clock,      \* Date.now()
  mtime,      \* the file's mtime
  gone,       \* the file cannot be statted
  enabled,    \* getConfig().staleReadEnabled
  readAt,     \* reads.get(key)
  editAt,     \* edits.get(key)
  warned,     \* warned.has(key)
  drift,      \* driftMtime.get(key)
  flagged,    \* staleOnToolCall.get(key)
  pc,         \* pc[c]: where call c is
  tool,       \* tool[c]
  failed,     \* failed[c]: the result of c has isError
  ver,        \* history: changes made by other programs so far
  checked,    \* history: checked[c]: ver when the guard let the edit c pass,
              \*   Never when it had no baseline to judge by
  base,       \* history: ver at the last baseline
  known,      \* history: changes up to here were read by the agent, told to
              \*   it, or hidden by a baseline set after them
  unrecorded, \* history: since the last baseline a tool changed the file and
              \*   ended in an error, or while the guard was off
  reacted     \* history: the mtimes blocked since the last baseline

registry == <<readAt, editAt, warned, drift>>
call == <<pc, tool, failed, checked>>
history == <<base, known, unrecorded, reacted>>
world == <<clock, mtime, gone, ver>>
vars == <<clock, mtime, gone, enabled, readAt, editAt, warned, drift, flagged,
          pc, tool, failed, ver, checked, base, known, unrecorded, reacted>>

PCs == {"idle", "allowed", "running", "written", "result"}

-----------------------------------------------------------------------------
(* The registry.                                                           *)

Stat == IF gone THEN Unknown ELSE mtime

Baseline == IF editAt > readAt THEN editAt ELSE readAt

\* freshnessOf
Fresh == mtime <= Baseline + ToleranceMs

\* Whatever sets a baseline restarts the escalation ladder, and hides from the
\* guard the changes that came before it.
Reset ==
  /\ warned' = FALSE /\ drift' = Never
  /\ base' = ver /\ known' = ver /\ unrecorded' = FALSE /\ reacted' = {}

\* A faulty Record: the drift it reacted to is kept.
MutRecord ==
  /\ readAt' = clock /\ UNCHANGED editAt
  /\ warned' = FALSE /\ UNCHANGED drift
  /\ base' = ver /\ known' = ver /\ unrecorded' = FALSE /\ reacted' = {}

Record == readAt' = clock /\ UNCHANGED editAt /\ Reset

\* A faulty SelfRefresh: only the ladder is reset.
MutSelfRefresh == UNCHANGED <<readAt, editAt>> /\ Reset

SelfRefresh == readAt' = clock /\ editAt' = clock /\ Reset

\* A faulty Mark: the call is not marked as warned.
MutMark(m) == drift' = m /\ UNCHANGED warned

\* assertFresh reacts to a drifted or unknown state.
Mark(m) == warned' = TRUE /\ drift' = m

-----------------------------------------------------------------------------
Init ==
  /\ clock = 0 /\ mtime = 0 /\ gone = FALSE /\ enabled = TRUE
  /\ readAt = Never /\ editAt = Never /\ warned = FALSE /\ drift = Never
  /\ flagged = FALSE
  /\ pc = [c \in Calls |-> "idle"]
  /\ tool = [c \in Calls |-> "read"]
  /\ failed = [c \in Calls |-> FALSE]
  /\ ver = 0
  /\ checked = [c \in Calls |-> Never]
  /\ base = 0 /\ known = 0 /\ unrecorded = FALSE /\ reacted = {}

Goto(c, label) == pc' = [pc EXCEPT ![c] = label]

Start(c, t) == pc[c] = "idle" /\ tool' = [tool EXCEPT ![c] = t]

-----------------------------------------------------------------------------
(* The tool_call hook.                                                     *)

\* Only edits are checked, and only while the guard is enabled and has a read
\* to judge by.
CallUnchecked(c) ==
  /\ \E t \in Tools :
       Start(c, t) /\ (t = "edit" => ~enabled \/ readAt = Never)
  /\ Goto(c, "allowed")
  /\ checked' = [checked EXCEPT ![c] = Never]
  /\ UNCHANGED <<world, enabled, registry, flagged, failed, history>>

CheckEdit(c) == Start(c, "edit") /\ enabled /\ readAt # Never

Passes(c) ==
  /\ Goto(c, "allowed")
  /\ checked' = [checked EXCEPT ![c] = ver]
  /\ UNCHANGED <<world, enabled, readAt, editAt, failed, base, known, unrecorded>>

CallFresh(c) ==
  /\ CheckEdit(c) /\ ~gone /\ Fresh
  /\ Passes(c)
  /\ UNCHANGED <<warned, drift, flagged, reacted>>

\* The file cannot be verified: an advisory, never a block.
CallUnknown(c) ==
  /\ CheckEdit(c) /\ gone
  /\ Mark(Unknown) /\ flagged' = TRUE
  /\ reacted' = {}
  /\ Passes(c)

\* A drifted file, reacted to before or every oldText still resolves (safe).
CallAdvised(c) ==
  /\ CheckEdit(c) /\ ~gone /\ ~Fresh
  /\ \E safe \in BOOLEAN : drift = mtime \/ safe
  /\ Mark(mtime) /\ flagged' = TRUE
  /\ Passes(c)
  /\ UNCHANGED reacted

\* A faulty Blocks: the ladder is not looked at.
MutBlocks == ~Fresh

\* A new drift under texts that no longer resolve.
Blocks == ~Fresh /\ drift # mtime

\* The call ends with an error result, which the tool_result hook ignores.
CallBlocked(c) ==
  /\ pc[c] = "idle" /\ enabled /\ readAt # Never /\ ~gone /\ Blocks
  /\ Mark(mtime) /\ flagged' = TRUE
  /\ known' = ver
  /\ reacted' = reacted \cup {mtime}
  /\ UNCHANGED <<world, enabled, readAt, editAt, call, base, unrecorded>>

-----------------------------------------------------------------------------
(* Execution.                                                              *)

Answers(c, error) ==
  /\ Goto(c, "result")
  /\ failed' = [failed EXCEPT ![c] = error]

\* Any tool may fail before it touches the file.
Fails(c) ==
  /\ pc[c] \in {"allowed", "running"}
  /\ Answers(c, TRUE)
  /\ UNCHANGED <<world, enabled, registry, flagged, tool, checked,
                 history>>

Read(c) ==
  /\ pc[c] = "allowed" /\ tool[c] = "read" /\ ~gone
  /\ Answers(c, FALSE)
  /\ UNCHANGED <<world, enabled, registry, flagged, tool, checked,
                 history>>

\* write and undo change the file and say so only through their tool_result,
\* which reports an error when they are aborted after the change.
Overwrite(c) ==
  /\ pc[c] = "allowed" /\ tool[c] \in {"write", "undo"}
  /\ tool[c] = "undo" => ~gone
  /\ mtime' = clock /\ gone' = FALSE
  /\ \E error \in BOOLEAN :
       Answers(c, error) /\ unrecorded' = IF error THEN TRUE ELSE unrecorded
  /\ UNCHANGED <<clock, ver, enabled, registry, flagged, tool,
                 checked, base, known, reacted>>

\* The edit tool enters the mutation queue and samples getStaleWarning.
EditStarts(c) ==
  /\ pc[c] = "allowed" /\ tool[c] = "edit"
  /\ \A d \in Calls : pc[d] \notin {"running", "written"}
  /\ Goto(c, "running")
  /\ UNCHANGED <<world, enabled, registry, flagged, tool, failed, checked,
                 base, unrecorded, reacted>>

Drifted == readAt # Never /\ (gone \/ (~Fresh /\ warned))

\* The advisory goes into the result.
EditAdvised(c) == EditStarts(c) /\ Drifted /\ known' = ver

\* No drift, or none the guard reacted to.
EditSilent(c) == EditStarts(c) /\ ~Drifted /\ UNCHANGED known

\* A drift under which every oldText still resolves is not mentioned.
EditSafe(c) == EditStarts(c) /\ Drifted /\ ~gone /\ UNCHANGED known

\* executeFile writes the file, or leaves part of it behind and fails ...
EditWrite(c) ==
  /\ pc[c] = "running" /\ ~gone
  /\ mtime' = clock
  /\ \/ Goto(c, "written") /\ UNCHANGED <<failed, unrecorded>>
     \/ Answers(c, TRUE) /\ unrecorded' = TRUE
  /\ UNCHANGED <<clock, gone, ver, enabled, registry, flagged, tool,
                 checked, base, known, reacted>>

\* ... and refreshes the registry at once; undo may still be unavailable or
\* the call aborted afterwards.
EditRefresh(c) ==
  /\ pc[c] = "written"
  /\ SelfRefresh
  /\ \E error \in BOOLEAN : Answers(c, error)
  /\ UNCHANGED <<world, enabled, flagged, tool, checked>>

-----------------------------------------------------------------------------
(* The tool_result hook.                                                   *)

Ends(c) ==
  /\ pc[c] = "result"
  /\ Goto(c, "idle")
  /\ tool' = [tool EXCEPT ![c] = "read"]
  /\ failed' = [failed EXCEPT ![c] = FALSE]
  /\ checked' = [checked EXCEPT ![c] = Never]
  /\ UNCHANGED <<world, enabled>>

\* A tool of call c changed the file and the registry is still to be told: an
\* edit before its refresh, a write or undo before its tool_result.
InFlight(c) ==
  \/ pc[c] = "written"
  \/ pc[c] = "result" /\ tool[c] \in {"write", "undo"} /\ ~failed[c]

\* Disabled, or an error: nothing is recorded and the flag stays.
ResultIgnored(c) ==
  /\ Ends(c) /\ (~enabled \/ failed[c])
  /\ unrecorded' = IF InFlight(c) THEN TRUE ELSE unrecorded
  /\ UNCHANGED <<registry, flagged, base, known, reacted>>

ResultRead(c) ==
  /\ Ends(c) /\ enabled /\ ~failed[c] /\ tool[c] = "read"
  /\ Record
  /\ UNCHANGED flagged

\* selfRefreshTracked
ResultMutation(c) ==
  /\ Ends(c) /\ enabled /\ ~failed[c] /\ tool[c] # "read"
  /\ SelfRefresh
  /\ flagged' = FALSE

-----------------------------------------------------------------------------
(* What happens around the session.                                        *)

Tick ==
  /\ clock < MaxClock /\ clock' = clock + 1
  /\ UNCHANGED <<mtime, gone, ver, enabled, registry, flagged, call,
                 history>>

\* Another program changes the file, or replaces it after it went away.  A
\* change within the tolerance of the baseline cannot be told from our own.
ForeignWrite ==
  /\ ver < MaxForeign
  /\ ver' = ver + 1 /\ mtime' = clock /\ gone' = FALSE
  /\ known' = IF clock <= Baseline + ToleranceMs THEN ver + 1 ELSE known
  /\ UNCHANGED <<clock, enabled, registry, flagged, call, base, unrecorded, reacted>>

\* The file is moved away and back, or its stat fails for a while.
Vanish ==
  /\ gone' = ~gone
  /\ UNCHANGED <<clock, mtime, ver, enabled, registry, flagged, call,
                 history>>

\* The user toggles the guard in the settings.
Toggle ==
  /\ enabled' = ~enabled
  /\ UNCHANGED <<world, registry, flagged, call, history>>

\* session_shutdown forgets the registry but not the flags.
Shutdown ==
  /\ readAt' = Never /\ editAt' = Never /\ Reset
  /\ UNCHANGED <<world, enabled, flagged, call>>

ToolCall(c) ==
  CallUnchecked(c) \/ CallFresh(c) \/ CallUnknown(c) \/ CallAdvised(c) \/ CallBlocked(c)

Execute(c) ==
  Fails(c) \/ Read(c) \/ Overwrite(c) \/ EditAdvised(c) \/ EditSilent(c) \/ EditSafe(c)
    \/ EditWrite(c) \/ EditRefresh(c)

ToolResult(c) == ResultIgnored(c) \/ ResultRead(c) \/ ResultMutation(c)

Next ==
  \/ \E c \in Calls : ToolCall(c) \/ Execute(c) \/ ToolResult(c)
  \/ Tick \/ ForeignWrite \/ Vanish \/ Toggle \/ Shutdown

Spec == Init /\ [][Next]_vars

-----------------------------------------------------------------------------
Times == 0 .. MaxClock

\* The registry's two views of the ladder agree: a path is warned about exactly
\* when it has a drift generation.
TypeOK ==
  /\ clock \in Times /\ mtime \in Times
  /\ gone \in BOOLEAN /\ enabled \in BOOLEAN
  /\ readAt \in Times \cup {Never} /\ editAt \in Times \cup {Never}
  /\ drift \in Times \cup {Never, Unknown}
  /\ warned \in BOOLEAN /\ (warned <=> drift # Never)
  /\ flagged \in BOOLEAN
  /\ pc \in [Calls -> PCs] /\ tool \in [Calls -> Tools]
  /\ failed \in [Calls -> BOOLEAN]
  /\ ver \in 0 .. MaxForeign
  /\ checked \in [Calls -> 0 .. MaxForeign \cup {Never}]
  /\ base \in 0 .. MaxForeign /\ known \in 0 .. MaxForeign
  /\ unrecorded \in BOOLEAN /\ reacted \in SUBSET Times

\* An edit whose texts no longer all resolve runs silently over a change of
\* another program only if that change came after the guard let the edit pass,
\* lies within the tolerance, was hidden by a later baseline, or the guard had
\* no baseline or was off: everything the guard could see it blocks or says.
SilentOnlyInWindows ==
  [][\A c \in Calls : EditSilent(c) => checked[c] <= known]_vars

OwnPending == unrecorded \/ \E d \in Calls : InFlight(d)

\* The agent's own work blocks its next edit only while the registry cannot
\* know of it.  Without a change of another program since the last baseline, a
\* block finds an edit between its write and its refresh, a write or undo
\* before its tool_result, or a change since that baseline that ended in an
\* error or half-way, or whose tool_result found the guard off: a read, and
\* every edit, write and undo that ends well with the guard on, heals the
\* baseline for all calls (hooks/stale-read.ts 38-84; execute.ts 897, 1059).
NoSelfBlock ==
  [][\A c \in Calls : CallBlocked(c) => ver # base \/ OwnPending]_vars

\* A drift that was blocked once is not blocked again, whatever the other calls
\* of the session and the clock do, until a baseline or a contact with an
\* unverifiable file intervenes (registry.ts 170-173).
BlockedOncePerDrift ==
  [][\A c \in Calls : CallBlocked(c) => mtime \notin reacted]_vars

\* The rest of the inductive invariant: the file is not younger than the clock,
\* and the history does not run ahead of it; what the agent does not know of is
\* visible in the mtime; without a change since the baseline, by another program
\* or one the registry cannot know of, the file is fresh;
\* an edit that passed over a change it does not know of left the file warned
\* about; the ladder climbs with the mtime.
ClockInv ==
  /\ mtime <= clock
  /\ base <= ver /\ known <= ver
  /\ \A c \in Calls : checked[c] <= ver

VisibleInv == known = ver \/ ~Fresh

HealedInv == readAt # Never /\ ver = base /\ ~OwnPending => Fresh

PassInv == \A c \in Calls : checked[c] <= known \/ (warned /\ readAt # Never)

LadderInv == \A m \in reacted : m <= drift /\ drift <= mtime

IInv == TypeOK /\ ClockInv /\ VisibleInv /\ HealedInv /\ PassInv /\ LadderInv

\* Said by hooks/stale-read.ts 35: the flags are "cleaned up in tool_result so
\* the map never grows unbounded".
FlagsCleanedUp == (\A c \in Calls : pc[c] = "idle") => ~flagged
=============================================================================
