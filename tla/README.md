# A verification of pi-edit-guard

pi-edit-guard is an extension of the pi coding agent.  It replaces the agent's
`edit` tool by one that repairs its arguments, matches texts tolerantly and
writes the file safely, adds an `undo` tool, and hangs guards into the agent's
`tool_call`, `tool_result` and `tool_execution_end` events.  This directory
holds TLA+ models of it, the TLC configurations that check them and theorems
that TLAPS proves.  `PROJECT.json` maps every definition to the lines it models.

All paths below are relative to the root of the repository.

## 1. Inventory

| Component | Source | State | Operations | Correct when |
|---|---|---|---|---|
| Undo store | `src/history/store.ts`, `src/shared/atomic-write.ts` | one JSONL dump shared by every pi process; a warn-once latch | `saveUndo`/put, `clearUndo`/delete, `getUndo`/get, compaction | it is a map that every call changes in one step; eviction is oldest first and within budget |
| Stale-read guard | `src/guards/stale-read/registry.ts`, `src/platform/hooks/stale-read.ts` | per path: last read, last own edit, warned, drifted mtime, flag | tool_call, tool_result, getStaleWarning, selfRefresh, reset | no silent edit over a change it can see, no block by the agent's own work, one block per drift |
| Edit tool | `src/platform/tools/edit.ts` | the per-file mutation queue of pi, one context per call | prepareArguments, execute | the answer says what was done; every success is undoable; calls do not overwrite each other; one envelope per call |
| Undo tool | `src/platform/tools/undo.ts` | as above | execute | restores exactly what the latest edit replaced, or says it cannot |
| Executor | `src/edit/pipeline/execute.ts` | a file and its temporary file | executeFile | the file is replaced in one step where the system allows it |
| Apply, raw splice | `src/edit/pipeline/apply.ts`, `src/edit/patching/raw-splice.ts`, `src/edit/text.ts` | none (pure) | applyEdits, rawSplice | edits land where they were resolved; other bytes stay |
| Resolution | `src/edit/pipeline/resolve.ts` and neighbours | none (pure) | resolveBlocks, two passes | a unique span per block, or an error |
| Match chain, autopatch | `src/edit/matching/`, `src/edit/patching/autopatch/` | none (pure) | findMatch, fourteen passes, three mending passes | a weaker pass never takes what a stronger one finds |
| Argument repair | `src/repair/` | none (pure) | prepareEditArguments | terminates, changes no meaning, refuses nothing that was valid |
| Repair lifecycle | `src/repair/lifecycle.ts` | notes by serialized arguments, notes by call | enqueue, correlate, take, cleanup | notes reach the call they belong to |
| Telemetry | `src/telemetry.ts` | counters, ring, pending batch, call contexts | record, flushNow, beginEdit, endEdit | one envelope per call, no event lost or flushed twice |
| Stormbreaker | `src/resilience/`, `src/platform/hooks/stormbreaker.ts` | window of failures per tool, timers | tool_result, tool_execution_end | breaks loops, and only loops; a promised retry comes |
| Other guards | `src/guards/preflight/`, `src/guards/overwrite/`, `src/guards/workspace/`, their hooks | the set of spellings already nudged | tool_call | one advisory per call, no overwrite without a nudge, no second one |
| Advisories | `src/advisories/coherence.ts` | none | warnings on text | never change a result |
| Configuration | `src/config/`, `packages/pi-base/src/config*.ts`, `packages/pi-base/src/core/` | two files, a cache of them, the environment, the running values | load, save, reset, delete | what runs is what is stored; a save keeps what it was not asked to change |
| Commands, settings UI | `src/platform/commands/`, `packages/pi-base/src/settings/` | tabs, rows, initial values, dirty sets, dialogs | one per key | what is shown is what is saved; nothing is lost without a question |
| Extension wiring | `src/extension.ts`, `src/index.ts` | the order of the handlers | start, checkpoints, shutdown | state of one session does not leak into the next |

How they interact.  A message of the agent may hold several tool calls.  pi
prepares their arguments one after the other and runs the calls concurrently on
one event loop.  Each passes `tool_call` (stale-read, preflight, overwrite, in the
order `extension.ts` 38-41 registers them), then its tool, then `tool_result`
(stormbreaker, stale-read) and
`tool_execution_end` (stormbreaker).  `prepareArguments` knows no call id, so
what repair found out is parked under the arguments and fetched by the tool.  An
edit or undo of a file runs inside pi's mutation queue of that file, so calls of
one session on one file are serialized; but hooks run outside the queue, and so
does the undo tool's first look at the store.  Several pi processes share
nothing but the file system: the edited files, the undo dump and the two
configuration files.

What is hard here: system calls of several processes on one dump without a
lock; retries that stretch the time between reading and replacing; hooks of
overlapping calls that read and move one baseline; state read before the queue
and used inside it; failures between the write of a file and the write of its
undo record; repair rules that work on each other's results; notes, contexts and
windows that must find their call among several; a cache of files that others
write.  `PROJECT.json` lists each of these under `hazards`, at its line.

## 2. Modules

| Module | Models | Checked through |
|---|---|---|
| `UndoMap` | what the undo store promises: a map, atomic calls, eviction | `UndoStore` |
| `UndoStore` | the dump, every system call of put and delete, crashes; implements `UndoMap` | `MCUndoStore` |
| `UndoStoreProofs` | proofs about `UndoStore`; that it implements `UndoMap` | – |
| `StaleRead` | registry and hooks for one path, overlapping calls | `MCStaleRead` |
| `StaleReadProofs` | proofs about `StaleRead` | – |
| `EditSession` | edit and undo on one file, queue, persistence, the store through get/put/delete | `MCEditSession` |
| `EditSessionProofs` | proofs about `EditSession` | – |
| `Texts` | texts, lines, line endings, places of a needle | `MCApplyEdits` |
| `MatchChain` | the fourteen passes and the chain | `MCApplyEdits` |
| `Resolution` | autopatch and the outcome of a block | `MCApplyEdits` |
| `ApplyEdits` | one edit call's texts: two passes, apply, raw splice | `MCApplyEdits` |
| `TextProofs` | texts, cuts, normalizing, splicing; what the passes find, autopatch and the outcomes of a block | – |
| `ApplyEditsProofs` | proofs about `ApplyEdits`, on the one before it | – |
| `Repair` | the repair of a call's arguments | `MCEditCalls` |
| `RepairLifecycle` | notes of repairs | `MCEditCalls` |
| `Telemetry` | events, the pending batch, envelopes | `MCEditCalls` |
| `Stormbreaker` | failure windows, broken loops, retries | `MCEditCalls` |
| `Guards` | preflight and overwrite guard | `MCEditCalls` |
| `EditCalls` | composes the five above: the calls of one message | `MCEditCalls` |
| `SentArguments` | what the repair of a call's arguments may do: properties of `EditCalls` | `MCEditCalls` |
| `RepairProofs` | what the rules, the passes and the pipeline of `Repair` do, and where repaired arguments come from | – |
| `EditCallsProofs` | the operators of the other parts; proofs about `EditCalls` and `SentArguments` | – |
| `ConfigStore` | files, cache, layers, validation, save, reset, delete | `MCSettings` |
| `SettingsModal` | the settings dialog over `ConfigStore`, and other sessions | `MCSettings` |
| `SettingsProofs` | proofs about `SettingsModal` | – |

In every module with properties, an operator named `Mut…` stands before the
definition it varies.  It is that definition with a plausible bug; none is part
of a specification.  A property is only kept if one of them breaks it.

### UndoStore and UndoMap

`lines` is the dump: parsed lines, or `Junk` for one that does not parse;
`open` says that it lacks its final newline.  For each session, `pc` is where
its put or delete is, `op` the line it writes, `saw` what the tail check found,
`fd` whether its descriptor still refers to the dump, `staged` the temporary
file, `tries` the renames that failed and `warned` the latch.  A session runs
put and delete synchronously, hence one action per system call:

    Put/Delete (open, fstat, tail read) -> Write | ShortWrite, WriteRest | AppendFails
      -> Stat | StatFails -> Evict | EvictUnreadable | TmpWriteFails -> Rename | RenameRetries | RenameFails

`Crash` may come between any two.  A record is its age and its size; paths are
model values.  `want`, `lost` and `since` are history variables: what the
completed operations ask for, and which paths one of four windows has hit:

1. a rename over lines appended after the compaction re-read the dump (the
   race the comment at `store.ts` 230-244 names);
2. a write to a descriptor opened before another session's rename;
3. a line written behind an unterminated one that was not there at the tail
   check, which costs both lines;
4. a line written in pieces whose rest comes behind bytes of another session: A
   writes short, B appends behind the torn line, A's rest lands behind B's line
   and does not parse, although A's put reports success.  It costs A's line, and
   B's too if that is unterminated.

`unswept` remembers that a call which left the dump larger than both budgets
ended without a compaction: the append broke off, `statSync`, the temporary file
or the rename failed, or the session was killed.

`UndoMap` is what callers rely on: `map` from paths to records, and `pending`
calls that take effect in one step or not at all between call and return; a
record may be evicted at any time; of a path in `spoilt` nothing is promised
until its next call.  The refinement mapping sends `map` to what `readAll` serves
(`View` of the lines), `pending` to the line of a session that is
before its write (`Pending`), and `spoilt` to `lost`.  `DumpIsAMap` is `UndoMap`'s
specification under this mapping.

Properties: `LostOnlyInKnownWindows` (nothing else ever loses or resurrects a
record), `DumpWithinBudget` (between calls the dump fits the larger of the two
budgets or is one line, unless it is unswept), `EvictionDropsOldest`,
`DumpIsAMap`.

### StaleRead

The registry's four maps at one key (`readAt`, `editAt`, `warned`, `drift`),
the hook's `staleOnToolCall` (`flagged`), the file's `mtime` and whether it can
be statted, `Date.now()` as `clock`, the setting.  A call goes `idle ->
allowed -> running -> written -> result -> idle`, through `ToolCall`, `Execute`
and `ToolResult`; edits enter the queue at `EditStarts`.  Whether the texts of
an edit still resolve is a choice.  History variables count the changes of
other programs and say which of them the agent knows of, and `unrecorded`
remembers a change by the agent's own tools that the registry was never told of.

Properties: `SilentOnlyInWindows`, `NoSelfBlock`, `BlockedOncePerDrift`.  The
first two name windows of the code.  An edit is silent over a foreign change that
a later baseline hid, and the baseline may be the `tool_result` of a read that
came long before: so this window is excused, not excluded.  An edit is blocked by
the agent's own work while another edit is between its write and its refresh, or a
write or undo before its `tool_result` (`InFlight`), and after a change that ended
in an error or half-way, or whose `tool_result` found the guard switched off
(`unrecorded`), until the next read, edit, write or undo that ends well.

### EditSession

One file, one record, calls of several sessions.  A call is an edit or an undo;
it holds the queue of its session from its first step inside the callback to
its answer.  The steps of an edit are those of `executeFile` and
`persistEditedFile`: read and resolve, probe, rename (again after a lock
error), or truncate and fill when the file has several links or stays locked;
then `saveUndo`, then the last abort check.  With undo switched off
(`tools/edit.ts` 292) nothing is saved and the answer is a success all the same
(`EditWaives`); the setting is read at each edit, so it is a choice made there.
The undo reads its record before
the queue (`UndoCall`), compares, truncates, fills, clears.  `Forget` drops the
locals of a finished call.  An abort can come at any time, and the code looks
at it only in `throwIfAborted`, so it is a choice made there.  The store is
seen through put, get and delete, as `UndoMap` has them; `StoreDrops` stands for
eviction and for the losses `UndoStore` describes.

Properties: `AnswersTellTheTruth` (each answer against what the call did to the
file and the store), `SavedSurvives`, `NoSiblingOverwrite`, `EveryCallEnds`.

### Texts, MatchChain, Resolution

A text is a sequence over a few letters, a blank, and CR and LF; a quote, its
escaped form and its typographic form, and the two characters `\n`, stand for
what the passes of the chain tell apart.  `MatchChain` has one operator per
pass, the set of texts of the file it may find; `FindMatch` is the chain,
`Stronger` the shadow guard's look at the passes before a rank.  The five passes that
score (similarity, anchors, context, token overlap) keep their windows and
leave open which window, if any, is good enough: a wrong score can thus do no
harm the model does not show.

`Resolution` mends a block (`autopatch`) and gives the set of its outcomes: an
edit with its spans, already applied, or an error.  It follows `resolveOne` line
by line: empty and equal texts, the anchor's window and near misses of the
anchor, the retry in the whole text, the shadow guard, disproportionate
matches, several occurrences, auto-expansion by lines, `replaceAll`.  An indent is
corrected by a number of blanks; the four conversions between tabs and blanks
(`indent.ts` 29-59) are left out, as tabs are.

### ApplyEdits

One call on one file.  `raw` is the file, `content[1]` and `content[2]` the
normalized text after each pass, `mid` and `out` the raw text after the splices
of each pass (`afterPass1Raw`, `newContentRaw`).  A step resolves a whole pass
through `Resolution` (`ResolveFirst`, `ResolveAgain`), applies one piece
(`ApplyPiece`, with the cases `NoOp`, `Gone` and `Replace` of the loop in
`applyEdits`), starts the second pass, refuses, or writes.  The order of two
pieces with the same span depends on their oldText and is left open.

The two copies of the text are computed in opposite directions, from the end
with offsets of the whole text and from the start with a cursor; the main
property, `BytesMatchText`, says they agree.  It names three differences the
code has: the trailing break that is dropped only from the bytes, pieces that
share text and were applied both because the first one restored the text of the
second, and a CR and an LF of different parts that meet.  Further:
`StrongestWins` (a block, as autopatch left it, is not placed by a pass that comes
after the first of the passes 1 to 6 to find it, when that finds it in one place),
`MapCutsAlike` (the map against its specification by prefixes and suffixes),
`EndingsKept`, `NoInternalFailure`.

### Repair

JSON values are tagged records; a string is a text, or encodes a value at the
level that says which of the parsing attempts succeeds first.
`PrepareEditArguments` is the whole of `entry.ts`: with repair off the native
coercions; with it on envelope, preprocessors, aliases, path, edits, the repair
loop over the issues of the schema (`Passes`, cut at `MaxPasses`), and the checks
after it.  It gives the outcome, the arguments and the changes.  `Values` are the JSON
values that arguments are made of; the loops of the code are recursive functions
and folds.

### EditCalls

The tool calls of one message, from the arguments to the retry.  It composes
`Repair`, `RepairLifecycle`, `Telemetry`, `Stormbreaker` and `Guards`, the way
`extension.ts` registers them.  A step runs up to an await or to the next event:

    Prepare | Refuse -> Preflight -> Overwrite
      -> edit: EditRefused | EditCorrelates -> EditBegins
               -> EditThrows | EditFails | EditSucceeds -> EditAnswers
         others: OtherRuns
      -> Enhance (tool_result) -> Watch (tool_execution_end)

and around the calls `Checkpoint`, `Shutdown`, `SessionStart`, the `Clock` by
which notes expire, and `Retry`, the stormbreaker's timer.  `parked` and
`associated` are the two maps of `lifecycle.ts`; `pendingEvents`, `audit` and
`editContexts` are telemetry's batch, what was appended to the session, and the
open contexts; `windows`, `loopsBroken`, `timers`, `retries` and `missed` (timers that
fired in a closed session) are the stormbreaker's, each by tool; `nudged` is
the overwrite guard's set.  The second `endEdit` of the finally block
(`tools/edit.ts` 480) finds no context and is not a step of its own.
Executing an edit has an outcome here; `EditSession`
and `ApplyEdits` say which.  History variables (`made`, `since`, `parkedAt`,
`ran`, `envelopes`, `advised`, `told`, `late`, `streak`) remember what the properties
compare with.

A spelling of a path is read in three ways, and `Guards` has an operator for each:
`HookFile` is preflight's `resolve(cwd, path)` (`guards/preflight/preflight.ts`
56), `ToolFile` the tools' `resolveToCwd` (`shared/paths.ts`: `~`, `@`, `file://`,
blanks of Unicode), `GuardFile` the overwrite guard's `statSync` of the path as it
stands (`guards/overwrite/guard.ts` 27, 42).  The instance has spellings on which
the hooks and the tools differ, and the properties name those cases: section 5
says what happens there. What other programs write between a guard and the tool is
left to `StaleRead`.

Properties of the repair: `KeepsWhatWasSent`, `DeletionsMeant`, `PathNamed`,
`RepairSettles`, `PassesSuffice`, `NeverStricter`, in a module of their own,
`SentArguments`, which reads off what was sent without repairing it; of notes
and telemetry:
`NotesFit`, `NoteArrives`, `EnvelopeOnce`, `AuditComplete`; of the guards:
`AdvisedOnce`, `NoBlindOverwrite`; of the stormbreaker: `BreaksAreLoops`, `RetriesFire`.

### ConfigStore and SettingsModal

`files[s]` is the file of a scope: its state, its data, the time it was written;
`cache` is `_configCache`, which trusts time and size; `frozen` scopes cannot be
written.  Values are classes: of the type or not, in range or not, between two
steps.  The environment is one value by setting, although the defaults
(`config/env.ts` 78-89) and the layer over the files (`config.ts` 442-455) parse it
differently.  `Load` goes through the layers, the validator and the environment, `Save`
writes the keys that differ over what the file holds.  In `SettingsModal` a step
is one key pressed; `modal` has the rows of both scopes, their initial values,
the dirty sets, the tab, the focus, the editor and the dialog of `body.ts`.
Other sessions write files at any time (`WrittenElsewhere`).  Of the history
variables, `seen` is what the modal last read, and `blurred` the scopes where
such a write passes for the file that is cached, since it has the same time and
the same size.

Properties: `InLimits`, `RunsWhatIsStored`, `AsksFirst`, `UntouchedStays`,
`SavesWhatIsShown`.

## 3. Runs

| Run | Instance | States | Shows |
|---|---|---|---|
| `undo_store` | 2 sessions, 2 paths, sizes and budgets below | 2 953 212 | the invariants of UndoStore hold, and it implements UndoMap |
| `undo_store_newest` | the same | violated | a failed re-read installs an empty dump (`store.ts` 276-277 says the newest record is kept) |
| `undo_store_delete` | one budget above the other | violated | a delete drops records of other files (`store.ts` 69-70 says it never does) |
| `stale_read` | 2 calls, clock 3, tolerance 1, 2 foreign changes | 3 871 148 | the properties of StaleRead hold |
| `stale_read_flags` | the same | violated | a blocked call leaves its flag (`hooks/stale-read.ts` 35 says it is cleaned up) |
| `edit_session` | 3 calls, 2 sessions, 2 texts, 2 rename attempts, 1 foreign change | 445 302 | the properties of EditSession hold, and every queued call ends |
| `edit_session_snapshot` | 3 calls of one session, 3 texts | violated | an undo clears the record of a newer edit (`tools/undo.ts` 75 promises the snapshot of the most recent edit) |
| `apply_edits` | 2 blocks; short files of mixed breaks, pages of four lines, odd pages | 139 274 | the properties of ApplyEdits hold |
| `apply_edits_second` | one file of two lines | violated | the second pass overwrites text it was not resolved to (`execute.ts` 815-816) |
| `apply_edits_breaks` | one file of one CRLF line | violated | a multi-line new text gets bare CRs in a CRLF file (`raw-splice.ts` 110-112) |
| `edit_calls` | messages of one call with any arguments of a small universe, of pairs, a triple, streaks and writes | 1 084 982 | the properties of EditCalls hold, and each broken loop gets its retry |
| `settings` | 2 settings, 5 stores, 2 changes, 1 opening | 2 498 376 | the properties of SettingsModal hold |

Bounds and why they are enough.

`UndoStore`: two sessions suffice for each of the four windows, which are
between two sessions; two paths for an eviction that keeps one and drops one;
`MaxOps` bounds the operations begun, so that a dump can be over budget,
compacted, and appended to again; two attempts stand for the five of the code.

`StaleRead`: two calls overlap in every order; with a tolerance of one tick and a
clock of three a change can lie inside the tolerance, beyond it, and beyond it
again after a new baseline; two foreign changes give two drifts.

`EditSession`: two calls of a session race for its queue and the third is the
other session; the snapshot run needs three calls of one session.  Two texts and
the torn one tell every content the properties compare.

`ApplyEdits`: two blocks, of which one may be resolved to several pieces, are all
that a property relates.  For the line endings, every text of up to three
characters over a letter, CR and LF contains each way the two can follow each
other, and the longer files add a line after an edited one, a run of equal
characters and mixed breaks.  For the match chain, the pages are all files of
four lines that are equal, equal up to the indent, or different, and the odd
pages hold blanks at line ends, quotes, escapes, empty and repeated lines, such
that each of the fourteen passes finds what no earlier one does, each mending
pass and each error is reached, and an anchor is found, missed or ambiguous.
The thresholds are smaller (`MaxExpandLines` 2 for 10, `AlreadyAppliedMin` 2 for
16, `AlreadyAppliedStrong` 3 for 64, `SurplusChars` 3 for 500), so that these
texts lie on both sides of them.

`EditCalls`: arguments are built from two edits at most, each with its old and new
text present, empty, null, a number, under an alias or under two names, nested
paths, six ways to give the path, `edits` in twelve forms, flat texts beside it,
and seven envelopes of the whole.  Pairs and a triple of calls meet in the notes,
at the caps (`MaxPending` 2 for 128, `MaxAssociated` 1 for 256) and at the expiry
(`TtlMs` 1, clock to 2).  Spellings at home, behind an `@`, with blanks around
them and outside the working directory meet edits and writes; two writes of one
file meet under the same and under two spellings.  Five calls in a row fill a
window of three past its threshold of two and start again.  The pending batch
holds three events (128), so it is flushed by its size as well as by a checkpoint;
the session ends once amid the calls.  `MaxPasses` and `MaxDecodes` are those of
the code.

`SettingsModal`: two changes let a key be set and another set or set back, or
another session write in between; file times take two values, so that a
write in the same tick and a write in a later one both happen; one file has a
foreign key, a value out of range, one of another type, one does not parse, one
cannot be written, and the environment sets one key.

Deadlock is checked in `stale_read`, where an agent can always make another
call, and in `settings`, where a key can always be pressed.  The other systems
may stop: `MaxOps` operations are over, every call is done.

Fairness.  `EveryCallEnds` needs weak fairness of each call's own steps
(`Edit(c)`, `Undo(c)`).  It says that the event loop of a running session gets to
what a call awaits, which are file system calls and timers; nothing is assumed of
the user, of other programs or of the store, and a killed session ends its calls.
The failing outcomes are part of the fair action, so nothing says that a lock
clears: the number of attempts is what ends the retries.  `RetriesFire` needs
`WF_vars(open /\ Retry(t))` for each tool `t`: a timer that is set fires while the
session keeps the process alive; no turn, success or shutdown cancels it.  The
property says more than the fairness: every broken loop has set a timer of its
own, and the retries that were sent are as many.  The timer is unref'd
(`platform/hooks/stormbreaker.ts` 247-249), so a closed session need not wait for
it, and no call is assumed to go on.

## 4. Proofs

`UndoStoreProofs` proves for all sets of sessions, paths and sizes, all
budgets, attempts and bounds (under `StoreAssumption`, which only gives the
constants their types):

- `TypeCorrect`: `Spec => []TypeOK`;
- `LossBounded`: `Spec => []LostOnlyInKnownWindows`;
- `BudgetHolds`: `Spec => []DumpWithinBudget`;
- `EvictsOldest`: `Spec => EvictionDropsOldest`.

The inductive invariant `IInv` adds four things.  `CallInv`: a session that is not
idle has its line.  `TailInv`: an unterminated dump is not empty, and a torn tail
its writer still owns is `Junk`, so finishing it cannot disturb another path.
`StagedInv`: outside the paths changed since the re-read, what is staged agrees
with the dump or evicts; without it nothing could be said of a rename.
`StagedFits`: what is staged fits the budget of its call or is one line.  The
lemmas describe `View` under append, replacement of the last line and
concatenation, and the choice of `Kept`.  `BudgetHolds` rests on `StagedFits` and
on the paths a call can take once it has written: it finds the dump within its
budget, renames a staged dump that is, or ends otherwise and leaves it unswept.  A
dump that no call has written to since stays what it was.  `EvictsOldest` rests on
what is before and after that suffix: an order of `ByAge` has every stored path
(it is an injection of a set into one of the same size), so each record that goes
stands before each that stays, and the one record more would not have fitted.

It also proves `StoreIsAMap`: `Spec => Map!Spec`.  By `IInv`, what
`readAll` serves of a path that is not lost is what `want` says, before and after
a step; so it is enough to see what a step does to `want`, and which session
leaves the ones that wait.  Each action is then one of the abstract `Begin`,
`Effect`, `Fail`, `Spoil`, `Evict`, or changes nothing.

`StaleReadProofs` proves for any set of calls, any tolerance and any bounds
(under `GuardAssumption`, which types the constants) the type invariant and the
three action properties of `StaleRead`:

- `TypeCorrect`: `Spec => []TypeOK`;
- `SilenceBounded`: `Spec => SilentOnlyInWindows`;
- `OwnWorkPasses`: `Spec => NoSelfBlock`;
- `LadderBlocksOnce`: `Spec => BlockedOncePerDrift`.

None is inductive. `IInv` joins to the types: `ClockInv`, the file is not younger
than the clock and the history does not run ahead of it; `VisibleInv`, a file with
a change the agent does not know of is not fresh; `HealedInv`, a file without a
foreign change since the baseline is fresh, unless a change by the agent's own
tools is in flight or was never recorded (`OwnPending`), which is what
`OwnWorkPasses` needs; `PassInv`, an edit the guard let pass over an unknown
change left the path warned about, which `SilenceBounded` needs; `LadderInv`, the
mtimes reacted to are not beyond the drift the ladder stands at, which
`LadderBlocksOnce` needs. A run checked `IInv` before it was proved. Three kinds
of step change most of it, so each has a lemma of its own: a recorded read, a
refresh by the agent's own tool, and a step that only moves calls.

`SettingsProofs` proves for any keys, values, stores and foreign files:

- `SettingsInLimits`: `Spec => []InLimits`;
- `RunsStored`: `Spec => RunsWhatIsStored`;
- `SavesShown`: `Spec => SavesWhatIsShown`;
- `UntouchedKept`: `Spec => UntouchedStays`.

The assumptions are those of the two modules: defaults are of their type and in
range, a value without a warning too, bringing into range keeps the type and is
done once, and a store has a file for each scope.  `StepKinds` sorts the keys by
what they do to what is stored: all but the start, the opening, a save and a
confirmed reset or deletion leave it alone.  The invariant behind the last three
is `CacheInv`: a read through the cache gives what the file holds, but for a
blurred scope.  It holds since the entry goes before each write
(`WritingKeeps`), and a read renews it (`ReadingKeeps`).  `UntouchedKept` needs
two more: `SeenInv`, the rows last read show what the files then held, and
`DialogInv`, a dialog is one of three, so that what is not a deletion is a save
or a reset.

- `TypeCorrect`: `Spec => []TypeOK`;
- `ClosingAsksFirst`: `Spec => AsksFirst`.

These two need to know what the dialog may look like.  `ValuesInv`: what is
stored and cached is of a known value under every known key, so loading gives a
configuration.  `ModalInv`: the rows, the focus, the editor and the dialog fit
each other (`ModalFits`), and a key that differs from its initial value is in the
dirty set of its scope (`Honest`), unless a reset or deletion has just read the
rows of the other scope again (section 5), which is the case `AsksFirst` leaves
out.  `ModalStep` shows that every key leads from such a state to another, or
closes the dialog.

`EditSessionProofs` proves for any sessions, calls, texts and number of attempts
(under `SessionAssumption`: a call is one of a session, the torn text and `Null`
are no texts, one attempt at least):

- `TypeCorrect`: `Spec => []TypeOK`;
- `AnswersTrue`: `Spec => []AnswersTellTheTruth`;
- `SavedSafe`: `Spec => []SavedSurvives`;
- `QueueProtects`: `Spec => NoSiblingOverwrite`.

The invariant adds `QueueInv`, the queue of a session is held by the one call of
it that is inside; `LocalsInv`, an undo has its snapshot and a writer its text;
`DeedInv`, what a call has done is what its place in the code says, from which
`AnswersTrue` follows; and `ReadInv`, the file is still what a call read, unless
someone outside of its session changed it.  `QueueProtects` is `QueueInv` and
`ReadInv` together.

`EditCallsProofs` proves for any messages, tools, paths, thresholds and caps:

- `TypeCorrect`: `Spec => []TypeOK`;
- `AuditWhole`: `Spec => []AuditComplete`;
- `OneEnvelope`: `Spec => []EnvelopeOnce`;
- `OneAdvisory`: `Spec => []AdvisedOnce`;
- `NotesFitCalls`: `Spec => []NotesFit`;
- `NotesReachCalls`: `Spec => NoteArrives`;
- `NoBlindWrites`: `Spec => NoBlindOverwrite`;
- `LoopsAreLoops`: `Spec => BreaksAreLoops`;
- `PassesAreEnough`: `Spec => []PassesSuffice`;
- `RepairsSettle`: `Spec => []RepairSettles`;
- `PathsAreNamed`: `Spec => []PathNamed`;
- `RepairNeverStricter`: `Spec => []NeverStricter`;
- `KeptAsSent`: `Spec => []KeepsWhatWasSent`;
- `DeletionsAreMeant`: `Spec => []DeletionsMeant`.

It assumes `BatchAssumption`, `RepairAssumption`, `LifecycleAssumption`,
`PathAssumption` and `StormAssumption`.  Most of it types the constants; the empty
path is the working directory to preflight, so not outside of it.  What is
more: arguments are of `Values`, a set of JSON values closed under taking parts
(`AreJson`), `Within` pairs no text with an empty one, and there are three passes
at least and one level of encoding (the code has 3 and 3).  The last six theorems
hold for JSON arguments of any size and depth, any texts and any messages.

The first eight rest on three invariants, each checked on a run before it was
proved.  `TInv`: types; the log and the pending batch are together all events in
order (`LogInv`), the window of a tool is the end of its streak of failures
(`StormInv`), told and nudged agree (`GuardInv`). `PlaceInv`: which context,
envelope and advisory a call has, by where it is; an edit is never advised by the
hook, whatever it takes the path for, and another call only by it.
`NoBlindWrites` needs `WritesInv` besides: a write that passed the guard was told,
or the guard saw no content, and content that came since was written by a call
that marked it `late`. `NotesInv`: a parked note is at the place its age gives it,
was parked by a call that is prepared and given to none; a note given fits the
arguments; and a note that is young and not pushed out is parked or given.
`NotesReachCalls` needs a count besides: if no note were left for a call, each of
its twins' notes, its own among them, would have been given to a twin other than
itself, and no two to the same one.

The six about the repair rest on one more invariant, `PreparedInv`: a call that is
prepared was accepted and has the arguments its preparation came to, and one that
was refused was not accepted.  The rest is about the operators of `Repair`, in
`RepairProofs`, from each rule to the whole:

- What a pass of schema repair leaves to the next (`Fit`): after one, the path and
  the shape of `edits` are settled; after two each of the edits is an object or
  cannot be repaired; after three nothing is left.  So three passes are enough,
  which is `PassesAreEnough`.
- A run of rules is followed rule by rule and edit by edit, so that what each rule
  keeps the run keeps.  `Formed` says what the texts of an edit on its way
  are made of, `Told` that its new text was given, and `ComesInOrder` that the
  edits at the end come from entries in the order sent.  `KeptAsSent` and
  `DeletionsAreMeant` follow.
- A path is hoisted only where none is named and the edits agree on one
  (`MadePath`), which is `PathsAreNamed`.
- Valid arguments that no fold applies to are accepted again, with the same texts
  and path (`RepairedTwice`), which is `RepairsSettle`.
- What native compatibility makes valid without dropping edits is valid before
  schema repair begins (`NativeAccepted`), which is `RepairNeverStricter`.

Section 5 lists under "Arguments" the cases without which simpler statements of
these six would be false; the instance has such arguments.

`ApplyEditsProofs` proves for any files, any blocks asked of them and any
thresholds:

- `OffsetsHold`: `Spec => []NoInternalFailure`;
- `StrongestPlaces`: `Spec => []StrongestWins`;
- `CutsHold`: `Spec => []MapCutsAlike`;
- `CopiesMatch`: `Spec => []BytesMatchText`;
- `EndingsSurvive`: `Spec => []EndingsKept`.

The assumptions are `EditsAssumption` (files and blocks are texts),
`ResolutionAssumption` (thresholds are positive) and `TextsAssumption` (LF is not
CR).  The invariant has five parts beside the properties; a run checked each
before it was proved.

- `TypesInv` and `PlacesInv`: a piece that waits starts in the text, and one that
  overlaps no other still finds there what it was resolved to.  Whatever a pass
  finds occurs in the text (`TextProofs`), so its span lies in it; pieces are
  applied from the end and leave the text before them alone, and one that does not
  overlap ends before the one replaced.  `OffsetsHold` follows.
- `RankInv`: each pass before the first that scores finds at most one text; the
  chain stops there, and the shadow guard looks for just that one, so a later pass
  is refused when the hit is alone.  `StrongestPlaces` follows.
- `OrderInv`: the applied pieces are in descending order, and those that wait come
  before them.  Turned round, they are what the splice works through.
- `CopyInv`: pieces that share no text leave their new texts in place of their
  spans (`Leaves`), which is said of the whole text and not of the order they were
  applied in.  `SpliceOntoRaw` does the same to the raw text at the mapped offsets;
  normalizing distributes over parts that do not meet with a CR and an LF, and
  conforming a new text to the line breaks of the file is undone by it; so the two
  copies agree, which is `CopiesMatch`.
- `WriteInv`: the raw texts are the splices of what was applied.

`CutsHold` says what the loop of `NormToRaw` computes for every text: the map is
the list of the cuts after the characters that normalizing keeps.  Induction over
a recursive function is done by hand, with the least place where the two differ.
`EndingsSurvive` needs no disjoint pieces: every gap between two pieces lies
between cuts, so it holds no half of a break; a new text is conformed to the kind
it sees; and joining texts of a kind keeps the kind.

Model-checked only: `EveryCallEnds` and `RetriesFire`, which are liveness under
fairness and out of the prover's reach.  Every other property of a passing run is
proved.  What a recursive function computes is proved as for `CutsHold`, by the
least place where it fails: that a set of numbers has a least element follows from
a theorem of the library without an operator as a parameter.  Nothing is proved of
what the five passes that score choose: the model lets them take any window.

## 5. Observations

What the models showed beyond the findings of section 3, each within what the
properties allow.

- Notes.  A note parked by a call that is aborted before it correlates can go to
  a later identical call (`lifecycle.ts` 82-83).  A call whose path the preflight
  hook rewrites never finds its own.  A call aborted in the queue leaves its
  entry in `byCallId` until it expires.  `repairRules` of the envelope never lists
  the call's own repairs.
- Arguments.  A replacement that is no string and came under an alias becomes a
  deletion (`entry.ts` 590).  `edits` as a text that does not parse, beside flat
  texts, is accepted with repair off and refused with it on.  A path at the top
  level silently outweighs other paths inside the edits.
  A lone edit sent without an array may have null as a text, which becomes the text
  `null`.  A second repair of repaired arguments may rename an alias for the path
  left in an edit, or hoist such a path where the path is empty: it is repaired
  again, and means the same.  An alias for the path of an edit is ignored beside an
  empty path or a number.  Native compatibility drops `edits` that are no array
  beside flat texts, so some arguments are valid with repair off and refused with
  it on: edits with an anchor that is no text, or a text that encodes no edit.  An
  empty `new_str` at the top level wins over a `new_text` with a text.
- Overwrite guard.  A second write of a path in the same message passes unseen
  when calls run in parallel, and so does content that comes between the guard
  and the write.  `overwrite/guard.ts` 4-7, `hooks/overwrite.ts` 4-6 and
  `config/settings.ts` 136 speak of one block per file; the set holds spellings, and
  another spelling of the file is blocked again.
- Paths.  Preflight, the overwrite guard and the tools read a spelling differently.
  An edit of `~/f` or `@f` is refused by preflight as not found, where the tool would
  find it.  Before a write to `~/f` preflight makes a directory called `~` in the
  working directory, and the write goes home without an advisory; the overwrite
  guard finds no such file and lets it replace content.  So `AdvisedOnce` and
  `NoBlindOverwrite` speak of spellings that the hook and the tool agree on.
- Stormbreaker.  The retry's timer is cancelled by nothing: a turn of the user, a
  success of the tool or the end of the session comes first, and the retry is sent
  all the same, into the next session if one has started.
- Settings.  After a reset or deletion of one scope the other scope's rows are
  read again, but its initial values and dirty set stay: its unsaved changes are
  gone, and it may close without a question (`body.ts` 1388-1399).  The first save
  of a project pins all inherited values (`config-manager.ts` 160-167).  A value
  between two steps is left out by a save that reports success; the inline editor
  takes such values, and the default of `undoMaxBytes`, 5 000 000, is one: its steps
  of 500 000 start at 65 536, so a save always skips it.  The environment is applied last
  and not brought into range there: `CONFIG.md` 80 says the undo budget is, which
  holds for the defaults read from it (`config/env.ts` 138) and not for the layer over
  the files.  Reset and
  deletion leave the running configuration as it is.
- Resolution.  The retry in the whole text (`resolve.ts` 443-481) and the one for a
  lost anchor (382-405) pass by the guard against disproportionate matches and the
  auto-expansion.  `replaceAll` with an anchor replaces outside of its window.
  Overlapping occurrences do not count as several.  The quote pass and the robust
  passes do not ask for whole lines.
- Mended blocks.  Stripping blanks at line ends can turn a block into a text that
  is in the file once, but not in whole lines.  A pass with a late rank would have
  placed what was sent, and for the mended text only a later one, or one that
  scores, may: a text of the lines `yx`, `y`, `"`, `x`, `x`, `"` and an oldText
  `x`, `y`, `"` with a blank after it is such a case.  In the second pass a mended
  block is sought in another text than it was mended for.  Past the first pass
  that scores, one of its ambiguous hits makes the shadow guard give up.
  `StrongestWins` therefore speaks of the block as mended and of the passes before
  the first that scores.

## 6. Plan

Done: the undo store with its abstract map, the stale-read guard, edit and undo
on one file, the texts of an edit call from mending to splicing, the calls of a
message with repair, notes, guards, telemetry and stormbreaker, the
configuration and its dialog.  The safety and action properties of all of them are
proved.  Next: the parts of the executor that are not in `EditSession`, which are
encodings, the preserved mode and the probes before a write.

Not modelled, and why.  The scores of the five passes that compare by
similarity: they are arithmetic on characters, and the model lets any score
happen.  Tabs and other typographic characters: one blank and one quote take
their part.  The advisories on coherence: heuristics that only add text to an
answer.  The layout of results, previews of candidates, messages, terminal
rendering, the model pickers, and the subcommands and scripts that only print.
The counters and summaries of telemetry, which nothing reads back.  Encoding,
mode and owner of a file.  The language-model client of `packages/pi-base`,
which this extension's own logic does not pass through.
