------------------------------ MODULE UndoStore ------------------------------
(***************************************************************************)
(* The undo dump of src/src/history/store.ts: one JSONL file shared by     *)
(* every pi session (process) of the machine.  put() and delete() append   *)
(* one line, the last line of a path wins, a tombstone is a line whose     *)
(* record is null, and an append that leaves the file over its byte budget *)
(* is followed by a compaction: stat, re-read, drop the oldest records,    *)
(* stage the rest in a temporary file and rename it over the dump.         *)
(*                                                                         *)
(* A session runs put() and delete() synchronously, so inside one session  *)
(* nothing interleaves; every system call is a step here because other     *)
(* sessions run between two calls.  A session may be killed between any    *)
(* two of them.                                                            *)
(***************************************************************************)
EXTENDS Integers, Sequences, FiniteSets, FiniteSetsExt

CONSTANTS
  Sessions,        \* pi processes sharing the dump
  Paths,           \* canonical file paths, the keys of the store
  Sizes,           \* serialized sizes a record may have, in budget units
  PutBudget,       \* maxBytes of the edit tool's store (configured undoMaxBytes)
  DeleteBudget,    \* maxBytes of the undo tool's store (DEFAULT_MAX_BYTES)
  RenameAttempts,  \* attempts of renameWithRetrySync (5 in the code)
  MaxOps,          \* bound: put/delete calls begun in a behaviour
  Null,            \* the null record of a tombstone; also "no record"
  Junk             \* a line JSON.parse or isValidRecord rejects

Record == [at : Nat, size : Sizes]
Entry == [path : Paths, rec : Record \cup {Null}]

ASSUME StoreAssumption ==
  /\ Sizes \subseteq Nat \ {0}
  /\ PutBudget \in Nat /\ DeleteBudget \in Nat
  /\ RenameAttempts \in Nat \ {0} /\ MaxOps \in Nat
  /\ Null \notin Record \cup Entry
  /\ Junk \notin Entry

VARIABLES
  lines,    \* the dump's lines, each an Entry or Junk
  open,     \* the last line lacks its newline
  clock,    \* Date.now()
  begun,    \* operations begun so far (bounded by MaxOps)
  pc,       \* pc[s]: where session s is in put()/delete()
  op,       \* op[s]: the line session s is appending, Null between calls
  saw,      \* saw[s]: s found the tail unterminated when it opened the dump
  fd,       \* fd[s]: what the descriptor of s refers to
  staged,   \* staged[s]: the temporary file of s
  tries,    \* tries[s]: rename attempts that failed
  warned,   \* warned[s]: the warn-once latch evictionWarned of s
  want,     \* history: the record the completed appends ask for, per path
  lost,     \* history: paths hit by one of the four loss windows below
  since,    \* history: paths changed since s re-read the dump to compact
  unswept   \* history: a call left the dump over both budgets, and none swept it since

file == <<lines, open>>
history == <<want, lost, since>>  \* what was asked for, and is lost
vars == <<lines, open, clock, begun, pc, op, saw, fd, staged, tries, warned,
          want, lost, since, unswept>>

(* Where overlapping sessions lose a line that put or delete reports saved:   *)
(*  1. appended after a compaction's re-read, and renamed over (Rename);      *)
(*  2. written to a descriptor opened before a rename (Write, ShortWrite,     *)
(*     WriteRest on a stale descriptor);                                      *)
(*  3. written behind an unterminated line that was not there at the tail     *)
(*     check: both lines (LateTail);                                          *)
(*  4. written in pieces, and the rest of it comes behind bytes of another    *)
(*     session: it, and the line of that session if that is unterminated      *)
(*     (WriteRest).                                                           *)

PCs == {"idle", "opened", "torn", "unterminated", "appended", "over", "staged"}
\* "tail": the file still ends with what s wrote; "live": it does not;
\* "stale": a rename replaced the file under the descriptor.
FDs == {"none", "tail", "live", "stale"}

-----------------------------------------------------------------------------
(* readAll: what a reader sees of a dump.                                  *)

LinesOf(f, p) == {i \in DOMAIN f : f[i] # Junk /\ f[i].path = p}

View(f) ==
  [p \in Paths |-> LET at == LinesOf(f, p) IN IF at = {} THEN Null ELSE f[Max(at)].rec]

Stored(f) == {p \in Paths : View(f)[p] # Null}

\* A faulty ByAge: the newest first.
MutByAge(f) ==
  {ord \in [1 .. Cardinality(Stored(f)) -> Stored(f)] :
     \A i, j \in 1 .. Cardinality(Stored(f)) :
        i < j => /\ ord[i] # ord[j]
                 /\ View(f)[ord[i]].at >= View(f)[ord[j]].at}

\* evictOversize sorts by updatedAt; records of the same millisecond keep the
\* order of the Map, which this leaves open.
ByAge(f) ==
  {ord \in [1 .. Cardinality(Stored(f)) -> Stored(f)] :
     \A i, j \in 1 .. Cardinality(Stored(f)) :
        i < j => /\ ord[i] # ord[j]
                 /\ View(f)[ord[i]].at <= View(f)[ord[j]].at}

SizeOf(l) == IF l = Junk \/ l.rec = Null THEN 1 ELSE l.rec.size

Bytes(f) ==
  LET upTo[n \in 0 .. Len(f)] == IF n = 0 THEN 0 ELSE upTo[n - 1] + SizeOf(f[n])
  IN  upTo[Len(f)]

Budget(e) == IF e.rec = Null THEN DeleteBudget ELSE PutBudget

\* The dump as it would be rewritten without evicting anything.
Compacted(f, ord) ==
  [i \in DOMAIN ord |-> [path |-> ord[i], rec |-> View(f)[ord[i]]]]

\* What evictOversize may keep of the sorted records: the longest suffix that
\* fits, and the newest record even when it alone does not.
Kept(body, max) ==
  {SubSeq(body, k, Len(body)) : k \in
     {k \in 1 .. Len(body) :
        /\ Bytes(SubSeq(body, k, Len(body))) <= max \/ k = Len(body)
        /\ \A j \in 1 .. k - 1 : Bytes(SubSeq(body, j, Len(body))) > max}}

-----------------------------------------------------------------------------
Init ==
  /\ lines = <<>> /\ open = FALSE /\ clock = 0 /\ begun = 0
  /\ pc = [s \in Sessions |-> "idle"]
  /\ op = [s \in Sessions |-> Null]
  /\ saw = [s \in Sessions |-> FALSE]
  /\ fd = [s \in Sessions |-> "none"]
  /\ staged = [s \in Sessions |-> <<>>]
  /\ tries = [s \in Sessions |-> 0]
  /\ warned = [s \in Sessions |-> FALSE]
  /\ want = [p \in Paths |-> Null]
  /\ lost = {}
  /\ since = [s \in Sessions |-> {}]
  /\ unswept = FALSE

Goto(s, label) == pc' = [pc EXCEPT ![s] = label]

\* put() or delete() returns and its locals go with it.
Return(s) ==
  /\ Goto(s, "idle")
  /\ op' = [op EXCEPT ![s] = Null]
  /\ saw' = [saw EXCEPT ![s] = FALSE]
  /\ staged' = [staged EXCEPT ![s] = <<>>]
  /\ tries' = [tries EXCEPT ![s] = 0]

Fits(f, max) == Len(f) <= 1 \/ Bytes(f) <= max
Oversize == \A max \in {PutBudget, DeleteBudget} : ~Fits(lines, max)

\* A call that has written ends without looking at the size, or without having
\* made it smaller.
EndsUnswept == unswept' = IF Oversize THEN TRUE ELSE unswept

\* The sessions with a compaction under way learn of a change to paths.
Missed(paths) ==
  [t \in Sessions |-> IF pc[t] = "staged" THEN since[t] \cup paths ELSE {}]

-----------------------------------------------------------------------------
(* appendLine.                                                             *)

\* openSync(.., "a+"), fstatSync and the one-byte readSync of the tail.
Open(s, e) ==
  /\ pc[s] = "idle" /\ begun < MaxOps
  /\ begun' = begun + 1
  /\ op' = [op EXCEPT ![s] = e]
  /\ saw' = [saw EXCEPT ![s] = open]
  /\ fd' = [fd EXCEPT ![s] = "live"]
  /\ Goto(s, "opened")
  /\ UNCHANGED <<file, staged, tries, warned, history, unswept>>

\* put() stamps its record with Date.now(), which may not have moved.
Put(s) ==
  \E p \in Paths, n \in Sizes, now \in {clock, clock + 1} :
    /\ clock' = now
    /\ Open(s, [path |-> p, rec |-> [at |-> now, size |-> n]])

Delete(s) ==
  \E p \in Paths : Open(s, [path |-> p, rec |-> Null]) /\ UNCHANGED clock

\* A faulty Separator: the tail is not looked at.
MutSeparator(s) == FALSE

\* The tail check decides whether the payload starts with a separator.
Separator(s) == saw[s]

\* The next bytes land on an unterminated line.
Glues(s) == open /\ ~Separator(s)

\* The tail lost its newline after s looked at it (window 3).
LateTail(s) == open /\ ~saw[s]

\* The path whose line is the unterminated tail, if it parses.
TailPath ==
  IF open /\ lines[Len(lines)] # Junk THEN {lines[Len(lines)].path} ELSE {}

\* The dump after s has written l as the start of its payload.
Extended(s, l) ==
  IF Glues(s) THEN [lines EXCEPT ![Len(lines)] = Junk] ELSE Append(lines, l)

\* Every other session's bytes stop being the tail of the file.
Displace(s, mine) ==
  fd' = [t \in Sessions |-> IF t = s THEN mine
                            ELSE IF fd[t] = "tail" THEN "live" ELSE fd[t]]

\* The line of s is complete and terminated or not: its operation takes
\* effect, unless one of the windows hits it.
TakesEffect(s) ==
  /\ want' = [want EXCEPT ![op[s].path] = op[s].rec]
  /\ lost' = lost \ {op[s].path}
  /\ since' = Missed({op[s].path})

\* The paths whose line is lost here.
Ruins(paths) ==
  /\ lost' = lost \cup paths
  /\ since' = Missed(paths)
  /\ UNCHANGED want

\* writeSync takes the whole payload; closeSync.
Write(s) ==
  /\ pc[s] = "opened"
  /\ Goto(s, "appended")
  /\ IF fd[s] = "stale"
     THEN /\ UNCHANGED <<lines, open>> /\ Ruins({op[s].path})
          /\ fd' = [fd EXCEPT ![s] = "none"]
     ELSE /\ lines' = Extended(s, op[s]) /\ open' = FALSE
          /\ Displace(s, "none")
          /\ IF LateTail(s) THEN Ruins(TailPath \cup {op[s].path})
                            ELSE TakesEffect(s)
  /\ UNCHANGED <<clock, begun, op, saw, staged, tries, warned, unswept>>

\* writeSync writes short and the loop goes on: part of the line is on disk,
\* or all of it but the newline.
ShortWrite(s, label) ==
  /\ pc[s] = "opened"
  /\ Goto(s, label)
  /\ LET l == IF label = "torn" THEN Junk ELSE op[s] IN
     IF fd[s] = "stale"
     THEN /\ UNCHANGED <<lines, open, fd>>
          /\ IF l = Junk THEN UNCHANGED history ELSE Ruins({op[s].path})
     ELSE /\ lines' = Extended(s, l) /\ open' = TRUE
          /\ Displace(s, IF Glues(s) THEN "live" ELSE "tail")
          /\ IF LateTail(s) THEN Ruins(TailPath \cup {op[s].path})
             ELSE IF l = Junk THEN UNCHANGED history
             ELSE TakesEffect(s)
  /\ UNCHANGED <<clock, begun, op, saw, staged, tries, warned, unswept>>

\* The loop writes the rest of the payload.  Behind another session's bytes
\* it does not parse, on a line of its own or glued to an unterminated one
\* (window 4), and put reports success.
WriteRest(s) ==
  /\ pc[s] \in {"torn", "unterminated"}
  /\ Goto(s, "appended")
  /\ IF fd[s] = "stale"
     THEN /\ UNCHANGED <<lines, open>>
          /\ fd' = [fd EXCEPT ![s] = "none"]
          /\ IF pc[s] = "torn" THEN Ruins({op[s].path}) ELSE UNCHANGED history
     ELSE /\ open' = FALSE
          /\ Displace(s, "none")
          /\ IF pc[s] = "unterminated"
             THEN UNCHANGED <<lines, history>>
             ELSE IF fd[s] = "tail"
             THEN /\ lines' = [lines EXCEPT ![Len(lines)] = op[s]]
                  /\ TakesEffect(s)
             ELSE /\ lines' = IF open THEN [lines EXCEPT ![Len(lines)] = Junk]
                                      ELSE Append(lines, Junk)
                  /\ Ruins(TailPath \cup {op[s].path})
  /\ UNCHANGED <<clock, begun, op, saw, staged, tries, warned, unswept>>

\* openSync, a write or the short-write check throws: saveUndo reports
\* persisted: false, clearUndo swallows it.
AppendFails(s) ==
  /\ pc[s] \in {"opened", "torn", "unterminated"}
  /\ Return(s)
  /\ fd' = [fd EXCEPT ![s] = "none"]
  /\ IF pc[s] = "opened" THEN UNCHANGED unswept ELSE EndsUnswept
  /\ UNCHANGED <<file, clock, begun, warned, history>>

-----------------------------------------------------------------------------
(* evictOversize and rewrite.                                              *)

\* A faulty WithinBudget: as store.ts 69-70 has it, only put() evicts.
MutWithinBudget(s) == op[s].rec = Null \/ Bytes(lines) <= PutBudget

WithinBudget(s) == Bytes(lines) <= Budget(op[s])

\* statSync: within budget there is nothing to do.
Stat(s) ==
  /\ pc[s] = "appended"
  /\ IF WithinBudget(s)
     THEN Return(s) /\ unswept' = FALSE
     ELSE Goto(s, "over") /\ UNCHANGED <<op, saw, staged, tries, unswept>>
  /\ UNCHANGED <<file, clock, begun, fd, warned, history>>

\* statSync throws: so there is nothing to do either.
StatFails(s) ==
  /\ pc[s] = "appended"
  /\ Return(s) /\ EndsUnswept
  /\ UNCHANGED <<file, clock, begun, fd, warned, history>>

Stage(s, body) ==
  /\ Goto(s, "staged")
  /\ staged' = [staged EXCEPT ![s] = body]
  /\ UNCHANGED <<file, clock, begun, op, saw, fd, tries, warned, history, unswept>>

\* readAll, the sort, the choice of what to keep and the temporary file.
Evict(s) ==
  /\ pc[s] = "over"
  /\ \E ord \in ByAge(lines) :
      LET body == Compacted(lines, ord) IN
      \/ body = <<>> /\ Stage(s, <<>>)
      \/ \E kept \in Kept(body, Budget(op[s])) : Stage(s, kept)

\* readFileSync throws after statSync succeeded: readAll serves an empty view,
\* and the compaction goes on from it.
EvictUnreadable(s) == pc[s] = "over" /\ Stage(s, <<>>)

\* A failure warns once; the latch stays until a compaction succeeds.
GiveUp(s) ==
  /\ warned' = [warned EXCEPT ![s] = TRUE]
  /\ Return(s) /\ EndsUnswept
  /\ since' = [since EXCEPT ![s] = {}]
  /\ UNCHANGED <<file, clock, begun, fd, want, lost>>

TmpWriteFails(s) == pc[s] = "over" /\ GiveUp(s)

\* renameSync succeeds: descriptors of the other sessions now refer to the
\* unlinked file (window 2), and what was appended since the re-read is gone
\* (window 1).
Rename(s) ==
  /\ pc[s] = "staged"
  /\ lines' = staged[s] /\ open' = FALSE
  /\ fd' = [t \in Sessions |-> IF fd[t] = "none" THEN "none" ELSE "stale"]
  /\ warned' = [warned EXCEPT ![s] = FALSE]
  /\ Return(s) /\ unswept' = FALSE
  /\ lost' = lost \cup since[s]
  /\ want' = [p \in Paths |->
                IF p \in since[s] \/ View(staged[s])[p] # Null
                THEN want[p] ELSE Null]
  /\ since' = [Missed({p \in Paths : View(staged[s])[p] # View(lines)[p]})
                 EXCEPT ![s] = {}]
  /\ UNCHANGED <<clock, begun>>

\* A faulty RenameRetries: one attempt too many.
MutRenameRetries(s) ==
  /\ pc[s] = "staged" /\ tries[s] + 1 <= RenameAttempts
  /\ tries' = [tries EXCEPT ![s] = @ + 1]
  /\ UNCHANGED <<file, clock, begun, pc, op, saw, fd, staged, warned, history, unswept>>

\* EPERM, EACCES or EBUSY with attempts left: sleep and try again.
RenameRetries(s) ==
  /\ pc[s] = "staged" /\ tries[s] + 1 < RenameAttempts
  /\ tries' = [tries EXCEPT ![s] = @ + 1]
  /\ UNCHANGED <<file, clock, begun, pc, op, saw, fd, staged, warned, history, unswept>>

\* Any other error, or the last attempt: the temporary file is unlinked.
RenameFails(s) == pc[s] = "staged" /\ GiveUp(s)

-----------------------------------------------------------------------------
\* The process is killed and a new one takes its place.  Its temporary file
\* stays behind, unread by anyone.
Crash(s) ==
  /\ pc[s] # "idle" \/ warned[s]
  /\ Return(s)
  /\ fd' = [fd EXCEPT ![s] = "none"]
  /\ warned' = [warned EXCEPT ![s] = FALSE]
  /\ since' = [since EXCEPT ![s] = {}]
  /\ IF pc[s] \in {"idle", "opened"} THEN UNCHANGED unswept ELSE EndsUnswept
  /\ UNCHANGED <<file, clock, begun, want, lost>>

\* What a session does on its own once put() or delete() has been called.
Step(s) ==
  \/ Write(s)
  \/ ShortWrite(s, "torn")
  \/ ShortWrite(s, "unterminated")
  \/ WriteRest(s)
  \/ AppendFails(s)
  \/ Stat(s)
  \/ StatFails(s)
  \/ Evict(s)
  \/ EvictUnreadable(s)
  \/ TmpWriteFails(s)
  \/ Rename(s)
  \/ RenameRetries(s)
  \/ RenameFails(s)

Next == \E s \in Sessions : Put(s) \/ Delete(s) \/ Step(s) \/ Crash(s)

Spec == Init /\ [][Next]_vars

-----------------------------------------------------------------------------
TypeOK ==
  /\ lines \in Seq(Entry \cup {Junk})
  /\ open \in BOOLEAN /\ clock \in Nat /\ begun \in 0 .. MaxOps
  /\ pc \in [Sessions -> PCs]
  /\ op \in [Sessions -> Entry \cup {Null}]
  /\ saw \in [Sessions -> BOOLEAN]
  /\ fd \in [Sessions -> FDs]
  /\ staged \in [Sessions -> Seq(Entry)]
  /\ tries \in [Sessions -> 0 .. RenameAttempts - 1]
  /\ warned \in [Sessions -> BOOLEAN]
  /\ want \in [Paths -> Record \cup {Null}]
  /\ lost \in SUBSET Paths
  /\ since \in [Sessions -> SUBSET Paths]
  /\ unswept \in BOOLEAN

\* A put or delete whose line reached the dump is what every reader sees until
\* a later one of the same path or its eviction, however sessions interleave,
\* crash and write short, except through the four windows above: a rename over
\* lines appended after the compaction's re-read (1), a descriptor opened before
\* a rename (2), a line written behind an unterminated one that was not there at
\* the tail check (3), and the rest of a line written in pieces that comes
\* behind bytes of another session (4).  (store.ts 16-25, 230-244, 347-380.)
LostOnlyInKnownWindows == \A p \in Paths \ lost : View(lines)[p] = want[p]

\* Between calls the dump fits the budget of a put or that of a delete, or is a
\* single line, whoever appended, compacted and overtook whom, unless a call
\* that found it larger than both, or made it so, ended without a sweep: its
\* append broke off, its stat, its temporary file or its rename failed, or its
\* session was killed (store.ts 273-318, 400-435).
DumpWithinBudget ==
  ~unswept /\ (\A s \in Sessions : pc[s] \in {"idle", "opened"}) => ~Oversize

\* The rest of the inductive invariant: an unterminated tail is a line, a torn
\* tail is not yet a record, and a staged dump disagrees with the current one
\* only by what it evicts and by what changed since it was read.
TailInv ==
  /\ open => lines # <<>>
  /\ \A s \in Sessions : fd[s] = "tail" /\ pc[s] = "torn" =>
       open /\ lines[Len(lines)] = Junk

StagedInv ==
  \A s \in Sessions : pc[s] = "staged" =>
    \A p \in Paths \ since[s] : View(staged[s])[p] \in {View(lines)[p], Null}

CallInv == \A s \in Sessions : pc[s] # "idle" => op[s] \in Entry

\* What is staged fits the budget of its call.
StagedFits == \A s \in Sessions : pc[s] = "staged" => Fits(staged[s], Budget(op[s]))

IInv ==
  TypeOK /\ CallInv /\ TailInv /\ StagedInv /\ LostOnlyInKnownWindows /\ StagedFits

\* Eviction is first in, first out: a compaction that read the dump keeps at
\* least one record, each as the dump has it, and nothing it drops is newer
\* than anything it keeps (store.ts 292-309).
EvictionDropsOldest ==
  [][\A s \in Sessions :
       pc[s] = "over" /\ pc'[s] = "staged" /\ staged'[s] # <<>> =>
         /\ \A p \in Stored(staged'[s]) : View(staged'[s])[p] = View(lines)[p]
         /\ \A p \in Stored(staged'[s]), q \in Stored(lines) \ Stored(staged'[s]) :
              View(lines)[q].at <= View(lines)[p].at]_vars

\* Said by store.ts 276-277: "At least the newest record is always kept, even
\* a pathological single record larger than the budget."
NewestAlwaysKept ==
  [][\A s \in Sessions :
       pc[s] = "over" /\ pc'[s] = "staged" /\ Stored(lines) # {} =>
         Stored(staged'[s]) # {}]_vars

\* Said by store.ts 69-70: "Only put() evicts -- reads and deletes never drop
\* other entries."
DeleteDropsNothingElse ==
  [][\A s \in Sessions :
       /\ pc[s] = "over" /\ pc'[s] = "staged" /\ staged'[s] # <<>>
       /\ op[s].rec = Null
       =>
         Stored(lines) \ {op[s].path} \subseteq Stored(staged'[s])]_vars

-----------------------------------------------------------------------------
(* The dump implements the map of UndoMap: what readAll serves is the map,   *)
(* and a call is pending until its line is whole and in the file.            *)

Pending ==
  [s \in Sessions |-> IF pc[s] \in {"opened", "torn"} THEN op[s] ELSE Null]

Map == INSTANCE UndoMap
         WITH map <- View(lines), pending <- Pending, spoilt <- lost, Records <- Record

\* Whatever sessions append, tear, compact and crash in between, each put and
\* delete changes what every reader sees in one step and at most once, and only a
\* compaction makes a record vanish, but for paths that one of the four loss
\* windows has hit.
DumpIsAMap == Map!Spec
=============================================================================
