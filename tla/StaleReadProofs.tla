--------------------------- MODULE StaleReadProofs ---------------------------
(***************************************************************************)
(* For any number of overlapping calls, any tolerance and any bounds:      *)
(* StaleRead is type correct, an edit is silent only in the windows it     *)
(* names, the agent does not block itself, and a drift blocks once.  The   *)
(* three action properties follow from one inductive invariant, IInv.      *)
(***************************************************************************)
EXTENDS StaleRead, TLAPS

\* A session starts without a baseline, a warning or a change to know of.
LEMMA InitInv == Init => IInv
<1> SUFFICES ASSUME Init PROVE IInv
  OBVIOUS
<1>1. TypeOK
  <2>1. 0 \in Times /\ 0 \in 0 .. MaxForeign /\ {} \in SUBSET Times
    BY GuardAssumption DEF Times
  <2>2. /\ pc \in [Calls -> PCs] /\ tool \in [Calls -> Tools]
        /\ failed \in [Calls -> BOOLEAN]
        /\ checked \in [Calls -> 0 .. MaxForeign \cup {Never}]
    BY DEF Init, PCs, Tools
  <2> QED
    BY <2>1, <2>2 DEF Init, TypeOK
<1>2. ClockInv /\ VisibleInv /\ HealedInv /\ PassInv /\ LadderInv
  BY GuardAssumption DEF Init, ClockInv, VisibleInv, HealedInv, PassInv, LadderInv, Never
<1> QED
  BY <1>1, <1>2 DEF IInv

\* The baseline of a read is not earlier than the mtime: the file is fresh and the
\* history is up to date.
LEMMA RecordInv ==
  ASSUME IInv, Record, UNCHANGED <<world, enabled>>, flagged' \in BOOLEAN,
         pc' \in [Calls -> PCs], tool' \in [Calls -> Tools],
         failed' \in [Calls -> BOOLEAN],
         checked' \in [Calls -> 0 .. MaxForeign \cup {Never}],
         \A c \in Calls : checked'[c] <= ver
  PROVE  IInv'
<1> USE GuardAssumption DEF Record, Reset, world
<1>1. TypeOK'
  BY DEF IInv, TypeOK, Times, Never, Unknown
<1>2. ClockInv'
  BY DEF IInv, TypeOK, ClockInv
<1>3. Fresh'
  BY DEF IInv, TypeOK, ClockInv, Fresh, Baseline, Times, Never
<1>4. VisibleInv' /\ HealedInv'
  BY <1>3 DEF VisibleInv, HealedInv
<1>5. PassInv'
  BY <1>2 DEF PassInv, ClockInv
<1>6. LadderInv'
  BY DEF LadderInv
<1> QED
  BY <1>1, <1>2, <1>4, <1>5, <1>6 DEF IInv

\* So is the baseline of a tool that changed the file.
LEMMA SelfRefreshInv ==
  ASSUME IInv, SelfRefresh, UNCHANGED <<world, enabled>>, flagged' \in BOOLEAN,
         pc' \in [Calls -> PCs], tool' \in [Calls -> Tools],
         failed' \in [Calls -> BOOLEAN],
         checked' \in [Calls -> 0 .. MaxForeign \cup {Never}],
         \A c \in Calls : checked'[c] <= ver
  PROVE  IInv'
<1> USE GuardAssumption DEF SelfRefresh, Reset, world
<1>1. TypeOK'
  BY DEF IInv, TypeOK, Times, Never, Unknown
<1>2. ClockInv'
  BY DEF IInv, TypeOK, ClockInv
<1>3. Fresh'
  BY DEF IInv, TypeOK, ClockInv, Fresh, Baseline, Times, Never
<1>4. VisibleInv' /\ HealedInv'
  BY <1>3 DEF VisibleInv, HealedInv
<1>5. PassInv'
  BY <1>2 DEF PassInv, ClockInv
<1>6. LadderInv'
  BY DEF LadderInv
<1> QED
  BY <1>1, <1>2, <1>4, <1>5, <1>6 DEF IInv

\* A step that moves calls and tells the agent what it did not know, or nothing,
\* and forgets no change the registry was not told of.
LEMMA CallInv ==
  ASSUME IInv, UNCHANGED <<world, registry, base, reacted>>,
         unrecorded' \in BOOLEAN, OwnPending => OwnPending',
         enabled' \in BOOLEAN, flagged' \in BOOLEAN, known' \in {known, ver},
         pc' \in [Calls -> PCs], tool' \in [Calls -> Tools],
         failed' \in [Calls -> BOOLEAN],
         checked' \in [Calls -> 0 .. MaxForeign \cup {Never}],
         \A c \in Calls : checked'[c] \in {checked[c], Never}
  PROVE  IInv'
<1> USE GuardAssumption DEF world, registry
<1>1. TypeOK'
  BY DEF IInv, TypeOK
<1>2. ClockInv'
  BY DEF IInv, TypeOK, ClockInv, Never
<1>3. Fresh' = Fresh
  BY DEF Fresh, Baseline
<1>4. VisibleInv' /\ HealedInv'
  BY <1>3 DEF IInv, VisibleInv, HealedInv
<1>5. PassInv'
  BY DEF IInv, TypeOK, ClockInv, PassInv, Never
<1>6. LadderInv'
  BY DEF IInv, LadderInv
<1> QED
  BY <1>1, <1>2, <1>4, <1>5, <1>6 DEF IInv

\* Every step of a hook, a tool, another program or the clock keeps the invariant.
LEMMA StepInv == IInv /\ Next => IInv'
<1> SUFFICES ASSUME IInv, Next PROVE IInv'
  OBVIOUS
<1> USE GuardAssumption
<1>t. TypeOK /\ ClockInv
  BY DEF IInv
<1>1. ASSUME NEW c \in Calls, CallUnchecked(c) PROVE IInv'
  <2>1. /\ pc' \in [Calls -> PCs] /\ tool' \in [Calls -> Tools]
        /\ checked' = [checked EXCEPT ![c] = Never]
        /\ UNCHANGED <<world, enabled, registry, flagged, failed, history>>
    BY <1>1, <1>t DEF CallUnchecked, Start, Goto, TypeOK, PCs
  <2>2. OwnPending => OwnPending'
    BY <1>1, <1>t DEF CallUnchecked, Start, Goto, history, TypeOK, OwnPending, InFlight
  <2> QED
    BY <1>t, <2>1, <2>2, CallInv DEF TypeOK, history
<1>2. ASSUME NEW c \in Calls, CallFresh(c) PROVE IInv'
  <2>1. /\ pc' \in [Calls -> PCs] /\ tool' \in [Calls -> Tools]
        /\ checked' = [checked EXCEPT ![c] = ver]
        /\ UNCHANGED <<world, enabled, registry, flagged, failed, base, known, unrecorded, reacted>>
    BY <1>2, <1>t DEF CallFresh, Passes, CheckEdit, Start, Goto, TypeOK, PCs, Tools, registry
  <2>2. Fresh /\ readAt # Never
    BY <1>2 DEF CallFresh, CheckEdit
  <2>3. TypeOK'
    BY <1>t, <2>1 DEF TypeOK, world, registry
  <2>4. ClockInv'
    BY <1>t, <2>1 DEF TypeOK, ClockInv, world
  <2>5. VisibleInv' /\ HealedInv' /\ LadderInv'
    BY <2>1, <2>2 DEF IInv, VisibleInv, HealedInv, LadderInv, Fresh, Baseline, world, registry
  <2>6. PassInv'
    BY <1>t, <2>1, <2>2 DEF IInv, TypeOK, ClockInv, PassInv, VisibleInv, world, registry
  <2> QED
    BY <2>3, <2>4, <2>5, <2>6 DEF IInv
<1>3. ASSUME NEW c \in Calls, CallUnknown(c) PROVE IInv'
  <2>1. /\ pc' \in [Calls -> PCs] /\ tool' \in [Calls -> Tools]
        /\ checked' = [checked EXCEPT ![c] = ver]
        /\ UNCHANGED <<world, enabled, readAt, editAt, failed, base, known, unrecorded>>
        /\ warned' = TRUE /\ drift' = Unknown /\ flagged' = TRUE /\ reacted' = {}
        /\ readAt # Never
    BY <1>3, <1>t DEF CallUnknown, Passes, CheckEdit, Start, Goto, TypeOK, PCs, Tools, Mark
  <2>2. TypeOK'
    BY <1>t, <2>1 DEF TypeOK, world, Unknown, Never
  <2>3. ClockInv' /\ PassInv'
    BY <1>t, <2>1 DEF TypeOK, ClockInv, PassInv, world
  <2>p. OwnPending => OwnPending'
    BY <1>3, <2>1, <1>t DEF CallUnknown, Passes, CheckEdit, Start, Goto, TypeOK, OwnPending, InFlight
  <2>4. VisibleInv' /\ HealedInv' /\ LadderInv'
    BY <2>1, <2>p DEF IInv, VisibleInv, HealedInv, LadderInv, Fresh, Baseline, world
  <2> QED
    BY <2>2, <2>3, <2>4 DEF IInv
<1>4. ASSUME NEW c \in Calls, CallAdvised(c) PROVE IInv'
  <2>1. /\ pc' \in [Calls -> PCs] /\ tool' \in [Calls -> Tools]
        /\ checked' = [checked EXCEPT ![c] = ver]
        /\ UNCHANGED <<world, enabled, readAt, editAt, failed, base, known, unrecorded, reacted>>
        /\ warned' = TRUE /\ drift' = mtime /\ flagged' = TRUE
        /\ readAt # Never
    BY <1>4, <1>t DEF CallAdvised, Passes, CheckEdit, Start, Goto, TypeOK, PCs, Tools, Mark
  <2>2. TypeOK'
    BY <1>t, <2>1 DEF TypeOK, world, Times, Never
  <2>3. ClockInv' /\ PassInv'
    BY <1>t, <2>1 DEF TypeOK, ClockInv, PassInv, world
  <2>p. OwnPending => OwnPending'
    BY <1>4, <2>1, <1>t DEF CallAdvised, Passes, CheckEdit, Start, Goto, TypeOK, OwnPending, InFlight
  <2>4. VisibleInv' /\ HealedInv'
    BY <2>1, <2>p DEF IInv, VisibleInv, HealedInv, Fresh, Baseline, world
  <2>5. LadderInv'
    BY <1>t, <2>1 DEF IInv, TypeOK, LadderInv, Times, Never, Unknown, world
  <2> QED
    BY <2>2, <2>3, <2>4, <2>5 DEF IInv
<1>5. ASSUME NEW c \in Calls, CallBlocked(c) PROVE IInv'
  <2>1. /\ UNCHANGED <<world, enabled, readAt, editAt, call, base, unrecorded>>
        /\ warned' = TRUE /\ drift' = mtime /\ flagged' = TRUE
        /\ known' = ver /\ reacted' = reacted \cup {mtime}
        /\ readAt # Never
    BY <1>5 DEF CallBlocked, Mark
  <2>2. TypeOK'
    BY <1>t, <2>1 DEF TypeOK, world, call, Times, Never
  <2>3. ClockInv' /\ PassInv'
    BY <1>t, <2>1 DEF TypeOK, ClockInv, PassInv, world, call
  <2>4. VisibleInv' /\ HealedInv'
    BY <2>1 DEF IInv, VisibleInv, HealedInv, OwnPending, InFlight, Fresh, Baseline, world, call
  <2>5. LadderInv'
    BY <1>t, <2>1 DEF IInv, TypeOK, LadderInv, Times, Never, Unknown, world
  <2> QED
    BY <2>2, <2>3, <2>4, <2>5 DEF IInv
<1>6. ASSUME NEW c \in Calls, Fails(c) \/ Read(c) PROVE IInv'
  <2>1. /\ pc' \in [Calls -> PCs] /\ failed' \in [Calls -> BOOLEAN]
        /\ UNCHANGED <<world, enabled, registry, flagged, tool, checked, history>>
    BY <1>6, <1>t DEF Fails, Read, Answers, Goto, TypeOK, PCs
  <2>2. OwnPending => OwnPending'
    BY <1>6, <1>t DEF Fails, Read, Answers, Goto, history, TypeOK, OwnPending, InFlight
  <2> QED
    BY <1>t, <2>1, <2>2, CallInv DEF TypeOK, history
<1>7. ASSUME NEW c \in Calls, EditAdvised(c) \/ EditSilent(c) \/ EditSafe(c) PROVE IInv'
  <2>1. /\ pc' \in [Calls -> PCs] /\ known' \in {known, ver}
        /\ UNCHANGED <<world, enabled, registry, flagged, tool, failed, checked, base, unrecorded, reacted>>
    BY <1>7, <1>t DEF EditAdvised, EditSilent, EditSafe, EditStarts, Goto, TypeOK, PCs
  <2>2. EditStarts(c)
    BY <1>7 DEF EditAdvised, EditSilent, EditSafe
  <2>3. OwnPending => OwnPending'
    BY <2>2, <1>t DEF EditStarts, Goto, TypeOK, OwnPending, InFlight
  <2> QED
    BY <1>t, <2>1, <2>3, CallInv DEF TypeOK
<1>8. ASSUME NEW c \in Calls, Overwrite(c) \/ EditWrite(c) PROVE IInv'
  <2>1. /\ pc' \in [Calls -> PCs] /\ failed' \in [Calls -> BOOLEAN]
        /\ mtime' = clock /\ unrecorded' \in BOOLEAN /\ gone' \in BOOLEAN
        /\ UNCHANGED <<clock, ver, enabled, registry, flagged, tool, checked, base, known, reacted>>
    BY <1>8, <1>t DEF Overwrite, EditWrite, Answers, Goto, TypeOK, PCs
  <2>p. OwnPending'
    BY <1>8, <1>t DEF Overwrite, EditWrite, Answers, Goto, TypeOK, OwnPending, InFlight
  <2>2. mtime <= mtime'
    BY <1>t, <2>1 DEF ClockInv
  <2>3. TypeOK'
    BY <1>t, <2>1 DEF TypeOK, registry
  <2>4. ClockInv' /\ PassInv'
    BY <2>1, <1>t DEF IInv, TypeOK, ClockInv, PassInv, registry, Times
  <2>5. VisibleInv' /\ HealedInv'
    BY <1>t, <2>1, <2>2, <2>p DEF IInv, TypeOK, VisibleInv, HealedInv, Fresh, Baseline, registry, Times, Never
  <2>6. LadderInv'
    BY <1>t, <2>1, <2>2 DEF IInv, TypeOK, LadderInv, registry, Times, Never, Unknown
  <2> QED
    BY <2>3, <2>4, <2>5, <2>6 DEF IInv
<1>9. ASSUME NEW c \in Calls, EditRefresh(c) PROVE IInv'
  <2>1. pc' \in [Calls -> PCs] /\ failed' \in [Calls -> BOOLEAN]
    BY <1>9, <1>t DEF EditRefresh, Answers, Goto, TypeOK, PCs
  <2> QED
    BY <1>9, <1>t, <2>1, SelfRefreshInv DEF EditRefresh, TypeOK, ClockInv
<1>10. ASSUME NEW c \in Calls, ToolResult(c) PROVE IInv'
  <2>1. Ends(c)
    BY <1>10 DEF ToolResult, ResultIgnored, ResultRead, ResultMutation
  <2>2. /\ pc' \in [Calls -> PCs] /\ tool' \in [Calls -> Tools]
        /\ failed' \in [Calls -> BOOLEAN]
        /\ checked' = [checked EXCEPT ![c] = Never]
        /\ UNCHANGED <<world, enabled>>
    BY <1>t, <2>1 DEF Ends, Goto, TypeOK, PCs, Tools
  <2>3. /\ checked' \in [Calls -> 0 .. MaxForeign \cup {Never}]
        /\ \A d \in Calls : checked'[d] \in {checked[d], Never}
        /\ \A d \in Calls : checked'[d] <= ver
    BY <1>t, <2>2 DEF TypeOK, ClockInv, Never
  <2>4. CASE ResultIgnored(c)
    <3>1. unrecorded' \in BOOLEAN
      BY <1>t, <2>4 DEF ResultIgnored, TypeOK
    <3>2. OwnPending => OwnPending'
      <4>1. CASE InFlight(c)
        BY <2>4, <4>1 DEF ResultIgnored, OwnPending
      <4>2. CASE ~InFlight(c)
        <5>1. unrecorded' = unrecorded
          BY <2>4, <4>2 DEF ResultIgnored
        <5>2. \A d \in Calls \ {c} : InFlight(d)' = InFlight(d)
          BY <1>t, <2>1 DEF Ends, Goto, TypeOK, InFlight
        <5> QED
          BY <4>2, <5>1, <5>2 DEF OwnPending
      <4> QED
        BY <4>1, <4>2
    <3> QED
      BY <1>t, <2>2, <2>3, <2>4, <3>1, <3>2, CallInv DEF ResultIgnored, TypeOK
  <2>5. CASE ResultRead(c)
    BY <1>t, <2>2, <2>3, <2>5, RecordInv DEF ResultRead, TypeOK
  <2>6. CASE ResultMutation(c)
    BY <1>t, <2>2, <2>3, <2>6, SelfRefreshInv DEF ResultMutation, TypeOK
  <2> QED
    BY <1>10, <2>4, <2>5, <2>6 DEF ToolResult
<1>11. ASSUME Tick PROVE IInv'
  <2>1. clock' = clock + 1 /\ clock < MaxClock
        /\ UNCHANGED <<mtime, gone, ver, enabled, registry, flagged, call, history>>
    BY <1>11 DEF Tick
  <2>p. OwnPending' = OwnPending
    BY <2>1 DEF OwnPending, InFlight, call, history
  <2>2. TypeOK' /\ ClockInv'
    BY <1>t, <2>1 DEF TypeOK, ClockInv, registry, call, history, Times
  <2>3. VisibleInv' /\ HealedInv' /\ PassInv' /\ LadderInv'
    BY <2>1, <2>p DEF IInv, VisibleInv, HealedInv, PassInv, LadderInv, Fresh, Baseline,
                      registry, call, history
  <2> QED
    BY <2>2, <2>3 DEF IInv
<1>12. ASSUME ForeignWrite PROVE IInv'
  <2>1. /\ ver < MaxForeign /\ ver' = ver + 1 /\ mtime' = clock /\ gone' = FALSE
        /\ known' = IF clock <= Baseline + ToleranceMs THEN ver + 1 ELSE known
        /\ UNCHANGED <<clock, enabled, registry, flagged, call, base, unrecorded, reacted>>
    BY <1>12 DEF ForeignWrite
  <2>2. ver' \in 0 .. MaxForeign /\ known' \in 0 .. MaxForeign
    BY <1>t, <2>1 DEF TypeOK
  <2>3. ver <= ver' /\ known' <= ver'
    BY <1>t, <2>1 DEF TypeOK, ClockInv
  <2>4. TypeOK'
    BY <1>t, <2>1, <2>2 DEF TypeOK, registry, call
  <2>5. ClockInv'
    BY <1>t, <2>1, <2>2, <2>3 DEF TypeOK, ClockInv, call, Times, Never
  <2>6. VisibleInv'
    BY <1>t, <2>1 DEF TypeOK, VisibleInv, Fresh, Baseline, registry, Times, Never
  <2>7. HealedInv'
    BY <1>t, <2>1 DEF TypeOK, ClockInv, HealedInv
  <2>8. PassInv'
    BY <1>t, <2>1 DEF IInv, TypeOK, ClockInv, PassInv, registry, call, Never
  <2>9. LadderInv'
    BY <1>t, <2>1 DEF IInv, TypeOK, ClockInv, LadderInv, registry, Times, Never, Unknown
  <2> QED
    BY <2>4, <2>5, <2>6, <2>7, <2>8, <2>9 DEF IInv
<1>13. ASSUME Vanish \/ Toggle PROVE IInv'
  <2>1. /\ UNCHANGED <<clock, mtime, ver, registry, flagged, call, history>>
        /\ gone' \in BOOLEAN /\ enabled' \in BOOLEAN
    BY <1>13, <1>t DEF Vanish, Toggle, world, TypeOK
  <2>2. OwnPending' = OwnPending
    BY <2>1 DEF OwnPending, InFlight, call, history
  <2> QED
    BY <1>t, <2>1, <2>2 DEF IInv, TypeOK, ClockInv, VisibleInv, HealedInv, PassInv,
                            LadderInv, Fresh, Baseline, registry, call, history
<1>14. ASSUME Shutdown PROVE IInv'
  <2>1. /\ readAt' = Never /\ editAt' = Never
        /\ warned' = FALSE /\ drift' = Never
        /\ base' = ver /\ known' = ver /\ unrecorded' = FALSE /\ reacted' = {}
        /\ UNCHANGED <<world, enabled, flagged, call>>
    BY <1>14 DEF Shutdown, Reset
  <2>2. TypeOK'
    BY <1>t, <2>1 DEF TypeOK, world, call
  <2>3. ClockInv' /\ PassInv'
    BY <1>t, <2>1 DEF TypeOK, ClockInv, PassInv, world, call
  <2>4. VisibleInv' /\ HealedInv' /\ LadderInv'
    BY <2>1 DEF VisibleInv, HealedInv, LadderInv, world
  <2> QED
    BY <2>2, <2>3, <2>4 DEF IInv
<1> QED
  BY <1>1, <1>2, <1>3, <1>4, <1>5, <1>6, <1>7, <1>8, <1>9, <1>10, <1>11, <1>12,
     <1>13, <1>14 DEF Next, ToolCall, Execute

\* So does a step that changes nothing.
LEMMA StutterInv == IInv /\ UNCHANGED vars => IInv'
  BY DEF IInv, TypeOK, ClockInv, VisibleInv, HealedInv, PassInv, LadderInv, Fresh,
         Baseline, OwnPending, InFlight, vars

\* The invariant the theorems below follow from.
THEOREM InvariantHolds == Spec => []IInv
<1>1. IInv /\ [Next]_vars => IInv'
  BY StepInv, StutterInv
<1> QED
  BY InitInv, <1>1, PTL DEF Spec

(***************************************************************************)
(* What the runs check on a small instance, for every value of the         *)
(* constants.                                                              *)
(***************************************************************************)

\* The registry, the hooks and the calls have their types, and a path is warned
\* about exactly when it has a drift generation (registry.ts 105-114, 208-230,
\* 330-346).
THEOREM TypeCorrect == Spec => []TypeOK
<1>1. IInv => TypeOK
  BY DEF IInv
<1> QED
  BY InvariantHolds, <1>1, PTL

\* An edit the guard let pass with a baseline runs without an advisory only
\* when the agent knows of every change the guard saw pass (registry.ts
\* 186-236, 310-327).
THEOREM SilenceBounded == Spec => SilentOnlyInWindows
<1>1. ASSUME IInv, NEW c \in Calls, EditSilent(c)
      PROVE  checked[c] <= known
  <2>1. TypeOK /\ ClockInv /\ VisibleInv
    BY <1>1 DEF IInv
  <2>2. ~Drifted
    BY <1>1 DEF EditSilent
  <2>3. CASE Fresh
    BY <2>1, <2>3 DEF VisibleInv, ClockInv
  <2>4. CASE ~(warned /\ readAt # Never)
    BY <2>4, <1>1 DEF IInv, PassInv
  <2> QED
    BY <2>2, <2>3, <2>4 DEF Drifted
<1>2. IInv /\ [Next]_vars =>
        [\A c \in Calls : EditSilent(c) => checked[c] <= known]_vars
  BY <1>1
<1> QED
  BY InvariantHolds, <1>2, PTL DEF Spec, SilentOnlyInWindows

\* Without a change by another program since the baseline, an edit is blocked
\* only while a change of the session's own tools is on its way to the registry,
\* or was lost to it by an error or with the guard off (hooks/stale-read.ts
\* 38-84).
THEOREM OwnWorkPasses == Spec => NoSelfBlock
<1>1. ASSUME IInv, NEW c \in Calls, CallBlocked(c)
      PROVE  ver # base \/ OwnPending
  BY <1>1 DEF IInv, HealedInv, CallBlocked, Blocks
<1>2. IInv /\ [Next]_vars =>
        [\A c \in Calls : CallBlocked(c) => ver # base \/ OwnPending]_vars
  BY <1>1
<1> QED
  BY InvariantHolds, <1>2, PTL DEF Spec, NoSelfBlock

\* The ladder blocks a drift at most once (registry.ts 170-173, 214-222).
THEOREM LadderBlocksOnce == Spec => BlockedOncePerDrift
<1>1. ASSUME IInv, NEW c \in Calls, CallBlocked(c)
      PROVE  mtime \notin reacted
  <2>1. drift # mtime /\ TypeOK /\ LadderInv
    BY <1>1 DEF IInv, CallBlocked, Blocks
  <2> QED
    BY <2>1 DEF TypeOK, LadderInv, Times, Never, Unknown
<1>2. IInv /\ [Next]_vars =>
        [\A c \in Calls : CallBlocked(c) => mtime \notin reacted]_vars
  BY <1>1
<1> QED
  BY InvariantHolds, <1>2, PTL DEF Spec, BlockedOncePerDrift

=============================================================================
