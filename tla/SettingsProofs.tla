---------------------------- MODULE SettingsProofs ----------------------------
(***************************************************************************)
(* What the settings command saves and what the program runs with, for any *)
(* set of keys, values, stores and foreign files.                          *)
(***************************************************************************)
EXTENDS SettingsModal, TLAPS

\* Files and cache have an entry for each scope.
ShapeInv ==
  /\ files = [s \in Scopes |-> files[s]]
  /\ cache = [s \in Scopes |-> cache[s]]

\* A read through the cache gives what the file holds, but where another
\* session's file passes for the cached one.
CacheInv == \A s \in Scopes \ blurred : ReadConfig(s) = files[s].data

\* An open modal shows what was last read, where nothing is blurred.
SeenInv ==
  modal.open =>
    \A s \in Scopes \ blurred : \A k \in DOMAIN seen.files[s].data \cap Keys :
      seen.rows[s][k] = seen.files[s].data[k]

\* A dialog is one of three.
DialogInv ==
  modal.open =>
    /\ {"open", "dialog"} \subseteq DOMAIN modal
    /\ \/ modal.dialog = NoDialog
       \/ "kind" \in DOMAIN modal.dialog /\ modal.dialog.kind \in {"save", "reset", "delete"}

IInv == ShapeInv /\ CacheInv

-----------------------------------------------------------------------------
(* Reading.                                                                  *)

\* A read through the entry another read left gives the same.
LEMMA RereadSame ==
  ASSUME NEW f, NEW e
  PROVE  DataRead(f, CacheAfterRead(f, e)) = DataRead(f, e)
  BY DEF DataRead, CacheAfterRead, IsHit

\* A read without an entry gives what the file holds.
LEMMA UncachedRead ==
  ASSUME NEW f
  PROVE  DataRead(f, NoCache) = f.data
  BY DEF DataRead, IsHit

\* Whatever is loaded is in range, but for what the environment gives.
LEMMA LoadInLimits ==
  \A s, k : k \in Keys =>
    \/ Load(s)[k] = env[k]
    \/ Load(s)[k] \in Typed[k] /\ Bound[Load(s)[k]] = Load(s)[k]
<1> SUFFICES ASSUME NEW s, NEW k \in Keys, env[k] = Unset
             PROVE  Load(s)[k] \in Typed[k] /\ Bound[Load(s)[k]] = Load(s)[k]
  BY DEF Load
<1>1. Load(s)[k] = Validate(Layers(s))[k]
  BY DEF Load
<1> DEFINE raw == Layers(s)[k]
<1>2. Validate(Layers(s))[k] = IF raw \in Typed[k] THEN Bound[raw] ELSE Default[k]
  BY DEF Validate, Defaults
<1> QED
  BY <1>1, <1>2, ConfigAssumption DEF ConfigAssumption

-----------------------------------------------------------------------------
(* The steps, by what they do to what is stored.                             *)

\* Only the clock moves, or an open modal.
Quiet ==
  /\ UNCHANGED <<files, frozen, env, cache, running, seen, blurred, saved>>
  /\ modal' = modal \/ modal.open

\* A reset or a deletion that was confirmed.
ActOnScope(s) ==
  /\ modal.open /\ UNCHANGED <<frozen, env, running, saved>>
  /\ IF modal.dialog.kind = "reset" THEN ResetScope(s) ELSE DeleteConfig(s)
  /\ modal.dialog # NoDialog /\ modal.dialog.kind # "save"
  /\ cache' = CacheAfterReads(files', CacheAfterWrite(s))
  /\ blurred' = blurred \ {s}
  /\ seen' = [rows |-> AllRows', files |-> files']

\* Every step is one of six kinds.
LEMMA StepKinds ==
  ASSUME Next
  PROVE  \/ SessionStart
         \/ OpenSettings
         \/ \E s \in Scopes : WrittenElsewhere(s)
         \/ \E s : modal.open /\ PerformSave(s)
         \/ \E s : ActOnScope(s)
         \/ Quiet
<1>1. CASE ClockTick  BY <1>1 DEF ClockTick, Quiet
<1>2. CASE ArrowKey \/ EnterFlips \/ EnterCommitsTyped \/ ResetField
  BY <1>2 DEF ArrowKey, EnterFlips, EnterCommitsTyped, ResetField, Commit, Quiet, storeVars,
              Browsing, Typewriting
<1>3. ASSUME NEW m, Turn(m), modal.open  PROVE Quiet
  BY <1>3 DEF Turn, Quiet, storeVars
<1>4. CASE EnterStartsTyping \/ EscapeStopsTyping \/ SelectField \/ TabKey
  BY <1>3, <1>4 DEF EnterStartsTyping, EscapeStopsTyping, SelectField, TabKey, Browsing, Typewriting
<1>5. ASSUME CloseOrAsk, modal.open  PROVE Quiet
  BY <1>3, <1>5 DEF CloseOrAsk, AskToSave, CloseModal
<1>6. CASE EscapeKey \/ CtrlC
  BY <1>3, <1>5, <1>6 DEF EscapeKey, CtrlC, Browsing, Typewriting
<1>7. CASE MoveChoice \/ CancelDialog \/ AskScope
  BY <1>3, <1>7 DEF MoveChoice, CancelDialog, AskScope, Browsing, Asking
<1>8. CASE CtrlS
  BY <1>3, <1>8 DEF CtrlS, AskToSave, Browsing
<1>9. CASE EnterInSaveDialog
  BY <1>3, <1>9 DEF EnterInSaveDialog, CloseModal, CancelDialog, Asking
<1>10. CASE EnterInScopeDialog
  <2>1. CASE CancelDialog  BY <1>3, <2>1 DEF CancelDialog, Asking
  <2>2. CASE ~CancelDialog
    BY <1>10, <2>2 DEF EnterInScopeDialog, ActOnScope, Asking
  <2> QED  BY <2>1, <2>2
<1> QED
  BY <1>1, <1>2, <1>4, <1>6, <1>7, <1>8, <1>9, <1>10 DEF Next, KeyPressed

\* Every configuration the program ever runs with is in range.
THEOREM SettingsInLimits == Spec => []InLimits
<1>1. Init => InLimits
  BY LoadInLimits DEF Init, InLimits
<1>2. InLimits /\ [Next]_vars => InLimits'
  <2> SUFFICES ASSUME InLimits, [Next]_vars PROVE InLimits'  OBVIOUS
  <2>1. CASE UNCHANGED vars  BY <2>1 DEF InLimits, vars, storeVars
  <2>2. CASE Next
    <3>1. env' = env
      BY <2>2, StepKinds DEF SessionStart, OpenSettings, WrittenElsewhere, PerformSave,
                             ActOnScope, Quiet
    <3>2. running' = running \/ running' = Load("project") \/ running' = Load("project")'
      BY <2>2, StepKinds DEF SessionStart, OpenSettings, WrittenElsewhere, PerformSave,
                             ActOnScope, Quiet
    <3>3. (\A s, k : k \in Keys =>
              \/ Load(s)[k] = env[k]
              \/ Load(s)[k] \in Typed[k] /\ Bound[Load(s)[k]] = Load(s)[k])'
      BY LoadInLimits, PTL
    <3> QED  BY <3>1, <3>2, <3>3, LoadInLimits DEF InLimits
  <2> QED  BY <2>1, <2>2
<1> QED  BY <1>1, <1>2, PTL DEF Spec

-----------------------------------------------------------------------------
(* The cache.                                                                *)

LEMMA InitInvariant == Init => IInv
<1> SUFFICES ASSUME Init PROVE IInv  OBVIOUS
<1> DEFINE entries == CacheAfterReads(files, [s \in Scopes |-> NoCache])
<1>1. ShapeInv
  <2>1. files = [s \in Scopes |-> files[s]]
    BY SettingsAssumption DEF Init, SettingsAssumption
  <2>2. cache = [entries EXCEPT !["project"] = NoCache]  BY DEF Init
  <2> QED  BY <2>1, <2>2 DEF ShapeInv, CacheAfterReads
<1>2. ASSUME NEW s \in Scopes  PROVE ReadConfig(s) = files[s].data
  <2>1. cache[s] = NoCache \/ cache[s] = CacheAfterRead(files[s], NoCache)
    BY <1>2 DEF Init, CacheAfterReads
  <2> QED  BY <2>1, RereadSame, UncachedRead DEF ReadConfig
<1> QED  BY <1>1, <1>2 DEF IInv, CacheInv

\* Reading keeps the cache true.
LEMMA ReadingKeeps ==
  ASSUME IInv, files' = files, cache' = CacheAfterReads(files, cache), blurred' = blurred
  PROVE  IInv'
<1>1. ShapeInv'  BY DEF IInv, ShapeInv, CacheAfterReads
<1>2. ASSUME NEW s \in Scopes \ blurred  PROVE ReadConfig(s)' = files[s].data
  <2>1. cache'[s] = CacheAfterRead(files[s], cache[s])  BY <1>2 DEF CacheAfterReads
  <2>2. DataRead(files[s], cache[s]) = files[s].data
    BY <1>2 DEF IInv, CacheInv, ReadConfig
  <2> QED  BY <2>1, <2>2, RereadSame DEF ReadConfig
<1> QED  BY <1>1, <1>2 DEF IInv, CacheInv

\* So does a write of this process, for its entry goes first.
LEMMA WritingKeeps ==
  ASSUME IInv, NEW s, NEW f,
         files' = files \/ files' = [files EXCEPT ![s] = f],
         \/ cache' = CacheAfterReads(files', CacheAfterWrite(s)) /\ blurred' = blurred \ {s}
         \/ cache' = CacheAfterWrite(s) /\ blurred' = blurred
  PROVE  IInv'
<1>1. ShapeInv'
  BY DEF IInv, ShapeInv, CacheAfterReads, CacheAfterWrite
<1>2. ASSUME NEW r \in Scopes \ blurred'  PROVE ReadConfig(r)' = files'[r].data
  <2>1. CASE r = s
    <3>1. CacheAfterWrite(s)[r] = NoCache
      BY <1>2, <2>1 DEF IInv, ShapeInv, CacheAfterWrite
    <3>2. cache'[r] = NoCache \/ cache'[r] = CacheAfterRead(files'[r], NoCache)
      BY <1>2, <3>1 DEF CacheAfterReads
    <3> QED  BY <3>2, RereadSame, UncachedRead DEF ReadConfig
  <2>2. CASE r # s
    <3>1. files'[r] = files[r] /\ CacheAfterWrite(s)[r] = cache[r]
      BY <1>2, <2>2 DEF IInv, ShapeInv, CacheAfterWrite
    <3>2. cache'[r] = cache[r] \/ cache'[r] = CacheAfterRead(files[r], cache[r])
      BY <1>2, <3>1 DEF CacheAfterReads
    <3>3. DataRead(files[r], cache[r]) = files[r].data
      BY <1>2, <2>2 DEF IInv, CacheInv, ReadConfig
    <3> QED  BY <3>1, <3>2, <3>3, RereadSame DEF ReadConfig
  <2> QED  BY <2>1, <2>2
<1> QED  BY <1>1, <1>2 DEF IInv, CacheInv

\* A file of another session is read as it is, or blurs its scope.
LEMMA ForeignWriteKeeps ==
  ASSUME IInv, NEW s \in Scopes, WrittenElsewhere(s)
  PROVE  IInv'
<1> PICK file \in ForeignFiles :
      LET now == [file EXCEPT !.mtime = clock] IN
      /\ files' = [files EXCEPT ![s] = now]
      /\ blurred' = IF IsHit(now, cache[s]) /\ cache[s].data # now.data
                    THEN blurred \cup {s} ELSE blurred
  BY DEF WrittenElsewhere
<1> DEFINE now == [file EXCEPT !.mtime = clock]
<1> HIDE DEF now
<1>1. /\ files' = [files EXCEPT ![s] = now] /\ cache' = cache
      /\ blurred' = IF IsHit(now, cache[s]) /\ cache[s].data # now.data
                    THEN blurred \cup {s} ELSE blurred
  BY DEF WrittenElsewhere, now
<1>2. ShapeInv'  BY <1>1 DEF IInv, ShapeInv
<1>3. ASSUME NEW r \in Scopes \ blurred'  PROVE ReadConfig(r)' = files'[r].data
  <2>1. CASE r = s
    BY <1>1, <1>3, <2>1 DEF IInv, ShapeInv, ReadConfig, DataRead
  <2>2. CASE r # s
    <3>1. files'[r] = files[r] /\ cache'[r] = cache[r] /\ r \notin blurred
      BY <1>1, <1>3, <2>2 DEF IInv, ShapeInv
    <3> QED  BY <1>3, <3>1 DEF IInv, CacheInv, ReadConfig
  <2> QED  BY <2>1, <2>2
<1> QED  BY <1>2, <1>3 DEF IInv, CacheInv

\* The write of a save, if there is one.
LEMMA SaveIsWrite ==
  ASSUME NEW s, PerformSave(s)
  PROVE  \/ files' = files /\ cache' = CacheAfterReads(files, cache) /\ blurred' = blurred
         \/ /\ \E f : files' = files \/ files' = [files EXCEPT ![s] = f]
            /\ \/ cache' = CacheAfterReads(files', CacheAfterWrite(s)) /\ blurred' = blurred \ {s}
               \/ cache' = CacheAfterWrite(s) /\ blurred' = blurred
<1> DEFINE config == Validate(AllValues(s))
<1>1. CASE SaveFails(s, config) /\ cache' = CacheAfterWrite(s) /\ UNCHANGED <<files, blurred>>
  BY <1>1
<1>2. CASE /\ NothingToSave(config, ReadConfig(s)) /\ Save(s, config)
           /\ cache' = CacheAfterReads(files', cache) /\ blurred' = blurred
  BY <1>2 DEF Save
<1>3. CASE /\ ~NothingToSave(config, ReadConfig(s)) /\ Save(s, config)
           /\ cache' = CacheAfterReads(files', CacheAfterWrite(s)) /\ blurred' = blurred \ {s}
  <2>1. \E f : files' = files \/ files' = [files EXCEPT ![s] = f]
    BY <1>3 DEF Save, WriteConfig
  <2> QED  BY <1>3, <2>1
<1> QED  BY <1>1, <1>2, <1>3 DEF PerformSave

LEMMA NextInvariant ==
  ASSUME IInv, [Next]_vars
  PROVE  IInv'
<1>1. CASE UNCHANGED vars \/ Quiet
  BY <1>1 DEF IInv, ShapeInv, CacheInv, ReadConfig, vars, storeVars, Quiet
<1>2. CASE SessionStart \/ OpenSettings
  BY <1>2, ReadingKeeps DEF SessionStart, OpenSettings
<1>3. ASSUME NEW s \in Scopes, WrittenElsewhere(s)  PROVE IInv'
  BY <1>3, ForeignWriteKeeps
<1>4. ASSUME NEW s, PerformSave(s)  PROVE IInv'
  BY <1>4, SaveIsWrite, ReadingKeeps, WritingKeeps
<1>5. ASSUME NEW s, ActOnScope(s)  PROVE IInv'
  <2>1. \E f : files' = files \/ files' = [files EXCEPT ![s] = f]
    BY <1>5 DEF ActOnScope, ResetScope, DeleteConfig, WriteConfig
  <2> QED  BY <1>5, <2>1, WritingKeeps DEF ActOnScope
<1> QED  BY <1>1, <1>2, <1>3, <1>4, <1>5, StepKinds

LEMMA CacheIsTrue == Spec => []IInv
  BY InitInvariant, NextInvariant, PTL DEF Spec

-----------------------------------------------------------------------------
(* What runs, and what is saved.                                             *)

LEMMA UnblurredLoad ==
  ASSUME IInv, blurred = {}
  PROVE  Load("project") = Effective
<1>1. ReadConfig("project") = files["project"].data /\ ReadConfig("global") = files["global"].data
  BY DEF IInv, CacheInv, Scopes
<1>2. Layers("project") = OnDisk
  BY <1>1 DEF Layers, OnDisk
<1> QED  BY <1>2 DEF Load, Effective

\* What a save or the start of a session makes the program run with is what the
\* files stand for, but for a scope whose file another session blurred.
THEOREM RunsStored == Spec => RunsWhatIsStored
<1>1. ASSUME IInv, IInv', [Next]_vars,
             SessionStart \/ (saved' # saved /\ saved' \in Scopes), blurred' = {}
      PROVE  running' = Effective'
  <2>1. CASE SessionStart
    <3>1. running' = Effective
      BY <1>1, <2>1, UnblurredLoad DEF SessionStart
    <3>2. Effective' = Effective
      BY <2>1 DEF SessionStart, Effective, OnDisk, Defaults, Validate
    <3> QED  BY <3>1, <3>2
  <2>2. CASE saved' # saved /\ saved' \in Scopes
    <3>1. (IInv /\ blurred = {} => Load("project") = Effective)'
      BY UnblurredLoad, PTL
    <3>2. PICK s : PerformSave(s)
      BY <1>1, <2>2, StepKinds DEF vars, SessionStart, OpenSettings, WrittenElsewhere, ActOnScope,
                                   Quiet, Scopes
    <3>3. running' = Load("project")'
      BY <2>2, <3>2 DEF PerformSave
    <3> QED  BY <1>1, <3>1, <3>3
  <2> QED  BY <1>1, <2>1, <2>2
<1>2. IInv /\ IInv' /\ [Next]_vars
      => [SessionStart \/ (saved' # saved /\ saved' \in Scopes)
            => running' = Effective' \/ blurred' # {}]_vars
  BY <1>1
<1> QED  BY <1>2, CacheIsTrue, PTL DEF Spec, RunsWhatIsStored

\* A save that went to a scope was this scope's save, and it did not fail.
LEMMA SavedIsSave ==
  ASSUME Next, NEW s \in Scopes, SavedTo(s)
  PROVE  modal.open /\ ~SaveFails(s, Validate(AllValues(s))) /\ Save(s, Validate(AllValues(s)))
<1>1. PICK t : modal.open /\ PerformSave(t)
  BY StepKinds DEF SavedTo, SessionStart, OpenSettings, WrittenElsewhere, ActOnScope, Quiet, Scopes
<1>2. t = s
  BY <1>1 DEF SavedTo, PerformSave
<1> QED  BY <1>1, <1>2 DEF SavedTo, PerformSave

\* What a save leaves in the file of its scope.
LEMMA SaveResult ==
  ASSUME IInv, NEW s \in Scopes, NEW config, ~SaveFails(s, config), Save(s, config)
  PROVE  IF NothingToSave(config, ReadConfig(s)) THEN files' = files
         ELSE files'[s].data = Merged(config, ReadConfig(s))
<1>1. CASE NothingToSave(config, ReadConfig(s))
  BY <1>1 DEF Save
<1>2. CASE ~NothingToSave(config, ReadConfig(s))
  <2>1. files' = [files EXCEPT ![s] = FileOfData(Merged(config, ReadConfig(s)))]
    BY <1>2 DEF Save, SaveFails, WriteConfig
  <2> QED  BY <1>2, <2>1 DEF IInv, ShapeInv, FileOfData
<1> QED  BY <1>1, <1>2

\* A sound value that a save showed is in the file afterwards.
LEMMA ShownIsSaved ==
  ASSUME IInv, Next, NEW s \in Scopes \ blurred, SavedTo(s),
         NEW k \in Keys, modal.rows[s][k] \in Fits[k]
  PROVE  k \in DOMAIN files'[s].data /\ files'[s].data[k] = modal.rows[s][k]
<1> DEFINE config == Validate(AllValues(s))
           existing == ReadConfig(s)
<1>1. ~SaveFails(s, config) /\ Save(s, config)
  BY SavedIsSave
<1>2. existing = files[s].data
  BY DEF IInv, CacheInv
<1>3. config[k] = modal.rows[s][k]
  BY ConfigAssumption DEF ConfigAssumption, Validate, AllValues
<1>4. config[k] \in Fits[k]
  BY <1>3
<1> HIDE DEF config, existing
<1>5. IF NothingToSave(config, existing) THEN files' = files
      ELSE files'[s].data = Merged(config, existing)
  BY <1>1, SaveResult DEF existing
<1>6. CASE k \in Diff(config, existing)
  BY <1>3, <1>5, <1>6 DEF NothingToSave, Merged
<1>7. CASE k \notin Diff(config, existing)
  <2>1. k \in DOMAIN existing /\ existing[k] = config[k]
    BY <1>4, <1>7 DEF Diff, Differs
  <2> QED  BY <1>2, <1>3, <1>5, <1>7, <2>1 DEF Merged
<1> QED  BY <1>6, <1>7

\* Every sound value that was shown is in the file afterwards.
THEOREM SavesShown == Spec => SavesWhatIsShown
<1>1. IInv /\ [Next]_vars
      => [\A s \in Scopes \ blurred : SavedTo(s) =>
            \A k \in Keys : modal.rows[s][k] \in Fits[k] =>
              k \in DOMAIN files'[s].data /\ files'[s].data[k] = modal.rows[s][k]]_vars
  BY ShownIsSaved
<1> QED  BY <1>1, CacheIsTrue, PTL DEF Spec, SavesWhatIsShown

-----------------------------------------------------------------------------
(* What a save or a reset leaves alone.                                      *)

RowsTrue ==
  \A s \in Scopes \ blurred : \A k \in DOMAIN files[s].data \cap Keys :
    AllRows[s][k] = files[s].data[k]

\* Rows that are read from a scope the cache is true of show what its file holds.
LEMMA RowsAreRead == CacheInv => RowsTrue
<1> SUFFICES ASSUME CacheInv, NEW s \in Scopes \ blurred, NEW k \in DOMAIN files[s].data \cap Keys
             PROVE  AllRows[s][k] = files[s].data[k]
  BY DEF RowsTrue
<1>1. ReadConfig(s) = files[s].data
  BY DEF CacheInv
<1> QED  BY <1>1 DEF AllRows, Layers, Scopes

LEMMA SeenStep ==
  ASSUME IInv, IInv', SeenInv, [Next]_vars
  PROVE  SeenInv'
<1>1. CASE UNCHANGED vars \/ Quiet
  BY <1>1 DEF SeenInv, vars, Quiet
<1>2. CASE SessionStart  BY <1>2 DEF SessionStart, SeenInv
<1>3. CASE OpenSettings
  BY <1>3, RowsAreRead DEF OpenSettings, SeenInv, IInv, RowsTrue
<1>4. ASSUME NEW s \in Scopes, WrittenElsewhere(s)  PROVE SeenInv'
  <2>1. blurred \subseteq blurred' /\ UNCHANGED <<seen, modal>>
    BY <1>4 DEF WrittenElsewhere
  <2> QED  BY <2>1 DEF SeenInv
<1>5. ASSUME NEW s, PerformSave(s)  PROVE SeenInv'
  BY <1>5 DEF PerformSave, SeenInv, Closed
<1>6. ASSUME NEW s, ActOnScope(s)  PROVE SeenInv'
  <2>1. (CacheInv => RowsTrue)'
    BY RowsAreRead, PTL
  <2>2. seen' = [rows |-> AllRows', files |-> files']
    BY <1>6 DEF ActOnScope
  <2> QED  BY <2>1, <2>2 DEF SeenInv, IInv, RowsTrue
<1> QED  BY <1>1, <1>2, <1>3, <1>4, <1>5, <1>6, StepKinds

LEMMA DialogStep ==
  ASSUME DialogInv, [Next]_vars
  PROVE  DialogInv'
<1>1. CASE modal' = modal \/ modal' = Closed
  BY <1>1 DEF DialogInv, Closed
<1>2. CASE SessionStart \/ ClockTick \/ (\E s \in Scopes : WrittenElsewhere(s)) \/ UNCHANGED vars
  BY <1>1, <1>2 DEF SessionStart, ClockTick, WrittenElsewhere, vars
<1>3. CASE OpenSettings
  BY <1>3 DEF OpenSettings, Fresh, DialogInv
<1>4. ASSUME modal.open, modal'.dialog = modal.dialog, modal'.open = modal.open,
             DOMAIN modal' = DOMAIN modal
      PROVE  DialogInv'
  BY <1>4 DEF DialogInv
<1>5. ASSUME modal.open, NEW act \in {"save", "reset", "delete"}, NEW i,
             modal' = [modal EXCEPT !.dialog = [kind |-> act, at |-> i]]
      PROVE  DialogInv'
  BY <1>5 DEF DialogInv
<1>6. ASSUME modal.open, NEW m, NEW v, m = modal \/ m = AtField \/ m = [modal EXCEPT !.editing = FALSE],
             Commit(m, v)
      PROVE  DialogInv'
  <2> DEFINE set == [m EXCEPT !.rows[m.tab][m.key] = v]
  <2>1. m.dialog = modal.dialog /\ m.open = modal.open /\ DOMAIN m = DOMAIN modal
    BY <1>6 DEF AtField, DialogInv
  <2>2. set.dialog = m.dialog /\ set.open = m.open /\ DOMAIN set = DOMAIN m
    OBVIOUS
  <2>3. modal' = Synced(set)
    BY <1>6 DEF Commit
  <2> HIDE DEF set
  <2>4. Synced(set).dialog = set.dialog /\ Synced(set).open = set.open /\ DOMAIN Synced(set) = DOMAIN set
    BY DEF Synced
  <2> QED  BY <1>4, <1>6, <2>1, <2>2, <2>3, <2>4
<1>7. CASE ArrowKey \/ EnterFlips \/ EnterCommitsTyped \/ ResetField
  BY <1>6, <1>7 DEF ArrowKey, EnterFlips, EnterCommitsTyped, ResetField, Browsing, Typewriting
<1>8. CASE EnterStartsTyping \/ EscapeStopsTyping \/ SelectField
  BY <1>4, <1>8 DEF EnterStartsTyping, EscapeStopsTyping, SelectField, Turn, AtField, Browsing,
                    Typewriting, DialogInv
<1>9. CASE TabKey
  BY <1>4, <1>9 DEF TabKey, Turn, Browsing, DialogInv
<1>10. ASSUME CloseOrAsk, modal.open  PROVE DialogInv'
  BY <1>1, <1>5, <1>10 DEF CloseOrAsk, AskToSave, CloseModal, Turn
<1>11. CASE EscapeKey \/ CtrlC
  BY <1>4, <1>10, <1>11 DEF EscapeKey, CtrlC, Browsing, Typewriting, Turn, AtField, DialogInv
<1>12. ASSUME NEW s, PerformSave(s)  PROVE DialogInv'
  BY <1>1, <1>12 DEF PerformSave
<1>13. CASE CtrlS
  BY <1>5, <1>12, <1>13 DEF CtrlS, AskToSave, Turn, Browsing
<1>14. CASE MoveChoice
  BY <1>14 DEF MoveChoice, Asking, Turn, DialogInv
<1>15. CASE CancelDialog
  BY <1>15 DEF CancelDialog, Asking, Turn, DialogInv
<1>16. CASE EnterInSaveDialog
  BY <1>1, <1>12, <1>15, <1>16 DEF EnterInSaveDialog, CloseModal, Turn
<1>17. CASE AskScope
  BY <1>5, <1>17 DEF AskScope, Browsing, Turn
<1>18. CASE EnterInScopeDialog
  <2>1. CASE modal.dialog.at > 0
    BY <1>15, <1>18, <2>1 DEF EnterInScopeDialog, Asking, DialogInv
  <2> QED  BY <1>15, <1>18, <2>1 DEF EnterInScopeDialog
<1> QED
  BY <1>2, <1>3, <1>7, <1>8, <1>9, <1>11, <1>13, <1>14, <1>15, <1>16, <1>17, <1>18
  DEF Next, KeyPressed

LEMMA ModalIsTrue == Spec => [](SeenInv /\ DialogInv)
<1>1. Init => SeenInv /\ DialogInv
  BY DEF Init, SeenInv, DialogInv, Closed
<1> QED  BY <1>1, SeenStep, DialogStep, CacheIsTrue, PTL DEF Spec

\* A save or a reset rewrites the file with the same foreign keys.
LEMMA ForeignStays ==
  ASSUME IInv, NEW s \in Scopes \ blurred, Next, modal.open, modal' # modal,
         DialogInv, modal.dialog.kind # "delete"
  PROVE  Foreign(files'[s].data) = Foreign(files[s].data)
<1>1. ReadConfig(s) = files[s].data
  BY DEF IInv, CacheInv
<1>2. ASSUME files'[s] = files[s]  PROVE Foreign(files'[s].data) = Foreign(files[s].data)
  BY <1>2
<1>3. CASE SessionStart \/ OpenSettings \/ Quiet \/ \E r \in Scopes : WrittenElsewhere(r)
  BY <1>2, <1>3 DEF SessionStart, OpenSettings, Quiet, WrittenElsewhere
<1>4. ASSUME NEW t, PerformSave(t)  PROVE Foreign(files'[s].data) = Foreign(files[s].data)
  <2> DEFINE config == Validate(AllValues(t))
             existing == ReadConfig(t)
  <2>1. files' = files \/ files' = [files EXCEPT ![t] = FileOfData(Merged(config, existing))]
    BY <1>4 DEF PerformSave, Save, WriteConfig
  <2>2. CASE files' = [files EXCEPT ![t] = FileOfData(Merged(config, existing))] /\ t = s
    <3>1. files'[s].data = Merged(config, existing) /\ existing = files[s].data
      BY <1>1, <2>2 DEF IInv, ShapeInv, FileOfData
    <3> HIDE DEF config, existing
    <3>2. DOMAIN Merged(config, existing) \ Keys = DOMAIN existing \ Keys
      BY DEF Merged, Diff
    <3>3. \A k \in DOMAIN existing \ Keys : Merged(config, existing)[k] = existing[k]
      BY DEF Merged, Diff
    <3> QED  BY <3>1, <3>2, <3>3 DEF Foreign, Restrict
  <2>3. CASE files' = [files EXCEPT ![t] = FileOfData(Merged(config, existing))] /\ t # s
    BY <1>2, <2>3 DEF IInv, ShapeInv
  <2> QED  BY <1>2, <2>1, <2>2, <2>3
<1>5. ASSUME NEW t, ActOnScope(t)  PROVE Foreign(files'[s].data) = Foreign(files[s].data)
  <2> DEFINE kept == Foreign(ReadConfig(t))
  <2>1. ResetScope(t)
    BY <1>5 DEF ActOnScope, DialogInv
  <2>2. CASE DOMAIN kept # {} /\ files' = [files EXCEPT ![t] = FileOfData(kept)] /\ t = s
    <3>1. files'[s].data = Foreign(files[s].data)
      BY <1>1, <2>2 DEF IInv, ShapeInv, FileOfData
    <3> QED  BY <3>1 DEF Foreign, Restrict
  <2>3. CASE DOMAIN kept = {} /\ files' = [files EXCEPT ![t] = NoFile] /\ t = s
    <3>1. files'[s].data = NoData
      BY <2>3 DEF IInv, ShapeInv, NoFile
    <3>2. DOMAIN files[s].data \ Keys = {}
      BY <1>1, <2>3 DEF Foreign, Restrict
    <3> QED  BY <3>1, <3>2 DEF Foreign, Restrict, NoData
  <2>4. CASE files' = files \/ t # s
    BY <1>2, <2>1, <2>4 DEF ResetScope, WriteConfig, DeleteConfig, IInv, ShapeInv
  <2> QED  BY <2>1, <2>2, <2>3, <2>4 DEF ResetScope, WriteConfig, DeleteConfig
<1> QED  BY <1>3, <1>4, <1>5, StepKinds

\* A known key that was not touched stays as it is through a save.
LEMMA UntouchedSave ==
  ASSUME IInv, SeenInv, Next, NEW s \in Scopes \ blurred, SavedTo(s), files[s] = seen.files[s],
         NEW k \in DOMAIN files[s].data \cap Keys, files[s].data[k] \in Fits[k],
         modal.open, modal.rows[s][k] = seen.rows[s][k]
  PROVE  k \in DOMAIN files'[s].data /\ files'[s].data[k] = files[s].data[k]
<1>1. modal.rows[s][k] = files[s].data[k]
  BY DEF SeenInv
<1> QED  BY <1>1, ShownIsSaved

\* Foreign keys outlive a save and a reset, untouched sound values a save.
THEOREM UntouchedKept == Spec => UntouchedStays
<1>1. IInv /\ SeenInv /\ DialogInv /\ [Next]_vars
      => [\A s \in Scopes \ blurred :
            /\ modal.open /\ modal' # modal /\ modal.dialog.kind # "delete" =>
                 Foreign(files'[s].data) = Foreign(files[s].data)
            /\ SavedTo(s) /\ files[s] = seen.files[s] =>
                 \A k \in DOMAIN files[s].data \cap Keys :
                   files[s].data[k] \in Fits[k] /\ modal.rows[s][k] = seen.rows[s][k]
                     => k \in DOMAIN files'[s].data /\ files'[s].data[k] = files[s].data[k]]_vars
  BY ForeignStays, UntouchedSave, SavedIsSave
<1> QED  BY <1>1, CacheIsTrue, ModalIsTrue, PTL DEF Spec, UntouchedStays

-----------------------------------------------------------------------------
(* Types.                                                                    *)

SoundData(data) == \A k \in DOMAIN data \cap Keys : data[k] \in Values

\* Known keys hold known values, in the files, the cache and the environment.
ValuesInv ==
  /\ \A s \in Scopes :
       /\ SoundData(files[s].data) /\ (files[s].state # "object" => files[s].data = NoData)
       /\ cache[s] = NoCache \/ SoundData(cache[s].data)
  /\ \A k \in Keys : env[k] \in Values \cup {Unset}
  /\ running \in ConfigsOf

LEMMA NothingSound == SoundData(NoData)
  BY DEF SoundData, NoData

LEMMA ReadSound ==
  ASSUME NEW f, NEW e, SoundData(f.data), e = NoCache \/ SoundData(e.data)
  PROVE  /\ SoundData(DataRead(f, e))
         /\ CacheAfterRead(f, e) = NoCache \/ SoundData(CacheAfterRead(f, e).data)
  BY DEF DataRead, CacheAfterRead, IsHit

\* Rows and what is loaded are configurations.
StoreTyped ==
  /\ \A s \in Scopes : SoundData(files[s].data) /\ (cache[s] = NoCache \/ SoundData(cache[s].data))
  /\ \A k \in Keys : env[k] \in Values \cup {Unset}

LEMMA DefaultsTyped ==
  ASSUME StoreTyped
  PROVE  Defaults \in ConfigsOf /\ \A raw : Validate(raw) \in ConfigsOf
<1>1. \A k \in Keys : Defaults[k] \in Values
  BY ConfigAssumption DEF StoreTyped, Defaults
<1>2. Defaults \in ConfigsOf
  BY <1>1 DEF Defaults, ConfigsOf
<1>3. ASSUME NEW raw, NEW k \in Keys PROVE Validate(raw)[k] \in Values
  <2>1. Validate(raw)[k] = IF raw[k] \in Typed[k] THEN Bound[raw[k]] ELSE Defaults[k]
    BY DEF Validate
  <2>2. raw[k] \in Typed[k] => Bound[raw[k]] \in Values
    BY ConfigAssumption
  <2> QED
    BY <1>1, <2>1, <2>2
<1> QED
  BY <1>2, <1>3 DEF Validate, ConfigsOf

LEMMA LoadTyped ==
  StoreTyped => AllRows \in [Scopes -> ConfigsOf] /\ \A s : Load(s) \in ConfigsOf
<1> SUFFICES ASSUME StoreTyped
             PROVE  AllRows \in [Scopes -> ConfigsOf] /\ \A s : Load(s) \in ConfigsOf
  OBVIOUS
<1>1. \A s \in Scopes : SoundData(ReadConfig(s))
  BY ReadSound DEF StoreTyped, ReadConfig
<1>2. \A k \in Keys : Defaults[k] \in Values
  BY DefaultsTyped DEF ConfigsOf
<1>3. ASSUME NEW s PROVE Layers(s) \in ConfigsOf
  BY <1>1, <1>2 DEF Layers, SoundData, Scopes, ConfigsOf
<1>4. ASSUME NEW s PROVE Load(s) \in ConfigsOf
  <2>1. \A k \in Keys : Validate(Layers(s))[k] \in Values
    BY DefaultsTyped DEF ConfigsOf
  <2> QED
    BY <2>1 DEF Load, StoreTyped, ConfigsOf
<1> QED
  BY <1>3, <1>4 DEF AllRows

LEMMA LoadTypedNext ==
  StoreTyped' => AllRows' \in [Scopes -> ConfigsOf] /\ Load("project")' \in ConfigsOf
<1>1. StoreTyped => AllRows \in [Scopes -> ConfigsOf] /\ Load("project") \in ConfigsOf
  BY LoadTyped
<1>2. (StoreTyped => AllRows \in [Scopes -> ConfigsOf] /\ Load("project") \in ConfigsOf)'
  BY <1>1, PTL
<1> QED
  BY <1>2

LEMMA InitValues == Init => ValuesInv
<1> SUFFICES ASSUME Init PROVE ValuesInv
  OBVIOUS
<1>0. PICK st \in Stores : files = st.files /\ env = st.env
  BY DEF Init
<1>1. ASSUME NEW s \in Scopes
      PROVE  SoundData(files[s].data) /\ (files[s].state # "object" => files[s].data = NoData)
  <2>1. IsFile(files[s])
    BY <1>0, SettingsAssumption DEF SettingsAssumption
  <2> QED
    BY <2>1 DEF IsFile, SoundData
<1>2. \A k \in Keys : env[k] \in Values \cup {Unset}
  BY <1>0, SettingsAssumption DEF SettingsAssumption
<1>3. ASSUME NEW s \in Scopes PROVE cache[s] = NoCache \/ SoundData(cache[s].data)
  <2>1. cache[s] = NoCache \/ cache[s] = CacheAfterRead(files[s], NoCache)
    BY DEF Init, CacheAfterReads
  <2> QED
    BY <1>1, <2>1, ReadSound
<1>4. running = Load("global")
  BY DEF Init
<1>5. running \in ConfigsOf
  BY <1>1, <1>2, <1>3, <1>4, LoadTyped DEF StoreTyped
<1> QED
  BY <1>1, <1>2, <1>3, <1>5 DEF ValuesInv

\* What is written is sound, by whatever key of this program.
LEMMA WrittenSound ==
  ASSUME IInv, ValuesInv, NEW s,
         PerformSave(s) \/ ActOnScope(s)
  PROVE  \E f : /\ files' = files \/ files' = [files EXCEPT ![s] = f]
                /\ SoundData(f.data) /\ (f.state # "object" => f.data = NoData)
<1> DEFINE Sound(f) == SoundData(f.data) /\ (f.state # "object" => f.data = NoData)
<1>1. Sound(NoFile)
  BY NothingSound DEF NoFile
<1>2. \A d : SoundData(d) => Sound(FileOfData(d))
  BY DEF FileOfData
<1>3. CASE PerformSave(s)
  <2> DEFINE config == Validate(AllValues(s))
             existing == ReadConfig(s)
  <2>1. files' = files \/ files' = [files EXCEPT ![s] = FileOfData(Merged(config, existing))]
    BY <1>3 DEF PerformSave, Save, WriteConfig
  <2>2. CASE s \in Scopes
    <3>1. SoundData(existing)
      BY <2>2, ReadSound DEF ValuesInv, ReadConfig
    <3>2. config \in ConfigsOf
      BY DefaultsTyped DEF ValuesInv, StoreTyped
    <3> HIDE DEF config, existing
    <3>3. SoundData(Merged(config, existing))
      BY <3>1, <3>2 DEF SoundData, Merged, Diff, ConfigsOf
    <3> QED
      BY <1>2, <2>1, <3>3
  <2>3. CASE s \notin Scopes
    <3>1. files' = files
      BY <2>1, <2>3 DEF IInv, ShapeInv
    <3> QED
      BY <1>1, <3>1
  <2> QED
    BY <2>2, <2>3
<1>4. CASE ActOnScope(s)
  <2>1. SoundData(Foreign(ReadConfig(s)))
    BY DEF SoundData, Foreign, Restrict
  <2>2. \/ files' = files \/ files' = [files EXCEPT ![s] = NoFile]
        \/ files' = [files EXCEPT ![s] = FileOfData(Foreign(ReadConfig(s)))]
    BY <1>4 DEF ActOnScope, ResetScope, DeleteConfig, WriteConfig
  <2> QED
    BY <1>1, <1>2, <2>1, <2>2
<1> QED
  BY <1>3, <1>4

LEMMA ValuesStep == ASSUME IInv, ValuesInv, [Next]_vars PROVE ValuesInv'
<1> DEFINE Stored(f, e) == /\ SoundData(f.data) /\ (f.state # "object" => f.data = NoData)
                           /\ e = NoCache \/ SoundData(e.data)
<1>0. \A s \in Scopes : Stored(files[s], cache[s])
  BY DEF ValuesInv
<1>1. ASSUME \A s \in Scopes : Stored(files'[s], cache'[s]), env' = env,
             \/ running' = running \/ running' = Load("project")
             \/ running' = Load("project")'
      PROVE  ValuesInv'
  <2>1. StoreTyped'
    BY <1>1 DEF ValuesInv, StoreTyped
  <2>2. AllRows' \in [Scopes -> ConfigsOf] /\ Load("project")' \in ConfigsOf
    BY <2>1, LoadTypedNext
  <2>3. Load("project") \in ConfigsOf
    BY LoadTyped DEF ValuesInv, StoreTyped
  <2>4. running' \in ConfigsOf
    BY <1>1, <2>1, <2>2, <2>3 DEF ValuesInv
  <2> QED
    BY <1>1, <2>4 DEF ValuesInv
<1>2. CASE UNCHANGED vars \/ Quiet
  BY <1>2 DEF ValuesInv, vars, storeVars, Quiet
<1>3. CASE SessionStart \/ OpenSettings
  <2>1. /\ files' = files /\ env' = env /\ cache' = CacheAfterReads(files, cache)
        /\ running' = running \/ running' = Load("project")
    BY <1>3 DEF SessionStart, OpenSettings
  <2>2. \A s \in Scopes : Stored(files'[s], cache'[s])
    BY <1>0, <2>1, ReadSound DEF CacheAfterReads
  <2> QED
    BY <1>1, <2>1, <2>2
<1>4. ASSUME NEW s \in Scopes, WrittenElsewhere(s) PROVE ValuesInv'
  <2>1. PICK file \in ForeignFiles : files' = [files EXCEPT ![s] = [file EXCEPT !.mtime = clock]]
    BY <1>4 DEF WrittenElsewhere
  <2>2. cache' = cache /\ env' = env /\ running' = running
    BY <1>4 DEF WrittenElsewhere
  <2> DEFINE f == [file EXCEPT !.mtime = clock]
  <2>3. f.data = file.data /\ f.state = file.state
    <3>1. file = [state |-> file.state, data |-> file.data, mtime |-> file.mtime]
      BY SettingsAssumption DEF IsFile
    <3> QED
      BY <3>1
  <2>4. SoundData(f.data) /\ (f.state # "object" => f.data = NoData)
    BY <2>3, SettingsAssumption DEF IsFile, SoundData
  <2>5. files' = [files EXCEPT ![s] = f]
    BY <2>1
  <2> HIDE DEF f
  <2>6. \A r \in Scopes : Stored(files'[r], cache'[r])
    BY <1>0, <2>2, <2>4, <2>5 DEF IInv, ShapeInv
  <2> QED
    BY <1>1, <2>2, <2>6
<1>5. ASSUME NEW s, PerformSave(s) \/ ActOnScope(s) PROVE ValuesInv'
  <2>1. PICK f : /\ files' = files \/ files' = [files EXCEPT ![s] = f]
                 /\ SoundData(f.data) /\ (f.state # "object" => f.data = NoData)
    BY <1>5, WrittenSound
  <2>2. /\ env' = env /\ (running' = running \/ running' = Load("project")')
        /\ \/ cache' = CacheAfterReads(files', CacheAfterWrite(s))
           \/ cache' = CacheAfterReads(files', cache)
           \/ cache' = CacheAfterWrite(s)
    BY <1>5 DEF PerformSave, ActOnScope
  <2>3. \A r \in Scopes : /\ SoundData(files'[r].data)
                          /\ (files'[r].state # "object" => files'[r].data = NoData)
    BY <1>0, <2>1 DEF IInv, ShapeInv
  <2>4. \A r \in Scopes : CacheAfterWrite(s)[r] = NoCache \/ SoundData(CacheAfterWrite(s)[r].data)
    BY <1>0 DEF CacheAfterWrite, IInv, ShapeInv
  <2>5. \A r \in Scopes : cache'[r] = NoCache \/ SoundData(cache'[r].data)
    BY <1>0, <2>2, <2>3, <2>4, ReadSound DEF CacheAfterReads
  <2> QED
    BY <1>1, <2>2, <2>3, <2>5
<1> QED
  BY <1>2, <1>3, <1>4, <1>5, StepKinds

LEMMA ValuesHold == Spec => []ValuesInv
  BY InitValues, ValuesStep, CacheIsTrue, PTL DEF Spec

-----------------------------------------------------------------------------
(* The modal.                                                                *)

Dialogs ==
  {NoDialog} \cup [kind : {"save"}, at : 0..3] \cup [kind : {"reset", "delete"}, at : 0..2]

Modals ==
  [open : {TRUE}, tab : Scopes, rows : [Scopes -> ConfigsOf], initial : [Scopes -> ConfigsOf],
   dirty : [Scopes -> SUBSET Keys], focus : -1..3, key : Keys, editing : BOOLEAN,
   dialog : Dialogs]

\* Every row that is not as it was is dirty, where the rows were read together.
Honest(m, rows) ==
  \A s \in Scopes : m.initial[s] = rows[s] =>
    \A k \in Keys : m.rows[s][k] # m.initial[s][k] => k \in m.dirty[s]

ModalFits(m, rows) ==
  /\ m \in Modals
  /\ m.editing => m.focus = -1 /\ Typing[m.key] # {}
  /\ Honest(m, rows)

\* An open modal fits what was last read, and nothing was saved since it opened.
ModalInv == modal = Closed \/ (ModalFits(modal, seen.rows) /\ saved = "none")

LEMMA StopsAre == Len(Tabs) = 2 /\ Len(ActionRows) = 2 /\ Stops = 4 /\ NoStop = -1
                  /\ Len(SaveChoices) = 4 /\ Tabs \in [1..2 -> Scopes]
<1>1. Len(Tabs) = 2 /\ Len(ActionRows) = 2 /\ Len(SaveChoices) = 4
  BY DEF Tabs, ActionRows, SaveChoices
<1>2. Tabs \in [1..2 -> Scopes]
  BY DEF Tabs, Scopes
<1> QED
  BY <1>1, <1>2 DEF Stops, NoStop

\* Only an open modal is one of the modals.
LEMMA OpenIsNotClosed == \A m \in Modals : m.open /\ m # Closed
<1>1. \A m \in Modals : m.open = TRUE
  BY DEF Modals
<1>2. Closed.open = FALSE
  BY DEF Closed
<1> QED
  BY <1>1, <1>2

\* A value that is set leaves every change dirty.
LEMMA CommitFits ==
  ASSUME NEW rows, NEW m, ModalFits(m, rows), NEW v \in Values
  PROVE  ModalFits(Synced([m EXCEPT !.rows[m.tab][m.key] = v]), rows)
<1> DEFINE row == [m.rows[m.tab] EXCEPT ![m.key] = v]
           allRows == [m.rows EXCEPT ![m.tab] = row]
           set == [m EXCEPT !.rows = allRows]
           clean == row[m.key] = m.initial[m.tab][m.key]
           marks == IF clean THEN m.dirty[m.tab] \ {m.key} ELSE m.dirty[m.tab] \cup {m.key}
           dirty == [m.dirty EXCEPT ![m.tab] = marks]
           synced == [set EXCEPT !.dirty = dirty]
<1>1. m \in Modals /\ m.tab \in Scopes /\ m.key \in Keys /\ m.rows \in [Scopes -> ConfigsOf]
      /\ m.initial \in [Scopes -> ConfigsOf] /\ m.dirty \in [Scopes -> SUBSET Keys]
  BY DEF ModalFits, Modals
<1>2. row \in ConfigsOf
  BY <1>1 DEF ConfigsOf
<1>3. allRows \in [Scopes -> ConfigsOf]
  BY <1>1, <1>2
<1>4. [m EXCEPT !.rows[m.tab][m.key] = v] = set
  BY <1>1 DEF Modals
<1>5. /\ set.tab = m.tab /\ set.key = m.key /\ set.initial = m.initial /\ set.dirty = m.dirty
      /\ set.rows = allRows /\ set.editing = m.editing /\ set.focus = m.focus
  BY <1>1 DEF Modals
<1>6. allRows[m.tab] = row
  BY <1>1
<1>7. set \in Modals
  BY <1>1, <1>3 DEF Modals
<1> HIDE DEF set
<1>8. Synced(set) = synced
  <2>1. Synced(set) =
          [set EXCEPT !.dirty =
             [set.dirty EXCEPT ![set.tab] =
                IF set.rows[set.tab][set.key] = set.initial[set.tab][set.key]
                THEN set.dirty[set.tab] \ {set.key} ELSE set.dirty[set.tab] \cup {set.key}]]
    BY <1>7 DEF Synced, Modals
  <2> QED
    BY <1>5, <1>6, <2>1
<1>9. marks \in SUBSET Keys
  BY <1>1
<1>10. dirty \in [Scopes -> SUBSET Keys]
  BY <1>1, <1>9
<1>11. synced \in Modals
  BY <1>7, <1>10 DEF Modals
<1>12. /\ synced.initial = m.initial /\ synced.rows = allRows /\ synced.dirty = dirty
       /\ synced.editing = m.editing /\ synced.focus = m.focus /\ synced.key = m.key
  BY <1>5, <1>7 DEF Modals
<1>13. ASSUME NEW s \in Scopes, m.initial[s] = rows[s], NEW k \in Keys,
              allRows[s][k] # m.initial[s][k]
       PROVE  k \in dirty[s]
  <2>1. CASE s # m.tab
    BY <1>1, <1>13, <2>1 DEF ModalFits, Honest
  <2>2. CASE s = m.tab /\ k = m.key
    BY <1>1, <1>6, <1>13, <2>2
  <2>3. CASE s = m.tab /\ k # m.key
    <3>1. allRows[s][k] = m.rows[s][k]
      BY <1>1, <1>6, <2>3 DEF ConfigsOf
    <3>2. k \in m.dirty[s]
      BY <1>13, <3>1 DEF ModalFits, Honest
    <3> QED
      BY <1>1, <2>3, <3>2
  <2> QED
    BY <2>1, <2>2, <2>3
<1> HIDE DEF synced, dirty, allRows
<1>14. Honest(synced, rows)
  BY <1>12, <1>13 DEF Honest
<1> QED
  BY <1>4, <1>8, <1>11, <1>12, <1>14 DEF ModalFits

\* Moving the focus, the key or the dialog changes no row.
LEMMA MoveFits ==
  ASSUME NEW rows, NEW m, ModalFits(m, rows), NEW n \in Modals,
         n.rows = m.rows, n.initial = m.initial, n.dirty = m.dirty,
         n.editing => n.focus = -1 /\ Typing[n.key] # {}
  PROVE  ModalFits(n, rows)
  BY DEF ModalFits, Honest

LEMMA TabIndexIs == \A tab \in Scopes : TabIndex(tab) \in 0..1
<1>1. \A tab \in Scopes : \E i \in 0..1 : Tabs[i + 1] = tab
  <2>1. Tabs[1] = "global" /\ Tabs[2] = "project" /\ 0 + 1 = 1 /\ 1 + 1 = 2
    BY DEF Tabs
  <2> QED
    BY <2>1 DEF Scopes
<1> QED
  BY <1>1 DEF TabIndex

LEMMA FirstKeyIs == FirstKey \in Keys
  BY SettingsAssumption DEF FirstKey, SettingsAssumption

\* What a step makes of the modal: it fits, or it is closed for a reason.
Outcome ==
  \/ ModalFits(modal', seen'.rows) /\ saved' = "none"
  \/ /\ modal' = Closed
     /\ modal = Closed \/ Asking \/ ~Dirty \/ saved' # saved

\* The keys that only move in the modal.
LEMMA MoveOutcome ==
  ASSUME ModalFits(modal, seen.rows), saved = "none",
         \/ EnterStartsTyping \/ EscapeStopsTyping \/ SelectField \/ TabKey \/ MoveChoice
         \/ CancelDialog \/ AskScope \/ AskToSave \/ (Turn(AtField) /\ Browsing)
  PROVE  ModalFits(modal', seen'.rows) /\ saved' = "none"
<1>1. modal \in Modals /\ modal.editing \in BOOLEAN
  BY DEF ModalFits, Modals
<1>2. ASSUME NEW n \in Modals, Turn(n),
             n.rows = modal.rows, n.initial = modal.initial, n.dirty = modal.dirty,
             n.editing => n.focus = -1 /\ Typing[n.key] # {}
      PROVE  ModalFits(modal', seen'.rows) /\ saved' = "none"
  <2>1. ModalFits(n, seen.rows)
    BY <1>2, MoveFits
  <2> QED
    BY <1>2, <2>1 DEF Turn
<1>3. /\ AtField \in Modals /\ AtField.rows = modal.rows /\ AtField.initial = modal.initial
      /\ AtField.dirty = modal.dirty /\ AtField.focus = -1 /\ AtField.key = modal.key
      /\ AtField.editing = modal.editing
  <2>1. AtField = [modal EXCEPT !.focus = -1] /\ -1 \in -1..3
    BY StopsAre DEF AtField
  <2> QED
    BY <1>1, <2>1 DEF Modals
<1>4. CASE EnterStartsTyping
  <2> DEFINE n == [AtField EXCEPT !.editing = TRUE]
  <2>1. /\ n \in Modals /\ n.rows = modal.rows /\ n.initial = modal.initial
        /\ n.dirty = modal.dirty /\ n.focus = -1 /\ n.key = modal.key
    BY <1>3 DEF Modals
  <2>2. Turn(n) /\ Typing[n.key] # {}
    BY <1>4, <2>1 DEF EnterStartsTyping
  <2> QED
    BY <1>2, <2>1, <2>2
<1>5. CASE EscapeStopsTyping
  <2> DEFINE n == [modal EXCEPT !.editing = FALSE]
  <2>1. /\ n \in Modals /\ n.rows = modal.rows /\ n.initial = modal.initial
        /\ n.dirty = modal.dirty /\ n.editing = FALSE
    BY <1>1 DEF Modals
  <2> QED
    BY <1>2, <1>5, <2>1 DEF EscapeStopsTyping
<1>6. CASE SelectField
  <2>1. PICK k \in Keys : Turn([AtField EXCEPT !.key = k])
    BY <1>6 DEF SelectField
  <2> DEFINE n == [AtField EXCEPT !.key = k]
  <2>2. /\ n \in Modals /\ n.rows = modal.rows /\ n.initial = modal.initial
        /\ n.dirty = modal.dirty /\ n.editing = modal.editing
    BY <1>3 DEF Modals
  <2>3. ~modal.editing
    BY <1>6 DEF SelectField, Browsing
  <2> QED
    BY <1>2, <2>1, <2>2, <2>3
<1>7. CASE TabKey
  <2>1. PICK by \in {1, -1} :
          LET from == IF modal.focus = NoStop THEN TabIndex(modal.tab) ELSE modal.focus
              to == (from + by + Stops) % Stops
              moved == [modal EXCEPT !.focus = to]
          IN Turn(IF to < Len(Tabs) /\ Tabs[to + 1] # modal.tab
                  THEN [moved EXCEPT !.tab = Tabs[to + 1], !.key = FirstKey] ELSE moved)
    BY <1>7 DEF TabKey
  <2> DEFINE from == IF modal.focus = NoStop THEN TabIndex(modal.tab) ELSE modal.focus
             to == (from + by + Stops) % Stops
             moved == [modal EXCEPT !.focus = to]
             tabbed == [moved EXCEPT !.tab = Tabs[to + 1]]
             turned == [tabbed EXCEPT !.key = FirstKey]
  <2>2. from \in 0..3
    <3>1. modal.tab \in Scopes /\ modal.focus \in -1..3
      BY <1>1 DEF Modals
    <3> QED
      BY <3>1, TabIndexIs, StopsAre
  <2>3. to \in 0..3 /\ to \in -1..3
    <3> HIDE DEF from
    <3> QED
      BY <2>2, StopsAre
  <2> HIDE DEF from, to
  <2>4. /\ moved \in Modals /\ moved.rows = modal.rows /\ moved.initial = modal.initial
        /\ moved.dirty = modal.dirty /\ moved.editing = modal.editing
    BY <1>1, <2>3 DEF Modals
  <2> HIDE DEF moved
  <2>5. to < Len(Tabs) => Tabs[to + 1] \in Scopes
    BY <2>3, StopsAre
  <2>6. to < Len(Tabs) =>
          /\ tabbed \in Modals /\ tabbed.rows = modal.rows /\ tabbed.initial = modal.initial
          /\ tabbed.dirty = modal.dirty /\ tabbed.editing = modal.editing
    BY <2>4, <2>5 DEF Modals
  <2> HIDE DEF tabbed
  <2>7. to < Len(Tabs) =>
          /\ turned \in Modals /\ turned.rows = modal.rows /\ turned.initial = modal.initial
          /\ turned.dirty = modal.dirty /\ turned.editing = modal.editing
    BY <2>6, FirstKeyIs DEF Modals
  <2>8. ~modal.editing
    BY <1>7 DEF TabKey, Browsing
  <2>9. \/ Turn(moved)
        \/ to < Len(Tabs) /\ Turn(turned)
    BY <2>1 DEF from, to, moved, tabbed
  <2> HIDE DEF turned
  <2> QED
    BY <1>2, <2>4, <2>7, <2>8, <2>9
<1>8. ASSUME NEW d \in Dialogs, Turn([modal EXCEPT !.dialog = d])
      PROVE  ModalFits(modal', seen'.rows) /\ saved' = "none"
  <2> DEFINE n == [modal EXCEPT !.dialog = d]
  <2>1. /\ n \in Modals /\ n.rows = modal.rows /\ n.initial = modal.initial
        /\ n.dirty = modal.dirty /\ n.editing = modal.editing /\ n.focus = modal.focus
        /\ n.key = modal.key
    BY <1>1 DEF Modals
  <2> QED
    BY <1>2, <1>8, <2>1 DEF ModalFits
<1>9. CASE MoveChoice
  <2>1. PICK i \in 0..LastChoice : Turn([modal EXCEPT !.dialog.at = i])
    BY <1>9 DEF MoveChoice
  <2> DEFINE d == [modal.dialog EXCEPT !.at = i]
  <2>2. [modal EXCEPT !.dialog.at = i] = [modal EXCEPT !.dialog = d]
    BY <1>1 DEF Modals
  <2>3. modal.dialog \in Dialogs /\ modal.dialog # NoDialog
    BY <1>1, <1>9 DEF Modals, MoveChoice, Asking
  <2>4. LastChoice = IF modal.dialog.kind = "save" THEN 3 ELSE 2
    BY StopsAre DEF LastChoice
  <2>5. d \in Dialogs
    BY <2>3, <2>4 DEF Dialogs
  <2> HIDE DEF d
  <2> QED
    BY <1>8, <2>1, <2>2, <2>5
<1>10. CASE CancelDialog
  BY <1>8, <1>10 DEF CancelDialog, Dialogs
<1>11. CASE AskScope
  <2>1. PICK act \in {"reset", "delete"} :
          Turn([modal EXCEPT !.dialog = [kind |-> act, at |-> 0]])
    BY <1>11 DEF AskScope
  <2>2. [kind |-> act, at |-> 0] \in Dialogs
    BY DEF Dialogs
  <2> QED
    BY <1>8, <2>1, <2>2
<1>12. CASE AskToSave
  <2>1. TabIndex(modal.tab) \in 0..1
    BY <1>1, TabIndexIs DEF Modals
  <2>2. [kind |-> "save", at |-> TabIndex(modal.tab)] \in Dialogs
    BY <2>1 DEF Dialogs
  <2> QED
    BY <1>8, <1>12, <2>2 DEF AskToSave
<1>13. CASE Turn(AtField) /\ Browsing
  BY <1>2, <1>3, <1>13 DEF Browsing
<1> QED
  BY <1>4, <1>5, <1>6, <1>7, <1>9, <1>10, <1>11, <1>12, <1>13

LEMMA FreshFits ==
  ASSUME NEW rows \in [Scopes -> ConfigsOf]
  PROVE  ModalFits(Fresh(rows), rows)
<1> DEFINE m == Fresh(rows)
<1>1. /\ m = [open |-> TRUE, tab |-> "global", rows |-> rows, initial |-> rows,
              dirty |-> [s \in Scopes |-> {}], focus |-> NoStop, key |-> FirstKey,
              editing |-> FALSE, dialog |-> NoDialog]
      /\ NoStop \in -1..3
  BY StopsAre DEF Fresh
<1>2. "global" \in Scopes /\ NoDialog \in Dialogs /\ [s \in Scopes |-> {}] \in [Scopes -> SUBSET Keys]
  BY DEF Scopes, Dialogs
<1>3. m \in Modals
  BY <1>1, <1>2, FirstKeyIs DEF Modals
<1>4. m.rows = rows /\ m.initial = rows /\ m.editing = FALSE
  BY <1>1
<1> QED
  BY <1>3, <1>4 DEF ModalFits, Honest

\* The keys that set a value.
LEMMA SetOutcome ==
  ASSUME ModalFits(modal, seen.rows), saved = "none", ValuesInv,
         ArrowKey \/ EnterFlips \/ EnterCommitsTyped \/ ResetField
  PROVE  ModalFits(modal', seen'.rows) /\ saved' = "none"
<1>1. ASSUME NEW m, ModalFits(m, seen.rows), NEW v \in Values, Commit(m, v)
      PROVE  ModalFits(modal', seen'.rows) /\ saved' = "none"
  BY <1>1, CommitFits DEF Commit
<1>2. /\ modal \in Modals /\ Value \in Values /\ modal.key \in Keys
      /\ modal.editing \in BOOLEAN
  BY DEF ModalFits, Modals, Value, ConfigsOf
<1>3. CASE ArrowKey
  <2>1. Arrows[Value] \in SUBSET Values
    BY <1>2, SettingsAssumption DEF SettingsAssumption
  <2>2. PICK v \in Arrows[Value] : Commit(modal, v)
    BY <1>3 DEF ArrowKey
  <2> QED
    BY <1>1, <2>1, <2>2
<1>4. CASE EnterFlips
  <2>1. Flip[Value] \in Values
    BY <1>2, SettingsAssumption DEF SettingsAssumption
  <2>2. /\ AtField = [modal EXCEPT !.focus = -1] /\ -1 \in -1..3 /\ ~modal.editing
        /\ Commit(AtField, Flip[Value])
    BY <1>4, StopsAre DEF AtField, EnterFlips, Browsing
  <2>3. /\ AtField \in Modals /\ AtField.rows = modal.rows /\ AtField.initial = modal.initial
        /\ AtField.dirty = modal.dirty /\ AtField.editing = modal.editing
    BY <1>2, <2>2 DEF Modals
  <2>4. ModalFits(AtField, seen.rows)
    BY <2>2, <2>3, MoveFits
  <2> QED
    BY <1>1, <2>1, <2>2, <2>4
<1>5. CASE EnterCommitsTyped
  <2> DEFINE n == [modal EXCEPT !.editing = FALSE]
  <2>1. /\ n \in Modals /\ n.rows = modal.rows /\ n.initial = modal.initial
        /\ n.dirty = modal.dirty /\ n.editing = FALSE
    BY <1>2 DEF Modals
  <2>2. ModalFits(n, seen.rows)
    BY <2>1, MoveFits
  <2>3. Typing[modal.key] \in SUBSET Values
    BY <1>2, SettingsAssumption DEF SettingsAssumption
  <2>4. PICK v \in Typing[modal.key] : Commit(n, v)
    BY <1>5 DEF EnterCommitsTyped
  <2> QED
    BY <1>1, <2>2, <2>3, <2>4
<1>6. CASE ResetField
  <2>1. Defaults[modal.key] \in Values
    BY <1>2, DefaultsTyped DEF ValuesInv, StoreTyped, ConfigsOf
  <2> QED
    BY <1>1, <1>6, <2>1 DEF ResetField
<1> QED
  BY <1>3, <1>4, <1>5, <1>6

\* A reset or a deletion: the rows of both scopes are new, and clean in one.
LEMMA ActOutcome ==
  ASSUME ModalFits(modal, seen.rows), saved = "none", ValuesInv', EnterInScopeDialog
  PROVE  ModalFits(modal', seen'.rows) /\ saved' = "none"
<1>0. AllRows' \in [Scopes -> ConfigsOf]
  BY LoadTypedNext DEF ValuesInv, StoreTyped
<1>1. CASE CancelDialog
  BY <1>1, MoveOutcome
<1>2. CASE modal.dialog.at > 0 /\ ~CancelDialog
  <2> DEFINE acts == Tabs[modal.dialog.at]
             initial == [modal.initial EXCEPT ![acts] = AllRows'[acts]]
             dirty == [modal.dirty EXCEPT ![acts] = {}]
             reread == [modal EXCEPT !.rows = AllRows']
             begun == [reread EXCEPT !.initial = initial]
             cleaned == [begun EXCEPT !.dirty = dirty]
             acted == [cleaned EXCEPT !.dialog = NoDialog]
  <2>1. /\ modal \in Modals /\ modal.dialog \in Dialogs /\ modal.dialog # NoDialog
        /\ modal.initial \in [Scopes -> ConfigsOf] /\ modal.dirty \in [Scopes -> SUBSET Keys]
    BY <1>2 DEF ModalFits, Modals, EnterInScopeDialog, Asking, CancelDialog
  <2>2. modal.dialog.kind # "save"
    BY <1>2 DEF EnterInScopeDialog, CancelDialog
  <2>3. modal.dialog.at \in 1..2
    BY <1>2, <2>1, <2>2 DEF Dialogs
  <2>4. acts \in Scopes
    BY <2>3, StopsAre
  <2>5. modal' = [modal EXCEPT !.rows = AllRows', !.initial[acts] = AllRows'[acts],
                               !.dirty[acts] = {}, !.dialog = NoDialog]
        /\ seen' = [rows |-> AllRows', files |-> files'] /\ saved' = saved
    BY <1>2 DEF EnterInScopeDialog
  <2> HIDE DEF acts
  <2>6. initial \in [Scopes -> ConfigsOf] /\ dirty \in [Scopes -> SUBSET Keys]
        /\ NoDialog \in Dialogs
    BY <1>0, <2>1, <2>4 DEF Dialogs
  <2>7. modal' = acted
    BY <2>1, <2>5 DEF Modals
  <2>8. acted \in Modals /\ acted.rows = AllRows' /\ acted.initial = initial
        /\ acted.dirty = dirty /\ acted.editing = modal.editing /\ acted.focus = modal.focus
        /\ acted.key = modal.key
    BY <1>0, <2>1, <2>6 DEF Modals
  <2>9. seen'.rows = AllRows'
    BY <2>5
  <2>10. ASSUME NEW r \in Scopes, initial[r] = AllRows'[r], NEW k \in Keys,
                AllRows'[r][k] # initial[r][k]
         PROVE  k \in dirty[r]
    BY <2>10
  <2> HIDE DEF acted, initial, dirty
  <2> QED
    BY <2>5, <2>7, <2>8, <2>9, <2>10 DEF ModalFits, Honest
<1> QED
  BY <1>1, <1>2 DEF EnterInScopeDialog

LEMMA ModalStep ==
  ASSUME ModalInv, ValuesInv, ValuesInv', [Next]_vars
  PROVE  Outcome
<1>1. Closed.open = FALSE /\ "none" \notin Scopes
  BY DEF Closed, Scopes
<1>2. CASE modal = Closed
  <2>1. CASE OpenSettings
    <3>1. AllRows \in [Scopes -> ConfigsOf]
      BY LoadTyped DEF ValuesInv, StoreTyped
    <3>2. modal' = Fresh(AllRows) /\ seen'.rows = AllRows /\ saved' = "none"
      BY <2>1 DEF OpenSettings
    <3> QED
      BY <3>1, <3>2, FreshFits DEF Outcome
  <2>2. CASE modal' = modal
    BY <1>2, <2>2 DEF Outcome
  <2>3. \/ OpenSettings \/ modal' = modal
    BY <1>1, <1>2 DEF Next, KeyPressed, SessionStart, ClockTick, WrittenElsewhere, vars,
       ArrowKey, EnterFlips, EnterStartsTyping, EnterCommitsTyped, EscapeStopsTyping, ResetField,
       SelectField, TabKey, EscapeKey, CtrlC, CtrlS, MoveChoice, CancelDialog, EnterInSaveDialog,
       AskScope, EnterInScopeDialog, Browsing, Typewriting, Asking
  <2> QED
    BY <2>1, <2>2, <2>3
<1>3. CASE modal # Closed
  <2>1. ModalFits(modal, seen.rows) /\ saved = "none" /\ modal.open
    BY <1>3, OpenIsNotClosed DEF ModalInv, ModalFits
  <2>2. ASSUME UNCHANGED <<modal, seen, saved>> PROVE Outcome
    BY <2>1, <2>2 DEF Outcome
  <2>3. CASE UNCHANGED vars \/ ClockTick \/ \E s \in Scopes : WrittenElsewhere(s)
    BY <2>2, <2>3 DEF vars, ClockTick, WrittenElsewhere
  <2>4. CASE ArrowKey \/ EnterFlips \/ EnterCommitsTyped \/ ResetField
    BY <2>1, <2>4, SetOutcome DEF Outcome
  <2>5. CASE EnterStartsTyping \/ EscapeStopsTyping \/ SelectField \/ TabKey \/ MoveChoice
             \/ CancelDialog \/ AskScope
    BY <2>1, <2>5, MoveOutcome DEF Outcome
  <2>6. ASSUME CloseOrAsk, ~Asking PROVE Outcome
    BY <2>1, <2>6, MoveOutcome DEF CloseOrAsk, CloseModal, Turn, Outcome
  <2>7. CASE EscapeKey \/ CtrlC
    BY <2>1, <2>6, <2>7, MoveOutcome DEF EscapeKey, CtrlC, Browsing, Typewriting, Outcome
  <2>8. ASSUME NEW s \in Scopes, PerformSave(s) PROVE Outcome
    <3>1. CASE UNCHANGED <<modal, seen, saved>>
      BY <2>2, <3>1
    <3>2. CASE modal' = Closed /\ saved' = s
      BY <1>1, <2>1, <3>2 DEF Outcome
    <3> QED
      BY <2>8, <3>1, <3>2 DEF PerformSave
  <2>9. CASE CtrlS
    <3>1. modal.tab \in Scopes
      BY <2>1 DEF ModalFits, Modals
    <3> QED
      BY <2>1, <2>8, <2>9, <3>1, MoveOutcome DEF CtrlS, Browsing, Outcome
  <2>10. CASE EnterInSaveDialog
    <3>1. CASE CloseModal
      BY <2>10, <3>1 DEF EnterInSaveDialog, CloseModal, Turn, Outcome
    <3> QED
      BY <2>1, <2>8, <2>10, <3>1, MoveOutcome DEF EnterInSaveDialog, Outcome
  <2>11. CASE EnterInScopeDialog
    BY <2>1, <2>11, ActOutcome DEF Outcome
  <2> QED
    BY <2>1, <2>3, <2>4, <2>5, <2>7, <2>9, <2>10, <2>11
    DEF Next, KeyPressed, SessionStart, OpenSettings
<1> QED
  BY <1>2, <1>3

LEMMA ModalHolds == Spec => []ModalInv
<1>1. Init => ModalInv
  BY DEF Init, ModalInv
<1>2. ModalInv /\ Outcome => ModalInv'
  BY DEF ModalInv, Outcome
<1> QED
  BY <1>1, <1>2, ModalStep, ValuesHold, PTL DEF Spec

\* Types; and every row that is not as it was is dirty.
THEOREM TypeCorrect == Spec => []TypeOK
<1>1. ValuesInv /\ ModalInv => TypeOK
  <2> SUFFICES ASSUME ValuesInv, ModalInv PROVE TypeOK
    OBVIOUS
  <2>1. CASE modal = Closed
    <3>1. ~modal.open
      BY <2>1 DEF Closed
    <3> QED
      BY <3>1 DEF ValuesInv, TypeOK
  <2>2. CASE ModalFits(modal, seen.rows)
    <3>1. modal \in Modals
      BY <2>2 DEF ModalFits
    <3>2. Asking => modal.dialog.at \in 0..LastChoice
      <4>1. LastChoice = IF modal.dialog.kind = "save" THEN 3 ELSE 2
        BY StopsAre DEF LastChoice
      <4>2. Asking => modal.dialog \in Dialogs \ {NoDialog}
        BY <3>1 DEF Modals, Asking
      <4> QED
        BY <4>1, <4>2 DEF Dialogs
    <3>3. /\ modal.tab \in Scopes /\ modal.key \in Keys /\ modal.focus \in -1..3
          /\ modal.rows \in [Scopes -> ConfigsOf] /\ modal.initial \in [Scopes -> ConfigsOf]
      BY <3>1 DEF Modals
    <3>4. modal.focus \in NoStop..(Stops - 1)
      BY <3>3, StopsAre
    <3>5. modal.editing => modal.focus = NoStop /\ Typing[modal.key] # {}
      BY <2>2, StopsAre DEF ModalFits
    <3>6. \A s \in Scopes :
            \/ modal.initial[s] # seen.rows[s]
            \/ {k \in Keys : modal.rows[s][k] # modal.initial[s][k]} \subseteq modal.dirty[s]
      BY <2>2 DEF ModalFits, Honest
    <3> QED
      BY <3>2, <3>3, <3>4, <3>5, <3>6 DEF ValuesInv, TypeOK
  <2> QED
    BY <2>1, <2>2 DEF ModalInv
<1> QED
  BY <1>1, ValuesHold, ModalHolds, PTL DEF Spec

\* The modal closes without a question, and without a save, only if no change that
\* was made in it would be lost.
THEOREM ClosingAsksFirst == Spec => AsksFirst
<1>1. ASSUME ModalInv, Outcome, modal.open, ~Asking, modal' = Closed, saved' = saved,
             NEW s \in Scopes
      PROVE  modal.rows[s] = seen.rows[s] \/ modal.initial[s] # seen.rows[s]
  <2>1. modal # Closed
    BY <1>1 DEF Closed
  <2>2. ModalFits(modal, seen.rows)
    BY <1>1, <2>1 DEF ModalInv
  <2>3. ~Dirty
    <3>1. ~ModalFits(modal', seen'.rows)
      BY <1>1, OpenIsNotClosed DEF ModalFits
    <3> QED
      BY <1>1, <2>1, <3>1 DEF Outcome
  <2>4. modal.rows[s] \in ConfigsOf /\ modal.initial[s] \in ConfigsOf
    BY <2>2 DEF ModalFits, Modals
  <2>5. modal.initial[s] = seen.rows[s] => \A k \in Keys : modal.rows[s][k] = modal.initial[s][k]
    BY <2>2, <2>3 DEF ModalFits, Honest, Dirty
  <2> QED
    BY <2>4, <2>5 DEF ConfigsOf
<1>2. ModalInv /\ (Outcome \/ UNCHANGED vars) =>
        [modal.open /\ ~Asking /\ modal' = Closed /\ saved' = saved
           => \A s \in Scopes :
                modal.rows[s] = seen.rows[s] \/ modal.initial[s] # seen.rows[s]]_vars
  BY <1>1
<1> QED
  BY <1>2, ModalStep, ValuesHold, ModalHolds, PTL DEF Spec, AsksFirst
=============================================================================
