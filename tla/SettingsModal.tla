---------------------------- MODULE SettingsModal ----------------------------
(***************************************************************************)
(* The /edit-guard settings command over the stored configuration:         *)
(* packages/pi-base/src/settings (body.ts, modal.ts, the boolean, enum and *)
(* number fields), ConfigManager.openSettings and the running              *)
(* configuration of src/src/config/settings.ts.  A step is one key pressed *)
(* (handleInput), the opening of the modal, the start of a session, or a   *)
(* write of a file by another session.  Rendering, scrolling and messages  *)
(* are left out, and so are fields this program has none of: reordered     *)
(* ones, texts, secrets, paths and the search.                             *)
(***************************************************************************)
EXTENDS ConfigStore, Integers, Sequences

CONSTANTS
  Arrows,        \* Arrows[v]: values an arrow key makes of v
  Flip,          \* Flip[v]: the value Enter makes of v where Enter does not type
  Typing,        \* Typing[k]: values the inline editor of k takes, {} if it has none
  Stores,        \* files, environment and frozen scopes at the start
  ForeignFiles,  \* files another session may write
  MaxNow,        \* bound: file times stop there
  MaxCommits,    \* bound: values set in the modal and files written elsewhere
  MaxOpenings    \* bound: openings of the modal

\* A file, whose known keys hold known values; only an object has data.
IsFile(f) ==
  /\ f = [state |-> f.state, data |-> f.data, mtime |-> f.mtime]
  /\ \A k \in DOMAIN f.data \cap Keys : f.data[k] \in Values
  /\ f.state # "object" => f.data = NoData

ASSUME SettingsAssumption ==
  /\ Keys # {}
  /\ \A st \in Stores :
       /\ st.files = [s \in Scopes |-> st.files[s]] /\ \A s \in Scopes : IsFile(st.files[s])
       /\ \A k \in Keys : st.env[k] \in Values \cup {Unset}
  /\ \A f \in ForeignFiles : IsFile(f)
  /\ Arrows \in [Values -> SUBSET Values] /\ Flip \in [Values -> Values]
  /\ Typing \in [Keys -> SUBSET Values]

VARIABLES
  running,   \* currentConfig
  modal,     \* the state of the body, or Closed
  seen,      \* history: rows and files as the modal last read them
  blurred,   \* history: scopes where another's write may pass for the file cached
  saved,     \* history: the scope the last save went to, or "none"
  used       \* bound: openings so far, and commits and foreign writes

vars == <<storeVars, running, modal, seen, blurred, saved, used>>

Closed == [open |-> FALSE]
NoDialog == [kind |-> "none"]

Tabs == <<"global", "project">>
ActionRows == <<"reset", "delete">>
Stops == Len(Tabs) + Len(ActionRows)
NoStop == -1                      \* tabActionFocus: no tab and no action row
TabIndex(tab) == CHOOSE i \in 0..1 : Tabs[i + 1] = tab

AllRows == [s \in Scopes |-> Layers(s)]

CacheAfterReads(fs, entries) == [s \in Scopes |-> CacheAfterRead(fs[s], entries[s])]

FirstKey == CHOOSE k \in Keys : TRUE

Fresh(rows) ==
  [open |-> TRUE, tab |-> "global", rows |-> rows, initial |-> rows,
   dirty |-> [s \in Scopes |-> {}], focus |-> NoStop, key |-> FirstKey,
   editing |-> FALSE, dialog |-> NoDialog]

Counts == {"openings", "commits"}
Using(c) == used' = [used EXCEPT ![c] = @ + 1]

\* The module is loaded before any session: without a project.
Init ==
  /\ \E st \in Stores : files = st.files /\ env = st.env /\ frozen = st.frozen
  /\ clock = 0
  /\ cache = [CacheAfterReads(files, [s \in Scopes |-> NoCache]) EXCEPT !["project"] = NoCache]
  /\ running = Load("global")
  /\ modal = Closed
  /\ seen = [rows |-> AllRows, files |-> files]
  /\ blurred = {} /\ saved = "none"
  /\ used = [c \in Counts |-> 0]

-----------------------------------------------------------------------------
(* Sessions and files.                                                       *)

\* session_start: refreshConfig with the working directory.
SessionStart ==
  /\ ~modal.open
  /\ running' = Load("project")
  /\ cache' = CacheAfterReads(files, cache)
  /\ UNCHANGED <<files, frozen, env, clock, modal, seen, blurred, saved, used>>

\* openSettings reads both files before the body reads them for its rows.
OpenSettings ==
  /\ ~modal.open /\ used.openings < MaxOpenings
  /\ modal' = Fresh(AllRows)
  /\ seen' = [rows |-> AllRows, files |-> files]
  /\ cache' = CacheAfterReads(files, cache)
  /\ saved' = "none"
  /\ Using("openings")
  /\ UNCHANGED <<files, frozen, env, clock, running, blurred>>

\* A file of another session takes the place of this one.
WrittenElsewhere(s) ==
  /\ used.commits < MaxCommits /\ s \notin frozen
  /\ \E file \in ForeignFiles :
       LET now == [file EXCEPT !.mtime = clock] IN
       /\ files' = [files EXCEPT ![s] = now]
       /\ blurred' = IF IsHit(now, cache[s]) /\ cache[s].data # now.data
                     THEN blurred \cup {s} ELSE blurred
  /\ Using("commits")
  /\ UNCHANGED <<frozen, env, cache, clock, running, modal, seen, saved>>

ClockTick ==
  /\ clock < MaxNow
  /\ clock' = clock + 1
  /\ UNCHANGED <<files, frozen, env, cache, running, modal, seen, blurred, saved, used>>

-----------------------------------------------------------------------------
(* The body's keys.  handleInput gives a key to the dialog if there is one,  *)
(* then to the row that is edited, then to the rest.                         *)

Asking == modal.open /\ modal.dialog # NoDialog
Typewriting == modal.open /\ ~Asking /\ modal.editing
Browsing == modal.open /\ ~Asking /\ ~modal.editing

Value == modal.rows[modal.tab][modal.key]

\* A faulty Dirty: the tab that is shown only.
MutDirty == modal.dirty[modal.tab] # {}

\* isDirty: in either scope.
Dirty == \E s \in Scopes : modal.dirty[s] # {}

\* The keys that only move in the modal.
Turn(m) ==
  /\ modal' = m
  /\ UNCHANGED <<storeVars, running, seen, blurred, saved, used>>

\* A faulty Synced: every change counts as clean.
MutSynced(m) == [m EXCEPT !.dirty[m.tab] = @ \ {m.key}]

\* syncDirtyState: a value that is back where it was is clean.
Synced(m) ==
  [m EXCEPT !.dirty[m.tab] =
     IF m.rows[m.tab][m.key] = m.initial[m.tab][m.key] THEN @ \ {m.key} ELSE @ \cup {m.key}]

\* commitValue, of the row in focus, in the tab that is active.
Commit(m, v) ==
  /\ used.commits < MaxCommits
  /\ modal' = Synced([m EXCEPT !.rows[m.tab][m.key] = v])
  /\ Using("commits")
  /\ UNCHANGED <<storeVars, running, seen, blurred, saved>>

OnActionRow == modal.focus >= Len(Tabs)

\* Enter on a tab goes to the field first.
AtField == [modal EXCEPT !.focus = NoStop]

ArrowKey == Browsing /\ \E v \in Arrows[Value] : Commit(modal, v)

EnterFlips ==
  Browsing /\ ~OnActionRow /\ Typing[modal.key] = {} /\ Commit(AtField, Flip[Value])

EnterStartsTyping ==
  Browsing /\ ~OnActionRow /\ Typing[modal.key] # {} /\ Turn([AtField EXCEPT !.editing = TRUE])

\* Enter parses what was typed; what does not parse leaves the editor open.
EnterCommitsTyped ==
  Typewriting /\ \E v \in Typing[modal.key] : Commit([modal EXCEPT !.editing = FALSE], v)

EscapeStopsTyping == Typewriting /\ Turn([modal EXCEPT !.editing = FALSE])

\* ctrl+r and ctrl+d off the action rows, alt+r anywhere: the field's default.
ResetField == Browsing /\ Commit(modal, Defaults[modal.key])

SelectField ==
  /\ Browsing
  /\ \E k \in Keys : Turn([AtField EXCEPT !.key = k])

\* Tab and Shift+Tab go round the stops, from that of the active tab if none has
\* the focus; a tab that is reached becomes the active one.
TabKey ==
  /\ Browsing
  /\ \E by \in {1, -1} :
       LET from == IF modal.focus = NoStop THEN TabIndex(modal.tab) ELSE modal.focus
           to == (from + by + Stops) % Stops
           moved == [modal EXCEPT !.focus = to]
       IN Turn(IF to < Len(Tabs) /\ Tabs[to + 1] # modal.tab
               THEN [moved EXCEPT !.tab = Tabs[to + 1], !.key = FirstKey] ELSE moved)

-----------------------------------------------------------------------------
(* Closing, with a question if anything is dirty in either scope.            *)

\* The dialog's choices; it starts on the scope of the active tab.
SaveChoices == <<"global", "project", "discard", "cancel">>

AskToSave == Turn([modal EXCEPT !.dialog = [kind |-> "save", at |-> TabIndex(modal.tab)]])

CloseModal == Turn(Closed)

CloseOrAsk == IF Dirty THEN AskToSave ELSE CloseModal

EscapeKey == Browsing /\ IF modal.focus # NoStop THEN Turn(AtField) ELSE CloseOrAsk

CtrlC == (Browsing \/ Typewriting) /\ CloseOrAsk

\* A faulty AllValues: the rows of the tab that is shown.
MutAllValues(s) == modal.rows[modal.tab]

\* allValues: the rows of the scope that is saved.
AllValues(s) == modal.rows[s]

\* performSave and onSave: the values are validated and saved, then the running
\* configuration is loaded again.  A save that fails leaves the modal as it is.
PerformSave(s) ==
  LET config == Validate(AllValues(s))
      wrote == ~NothingToSave(config, ReadConfig(s))
  IN /\ UNCHANGED <<frozen, env, clock, seen, used>>
     /\ \/ /\ SaveFails(s, config)
           /\ cache' = CacheAfterWrite(s)
           /\ UNCHANGED <<files, running, modal, blurred, saved>>
        \/ /\ ~SaveFails(s, config)
           /\ Save(s, config)
           /\ cache' = CacheAfterReads(files', IF wrote THEN CacheAfterWrite(s) ELSE cache)
           /\ running' = Load("project")'
           /\ blurred' = IF wrote THEN blurred \ {s} ELSE blurred
           /\ modal' = Closed /\ saved' = s

\* ctrl+s asks for the scope only if something is dirty.
CtrlS ==
  /\ Browsing
  /\ \/ Dirty /\ AskToSave
     \/ ~Dirty /\ PerformSave(modal.tab)

-----------------------------------------------------------------------------
(* The dialogs.                                                              *)

LastChoice == IF modal.dialog.kind = "save" THEN Len(SaveChoices) - 1 ELSE Len(Tabs)

MoveChoice ==
  /\ Asking
  /\ \E i \in 0..LastChoice :
       i \in {modal.dialog.at - 1, modal.dialog.at + 1} /\ Turn([modal EXCEPT !.dialog.at = i])

CancelDialog == Asking /\ Turn([modal EXCEPT !.dialog = NoDialog])

EnterInSaveDialog ==
  /\ Asking /\ modal.dialog.kind = "save"
  /\ LET choice == SaveChoices[modal.dialog.at + 1] IN
       \/ choice \in Scopes /\ PerformSave(choice)
       \/ choice = "discard" /\ CloseModal
       \/ choice = "cancel" /\ CancelDialog

\* ctrl+shift+r and ctrl+shift+d; Enter, ctrl+r or ctrl+d on an action row.
AskScope ==
  /\ Browsing
  /\ \E act \in {"reset", "delete"} :
       Turn([modal EXCEPT !.dialog = [kind |-> act, at |-> 0]])

\* handleScopeAction: both scopes' rows are read again; only the scope acted on is
\* clean afterwards, and only its initial values are new.
EnterInScopeDialog ==
  /\ Asking /\ modal.dialog.kind # "save"
  /\ \/ modal.dialog.at = 0 /\ CancelDialog
     \/ /\ modal.dialog.at > 0
        /\ UNCHANGED <<frozen, env, clock, running, saved, used>>
        /\ LET s == Tabs[modal.dialog.at] IN
           /\ IF modal.dialog.kind = "reset" THEN ResetScope(s) ELSE DeleteConfig(s)
           /\ cache' = CacheAfterReads(files', CacheAfterWrite(s))
           /\ blurred' = blurred \ {s}
           /\ modal' = [modal EXCEPT !.rows = AllRows', !.initial[s] = AllRows'[s],
                                     !.dirty[s] = {}, !.dialog = NoDialog]
           /\ seen' = [rows |-> AllRows', files |-> files']

KeyPressed ==
  \/ ArrowKey \/ EnterFlips \/ EnterStartsTyping \/ EnterCommitsTyped \/ EscapeStopsTyping
  \/ ResetField \/ SelectField \/ TabKey \/ EscapeKey \/ CtrlC \/ CtrlS
  \/ MoveChoice \/ CancelDialog \/ EnterInSaveDialog \/ AskScope \/ EnterInScopeDialog

Next ==
  \/ SessionStart \/ OpenSettings \/ ClockTick \/ KeyPressed
  \/ \E s \in Scopes : WrittenElsewhere(s)

Spec == Init /\ [][Next]_vars

-----------------------------------------------------------------------------
(* Properties.                                                               *)

ConfigsOf == [Keys -> Values]

\* Types; and every key whose row is not as it was is dirty, but for a scope that
\* was read again when the other one was reset or deleted.
TypeOK ==
  /\ running \in ConfigsOf
  /\ \A s \in Scopes : files[s].state # "object" => files[s].data = NoData
  /\ modal.open =>
       /\ modal.tab \in Scopes /\ modal.key \in Keys /\ modal.focus \in NoStop..(Stops - 1)
       /\ {modal.rows, modal.initial} \subseteq [Scopes -> ConfigsOf]
       /\ modal.editing => modal.focus = NoStop /\ Typing[modal.key] # {}
       /\ Asking => modal.dialog.at \in 0..LastChoice
       /\ \A s \in Scopes :
            \/ modal.initial[s] # seen.rows[s]
            \/ {k \in Keys : modal.rows[s][k] # modal.initial[s][k]} \subseteq modal.dirty[s]

\* Every setting the program runs with is of its type and in its range, whatever
\* the files hold, unless the environment gave it.
InLimits ==
  \A k \in Keys :
    \/ running[k] = env[k]
    \/ running[k] \in Typed[k] /\ Bound[running[k]] = running[k]

\* The configuration the files stand for, read without a cache.
OnDisk ==
  [k \in Keys |->
     IF k \in DOMAIN files["project"].data THEN files["project"].data[k]
     ELSE IF k \in DOMAIN files["global"].data THEN files["global"].data[k]
     ELSE Defaults[k]]

Effective == [k \in Keys |-> IF env[k] = Unset THEN Validate(OnDisk)[k] ELSE env[k]]

\* Whenever the running configuration is set, by a save or at the start of a
\* session, it is what the files stand for: the cache is never behind a file but
\* for one another session replaced by as many bytes within a tick.
RunsWhatIsStored ==
  [][SessionStart \/ (saved' # saved /\ saved' \in Scopes)
       => running' = Effective' \/ blurred' # {}]_vars

\* The modal closes without a question only if what it shows is what was last read;
\* the scope a reset or a deletion of the other one has read again is the exception.
AsksFirst ==
  [][modal.open /\ ~Asking /\ modal' = Closed /\ saved' = saved
       => \A s \in Scopes :
            modal.rows[s] = seen.rows[s] \/ modal.initial[s] # seen.rows[s]]_vars

SavedTo(s) == saved' = s /\ saved # s

\* Keys this program does not know survive a save and a reset, also of a file that
\* another session wrote while the modal was open, and a save leaves a known key as
\* it is if the file held a sound value for it that was not touched since; but for a
\* scope whose file another wrote within the tick and size of the cached one, which
\* is taken for that one until it is written here (packages/pi-base/src/config.ts
\* 112-118, config-manager.ts 199-236).
UntouchedStays ==
  [][\A s \in Scopes \ blurred :
       /\ modal.open /\ modal' # modal /\ modal.dialog.kind # "delete" =>
            Foreign(files'[s].data) = Foreign(files[s].data)
       /\ SavedTo(s) /\ files[s] = seen.files[s] =>
            \A k \in DOMAIN files[s].data \cap Keys :
              files[s].data[k] \in Fits[k] /\ modal.rows[s][k] = seen.rows[s][k]
                => k \in DOMAIN files'[s].data /\ files'[s].data[k] = files[s].data[k]]_vars

\* After a save the file of the scope holds every sound value the scope showed, but
\* for a scope whose cached file another write passes for (config-manager.ts 199-243).
SavesWhatIsShown ==
  [][\A s \in Scopes \ blurred : SavedTo(s) =>
       \A k \in Keys : modal.rows[s][k] \in Fits[k] =>
         k \in DOMAIN files'[s].data /\ files'[s].data[k] = modal.rows[s][k]]_vars
=============================================================================
