---------------------------- MODULE Stormbreaker ----------------------------
(***************************************************************************)
(* src/src/resilience/stormbreaker.ts and the tool_execution_end handler   *)
(* of src/src/platform/hooks/stormbreaker.ts: failures of a tool in a      *)
(* window, the loop broken when one signature has filled enough of it, and *)
(* the retry a timer sends.                                                *)
(***************************************************************************)
EXTENDS Naturals, Sequences, FiniteSets, SequencesExt

CONSTANTS
  Tools,
  MaxWindowSize,  \* MAX_WINDOW_SIZE (10 in the code)
  Threshold,      \* stormbreakerThreshold
  AutoContinue    \* stormbreakerAutoContinue

ASSUME StormAssumption ==
  MaxWindowSize \in Nat \ {0} /\ Threshold \in Nat \ {0} /\ AutoContinue \in BOOLEAN

VARIABLES
  windows,      \* windows[t]: signatures of the latest failures of the tool t
  loopsBroken,  \* loopsBroken[t]: loops of the tool t broken
  timers,       \* timers[t]: retries of t scheduled, and the timer not fired
  retries,      \* retries[t]: retries of t sent
  missed        \* missed[t]: retries of t whose timer found the session closed

stormVars == <<windows, loopsBroken, timers, retries, missed>>

StormInit ==
  /\ windows = [t \in Tools |-> <<>>]
  /\ loopsBroken = [t \in Tools |-> 0] /\ timers = [t \in Tools |-> 0]
  /\ retries = [t \in Tools |-> 0] /\ missed = [t \in Tools |-> 0]

LastOf(s, n) == IF Len(s) > n THEN SubSeq(s, Len(s) - n + 1, Len(s)) ELSE s
CountOf(s, sig) == Cardinality({i \in DOMAIN s : s[i] = sig})

\* recordFailure: the window with the failure.
WindowAfter(t, sig) == LastOf(Append(windows[t], sig), MaxWindowSize)

Reached(t, sig) == CountOf(WindowAfter(t, sig), sig) >= Threshold

\* A faulty Succeed: the failures are kept.
MutSucceed(t) == UNCHANGED stormVars

\* A success ends the tool's streak.
Succeed(t) ==
  /\ windows' = [windows EXCEPT ![t] = <<>>]
  /\ UNCHANGED <<loopsBroken, timers, retries, missed>>

\* A failure that stays below the threshold.
Fail(t, sig) ==
  /\ ~Reached(t, sig)
  /\ windows' = [windows EXCEPT ![t] = WindowAfter(t, sig)]
  /\ UNCHANGED <<loopsBroken, timers, retries, missed>>

\* A faulty Break: one timer for all of a tool's loops.
MutBreak(t, sig) ==
  /\ Reached(t, sig)
  /\ loopsBroken' = [loopsBroken EXCEPT ![t] = @ + 1]
  /\ windows' = [windows EXCEPT ![t] = <<>>]
  /\ timers' = [timers EXCEPT ![t] = IF AutoContinue THEN 1 ELSE @]
  /\ UNCHANGED <<retries, missed>>

\* One that reaches it breaks the loop, clears the window and schedules the
\* retry; a second event is recorded when that fires.
Break(t, sig) ==
  /\ Reached(t, sig)
  /\ loopsBroken' = [loopsBroken EXCEPT ![t] = @ + 1]
  /\ windows' = [windows EXCEPT ![t] = <<>>]
  /\ timers' = [timers EXCEPT ![t] = IF AutoContinue THEN @ + 1 ELSE @]
  /\ UNCHANGED <<retries, missed>>

\* No turn, success or shutdown cancels the timer.  It sends the retry, which
\* throws in a closed session.
FireRetry(t, sent) ==
  /\ timers[t] > 0
  /\ timers' = [timers EXCEPT ![t] = @ - 1]
  /\ IF sent THEN retries' = [retries EXCEPT ![t] = @ + 1] /\ UNCHANGED missed
             ELSE missed' = [missed EXCEPT ![t] = @ + 1] /\ UNCHANGED retries
  /\ UNCHANGED <<windows, loopsBroken>>
=============================================================================
