------------------------------- MODULE UndoMap -------------------------------
(***************************************************************************)
(* What the undo store of src/src/history/store.ts promises its callers: a *)
(* map from paths to records, shared by every session, that a put or a     *)
(* delete changes in one step, at most once, between its call and its      *)
(* return.  A record may be evicted at any time.  A path is spoilt when    *)
(* overlapping sessions lost one of its writes; nothing is promised of it  *)
(* until a later call takes effect.                                        *)
(***************************************************************************)
CONSTANTS Sessions, Paths, Records, Null

VARIABLES
  map,      \* what a reader gets for each path, a record or Null
  pending,  \* pending[s]: the call of s that has not taken effect, or Null
  spoilt    \* paths nothing is promised of

vars == <<map, pending, spoilt>>

Call == [path : Paths, rec : Records \cup {Null}]

Init ==
  /\ map = [p \in Paths |-> Null]
  /\ pending = [s \in Sessions |-> Null]
  /\ spoilt = {}

Done(s) == [pending EXCEPT ![s] = Null]

\* Outside the spoilt paths, map goes on as new says.
Becomes(new) == \A p \in Paths \ spoilt' : map'[p] = new[p]

Begin(s) ==
  /\ pending[s] = Null
  /\ pending'[s] \in Call
  /\ pending' = [pending EXCEPT ![s] = pending'[s]]
  /\ UNCHANGED <<map, spoilt>>

\* The call takes effect, for every session at once.
Effect(s) ==
  /\ pending[s] # Null
  /\ pending' = Done(s)
  /\ spoilt' = spoilt \ {pending[s].path}
  /\ Becomes([map EXCEPT ![pending[s].path] = pending[s].rec])

\* The call fails, or its session is killed, before it took effect.
Fail(s) == pending' = Done(s) /\ UNCHANGED <<map, spoilt>>

\* A call spoils paths; it may itself be lost.
Spoil(s) ==
  /\ spoilt \subseteq spoilt'
  /\ pending' \in {pending, Done(s)}
  /\ Becomes(map)

\* A compaction drops records, and spoils what it did not know of.
Evict ==
  /\ spoilt \subseteq spoilt'
  /\ UNCHANGED pending
  /\ \A p \in Paths \ spoilt' : map'[p] \in {map[p], Null}

Next == Evict \/ \E s \in Sessions : Begin(s) \/ Effect(s) \/ Fail(s) \/ Spoil(s)

Spec == Init /\ [][Next]_vars
=============================================================================
