--------------------------- MODULE RepairLifecycle ---------------------------
(***************************************************************************)
(* src/src/repair/lifecycle.ts: notes of repairs, parked by prepareArguments *)
(* (which knows no call id) under the arguments they produced, and picked  *)
(* up by the tool's execute.  A note is named by the call it was made for. *)
(***************************************************************************)
EXTENDS Repair

CONSTANTS
  TtlMs,         \* ttlMs (five minutes in the code)
  MaxPending,    \* maxPending (128 in the code)
  MaxAssociated, \* maxAssociated (256 in the code)
  MaxNow,        \* bound: the clock stops there
  NoNote         \* no note

ASSUME LifecycleAssumption ==
  /\ TtlMs \in Nat /\ MaxPending \in Nat /\ MaxAssociated \in Nat /\ MaxNow \in Nat
  /\ NoNote \notin Nat

VARIABLES
  now,         \* the clock
  parked,      \* #pending: notes under their key, oldest first
  associated   \* #byCallId: notes of calls, in order of insertion

lifecycleVars == <<now, parked, associated>>

LifecycleInit == now = 0 /\ parked = <<>> /\ associated = <<>>

\* A faulty Expired: one tick early.
MutExpired(item) == item.at <= now - TtlMs /\ now >= TtlMs

\* Older than the cutoff.
Expired(item) == item.at + TtlMs < now

\* cleanup: parked notes expire from the head only, associated ones anywhere.
DropExpired(q) ==
  LET i == SelectInSeq(q, LAMBDA item : ~Expired(item))
  IN IF i = 0 THEN <<>> ELSE SubSeq(q, i, Len(q))

LiveParked == DropExpired(parked)
LiveAssociated == AtPlaces(associated, {i \in DOMAIN associated : ~Expired(associated[i])})

\* A faulty Newest: there is no cap.
MutNewest(q, n) == q

\* Over the cap the oldest go.
Newest(q, n) == IF Len(q) > n THEN SubSeq(q, Len(q) - n + 1, Len(q)) ELSE q

Enqueue(key, note) ==
  /\ parked' = Newest(Append(LiveParked, [key |-> key, note |-> note, at |-> now]), MaxPending)
  /\ associated' = LiveAssociated
  /\ UNCHANGED now

\* The oldest note parked under the key, or none.
Match(key) ==
  LET i == SelectInSeq(LiveParked, LAMBDA item : item.key = key)
  IN IF i = 0 THEN NoNote ELSE LiveParked[i].note

\* A faulty Correlate: the note stays in the queue.
MutCorrelate(key, id) ==
  /\ parked' = LiveParked
  /\ associated' = IF Match(key) = NoNote THEN LiveAssociated
                   ELSE Newest(Append(LiveAssociated, [id |-> id, note |-> Match(key), at |-> now]),
                               MaxAssociated)
  /\ UNCHANGED now

\* It is taken from the queue and associated with the call.
Correlate(key, id) ==
  LET i == SelectInSeq(LiveParked, LAMBDA item : item.key = key) IN
  /\ parked' = IF i = 0 THEN LiveParked ELSE RemoveAt(LiveParked, i)
  /\ associated' = IF i = 0 THEN LiveAssociated
                   ELSE Newest(Append(LiveAssociated, [id |-> id, note |-> Match(key), at |-> now]),
                               MaxAssociated)
  /\ UNCHANGED now

Take(id) ==
  /\ parked' = LiveParked
  /\ associated' = AtPlaces(LiveAssociated,
                     {i \in DOMAIN LiveAssociated : LiveAssociated[i].id # id})
  /\ UNCHANGED now

ClearLifecycle == parked' = <<>> /\ associated' = <<>> /\ UNCHANGED now

Tick == now < MaxNow /\ now' = now + 1 /\ UNCHANGED <<parked, associated>>
=============================================================================
