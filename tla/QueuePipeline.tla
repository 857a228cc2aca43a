--------------------------- MODULE QueuePipeline ---------------------------
(***************************************************************************)
(* What the queue promises of an entry, as spec.md states it (4.2, 4.3):   *)
(* an entry accepted into the spool sits at one stage at a time and moves  *)
(* only along the pipeline; each of its recipients is pending until it is  *)
(* delivered, reported in a DSN, dropped by policy, or taken over by a     *)
(* push agent, and never becomes pending again; the entry is discarded     *)
(* only when none of its recipients is pending, and an ID that is gone     *)
(* comes back only as a new acceptance.  Entries evolve independently, so  *)
(* one step may change several of them (a DSN reports the recipients of    *)
(* one entry and accepts another).                                         *)
(***************************************************************************)
CONSTANTS
  Ids,        \* entry IDs
  Recips,     \* recipient names
  EntryStages, \* stages at which an entry is accepted (QRUN targets, INCOMING)
  Flow(_, _), \* Flow(p, q): the pipeline may move an entry from p to q
  Gone        \* the position of an ID with no entry

VARIABLES
  at,         \* [Ids -> stage or Gone]
  fate        \* [Ids -> [Recips -> Fates]]

vars == <<at, fate>>

Settled == {"delivered", "reported", "dropped", "taken"}
Fates == {"none", "pending"} \cup Settled

Pending(f, x) == {r \in Recips : f[x][r] = "pending"}

\* The recipients of x only move from pending to a settled fate.
SettlesOnly(x) ==
  \A r \in Recips : fate'[x][r] # fate[x][r] =>
                      fate[x][r] = "pending" /\ fate'[x][r] \in Settled

\* Accept: an ID with no entry and no pending recipient is accepted at an
\* entry stage, with a fresh set of pending recipients.
Accept(x) ==
  /\ at[x] = Gone /\ Pending(fate, x) = {}
  /\ at'[x] \in EntryStages
  /\ fate'[x] \in [Recips -> {"none", "pending"}]

\* Move and settle: the entry stays or moves along the pipeline while some
\* of its recipients settle.
Proceed(x) ==
  /\ at[x] # Gone
  /\ at'[x] = at[x] \/ Flow(at[x], at'[x])
  /\ SettlesOnly(x)

\* Discard: the entry leaves the spool, its last pending recipients
\* settling in the same step.
Discard(x) ==
  /\ at[x] # Gone /\ at'[x] = Gone
  /\ SettlesOnly(x)
  /\ Pending(fate', x) = {}

EntryStep(x) == Accept(x) \/ Proceed(x) \/ Discard(x)

Unchanged(x) == at'[x] = at[x] /\ fate'[x] = fate[x]

Init ==
  /\ at = [x \in Ids |-> Gone]
  /\ fate = [x \in Ids |-> [r \in Recips |-> "none"]]

Next == \A x \in Ids : Unchanged(x) \/ EntryStep(x)

Spec == Init /\ [][Next]_vars
=============================================================================
