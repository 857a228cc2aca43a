----------------------------- MODULE SpoolLock -----------------------------
(***************************************************************************)
(* The advisory per-entry lock table of the queue agent                    *)
(* (src/src/agents/queue/queue.c, InitSpoolEntryIDLocks, SpoolEntryIDLock, *)
(* SpoolEntryIDUnlock).                                                    *)
(*                                                                         *)
(* The table is an array of buckets; bucket (SPOOL_LOCK_ARRAY_MASK & id)   *)
(* holds SPOOL_LOCK_IDARRAY_SIZE slots, each either an entry ID or the     *)
(* sentinel UNUSED_SPOOL_LOCK_ID.  One semaphore per bucket makes the scan *)
(* of a bucket atomic, so a lock or unlock is one step here.  A lock       *)
(* returns a pointer to the claimed slot (a token <<bucket, slot>> here)   *)
(* or NULL (NoToken) when the ID is already present or the bucket is full. *)
(*                                                                         *)
(* The operators are used by QueueEngine through INSTANCE, on the table   *)
(* it keeps in its variable lockTable.                                     *)
(***************************************************************************)
EXTENDS Naturals, FiniteSets, Bitwise

CONSTANTS
  Ids,          \* entry IDs the lockers may lock (natural numbers)
  ArraySize,    \* SPOOL_LOCK_ARRAY_SIZE: number of buckets
  SlotsPerBucket, \* SPOOL_LOCK_IDARRAY_SIZE
  Mask,         \* SPOOL_LOCK_ARRAY_MASK
  Unused,       \* UNUSED_SPOOL_LOCK_ID
  NoToken       \* the NULL returned by a failed lock

ASSUME Ids \subseteq Nat /\ Unused \notin Ids
ASSUME ArraySize \in Nat \ {0} /\ SlotsPerBucket \in Nat \ {0}

Buckets == 0..(ArraySize - 1)
SlotIdx == 1..SlotsPerBucket
Tokens  == Buckets \X SlotIdx

\* The bucket an ID hashes to: SPOOL_LOCK_ARRAY_MASK & id.
BucketOf(id) == id & Mask

\* InitSpoolEntryIDLocks: every slot holds the sentinel.
InitTable == [b \in Buckets |-> [s \in SlotIdx |-> Unused]]

\* The scan of SpoolEntryIDLock: the ID is already in its bucket ...
IsLocked(tbl, id) == \E s \in SlotIdx : tbl[BucketOf(id)][s] = id

\* ... or the first unused slot, the one the scan remembers.
FreeSlots(tbl, b) == {s \in SlotIdx : tbl[b][s] = Unused}

\* The pointer SpoolEntryIDLock returns.
TryLock(tbl, id) ==
  LET b == BucketOf(id) IN
  IF IsLocked(tbl, id) \/ FreeSlots(tbl, b) = {}
  THEN NoToken
  ELSE <<b, CHOOSE s \in FreeSlots(tbl, b) :
                   \A t \in FreeSlots(tbl, b) : s <= t>>

\* The table after SpoolEntryIDLock(id).
AfterLock(tbl, id) ==
  LET tok == TryLock(tbl, id) IN
  IF tok = NoToken THEN tbl
  ELSE [tbl EXCEPT ![tok[1]][tok[2]] = id]

\* SpoolEntryIDUnlock(tok): the slot goes back to the sentinel.
AfterUnlock(tbl, tok) == [tbl EXCEPT ![tok[1]][tok[2]] = Unused]

\* The IDs the table currently holds.
LockedIds(tbl) == {tbl[b][s] : b \in Buckets, s \in SlotIdx} \ {Unused}
=============================================================================
