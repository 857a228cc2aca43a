----------------------------- MODULE PushAgents -----------------------------
(***************************************************************************)
(* The push-agent registry of the queue agent (src/src/agents/queue/      *)
(* queue.c): Queue.pushClients, an array of registered agents with its     *)
(* count, allocation and mutex; the QWAIT command that (re)registers an    *)
(* agent; and the loop of ProcessQueueEntry that offers an entry to every  *)
(* agent registered for its stage.                                         *)
(*                                                                         *)
(* AddPushAgent and RemovePushAgentIndex run under Queue.pushClients.lock  *)
(* and are one step each here.  QWAIT's scan of the array and the worker's *)
(* loop read count and array[i] without the lock; the worker's            *)
(* usageCount++ and usageCount-- are unlocked read-modify-writes, split in *)
(* a read and a write.  The array is kept as its physical slots: memmove   *)
(* leaves a stale copy of the last record behind count, and an index that *)
(* a removal made stale still reads that memory.                          *)
(***************************************************************************)
EXTENDS Naturals, Integers, Sequences, SequencesExt, FiniteSets

CONSTANTS
  Workers,        \* ProcessQueueEntry threads in the push loop
  Waiters,        \* NMAP sessions issuing QWAIT
  Idents,         \* agent identifiers (QWAIT <identifier>)
  Endpoints,      \* agent <address, port> pairs
  Queues,         \* stage numbers agents register for (QWAIT <queue>)
  QwaitArgs,      \* the <<identifier, endpoint, queue>> of the QWAIT commands
  WorkerQueues,   \* stages of the entries the workers process
  Dead,           \* endpoints whose connect always fails
  SelfEndpoints,  \* loopback endpoints whose port a new local socket may get
  MaxErrors,      \* MAX_PUSHCLIENTS_ERRORS
  Alloc,          \* PUSHCLIENTALLOC
  MaxSessions,    \* bound: QWAIT commands in one behaviour
  MaxPasses,      \* bound: push-loop passes in one behaviour
  MaxAllocFailures, \* bound: failed MemRealloc calls
  NoHolder        \* the mutex is free

ASSUME WorkerQueues \subseteq Queues /\ Dead \cup SelfEndpoints \subseteq Endpoints
ASSUME QwaitArgs \subseteq Idents \X Endpoints \X Queues
ASSUME MaxErrors \in Nat /\ Alloc \in Nat \ {0}

VARIABLES
  arr,        \* the physical slots of Queue.pushClients.array
  count,      \* Queue.pushClients.count
  allocated,  \* Queue.pushClients.allocated
  registered, \* Queue.pushClientsRegistered[0..7]
  mutex,      \* holder of Queue.pushClients.lock
  wk,         \* [Workers -> push-loop locals]
  qw,         \* [Waiters -> QWAIT locals]
  sessions, passes, allocFails, \* bound counters
  nextRid     \* history: the tag of the next registration

vars == <<arr, count, allocated, registered, mutex, wk, qw, sessions,
          passes, allocFails, nextRid>>

(***************************************************************************)
(* Records and helpers.  rid tags a registration (history only); target   *)
(* in the thread locals is the rid of the record the thread examined.     *)
(***************************************************************************)
Rids == 0..MaxSessions   \* 0: no record
Records == [queue : Queues, ep : Endpoints, ident : Idents,
            uc : Int, err : Int, rid : Rids]
LiveRids == {arr[k].rid : k \in 1..count}

\* Fault variant: the queue < 8 test is dropped, and an agent of stage 8
\* or above sets a flag past the end of the array.
UpdateRegisteredUnguarded(a, n) ==
  [s \in 0..7 \cup {a[k].queue : k \in 1..n} |->
     s \in {0, 1, 6, 7} \/ \E k \in 1..n : a[k].queue = s]

\* UpdatePushClientsRegistered: stages 0, 1, 6 and 7 always, and the
\* stage of every registered agent below 8.
UpdatePushClientsRegistered(a, n) ==
  [s \in 0..7 |-> s \in {0, 1, 6, 7} \/ \E k \in 1..n : a[k].queue = s]

\* The memmove of RemovePushAgentIndex: slots index+1..count-1 move down by
\* one (0-based); the slot count-1 keeps its old record.
ShiftDown(a, index, n) ==
  [k \in DOMAIN a |-> IF index + 1 <= k /\ k < n THEN a[k + 1] ELSE a[k]]

\* RemovePushAgentIndex(index, force) called by thread t, under the lock:
\* the new array and count, the result, and the holder of the lock after.
RemovePushAgentIndex(index, force, t) ==
  LET a0 == IF force THEN arr
            ELSE [arr EXCEPT ![index + 1].err = @ + 1]
      r  == a0[index + 1]
  IN CASE index >= count ->
            [arr |-> arr, count |-> count, res |-> FALSE, lock |-> NoHolder]
       [] r.uc > 1 ->
            [arr |-> [a0 EXCEPT ![index + 1].uc = @ - 1], count |-> count,
             res |-> FALSE, lock |-> NoHolder]
       [] r.err > MaxErrors \/ force ->
            [arr |-> ShiftDown(a0, index, count), count |-> count - 1,
             res |-> TRUE, lock |-> NoHolder]
       [] OTHER -> [arr |-> a0, count |-> count, res |-> FALSE, lock |-> NoHolder]

\* Apply the outcome o of RemovePushAgentIndex to the shared state.
Removed(o) ==
  /\ arr' = o.arr
  /\ count' = o.count
  /\ registered' = UpdatePushClientsRegistered(o.arr, o.count)
  /\ mutex' = o.lock

(***************************************************************************)
(* AddPushAgent(address, port, queue, identifier), under the lock.  An    *)
(* agent with the same endpoint and queue is kept as it is.  When         *)
(* count + 1 >= allocated the array grows by PUSHCLIENTALLOC; if           *)
(* MemRealloc fails the function returns -1 with the lock still held.     *)
(***************************************************************************)
\* Fault variant: the array grows only once count has passed allocated.
NeedsReallocLate(n, al) == n > al

NeedsRealloc(n, al) == n + 1 >= al

\* The scan of AddPushAgent for an agent with this port, address and queue.
IsRegistered(ep, q) ==
  \E k \in 1..count : arr[k].ep = ep /\ arr[k].queue = q

AddPushAgent(t, ep, q, id) ==
  LET rec == [queue |-> q, ep |-> ep, ident |-> id, uc |-> 0, err |-> 0,
              rid |-> nextRid]
      dup == IsRegistered(ep, q)
      a1  == IF count < Len(arr) THEN [arr EXCEPT ![count + 1] = rec]
             ELSE Append(arr, rec)
  IN \/ /\ dup
        /\ UNCHANGED <<arr, count, allocated, registered, mutex, allocFails,
                       nextRid>>
     \/ /\ ~dup /\ NeedsRealloc(count, allocated)
        /\ allocFails < MaxAllocFailures
        /\ allocFails' = allocFails + 1
        /\ mutex' = t
        /\ UNCHANGED <<arr, count, allocated, registered, nextRid>>
     \/ /\ ~dup
        /\ allocated' = IF NeedsRealloc(count, allocated)
                        THEN allocated + Alloc ELSE allocated
        /\ arr' = a1
        /\ count' = count + 1
        /\ registered' = UpdatePushClientsRegistered(a1, count + 1)
        /\ nextRid' = nextRid + 1
        /\ UNCHANGED <<mutex, allocFails>>

(***************************************************************************)
(* CommandQwait: QWAIT <queue> <port> <identifier>.  After the 1000 reply  *)
(* (a failed write ends the command), every registered agent with the same *)
(* identifier is removed by index with force, then the agent is added.    *)
(***************************************************************************)
QwaitStart(s) ==
  /\ qw[s].pc = "idle" /\ sessions < MaxSessions
  /\ sessions' = sessions + 1
  /\ \E arg \in QwaitArgs, written \in BOOLEAN :
       qw' = [qw EXCEPT ![s] = [pc |-> IF written THEN "scan" ELSE "idle",
                                ident |-> arg[1], ep |-> arg[2], queue |-> arg[3],
                                i |-> 0, target |-> 0]]
  /\ UNCHANGED <<arr, count, allocated, registered, mutex, wk, passes, allocFails,
                 nextRid>>

\* The loop test i < count and the strcmp of array[i].identifier, unlocked.
QwaitScan(s) ==
  LET i == qw[s].i IN
  /\ qw[s].pc = "scan"
  /\ \/ /\ i < count /\ arr[i + 1].ident = qw[s].ident
        /\ qw' = [qw EXCEPT ![s].pc = "remove", ![s].target = arr[i + 1].rid]
     \/ /\ i < count /\ arr[i + 1].ident # qw[s].ident
        /\ qw' = [qw EXCEPT ![s].i = i + 1]
     \/ /\ i >= count
        /\ qw' = [qw EXCEPT ![s].pc = "add"]
  /\ UNCHANGED <<arr, count, allocated, registered, mutex, wk, sessions, passes,
                 allocFails, nextRid>>

\* if (RemovePushAgentIndex(i, TRUE)) i--; then the loop's i++.
QwaitRemove(s) ==
  LET o == RemovePushAgentIndex(qw[s].i, TRUE, s) IN
  /\ qw[s].pc = "remove" /\ mutex = NoHolder
  /\ Removed(o)
  /\ qw' = [qw EXCEPT ![s].pc = "scan",
                      ![s].i = IF o.res THEN @ ELSE @ + 1]
  /\ UNCHANGED <<allocated, wk, sessions, passes, allocFails, nextRid>>

QwaitAdd(s) ==
  /\ qw[s].pc = "add" /\ mutex = NoHolder
  /\ AddPushAgent(s, qw[s].ep, qw[s].queue, qw[s].ident)
  /\ qw' = [qw EXCEPT ![s].pc = "idle"]
  /\ UNCHANGED <<wk, sessions, passes>>

(***************************************************************************)
(* The push loop of ProcessQueueEntry for an entry in stage q:            *)
(*   for (used = 0; used < count; used++)                                  *)
(* an agent of stage q with errorCount <= MAX_PUSHCLIENTS_ERRORS gets      *)
(* usageCount++, is checked for being the agent's own socket (then removed *)
(* with force and the pass ends), is connected to (a failure calls         *)
(* RemovePushAgentIndex(used, FALSE) and ends the pass; a success resets  *)
(* errorCount) and handed the entry; then usageCount--, and the pass ends *)
(* if the agent took the entry (its control file is gone).  An agent of    *)
(* stage q with too many errors is removed without a connect.             *)
(***************************************************************************)
IdleWorker == [pc |-> "idle", queue |-> 0, used |-> 0, tmp |-> 0,
               gone |-> FALSE, target |-> 0]

WorkerStart(w, q) ==
  /\ wk[w].pc = "idle" /\ passes < MaxPasses
  /\ passes' = passes + 1
  /\ wk' = [wk EXCEPT ![w] = [IdleWorker EXCEPT !.pc = "loop", !.queue = q]]
  /\ UNCHANGED <<arr, count, allocated, registered, mutex, qw, sessions,
                 allocFails, nextRid>>

PushLoop(w) ==
  LET used == wk[w].used
      r    == arr[used + 1]
  IN /\ wk[w].pc = "loop"
     /\ \/ /\ used >= count
           /\ wk' = [wk EXCEPT ![w] = IdleWorker]
        \/ /\ used < count /\ r.queue = wk[w].queue /\ r.err <= MaxErrors
           /\ wk' = [wk EXCEPT ![w].pc = "inc", ![w].target = r.rid]
        \/ /\ used < count /\ r.queue = wk[w].queue /\ r.err > MaxErrors
           /\ wk' = [wk EXCEPT ![w].pc = "skipRemove", ![w].target = r.rid]
        \/ /\ used < count /\ r.queue # wk[w].queue
           /\ wk' = [wk EXCEPT ![w].used = used + 1]
     /\ UNCHANGED <<arr, count, allocated, registered, mutex, qw, sessions, passes,
                    allocFails, nextRid>>

\* The unlocked usageCount++ and usageCount-- of array[used]: a read into
\* a register, then the write of the register plus d.
ReadUsage(w, from, to) ==
  /\ wk[w].pc = from
  /\ wk' = [wk EXCEPT ![w].pc = to, ![w].tmp = arr[wk[w].used + 1].uc]
  /\ UNCHANGED <<arr, count, allocated, registered, mutex, qw, sessions, passes,
                 allocFails, nextRid>>
WriteUsage(w, from, d) ==
  /\ wk[w].pc = from
  /\ arr' = [arr EXCEPT ![wk[w].used + 1].uc = wk[w].tmp + d]
  /\ UNCHANGED <<count, allocated, registered, mutex, qw, sessions, passes,
                 allocFails, nextRid>>

IncUsage(w) == ReadUsage(w, "inc", "incWrite")
IncUsageWrite(w) ==
  /\ WriteUsage(w, "incWrite", 1)
  /\ wk' = [wk EXCEPT ![w].pc = "connect"]

\* The self check, then connect().  The check compares array[used].port
\* with the port of the freshly bound local socket and the address with
\* loopback or the host's: for a loopback endpoint the two may coincide,
\* and the agent is removed with force.  Otherwise the connect fails
\* (always for a dead endpoint) or succeeds and errorCount is set to 0.
Connect(w) ==
  LET ep == arr[wk[w].used + 1].ep IN
  /\ wk[w].pc = "connect"
  /\ \/ /\ ep \in SelfEndpoints
        /\ wk' = [wk EXCEPT ![w].pc = "selfRemove"]
        /\ UNCHANGED arr
     \/ /\ wk' = [wk EXCEPT ![w].pc = "failRemove"]
        /\ UNCHANGED arr
     \/ /\ ep \notin Dead
        /\ arr' = [arr EXCEPT ![wk[w].used + 1].err = 0]
        /\ wk' = [wk EXCEPT ![w].pc = "handle"]
  /\ UNCHANGED <<count, allocated, registered, mutex, qw, sessions, passes,
                 allocFails, nextRid>>

\* HandleCommand: the agent works on the entry and may remove it.
Handle(w) ==
  /\ wk[w].pc = "handle"
  /\ \E gone \in BOOLEAN : wk' = [wk EXCEPT ![w].pc = "dec", ![w].gone = gone]
  /\ UNCHANGED <<arr, count, allocated, registered, mutex, qw, sessions, passes,
                 allocFails, nextRid>>

DecUsage(w) == ReadUsage(w, "dec", "decWrite")
\* usageCount--; access(path) fails when the agent removed the entry.
DecUsageWrite(w) ==
  /\ WriteUsage(w, "decWrite", -1)
  /\ wk' = [wk EXCEPT ![w] = IF @.gone THEN IdleWorker
                             ELSE [@ EXCEPT !.pc = "loop", !.used = @ + 1]]

\* RemovePushAgentIndex(used, force) from the push loop; after the self
\* check and a failed connect the pass ends, after a skip it goes on
\* (used-- on success, then the loop's used++).
WorkerRemove(w, from, force) ==
  LET o == RemovePushAgentIndex(wk[w].used, force, w) IN
  /\ wk[w].pc = from /\ mutex = NoHolder
  /\ Removed(o)
  /\ wk' = [wk EXCEPT ![w] =
              IF from = "skipRemove"
              THEN [@ EXCEPT !.pc = "loop",
                             !.used = IF o.res THEN @ ELSE @ + 1]
              ELSE IdleWorker]
  /\ UNCHANGED <<allocated, qw, sessions, passes, allocFails, nextRid>>
SelfRemove(w) == WorkerRemove(w, "selfRemove", TRUE)
FailRemove(w) == WorkerRemove(w, "failRemove", FALSE)
SkipRemove(w) == WorkerRemove(w, "skipRemove", FALSE)

(***************************************************************************)
(* The specification.  QueueInit calls RemoveAllPushAgents: no agent.     *)
(***************************************************************************)
IdleWaiter == [pc |-> "idle", ident |-> CHOOSE i \in Idents : TRUE,
               ep |-> CHOOSE e \in Endpoints : TRUE,
               queue |-> CHOOSE q \in Queues : TRUE, i |-> 0, target |-> 0]

Init ==
  /\ arr = <<>> /\ count = 0 /\ allocated = 0
  /\ registered = UpdatePushClientsRegistered(<<>>, 0)
  /\ mutex = NoHolder
  /\ wk = [w \in Workers |-> IdleWorker]
  /\ qw = [s \in Waiters |-> IdleWaiter]
  /\ sessions = 0 /\ passes = 0 /\ allocFails = 0 /\ nextRid = 1

WorkerStep(w) ==
  \/ PushLoop(w) \/ IncUsage(w) \/ IncUsageWrite(w) \/ Connect(w)
  \/ Handle(w) \/ DecUsage(w) \/ DecUsageWrite(w)
  \/ SelfRemove(w) \/ FailRemove(w) \/ SkipRemove(w)

WaiterStep(s) == QwaitScan(s) \/ QwaitRemove(s) \/ QwaitAdd(s)

Next ==
  \/ \E w \in Workers : WorkerStep(w) \/ \E q \in WorkerQueues : WorkerStart(w, q)
  \/ \E s \in Waiters : WaiterStep(s) \/ QwaitStart(s)

\* A thread that has started a pass or a command keeps running.
Fairness ==
  /\ \A w \in Workers : WF_vars(WorkerStep(w))
  /\ \A s \in Waiters : WF_vars(WaiterStep(s))

Spec == Init /\ [][Next]_vars /\ Fairness

(***************************************************************************)
(* Properties.                                                             *)
(***************************************************************************)
Holders == Workers \cup Waiters \cup {NoHolder}
Pcs == {"idle", "loop", "inc", "incWrite", "connect", "handle", "dec",
        "decWrite", "selfRemove", "failRemove", "skipRemove"}

\* The registered flags are exactly the array Queue.pushClientsRegistered[8],
\* and the counts stay within the bounds the passes allow.
TypeOK ==
  /\ \A k \in DOMAIN arr :
       arr[k] \in [queue : Queues, ep : Endpoints, ident : Idents,
                   uc : -MaxPasses..MaxPasses, err : 0..(2 * MaxPasses + 1),
                   rid : Rids]
  /\ count \in 0..Len(arr) /\ allocated \in Nat
  /\ registered \in [0..7 -> BOOLEAN]
  /\ mutex \in Holders
  /\ \A w \in Workers : wk[w].pc \in Pcs /\ wk[w].used \in 0..MaxSessions
  /\ \A s \in Waiters :
       qw[s].pc \in {"idle", "scan", "remove", "add"} /\ qw[s].i \in 0..MaxSessions

\* Every slot AddPushAgent has written lies inside the allocated array:
\* the MemRealloc test count + 1 >= allocated grows the array before the
\* write at index count.
WithinAllocation == Len(arr) <= allocated

\* Every push pass and every QWAIT command that has started finishes: each
\* path through AddPushAgent and RemovePushAgentIndex releases
\* Queue.pushClients.lock, so no thread waits for it for ever.
PassesComplete ==
  /\ \A w \in Workers : wk[w].pc # "idle" ~> wk[w].pc = "idle"
  /\ \A s \in Waiters : qw[s].pc # "idle" ~> qw[s].pc = "idle"

\* RemovePushAgentIndex removes the agent its caller examined: the agent
\* QWAIT found with its identifier, or the agent the push loop tried.
\* Both callers pass an index read without the lock, and a removal by
\* another thread in between moves the array down under that index.
RemovesExaminedAgent ==
  [][\A r \in LiveRids \ LiveRids' :
        \/ \E w \in Workers :
             wk[w].pc \in {"selfRemove", "failRemove", "skipRemove"}
             /\ wk[w].target = r
        \/ \E s \in Waiters : qw[s].pc = "remove" /\ qw[s].target = r
    ]_vars
====
