# TLA+ models of the Bongo queue agent

This directory models the spool queue agent of Bongo,
`src/src/agents/queue/queue.c`, and the compound index file of the CLucene
import (`src/import/clucene/src/CLucene/index/CompoundFile.cpp`), for the
TLC model checker. The agent
stores every message as files in a spool directory and moves it through
numbered stages by renaming its control file. Worker threads, a monitor
thread and NMAP client sessions all act on the same files.

## The system and its parts

| Part | Code | Interacts with |
|---|---|---|
| Spool lock table | `InitSpoolEntryIDLocks`, `SpoolEntryIDLock`, `SpoolEntryIDUnlock` (queue.c 36-300) | every worker and HandleDSN take an entry's lock before they touch its files |
| Stage machine | `ProcessQueueEntry` (queue.c 625-1990) | reads and rewrites `c<id>.<stage>`, writes `w<id>.<stage>`, reads `d<id>.msg`, calls HandleDSN |
| DSN path | `HandleDSN`, `CreateDSNMessage` (queue.c 2000-2530) | creates a new entry `c<id>.000` and `d<id>.msg`, locks it, starts a worker on it |
| Monitor | `CheckQueue` (queue.c 2531-2641) | scans the spool and starts one worker per entry, up to `maxConcurrentWorkers` |
| Integrity pass | `CreateQueueThreads(TRUE)` (queue.c 2683-2906) | runs at start-up after a crash and deletes incomplete entries |
| Submission commands | `CommandQcrea`, the `CommandQstor*` handlers, `CommandQabrt`, `CommandQrun` (queue.c 3078-3113, 3338-3397, 4174-4241, 4547-4760) | create `c<id>.in` and `d<id>.msg`, fill them, and then either unlink them or rename to the target stage and start a worker |
| Push-agent registry | `AddPushAgent`, `RemovePushAgentIndex`, `CommandQwait`, the push loop at 1507-1703 | hands entries to external agents registered per stage |
| CLucene compound file | `CompoundFileWriter`, `CompoundFileReader`, `CSInputStream` | merges index files into one stream and serves them back; independent of the queue |
| Store delivery | `GetNMAPConnection`, `DeliverToStore`, `EndStoreDelivery` (queue.c 463-608) and their use in Q_DELIVER (1048-1479) | one connection per store per Q_DELIVER pass; sends the message with DELIVER FILE or DELIVER STREAM, then one recipient command per calendar line |
| Other sources | store agent, config tool, hash library, CLucene | not part of the queue's state machine; see PROJECT.json |

An entry is a triple of files:
- `c<id>.<stage>` is the control file, holding the envelope and recipient lines.
- `w<id>.<stage>` is the work file: the rewrite of c during one pass.
- `d<id>.msg` is the message data.

A pass ends by promoting w to c. The code does this as `UNLINK_CHECK(c)` followed by
`RENAME_CHECK(w, c)`, then renames c to the next stage. Only the stages
that a push agent registered for, plus the built-in ones (0, 1, 6, 7), are visited.

## Modules

- **`SpoolLock`** models the lock table itself.
  - The table maps each bucket to its slots; `QueueEngine` keeps it in `lockTable`.
  - `TryLock` is `SpoolEntryIDLock`: it scans the bucket for the ID and fails if it is present, else claims the first free slot or fails if there is none. `AfterUnlock` is `SpoolEntryIDUnlock`.
  - Each is one step because the bucket semaphore makes the scan atomic.
  - The module has only these operators. The engine runs check the table through `NoOrphanLock`, and `dsn_null_unlock` through the NULL that `TryLock` returns.
- **`QueueEngine`** composes the stage machine, HandleDSN, the monitor, the client commands, the push hand-off, crash and restart. It uses `SpoolLock` through `INSTANCE`, and instances `QueuePipeline` for its refinement property.
  - State:
    - `ctl`, `work` and `data` are the three spool files of each ID; `data` also tells an empty `d<id>.msg` (created by QCREA, or by HandleDSN before its message is written) from one holding a message, because the integrity pass treats the two differently;
    - `expired` abstracts `date < now - maxLinger`;
    - `lockTable` holds the lock table;
    - `wk` holds the locals of each worker thread (`pc`, `id`, `idLock` as `tok`, `keep`, `bounce`, HandleDSN's new `id`/`idLock` as `nid`/`ntok`);
    - `client` is the NMAP session;
    - `up` records that the process is running.
  - The history variables `fate` (pending, delivered, reported, dropped, or taken by a push agent, per recipient) and `reports` (how many DSNs named a recipient, saturating at 2) are written but never read by a guard.
  - Actions follow the code's control flow. There is one action per segment between two points where another thread can observe the spool:
    - `Start` and `PreStep` (StartOver and the pre-switch);
    - `Incoming`, `Outgoing`, `Deliver`, `Rts` and `RtsDSN` (the stage cases);
    - `PromoteUnlink` and `PromoteRename` (the two halves of promotion);
    - `Post` (the stat of d after a stage) and `Advance` (the advance switch);
    - `PushOpen`, `AgentCommand` and `AfterSession` (the hand-off to a push agent, below);
    - `BounceOpen`, `AfterDSN`, `StripBounces` and `KeepOrDrop` (the bounce branch of Q_DELIVER);
    - `OutPost` (Q_OUTGOING's post-processing);
    - `HandleDSN1` to `HandleDSN3` (HandleDSN, split at its unchecked lock and at its unlock).
  - Each of these has one disjunct per outcome of the code's `FOPEN_CHECK` calls, under the `MaxDiskFailures` bound.
  - `Dispatch`, `Qcrea`, `Qstor`, `Qabrt`, `Run`, `Crash` and `Restart` model CheckQueue, QCREA, the QSTOR commands, QABRT, QRUN, process death, and start-up with the integrity pass.
    - `Qcrea` leaves `c<id>.in` holding only its date line (`Dated`).
    - `Qstor` is one step for all the QSTOR lines of a session, because `c<id>.in` is invisible to the monitor and to the workers until QRUN. The lines may or may not include QSTOR MESSAGE, the only QSTOR command that writes `d<id>.msg`.
    - `Run` does not look at `d<id>.msg`. With the constant `EmptyMessage` FALSE, the clients are assumed to have stored a message (by QSTOR MESSAGE or QADDQ) before QRUN; with TRUE they may QRUN an entry whose data file is empty.
    - `Restart` applies the kill list of CreateQueueThreads(TRUE). `Survives` is its case 'C'. `DataSurvives` adds case 'D', which deletes an empty `d<id>.msg` together with `c<id>.msg`, a name no control file has, so the control file stays.
    - `Qaddq` is QADDQ. It resets the session's target to 0 before anything else, so the QRUN after it sends the entry to INCOMING, whatever QCREA named. When the source opens and the range is not empty, it makes `d<id>.msg` non-empty; the bytes themselves are not tracked.
  - Recipient lines are abstracted to kinds:
    - `L` is local with DSN_FAILURE, and `Ln` is local without it;
    - `R` is remote, `C` is calendar, and `B` is a bounce record.
  - Because the directory lookup is compiled out (`REMOVE-MDB`), a local recipient is always `DELIVER_USER_UNKNOWN`.
  - The `flags` variable of Q_DELIVER is carried across lines in the order `LineOrder` (`FailureFlag`), as the code does.
  - Push hand-off. One agent is registered for each stage in the constant `PushStages`, and `Registered` adds those stages to the advance switch. An agent's behaviour on its connection is a command script drawn from `AgentScripts`.
    - `PushOpen` is the push loop of ProcessQueueEntry:
      - a missing c ends the thread;
      - a failed `FOPEN_CHECK` of c is a process death, because the `fseek(fh, ...)` after it runs on NULL;
      - otherwise the worker hands c over, with its body kept in `wk.sent`, and starts the session.
    - `AgentCommand` is one command of the session, run by HandleCommand on the worker thread under its spool lock:
      - `QmodWrite` (QMOD FROM/TO/... and QRTS): the first one opens w with "wb", and `Written` is the line it writes;
      - `WorkOpenFails`: that fopen failed, so the line is lost with no reply;
      - `Qdone`: unlink c and rename w over it. The rename reuses `PromoteRename`, so a crash can fall between the two. If c is gone, w is renamed alone;
      - `Qdele`: unlink c and d. Its recipients' fate becomes `taken`, handed to the agent;
      - `QabrtWork`: close and unlink w.
    - `AfterSession` removes a w still open. Then it ends the thread if c is gone (`access(path)`), or goes on to `Advance`.
    - The self-connect check, connect failures and the `usageCount` bookkeeping of the same loop are in `PushAgents`.
- **`PushAgents`** models `Queue.pushClients` and the threads that use it.
  - State:
    - `arr` holds the physical slots of the array, including the stale copy that `memmove` leaves behind `count`;
    - `count`, `allocated`, `registered` (`pushClientsRegistered[0..7]`) and `mutex` hold the rest of the registry;
    - `wk` holds the push-loop locals of each worker, and `qw` the locals of each QWAIT session.
  - `AddPushAgent` and `RemovePushAgentIndex` each run under the mutex, so each is one step.
  - `AddPushAgent` includes the return with the lock held when `MemRealloc` fails.
  - The unlocked parts are split into their own steps:
    - QWAIT's scan (`QwaitStart`, `QwaitScan`, `QwaitRemove`, `QwaitAdd`);
    - the worker's loop (`PushLoop`, `Connect`, `Handle`);
    - `usageCount++` and `usageCount--`, split into a read and a write (`IncUsage`/`IncUsageWrite`, `DecUsage`/`DecUsageWrite`);
    - the three removals (`SelfRemove`, `FailRemove`, `SkipRemove`).
- **`CompoundFile`** models the CLucene compound file as byte sequences.
  - `VIntBytes`, `LongBytes` and `StringBytes` are the encoders; `ReadVInt` and `ReadLong` are the decoders.
  - Writer: `AddFile` is `addFile`. `Close` is `close()`: it writes the directory with zero offsets, copies the data, and patches the offsets. If a source is missing, it stops after the data written so far.
  - Reader: `ReaderOpen` parses the directory into `table`. `OpenInput` opens a sub-file. `ReadSeek` and `ReadBytes` are `readInternal`'s seek and read under `base->THIS_LOCK`. `CloseInput` and `ReaderClose` close.
- **`QueuePipeline`** is the abstract specification of what the queue promises of an entry (spec.md 4.2 and 4.3).
  - `at` is the stage of each ID, or `Gone`; `fate` is the fate of each recipient.
  - An entry is accepted at an entry stage, with its recipients pending (`Accept`). It moves only along `Flow` while its recipients go from pending to a settled fate (`Proceed`). It is discarded only when none is pending (`Discard`).
  - Entries evolve independently, and one step may change several. HandleDSN reports the recipients of one entry and accepts the DSN entry in the same step.
  - `QueueEngine` maps to it in `PipelineRefined`:
    - `at` is the stage of the control file, once QRUN or HandleDSN has written it. It is not `c<id>.in`, and not the empty `c<id>.000` that HandleDSN creates first.
    - Between the unlink of c and the rename of w, the promoting worker holds the entry at its stage.
    - `Flow` is `StageStep`, and `fate` is the engine's history variable.
- **`StoreDelivery`** models one Q_DELIVER pass from the store client's side.
  - State: `lines` (the recipient lines still to read: `"C"` calendar, `"L"`/`"Ln"` local with or without DSN_FAILURE), `pc`, `data` (the `FILE *data` of the pass: null, opened on d, opened on w, or freed), `flags`, `bounce`, and `conns`/`allocated`, the pass's `NMAPConnections` list.
  - `Cached`, `Connect` and `Grown` are `GetNMAPConnection`: the list search, the connect and authentication (each may fail, closing the connection), and the `MemRealloc` growth by `AllocSteps`.
  - `DeliverToStore` is the function: `Reuse` on a cached connection (`TRY_LATER` if its error flag is set), or `Handshake` on a new one (DELIVER FILE to the local host, DELIVER STREAM with the data written out to any other, each write or the 2053 answer may fail), then `Rcpt`.
  - `CalendarLine`, `LocalLine`, `OpenFails`, `EndPass`, `BounceDSN` and `CloseData` are the pieces of Q_DELIVER that touch the list and `data`: the calendar case, the local cases (the directory lookup is compiled out, so a local recipient is unknown), the failed open of data, `EndStoreDelivery`, the bounce branch that passes `data` to HandleDSN, and the final `FCLOSE_CHECK(data)`.
  - The history variables `trace` (the commands and connection events per store), `streamed` (which file DELIVER STREAM sent) and `freedUsed` (a use of `data` after DeliverToStore closed it) are never read by a guard.
  - The address a calendar line goes to is uninitialized in the code (`siaddr`, left by REMOVE-MDB), so it is any store.
- **`MCQueueEngine`**, **`MCPushAgents`**, **`MCStoreDelivery`** and **`MCCompoundFile`** give the constants for TLC.

## Runs

| Run | Config | Expect | What it shows |
|---|---|---|---|
| engine | MCQueueEngine.cfg | pass | One worker, no faults, and an agent at stage 2 that rewrites the entry with a QRTS for r1, or deletes it. Checks:<ul><li>recipient conservation;</li><li>at most one DSN per recipient;</li><li>consistent entries at rest;</li><li>no orphaned lock;</li><li>the engine refines `QueuePipeline`: stages only move forward, a settled recipient never becomes pending again, an entry leaves only with no recipient pending, and a gone ID comes back only by QRUN or HandleDSN;</li><li>every recipient eventually settles.</li></ul> |
| engine_crash | MCQueueCrash.cfg | pass | A crash at any step, then the integrity pass, leaves every entry complete or gone, for clients that store a message before QRUN (`EmptyMessage = FALSE`). This includes a crash between QDONE's unlink of c and its rename of w, an agent that disconnects after one QMOD line, and a QABRT. |
| engine_two_workers | MCQueueTwo.cfg | pass | Two workers and the monitor race through a bounce and its DSN. This includes the HandleDSN segfault and the restart after it. Entries at rest stay consistent (with `EmptyMessage = FALSE`) and no lock outlives its thread. |
| dsn_null_unlock | MCQueueNullLock.cfg | violation | HandleDSN reaches `SpoolEntryIDUnlock` without a lock, because the monitor dispatched the new empty entry first. |
| crash_lost_entry | MCQueueCrashLoss.cfg | violation | A crash between the unlink of c and the rename of w loses an accepted entry. |
| empty_message_lost | MCQueueEmptyMessage.cfg | violation | QCREA, then QRUN with no QSTOR MESSAGE, then a crash: the integrity pass deletes the empty `d<id>.msg` and keeps `c<id>.000`, because it names the control file `c<id>.msg`. The entry is left without its data file. |
| calendar_stale_flags | MCQueueCalendarFlags.cfg | violation | A failed calendar recipient after a local line without DSN_FAILURE is dropped silently. |
| push_agents | MCPushAgents.cfg | pass | Two push-loop workers and a QWAIT session, with one `MemRealloc` failure allowed. Checks:<ul><li>every slot written lies in the allocated array;</li><li>the registration flags stay within their eight entries.</li></ul> |
| push_wrong_agent_removed | MCPushRemoval.cfg | violation | With the code's `MAX_PUSHCLIENTS_ERRORS` of 25, a worker whose self check matched removes with force by its unlocked index after QWAIT removed and re-registered the agent, so it removes the new registration. |
| store_delivery | MCStoreDelivery.cfg | pass | Three recipient lines against the local store and one remote store, with every connect, authentication, allocation, write and answer failure. Checks:<ul><li>the array never holds more connections than allocated;</li><li>each store gets DELIVER at most once in a pass;</li><li>a recipient command goes only over a connection whose DELIVER was accepted and that has no error since;</li><li>at the end of the pass every connection opened is closed, and the end of the delivery is sent exactly on the accepted, error-free ones.</li></ul> |
| store_data_handle | MCStoreDataHandle.cfg | violation | A calendar line before any local line opens `data` from `path`, which still names the work file, so DELIVER STREAM sends `w<id>.<queue>` as the message. |
| compound_file | MCCompoundFile.cfg | pass | Every order of `addFile`, a complete or failed `close()`, then two threads reading sub-files in chunks. Checks that the parsed directory matches the sources and that every byte read is the source byte. |

Some runs that earlier versions of this project kept are no longer here: the refinement of an abstract lock set by the lock table, the Solaris lock mask, the HandleDSN lock leak, the Q_RTS work-file leak, the duplicate DSN after a crash, the Q_DELIVER keep branch promoting a w never created (`MCQueueEngine.cfg` with `MaxDiskFailures = 1`), and AddPushAgent returning with the lock held (`MCPushAgents` with `PROPERTY PassesComplete`). Their hazards stay in `PROJECT.json`, with a note.

The findings in `PROJECT.json` give the source line and what each
violation means. Every property of a passing run has a mutant: a plausible
bug in one mapped definition that the run then catches.

## Bounds and why they suffice

- Recipients: two, `r1` and `r2`.
  - Two recipients are enough for one to bounce while the other is kept. That reaches both the bounce branch and the keep branch of every stage.
  - `LineOrder` is `<<r1, r2>>`, and the envelopes put every kind in both positions that matter.
- IDs: 4, or 3 with two workers. That is enough for the submitted entry, its DSN entry, and a DSN of a DSN, which is refused because its sender is null.
- Submissions: `MaxSubmissions = 1`.
  - Entries interact only through the lock table, the worker limit and the ID counter, and a DSN entry already gives a second entry.
  - The submission envelopes cover these paths:
    - the local bounce;
    - a local recipient without DSN;
    - calendar success, failure and deferral;
    - a remote recipient with linger expiry and RTS;
    - a null sender.
- Lock table: 2 buckets of 2 slots (`Mask = 1`). Several IDs share a bucket, so a bucket can be full.
- `reports` saturates at 2. The properties only ask whether it is at most 1. Without saturation, a segfault, restart and re-DSN cycle would make the history unbounded.
- `MCQueueTwo` uses `VIEW NoHistoryView`. The view drops `fate` and `reports`, which no guard reads, and the run checks only properties that do not read them.
- `MaxCrashes` and `MaxDiskFailures` are 0 in the plain runs and 1 in the fault runs. Every violation found needs one fault.
- `EmptyMessage` is FALSE in every run but `empty_message_lost`. An entry with an empty data file is consistent as long as no crash happens, and after a crash it is the one case `empty_message_lost` shows; the other runs ask what holds for entries that carry a message.
- Push hand-off in `QueueEngine`: one pushed stage (2, the first stage after INCOMING), since every stage's hand-off runs the same code.
  - The engine run's two scripts reach the rewrite with QRTS, whose bounce line then goes through the DSN path, and the deletion by the agent.
  - The crash run's three scripts reach the commit window of QDONE, the clean-up of a w left open, and QABRT.
  - The two fault sequences in the hazards need scripts that the pass runs leave out. The first is an fopen failure inside a session. The second is a QMOD after QDELE.
- Push agents: two workers, one QWAIT session with up to `MaxSessions = 2` commands, two endpoints (one dead), and `Alloc = 2`.
  - `MaxErrors` is `MAX_PUSHCLIENTS_ERRORS`. The removal run uses the code's 25, so its violation does not rest on a lowered threshold. The registry run lowers it to 0, so that an agent with too many errors is skipped and removed within three passes; its properties do not depend on the threshold.
  - Two commands and one removal are enough to fill the array, to realloc it, and to shift a record under a stale index.
  - The counters stop the system, so `CHECK_DEADLOCK` is off there.
- Store delivery: two stores (the local host and one other), three lines, `AllocSteps = 1`.
  - Three calendar lines give a second and third recipient for a store after its first DELIVER succeeded, failed, or never connected, and two stores make the array grow twice with a step of 1.
  - `<<"Ln","C","C">>` and `<<"C","L","C">>` put a calendar line after a local one, so `data` is opened on d; the violation run's `<<"C","C","L">>` puts it first.
  - The pass ends, so `CHECK_DEADLOCK` is off.
- Compound file: three names. One name is missing from the directory, and one has an empty content. Reads use chunks of up to 2 bytes from two threads.
  - This reaches a failed copy, a zero-length entry, and reads split across the lock.
  - The program ends once the reader is closed, so `CHECK_DEADLOCK` is off.

## Fairness

`Spec` assumes the following:
- weak fairness of each worker's `Step`, because a started thread runs to its end;
- strong fairness of `Dispatch(x)`, because CheckQueue rescans the spool forever and retries an entry whose lock was busy;
- weak fairness of `Expire`, because time passes;
- weak fairness of `Run`, because a QRUN that was sent is answered;
- weak fairness of `Restart`, because the agent is restarted by its manager.

Only `RecipientsSettle` depends on these assumptions.

`PushAgents` assumes weak fairness of each worker step and each QWAIT step, because a started thread runs on. Only `PassesComplete` uses this assumption, and no standing run checks it (see the hazard at queue.c 361). `CompoundFile` and `StoreDelivery` have no fairness and no liveness property: a pass is a finite sequence of steps.

## What is not modelled, and what is next

These parts are not modelled:
- The registry's own state inside `QueueEngine`. The registered stages are a constant there, and `PushAgents` models the registry on its own.
- QDELE and QMOVE from a connection other than a hand-off.
  - Both unlink files without the spool lock, so they would break `QuiescentEntriesConsistent` in every pass run.
  - QMOVE also ignores its target queue: it renames to the source queue again.
  - Both are listed as hazards.
- QCOPY. A copy needs a second entry in the spool. With two entries the crash run grows past 11 million states without finishing, and a QCOPY is otherwise a QCREA whose data comes from another entry.
- The store's side of DELIVER and the connection across passes. A recipient delivered again because a stopping agent turned an accepted delivery into TRY_LATER (queue.c 1170) is a hazard with a note.
- The optional flags field of a calendar line. `"C"` is a line without it, which leaves `flags` as the last local line set it.
- QADDM, whose delivery is compiled out (`REMOVE-MDB`), and the retrieval and search commands. None of them changes the spool.
- `CompoundFileReader::fileLength`, a query that dereferences NULL on an unknown name without any interleaving, and the use after free in `close()`, a hazard with a note.
- The `activeWorkers` check-then-start gap. Spawning is atomic with the check.
- The spam-block counters. The block is a nondeterministic refusal.
- The MIME text of a DSN.
- The DIGEST stage. `case Q_DIGEST` only breaks, although its comment says old entries are removed, so an entry submitted with target 9 never settles. This is listed as a hazard and is not part of any run.

Some branches are reachable in the code but not under the bounds here:
- OutPost with neither bounce nor keep;
- RtsDSN on a missing control file;
- a failed lock in `Start`, which needs two workers.

Next sittings:
1. The `activeWorkers` race.
2. QDELE and QMOVE racing a worker, in a run of their own.
   - The two session hazards each show with one edit of `MCQueueEngine.cfg`:
     - set `MaxDiskFailures = 1` and give the agent the script QMOD TO r1, QMOD TO r2, QDONE. TLC reports `RecipientConservation` violated.
     - give the agent the script QDELE, QMOD TO r1, QDONE. TLC reports `QuiescentEntriesConsistent` violated, because c exists without d.
   - Neither has a run of its own, because the run budget is full.
3. The QRUN `<queue>-<id>` form and QRUN's synchronous `maxSequentialWorkers` branch. The branch needs a third worker slot to fire.
