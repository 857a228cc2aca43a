---------------------------- MODULE QueueEngine ----------------------------
(***************************************************************************)
(* The queue engine of the bongo queue agent                               *)
(* (src/src/agents/queue/queue.c): the on-disk spool of control, work and  *)
(* data files, the worker threads running ProcessQueueEntry under the      *)
(* spool lock, the DSN path HandleDSN, the monitor CheckQueue, the         *)
(* QCREA/QSTOR/QRUN submission commands, and the crash of the process with *)
(* the integrity pass CreateQueueThreads(failed = TRUE) at restart.        *)
(*                                                                         *)
(* Data abstraction.  A control file is a record [stage, body]; a body is  *)
(* the model value Empty (a file of size 0, as HandleDSN leaves it until   *)
(* fclose) or [from, lines] where from is "user", "null" (the "-" sender   *)
(* of a DSN) or "none" (no QUEUE_FROM line) and lines maps each recipient  *)
(* to the kind of its one line:                                            *)
(*   "L"  QUEUE_RECIP_LOCAL / _MBOX_LOCAL whose flags include DSN_FAILURE  *)
(*   "Ln" the same without DSN_FAILURE                                     *)
(*   "R"  QUEUE_RECIP_REMOTE      "C" QUEUE_CALENDAR_LOCAL                 *)
(*   "B"  QUEUE_BOUNCE            "none" no line                           *)
(* Date, flags, ID, address and third-party lines are left out; the date   *)
(* is abstracted to the flag expired[id] (date < now - maxLinger).  One    *)
(* push agent is registered for each stage of PushStages, and it never     *)
(* fails to connect (the registry itself is the module PushAgents); what   *)
(* it sends back on the hand-off connection is one of AgentScripts.        *)
(***************************************************************************)
EXTENDS Naturals, FiniteSets, Sequences, Functions

CONSTANTS
  Ids,            \* entry IDs (the 28-bit counter, see FreeIds)
  Recips,         \* recipient names
  LineOrder,      \* the order of the recipient lines in a control file
  ReturnRcpt,     \* the sender, the recipient of a DSN (BOUNCE_RETURN)
  Workers,        \* ProcessQueueEntry thread slots
  MaxConcurrent,  \* Conf.maxConcurrentWorkers
  Targets,        \* stages a QCREA <target> may name
  Submissions,    \* envelopes a client may store with QSTOR
  MaxSubmissions, \* bound: entries submitted in one behaviour
  MaxCrashes,     \* bound: process crashes in one behaviour
  MaxDiskFailures, \* bound: failed fopen calls in one behaviour
  ForwardUndeliverable, \* Conf.forwardUndeliverableEnabled
  BounceReturn,   \* Conf.bounceHandling & BOUNCE_RETURN
  BounceBlockSpam, \* Conf.bounceBlockSpam (the spam block may fire)
  ArraySize, SlotsPerBucket, Mask, Unused, NoToken,  \* the lock table
  PushStages,     \* stages a push agent is registered for (QWAIT <queue>)
  AgentScripts,   \* command sequences an agent sends on a hand-off
  Empty,          \* body of a zero-length control file
  EmptyMessage,   \* a client may QRUN an entry whose d<id>.msg is empty
  NoFile          \* a file that does not exist

ASSUME ReturnRcpt \in Recips /\ MaxConcurrent \in 1..Cardinality(Workers)
ASSUME LineOrder \in Seq(Recips) /\ Len(LineOrder) = Cardinality(Recips)
       /\ \A r \in Recips : \E i \in 1..Len(LineOrder) : LineOrder[i] = r
ASSUME MaxSubmissions \in Nat /\ MaxCrashes \in Nat /\ MaxDiskFailures \in Nat
ASSUME PushStages \subseteq 0..7 /\ EmptyMessage \in BOOLEAN

VARIABLES
  up,         \* the process is running
  ctl,        \* [Ids -> control file c<id>.<stage> or NoFile]
  work,       \* [Ids -> body of work file w<id>.<stage> or NoFile]
  data,       \* [Ids -> DataFiles]: d<id>.msg and whether it is empty
  expired,    \* [Ids -> BOOLEAN]: the entry's date is older than maxLinger
  lockTable,  \* Queue.spoolLocks.entryIDs
  wk,         \* [Workers -> thread state]
  client,     \* the submitting NMAP client connection
  submitted, crashes, diskFails,  \* bound counters
  fate,       \* history: [Ids -> [Recips -> Fates]]
  reports     \* history: [Ids -> [Recips -> number of DSNs naming r]]

vars == <<up, ctl, work, data, expired, lockTable, wk, client,
          submitted, crashes, diskFails, fate, reports>>

Lock == INSTANCE SpoolLock

(***************************************************************************)
(* Stages (Q_INCOMING = 0 ... Q_DIGEST = 9) and the .in suffix of an entry *)
(* still being submitted.                                                  *)
(***************************************************************************)
INCOMING == 0
DELIVER == 6
OUTGOING == 7
RTS == 8
InStage == 10     \* c<id>.in: not matched by the monitor's name filter
StageNums == 0..9

\* UpdatePushClientsRegistered: the built-in stages and every stage a push
\* agent is registered for.
Registered == {0, 1, 6, 7} \cup PushStages

\* Fault variant of NextStage: the loop that skips unregistered stages
\* is missing.
NextStageNoSkip(q) == IF q < 7 THEN q + 1 ELSE 8

\* The advance switch: i = queue + 1; while (i < 8 && !registered[i]) i++.
NextStage(q) ==
  IF \E i \in (q + 1)..7 : i \in Registered
  THEN CHOOSE i \in (q + 1)..7 : i \in Registered /\
         \A j \in (q + 1)..(i - 1) : j \notin Registered
  ELSE 8

Kinds == {"none", "L", "Ln", "R", "C", "B"}
Bodies == [from : {"user", "null", "none"}, lines : [Recips -> Kinds]]
\* "taken": a push agent deleted the entry with QDELE on its hand-off.
Fates == {"none", "pending", "delivered", "reported", "dropped", "taken"}

HasLines(b) == \E r \in Recips : b.lines[r] # "none"
LinesOf(b, k) == {r \in Recips : b.lines[r] = k}
LinePos(r) == CHOOSE i \in 1..Len(LineOrder) : LineOrder[i] = r
\* A DSN control file as CreateDSNMessage writes it: "F- -" and, with
\* BOUNCE_RETURN, one remote recipient (the original sender).
DSNBody == [from |-> "null",
            lines |-> [r \in Recips |->
                        IF BounceReturn /\ r = ReturnRcpt THEN "R" ELSE "none"]]

\* The history counter reports saturates at 2: a recipient is named in no,
\* one, or more than one DSN.
Sat(n) == IF n > 2 THEN 2 ELSE n

\* A failed fopen, while the bound on disk failures allows one.
CanFail == diskFails < MaxDiskFailures
Failed == diskFails' = diskFails + 1

(***************************************************************************)
(* Worker threads.  A worker holds the locals of ProcessQueueEntry that    *)
(* outlive one step: the entry token (stage, id), the lock pointer idLock, *)
(* keep and bounce, and while it runs HandleDSN the new ID and its lock.   *)
(* cont is where a promotion of the work file continues, caller and rc     *)
(* where HandleDSN returns.  On a push hand-off, sent is the control file  *)
(* streamed to the agent, script the commands it has still to send, and   *)
(* wopen that client->entry.work is open.                                  *)
(***************************************************************************)
NoId == 0
Pcs == {"idle", "start", "incoming", "unlinkC", "renameW", "post",
        "outgoing", "deliver", "bounceOpen", "hd1", "hd2", "hd3",
        "afterDSN", "stripB", "keepOrDrop", "outPost", "rts", "rtsDSN",
        "push", "session", "afterSession"}

IdleWorker == [pc |-> "idle", stage |-> INCOMING, id |-> NoId,
               tok |-> NoToken, keep |-> TRUE, bounce |-> FALSE,
               cont |-> "post", nid |-> NoId, ntok |-> NoToken,
               caller |-> "deliver", rc |-> 0,
               sent |-> Empty, script |-> <<>>, wopen |-> FALSE]

\* d<id>.msg on disk: absent, created empty (by QCREA, or by HandleDSN
\* before its message is written), or holding a message.
DataFiles == {"none", "empty", "msg"}
HasData(x) == data[x] # "none"

Active == Cardinality({w \in Workers : wk[w].pc # "idle"})

\* IDs the counter Queue.queueID may hand out: 2^28 values wrap so rarely
\* that a fresh ID is one no file, lock, thread or client refers to.
FreeIds ==
  {x \in Ids : /\ ctl[x] = NoFile /\ work[x] = NoFile /\ ~HasData(x)
               /\ x \notin Lock!LockedIds(lockTable)
               /\ \A w \in Workers : x \notin {wk[w].id, wk[w].nid}
               /\ client.id # x}

\* XplBeginCountedThread(ProcessQueueEntry, "<stage><id>") into a free slot
\* of the worker map f, when activeWorkers < maxConcurrentWorkers.
Spawn(f, q, id) ==
  IF Cardinality({w \in Workers : f[w].pc # "idle"}) < MaxConcurrent
  THEN LET w == CHOOSE v \in Workers : f[v].pc = "idle" IN
       [f EXCEPT ![w] = [IdleWorker EXCEPT !.pc = "start", !.stage = q,
                                            !.id = id]]
  ELSE f

\* Fault variant of ExitTable: the clean-up forgets SpoolEntryIDUnlock.
ExitTableKeepsLock(w) == lockTable

\* ProcessQueueEntryCleanUp: unlock idLock if set, the thread exits.
ExitTable(w) ==
  IF wk[w].tok # NoToken THEN Lock!AfterUnlock(lockTable, wk[w].tok)
  ELSE lockTable
Exit(w) ==
  /\ lockTable' = ExitTable(w)
  /\ wk' = [wk EXCEPT ![w] = IdleWorker]

\* SpoolEntryIDUnlock(idLock); entryIn = "<q><entry>"; goto StartOver.
\* The locals keep and bounce survive the jump; the hand-off client was
\* freed.
StartOverAt(w, q) ==
  /\ lockTable' = ExitTable(w)
  /\ wk' = [wk EXCEPT ![w].pc = "start", ![w].stage = q, ![w].tok = NoToken,
                      ![w].sent = Empty, ![w].script = <<>>, ![w].wopen = FALSE]

\* The file of a control file moved to another stage by RENAME_CHECK.
Moved(id, q) == IF ctl[id] = NoFile THEN ctl
                ELSE [ctl EXCEPT ![id] = [stage |-> q, body |-> ctl[id].body]]

\* Fault variant of Discarded: the data file is not unlinked.
DiscardedKeepsData(id) ==
  /\ ctl' = [ctl EXCEPT ![id] = NoFile]
  /\ work' = [work EXCEPT ![id] = NoFile]
  /\ UNCHANGED data

\* Unlinking c, w and d of an entry.
Discarded(id) ==
  /\ ctl' = [ctl EXCEPT ![id] = NoFile]
  /\ work' = [work EXCEPT ![id] = NoFile]
  /\ data' = [data EXCEPT ![id] = "none"]

\* The recipients S of entry id reach fate v.
SetFate(f, id, S, v) ==
  [f EXCEPT ![id] = [r \in Recips |-> IF r \in S THEN v ELSE f[id][r]]]

PreStep(q) ==
  CASE q = INCOMING -> "incoming"
    [] q = OUTGOING -> "outgoing"
    [] q = DELIVER  -> "deliver"
    [] q = RTS      -> "rts"
    [] OTHER        -> "post"

(***************************************************************************)
(* StartOver: SpoolEntryIDLock(entryID); on NULL the thread exits.  Then   *)
(* fopen(c<entry>.<queue>, "r+b") and read the date line; a missing file   *)
(* (the token is stale) ends the thread.                                   *)
(***************************************************************************)
Start(w) ==
  LET id  == wk[w].id
      q   == wk[w].stage
      tok == Lock!TryLock(lockTable, id)
  IN /\ wk[w].pc = "start"
     /\ \/ /\ tok = NoToken
           /\ wk' = [wk EXCEPT ![w] = IdleWorker]
           /\ UNCHANGED lockTable
        \/ /\ tok # NoToken
           /\ ctl[id] # NoFile /\ ctl[id].stage = q
           /\ lockTable' = Lock!AfterLock(lockTable, id)
           /\ wk' = [wk EXCEPT ![w].tok = tok, ![w].pc = PreStep(q)]
        \/ /\ tok # NoToken
           /\ ~(ctl[id] # NoFile /\ ctl[id].stage = q)
           /\ wk' = [wk EXCEPT ![w] = IdleWorker]
           /\ UNCHANGED lockTable
     /\ UNCHANGED <<ctl, work, data, fate, reports, diskFails>>

(***************************************************************************)
(* case Q_INCOMING: sort the envelope into w<entry>.000.  A failed fopen   *)
(* of the work file, or a control file of at most 8 bytes, takes the       *)
(* "Write error in queue" path: the work file is unlinked and the entry    *)
(* left for the next scan.  An envelope without QUEUE_FROM or without any  *)
(* recipient or bounce line is consumed: c, w and d are unlinked.          *)
(***************************************************************************)
Incoming(w) ==
  LET id == wk[w].id
      b  == ctl[id].body
  IN /\ wk[w].pc = "incoming"
     /\ \/ /\ CanFail /\ Failed
           /\ Exit(w)
           /\ UNCHANGED <<ctl, work, data, fate>>
        \/ /\ b = Empty
           /\ Exit(w)
           /\ UNCHANGED <<ctl, work, data, fate, diskFails>>
        \/ /\ b # Empty /\ (b.from = "none" \/ ~HasLines(b))
           /\ Discarded(id)
           /\ fate' = SetFate(fate, id, {r \in Recips : b.lines[r] # "none"},
                              "dropped")
           /\ Exit(w)
           /\ UNCHANGED diskFails
        \/ /\ b # Empty /\ b.from # "none" /\ HasLines(b)
           /\ work' = [work EXCEPT ![id] = b]
           /\ wk' = [wk EXCEPT ![w].pc = "unlinkC", ![w].cont = "post"]
           /\ UNCHANGED <<ctl, data, fate, lockTable, diskFails>>
     /\ UNCHANGED reports

(***************************************************************************)
(* The promotion of a work file, UNLINK_CHECK(c) then RENAME_CHECK(w, c):  *)
(* two system calls, between which the entry has no control file.  A       *)
(* rename of a missing work file fails and leaves no control file.         *)
(***************************************************************************)
PromoteUnlink(w) ==
  /\ wk[w].pc = "unlinkC"
  /\ ctl' = [ctl EXCEPT ![wk[w].id] = NoFile]
  /\ wk' = [wk EXCEPT ![w].pc = "renameW"]
  /\ UNCHANGED <<work, data, lockTable, fate, reports, diskFails>>

PromoteRename(w) ==
  LET id == wk[w].id IN
  /\ wk[w].pc = "renameW"
  /\ ctl' = IF work[id] = NoFile THEN ctl
            ELSE [ctl EXCEPT ![id] = [stage |-> wk[w].stage, body |-> work[id]]]
  /\ work' = [work EXCEPT ![id] = NoFile]
  /\ IF wk[w].cont = "exit" THEN Exit(w)
     ELSE /\ wk' = [wk EXCEPT ![w].pc = wk[w].cont]
          /\ UNCHANGED lockTable
  /\ UNCHANGED <<data, fate, reports, diskFails>>

(***************************************************************************)
(* The death of the process: every thread, the lock table and the client   *)
(* connection are gone; the files stay.                                    *)
(***************************************************************************)
NoClient == [pc |-> "idle", id |-> NoId, target |-> INCOMING]

ProcessDies ==
  /\ up' = FALSE
  /\ wk' = [w \in Workers |-> IdleWorker]
  /\ lockTable' = Lock!InitTable
  /\ client' = NoClient

(***************************************************************************)
(* After the pre-processing switch: stat(d<entry>.msg) (a missing data     *)
(* file ends the thread), the push-agent loop when an agent is registered *)
(* for the stage, then the advance switch: stages 0..6 rename c to the     *)
(* next registered stage and start over; OUTGOING goes on to its          *)
(* post-processing; other stages end the thread.                           *)
(***************************************************************************)
Advance(w) ==
  LET id == wk[w].id
      q  == wk[w].stage
  IN \/ /\ q \in 0..6
        /\ ctl' = Moved(id, NextStage(q))
        /\ StartOverAt(w, NextStage(q))
     \/ /\ q = OUTGOING
        /\ wk' = [wk EXCEPT ![w].pc = "outPost", ![w].sent = Empty,
                            ![w].script = <<>>, ![w].wopen = FALSE]
        /\ UNCHANGED <<ctl, lockTable>>

Post(w) ==
  LET id == wk[w].id
      q  == wk[w].stage
  IN /\ wk[w].pc = "post"
     /\ \/ /\ HasData(id) /\ q \in 0..7 /\ q \notin PushStages
           /\ Advance(w)
        \/ /\ HasData(id) /\ q \in PushStages
           /\ wk' = [wk EXCEPT ![w].pc = "push"]
           /\ UNCHANGED <<ctl, lockTable>>
        \/ /\ ~HasData(id) \/ q \notin 0..7
           /\ Exit(w)
           /\ UNCHANGED ctl
     /\ UNCHANGED <<work, data, fate, reports, diskFails>>

(***************************************************************************)
(* The push-agent loop for the agent registered for this stage: stat and   *)
(* fopen c (a missing c ends the thread; a failed FOPEN_CHECK leaves fh    *)
(* NULL, and the fseek(fh, 0, SEEK_SET) after the if kills the process),   *)
(* connect, stream c and d (6020, 6021), and give the connection to       *)
(* HandleCommand: the agent's commands run on this thread, under its       *)
(* spool lock.  The self-connect check, a failed connect and the          *)
(* usageCount and errorCount bookkeeping are modelled in PushAgents.       *)
(***************************************************************************)
PushOpen(w) ==
  LET id == wk[w].id IN
  /\ wk[w].pc = "push"
  /\ \/ /\ ctl[id] = NoFile
        /\ Exit(w)
        /\ UNCHANGED <<up, client, diskFails>>
     \/ /\ ctl[id] # NoFile /\ CanFail /\ Failed
        /\ ProcessDies
     \/ /\ ctl[id] # NoFile
        /\ \E s \in AgentScripts :
             wk' = [wk EXCEPT ![w].pc = "session", ![w].sent = ctl[id].body,
                              ![w].script = s, ![w].wopen = FALSE]
        /\ UNCHANGED <<up, client, lockTable, diskFails>>
  /\ UNCHANGED <<ctl, work, data, expired, fate, reports>>

(***************************************************************************)
(* The commands of an agent on its hand-off connection.  QMOD FROM copies  *)
(* the sender line of the control file it was sent, QMOD TO, LOCAL,        *)
(* MAILBOX and RAW copy a recipient line, QRTS writes a QUEUE_BOUNCE line  *)
(* for a recipient; the first of them opens w<entry>.<queue> with "wb"     *)
(* (a failed fopen returns 0 and the line is lost, with no reply).  QDONE  *)
(* closes w and, if w and c exist, unlinks c and renames w to c; if only   *)
(* w exists it renames it; it ends HandleCommand.  QDELE unlinks c and d.  *)
(* QABRT closes and unlinks w.                                             *)
(***************************************************************************)
AgentOps == {"from", "line", "rts", "done", "dele", "abrt"}
Cmds == [op : AgentOps, rcpt : Recips]

Blank == [from |-> "none", lines |-> [r \in Recips |-> "none"]]

Written(base, c, sent) ==
  CASE c.op = "from" -> [base EXCEPT !.from = sent.from]
    [] c.op = "line" -> [base EXCEPT !.lines[c.rcpt] = sent.lines[c.rcpt]]
    [] OTHER         -> [base EXCEPT !.lines[c.rcpt] = "B"]

\* The first QMOD or QRTS of a session opens w<entry>.<queue> with "wb";
\* when that fopen fails the handler returns 0: no reply, the line is lost
\* and the session goes on.
WorkOpenFails(w) ==
  /\ Head(wk[w].script).op \in {"from", "line", "rts"} /\ ~wk[w].wopen
  /\ CanFail /\ Failed
  /\ wk' = [wk EXCEPT ![w].script = Tail(@)]
  /\ UNCHANGED <<ctl, work, data, fate>>

\* QMOD FROM, TO, LOCAL, MAILBOX, RAW and QRTS: one line written to w.
QmodWrite(w) ==
  LET id == wk[w].id
      c  == Head(wk[w].script)
  IN /\ c.op \in {"from", "line", "rts"}
     /\ work' = [work EXCEPT ![id] =
           Written(IF wk[w].wopen THEN work[id] ELSE Blank, c, wk[w].sent)]
     /\ wk' = [wk EXCEPT ![w].script = Tail(@), ![w].wopen = TRUE]
     /\ UNCHANGED <<ctl, data, fate, diskFails>>

\* QDONE: with w open, unlink c and rename w over it (the rename is the
\* PromoteRename step, so a crash can fall between them), or rename w
\* alone when c is gone; then the session ends.
Qdone(w) ==
  LET id == wk[w].id IN
  /\ Head(wk[w].script).op = "done"
  /\ \/ /\ wk[w].wopen /\ ctl[id] # NoFile
        /\ ctl' = [ctl EXCEPT ![id] = NoFile]
        /\ wk' = [wk EXCEPT ![w].pc = "renameW", ![w].cont = "afterSession",
                            ![w].script = <<>>, ![w].wopen = FALSE]
        /\ UNCHANGED work
     \/ /\ wk[w].wopen /\ ctl[id] = NoFile
        /\ ctl' = [ctl EXCEPT ![id] = [stage |-> wk[w].stage, body |-> work[id]]]
        /\ work' = [work EXCEPT ![id] = NoFile]
        /\ wk' = [wk EXCEPT ![w].pc = "afterSession", ![w].script = <<>>,
                            ![w].wopen = FALSE]
     \/ /\ ~wk[w].wopen
        /\ wk' = [wk EXCEPT ![w].pc = "afterSession", ![w].script = <<>>]
        /\ UNCHANGED <<ctl, work>>
  /\ UNCHANGED <<data, fate, diskFails>>

\* QDELE: unlink c and d of the entry (with no lock of its own, and w left
\* open: "FIXME: close out the file handles?").
Qdele(w) ==
  LET id == wk[w].id IN
  /\ Head(wk[w].script).op = "dele"
  /\ ctl' = [ctl EXCEPT ![id] = NoFile]
  /\ data' = [data EXCEPT ![id] = "none"]
  /\ fate' = SetFate(fate, id, {r \in Recips : fate[id][r] = "pending"}, "taken")
  /\ wk' = [wk EXCEPT ![w].script = Tail(@)]
  /\ UNCHANGED <<work, diskFails>>

\* QABRT on a hand-off connection: close and unlink w.
QabrtWork(w) ==
  LET id == wk[w].id IN
  /\ Head(wk[w].script).op = "abrt"
  /\ work' = IF wk[w].wopen THEN [work EXCEPT ![id] = NoFile] ELSE work
  /\ wk' = [wk EXCEPT ![w].script = Tail(@), ![w].wopen = FALSE]
  /\ UNCHANGED <<ctl, data, fate, diskFails>>

\* HandleCommand(client): the agent's next command.
AgentCommand(w) ==
  /\ wk[w].pc = "session" /\ wk[w].script # <<>>
  /\ \/ WorkOpenFails(w) \/ QmodWrite(w) \/ Qdone(w) \/ Qdele(w) \/ QabrtWork(w)
  /\ UNCHANGED <<lockTable, reports>>

(***************************************************************************)
(* HandleCommand has returned (QDONE, or the agent closed the connection): *)
(* a work file still open is closed and removed; if c<entry>.<queue> is   *)
(* gone (access fails) the thread ends, else the loop goes on to the       *)
(* advance switch.                                                         *)
(***************************************************************************)
AfterSession(w) ==
  LET id == wk[w].id IN
  /\ \/ wk[w].pc = "afterSession"
     \/ wk[w].pc = "session" /\ wk[w].script = <<>>
  /\ work' = IF wk[w].wopen THEN [work EXCEPT ![id] = NoFile] ELSE work
  /\ \/ /\ ctl[id] = NoFile
        /\ Exit(w)
        /\ UNCHANGED ctl
     \/ /\ ctl[id] # NoFile
        /\ Advance(w)
  /\ UNCHANGED <<data, fate, reports, diskFails>>

\* Fault variant of Outgoing: the maxLinger check is missing, so an entry
\* is never returned to its sender.
OutgoingNoLinger(w) ==
  /\ wk[w].pc = "outgoing"
  /\ wk' = [wk EXCEPT ![w].pc = "deliver"]
  /\ UNCHANGED <<ctl, lockTable, work, data, fate, reports, diskFails>>

(***************************************************************************)
(* case Q_OUTGOING: an entry older than maxLinger is renamed to RTS and    *)
(* processed again; otherwise (CheckIfDeliveryDeferred is always FALSE)    *)
(* it falls through to Q_DELIVER.                                          *)
(***************************************************************************)
Outgoing(w) ==
  LET id == wk[w].id IN
  /\ wk[w].pc = "outgoing"
  /\ \/ /\ expired[id]
        /\ ctl' = Moved(id, RTS)
        /\ StartOverAt(w, RTS)
     \/ /\ ~expired[id]
        /\ wk' = [wk EXCEPT ![w].pc = "deliver"]
        /\ UNCHANGED <<ctl, lockTable>>
  /\ UNCHANGED <<work, data, fate, reports, diskFails>>

\* Whether DSN_FAILURE is set in the variable flags of Q_DELIVER when the
\* i-th recipient line is copied.  flags starts as DSN_FAILURE|HEADER|BODY,
\* a local line overwrites it with its own flags field ("L" has
\* DSN_FAILURE, "Ln" has not), a forwarded local line zeroes it, and no
\* other line touches it: a calendar line "C", written by QSTOR CAL
\* without its optional flags field, is judged by the flags of the local
\* line copied before it.
RECURSIVE FailureFlag(_, _)
FailureFlag(b, i) ==
  IF i = 1 THEN TRUE
  ELSE LET k == b.lines[LineOrder[i - 1]] IN
       CASE k = "L"  -> ~ForwardUndeliverable
         [] k = "Ln" -> FALSE
         [] OTHER    -> FailureFlag(b, i - 1)

\* The line a recipient line becomes in the rewritten control file of
\* Q_DELIVER.  With the directory lookup compiled out (REMOVE-MDB), a local
\* recipient is DELIVER_USER_UNKNOWN: forwarded as a remote recipient when
\* forwardUndeliverableEnabled, else a QUEUE_BOUNCE line if its DSN_FAILURE
\* is set, else nothing.  A calendar recipient goes to DeliverToStore, whose
\* result co is success (no line: the default flags lack DSN_SUCCESS), a
\* terminal failure (a bounce line if the current flags f have
\* DSN_FAILURE) or a transient one (the line is kept).
DeliverLine(k, co, f) ==
  CASE k = "L"  -> IF ForwardUndeliverable THEN "R" ELSE "B"
    [] k = "Ln" -> IF ForwardUndeliverable THEN "R" ELSE "none"
    [] k = "C"  -> (CASE co = "ok"   -> "none"
                      [] co = "fail" -> IF f THEN "B" ELSE "none"
                      [] OTHER       -> "C")
    [] OTHER    -> k

(***************************************************************************)
(* case Q_DELIVER: copy c into w line by line, delivering local and        *)
(* calendar recipients on the way.  keep is set by every line left for a   *)
(* later pass, bounce by every bounce line.  A failed fopen of c or w ends *)
(* the thread.  With bounce the work file is promoted and the DSN made;    *)
(* else with keep it is promoted and the entry advances; else c, w and d   *)
(* are unlinked.                                                           *)
(***************************************************************************)
Deliver(w) ==
  LET id == wk[w].id
      b  == ctl[id].body
  IN /\ wk[w].pc = "deliver"
     /\ \/ /\ CanFail /\ Failed
           /\ Exit(w)
           /\ UNCHANGED <<ctl, work, data, fate>>
        \/ \E co \in [LinesOf(b, "C") -> {"ok", "fail", "later"}] :
           LET nl == [r \in Recips |->
                        DeliverLine(b.lines[r],
                                    IF r \in DOMAIN co THEN co[r] ELSE "later",
                                    FailureFlag(b, LinePos(r)))]
               keep   == \E r \in Recips : nl[r] \in {"R", "C"}
               bounce == \E r \in Recips : nl[r] = "B"
               f1 == SetFate(fate, id, {r \in DOMAIN co : co[r] = "ok"},
                             "delivered")
               f2 == IF ForwardUndeliverable THEN f1
                     ELSE SetFate(f1, id, LinesOf(b, "Ln"), "dropped")
           IN /\ fate' = f2
              /\ \/ /\ bounce
                    /\ work' = [work EXCEPT ![id] = [b EXCEPT !.lines = nl]]
                    /\ wk' = [wk EXCEPT ![w].pc = "unlinkC", ![w].keep = keep,
                                   ![w].bounce = TRUE, ![w].cont = "bounceOpen"]
                    /\ UNCHANGED <<ctl, data, lockTable>>
                 \/ /\ ~bounce /\ keep
                    /\ work' = [work EXCEPT ![id] = [b EXCEPT !.lines = nl]]
                    /\ wk' = [wk EXCEPT ![w].pc = "unlinkC", ![w].keep = TRUE,
                                   ![w].bounce = FALSE, ![w].cont = "post"]
                    /\ UNCHANGED <<ctl, data, lockTable>>
                 \/ /\ ~bounce /\ ~keep
                    /\ Discarded(id)
                    /\ Exit(w)
           /\ UNCHANGED diskFails
     /\ UNCHANGED reports

(***************************************************************************)
(* The bounce branch of Q_DELIVER, after the promotion: fopen the data and *)
(* the new control file; if either fails the thread ends (return FALSE),   *)
(* else HandleDSN(data, fh).                                               *)
(***************************************************************************)
BounceOpen(w) ==
  LET id == wk[w].id IN
  /\ wk[w].pc = "bounceOpen"
  /\ \/ /\ CanFail /\ Failed
        /\ Exit(w)
     \/ /\ IF HasData(id) /\ ctl[id] # NoFile
           THEN /\ wk' = [wk EXCEPT ![w].pc = "hd1", ![w].caller = "deliver"]
                /\ UNCHANGED lockTable
           ELSE Exit(w)
        /\ UNCHANGED diskFails
  /\ UNCHANGED <<ctl, work, data, fate, reports>>

(***************************************************************************)
(* HandleDSN(data, control), in three steps.                               *)
(* 1: id = Queue.queueID++; fopen(c<id>.000, "wb") (failure: return -1).   *)
(*    The file exists, empty, from here on and the monitor may see it.     *)
(* 2: idLock = SpoolEntryIDLock(id), unchecked; fopen(d<id>.msg, "wb")     *)
(*    (failure: return -1, with c<id>.000 and the lock left behind).       *)
(* 3: CreateDSNMessage; on FALSE unlink d and c; fclose; then              *)
(*    SpoolEntryIDUnlock(idLock), which reads *idLock first: with a NULL   *)
(*    idLock the process dies.  On TRUE a worker is spawned for the new    *)
(*    entry if activeWorkers < maxConcurrentWorkers.                       *)
(***************************************************************************)
HandleDSN1(w) ==
  /\ wk[w].pc = "hd1"
  /\ \/ /\ CanFail /\ Failed
        /\ wk' = [wk EXCEPT ![w].pc = "afterDSN", ![w].rc = -1]
        /\ UNCHANGED <<ctl, expired>>
     \/ \E x \in FreeIds :
          /\ ctl' = [ctl EXCEPT ![x] = [stage |-> INCOMING, body |-> Empty]]
          /\ expired' = [expired EXCEPT ![x] = FALSE]
          /\ wk' = [wk EXCEPT ![w].pc = "hd2", ![w].nid = x]
          /\ UNCHANGED diskFails
  /\ UNCHANGED <<up, client, work, data, lockTable, fate, reports>>

HandleDSN2(w) ==
  LET x == wk[w].nid IN
  /\ wk[w].pc = "hd2"
  /\ lockTable' = Lock!AfterLock(lockTable, x)
  /\ \/ /\ CanFail /\ Failed
        /\ wk' = [wk EXCEPT ![w].pc = "afterDSN", ![w].rc = -1,
                            ![w].ntok = Lock!TryLock(lockTable, x)]
        /\ UNCHANGED data
     \/ /\ data' = [data EXCEPT ![x] = "empty"]
        /\ wk' = [wk EXCEPT ![w].pc = "hd3",
                            ![w].ntok = Lock!TryLock(lockTable, x)]
        /\ UNCHANGED diskFails
  /\ UNCHANGED <<ctl, work, fate, reports>>

\* CreateDSNMessage refuses a null sender ("we don't bounce bounces") and
\* a control file without a bounce line.
DSNRefused(b) == b.from = "null" \/ LinesOf(b, "B") = {}

HandleDSN3(w) ==
  LET id == wk[w].id
      x  == wk[w].nid
      b  == ctl[id].body
      bs == LinesOf(b, "B")
      ret == [wk EXCEPT ![w].pc = "afterDSN", ![w].rc = 0,
                        ![w].nid = NoId, ![w].ntok = NoToken]
      unlocked == Lock!AfterUnlock(lockTable, wk[w].ntok)
  IN /\ wk[w].pc = "hd3"
     /\ \/ /\ \/ DSNRefused(b)
              \/ BounceBlockSpam   \* the spam block fires
           /\ ctl' = [ctl EXCEPT ![x] = NoFile]
           /\ data' = [data EXCEPT ![x] = "none"]
           /\ fate' = SetFate(fate, id, bs, "dropped")
           /\ UNCHANGED reports
           /\ \/ /\ wk[w].ntok # NoToken
                 /\ lockTable' = unlocked /\ wk' = ret
                 /\ UNCHANGED <<up, client>>
              \/ /\ wk[w].ntok = NoToken
                 /\ ProcessDies
        \/ /\ ~DSNRefused(b)
           /\ ctl' = [ctl EXCEPT ![x] = [stage |-> INCOMING, body |-> DSNBody]]
           /\ fate' = [SetFate(fate, id, bs, "reported") EXCEPT ![x] =
                         [r \in Recips |-> IF DSNBody.lines[r] # "none"
                                           THEN "pending" ELSE "none"]]
           /\ reports' = [reports EXCEPT ![id] =
                            [r \in Recips |-> IF r \in bs THEN Sat(@[r] + 1) ELSE @[r]],
                                         ![x] = [r \in Recips |-> 0]]
           /\ data' = [data EXCEPT ![x] = "msg"]
           /\ \/ /\ wk[w].ntok # NoToken
                 /\ lockTable' = unlocked /\ wk' = Spawn(ret, INCOMING, x)
                 /\ UNCHANGED <<up, client>>
              \/ /\ wk[w].ntok = NoToken
                 /\ ProcessDies
     /\ UNCHANGED <<work, expired, diskFails>>

\* Fault variant of AfterDSN: Q_RTS and the Q_OUTGOING drop unlink the
\* control file but not the data file.
AfterDSNKeepsData(w) ==
  LET c  == wk[w].caller
      ok == wk[w].rc = 0
  IN /\ wk[w].pc = "afterDSN"
     /\ \/ /\ ok /\ (c = "deliver" \/ (c = "out" /\ wk[w].keep))
           /\ wk' = [wk EXCEPT ![w].pc = "stripB", ![w].nid = NoId,
                               ![w].ntok = NoToken]
           /\ UNCHANGED <<ctl, data, lockTable>>
        \/ /\ c = "rts" \/ (ok /\ c = "out" /\ ~wk[w].keep)
           /\ ctl' = [ctl EXCEPT ![wk[w].id] = NoFile]
           /\ Exit(w)
           /\ UNCHANGED data
        \/ /\ ~ok /\ c # "rts"
           /\ Exit(w)
           /\ UNCHANGED <<ctl, data>>
     /\ UNCHANGED <<work, fate, reports, diskFails>>

(***************************************************************************)
(* The callers' continuations after HandleDSN returns.                     *)
(*   Q_DELIVER: 0 -> rewrite w without bounce lines; -1 -> return FALSE.   *)
(*   Q_OUTGOING: 0 with keep -> rewrite; 0 without keep -> unlink c and d; *)
(*               -1 -> end the thread.                                     *)
(*   Q_RTS: the result is ignored; c and d are unlinked.                   *)
(***************************************************************************)
AfterDSN(w) ==
  LET id == wk[w].id
      c  == wk[w].caller
      ok == wk[w].rc = 0
      next == [wk EXCEPT ![w].pc = "stripB", ![w].nid = NoId,
                         ![w].ntok = NoToken]
  IN /\ wk[w].pc = "afterDSN"
     /\ \/ /\ ok /\ (c = "deliver" \/ (c = "out" /\ wk[w].keep))
           /\ wk' = next
           /\ UNCHANGED <<ctl, data, lockTable>>
        \/ /\ c = "rts" \/ (ok /\ c = "out" /\ ~wk[w].keep)
           /\ ctl' = [ctl EXCEPT ![id] = NoFile]
           /\ data' = [data EXCEPT ![id] = "none"]
           /\ Exit(w)
        \/ /\ ~ok /\ c # "rts"
           /\ Exit(w)
           /\ UNCHANGED <<ctl, data>>
     /\ UNCHANGED <<work, fate, reports, diskFails>>

\* Fault variant of WithoutBounces: the QUEUE_BOUNCE case of the copy loop
\* is missing and the bounce lines are copied too.
WithoutBouncesKeepsAll(b) == b

\* A control file without its bounce lines.
WithoutBounces(b) ==
  [b EXCEPT !.lines = [r \in Recips |-> IF b.lines[r] = "B" THEN "none"
                                        ELSE b.lines[r]]]

(***************************************************************************)
(* fopen(w, "wb") and copy c into it without the QUEUE_BOUNCE lines.  For *)
(* Q_DELIVER the keep decision follows, whether or not the fopen worked;   *)
(* for Q_OUTGOING the rewritten file is promoted, or on failure the thread *)
(* ends with c unchanged.                                                  *)
(***************************************************************************)
StripBounces(w) ==
  LET id == wk[w].id
      c  == wk[w].caller
  IN /\ wk[w].pc = "stripB"
     /\ \/ /\ CanFail /\ Failed
           /\ UNCHANGED work
           /\ IF c = "deliver"
              THEN /\ wk' = [wk EXCEPT ![w].pc = "keepOrDrop"]
                   /\ UNCHANGED lockTable
              ELSE Exit(w)
        \/ /\ work' = [work EXCEPT ![id] = WithoutBounces(ctl[id].body)]
           /\ wk' = [wk EXCEPT ![w].pc = IF c = "deliver" THEN "keepOrDrop"
                                          ELSE "unlinkC",
                               ![w].cont = "exit"]
           /\ UNCHANGED <<lockTable, diskFails>>
     /\ UNCHANGED <<ctl, data, fate, reports>>

\* The end of Q_DELIVER: promote w and advance with keep, else unlink all.
KeepOrDrop(w) ==
  LET id == wk[w].id IN
  /\ wk[w].pc = "keepOrDrop"
  /\ \/ /\ wk[w].keep
        /\ wk' = [wk EXCEPT ![w].pc = "unlinkC", ![w].cont = "post"]
        /\ UNCHANGED <<ctl, work, data, lockTable>>
     \/ /\ ~wk[w].keep
        /\ Discarded(id)
        /\ Exit(w)
  /\ UNCHANGED <<fate, reports, diskFails>>

(***************************************************************************)
(* The post-processing of Q_OUTGOING: read c again (QDBRemoveID/QDBAdd are *)
(* left out).  Any recipient line sets keep, a bounce line sets bounce,    *)
(* which keeps its value from the Q_DELIVER pass.  A control file that     *)
(* cannot be opened counts as keep.  With bounce, fopen d and c and call   *)
(* HandleDSN (a failed fopen ends the thread); else without keep c and d   *)
(* are unlinked; else the entry stays in OUTGOING.                         *)
(***************************************************************************)
OutPost(w) ==
  LET id == wk[w].id
      present == ctl[id] # NoFile
      keep == ~present \/ \E r \in Recips :
                            ctl[id].body.lines[r] \in {"C", "L", "Ln", "R"}
      bounce == wk[w].bounce \/ (present /\ LinesOf(ctl[id].body, "B") # {})
  IN /\ wk[w].pc = "outPost"
     /\ \/ /\ bounce /\ CanFail /\ Failed
           /\ Exit(w)
           /\ UNCHANGED <<ctl, data>>
        \/ /\ bounce
           /\ IF present
              THEN /\ wk' = [wk EXCEPT ![w].pc = "hd1", ![w].caller = "out",
                                       ![w].keep = keep, ![w].bounce = TRUE]
                   /\ UNCHANGED lockTable
              ELSE Exit(w)
           /\ UNCHANGED <<ctl, data, diskFails>>
        \/ /\ ~bounce /\ ~keep
           /\ ctl' = [ctl EXCEPT ![id] = NoFile]
           /\ data' = [data EXCEPT ![id] = "none"]
           /\ Exit(w)
           /\ UNCHANGED diskFails
        \/ /\ ~bounce /\ keep
           /\ Exit(w)
           /\ UNCHANGED <<ctl, data, diskFails>>
     /\ UNCHANGED <<work, fate, reports>>

\* Fault variant of RtsLine: the QUEUE_RECIP_REMOTE case is missing and a
\* remote recipient line is dropped without a bounce line.
RtsLineDropsRemote(k) ==
  CASE k \in {"L", "Ln"} -> "B"
    [] k \in {"C", "R"}   -> "none"
    [] OTHER              -> k

\* The line a recipient line becomes when Q_RTS bounces an expired entry:
\* local and remote recipients get a QUEUE_BOUNCE line (DELIVER_TOO_LONG),
\* calendar lines are dropped ("We don't bounce those yet").
RtsLine(k) ==
  CASE k \in {"L", "Ln", "R"} -> "B"
    [] k = "C"                -> "none"
    [] OTHER                  -> k

(***************************************************************************)
(* case Q_RTS.  Not expired: rename c to stage 0 and start over.  Expired: *)
(* fopen w "wb", d and c "rb"; if any fails the others are closed and the  *)
(* thread ends, leaving w behind when it was created.  Else w gets the     *)
(* bounce lines, is promoted, and HandleDSN runs on the new c.             *)
(***************************************************************************)
Rts(w) ==
  LET id == wk[w].id
      b  == ctl[id].body
  IN /\ wk[w].pc = "rts"
     /\ \/ /\ ~expired[id]
           /\ ctl' = Moved(id, INCOMING)
           /\ StartOverAt(w, INCOMING)
           /\ UNCHANGED <<work, fate, diskFails>>
        \/ /\ expired[id] /\ CanFail /\ Failed   \* w cannot be created
           /\ Exit(w)
           /\ UNCHANGED <<ctl, work, fate>>
        \/ /\ expired[id] /\ CanFail /\ Failed   \* d or c cannot be opened
           /\ work' = [work EXCEPT ![id] = Empty]
           /\ Exit(w)
           /\ UNCHANGED <<ctl, fate>>
        \/ /\ expired[id]
           /\ work' = [work EXCEPT ![id] =
                         [b EXCEPT !.lines = [r \in Recips |-> RtsLine(b.lines[r])]]]
           /\ fate' = SetFate(fate, id, LinesOf(b, "C"), "dropped")
           /\ wk' = [wk EXCEPT ![w].pc = "unlinkC", ![w].cont = "rtsDSN"]
           /\ UNCHANGED <<ctl, lockTable, diskFails>>
     /\ UNCHANGED <<data, reports>>

\* fopen(c, "rb") after the promotion and HandleDSN, its result ignored;
\* then, also when the fopen failed, c and d are unlinked.
RtsDSN(w) ==
  LET id == wk[w].id IN
  /\ wk[w].pc = "rtsDSN"
  /\ \/ /\ ctl[id] # NoFile
        /\ wk' = [wk EXCEPT ![w].pc = "hd1", ![w].caller = "rts"]
        /\ UNCHANGED <<ctl, data, lockTable, diskFails>>
     \/ /\ ctl[id] # NoFile /\ CanFail /\ Failed
        /\ ctl' = [ctl EXCEPT ![id] = NoFile]
        /\ data' = [data EXCEPT ![id] = "none"]
        /\ Exit(w)
     \/ /\ ctl[id] = NoFile
        /\ data' = [data EXCEPT ![id] = "none"]
        /\ Exit(w)
        /\ UNCHANGED <<ctl, diskFails>>
  /\ UNCHANGED <<work, fate, reports>>

(***************************************************************************)
(* The other actors.                                                       *)
(***************************************************************************)

\* Fault variant of Dispatch: the name filter of the scan also accepts
\* c<id>.in, an entry whose QRUN has not come yet.
DispatchAnyStage(x) ==
  /\ up
  /\ ctl[x] # NoFile
  /\ Active < MaxConcurrent
  /\ wk' = Spawn(wk, ctl[x].stage, x)
  /\ UNCHANGED <<up, ctl, work, data, expired, lockTable, client,
                 submitted, crashes, diskFails, fate, reports>>

\* CheckQueue: a directory entry c<id>.<digit..> is dispatched once the
\* worker count is below maxConcurrentWorkers (it busy-waits until then).
\* Skipping a recent OUTGOING entry, and the pause every 32 dispatches,
\* are a dispatch that does not happen yet.
Dispatch(x) ==
  /\ up
  /\ ctl[x] # NoFile /\ ctl[x].stage \in StageNums
  /\ Active < MaxConcurrent
  /\ wk' = Spawn(wk, ctl[x].stage, x)
  /\ UNCHANGED <<up, ctl, work, data, expired, lockTable, client,
                 submitted, crashes, diskFails, fate, reports>>

\* Time passes: the date line of entry x becomes older than maxLinger
\* (while the entry exists, i.e. has its data file).
Expire(x) ==
  /\ HasData(x) /\ ~expired[x]
  /\ expired' = [expired EXCEPT ![x] = TRUE]
  /\ UNCHANGED <<up, ctl, work, data, lockTable, wk, client,
                 submitted, crashes, diskFails, fate, reports>>

\* CommandQcrea: c<id>.in holding only the date line, and an empty
\* d<id>.msg; the handles stay open.  A second QCREA on an open entry is
\* not modelled (the FIXME at its top), nor are the refusals that create
\* nothing (disk space low, bad argument, fopen failure).
Dated == [from |-> "none", lines |-> [r \in Recips |-> "none"]]

Qcrea ==
  /\ up /\ client.pc = "idle" /\ submitted < MaxSubmissions
  /\ \E x \in FreeIds, t \in Targets :
       /\ ctl' = [ctl EXCEPT ![x] = [stage |-> InStage, body |-> Dated]]
       /\ data' = [data EXCEPT ![x] = "empty"]
       /\ expired' = [expired EXCEPT ![x] = FALSE]
       /\ client' = [pc |-> "created", id |-> x, target |-> t]
  /\ submitted' = submitted + 1
  /\ UNCHANGED <<up, work, lockTable, wk, crashes, diskFails, fate, reports>>

\* CommandQaddq <queue>-<id> <start> <length>: append a byte range of
\* d<src>.msg to the session's open d<id>.msg.  It sets the session's
\* target to 0 before it parses its arguments or opens the source, so a
\* QRUN after it puts the entry in INCOMING whatever QCREA named.  When
\* the source opens and the range is not empty, bytes are appended.
Qaddq ==
  /\ up /\ client.pc \in {"created", "stored"}
  /\ client' = [client EXCEPT !.target = INCOMING]
  /\ \E appended \in BOOLEAN :
       data' = [data EXCEPT ![client.id] = IF appended THEN "msg" ELSE @]
  /\ UNCHANGED <<up, ctl, work, expired, lockTable, wk, submitted,
                 crashes, diskFails, fate, reports>>

\* The QSTOR commands (ADDRESS, CAL, FLAGS, FROM, LOCAL, MESSAGE, RAW, TO):
\* each needs the open control and data handles and appends its line to
\* c<id>.in (MESSAGE writes its Received line and the message to
\* d<id>.msg).  c<id>.in is invisible to the monitor and to the workers,
\* so the lines a session stores are one step that yields its envelope,
\* with or without a QSTOR MESSAGE among them.
Qstor ==
  LET x == client.id IN
  /\ up /\ client.pc = "created"
  /\ \E b \in Submissions, message \in BOOLEAN :
       /\ ctl' = [ctl EXCEPT ![x] = [stage |-> InStage, body |-> b]]
       /\ data' = [data EXCEPT ![x] = IF message THEN "msg" ELSE @]
  /\ client' = [client EXCEPT !.pc = "stored"]
  /\ UNCHANGED <<up, work, expired, lockTable, wk, submitted, crashes,
                 diskFails, fate, reports>>

\* CommandQabrt: close and unlink c<id>.in and d<id>.msg (a client has no
\* work file), and forget the entry.
Qabrt ==
  LET x == client.id IN
  /\ up /\ client.pc \in {"created", "stored"}
  /\ ctl' = [ctl EXCEPT ![x] = NoFile]
  /\ data' = [data EXCEPT ![x] = "none"]
  /\ client' = NoClient
  /\ UNCHANGED <<up, work, expired, lockTable, wk, submitted, crashes,
                 diskFails, fate, reports>>

\* CommandQrun: rename c<id>.in to c<id>.<target>, answer 1000 (the entry
\* is accepted), and spawn a worker if activeWorkers < maxConcurrentWorkers
\* (else restartNeeded; the synchronous maxSequentialWorkers branch is
\* not modelled).  QRUN does not look at d<id>.msg; unless EmptyMessage,
\* the clients considered have stored a message by then.
Run ==
  LET x == client.id
      b == ctl[x].body
  IN /\ up /\ client.pc \in {"created", "stored"}
     /\ EmptyMessage \/ data[x] = "msg"
     /\ ctl' = [ctl EXCEPT ![x] = [stage |-> client.target, body |-> b]]
     /\ fate' = [fate EXCEPT ![x] = [r \in Recips |->
                   IF b.lines[r] # "none" THEN "pending" ELSE "none"]]
     /\ reports' = [reports EXCEPT ![x] = [r \in Recips |-> 0]]
     /\ wk' = Spawn(wk, client.target, x)
     /\ client' = NoClient
     /\ UNCHANGED <<up, work, data, expired, lockTable, submitted, crashes,
                    diskFails>>

\* The process dies at an arbitrary point.
Crash ==
  /\ up /\ crashes < MaxCrashes
  /\ ProcessDies
  /\ crashes' = crashes + 1
  /\ UNCHANGED <<ctl, work, data, expired, submitted, diskFails, fate, reports>>

(***************************************************************************)
(* Restart: QueueInit (a fresh lock table) and CreateQueueThreads(TRUE),   *)
(* whose kill list holds: c and d of every *.in entry; c and d of an empty *)
(* control file with a data file; a control file without a data file; a   *)
(* data file without a control file of stage 0..9; every work file; and,   *)
(* for an empty data file, d<id>.msg and "c<id>.msg", a name no control    *)
(* file has, so the control file of that entry is kept.                    *)
(***************************************************************************)
Survives(x) ==
  /\ ctl[x] # NoFile /\ ctl[x].stage \in StageNums
  /\ ctl[x].body # Empty /\ HasData(x)

\* The d<id>.msg the kill list spares.
DataSurvives(x) == Survives(x) /\ data[x] = "msg"

\* Fault variant of Restart: the integrity pass does not kill work files.
RestartKeepsWork ==
  /\ ~up
  /\ up' = TRUE
  /\ ctl' = [x \in Ids |-> IF Survives(x) THEN ctl[x] ELSE NoFile]
  /\ data' = [x \in Ids |-> IF DataSurvives(x) THEN data[x] ELSE "none"]
  /\ UNCHANGED <<work, expired, lockTable, wk, client, submitted, crashes,
                 diskFails, fate, reports>>

Restart ==
  /\ ~up
  /\ up' = TRUE
  /\ ctl' = [x \in Ids |-> IF Survives(x) THEN ctl[x] ELSE NoFile]
  /\ data' = [x \in Ids |-> IF DataSurvives(x) THEN data[x] ELSE "none"]
  /\ work' = [x \in Ids |-> NoFile]
  /\ UNCHANGED <<expired, lockTable, wk, client, submitted, crashes,
                 diskFails, fate, reports>>

(***************************************************************************)
(* The specification.                                                      *)
(***************************************************************************)
Init ==
  /\ up = TRUE
  /\ ctl = [x \in Ids |-> NoFile]
  /\ work = [x \in Ids |-> NoFile]
  /\ data = [x \in Ids |-> "none"]
  /\ expired = [x \in Ids |-> FALSE]
  /\ lockTable = Lock!InitTable
  /\ wk = [w \in Workers |-> IdleWorker]
  /\ client = NoClient
  /\ submitted = 0 /\ crashes = 0 /\ diskFails = 0
  /\ fate = [x \in Ids |-> [r \in Recips |-> "none"]]
  /\ reports = [x \in Ids |-> [r \in Recips |-> 0]]

\* One step of worker thread w.
Step(w) ==
  /\ up
  /\ \/ /\ \/ Start(w) \/ Incoming(w) \/ PromoteUnlink(w) \/ PromoteRename(w)
           \/ Post(w) \/ Outgoing(w) \/ Deliver(w) \/ BounceOpen(w)
           \/ HandleDSN2(w) \/ AfterDSN(w) \/ StripBounces(w)
           \/ KeepOrDrop(w) \/ OutPost(w) \/ Rts(w) \/ RtsDSN(w)
           \/ AgentCommand(w) \/ AfterSession(w)
        /\ UNCHANGED <<up, client, expired>>
     \/ PushOpen(w)
     \/ HandleDSN1(w)
     \/ HandleDSN3(w)
  /\ UNCHANGED <<submitted, crashes>>

Next ==
  \/ \E w \in Workers : Step(w)
  \/ \E x \in Ids : Dispatch(x) \/ Expire(x)
  \/ Qcrea \/ Qstor \/ Qaddq \/ Qabrt \/ Run \/ Crash \/ Restart

\* Threads run; the monitor rescans forever, so an entry that can be
\* dispatched infinitely often is; time passes; a QRUN is answered; the
\* agent is restarted after a crash.
Fairness ==
  /\ \A w \in Workers : WF_vars(Step(w))
  /\ \A x \in Ids : SF_vars(Dispatch(x)) /\ WF_vars(Expire(x))
  /\ WF_vars(Run) /\ WF_vars(Restart)

Spec == Init /\ [][Next]_vars /\ Fairness

(***************************************************************************)
(* Properties.                                                             *)
(***************************************************************************)
ScriptSuffixes ==
  UNION {{SubSeq(s, i, Len(s)) : i \in 1..(Len(s) + 1)} : s \in AgentScripts}
    \cup {<<>>}
ControlFiles == {NoFile} \cup
  [stage : StageNums \cup {InStage}, body : Bodies \cup {Empty}]
WorkerStates ==
  [pc : Pcs, stage : StageNums, id : Ids \cup {NoId},
   tok : Lock!Tokens \cup {NoToken}, keep : BOOLEAN, bounce : BOOLEAN,
   cont : {"post", "bounceOpen", "rtsDSN", "exit", "afterSession"}, nid : Ids \cup {NoId},
   ntok : Lock!Tokens \cup {NoToken}, caller : {"deliver", "out", "rts"},
   rc : {0, -1}, sent : Bodies \cup {Empty}, script : ScriptSuffixes,
   wopen : BOOLEAN]

TypeOK ==
  /\ up \in BOOLEAN
  /\ ctl \in [Ids -> ControlFiles]
  /\ work \in [Ids -> Bodies \cup {Empty, NoFile}]
  /\ data \in [Ids -> DataFiles] /\ expired \in [Ids -> BOOLEAN]
  /\ lockTable \in [Lock!Buckets -> [Lock!SlotIdx -> Ids \cup {Unused}]]
  /\ wk \in [Workers -> WorkerStates]
  /\ client \in [pc : {"idle", "created", "stored"}, id : Ids \cup {NoId},
                 target : StageNums]
  /\ fate \in [Ids -> [Recips -> Fates]]
  /\ reports \in [Ids -> [Recips -> 0..2]]

\* A file of entry x that holds a line for recipient r.
HoldsLine(x, r) ==
  \/ ctl[x] # NoFile /\ ctl[x].body # Empty /\ ctl[x].body.lines[r] # "none"
  \/ work[x] \notin {NoFile, Empty} /\ work[x].lines[r] # "none"

\* Recipient conservation: once QRUN has accepted an entry, each of its
\* recipients that is not yet delivered, reported in a DSN, dropped by
\* policy (no DSN_FAILURE, no sender, a calendar line at RTS, a bounce of
\* a bounce) or deleted by a push agent with QDELE still has a line in the
\* entry's control or work file.  It is about the promotions of
\* ProcessQueueEntry and of a push agent's QDONE (unlink c, rename w), the
\* bounce paths that rewrite c after HandleDSN, and the integrity pass.
RecipientConservation ==
  \A x \in Ids, r \in Recips : fate[x][r] = "pending" => HoldsLine(x, r)

\* No recipient is named in two DSNs: the bounce lines HandleDSN reported
\* are removed from the control file (or the entry deleted) before the
\* entry can be processed again.
NoDuplicateDSN == \A x \in Ids, r \in Recips : reports[x][r] <= 1

\* An entry no thread or client is working on has a data file exactly
\* when it has a control file, and no work file: every exit path of
\* ProcessQueueEntry and HandleDSN unlinks what it created.
Busy(x) ==
  \/ \E w \in Workers : wk[w].pc \notin {"idle", "start"} /\
                        x \in {wk[w].id, wk[w].nid}
  \/ client.id = x
QuiescentEntriesConsistent ==
  up => \A x \in Ids : ~Busy(x) =>
          /\ work[x] = NoFile
          /\ HasData(x) = (ctl[x] # NoFile)

\* The pipeline's stage steps: a control file only moves forward through
\* the registered stages 0 -> 1 -> 6 -> 7, except OUTGOING -> RTS on linger
\* expiry and RTS -> INCOMING; a submitted entry leaves .in for its QCREA
\* target.
StageStep(p, q) ==
  \/ /\ p \in 0..6 /\ q \in Registered /\ p < q
     /\ \A i \in Registered : ~(p < i /\ i < q)
  \/ <<p, q>> \in {<<OUTGOING, RTS>>, <<RTS, INCOMING>>}
  \/ p = InStage /\ q \in Targets

\* The refinement mapping to QueuePipeline.  An entry is at the stage of
\* its control file once QRUN or HandleDSN has written it (not c<id>.in,
\* and not the empty c<id>.000 HandleDSN creates before it writes the
\* DSN); between the unlink of c and the rename of w the worker that
\* promotes it holds it at its stage.
Promoting(x) == {w \in Workers : wk[w].pc = "renameW" /\ wk[w].id = x}
PipelineAt ==
  [x \in Ids |->
     IF ctl[x] # NoFile /\ ctl[x].stage # InStage /\ ctl[x].body # Empty
     THEN ctl[x].stage
     ELSE IF Promoting(x) # {}
          THEN wk[CHOOSE w \in Promoting(x) : TRUE].stage
          ELSE NoFile]
Pipeline == INSTANCE QueuePipeline WITH
  at <- PipelineAt, EntryStages <- Targets \cup {INCOMING},
  Flow <- StageStep, Gone <- NoFile

\* The engine implements the pipeline: an entry moves only along the
\* registered stages (the advance switch, the linger expiry of
\* Q_OUTGOING, the retry from Q_RTS); a recipient once delivered,
\* reported, dropped or taken by a push agent is never pending again; an
\* entry leaves the spool (Discarded, Q_RTS after its DSN, QDELE, a
\* refused DSN) only when none of its recipients is pending; and an ID
\* whose entry is gone reappears only by QRUN or HandleDSN, never by a
\* promotion or a QDONE that recreates a deleted control file.
PipelineRefined == Pipeline!Spec

\* Every accepted recipient is eventually delivered, reported or dropped:
\* no entry stays in the spool for ever.
RecipientsSettle ==
  \A x \in Ids, r \in Recips : fate[x][r] = "pending" ~> fate[x][r] # "pending"

\* HandleDSN holds the spool lock of the entry it composes when it reaches
\* SpoolEntryIDUnlock(idLock): the lock it took after creating c<id>.000
\* did not fail because the monitor had already dispatched a worker that
\* locked the new, still empty entry, or because its bucket was full.
HandleDSNHoldsLock == \A w \in Workers : wk[w].pc = "hd3" => wk[w].ntok # NoToken

\* Every ID in the spool lock table is held by a running thread, as the
\* idLock of the entry it processes or the lock HandleDSN took on the
\* entry it creates: no exit path of ProcessQueueEntry or HandleDSN leaves
\* an entry locked, which would keep every later worker out of it.
HoldsLockOn(w, x) ==
  \/ wk[w].tok # NoToken /\ wk[w].id = x
  \/ wk[w].ntok # NoToken /\ wk[w].nid = x
NoOrphanLock ==
  \A x \in Lock!LockedIds(lockTable) : \E w \in Workers : HoldsLockOn(w, x)
=============================================================================
