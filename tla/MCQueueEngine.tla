--------------------------- MODULE MCQueueEngine ---------------------------
(* The queue engine with one worker thread (maxConcurrentWorkers = 1), a  *)
(* lock table of two buckets of two slots, and envelopes that reach every *)
(* recipient path of ProcessQueueEntry: a local recipient with and        *)
(* without DSN_FAILURE, a remote one, a calendar one, and an envelope      *)
(* without a sender.                                                       *)
EXTENDS QueueEngine, TLC

CONSTANTS r1, r2   \* recipient names (model values)

\* The recipient lines are written, and copied, in the order r1, r2.
MCLineOrder == <<r1, r2>>

MCIds == 1..4
MCIds3 == 1..3

Env(f, k1, k2) == [from |-> f, lines |-> (r1 :> k1) @@ (r2 :> k2)]

MCSubmissions ==
  {Env("user", "L", "R"), Env("user", "C", "Ln"), Env("user", "C", "R"),
   Env("none", "R", "none")}

\* One envelope that bounces one recipient and keeps the other: it runs
\* HandleDSN and the rewrite of the control file.
MCBounceEnvelope == {Env("user", "L", "R")}
\* A local recipient without DSN_FAILURE whose line precedes a calendar
\* recipient's line: the calendar delivery is judged by the local flags.
MCStaleFlagsEnvelope == {Env("user", "Ln", "C")}

\* What a push agent sends back on a hand-off: rewrite the control file
\* line by line and commit it with QDONE (passing every recipient on, or
\* returning r1 to its sender with QRTS); delete the entry with QDELE;
\* close the connection half-way through a rewrite; or QABRT a rewrite.
Cmd(o, r) == [op |-> o, rcpt |-> r]
\* Agent sessions: a rewrite that returns r1 to its sender and keeps r2,
\* and a deletion; the crash run has a plain rewrite, an agent that
\* disconnects after a line, and an abort.
MCAgentScripts ==
  {<<Cmd("from", r1), Cmd("rts", r1), Cmd("line", r2), Cmd("done", r1)>>,
   <<Cmd("dele", r1)>>}
MCCrashScripts ==
  {<<Cmd("from", r1), Cmd("line", r1), Cmd("line", r2), Cmd("done", r1)>>,
   <<Cmd("line", r1)>>,
   <<Cmd("abrt", r1), Cmd("done", r1)>>}
MCNoScripts == {}

\* The state without the history variables fate and reports, which no
\* guard reads: for properties that do not read them either, two states
\* that differ only there have the same futures.
NoHistoryView == <<up, ctl, work, data, expired, lockTable, wk, client,
                   submitted, crashes, diskFails>>
=============================================================================
