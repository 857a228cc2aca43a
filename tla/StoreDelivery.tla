--------------------------- MODULE StoreDelivery ---------------------------
(***************************************************************************)
(* The delivery-to-store client of the queue agent (queue.c:463-608) as    *)
(* one Q_DELIVER pass uses it: the per-pass list of NMAP connections,      *)
(* GetNMAPConnection, DeliverToStore, EndStoreDelivery, and the FILE       *)
(* *data that the pass opens and DeliverToStore streams and may close.     *)
(*                                                                         *)
(* Only the lines that touch the store or the data handle are modelled:    *)
(* "C" (QUEUE_CALENDAR_LOCAL, delivered with DeliverToStore), "L" and "Ln" *)
(* (QUEUE_RECIP_LOCAL with and without DSN_FAILURE: with the directory     *)
(* lookup compiled out they open data and are never sent to a store).  The *)
(* address of a calendar delivery is the uninitialized struct siaddr, so   *)
(* every call may name any store, the local host included.  The store is  *)
(* an external party: its answers are chosen at each call.                 *)
(***************************************************************************)
EXTENDS Naturals, Sequences, FiniteSets

CONSTANTS
  Stores,       \* NMAP store addresses (address, port)
  HostStore,    \* MsgGetHostIPAddress(): DELIVER FILE instead of STREAM
  Passes,       \* the recipient lines of a control file, in file order
  AllocSteps,   \* REMOTENMAP_ALLOC_STEPS
  ForwardUndeliverable  \* Conf.forwardUndeliverableEnabled

ASSUME HostStore \in Stores /\ AllocSteps \in Nat \ {0}
ASSUME Passes \subseteq Seq({"C", "L", "Ln"})

VARIABLES
  lines,      \* the lines the copy loop has still to read
  pc,         \* "line" (the loop), "dsn", "closeData", "done", "aborted"
  data,       \* FILE *data: "null", "d" (d<id>.msg), "w" (w<id>.<queue>),
              \* or "freed" (closed by DeliverToStore, pointer kept)
  flags,      \* DSN_FAILURE is set in the variable flags
  bounce,     \* the pass wrote a QUEUE_BOUNCE line
  conns,      \* list.connections[0 .. used - 1]: [store, error]
  allocated,  \* list.allocated
  trace,      \* history: [Stores -> what the pass did on connections to it]
  streamed,   \* history: handles DELIVER STREAM sent as the message
  freedUsed   \* history: a freed handle was passed to stdio again

vars == <<lines, pc, data, flags, bounce, conns, allocated, trace, streamed,
          freedUsed>>

Events == {"open", "deliver", "accept", "error", "rcpt", "end", "close"}
Handles == {"null", "d", "w", "freed"}
Statuses == {"ok", "fail", "later"}

Log(s, evs) == trace' = [trace EXCEPT ![s] = @ \o evs]

(***************************************************************************)
(* GetNMAPConnection: the list is searched for the address and port; on a  *)
(* miss a new connection is made and authenticated, the array grown by     *)
(* AllocSteps when full, and the connection appended with error FALSE.     *)
(***************************************************************************)
\* Fault variant of Cached: the list is not searched.
CachedNever(s) == {}

Cached(s) == {i \in 1..Len(conns) : conns[i].store = s}

\* Fault variant of Grown: allocated is not raised after MemRealloc.
GrownUncounted == allocated

\* The list grows only when used + 1 > allocated.
Grown == IF Len(conns) + 1 > allocated THEN allocated + AllocSteps
         ELSE allocated

\* NMAPRunCommandF("<recipient> <mailbox> <flags>"): 1000 is
\* DELIVER_SUCCESS, any other answer atoi(line), a failure or a retry.
Rcpt(s, pre, st) == /\ Log(s, pre \o <<"rcpt">>)
                    /\ st \in Statuses

\* Fault variant of Usable: the nmap->error test is missing.
UsableAlways(i) == TRUE

\* DeliverToStore: TRY_LATER on a connection whose error is set.
Usable(i) == ~conns[i].error

\* DeliverToStore over a connection found in the list.
Reuse(s, st) ==
  \E i \in Cached(s) :
    /\ \/ ~Usable(i) /\ st = "later" /\ UNCHANGED trace
       \/ Usable(i) /\ Rcpt(s, <<>>, st)
    /\ UNCHANGED <<conns, allocated>>

\* A new connection: DELIVER FILE d<id>.msg to the local store, else
\* DELIVER STREAM of the handle fh, whose failed write sets error and
\* closes fh.  An answer other than 2053 sets error.  Either way the
\* recipient is TRY_LATER.
Handshake(s, fh, st) ==
  LET Add(e) == conns' = Append(conns, [store |-> s, error |-> e]) IN
  /\ allocated' = Grown
  /\ streamed' = IF s = HostStore THEN streamed ELSE streamed \cup {fh}
  /\ \/ /\ s # HostStore
        /\ Add(TRUE) /\ Log(s, <<"open", "deliver", "error">>)
        /\ data' = "freed" /\ st = "later"
     \/ /\ Add(TRUE) /\ Log(s, <<"open", "deliver", "error">>)
        /\ data' = fh /\ st = "later"
     \/ /\ Add(FALSE) /\ Rcpt(s, <<"open", "deliver", "accept">>, st)
        /\ data' = fh

\* GetNMAPConnection on a miss: NMAPConnect fails (TRY_LATER, nothing
\* opened); authentication or the MemRealloc of a full list fails (the
\* connection is quit and closed, TRY_LATER); or the handshake.
Connect(s, fh, st) ==
  /\ Cached(s) = {}
  /\ \/ /\ st = "later" /\ data' = fh
        /\ UNCHANGED <<conns, allocated, trace, streamed>>
     \/ /\ Log(s, <<"open", "close">>) /\ st = "later" /\ data' = fh
        /\ UNCHANGED <<conns, allocated, streamed>>
     \/ Handshake(s, fh, st)

DeliverToStore(s, fh, st) ==
  \/ Reuse(s, st) /\ data' = fh /\ UNCHANGED streamed
  \/ Connect(s, fh, st)

(***************************************************************************)
(* EndStoreDelivery: on every connection without error write "\r\n",      *)
(* flush and read the answer; close and free every connection; free the    *)
(* array.  The pass then clears list.                                      *)
(***************************************************************************)
\* Fault variant of Farewell: the blank line is written whatever error is.
FarewellAll(c) == <<"end", "close">>

Farewell(c) == IF c.error THEN <<"close">> ELSE <<"end", "close">>

EndStoreDelivery ==
  /\ trace' = [s \in Stores |->
                 trace[s] \o (IF Cached(s) = {} THEN <<>>
                              ELSE Farewell(conns[CHOOSE i \in Cached(s) : TRUE]))]
  /\ conns' = <<>>
  /\ allocated' = 0

(***************************************************************************)
(* The end of each line: fseek(data, 0, SEEK_SET).  On a freed handle the  *)
(* behaviour is undefined: the pass goes on or the process dies.           *)
(***************************************************************************)
SeekData == /\ freedUsed' = (freedUsed \/ data' = "freed")
            /\ pc' \in IF data' = "freed" THEN {"line", "aborted"} ELSE {"line"}

\* if (!data) FOPEN_CHECK(data, path, "rb") fails: close c and w, unlink w,
\* return.  No store has been called yet, so list is empty.
OpenFails ==
  /\ pc = "line" /\ lines # <<>> /\ data = "null"
  /\ pc' = "done"
  /\ UNCHANGED <<lines, data, flags, bounce, conns, allocated, trace,
                 streamed, freedUsed>>

\* QUEUE_CALENDAR_LOCAL: data is opened from path, which still names the
\* work file w<id>.<queue>; DeliverToStore; a failure that is not
\* TRY_LATER (nor a STOPPING agent) writes a bounce line if flags has
\* DSN_FAILURE; fseek(data).  "C" is a line without the optional flags
\* field (QSTOR CAL <recipient>[ <calendar>]), so flags is left as it is.
CalendarLine ==
  LET fh == IF data = "null" THEN "w" ELSE data IN
  /\ pc = "line" /\ lines # <<>> /\ Head(lines) = "C"
  /\ \E s \in Stores, st \in Statuses, stopping \in BOOLEAN :
       /\ DeliverToStore(s, fh, st)
       /\ bounce' = (bounce \/ (st = "fail" /\ ~stopping /\ flags))
  /\ lines' = Tail(lines)
  /\ SeekData
  /\ UNCHANGED flags

\* QUEUE_RECIP_LOCAL / _MBOX_LOCAL: data is opened from d<id>.msg; the
\* recipient is DELIVER_USER_UNKNOWN: forwarded with flags = 0, or a
\* bounce line if its own flags have DSN_FAILURE; fseek(data).
LocalLine ==
  /\ pc = "line" /\ lines # <<>> /\ Head(lines) \in {"L", "Ln"}
  /\ data' = IF data = "null" THEN "d" ELSE data
  /\ flags' = (Head(lines) = "L" /\ ~ForwardUndeliverable)
  /\ bounce' = (bounce \/ flags')
  /\ lines' = Tail(lines)
  /\ SeekData
  /\ UNCHANGED <<conns, allocated, trace, streamed>>

\* After the loop: if (list.allocated) EndStoreDelivery(&list).
EndPass ==
  /\ pc = "line" /\ lines = <<>>
  /\ IF allocated > 0 THEN EndStoreDelivery
     ELSE UNCHANGED <<conns, allocated, trace>>
  /\ pc' = IF bounce THEN "dsn" ELSE "closeData"
  /\ UNCHANGED <<lines, data, flags, bounce, streamed, freedUsed>>

\* The bounce branch: if (!data) fopen d<id>.msg, else fseek(data); fopen
\* c; HandleDSN(data, fh) reads data.  When c or data did not open, or
\* HandleDSN fails, data is closed if set and the pass returns.
BounceDSN ==
  /\ pc = "dsn"
  /\ \E d \in IF data = "null" THEN {"d", "null"} ELSE {data},
        handled \in BOOLEAN :
       IF handled /\ d # "null"
       THEN /\ data' = d /\ pc' = "closeData"
            /\ freedUsed' = (freedUsed \/ d = "freed")
       ELSE /\ data' = "null"
            /\ pc' \in IF d = "freed" THEN {"done", "aborted"} ELSE {"done"}
            /\ freedUsed' = (freedUsed \/ d = "freed")
  /\ UNCHANGED <<lines, flags, bounce, conns, allocated, trace, streamed>>

\* if (data) FCLOSE_CHECK(data): a second fclose of a freed handle is
\* undefined (glibc usually aborts on the double free).
CloseData ==
  /\ pc = "closeData"
  /\ data' = "null"
  /\ pc' \in IF data = "freed" THEN {"done", "aborted"} ELSE {"done"}
  /\ freedUsed' = (freedUsed \/ data = "freed")
  /\ UNCHANGED <<lines, flags, bounce, conns, allocated, trace, streamed>>

Init ==
  /\ lines \in Passes
  /\ pc = "line"
  /\ data = "null"
  /\ flags = TRUE
  /\ bounce = FALSE
  /\ conns = <<>>
  /\ allocated = 0
  /\ trace = [s \in Stores |-> <<>>]
  /\ streamed = {}
  /\ freedUsed = FALSE

Next == OpenFails \/ CalendarLine \/ LocalLine \/ EndPass \/ BounceDSN
        \/ CloseData

Spec == Init /\ [][Next]_vars

(***************************************************************************)
(* Properties.                                                             *)
(***************************************************************************)
TypeOK ==
  /\ lines \in Seq({"C", "L", "Ln"})
  /\ pc \in {"line", "dsn", "closeData", "done", "aborted"}
  /\ data \in Handles /\ flags \in BOOLEAN /\ bounce \in BOOLEAN
  /\ conns \in Seq([store : Stores, error : BOOLEAN])
  /\ allocated \in Nat /\ Len(conns) <= allocated
  /\ trace \in [Stores -> Seq(Events)]
  /\ streamed \subseteq Handles /\ freedUsed \in BOOLEAN

\* A store is sent the message at most once in a pass: GetNMAPConnection
\* finds the connection an earlier recipient opened, also one whose
\* DELIVER failed, so later recipients of that store reuse it or are
\* TRY_LATER; only connections that were never added are made again.
OneDeliveryPerStore ==
  \A s \in Stores :
    Cardinality({i \in 1..Len(trace[s]) : trace[s][i] = "deliver"}) <= 1

\* DeliverToStore sends a recipient command only on a connection whose
\* DELIVER the store answered with 2053, and never on one whose error is
\* set: after a failed STREAM or a refused DELIVER, the next recipient of
\* the same store reaches the cached connection and must be TRY_LATER.
RcptOnlyAfterAccept ==
  \A s \in Stores : LET t == trace[s] IN
    \A i \in 1..Len(t) : t[i] = "rcpt" =>
      \E j \in 1..(i - 1) :
        t[j] = "accept" /\ \A k \in j..i : t[k] \notin {"open", "error"}

\* When the pass has returned, EndStoreDelivery has closed every
\* connection it opened, and sent the closing blank line exactly on those
\* whose DELIVER was accepted and that never failed.
SessionsEnded ==
  pc = "done" =>
    \A s \in Stores : LET t == trace[s] IN
      \A i \in 1..Len(t) : t[i] = "open" =>
        \E j \in (i + 1)..Len(t) :
          /\ t[j] = "close"
          /\ \A k \in (i + 1)..(j - 1) : t[k] \notin {"open", "close"}
          /\ ((\E k \in i..j : t[k] = "end") <=>
                /\ \E k \in i..j : t[k] = "accept"
                /\ \A k \in i..j : t[k] # "error")

\* The pass streams the message, d<id>.msg, through a handle it has not
\* closed: every DELIVER STREAM sends d, and no freed handle is used again
\* (fseek, ConnWriteFile, HandleDSN or a second fclose).
DataHandleSound == streamed \subseteq {"d"} /\ ~freedUsed
=============================================================================
