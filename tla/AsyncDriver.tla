----------------------------- MODULE AsyncDriver -----------------------------
(***************************************************************************)
(* The asyncio driver: tasks of one event loop that share an               *)
(* AsyncConnection and its AsyncCursors, and the CAS at the other end.     *)
(***************************************************************************)
EXTENDS AsyncCursor

Init ==
  /\ ServerInit
  /\ param \in BOOLEAN
  /\ connected = TRUE
  /\ streams = TRUE
  /\ requests = <<>>
  /\ responses = <<>>
  /\ casStatus \in {"ACTIVE", "INACTIVE"}
  /\ autocommit = param
  /\ cursors = {}
  /\ closed = [c \in Cursors |-> TRUE]
  /\ handle = [c \in Cursors |-> None]
  /\ result = [c \in Cursors |-> NoResult]
  /\ lastrowid = [c \in Cursors |-> None]
  /\ owner = None
  /\ waiters = <<>>
  /\ task = [t \in Tasks |-> Idle]
  /\ ret = "none"
  /\ cancels = 0
  /\ sent = {}
  /\ acked = {}

\* Task t calls the driver.
Invocation(t) ==
  \/ ConnectCall(t) \/ PingCall(t) \/ EndTranCall(t) \/ SetAutocommitCall(t)
  \/ QueryCall(t) \/ CloseCall(t)
  \/ \E c \in Cursors :
       \/ NewCursor(t, c) \/ CursorCloseCall(t, c) \/ ExecuteCall(t, c)
       \/ ExecutemanyBatchCall(t, c)
       \/ FetchmanyCall(t, c) \/ FetchallCall(t, c)

\* Task t goes on with its call.
TaskStep(t) ==
  \/ SendRequest(t) \/ CheckReconnect(t) \/ Reconnected(t)
  \/ AlreadyConnected(t) \/ StartHandshake(t) \/ ConnectEnds(t)
  \/ PingReply(t) \/ PingDrop(t)
  \/ EndTranReply(t) \/ SetAutocommitReply(t) \/ QueryReply(t)
  \/ CloseCursorReply(t) \/ CloseEnds(t)
  \/ CursorCloseReply(t)
  \/ ExecuteCloseReply(t) \/ ExecuteReply(t) \/ LastRowIdReply(t)
  \/ ExecutemanyBatchReply(t)
  \/ FetchReply(t)

Next ==
  \/ \E t \in Tasks : Invocation(t) \/ TaskStep(t) \/ Cancel(t)
  \/ ServerAnswers \/ SessionLost

Spec == Init /\ [][Next]_vars

(***************************************************************************)
(* The event loop runs every task that can go on, and a wait for the       *)
(* server ends (read_timeout, TCP keep-alive).                             *)
(***************************************************************************)
FairSpec == Spec /\ \A t \in Tasks : WF_vars(TaskStep(t))

(***************************************************************************)
(* Type invariant of the connection, its lock, its cursors and the server. *)
(***************************************************************************)
ResultRecords == [stmt: Stmts \cup {None}, desc: BOOLEAN,
                  rows: Seq(Stmts \X Nat), index: Nat, total: Nat]

Messages == [fc: Fcs, reply: Replies, status: {"ACTIVE", "INACTIVE"}]

TypeOK ==
  /\ ServerTypeOK
  /\ connected \in BOOLEAN
  /\ streams \in BOOLEAN
  /\ requests \in Seq(Packets)
  /\ responses \in Seq(Messages)
  /\ casStatus \in {"ACTIVE", "INACTIVE"}
  /\ autocommit \in BOOLEAN
  /\ cursors \in SUBSET Cursors
  /\ closed \in [Cursors -> BOOLEAN]
  /\ handle \in [Cursors -> Handles \cup {None}]
  /\ result \in [Cursors -> ResultRecords]
  /\ lastrowid \in [Cursors -> Stmts \cup {None}]
  /\ owner \in Tasks \cup {None}
  /\ waiters \in Seq(Tasks)
  /\ task \in [Tasks -> TaskRecords]
  /\ ret \in {"none", "returned", "false", "raised", "cancelled"}
  /\ cancels \in Nat
  /\ sent \in SUBSET Stmts
  /\ acked \in SUBSET Stmts

(***************************************************************************)
(* Unless a call is cancelled, what a task reads answers what it wrote:    *)
(* the streams carry at most one request or response, the owner's, however *)
(* the calls, failures and reconnects of the tasks are interleaved         *)
(* (_send_and_receive holds _lock from the request to the response).       *)
(***************************************************************************)
ResponsesMatch ==
  cancels = 0 =>
    /\ Len(requests) + Len(responses) <= 1
    /\ requests # <<>> => owner # None /\ Head(requests) = task[owner].pkt
    /\ responses # <<>> => owner # None /\ Head(responses).fc = task[owner].pkt.fc

(***************************************************************************)
(* A cancelled call leaves at most one request or response of its own in   *)
(* the streams, so a reader is never further behind than there were        *)
(* cancellations: no failure, no reconnect and no other way out of a call  *)
(* leaves one behind (_close_streams, _lock).                              *)
(***************************************************************************)
StraysBounded ==
  Len(requests) + Len(responses) <= cancels + (IF owner = None THEN 0 ELSE 1)

(***************************************************************************)
(* Tasks that call connect() at the same time make one session, and no     *)
(* task ever opens a session over a live one (_connect_locked tests        *)
(* _connected under the lock).                                             *)
(***************************************************************************)
ConnectEndsWell(t) ==
  task[t].at = "connect" /\ task'[t].at # "connect" /\ up' /\ connected'

SingleHandshake ==
  [][\A t \in Tasks : ConnectEndsWell(t) => ~connected /\ ~up]_vars

(***************************************************************************)
(* Whatever the tasks do, fail at or are cancelled in, the streams open    *)
(* only after the last ones were closed, and go down with their session:   *)
(* the driver makes the steps of Transport.tla, and no other.              *)
(***************************************************************************)
T == INSTANCE Transport WITH socket <- streams

OnTransport == [][T!Next]_(T!vars)

(***************************************************************************)
(* commit() that returns has made durable all that was acknowledged to any *)
(* task in the transaction.                                                *)
(***************************************************************************)
CommitDurable ==
  [][\A t \in Tasks :
       task[t].op \in {"commit", "set_autocommit"} /\ ret' = "returned"
       /\ task'[t].op = "none"
         => acked \subseteq durable']_vars

(***************************************************************************)
(* The rows a cursor buffers are the first rows of the statement it ran,   *)
(* in order, none twice, none of another cursor's (_fetch_more_rows).      *)
(***************************************************************************)
RowsOwned ==
  \A c \in Cursors :
    result[c].rows = RowsOf(result[c].stmt, 1, Len(result[c].rows))

(***************************************************************************)
(* No row of another statement ever gets into a cursor's buffer: the       *)
(* handle in a FETCH still stands for the cursor's statement when the lock *)
(* is granted and the request written.                                     *)
(***************************************************************************)
RowsOfOwnStatement ==
  \A c \in Cursors : \A i \in DOMAIN result[c].rows :
    result[c].rows[i][1] = result[c].stmt

(***************************************************************************)
(* A single task's cursors keep the promise of ResultSets.tla: in reach is *)
(* the whole result as long as _query_handle is there to fetch it, and     *)
(* without it what the buffer holds.                                       *)
(***************************************************************************)
Selected(c) == IF result[c].desc THEN result[c].stmt ELSE None

Taken(c) == [i \in 1..result[c].index |-> result[c].rows[i]]

Reach(c) ==
  CASE ~result[c].desc -> 0
    [] result[c].desc /\ handle[c] # None -> result[c].total
    [] result[c].desc /\ handle[c] = None -> Len(result[c].rows)

R == INSTANCE ResultSets WITH stmt <- [c \in Cursors |-> Selected(c)],
                              taken <- [c \in Cursors |-> Taken(c)],
                              reach <- [c \in Cursors |-> Reach(c)]

KeepsResultSets == R!Spec

(***************************************************************************)
(* And a fetch that returns has all it was asked for, or all there is in   *)
(* reach: fetchall() the rest of the result, fetchmany(n) n rows.          *)
(***************************************************************************)
FetchReturns(t, c, op) ==
  /\ \/ op = "fetchall" /\ FetchallCall(t, c)
     \/ op = "fetchmany" /\ FetchmanyCall(t, c)
     \/ task[t].op = op /\ task[t].cur = c
  /\ ret' = "returned"

\* The rows a fetchmany still has to deliver: it begins, or goes on.
Wanted(t) == IF IsIdle(t) THEN WantSizes ELSE {task[t].want}

FetchesEnough ==
  [][\A t \in Tasks, c \in Cursors :
       LET atEnd == result'[c].index = Reach(c)'
       IN  /\ FetchReturns(t, c, "fetchall") => atEnd
           /\ FetchReturns(t, c, "fetchmany") =>
                atEnd \/ result'[c].index - result[c].index \in Wanted(t)]_vars

(***************************************************************************)
(* lastrowid is None, or the identifier of the INSERT that the cursor's    *)
(* last execute() ran, when one task uses the connection: no reconnect     *)
(* between the INSERT and the question for its identifier (a second        *)
(* request) makes it another's.  executemany_batch() leaves it alone.      *)
(***************************************************************************)
LastRowIdOwned ==
  \A c \in Cursors : lastrowid[c] \in {None, result[c].stmt}

(***************************************************************************)
(* The lock belongs to the one task that is in an exchange or a handshake, *)
(* and the tasks that wait for it, no others, stand in its queue, once     *)
(* each: no failure and no cancellation leaves it taken, forgets a waiter, *)
(* or keeps a place for a task that is gone (async with self._lock).       *)
(***************************************************************************)
Queued(queue, t) == \E i \in DOMAIN queue : queue[i] = t
Once(queue) == \A i, j \in DOMAIN queue : queue[i] = queue[j] => i = j

LockKept ==
  /\ \A t \in Tasks : task[t].at \in {"connect", "read"} <=> owner = t
  /\ \A t \in Tasks : task[t].at = "lock" <=> Queued(waiters, t)
  /\ Once(waiters)

(***************************************************************************)
(* Every call comes to an end: no failure and no cancellation leaves the   *)
(* lock taken, a waiter forgotten, or two tasks waiting for each other.    *)
(***************************************************************************)
CallsReturn == \A t \in Tasks : ~IsIdle(t) ~> IsIdle(t)
=============================================================================
