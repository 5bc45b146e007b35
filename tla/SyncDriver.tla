----------------------------- MODULE SyncDriver -----------------------------
(***************************************************************************)
(* The synchronous driver: one Connection, its Cursors, and the CAS at the *)
(* other end, as an application thread, the network and the broker drive   *)
(* them.                                                                   *)
(***************************************************************************)
EXTENDS Cursor

(***************************************************************************)
(* connect() of the package has succeeded; autocommit=True makes the       *)
(* constructor run the autocommit setter before there is any cursor.       *)
(***************************************************************************)
Init ==
  /\ ServerInit
  /\ param \in BOOLEAN
  /\ connected = TRUE
  /\ socket = TRUE
  /\ casStatus \in {"ACTIVE", "INACTIVE"}
  /\ autocommit = param
  /\ cursors = {}
  /\ closed = [c \in Cursors |-> TRUE]
  /\ handle = [c \in Cursors |-> None]
  /\ result = [c \in Cursors |-> NoResult]
  /\ lastrowid = [c \in Cursors |-> None]
  /\ call = Idle
  /\ ret = NoReturn
  /\ sent = {}
  /\ acked = {}

\* The session dies under the driver: a broker restart, a dropped link.
SessionLost ==
  /\ up
  /\ SessionEnds
  /\ UNCHANGED <<connectionVars, cursorVars, call, ret, sent, acked>>

\* The application invokes a public call.
Invocation ==
  \/ ConnectCall \/ PingCall \/ EndTranCall \/ SetAutocommitCall
  \/ QueryCall \/ CloseCall
  \/ \E c \in Cursors :
       \/ NewCursor(c) \/ CursorCloseCall(c) \/ ExecuteCall(c)
       \/ ExecutemanyBatchCall(c)
       \/ FetchmanyCall(c) \/ FetchallCall(c)

\* The driver's code goes on with the call under way.
DriverStep ==
  \/ CheckReconnect \/ Reconnected
  \/ ConnectDone
  \/ PingReply \/ PingDrop \/ PingConnect
  \/ EndTranReply \/ SetAutocommitReply \/ QueryReply
  \/ (\E c \in Cursors : CloseCursor(c))
  \/ CloseCursorReply \/ CloseDatabase \/ CloseDatabaseReply \/ CloseSocket
  \/ CursorCloseReply
  \/ ExecuteCloseReply \/ ExecuteReply \/ LastRowIdReply
  \/ ExecutemanyBatchReply
  \/ FetchReply

Next == Invocation \/ DriverStep \/ SessionLost

Spec == Init /\ [][Next]_vars

(***************************************************************************)
(* A call under way keeps running: the thread is scheduled, and every      *)
(* request is answered or fails (read_timeout, TCP keep-alive).            *)
(***************************************************************************)
FairSpec == Spec /\ WF_vars(DriverStep)

(***************************************************************************)
(* Type invariant of the connection, its cursors and the server.           *)
(***************************************************************************)
ResultRecords == [stmt: Stmts \cup {None}, desc: BOOLEAN,
                  rows: Seq(Stmts \X Nat), index: Nat, total: Nat]

TypeOK ==
  /\ ServerTypeOK
  /\ connected \in BOOLEAN
  /\ socket \in BOOLEAN
  /\ casStatus \in {"ACTIVE", "INACTIVE"}
  /\ autocommit \in BOOLEAN
  /\ cursors \in SUBSET Cursors
  /\ closed \in [Cursors -> BOOLEAN]
  /\ handle \in [Cursors -> Handles \cup {None}]
  /\ result \in [Cursors -> ResultRecords]
  /\ lastrowid \in [Cursors -> Stmts \cup {None}]
  /\ call \in CallRecords
  /\ ret \in {"none", "returned", "false", "raised"}
  /\ sent \in SUBSET Stmts
  /\ acked \in SUBSET Stmts

(***************************************************************************)
(* A query handle a cursor would send names the cursor's own statement on  *)
(* the session the connection is talking to: _invalidate_query_handles and *)
(* _drop_connection leave no cursor with a number that the server has      *)
(* freed, and perhaps given to another statement.                          *)
(***************************************************************************)
HandlesOwned ==
  connected /\ up =>
    \A c \in Cursors : handle[c] # None => open[handle[c]] = result[c].stmt

(***************************************************************************)
(* The rows a cursor buffers are the first rows of the statement it ran,   *)
(* in order, none twice, none of another cursor's, whatever reconnects,    *)
(* commits and failed calls came between the FETCHes (_fetch_more_rows).   *)
(***************************************************************************)
RowsOwned ==
  \A c \in Cursors :
    result[c].rows = RowsOf(result[c].stmt, 1, Len(result[c].rows))

(***************************************************************************)
(* commit() that returns has made durable every statement acknowledged in  *)
(* the transaction, although _check_reconnect may have replaced the session *)
(* since, in silence.  What ping() or connect() replaced is another        *)
(* transaction.                                                            *)
(***************************************************************************)
CommitDurable ==
  [][call.op \in {"commit", "set_autocommit"} /\ ret' = "returned"
       => acked \subseteq durable']_vars

(***************************************************************************)
(* Why it has: what was acknowledged in the transaction is in the open     *)
(* transaction of the live session, or durable; and it is durable already  *)
(* whenever _check_reconnect may drop the session (casStatus INACTIVE), is *)
(* opening another, or has opened it.  PingDrop and CloseSocket, which     *)
(* drop the session all the same, are at "cleanup".                        *)
(***************************************************************************)
AckedKept ==
  /\ ~tran => work = {}
  /\ connected /\ call.step # "cleanup" =>
       /\ up => acked \subseteq work \cup durable
       /\ casStatus = "INACTIVE" => acked \subseteq durable
  /\ call.step = "connect" /\ call.pkt.fc # "None" => acked \subseteq durable
  /\ call.step = "exchange" => acked \subseteq durable

(***************************************************************************)
(* close() that returns leaves no session and no socket, whether it found  *)
(* the connection up or already disconnected by an OSError; and when it    *)
(* found it up, no cursor open or tracked either, whichever of its         *)
(* requests failed or reconnected.  (call.op is "close" only of a close()  *)
(* that did not return at once.)  A close() that found it disconnected     *)
(* leaves the cursors open and tracked, against its docstring.             *)
(***************************************************************************)
CloseReturns == (CloseCall \/ call.op = "close") /\ ret' = "returned"

CloseReleases ==
  [][CloseReturns
       => /\ ~connected' /\ ~socket' /\ ~up'
          /\ call.op = "close" =>
               /\ cursors' = {}
               /\ \A c \in Cursors : closed'[c] /\ handle'[c] = None]_vars

(***************************************************************************)
(* lastrowid is None, or the identifier of the INSERT that the cursor's    *)
(* last execute() ran: never one of an earlier execute(), nor of a         *)
(* statement that has no identifier (execute, the GetLastInsertId          *)
(* request).  executemany_batch() is not an execute(): it leaves lastrowid *)
(* alone, so behind a batch of INSERTs it is that of an execute() before,  *)
(* which the docstring of lastrowid does not say.                          *)
(***************************************************************************)
LastRowIdOwned ==
  \A c \in Cursors : lastrowid[c] \in {None, result[c].stmt}

(***************************************************************************)
(* A call opens a session only after the last socket was closed, and takes *)
(* the socket down with its session: of the transport the driver makes the *)
(* steps of Transport.tla, and no other.                                   *)
(***************************************************************************)
T == INSTANCE Transport

OnTransport == [][T!Next]_(T!vars)

(***************************************************************************)
(* The cursors keep the promise of ResultSets.tla.  In reach is the whole  *)
(* result as long as _query_handle is there to fetch it, and without it    *)
(* what the buffer holds.                                                  *)
(***************************************************************************)
Selected(c) == IF result[c].desc THEN result[c].stmt ELSE None

Taken(c) == [i \in 1..result[c].index |-> result[c].rows[i]]

Reach(c) ==
  CASE ~result[c].desc -> 0
    [] result[c].desc /\ handle[c] # None -> result[c].total
    [] result[c].desc /\ handle[c] = None -> Len(result[c].rows)

R == INSTANCE ResultSets WITH stmt <- [c \in Cursors |-> Selected(c)],
                              taken <- [c \in Cursors |-> Taken(c)],
                              reach <- [c \in Cursors |-> Reach(c)]

KeepsResultSets == R!Spec

(***************************************************************************)
(* A fetch that returns has all it was asked for, or all there is in       *)
(* reach: fetchall() the rest of the result, fetchmany(n) n rows.          *)
(***************************************************************************)
FetchallReturns(c) ==
  /\ FetchallCall(c) \/ (call.op = "fetchall" /\ call.cur = c)
  /\ ret' = "returned"

FetchmanyReturns(c) ==
  /\ FetchmanyCall(c) \/ (call.op = "fetchmany" /\ call.cur = c)
  /\ ret' = "returned"

\* The rows a fetchmany still has to deliver: it begins, or goes on.
Wanted == IF IsIdle THEN WantSizes ELSE {call.want}

FetchesEnough ==
  [][\A c \in Cursors :
       LET atEnd == result'[c].index = Reach(c)'
       IN  /\ FetchallReturns(c) => atEnd
           /\ FetchmanyReturns(c) =>
                atEnd \/ result'[c].index - result[c].index \in Wanted]_vars

(***************************************************************************)
(* Every public call comes to an end: close() gets through its cursors and *)
(* fetchall() through the result, whatever fails on the way.               *)
(***************************************************************************)
CallsReturn == ~IsIdle ~> IsIdle

(***************************************************************************)
(* What the documentation says and the code does not do: it is checked by  *)
(* a run that is expected to violate it.                                   *)
(***************************************************************************)
\* fetchall(): "Fetch all remaining rows of a query result."  After commit()
\* or a reconnect the handle is gone and _fetch_more_rows ends the result.
FetchAllComplete ==
  [][\A c \in Cursors :
       FetchallReturns(c) => result'[c].index = result'[c].total]_vars
=============================================================================
