--------------------------- MODULE AsyncConnection ---------------------------
(***************************************************************************)
(* pycubrid.aio.AsyncConnection (src/pycubrid/aio/connection.py), shared   *)
(* by several asyncio tasks.                                               *)
(*                                                                         *)
(* An action is what a task runs between two suspensions: the wait for the *)
(* lock, the handshake, the wait for a response.  A request is built       *)
(* before the wait for the lock and written after it, and what a call does *)
(* with the response is in the step that releases the lock.  The awaits of *)
(* _close_streams are not suspensions here: the lock is held, and nothing  *)
(* but the streams that go away changes meanwhile.  A free lock is granted *)
(* in a step of its own: no step another task could take in between, not   *)
(* having the lock, changes what the first finds.                          *)
(*                                                                         *)
(* AsyncCursor.tla adds the calls of the cursors.                          *)
(***************************************************************************)
EXTENDS CasServer

CONSTANTS
  Tasks,      \* the tasks that share the connection
  Cursors,    \* the cursor objects of the application
  Api,        \* the calls the tasks make
  MaxCancels  \* at most this many calls are cancelled

ConnectionCalls == {"connect", "close", "commit", "rollback", "cursor",
                    "set_autocommit", "get_server_version",
                    "get_last_insert_id", "get_schema_info", "ping"}
CursorCalls == {"cursor_close", "execute", "executemany_batch",
                "fetchmany", "fetchall"}
Calls == ConnectionCalls \cup CursorCalls

ASSUME TasksAssumption == None \notin Tasks
ASSUME CursorsAssumption == None \notin Cursors
ASSUME ApiAssumption == Api \subseteq Calls
ASSUME MaxCancelsAssumption == MaxCancels \in Nat

VARIABLES
  connected,  \* _connected
  streams,    \* _reader and _writer are not None
  requests,   \* the packets written and not answered yet
  responses,  \* the responses received and not read yet
  casStatus,  \* _cas_info[0]
  autocommit, \* _autocommit
  cursors,    \* _cursors, the tracked cursors
  closed,     \* closed[c]: the cursor is closed, or not created yet
  handle,     \* handle[c]: _query_handle
  result,     \* result[c]: the result set the cursor holds, of the
              \* statement its last execute() ran
  lastrowid,  \* lastrowid[c]: _lastrowid, as the INSERT it belongs to
  owner,      \* the task that holds _lock, or None
  waiters,    \* the tasks waiting for _lock, first come first
  task,       \* task[t]: the call t has under way
  ret,        \* how a call ended, in the step that ended it
  cancels,    \* calls cancelled so far
  sent,       \* history: statements used up
  acked       \* history: DML acknowledged in the transaction the
              \* application believes to be in

transportVars == <<connected, streams, requests, responses, casStatus>>
cursorVars == <<closed, handle, result, lastrowid>>
lockVars == <<owner, waiters>>
historyVars == <<cancels, sent, acked>>
vars == <<serverVars, transportVars, autocommit, cursors, cursorVars,
          lockVars, task, ret, historyVars>>

(***************************************************************************)
(* The call a task has under way.  at: "idle"; "lock", waiting for _lock   *)
(* to do what why says, a "request", "connect", the "drop" of ping() or    *)
(* the end of "close"; "connect", in the handshake; "read", waiting for    *)
(* the response.  The other fields are those of Connection.tla.            *)
(***************************************************************************)
TaskRecords == [op: Calls \cup {"none"}, cur: Cursors \cup {None},
                at: {"idle", "lock", "connect", "read"},
                why: {"request", "connect", "drop", "close"},
                pkt: Packets, stmts: SUBSET Stmts, want: Nat,
                todo: SUBSET Cursors, flag: BOOLEAN]

Idle == [op |-> "none", cur |-> None, at |-> "idle", why |-> "request",
         pkt |-> NoPacket, stmts |-> {}, want |-> 0, todo |-> {}, flag |-> FALSE]

IsIdle(t) == task[t].at = "idle"

\* A call of op whose first request is p; one that first wants the lock for
\* something else.
Begin(op, c, p) == [Idle EXCEPT !.op = op, !.cur = c, !.pkt = p, !.at = "lock"]
BeginFor(op, why) == [Idle EXCEPT !.op = op, !.why = why, !.at = "lock"]

Invoke(t, op) == IsIdle(t) /\ op \in Api

(***************************************************************************)
(* asyncio.Lock: granted in the order of the requests.                     *)
(***************************************************************************)
\* Seeded fault: the head of the queue does not wait for the owner.
GrantedToTheNext(t) == task[t].at = "lock" /\ Head(waiters) = t

Granted(t) == task[t].at = "lock" /\ owner = None /\ Head(waiters) = t

Acquire(t) == owner' = t /\ waiters' = Tail(waiters)

\* t leaves the queue, wherever it stands in it.
OtherWaiters(t) ==
  IF \E i \in DOMAIN waiters : waiters[i] = t
  THEN LET k == CHOOSE i \in DOMAIN waiters : waiters[i] = t
       IN  SubSeq(waiters, 1, k - 1) \o SubSeq(waiters, k + 1, Len(waiters))
  ELSE waiters

\* t goes on with its call as the record call says, at the end of the queue.
Wait(t, call) ==
  /\ task' = [task EXCEPT ![t] = call]
  /\ waiters' = Append(OtherWaiters(t), t)
  /\ ret' = "none"

\* The call of t is over.
Finish(t, st) ==
  /\ task' = [task EXCEPT ![t] = Idle]
  /\ waiters' = OtherWaiters(t)
  /\ ret' = st

\* t holds the lock and waits for something else.
Suspend(t, at) ==
  /\ task' = [task EXCEPT ![t].at = at]
  /\ ret' = "none"

(***************************************************************************)
(* The streams and the session behind them.                                *)
(***************************************************************************)
\* Seeded fault: no handle is ever invalidated.
InvalidatedNone == handle

\* _invalidate_query_handles
Invalidated == [c \in Cursors |-> IF c \in cursors THEN None ELSE handle[c]]

\* _close_streams, then _connected = False.
Disconnect ==
  /\ connected' = FALSE
  /\ streams' = FALSE
  /\ requests' = <<>>
  /\ responses' = <<>>
  /\ SessionEnds

HandshakeOk ==
  /\ SessionOpens
  /\ connected' = TRUE
  /\ streams' = TRUE
  /\ UNCHANGED responses
  /\ casStatus' \in {"ACTIVE", "INACTIVE"}

HandshakeFails ==
  /\ streams' = FALSE
  /\ UNCHANGED <<serverVars, connected, requests, responses, casStatus>>

\* A session that has died never gets the request.
Write(t) ==
  /\ requests' = IF up' THEN Append(requests, task[t].pkt) ELSE <<>>
  /\ Suspend(t, "read")

(***************************************************************************)
(* _send_and_receive, with the lock: _check_reconnect_locked, the request, *)
(* and one disjunct of SendAndReceive for each way out.                    *)
(***************************************************************************)
AllowsReconnect(t) ==
  task[t].pkt.fc # "CloseDatabase" /\ (task[t].pkt.fc = "CheckCas" => task[t].flag)

\* Seeded fault: reconnects before every request, whatever the status byte.
MustReconnectAlways(t) == connected /\ streams /\ AllowsReconnect(t)

MustReconnect(t) ==
  /\ connected
  /\ casStatus = "INACTIVE"
  /\ streams
  /\ AllowsReconnect(t)

WantsToSend(t) ==
  Granted(t) /\ (task[t].why = "request" \/ (task[t].why = "close" /\ connected))

\* Seeded fault: _connect_locked runs over the streams that are still open.
CheckReconnectKeepingStreams(t) ==
  /\ WantsToSend(t)
  /\ MustReconnect(t)
  /\ handle' = Invalidated
  /\ Acquire(t)
  /\ Suspend(t, "connect")
  /\ UNCHANGED <<serverVars, transportVars, autocommit, cursors, closed, result,
                 lastrowid, historyVars>>

\* Inactive: streams closed, handles invalidated, then _connect_locked.
CheckReconnect(t) ==
  /\ WantsToSend(t)
  /\ MustReconnect(t)
  /\ Disconnect
  /\ handle' = Invalidated
  /\ Acquire(t)
  /\ Suspend(t, "connect")
  /\ UNCHANGED <<casStatus, autocommit, cursors, closed, result, lastrowid,
                 historyVars>>

Reconnected(t) ==
  /\ task[t].at = "connect"
  /\ task[t].why = "request"
  /\ HandshakeOk
  /\ Write(t)
  /\ UNCHANGED <<lockVars, autocommit, cursors, cursorVars, historyVars>>

SendRequest(t) ==
  /\ WantsToSend(t)
  /\ connected /\ streams
  /\ ~MustReconnect(t)
  /\ UNCHANGED <<serverVars, connected, streams, responses, casStatus>>
  /\ Acquire(t)
  /\ Write(t)
  /\ UNCHANGED <<autocommit, cursors, cursorVars, historyVars>>

\* InterfaceError, from _ensure_connected or from the streams' test.
NotConnected(t, r) ==
  /\ WantsToSend(t)
  /\ ~(connected /\ streams)
  /\ r = Failed("operr")
  /\ UNCHANGED <<serverVars, transportVars>>

ReconnectFails(t, r) ==
  /\ task[t].at = "connect"
  /\ task[t].why = "request"
  /\ r \in {Failed("operr"), Failed("error")}
  /\ HandshakeFails

\* Packets whose response carries values to decode: decoding may raise.
CarriesData == {"PrepareAndExecute", "ExecuteBatch", "Fetch", "GetSchema",
                "GetLastInsertId", "GetEngineVersion"}

\* What parse() of a packet fc may make of the response m, which may be to
\* another request: then only the response code can be told for sure, and a
\* response to PREPARE_AND_EXECUTE cannot be made out of anything else.
Readings(m, fc) ==
  IF fc = "CheckCas" /\ (m.reply.neg \/ m.reply.st = "error") THEN {NegativeReply}
  ELSE IF m.reply.neg \/ m.reply.st = "error" THEN {Failed("error")}
  ELSE (IF m.fc = fc THEN {m.reply}
        ELSE IF fc = "PrepareAndExecute" THEN {} ELSE {OkReply})
       \cup (IF fc \in CarriesData THEN {Failed("operr")} ELSE {})

Reading(t) == task[t].at = "read" /\ owner = t

\* A response is there.  A malformed one disconnects.
Response(t, r) ==
  /\ Reading(t)
  /\ responses # <<>>
  /\ r \in Readings(Head(responses), task[t].pkt.fc)
  /\ casStatus' = Head(responses).status
  /\ IF r.st = "operr"
     THEN Disconnect
     ELSE /\ responses' = Tail(responses)
          /\ UNCHANGED <<serverVars, connected, streams, requests>>

\* Seeded fault: after a timeout the streams stay in use.
SocketErrorKeepingStreams(t, r) ==
  /\ Reading(t)
  /\ r = Failed("operr")
  /\ UNCHANGED <<serverVars, transportVars>>

\* TimeoutError or OSError: disconnected, handles are kept.
SocketError(t, r) ==
  /\ Reading(t)
  /\ r = Failed("operr")
  /\ Disconnect
  /\ UNCHANGED casStatus

\* IncompleteReadError is neither: nobody closes the streams.
EndOfFile(t, r) ==
  /\ Reading(t)
  /\ ~up /\ responses = <<>>
  /\ r = Failed("operr")
  /\ UNCHANGED <<serverVars, transportVars>>

PossibleReplies(t) ==
  {Failed("operr"), Failed("error")} \cup
    (IF responses = <<>> THEN {} ELSE Readings(Head(responses), task[t].pkt.fc))

SendAndReceive(t, r) ==
  /\ \/ NotConnected(t, r)
     \/ ReconnectFails(t, r)
     \/ Response(t, r)
     \/ SocketError(t, r)
     \/ EndOfFile(t, r)
  /\ owner' = None

NoCursorChange == UNCHANGED <<autocommit, cursors, cursorVars>>

(***************************************************************************)
(* The session answers the oldest request it has.                          *)
(***************************************************************************)
StatusAfter(o) == {"ACTIVE"} \cup (IF o.tran THEN {} ELSE {"INACTIVE"})

ServerAnswers ==
  /\ requests # <<>>
  /\ \E o \in Outcomes(Head(requests)) :
       /\ Serve(o)
       /\ \E status \in StatusAfter(o) :
            responses' = Append(responses, [fc |-> Head(requests).fc,
                                            reply |-> o.reply, status |-> status])
  /\ requests' = Tail(requests)
  /\ ret' = "none"
  /\ UNCHANGED <<connected, streams, casStatus, autocommit, cursors, cursorVars,
                 lockVars, task, historyVars>>

\* The session dies; responses on their way may be lost with it.
SessionLost ==
  /\ up
  /\ SessionEnds
  /\ requests' = <<>>
  /\ responses' \in {responses, <<>>}
  /\ ret' = "none"
  /\ UNCHANGED <<connected, streams, casStatus, autocommit, cursors, cursorVars,
                 lockVars, task, historyVars>>

(***************************************************************************)
(* connect(): the test of _connected is under the lock.                    *)
(***************************************************************************)
ConnectCall(t) ==
  /\ Invoke(t, "connect")
  /\ Wait(t, BeginFor("connect", "connect"))
  /\ UNCHANGED <<serverVars, transportVars, owner, historyVars>>
  /\ NoCursorChange

WantsToConnect(t) == Granted(t) /\ task[t].why = "connect"

\* Another task has connected meanwhile.
AlreadyConnected(t) ==
  /\ WantsToConnect(t)
  /\ connected
  /\ Finish(t, "returned")
  /\ UNCHANGED <<serverVars, transportVars, owner, historyVars>>
  /\ NoCursorChange

\* Seeded fault: the test of _connected was made before the wait.
StartHandshakeUntested(t) ==
  /\ WantsToConnect(t)
  /\ Acquire(t)
  /\ Suspend(t, "connect")
  /\ UNCHANGED <<serverVars, transportVars, historyVars>>
  /\ NoCursorChange

StartHandshake(t) ==
  /\ WantsToConnect(t)
  /\ ~connected
  /\ Acquire(t)
  /\ Suspend(t, "connect")
  /\ UNCHANGED <<serverVars, transportVars, historyVars>>
  /\ NoCursorChange

\* Seeded fault: ping() tries to connect until it succeeds.
ConnectEndsRetrying(t) ==
  /\ task[t].at = "connect"
  /\ task[t].why = "connect"
  /\ \/ /\ HandshakeOk /\ UNCHANGED requests
        /\ Finish(t, "returned")
        /\ acked' = {}
     \/ /\ HandshakeFails
        /\ IF task[t].op = "ping" THEN Wait(t, BeginFor("ping", "connect"))
           ELSE Finish(t, "raised")
        /\ UNCHANGED acked
  /\ owner' = None
  /\ UNCHANGED <<cancels, sent>>
  /\ NoCursorChange

\* ping() turns a failure into False, but for the DatabaseError of a refused
\* OPEN_DATABASE.
ConnectEnds(t) ==
  /\ task[t].at = "connect"
  /\ task[t].why = "connect"
  /\ \/ /\ HandshakeOk /\ UNCHANGED requests
        /\ Finish(t, "returned")
        /\ acked' = {}
     \/ /\ HandshakeFails
        /\ \/ Finish(t, "raised")
           \/ task[t].op = "ping" /\ Finish(t, "false")
        /\ UNCHANGED acked
  /\ owner' = None
  /\ UNCHANGED <<cancels, sent>>
  /\ NoCursorChange

(***************************************************************************)
(* ping(reconnect): on failure the lock is taken again, twice, to drop the *)
(* streams and to connect.                                                 *)
(***************************************************************************)
PingCall(t) ==
  /\ Invoke(t, "ping")
  /\ \E reconnect \in BOOLEAN :
       \/ /\ connected
          /\ Wait(t, [Begin("ping", None, CheckCasPacket) EXCEPT !.flag = reconnect])
          /\ UNCHANGED handle
       \/ /\ ~connected /\ reconnect
          /\ Wait(t, BeginFor("ping", "connect"))
          /\ handle' = Invalidated
  /\ UNCHANGED <<serverVars, transportVars, owner, autocommit, cursors, closed,
                 result, lastrowid, historyVars>>

PingReply(t) ==
  /\ task[t].op = "ping" /\ task[t].why = "request"
  /\ \E r \in PossibleReplies(t) :
       /\ SendAndReceive(t, r)
       /\ CASE r.st = "ok" -> Finish(t, IF r.neg THEN "false" ELSE "returned")
            [] r.st = "error" -> Finish(t, "raised")
            [] r.st = "operr" -> IF task[t].flag
                                 THEN Wait(t, BeginFor("ping", "drop"))
                                 ELSE Finish(t, "false")
  /\ UNCHANGED historyVars
  /\ NoCursorChange

PingDrop(t) ==
  /\ Granted(t) /\ task[t].why = "drop"
  /\ Disconnect
  /\ handle' = Invalidated
  /\ Wait(t, BeginFor("ping", "connect"))
  /\ UNCHANGED <<casStatus, owner, autocommit, cursors, closed, result,
                 lastrowid, historyVars>>

(***************************************************************************)
(* commit() and rollback()                                                 *)
(***************************************************************************)
EndTranCall(t) ==
  /\ connected
  /\ \/ Invoke(t, "commit") /\ Wait(t, Begin("commit", None, CommitPacket))
     \/ Invoke(t, "rollback") /\ Wait(t, Begin("rollback", None, RollbackPacket))
  /\ UNCHANGED <<serverVars, transportVars, owner, historyVars>>
  /\ NoCursorChange

EndTranReply(t) ==
  /\ task[t].op \in {"commit", "rollback"}
  /\ \E r \in PossibleReplies(t) :
       /\ SendAndReceive(t, r)
       /\ IF r.st = "ok"
          THEN handle' = Invalidated /\ Finish(t, "returned") /\ acked' = {}
          ELSE Finish(t, "raised") /\ UNCHANGED <<handle, acked>>
  /\ UNCHANGED <<autocommit, cursors, closed, result, lastrowid, cancels, sent>>

(***************************************************************************)
(* set_autocommit(value)                                                   *)
(***************************************************************************)
SetAutocommitCall(t) ==
  /\ Invoke(t, "set_autocommit")
  /\ connected
  /\ \E value \in BOOLEAN :
       Wait(t, [Begin("set_autocommit", None, SetDbParameterPacket(value))
                  EXCEPT !.flag = value])
  /\ UNCHANGED <<serverVars, transportVars, owner, historyVars>>
  /\ NoCursorChange

SetAutocommitReply(t) ==
  /\ task[t].op = "set_autocommit"
  /\ \E r \in PossibleReplies(t) :
       /\ SendAndReceive(t, r)
       /\ \/ /\ r.st = "ok" /\ task[t].pkt.fc = "SetDbParameter"
             /\ Wait(t, [task[t] EXCEPT !.pkt = CommitPacket, !.at = "lock"])
             /\ UNCHANGED <<autocommit, acked>>
          \/ /\ r.st = "ok" /\ task[t].pkt.fc = "Commit"
             /\ Finish(t, "returned")
             /\ autocommit' = task[t].flag
             /\ acked' = {}
          \/ /\ r.st # "ok"
             /\ Finish(t, "raised")
             /\ UNCHANGED <<autocommit, acked>>
  /\ UNCHANGED <<cursors, cursorVars, cancels, sent>>

(***************************************************************************)
(* Requests that change nothing in the driver.                             *)
(***************************************************************************)
QueryCall(t) ==
  /\ connected
  /\ \/ /\ Invoke(t, "get_server_version")
        /\ Wait(t, Begin("get_server_version", None, GetEngineVersionPacket))
        /\ UNCHANGED sent
     \/ /\ Invoke(t, "get_last_insert_id")
        /\ Wait(t, Begin("get_last_insert_id", None, GetLastInsertIdPacket))
        /\ UNCHANGED sent
     \/ /\ Invoke(t, "get_schema_info")
        /\ \E s \in Stmts \ sent :
             /\ Kind[s] = "schema"
             /\ Wait(t, Begin("get_schema_info", None, GetSchemaPacket(s)))
             /\ sent' = sent \cup {s}
  /\ UNCHANGED <<serverVars, transportVars, owner, cancels, acked>>
  /\ NoCursorChange

QueryReply(t) ==
  /\ task[t].op \in {"get_server_version", "get_last_insert_id", "get_schema_info"}
  /\ \E r \in PossibleReplies(t) :
       /\ SendAndReceive(t, r)
       /\ Finish(t, IF r.st = "ok" THEN "returned" ELSE "raised")
  /\ UNCHANGED historyVars
  /\ NoCursorChange

(***************************************************************************)
(* cursor()                                                                *)
(***************************************************************************)
NoResult == [stmt |-> None, desc |-> FALSE, rows |-> <<>>, index |-> 0, total |-> 0]

NewCursor(t, c) ==
  /\ Invoke(t, "cursor")
  /\ connected
  /\ closed[c] /\ c \notin cursors
  /\ closed' = [closed EXCEPT ![c] = FALSE]
  /\ handle' = [handle EXCEPT ![c] = None]
  /\ result' = [result EXCEPT ![c] = NoResult]
  /\ lastrowid' = [lastrowid EXCEPT ![c] = None]
  /\ cursors' = cursors \cup {c}
  /\ ret' = "returned"
  /\ UNCHANGED <<serverVars, transportVars, autocommit, lockVars, task, historyVars>>

(***************************************************************************)
(* close(): AsyncCursor.close() for each cursor tracked when it was called,*)
(* in any order, without a suspension where the cursor has no request to   *)
(* make; then, under the lock, CLOSE_DATABASE and the end of the streams.  *)
(***************************************************************************)
\* The finally of AsyncCursor.close, for the cursors gone.
CursorsClosed(gone) ==
  /\ handle' = [c \in Cursors |-> IF c \in gone THEN None ELSE handle[c]]
  /\ closed' = [c \in Cursors |-> c \in gone \/ closed[c]]
  /\ cursors' = cursors \ gone
  /\ UNCHANGED <<result, lastrowid>>

CloseGoesOn(t, gone, todo) ==
  LET asks(c) == ~closed[c] /\ handle[c] # None /\ connected'
  IN  \E quiet \in SUBSET {c \in todo : ~asks(c)} :
        /\ CursorsClosed(gone \cup quiet)
        /\ \/ \E c \in todo \ quiet :
                asks(c) /\ Wait(t, [Begin("close", c, CloseQueryPacket(handle[c]))
                                      EXCEPT !.todo = todo \ (quiet \cup {c})])
           \/ /\ quiet = todo
              /\ Wait(t, [BeginFor("close", "close") EXCEPT !.pkt = CloseDatabasePacket])

\* Without a connection close() returns at once, and the cursors stay.
CloseCall(t) ==
  /\ Invoke(t, "close")
  /\ UNCHANGED <<serverVars, transportVars, owner, autocommit, historyVars>>
  /\ \/ connected /\ CloseGoesOn(t, {}, cursors)
     \/ ~connected /\ Finish(t, "returned") /\ UNCHANGED <<cursors, cursorVars>>

CloseCursorReply(t) ==
  /\ task[t].op = "close" /\ task[t].pkt.fc = "CloseQuery"
  /\ \E r \in PossibleReplies(t) : SendAndReceive(t, r)
  /\ CloseGoesOn(t, {task[t].cur}, task[t].todo)
  /\ UNCHANGED <<autocommit, historyVars>>

\* The finally of close(), whether there was a CLOSE_DATABASE to send or not.
CloseEnds(t) ==
  /\ task[t].op = "close" /\ task[t].why = "close"
  /\ \/ Granted(t) /\ ~(connected /\ streams)
     \/ Reading(t)
  /\ Disconnect
  /\ \/ UNCHANGED casStatus
     \/ Reading(t) /\ responses # <<>> /\ casStatus' = Head(responses).status
  /\ owner' = None
  /\ Finish(t, "returned")
  /\ UNCHANGED historyVars
  /\ NoCursorChange

(***************************************************************************)
(* A call is cancelled where it is suspended.  The finally clauses run;    *)
(* what is caught above is not CancelledError, and a response under way    *)
(* stays in the streams.                                                   *)
(***************************************************************************)
\* Seeded fault: the lock is given back on the way out of a return only.
OwnerAsBefore(t) == owner

\* async with self._lock
OwnerWithout(t) == IF owner = t THEN None ELSE owner

ClosesCursor(t) ==
  task[t].pkt.fc = "CloseQuery" /\ task[t].op \in {"close", "cursor_close"}

Cancel(t) ==
  /\ cancels < MaxCancels
  /\ ~IsIdle(t)
  /\ cancels' = cancels + 1
  /\ Finish(t, "cancelled")
  /\ IF ClosesCursor(t) THEN CursorsClosed({task[t].cur})
     ELSE UNCHANGED <<cursors, cursorVars>>
  /\ IF task[t].at = "read" /\ task[t].why = "close" THEN Disconnect
     ELSE UNCHANGED <<serverVars, connected, streams, requests, responses>>
  /\ owner' = OwnerWithout(t)
  /\ UNCHANGED <<casStatus, autocommit, sent, acked>>
=============================================================================
