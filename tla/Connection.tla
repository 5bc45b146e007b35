----------------------------- MODULE Connection -----------------------------
(***************************************************************************)
(* pycubrid.Connection, the synchronous connection (src/pycubrid/          *)
(* connection.py and the state it inherits from _connection_common.py).    *)
(*                                                                         *)
(* A connection belongs to one thread (threadsafety = 1), so one public    *)
(* call runs at a time: call holds it, and what is left of it.  Every call *)
(* talks to the server through _send_and_receive, which may first find the *)
(* CAS released and reconnect; the broker, the network and the session     *)
(* may fail at each of these steps.  A call is the action that invokes it, *)
(* the steps of _check_reconnect where they happen, and one action for     *)
(* each exchange, which covers the code up to the next exchange or to the  *)
(* return.                                                                 *)
(*                                                                         *)
(* Cursor.tla adds the cursors' calls; the cursors' variables are declared *)
(* here, because the connection closes cursors and drops their handles.    *)
(***************************************************************************)
EXTENDS CasServer

CONSTANTS
  Cursors,    \* the cursor objects of the application
  Api         \* the public calls the application makes

ConnectionCalls == {"connect", "close", "commit", "rollback", "cursor",
                    "set_autocommit", "get_server_version",
                    "get_last_insert_id", "get_schema_info", "ping"}
CursorCalls == {"cursor_close", "execute", "executemany_batch",
                "fetchmany", "fetchall"}
Calls == ConnectionCalls \cup CursorCalls

ASSUME CursorsAssumption == None \notin Cursors
ASSUME ApiAssumption == Api \subseteq Calls

VARIABLES
  connected,  \* _connected
  socket,     \* _socket is not None
  casStatus,  \* _cas_info[0]
  autocommit, \* _autocommit
  cursors,    \* _cursors, the tracked cursors
  closed,     \* closed[c]: the cursor is closed, or not created yet
  handle,     \* handle[c]: _query_handle
  result,     \* result[c]: the result set the cursor holds, of the
              \* statement its last execute() ran
  lastrowid,  \* lastrowid[c]: _lastrowid, as the INSERT it belongs to
  call,       \* the public call under way
  ret,        \* how the last public call ended
  sent,       \* history: statements used up
  acked       \* history: DML acknowledged in the transaction the
              \* application believes to be in

transportVars == <<connected, socket, casStatus>>
connectionVars == <<transportVars, autocommit, cursors>>
cursorVars == <<closed, handle, result, lastrowid>>
vars == <<serverVars, connectionVars, cursorVars, call, ret, sent, acked>>

(***************************************************************************)
(* The call under way.  step: "idle", none; "send", _send_and_receive is   *)
(* about to look at the connection; "connect", _check_reconnect (or the    *)
(* call itself) is in the handshake; "exchange", the new session waits for *)
(* the request that was built before; "loop", between two cursors of       *)
(* close(); "cleanup", before the connection is torn down in the finally   *)
(* of close() and the except of ping().  pkt is the packet built, stmts    *)
(* the statements being executed, want the rows a fetchmany still has to   *)
(* deliver, todo the cursors a close() has left, flag the argument of      *)
(* set_autocommit and ping.                                                *)
(***************************************************************************)
Steps == {"idle", "send", "connect", "exchange", "loop", "cleanup"}

CallRecords == [op: Calls \cup {"none"}, cur: Cursors \cup {None}, step: Steps,
                pkt: Packets, stmts: SUBSET Stmts, want: Nat,
                todo: SUBSET Cursors, flag: BOOLEAN]

Idle == [op |-> "none", cur |-> None, step |-> "idle", pkt |-> NoPacket,
         stmts |-> {}, want |-> 0, todo |-> {}, flag |-> FALSE]

IsIdle == call.step = "idle"

NoReturn == "none"

\* The application invokes op; its first packet is p.
Begin(op, c, p) ==
  [op |-> op, cur |-> c, step |-> "send", pkt |-> p,
   stmts |-> {}, want |-> 0, todo |-> {}, flag |-> FALSE]

SendNext(p) == call' = [call EXCEPT !.pkt = p, !.step = "send"]

\* The call is over: it returned (ping: True), returned False, or raised.
Finish(st) == call' = Idle /\ ret' = st
Return == Finish("returned")
ReturnFalse == Finish("false")
Raise == Finish("raised")

Invoke(op) == IsIdle /\ op \in Api

(***************************************************************************)
(* Helpers of _connection_common.py.                                       *)
(***************************************************************************)
\* Seeded fault: no handle is ever invalidated.
InvalidatedNone == handle

\* _invalidate_query_handles: only the tracked cursors forget their handle.
Invalidated == [c \in Cursors |-> IF c \in cursors THEN None ELSE handle[c]]

\* Seeded fault: the dropped connection leaves the cursors their handles.
DropConnectionKeepingHandles ==
  /\ connected' = FALSE
  /\ socket' = FALSE
  /\ UNCHANGED handle
  /\ SessionEnds

\* _drop_connection: socket closed, disconnected, handles invalidated.
DropConnection ==
  /\ connected' = FALSE
  /\ socket' = FALSE
  /\ handle' = Invalidated
  /\ SessionEnds

\* Seeded fault: INACTIVE is taken from responses inside a transaction too.
CasStatusAlwaysInactive == casStatus' = "INACTIVE"

\* The status byte of a response: INACTIVE only out of a transaction.
CasStatusAfterReply ==
  \/ casStatus' = "ACTIVE"
  \/ casStatus' = "INACTIVE" /\ ~tran'

(***************************************************************************)
(* connect(): the handshake, seen from the session.  It succeeds, or fails *)
(* and leaves the connection without a socket.                             *)
(***************************************************************************)
HandshakeOk ==
  /\ SessionOpens
  /\ connected' = TRUE
  /\ socket' = TRUE
  /\ casStatus' \in {"ACTIVE", "INACTIVE"}

HandshakeFails ==
  /\ socket' = FALSE
  /\ UNCHANGED <<serverVars, connected, casStatus>>

(***************************************************************************)
(* _check_reconnect: the CAS was released, the packet may reconnect.       *)
(***************************************************************************)
\* Seeded fault: reconnects before every request, whatever the status byte.
MustReconnectAlways ==
  /\ connected
  /\ socket
  /\ call.pkt.fc = "CheckCas" => call.flag

MustReconnect ==
  /\ connected
  /\ casStatus = "INACTIVE"
  /\ socket
  /\ call.pkt.fc = "CheckCas" => call.flag

\* Seeded fault: connect() runs over the socket that is still open.
CheckReconnectKeepingSocket ==
  /\ call.step = "send"
  /\ MustReconnect
  /\ handle' = Invalidated
  /\ call' = [call EXCEPT !.step = "connect"]
  /\ UNCHANGED <<serverVars, transportVars, autocommit, cursors, closed, result,
                 lastrowid, ret, sent, acked>>

\* Inactive: drop the session, then run connect().
CheckReconnect ==
  /\ call.step = "send"
  /\ MustReconnect
  /\ DropConnection
  /\ call' = [call EXCEPT !.step = "connect"]
  /\ UNCHANGED <<casStatus, autocommit, cursors, closed, result, lastrowid,
                 ret, sent, acked>>

\* connect() inside _check_reconnect succeeds: the packet goes out on it.
Reconnected ==
  /\ call.step = "connect"
  /\ call.pkt.fc # "None"
  /\ HandshakeOk
  /\ call' = [call EXCEPT !.step = "exchange"]
  /\ UNCHANGED <<autocommit, cursors, cursorVars, ret, sent, acked>>

(***************************************************************************)
(* The end of _send_and_receive(call.pkt): r is the response, or tells     *)
(* which exception it raises.  One disjunct per way out.                   *)
(***************************************************************************)
Ready ==
  /\ connected
  /\ \/ call.step = "exchange"
     \/ call.step = "send" /\ ~MustReconnect

\* _ensure_connected raises InterfaceError; so would a missing socket.
NotConnected(r) ==
  /\ call.step = "send"
  /\ ~(connected /\ socket)
  /\ r = Failed("operr")
  /\ UNCHANGED <<serverVars, transportVars>>

\* connect() inside _check_reconnect raises: OperationalError, or the
\* DatabaseError of an OPEN_DATABASE refused.
ReconnectFails(r) ==
  /\ call.step = "connect"
  /\ call.pkt.fc # "None"
  /\ r \in {Failed("operr"), Failed("error")}
  /\ HandshakeFails

\* Packets whose response carries values to decode: decoding may raise.
CarriesData == {"PrepareAndExecute", "ExecuteBatch", "Fetch", "GetSchema",
                "GetLastInsertId", "GetEngineVersion"}

\* What parse() may make of an outcome's response.
Parsed(o) ==
  IF o.reply.st = "ok" /\ call.pkt.fc \in CarriesData
  THEN {o.reply, Failed("unparsed")} ELSE {o.reply}

\* A whole response arrives: CAS_INFO is stored, then the body is parsed.
Response(r) ==
  /\ Ready
  /\ socket
  /\ \E o \in Outcomes(call.pkt) : r \in Parsed(o) /\ Serve(o)
  /\ CasStatusAfterReply
  /\ UNCHANGED <<connected, socket>>

\* OSError, a timeout included: the socket is closed, handles are kept.
SocketError(r) ==
  /\ Ready
  /\ socket
  /\ r = Failed("operr")
  /\ SessionEndsDuring(call.pkt)
  /\ connected' = FALSE
  /\ socket' = FALSE
  /\ UNCHANGED casStatus

\* End of file: _recv_exact raises, and nobody closes the socket.
EndOfFile(r) ==
  /\ Ready
  /\ socket
  /\ r = Failed("operr")
  /\ SessionEndsDuring(call.pkt)
  /\ UNCHANGED transportVars

\* Everything _send_and_receive(call.pkt) may return or raise.
PossibleReplies ==
  {Failed("operr"), Failed("error")}
    \cup UNION {Parsed(o) : o \in Outcomes(call.pkt)}

SendAndReceive(r) ==
  \/ NotConnected(r)
  \/ ReconnectFails(r)
  \/ Response(r)
  \/ SocketError(r)
  \/ EndOfFile(r)

\* What an exchange of any call leaves to the call's own code.
NoCursorChange == UNCHANGED <<autocommit, cursors, cursorVars>>

(***************************************************************************)
(* connect()                                                               *)
(***************************************************************************)
ConnectCall ==
  /\ Invoke("connect")
  /\ ~connected
  /\ call' = [Idle EXCEPT !.op = "connect", !.step = "connect"]
  /\ ret' = NoReturn
  /\ UNCHANGED <<serverVars, connectionVars, cursorVars, sent, acked>>

ConnectDone ==
  /\ call.op = "connect"
  /\ \/ HandshakeOk /\ Return /\ acked' = {}
     \/ HandshakeFails /\ Raise /\ UNCHANGED acked
  /\ UNCHANGED sent
  /\ NoCursorChange

(***************************************************************************)
(* ping(reconnect)                                                         *)
(***************************************************************************)
PingCall ==
  /\ Invoke("ping")
  /\ \E reconnect \in BOOLEAN :
       \/ /\ connected
          /\ call' = [Begin("ping", None, CheckCasPacket)
                        EXCEPT !.flag = reconnect]
          /\ UNCHANGED handle
       \/ /\ ~connected /\ reconnect
          /\ call' = [Idle EXCEPT !.op = "ping", !.step = "connect", !.flag = TRUE]
          /\ handle' = Invalidated
  /\ ret' = NoReturn
  /\ UNCHANGED <<serverVars, connectionVars, closed, result, lastrowid, sent, acked>>

\* A DatabaseError passes through ping(); the other exceptions are caught.
PingReply ==
  /\ call.op = "ping"
  /\ \E r \in PossibleReplies :
       /\ SendAndReceive(r)
       /\ CASE r.st = "ok" -> IF r.neg THEN ReturnFalse ELSE Return
            [] r.st = "error" -> Raise
            [] OTHER -> IF call.flag
                        THEN /\ call' = [call EXCEPT !.step = "cleanup",
                                                     !.pkt = NoPacket]
                             /\ UNCHANGED ret
                        ELSE ReturnFalse
  /\ UNCHANGED <<sent, acked>>
  /\ NoCursorChange

PingDrop ==
  /\ call.op = "ping"
  /\ call.step = "cleanup"
  /\ DropConnection
  /\ call' = [call EXCEPT !.step = "connect"]
  /\ UNCHANGED <<casStatus, autocommit, cursors, closed, result, lastrowid,
                 ret, sent, acked>>

PingConnect ==
  /\ call.op = "ping"
  /\ call.step = "connect"
  /\ call.pkt.fc = "None"
  /\ \/ HandshakeOk /\ Return /\ acked' = {}
     \/ HandshakeFails /\ (ReturnFalse \/ Raise) /\ UNCHANGED acked
  /\ UNCHANGED sent
  /\ NoCursorChange

(***************************************************************************)
(* commit() and rollback(): handles are dropped once the server has        *)
(* answered.                                                               *)
(***************************************************************************)
EndTranCall ==
  /\ connected
  /\ \/ Invoke("commit") /\ call' = Begin("commit", None, CommitPacket)
     \/ Invoke("rollback")
          /\ call' = Begin("rollback", None, RollbackPacket)
  /\ ret' = NoReturn
  /\ UNCHANGED <<serverVars, connectionVars, cursorVars, sent, acked>>

EndTranReply ==
  /\ call.op \in {"commit", "rollback"}
  /\ \E r \in PossibleReplies :
       /\ SendAndReceive(r)
       /\ IF r.st = "ok"
          THEN handle' = Invalidated /\ Return /\ acked' = {}
          ELSE Raise /\ UNCHANGED <<handle, acked>>
  /\ UNCHANGED <<autocommit, cursors, closed, result, lastrowid, sent>>

(***************************************************************************)
(* autocommit = value: SET_DB_PARAMETER, then a commit that leaves the     *)
(* handles alone.                                                          *)
(***************************************************************************)
SetAutocommitCall ==
  /\ Invoke("set_autocommit")
  /\ connected
  /\ \E value \in BOOLEAN :
       call' = [Begin("set_autocommit", None, SetDbParameterPacket(value))
                  EXCEPT !.flag = value]
  /\ ret' = NoReturn
  /\ UNCHANGED <<serverVars, connectionVars, cursorVars, sent, acked>>

SetAutocommitReply ==
  /\ call.op = "set_autocommit"
  /\ \E r \in PossibleReplies :
       /\ SendAndReceive(r)
       /\ \/ /\ r.st = "ok" /\ call.pkt.fc = "SetDbParameter"
             /\ SendNext(CommitPacket)
             /\ UNCHANGED <<autocommit, ret, acked>>
          \/ /\ r.st = "ok" /\ call.pkt.fc = "Commit"
             /\ autocommit' = call.flag
             /\ Return
             /\ acked' = {}
          \/ /\ r.st # "ok"
             /\ Raise
             /\ UNCHANGED <<autocommit, acked>>
  /\ UNCHANGED <<cursors, cursorVars, sent>>

(***************************************************************************)
(* Requests that change nothing in the driver: get_server_version (and,    *)
(* alike, create_lob and the Lob calls), get_last_insert_id, and           *)
(* get_schema_info, which leaves a handle open on the server.              *)
(***************************************************************************)
QueryCall ==
  /\ connected
  /\ \/ /\ Invoke("get_server_version")
        /\ call' = Begin("get_server_version", None, GetEngineVersionPacket)
        /\ UNCHANGED sent
     \/ /\ Invoke("get_last_insert_id")
        /\ call' = Begin("get_last_insert_id", None, GetLastInsertIdPacket)
        /\ UNCHANGED sent
     \/ /\ Invoke("get_schema_info")
        /\ \E s \in Stmts \ sent :
             /\ Kind[s] = "schema"
             /\ call' = Begin("get_schema_info", None, GetSchemaPacket(s))
             /\ sent' = sent \cup {s}
  /\ ret' = NoReturn
  /\ UNCHANGED <<serverVars, connectionVars, cursorVars, acked>>

QueryReply ==
  /\ call.op \in {"get_server_version", "get_last_insert_id", "get_schema_info"}
  /\ \E r \in PossibleReplies :
       /\ SendAndReceive(r)
       /\ IF r.st = "ok" THEN Return ELSE Raise
  /\ UNCHANGED <<sent, acked>>
  /\ NoCursorChange

(***************************************************************************)
(* cursor(): a new cursor object, tracked.                                 *)
(***************************************************************************)
NoResult == [stmt |-> None, desc |-> FALSE, rows |-> <<>>, index |-> 0, total |-> 0]

NewCursor(c) ==
  /\ Invoke("cursor")
  /\ connected
  /\ closed[c] /\ c \notin cursors
  /\ closed' = [closed EXCEPT ![c] = FALSE]
  /\ handle' = [handle EXCEPT ![c] = None]
  /\ result' = [result EXCEPT ![c] = NoResult]
  /\ lastrowid' = [lastrowid EXCEPT ![c] = None]
  /\ cursors' = cursors \cup {c}
  /\ ret' = NoReturn
  /\ UNCHANGED <<serverVars, transportVars, autocommit, call, sent, acked>>

(***************************************************************************)
(* close(): every tracked cursor, then CLOSE_DATABASE, then the socket,    *)
(* whatever each of them raises.                                           *)
(***************************************************************************)
\* The finally of Cursor.close.
CursorClosed(c) ==
  /\ handle' = [handle EXCEPT ![c] = None]
  /\ closed' = [closed EXCEPT ![c] = TRUE]
  /\ cursors' = cursors \ {c}
  /\ UNCHANGED <<result, lastrowid>>

\* Seeded fault: only the cursors with a handle are visited.
CloseCallSkippingIdleCursors ==
  /\ Invoke("close")
  /\ \/ /\ connected
        /\ call' = [Idle EXCEPT !.op = "close", !.step = "loop",
                                !.todo = {c \in cursors : handle[c] # None}]
        /\ ret' = NoReturn
     \/ ~connected /\ Return
  /\ UNCHANGED <<serverVars, connectionVars, cursorVars, sent, acked>>

\* Without a connection close() returns at once, and the cursors stay.
CloseCall ==
  /\ Invoke("close")
  /\ \/ /\ connected
        /\ call' = [Idle EXCEPT !.op = "close", !.step = "loop", !.todo = cursors]
        /\ ret' = NoReturn
     \/ ~connected /\ Return
  /\ UNCHANGED <<serverVars, connectionVars, cursorVars, sent, acked>>

\* Seeded fault: a cursor without a handle stays on the list of cursors.
CloseCursorForever(c) ==
  /\ call.op = "close" /\ call.step = "loop"
  /\ c \in call.todo
  /\ IF handle[c] # None /\ connected
     THEN /\ call' = [call EXCEPT !.cur = c, !.step = "send",
                                  !.pkt = CloseQueryPacket(handle[c])]
          /\ UNCHANGED <<cursors, cursorVars>>
     ELSE /\ CursorClosed(c)
          /\ UNCHANGED call
  /\ UNCHANGED <<serverVars, transportVars, autocommit, ret, sent, acked>>

CloseCursor(c) ==
  /\ call.op = "close" /\ call.step = "loop"
  /\ c \in call.todo
  /\ IF handle[c] # None /\ connected
     THEN /\ call' = [call EXCEPT !.cur = c, !.step = "send",
                                  !.pkt = CloseQueryPacket(handle[c])]
          /\ UNCHANGED <<cursors, cursorVars>>
     ELSE /\ CursorClosed(c)
          /\ call' = [call EXCEPT !.todo = @ \ {c}]
  /\ UNCHANGED <<serverVars, transportVars, autocommit, ret, sent, acked>>

CloseCursorReply ==
  /\ call.op = "close" /\ call.pkt.fc = "CloseQuery"
  /\ \E r \in PossibleReplies : SendAndReceive(r)
  /\ CursorClosed(call.cur)
  /\ call' = [call EXCEPT !.todo = @ \ {call.cur}, !.cur = None,
                          !.pkt = NoPacket, !.step = "loop"]
  /\ UNCHANGED <<autocommit, ret, sent, acked>>

CloseDatabase ==
  /\ call.op = "close" /\ call.step = "loop"
  /\ call.todo = {}
  /\ SendNext(CloseDatabasePacket)
  /\ UNCHANGED <<serverVars, connectionVars, cursorVars, ret, sent, acked>>

CloseDatabaseReply ==
  /\ call.op = "close" /\ call.pkt.fc = "CloseDatabase"
  /\ \E r \in PossibleReplies : SendAndReceive(r)
  /\ call' = [call EXCEPT !.pkt = NoPacket, !.step = "cleanup"]
  /\ UNCHANGED <<ret, sent, acked>>
  /\ NoCursorChange

CloseSocket ==
  /\ call.op = "close" /\ call.step = "cleanup"
  /\ socket' = FALSE
  /\ connected' = FALSE
  /\ SessionEnds
  /\ Return
  /\ UNCHANGED <<casStatus, sent, acked>>
  /\ NoCursorChange
=============================================================================
