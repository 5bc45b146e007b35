------------------------ MODULE SyncDurabilityProofs ------------------------
(***************************************************************************)
(* commit() of the synchronous driver makes durable what was acknowledged, *)
(* and the driver moves its transport as Transport.tla has it, for every   *)
(* value of the constants.                                                 *)
(***************************************************************************)
EXTENDS SyncDriverProofs

(***************************************************************************)
(* Durability of commit().  AckedKept is inductive together with the types *)
(* and with which packets, steps and results a call may have.              *)
(***************************************************************************)
FcsOf(op) ==
  {"None"} \cup
  (CASE op = "ping" -> {"CheckCas"}
     [] op = "commit" -> {"Commit"}
     [] op = "rollback" -> {"Rollback"}
     [] op = "set_autocommit" -> {"SetDbParameter", "Commit"}
     [] op = "get_server_version" -> {"GetEngineVersion"}
     [] op = "get_last_insert_id" -> {"GetLastInsertId"}
     [] op = "get_schema_info" -> {"GetSchema"}
     [] op = "close" -> {"CloseQuery", "CloseDatabase"}
     [] op = "cursor_close" -> {"CloseQuery"}
     [] op = "execute" -> {"CloseQuery", "PrepareAndExecute", "GetLastInsertId"}
     [] op = "executemany_batch" -> {"ExecuteBatch"}
     [] op \in {"fetchmany", "fetchall"} -> {"Fetch"}
     [] OTHER -> {})

CallShape ==
  /\ call.pkt.fc \in FcsOf(call.op)
  /\ call.op \in {"commit", "rollback", "set_autocommit"} => call.pkt.fc # "None"
  /\ call.op = "connect" => call.step = "connect"
  /\ call.step = "cleanup" => call.pkt = NoPacket
  /\ IF IsIdle THEN call.op = "none" ELSE ret = "none"

CommitInv == TypeInv /\ CallShape /\ AckedKept

\* The function code of every packet, and the parts of a call that begins.
LEMMA Fields ==
  /\ CommitPacket.fc = "Commit" /\ RollbackPacket.fc = "Rollback"
  /\ CloseDatabasePacket.fc = "CloseDatabase" /\ CheckCasPacket.fc = "CheckCas"
  /\ GetLastInsertIdPacket.fc = "GetLastInsertId"
  /\ GetEngineVersionPacket.fc = "GetEngineVersion"
  /\ NoPacket.fc = "None"
  /\ \A h : CloseQueryPacket(h).fc = "CloseQuery"
  /\ \A h, n : FetchPacket(h, n).fc = "Fetch"
  /\ \A ac : SetDbParameterPacket(ac).fc = "SetDbParameter"
  /\ \A ss, ac : BatchExecutePacket(ss, ac).fc = "ExecuteBatch"
  /\ \A s, ac : PrepareAndExecutePacket(s, ac).fc = "PrepareAndExecute"
  /\ \A s : GetSchemaPacket(s).fc = "GetSchema"
  /\ \A op, c, p : /\ Begin(op, c, p).op = op
                   /\ Begin(op, c, p).step = "send"
                   /\ Begin(op, c, p).pkt = p
  /\ Idle.op = "none" /\ Idle.step = "idle" /\ Idle.pkt = NoPacket
  BY PacketFields DEF Begin, Idle

(***************************************************************************)
(* What an exchange does to the statements acknowledged so far, r being    *)
(* what _send_and_receive returns or raises.                               *)
(***************************************************************************)
ExchangeKeeps(r) ==
  /\ ~tran' => work' = {}
  /\ (r.st = "ok" => call.pkt.fc \notin {"Rollback", "CloseDatabase"}) =>
       (connected' => /\ up' => acked \subseteq work' \cup durable'
                      /\ casStatus' = "INACTIVE" => acked \subseteq durable')
  /\ r.st = "ok" =>
       /\ Dml(r.done) \subseteq work' \cup durable'
       /\ casStatus' = "INACTIVE" => Dml(r.done) \subseteq durable'
       /\ call.pkt.fc = "Commit" => acked \subseteq durable'

\* Nothing acknowledged is lost by an exchange, whichever way it goes.
LEMMA ExchangeWork ==
  ASSUME CommitInv, NEW r \in PossibleReplies, SendAndReceive(r)
  PROVE  ExchangeKeeps(r)
<1>1. /\ ServerTypeOK /\ (~tran => work = {}) /\ call.pkt \in Packets
  BY DEF CommitInv, TypeInv, TypeOK, CallRecords, AckedKept
<1>2. \A o \in Outcomes(call.pkt) : WorkKept(call.pkt, o) /\ o \in OutcomeRecords
  BY <1>1, OutcomesWork, OutcomesType
<1>3. /\ Failed("operr").st = "operr" /\ Failed("error").st = "error"
      /\ Failed("unparsed").st = "unparsed"
  BY ReplyType DEF ReplyStates
<1>4. CASE NotConnected(r)
  BY <1>1, <1>3, <1>4
     DEF NotConnected, serverVars, transportVars, CommitInv, AckedKept, ExchangeKeeps
<1>5. CASE ReconnectFails(r)
  BY <1>1, <1>3, <1>5
     DEF ReconnectFails, HandshakeFails, serverVars, CommitInv, AckedKept, ExchangeKeeps
<1>6. CASE Response(r)
  <2>1. PICK o \in Outcomes(call.pkt) : r \in Parsed(o) /\ Serve(o)
    BY <1>6 DEF Response
  <2>2. /\ r.st = "ok" => r = o.reply
        /\ o.reply.st = "ok" /\ r.st # "ok" =>
             call.pkt.fc \notin {"Rollback", "CloseDatabase"}
    BY <1>3, <2>1 DEF Parsed, CarriesData
  <2>3. WorkKept(call.pkt, o)
    BY <1>2, <2>1
  <2>4. /\ tran' = o.tran /\ work' = o.work /\ durable' = o.durable /\ up /\ up'
    BY <2>1 DEF Serve
  <2>5. acked \subseteq work \cup durable
    BY <1>6, <2>4 DEF Response, Ready, CommitInv, AckedKept
  <2>6. casStatus' = "INACTIVE" => work' = {}
    BY <1>6, <2>3, <2>4 DEF Response, CasStatusAfterReply, WorkKept
  <2>7. ~tran' => work' = {}
    BY <2>3, <2>4 DEF WorkKept
  <2>8. (r.st = "ok" => call.pkt.fc \notin {"Rollback", "CloseDatabase"})
          => acked \subseteq work' \cup durable'
    BY <2>2, <2>3, <2>4, <2>5 DEF WorkKept
  <2>9. r.st = "ok" =>
          /\ Dml(r.done) \subseteq work' \cup durable'
          /\ call.pkt.fc = "Commit" => acked \subseteq durable'
    BY <2>2, <2>3, <2>4, <2>5 DEF WorkKept
  <2> QED
    BY <2>6, <2>7, <2>8, <2>9 DEF ExchangeKeeps
<1>7. ASSUME SessionEndsDuring(call.pkt)
      PROVE  ~up' /\ work' = {} /\ durable \subseteq durable'
  BY <1>2, <1>7 DEF SessionEndsDuring, WorkKept
<1>8. CASE SocketError(r)
  BY <1>3, <1>7, <1>8 DEF SocketError, ExchangeKeeps
<1>9. CASE EndOfFile(r)
  <2>1. casStatus = "INACTIVE" => acked \subseteq durable
    BY <1>9 DEF EndOfFile, Ready, CommitInv, AckedKept
  <2> QED
    BY <1>3, <1>7, <1>9, <2>1 DEF EndOfFile, transportVars, ExchangeKeeps
<1> QED
  BY <1>4, <1>5, <1>6, <1>8, <1>9 DEF SendAndReceive

\* After an exchange AckedKept holds again, whatever the call does next.
LEMMA AckedAfterReply ==
  ASSUME CommitInv, NEW r \in PossibleReplies, SendAndReceive(r),
         call'.step \notin {"connect", "exchange"},
         \/ acked' = {}
         \/ /\ acked' = acked
            /\ \/ call'.step = "cleanup"
               \/ r.st = "ok" => call.pkt.fc \notin {"Rollback", "CloseDatabase"}
         \/ /\ acked' = acked \cup Dml(r.done)
            /\ r.st = "ok"
            /\ call.pkt.fc \notin {"Rollback", "CloseDatabase"}
  PROVE  AckedKept'
<1>1. ExchangeKeeps(r)
  BY ExchangeWork
<1> QED
  BY <1>1 DEF ExchangeKeeps, AckedKept

\* A session that opens or ends leaves no work pending and loses nothing durable.
LEMMA SessionWork ==
  ASSUME HandshakeOk \/ SessionEnds
  PROVE  work' = {} /\ durable' = durable
  BY DEF HandshakeOk, SessionOpens, SessionEnds

(***************************************************************************)
(* How a step leaves the call under way: over, going on with a packet of   *)
(* its own, or begun.                                                      *)
(***************************************************************************)
CallGoesOn ==
  /\ ~IsIdle
  /\ call'.op = call.op /\ call'.step # "idle"
  /\ call'.pkt.fc \in FcsOf(call.op)
  /\ call.op # "connect"
  /\ call'.step = "cleanup" => call'.pkt = NoPacket
  /\ call.op \in {"commit", "rollback", "set_autocommit"} => call'.pkt.fc # "None"
  /\ ret' = ret

CallBegins ==
  /\ call'.op # "none" /\ call'.step # "idle"
  /\ call'.pkt.fc \in FcsOf(call'.op)
  /\ call'.op = "connect" => call'.step = "connect"
  /\ call'.step # "cleanup"
  /\ call'.op \in {"commit", "rollback", "set_autocommit"} => call'.pkt.fc # "None"
  /\ ret' = NoReturn

\* Each of them preserves CallShape.
LEMMA ShapeKept ==
  ASSUME CommitInv,
         \/ Return \/ ReturnFalse \/ Raise
         \/ CallGoesOn \/ CallBegins
         \/ call' = call /\ ret' = ret
         \/ call' = call /\ IsIdle
  PROVE  CallShape'
<1>1. CASE Return \/ ReturnFalse \/ Raise
  <2>1. call' = Idle
    BY <1>1 DEF Return, ReturnFalse, Raise, Finish
  <2> QED
    BY <2>1, Fields DEF CallShape, IsIdle, FcsOf
<1>2. CASE CallGoesOn
  BY <1>2 DEF CallGoesOn, CommitInv, CallShape, IsIdle
<1>3. CASE CallBegins
  BY <1>3 DEF CallBegins, CallShape, IsIdle, NoReturn
<1>4. CASE call' = call /\ ret' = ret
  BY <1>4 DEF CommitInv, CallShape, IsIdle
<1>5. CASE call' = call /\ IsIdle
  BY <1>5 DEF CommitInv, CallShape, IsIdle
<1> QED
  BY <1>1, <1>2, <1>3, <1>4, <1>5

\* What a fetch does to the call it belongs to.
LEMMA TakeShape ==
  ASSUME NEW op \in {"fetchmany", "fetchall"}, NEW c, NEW rows, NEW want,
         Take(op, c, rows, want)
  PROVE  (CallBegins /\ call'.step = "send") \/ Return
<1> DEFINE available == Len(rows) - result[c].index
           take == IF op = "fetchall" THEN available ELSE Min2(available, want)
           index == result[c].index + take
           more == /\ op = "fetchall" \/ take < want
                   /\ handle[c] # None
                   /\ index < result[c].total
           left == IF op = "fetchall" THEN 0 ELSE want - take
<1>1. IF more
      THEN /\ call' = [Begin(op, c, FetchPacket(handle[c], index))
                         EXCEPT !.want = left]
           /\ ret' = NoReturn
      ELSE Return
  BY DEF Take
<1> HIDE DEF take, index, more, left
<1>2. CASE more
  <2>1. /\ call' = [Begin(op, c, FetchPacket(handle[c], index)) EXCEPT !.want = left]
        /\ ret' = NoReturn
    BY <1>1, <1>2
  <2>2. /\ call'.op = op /\ call'.step = "send"
        /\ call'.pkt = FetchPacket(handle[c], index)
    BY <2>1 DEF Begin
  <2> QED
    BY <2>1, <2>2, Fields DEF CallBegins, FcsOf
<1>3. CASE ~more
  BY <1>1, <1>3
<1> QED
  BY <1>2, <1>3

\* An invocation leaves the session, the transport and acked alone.
LEMMA AckedInvocation ==
  ASSUME CommitInv, IsIdle, call'.step \in {"idle", "send", "connect", "loop"},
         call'.step = "connect" => call'.pkt.fc = "None",
         UNCHANGED <<serverVars, transportVars, acked>>
  PROVE  AckedKept'
  BY DEF CommitInv, AckedKept, IsIdle, serverVars, transportVars

\* The application's calls.
LEMMA CommitInvocation ==
  ASSUME CommitInv, Invocation
  PROVE  CallShape' /\ AckedKept'
<1> USE DEF connectionVars, cursorVars
<1>1. IsIdle
  BY DEF Invocation, ConnectCall, PingCall, EndTranCall, SetAutocommitCall, QueryCall,
         CloseCall, NewCursor, CursorCloseCall, ExecuteCall, ExecutemanyBatchCall,
         FetchmanyCall, FetchallCall, Invoke, Fetchable
<1>2. CASE ConnectCall
  <2>1. CallBegins /\ call'.step = "connect" /\ call'.pkt.fc = "None"
    <3>1. call' = [Idle EXCEPT !.op = "connect", !.step = "connect"] /\ ret' = NoReturn
      BY <1>2 DEF ConnectCall
    <3>2. call'.op = "connect" /\ call'.step = "connect" /\ call'.pkt = NoPacket
      BY <3>1 DEF Idle
    <3> QED
      BY <3>1, <3>2, Fields DEF CallBegins, FcsOf
  <2> QED
    BY <1>1, <1>2, <2>1, ShapeKept, AckedInvocation DEF ConnectCall
<1>3. CASE PingCall
  <2>1. PICK reconnect \in BOOLEAN :
          \/ call' = [Begin("ping", None, CheckCasPacket)
                        EXCEPT !.flag = reconnect]
          \/ call' = [Idle EXCEPT !.op = "ping", !.step = "connect", !.flag = TRUE]
    BY <1>3 DEF PingCall
  <2>2. /\ call'.op = "ping"
        /\ \/ call'.step = "send" /\ call'.pkt = CheckCasPacket
           \/ call'.step = "connect" /\ call'.pkt = NoPacket
    <3>1. CASE call' = [Begin("ping", None, CheckCasPacket)
                          EXCEPT !.flag = reconnect]
      BY <3>1 DEF Begin
    <3>2. CASE call' = [Idle EXCEPT !.op = "ping", !.step = "connect", !.flag = TRUE]
      BY <3>2 DEF Idle
    <3> QED
      BY <2>1, <3>1, <3>2
  <2>3. CallBegins
    BY <1>3, <2>2, Fields DEF PingCall, CallBegins, FcsOf
  <2> QED
    BY <1>1, <1>3, <2>2, <2>3, Fields, ShapeKept, AckedInvocation DEF PingCall
<1>4. CASE EndTranCall
  <2>1. \/ call' = Begin("commit", None, CommitPacket)
        \/ call' = Begin("rollback", None, RollbackPacket)
    BY <1>4 DEF EndTranCall
  <2>2. CallBegins /\ call'.step = "send"
    BY <1>4, <2>1, Fields DEF EndTranCall, CallBegins, FcsOf
  <2> QED
    BY <1>1, <1>4, <2>2, ShapeKept, AckedInvocation DEF EndTranCall
<1>5. CASE SetAutocommitCall
  <2>1. PICK value \in BOOLEAN :
          call' = [Begin("set_autocommit", None, SetDbParameterPacket(value))
                     EXCEPT !.flag = value]
    BY <1>5 DEF SetAutocommitCall
  <2>2. /\ call'.op = "set_autocommit" /\ call'.step = "send"
        /\ call'.pkt = SetDbParameterPacket(value)
    BY <2>1 DEF Begin
  <2>3. CallBegins
    BY <1>5, <2>2, Fields DEF SetAutocommitCall, CallBegins, FcsOf
  <2> QED
    BY <1>1, <1>5, <2>2, <2>3, ShapeKept, AckedInvocation DEF SetAutocommitCall
<1>6. CASE QueryCall
  <2>1. \/ call' = Begin("get_server_version", None, GetEngineVersionPacket)
        \/ call' = Begin("get_last_insert_id", None, GetLastInsertIdPacket)
        \/ \E s : call' = Begin("get_schema_info", None, GetSchemaPacket(s))
    BY <1>6 DEF QueryCall
  <2>2. CallBegins /\ call'.step = "send"
    BY <1>6, <2>1, Fields DEF QueryCall, CallBegins, FcsOf
  <2> QED
    BY <1>1, <1>6, <2>2, ShapeKept, AckedInvocation DEF QueryCall
<1>7. CASE CloseCall
  <2>1. \/ /\ call' = [Idle EXCEPT !.op = "close", !.step = "loop", !.todo = cursors]
           /\ ret' = NoReturn
        \/ Return
    BY <1>7 DEF CloseCall
  <2>2. ASSUME call' = [Idle EXCEPT !.op = "close", !.step = "loop", !.todo = cursors],
               ret' = NoReturn
        PROVE  CallBegins /\ call'.step = "loop"
    <3>1. call'.op = "close" /\ call'.step = "loop" /\ call'.pkt = NoPacket
      BY <2>2 DEF Idle
    <3> QED
      BY <2>2, <3>1, Fields DEF CallBegins, FcsOf
  <2>3. call'.step \in {"idle", "loop"}
    BY <2>1, <2>2, Fields DEF Return, Finish
  <2>4. call'.step # "connect"
    BY <2>3
  <2> QED
    BY <1>1, <1>7, <2>1, <2>2, <2>3, <2>4, ShapeKept, AckedInvocation DEF CloseCall
<1>8. ASSUME NEW c \in Cursors, NewCursor(c)
      PROVE  CallShape' /\ AckedKept'
  <2>1. call' = call
    BY <1>8 DEF NewCursor
  <2> QED
    BY <1>1, <1>8, <2>1, ShapeKept, AckedInvocation DEF NewCursor, IsIdle
<1>9. ASSUME NEW c \in Cursors, CursorCloseCall(c)
      PROVE  CallShape' /\ AckedKept'
  <2>1. \/ /\ call' = Begin("cursor_close", c, CloseQueryPacket(handle[c]))
           /\ ret' = NoReturn
        \/ Return
    BY <1>9 DEF CursorCloseCall
  <2>2. (CallBegins /\ call'.step = "send") \/ Return
    BY <2>1, Fields DEF CallBegins, FcsOf
  <2>3. call'.step \in {"idle", "send"}
    BY <2>2, Fields DEF Return, Finish
  <2> QED
    BY <1>1, <1>9, <2>2, <2>3, ShapeKept, AckedInvocation DEF CursorCloseCall
<1>10. ASSUME NEW c \in Cursors, ExecuteCall(c)
       PROVE  CallShape' /\ AckedKept'
  <2>1. PICK s \in Stmts :
          call' = [Begin("execute", c,
                         IF handle[c] # None THEN CloseQueryPacket(handle[c])
                         ELSE PrepareAndExecutePacket(s, autocommit))
                     EXCEPT !.stmts = {s}]
    BY <1>10 DEF ExecuteCall
  <2>2. /\ call'.op = "execute" /\ call'.step = "send"
        /\ call'.pkt = IF handle[c] # None THEN CloseQueryPacket(handle[c])
                       ELSE PrepareAndExecutePacket(s, autocommit)
    BY <2>1 DEF Begin
  <2>3. call'.pkt.fc \in {"CloseQuery", "PrepareAndExecute"}
    BY <2>2, Fields
  <2>4. CallBegins
    BY <1>10, <2>2, <2>3 DEF ExecuteCall, CallBegins, FcsOf
  <2> QED
    BY <1>1, <1>10, <2>2, <2>4, ShapeKept, AckedInvocation DEF ExecuteCall
<1>11. ASSUME NEW c \in Cursors, ExecutemanyBatchCall(c)
       PROVE  CallShape' /\ AckedKept'
  <2>1. PICK ss \in SUBSET Stmts, ac \in BOOLEAN :
          call' = [Begin("executemany_batch", c, BatchExecutePacket(ss, ac))
                     EXCEPT !.stmts = ss]
    BY <1>11 DEF ExecutemanyBatchCall
  <2>2. /\ call'.op = "executemany_batch" /\ call'.step = "send"
        /\ call'.pkt = BatchExecutePacket(ss, ac)
    BY <2>1 DEF Begin
  <2>3. CallBegins
    BY <1>11, <2>2, Fields DEF ExecutemanyBatchCall, CallBegins, FcsOf
  <2> QED
    BY <1>1, <1>11, <2>2, <2>3, ShapeKept, AckedInvocation DEF ExecutemanyBatchCall
<1>12. ASSUME NEW c \in Cursors, FetchmanyCall(c) \/ FetchallCall(c)
       PROVE  CallShape' /\ AckedKept'
  <2>1. (CallBegins /\ call'.step = "send") \/ Return
    BY <1>12, TakeShape DEF FetchmanyCall, FetchallCall
  <2>2. call'.step \in {"idle", "send"}
    BY <2>1, Fields DEF Return, Finish
  <2> QED
    BY <1>1, <1>12, <2>1, <2>2, ShapeKept, AckedInvocation
       DEF FetchmanyCall, FetchallCall
<1> QED
  BY <1>2, <1>3, <1>4, <1>5, <1>6, <1>7, <1>8, <1>9, <1>10, <1>11, <1>12 DEF Invocation

\* A call that is over is idle.
LEMMA FinishStep ==
  ASSUME Return \/ ReturnFalse \/ Raise
  PROVE  call'.step = "idle"
  BY Fields DEF Return, ReturnFalse, Raise, Finish

\* The next request of the same call.
LEMMA SendNextStep ==
  ASSUME CommitInv, NEW p, SendNext(p), ~IsIdle, UNCHANGED ret,
         call.op # "connect", p.fc \in FcsOf(call.op), p.fc # "None"
  PROVE  CallGoesOn /\ call'.step = "send"
<1>1. /\ call'.op = call.op /\ call'.pkt = p /\ call'.step = "send"
  BY DEF SendNext, CommitInv, TypeInv, TypeOK, CallRecords
<1> QED
  BY <1>1 DEF CallGoesOn

\* The same call at another step, its packet kept or done with.
LEMMA StepChanges ==
  ASSUME CommitInv, ~IsIdle, NEW st \in Steps \ {"idle"}, UNCHANGED ret,
         call.op # "connect",
         \/ call' = [call EXCEPT !.step = st] /\ st # "cleanup"
         \/ /\ call' = [call EXCEPT !.step = st, !.pkt = NoPacket]
            /\ call.op \notin {"commit", "rollback", "set_autocommit"}
         \/ /\ call' = [call EXCEPT !.pkt = NoPacket, !.step = st]
            /\ call.op \notin {"commit", "rollback", "set_autocommit"}
  PROVE  /\ CallGoesOn
         /\ call'.step = st
         /\ call'.pkt = call.pkt \/ call'.pkt = NoPacket
<1>1. /\ call'.op = call.op /\ call'.step = st
      /\ \/ call'.pkt = call.pkt /\ st # "cleanup"
         \/ /\ call'.pkt = NoPacket
            /\ call.op \notin {"commit", "rollback", "set_autocommit"}
  BY DEF CommitInv, TypeInv, TypeOK, CallRecords
<1> QED
  BY <1>1, Fields DEF CallGoesOn, CommitInv, CallShape, FcsOf

\* The steps of _check_reconnect, ping() and close() that make no exchange.
LEMMA CommitSessionStep ==
  ASSUME CommitInv,
         \/ CheckReconnect \/ Reconnected \/ ConnectDone \/ PingDrop
         \/ PingConnect \/ CloseSocket
  PROVE  CallShape' /\ AckedKept'
<1> USE DEF connectionVars, cursorVars
<1>1. CASE CheckReconnect
  <2>1. CallGoesOn /\ call'.step = "connect"
    <3>1. ~IsIdle /\ call.op # "connect"
      BY <1>1 DEF CheckReconnect, IsIdle, CommitInv, CallShape
    <3> QED
      BY <1>1, <3>1, StepChanges DEF CheckReconnect, Steps
  <2>2. acked \subseteq durable
    BY <1>1 DEF CheckReconnect, MustReconnect, CommitInv, AckedKept
  <2>3. AckedKept'
    BY <1>1, <2>1, <2>2, SessionWork DEF CheckReconnect, DropConnection, AckedKept
  <2> QED
    BY <2>1, <2>3, ShapeKept
<1>2. CASE Reconnected
  <2>1. CallGoesOn /\ call'.step = "exchange"
    <3>1. ~IsIdle /\ call.op # "connect"
      BY <1>2 DEF Reconnected, IsIdle, CommitInv, CallShape, FcsOf
    <3> QED
      BY <1>2, <3>1, StepChanges, "exchange" \in Steps \ {"idle"}
         DEF Reconnected, Steps
  <2>2. acked \subseteq durable
    BY <1>2 DEF Reconnected, CommitInv, AckedKept
  <2>3. AckedKept'
    BY <1>2, <2>1, <2>2, SessionWork DEF Reconnected, AckedKept
  <2> QED
    BY <2>1, <2>3, ShapeKept
<1>3. CASE HandshakeOk /\ acked' = {} /\ (Return \/ ReturnFalse \/ Raise)
  BY <1>3, SessionWork, FinishStep, ShapeKept DEF AckedKept
<1>4. CASE /\ HandshakeFails /\ UNCHANGED acked /\ (Return \/ ReturnFalse \/ Raise)
           /\ call.step # "cleanup"
  BY <1>4, FinishStep, ShapeKept
     DEF HandshakeFails, serverVars, CommitInv, AckedKept
<1>5. CASE ConnectDone
  <2>1. call.step # "cleanup"
    BY <1>5 DEF ConnectDone, CommitInv, CallShape
  <2> QED
    BY <1>3, <1>4, <1>5, <2>1 DEF ConnectDone
<1>6. CASE PingDrop
  <2>1. CallGoesOn /\ call'.step = "connect" /\ call'.pkt.fc = "None"
    <3>1. ~IsIdle /\ call.op # "connect" /\ call.pkt = NoPacket
      BY <1>6 DEF PingDrop, IsIdle, CommitInv, CallShape
    <3> QED
      BY <1>6, <3>1, StepChanges, Fields, "connect" \in Steps \ {"idle"}
         DEF PingDrop, Steps
  <2>2. AckedKept'
    BY <1>6, <2>1, SessionWork DEF PingDrop, DropConnection, AckedKept
  <2> QED
    BY <2>1, <2>2, ShapeKept
<1>7. CASE PingConnect
  BY <1>3, <1>4, <1>7 DEF PingConnect
<1>8. CASE CloseSocket
  <2>1. AckedKept'
    BY <1>8, SessionWork, FinishStep DEF CloseSocket, AckedKept
  <2> QED
    BY <1>8, <2>1, ShapeKept DEF CloseSocket
<1> QED
  BY <1>1, <1>2, <1>5, <1>6, <1>7, <1>8

\* A request is sent on behalf of a call under way, and not by connect().
LEMMA ExchangeCall ==
  ASSUME CommitInv, NEW r, SendAndReceive(r)
  PROVE  ~IsIdle /\ call.op # "connect" /\ call.step # "cleanup"
  BY DEF SendAndReceive, NotConnected, ReconnectFails, Response, SocketError,
         EndOfFile, Ready, IsIdle, CommitInv, CallShape, FcsOf

\* The steps of close() between two exchanges.
LEMMA CommitCloseStep ==
  ASSUME CommitInv, (\E c \in Cursors : CloseCursor(c)) \/ CloseDatabase
  PROVE  CallShape' /\ AckedKept'
<1>1. CallGoesOn /\ call'.step \in {"send", "loop"}
  <2>1. ASSUME NEW c \in Cursors, CloseCursor(c)
        PROVE  CallGoesOn /\ call'.step \in {"send", "loop"}
    <3>1. \/ call' = [call EXCEPT !.cur = c, !.step = "send",
                                  !.pkt = CloseQueryPacket(handle[c])]
          \/ call' = [call EXCEPT !.todo = call.todo \ {c}]
      BY <2>1 DEF CloseCursor
    <3>2. call.op = "close" /\ call.step = "loop" /\ ret' = ret
      BY <2>1 DEF CloseCursor
    <3>3. /\ call'.op = "close" /\ call'.step \in {"send", "loop"}
          /\ call'.pkt = call.pkt \/ call'.pkt = CloseQueryPacket(handle[c])
      BY <3>1, <3>2 DEF CommitInv, TypeInv, TypeOK, CallRecords
    <3> QED
      BY <3>2, <3>3, Fields DEF CallGoesOn, IsIdle, CommitInv, CallShape, FcsOf
  <2>2. CASE CloseDatabase
    BY <2>2, SendNextStep, Fields DEF CloseDatabase, IsIdle, FcsOf
  <2> QED
    BY <2>1, <2>2
<1>2. UNCHANGED <<serverVars, transportVars, acked>> /\ call.step = "loop"
  BY DEF CloseCursor, CloseDatabase, connectionVars
<1>3. AckedKept'
  BY <1>1, <1>2 DEF CommitInv, AckedKept, serverVars, transportVars
<1> QED
  BY <1>1, <1>3, ShapeKept

\* The exchanges.
LEMMA CommitReply ==
  ASSUME CommitInv,
         \/ PingReply \/ EndTranReply \/ SetAutocommitReply \/ QueryReply
         \/ CloseCursorReply \/ CloseDatabaseReply \/ CursorCloseReply
         \/ ExecuteCloseReply \/ ExecuteReply \/ LastRowIdReply
         \/ ExecutemanyBatchReply \/ FetchReply
  PROVE  CallShape' /\ AckedKept'
<1>1. CASE PingReply
  <2>1. PICK r \in PossibleReplies :
          /\ SendAndReceive(r)
          /\ \/ Return \/ ReturnFalse \/ Raise
             \/ /\ call' = [call EXCEPT !.step = "cleanup", !.pkt = NoPacket]
                /\ UNCHANGED ret
    BY <1>1 DEF PingReply
  <2>2. /\ call.pkt.fc \notin {"Rollback", "CloseDatabase"}
        /\ call.op = "ping" /\ acked' = acked
    BY <1>1 DEF PingReply, CommitInv, CallShape, FcsOf
  <2>3. CASE Return \/ ReturnFalse \/ Raise
    BY <2>1, <2>2, <2>3, FinishStep, ShapeKept, AckedAfterReply
  <2>4. CASE /\ call' = [call EXCEPT !.step = "cleanup", !.pkt = NoPacket]
             /\ UNCHANGED ret
    <3>1. CallGoesOn /\ call'.step = "cleanup"
      BY <2>1, <2>2, <2>4, ExchangeCall, StepChanges DEF Steps
    <3> QED
      BY <2>1, <2>2, <3>1, ShapeKept, AckedAfterReply
  <2> QED
    BY <2>1, <2>3, <2>4
<1>2. CASE EndTranReply
  <2>1. PICK r \in PossibleReplies :
          /\ SendAndReceive(r)
          /\ IF r.st = "ok" THEN Return /\ acked' = {}
             ELSE Raise /\ UNCHANGED acked
    BY <1>2 DEF EndTranReply
  <2> QED
    BY <2>1, FinishStep, ShapeKept, AckedAfterReply
<1>3. CASE SetAutocommitReply
  <2>1. PICK r \in PossibleReplies :
          /\ SendAndReceive(r)
          /\ \/ SendNext(CommitPacket) /\ UNCHANGED <<ret, acked>>
             \/ Return /\ acked' = {}
             \/ Raise /\ UNCHANGED acked
    BY <1>3 DEF SetAutocommitReply
  <2>2. call.op = "set_autocommit" /\ call.pkt.fc \notin {"Rollback", "CloseDatabase"}
    BY <1>3 DEF SetAutocommitReply, CommitInv, CallShape, FcsOf
  <2>3. CASE SendNext(CommitPacket) /\ UNCHANGED <<ret, acked>>
    <3>1. CallGoesOn /\ call'.step = "send"
      BY <2>1, <2>2, <2>3, ExchangeCall, SendNextStep, Fields DEF FcsOf
    <3> QED
      BY <2>1, <2>2, <2>3, <3>1, ShapeKept, AckedAfterReply
  <2>4. CASE Return \/ Raise
    BY <2>1, <2>2, <2>4, FinishStep, ShapeKept, AckedAfterReply
  <2> QED
    BY <2>1, <2>3, <2>4
<1>4. CASE QueryReply
  <2>1. PICK r \in PossibleReplies : SendAndReceive(r) /\ call' = Idle
    BY <1>4, FinishType DEF QueryReply
  <2>2. /\ call.pkt.fc \notin {"Rollback", "CloseDatabase"}
        /\ acked' = acked
    BY <1>4 DEF QueryReply, CommitInv, CallShape, FcsOf
  <2>3. CallShape'
    BY <2>1, Fields DEF CallShape, IsIdle, FcsOf
  <2> QED
    BY <2>1, <2>2, <2>3, Fields, AckedAfterReply
<1>5. CASE CloseCursorReply
  <2>1. PICK r \in PossibleReplies : SendAndReceive(r)
    BY <1>5 DEF CloseCursorReply
  <2>2. /\ call.pkt.fc \notin {"Rollback", "CloseDatabase"}
        /\ acked' = acked /\ call.op = "close" /\ ret' = ret
    BY <1>5 DEF CloseCursorReply
  <2>3. call' = [call EXCEPT !.todo = call.todo \ {call.cur}, !.cur = None,
                             !.pkt = NoPacket, !.step = "loop"]
    BY <1>5 DEF CloseCursorReply
  <2>4. call'.op = "close" /\ call'.pkt = NoPacket /\ call'.step = "loop"
    BY <2>2, <2>3 DEF CommitInv, TypeInv, TypeOK, CallRecords
  <2>5. CallGoesOn
    BY <2>1, <2>2, <2>4, Fields, ExchangeCall DEF CallGoesOn, FcsOf
  <2> QED
    BY <2>1, <2>2, <2>4, <2>5, ShapeKept, AckedAfterReply
<1>6. CASE CloseDatabaseReply
  <2>1. PICK r \in PossibleReplies : SendAndReceive(r)
    BY <1>6 DEF CloseDatabaseReply
  <2>2. CallGoesOn /\ call'.step = "cleanup" /\ acked' = acked
    <3>1. ~IsIdle /\ "cleanup" \in Steps \ {"idle"}
      BY <2>1, ExchangeCall DEF Steps
    <3>2. /\ call.op = "close" /\ ret' = ret /\ acked' = acked
          /\ call' = [call EXCEPT !.pkt = NoPacket, !.step = "cleanup"]
      BY <1>6 DEF CloseDatabaseReply
    <3> QED
      BY <3>1, <3>2, StepChanges
  <2> QED
    BY <2>1, <2>2, ShapeKept, AckedAfterReply
<1>7. CASE CursorCloseReply
  <2>1. PICK r \in PossibleReplies : SendAndReceive(r) /\ (Return \/ Raise)
    BY <1>7 DEF CursorCloseReply
  <2>2. /\ call.pkt.fc \notin {"Rollback", "CloseDatabase"}
        /\ acked' = acked
    BY <1>7 DEF CursorCloseReply, CommitInv, CallShape, FcsOf
  <2> QED
    BY <2>1, <2>2, FinishStep, ShapeKept, AckedAfterReply
<1>8. CASE ExecuteCloseReply
  <2>1. PICK r \in PossibleReplies : SendAndReceive(r)
    BY <1>8 DEF ExecuteCloseReply
  <2>2. \/ Raise
        \/ /\ \E s : SendNext(PrepareAndExecutePacket(s, autocommit))
           /\ UNCHANGED ret
    BY <1>8 DEF ExecuteCloseReply
  <2>3. /\ call.pkt.fc \notin {"Rollback", "CloseDatabase"}
        /\ acked' = acked /\ call.op = "execute"
    BY <1>8 DEF ExecuteCloseReply
  <2>4. Raise \/ (CallGoesOn /\ call'.step = "send")
    BY <2>1, <2>2, <2>3, ExchangeCall, SendNextStep, Fields DEF FcsOf
  <2> QED
    BY <2>1, <2>3, <2>4, FinishStep, ShapeKept, AckedAfterReply
<1>9. CASE ExecuteReply
  <2>1. PICK r \in PossibleReplies :
          /\ SendAndReceive(r)
          /\ \/ /\ r.st = "ok"
                /\ \E s \in r.done :
                     /\ acked' = acked \cup Dml({s})
                     /\ \/ SendNext(GetLastInsertIdPacket) /\ UNCHANGED ret
                        \/ Return
             \/ Raise /\ UNCHANGED acked
    BY <1>9 DEF ExecuteReply
  <2>2. call.op = "execute" /\ call.pkt.fc \notin {"Rollback", "CloseDatabase"}
    BY <1>9 DEF ExecuteReply
  <2>3. CASE Raise /\ UNCHANGED acked
    BY <2>1, <2>2, <2>3, FinishStep, ShapeKept, AckedAfterReply
  <2>4. ASSUME NEW s \in r.done, r.st = "ok", acked' = acked \cup Dml({s}),
               \/ SendNext(GetLastInsertIdPacket) /\ UNCHANGED ret
               \/ Return
        PROVE  CallShape' /\ AckedKept'
    <3>1. \/ CallGoesOn /\ call'.step = "send"
          \/ Return
      BY <2>1, <2>2, <2>4, ExchangeCall, SendNextStep, Fields DEF FcsOf
    <3>2. CallShape' /\ call'.step \in {"idle", "send"}
      BY <3>1, FinishStep, ShapeKept
    <3>3. ExchangeKeeps(r) /\ Dml({s}) \subseteq Dml(r.done)
      BY <2>1, <2>4, ExchangeWork DEF Dml
    <3>4. AckedKept'
      BY <2>2, <2>4, <3>2, <3>3 DEF ExchangeKeeps, AckedKept
    <3> QED
      BY <3>2, <3>4
  <2> QED
    BY <2>1, <2>3, <2>4
<1>10. CASE LastRowIdReply
  <2>1. PICK r \in PossibleReplies :
          /\ SendAndReceive(r)
          /\ CASE r.st \in {"ok", "operr"} -> Return
               [] r.st = "error" -> Raise
               [] r.st = "unparsed" -> Return \/ Raise
    BY <1>10 DEF LastRowIdReply
  <2>2. Return \/ Raise
    BY <2>1, PossibleRepliesType DEF CommitInv, TypeInv, Replies, ReplyStates
  <2>3. /\ call.pkt.fc \notin {"Rollback", "CloseDatabase"}
        /\ acked' = acked
    BY <1>10 DEF LastRowIdReply
  <2> QED
    BY <2>1, <2>2, <2>3, FinishStep, ShapeKept, AckedAfterReply
<1>11. CASE ExecutemanyBatchReply
  <2>1. PICK r \in PossibleReplies :
          /\ SendAndReceive(r)
          /\ IF r.st = "ok" THEN Return /\ acked' = acked \cup Dml(r.done)
             ELSE Raise /\ UNCHANGED acked
    BY <1>11 DEF ExecutemanyBatchReply
  <2>2. call.pkt.fc \notin {"Rollback", "CloseDatabase"}
    BY <1>11 DEF ExecutemanyBatchReply, CommitInv, CallShape, FcsOf
  <2> QED
    BY <2>1, <2>2, FinishStep, ShapeKept, AckedAfterReply
<1>12. CASE FetchReply
  <2>1. PICK r \in PossibleReplies :
          /\ SendAndReceive(r)
          /\ \/ Take(call.op, call.cur, result[call.cur].rows \o r.rows, call.want)
             \/ Return \/ Raise
    BY <1>12 DEF FetchReply
  <2>2. /\ call.op \in {"fetchmany", "fetchall"} /\ acked' = acked
        /\ call.pkt.fc \notin {"Rollback", "CloseDatabase"}
    BY <1>12 DEF FetchReply, CommitInv, CallShape, FcsOf
  <2>3. (CallBegins /\ call'.step = "send") \/ Return \/ Raise
    BY <2>1, <2>2, TakeShape
  <2> QED
    BY <2>1, <2>2, <2>3, FinishStep, ShapeKept, AckedAfterReply
<1> QED
  BY <1>1, <1>2, <1>3, <1>4, <1>5, <1>6, <1>7, <1>8, <1>9, <1>10, <1>11, <1>12

\* CommitInv is an inductive invariant.
LEMMA CommitInvariant == Spec => []CommitInv
<1>1. Init => CommitInv
  <2>1. Init => TypeInv
    BY InitType
  <2>2. Init => CallShape /\ AckedKept
    BY Fields DEF Init, ServerInit, CallShape, AckedKept, IsIdle, FcsOf
  <2> QED
    BY <2>1, <2>2 DEF CommitInv
<1>2. CommitInv /\ [Next]_vars => CommitInv'
  <2> SUFFICES ASSUME CommitInv, [Next]_vars
               PROVE  CommitInv'
    OBVIOUS
  <2>1. TypeInv'
    BY TypeStep DEF CommitInv
  <2>2. CASE Invocation
    BY <2>1, <2>2, CommitInvocation DEF CommitInv
  <2>3. CASE DriverStep
    BY <2>1, <2>3, CommitSessionStep, CommitCloseStep, CommitReply
       DEF DriverStep, CommitInv
  <2>4. CASE SessionLost
    <3>1. call' = call /\ ret' = ret /\ acked' = acked /\ ~up'
          /\ connected' = connected /\ casStatus' = casStatus
      BY <2>4 DEF SessionLost, SessionEnds, connectionVars, transportVars
    <3>2. CallShape'
      BY <3>1, ShapeKept
    <3>3. AckedKept'
      BY <2>4, <3>1, SessionWork DEF SessionLost, CommitInv, AckedKept
    <3> QED
      BY <2>1, <3>2, <3>3 DEF CommitInv
  <2>5. CASE UNCHANGED vars
    BY <2>1, <2>5
       DEF vars, serverVars, connectionVars, transportVars, CommitInv, CallShape,
           IsIdle, AckedKept
  <2> QED
    BY <2>2, <2>3, <2>4, <2>5 DEF Next
<1> QED
  BY <1>1, <1>2, PTL DEF Spec

\* What the driver has acknowledged in the current transaction is never lost
\* behind its back: _check_reconnect drops a session only when all of it is
\* durable.
THEOREM WorkIsKept == Spec => []AckedKept
  BY CommitInvariant, PTL DEF CommitInv

\* A commit, or the commit inside the autocommit setter, that returns has made
\* durable every statement acknowledged in the transaction.
THEOREM CommitIsDurable == Spec => CommitDurable
<1> DEFINE CommitStep == call.op \in {"commit", "set_autocommit"} /\ ret' = "returned"
                           => acked \subseteq durable'
<1>1. CommitInv /\ [Next]_vars => [CommitStep]_vars
  <2> SUFFICES ASSUME CommitInv, Next,
                      call.op \in {"commit", "set_autocommit"}, ret' = "returned"
               PROVE  acked \subseteq durable'
    OBVIOUS
  <2>1. ~IsIdle /\ ret = "none"
    BY DEF CommitInv, CallShape
  <2>2. DriverStep
    <3>1. ~Invocation
      BY <2>1
         DEF Invocation, ConnectCall, PingCall, EndTranCall, SetAutocommitCall, QueryCall,
             CloseCall, NewCursor, CursorCloseCall, ExecuteCall, ExecutemanyBatchCall,
             FetchmanyCall, FetchallCall, Invoke
    <3>2. ~SessionLost
      BY <2>1 DEF SessionLost
    <3> QED
      BY <3>1, <3>2 DEF Next
  <2>3. EndTranReply \/ SetAutocommitReply
    <3>1. ret' # ret
      BY <2>1
    <3> QED
      BY <2>2, <3>1
         DEF DriverStep, CheckReconnect, Reconnected, ConnectDone, PingReply, PingDrop,
             PingConnect, QueryReply, CloseCursor, CloseCursorReply, CloseDatabase,
             CloseDatabaseReply, CloseSocket, CursorCloseReply, ExecuteCloseReply,
             ExecuteReply, LastRowIdReply, ExecutemanyBatchReply, FetchReply
  <2>4. ASSUME Raise
        PROVE  FALSE
    BY <2>4 DEF Raise, Finish
  <2>5. CASE EndTranReply
    <3>1. PICK r \in PossibleReplies : SendAndReceive(r) /\ r.st = "ok"
      BY <2>4, <2>5 DEF EndTranReply
    <3>2. call.pkt.fc = "Commit"
      BY <2>5 DEF EndTranReply, CommitInv, CallShape, FcsOf
    <3> QED
      BY <3>1, <3>2, ExchangeWork DEF ExchangeKeeps
  <2>6. CASE SetAutocommitReply
    <3>1. PICK r \in PossibleReplies :
            SendAndReceive(r) /\ r.st = "ok" /\ call.pkt.fc = "Commit"
      BY <2>1, <2>4, <2>6 DEF SetAutocommitReply
    <3> QED
      BY <3>1, ExchangeWork DEF ExchangeKeeps
  <2> QED
    BY <2>3, <2>5, <2>6
<1> QED
  BY <1>1, CommitInvariant, PTL DEF Spec, CommitDurable
(***************************************************************************)
(* The transport.  Between two steps the flag and the socket agree, and a  *)
(* handshake is under way without either: so it opens a session where      *)
(* there is none.                                                          *)
(***************************************************************************)
SocketAgrees == (socket <=> connected) /\ (up => connected)

SocketInv == SocketAgrees /\ (call.step = "connect" => ~connected)

\* What a step may do to the transport.
Moves == [T!Next]_(T!vars) /\ SocketAgrees'

\* The transport is left alone.
LEMMA StaysPut ==
  ASSUME SocketAgrees, UNCHANGED <<connected, socket, up>>
  PROVE  Moves
  BY DEF SocketAgrees, Moves, T!vars

\* The socket goes down, if there is one.
LEMMA GoesDown ==
  ASSUME TypeOK, SocketAgrees, connected' = FALSE, socket' = FALSE, up' = FALSE
  PROVE  Moves
<1> USE DEF TypeOK, ServerTypeOK, SocketAgrees, Moves, T!vars, T!Next
<1>1. CASE socket
  BY <1>1 DEF T!SocketCloses
<1>2. CASE ~socket
  BY <1>2
<1> QED
  BY <1>1, <1>2

\* Only the session goes.
LEMMA SessionGoes ==
  ASSUME TypeOK, SocketAgrees, connected' = connected, socket' = socket, up' = FALSE
  PROVE  Moves
<1> USE DEF TypeOK, ServerTypeOK, SocketAgrees, Moves, T!vars, T!Next
<1>1. CASE up
  BY <1>1 DEF T!SessionLost
<1>2. CASE ~up
  BY <1>2
<1> QED
  BY <1>1, <1>2

\* A handshake, where there is no connection.
LEMMA Handshakes ==
  ASSUME TypeOK, SocketAgrees, ~connected, HandshakeOk \/ HandshakeFails
  PROVE  Moves
<1>1. CASE HandshakeOk
  BY <1>1 DEF HandshakeOk, SessionOpens, SocketAgrees, Moves, T!Next, T!HandshakeOk
<1>2. CASE HandshakeFails
  <2>1. connected' = connected /\ socket' = socket /\ up' = up
    BY <1>2 DEF HandshakeFails, serverVars, SocketAgrees, TypeOK
  <2> QED
    BY <2>1, StaysPut
<1> QED
  BY <1>1, <1>2

\* Every way out of an exchange.
LEMMA ExchangeMoves ==
  ASSUME TypeOK, SocketInv, NEW r, SendAndReceive(r)
  PROVE  Moves
<1>t. SocketAgrees
  BY DEF SocketInv
<1>1. CASE NotConnected(r)
  BY <1>1, <1>t, StaysPut DEF NotConnected, serverVars, transportVars
<1>2. CASE ReconnectFails(r)
  BY <1>2, <1>t, Handshakes DEF ReconnectFails, SocketInv
<1>3. CASE Response(r)
  BY <1>3, <1>t, StaysPut DEF Response, Serve
<1>4. CASE SocketError(r)
  BY <1>4, <1>t, GoesDown DEF SocketError, SessionEndsDuring
<1>5. CASE EndOfFile(r)
  BY <1>5, <1>t, SessionGoes DEF EndOfFile, SessionEndsDuring, transportVars
<1> QED
  BY <1>1, <1>2, <1>3, <1>4, <1>5 DEF SendAndReceive

\* No call goes from its exchange into a handshake.
NoHandshake == call'.step # "connect"

\* A call that is over, or has a next packet, is in no handshake.
LEMMA OverOrNext ==
  ASSUME TypeOK,
         \/ Return \/ ReturnFalse \/ Raise
         \/ \E p : SendNext(p)
  PROVE  NoHandshake
<1>1. CASE Return \/ ReturnFalse \/ Raise
  BY <1>1, FinishStep DEF NoHandshake
<1>2. CASE \E p : SendNext(p)
  BY <1>2 DEF SendNext, TypeOK, CallRecords, NoHandshake
<1> QED
  BY <1>1, <1>2

\* The end of an exchange, and what the call does then.
LEMMA ReplyMoves ==
  ASSUME CommitInv, SocketInv,
         \/ PingReply \/ EndTranReply \/ SetAutocommitReply \/ QueryReply
         \/ CloseCursorReply \/ CloseDatabaseReply \/ CursorCloseReply
         \/ ExecuteCloseReply \/ ExecuteReply \/ LastRowIdReply
         \/ ExecutemanyBatchReply \/ FetchReply
  PROVE  Moves /\ NoHandshake
<1>t. TypeOK /\ call \in CallRecords
  BY DEF CommitInv, TypeInv, TypeOK
<1>1. Moves
  <2>1. PICK r : SendAndReceive(r)
    BY DEF PingReply, EndTranReply, SetAutocommitReply, QueryReply, CloseCursorReply,
       CloseDatabaseReply, CursorCloseReply, ExecuteCloseReply, ExecuteReply,
       LastRowIdReply, ExecutemanyBatchReply, FetchReply
  <2> QED
    BY <1>t, <2>1, ExchangeMoves
<1>2. CASE PingReply
  <2>1. \/ Return \/ ReturnFalse \/ Raise
        \/ call' = [call EXCEPT !.step = "cleanup", !.pkt = NoPacket]
    BY <1>2 DEF PingReply
  <2> QED
    BY <1>1, <1>t, <2>1, OverOrNext DEF NoHandshake, CallRecords
<1>3. CASE EndTranReply \/ SetAutocommitReply \/ QueryReply \/ CursorCloseReply
           \/ ExecuteCloseReply \/ ExecuteReply \/ ExecutemanyBatchReply
  <2>1. \/ Return \/ ReturnFalse \/ Raise
        \/ \E p : SendNext(p)
    BY <1>3 DEF EndTranReply, SetAutocommitReply, QueryReply, CursorCloseReply,
       ExecuteCloseReply, ExecuteReply, ExecutemanyBatchReply
  <2> QED
    BY <1>1, <1>t, <2>1, OverOrNext
<1>4. CASE CloseCursorReply
  <2>1. call' = [call EXCEPT !.todo = call.todo \ {call.cur}, !.cur = None,
                            !.pkt = NoPacket, !.step = "loop"]
    BY <1>4 DEF CloseCursorReply
  <2> QED
    BY <1>1, <1>t, <2>1 DEF NoHandshake, CallRecords
<1>5. CASE CloseDatabaseReply
  BY <1>1, <1>5, <1>t DEF CloseDatabaseReply, NoHandshake, CallRecords
<1>6. CASE LastRowIdReply
  <2>1. PICK r \in PossibleReplies :
          CASE r.st \in {"ok", "operr"} -> Return
            [] r.st = "error" -> Raise
            [] r.st = "unparsed" -> Return \/ Raise
    BY <1>6 DEF LastRowIdReply
  <2>2. Return \/ Raise
    BY <1>t, <2>1, PossibleRepliesType DEF Replies, ReplyStates
  <2> QED
    BY <1>1, <1>t, <2>2, OverOrNext
<1>7. CASE FetchReply
  <2>1. PICK r \in PossibleReplies :
          \/ Take(call.op, call.cur, result[call.cur].rows \o r.rows, call.want)
          \/ Return \/ Raise
    BY <1>7 DEF FetchReply
  <2>2. CASE Take(call.op, call.cur, result[call.cur].rows \o r.rows, call.want)
    BY <1>1, <1>7, <1>t, <2>2, TakeShape, OverOrNext DEF FetchReply, NoHandshake
  <2> QED
    BY <1>1, <1>t, <2>1, <2>2, OverOrNext
<1> QED
  BY <1>2, <1>3, <1>4, <1>5, <1>6, <1>7

\* The application's calls leave the transport alone, and enter a handshake
\* only where there is no connection.
LEMMA InvocationMoves ==
  ASSUME CommitInv, SocketInv, Invocation
  PROVE  Moves /\ SocketInv'
<1> USE DEF connectionVars, transportVars, serverVars, cursorVars
<1>1. UNCHANGED <<connected, socket, up>>
  BY DEF Invocation, ConnectCall, PingCall, EndTranCall, SetAutocommitCall, QueryCall,
         CloseCall, NewCursor, CursorCloseCall, CursorClosed, ExecuteCall,
         ExecutemanyBatchCall, FetchmanyCall, FetchallCall
<1>2. call'.step = "connect" => ~connected
  <2>1. CASE ConnectCall
    BY <2>1 DEF ConnectCall
  <2>2. CASE PingCall
    <3>1. ASSUME connected
          PROVE  \E b : call' = [Begin("ping", None, CheckCasPacket) EXCEPT !.flag = b]
      BY <2>2, <3>1 DEF PingCall
    <3>2. connected => call'.step = "send"
      BY <3>1 DEF Begin
    <3> QED
      BY <3>2
  <2>3. CASE EndTranCall \/ QueryCall
    BY <2>3, Fields DEF EndTranCall, QueryCall
  <2>4. CASE SetAutocommitCall
    BY <2>4 DEF SetAutocommitCall, Begin
  <2>5. CASE CloseCall
    BY <2>5, FinishStep DEF CloseCall, Idle
  <2>6. ASSUME NEW c \in Cursors, NewCursor(c)
        PROVE  call'.step = "connect" => ~connected
    BY <2>6 DEF NewCursor, SocketInv
  <2>7. ASSUME NEW c \in Cursors, CursorCloseCall(c)
        PROVE  call'.step = "connect" => ~connected
    BY <2>7, Fields, FinishStep DEF CursorCloseCall
  <2>8. ASSUME NEW c \in Cursors, ExecuteCall(c) \/ ExecutemanyBatchCall(c)
        PROVE  call'.step = "connect" => ~connected
    BY <2>8 DEF ExecuteCall, ExecutemanyBatchCall, Begin
  <2>9. ASSUME NEW c \in Cursors, FetchmanyCall(c) \/ FetchallCall(c)
        PROVE  call'.step = "connect" => ~connected
    <3>1. PICK op \in {"fetchmany", "fetchall"}, n \in Nat : Take(op, c, result[c].rows, n)
      BY <2>9, WantSizesAssumption DEF FetchmanyCall, FetchallCall
    <3> QED
      BY <3>1, TakeShape, FinishStep
  <2> QED
    BY <2>1, <2>2, <2>3, <2>4, <2>5, <2>6, <2>7, <2>8, <2>9 DEF Invocation
<1> QED
  BY <1>1, <1>2, StaysPut DEF SocketInv, Moves

\* Every step is a step of the transport, or leaves it alone.
LEMMA SocketStep ==
  ASSUME CommitInv, SocketInv, [Next]_vars
  PROVE  Moves /\ SocketInv'
<1> USE DEF connectionVars, transportVars, serverVars, NoCursorChange
<1>t. TypeOK /\ SocketAgrees /\ call \in CallRecords /\ CallShape
  BY DEF CommitInv, TypeInv, TypeOK, SocketInv
<1>0. Moves /\ NoHandshake => SocketInv'
  BY DEF Moves, NoHandshake, SocketInv
<1>1. CASE Invocation
  BY <1>1, InvocationMoves
<1>2. CASE CheckReconnect \/ PingDrop
  <2>1. connected' = FALSE /\ socket' = FALSE /\ up' = FALSE
    BY <1>2 DEF CheckReconnect, PingDrop, DropConnection, SessionEnds
  <2> QED
    BY <1>t, <2>1, GoesDown DEF SocketInv, Moves
<1>3. CASE Reconnected
  <2>1. Moves
    BY <1>3, <1>t, Handshakes DEF Reconnected, SocketInv
  <2>2. NoHandshake
    BY <1>3, <1>t DEF Reconnected, NoHandshake, CallRecords
  <2> QED
    BY <1>0, <2>1, <2>2
<1>4. CASE ConnectDone \/ PingConnect
  <2>1. call.step = "connect" /\ (HandshakeOk \/ HandshakeFails)
    BY <1>4, <1>t DEF ConnectDone, PingConnect, CallShape
  <2>2. Moves
    BY <1>t, <2>1, Handshakes DEF SocketInv
  <2>3. NoHandshake
    BY <1>4, <1>t, OverOrNext DEF ConnectDone, PingConnect
  <2> QED
    BY <1>0, <2>2, <2>3
<1>5. CASE CloseSocket
  <2>1. Moves
    BY <1>5, <1>t, GoesDown DEF CloseSocket, SessionEnds
  <2> QED
    BY <1>0, <1>5, <1>t, <2>1, OverOrNext DEF CloseSocket
<1>6. CASE (\E c \in Cursors : CloseCursor(c)) \/ CloseDatabase
  <2>1. UNCHANGED <<connected, socket, up>>
    BY <1>6 DEF CloseCursor, CursorClosed, CloseDatabase
  <2>2. NoHandshake
    <3>1. ASSUME NEW c \in Cursors, CloseCursor(c)
          PROVE  NoHandshake
      <4>1. \/ call' = [call EXCEPT !.cur = c, !.step = "send",
                                  !.pkt = CloseQueryPacket(handle[c])]
            \/ call' = [call EXCEPT !.todo = call.todo \ {c}] /\ call.step = "loop"
        BY <3>1 DEF CloseCursor
      <4> QED
        BY <1>t, <4>1 DEF NoHandshake, CallRecords
    <3>2. CASE CloseDatabase
      BY <1>t, <3>2, OverOrNext DEF CloseDatabase
    <3> QED
      BY <1>6, <3>1, <3>2
  <2> QED
    BY <1>0, <1>t, <2>1, <2>2, StaysPut
<1>7. CASE \/ PingReply \/ EndTranReply \/ SetAutocommitReply \/ QueryReply
           \/ CloseCursorReply \/ CloseDatabaseReply \/ CursorCloseReply
           \/ ExecuteCloseReply \/ ExecuteReply \/ LastRowIdReply
           \/ ExecutemanyBatchReply \/ FetchReply
  BY <1>0, <1>7, ReplyMoves
<1>8. CASE SessionLost
  <2>1. /\ connected' = connected /\ socket' = socket /\ up' = FALSE
        /\ call' = call
    BY <1>8 DEF SessionLost, SessionEnds
  <2> QED
    BY <1>t, <2>1, SessionGoes DEF SocketInv, Moves
<1>9. CASE UNCHANGED vars
  BY <1>9, <1>t, StaysPut DEF vars, SocketInv, Moves
<1> QED
  BY <1>1, <1>2, <1>3, <1>4, <1>5, <1>6, <1>7, <1>8, <1>9 DEF Next, DriverStep

\* Between two steps the flag, the socket and the session agree.
LEMMA SocketInvariant == Spec => []SocketInv
<1>1. Init => SocketInv
  BY Fields DEF Init, ServerInit, SocketInv, SocketAgrees
<1>2. CommitInv /\ SocketInv /\ [Next]_vars => SocketInv'
  BY SocketStep
<1> QED
  BY <1>1, <1>2, CommitInvariant, PTL DEF Spec

\* The driver moves its transport as Transport.tla has it: no session is opened
\* over a socket that is still there, and a socket that goes takes its session
\* along, whatever fails, closes or reconnects (connect, _drop_connection).
THEOREM DriverOnTransport == Spec => OnTransport
<1>1. CommitInv /\ SocketInv /\ [Next]_vars => [T!Next]_(T!vars)
  BY SocketStep DEF Moves
<1> QED
  BY <1>1, SocketInvariant, CommitInvariant, PTL DEF Spec, OnTransport
=============================================================================
