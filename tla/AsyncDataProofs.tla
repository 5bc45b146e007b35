-------------------------- MODULE AsyncDataProofs --------------------------
(***************************************************************************)
(* What becomes of the application's data when tasks share a connection of *)
(* the asyncio driver, for every value of the constants: a commit makes it *)
(* durable, whatever the tasks interleave (Parts 1 and 2); when the tasks  *)
(* take turns, identifiers and rows are those of the cursor's own          *)
(* statement (Parts 3 and 4), and the cursors keep the promise of          *)
(* ResultSets.tla (Part 5).                                                *)
(***************************************************************************)
EXTENDS AsyncDriverProofs

(***************************************************************************)
(* Part 1.  Which packets a call may have in hand, and what it may want    *)
(* the lock for.                                                           *)
(***************************************************************************)
FcsOf(op) ==
  CASE op \in {"none", "connect"} -> {"None"}
    [] op = "ping" -> {"None", "CheckCas"}
    [] op = "commit" -> {"Commit"}
    [] op = "rollback" -> {"Rollback"}
    [] op = "set_autocommit" -> {"SetDbParameter", "Commit"}
    [] op = "get_server_version" -> {"GetEngineVersion"}
    [] op = "get_last_insert_id" -> {"GetLastInsertId"}
    [] op = "get_schema_info" -> {"GetSchema"}
    [] op = "close" -> {"CloseQuery", "CloseDatabase"}
    [] op = "cursor_close" -> {"CloseQuery"}
    [] op = "execute" -> {"CloseQuery", "PrepareAndExecute", "GetLastInsertId"}
    [] op = "executemany_batch" -> {"ExecuteBatch"}
    [] op \in {"fetchmany", "fetchall"} -> {"Fetch"}
    [] OTHER -> {}

Fits(call) ==
  /\ call.at = "idle" => call.op = "none"
  /\ call.pkt.fc \in FcsOf(call.op)
  /\ call.why \in {"connect", "drop"} => call.op \in {"connect", "ping"}
  /\ call.why = "close" => call.pkt.fc = "CloseDatabase"

Shape == \A t \in Tasks : Fits(task[t])

\* A call that begins fits if its packet does, whatever else is set in it.
LEMMA FitsBegin ==
  ASSUME NEW op, NEW c, NEW p, p.fc \in FcsOf(op)
  PROVE  /\ Fits(Begin(op, c, p))
         /\ \A v : Fits([Begin(op, c, p) EXCEPT !.flag = v])
         /\ \A v : Fits([Begin(op, c, p) EXCEPT !.stmts = v])
         /\ \A v : Fits([Begin(op, c, p) EXCEPT !.want = v])
         /\ \A v : Fits([Begin(op, c, p) EXCEPT !.todo = v])
  BY DEF Fits, Begin, Idle

\* An idle call, a handshake, and what close() and ping() go on to.
LEMMA FitsOther ==
  /\ Fits(Idle)
  /\ Fits(BeginFor("connect", "connect")) /\ Fits(BeginFor("ping", "connect"))
  /\ Fits(BeginFor("ping", "drop"))
  /\ Fits([BeginFor("close", "close") EXCEPT !.pkt = CloseDatabasePacket])
<1>1. NoPacket.fc = "None" /\ CloseDatabasePacket.fc = "CloseDatabase"
  BY PacketFields
<1> QED
  BY <1>1 DEF Fits, FcsOf, BeginFor, Idle

\* The next request of the same call.
Again(call, p) == [call EXCEPT !.at = "lock", !.pkt = p]

\* A call's next packet, when it has one.
LEMMA FitsAgain ==
  ASSUME NEW call \in TaskRecords, Fits(call), call.op \in {"set_autocommit", "execute"},
         NEW p \in Packets, p.fc \in FcsOf(call.op)
  PROVE  Fits(Again(call, p))
<1>1. call.why = "request"
  BY DEF Fits, FcsOf, TaskRecords
<1> QED
  BY <1>1 DEF Fits, TaskRecords, Again

\* A call that waits again is Again of its next packet.
LEMMA SameAgain ==
  ASSUME NEW call \in TaskRecords, NEW p \in Packets
  PROVE  [call EXCEPT !.pkt = p, !.at = "lock"] = Again(call, p)
  BY DEF Again, TaskRecords

\* The call t has under way is replaced by another that fits, or goes on.
LEMMA ShapeMoves ==
  ASSUME TypeInv, Shape, NEW t \in Tasks,
         \/ \E call : Fits(call) /\ Wait(t, call)
         \/ \E st : Finish(t, st)
         \/ \E at \in {"connect", "read"} : Suspend(t, at)
         \/ UNCHANGED task
  PROVE  Shape'
<1>t. task \in [Tasks -> TaskRecords] /\ task[t] \in TaskRecords
  BY DEF TypeInv, CallsOK
<1>1. ASSUME NEW call, Fits(call), task' = [task EXCEPT ![t] = call]
      PROVE  Shape'
  <2>1. task'[t] = call /\ \A u \in Tasks \ {t} : task'[u] = task[u]
    BY <1>t, <1>1
  <2> QED
    BY <1>1, <2>1 DEF Shape
<1>2. ASSUME NEW call, Fits(call), Wait(t, call)
      PROVE  Shape'
  BY <1>1, <1>2 DEF Wait
<1>3. ASSUME NEW st, Finish(t, st)
      PROVE  Shape'
  BY <1>1, <1>3, FitsOther DEF Finish
<1>4. ASSUME NEW at \in {"connect", "read"}, Suspend(t, at)
      PROVE  Shape'
  <2>1. Fits(At(task[t], at))
    BY <1>t, <1>4, AtType DEF Shape, Fits
  <2> QED
    BY <1>1, <1>4, <2>1 DEF Suspend, At
<1>5. CASE UNCHANGED task
  BY <1>5 DEF Shape
<1> QED
  BY <1>2, <1>3, <1>4, <1>5

\* close() goes on, and a fetch.
LEMMA CloseShape ==
  ASSUME TypeInv, Shape, NEW t \in Tasks, NEW gone, NEW todo,
         CloseGoesOn(t, gone, todo)
  PROVE  Shape'
<1>1. PICK quiet :
        \/ \E c : Wait(t, [Begin("close", c, CloseQueryPacket(handle[c]))
                             EXCEPT !.todo = todo \ (quiet \cup {c})])
        \/ Wait(t, [BeginFor("close", "close") EXCEPT !.pkt = CloseDatabasePacket])
  BY DEF CloseGoesOn
<1>2. \A c, v : Fits([Begin("close", c, CloseQueryPacket(handle[c])) EXCEPT !.todo = v])
  BY PacketFields, FitsBegin DEF FcsOf
<1>3. \E call : Fits(call) /\ Wait(t, call)
  BY <1>1, <1>2, FitsOther, Zenon
<1> QED
  BY <1>3, ShapeMoves

\* A fetch returns or asks for more rows.
LEMMA TakeShape ==
  ASSUME TypeInv, Shape, NEW t \in Tasks, NEW op \in {"fetchmany", "fetchall"},
         NEW c, NEW rows, NEW want, Take(t, op, c, rows, want)
  PROVE  Shape'
<1> DEFINE call(index, left) ==
             [Begin(op, c, FetchPacket(handle[c], index)) EXCEPT !.want = left]
<1>1. \A index, left : Fits(call(index, left))
  BY PacketFields, FitsBegin DEF FcsOf
<1>2. (\E index, left : Wait(t, call(index, left))) \/ Finish(t, "returned")
  BY DEF Take
<1> HIDE DEF call
<1> QED
  BY <1>1, <1>2, ShapeMoves

\* The calls.
LEMMA InvocationShape ==
  ASSUME TypeInv, Shape, NEW t \in Tasks, Invocation(t)
  PROVE  Shape'
<1> USE DEF FcsOf
<1>1. CASE ConnectCall(t)
  BY <1>1, FitsOther, ShapeMoves DEF ConnectCall
<1>2. CASE PingCall(t)
  <2>1. \A v : Fits([Begin("ping", None, CheckCasPacket) EXCEPT !.flag = v])
    BY PacketFields, FitsBegin
  <2>2. \E call : Fits(call) /\ Wait(t, call)
    BY <1>2, <2>1, FitsOther, Zenon DEF PingCall
  <2> QED
    BY <2>2, ShapeMoves
<1>3. CASE EndTranCall(t)
  <2>1. /\ Fits(Begin("commit", None, CommitPacket))
        /\ Fits(Begin("rollback", None, RollbackPacket))
    BY PacketFields, FitsBegin
  <2> QED
    BY <1>3, <2>1, ShapeMoves DEF EndTranCall
<1>4. CASE SetAutocommitCall(t)
  <2>1. \A v : Fits([Begin("set_autocommit", None, SetDbParameterPacket(v))
                       EXCEPT !.flag = v])
    BY PacketFields, FitsBegin
  <2>2. \E call : Fits(call) /\ Wait(t, call)
    BY <1>4, <2>1, Zenon DEF SetAutocommitCall
  <2> QED
    BY <2>2, ShapeMoves
<1>5. CASE QueryCall(t)
  <2>1. /\ Fits(Begin("get_server_version", None, GetEngineVersionPacket))
        /\ Fits(Begin("get_last_insert_id", None, GetLastInsertIdPacket))
        /\ \A s : Fits(Begin("get_schema_info", None, GetSchemaPacket(s)))
    BY PacketFields, FitsBegin
  <2>2. \E call : Fits(call) /\ Wait(t, call)
    BY <1>5, <2>1, Zenon DEF QueryCall
  <2> QED
    BY <2>2, ShapeMoves
<1>6. CASE CloseCall(t)
  BY <1>6, CloseShape, ShapeMoves DEF CloseCall
<1>7. ASSUME NEW c \in Cursors, NewCursor(t, c)
      PROVE  Shape'
  BY <1>7, ShapeMoves DEF NewCursor
<1>8. ASSUME NEW c \in Cursors, CursorCloseCall(t, c)
      PROVE  Shape'
  <2>1. Fits(Begin("cursor_close", c, CloseQueryPacket(handle[c])))
    BY PacketFields, FitsBegin
  <2>2. \/ \E call : Fits(call) /\ Wait(t, call)
        \/ \E st : Finish(t, st)
    BY <1>8, <2>1, Zenon DEF CursorCloseCall
  <2> QED
    BY <2>2, ShapeMoves
<1>9. ASSUME NEW c \in Cursors, ExecuteCall(t, c)
      PROVE  Shape'
  <2> DEFINE p(s) == IF handle[c] # None THEN CloseQueryPacket(handle[c])
                     ELSE PrepareAndExecutePacket(s, autocommit)
  <2>1. PICK s : Wait(t, [Begin("execute", c, p(s)) EXCEPT !.stmts = {s}])
    BY <1>9 DEF ExecuteCall
  <2>2. p(s).fc \in FcsOf("execute")
    BY PacketFields
  <2> HIDE DEF p
  <2>3. Fits([Begin("execute", c, p(s)) EXCEPT !.stmts = {s}])
    BY <2>2, FitsBegin
  <2> QED
    BY <2>1, <2>3, ShapeMoves
<1>10. ASSUME NEW c \in Cursors, ExecutemanyBatchCall(t, c)
       PROVE  Shape'
  <2>1. PICK ss, ac : Wait(t, [Begin("executemany_batch", c, BatchExecutePacket(ss, ac))
                                 EXCEPT !.stmts = ss])
    BY <1>10 DEF ExecutemanyBatchCall
  <2>2. Fits([Begin("executemany_batch", c, BatchExecutePacket(ss, ac))
                EXCEPT !.stmts = ss])
    BY PacketFields, FitsBegin
  <2> QED
    BY <2>1, <2>2, ShapeMoves
<1>11. ASSUME NEW c \in Cursors, FetchmanyCall(t, c) \/ FetchallCall(t, c)
       PROVE  Shape'
  BY <1>11, TakeShape DEF FetchmanyCall, FetchallCall
<1> QED
  BY <1>1, <1>2, <1>3, <1>4, <1>5, <1>6, <1>7, <1>8, <1>9, <1>10, <1>11 DEF Invocation

\* A ping whose exchange is over ends, or drops the streams and connects again.
LEMMA PingGoesOn ==
  ASSUME TypeInv, NEW t \in Tasks, PingReply(t)
  PROVE  \E r \in PossibleReplies(t) :
           /\ SendAndReceive(t, r)
           /\ \/ Wait(t, BeginFor("ping", "drop"))
              \/ \E st : Finish(t, st)
<1>1. PICK r \in PossibleReplies(t) :
        /\ SendAndReceive(t, r)
        /\ CASE r.st = "ok" -> Finish(t, IF r.neg THEN "false" ELSE "returned")
             [] r.st = "error" -> Finish(t, "raised")
             [] r.st = "operr" -> IF task[t].flag
                                  THEN Wait(t, BeginFor("ping", "drop"))
                                  ELSE Finish(t, "false")
  BY DEF PingReply
<1>2. r.st \in {"ok", "error", "operr"}
  BY RepliesIn DEF TypeInv
<1>3. CASE r.st = "ok"
  <2>1. Finish(t, IF r.neg THEN "false" ELSE "returned")
    BY <1>1, <1>3
  <2> QED
    BY <1>1, <2>1
<1>4. CASE r.st = "error"
  <2>1. Finish(t, "raised")
    BY <1>1, <1>4
  <2> QED
    BY <1>1, <2>1
<1>5. CASE r.st = "operr"
  <2>1. Wait(t, BeginFor("ping", "drop")) \/ Finish(t, "false")
    BY <1>1, <1>5
  <2> QED
    BY <1>1, <2>1
<1> QED
  BY <1>2, <1>3, <1>4, <1>5

\* The steps of a call under way.
LEMMA TaskStepShape ==
  ASSUME TypeInv, Shape, NEW t \in Tasks, TaskStep(t)
  PROVE  Shape'
<1>k. task[t] \in TaskRecords /\ Fits(task[t])
  BY DEF TypeInv, CallsOK, Shape
<1>1. CASE SendRequest(t) \/ CheckReconnect(t) \/ Reconnected(t) \/ StartHandshake(t)
  <2>1. \E at \in {"connect", "read"} : Suspend(t, at)
    BY <1>1 DEF SendRequest, CheckReconnect, Reconnected, StartHandshake, Write
  <2> QED
    BY <2>1, ShapeMoves
<1>2. CASE \/ AlreadyConnected(t) \/ ConnectEnds(t) \/ EndTranReply(t) \/ QueryReply(t)
           \/ CloseEnds(t) \/ CursorCloseReply(t) \/ LastRowIdReply(t)
           \/ ExecutemanyBatchReply(t)
  <2>1. \E st : Finish(t, st)
    BY <1>2, Zenon
       DEF AlreadyConnected, ConnectEnds, EndTranReply, QueryReply, CloseEnds,
           CursorCloseReply, LastRowIdReply, ExecutemanyBatchReply
  <2> QED
    BY <2>1, ShapeMoves
<1>3. CASE PingDrop(t)
  BY <1>3, FitsOther, ShapeMoves DEF PingDrop
<1>9. CASE PingReply(t)
  <2>1. Wait(t, BeginFor("ping", "drop")) \/ \E st : Finish(t, st)
    BY <1>9, PingGoesOn
  <2>2. CASE Wait(t, BeginFor("ping", "drop"))
    BY <2>2, FitsOther, ShapeMoves
  <2>3. CASE \E st : Finish(t, st)
    BY <2>3, ShapeMoves
  <2> QED
    BY <2>1, <2>2, <2>3
<1>4. CASE SetAutocommitReply(t)
  <2>1. Fits([task[t] EXCEPT !.pkt = CommitPacket, !.at = "lock"])
    <3>1. task[t].op = "set_autocommit" /\ CommitPacket.fc \in FcsOf("set_autocommit")
      BY <1>4, PacketFields DEF SetAutocommitReply, FcsOf
    <3>2. Fits(Again(task[t], CommitPacket))
      BY <1>k, <3>1, FitsAgain, PacketType
    <3>3. [task[t] EXCEPT !.pkt = CommitPacket, !.at = "lock"] = Again(task[t], CommitPacket)
      BY <1>k, PacketType, SameAgain
    <3> QED
      BY <3>2, <3>3, Zenon
  <2>2. (\E st : Finish(t, st)) \/ (\E call : Fits(call) /\ Wait(t, call))
    BY <1>4, <2>1, Zenon DEF SetAutocommitReply
  <2> QED
    BY <2>2, ShapeMoves
<1>5. CASE CloseCursorReply(t)
  BY <1>5, CloseShape DEF CloseCursorReply
<1>6. CASE ExecuteCloseReply(t)
  <2>1. ASSUME NEW s \in task[t].stmts
        PROVE  Fits([task[t] EXCEPT !.at = "lock",
                       !.pkt = PrepareAndExecutePacket(s, autocommit)])
    <3> DEFINE call == task[t]
               p == PrepareAndExecutePacket(s, autocommit)
    <3>1. p \in Packets
      BY <1>k, PacketType DEF TypeInv, CursorsOK, TaskRecords
    <3>2. call.op \in {"set_autocommit", "execute"} /\ p.fc \in FcsOf(call.op)
      <4>1. call.op = "execute"
        BY <1>6, Zenon DEF ExecuteCloseReply
      <4>2. p.fc = "PrepareAndExecute"
        BY PacketFields
      <4> HIDE DEF call, p
      <4> QED
        BY <4>1, <4>2 DEF FcsOf
    <3>3. call \in TaskRecords /\ Fits(call)
      BY <1>k
    <3> HIDE DEF call, p
    <3>4. Fits(Again(call, p))
      BY <3>1, <3>2, <3>3, FitsAgain
    <3>5. Again(call, p) = [call EXCEPT !.at = "lock", !.pkt = p]
      BY DEF Again
    <3> QED
      BY <3>4, <3>5, Zenon DEF call, p
  <2>2. (\E st : Finish(t, st)) \/ (\E call : Fits(call) /\ Wait(t, call))
    BY <1>6, <2>1, Zenon DEF ExecuteCloseReply
  <2> QED
    BY <2>2, ShapeMoves
<1>7. CASE ExecuteReply(t)
  <2>1. Fits([task[t] EXCEPT !.at = "lock", !.pkt = GetLastInsertIdPacket])
    <3>1. task[t].op = "execute" /\ GetLastInsertIdPacket.fc \in FcsOf("execute")
      BY <1>7, PacketFields DEF ExecuteReply, FcsOf
    <3>2. Fits(Again(task[t], GetLastInsertIdPacket))
      BY <1>k, <3>1, FitsAgain, PacketType
    <3> QED
      BY <3>2, Zenon DEF Again
  <2>2. (\E st : Finish(t, st)) \/ (\E call : Fits(call) /\ Wait(t, call))
    BY <1>7, <2>1, Zenon DEF ExecuteReply
  <2> QED
    BY <2>2, ShapeMoves
<1>8. CASE FetchReply(t)
  <2>1. \/ \E st : Finish(t, st)
        \/ \E rows : Take(t, task[t].op, task[t].cur, rows, task[t].want)
    BY <1>8, Zenon DEF FetchReply
  <2>2. task[t].op \in {"fetchmany", "fetchall"}
    BY <1>8 DEF FetchReply
  <2> QED
    BY <2>1, <2>2, ShapeMoves, TakeShape
<1> QED
  BY <1>1, <1>2, <1>3, <1>4, <1>5, <1>6, <1>7, <1>8, <1>9 DEF TaskStep

\* They are no other task's.
LEMMA TaskStepOthers ==
  ASSUME TypeInv, NEW t \in Tasks, TaskStep(t)
  PROVE  OthersKept(t)
<1>1. \/ \E call : Wait(t, call)
      \/ \E st : Finish(t, st)
      \/ \E at : Suspend(t, at)
  <2>1. CASE \/ SendRequest(t) \/ CheckReconnect(t) \/ Reconnected(t)
             \/ AlreadyConnected(t) \/ StartHandshake(t) \/ ConnectEnds(t) \/ PingDrop(t)
    BY <2>1, Zenon
       DEF SendRequest, CheckReconnect, Reconnected, Write, AlreadyConnected,
           StartHandshake, ConnectEnds, PingDrop
  <2>2. CASE \/ EndTranReply(t) \/ SetAutocommitReply(t) \/ QueryReply(t)
             \/ CloseCursorReply(t) \/ CloseEnds(t)
    BY <2>2, Zenon
       DEF EndTranReply, SetAutocommitReply, QueryReply, CloseCursorReply, CloseGoesOn,
           CloseEnds
  <2>3. CASE \/ CursorCloseReply(t) \/ ExecuteCloseReply(t) \/ ExecuteReply(t)
             \/ LastRowIdReply(t) \/ ExecutemanyBatchReply(t)
    BY <2>3, Zenon
       DEF CursorCloseReply, ExecuteCloseReply, ExecuteReply, LastRowIdReply,
           ExecutemanyBatchReply
  <2>4. CASE FetchReply(t)
    BY <2>4 DEF FetchReply, Take
  <2>5. CASE PingReply(t)
    BY <2>5, RepliesIn DEF PingReply, TypeInv
  <2> QED
    BY <2>1, <2>2, <2>3, <2>4, <2>5, Zenon DEF TaskStep
<1> QED
  BY <1>1, OneTask

\* Every step keeps Shape.
LEMMA ShapeStep == TypeInv /\ Shape /\ [Next]_vars => Shape'
<1> SUFFICES ASSUME TypeInv, Shape, [Next]_vars
             PROVE  Shape'
  OBVIOUS
<1>1. CASE UNCHANGED task
  BY <1>1 DEF Shape
<1>2. ASSUME NEW t \in Tasks, Cancel(t)
      PROVE  Shape'
  BY <1>2, ShapeMoves DEF Cancel
<1> QED
  BY <1>1, <1>2, InvocationShape, TaskStepShape
     DEF Next, vars, ServerAnswers, SessionLost

\* It holds at first.
LEMMA InitShape == Init => Shape
  BY FitsOther DEF Init, Shape

(***************************************************************************)
(* Part 2.  What becomes of the acknowledged statements.  Until a call is  *)
(* cancelled they are pending or durable while the session lives, also     *)
(* while the response to their request is still in the streams (Done); the *)
(* exception is a rollback or an end of the session that the driver has    *)
(* not read of yet (Gone).  Where the driver may reconnect in silence -    *)
(* CAS_INFO says INACTIVE - they are durable.                              *)
(***************************************************************************)
TheAnswer == Head(responses)
HasAnswer == responses # <<>>

Gone ==
  HasAnswer /\ TheAnswer.reply.st = "ok" /\ TheAnswer.fc \in {"Rollback", "CloseDatabase"}

Done ==
  acked \cup (IF HasAnswer /\ TheAnswer.reply.st = "ok" THEN Dml(TheAnswer.reply.done) ELSE {})

SessionKeeps ==
  /\ ~tran => work = {}
  /\ up /\ ~Gone => Done \subseteq work \cup durable

DriverKeeps ==
  /\ HasAnswer /\ TheAnswer.reply.neg => TheAnswer.fc = "CheckCas"
  /\ HasAnswer /\ TheAnswer.status = "INACTIVE" /\ ~Gone => Done \subseteq durable
  /\ HasAnswer /\ TheAnswer.reply.st = "ok" /\ TheAnswer.fc = "Commit" => acked \subseteq durable
  /\ connected /\ casStatus = "INACTIVE" => acked \subseteq durable
  /\ \A t \in Tasks :
       task[t].at = "connect" /\ task[t].why = "request" => acked \subseteq durable

Kept == cancels = 0 => SessionKeeps /\ DriverKeeps

DataInv == TypeInv /\ WireInv /\ Shape /\ Kept

\* No task is in a handshake, as when the lock is free.
NoHandshake == \A t \in Tasks : task[t].at # "connect"

\* A lock that is free is not held in a handshake.
LEMMA OutOfHandshake ==
  /\ TypeInv /\ owner = None => NoHandshake
  /\ TypeInv' /\ owner' = None => NoHandshake'
  BY TasksAssumption DEF TypeInv, CallsOK, LockKept, NoHandshake

\* A step that leaves the session and the streams alone.
LEMMA SilentKept ==
  ASSUME Kept, UNCHANGED <<serverVars, connected, responses, casStatus, acked, cancels>>,
         \A t \in Tasks :
           task'[t].at = "connect" /\ task'[t].why = "request"
             => task[t].at = "connect" /\ task[t].why = "request"
  PROVE  Kept'
  BY DEF Kept, SessionKeeps, DriverKeeps, serverVars, HasAnswer, TheAnswer, Gone, Done

\* A step that ends the session.
LEMMA LostKept ==
  ASSUME Disconnect, NoHandshake' \/ (cancels' = 0 => acked' \subseteq durable')
  PROVE  Kept'
<1>1. ~up' /\ ~connected' /\ work' = {} /\ ~tran' /\ responses' = <<>>
  BY DEF Disconnect, SessionEnds
<1> QED
  BY <1>1 DEF Kept, SessionKeeps, DriverKeeps, HasAnswer, NoHandshake

\* What a reader makes of the answer to its own request.
LEMMA ReadingOf ==
  ASSUME NEW m \in Answered, NEW r \in Readings(m, m.fc)
  PROVE  \/ r = m.reply /\ m.reply.st = "ok" /\ ~m.reply.neg
         \/ r.st = "operr"
         \/ r.st = "error" /\ (m.reply.neg \/ m.reply.st = "error")
         \/ r = NegativeReply /\ m.fc = "CheckCas"
<1>1. Failed("operr").st = "operr" /\ Failed("error").st = "error"
  BY DEF Failed, OkReply, Reply
<1>2. m.reply.st \in {"ok", "error"}
  BY DEF Answered
<1> QED
  BY <1>1, <1>2 DEF Readings

\* What a call that has a response may do to acked.
Acknowledges(t, r) ==
  \/ acked' = {}
  \/ /\ acked' \subseteq acked \cup (IF r.st = "ok" THEN Dml(r.done) ELSE {})
     /\ r.st # "ok" => acked' = acked
     /\ r.st = "ok" => task[t].pkt.fc \notin {"Rollback", "CloseDatabase"}

\* A task reads a response: what it acknowledges, the server has.
LEMMA ResponseKept ==
  ASSUME TypeInv, WireInv, Kept, NEW t \in Tasks, NEW r, Response(t, r), r.st # "operr",
         NoHandshake', UNCHANGED cancels, Acknowledges(t, r)
  PROVE  Kept'
<1> USE TasksAssumption DEF serverVars
<1> SUFFICES ASSUME cancels = 0
             PROVE  SessionKeeps' /\ DriverKeeps'
  BY DEF Kept
<1> DEFINE m == TheAnswer
<1>1. /\ owner = t /\ HasAnswer /\ r \in Readings(m, task[t].pkt.fc)
      /\ casStatus' = m.status
      /\ UNCHANGED <<up, tran, work, durable, connected>>
      /\ responses' = Tail(responses)
  BY DEF Response, Reading, HasAnswer, TheAnswer
<1>2. m \in Answered /\ m.fc = task[t].pkt.fc /\ connected
  BY <1>1 DEF TypeInv, WireOK, WireInv, StreamInv, ResponsesMatch, HasAnswer, TheAnswer
<1>3. responses' = <<>>
  <2>1. Len(requests) + Len(responses) <= 1 /\ Len(requests) \in Nat
        /\ responses \in Seq(Answered) /\ responses # <<>>
    BY <1>1 DEF TypeInv, WireOK, WireInv, ResponsesMatch, HasAnswer
  <2> QED
    BY <1>1, <2>1
<1>4. SessionKeeps /\ DriverKeeps
  BY DEF Kept
<1> HIDE DEF m
<1>5. CASE acked' = {}
  BY <1>1, <1>3, <1>4, <1>5 DEF SessionKeeps, DriverKeeps, HasAnswer, Done, NoHandshake
<1>6. CASE acked' # {}
  <2>1. \/ r = m.reply /\ m.reply.st = "ok" /\ ~m.reply.neg
        \/ r.st = "error" /\ (m.reply.neg \/ m.reply.st = "error")
        \/ r = NegativeReply /\ m.fc = "CheckCas"
    BY <1>1, <1>2, ReadingOf
  <2>2. NegativeReply.st = "ok" /\ NegativeReply.done = {}
    BY DEF NegativeReply, OkReply, Reply
  <2>3. ~Gone
    BY <1>1, <1>2, <1>4, <1>6, <2>1 DEF Acknowledges, Gone, DriverKeeps, m
  <2>4. acked' \subseteq Done
    <3>1. Dml({}) = {}
      BY DEF Dml
    <3>2. acked \subseteq Done
      BY DEF Done
    <3>3. m.reply.st = "ok" => Dml(m.reply.done) \subseteq Done
      BY <1>1 DEF Done, m
    <3>4. CASE r = m.reply /\ m.reply.st = "ok"
      BY <1>6, <3>2, <3>3, <3>4 DEF Acknowledges
    <3>5. CASE r.st = "error"
      BY <1>6, <3>2, <3>5 DEF Acknowledges
    <3>6. CASE r = NegativeReply
      BY <1>6, <2>2, <3>1, <3>2, <3>6 DEF Acknowledges
    <3> QED
      BY <2>1, <3>4, <3>5, <3>6
  <2>5. /\ ~tran => work = {}
        /\ up => Done \subseteq work \cup durable
        /\ m.status = "INACTIVE" => Done \subseteq durable
    BY <1>1, <1>4, <2>3 DEF SessionKeeps, DriverKeeps, m
  <2> QED
    BY <1>1, <1>3, <2>4, <2>5 DEF SessionKeeps, DriverKeeps, HasAnswer, Done, NoHandshake
<1> QED
  BY <1>5, <1>6

\* An exchange comes to an end, in any way.
LEMMA ExchangeKept ==
  ASSUME TypeInv, TypeInv', WireInv, Kept, NEW t \in Tasks, NEW r \in PossibleReplies(t),
         SendAndReceive(t, r), UNCHANGED cancels, Acknowledges(t, r)
  PROVE  Kept'
<1> USE DEF transportVars
<1>1. NoHandshake'
  BY OutOfHandshake DEF SendAndReceive
<1>2. Failed("operr").st = "operr" /\ Failed("error").st = "error"
  BY DEF Failed, OkReply, Reply
<1>3. CASE NotConnected(t, r) \/ ReconnectFails(t, r) \/ EndOfFile(t, r)
  <2>1. r.st # "ok" /\ UNCHANGED <<serverVars, connected, responses, casStatus>>
    BY <1>2, <1>3 DEF NotConnected, ReconnectFails, EndOfFile, HandshakeFails
  <2>2. CASE acked' = acked
    BY <1>1, <2>1, <2>2, SilentKept DEF NoHandshake
  <2>3. CASE acked' = {}
    BY <1>1, <2>1, <2>3
       DEF NoHandshake, Kept, SessionKeeps, DriverKeeps, serverVars, HasAnswer, TheAnswer,
           Gone, Done
  <2> QED
    BY <2>1, <2>2, <2>3 DEF Acknowledges
<1>4. CASE SocketError(t, r)
  BY <1>1, <1>4, LostKept DEF SocketError
<1>5. CASE Response(t, r) /\ r.st = "operr"
  BY <1>1, <1>5, LostKept DEF Response
<1>6. CASE Response(t, r) /\ r.st # "operr"
  BY <1>1, <1>6, ResponseKept
<1> QED
  BY <1>3, <1>4, <1>5, <1>6 DEF SendAndReceive

\* What a call does with a response.
LEMMA ReplyKept ==
  ASSUME TypeInv, TypeInv', WireInv, Shape, Kept, NEW t \in Tasks, Replying(t)
  PROVE  Kept'
<1> USE DEF historyVars, FcsOf
<1>k. Fits(task[t])
  BY DEF Shape
<1>1. ASSUME NEW r \in PossibleReplies(t), SendAndReceive(t, r), UNCHANGED cancels,
             Acknowledges(t, r)
      PROVE  Kept'
  BY <1>1, ExchangeKept
<1>2. CASE \/ PingReply(t) \/ QueryReply(t) \/ CursorCloseReply(t) \/ FetchReply(t)
           \/ CloseCursorReply(t) \/ ExecuteCloseReply(t) \/ LastRowIdReply(t)
  <2>1. PICK r \in PossibleReplies(t) : SendAndReceive(t, r)
    BY <1>2, Zenon
       DEF PingReply, QueryReply, CursorCloseReply, FetchReply, CloseCursorReply,
           ExecuteCloseReply, LastRowIdReply
  <2>2. UNCHANGED <<cancels, acked>>
    BY <1>2
       DEF PingReply, QueryReply, CursorCloseReply, FetchReply, CloseCursorReply,
           ExecuteCloseReply, LastRowIdReply
  <2>3. \/ task[t].op \in {"ping", "get_server_version", "get_last_insert_id",
                           "get_schema_info", "cursor_close", "fetchmany", "fetchall",
                           "execute"}
        \/ task[t].pkt.fc = "CloseQuery"
    BY <1>2, Zenon
       DEF PingReply, QueryReply, CursorCloseReply, FetchReply, CloseCursorReply,
           ExecuteCloseReply, LastRowIdReply
  <2>4. task[t].pkt.fc \notin {"Rollback", "CloseDatabase"}
    BY <1>k, <2>3 DEF Fits
  <2> QED
    BY <1>1, <2>1, <2>2, <2>4 DEF Acknowledges
<1>3. CASE EndTranReply(t)
  <2>1. PICK r \in PossibleReplies(t) :
          /\ SendAndReceive(t, r)
          /\ r.st = "ok" => acked' = {}
          /\ r.st # "ok" => acked' = acked
    BY <1>3 DEF EndTranReply
  <2> QED
    BY <1>1, <1>3, <2>1 DEF Acknowledges, EndTranReply
<1>4. CASE SetAutocommitReply(t)
  <2>1. PICK r \in PossibleReplies(t) : SendAndReceive(t, r) /\ acked' \in {acked, {}}
    BY <1>4 DEF SetAutocommitReply
  <2>2. UNCHANGED cancels /\ task[t].op = "set_autocommit"
    BY <1>4 DEF SetAutocommitReply
  <2> QED
    BY <1>1, <1>k, <2>1, <2>2 DEF Acknowledges, Fits
<1>5. CASE ExecuteReply(t)
  <2>1. PICK r \in PossibleReplies(t) :
          /\ SendAndReceive(t, r)
          /\ \/ r.st = "ok" /\ \E s \in r.done : acked' = acked \cup Dml({s})
             \/ r.st # "ok" /\ acked' = acked
    BY <1>5, Zenon DEF ExecuteReply
  <2>2. UNCHANGED cancels /\ task[t].pkt.fc = "PrepareAndExecute"
    BY <1>5 DEF ExecuteReply
  <2>3. \A s \in r.done : Dml({s}) \subseteq Dml(r.done)
    BY DEF Dml
  <2> QED
    BY <1>1, <2>1, <2>2, <2>3 DEF Acknowledges
<1>6. CASE ExecutemanyBatchReply(t)
  <2>1. PICK r \in PossibleReplies(t) :
          /\ SendAndReceive(t, r)
          /\ r.st = "ok" => acked' = acked \cup Dml(r.done)
          /\ r.st # "ok" => acked' = acked
    BY <1>6 DEF ExecutemanyBatchReply
  <2>2. UNCHANGED cancels /\ task[t].op = "executemany_batch"
    BY <1>6 DEF ExecutemanyBatchReply
  <2> QED
    BY <1>1, <1>k, <2>1, <2>2 DEF Acknowledges, Fits
<1> QED
  BY <1>2, <1>3, <1>4, <1>5, <1>6 DEF Replying

\* What a call does with the lock before it has a response.
LEMMA LockStepKept ==
  ASSUME TypeInv, TypeInv', WireInv, Kept, NEW t \in Tasks,
         \/ SendRequest(t) \/ CheckReconnect(t) \/ Reconnected(t)
         \/ AlreadyConnected(t) \/ StartHandshake(t) \/ ConnectEnds(t) \/ PingDrop(t)
  PROVE  Kept'
<1> USE TasksAssumption DEF transportVars, lockVars, historyVars
<1>1. CASE SendRequest(t)
  <2>1. task'[t] = At(task[t], "read") /\ OthersKept(t)
    BY <1>1, SuspendCalls DEF SendRequest, WantsToSend, Write, OthersKept
  <2>2. task'[t].at = "read"
    BY <2>1, AtType DEF TypeInv, CallsOK
  <2> QED
    BY <1>1, <2>1, <2>2, SilentKept DEF SendRequest, OthersKept
<1>2. CASE CheckReconnect(t)
  <2>1. connected /\ casStatus = "INACTIVE" /\ Disconnect /\ UNCHANGED <<cancels, acked>>
    BY <1>2 DEF CheckReconnect, MustReconnect
  <2>2. durable' = durable
    BY <2>1 DEF Disconnect, SessionEnds
  <2>3. cancels' = 0 => acked' \subseteq durable'
    BY <2>1, <2>2 DEF Kept, DriverKeeps
  <2> QED
    BY <2>1, <2>3, LostKept
<1>3. CASE Reconnected(t)
  <2>1. ~connected /\ responses = <<>> /\ owner = t
    BY <1>3 DEF Reconnected, WireInv, StreamInv, TypeInv, CallsOK, LockKept
  <2>2. owner' = t /\ task'[t] = At(task[t], "read") /\ OthersKept(t)
    BY <1>3, SuspendCalls DEF Reconnected, Write, OthersKept
  <2>3. task'[t].at = "read"
    BY <2>2, AtType DEF TypeInv, CallsOK
  <2>4. NoHandshake'
    BY <2>2, <2>3 DEF NoHandshake, TypeInv, CallsOK, LockKept
  <2>5. /\ ~tran' /\ work' = {} /\ durable' = durable /\ responses' = <<>>
        /\ UNCHANGED <<acked, cancels>>
    BY <1>3, <2>1 DEF Reconnected, HandshakeOk, SessionOpens
  <2>6. cancels = 0 => acked \subseteq durable
    BY <1>3 DEF Kept, DriverKeeps, Reconnected
  <2> QED
    BY <2>4, <2>5, <2>6
       DEF Kept, SessionKeeps, DriverKeeps, HasAnswer, Done, NoHandshake
<1>4. CASE AlreadyConnected(t)
  <2>1. NoHandshake'
    BY <1>4, OutOfHandshake DEF AlreadyConnected, WantsToConnect, Granted
  <2> QED
    BY <1>4, <2>1, SilentKept DEF AlreadyConnected, NoHandshake
<1>5. CASE StartHandshake(t)
  <2>1. task'[t] = At(task[t], "connect") /\ OthersKept(t)
    BY <1>5, SuspendCalls DEF StartHandshake, WantsToConnect, OthersKept
  <2>2. task'[t].why = "connect"
    BY <1>5, <2>1, AtType DEF TypeInv, CallsOK, StartHandshake, WantsToConnect
  <2> QED
    BY <1>5, <2>1, <2>2, SilentKept DEF StartHandshake, OthersKept
<1>6. CASE ConnectEnds(t)
  <2>1. NoHandshake'
    BY <1>6, OutOfHandshake DEF ConnectEnds
  <2>2. CASE HandshakeFails /\ UNCHANGED acked
    BY <1>6, <2>1, <2>2, SilentKept DEF ConnectEnds, HandshakeFails, NoHandshake
  <2>3. CASE HandshakeOk /\ acked' = {}
    <3>1. responses = <<>>
      BY <1>6 DEF ConnectEnds, WireInv, StreamInv
    <3>2. ~tran' /\ work' = {} /\ responses' = <<>>
      BY <2>3, <3>1 DEF HandshakeOk, SessionOpens
    <3> QED
      BY <2>1, <2>3, <3>2
         DEF Kept, SessionKeeps, DriverKeeps, HasAnswer, Done, NoHandshake
  <2> QED
    BY <1>6, <2>2, <2>3 DEF ConnectEnds
<1>7. CASE PingDrop(t)
  <2>1. NoHandshake'
    BY <1>7, OutOfHandshake DEF PingDrop, Granted
  <2> QED
    BY <1>7, <2>1, LostKept DEF PingDrop
<1> QED
  BY <1>1, <1>2, <1>3, <1>4, <1>5, <1>6, <1>7

\* A call that begins, or ends close().
LEMMA InvocationKept ==
  ASSUME TypeInv, TypeInv', Kept, NEW t \in Tasks, Invocation(t)
  PROVE  Kept'
<1> USE TasksAssumption DEF serverVars, transportVars, historyVars
<1>1. /\ OthersKept(t) /\ task[t].at = "idle"
      /\ UNCHANGED <<connected, responses, owner, cancels>>
  BY InvocationTasks
<1>2. UNCHANGED <<serverVars, casStatus, acked>>
  <2>1. ASSUME NEW c \in Cursors,
               \/ NewCursor(t, c) \/ CursorCloseCall(t, c) \/ ExecuteCall(t, c)
               \/ ExecutemanyBatchCall(t, c) \/ FetchmanyCall(t, c) \/ FetchallCall(t, c)
        PROVE  UNCHANGED <<serverVars, casStatus, acked>>
    BY <2>1 DEF NewCursor, CursorCloseCall, ExecuteCall, ExecutemanyBatchCall,
                FetchmanyCall, FetchallCall
  <2>2. ASSUME \/ ConnectCall(t) \/ PingCall(t) \/ EndTranCall(t)
               \/ SetAutocommitCall(t) \/ QueryCall(t) \/ CloseCall(t)
        PROVE  UNCHANGED <<serverVars, casStatus, acked>>
    BY <2>2 DEF ConnectCall, PingCall, EndTranCall, SetAutocommitCall, QueryCall, CloseCall
  <2> QED
    BY <2>1, <2>2 DEF Invocation
<1>3. task'[t].at # "connect"
  BY <1>1 DEF TypeInv, CallsOK, LockKept
<1> QED
  BY <1>1, <1>2, <1>3, SilentKept DEF OthersKept

\* close() drops the session, and the transaction with it.
LEMMA CloseKept ==
  ASSUME TypeInv, TypeInv', Kept, NEW t \in Tasks, CloseEnds(t)
  PROVE  Kept'
<1>1. NoHandshake'
  BY OutOfHandshake DEF CloseEnds
<1> QED
  BY <1>1, LostKept DEF CloseEnds

\* The session answers: the response carries what it has done.
LEMMA ServerAnswersKept ==
  ASSUME TypeInv, WireInv, Kept, ServerAnswers
  PROVE  Kept'
<1> USE DEF historyVars
<1> SUFFICES ASSUME cancels = 0
             PROVE  SessionKeeps' /\ DriverKeeps'
  BY DEF Kept, ServerAnswers
<1>1. SessionKeeps /\ DriverKeeps
  BY DEF Kept
<1> DEFINE p == Head(requests)
<1>2. PICK o \in Outcomes(p) :
        /\ Serve(o)
        /\ \E status \in StatusAfter(o) :
             responses' = Append(responses, [fc |-> p.fc, reply |-> o.reply,
                                             status |-> status])
  BY DEF ServerAnswers
<1>3. PICK status \in StatusAfter(o) :
        responses' = Append(responses, [fc |-> p.fc, reply |-> o.reply, status |-> status])
  BY <1>2
<1> DEFINE m == [fc |-> p.fc, reply |-> o.reply, status |-> status]
<1>4. p \in Packets /\ requests # <<>>
  BY DEF ServerAnswers, TypeInv, WireOK
<1>5. responses = <<>>
  <2>1. Len(requests) + Len(responses) <= 1
    BY DEF WireInv, ResponsesMatch
  <2>2. requests \in Seq(Packets) /\ responses \in Seq(Answered)
    BY DEF TypeInv, WireOK
  <2> QED
    BY <1>4, <2>1, <2>2
<1> HIDE DEF p
<1>6. ServerTypeOK /\ (~tran => work = {})
  BY <1>1 DEF TypeInv, WireOK, SessionKeeps
<1>7. WorkKept(p, o) /\ (o.reply.neg => p.fc = "CheckCas")
  BY <1>4, <1>6, OutcomesWork, AnswerStatus
<1>8. m.fc = p.fc /\ m.reply = o.reply /\ m.status = status
  OBVIOUS
<1>9. responses' = Append(<<>>, m)
  BY <1>3, <1>5
<1> HIDE DEF m
<1>10. responses' = <<m>> /\ <<m>> # <<>> /\ Head(<<m>>) = m
  BY <1>9
<1>11. HasAnswer' /\ TheAnswer' = m
  BY <1>10 DEF HasAnswer, TheAnswer
<1>12. /\ up /\ tran' = o.tran /\ work' = o.work /\ durable' = o.durable
       /\ UNCHANGED <<connected, casStatus, task, acked>>
  BY <1>2 DEF Serve, ServerAnswers
<1>13. ~Gone /\ acked \subseteq work \cup durable
  BY <1>1, <1>5, <1>12 DEF SessionKeeps, Gone, HasAnswer, Done
<1>14. Gone' <=> o.reply.st = "ok" /\ p.fc \in {"Rollback", "CloseDatabase"}
  BY <1>8, <1>11 DEF Gone
<1>15. Done' = acked \cup (IF o.reply.st = "ok" THEN Dml(o.reply.done) ELSE {})
  BY <1>8, <1>11, <1>12 DEF Done, Dml
<1>16. ~Gone' => Done' \subseteq o.work \cup o.durable
  BY <1>7, <1>13, <1>14, <1>15 DEF WorkKept
<1>17. status = "INACTIVE" => o.work = {}
  BY <1>7 DEF StatusAfter, WorkKept
<1>18. durable \subseteq o.durable
  BY <1>7 DEF WorkKept
<1>19. SessionKeeps'
  BY <1>7, <1>12, <1>16 DEF SessionKeeps, WorkKept
<1>20. o.reply.st = "ok" /\ p.fc = "Commit" => acked \subseteq o.durable
  BY <1>7, <1>13 DEF WorkKept
<1> QED
  BY <1>1, <1>7, <1>8, <1>11, <1>12, <1>16, <1>17, <1>18, <1>19, <1>20 DEF DriverKeeps

\* A session that dies takes its transaction along.
LEMMA SessionLostKept ==
  ASSUME Kept, SessionLost
  PROVE  Kept'
  BY DEF Kept, SessionLost, SessionEnds, SessionKeeps, DriverKeeps, historyVars,
         HasAnswer, TheAnswer, Gone, Done

\* Every step keeps Kept.
LEMMA KeptStep == DataInv /\ TypeInv' /\ [Next]_vars => Kept'
<1> SUFFICES ASSUME TypeInv, TypeInv', WireInv, Shape, Kept, [Next]_vars
             PROVE  Kept'
  BY DEF DataInv
<1>1. CASE UNCHANGED vars
  BY <1>1, SilentKept DEF vars, transportVars, historyVars
<1>2. ASSUME NEW t \in Tasks, TaskStep(t)
      PROVE  Kept'
  BY <1>2, LockStepKept, ReplyKept, CloseKept DEF TaskStep, Replying
<1>3. ASSUME NEW t \in Tasks, Cancel(t)
      PROVE  Kept'
  BY <1>3 DEF Cancel, TypeInv, HistoryOK, Kept
<1> QED
  BY <1>1, <1>2, <1>3, InvocationKept, ServerAnswersKept, SessionLostKept DEF Next

\* And so it is in every behaviour.
LEMMA DataInvariant == Spec => []DataInv
<1>1. Init => DataInv
  <2>1. Init => Kept
    BY Parts DEF Init, ServerInit, Kept, SessionKeeps, DriverKeeps, HasAnswer, Done
  <2> QED
    BY <2>1, InitType, InitWire, InitShape DEF DataInv
<1>2. DataInv /\ [Next]_vars => DataInv'
  BY TypeStep, WireStep, ShapeStep, KeptStep DEF DataInv
<1> QED
  BY <1>1, <1>2, PTL DEF Spec

(***************************************************************************)
(* A commit that returns has read the server's "yes" to its own request.   *)
(***************************************************************************)
Commits(t) ==
  /\ task[t].op \in {"commit", "set_autocommit"} /\ ret' = "returned"
  /\ task'[t].op = "none"

\* A commit returns only with an answer to its END_TRAN.
LEMMA CommitReads ==
  ASSUME TypeInv, Shape, NEW t \in Tasks, Commits(t), TaskStep(t)
  PROVE  \E r \in PossibleReplies(t) :
           SendAndReceive(t, r) /\ r.st = "ok" /\ task[t].pkt.fc = "Commit"
<1>1. /\ Fits(task[t]) /\ task[t].op \in {"commit", "set_autocommit"}
      /\ ret' = "returned" /\ task'[t].op = "none"
  BY DEF Shape, Commits
<1>2. EndTranReply(t) \/ SetAutocommitReply(t)
  <2>1. ~AlreadyConnected(t) /\ ~StartHandshake(t) /\ ~ConnectEnds(t)
    BY <1>1 DEF Fits, AlreadyConnected, StartHandshake, ConnectEnds, WantsToConnect
  <2>2. ~SendRequest(t) /\ ~CheckReconnect(t) /\ ~Reconnected(t) /\ ~PingDrop(t)
    BY <1>1, Zenon DEF SendRequest, CheckReconnect, Reconnected, PingDrop, Write, Suspend, Wait
  <2>3. /\ ~PingReply(t) /\ ~QueryReply(t) /\ ~CloseEnds(t) /\ ~CursorCloseReply(t)
        /\ ~ExecuteCloseReply(t) /\ ~ExecuteReply(t) /\ ~LastRowIdReply(t)
        /\ ~ExecutemanyBatchReply(t) /\ ~FetchReply(t) /\ ~CloseCursorReply(t)
    <3>1. task[t].op \notin {"ping", "get_server_version", "get_last_insert_id",
                             "get_schema_info", "close", "cursor_close", "execute",
                             "executemany_batch", "fetchmany", "fetchall"}
      BY <1>1
    <3> QED
      BY <3>1, Zenon
         DEF PingReply, QueryReply, CloseEnds, CursorCloseReply, ExecuteCloseReply,
             ExecuteReply, LastRowIdReply, ExecutemanyBatchReply, FetchReply,
             CloseCursorReply
  <2> QED
    BY <2>1, <2>2, <2>3, Zenon DEF TaskStep
<1>3. CASE EndTranReply(t)
  <2>1. task[t].pkt.fc = "Commit"
    BY <1>1, <1>3 DEF Fits, FcsOf, EndTranReply
  <2>2. PICK r \in PossibleReplies(t) :
          SendAndReceive(t, r) /\ (r.st # "ok" => ret' = "raised")
    BY <1>3 DEF EndTranReply, Finish
  <2> QED
    BY <1>1, <2>1, <2>2
<1>4. CASE SetAutocommitReply(t)
  <2>1. PICK r \in PossibleReplies(t) :
          /\ SendAndReceive(t, r)
          /\ \/ \E call : Wait(t, call)
             \/ r.st = "ok" /\ task[t].pkt.fc = "Commit"
             \/ Finish(t, "raised")
    BY <1>4, Zenon DEF SetAutocommitReply
  <2> QED
    BY <1>1, <2>1 DEF Wait, Finish
<1> QED
  BY <1>2, <1>3, <1>4

\* By then the server has made durable what was acknowledged.
LEMMA CommitStep ==
  ASSUME DataInv, cancels = 0, NEW t \in Tasks, Commits(t), [Next]_vars
  PROVE  acked \subseteq durable'
<1>i. TypeInv /\ WireInv /\ Shape /\ DriverKeeps
  BY DEF DataInv, Kept
<1>c. ret' = "returned" /\ task'[t].op = "none" /\ task[t].op # "none"
  BY DEF Commits
<1>1. TaskStep(t)
  <2>1. task' # task
    BY <1>c
  <2>2. ~ServerAnswers /\ ~SessionLost
    BY <1>c DEF ServerAnswers, SessionLost
  <2>3. ASSUME NEW u \in Tasks, Cancel(u)
        PROVE  FALSE
    BY <1>c, <2>3 DEF Cancel, Finish
  <2>4. ASSUME NEW u \in Tasks, Invocation(u)
        PROVE  FALSE
    <3>1. OthersKept(u) /\ task[u].at = "idle" /\ Fits(task[u])
      BY <1>i, <2>4, InvocationTasks DEF Shape
    <3> QED
      BY <1>c, <3>1 DEF OthersKept, Fits
  <2>5. ASSUME NEW u \in Tasks, TaskStep(u), u # t
        PROVE  FALSE
    <3>1. OthersKept(u)
      BY <1>i, <2>5, TaskStepOthers
    <3> QED
      BY <1>c, <2>5, <3>1 DEF OthersKept
  <2> QED
    BY <2>1, <2>2, <2>3, <2>4, <2>5 DEF Next, vars
<1>2. PICK r \in PossibleReplies(t) :
        SendAndReceive(t, r) /\ r.st = "ok" /\ task[t].pkt.fc = "Commit"
  BY <1>i, <1>1, CommitReads
<1>3. Failed("operr").st = "operr" /\ Failed("error").st = "error"
  BY DEF Failed, OkReply, Reply
<1>4. Response(t, r)
  BY <1>2, <1>3
     DEF SendAndReceive, NotConnected, ReconnectFails, SocketError, EndOfFile
<1>5. HasAnswer /\ owner = t /\ durable' = durable /\ r \in Readings(TheAnswer, "Commit")
  BY <1>2, <1>4 DEF Response, Reading, HasAnswer, TheAnswer, serverVars
<1>6. TheAnswer \in Answered /\ TheAnswer.fc = "Commit"
  BY <1>i, <1>2, <1>5 DEF TypeInv, WireOK, WireInv, ResponsesMatch, HasAnswer, TheAnswer
<1>7. TheAnswer.reply.st = "ok"
  BY <1>2, <1>5, <1>6, ReadingOf
<1> QED
  BY <1>i, <1>5, <1>6, <1>7 DEF DriverKeeps

\* CommitDurable, for any tasks, cursors and calls, in every behaviour in which
\* no call is cancelled: a commit() or set_autocommit() that returns has made
\* durable all that any task was told had been executed, whatever timeouts,
\* lost sessions and silent reconnects came before (_check_reconnect_locked).
THEOREM CommitIsDurable == Spec /\ [](cancels = 0) => CommitDurable
<1>1. ASSUME DataInv, cancels = 0, [Next]_vars
      PROVE  \A t \in Tasks : Commits(t) => acked \subseteq durable'
  BY <1>1, CommitStep
<1>2. DataInv /\ cancels = 0 /\ [Next]_vars
        => [\A t \in Tasks :
              task[t].op \in {"commit", "set_autocommit"} /\ ret' = "returned"
              /\ task'[t].op = "none"
                => acked \subseteq durable']_vars
  BY <1>1 DEF Commits
<1> QED
  BY <1>2, DataInvariant, PTL DEF Spec, CommitDurable

(***************************************************************************)
(* Part 3.  Tasks that take turns: no call of the driver begins while      *)
(* another is under way, as when one task has the connection, or a pool    *)
(* gives it to one at a time.  Then what a cursor holds is its own.        *)
(***************************************************************************)
OneAtATime == \A t \in Tasks : Invocation(t) => \A u \in Tasks : IsIdle(u)
TakeTurns == [][OneAtATime]_vars

Alone == \A t, u \in Tasks : ~IsIdle(t) /\ ~IsIdle(u) => t = u

TurnInv == DataInv /\ Alone

\* What the calls before the last exchange do with the lock.
LockStep(t) ==
  \/ SendRequest(t) \/ CheckReconnect(t) \/ Reconnected(t)
  \/ AlreadyConnected(t) \/ StartHandshake(t) \/ ConnectEnds(t) \/ PingDrop(t)

\* The steps of a task: at the lock, after an exchange, the end of close().
LEMMA TaskStepKinds ==
  ASSUME NEW t \in Tasks
  PROVE  TaskStep(t) <=> LockStep(t) \/ Replying(t) \/ CloseEnds(t)
  BY Zenon DEF TaskStep, LockStep, Replying

\* Whoever makes a step of a call has one under way; nobody else has.
LEMMA StepsAlone ==
  ASSUME TypeInv, Shape, Alone, NEW t \in Tasks, TaskStep(t)
  PROVE  /\ ~IsIdle(t)
         /\ \A u \in Tasks \ {t} : IsIdle(u) /\ task'[u] = task[u]
<1>1. ~IsIdle(t)
  <2>1. CASE LockStep(t)
    BY <2>1
       DEF LockStep, SendRequest, CheckReconnect, Reconnected, AlreadyConnected,
           StartHandshake, ConnectEnds, PingDrop, WantsToSend, WantsToConnect, Granted,
           IsIdle
  <2>2. CASE Replying(t) \/ CloseEnds(t)
    <3>1. task[t].op # "none"
      BY <2>2, Zenon
         DEF Replying, CloseEnds, PingReply, EndTranReply, SetAutocommitReply, QueryReply,
             CloseCursorReply, CursorCloseReply, ExecuteCloseReply, ExecuteReply,
             LastRowIdReply, ExecutemanyBatchReply, FetchReply
    <3> QED
      BY <3>1 DEF IsIdle, Shape, Fits
  <2> QED
    BY <2>1, <2>2, TaskStepKinds
<1>2. OthersKept(t)
  BY TaskStepOthers
<1> QED
  BY <1>1, <1>2 DEF Alone, OthersKept

\* No step makes a second task busy.
LEMMA AloneStep ==
  ASSUME TurnInv, [Next]_vars, [OneAtATime]_vars, cancels' = 0
  PROVE  Alone'
<1>t. TypeInv /\ Shape /\ Alone
  BY DEF TurnInv, DataInv
<1>1. CASE UNCHANGED task
  BY <1>1, <1>t DEF Alone, IsIdle
<1>2. ASSUME NEW t \in Tasks, Invocation(t), OneAtATime
      PROVE  Alone'
  BY <1>2, <1>t, InvocationTasks DEF OneAtATime, OthersKept, Alone, IsIdle
<1>3. ASSUME NEW t \in Tasks, TaskStep(t)
      PROVE  Alone'
  BY <1>3, <1>t, StepsAlone DEF Alone, IsIdle
<1>4. ASSUME NEW t \in Tasks, Cancel(t)
      PROVE  FALSE
  BY <1>4, <1>t DEF Cancel, TypeInv, HistoryOK
<1> QED
  BY <1>1, <1>2, <1>3, <1>4 DEF Next, vars, ServerAnswers, SessionLost

\* And so one task at most is busy in every behaviour in which they take turns.
LEMMA TurnInvariant == Spec /\ [](cancels = 0) /\ TakeTurns => []TurnInv
<1>1. Init => Alone
  BY Parts DEF Init, Alone, IsIdle
<1>2. ASSUME TurnInv, [Next]_vars, [OneAtATime]_vars, cancels' = 0
      PROVE  Alone'
  BY <1>2, AloneStep
<1>3. TurnInv /\ DataInv' /\ [Next]_vars /\ (cancels = 0)' /\ [OneAtATime]_vars
        => TurnInv'
  BY <1>2 DEF TurnInv
<1> QED
  BY <1>1, <1>3, DataInvariant, PTL DEF Spec, TurnInv, TakeTurns

\* A call that begins finds the streams empty, and so does one that writes its
\* request; whoever gives the lock back leaves them so.
LEMMA EmptyStreams ==
  ASSUME TurnInv, TypeInv', WireInv', cancels = 0, cancels' = 0, NEW t \in Tasks
  PROVE  /\ Invocation(t) /\ (\A u \in Tasks : IsIdle(u)) => ~HasAnswer /\ ~HasAnswer'
         /\ LockStep(t) => ~HasAnswer /\ ~HasAnswer'
         /\ Replying(t) \/ CloseEnds(t) => ~HasAnswer'
<1> USE TasksAssumption
<1>t. TypeInv /\ WireInv /\ Shape
  BY DEF TurnInv, DataInv
<1>1. owner = None => ~HasAnswer
  BY <1>t DEF WireInv, HasAnswer
<1>2. owner' = None => ~HasAnswer'
  BY DEF WireInv, HasAnswer
<1>3. ASSUME Invocation(t), \A u \in Tasks : IsIdle(u)
      PROVE  ~HasAnswer /\ ~HasAnswer'
  <2>1. owner = None
    BY <1>t, <1>3 DEF TypeInv, CallsOK, LockKept, IsIdle
  <2> QED
    BY <1>t, <1>1, <1>3, <2>1, InvocationTasks DEF HasAnswer
<1>4. task[t].at = "connect" => ~HasAnswer
  BY <1>t DEF WireInv, StreamInv, HasAnswer
<1>5. Disconnect => ~HasAnswer'
  BY DEF Disconnect, HasAnswer
<1>6. ASSUME LockStep(t)
      PROVE  ~HasAnswer /\ ~HasAnswer'
  <2>1. owner = None \/ task[t].at = "connect"
    BY <1>6 DEF LockStep, SendRequest, CheckReconnect, Reconnected, AlreadyConnected,
                StartHandshake, ConnectEnds, PingDrop, WantsToSend, WantsToConnect, Granted
  <2>2. Disconnect \/ UNCHANGED responses
    BY <1>6 DEF LockStep, SendRequest, CheckReconnect, Reconnected, AlreadyConnected,
                StartHandshake, ConnectEnds, PingDrop, transportVars, HandshakeOk,
                HandshakeFails
  <2> QED
    BY <1>1, <1>4, <1>5, <2>1, <2>2 DEF HasAnswer
<1>7. ASSUME Replying(t) \/ CloseEnds(t)
      PROVE  owner' = None
  BY <1>7, Zenon
     DEF Replying, CloseEnds, PingReply, EndTranReply, SetAutocommitReply, QueryReply,
         CloseCursorReply, CursorCloseReply, ExecuteCloseReply, ExecuteReply,
         LastRowIdReply, ExecutemanyBatchReply, FetchReply, SendAndReceive
<1> QED
  BY <1>2, <1>3, <1>6, <1>7

\* The session has carried out a request of kind fc, and the driver has not
\* read it.
Did(fc) == HasAnswer /\ TheAnswer.fc = fc /\ TheAnswer.reply.st = "ok"

\* What a task makes of an exchange: an "ok" is the answer to its own request,
\* and as long as the connection lives, a failure is not the answer to a
\* request that was carried out.
LEMMA ExchangeReads ==
  ASSUME TurnInv, cancels = 0, NEW t \in Tasks, NEW r \in PossibleReplies(t),
         SendAndReceive(t, r)
  PROVE  /\ r.st = "ok" => /\ HasAnswer /\ owner = t /\ TheAnswer.fc = task[t].pkt.fc
                           /\ \/ task[t].pkt.fc = "CheckCas"
                              \/ TheAnswer.reply.st = "ok" /\ r = TheAnswer.reply
         /\ r.st # "ok" => r.id = None
         /\ r.st # "ok" /\ connected' /\ up' => \A fc : Did(fc) => fc = "CheckCas"
         /\ connected' /\ up' => connected /\ up /\ open' = open
         /\ (up' = up /\ open' = open) \/ (~up' /\ open' = NoHandles)
         /\ lastId' = lastId
<1> USE TasksAssumption DEF serverVars, transportVars
<1>t. TypeInv /\ WireInv /\ DriverKeeps
  BY DEF TurnInv, DataInv, Kept
<1>f. /\ Failed("operr").st = "operr" /\ Failed("error").st = "error"
      /\ Failed("operr").id = None /\ Failed("error").id = None
  BY DEF Failed, OkReply, Reply
<1>d. Disconnect => ~connected' /\ ~up' /\ open' = NoHandles /\ lastId' = lastId
  BY DEF Disconnect, SessionEnds
<1>1. CASE NotConnected(t, r)
  <2>1. ~HasAnswer
    BY <1>1, <1>t DEF NotConnected, WantsToSend, Granted, WireInv, HasAnswer
  <2> QED
    BY <1>1, <1>f, <2>1 DEF NotConnected, Did
<1>2. CASE ReconnectFails(t, r)
  <2>1. ~connected
    BY <1>2, <1>t DEF ReconnectFails, WireInv, StreamInv
  <2> QED
    BY <1>2, <1>f, <2>1 DEF ReconnectFails, HandshakeFails
<1>3. CASE SocketError(t, r)
  BY <1>3, <1>d, <1>f DEF SocketError
<1>4. CASE EndOfFile(t, r)
  BY <1>4, <1>f DEF EndOfFile
<1>5. CASE Response(t, r)
  <2> DEFINE m == TheAnswer
  <2>1. owner = t /\ HasAnswer /\ r \in Readings(m, task[t].pkt.fc)
    BY <1>5 DEF Response, Reading, HasAnswer, TheAnswer
  <2>2. m \in Answered /\ m.fc = task[t].pkt.fc /\ connected
        /\ (m.reply.neg => m.fc = "CheckCas")
    BY <1>t, <2>1
       DEF TypeInv, WireOK, WireInv, StreamInv, ResponsesMatch, HasAnswer, TheAnswer,
           DriverKeeps
  <2>3. \/ r = m.reply /\ m.reply.st = "ok" /\ ~m.reply.neg
        \/ r.st = "operr"
        \/ r.st = "error" /\ (m.reply.neg \/ m.reply.st = "error")
        \/ r = NegativeReply /\ m.fc = "CheckCas"
    BY <2>1, <2>2, ReadingOf
  <2>4. NegativeReply.st = "ok" /\ OkReply.st = "ok"
    BY DEF NegativeReply, OkReply, Reply
  <2>5. \/ r.st = "ok"
        \/ r \in {Failed("error"), Failed("operr")}
    BY <2>1, <2>2, <2>4 DEF Readings, Answered
  <2>6. r.st # "ok" => r.id = None
    BY <1>f, <2>5
  <2>7. CASE r.st = "operr"
    BY <1>5, <1>d, <2>6, <2>7 DEF Response
  <2>8. CASE r.st # "operr"
    <3>1. up' = up /\ open' = open /\ lastId' = lastId /\ connected' = connected
      BY <1>5, <2>8 DEF Response
    <3>2. r.st # "ok" => \A fc : Did(fc) => fc = "CheckCas"
      BY <2>2, <2>3, <2>4, <2>8 DEF Did
    <3> HIDE DEF m
    <3> QED
      BY <2>1, <2>2, <2>3, <2>4, <2>6, <2>8, <3>1, <3>2 DEF m
  <2> QED
    BY <2>7, <2>8
<1> QED
  BY <1>1, <1>2, <1>3, <1>4, <1>5 DEF SendAndReceive

(***************************************************************************)
(* Where a call stands after a step.                                       *)
(***************************************************************************)
LEMMA TaskAfter ==
  ASSUME TypeInv, NEW t \in Tasks
  PROVE  /\ \A call : Wait(t, call) => task'[t] = call
         /\ \A st : Finish(t, st) => task'[t] = Idle
         /\ \A at : Suspend(t, at) => task'[t] = At(task[t], at)
  BY DEF TypeInv, CallsOK, Wait, Finish, Suspend, At

\* close() goes on with a cursor that was to be closed, or with CLOSE_DATABASE.
LEMMA CloseParts ==
  ASSUME TypeInv, NEW t \in Tasks, NEW gone, NEW todo, CloseGoesOn(t, gone, todo)
  PROVE  \E quiet \in SUBSET todo :
           /\ CursorsClosed(gone \cup quiet)
           /\ task'[t].op = "close"
           /\ \/ /\ task'[t].cur \in todo \ quiet
                 /\ task'[t].pkt = CloseQueryPacket(handle[task'[t].cur])
                 /\ task'[t].todo = todo \ (quiet \cup {task'[t].cur})
                 /\ task'[t].at = "lock" /\ task'[t].why = "request"
              \/ /\ task'[t].pkt = CloseDatabasePacket
                 /\ task'[t].at = "lock" /\ task'[t].why = "close"
<1>1. PICK quiet \in SUBSET todo :
        /\ CursorsClosed(gone \cup quiet)
        /\ \/ \E c \in todo \ quiet :
                Wait(t, [Begin("close", c, CloseQueryPacket(handle[c]))
                           EXCEPT !.todo = todo \ (quiet \cup {c})])
           \/ Wait(t, [BeginFor("close", "close") EXCEPT !.pkt = CloseDatabasePacket])
  BY DEF CloseGoesOn
<1>2. ASSUME NEW c \in todo \ quiet,
             Wait(t, [Begin("close", c, CloseQueryPacket(handle[c]))
                        EXCEPT !.todo = todo \ (quiet \cup {c})])
      PROVE  /\ task'[t].op = "close" /\ task'[t].cur = c
             /\ task'[t].pkt = CloseQueryPacket(handle[c])
             /\ task'[t].todo = todo \ (quiet \cup {c})
             /\ task'[t].at = "lock" /\ task'[t].why = "request"
  <2> DEFINE p == CloseQueryPacket(handle[c])
             rest == todo \ (quiet \cup {c})
  <2>1. task'[t] = [Begin("close", c, p) EXCEPT !.todo = rest]
    BY <1>2, TaskAfter
  <2> HIDE DEF p, rest
  <2>2. /\ task'[t].op = "close" /\ task'[t].cur = c /\ task'[t].pkt = p
        /\ task'[t].todo = rest /\ task'[t].at = "lock" /\ task'[t].why = "request"
    BY <2>1 DEF Begin, Idle
  <2> QED
    BY <2>2 DEF p, rest
<1>3. ASSUME Wait(t, [BeginFor("close", "close") EXCEPT !.pkt = CloseDatabasePacket])
      PROVE  /\ task'[t].op = "close" /\ task'[t].pkt = CloseDatabasePacket
             /\ task'[t].at = "lock" /\ task'[t].why = "close"
  <2>1. task'[t] = [BeginFor("close", "close") EXCEPT !.pkt = CloseDatabasePacket]
    BY <1>3, TaskAfter
  <2> QED
    BY <2>1 DEF BeginFor, Idle
<1>4. CASE \E c \in todo \ quiet :
             Wait(t, [Begin("close", c, CloseQueryPacket(handle[c]))
                        EXCEPT !.todo = todo \ (quiet \cup {c})])
  <2>1. PICK c \in todo \ quiet :
               Wait(t, [Begin("close", c, CloseQueryPacket(handle[c]))
                          EXCEPT !.todo = todo \ (quiet \cup {c})])
    BY <1>4
  <2>2. task'[t].cur = c
    BY <1>2, <2>1
  <2>3. /\ task'[t].op = "close" /\ task'[t].cur \in todo \ quiet
        /\ task'[t].pkt = CloseQueryPacket(handle[task'[t].cur])
        /\ task'[t].todo = todo \ (quiet \cup {task'[t].cur})
        /\ task'[t].at = "lock" /\ task'[t].why = "request"
    BY <1>2, <2>1, <2>2
  <2> QED
    BY <1>1, <2>3
<1> QED
  BY <1>1, <1>3, <1>4

(***************************************************************************)
(* What a fetch takes from a buffer and asks for: it moves on in the rows  *)
(* it was given, and asks for more at their end only.                      *)
(***************************************************************************)
TakeTo(t, op, c, rows, index) ==
  /\ result' = [result EXCEPT ![c] = Moved(result[c], rows, index)]
  /\ result[c].index <= Len(rows) => index <= Len(rows)
  /\ \/ task'[t] = Idle
     \/ /\ task'[t].op = op /\ task'[t].cur = c /\ task'[t].at = "lock"
        /\ task'[t].why = "request"
        /\ task'[t].pkt = FetchPacket(handle[c], index)
        /\ result[c].index <= Len(rows) => index = Len(rows)

\* A fetch takes the buffer up to some row.
LEMMA TakeParts ==
  ASSUME TypeInv, NEW t \in Tasks, NEW op \in {"fetchmany", "fetchall"}, NEW c \in Cursors,
         NEW rows \in Seq(Stmts \X Nat), NEW want \in Nat, Take(t, op, c, rows, want)
  PROVE  \E index \in Nat : TakeTo(t, op, c, rows, index)
<1> DEFINE available == Len(rows) - result[c].index
           take == IF op = "fetchall" THEN available ELSE Min2(available, want)
           index == result[c].index + take
           more == /\ op = "fetchall" \/ take < want
                   /\ handle[c] # None
                   /\ index < result[c].total
           left == IF op = "fetchall" THEN 0 ELSE want - take
           p == FetchPacket(handle[c], index)
           call == [Begin(op, c, p) EXCEPT !.want = left]
<1>1. result[c].index \in Nat /\ Len(rows) \in Nat
  BY DEF TypeInv, CursorsOK, ResultRecords
<1>2. index \in Nat
  BY <1>1 DEF Min2
<1>3. /\ result[c].index <= Len(rows) => index <= Len(rows)
      /\ result[c].index <= Len(rows) /\ more => index = Len(rows)
  BY <1>1 DEF Min2
<1>4. result' = [result EXCEPT ![c] = Moved(result[c], rows, index)]
  BY DEF Take
<1>5. IF more THEN Wait(t, call) ELSE Finish(t, "returned")
  BY DEF Take
<1> HIDE DEF take, index, more, left, p
<1>6. /\ call.op = op /\ call.cur = c /\ call.pkt = p
      /\ call.at = "lock" /\ call.why = "request"
  BY DEF Begin, Idle
<1> HIDE DEF call
<1>7. task'[t] = IF more THEN call ELSE Idle
  BY <1>5, TaskAfter
<1>8. p = FetchPacket(handle[c], index)
  BY DEF p
<1>9. TakeTo(t, op, c, rows, index)
  BY <1>3, <1>4, <1>6, <1>7, <1>8 DEF TakeTo
<1> QED
  BY <1>2, <1>9

(***************************************************************************)
(* The identifiers.  When execute() asks for one, the session has that of  *)
(* the cursor's statement or, reconnected, none; so has the answer.        *)
(***************************************************************************)
IdExecuted ==
  Did("PrepareAndExecute") =>
    \A s \in TheAnswer.reply.done : AsksLastRowId(s) => lastId \in {None, s}

AsksId(call) == call.op = "execute" /\ call.pkt.fc = "GetLastInsertId"

IdAsked ==
  \A t \in Tasks : AsksId(task[t]) =>
    /\ lastId \in {None, result[task[t].cur].stmt}
    /\ HasAnswer => TheAnswer.reply.id \in {None, result[task[t].cur].stmt}

IdInv == LastRowIdOwned /\ IdExecuted /\ IdAsked

\* The identifiers of cursors that run no other statement.
SameIds ==
  \A c \in Cursors :
    \/ lastrowid'[c] = None
    \/ lastrowid'[c] = lastrowid[c] /\ result'[c].stmt = result[c].stmt

\* A step of t that finds no identifier to ask for and leaves no answer unread.
LEMMA IdsKept ==
  ASSUME IdInv, Shape', NEW t \in Tasks,
         \A u \in Tasks \ {t} : IsIdle(u) /\ task'[u] = task[u],
         ~HasAnswer', SameIds, lastId' \in {lastId, None},
         AsksId(task'[t]) => /\ AsksId(task[t]) /\ task'[t].cur = task[t].cur
                             /\ result' = result
  PROVE  IdInv'
<1>1. LastRowIdOwned' /\ IdExecuted'
  BY DEF IdInv, SameIds, LastRowIdOwned, IdExecuted, Did
<1>2. \A u \in Tasks \ {t} : task'[u].op = "none"
  BY DEF IsIdle, Shape, Fits
<1>3. IdAsked'
  BY <1>2 DEF IdInv, IdAsked, AsksId
<1> QED
  BY <1>1, <1>3 DEF IdInv

\* A call begins.
LEMMA InvocationIds ==
  ASSUME TurnInv, IdInv, Shape', TypeInv', WireInv', cancels = 0, cancels' = 0,
         NEW t \in Tasks, Invocation(t), \A u \in Tasks : IsIdle(u)
  PROVE  IdInv'
<1> USE DEF NoCursorChange, cursorVars, serverVars
<1>t. TypeInv /\ CursorsOK
  BY DEF TurnInv, DataInv, TypeInv
<1>1. ~HasAnswer' /\ OthersKept(t)
  BY <1>t, EmptyStreams, InvocationTasks
<1>2. ASSUME SameIds, lastId' = lastId, ~AsksId(task'[t])
      PROVE  IdInv'
  BY <1>1, <1>2, IdsKept DEF OthersKept
<1>3. UNCHANGED <<result, lastrowid>> => SameIds
  BY DEF SameIds
<1>4. CASE \/ ConnectCall(t) \/ PingCall(t) \/ EndTranCall(t) \/ SetAutocommitCall(t)
           \/ QueryCall(t)
  <2>1. UNCHANGED <<result, lastrowid, lastId>>
    BY <1>4 DEF ConnectCall, PingCall, EndTranCall, SetAutocommitCall, QueryCall
  <2>2. task'[t].op # "execute"
    <3>1. \A call : Wait(t, call) => task'[t] = call
      BY <1>t, TaskAfter
    <3>2. CASE ConnectCall(t)
      BY <3>1, <3>2, Parts DEF ConnectCall
    <3>3. CASE PingCall(t)
      <4>1. \/ \E v : task'[t] = [Begin("ping", None, CheckCasPacket) EXCEPT !.flag = v]
            \/ task'[t] = BeginFor("ping", "connect")
        BY <3>1, <3>3, Zenon DEF PingCall
      <4> QED
        BY <4>1 DEF Begin, BeginFor, Idle
    <3>4. CASE EndTranCall(t)
      BY <3>1, <3>4, Parts DEF EndTranCall
    <3>5. CASE SetAutocommitCall(t)
      <4>1. PICK v : task'[t] = [Begin("set_autocommit", None, SetDbParameterPacket(v))
                                   EXCEPT !.flag = v]
        BY <3>1, <3>5, Zenon DEF SetAutocommitCall
      <4> QED
        BY <4>1 DEF Begin, Idle
    <3>6. CASE QueryCall(t)
      BY <3>1, <3>6, Parts DEF QueryCall
    <3> QED
      BY <1>4, <3>2, <3>3, <3>4, <3>5, <3>6
  <2> QED
    BY <1>2, <1>3, <2>1, <2>2 DEF AsksId
<1>5. CASE CloseCall(t)
  <2>1. /\ task'[t].op \in {"close", "none"}
        /\ UNCHANGED <<result, lastrowid, lastId>>
    <3>1. CASE CloseGoesOn(t, {}, cursors)
      BY <1>5, <1>t, <3>1, CloseParts DEF CloseCall, CursorsClosed
    <3>2. CASE Finish(t, "returned") /\ UNCHANGED <<cursors, cursorVars>>
      BY <1>5, <1>t, <3>2, TaskAfter, Parts DEF CloseCall
    <3> QED
      BY <1>5, <3>1, <3>2 DEF CloseCall
  <2> QED
    BY <1>2, <1>3, <2>1 DEF AsksId
<1>6. ASSUME NEW c \in Cursors, NewCursor(t, c)
      PROVE  IdInv'
  <2>1. SameIds /\ UNCHANGED <<lastId, task>>
    BY <1>6, <1>t DEF NewCursor, SameIds, CursorsOK
  <2>2. ~AsksId(task'[t])
    BY <2>1 DEF TurnInv, DataInv, Shape, Fits, IsIdle, AsksId
  <2> QED
    BY <1>2, <2>1, <2>2
<1>7. ASSUME NEW c \in Cursors, CursorCloseCall(t, c)
      PROVE  IdInv'
  <2>1. UNCHANGED <<result, lastrowid, lastId>>
    BY <1>7 DEF CursorCloseCall, CursorsClosed
  <2>2. task'[t].op # "execute"
    BY <1>7, <1>t, TaskAfter, Parts DEF CursorCloseCall
  <2> QED
    BY <1>2, <1>3, <2>1, <2>2 DEF AsksId
<1>8. ASSUME NEW c \in Cursors, ExecuteCall(t, c)
      PROVE  IdInv'
  <2>1. UNCHANGED <<result, lastrowid, lastId>>
    BY <1>8 DEF ExecuteCall
  <2> DEFINE p(s) == IF handle[c] # None THEN CloseQueryPacket(handle[c])
                     ELSE PrepareAndExecutePacket(s, autocommit)
  <2>2. PICK s : Wait(t, [Begin("execute", c, p(s)) EXCEPT !.stmts = {s}])
    BY <1>8 DEF ExecuteCall
  <2>3. p(s).fc # "GetLastInsertId"
    BY PacketFields
  <2> HIDE DEF p
  <2>4. task'[t].pkt = p(s)
    <3>1. task'[t] = [Begin("execute", c, p(s)) EXCEPT !.stmts = {s}]
      BY <1>t, <2>2, TaskAfter
    <3> QED
      BY <3>1 DEF Begin, Idle
  <2> QED
    BY <1>2, <1>3, <2>1, <2>3, <2>4 DEF AsksId
<1>9. ASSUME NEW c \in Cursors, ExecutemanyBatchCall(t, c)
      PROVE  IdInv'
  <2>1. UNCHANGED <<result, lastrowid, lastId>>
    BY <1>9 DEF ExecutemanyBatchCall
  <2>2. PICK ss, ac : Wait(t, [Begin("executemany_batch", c, BatchExecutePacket(ss, ac))
                                 EXCEPT !.stmts = ss])
    BY <1>9 DEF ExecutemanyBatchCall
  <2>3. task'[t].op = "executemany_batch"
    <3>1. task'[t] = [Begin("executemany_batch", c, BatchExecutePacket(ss, ac))
                        EXCEPT !.stmts = ss]
      BY <1>t, <2>2, TaskAfter
    <3> QED
      BY <3>1 DEF Begin, Idle
  <2> QED
    BY <1>2, <1>3, <2>1, <2>3 DEF AsksId
<1>10. ASSUME NEW c \in Cursors, FetchmanyCall(t, c) \/ FetchallCall(t, c)
       PROVE  IdInv'
  <2>1. \E op \in {"fetchmany", "fetchall"}, n \in Nat : Take(t, op, c, result[c].rows, n)
    BY <1>10, WantSizesAssumption DEF FetchmanyCall, FetchallCall
  <2>2. UNCHANGED <<lastrowid, lastId>>
    BY <1>10 DEF FetchmanyCall, FetchallCall
  <2>3. result[c].rows \in Seq(Stmts \X Nat)
    BY <1>t DEF CursorsOK, ResultRecords
  <2>4. PICK op \in {"fetchmany", "fetchall"}, index \in Nat :
               TakeTo(t, op, c, result[c].rows, index)
    BY <1>t, <2>1, <2>3, TakeParts
  <2>5. SameIds
    BY <1>t, <2>2, <2>4 DEF TakeTo, Moved, SameIds, CursorsOK
  <2>6. task'[t].op # "execute"
    BY <2>4, Parts DEF TakeTo
  <2> QED
    BY <1>2, <2>2, <2>5, <2>6 DEF AsksId
<1> QED
  BY <1>4, <1>5, <1>6, <1>7, <1>8, <1>9, <1>10 DEF Invocation

\* A task at the lock, or at the end of close().
LEMMA LockStepIds ==
  ASSUME TurnInv, IdInv, Shape', TypeInv', WireInv', cancels = 0, cancels' = 0,
         NEW t \in Tasks, LockStep(t) \/ CloseEnds(t)
  PROVE  IdInv'
<1> USE DEF NoCursorChange, cursorVars, serverVars
<1>t. TypeInv /\ Shape /\ Alone /\ task[t] \in TaskRecords
  BY DEF TurnInv, DataInv, TypeInv, CallsOK
<1>1. /\ \A u \in Tasks \ {t} : IsIdle(u) /\ task'[u] = task[u]
      /\ ~HasAnswer'
  BY <1>t, StepsAlone, TaskStepKinds, EmptyStreams
<1>2. UNCHANGED <<result, lastrowid>>
  BY DEF LockStep, SendRequest, CheckReconnect, Reconnected, AlreadyConnected,
         StartHandshake, ConnectEnds, PingDrop, CloseEnds
<1>3. lastId' \in {lastId, None}
  <2>1. SessionOpens \/ SessionEnds \/ UNCHANGED serverVars
    BY DEF LockStep, SendRequest, CheckReconnect, Reconnected, AlreadyConnected,
           StartHandshake, ConnectEnds, PingDrop, CloseEnds, HandshakeOk, HandshakeFails,
           Disconnect
  <2> QED
    BY <2>1 DEF SessionOpens, SessionEnds
<1>4. \/ \E at \in {"read", "connect"} : task'[t] = At(task[t], at)
      \/ task'[t] = Idle \/ task'[t] = BeginFor("ping", "connect")
  BY <1>t, TaskAfter, Zenon
     DEF LockStep, SendRequest, CheckReconnect, Reconnected, AlreadyConnected,
         StartHandshake, ConnectEnds, PingDrop, CloseEnds, Write
<1>5. AsksId(task'[t]) => AsksId(task[t]) /\ task'[t].cur = task[t].cur
  BY <1>t, <1>4, AtType, Parts DEF AsksId
<1> QED
  BY <1>1, <1>2, <1>3, <1>5, IdsKept DEF SameIds

\* A reply that changes no cursor, or the handles only, or the rows.
LEMMA ReplyIds ==
  ASSUME TurnInv, IdInv, Shape', TypeInv', WireInv', cancels = 0, cancels' = 0,
         NEW t \in Tasks, Replying(t)
  PROVE  IdInv'
<1> USE DEF NoCursorChange, cursorVars
<1>t. TypeInv /\ CursorsOK /\ Shape /\ Alone /\ task[t] \in TaskRecords
  BY DEF TurnInv, DataInv, TypeInv, CallsOK
<1>1. /\ \A u \in Tasks \ {t} : IsIdle(u) /\ task'[u] = task[u]
      /\ ~HasAnswer'
  BY <1>t, StepsAlone, TaskStepKinds, EmptyStreams
<1>a. /\ \A call : Wait(t, call) => task'[t] = call
      /\ \A st : Finish(t, st) => task'[t] = Idle
  BY <1>t, TaskAfter
<1>2. ASSUME SameIds, NEW r \in PossibleReplies(t), SendAndReceive(t, r),
             ~AsksId(task'[t])
      PROVE  IdInv'
  BY <1>1, <1>2, ExchangeReads, IdsKept
<1>3. UNCHANGED <<result, lastrowid>> => SameIds
  BY DEF SameIds
<1>4. CASE \/ PingReply(t) \/ EndTranReply(t) \/ SetAutocommitReply(t) \/ QueryReply(t)
           \/ CloseCursorReply(t) \/ CursorCloseReply(t)
  <2>1. PICK r \in PossibleReplies(t) : SendAndReceive(t, r)
    BY <1>4, Zenon DEF PingReply, EndTranReply, SetAutocommitReply, QueryReply,
                       CloseCursorReply, CursorCloseReply
  <2>2. UNCHANGED <<result, lastrowid>>
    BY <1>4 DEF PingReply, EndTranReply, SetAutocommitReply, QueryReply,
                CloseCursorReply, CursorCloseReply, CursorsClosed, CloseGoesOn
  <2>3. task'[t].op # "execute"
    <3>1. CASE PingReply(t)
      <4>1. Wait(t, BeginFor("ping", "drop")) \/ \E st : Finish(t, st)
        BY <1>t, <3>1, PingGoesOn
      <4> QED
        BY <1>a, <4>1, Parts
    <3>2. CASE EndTranReply(t) \/ QueryReply(t) \/ CursorCloseReply(t)
      BY <1>a, <3>2, Parts DEF EndTranReply, QueryReply, CursorCloseReply
    <3>3. CASE SetAutocommitReply(t)
      <4>1. \/ \E st : Finish(t, st)
            \/ Wait(t, [task[t] EXCEPT !.pkt = CommitPacket, !.at = "lock"])
        BY <3>3, Zenon DEF SetAutocommitReply
      <4>2. task[t].op = "set_autocommit"
        BY <3>3 DEF SetAutocommitReply
      <4> QED
        BY <1>a, <1>t, <4>1, <4>2, Parts DEF TaskRecords
    <3>4. CASE CloseCursorReply(t)
      BY <1>t, <3>4, CloseParts DEF CloseCursorReply
    <3> QED
      BY <1>4, <3>1, <3>2, <3>3, <3>4
  <2> QED
    BY <1>2, <1>3, <2>1, <2>2, <2>3 DEF AsksId
<1>5. CASE ExecuteCloseReply(t)
  <2>1. PICK r \in PossibleReplies(t) :
          /\ SendAndReceive(t, r)
          /\ \/ \E st : Finish(t, st)
             \/ \E s : Wait(t, [task[t] EXCEPT !.at = "lock",
                                   !.pkt = PrepareAndExecutePacket(s, autocommit)])
    BY <1>5, Zenon DEF ExecuteCloseReply
  <2>2. task'[t].pkt.fc # "GetLastInsertId"
    <3>1. \/ task'[t] = Idle
          \/ \E s : task'[t] = [task[t] EXCEPT !.at = "lock",
                                  !.pkt = PrepareAndExecutePacket(s, autocommit)]
      BY <1>a, <2>1
    <3>2. ASSUME NEW s, task'[t] = [task[t] EXCEPT !.at = "lock",
                                      !.pkt = PrepareAndExecutePacket(s, autocommit)]
          PROVE  task'[t].pkt.fc # "GetLastInsertId"
      <4> DEFINE p == PrepareAndExecutePacket(s, autocommit)
      <4>1. p.fc # "GetLastInsertId"
        BY PacketFields
      <4> HIDE DEF p
      <4>2. task'[t].pkt = p
        BY <1>t, <3>2 DEF p, TaskRecords
      <4> QED
        BY <4>1, <4>2
    <3> QED
      BY <3>1, <3>2, Parts, PacketFields
  <2>3. UNCHANGED <<result, lastrowid>>
    BY <1>5 DEF ExecuteCloseReply
  <2> QED
    BY <1>2, <1>3, <2>1, <2>2, <2>3 DEF AsksId
<1>6. CASE ExecutemanyBatchReply(t)
  <2>1. task[t].cur \in Cursors
    BY <1>6, <1>t DEF ExecutemanyBatchReply, TypeInv, CallsOK, TaskHasCursor, CursorOps
  <2>2. PICK r \in PossibleReplies(t) :
          /\ SendAndReceive(t, r)
          /\ \E st : Finish(t, st)
          /\ \/ result' = [result EXCEPT ![task[t].cur] = WithoutRows(result[task[t].cur])]
             \/ UNCHANGED result
    BY <1>6 DEF ExecutemanyBatchReply
  <2>3. UNCHANGED lastrowid
    BY <1>6 DEF ExecutemanyBatchReply
  <2>4. SameIds
    BY <1>t, <2>1, <2>2, <2>3 DEF SameIds, WithoutRows, CursorsOK
  <2> QED
    BY <1>2, <1>a, <2>2, <2>4, Parts DEF AsksId
<1>7. CASE FetchReply(t)
  <2> DEFINE c == task[t].cur
  <2>1. c \in Cursors /\ task[t].op \in {"fetchmany", "fetchall"} /\ task[t].want \in Nat
    BY <1>7, <1>t
       DEF FetchReply, TypeInv, CallsOK, TaskHasCursor, CursorOps, TaskRecords
  <2>2. PICK r \in PossibleReplies(t) :
          /\ SendAndReceive(t, r)
          /\ \/ Take(t, task[t].op, c, result[c].rows \o r.rows, task[t].want)
             \/ (\E st : Finish(t, st)) /\ UNCHANGED result
    BY <1>7 DEF FetchReply
  <2>3. UNCHANGED lastrowid
    BY <1>7 DEF FetchReply
  <2>4. result[c].rows \o r.rows \in Seq(Stmts \X Nat)
    <3>1. r \in Replies
      BY <1>t, RepliesIn DEF TypeInv
    <3> QED
      BY <1>t, <2>1, <3>1 DEF CursorsOK, ResultRecords, Replies
  <2>5. CASE Take(t, task[t].op, c, result[c].rows \o r.rows, task[t].want)
    <3>1. PICK index \in Nat : TakeTo(t, task[t].op, c, result[c].rows \o r.rows, index)
      BY <1>t, <2>1, <2>4, <2>5, TakeParts
    <3>2. SameIds
      BY <1>t, <2>1, <2>3, <3>1 DEF TakeTo, Moved, SameIds, CursorsOK
    <3>3. task'[t].op # "execute"
      BY <2>1, <3>1, Parts DEF TakeTo
    <3> QED
      BY <1>2, <2>2, <3>2, <3>3 DEF AsksId
  <2>6. CASE (\E st : Finish(t, st)) /\ UNCHANGED result
    BY <1>2, <1>3, <1>a, <2>2, <2>3, <2>6, Parts DEF AsksId
  <2> QED
    BY <2>2, <2>5, <2>6
<1>8. CASE ExecuteReply(t)
  <2> DEFINE c == task[t].cur
  <2>1. c \in Cursors /\ task[t].op = "execute" /\ task[t].pkt.fc = "PrepareAndExecute"
    BY <1>8, <1>t DEF ExecuteReply, TypeInv, CallsOK, TaskHasCursor, CursorOps
  <2>2. PICK r \in PossibleReplies(t) :
          /\ SendAndReceive(t, r)
          /\ \/ r.st = "ok" /\ \E s \in r.done :
                   /\ result' = [result EXCEPT ![c] = ResultOf(s, r.rows)]
                   /\ lastrowid' = [lastrowid EXCEPT ![c] = None]
                   /\ IF AsksLastRowId(s)
                      THEN Wait(t, [task[t] EXCEPT !.at = "lock",
                                                   !.pkt = GetLastInsertIdPacket])
                      ELSE Finish(t, "returned")
             \/ Finish(t, "raised") /\ UNCHANGED <<result, lastrowid>>
    BY <1>8, Zenon DEF ExecuteReply
  <2>3. CASE Finish(t, "raised") /\ UNCHANGED <<result, lastrowid>>
    BY <1>2, <1>3, <1>a, <2>2, <2>3, Parts DEF AsksId
  <2>4. ASSUME r.st = "ok", NEW s \in r.done,
               result' = [result EXCEPT ![c] = ResultOf(s, r.rows)],
               lastrowid' = [lastrowid EXCEPT ![c] = None],
               IF AsksLastRowId(s)
               THEN Wait(t, [task[t] EXCEPT !.at = "lock", !.pkt = GetLastInsertIdPacket])
               ELSE Finish(t, "returned")
        PROVE  IdInv'
    <3>1. SameIds /\ result'[c].stmt = s
      BY <1>t, <2>1, <2>4 DEF SameIds, ResultOf, CursorsOK
    <3>2. CASE ~AsksLastRowId(s)
      <4>1. task'[t] = Idle
        BY <1>a, <2>4, <3>2
      <4> QED
        BY <1>2, <2>2, <3>1, <4>1, Parts DEF AsksId
    <3>3. CASE AsksLastRowId(s)
      <4>1. Did("PrepareAndExecute") /\ r = TheAnswer.reply /\ lastId' = lastId
        BY <2>1, <2>2, <2>4, ExchangeReads DEF Did
      <4>2. lastId' \in {None, s}
        BY <2>4, <3>3, <4>1 DEF IdInv, IdExecuted
      <4>3. task'[t].cur = c
        BY <1>t, <1>a, <2>4, <3>3 DEF TaskRecords
      <4>4. \A u \in Tasks \ {t} : task'[u].op = "none"
        BY <1>1, <1>t DEF IsIdle, Shape, Fits
      <4>5. IdAsked'
        BY <1>1, <3>1, <4>2, <4>3, <4>4 DEF IdAsked, AsksId
      <4>6. LastRowIdOwned' /\ IdExecuted'
        BY <1>1, <3>1 DEF IdInv, SameIds, LastRowIdOwned, IdExecuted, Did
      <4> QED
        BY <4>5, <4>6 DEF IdInv
    <3> QED
      BY <3>2, <3>3
  <2> QED
    BY <2>2, <2>3, <2>4
<1>9. CASE LastRowIdReply(t)
  <2> DEFINE c == task[t].cur
  <2>1. c \in Cursors /\ AsksId(task[t])
    BY <1>9, <1>t
       DEF LastRowIdReply, TypeInv, CallsOK, TaskHasCursor, CursorOps, AsksId
  <2>2. PICK r \in PossibleReplies(t) :
          /\ SendAndReceive(t, r)
          /\ lastrowid' \in {lastrowid, [lastrowid EXCEPT ![c] = r.id]}
          /\ \E st : Finish(t, st)
    BY <1>9 DEF LastRowIdReply
  <2>3. r.id \in {None, result[c].stmt}
    <3>1. r.st # "ok" => r.id = None
      BY <2>2, ExchangeReads
    <3>2. r.st = "ok" => HasAnswer /\ r = TheAnswer.reply
      BY <2>1, <2>2, ExchangeReads DEF AsksId
    <3> QED
      BY <2>1, <3>1, <3>2 DEF IdInv, IdAsked
  <2>4. UNCHANGED result
    BY <1>9 DEF LastRowIdReply
  <2>5. LastRowIdOwned'
    BY <1>t, <2>1, <2>2, <2>3, <2>4 DEF IdInv, LastRowIdOwned, CursorsOK
  <2>6. \A u \in Tasks : ~AsksId(task'[u])
    <3>1. task'[t].op = "none"
      BY <1>a, <2>2, Parts
    <3>2. \A u \in Tasks \ {t} : task'[u].op = "none"
      BY <1>1, <1>t DEF IsIdle, Shape, Fits
    <3> QED
      BY <3>1, <3>2 DEF AsksId
  <2> QED
    BY <1>1, <2>5, <2>6 DEF IdInv, IdExecuted, IdAsked, Did
<1> QED
  BY <1>4, <1>5, <1>6, <1>7, <1>8, <1>9 DEF Replying

\* A session that answers: whose request it was, what is now in the streams.
LEMMA Answering ==
  ASSUME TurnInv, cancels = 0, ServerAnswers
  PROVE  \E t \in Tasks : \E o \in Outcomes(task[t].pkt) :
           /\ task[t].pkt \in Packets /\ owner = t /\ connected
           /\ Serve(o)
           /\ ~HasAnswer /\ HasAnswer'
           /\ TheAnswer'.fc = task[t].pkt.fc /\ TheAnswer'.reply = o.reply
<1> USE TasksAssumption
<1> DEFINE p == Head(requests)
<1>t. TypeInv /\ WireInv
  BY DEF TurnInv, DataInv
<1>1. PICK o \in Outcomes(p) :
        /\ Serve(o)
        /\ \E status \in StatusAfter(o) :
             responses' = Append(responses, [fc |-> p.fc, reply |-> o.reply,
                                             status |-> status])
  BY DEF ServerAnswers
<1>2. PICK status :
        responses' = Append(responses, [fc |-> p.fc, reply |-> o.reply, status |-> status])
  BY <1>1
<1> DEFINE m == [fc |-> p.fc, reply |-> o.reply, status |-> status]
<1>3. p \in Packets /\ requests # <<>>
  BY <1>t DEF ServerAnswers, TypeInv, WireOK
<1>4. owner # None /\ p = task[owner].pkt /\ responses = <<>> /\ connected
  <2>1. Len(requests) + Len(responses) <= 1
    BY <1>t DEF WireInv, ResponsesMatch
  <2>2. requests \in Seq(Packets) /\ responses \in Seq(Answered)
    BY <1>t DEF TypeInv, WireOK
  <2>3. responses = <<>>
    BY <1>3, <2>1, <2>2
  <2> QED
    BY <1>t, <1>3, <2>3 DEF WireInv, ResponsesMatch, StreamInv
<1> HIDE DEF p
<1>5. m.fc = p.fc /\ m.reply = o.reply
  OBVIOUS
<1>6. responses' = Append(<<>>, m)
  BY <1>2, <1>4
<1> HIDE DEF m
<1>7. responses' = <<m>> /\ <<m>> # <<>> /\ Head(<<m>>) = m
  BY <1>6
<1>8. HasAnswer' /\ TheAnswer' = m /\ ~HasAnswer
  BY <1>4, <1>7 DEF HasAnswer, TheAnswer
<1>9. owner \in Tasks
  BY <1>t, <1>4 DEF TypeInv, CallsOK
<1> QED
  BY <1>1, <1>3, <1>4, <1>5, <1>8, <1>9

\* The server answers: the identifier goes into the response.
LEMMA ServerIds ==
  ASSUME TurnInv, IdInv, cancels = 0, ServerAnswers
  PROVE  IdInv'
<1>1. PICK t \in Tasks : \E o \in Outcomes(task[t].pkt) :
           /\ task[t].pkt \in Packets /\ owner = t /\ connected
           /\ Serve(o)
           /\ ~HasAnswer /\ HasAnswer'
           /\ TheAnswer'.fc = task[t].pkt.fc /\ TheAnswer'.reply = o.reply
  BY Answering
<1>2. PICK o \in Outcomes(task[t].pkt) :
           /\ Serve(o)
           /\ TheAnswer'.fc = task[t].pkt.fc /\ TheAnswer'.reply = o.reply
  BY <1>1
<1> DEFINE p == task[t].pkt
<1>3. lastId' = o.lastId /\ UNCHANGED <<task, result, lastrowid>>
  BY <1>2 DEF Serve, ServerAnswers, cursorVars
<1>4. p \in Packets /\ TheAnswer'.fc = p.fc /\ o \in Outcomes(p)
  BY <1>1, <1>2
<1> HIDE DEF p
<1>5. LastRowIdOwned'
  BY <1>3 DEF IdInv, LastRowIdOwned
<1>6. IdExecuted'
  <2> SUFFICES ASSUME p.fc = "PrepareAndExecute", o.reply.st = "ok"
               PROVE  \A s \in o.reply.done : AsksLastRowId(s) => lastId' = s
    BY <1>2, <1>4 DEF IdExecuted, Did
  <2>1. PICK s : o.reply.done = {s} /\ (Kind[s] = "insert" => o.lastId = s)
    <3>1. \E s \in p.stmts, h \in FreeHandles, n \in Nat :
            /\ o.open = [open EXCEPT ![h] = s]
            /\ o.reply.h = h
            /\ o.reply.rows = RowsOf(s, 1, n)
            /\ o.reply.done = {s}
            /\ Kind[s] = "insert" => o.lastId = s
      BY <1>4, ExecuteAnswer
    <3> QED
      BY <3>1, Zenon
  <2> QED
    BY <1>3, <2>1 DEF AsksLastRowId
<1>7. IdAsked'
  <2> SUFFICES ASSUME NEW u \in Tasks, AsksId(task[u])
               PROVE  /\ lastId' \in {None, result[task[u].cur].stmt}
                      /\ o.reply.id \in {None, result[task[u].cur].stmt}
    BY <1>2, <1>3 DEF IdAsked, AsksId
  <2>1. lastId \in {None, result[task[u].cur].stmt}
    BY DEF IdInv, IdAsked
  <2>2. u = t
    <3>1. ~IsIdle(t)
      BY <1>1, TasksAssumption DEF TurnInv, DataInv, TypeInv, CallsOK, LockKept, IsIdle
    <3>2. ~IsIdle(u)
      BY DEF TurnInv, DataInv, Shape, Fits, AsksId, IsIdle
    <3> QED
      BY <3>1, <3>2 DEF TurnInv, Alone
  <2>3. p.fc = "GetLastInsertId"
    BY <2>2 DEF AsksId, p
  <2>4. o.reply.id \in {None, lastId} /\ o.lastId = lastId
    BY <1>4, <2>3, LastIdAnswer
  <2> QED
    BY <1>3, <2>1, <2>4
<1> QED
  BY <1>5, <1>6, <1>7 DEF IdInv

\* Every step keeps IdInv.
LEMMA IdStep ==
  ASSUME TurnInv, IdInv, Shape', TypeInv', WireInv', cancels = 0, cancels' = 0,
         [Next]_vars, [OneAtATime]_vars
  PROVE  IdInv'
<1> USE DEF vars, serverVars, transportVars, cursorVars
<1>1. CASE UNCHANGED vars
  BY <1>1 DEF IdInv, LastRowIdOwned, IdExecuted, IdAsked, AsksId, Did, HasAnswer, TheAnswer
<1>2. CASE SessionLost
  <2>1. /\ lastId' = lastId /\ UNCHANGED <<task, result, lastrowid>>
        /\ responses' \in {responses, <<>>}
    BY <1>2 DEF SessionLost, SessionEnds
  <2> QED
    BY <2>1
       DEF IdInv, LastRowIdOwned, IdExecuted, IdAsked, AsksId, Did, HasAnswer, TheAnswer
<1>3. ASSUME NEW t \in Tasks, Invocation(t), ~UNCHANGED vars
      PROVE  IdInv'
  BY <1>3, InvocationIds DEF OneAtATime
<1>4. ASSUME NEW t \in Tasks, TaskStep(t)
      PROVE  IdInv'
  BY <1>4, TaskStepKinds, LockStepIds, ReplyIds
<1>5. ASSUME NEW t \in Tasks, Cancel(t)
      PROVE  FALSE
  BY <1>5 DEF Cancel, TurnInv, DataInv, TypeInv, HistoryOK
<1> QED
  BY <1>1, <1>2, <1>3, <1>4, <1>5, ServerIds DEF Next

\* LastRowIdOwned, for any tasks, cursors and calls, in every behaviour in
\* which no call is cancelled and none begins while another is under way: the
\* identifier execute() stores is that of its own INSERT, whatever failures and
\* silent reconnects come between the INSERT and the question.  It says nothing
\* of the INSERTs of a batch: executemany_batch() leaves lastrowid as it was.
THEOREM LastRowIdIsOwned == Spec /\ [](cancels = 0) /\ TakeTurns => []LastRowIdOwned
<1>1. Init => IdInv
  BY Parts DEF Init, ServerInit, IdInv, LastRowIdOwned, IdExecuted, IdAsked, AsksId, Did,
               HasAnswer
<1>2. TurnInv /\ TurnInv' /\ IdInv /\ cancels = 0 /\ (cancels = 0)' /\ [Next]_vars
      /\ [OneAtATime]_vars => IdInv'
  BY IdStep DEF TurnInv, DataInv
<1>3. IdInv => LastRowIdOwned
  BY DEF IdInv
<1> QED
  BY <1>1, <1>2, <1>3, TurnInvariant, PTL DEF Spec, TakeTurns

(***************************************************************************)
(* Part 4.  The rows, when tasks take turns.  Unless the application calls *)
(* connect() or set_autocommit(), which leave handles the server has freed *)
(* in the cursors, the handle a cursor holds stands for its statement as   *)
(* long as the session lives, or until the answer that says otherwise is   *)
(* read (Loses).                                                           *)
(***************************************************************************)
AutocommitFixed == Api \cap {"connect", "set_autocommit"} = {}

NoneHeld == \A c \in Cursors : handle[c] = None

\* The session has freed the handle of c, and the driver has not read so yet.
Loses(c) ==
  \/ Did("Commit") \/ Did("Rollback") \/ Did("CloseDatabase")
  \/ Did("CloseQuery") /\ \E t \in Tasks : owner = t /\ task[t].cur = c

HandleState ==
  /\ ~up => open = NoHandles
  /\ connected /\ up =>
       \A c \in Cursors : handle[c] # None =>
         /\ Loses(c) \/ open[handle[c]] = result[c].stmt
         /\ \A d \in Cursors : handle[d] = handle[c] => d = c
  /\ \A c \in Cursors : handle[c] # None => result[c].stmt \in Stmts

Tracked ==
  /\ \A c \in Cursors : ~closed[c] => c \in cursors
  /\ \A c \in Cursors \ cursors : handle[c] = None

\* A call's request is for the handle its cursor holds, or for one that is
\* forgotten on both sides; a FETCH asks for the row after the last one.
Right(call) ==
  /\ call.op \in Api \cup {"none"}
  /\ call.op \in CursorOps \/ (call.op = "close" /\ call.pkt.fc = "CloseQuery")
       => call.cur \in cursors
  /\ call.op = "close" /\ call.pkt.fc = "CloseQuery"
       => call.cur \notin call.todo /\ call.todo \subseteq cursors
  /\ call.pkt.fc \in {"CloseQuery", "Fetch"}
       => call.pkt.h = handle[call.cur] \/ (NoneHeld /\ open = NoHandles)
  /\ call.pkt.fc = "PrepareAndExecute" => handle[call.cur] = None
  /\ call.pkt.fc = "Fetch" => call.pkt.from = Len(result[call.cur].rows) + 1
  /\ call.at = "connect" \/ call.why = "connect" => NoneHeld

AnswerRows ==
  /\ Did("PrepareAndExecute") =>
       \E s \in Stmts, n \in Nat :
         /\ TheAnswer.reply.done = {s} /\ TheAnswer.reply.rows = RowsOf(s, 1, n)
         /\ TheAnswer.reply.h \in Handles
         /\ up => /\ open[TheAnswer.reply.h] = s
                  /\ \A c \in Cursors : handle[c] # TheAnswer.reply.h
  /\ Did("Fetch") =>
       \A t \in Tasks : owner = t =>
         \E k \in Nat :
           TheAnswer.reply.rows = RowsOf(result[task[t].cur].stmt, task[t].pkt.from, k)

Buffers ==
  /\ RowsOwned
  /\ \A c \in Cursors : result[c].index <= Len(result[c].rows)

RowInv ==
  /\ HandleState /\ Tracked /\ AnswerRows /\ Buffers
  /\ \A t \in Tasks : Right(task[t])

\* A call that is not of the cursors, and has nothing to do with handles.
LEMMA RightOther ==
  ASSUME NEW call, call.op \in Api \cup {"none"}, call.op \notin CursorOps,
         call.pkt.fc \notin {"CloseQuery", "Fetch", "PrepareAndExecute"},
         call.at # "connect", call.why # "connect" \/ NoneHeld
  PROVE  Right(call)
  BY DEF Right

\* The task that makes a step is right after it, and the others are idle.
LEMMA AllRight ==
  ASSUME TurnInv', NEW t \in Tasks, \A u \in Tasks \ {t} : IsIdle(u) /\ task'[u] = task[u],
         Right(task[t])'
  PROVE  \A u \in Tasks : Right(task[u])'
<1> SUFFICES ASSUME NEW u \in Tasks \ {t}
             PROVE  Right(task[u])'
  OBVIOUS
<1>1. task'[u].at = "idle"
  BY DEF IsIdle
<1>2. Fits(task[u])'
  BY DEF TurnInv, DataInv, Shape
<1>3. task'[u].op = "none" /\ task'[u].pkt.fc = "None" /\ task'[u].why # "connect"
  BY <1>1, <1>2 DEF Fits, FcsOf
<1> QED
  BY <1>1, <1>3 DEF Right, CursorOps

\* A step that leaves no answer unread, gives no cursor a handle and takes
\* none from one in the session.
LEMMA RowsKept ==
  ASSUME TurnInv', HandleState, NEW t \in Tasks,
         \A u \in Tasks \ {t} : IsIdle(u) /\ task'[u] = task[u],
         ~HasAnswer', Tracked', Buffers', Right(task[t])',
         ~up' => open' = NoHandles,
         NoneHeld' \/ (connected' /\ up' => connected /\ up /\ open' = open),
         \A c \in Cursors :
           \/ handle'[c] = None
           \/ /\ handle'[c] = handle[c] /\ result'[c].stmt = result[c].stmt
              /\ connected' /\ up' => ~Loses(c)
  PROVE  RowInv'
<1>1. HandleState'
  BY DEF HandleState, NoneHeld
<1>2. AnswerRows'
  BY DEF AnswerRows, Did
<1> QED
  BY <1>1, <1>2, AllRight DEF RowInv

\* Buffers that are kept or emptied.
LEMMA SameBuffers ==
  ASSUME Buffers,
         \A c \in Cursors :
           \/ result'[c].rows = result[c].rows /\ result'[c].stmt = result[c].stmt
              /\ result'[c].index = result[c].index
           \/ result'[c].rows = <<>> /\ result'[c].index = 0
  PROVE  Buffers'
<1>1. \A s : RowsOf(s, 1, Len(<<>>)) = <<>>
  BY DEF RowsOf
<1> QED
  BY <1>1 DEF Buffers, RowsOwned

\* _invalidate_query_handles leaves no handle in any cursor.
LEMMA Invalidates ==
  ASSUME Tracked, handle' = Invalidated
  PROVE  /\ NoneHeld' /\ \A c \in Cursors : handle'[c] = None
         /\ UNCHANGED <<cursors, closed>> => Tracked'
  BY DEF Tracked, Invalidated, NoneHeld

\* Cursors are closed: they lose their handles and nothing else.
LEMMA ClosedTracked ==
  ASSUME Tracked, CursorsOK, NEW gone, CursorsClosed(gone)
  PROVE  /\ Tracked' /\ result' = result /\ cursors' = cursors \ gone
         /\ \A c \in Cursors : handle'[c] = IF c \in gone THEN None ELSE handle[c]
  BY DEF Tracked, CursorsClosed, CursorsOK

\* A fetch takes from the first rows of the statement.
LEMMA TakeBuffers ==
  ASSUME CursorsOK, Buffers, NEW t \in Tasks, NEW op, NEW c \in Cursors, NEW rows,
         NEW index \in Nat, TakeTo(t, op, c, rows, index),
         rows = RowsOf(result[c].stmt, 1, Len(rows)), Len(rows) \in Nat,
         result[c].index <= Len(rows)
  PROVE  /\ Buffers' /\ \A d \in Cursors : result'[d].stmt = result[d].stmt
         /\ \/ task'[t] = Idle
            \/ /\ task'[t].op = op /\ task'[t].cur = c /\ task'[t].at = "lock"
               /\ task'[t].why = "request" /\ task'[t].pkt.fc = "Fetch"
               /\ task'[t].pkt.h = handle[c]
               /\ task'[t].pkt.from = Len(result'[c].rows) + 1
<1>1. /\ result'[c].rows = rows /\ result'[c].stmt = result[c].stmt
      /\ result'[c].index = index
      /\ \A d \in Cursors \ {c} : result'[d] = result[d]
  BY DEF TakeTo, Moved, CursorsOK
<1>2. index <= Len(rows)
  BY DEF TakeTo
<1>3. Buffers'
  BY <1>1, <1>2 DEF Buffers, RowsOwned
<1> QED
  BY <1>1, <1>3, PacketFields DEF TakeTo

\* The calls.
LEMMA InvocationRows ==
  ASSUME AutocommitFixed, TurnInv, RowInv, TurnInv', cancels = 0, cancels' = 0,
         NEW t \in Tasks, Invocation(t), \A u \in Tasks : IsIdle(u)
  PROVE  RowInv'
<1> USE DEF NoCursorChange, cursorVars, serverVars, transportVars
<1>t. /\ TypeInv /\ CursorsOK /\ HandleState /\ Tracked /\ Buffers /\ Right(task[t])
      /\ TypeInv' /\ WireInv'
  BY DEF TurnInv, DataInv, TypeInv, RowInv
<1>1. ~HasAnswer /\ ~HasAnswer' /\ OthersKept(t) /\ UNCHANGED <<up, connected>>
  BY <1>t, EmptyStreams, InvocationTasks
<1>2. \A c : ~Loses(c)
  BY <1>1 DEF Loses, Did
<1>3. ASSUME open' = open, Tracked', Buffers', Right(task[t])',
             \A c \in Cursors : \/ handle'[c] = None
                                \/ handle'[c] = handle[c] /\ result'[c].stmt = result[c].stmt
      PROVE  RowInv'
  BY <1>t, <1>1, <1>2, <1>3, RowsKept DEF OthersKept, HandleState
<1>4. UNCHANGED <<cursors, closed, handle>> => Tracked'
  BY <1>t DEF Tracked
<1>5. UNCHANGED result => Buffers'
  BY <1>t, SameBuffers
<1>6. ASSUME NEW call, Right(call)', UNCHANGED <<open, cursors, closed, handle, result>>,
             Wait(t, call)
      PROVE  RowInv'
  <2>1. task'[t] = call
    BY <1>t, <1>6, TaskAfter
  <2> QED
    BY <1>3, <1>4, <1>5, <1>6, <2>1
<1>7. CASE ConnectCall(t) \/ SetAutocommitCall(t)
  BY <1>7 DEF AutocommitFixed, ConnectCall, SetAutocommitCall, Invoke
<1>8. CASE PingCall(t)
  <2>1. "ping" \in Api
    BY <1>8 DEF PingCall, Invoke
  <2>2. \/ /\ \E v : Wait(t, [Begin("ping", None, CheckCasPacket) EXCEPT !.flag = v])
           /\ handle' = handle
        \/ Wait(t, BeginFor("ping", "connect")) /\ handle' = Invalidated
    BY <1>8 DEF PingCall
  <2>3. UNCHANGED <<open, cursors, closed, result>>
    BY <1>8 DEF PingCall
  <2>4. Tracked'
    BY <1>t, <1>4, <2>2, <2>3, Invalidates
  <2>5. Right(task[t])'
    <3>1. ASSUME NEW v, Wait(t, [Begin("ping", None, CheckCasPacket) EXCEPT !.flag = v])
          PROVE  Right(task[t])'
      <4>1. task'[t] = [Begin("ping", None, CheckCasPacket) EXCEPT !.flag = v]
        BY <1>t, <3>1, TaskAfter
      <4>2. /\ task'[t].op = "ping" /\ task'[t].pkt = CheckCasPacket
            /\ task'[t].at = "lock" /\ task'[t].why = "request"
        BY <4>1 DEF Begin, Idle
      <4> QED
        BY <2>1, <4>2, PacketFields DEF Right, CursorOps
    <3>2. CASE Wait(t, BeginFor("ping", "connect")) /\ handle' = Invalidated
      <4>1. task'[t] = BeginFor("ping", "connect")
        BY <1>t, <3>2, TaskAfter
      <4>2. NoneHeld'
        BY <1>t, <3>2, Invalidates
      <4> QED
        BY <2>1, <4>1, <4>2, Parts, PacketFields DEF Right, CursorOps
    <3> QED
      BY <2>2, <3>1, <3>2
  <2> QED
    BY <1>t, <1>3, <1>5, <2>2, <2>3, <2>4, <2>5, Invalidates
<1>9. CASE EndTranCall(t) \/ QueryCall(t)
  <2>1. PICK op, p :
          /\ op \in Api /\ Wait(t, Begin(op, None, p)) /\ op \notin CursorOps
          /\ p.fc \notin {"CloseQuery", "Fetch", "PrepareAndExecute"} /\ op # "close"
    BY <1>9, PacketFields DEF EndTranCall, QueryCall, Invoke, CursorOps
  <2>2. Right(Begin(op, None, p))'
    BY <2>1, Parts DEF Right
  <2>3. UNCHANGED <<open, cursors, closed, handle, result>>
    BY <1>9 DEF EndTranCall, QueryCall
  <2> QED
    BY <1>6, <2>1, <2>2, <2>3
<1>10. CASE CloseCall(t)
  <2>1. CASE CloseGoesOn(t, {}, cursors)
    <3>1. PICK quiet \in SUBSET cursors :
             /\ CursorsClosed({} \cup quiet)
             /\ task'[t].op = "close"
             /\ \/ /\ task'[t].cur \in cursors \ quiet
                   /\ task'[t].pkt = CloseQueryPacket(handle[task'[t].cur])
                   /\ task'[t].todo = cursors \ (quiet \cup {task'[t].cur})
                   /\ task'[t].at = "lock" /\ task'[t].why = "request"
                \/ /\ task'[t].pkt = CloseDatabasePacket
                   /\ task'[t].at = "lock" /\ task'[t].why = "close"
      BY <1>10, <1>t, <2>1, CloseParts DEF CloseCall
    <3>2. CursorsClosed(quiet) /\ "close" \in Api /\ open' = open
      BY <1>10, <3>1 DEF CloseCall, Invoke
    <3>3. /\ Tracked' /\ result' = result /\ cursors' = cursors \ quiet
          /\ \A c \in Cursors : handle'[c] = IF c \in quiet THEN None ELSE handle[c]
      BY <1>t, <3>2, ClosedTracked
    <3>4. Right(task[t])'
      BY <1>t, <3>1, <3>2, <3>3, PacketFields DEF Right, CursorOps, CursorsOK
    <3> QED
      BY <1>3, <1>5, <3>2, <3>3, <3>4
  <2>2. CASE Finish(t, "returned") /\ UNCHANGED <<cursors, cursorVars>>
    <3>1. task'[t] = Idle
      BY <1>t, <2>2, TaskAfter
    <3>2. Right(task[t])'
      BY <3>1, Parts, PacketFields DEF Right, CursorOps
    <3> QED
      BY <1>3, <1>4, <1>5, <1>10, <2>2, <3>2 DEF CloseCall
  <2> QED
    BY <1>10, <2>1, <2>2 DEF CloseCall
<1>11. ASSUME NEW c \in Cursors, NewCursor(t, c)
       PROVE  RowInv'
  <2>1. /\ open' = open /\ task' = task /\ cursors' = cursors \cup {c}
        /\ \A d \in Cursors : closed'[d] = IF d = c THEN FALSE ELSE closed[d]
        /\ \A d \in Cursors : handle'[d] = IF d = c THEN None ELSE handle[d]
        /\ \A d \in Cursors : result'[d] = IF d = c THEN NoResult ELSE result[d]
    BY <1>11, <1>t DEF NewCursor, CursorsOK
  <2>2. Tracked'
    BY <1>t, <2>1 DEF Tracked
  <2>3. Buffers'
    BY <1>t, <2>1, SameBuffers DEF NoResult
  <2>4. Right(task[t])'
    <3>1. task[t].at = "idle" /\ Fits(task[t])
      BY DEF IsIdle, TurnInv, DataInv, Shape
    <3>2. task'[t].op = "none" /\ task'[t].pkt.fc = "None" /\ task'[t].why # "connect"
          /\ task'[t].at = "idle"
      BY <2>1, <3>1 DEF Fits, FcsOf
    <3> QED
      BY <3>2 DEF Right, CursorOps
  <2> QED
    BY <1>3, <2>1, <2>2, <2>3, <2>4
<1>12. ASSUME NEW c \in Cursors, CursorCloseCall(t, c)
       PROVE  RowInv'
  <2>1. "cursor_close" \in Api /\ ~closed[c] /\ open' = open /\ c \in cursors
    BY <1>12, <1>t DEF CursorCloseCall, Invoke, Tracked
  <2>2. CASE /\ Wait(t, Begin("cursor_close", c, CloseQueryPacket(handle[c])))
             /\ UNCHANGED <<cursors, cursorVars>>
    <3>1. Right(Begin("cursor_close", c, CloseQueryPacket(handle[c])))'
      BY <2>1, <2>2, Parts, PacketFields DEF Right
    <3> QED
      BY <1>6, <2>1, <2>2, <3>1
  <2>3. CASE CursorsClosed({c}) /\ Finish(t, "returned")
    <3>1. /\ Tracked' /\ result' = result
          /\ \A d \in Cursors : handle'[d] = IF d \in {c} THEN None ELSE handle[d]
      BY <1>t, <2>3, ClosedTracked
    <3>2. Right(task[t])'
      BY <1>t, <2>3, TaskAfter, Parts, PacketFields DEF Right, CursorOps
    <3> QED
      BY <1>3, <1>5, <2>1, <3>1, <3>2
  <2> QED
    BY <1>12, <2>2, <2>3 DEF CursorCloseCall
<1>13. ASSUME NEW c \in Cursors, ExecuteCall(t, c)
       PROVE  RowInv'
  <2>1. /\ "execute" \in Api /\ ~closed[c] /\ c \in cursors
        /\ UNCHANGED <<open, cursors, closed, handle, result>>
    BY <1>13, <1>t DEF ExecuteCall, Invoke, Tracked
  <2> DEFINE p(s) == IF handle[c] # None THEN CloseQueryPacket(handle[c])
                     ELSE PrepareAndExecutePacket(s, autocommit)
  <2>2. PICK s : Wait(t, [Begin("execute", c, p(s)) EXCEPT !.stmts = {s}])
    BY <1>13 DEF ExecuteCall
  <2>3. \/ p(s).fc = "CloseQuery" /\ p(s).h = handle[c]
        \/ p(s).fc = "PrepareAndExecute" /\ handle[c] = None
    BY PacketFields
  <2> HIDE DEF p
  <2>4. /\ task'[t].op = "execute" /\ task'[t].cur = c /\ task'[t].pkt = p(s)
        /\ task'[t].at = "lock" /\ task'[t].why = "request"
    <3>1. task'[t] = [Begin("execute", c, p(s)) EXCEPT !.stmts = {s}]
      BY <1>t, <2>2, TaskAfter
    <3> QED
      BY <3>1 DEF Begin, Idle
  <2>5. Right(task[t])'
    BY <2>1, <2>3, <2>4 DEF Right
  <2> QED
    BY <1>3, <1>4, <1>5, <2>1, <2>5
<1>14. ASSUME NEW c \in Cursors, ExecutemanyBatchCall(t, c)
       PROVE  RowInv'
  <2>1. /\ "executemany_batch" \in Api /\ ~closed[c] /\ c \in cursors
        /\ UNCHANGED <<open, cursors, closed, handle, result>>
    BY <1>14, <1>t DEF ExecutemanyBatchCall, Invoke, Tracked
  <2>2. PICK ss, ac : Wait(t, [Begin("executemany_batch", c, BatchExecutePacket(ss, ac))
                                 EXCEPT !.stmts = ss])
    BY <1>14 DEF ExecutemanyBatchCall
  <2> DEFINE p == BatchExecutePacket(ss, ac)
  <2>3. p.fc = "ExecuteBatch"
    BY PacketFields
  <2> HIDE DEF p
  <2>4. /\ task'[t].op = "executemany_batch" /\ task'[t].cur = c /\ task'[t].pkt = p
        /\ task'[t].at = "lock" /\ task'[t].why = "request"
    <3>1. task'[t] = [Begin("executemany_batch", c, p) EXCEPT !.stmts = ss]
      BY <1>t, <2>2, TaskAfter DEF p
    <3> QED
      BY <3>1 DEF Begin, Idle
  <2>5. Right(task[t])'
    BY <2>1, <2>3, <2>4 DEF Right
  <2> QED
    BY <1>3, <1>4, <1>5, <2>1, <2>5
<1>15. ASSUME NEW c \in Cursors, FetchmanyCall(t, c) \/ FetchallCall(t, c)
       PROVE  RowInv'
  <2>1. PICK op \in {"fetchmany", "fetchall"}, n \in Nat :
          Take(t, op, c, result[c].rows, n) /\ op \in Api
    BY <1>15, WantSizesAssumption DEF FetchmanyCall, FetchallCall, Invoke
  <2>2. UNCHANGED <<open, cursors, closed, handle>> /\ c \in cursors
    BY <1>15, <1>t DEF FetchmanyCall, FetchallCall, Fetchable, Tracked
  <2>3. /\ result[c].rows \in Seq(Stmts \X Nat) /\ Len(result[c].rows) \in Nat
        /\ result[c].rows = RowsOf(result[c].stmt, 1, Len(result[c].rows))
        /\ result[c].index <= Len(result[c].rows)
    BY <1>t DEF CursorsOK, ResultRecords, Buffers, RowsOwned
  <2>4. PICK index \in Nat : TakeTo(t, op, c, result[c].rows, index)
    BY <1>t, <2>1, <2>3, TakeParts
  <2>5. /\ Buffers' /\ \A d \in Cursors : result'[d].stmt = result[d].stmt
        /\ \/ task'[t] = Idle
           \/ /\ task'[t].op = op /\ task'[t].cur = c /\ task'[t].at = "lock"
              /\ task'[t].why = "request" /\ task'[t].pkt.fc = "Fetch"
              /\ task'[t].pkt.h = handle[c]
              /\ task'[t].pkt.from = Len(result'[c].rows) + 1
    BY <1>t, <2>3, <2>4, TakeBuffers
  <2>6. Right(task[t])'
    BY <2>1, <2>2, <2>5, Parts, PacketFields DEF Right, CursorOps
  <2> QED
    BY <1>3, <1>4, <2>2, <2>5, <2>6
<1> QED
  BY <1>7, <1>8, <1>9, <1>10, <1>11, <1>12, <1>13, <1>14, <1>15 DEF Invocation

\* A task at the lock, or at the end of close().
LEMMA LockStepRows ==
  ASSUME AutocommitFixed, TurnInv, RowInv, TurnInv', cancels = 0, cancels' = 0,
         NEW t \in Tasks, LockStep(t) \/ CloseEnds(t)
  PROVE  RowInv'
<1> USE DEF NoCursorChange, cursorVars, serverVars
<1>t. /\ TypeInv /\ CursorsOK /\ HandleState /\ Tracked /\ Buffers /\ Right(task[t])
      /\ Shape /\ Alone /\ WireInv /\ TypeInv' /\ WireInv'
      /\ task[t] \in TaskRecords
  BY DEF TurnInv, DataInv, TypeInv, CallsOK, RowInv
<1>1. /\ \A u \in Tasks \ {t} : IsIdle(u) /\ task'[u] = task[u]
      /\ ~HasAnswer'
  BY <1>t, StepsAlone, TaskStepKinds, EmptyStreams
<1>2. UNCHANGED <<result, cursors, closed>>
  BY DEF LockStep, SendRequest, CheckReconnect, Reconnected, AlreadyConnected,
         StartHandshake, ConnectEnds, PingDrop, CloseEnds
<1>3. Buffers'
  BY <1>t, <1>2, SameBuffers
<1>4. Disconnect => ~up' /\ ~connected' /\ open' = NoHandles
  BY DEF Disconnect, SessionEnds
<1>5. HandshakeOk => up' /\ open' = NoHandles
  BY DEF HandshakeOk, SessionOpens
<1>6. \A at \in {"read", "connect"} :
        /\ At(task[t], at).op = task[t].op /\ At(task[t], at).pkt = task[t].pkt
        /\ At(task[t], at).cur = task[t].cur /\ At(task[t], at).why = task[t].why
        /\ At(task[t], at).todo = task[t].todo /\ At(task[t], at).at = at
  BY <1>t DEF At, TaskRecords
<1>7. ASSUME NoneHeld', Tracked', Right(task[t])', ~up' => open' = NoHandles
      PROVE  RowInv'
  BY <1>t, <1>1, <1>3, <1>7, RowsKept DEF NoneHeld
<1>c. task[t].pkt.fc = "PrepareAndExecute" => task[t].cur \in Cursors
  BY <1>t DEF Shape, Fits, FcsOf, TypeInv, CallsOK, TaskHasCursor, CursorOps
<1>8. ASSUME NoneHeld', open' = NoHandles \/ open' = open, UNCHANGED <<cursors, result>>,
             NEW at \in {"read", "connect"}, task'[t] = At(task[t], at),
             handle' = handle \/ open' = NoHandles
      PROVE  Right(task[t])'
  BY <1>t, <1>c, <1>6, <1>8 DEF Right, NoneHeld
<1>9. UNCHANGED <<cursors, closed, handle>> => Tracked'
  BY <1>t DEF Tracked
<1>10. CASE SendRequest(t)
  <2>1. /\ UNCHANGED <<up, open, connected, handle, responses>>
        /\ task'[t] = At(task[t], "read")
    BY <1>10, <1>t, TaskAfter DEF SendRequest, Write
  <2>2. Right(task[t])'
    BY <1>2, <1>6, <1>t, <2>1 DEF Right, NoneHeld
  <2>3. \A c : ~Loses(c)
    BY <1>1, <2>1 DEF Loses, Did, HasAnswer
  <2> QED
    BY <1>1, <1>2, <1>3, <1>9, <1>t, <2>1, <2>2, <2>3, RowsKept DEF HandleState
<1>11. CASE CheckReconnect(t)
  <2>1. /\ Disconnect /\ handle' = Invalidated
        /\ task'[t] = At(task[t], "connect")
    BY <1>11, <1>t, TaskAfter DEF CheckReconnect
  <2>2. NoneHeld' /\ Tracked'
    BY <1>2, <1>t, <2>1, Invalidates
  <2> QED
    BY <1>2, <1>4, <1>7, <1>8, <2>1, <2>2
<1>12. CASE Reconnected(t)
  <2>1. HandshakeOk /\ handle' = handle /\ task'[t] = At(task[t], "read") /\ NoneHeld
    BY <1>12, <1>t, TaskAfter DEF Reconnected, Write, Right
  <2>2. NoneHeld'
    BY <2>1 DEF NoneHeld
  <2> QED
    BY <1>2, <1>5, <1>7, <1>8, <1>9, <2>1, <2>2
<1>13. CASE AlreadyConnected(t) \/ ConnectEnds(t)
  <2>1. /\ task'[t] = Idle /\ handle' = handle /\ NoneHeld
        /\ HandshakeOk \/ UNCHANGED <<up, open>>
    BY <1>13, <1>t, TaskAfter
       DEF AlreadyConnected, ConnectEnds, WantsToConnect, HandshakeFails, Right
  <2>2. NoneHeld'
    BY <2>1 DEF NoneHeld
  <2>3. Right(task[t])'
    BY <2>1, Parts, PacketFields DEF Right, CursorOps
  <2> QED
    BY <1>2, <1>5, <1>7, <1>9, <1>t, <2>1, <2>2, <2>3 DEF HandleState
<1>14. CASE StartHandshake(t)
  <2>1. /\ task'[t] = At(task[t], "connect") /\ UNCHANGED <<handle, up, open>> /\ NoneHeld
    BY <1>14, <1>t, TaskAfter DEF StartHandshake, WantsToConnect, Right
  <2>2. NoneHeld'
    BY <2>1 DEF NoneHeld
  <2> QED
    BY <1>2, <1>7, <1>8, <1>9, <1>t, <2>1, <2>2 DEF HandleState
<1>15. CASE PingDrop(t)
  <2>1. /\ Disconnect /\ handle' = Invalidated
        /\ task'[t] = BeginFor("ping", "connect")
        /\ task[t].why = "drop"
    BY <1>15, <1>t, TaskAfter DEF PingDrop
  <2>2. NoneHeld' /\ Tracked'
    BY <1>2, <1>t, <2>1, Invalidates
  <2>3. "ping" \in Api
    <3>1. Fits(task[t])
      BY <1>t DEF Shape
    <3> QED
      BY <1>t, <2>1, <3>1 DEF Fits, Right, AutocommitFixed
  <2>4. Right(task[t])'
    BY <2>1, <2>2, <2>3, Parts, PacketFields DEF Right, CursorOps
  <2> QED
    BY <1>4, <1>7, <2>1, <2>2, <2>4
<1>16. CASE CloseEnds(t)
  <2>1. Disconnect /\ task'[t] = Idle /\ handle' = handle
    BY <1>16, <1>t, TaskAfter DEF CloseEnds
  <2>2. Right(task[t])'
    BY <2>1, Parts, PacketFields DEF Right, CursorOps
  <2> QED
    BY <1>1, <1>2, <1>3, <1>4, <1>9, <1>t, <2>1, <2>2, RowsKept
<1> QED
  BY <1>10, <1>11, <1>12, <1>13, <1>14, <1>15, <1>16 DEF LockStep

\* What the session has freed by the request whose answer is read.
LEMMA LosesOwn ==
  ASSUME TurnInv, cancels = 0, NEW t \in Tasks, NEW r \in PossibleReplies(t),
         SendAndReceive(t, r), connected', up', NEW c, Loses(c)
  PROVE  /\ r.st = "ok"
         /\ \/ task[t].pkt.fc \in {"Commit", "Rollback", "CloseDatabase"}
            \/ task[t].pkt.fc = "CloseQuery" /\ task[t].cur = c
<1>1. /\ r.st = "ok" => owner = t /\ TheAnswer.fc = task[t].pkt.fc
      /\ r.st # "ok" => \A fc : Did(fc) => fc = "CheckCas"
  BY ExchangeReads
<1>2. r.st = "ok"
  BY <1>1 DEF Loses
<1> QED
  BY <1>1, <1>2 DEF Loses, Did

\* An exchange ends, and the cursors that keep a handle keep their statement.
LEMMA ExchangeRows ==
  ASSUME TurnInv, RowInv, TurnInv', cancels = 0, cancels' = 0,
         NEW t \in Tasks, Replying(t), NEW r \in PossibleReplies(t), SendAndReceive(t, r),
         Tracked', Buffers', Right(task[t])',
         \A c \in Cursors :
           \/ handle'[c] = None
           \/ /\ handle'[c] = handle[c] /\ result'[c].stmt = result[c].stmt
              /\ r.st = "ok" => /\ task[t].pkt.fc \notin {"Commit", "Rollback", "CloseDatabase"}
                                /\ ~(task[t].pkt.fc = "CloseQuery" /\ task[t].cur = c)
  PROVE  RowInv'
<1>t. TypeInv /\ Shape /\ Alone /\ HandleState /\ TypeInv' /\ WireInv'
  BY DEF TurnInv, DataInv, RowInv
<1>1. /\ \A u \in Tasks \ {t} : IsIdle(u) /\ task'[u] = task[u]
      /\ ~HasAnswer'
  BY <1>t, StepsAlone, TaskStepKinds, EmptyStreams
<1>2. /\ connected' /\ up' => connected /\ up /\ open' = open
      /\ (up' = up /\ open' = open) \/ (~up' /\ open' = NoHandles)
  BY ExchangeReads
<1>3. ~up' => open' = NoHandles
  BY <1>2, <1>t DEF HandleState
<1>4. \A c \in Cursors :
        \/ handle'[c] = None
        \/ /\ handle'[c] = handle[c] /\ result'[c].stmt = result[c].stmt
           /\ connected' /\ up' => ~Loses(c)
  BY LosesOwn
<1> QED
  BY <1>1, <1>2, <1>3, <1>4, <1>t, RowsKept

\* The calls of the connection, and the end of a cursor.
LEMMA ConnectionReplyRows ==
  ASSUME AutocommitFixed, TurnInv, RowInv, TurnInv', cancels = 0, cancels' = 0,
         NEW t \in Tasks, Replying(t),
         \/ PingReply(t) \/ EndTranReply(t) \/ SetAutocommitReply(t) \/ QueryReply(t)
         \/ CloseCursorReply(t) \/ CursorCloseReply(t)
  PROVE  RowInv'
<1> USE DEF NoCursorChange, cursorVars
<1>t. /\ TypeInv /\ CursorsOK /\ HandleState /\ Tracked /\ Buffers /\ Right(task[t])
      /\ Fits(task[t]) /\ task[t] \in TaskRecords
  BY DEF TurnInv, DataInv, TypeInv, CallsOK, RowInv, Shape
<1>a. /\ \A call : Wait(t, call) => task'[t] = call
      /\ \A st : Finish(t, st) => task'[t] = Idle
  BY <1>t, TaskAfter
<1>b. task'[t] = Idle => Right(task[t])'
  BY Parts, PacketFields DEF Right, CursorOps
<1>1. UNCHANGED result
  BY DEF PingReply, EndTranReply, SetAutocommitReply, QueryReply,
         CloseCursorReply, CursorCloseReply, CursorsClosed, CloseGoesOn
<1>2. Buffers'
  BY <1>1, <1>t, SameBuffers
<1>3. UNCHANGED <<cursors, closed, handle>> => Tracked'
  BY <1>t DEF Tracked
<1>4. CASE PingReply(t)
  <2>1. PICK r \in PossibleReplies(t) :
          /\ SendAndReceive(t, r)
          /\ \/ Wait(t, BeginFor("ping", "drop"))
             \/ \E st : Finish(t, st)
    BY <1>4, <1>t, PingGoesOn
  <2>2. task[t].op = "ping" /\ task[t].pkt.fc \in {"None", "CheckCas"} /\ "ping" \in Api
    BY <1>4, <1>t DEF PingReply, Fits, FcsOf, Right
  <2>3. Right(task[t])'
    BY <1>a, <1>b, <2>1, <2>2, Parts, PacketFields DEF Right, CursorOps
  <2>4. UNCHANGED <<cursors, closed, handle>>
    BY <1>4 DEF PingReply
  <2> QED
    BY <1>1, <1>2, <1>3, <2>1, <2>2, <2>3, <2>4, ExchangeRows
<1>5. CASE EndTranReply(t)
  <2>1. PICK r \in PossibleReplies(t) :
          /\ SendAndReceive(t, r)
          /\ IF r.st = "ok" THEN handle' = Invalidated ELSE handle' = handle
          /\ \E st : Finish(t, st)
    BY <1>5 DEF EndTranReply
  <2>2. UNCHANGED <<cursors, closed>>
    BY <1>5 DEF EndTranReply
  <2>3. /\ Tracked'
        /\ r.st = "ok" => \A c \in Cursors : handle'[c] = None
    BY <1>3, <1>t, <2>1, <2>2, Invalidates
  <2> QED
    BY <1>1, <1>2, <1>a, <1>b, <2>1, <2>3, ExchangeRows
<1>6. ~SetAutocommitReply(t)
  BY <1>t DEF SetAutocommitReply, Right, AutocommitFixed
<1>7. CASE QueryReply(t)
  <2>1. PICK r \in PossibleReplies(t) : SendAndReceive(t, r) /\ \E st : Finish(t, st)
    BY <1>7 DEF QueryReply
  <2>2. /\ UNCHANGED <<cursors, closed, handle>>
        /\ task[t].pkt.fc \notin {"CloseQuery", "Commit", "Rollback", "CloseDatabase"}
    BY <1>7, <1>t DEF QueryReply, Fits, FcsOf
  <2> QED
    BY <1>1, <1>2, <1>3, <1>a, <1>b, <2>1, <2>2, ExchangeRows
<1>8. CASE CloseCursorReply(t)
  <2>1. PICK r \in PossibleReplies(t) : SendAndReceive(t, r)
    BY <1>8 DEF CloseCursorReply
  <2> DEFINE c == task[t].cur
             todo == task[t].todo
  <2>2. /\ task[t].op = "close" /\ task[t].pkt.fc = "CloseQuery" /\ "close" \in Api
        /\ c \in cursors /\ c \notin todo /\ todo \subseteq cursors
    BY <1>8, <1>t DEF CloseCursorReply, Right
  <2>3. PICK quiet \in SUBSET todo :
           /\ CursorsClosed({c} \cup quiet)
           /\ task'[t].op = "close"
           /\ \/ /\ task'[t].cur \in todo \ quiet
                 /\ task'[t].pkt = CloseQueryPacket(handle[task'[t].cur])
                 /\ task'[t].todo = todo \ (quiet \cup {task'[t].cur})
                 /\ task'[t].at = "lock" /\ task'[t].why = "request"
              \/ /\ task'[t].pkt = CloseDatabasePacket
                 /\ task'[t].at = "lock" /\ task'[t].why = "close"
    BY <1>8, <1>t, CloseParts DEF CloseCursorReply
  <2> HIDE DEF c, todo
  <2>4. /\ Tracked' /\ result' = result /\ cursors' = cursors \ ({c} \cup quiet)
        /\ \A d \in Cursors : handle'[d] = IF d \in ({c} \cup quiet) THEN None ELSE handle[d]
    BY <1>t, <2>3, ClosedTracked
  <2>5. Right(task[t])'
    BY <1>t, <2>2, <2>3, <2>4, PacketFields DEF Right, CursorOps, CursorsOK
  <2>6. \A d \in Cursors : \/ handle'[d] = None
                           \/ handle'[d] = handle[d] /\ d # task[t].cur
    BY <2>4 DEF c
  <2> QED
    BY <1>2, <2>1, <2>2, <2>4, <2>5, <2>6, ExchangeRows
<1>9. CASE CursorCloseReply(t)
  <2>1. PICK r \in PossibleReplies(t) : SendAndReceive(t, r) /\ \E st : Finish(t, st)
    BY <1>9 DEF CursorCloseReply
  <2>2. CursorsClosed({task[t].cur}) /\ task[t].pkt.fc = "CloseQuery"
    BY <1>9, <1>t DEF CursorCloseReply, Fits, FcsOf
  <2>3. /\ Tracked'
        /\ \A d \in Cursors :
             handle'[d] = IF d \in {task[t].cur} THEN None ELSE handle[d]
    BY <1>t, <2>2, ClosedTracked
  <2> QED
    BY <1>1, <1>2, <1>a, <1>b, <2>1, <2>2, <2>3, ExchangeRows
<1> QED
  BY <1>4, <1>5, <1>6, <1>7, <1>8, <1>9

\* A PREPARE_AND_EXECUTE that succeeds: the cursor has a handle of its own.
LEMMA ExecuteReplyRows ==
  ASSUME AutocommitFixed, TurnInv, RowInv, TurnInv', cancels = 0, cancels' = 0,
         NEW t \in Tasks, NEW r \in PossibleReplies(t), Replying(t), SendAndReceive(t, r),
         task[t].pkt.fc = "PrepareAndExecute", task[t].cur \in Cursors,
         task[t].cur \in cursors, r.st = "ok", NEW s \in r.done,
         handle' = [handle EXCEPT ![task[t].cur] = r.h],
         result' = [result EXCEPT ![task[t].cur] = ResultOf(s, r.rows)],
         UNCHANGED <<cursors, closed>>, Right(task[t])'
  PROVE  RowInv'
<1> DEFINE c == task[t].cur
<1>t. /\ TypeInv /\ CursorsOK /\ Shape /\ Alone /\ HandleState /\ Tracked /\ AnswerRows
      /\ Buffers /\ TypeInv' /\ WireInv'
  BY DEF TurnInv, DataInv, TypeInv, RowInv
<1>1. /\ \A u \in Tasks \ {t} : IsIdle(u) /\ task'[u] = task[u]
      /\ ~HasAnswer'
  BY <1>t, StepsAlone, TaskStepKinds, EmptyStreams
<1>2. /\ Did("PrepareAndExecute") /\ r = TheAnswer.reply
      /\ connected' /\ up' => connected /\ up /\ open' = open
      /\ (up' = up /\ open' = open) \/ (~up' /\ open' = NoHandles)
  BY ExchangeReads DEF Did
<1>3. PICK n \in Nat :
         /\ s \in Stmts /\ r.rows = RowsOf(s, 1, n) /\ r.h \in Handles
         /\ up => open[r.h] = s /\ \A d \in Cursors : handle[d] # r.h
  BY <1>2, <1>t DEF AnswerRows
<1> HIDE DEF c
<1>4. /\ c \in Cursors /\ handle'[c] = r.h /\ result'[c].stmt = s
      /\ result'[c].rows = r.rows /\ result'[c].index = 0
      /\ \A d \in Cursors \ {c} : handle'[d] = handle[d] /\ result'[d] = result[d]
  BY <1>t DEF c, ResultOf, CursorsOK
<1>5. \A d : ~Loses(d)
  BY <1>2 DEF Loses, Did
<1>6. HandleState'
  <2>1. ~up' => open' = NoHandles
    BY <1>2, <1>t DEF HandleState
  <2>2. \A d \in Cursors : handle'[d] # None => result'[d].stmt \in Stmts
    BY <1>3, <1>4, <1>t DEF HandleState
  <2>3. ASSUME connected', up', NEW d \in Cursors, handle'[d] # None
        PROVE  /\ open'[handle'[d]] = result'[d].stmt
               /\ \A e \in Cursors : handle'[e] = handle'[d] => e = d
    <3>1. connected /\ up /\ open' = open
      BY <1>2, <2>3
    <3> QED
      BY <1>3, <1>4, <1>5, <1>t, <2>3, <3>1 DEF HandleState
  <2> QED
    BY <2>1, <2>2, <2>3 DEF HandleState
<1>7. Tracked'
  BY <1>4, <1>t DEF Tracked, c
<1>8. Buffers'
  <2>1. Len(r.rows) = n
    BY <1>3 DEF RowsOf
  <2> QED
    BY <1>3, <1>4, <1>t, <2>1 DEF Buffers, RowsOwned
<1>9. AnswerRows'
  BY <1>1 DEF AnswerRows, Did
<1> QED
  BY <1>1, <1>6, <1>7, <1>8, <1>9, AllRight DEF RowInv

\* execute() and executemany_batch().
LEMMA CursorReplyRows ==
  ASSUME AutocommitFixed, TurnInv, RowInv, TurnInv', cancels = 0, cancels' = 0,
         NEW t \in Tasks, Replying(t),
         \/ ExecuteCloseReply(t) \/ ExecuteReply(t) \/ LastRowIdReply(t)
         \/ ExecutemanyBatchReply(t)
  PROVE  RowInv'
<1> DEFINE c == task[t].cur
<1>t. /\ TypeInv /\ CursorsOK /\ HandleState /\ Tracked /\ Buffers /\ Right(task[t])
      /\ Fits(task[t]) /\ task[t] \in TaskRecords
  BY DEF TurnInv, DataInv, TypeInv, CallsOK, RowInv, Shape
<1>a. /\ \A call : Wait(t, call) => task'[t] = call
      /\ \A st : Finish(t, st) => task'[t] = Idle
  BY <1>t, TaskAfter
<1>b. task'[t] = Idle => Right(task[t])'
  BY Parts, PacketFields DEF Right, CursorOps
<1>c. /\ task[t].op \in {"execute", "executemany_batch"} /\ task[t].op \in Api
      /\ c \in Cursors /\ c \in cursors
  <2>1. task[t].op \in {"execute", "executemany_batch"}
    BY DEF ExecuteCloseReply, ExecuteReply, LastRowIdReply, ExecutemanyBatchReply
  <2> QED
    BY <1>t, <2>1 DEF Right, CursorOps, CursorsOK
<1>d. task[t].why = "request"
  BY <1>c, <1>t DEF Fits, FcsOf, TaskRecords
<1>1. UNCHANGED <<cursors, closed>>
  BY DEF ExecuteCloseReply, ExecuteReply, LastRowIdReply, ExecutemanyBatchReply
<1>2. (\A d \in Cursors \ {c} : handle'[d] = handle[d]) => Tracked'
  BY <1>1, <1>c, <1>t DEF Tracked
\* Another request of this execute(), which is not for a handle.
<1>e. ASSUME NEW p, Wait(t, [task[t] EXCEPT !.at = "lock", !.pkt = p]),
             \/ p.fc = "GetLastInsertId"
             \/ p.fc = "PrepareAndExecute" /\ handle'[c] = None,
             task[t].op = "execute"
      PROVE  Right(task[t])'
  <2>1. /\ task'[t].op = task[t].op /\ task'[t].cur = c /\ task'[t].why = "request"
        /\ task'[t].at = "lock" /\ task'[t].pkt = p
    <3>1. task'[t] = [task[t] EXCEPT !.at = "lock", !.pkt = p]
      BY <1>a, <1>e
    <3>2. task[t] \in TaskRecords
      BY <1>t
    <3>3. /\ task'[t].op = task[t].op /\ task'[t].cur = task[t].cur
          /\ task'[t].why = task[t].why /\ task'[t].at = "lock" /\ task'[t].pkt = p
      BY <3>1, <3>2 DEF TaskRecords
    <3> QED
      BY <1>d, <3>3
  <2> QED
    BY <1>1, <1>c, <1>e, <2>1 DEF Right
<1> HIDE DEF c
<1>3. CASE ExecuteCloseReply(t)
  <2>1. PICK r \in PossibleReplies(t) :
          /\ SendAndReceive(t, r)
          /\ \/ /\ r.st = "ok" /\ handle' = [handle EXCEPT ![c] = None]
                /\ \/ \E st : Finish(t, st)
                   \/ \E s : Wait(t, [task[t] EXCEPT !.at = "lock",
                                        !.pkt = PrepareAndExecutePacket(s, autocommit)])
             \/ r.st # "ok" /\ handle' = handle /\ \E st : Finish(t, st)
    BY <1>3, Zenon DEF ExecuteCloseReply, c
  <2>2. UNCHANGED result /\ task[t].pkt.fc = "CloseQuery" /\ task[t].op = "execute"
    BY <1>3 DEF ExecuteCloseReply
  <2>3. \A d \in Cursors : \/ handle'[d] = None /\ d = c
                           \/ handle'[d] = handle[d] /\ (d # c \/ r.st # "ok")
    BY <1>t, <2>1 DEF CursorsOK
  <2>4. r.st = "ok" => handle'[c] = None
    BY <1>c, <1>t, <2>1 DEF CursorsOK
  <2>5. Right(task[t])'
    <3>1. ASSUME r.st = "ok", NEW s, Wait(t, [task[t] EXCEPT !.at = "lock",
                                        !.pkt = PrepareAndExecutePacket(s, autocommit)])
          PROVE  Right(task[t])'
      <4> DEFINE p == PrepareAndExecutePacket(s, autocommit)
      <4>1. p.fc = "PrepareAndExecute"
        BY PacketFields
      <4>2. Wait(t, [task[t] EXCEPT !.at = "lock", !.pkt = p])
        BY <3>1
      <4> HIDE DEF p
      <4> QED
        BY <1>e, <2>2, <2>4, <3>1, <4>1, <4>2
    <3> QED
      BY <1>a, <1>b, <2>1, <3>1
  <2>6. Tracked' /\ Buffers'
    BY <1>2, <1>t, <2>2, <2>3, SameBuffers
  <2> QED
    BY <2>1, <2>2, <2>3, <2>5, <2>6, ExchangeRows DEF c
<1>4. CASE ExecuteReply(t)
  <2>1. PICK r \in PossibleReplies(t) :
          /\ SendAndReceive(t, r)
          /\ \/ /\ r.st = "ok"
                /\ \E s \in r.done :
                   /\ handle' = [handle EXCEPT ![task[t].cur] = r.h]
                   /\ result' = [result EXCEPT ![task[t].cur] = ResultOf(s, r.rows)]
                   /\ \/ Wait(t, [task[t] EXCEPT !.at = "lock",
                                                 !.pkt = GetLastInsertIdPacket])
                      \/ Finish(t, "returned")
             \/ r.st # "ok" /\ Finish(t, "raised") /\ UNCHANGED <<handle, result>>
    BY <1>4, Zenon DEF ExecuteReply
  <2>2. task[t].pkt.fc = "PrepareAndExecute" /\ task[t].op = "execute"
    BY <1>4 DEF ExecuteReply
  <2>3. Right(task[t])'
    BY <1>a, <1>b, <1>e, <2>1, <2>2, PacketFields
  <2>4. CASE r.st = "ok"
    BY <1>1, <1>c, <2>1, <2>2, <2>3, <2>4, ExecuteReplyRows DEF c
  <2>5. CASE r.st # "ok" /\ UNCHANGED <<handle, result>>
    <3>1. Tracked' /\ Buffers'
      BY <1>2, <1>t, <2>5, SameBuffers
    <3> QED
      BY <2>1, <2>3, <2>5, <3>1, ExchangeRows
  <2> QED
    BY <2>1, <2>4, <2>5
<1>5. CASE LastRowIdReply(t)
  <2>1. PICK r \in PossibleReplies(t) : SendAndReceive(t, r) /\ \E st : Finish(t, st)
    BY <1>5 DEF LastRowIdReply
  <2>2. UNCHANGED <<handle, result>> /\ task[t].pkt.fc = "GetLastInsertId"
    BY <1>5 DEF LastRowIdReply
  <2>3. Tracked' /\ Buffers'
    BY <1>2, <1>t, <2>2, SameBuffers
  <2> QED
    BY <1>a, <1>b, <2>1, <2>2, <2>3, ExchangeRows
<1>6. CASE ExecutemanyBatchReply(t)
  <2>1. PICK r \in PossibleReplies(t) :
          /\ SendAndReceive(t, r) /\ \E st : Finish(t, st)
          /\ \/ /\ result' = [result EXCEPT ![c] = WithoutRows(result[c])]
                /\ handle' = [handle EXCEPT ![c] = None]
             \/ UNCHANGED <<handle, result>>
    BY <1>6 DEF ExecutemanyBatchReply, c
  <2>2. task[t].pkt.fc = "ExecuteBatch"
    BY <1>6, <1>t DEF ExecutemanyBatchReply, Fits, FcsOf
  <2>3. /\ \A d \in Cursors : \/ handle'[d] = None /\ d = c
                              \/ handle'[d] = handle[d] /\ result'[d] = result[d]
        /\ \A d \in Cursors : \/ result'[d] = result[d]
                              \/ result'[d].rows = <<>> /\ result'[d].index = 0
    BY <1>t, <2>1 DEF CursorsOK, WithoutRows
  <2>4. Tracked' /\ Buffers'
    BY <1>2, <1>t, <2>3, SameBuffers
  <2> QED
    BY <1>a, <1>b, <2>1, <2>2, <2>3, <2>4, ExchangeRows
<1> QED
  BY <1>3, <1>4, <1>5, <1>6

\* A sequence is no shorter for what is appended to it.
LEMMA JoinLonger ==
  ASSUME NEW S, NEW a \in Seq(S), NEW b \in Seq(S)
  PROVE  a \o b \in Seq(S) /\ Len(a) \in Nat /\ Len(a) <= Len(a \o b)
  OBVIOUS

\* The fetches.
LEMMA FetchReplyRows ==
  ASSUME AutocommitFixed, TurnInv, RowInv, TurnInv', cancels = 0, cancels' = 0,
         NEW t \in Tasks, Replying(t), FetchReply(t)
  PROVE  RowInv'
<1> DEFINE c == task[t].cur
           held == result[c].rows
<1>t. /\ TypeInv /\ CursorsOK /\ HandleState /\ Tracked /\ Buffers /\ Right(task[t])
      /\ AnswerRows /\ Fits(task[t]) /\ task[t] \in TaskRecords
  BY DEF TurnInv, DataInv, TypeInv, CallsOK, RowInv, Shape
<1>1. /\ task[t].op \in {"fetchmany", "fetchall"} /\ task[t].pkt.fc = "Fetch"
      /\ task[t].op \in Api /\ c \in Cursors /\ c \in cursors /\ task[t].want \in Nat
      /\ task[t].pkt.from = Len(held) + 1
  <2>1. task[t].op \in {"fetchmany", "fetchall"}
    BY DEF FetchReply
  <2> QED
    BY <1>t, <2>1 DEF Fits, FcsOf, Right, CursorOps, CursorsOK, TaskRecords
<1>2. UNCHANGED <<cursors, closed, handle>>
  BY DEF FetchReply
<1>3. Tracked'
  BY <1>2, <1>t DEF Tracked
<1> HIDE DEF c
<1>4. PICK r \in PossibleReplies(t) :
        /\ SendAndReceive(t, r)
        /\ \/ r.st = "ok" /\ Take(t, task[t].op, c, held \o r.rows, task[t].want)
           \/ (\E st : Finish(t, st)) /\ UNCHANGED result
  BY DEF FetchReply, c
<1>5. CASE (\E st : Finish(t, st)) /\ UNCHANGED result
  <2>1. Buffers'
    BY <1>5, <1>t, SameBuffers
  <2>2. task'[t] = Idle
    BY <1>5, <1>t, TaskAfter
  <2>3. Right(task[t])'
    BY <2>2, Parts, PacketFields DEF Right, CursorOps
  <2> QED
    BY <1>1, <1>2, <1>3, <1>4, <1>5, <2>1, <2>3, ExchangeRows
<1>6. CASE r.st = "ok" /\ Take(t, task[t].op, c, held \o r.rows, task[t].want)
  <2>1. Did("Fetch") /\ owner = t /\ r = TheAnswer.reply
    BY <1>1, <1>4, <1>6, ExchangeReads DEF Did
  <2>2. PICK k \in Nat : r.rows = RowsOf(result[c].stmt, Len(held) + 1, k)
    BY <1>1, <1>t, <2>1 DEF AnswerRows, c
  <2>3. /\ held \in Seq(Stmts \X Nat) /\ r.rows \in Seq(Stmts \X Nat)
        /\ result[c].index \in Nat /\ result[c].index <= Len(held)
        /\ held = RowsOf(result[c].stmt, 1, Len(held))
    <3>1. r \in Replies
      BY <1>t, RepliesIn DEF TypeInv
    <3> QED
      BY <1>1, <1>t, <3>1 DEF CursorsOK, ResultRecords, Replies, Buffers, RowsOwned
  <2> DEFINE rows == held \o r.rows
             s == result[c].stmt
             n == Len(held)
  <2>4. rows \in Seq(Stmts \X Nat) /\ n \in Nat /\ n <= Len(rows)
    BY <2>3, JoinLonger
  <2>5. held = RowsOf(s, 1, n) /\ r.rows = RowsOf(s, n + 1, k)
    BY <2>2, <2>3
  <2>6. rows = RowsOf(s, 1, n) \o RowsOf(s, n + 1, k)
    BY <2>5
  <2> HIDE DEF s, n
  <2> HIDE DEF rows
  <2>7. RowsOf(s, 1, n) \o RowsOf(s, n + 1, k) = RowsOf(s, 1, n + k)
    BY <2>4, RowsOfJoin, Zenon
  <2>8. n + k \in Nat /\ Len(RowsOf(s, 1, n + k)) = n + k
    BY <2>4 DEF RowsOf
  <2>9. rows = RowsOf(s, 1, Len(rows)) /\ Len(rows) \in Nat
    BY <2>6, <2>7, <2>8
  <2>10. result[c].index <= Len(rows)
    BY <2>3, <2>4, <2>9 DEF n
  <2>11. PICK index \in Nat : TakeTo(t, task[t].op, c, rows, index)
    BY <1>1, <1>6, <1>t, <2>4, TakeParts DEF rows
  <2>12. /\ Buffers' /\ \A d \in Cursors : result'[d].stmt = result[d].stmt
         /\ \/ task'[t] = Idle
            \/ /\ task'[t].op = task[t].op /\ task'[t].cur = c /\ task'[t].at = "lock"
               /\ task'[t].why = "request" /\ task'[t].pkt.fc = "Fetch"
               /\ task'[t].pkt.h = handle[c]
               /\ task'[t].pkt.from = Len(result'[c].rows) + 1
    BY <1>1, <1>t, <2>9, <2>10, <2>11, TakeBuffers DEF s
  <2>13. Right(task[t])'
    BY <1>1, <1>2, <2>12, Parts, PacketFields DEF Right, CursorOps
  <2> QED
    BY <1>1, <1>2, <1>3, <1>4, <2>12, <2>13, ExchangeRows
<1> QED
  BY <1>4, <1>5, <1>6

\* CLOSE_DATABASE is carried out, or nothing changes.
LEMMA CloseDatabaseAnswer ==
  ASSUME NEW p, p.fc = "CloseDatabase", NEW o \in Outcomes(p)
  PROVE  o.open = open \/ o.reply.st = "ok"
<1>1. OkReply.st = "ok" /\ \A r : Answer(r).open = open
  BY DEF OkReply, Reply, Answer, Outcome
<1> QED
  BY <1>1 DEF Outcomes, CloseDatabaseOutcomes, Outcome

\* The server answers, and may free handles with it.
LEMMA ServerRows ==
  ASSUME TurnInv, RowInv, TurnInv', cancels = 0, ServerAnswers
  PROVE  RowInv'
<1> USE DEF cursorVars
<1>t. /\ TypeInv /\ CursorsOK /\ ServerTypeOK /\ HandleState /\ Tracked /\ Buffers
      /\ Alone /\ \A t \in Tasks : Fits(task[t]) /\ Right(task[t])
  BY DEF TurnInv, DataInv, TypeInv, WireOK, RowInv, Shape
<1>1. PICK t \in Tasks : \E o \in Outcomes(task[t].pkt) :
           /\ task[t].pkt \in Packets /\ owner = t /\ connected
           /\ Serve(o)
           /\ ~HasAnswer /\ HasAnswer'
           /\ TheAnswer'.fc = task[t].pkt.fc /\ TheAnswer'.reply = o.reply
  BY Answering
<1>2. PICK o \in Outcomes(task[t].pkt) :
           /\ Serve(o)
           /\ TheAnswer'.fc = task[t].pkt.fc /\ TheAnswer'.reply = o.reply
  BY <1>1
<1> DEFINE p == task[t].pkt
           c == task[t].cur
<1>3. /\ UNCHANGED <<task, owner, connected, handle, result, cursors, closed>>
      /\ up /\ up' /\ open' = o.open
  BY <1>2 DEF Serve, ServerAnswers, lockVars
<1>4. /\ p \in Packets /\ o \in Outcomes(p) /\ HasAnswer'
      /\ TheAnswer'.fc = p.fc /\ TheAnswer'.reply = o.reply
  BY <1>1, <1>2
<1>5. p.fc \in {"CloseQuery", "Fetch"} =>
        /\ c \in Cursors
        /\ p.h = handle[c] \/ (NoneHeld /\ open = NoHandles)
  <2>1. /\ Fits(task[t]) /\ Right(task[t]) /\ cursors \subseteq Cursors
    BY <1>t DEF CursorsOK
  <2>2. p.fc \in {"CloseQuery", "Fetch"}
          => task[t].op \in CursorOps \/ (task[t].op = "close" /\ p.fc = "CloseQuery")
    BY <2>1 DEF Fits, FcsOf, CursorOps
  <2> QED
    BY <2>1, <2>2 DEF Right
<1>6. \A d : ~Loses(d)
  BY <1>1 DEF Loses, Did
<1>7. \A d \in Cursors : handle[d] # None =>
         /\ handle[d] \in Handles
         /\ open[handle[d]] = result[d].stmt /\ result[d].stmt \in Stmts
         /\ \A e \in Cursors : handle[e] = handle[d] => e = d
  BY <1>1, <1>3, <1>6, <1>t DEF HandleState, CursorsOK
<1>8. \A h \in FreeHandles : h \in Handles /\ \A d \in Cursors : handle[d] # h
  BY <1>7, NoneAssumption DEF FreeHandles
<1>9. \A fc : Did(fc)' <=> p.fc = fc /\ o.reply.st = "ok"
  BY <1>4 DEF Did
<1>10. \A d : Loses(d)' <=> /\ o.reply.st = "ok"
                           /\ \/ p.fc \in {"Commit", "Rollback", "CloseDatabase"}
                              \/ p.fc = "CloseQuery" /\ c = d
  BY <1>1, <1>3, <1>9 DEF Loses
<1> HIDE DEF p, c
<1>11. \/ o.open = open
       \/ \E h \in FreeHandles, s \in Stmts : o.open = [open EXCEPT ![h] = s]
       \/ /\ p.fc = "CloseQuery" /\ o.reply.st = "ok"
          /\ o.open = [open EXCEPT ![p.h] = None]
       \/ p.fc \in {"Commit", "Rollback", "CloseDatabase"} /\ o.reply.st = "ok"
  BY <1>4, OpenAfter, CloseDatabaseAnswer
<1>12. HandleState'
  <2>1. ASSUME NEW d \in Cursors, handle[d] # None
        PROVE  Loses(d)' \/ open'[handle[d]] = result[d].stmt
    <3>1. CASE o.open = open
      BY <1>3, <1>7, <2>1, <3>1
    <3>2. ASSUME NEW h \in FreeHandles, NEW s, o.open = [open EXCEPT ![h] = s]
          PROVE  open'[handle[d]] = result[d].stmt
      BY <1>3, <1>7, <1>8, <1>t, <2>1, <3>2 DEF ServerTypeOK
    <3>3. CASE /\ p.fc = "CloseQuery" /\ o.reply.st = "ok"
               /\ o.open = [open EXCEPT ![p.h] = None]
      <4>1. p.h = handle[c] /\ c \in Cursors
        BY <1>5, <2>1, <3>3 DEF NoneHeld
      <4>2. CASE c = d
        BY <1>10, <3>3, <4>2
      <4>3. CASE c # d
        <5>1. handle[d] # p.h
          BY <1>7, <2>1, <4>1, <4>3
        <5> QED
          BY <1>3, <1>7, <1>t, <2>1, <3>3, <5>1 DEF ServerTypeOK
      <4> QED
        BY <4>2, <4>3
    <3>4. CASE p.fc \in {"Commit", "Rollback", "CloseDatabase"} /\ o.reply.st = "ok"
      BY <1>10, <3>4
    <3> QED
      BY <1>11, <3>1, <3>2, <3>3, <3>4
  <2> QED
    BY <1>3, <1>7, <2>1 DEF HandleState
<1>13. AnswerRows'
  <2>1. ASSUME p.fc = "PrepareAndExecute", o.reply.st = "ok"
        PROVE  \E s \in Stmts, n \in Nat :
                 /\ o.reply.done = {s} /\ o.reply.rows = RowsOf(s, 1, n)
                 /\ o.reply.h \in Handles /\ o.open[o.reply.h] = s
                 /\ \A d \in Cursors : handle[d] # o.reply.h
    <3>1. \E s \in p.stmts, h \in FreeHandles, n \in Nat :
            /\ o.open = [open EXCEPT ![h] = s]
            /\ o.reply.h = h
            /\ o.reply.rows = RowsOf(s, 1, n)
            /\ o.reply.done = {s}
            /\ Kind[s] = "insert" => o.lastId = s
      BY <1>4, <2>1, ExecuteAnswer
    <3>2. PICK s \in p.stmts, h \in FreeHandles, n \in Nat :
            /\ o.open = [open EXCEPT ![h] = s]
            /\ o.reply.h = h
            /\ o.reply.rows = RowsOf(s, 1, n)
            /\ o.reply.done = {s}
      BY <3>1
    <3>3. s \in Stmts
      BY <1>4 DEF Packets
    <3>4. h \in Handles /\ \A d \in Cursors : handle[d] # h
      BY <1>8
    <3>5. o.open[h] = s
      BY <1>t, <3>2, <3>4 DEF ServerTypeOK
    <3>6. /\ o.reply.done = {s} /\ o.reply.rows = RowsOf(s, 1, n)
          /\ o.reply.h \in Handles /\ o.open[o.reply.h] = s
          /\ \A d \in Cursors : handle[d] # o.reply.h
      BY <3>2, <3>4, <3>5
    <3> QED
      BY <3>3, <3>6
  <2>2. ASSUME p.fc = "Fetch", o.reply.st = "ok"
        PROVE  \E k \in Nat : o.reply.rows = RowsOf(result[c].stmt, p.from, k)
    <3>1. /\ p.h \in Handles /\ open[p.h] \in Stmts
          /\ \E k \in Nat : o.reply.rows = RowsOf(open[p.h], p.from, k)
      BY <1>4, <1>t, <2>2, FetchAnswer
    <3>2. c \in Cursors /\ p.h = handle[c]
      <4>1. open # NoHandles
        BY <3>1, NoneAssumption DEF NoHandles
      <4> QED
        BY <1>5, <2>2, <4>1
    <3>3. open[p.h] = result[c].stmt
      BY <1>7, <3>1, <3>2, NoneAssumption
    <3> QED
      BY <3>1, <3>3
  <2>3. Did("PrepareAndExecute")' =>
          \E s \in Stmts, n \in Nat :
            /\ TheAnswer'.reply.done = {s} /\ TheAnswer'.reply.rows = RowsOf(s, 1, n)
            /\ TheAnswer'.reply.h \in Handles
            /\ open'[TheAnswer'.reply.h] = s
            /\ \A d \in Cursors : handle'[d] # TheAnswer'.reply.h
    BY <1>3, <1>4, <1>9, <2>1
  <2>4. Did("Fetch")' =>
          \A u \in Tasks : owner' = u =>
            \E k \in Nat :
              TheAnswer'.reply.rows = RowsOf(result'[task'[u].cur].stmt, task'[u].pkt.from, k)
    BY <1>1, <1>3, <1>4, <1>9, <2>2 DEF p, c
  <2> QED
    BY <2>3, <2>4 DEF AnswerRows
<1>14. Right(task[t])'
  <2>1. ASSUME p.fc \in {"CloseQuery", "Fetch"}, open = NoHandles
        PROVE  open' = NoHandles
    <3>1. p.fc = "CloseQuery" => o.open = open \/ o.open = [open EXCEPT ![p.h] = None]
      BY <1>4, OpenAfter
    <3>2. p.fc = "Fetch" => o.open = open
      BY <1>4, OpenAfter
    <3>3. [NoHandles EXCEPT ![p.h] = None] = NoHandles
      BY DEF NoHandles
    <3> QED
      BY <1>3, <2>1, <3>1, <3>2, <3>3
  <2>2. Right(task[t])
    BY <1>t
  <2> QED
    BY <1>3, <2>1, <2>2 DEF Right, NoneHeld, p
<1>15. \A u \in Tasks \ {t} : IsIdle(u) /\ task'[u] = task[u]
  <2>1. ~IsIdle(t)
    BY <1>1, <1>t DEF TypeInv, CallsOK, LockKept, IsIdle
  <2> QED
    BY <1>3, <1>t, <2>1 DEF Alone
<1>16. Tracked' /\ Buffers'
  BY <1>3, <1>t, SameBuffers DEF Tracked
<1> QED
  BY <1>12, <1>13, <1>14, <1>15, <1>16, AllRight DEF RowInv

\* A session that dies frees them all.
LEMMA SessionLostRows ==
  ASSUME RowInv, SessionLost
  PROVE  RowInv'
<1> USE DEF cursorVars, lockVars
<1>1. /\ UNCHANGED <<task, owner, connected, handle, result, cursors, closed>>
      /\ ~up' /\ open' = NoHandles /\ responses' \in {responses, <<>>}
  BY DEF SessionLost, SessionEnds
<1>2. /\ \A fc : Did(fc)' => Did(fc)
      /\ HasAnswer' => TheAnswer' = TheAnswer
  BY <1>1 DEF Did, HasAnswer, TheAnswer
<1>3. HandleState' /\ Tracked' /\ Buffers'
  BY <1>1 DEF RowInv, HandleState, Tracked, Buffers, RowsOwned
<1>4. AnswerRows'
  BY <1>1, <1>2 DEF RowInv, AnswerRows, Did
<1>5. \A t \in Tasks : Right(task[t])'
  BY <1>1 DEF RowInv, Right, NoneHeld
<1> QED
  BY <1>3, <1>4, <1>5 DEF RowInv

\* Every step keeps RowInv.
LEMMA RowStep ==
  ASSUME AutocommitFixed, TurnInv, RowInv, TurnInv', cancels = 0, cancels' = 0,
         [Next]_vars, [OneAtATime]_vars
  PROVE  RowInv'
<1> USE DEF vars, serverVars, transportVars, cursorVars, lockVars
<1>1. CASE UNCHANGED vars
  BY <1>1
     DEF RowInv, HandleState, Tracked, AnswerRows, Buffers, RowsOwned, Right, NoneHeld, Loses,
         Did, HasAnswer, TheAnswer
<1>2. ASSUME NEW t \in Tasks, Invocation(t), ~UNCHANGED vars
      PROVE  RowInv'
  BY <1>2, InvocationRows DEF OneAtATime
<1>3. ASSUME NEW t \in Tasks, TaskStep(t)
      PROVE  RowInv'
  BY <1>3, TaskStepKinds, LockStepRows, ConnectionReplyRows, CursorReplyRows,
     FetchReplyRows DEF Replying
<1>4. ASSUME NEW t \in Tasks, Cancel(t)
      PROVE  FALSE
  BY <1>4 DEF Cancel, TurnInv, DataInv, TypeInv, HistoryOK
<1> QED
  BY <1>1, <1>2, <1>3, <1>4, ServerRows, SessionLostRows DEF Next

\* And so it is in every behaviour in which the tasks take turns.
LEMMA RowInvariant ==
  AutocommitFixed /\ Spec /\ [](cancels = 0) /\ TakeTurns => [](TurnInv /\ RowInv)
<1>1. AutocommitFixed /\ Init => AutocommitFixed /\ RowInv
  <2>1. \A s : RowsOf(s, 1, Len(<<>>)) = <<>>
    BY DEF RowsOf
  <2>2. Init => HandleState /\ Tracked /\ AnswerRows /\ Buffers
    BY <2>1 DEF Init, ServerInit, HandleState, Tracked, AnswerRows, Did, HasAnswer, Buffers,
                RowsOwned, NoResult
  <2>3. Init => \A t \in Tasks : Right(task[t])
    BY Parts, PacketFields DEF Init, Right, CursorOps
  <2> QED
    BY <2>2, <2>3 DEF RowInv
<1>2. (AutocommitFixed /\ RowInv) /\ TurnInv /\ TurnInv' /\ cancels = 0 /\ (cancels = 0)'
      /\ [Next]_vars /\ [OneAtATime]_vars => (AutocommitFixed /\ RowInv)'
  BY RowStep DEF AutocommitFixed
<1> QED
  BY <1>1, <1>2, TurnInvariant, PTL DEF Spec, TakeTurns

\* RowsOwned, for any tasks and cursors, when calls take turns, none is
\* cancelled, and the application leaves autocommit and the connection as they
\* are: the rows a cursor buffers are the first rows of the statement it ran, in
\* order, none twice and none of another's, whatever commits, pings, silent
\* reconnects, lost sessions and calls of other tasks come between two FETCHes.
THEOREM RowsAreOwned ==
  AutocommitFixed /\ Spec /\ [](cancels = 0) /\ TakeTurns => []RowsOwned
<1>1. RowInv => RowsOwned
  BY DEF RowInv, Buffers
<1> QED
  BY <1>1, RowInvariant, PTL
(***************************************************************************)
(* Part 5, the promise of ResultSets.tla, when tasks take turns.  A        *)
(* SELECT's buffer never holds more than its result, nor does it with what *)
(* an answer brings to it, and a fetch on its way has rows to ask for: a   *)
(* FETCH that succeeds brings some, and never goes past the end.           *)
(***************************************************************************)
FetchOps == {"fetchmany", "fetchall"}

WithinResult ==
  \A c \in Cursors :
    IF result[c].desc
    THEN /\ result[c].stmt \in Stmts
         /\ result[c].total = Size[result[c].stmt]
         /\ Len(result[c].rows) <= result[c].total
    ELSE result[c].rows = <<>> /\ result[c].index = 0

HasMore(c) == result[c].desc /\ Len(result[c].rows) < result[c].total

FetchHasMore == \A t \in Tasks : task[t].op \in FetchOps => HasMore(task[t].cur)

\* The cursor c has room for the rows of the answer, and the handle they came of.
RoomFor(c) ==
  /\ handle[c] # None
  /\ Len(result[c].rows) + Len(TheAnswer.reply.rows) <= result[c].total

AnswerBrings ==
  /\ Did("PrepareAndExecute") =>
       \A s \in TheAnswer.reply.done :
         /\ Len(TheAnswer.reply.rows) <= Size[s]
         /\ Kind[s] # "select" => TheAnswer.reply.rows = <<>>
  /\ Did("Fetch") => /\ TheAnswer.reply.rows # <<>>
                     /\ \A t \in Tasks : owner = t => RoomFor(task[t].cur)

ResultInv ==
  TurnInv /\ RowInv /\ WithinResult /\ FetchHasMore /\ AnswerBrings

(***************************************************************************)
(* What a step may do to the result sets.                                  *)
(***************************************************************************)
NoFetch == \A t \in Tasks : task[t].op \notin FetchOps

\* Handles may go; a fetch under way stays what it is.
HandlesGo ==
  /\ result' = result
  /\ \A c \in Cursors : handle'[c] \in {handle[c], None}
  /\ \A t \in Tasks : \/ task'[t].op \notin FetchOps
                      \/ task'[t].op = task[t].op /\ task'[t].cur = task[t].cur

OthersKeep(c) ==
  \A d \in Cursors \ {c} : result'[d] = result[d] /\ handle'[d] = handle[d]

\* Cursor c has no result set any more.
ResultEnds(c) ==
  /\ OthersKeep(c)
  /\ ~result'[c].desc /\ result'[c].rows = <<>> /\ result'[c].index = 0
  /\ NoFetch'

\* Cursor c has run the SELECT s.
ResultOpens(c, s) ==
  /\ OthersKeep(c)
  /\ handle'[c] # None
  /\ result'[c].desc /\ result'[c].stmt = s /\ result'[c].total = Size[s]
  /\ result'[c].index = 0 /\ Len(result'[c].rows) <= Size[s]
  /\ NoFetch'

\* Task t has taken rows from a buffer that a FETCH may have filled up.  It goes
\* on when the buffer is empty and there is more; otherwise it returns.
Enough(c, op, want, index) ==
  \/ op = "fetchmany" /\ index - result[c].index = want
  \/ index = Len(result'[c].rows) /\ (handle[c] = None \/ index = result[c].total)

ResultTaken(t, c, op, want, index) ==
  /\ result[c].desc /\ handle' = handle
  /\ result' = [result EXCEPT ![c] = Moved(result[c], result'[c].rows, index)]
  /\ result[c].index <= index /\ index <= Len(result'[c].rows)
  /\ Len(result'[c].rows) <= result[c].total
  /\ result'[c].rows = result[c].rows \/ handle[c] # None
  /\ \/ task'[t] = Idle /\ Enough(c, op, want, index)
     \/ /\ task'[t].op = op /\ task'[t].cur = c /\ ret' = "none"
        /\ index = Len(result'[c].rows) /\ index < result[c].total
  /\ \A u \in Tasks \ {t} : task'[u].op \notin FetchOps

ResultStep ==
  \/ HandlesGo
  \/ \E c \in Cursors :
       \/ ResultEnds(c)
       \/ \E s \in Stmts : ResultOpens(c, s)
       \/ \E t \in Tasks, op \in FetchOps, want, index \in Nat :
            ResultTaken(t, c, op, want, index)

\* A task that is idle fetches nothing.
LEMMA IdleFetches ==
  ASSUME Shape, NEW t \in Tasks, IsIdle(t)
  PROVE  task[t].op \notin FetchOps
  BY DEF Shape, Fits, IsIdle, FetchOps

\* Take is such a step.
LEMMA TakesResult ==
  ASSUME ResultInv, NEW t \in Tasks, NEW op \in FetchOps, NEW c \in Cursors,
         NEW rows \in Seq(Stmts \X Nat), NEW want \in Nat, Take(t, op, c, rows, want),
         handle' = handle, result[c].desc,
         Len(result[c].rows) <= Len(rows), Len(rows) <= result[c].total,
         rows = result[c].rows \/ handle[c] # None,
         \A u \in Tasks \ {t} : IsIdle(u)
  PROVE  \E index \in Nat : ResultTaken(t, c, op, want, index)
<1>t. TypeInv /\ CursorsOK /\ Buffers /\ Shape
  BY DEF ResultInv, TurnInv, DataInv, TypeInv, RowInv
<1> DEFINE available == Len(rows) - result[c].index
           take == IF op = "fetchall" THEN available ELSE Min2(available, want)
           index == result[c].index + take
           more == /\ op = "fetchall" \/ take < want
                   /\ handle[c] # None
                   /\ index < result[c].total
           left == IF op = "fetchall" THEN 0 ELSE want - take
           p == FetchPacket(handle[c], index)
           call == [Begin(op, c, p) EXCEPT !.want = left]
<1>1. /\ result[c].index \in Nat /\ Len(rows) \in Nat /\ result[c].total \in Nat
      /\ result[c].index <= Len(rows)
  <2>1. /\ result[c].index \in Nat /\ result[c].total \in Nat
        /\ Len(result[c].rows) \in Nat /\ Len(rows) \in Nat
        /\ result[c].index <= Len(result[c].rows)
    BY <1>t DEF CursorsOK, ResultRecords, Buffers
  <2> QED
    BY <2>1
<1>2. /\ index \in Nat /\ result[c].index <= index /\ index <= Len(rows)
      /\ \/ index = Len(rows)
         \/ op = "fetchmany" /\ index - result[c].index = want
      /\ more => index = Len(rows)
      /\ op = "fetchmany" /\ ~(take < want) => index - result[c].index = want
  <2>a. available \in Nat
    BY <1>1
  <2> HIDE DEF available
  <2>1. /\ take \in Nat /\ take <= available
        /\ take = available \/ (op = "fetchmany" /\ take = want)
        /\ op = "fetchall" \/ take < want => take = available
        /\ op = "fetchmany" /\ ~(take < want) => take = want
    <3>1. CASE op = "fetchall"
      BY <2>a, <3>1
    <3>2. CASE op = "fetchmany"
      BY <2>a, <3>2 DEF Min2
    <3> QED
      BY <3>1, <3>2 DEF FetchOps
  <2>2. Len(rows) = result[c].index + available
    BY <1>1 DEF available
  <2> HIDE DEF take
  <2> QED
    BY <1>1, <2>a, <2>1, <2>2
<1>3. result' = [result EXCEPT ![c] = Moved(result[c], rows, index)]
  BY DEF Take
<1>4. IF more THEN Wait(t, call) ELSE Finish(t, "returned")
  BY DEF Take
<1>5. more => handle[c] # None /\ index < result[c].total
  OBVIOUS
<1>6. ~more => \/ op = "fetchmany" /\ index - result[c].index = want
               \/ /\ index = Len(rows)
                  /\ handle[c] = None \/ ~(index < result[c].total)
  BY <1>2 DEF FetchOps
<1> HIDE DEF take, index, more, left, p
<1>7. result'[c].rows = rows
  BY <1>3, <1>t DEF CursorsOK, Moved
<1>8. call.op = op /\ call.cur = c
  BY DEF Begin, Idle
<1> HIDE DEF call
<1>9. /\ more => task'[t].op = op /\ task'[t].cur = c /\ ret' = "none"
      /\ ~more => task'[t] = Idle
  BY <1>4, <1>8, <1>t, TaskAfter DEF Wait
<1>10. ~(index < result[c].total) /\ index = Len(rows) => index = result[c].total
  BY <1>1, <1>2
<1>11. \A u \in Tasks \ {t} : task'[u].op \notin FetchOps
  <2>1. OthersKept(t)
    BY <1>4, <1>t, OneTask
  <2> QED
    BY <1>t, <2>1, IdleFetches DEF OthersKept
<1>12. ResultTaken(t, c, op, want, index)
  BY <1>2, <1>3, <1>5, <1>6, <1>7, <1>9, <1>10, <1>11 DEF ResultTaken, Enough
<1> QED
  BY <1>2, <1>12
\* When t makes the step, what it fetches is all that is fetched.
LEMMA OnlyFetch ==
  ASSUME Shape, NEW t \in Tasks, \A u \in Tasks \ {t} : IsIdle(u) /\ task'[u] = task[u],
         task'[t].op \notin FetchOps
  PROVE  NoFetch'
  BY IdleFetches DEF NoFetch

\* A step that leaves the result sets as they are.
LEMMA SameResults ==
  ASSUME Shape, NEW t \in Tasks, \A u \in Tasks \ {t} : IsIdle(u) /\ task'[u] = task[u],
         result' = result, \A c \in Cursors : handle'[c] \in {handle[c], None},
         \/ task'[t].op \notin FetchOps
         \/ task'[t].op = task[t].op /\ task'[t].cur = task[t].cur
  PROVE  ResultStep
  BY IdleFetches DEF ResultStep, HandlesGo

\* A cursor keeps its handle or loses it.
LEMMA HandlesAfter ==
  ASSUME CursorsOK,
         \/ handle' = handle \/ handle' = Invalidated
         \/ \E c : handle' = [handle EXCEPT ![c] = None]
         \/ \E gone : CursorsClosed(gone)
  PROVE  \A c \in Cursors : handle'[c] \in {handle[c], None}
  BY DEF Invalidated, CursorsOK, CursorsClosed

\* The calls.
LEMMA ResultInvocation ==
  ASSUME ResultInv, NEW t \in Tasks, Invocation(t), \A u \in Tasks : IsIdle(u)
  PROVE  ResultStep
<1> USE DEF NoCursorChange, cursorVars
<1>t. TypeInv /\ CursorsOK /\ Shape /\ WithinResult
  BY DEF ResultInv, TurnInv, DataInv, TypeInv
<1>o. \A u \in Tasks \ {t} : IsIdle(u) /\ task'[u] = task[u]
  BY <1>t, InvocationTasks DEF OthersKept
<1>a. /\ \A call : Wait(t, call) => task'[t] = call
      /\ \A st : Finish(t, st) => task'[t] = Idle
  BY <1>t, TaskAfter
<1>s. ASSUME result' = result, \A c \in Cursors : handle'[c] \in {handle[c], None},
             task'[t].op \notin FetchOps
      PROVE  ResultStep
  BY <1>o, <1>s, <1>t, SameResults
<1>1. CASE \/ ConnectCall(t) \/ PingCall(t) \/ EndTranCall(t) \/ SetAutocommitCall(t)
           \/ QueryCall(t)
  <2>1. result' = result /\ (handle' = handle \/ handle' = Invalidated)
    BY <1>1 DEF ConnectCall, PingCall, EndTranCall, SetAutocommitCall, QueryCall
  <2>2. task'[t].op \notin FetchOps
    <3>1. CASE ConnectCall(t)
      BY <1>a, <3>1, Parts DEF ConnectCall, FetchOps
    <3>2. CASE PingCall(t)
      <4>1. \/ \E v : task'[t] = [Begin("ping", None, CheckCasPacket) EXCEPT !.flag = v]
            \/ task'[t] = BeginFor("ping", "connect")
        BY <1>a, <3>2, Zenon DEF PingCall
      <4> QED
        BY <4>1 DEF Begin, BeginFor, Idle, FetchOps
    <3>3. CASE EndTranCall(t)
      BY <1>a, <3>3, Parts DEF EndTranCall, FetchOps
    <3>4. CASE SetAutocommitCall(t)
      <4>1. PICK v : task'[t] = [Begin("set_autocommit", None, SetDbParameterPacket(v))
                                   EXCEPT !.flag = v]
        BY <1>a, <3>4, Zenon DEF SetAutocommitCall
      <4> QED
        BY <4>1 DEF Begin, Idle, FetchOps
    <3>5. CASE QueryCall(t)
      BY <1>a, <3>5, Parts DEF QueryCall, FetchOps
    <3> QED
      BY <1>1, <3>1, <3>2, <3>3, <3>4, <3>5
  <2> QED
    BY <1>s, <1>t, <2>1, <2>2, HandlesAfter
<1>2. CASE CloseCall(t)
  <2>1. /\ task'[t].op \in {"close", "none"}
        /\ \/ handle' = handle /\ result' = result
           \/ \E gone : CursorsClosed(gone)
    <3>1. CASE CloseGoesOn(t, {}, cursors)
      BY <1>t, <3>1, CloseParts
    <3>2. CASE Finish(t, "returned") /\ UNCHANGED <<cursors, cursorVars>>
      BY <1>a, <3>2, Parts
    <3> QED
      BY <1>2, <3>1, <3>2 DEF CloseCall
  <2>2. result' = result
    BY <2>1 DEF CursorsClosed
  <2> QED
    BY <1>s, <1>t, <2>1, <2>2, HandlesAfter DEF FetchOps
<1>3. ASSUME NEW c \in Cursors, NewCursor(t, c)
      PROVE  ResultStep
  <2>1. task'[t].op \notin FetchOps
    BY <1>3, <1>t, IdleFetches DEF NewCursor
  <2>2. NoFetch'
    BY <1>o, <1>t, <2>1, OnlyFetch
  <2>3. OthersKeep(c) /\ result'[c] = NoResult
    BY <1>3, <1>t DEF NewCursor, OthersKeep, CursorsOK
  <2> QED
    BY <2>2, <2>3 DEF NoResult, ResultStep, ResultEnds
<1>4. ASSUME NEW c \in Cursors, CursorCloseCall(t, c)
      PROVE  ResultStep
  <2>1. /\ \/ result' = result /\ handle' = handle
           \/ \E gone : CursorsClosed(gone)
        /\ task'[t] = Idle \/ task'[t] = Begin("cursor_close", c, CloseQueryPacket(handle[c]))
    BY <1>4, <1>a DEF CursorCloseCall
  <2>2. result' = result
    BY <2>1 DEF CursorsClosed
  <2>3. task'[t].op \notin FetchOps
    BY <2>1, Parts DEF FetchOps
  <2> QED
    BY <1>s, <1>t, <2>1, <2>2, <2>3, HandlesAfter
<1>5. ASSUME NEW c \in Cursors, ExecuteCall(t, c) \/ ExecutemanyBatchCall(t, c)
      PROVE  ResultStep
  <2>1. \E op \in {"execute", "executemany_batch"} : \E p, v :
          Wait(t, [Begin(op, c, p) EXCEPT !.stmts = v])
    BY <1>5 DEF ExecuteCall, ExecutemanyBatchCall
  <2>2. \E op \in {"execute", "executemany_batch"} : \E p, v :
          task'[t] = [Begin(op, c, p) EXCEPT !.stmts = v]
    BY <1>a, <2>1, Zenon
  <2>3. task'[t].op \in {"execute", "executemany_batch"}
    BY <2>2 DEF Begin, Idle
  <2>4. result' = result /\ handle' = handle
    BY <1>5 DEF ExecuteCall, ExecutemanyBatchCall
  <2> QED
    BY <1>s, <2>3, <2>4 DEF FetchOps
<1>6. ASSUME NEW c \in Cursors, FetchmanyCall(t, c) \/ FetchallCall(t, c)
      PROVE  ResultStep
  <2>1. PICK op \in FetchOps, n \in Nat : Take(t, op, c, result[c].rows, n)
    BY <1>6, WantSizesAssumption DEF FetchmanyCall, FetchallCall, FetchOps
  <2>2. handle' = handle /\ result[c].desc
    BY <1>6 DEF FetchmanyCall, FetchallCall, Fetchable
  <2>3. /\ result[c].rows \in Seq(Stmts \X Nat)
        /\ Len(result[c].rows) <= Len(result[c].rows)
        /\ Len(result[c].rows) <= result[c].total
    BY <1>t, <2>2 DEF CursorsOK, ResultRecords, WithinResult
  <2>4. \E index \in Nat : ResultTaken(t, c, op, n, index)
    BY <1>o, <2>1, <2>2, <2>3, TakesResult
  <2> QED
    BY <2>4 DEF ResultStep
<1> QED
  BY <1>1, <1>2, <1>3, <1>4, <1>5, <1>6 DEF Invocation

\* The steps before the last exchange, and the end of close().
LEMMA ResultLockStep ==
  ASSUME ResultInv, NEW t \in Tasks, TaskStep(t), LockStep(t) \/ CloseEnds(t)
  PROVE  ResultStep
<1> USE DEF NoCursorChange, cursorVars
<1>t. TypeInv /\ CursorsOK /\ Shape /\ Alone /\ task[t] \in TaskRecords
  BY DEF ResultInv, TurnInv, DataInv, TypeInv, CallsOK
<1>1. \A u \in Tasks \ {t} : IsIdle(u) /\ task'[u] = task[u]
  BY <1>t, StepsAlone
<1>2. result' = result /\ (handle' = handle \/ handle' = Invalidated)
  BY DEF LockStep, SendRequest, CheckReconnect, Reconnected, AlreadyConnected,
         StartHandshake, ConnectEnds, PingDrop, CloseEnds
<1>3. \/ \E at \in {"read", "connect"} : task'[t] = At(task[t], at)
      \/ task'[t] = Idle \/ task'[t] = BeginFor("ping", "connect")
  BY <1>t, TaskAfter, Zenon
     DEF LockStep, SendRequest, CheckReconnect, Reconnected, AlreadyConnected,
         StartHandshake, ConnectEnds, PingDrop, CloseEnds, Write
<1>4. \/ task'[t].op \notin FetchOps
      \/ task'[t].op = task[t].op /\ task'[t].cur = task[t].cur
  BY <1>t, <1>3, AtType, Parts DEF FetchOps
<1>5. \A c \in Cursors : handle'[c] \in {handle[c], None}
  BY <1>2, <1>t, HandlesAfter
<1> QED
  BY <1>1, <1>2, <1>4, <1>5, <1>t, SameResults
\* The answers the connection reads.
LEMMA ResultConnectionReply ==
  ASSUME AutocommitFixed, ResultInv, NEW t \in Tasks, TaskStep(t),
         \/ PingReply(t) \/ EndTranReply(t) \/ SetAutocommitReply(t) \/ QueryReply(t)
         \/ CloseCursorReply(t) \/ CursorCloseReply(t)
  PROVE  ResultStep
<1> USE DEF NoCursorChange, cursorVars
<1>t. TypeInv /\ CursorsOK /\ Shape /\ Alone /\ Right(task[t])
  BY DEF ResultInv, TurnInv, DataInv, TypeInv, RowInv
<1>1. \A u \in Tasks \ {t} : IsIdle(u) /\ task'[u] = task[u]
  BY <1>t, StepsAlone
<1>2. result' = result
  BY DEF PingReply, EndTranReply, SetAutocommitReply, QueryReply,
         CloseCursorReply, CursorCloseReply, CursorsClosed, CloseGoesOn
<1>a. /\ \A call : Wait(t, call) => task'[t] = call
      /\ \A st : Finish(t, st) => task'[t] = Idle
  BY <1>t, TaskAfter
<1>s. ASSUME \/ handle' = handle \/ handle' = Invalidated
             \/ \E gone : CursorsClosed(gone),
             \/ task'[t] = Idle \/ task'[t] = BeginFor("ping", "drop")
             \/ task'[t].op = "close"
      PROVE  ResultStep
  <2>1. task'[t].op \notin FetchOps
    BY <1>s, Parts DEF FetchOps
  <2>2. \A c \in Cursors : handle'[c] \in {handle[c], None}
    BY <1>s, <1>t, HandlesAfter
  <2> QED
    BY <1>1, <1>2, <1>t, <2>1, <2>2, SameResults
<1>3. CASE PingReply(t)
  <2>1. Wait(t, BeginFor("ping", "drop")) \/ \E st : Finish(t, st)
    BY <1>3, <1>t, PingGoesOn
  <2>2. handle' = handle
    BY <1>3 DEF PingReply
  <2> QED
    BY <1>a, <1>s, <2>1, <2>2
<1>4. CASE EndTranReply(t) \/ QueryReply(t)
  <2>1. (\E st : Finish(t, st)) /\ (handle' = handle \/ handle' = Invalidated)
    BY <1>4, Zenon DEF EndTranReply, QueryReply
  <2> QED
    BY <1>a, <1>s, <2>1
<1>5. ~SetAutocommitReply(t)
  BY <1>t DEF SetAutocommitReply, Right, AutocommitFixed
<1>6. CASE CloseCursorReply(t)
  <2>1. task'[t].op = "close" /\ \E gone : CursorsClosed(gone)
    BY <1>6, <1>t, CloseParts DEF CloseCursorReply
  <2> QED
    BY <1>s, <2>1
<1>7. CASE CursorCloseReply(t)
  <2>1. (\E st : Finish(t, st)) /\ CursorsClosed({task[t].cur})
    BY <1>7 DEF CursorCloseReply
  <2> QED
    BY <1>a, <1>s, <2>1
<1> QED
  BY <1>3, <1>4, <1>5, <1>6, <1>7

\* An execute that succeeds gives the cursor a handle, and a result set if it
\* has run a SELECT.
LEMMA ResultExecuted ==
  ASSUME ResultInv, cancels = 0, NEW t \in Tasks, NEW r \in PossibleReplies(t),
         SendAndReceive(t, r), r.st = "ok", task[t].pkt.fc = "PrepareAndExecute",
         task[t].cur \in Cursors, NEW s \in r.done,
         handle' = [handle EXCEPT ![task[t].cur] = r.h],
         result' = [result EXCEPT ![task[t].cur] = ResultOf(s, r.rows)], NoFetch'
  PROVE  ResultStep
<1> DEFINE c == task[t].cur
<1>t. TurnInv /\ CursorsOK /\ AnswerRows /\ AnswerBrings
  BY DEF ResultInv, TurnInv, DataInv, TypeInv, RowInv
<1>1. Did("PrepareAndExecute") /\ r = TheAnswer.reply
  BY <1>t, ExchangeReads DEF Did
<1> HIDE DEF c
<1>2. s \in Stmts /\ r.h \in Handles
  BY <1>1, <1>t DEF AnswerRows
<1>3. Len(r.rows) <= Size[s] /\ (Kind[s] # "select" => r.rows = <<>>)
  BY <1>1, <1>t DEF AnswerBrings
<1>4. c \in Cursors /\ OthersKeep(c) /\ handle'[c] # None /\ result'[c] = ResultOf(s, r.rows)
  BY <1>2, <1>t, NoneAssumption DEF OthersKeep, CursorsOK, c
<1>5. /\ result'[c].desc = (Kind[s] = "select")
      /\ result'[c].stmt = s /\ result'[c].total = Size[s]
      /\ result'[c].index = 0 /\ result'[c].rows = r.rows
  BY <1>4 DEF ResultOf
<1>6. CASE Kind[s] = "select"
  BY <1>2, <1>3, <1>4, <1>5, <1>6 DEF ResultStep, ResultOpens
<1>7. CASE Kind[s] # "select"
  BY <1>3, <1>4, <1>5, <1>7 DEF ResultStep, ResultEnds
<1> QED
  BY <1>6, <1>7

\* The answers to the requests of execute() and executemany_batch().
LEMMA ResultCursorReply ==
  ASSUME ResultInv, cancels = 0, NEW t \in Tasks, TaskStep(t),
         \/ ExecuteCloseReply(t) \/ ExecuteReply(t) \/ LastRowIdReply(t)
         \/ ExecutemanyBatchReply(t)
  PROVE  ResultStep
<1> DEFINE c == task[t].cur
<1>t. /\ TypeInv /\ CursorsOK /\ Shape /\ Alone /\ Right(task[t])
      /\ task[t] \in TaskRecords
  BY DEF ResultInv, TurnInv, DataInv, TypeInv, CallsOK, RowInv
<1>1. \A u \in Tasks \ {t} : IsIdle(u) /\ task'[u] = task[u]
  BY <1>t, StepsAlone
<1>2. /\ task[t].op \in {"execute", "executemany_batch"} /\ c \in Cursors
  <2>1. task[t].op \in {"execute", "executemany_batch"}
    BY DEF ExecuteCloseReply, ExecuteReply, LastRowIdReply, ExecutemanyBatchReply
  <2> QED
    BY <1>t, <2>1 DEF Right, CursorOps, CursorsOK
<1>3. (\E st : Finish(t, st)) \/ \E p : Wait(t, [task[t] EXCEPT !.at = "lock", !.pkt = p])
  BY Zenon DEF ExecuteCloseReply, ExecuteReply, LastRowIdReply, ExecutemanyBatchReply
<1>4. task'[t].op \notin FetchOps
  <2>1. task'[t] = Idle \/ \E p : task'[t] = [task[t] EXCEPT !.at = "lock", !.pkt = p]
    BY <1>3, <1>t, TaskAfter, Zenon
  <2>2. ASSUME NEW p, task'[t] = [task[t] EXCEPT !.at = "lock", !.pkt = p]
        PROVE  task'[t].op = task[t].op
    BY <1>t, <2>2 DEF TaskRecords
  <2>3. task'[t] = Idle => task'[t].op = "none"
    BY Parts
  <2>4. task'[t].op \in {"none", task[t].op}
    BY <2>1, <2>2, <2>3, Zenon
  <2> QED
    BY <1>2, <2>4 DEF FetchOps
<1>5. NoFetch'
  BY <1>1, <1>4, <1>t, OnlyFetch
<1>s. ASSUME result' = result,
             handle' = handle \/ \E d : handle' = [handle EXCEPT ![d] = None]
      PROVE  ResultStep
  BY <1>1, <1>4, <1>s, <1>t, HandlesAfter, SameResults
<1>6. CASE ExecuteCloseReply(t) \/ LastRowIdReply(t)
  BY <1>6, <1>s DEF ExecuteCloseReply, LastRowIdReply
<1>7. CASE ExecuteReply(t)
  <2>1. PICK r \in PossibleReplies(t) :
          /\ SendAndReceive(t, r)
          /\ \/ /\ r.st = "ok"
                /\ \E s \in r.done :
                   /\ handle' = [handle EXCEPT ![task[t].cur] = r.h]
                   /\ result' = [result EXCEPT ![task[t].cur] = ResultOf(s, r.rows)]
             \/ r.st # "ok" /\ UNCHANGED <<handle, result>>
    BY <1>7, Zenon DEF ExecuteReply
  <2>2. task[t].pkt.fc = "PrepareAndExecute"
    BY <1>7 DEF ExecuteReply
  <2>3. CASE r.st = "ok"
    BY <1>2, <1>5, <2>1, <2>2, <2>3, ResultExecuted
  <2>4. CASE UNCHANGED <<handle, result>>
    BY <1>s, <2>4
  <2> QED
    BY <2>1, <2>3, <2>4
<1>8. CASE ExecutemanyBatchReply(t)
  <2>1. \/ /\ result' = [result EXCEPT ![c] = WithoutRows(result[c])]
           /\ handle' = [handle EXCEPT ![c] = None]
        \/ UNCHANGED <<handle, result>>
    BY <1>8 DEF ExecutemanyBatchReply
  <2> HIDE DEF c
  <2>2. CASE /\ result' = [result EXCEPT ![c] = WithoutRows(result[c])]
             /\ handle' = [handle EXCEPT ![c] = None]
    <3>1. OthersKeep(c) /\ result'[c] = WithoutRows(result[c])
      BY <1>2, <1>t, <2>2 DEF OthersKeep, CursorsOK
    <3>2. ResultEnds(c)
      BY <1>5, <3>1 DEF ResultEnds, WithoutRows
    <3> QED
      BY <1>2, <3>2 DEF ResultStep
  <2>3. CASE UNCHANGED <<handle, result>>
    BY <1>s, <2>3
  <2> QED
    BY <2>1, <2>2, <2>3
<1> QED
  BY <1>6, <1>7, <1>8
\* A FETCH that succeeds brings rows, and the cursor has the handle it used.
LEMMA ResultFetched ==
  ASSUME ResultInv, cancels = 0, NEW t \in Tasks, NEW r \in PossibleReplies(t),
         SendAndReceive(t, r), r.st = "ok", task[t].op \in FetchOps, NEW c \in Cursors,
         c = task[t].cur
  PROVE  /\ r.rows # <<>> /\ handle[c] # None
         /\ result[c].rows \o r.rows \in Seq(Stmts \X Nat)
         /\ Len(result[c].rows) <= Len(result[c].rows \o r.rows)
         /\ Len(result[c].rows \o r.rows) <= result[c].total
<1>t. TurnInv /\ TypeInv /\ CursorsOK /\ AnswerBrings /\ Fits(task[t])
  BY DEF ResultInv, TurnInv, DataInv, TypeInv, Shape
<1>1. task[t].pkt.fc = "Fetch"
  BY <1>t DEF Fits, FcsOf, FetchOps
<1>2. Did("Fetch") /\ owner = t /\ r = TheAnswer.reply
  BY <1>1, <1>t, ExchangeReads DEF Did
<1>3. /\ r.rows # <<>> /\ handle[c] # None
      /\ Len(result[c].rows) + Len(r.rows) <= result[c].total
  BY <1>2, <1>t DEF AnswerBrings, RoomFor
<1>4. result[c].rows \in Seq(Stmts \X Nat) /\ r.rows \in Seq(Stmts \X Nat)
  BY <1>t, RepliesIn DEF CursorsOK, ResultRecords, Replies, TypeInv
<1>5. /\ result[c].rows \o r.rows \in Seq(Stmts \X Nat)
      /\ Len(result[c].rows) <= Len(result[c].rows \o r.rows)
  BY <1>4, JoinLonger
<1>6. Len(result[c].rows \o r.rows) = Len(result[c].rows) + Len(r.rows)
  BY <1>4
<1> QED
  BY <1>3, <1>5, <1>6

\* The answer to a FETCH: a fetch that returns has taken what it found.
LEMMA FetchReplyTakes ==
  ASSUME ResultInv, cancels = 0, NEW t \in Tasks, TaskStep(t), FetchReply(t)
  PROVE  /\ task[t].op \in FetchOps /\ task[t].cur \in Cursors /\ task[t].want \in Nat
         /\ \/ \E index \in Nat :
                 ResultTaken(t, task[t].cur, task[t].op, task[t].want, index)
            \/ HandlesGo /\ ret' # "returned"
<1> DEFINE c == task[t].cur
<1>t. /\ TypeInv /\ CursorsOK /\ Shape /\ Alone /\ Right(task[t])
      /\ task[t] \in TaskRecords /\ FetchHasMore
  BY DEF ResultInv, TurnInv, DataInv, TypeInv, CallsOK, RowInv
<1>1. \A u \in Tasks \ {t} : IsIdle(u) /\ task'[u] = task[u]
  BY <1>t, StepsAlone
<1>2. /\ task[t].op \in FetchOps /\ c \in Cursors /\ task[t].want \in Nat
      /\ handle' = handle
  <2>1. task[t].op \in FetchOps /\ handle' = handle
    BY DEF FetchReply, FetchOps
  <2> QED
    BY <1>t, <2>1 DEF Right, CursorOps, CursorsOK, TaskRecords, FetchOps
<1>3. result[c].desc
  BY <1>2, <1>t DEF FetchHasMore, HasMore
<1> HIDE DEF c
<1>4. PICK r \in PossibleReplies(t) :
        /\ SendAndReceive(t, r)
        /\ \/ r.st = "ok" /\ Take(t, task[t].op, c, result[c].rows \o r.rows, task[t].want)
           \/ /\ r.st = "ok" => r.rows = <<>>
              /\ Finish(t, IF r.st = "ok" THEN "returned" ELSE "raised")
              /\ UNCHANGED result
  BY DEF FetchReply, c
<1>5. CASE r.st = "ok" /\ Take(t, task[t].op, c, result[c].rows \o r.rows, task[t].want)
  <2> DEFINE rows == result[c].rows \o r.rows
  <2>1. /\ handle[c] # None /\ rows \in Seq(Stmts \X Nat)
        /\ Len(result[c].rows) <= Len(rows) /\ Len(rows) <= result[c].total
    BY <1>2, <1>4, <1>5, ResultFetched DEF c
  <2> HIDE DEF rows
  <2>2. Take(t, task[t].op, c, rows, task[t].want)
    BY <1>5 DEF rows
  <2>3. \E index \in Nat : ResultTaken(t, c, task[t].op, task[t].want, index)
    BY <1>1, <1>2, <1>3, <2>1, <2>2, TakesResult
  <2> QED
    BY <1>2, <2>3 DEF c
<1>6. CASE /\ r.st = "ok" => r.rows = <<>>
           /\ Finish(t, IF r.st = "ok" THEN "returned" ELSE "raised")
           /\ UNCHANGED result
  <2>1. r.st # "ok"
    BY <1>2, <1>4, <1>6, ResultFetched DEF c
  <2>2. task'[t].op \notin FetchOps /\ ret' = "raised"
    BY <1>6, <1>t, <2>1, TaskAfter, Parts DEF Finish, FetchOps
  <2>3. HandlesGo
    BY <1>1, <1>2, <1>6, <1>t, <2>2, IdleFetches DEF HandlesGo
  <2> QED
    BY <1>2, <2>2, <2>3 DEF c
<1> QED
  BY <1>4, <1>5, <1>6

\* Every step is one of these.
LEMMA ResultNext ==
  ASSUME AutocommitFixed, ResultInv, cancels = 0, cancels' = 0,
         [Next]_vars, [OneAtATime]_vars
  PROVE  ResultStep
<1> USE DEF vars, serverVars, transportVars, cursorVars, lockVars
<1>1. CASE UNCHANGED vars \/ ServerAnswers \/ SessionLost
  <2>1. UNCHANGED <<result, handle, task>>
    BY <1>1 DEF ServerAnswers, SessionLost
  <2> QED
    BY <2>1 DEF ResultStep, HandlesGo
<1>2. ASSUME NEW t \in Tasks, Invocation(t), ~UNCHANGED vars
      PROVE  ResultStep
  BY <1>2, ResultInvocation DEF OneAtATime
<1>3. ASSUME NEW t \in Tasks, TaskStep(t)
      PROVE  ResultStep
  <2>1. CASE FetchReply(t)
    BY <1>3, <2>1, FetchReplyTakes DEF ResultStep
  <2> QED
    BY <1>3, <2>1, TaskStepKinds, ResultLockStep, ResultConnectionReply, ResultCursorReply
       DEF Replying
<1>4. ASSUME NEW t \in Tasks, Cancel(t)
      PROVE  FALSE
  BY <1>4 DEF Cancel, ResultInv, TurnInv, DataInv, TypeInv, HistoryOK
<1> QED
  BY <1>1, <1>2, <1>3, <1>4 DEF Next
\* What the session brings to a cursor.
LEMMA ServerBrings ==
  ASSUME ResultInv, cancels = 0, ServerAnswers
  PROVE  AnswerBrings'
<1> USE DEF cursorVars
<1>t. /\ TurnInv /\ CursorsOK /\ ServerTypeOK /\ HandleState /\ WithinResult /\ FetchHasMore
      /\ \A t \in Tasks : Fits(task[t]) /\ Right(task[t]) /\ task[t] \in TaskRecords
  BY DEF ResultInv, TurnInv, DataInv, TypeInv, WireOK, CallsOK, RowInv, Shape
<1>1. PICK t \in Tasks : \E o \in Outcomes(task[t].pkt) :
           /\ task[t].pkt \in Packets /\ owner = t /\ connected
           /\ Serve(o)
           /\ ~HasAnswer /\ HasAnswer'
           /\ TheAnswer'.fc = task[t].pkt.fc /\ TheAnswer'.reply = o.reply
  BY <1>t, Answering
<1>2. PICK o \in Outcomes(task[t].pkt) :
           /\ Serve(o)
           /\ TheAnswer'.fc = task[t].pkt.fc /\ TheAnswer'.reply = o.reply
  BY <1>1
<1> DEFINE p == task[t].pkt
           c == task[t].cur
<1>3. UNCHANGED <<task, owner, connected, handle, result>> /\ up
  BY <1>2 DEF Serve, ServerAnswers, lockVars
<1>4. /\ p \in Packets /\ o \in Outcomes(p) /\ ~HasAnswer
      /\ TheAnswer'.fc = p.fc /\ TheAnswer'.reply = o.reply
  BY <1>1, <1>2
<1>5. ASSUME p.fc = "PrepareAndExecute", o.reply.st = "ok", NEW s \in o.reply.done
      PROVE  /\ Len(o.reply.rows) <= Size[s]
             /\ Kind[s] # "select" => o.reply.rows = <<>>
  <2> HIDE DEF p
  <2>1. PICK e \in p.stmts : /\ o.reply.done = {e}
                             /\ Len(o.reply.rows) <= Size[e]
                             /\ Kind[e] # "select" => o.reply.rows = <<>>
    BY <1>4, <1>5, ExecuteBrings
  <2>2. s = e
    BY <1>5, <2>1
  <2> QED
    BY <2>1, <2>2
<1>6. ASSUME p.fc = "Fetch", o.reply.st = "ok"
      PROVE  /\ o.reply.rows # <<>> /\ handle[c] # None
             /\ Len(result[c].rows) + Len(o.reply.rows) <= result[c].total
  <2>1. task[t].op \in FetchOps /\ c \in Cursors
    <3>1. Fits(task[t]) /\ Right(task[t]) /\ cursors \subseteq Cursors
      BY <1>t DEF CursorsOK
    <3>2. task[t].op \in FetchOps
      BY <1>6, <3>1 DEF Fits, FcsOf, FetchOps
    <3> QED
      BY <3>1, <3>2 DEF Right, CursorOps, FetchOps
  <2>2. /\ p.h = handle[c] \/ open = NoHandles
        /\ p.from = Len(result[c].rows) + 1
    BY <1>6, <1>t DEF Right
  <2>3. result[c].desc /\ Len(result[c].rows) < result[c].total
    BY <1>t, <2>1 DEF FetchHasMore, HasMore
  <2> HIDE DEF p, c
  <2>4. p.h \in Handles /\ open[p.h] \in Stmts
    BY <1>4, <1>6, <1>t, FetchAnswer
  <2>5. p.h = handle[c] /\ handle[c] # None
    <3>1. open # NoHandles
      BY <2>4, NoneAssumption DEF NoHandles
    <3> QED
      BY <2>2, <2>4, <3>1, NoneAssumption
  <2>6. ~Loses(c)
    BY <1>4 DEF Loses, Did
  <2>7. open[p.h] = result[c].stmt
    BY <1>1, <1>3, <1>t, <2>1, <2>5, <2>6 DEF HandleState
  <2> DEFINE n == Len(result[c].rows)
  <2>8. /\ n \in Nat /\ p.from = n + 1 /\ n < Size[open[p.h]]
        /\ result[c].total = Size[open[p.h]]
    BY <1>t, <2>1, <2>2, <2>3, <2>7 DEF CursorsOK, ResultRecords, WithinResult
  <2>9. o.reply.rows # <<>> /\ n + Len(o.reply.rows) <= Size[open[p.h]]
    BY <1>4, <1>6, <1>t, <2>8, FetchBrings
  <2> QED
    BY <2>5, <2>8, <2>9
<1>7. \A fc : Did(fc)' => p.fc = fc /\ o.reply.st = "ok"
  BY <1>4 DEF Did
<1>8. Did("PrepareAndExecute")' =>
        \A s \in TheAnswer'.reply.done :
          /\ Len(TheAnswer'.reply.rows) <= Size[s]
          /\ Kind[s] # "select" => TheAnswer'.reply.rows = <<>>
  BY <1>4, <1>5, <1>7
<1>9. Did("Fetch")' =>
        /\ TheAnswer'.reply.rows # <<>>
        /\ \A u \in Tasks : owner' = u => RoomFor(task[u].cur)'
  BY <1>1, <1>3, <1>4, <1>6, <1>7 DEF RoomFor
<1> QED
  BY <1>8, <1>9 DEF AnswerBrings

\* Every step keeps AnswerBrings.
LEMMA BringsNext ==
  ASSUME ResultInv, TurnInv', cancels = 0, cancels' = 0, [Next]_vars, [OneAtATime]_vars
  PROVE  AnswerBrings'
<1> USE DEF vars, serverVars, transportVars, cursorVars, lockVars
<1>t. TurnInv /\ AnswerBrings /\ TypeInv' /\ WireInv'
  BY DEF ResultInv, TurnInv, DataInv
<1>0. ~HasAnswer' => AnswerBrings'
  BY DEF AnswerBrings, Did
<1>1. CASE UNCHANGED vars
  BY <1>1, <1>t DEF AnswerBrings, Did, HasAnswer, TheAnswer, RoomFor
<1>2. ASSUME NEW t \in Tasks, Invocation(t), ~UNCHANGED vars
      PROVE  AnswerBrings'
  BY <1>0, <1>2, <1>t, EmptyStreams DEF OneAtATime
<1>3. ASSUME NEW t \in Tasks, TaskStep(t)
      PROVE  AnswerBrings'
  BY <1>0, <1>3, <1>t, TaskStepKinds, EmptyStreams
<1>4. ASSUME NEW t \in Tasks, Cancel(t)
      PROVE  FALSE
  BY <1>4 DEF Cancel, ResultInv, TurnInv, DataInv, TypeInv, HistoryOK
<1>5. CASE SessionLost
  <2>1. /\ UNCHANGED <<task, owner, handle, result>>
        /\ responses' \in {responses, <<>>}
    BY <1>5 DEF SessionLost, SessionEnds
  <2>2. HasAnswer' => HasAnswer /\ TheAnswer' = TheAnswer
    BY <2>1 DEF HasAnswer, TheAnswer
  <2>3. \A fc : Did(fc)' => Did(fc) /\ TheAnswer' = TheAnswer
    BY <2>2 DEF Did
  <2>4. \A c : RoomFor(c) => TheAnswer' # TheAnswer \/ RoomFor(c)'
    BY <2>1 DEF RoomFor
  <2> QED
    BY <1>t, <2>1, <2>3, <2>4 DEF AnswerBrings
<1> QED
  BY <1>1, <1>2, <1>3, <1>4, <1>5, ServerBrings DEF Next

(***************************************************************************)
(* What ResultSets.tla sees of the cursors.                                *)
(***************************************************************************)
ResultShape ==
  \A c \in Cursors :
    /\ result[c].index \in Nat /\ Len(result[c].rows) \in Nat /\ result[c].total \in Nat
    /\ result[c].index <= Len(result[c].rows)
    /\ result[c].desc => Len(result[c].rows) <= result[c].total
    /\ Taken(c) = [i \in 1..result[c].index |-> <<result[c].stmt, i>>]
    /\ Len(Taken(c)) = result[c].index
    /\ Reach(c) \in Nat /\ result[c].index <= Reach(c)

\* What the invariant says of the shape of a result set.
LEMMA ResultParts == ResultInv => ResultShape
<1> SUFFICES ASSUME ResultInv, NEW c \in Cursors
             PROVE  /\ result[c].index \in Nat /\ Len(result[c].rows) \in Nat
                    /\ result[c].total \in Nat
                    /\ result[c].index <= Len(result[c].rows)
                    /\ result[c].desc => Len(result[c].rows) <= result[c].total
                    /\ Taken(c) = [i \in 1..result[c].index |-> <<result[c].stmt, i>>]
                    /\ Len(Taken(c)) = result[c].index
                    /\ Reach(c) \in Nat /\ result[c].index <= Reach(c)
  BY DEF ResultShape
<1>t. CursorsOK /\ RowsOwned /\ Buffers /\ WithinResult
  BY DEF ResultInv, TurnInv, DataInv, TypeInv, RowInv, Buffers
<1>1. /\ result[c].index \in Nat /\ Len(result[c].rows) \in Nat
      /\ result[c].total \in Nat
      /\ result[c].index <= Len(result[c].rows)
      /\ result[c].desc => Len(result[c].rows) <= result[c].total
      /\ ~result[c].desc => result[c].index = 0
      /\ result[c].desc \in BOOLEAN
  BY <1>t DEF CursorsOK, ResultRecords, Buffers, WithinResult
<1>2. result[c].rows = [i \in 1..Len(result[c].rows) |-> <<result[c].stmt, 1 + i - 1>>]
  BY <1>t DEF RowsOwned, RowsOf
<1>3. \A i \in 1..result[c].index : result[c].rows[i] = <<result[c].stmt, i>>
  <2>1. ASSUME NEW i \in 1..result[c].index
        PROVE  i \in 1..Len(result[c].rows) /\ 1 + i - 1 = i
    BY <1>1
  <2> QED
    BY <1>2, <2>1
<1>4. Taken(c) = [i \in 1..result[c].index |-> <<result[c].stmt, i>>]
  BY <1>3 DEF Taken
<1>5. Len(Taken(c)) = result[c].index
  BY <1>1, <1>4
<1>6. Reach(c) \in Nat /\ result[c].index <= Reach(c)
  BY <1>1 DEF Reach
<1> QED
  BY <1>1, <1>4, <1>5, <1>6

\* What a step does to one cursor's result.
LEMMA TakenParts ==
  ASSUME CursorsOK, NEW t \in Tasks, NEW c \in Cursors, NEW op \in FetchOps,
         NEW want \in Nat, NEW index \in Nat, ResultTaken(t, c, op, want, index)
  PROVE  /\ OthersKeep(c) /\ result[c].desc /\ result'[c].desc
         /\ result'[c].stmt = result[c].stmt /\ result'[c].total = result[c].total
         /\ result'[c].index = index
<1>1. PICK rows : result' = [result EXCEPT ![c] = Moved(result[c], rows, index)]
  BY DEF ResultTaken
<1> QED
  BY <1>1 DEF ResultTaken, Moved, OthersKeep, CursorsOK

\* A result step keeps the bounds, and a fetch that goes on has more to ask for.
LEMMA ResultKept ==
  ASSUME ResultInv, TurnInv', RowInv', ResultStep
  PROVE  WithinResult' /\ FetchHasMore'
<1>t. /\ CursorsOK /\ WithinResult /\ FetchHasMore
      /\ \A t \in Tasks : task[t].op \in FetchOps => task[t].cur \in Cursors
  <2>1. /\ CursorsOK /\ WithinResult /\ FetchHasMore
        /\ \A t \in Tasks : Right(task[t])
    BY DEF ResultInv, TurnInv, DataInv, TypeInv, RowInv
  <2> QED
    BY <2>1 DEF Right, CursorOps, CursorsOK, FetchOps
<1>o. ASSUME NEW c \in Cursors, OthersKeep(c), NoFetch',
             IF result'[c].desc
             THEN /\ result'[c].stmt \in Stmts
                  /\ result'[c].total = Size[result'[c].stmt]
                  /\ Len(result'[c].rows) <= result'[c].total
             ELSE result'[c].rows = <<>> /\ result'[c].index = 0
      PROVE  WithinResult' /\ FetchHasMore'
  BY <1>o, <1>t DEF OthersKeep, WithinResult, FetchHasMore, NoFetch
<1>1. CASE HandlesGo
  BY <1>1, <1>t DEF HandlesGo, WithinResult, FetchHasMore, HasMore
<1>2. ASSUME NEW c \in Cursors, ResultEnds(c)
      PROVE  WithinResult' /\ FetchHasMore'
  BY <1>2, <1>o DEF ResultEnds
<1>3. ASSUME NEW c \in Cursors, NEW s \in Stmts, ResultOpens(c, s)
      PROVE  WithinResult' /\ FetchHasMore'
  BY <1>3, <1>o DEF ResultOpens
<1>4. ASSUME NEW c \in Cursors, NEW t \in Tasks, NEW op \in FetchOps, NEW want \in Nat,
             NEW index \in Nat, ResultTaken(t, c, op, want, index)
      PROVE  WithinResult' /\ FetchHasMore'
  <2>1. /\ OthersKeep(c) /\ result[c].desc /\ result'[c].desc
        /\ result'[c].stmt = result[c].stmt /\ result'[c].total = result[c].total
    BY <1>4, <1>t, TakenParts
  <2>2. Len(result'[c].rows) <= result[c].total
    BY <1>4 DEF ResultTaken
  <2>3. WithinResult'
    BY <1>t, <2>1, <2>2 DEF WithinResult, OthersKeep
  <2>4. /\ \/ task'[t].op \notin FetchOps
           \/ task'[t].cur = c /\ Len(result'[c].rows) < result[c].total
        /\ \A u \in Tasks \ {t} : task'[u].op \notin FetchOps
    BY <1>4, Parts DEF ResultTaken, FetchOps
  <2> QED
    BY <2>1, <2>3, <2>4 DEF FetchHasMore, HasMore
<1> QED
  BY <1>1, <1>2, <1>3, <1>4 DEF ResultStep

\* And so it is in every behaviour in which the tasks take turns.
LEMMA ResultInvariant ==
  AutocommitFixed /\ Spec /\ [](cancels = 0) /\ TakeTurns => []ResultInv
<1>1. Init => WithinResult /\ FetchHasMore /\ AnswerBrings
  BY Parts DEF Init, NoResult, WithinResult, FetchHasMore, FetchOps, AnswerBrings, Did,
               HasAnswer
<1>2. Init /\ TurnInv /\ RowInv => ResultInv
  BY <1>1 DEF ResultInv
<1>3. AutocommitFixed /\ ResultInv /\ (TurnInv /\ RowInv)' /\ cancels = 0
      /\ (cancels = 0)' /\ [Next]_vars /\ [OneAtATime]_vars
        => ResultInv'
  <2> SUFFICES ASSUME AutocommitFixed, ResultInv, TurnInv', RowInv', cancels = 0,
                      cancels' = 0, [Next]_vars, [OneAtATime]_vars
               PROVE  WithinResult' /\ FetchHasMore' /\ AnswerBrings'
    BY DEF ResultInv
  <2>1. ResultStep
    BY ResultNext
  <2>2. AnswerBrings'
    BY BringsNext
  <2> QED
    BY <2>1, <2>2, ResultKept
<1>4. AutocommitFixed => AutocommitFixed'
  BY DEF AutocommitFixed
<1> QED
  BY <1>2, <1>3, <1>4, RowInvariant, PTL DEF Spec, TakeTurns

\* It is a step of ResultSets.tla.
LEMMA ResultSetsStep ==
  ASSUME ResultInv, ResultInv', ResultStep
  PROVE  [R!Next]_(R!vars)
<1> DEFINE stmts == [c \in Cursors |-> Selected(c)]
           takes == [c \in Cursors |-> Taken(c)]
           reaches == [c \in Cursors |-> Reach(c)]
<1>t. CursorsOK
  BY DEF ResultInv, TurnInv, DataInv, TypeInv
<1>s. ResultShape /\ ResultShape'
  BY ResultParts, PTL
<1>o. ASSUME NEW c \in Cursors, OthersKeep(c)
      PROVE  /\ stmts' = [stmts EXCEPT ![c] = Selected(c)']
             /\ takes' = [takes EXCEPT ![c] = Taken(c)']
             /\ reaches' = [reaches EXCEPT ![c] = Reach(c)']
  <2>1. \A d \in Cursors \ {c} : /\ Selected(d)' = Selected(d)
                                /\ Taken(d)' = Taken(d)
                                /\ Reach(d)' = Reach(d)
    BY <1>o DEF OthersKeep, Selected, Taken, Reach
  <2> QED
    BY <2>1
<1>1. CASE HandlesGo
  <2>1. \A c \in Cursors : Selected(c)' = Selected(c) /\ Taken(c)' = Taken(c)
    BY <1>1 DEF HandlesGo, Selected, Taken
  <2>2. stmts' = stmts /\ takes' = takes
    BY <2>1
  <2>3. \A c \in Cursors : Reach(c)' <= Reach(c)
    BY <1>1, <1>s DEF HandlesGo, Reach, ResultShape
  <2>4. \A c \in Cursors : /\ reaches'[c] \in Nat /\ reaches'[c] <= reaches[c]
                          /\ Len(takes[c]) <= reaches'[c]
    BY <1>s, <1>1, <2>1, <2>3 DEF ResultShape, HandlesGo
  <2>5. reaches' \in [Cursors -> Nat]
    BY <2>4
  <2>6. R!Loses
    BY <2>2, <2>4, <2>5 DEF R!Loses
  <2> QED
    BY <2>6 DEF R!Next
<1>2. ASSUME NEW c \in Cursors, ResultEnds(c)
      PROVE  R!Next
  <2>1. Selected(c)' = None /\ Taken(c)' = <<>> /\ Reach(c)' = 0
    BY <1>2 DEF ResultEnds, Selected, Taken, Reach
  <2>2. R!Ends(c)
    BY <1>2, <1>o, <2>1 DEF R!Ends, ResultEnds
  <2> QED
    BY <2>2 DEF R!Next
<1>3. ASSUME NEW c \in Cursors, NEW s \in Stmts, ResultOpens(c, s)
      PROVE  R!Next
  <2>1. Selected(c)' = s /\ Taken(c)' = <<>> /\ Reach(c)' = Size[s]
    BY <1>3 DEF ResultOpens, Selected, Taken, Reach
  <2>2. R!Opens(c, s)
    BY <1>3, <1>o, <2>1 DEF R!Opens, ResultOpens
  <2> QED
    BY <2>2 DEF R!Next
<1>4. ASSUME NEW c \in Cursors, NEW t \in Tasks, NEW op \in FetchOps, NEW want \in Nat,
             NEW index \in Nat, ResultTaken(t, c, op, want, index)
      PROVE  R!Next
  <2>1. /\ OthersKeep(c) /\ result[c].desc /\ result'[c].desc
        /\ result'[c].stmt = result[c].stmt /\ result'[c].total = result[c].total
        /\ result'[c].index = index
    BY <1>4, <1>t, TakenParts
  <2>2. Selected(c)' = Selected(c) /\ Selected(c) = result[c].stmt
    BY <2>1 DEF Selected
  <2>3. Reach(c)' = Reach(c)
    BY <1>4, <2>1 DEF ResultTaken, Reach
  <2>4. Taken(c)' = R!FirstRows(result[c].stmt, index)
    BY <1>s, <2>1 DEF ResultShape, R!FirstRows
  <2>5. index \in Len(Taken(c))..Reach(c)
    BY <1>4, <1>s, <2>1, <2>3 DEF ResultTaken, ResultShape
  <2>6. stmts' = stmts /\ reaches' = reaches
    BY <1>o, <2>1, <2>2, <2>3
  <2>7. takes' = [takes EXCEPT ![c] = R!FirstRows(stmts[c], index)]
    BY <1>o, <2>1, <2>2, <2>4
  <2>8. index \in 0..reaches[c] /\ index \in Len(takes[c])..reaches[c]
    BY <1>s, <2>5 DEF ResultShape
  <2>9. R!Takes(c, index)
    BY <2>6, <2>7, <2>8 DEF R!Takes
  <2> QED
    BY <2>8, <2>9 DEF R!Next
<1> QED
  BY <1>1, <1>2, <1>3, <1>4 DEF ResultStep

\* The cursors promise what ResultSets.tla does, when calls take turns, none is
\* cancelled, and the application leaves autocommit and the connection as they
\* are: the rows of a SELECT are handed over from the first on, in order, each
\* once, whatever failure, silent reconnect, commit or other cursor comes between
\* two fetches.
THEOREM ResultSetsAreKept ==
  AutocommitFixed /\ Spec /\ [](cancels = 0) /\ TakeTurns => KeepsResultSets
<1>1. Init => R!Init
  BY DEF Init, NoResult, R!Init, Selected, Taken, Reach
<1>2. AutocommitFixed /\ ResultInv /\ ResultInv' /\ cancels = 0 /\ (cancels = 0)'
      /\ [Next]_vars /\ [OneAtATime]_vars => [R!Next]_(R!vars)
  BY ResultNext, ResultSetsStep
<1>3. AutocommitFixed => AutocommitFixed'
  BY DEF AutocommitFixed
<1> QED
  BY <1>1, <1>2, <1>3, ResultInvariant, PTL
     DEF Spec, TakeTurns, KeepsResultSets, R!Spec

(***************************************************************************)
(* What a fetch returns with.                                              *)
(***************************************************************************)
\* A fetch that returns has just taken the last rows it takes: what a FETCH that
\* fails leaves behind is not returned, and a FETCH never comes back empty.
LEMMA FetchTakes ==
  ASSUME ResultInv, cancels = 0, cancels' = 0, Next, OneAtATime,
         NEW t \in Tasks, NEW op \in FetchOps, NEW c \in Cursors, FetchReturns(t, c, op)
  PROVE  \E want, index \in Nat : /\ ResultTaken(t, c, op, want, index)
                                  /\ op = "fetchmany" => want \in Wanted(t)
<1>t. /\ TypeInv /\ CursorsOK /\ Shape /\ Alone /\ WithinResult /\ Fits(task[t])
  BY DEF ResultInv, TurnInv, DataInv, TypeInv, Shape
<1>1. CASE \/ FetchmanyCall(t, c) /\ op = "fetchmany"
           \/ FetchallCall(t, c) /\ op = "fetchall"
  <2>1. PICK n \in Nat : /\ Take(t, op, c, result[c].rows, n)
                         /\ op = "fetchmany" => n \in Wanted(t)
    BY <1>1, WantSizesAssumption DEF FetchmanyCall, FetchallCall, Wanted, Invoke
  <2>2. handle' = handle /\ result[c].desc
    BY <1>1 DEF FetchmanyCall, FetchallCall, Fetchable
  <2>3. /\ result[c].rows \in Seq(Stmts \X Nat)
        /\ Len(result[c].rows) <= Len(result[c].rows)
        /\ Len(result[c].rows) <= result[c].total
    BY <1>t, <2>2 DEF CursorsOK, ResultRecords, WithinResult
  <2>4. \A u \in Tasks : IsIdle(u)
    BY <1>1 DEF OneAtATime, Invocation
  <2>5. \E index \in Nat : ResultTaken(t, c, op, n, index)
    BY <2>1, <2>2, <2>3, <2>4, TakesResult
  <2> QED
    BY <2>1, <2>5
<1>2. CASE task[t].op = op /\ task[t].cur = c
  <2>1. ~IsIdle(t) /\ ret' = "returned"
    BY <1>2, <1>t, IdleFetches DEF FetchReturns
  <2>2. TaskStep(t)
    <3>1. ASSUME NEW u \in Tasks, TaskStep(u)
          PROVE  u = t
      BY <1>t, <2>1, <3>1, StepsAlone
    <3>2. ASSUME NEW u \in Tasks, Invocation(u) \/ Cancel(u)
          PROVE  FALSE
      BY <1>t, <2>1, <3>2 DEF OneAtATime, Cancel, TypeInv, HistoryOK
    <3> QED
      BY <2>1, <3>1, <3>2 DEF Next, ServerAnswers, SessionLost
  <2>3. FetchReply(t)
    <3>1. task[t].pkt.fc = "Fetch" /\ task[t].why \notin {"connect", "drop", "close"}
      BY <1>2, <1>t DEF Fits, FcsOf, FetchOps
    <3>2. ~LockStep(t)
      BY <2>1, <3>1
         DEF LockStep, SendRequest, CheckReconnect, Reconnected, AlreadyConnected,
             StartHandshake, ConnectEnds, PingDrop, WantsToConnect, Suspend, Wait, Write
    <3>3. ~CloseEnds(t)
      BY <3>1 DEF CloseEnds
    <3>4. \/ FetchReply(t)
          \/ task[t].op \notin FetchOps
      BY <2>2, <3>2, <3>3, TaskStepKinds
         DEF Replying, PingReply, EndTranReply, SetAutocommitReply, QueryReply,
             CloseCursorReply, CursorCloseReply, ExecuteCloseReply, ExecuteReply,
             LastRowIdReply, ExecutemanyBatchReply, FetchOps
    <3> QED
      BY <1>2, <3>4
  <2>4. \E index \in Nat : ResultTaken(t, c, op, task[t].want, index)
    BY <1>2, <2>1, <2>2, <2>3, FetchReplyTakes
  <2>5. task[t].want \in Nat /\ task[t].want \in Wanted(t)
    BY <2>1, <2>2, <2>3, FetchReplyTakes DEF Wanted
  <2> QED
    BY <2>4, <2>5
<1> QED
  BY <1>1, <1>2 DEF FetchReturns

\* What it has then.
LEMMA FetchHasEnough ==
  ASSUME ResultInv, cancels = 0, cancels' = 0, Next, OneAtATime,
         NEW t \in Tasks, NEW op \in FetchOps, NEW c \in Cursors, FetchReturns(t, c, op)
  PROVE  \/ result'[c].index = Reach(c)'
         \/ op = "fetchmany" /\ result'[c].index - result[c].index \in Wanted(t)
<1>1. PICK want, index \in Nat : /\ ResultTaken(t, c, op, want, index)
                                 /\ op = "fetchmany" => want \in Wanted(t)
  BY FetchTakes
<1>2. /\ result'[c].index = index /\ result'[c].total = result[c].total
      /\ result'[c].desc /\ handle' = handle
  BY <1>1, TakenParts DEF ResultInv, TurnInv, DataInv, TypeInv, ResultTaken
<1>3. Enough(c, op, want, index)
  BY <1>1 DEF ResultTaken, FetchReturns
<1>4. CASE op = "fetchmany" /\ index - result[c].index = want
  BY <1>1, <1>2, <1>4
<1>5. CASE index = Len(result'[c].rows) /\ (handle[c] = None \/ index = result[c].total)
  BY <1>2, <1>5 DEF Reach
<1> QED
  BY <1>3, <1>4, <1>5 DEF Enough

\* A fetch that returns has all it was asked for, or all there is in reach: none
\* stops at a buffer's end or at a refused FETCH (fetchmany, fetchall).
THEOREM FetchesAreEnough ==
  AutocommitFixed /\ Spec /\ [](cancels = 0) /\ TakeTurns => FetchesEnough
<1> DEFINE Delivers ==
      \A t \in Tasks, c \in Cursors :
        LET atEnd == result'[c].index = Reach(c)'
        IN  /\ FetchReturns(t, c, "fetchall") => atEnd
            /\ FetchReturns(t, c, "fetchmany") =>
                 atEnd \/ result'[c].index - result[c].index \in Wanted(t)
<1>1. ResultInv /\ cancels = 0 /\ (cancels = 0)' /\ [Next]_vars /\ [OneAtATime]_vars
        => [Delivers]_vars
  <2> SUFFICES ASSUME ResultInv, cancels = 0, cancels' = 0, Next, OneAtATime,
                      NEW t \in Tasks, NEW c \in Cursors
               PROVE  /\ FetchReturns(t, c, "fetchall") => result'[c].index = Reach(c)'
                      /\ FetchReturns(t, c, "fetchmany") =>
                           \/ result'[c].index = Reach(c)'
                           \/ result'[c].index - result[c].index \in Wanted(t)
    OBVIOUS
  <2>1. "fetchall" \in FetchOps /\ "fetchmany" \in FetchOps
    BY DEF FetchOps
  <2> QED
    BY <2>1, FetchHasEnough
<1> QED
  BY <1>1, ResultInvariant, PTL DEF Spec, TakeTurns, FetchesEnough
=============================================================================
