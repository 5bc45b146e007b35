----------------------------- MODULE AsyncCursor -----------------------------
(***************************************************************************)
(* pycubrid.aio.AsyncCursor (src/pycubrid/aio/cursor.py), on top of        *)
(* AsyncConnection.tla.  Nothing in it is locked: two tasks may use one    *)
(* cursor, and the connection changes cursors while they wait.             *)
(***************************************************************************)
EXTENDS AsyncConnection

CONSTANT WantSizes   \* the sizes the application passes to fetchmany

ASSUME WantSizesAssumption == WantSizes \subseteq Nat \ {0}

(***************************************************************************)
(* close()                                                                 *)
(***************************************************************************)
CursorCloseCall(t, c) ==
  /\ Invoke(t, "cursor_close")
  /\ ~closed[c]
  /\ IF handle[c] # None /\ connected
     THEN /\ Wait(t, Begin("cursor_close", c, CloseQueryPacket(handle[c])))
          /\ UNCHANGED <<cursors, cursorVars>>
     ELSE CursorsClosed({c}) /\ Finish(t, "returned")
  /\ UNCHANGED <<serverVars, transportVars, owner, autocommit, historyVars>>

CursorCloseReply(t) ==
  /\ task[t].op = "cursor_close"
  /\ \E r \in PossibleReplies(t) :
       /\ SendAndReceive(t, r)
       /\ Finish(t, IF r.st = "error" THEN "raised" ELSE "returned")
  /\ CursorsClosed({task[t].cur})
  /\ UNCHANGED <<autocommit, historyVars>>

(***************************************************************************)
(* execute()                                                               *)
(***************************************************************************)
ExecuteCall(t, c) ==
  /\ Invoke(t, "execute")
  /\ ~closed[c] /\ connected
  /\ \E s \in Stmts \ sent :
       /\ Kind[s] # "schema"
       /\ sent' = sent \cup {s}
       /\ Wait(t, [Begin("execute", c,
                         IF handle[c] # None THEN CloseQueryPacket(handle[c])
                         ELSE PrepareAndExecutePacket(s, autocommit))
                     EXCEPT !.stmts = {s}])
  /\ UNCHANGED <<serverVars, transportVars, owner, cancels, acked>>
  /\ NoCursorChange

\* Binding the parameters may raise.
ExecuteCloseReply(t) ==
  /\ task[t].op = "execute" /\ task[t].pkt.fc = "CloseQuery"
  /\ \E r \in PossibleReplies(t) :
       /\ SendAndReceive(t, r)
       /\ \/ /\ r.st = "ok"
             /\ handle' = [handle EXCEPT ![task[t].cur] = None]
             /\ \/ Finish(t, "raised")
                \/ \E s \in task[t].stmts :
                     Wait(t, [task[t] EXCEPT !.at = "lock",
                                !.pkt = PrepareAndExecutePacket(s, autocommit)])
          \/ r.st # "ok" /\ Finish(t, "raised") /\ UNCHANGED handle
  /\ UNCHANGED <<autocommit, cursors, closed, result, lastrowid, historyVars>>

ResultOf(s, rows) ==
  [stmt |-> s, desc |-> Kind[s] = "select", rows |-> rows, index |-> 0,
   total |-> Size[s]]

\* Seeded fault: the identifier is asked for after any DML statement.
AsksLastRowIdOfDml(s) == IsDml(s)

AsksLastRowId(s) == Kind[s] = "insert"

ExecuteReply(t) ==
  /\ task[t].op = "execute" /\ task[t].pkt.fc = "PrepareAndExecute"
  /\ \E r \in PossibleReplies(t) :
       /\ SendAndReceive(t, r)
       /\ \/ /\ r.st = "ok"
             /\ \E s \in r.done :
                  /\ handle' = [handle EXCEPT ![task[t].cur] = r.h]
                  /\ result' = [result EXCEPT ![task[t].cur] = ResultOf(s, r.rows)]
                  /\ lastrowid' = [lastrowid EXCEPT ![task[t].cur] = None]
                  /\ acked' = acked \cup Dml({s})
                  /\ IF AsksLastRowId(s)
                     THEN Wait(t, [task[t] EXCEPT !.at = "lock",
                                                  !.pkt = GetLastInsertIdPacket])
                     ELSE Finish(t, "returned")
          \/ /\ r.st # "ok" /\ Finish(t, "raised")
             /\ UNCHANGED <<handle, result, lastrowid, acked>>
  /\ UNCHANGED <<autocommit, cursors, closed, cancels, sent>>

\* No identifier, or a DatabaseError, which is not caught here, leaves
\* _lastrowid as it is.
LastRowIdReply(t) ==
  /\ task[t].op = "execute" /\ task[t].pkt.fc = "GetLastInsertId"
  /\ \E r \in PossibleReplies(t) :
       /\ SendAndReceive(t, r)
       /\ lastrowid' = IF r.id = None /\ r.st # "operr" THEN lastrowid
                       ELSE [lastrowid EXCEPT ![task[t].cur] = r.id]
       /\ Finish(t, IF r.st = "error" THEN "raised" ELSE "returned")
  /\ UNCHANGED <<autocommit, cursors, closed, handle, result, historyVars>>

(***************************************************************************)
(* executemany_batch()                                                     *)
(***************************************************************************)
ExecutemanyBatchCall(t, c) ==
  /\ Invoke(t, "executemany_batch")
  /\ ~closed[c] /\ connected
  /\ \E ss \in SUBSET {s \in Stmts \ sent : IsDml(s)}, ac \in BOOLEAN :
       /\ ss # {}
       /\ sent' = sent \cup ss
       /\ Wait(t, [Begin("executemany_batch", c, BatchExecutePacket(ss, ac))
                     EXCEPT !.stmts = ss])
  /\ UNCHANGED <<serverVars, transportVars, owner, cancels, acked>>
  /\ NoCursorChange

\* stmt goes on naming what the last execute() ran.
WithoutRows(res) ==
  [stmt |-> res.stmt, desc |-> FALSE, rows |-> <<>>, index |-> 0,
   total |-> res.total]

ExecutemanyBatchReply(t) ==
  /\ task[t].op = "executemany_batch"
  /\ \E r \in PossibleReplies(t) :
       /\ SendAndReceive(t, r)
       /\ IF r.st = "ok"
          THEN /\ result' = [result EXCEPT ![task[t].cur] = WithoutRows(@)]
               /\ handle' = [handle EXCEPT ![task[t].cur] = None]
               /\ acked' = acked \cup Dml(r.done)
               /\ Finish(t, "returned")
          ELSE Finish(t, "raised") /\ UNCHANGED <<handle, result, acked>>
  /\ UNCHANGED <<autocommit, cursors, closed, lastrowid, cancels, sent>>

(***************************************************************************)
(* fetchone, fetchmany and fetchall: what the buffer holds, then           *)
(* _fetch_more_rows, over and over.                                        *)
(***************************************************************************)
Moved(res, rows, index) ==
  [stmt |-> res.stmt, desc |-> res.desc, rows |-> rows, index |-> index,
   total |-> res.total]

\* Seeded fault: the last row of a result is never asked for.
TakeStoppingEarly(t, op, c, rows, want) ==
  LET available == Len(rows) - result[c].index
      take == IF op = "fetchall" THEN available ELSE Min2(available, want)
      index == result[c].index + take
      more == /\ op = "fetchall" \/ take < want
              /\ handle[c] # None
              /\ index + 1 < result[c].total
  IN  /\ result' = [result EXCEPT ![c] = Moved(@, rows, index)]
      /\ IF more
         THEN Wait(t, [Begin(op, c, FetchPacket(handle[c], index))
                         EXCEPT !.want = IF op = "fetchall" THEN 0 ELSE want - take])
         ELSE Finish(t, "returned")

Take(t, op, c, rows, want) ==
  LET available == Len(rows) - result[c].index
      take == IF op = "fetchall" THEN available ELSE Min2(available, want)
      index == result[c].index + take
      more == /\ op = "fetchall" \/ take < want
              /\ handle[c] # None
              /\ index < result[c].total
  IN  /\ result' = [result EXCEPT ![c] = Moved(@, rows, index)]
      /\ IF more
         THEN Wait(t, [Begin(op, c, FetchPacket(handle[c], index))
                         EXCEPT !.want = IF op = "fetchall" THEN 0 ELSE want - take])
         ELSE Finish(t, "returned")

Fetchable(c) == ~closed[c] /\ result[c].desc

FetchmanyCall(t, c) ==
  /\ Invoke(t, "fetchmany")
  /\ Fetchable(c)
  /\ \E n \in WantSizes : Take(t, "fetchmany", c, result[c].rows, n)
  /\ UNCHANGED <<serverVars, transportVars, owner, autocommit, cursors, closed,
                 handle, lastrowid, historyVars>>

FetchallCall(t, c) ==
  /\ Invoke(t, "fetchall")
  /\ Fetchable(c)
  /\ Take(t, "fetchall", c, result[c].rows, 0)
  /\ UNCHANGED <<serverVars, transportVars, owner, autocommit, cursors, closed,
                 handle, lastrowid, historyVars>>

\* Seeded fault: the rows fetched replace the buffer instead of extending it.
FetchReplyReplacingRows(t) ==
  /\ task[t].op \in {"fetchmany", "fetchall"}
  /\ \E r \in PossibleReplies(t) :
       /\ SendAndReceive(t, r)
       /\ \/ /\ r.st = "ok" /\ r.rows # <<>>
             /\ Take(t, task[t].op, task[t].cur, r.rows, task[t].want)
          \/ /\ ~(r.st = "ok" /\ r.rows # <<>>)
             /\ Finish(t, IF r.st = "ok" THEN "returned" ELSE "raised")
             /\ UNCHANGED result
  /\ UNCHANGED <<autocommit, cursors, closed, handle, lastrowid, historyVars>>

FetchReply(t) ==
  /\ task[t].op \in {"fetchmany", "fetchall"}
  /\ \E r \in PossibleReplies(t) :
       /\ SendAndReceive(t, r)
       /\ \/ /\ r.st = "ok" /\ r.rows # <<>>
             /\ Take(t, task[t].op, task[t].cur,
                     result[task[t].cur].rows \o r.rows, task[t].want)
          \/ /\ ~(r.st = "ok" /\ r.rows # <<>>)
             /\ Finish(t, IF r.st = "ok" THEN "returned" ELSE "raised")
             /\ UNCHANGED result
  /\ UNCHANGED <<autocommit, cursors, closed, handle, lastrowid, historyVars>>
=============================================================================
