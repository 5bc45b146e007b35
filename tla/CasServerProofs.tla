-------------------------- MODULE CasServerProofs --------------------------
(***************************************************************************)
(* Lemmas about the outcomes of a request, on which the proofs about the   *)
(* drivers rest.                                                           *)
(***************************************************************************)
EXTENDS CasServer, TLAPS

OutcomeRecords ==
  [open: [Handles -> Stmts \cup {None}], tran: BOOLEAN, work: SUBSET Stmts,
   durable: SUBSET Stmts, param: BOOLEAN, lastId: Stmts \cup {None},
   reply: Replies]

\* Every packet constructor builds a packet.
LEMMA PacketType ==
  /\ NoPacket \in Packets
  /\ CommitPacket \in Packets /\ RollbackPacket \in Packets
  /\ CloseDatabasePacket \in Packets /\ GetLastInsertIdPacket \in Packets
  /\ GetEngineVersionPacket \in Packets /\ CheckCasPacket \in Packets
  /\ \A h \in Handles \cup {None} : CloseQueryPacket(h) \in Packets
  /\ \A h \in Handles \cup {None}, n \in Nat : FetchPacket(h, n) \in Packets
  /\ \A ac \in BOOLEAN : SetDbParameterPacket(ac) \in Packets
  /\ \A ss \in SUBSET Stmts, ac \in BOOLEAN : BatchExecutePacket(ss, ac) \in Packets
  /\ \A s \in Stmts, ac \in BOOLEAN : PrepareAndExecutePacket(s, ac) \in Packets
  /\ \A s \in Stmts : GetSchemaPacket(s) \in Packets
<1>1. \A f \in Fcs, k \in Handles \cup {None}, tt \in SUBSET Stmts, b \in BOOLEAN,
        i \in Nat : Packet(f, k, tt, b, i) \in Packets
  BY DEF Packet, Packets
<1>2. {} \in SUBSET Stmts /\ FALSE \in BOOLEAN
  OBVIOUS
<1>3. /\ "None" \in Fcs /\ "CloseQuery" \in Fcs /\ "ExecuteBatch" \in Fcs
      /\ "Fetch" \in Fcs /\ "SetDbParameter" \in Fcs
      /\ "PrepareAndExecute" \in Fcs /\ "GetSchema" \in Fcs
  BY DEF Fcs
<1>4. \A fc \in Fcs : SimplePacket(fc) \in Packets
  BY <1>1, <1>2 DEF SimplePacket
<1>5. NoPacket \in Packets
  BY <1>3, <1>4 DEF NoPacket
<1>6. \A h \in Handles \cup {None} : CloseQueryPacket(h) \in Packets
  BY <1>1, <1>2, <1>3 DEF CloseQueryPacket
<1>7. ASSUME NEW h \in Handles \cup {None}, NEW n \in Nat
      PROVE  FetchPacket(h, n) \in Packets
  BY <1>1, <1>2, <1>3, n + 1 \in Nat DEF FetchPacket
<1>8. \A ac \in BOOLEAN : SetDbParameterPacket(ac) \in Packets
  BY <1>1, <1>2, <1>3 DEF SetDbParameterPacket
<1>9. \A ss \in SUBSET Stmts, ac \in BOOLEAN : BatchExecutePacket(ss, ac) \in Packets
  BY <1>1, <1>2, <1>3 DEF BatchExecutePacket
<1>10. ASSUME NEW s \in Stmts, NEW ac \in BOOLEAN
       PROVE  /\ PrepareAndExecutePacket(s, ac) \in Packets
              /\ GetSchemaPacket(s) \in Packets
  BY <1>1, <1>2, <1>3, {s} \in SUBSET Stmts
     DEF PrepareAndExecutePacket, GetSchemaPacket
<1>11. /\ CommitPacket \in Packets /\ RollbackPacket \in Packets
       /\ CloseDatabasePacket \in Packets /\ GetLastInsertIdPacket \in Packets
       /\ GetEngineVersionPacket \in Packets /\ CheckCasPacket \in Packets
  BY <1>4 DEF CommitPacket, RollbackPacket, CloseDatabasePacket, Fcs,
              GetLastInsertIdPacket, GetEngineVersionPacket, CheckCasPacket
<1> QED
  BY <1>2, <1>5, <1>6, <1>7, <1>8, <1>9, <1>10, <1>11

\* The parts of every packet that matter.
LEMMA PacketFields ==
  /\ CommitPacket.fc = "Commit" /\ RollbackPacket.fc = "Rollback"
  /\ CloseDatabasePacket.fc = "CloseDatabase" /\ CheckCasPacket.fc = "CheckCas"
  /\ GetLastInsertIdPacket.fc = "GetLastInsertId"
  /\ GetEngineVersionPacket.fc = "GetEngineVersion"
  /\ NoPacket.fc = "None"
  /\ \A h : CloseQueryPacket(h).fc = "CloseQuery" /\ CloseQueryPacket(h).h = h
  /\ \A h, n : /\ FetchPacket(h, n).fc = "Fetch" /\ FetchPacket(h, n).h = h
               /\ FetchPacket(h, n).from = n + 1
  /\ \A ac : SetDbParameterPacket(ac).fc = "SetDbParameter"
  /\ \A ss, ac : BatchExecutePacket(ss, ac).fc = "ExecuteBatch"
  /\ \A s, ac : /\ PrepareAndExecutePacket(s, ac).fc = "PrepareAndExecute"
                /\ PrepareAndExecutePacket(s, ac).stmts = {s}
  /\ \A s : GetSchemaPacket(s).fc = "GetSchema"
  BY DEF Packet, SimplePacket, NoPacket, CommitPacket, RollbackPacket,
         CloseDatabasePacket, CheckCasPacket, GetLastInsertIdPacket,
         GetEngineVersionPacket, CloseQueryPacket, FetchPacket,
         SetDbParameterPacket, BatchExecutePacket, PrepareAndExecutePacket,
         GetSchemaPacket

\* A run of rows is a sequence of rows.
LEMMA RowsOfType ==
  ASSUME NEW s \in Stmts, NEW from \in Nat \ {0}, NEW n \in Nat
  PROVE  /\ RowsOf(s, from, n) \in Seq(Stmts \X Nat)
         /\ Len(RowsOf(s, from, n)) = n
  BY DEF RowsOf

\* The replies the server and the transport build are replies.
LEMMA ReplyType ==
  /\ OkReply \in Replies
  /\ NegativeReply \in Replies
  /\ \A st \in ReplyStates : Failed(st) \in Replies /\ Failed(st).st = st
  /\ \A h \in Handles \cup {None}, id \in Stmts \cup {None},
        done \in SUBSET Stmts, rows \in Seq(Stmts \X Nat) :
        Reply(h, rows, id, done) \in Replies
<1>1. <<>> \in Seq(Stmts \X Nat)
  OBVIOUS
<1> QED
  BY <1>1 DEF OkReply, NegativeReply, Failed, Reply, Replies, ReplyStates

\* Typed parts make a typed outcome.
LEMMA OutcomeType ==
  ASSUME NEW o \in [Handles -> Stmts \cup {None}], NEW t \in BOOLEAN,
         NEW w \in SUBSET Stmts, NEW d \in SUBSET Stmts, NEW p \in BOOLEAN,
         NEW l \in Stmts \cup {None}, NEW r \in Replies
  PROVE  Outcome(o, t, w, d, p, l, r) \in OutcomeRecords
  BY DEF Outcome, OutcomeRecords

\* A request that changes nothing has a typed outcome.
LEMMA AnswerType ==
  ASSUME ServerTypeOK, NEW r \in Replies
  PROVE  Answer(r) \in OutcomeRecords
  BY DEF ServerTypeOK, Answer, Outcome, OutcomeRecords

\* So has a request that runs statements.
LEMMA RanType ==
  ASSUME ServerTypeOK, NEW r \in Replies, NEW ss \in SUBSET Stmts, NEW ac \in BOOLEAN,
         NEW o \in [Handles -> Stmts \cup {None}], NEW l \in Stmts \cup {None}
  PROVE  Ran(ss, ac, o, l, r) \in OutcomeRecords
  BY DEF Ran, Outcome, ServerTypeOK, OutcomeRecords, Dml

\* Outcome after outcome, the session's next state and its response are well
\* typed.
LEMMA OutcomesType ==
  ASSUME ServerTypeOK, NEW p \in Packets, NEW o \in Outcomes(p)
  PROVE  o \in OutcomeRecords
<1>p. /\ p.stmts \in SUBSET Stmts /\ p.ac \in BOOLEAN /\ p.from \in Nat
  BY DEF Packets
<1>n. NoHandles \in [Handles -> Stmts \cup {None}]
  BY DEF NoHandles
<1>e. <<>> \in Seq(Stmts \X Nat)
  OBVIOUS
<1>2. ASSUME NEW s \in p.stmts, o \in ExecuteOutcomes(s, p.ac)
      PROVE  o \in OutcomeRecords
  <2>0. PICK h \in FreeHandles : o \in OpenOutcomes(s, p.ac, h)
    BY <1>2 DEF ExecuteOutcomes
  <2> DEFINE l == IF Kind[s] = "insert" THEN s ELSE lastId
  <2>1. PICK n \in InlineRows(s) :
          o = Ran({s}, p.ac, [open EXCEPT ![h] = s], l,
                  Reply(h, RowsOf(s, 1, n), None, {s}))
    BY <2>0 DEF OpenOutcomes
  <2>2. /\ s \in Stmts /\ {s} \in SUBSET Stmts
        /\ h \in Handles
    BY <1>p DEF FreeHandles
  <2>3. n \in Nat
    BY <2>2, SizeAssumption, FetchSizeAssumption DEF InlineRows, Min2
  <2>4. l \in Stmts \cup {None}
    BY <2>2 DEF ServerTypeOK
  <2> HIDE DEF l
  <2>5. RowsOf(s, 1, n) \in Seq(Stmts \X Nat)
    BY <2>2, <2>3, RowsOfType
  <2>6. Reply(h, RowsOf(s, 1, n), None, {s}) \in Replies
    BY <2>2, <2>5, ReplyType
  <2>7. [open EXCEPT ![h] = s] \in [Handles -> Stmts \cup {None}]
    BY <2>2 DEF ServerTypeOK
  <2> QED
    BY <1>p, <2>1, <2>2, <2>4, <2>6, <2>7, RanType
<1>3. ASSUME NEW done \in SUBSET p.stmts, o \in BatchOutcomes(done, p.ac)
      PROVE  o \in OutcomeRecords
  <2>1. PICK l \in LastIds(done) :
          o = Ran(done, p.ac, open, l, Reply(None, <<>>, None, done))
    BY <1>3 DEF BatchOutcomes
  <2>2. done \in SUBSET Stmts /\ l \in Stmts \cup {None}
    BY <1>p DEF ServerTypeOK, LastIds
  <2>3. Reply(None, <<>>, None, done) \in Replies
    BY <2>2, <1>e, ReplyType
  <2> QED
    BY <1>p, <2>1, <2>2, <2>3, RanType DEF ServerTypeOK
<1>4. CASE o \in FetchOutcomes(p)
  <2>1. /\ p.h \in Handles /\ open[p.h] # None
        /\ o = Answer(Reply(None, FetchedRows(open[p.h], p.from), None, {}))
    BY <1>4 DEF FetchOutcomes
  <2>2. open[p.h] \in Stmts
    BY <2>1 DEF ServerTypeOK
  <2>3. RowsLeft(open[p.h], p.from) \in Nat
    BY <1>p, <2>2, SizeAssumption, FetchSizeAssumption DEF RowsLeft, Min2
  <2>4. FetchedRows(open[p.h], p.from) \in Seq(Stmts \X Nat)
    BY <1>p, <2>2, <2>3 DEF FetchedRows, RowsOf
  <2>5. Reply(None, FetchedRows(open[p.h], p.from), None, {}) \in Replies
    BY <2>4, ReplyType
  <2> QED
    BY <2>1, <2>5, AnswerType
<1>5. CASE o \in CloseQueryOutcomes(p)
  BY <1>5, ReplyType DEF CloseQueryOutcomes, Outcome, ServerTypeOK, OutcomeRecords
<1>6. CASE o \in EndTranOutcomes(p)
  <2>1. PICK table \in {open, NoHandles} :
          o = Outcome(table, FALSE, {},
                      IF p.fc = "Commit" THEN durable \cup work ELSE durable,
                      param, lastId, OkReply)
    BY <1>6 DEF EndTranOutcomes
  <2>2. /\ table \in [Handles -> Stmts \cup {None}]
        /\ (IF p.fc = "Commit" THEN durable \cup work ELSE durable) \in SUBSET Stmts
    BY <1>n DEF ServerTypeOK
  <2> QED
    BY <2>1, <2>2, OutcomeType, ReplyType DEF ServerTypeOK
<1>7. CASE o \in SetDbParameterOutcomes(p)
  BY <1>7, <1>p, ReplyType
     DEF SetDbParameterOutcomes, Outcome, ServerTypeOK, OutcomeRecords
<1>8. CASE o \in CloseDatabaseOutcomes
  <2>1. o = Outcome(NoHandles, FALSE, {}, durable, param, lastId, OkReply)
    BY <1>8 DEF CloseDatabaseOutcomes
  <2>2. FALSE \in BOOLEAN /\ {} \in SUBSET Stmts
    OBVIOUS
  <2> QED
    BY <1>n, <2>1, <2>2, OutcomeType, ReplyType DEF ServerTypeOK
<1>9. CASE o = Answer(Reply(None, <<>>, lastId, {}))
  <2>1. Reply(None, <<>>, lastId, {}) \in Replies
    BY <1>e, ReplyType DEF ServerTypeOK
  <2> QED
    BY <1>9, <2>1, AnswerType
<1>10. CASE o \in {Answer(OkReply), Answer(NegativeReply), Answer(Failed("error"))}
  BY <1>10, AnswerType, ReplyType DEF ReplyStates
<1> QED
  BY <1>2, <1>3, <1>4, <1>5, <1>6, <1>7, <1>8, <1>9, <1>10 DEF Outcomes

(***************************************************************************)
(* What becomes of executed statements.  Out of a transaction none are     *)
(* pending; no request takes back what is durable; only a ROLLBACK or a    *)
(* CLOSE_DATABASE that is carried out loses pending work; what a reply     *)
(* acknowledges is pending or durable; a COMMIT makes it durable.          *)
(***************************************************************************)
WorkKept(p, o) ==
  /\ durable \subseteq o.durable
  /\ ~o.tran => o.work = {}
  /\ (o.reply.st = "ok" => p.fc \notin {"Rollback", "CloseDatabase"})
       => work \cup durable \subseteq o.work \cup o.durable
  /\ o.reply.st = "ok" => Dml(o.reply.done) \subseteq o.work \cup o.durable
  /\ o.reply.st = "ok" /\ p.fc = "Commit" => work \cup durable \subseteq o.durable

\* Statements that run become pending, or durable under auto-commit.
LEMMA RanWork ==
  ASSUME ServerTypeOK, NEW p \in Packets, NEW ss, NEW ac \in BOOLEAN, NEW t,
         NEW l, NEW h, NEW rows, NEW id, p.fc # "Commit"
  PROVE  WorkKept(p, Ran(ss, ac, t, l, Reply(h, rows, id, ss)))
<1> DEFINE r == Reply(h, rows, id, ss)
           o == Ran(ss, ac, t, l, r)
<1>1. r.done = ss
  BY DEF Reply
<1> HIDE DEF r
<1>2. /\ o.tran = ~ac
      /\ o.work = IF ac THEN {} ELSE work \cup Dml(ss)
      /\ o.durable = IF ac THEN durable \cup work \cup Dml(ss) ELSE durable
      /\ o.reply = r
  BY DEF Ran, Outcome
<1> HIDE DEF o
<1>3. WorkKept(p, o)
  BY <1>1, <1>2 DEF WorkKept
<1> QED
  BY <1>3 DEF o, r

\* A request that leaves the session as it is keeps everything.
LEMMA AnswerWork ==
  ASSUME ServerTypeOK, ~tran => work = {}, NEW p \in Packets, NEW r \in Replies,
         r.done = {}, r.st = "ok" => p.fc # "Commit"
  PROVE  WorkKept(p, Answer(r))
  BY DEF WorkKept, Answer, Outcome, Dml

\* The outcomes of every request.
LEMMA OutcomesWork ==
  ASSUME ServerTypeOK, ~tran => work = {}, NEW p \in Packets, NEW o \in Outcomes(p)
  PROVE  WorkKept(p, o)
<1>1. ASSUME NEW r \in Replies, r.done = {}, r.st = "ok" => p.fc # "Commit",
             o = Answer(r)
      PROVE  WorkKept(p, o)
  BY <1>1, AnswerWork
<1>2. /\ Failed("error") \in Replies
      /\ Failed("error").done = {} /\ Failed("error").st = "error"
  BY ReplyType DEF Failed, OkReply, Reply, ReplyStates
<1>3. /\ OkReply \in Replies /\ OkReply.done = {} /\ OkReply.st = "ok"
      /\ NegativeReply \in Replies /\ NegativeReply.done = {}
  BY ReplyType DEF NegativeReply, OkReply, Reply
<1>4. CASE o = Answer(Failed("error"))
  BY <1>1, <1>2, <1>4
<1>5. CASE p.fc = "CheckCas"
  BY <1>1, <1>3, <1>5 DEF Outcomes
<1>6. CASE p.fc \in {"PrepareAndExecute", "GetSchema"} /\ o # Answer(Failed("error"))
  <2>1. PICK s \in p.stmts : o \in ExecuteOutcomes(s, p.ac)
    BY <1>6 DEF Outcomes
  <2>2. PICK h \in FreeHandles : o \in OpenOutcomes(s, p.ac, h)
    BY <2>1 DEF ExecuteOutcomes
  <2>3. PICK n \in InlineRows(s) :
          o = Ran({s}, p.ac, [open EXCEPT ![h] = s],
                  IF Kind[s] = "insert" THEN s ELSE lastId,
                  Reply(h, RowsOf(s, 1, n), None, {s}))
    BY <2>2 DEF OpenOutcomes
  <2> QED
    BY <1>6, <2>3, RanWork DEF Packets
<1>7. CASE p.fc = "ExecuteBatch" /\ o # Answer(Failed("error"))
  <2>1. PICK done \in SUBSET p.stmts : o \in BatchOutcomes(done, p.ac)
    BY <1>7 DEF Outcomes
  <2>2. PICK l \in LastIds(done) :
          o = Ran(done, p.ac, open, l, Reply(None, <<>>, None, done))
    BY <2>1 DEF BatchOutcomes
  <2> QED
    BY <1>7, <2>2, RanWork DEF Packets
<1>8. CASE p.fc = "Fetch" /\ o # Answer(Failed("error"))
  <2>1. o \in FetchOutcomes(p)
    BY <1>8 DEF Outcomes
  <2>2. o = Answer(Reply(None, FetchedRows(open[p.h], p.from), None, {}))
    BY <2>1 DEF FetchOutcomes
  <2>3. /\ o.work = work /\ o.durable = durable /\ o.tran = tran
        /\ o.reply.done = {}
    BY <2>2 DEF Answer, Outcome, Reply
  <2> QED
    BY <1>8, <2>3 DEF WorkKept, Dml
<1>9. CASE p.fc \in {"Commit", "Rollback"} /\ o # Answer(Failed("error"))
  <2>1. PICK table :
          o = Outcome(table, FALSE, {},
                      IF p.fc = "Commit" THEN durable \cup work ELSE durable,
                      param, lastId, OkReply)
    BY <1>9 DEF Outcomes, EndTranOutcomes
  <2>2. /\ o.work = {} /\ o.reply = OkReply
        /\ o.durable = IF p.fc = "Commit" THEN durable \cup work ELSE durable
    BY <2>1 DEF Outcome
  <2> QED
    BY <1>3, <1>9, <2>2 DEF WorkKept, Dml
<1>10. CASE p.fc \in {"CloseQuery", "SetDbParameter"} /\ o # Answer(Failed("error"))
  <2>1. /\ o.work = work /\ o.durable = durable /\ o.tran = tran
        /\ o.reply = OkReply
    BY <1>10 DEF Outcomes, CloseQueryOutcomes, SetDbParameterOutcomes, Outcome
  <2> QED
    BY <1>3, <1>10, <2>1 DEF WorkKept, Dml
<1>11. CASE p.fc = "CloseDatabase" /\ o # Answer(Failed("error"))
  <2>1. o.work = {} /\ o.durable = durable /\ o.reply = OkReply
    BY <1>11 DEF Outcomes, CloseDatabaseOutcomes, Outcome
  <2> QED
    BY <1>3, <1>11, <2>1 DEF WorkKept, Dml
<1>12. CASE p.fc = "GetLastInsertId" /\ o # Answer(Failed("error"))
  <2>1. o = Answer(Reply(None, <<>>, lastId, {}))
    BY <1>12 DEF Outcomes
  <2>2. /\ o.work = work /\ o.durable = durable /\ o.tran = tran
        /\ o.reply.done = {}
    BY <2>1 DEF Answer, Outcome, Reply
  <2> QED
    BY <1>12, <2>2 DEF WorkKept, Dml
<1>13. CASE p.fc \in {"None", "GetEngineVersion"} /\ o # Answer(Failed("error"))
  <2>1. o = Answer(OkReply)
    BY <1>13 DEF Outcomes
  <2> QED
    BY <1>1, <1>3, <1>13, <2>1
<1> QED
  BY <1>4, <1>5, <1>6, <1>7, <1>8, <1>9, <1>10, <1>11, <1>12, <1>13 DEF Packets, Fcs

(***************************************************************************)
(* What a reply says of the session: the handle it opens, the rows it      *)
(* brings, the identifier it gives.                                        *)
(***************************************************************************)
\* The rows that follow a run of rows make a longer run.
LEMMA RowsOfJoin ==
  ASSUME NEW s, NEW n \in Nat, NEW k \in Nat
  PROVE  RowsOf(s, 1, n) \o RowsOf(s, n + 1, k) = RowsOf(s, 1, n + k)
  BY DEF RowsOf

\* A PREPARE_AND_EXECUTE that succeeds opens a handle of a free number for its
\* statement and brings its first rows; an INSERT sets the last identifier.
LEMMA ExecuteAnswer ==
  ASSUME NEW p \in Packets, p.fc = "PrepareAndExecute",
         NEW o \in Outcomes(p), o.reply.st = "ok"
  PROVE  \E s \in p.stmts, h \in FreeHandles, n \in Nat :
           /\ o.open = [open EXCEPT ![h] = s]
           /\ o.reply.h = h
           /\ o.reply.rows = RowsOf(s, 1, n)
           /\ o.reply.done = {s}
           /\ Kind[s] = "insert" => o.lastId = s
<1>1. o # Answer(Failed("error"))
  BY ReplyType DEF Answer, Outcome, ReplyStates
<1>2. PICK s \in p.stmts : o \in ExecuteOutcomes(s, p.ac)
  BY <1>1 DEF Outcomes
<1>3. PICK h \in FreeHandles : o \in OpenOutcomes(s, p.ac, h)
  BY <1>2 DEF ExecuteOutcomes
<1> DEFINE l == IF Kind[s] = "insert" THEN s ELSE lastId
           r(n) == Reply(h, RowsOf(s, 1, n), None, {s})
<1>4. PICK n \in InlineRows(s) : o = Ran({s}, p.ac, [open EXCEPT ![h] = s], l, r(n))
  BY <1>3 DEF OpenOutcomes
<1>5. n \in Nat
  BY SizeAssumption, FetchSizeAssumption DEF InlineRows, Min2, Packets
<1> HIDE DEF l
<1>6. o.open = [open EXCEPT ![h] = s] /\ o.reply = r(n) /\ o.lastId = l
  BY <1>4 DEF Ran, Outcome
<1>7. r(n).h = h /\ r(n).rows = RowsOf(s, 1, n) /\ r(n).done = {s}
  BY DEF Reply
<1>8. /\ o.open = [open EXCEPT ![h] = s]
      /\ o.reply.h = h
      /\ o.reply.rows = RowsOf(s, 1, n)
      /\ o.reply.done = {s}
      /\ Kind[s] = "insert" => o.lastId = s
  BY <1>6, <1>7 DEF l
<1> QED
  BY <1>5, <1>8, Zenon

\* A FETCH that succeeds reads on in the statement its handle stands for.
LEMMA FetchAnswer ==
  ASSUME NEW p \in Packets, p.fc = "Fetch", ServerTypeOK,
         NEW o \in Outcomes(p), o.reply.st = "ok"
  PROVE  /\ p.h \in Handles /\ open[p.h] \in Stmts
         /\ \E k \in Nat : o.reply.rows = RowsOf(open[p.h], p.from, k)
<1>1. o # Answer(Failed("error"))
  BY ReplyType DEF Answer, Outcome, ReplyStates
<1>2. o \in FetchOutcomes(p)
  BY <1>1 DEF Outcomes
<1>3. /\ p.h \in Handles /\ open[p.h] # None
      /\ o = Answer(Reply(None, FetchedRows(open[p.h], p.from), None, {}))
  BY <1>2 DEF FetchOutcomes
<1>4. open[p.h] \in Stmts /\ p.from \in Nat
  BY <1>3 DEF ServerTypeOK, Packets
<1>5. RowsLeft(open[p.h], p.from) \in Nat
  BY <1>4, SizeAssumption, FetchSizeAssumption DEF RowsLeft, Min2
<1>6. o.reply.rows = FetchedRows(open[p.h], p.from)
  BY <1>3 DEF Answer, Outcome, Reply
<1> QED
  BY <1>3, <1>4, <1>5, <1>6 DEF FetchedRows

\* A PREPARE_AND_EXECUTE that succeeds gives a handle, and brings rows of a
\* SELECT only, no more than its result has.
LEMMA ExecuteBrings ==
  ASSUME NEW p \in Packets, p.fc = "PrepareAndExecute",
         NEW o \in Outcomes(p), o.reply.st = "ok"
  PROVE  /\ o.reply.h \in Handles
         /\ \E s \in p.stmts : /\ o.reply.done = {s}
                               /\ Len(o.reply.rows) <= Size[s]
                               /\ Kind[s] # "select" => o.reply.rows = <<>>
<1>1. o # Answer(Failed("error"))
  BY ReplyType DEF Answer, Outcome, ReplyStates
<1>2. PICK s \in p.stmts : o \in ExecuteOutcomes(s, p.ac)
  BY <1>1 DEF Outcomes
<1>3. PICK h \in FreeHandles : o \in OpenOutcomes(s, p.ac, h)
  BY <1>2 DEF ExecuteOutcomes
<1> DEFINE r(n) == Reply(h, RowsOf(s, 1, n), None, {s})
           l == IF Kind[s] = "insert" THEN s ELSE lastId
<1>4. PICK n \in InlineRows(s) : o = Ran({s}, p.ac, [open EXCEPT ![h] = s], l, r(n))
  BY <1>3 DEF OpenOutcomes
<1>5. Size[s] \in Nat
  BY SizeAssumption DEF Packets
<1>6. n \in Nat /\ n <= Size[s] /\ (Kind[s] # "select" => n = 0)
  BY <1>5, FetchSizeAssumption DEF InlineRows, Min2
<1>7. o.reply.h = h /\ o.reply.rows = RowsOf(s, 1, n) /\ o.reply.done = {s}
  <2>1. o.reply = r(n)
    BY <1>4 DEF Ran, Outcome
  <2> QED
    BY <2>1 DEF Reply
<1>8. Len(RowsOf(s, 1, n)) = n /\ (n = 0 => RowsOf(s, 1, n) = <<>>)
  BY <1>6 DEF RowsOf
<1> QED
  BY <1>6, <1>7, <1>8 DEF FreeHandles

\* A FETCH that succeeds brings rows as long as there are any, and no more than
\* there are.
LEMMA FetchBrings ==
  ASSUME NEW p \in Packets, p.fc = "Fetch", ServerTypeOK,
         NEW o \in Outcomes(p), o.reply.st = "ok",
         NEW n \in Nat, p.from = n + 1, n < Size[open[p.h]]
  PROVE  /\ o.reply.rows # <<>>
         /\ n + Len(o.reply.rows) <= Size[open[p.h]]
<1>1. o # Answer(Failed("error"))
  BY ReplyType DEF Answer, Outcome, ReplyStates
<1>2. o \in FetchOutcomes(p)
  BY <1>1 DEF Outcomes
<1> DEFINE s == open[p.h]
           k == RowsLeft(s, p.from)
<1>3. /\ p.h \in Handles /\ open[p.h] # None
      /\ o = Answer(Reply(None, FetchedRows(s, p.from), None, {}))
  BY <1>2 DEF FetchOutcomes
<1>4. s \in Stmts /\ Size[s] \in Nat
  BY <1>3, SizeAssumption DEF ServerTypeOK
<1>5. k \in Nat /\ 0 < k /\ n + k <= Size[s]
  <2>1. ~(p.from > Size[s]) /\ Size[s] - (p.from - 1) = Size[s] - n
    BY <1>4
  <2>2. k = Min2(Size[s] - n, FetchSize)
    BY <2>1 DEF RowsLeft
  <2> HIDE DEF s, k
  <2> QED
    BY <1>4, <2>2, FetchSizeAssumption DEF Min2, s
<1>6. o.reply.rows = RowsOf(s, p.from, k)
  BY <1>3 DEF Answer, Outcome, Reply, FetchedRows
<1> HIDE DEF s, k
<1>7. Len(RowsOf(s, p.from, k)) = k
  BY <1>5 DEF RowsOf
<1>8. Len(o.reply.rows) = k
  BY <1>6, <1>7
<1>9. o.reply.rows # <<>>
  <2>1. Len(<<>>) = 0
    OBVIOUS
  <2> QED
    BY <1>5, <1>8, <2>1
<1> QED
  BY <1>5, <1>8, <1>9 DEF s

\* The server answers a request or refuses it; only CHECK_CAS has a negative
\* answer that is not a refusal.
LEMMA AnswerStatus ==
  ASSUME NEW p \in Packets, NEW o \in Outcomes(p)
  PROVE  /\ o.reply.st \in {"ok", "error"}
         /\ o.reply.neg => p.fc = "CheckCas"
<1>1. \A h, rows, id, done : /\ Reply(h, rows, id, done).st = "ok"
                             /\ Reply(h, rows, id, done).neg = FALSE
  BY DEF Reply
<1>2. /\ OkReply.st = "ok" /\ NegativeReply.st = "ok"
      /\ Failed("error").st = "error"
      /\ OkReply.neg = FALSE /\ Failed("error").neg = FALSE
  BY DEF NegativeReply, Failed, OkReply, Reply
<1>3. \A r : Answer(r).reply = r
  BY DEF Answer, Outcome
<1>4. CASE o = Answer(Failed("error")) \/ p.fc = "CheckCas"
  BY <1>2, <1>3, <1>4 DEF Outcomes
<1>5. CASE p.fc \in {"PrepareAndExecute", "GetSchema"} /\ o # Answer(Failed("error"))
  <2>1. PICK s \in p.stmts : o \in ExecuteOutcomes(s, p.ac)
    BY <1>5 DEF Outcomes
  <2>2. PICK h \in FreeHandles : o \in OpenOutcomes(s, p.ac, h)
    BY <2>1 DEF ExecuteOutcomes
  <2>3. PICK n \in InlineRows(s) : o.reply = Reply(h, RowsOf(s, 1, n), None, {s})
    BY <2>2 DEF OpenOutcomes, Ran, Outcome
  <2> QED
    BY <1>1, <2>3
<1>6. CASE p.fc = "ExecuteBatch" /\ o # Answer(Failed("error"))
  <2>1. PICK done \in SUBSET p.stmts : o \in BatchOutcomes(done, p.ac)
    BY <1>6 DEF Outcomes
  <2>2. o.reply = Reply(None, <<>>, None, done)
    BY <2>1 DEF BatchOutcomes, Ran, Outcome
  <2> QED
    BY <1>1, <2>2
<1>7. CASE p.fc = "Fetch" /\ o # Answer(Failed("error"))
  <2>1. o = Answer(Reply(None, FetchedRows(open[p.h], p.from), None, {}))
    BY <1>7 DEF Outcomes, FetchOutcomes
  <2> QED
    BY <1>1, <1>3, <2>1
<1>8. CASE p.fc \in {"CloseQuery", "Commit", "Rollback", "SetDbParameter", "CloseDatabase"}
           /\ o # Answer(Failed("error"))
  <2>1. o.reply = OkReply
    BY <1>8 DEF Outcomes, CloseQueryOutcomes, EndTranOutcomes, SetDbParameterOutcomes,
                CloseDatabaseOutcomes, Outcome
  <2> QED
    BY <1>2, <2>1
<1>9. CASE p.fc \in {"None", "GetEngineVersion"} /\ o # Answer(Failed("error"))
  BY <1>2, <1>3, <1>9 DEF Outcomes
<1>10. CASE p.fc = "GetLastInsertId" /\ o # Answer(Failed("error"))
  BY <1>1, <1>3, <1>10 DEF Outcomes
<1> QED
  BY <1>4, <1>5, <1>6, <1>7, <1>8, <1>9, <1>10 DEF Packets, Fcs

\* The handle table after a request: only a request that executes opens a
\* number, and only CLOSE_REQ_HANDLE, END_TRAN and CLOSE_DATABASE, carried out,
\* free one.
LEMMA OpenAfter ==
  ASSUME NEW p \in Packets, NEW o \in Outcomes(p), p.fc # "CloseDatabase"
  PROVE  \/ o.open = open
         \/ /\ p.fc \in {"PrepareAndExecute", "GetSchema"}
            /\ \E h \in FreeHandles, s \in Stmts : o.open = [open EXCEPT ![h] = s]
         \/ /\ p.fc = "CloseQuery" /\ o.reply.st = "ok"
            /\ o.open = [open EXCEPT ![p.h] = None]
         \/ p.fc \in {"Commit", "Rollback"} /\ o.reply.st = "ok"
<1>1. \A r : Answer(r).open = open
  BY DEF Answer, Outcome
<1>2. CASE o = Answer(Failed("error")) \/ p.fc = "CheckCas"
  BY <1>1, <1>2 DEF Outcomes
<1>3. CASE p.fc \in {"PrepareAndExecute", "GetSchema"} /\ o # Answer(Failed("error"))
  <2>1. PICK s \in p.stmts : o \in ExecuteOutcomes(s, p.ac)
    BY <1>3 DEF Outcomes
  <2>2. PICK h \in FreeHandles : o \in OpenOutcomes(s, p.ac, h)
    BY <2>1 DEF ExecuteOutcomes
  <2>3. o.open = [open EXCEPT ![h] = s]
    BY <2>2 DEF OpenOutcomes, Ran, Outcome
  <2> QED
    BY <1>3, <2>3 DEF Packets
<1>4. CASE p.fc = "ExecuteBatch" /\ o # Answer(Failed("error"))
  <2>1. PICK done \in SUBSET p.stmts : o \in BatchOutcomes(done, p.ac)
    BY <1>4 DEF Outcomes
  <2> QED
    BY <2>1 DEF BatchOutcomes, Ran, Outcome
<1>5. CASE p.fc = "Fetch" /\ o # Answer(Failed("error"))
  BY <1>1, <1>5 DEF Outcomes, FetchOutcomes
<1>6. CASE p.fc \in {"CloseQuery", "Commit", "Rollback"} /\ o # Answer(Failed("error"))
  <2>1. OkReply.st = "ok"
    BY DEF OkReply, Reply
  <2> QED
    BY <1>6, <2>1 DEF Outcomes, CloseQueryOutcomes, EndTranOutcomes, Outcome
<1>7. CASE p.fc = "SetDbParameter" /\ o # Answer(Failed("error"))
  BY <1>7 DEF Outcomes, SetDbParameterOutcomes, Outcome
<1>8. CASE p.fc \in {"None", "GetEngineVersion", "GetLastInsertId"}
           /\ o # Answer(Failed("error"))
  BY <1>1, <1>8 DEF Outcomes
<1> QED
  BY <1>2, <1>3, <1>4, <1>5, <1>6, <1>7, <1>8 DEF Packets, Fcs

\* The answer to GET_LAST_INSERT_ID is the session's last identifier, or none.
LEMMA LastIdAnswer ==
  ASSUME NEW p \in Packets, p.fc = "GetLastInsertId", NEW o \in Outcomes(p)
  PROVE  o.reply.id \in {None, lastId} /\ o.lastId = lastId
<1>1. /\ Failed("error").id = None
      /\ Reply(None, <<>>, lastId, {}).id = lastId
  BY DEF Failed, OkReply, Reply
<1>2. \A r : Answer(r).reply = r /\ Answer(r).lastId = lastId
  BY DEF Answer, Outcome
<1> QED
  BY <1>1, <1>2 DEF Outcomes
=============================================================================
