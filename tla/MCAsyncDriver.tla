---------------------------- MODULE MCAsyncDriver ----------------------------
(***************************************************************************)
(* Instances of AsyncDriver for TLC.                                       *)
(***************************************************************************)
EXTENDS AsyncDriver, TLC

CONSTANTS s1, s2, s3, c1, c2, t1, t2

\* What the statements are: a SELECT, an INSERT, an UPDATE, a schema request.
KindS == s1 :> "select"
KindI == s1 :> "insert"
KindSS == s1 :> "select" @@ s2 :> "select"
KindIC == s1 :> "insert" @@ s2 :> "schema"
KindSIU == s1 :> "select" @@ s2 :> "insert" @@ s3 :> "update"

OneRow == [s \in Stmts |-> 1]
TwoRows == [s \in Stmts |-> 2]

TasksAlike == Permutations(Tasks)
TasksAndCursorsAlike == Permutations(Tasks) \cup Permutations(Cursors)

SharedCalls == Calls \ {"fetchmany", "fetchall", "cursor_close"}
FetchCalls == {"cursor", "execute", "fetchmany", "commit"}
CancelCalls == {"cursor", "execute", "commit"}
ReturnCalls == {"cursor", "execute", "ping", "close"}
AloneCalls == {"cursor", "close", "cursor_close", "commit", "ping", "execute",
               "executemany_batch", "fetchmany", "fetchall"}
=============================================================================
