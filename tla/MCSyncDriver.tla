---------------------------- MODULE MCSyncDriver ----------------------------
(***************************************************************************)
(* Instances of SyncDriver for TLC.                                        *)
(***************************************************************************)
EXTENDS SyncDriver, TLC

CONSTANTS s1, s2, s3, c1, c2

\* Two SELECTs and an INSERT; an INSERT, a SELECT and a schema request.
KindSSI == s1 :> "select" @@ s2 :> "select" @@ s3 :> "insert"
KindISC == s1 :> "insert" @@ s2 :> "select" @@ s3 :> "schema"

\* A single SELECT of three rows.
KindS == s1 :> "select"
SizeS == s1 :> 3

TwoRows == s1 :> 2 @@ s2 :> 2 @@ s3 :> 2
OneRow == [s \in Stmts |-> 1]

\* The cursors are alike, and so are the two SELECTs of KindSSI.
CursorsAndSelectsAlike == Permutations(Cursors) \cup Permutations({s1, s2})

EveryCall == Calls
LoopingCalls == {"close", "commit", "cursor", "ping", "execute", "fetchmany",
                 "fetchall"}
ConnectCalls == LoopingCalls \cup {"connect"}
CursorFetchCalls == {"close", "commit", "cursor", "ping", "cursor_close",
                     "execute", "fetchmany", "fetchall"}
=============================================================================
