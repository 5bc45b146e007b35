----------------------------- MODULE ResultSets -----------------------------
(***************************************************************************)
(* What the cursors of a connection promise the application, without a     *)
(* connection, a buffer or a query handle in it: a cursor that has run a   *)
(* SELECT hands over its rows from the first on, in order, each once, and  *)
(* no further than it can still reach.  What is out of reach is lost for   *)
(* good (_fetch_more_rows returns False without a handle), but never what  *)
(* was handed over.  SyncDriver.tla implements it, and so does             *)
(* AsyncDriver.tla when the tasks take turns.                              *)
(***************************************************************************)
EXTENDS Naturals, Sequences

CONSTANTS
  Cursors,    \* the cursor objects of the application
  Stmts,      \* the statements it may run
  Size,       \* [Stmts -> Nat], the number of rows of each result
  None        \* Python's None

VARIABLES
  stmt,       \* stmt[c]: the SELECT whose result the cursor holds, or None
  taken,      \* taken[c]: the rows taken from it
  reach       \* reach[c]: how many of its rows can be taken, those included

vars == <<stmt, taken, reach>>

FirstRows(s, n) == [i \in 1..n |-> <<s, i>>]

Init ==
  /\ stmt = [c \in Cursors |-> None]
  /\ taken = [c \in Cursors |-> <<>>]
  /\ reach = [c \in Cursors |-> 0]

\* The cursor runs a SELECT: all of the result is in reach, none is taken.
Opens(c, s) ==
  /\ stmt' = [stmt EXCEPT ![c] = s]
  /\ taken' = [taken EXCEPT ![c] = <<>>]
  /\ reach' = [reach EXCEPT ![c] = Size[s]]

\* The cursor runs another statement, or is a new cursor object.
Ends(c) ==
  /\ stmt' = [stmt EXCEPT ![c] = None]
  /\ taken' = [taken EXCEPT ![c] = <<>>]
  /\ reach' = [reach EXCEPT ![c] = 0]

\* Rows are taken, up to the n-th.
Takes(c, n) ==
  /\ n \in Len(taken[c])..reach[c]
  /\ taken' = [taken EXCEPT ![c] = FirstRows(stmt[c], n)]
  /\ UNCHANGED <<stmt, reach>>

\* Handles are lost, and with them the rows that are not buffered.
Loses ==
  /\ UNCHANGED <<stmt, taken>>
  /\ reach' \in [Cursors -> Nat]
  /\ \A c \in Cursors : Len(taken[c]) <= reach'[c] /\ reach'[c] <= reach[c]

Next ==
  \/ Loses
  \/ \E c \in Cursors :
       \/ Ends(c)
       \/ \E s \in Stmts : Opens(c, s)
       \/ \E n \in 0..reach[c] : Takes(c, n)

Spec == Init /\ [][Next]_vars
=============================================================================
