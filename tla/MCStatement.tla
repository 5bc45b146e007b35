---------------------------- MODULE MCStatement ----------------------------
(***************************************************************************)
(* The instance of Statement for TLC.                                      *)
(***************************************************************************)
EXTENDS Statement

CONSTANTS ta, tb, vd

(***************************************************************************)
(* Statements: every text of three characters, and longer ones of those    *)
(* that take part in quoting and in comments.                              *)
(***************************************************************************)
UpTo(A, n) == UNION {[1..k -> A] : k \in 0..n}

AllTexts ==
  UpTo({"'", "\"", "-", "/", "*", "?", NL, Verb}, 3)
    \cup UpTo({"'", "?"}, 6) \cup UpTo({"'", "?", BS}, 4) \cup UpTo({"-", "?", NL, "'"}, 4)
    \cup UpTo({"/", "*", "?"}, 5)

MinusTexts == UpTo({"-", "?"}, 3)

P(kind, text) == [kind |-> kind, text |-> text]

AllValues ==
  {P("None", <<>>), P("number", <<"1">>), P("number", <<"-", "1">>),
   P("bytes", <<"1">>), P("date", <<"1">>), P("unsupported", <<>>),
   P("str", <<>>), P("str", <<"'">>), P("str", <<"?">>), P("str", <<BS, "'">>),
   P("str", <<"'", BS>>), P("str", <<"-", "-">>), P("str", <<NL>>)}

(***************************************************************************)
(* Texts of two and three bytes; requests of every kind.                   *)
(***************************************************************************)
TwoOrThree == Empty :> 0 @@ ta :> 2 @@ tb :> 3 @@ Duplicate :> 2 @@ Unexpected :> 3

SomeTexts == {Empty, ta, tb}
AllConnections == {1, 2, 3, 4, 8} \X {FALSE} \cup {<<8, TRUE>>}
AllMessages == {ta, Duplicate, Unexpected}

F(fc) == [fc |-> fc]

AllRequests ==
  {[fc |-> f, sql |-> IF c THEN ta ELSE tb, ac |-> c] :
     f \in {"PREPARE", "PREPARE_AND_EXECUTE"}, c \in BOOLEAN}
  \cup {[fc |-> "EXECUTE_BATCH", ac |-> TRUE, sqls |-> s] : s \in UpTo({ta, tb}, 2)}
  \cup {[fc |-> "SCHEMA_INFO", type |-> 1, table |-> t, flag |-> 1] : t \in SomeTexts}
  \cup {[fc |-> "END_TRAN", how |-> h] : h \in {1, 2}}
  \cup {[fc |-> "GET_DB_VERSION", ac |-> TRUE], [fc |-> "LOB_NEW", type |-> 23],
        [fc |-> "GET_DB_PARAMETER", parameter |-> 4],
        [fc |-> "SET_DB_PARAMETER", parameter |-> 4, value |-> 1],
        F("CHECK_CAS"), F("CON_CLOSE"), F("GET_LAST_INSERT_ID")}

(***************************************************************************)
(* Columns of every type, alone and in pairs, and their values.            *)
(***************************************************************************)
ValueTypes == FixedTypes \cup TextTypes \cup LobTypes \cup CollectionTypes
                \cup {"json", "datetimetz", "object", "bit", "unknown"}

Column(t, wide, flag) ==
  [type |-> t, wide |-> wide, scale |-> 0, precision |-> 10, name |-> ta, real_name |-> tb,
   table |-> ta, nullable |-> flag = 0, default |-> IF wide THEN tb ELSE Empty,
   flags |-> [k \in 1..7 |-> k = flag]]

AllColumns ==
  {<<Column("char", w, k)>> : w \in BOOLEAN, k \in 0..7}
    \cup {<<Column(t, FALSE, 0)>> : t \in ValueTypes \cup {"null"}}
    \cup {<<Column(t, FALSE, 0), Column(u, TRUE, 1)>> :
            t \in {"null", "short", "datetimetz", "blob"}, u \in {"char", "null"}}

Items(t) ==
  CASE t \in LobTypes -> {<<3, ta>>}
    [] t \in {"char", "json"} -> {Empty, ta}
    [] OTHER -> {vd}

Collections ==
  UNION {{[of |-> t, items |-> s] : s \in UpTo(Items(t) \cup {None}, 2)} :
           t \in {"char", "int", "blob", "set", "json"}}

ValuesOf(t) ==
  CASE t \in FixedTypes -> {0, vd}
    [] t = "numeric" -> {ta}
    [] t \in {"char", "json"} -> {Empty, ta, tb}
    [] t = "datetimetz" -> {<<vd, Empty>>, <<vd, ta>>}
    [] t = "object" -> {<<1, 2, 3>>}
    [] t \in LobTypes -> {<<3, ta>>, <<0, Empty>>}
    [] t \in CollectionTypes -> Collections
    [] OTHER -> {vd}

C(t, v) == [type |-> t, v |-> v]

\* A column without a type has values of any.
SomeCells == {C("int", 0), C("char", Empty), C("char", ta), C("bit", vd), C("int", None)}

CellsIn(t) == IF t = "null" THEN SomeCells ELSE {C(t, v) : v \in ValuesOf(t) \cup {None}}
=============================================================================
