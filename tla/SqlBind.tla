------------------------------ MODULE SqlBind ------------------------------
(***************************************************************************)
(* Binding parameters into a statement (src/pycubrid/_cursor_common.py):   *)
(* split_on_placeholders cuts the operation at its "?" placeholders, one   *)
(* turn of its loops per step; bind_parameters puts the literals of the    *)
(* parameters between the pieces.  A text is a sequence of characters, of  *)
(* which only those that matter to SQL are told apart.                     *)
(*                                                                         *)
(* The reference is the lexer of the server (external), which reads the    *)
(* text that results one character at a time.                              *)
(***************************************************************************)
EXTENDS Integers, Sequences, FiniteSets, SequencesExt

CONSTANTS
  Operations,  \* the texts execute() may be given
  Values,      \* the parameters it may be given
  MaxValues    \* bound: how many of them at once

ASSUME MaxValuesAssumption == MaxValues \in Nat

NL == "newline"
BS == "backslash"
Verb == "INSERT"  \* a verb of DML_BATCH_VERBS, taken as one character

VARIABLES
  plain,  \* no_backslash_escapes
  sql,    \* the operation
  i,      \* how much of it is scanned
  start,  \* where the current piece starts
  mode,   \* what the scanner is in, "split" or "bound" when it is done
  parts,  \* the pieces
  given,  \* the parameters
  bound   \* the outcome: an exception, or the rendered text

bindVars == <<plain, sql, i, start, mode, parts, given, bound>>

Modes == {"code", "'", "\"", "line", "block", "split", "bound"}

BindInit ==
  /\ plain \in BOOLEAN
  /\ sql \in Operations
  /\ i = 0 /\ start = 0
  /\ mode = "code"
  /\ parts = <<>> /\ given = <<>>
  /\ bound = [raised |-> "none", text |-> <<>>]

(***************************************************************************)
(* split_on_placeholders.                                                  *)
(***************************************************************************)
Char(k) == IF k < Len(sql) THEN sql[k + 1] ELSE "end"
Ahead(c, d) == Char(i) = c /\ Char(i + 1) = d

Scan(n, m) ==
  /\ i < Len(sql)
  /\ i' = i + n
  /\ mode' = m
  /\ UNCHANGED <<plain, sql, start, parts, given, bound>>

\* The start of a literal or a quoted identifier, of either comment.
OpenQuote == mode = "code" /\ Char(i) \in {"'", "\""} /\ Scan(1, Char(i))
OpenLine == mode = "code" /\ Ahead("-", "-") /\ Scan(2, "line")
OpenBlock == mode = "code" /\ Ahead("/", "*") /\ Scan(2, "block")

Piece(from, to) == SubSeq(sql, from + 1, to)

Placeholder ==
  /\ mode = "code" /\ Char(i) = "?"
  /\ parts' = Append(parts, Piece(start, i))
  /\ i' = i + 1
  /\ start' = i + 1
  /\ UNCHANGED <<plain, sql, mode, given, bound>>

Other ==
  /\ mode = "code" /\ Char(i) \notin {"'", "\"", "?"}
  /\ ~Ahead("-", "-") /\ ~Ahead("/", "*")
  /\ Scan(1, "code")

\* A doubled quote stays inside; a single one ends the literal.
InQuote ==
  /\ mode \in {"'", "\""}
  /\ CASE Ahead(mode, mode) -> Scan(2, mode)
       [] Char(i) = mode /\ Char(i + 1) # mode -> Scan(1, "code")
       [] OTHER -> Scan(1, mode)

InLine ==
  /\ mode = "line"
  /\ IF Char(i) = NL THEN Scan(0, "code") ELSE Scan(1, "line")

InBlock ==
  /\ mode = "block"
  /\ IF Ahead("*", "/") THEN Scan(2, "code") ELSE Scan(1, "block")

LastPart ==
  /\ mode \in {"code", "'", "\"", "line", "block"}
  /\ i = Len(sql)
  /\ parts' = Append(parts, Piece(start, i))
  /\ mode' = "split"
  /\ UNCHANGED <<plain, sql, i, start, given, bound>>

(***************************************************************************)
(* escape_string, format_parameter, bind_parameters.                       *)
(***************************************************************************)
\* Seeded fault: a backslash is escaped whatever no_backslash_escapes says.
EscapedCharAlways(c) ==
  CASE c = "'" -> <<"'", "'">>
    [] c \in {BS, NL} -> <<BS, c>>
    [] OTHER -> <<c>>

EscapedChar(c) ==
  CASE c = "'" -> <<"'", "'">>
    [] c \in {BS, NL} /\ ~plain -> <<BS, c>>
    [] OTHER -> <<c>>

EscapeString(text) == FlattenSeq([k \in DOMAIN text |-> EscapedChar(text[k])])

Quoted(prefix, text) == prefix \o <<"'">> \o text \o <<"'">>

\* The kinds of value, and the literal of each.
FormatParameter(v) ==
  CASE v.kind = "None" -> <<"NULL">>
    [] v.kind = "number" -> v.text
    [] v.kind = "str" -> Quoted(<<>>, EscapeString(v.text))
    [] v.kind = "bytes" -> Quoted(<<"X">>, v.text)
    [] v.kind = "date" -> Quoted(<<"DATE">>, v.text)

\* A null byte, nan or inf, a type that is not supported.
Unsupported(v) == v.kind = "unsupported"

BindParameters(values) ==
  /\ mode = "split"
  /\ mode' = "bound"
  /\ given' = values
  /\ UNCHANGED <<plain, sql, i, start, parts>>
  /\ bound' =
       IF Len(parts) # Len(values) + 1 \/ \E k \in DOMAIN values : Unsupported(values[k])
       THEN [raised |-> "ProgrammingError", text |-> <<>>]
       ELSE [raised |-> "none",
             text |-> parts[1] \o
               FlattenSeq([k \in DOMAIN values |-> FormatParameter(values[k]) \o parts[k + 1]])]

\* As many parameters as there are placeholders, or one too many.
ValueLists(n) ==
  (IF n <= MaxValues THEN [1..n -> Values] ELSE {})
    \cup {[k \in 1..n + 1 |-> [kind |-> "None", text |-> <<>>]]}

Bind == \E values \in ValueLists(Len(parts) - 1) : BindParameters(values)

Scanning ==
  \/ OpenQuote \/ OpenLine \/ OpenBlock \/ Placeholder \/ Other
  \/ InQuote \/ InLine \/ InBlock
  \/ LastPart

BindNext == Scanning \/ Bind

(***************************************************************************)
(* extract_first_keyword: executemany() sends one batch when what follows  *)
(* the leading comments and white space is a verb of DML_BATCH_VERBS.      *)
(***************************************************************************)
Pair(text, k, c, d) == k < Len(text) /\ text[k] = c /\ text[k + 1] = d

\* The position after the leading comments and white space of a text.
AfterComments(text) ==
  LET n == Len(text)
      after[k \in 1..n + 1] ==
        LET line == {j \in k + 2..n : text[j] = NL}
            block == {j \in k + 2..n : Pair(text, j, "*", "/")}
        IN CASE k > n -> k
             [] k <= n /\ text[k] = NL -> after[k + 1]
             [] Pair(text, k, "-", "-") -> IF line = {} THEN n + 1 ELSE after[Min(line) + 1]
             [] Pair(text, k, "/", "*") /\ block # {} -> after[Min(block) + 2]
             [] OTHER -> k
  IN after[1]

\* Seeded fault: the comments are not skipped.
IsBatchUncommented(text) ==
  text # <<>> /\ text[1] = Verb /\ (Len(text) > 1 => text[2] = NL)

\* The first word ends at white space or at the end of the text.
IsBatch(text) ==
  LET k == AfterComments(text)
  IN /\ k <= Len(text) /\ text[k] = Verb
     /\ k < Len(text) => text[k + 1] = NL

(***************************************************************************)
(* The lexer of the server (external).  s.mode says what it is in, the     *)
(* characters it may have to take back included; s.tokens what it read.    *)
(***************************************************************************)
Add(s, token) == [s EXCEPT !.tokens = Append(@, token), !.mode = "code", !.text = <<>>]
In(s, m) == [s EXCEPT !.mode = m]
Keep(s, m, c) == [s EXCEPT !.mode = m, !.text = Append(@, c)]

LexCode(s, c) ==
  CASE c = "'" -> In(s, "literal")
    [] c = "\"" -> In(s, "name")
    [] c = "-" -> In(s, "minus")
    [] c = "/" -> In(s, "slash")
    [] OTHER -> Add(s, <<"code", c>>)

LexChar(s, c) ==
  CASE s.mode = "code" -> LexCode(s, c)
    [] s.mode = "minus" ->
         IF c = "-" THEN In(s, "line") ELSE LexCode(Add(s, <<"code", "-">>), c)
    [] s.mode = "slash" ->
         IF c = "*" THEN In(s, "block") ELSE LexCode(Add(s, <<"code", "/">>), c)
    [] s.mode = "literal" ->
         (CASE c = "'" -> In(s, "quote")
            [] c = BS /\ ~plain -> In(s, "escape")
            [] OTHER -> Keep(s, "literal", c))
    [] s.mode = "escape" -> Keep(s, "literal", c)
    [] s.mode = "quote" ->
         IF c = "'" THEN Keep(s, "literal", c) ELSE LexCode(Add(s, <<"literal", s.text>>), c)
    [] s.mode = "name" -> IF c = "\"" THEN In(s, "name quote") ELSE Keep(s, "name", c)
    [] s.mode = "name quote" ->
         IF c = "\"" THEN Keep(s, "name", c) ELSE LexCode(Add(s, <<"name", s.text>>), c)
    [] s.mode = "line" -> IF c = NL THEN Add(s, <<"comment", "">>) ELSE s
    [] s.mode = "block" -> IF c = "*" THEN In(s, "star") ELSE s
    [] s.mode = "star" ->
         (CASE c = "/" -> Add(s, <<"comment", "">>)
            [] c = "*" -> s
            [] OTHER -> In(s, "block"))

LexEnd(s) ==
  CASE s.mode = "code" -> s.tokens
    [] s.mode = "minus" -> Append(s.tokens, <<"code", "-">>)
    [] s.mode = "slash" -> Append(s.tokens, <<"code", "/">>)
    [] s.mode = "quote" -> Append(s.tokens, <<"literal", s.text>>)
    [] s.mode = "name quote" -> Append(s.tokens, <<"name", s.text>>)
    [] s.mode = "line" -> Append(s.tokens, <<"comment", "">>)
    [] OTHER -> Append(s.tokens, <<"unterminated", s.text>>)

Tokens(text) ==
  LexEnd(FoldLeft(LexChar, [mode |-> "code", text |-> <<>>, tokens |-> <<>>], text))

(***************************************************************************)
(* What a statement with placeholders means: its own tokens, with those of *)
(* the parameters in the place of the placeholders.                        *)
(***************************************************************************)
Hole == <<"code", "?">>

ValueTokens(v) ==
  CASE v.kind = "None" -> <<<<"code", "NULL">>>>
    [] v.kind = "number" -> [k \in DOMAIN v.text |-> <<"code", v.text[k]>>]
    [] v.kind = "str" -> <<<<"literal", v.text>>>>
    [] v.kind = "bytes" -> <<<<"code", "X">>, <<"literal", v.text>>>>
    [] v.kind = "date" -> <<<<"code", "DATE">>, <<"literal", v.text>>>>

Meaning(ts, values) ==
  LET Put(s, t) ==
        IF t = Hole
        THEN [n |-> s.n + 1, out |-> s.out \o ValueTokens(values[s.n + 1])]
        ELSE [s EXCEPT !.out = Append(@, t)]
  IN FoldLeft(Put, [n |-> 0, out |-> <<>>], ts).out

HoleCount(ts) == Cardinality({k \in DOMAIN ts : ts[k] = Hole})

\* A placeholder stands where an operand can stand: not against a literal, a
\* word or another placeholder.  A backslash the server takes for an escape
\* does not occur in the operation.
Words == {"x", Verb}
Operand(t) ==
  \/ t[1] \in {"literal", "unterminated"}
  \/ t[1] = "code" /\ t[2] \in Words \cup {"?"}

WellFormed(ts) ==
  /\ \A k \in 1..Len(ts) - 1 :
       /\ ts[k] = Hole => ~Operand(ts[k + 1])
       /\ ts[k + 1] = Hole => ~Operand(ts[k])
  /\ plain \/ BS \notin ToSet(sql)

\* A minus directly before a placeholder that stands for a negative number.
NthHole(ts, k) == Cardinality({j \in 1..k : ts[j] = Hole})
MinusMinus(ts, values) ==
  \E k \in 2..Len(ts) :
    /\ ts[k] = Hole /\ ts[k - 1] = <<"code", "-">>
    /\ values[NthHole(ts, k)].text # <<>> /\ values[NthHole(ts, k)].text[1] = "-"

Faithful ==
  LET ts == Tokens(sql)
  IN IF Len(given) # HoleCount(ts) \/ \E k \in DOMAIN given : Unsupported(given[k])
     THEN bound.raised = "ProgrammingError"
     ELSE bound.raised = "none" /\ Tokens(bound.text) = Meaning(ts, given)

(***************************************************************************)
(* The server reads the rendered text as the statement the application     *)
(* wrote: a "?" in a literal, a quoted name or a comment is left alone,    *)
(* every other one is replaced by its own parameter, whose value comes     *)
(* back whole out of its literal; and a wrong number is refused.           *)
(***************************************************************************)
SqlAsGiven ==
  LET ts == Tokens(sql)
  IN mode = "bound" /\ WellFormed(ts) /\ ~MinusMinus(ts, given) => Faithful

(***************************************************************************)
(* The same without the proviso about minus signs, as bind_parameters has  *)
(* it: "Bind *parameters* into *operation* by replacing ``?``              *)
(* placeholders. Returns the fully-rendered SQL string".                   *)
(***************************************************************************)
SqlAsDocumented == mode = "bound" /\ WellFormed(Tokens(sql)) => Faithful

VerbAlone == \A k \in DOMAIN sql : sql[k] = Verb => Char(k) \in {NL, "end"}

(***************************************************************************)
(* executemany() batches what the server reads as an INSERT: behind its    *)
(* comments the statement starts with the verb, and one that does is       *)
(* batched when the verb stands by itself.                                 *)
(***************************************************************************)
BatchesDml ==
  LET space == {<<"code", NL>>, <<"comment", "">>}
      ts == SelectSeq(Tokens(sql), LAMBDA t : t \notin space)
      starts == ts # <<>> /\ ts[1] = <<"code", Verb>>
  IN /\ IsBatch(sql) => starts
     /\ starts /\ VerbAlone => IsBatch(sql)
=============================================================================
