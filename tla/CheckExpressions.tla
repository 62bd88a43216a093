-------------------------- MODULE CheckExpressions --------------------------
(***************************************************************************)
(* The bounded predicate grammar of CHECK constraints, partial indexes and *)
(* literal defaults: how a bound expression is rendered into DDL           *)
(* (_checks.py), how the catalog's SQL is recognised again, and when two   *)
(* expressions are taken to be the same (_check_catalog.py).               *)
(*                                                                         *)
(* SQL is a sequence of tokens <<kind, text>>.  The characters below that  *)
(* level (white space, quoting, the case of keywords, which _accept folds) *)
(* are left out; a text literal that is spelled as UTF-8 hex is a          *)
(* different token from the text itself.  TLC only: the parser recurses.   *)
(***************************************************************************)
EXTENDS Integers, Sequences, SequencesExt, TLC

CONSTANT None      \* "no value", and SQL that could not be recognised

-----------------------------------------------------------------------------
(* Expression trees.  A value is <<"int", n>>, <<"text", s>> or <<"null">>. *)

Expr(op, args) == [op |-> op, args |-> args, val |-> <<>>]
Col(name) == [op |-> "column", args |-> <<>>, val |-> <<"column", name>>]
Lit(value) == [op |-> "literal", args |-> <<>>, val |-> value]

IntVal(n) == <<"int", n>>
TextVal(s) == <<"text", s>>
Null == <<"null">>

\* The text values of the models: an ordinary one and one that holds a NUL.
Texts == {"x", "nul"}
TextLength == ("x" :> 1) @@ ("nul" :> 3)
Hex == [s \in Texts |-> "hex of " \o s]
FromHex(h) == CHOOSE s \in Texts : Hex[s] = h

Number == [n \in 0 .. 7 |-> <<"0", "1", "2", "3", "4", "5", "6", "7">>[n + 1]]

Word(w) == <<"word", w>>
Sym(s) == <<"symbol", s>>
Name(n) == <<"identifier", n>>
Words(ws) == [i \in DOMAIN ws |-> Word(ws[i])]
Parens(ts) == <<Sym("(")>> \o ts \o <<Sym(")")>>

Joined(parts, separator) ==
    FoldLeft(LAMBDA acc, part : IF acc = <<>> THEN part ELSE acc \o separator \o part,
             <<>>, parts)

IntSQL(n) == IF n < 0 THEN <<Sym("-"), <<"number", Number[-n]>>>>
             ELSE <<<<"number", Number[n]>>>>

HexSQL(backend, s) ==
    IF backend = "mariadb"
    THEN <<Word("CONVERT"), Sym("("), Word("X"), <<"literal", Hex[s]>>,
           Word("USING"), Word("UTF8MB4"), Sym(")")>>
    ELSE <<Word("CAST"), Sym("("), Word("X"), <<"literal", Hex[s]>>,
           Word("AS"), Word("TEXT"), Sym(")")>>

TextSQL(backend, s) ==
    IF backend = "mariadb" \/ s = "nul" THEN HexSQL(backend, s)
    ELSE <<<<"literal", s>>>>

LiteralSQL(backend, v) ==
    IF v[1] = "int" THEN IntSQL(v[2]) ELSE TextSQL(backend, v[2])

Spelling == ("eq" :> "=") @@ ("ne" :> "<>") @@ ("gt" :> ">") @@ ("gte" :> ">=")
            @@ ("lt" :> "<") @@ ("lte" :> "<=")

\* Mutant of render_check: the children of AND and OR are not parenthesised.
RECURSIVE render_check_bare(_, _)
render_check_bare(e, backend) ==
    LET children == [i \in DOMAIN e.args |-> render_check_bare(e.args[i], backend)]
    IN  CASE e.op = "column" -> <<Name(e.val[2])>>
          [] e.op = "literal" -> LiteralSQL(backend, e.val)
          [] e.op = "IS NULL" -> children[1] \o Words(<<"IS", "NULL">>)
          [] e.op = "IS NOT NULL" -> children[1] \o Words(<<"IS", "NOT", "NULL">>)
          [] e.op = "NOT" -> <<Word("NOT")>> \o Parens(children[1])
          [] e.op = "IN" -> children[1] \o <<Word("IN")>>
                            \o Parens(Joined(Tail(children), <<Sym(",")>>))
          [] e.op = "NOT IN" -> children[1] \o Words(<<"NOT", "IN">>)
                                \o Parens(Joined(Tail(children), <<Sym(",")>>))
          [] e.op = "BETWEEN" -> children[1] \o <<Word("BETWEEN")>> \o children[2]
                                 \o <<Word("AND")>> \o children[3]
          [] e.op \in {"AND", "OR"} -> children[1] \o <<Word(e.op)>> \o children[2]
          [] OTHER -> children[1] \o <<Sym(Spelling[e.op])>> \o children[2]

RECURSIVE render_check(_, _)
render_check(e, backend) ==
    LET children == [i \in DOMAIN e.args |-> render_check(e.args[i], backend)]
    IN  CASE e.op = "column" -> <<Name(e.val[2])>>
          [] e.op = "literal" -> LiteralSQL(backend, e.val)
          [] e.op = "IS NULL" -> children[1] \o Words(<<"IS", "NULL">>)
          [] e.op = "IS NOT NULL" -> children[1] \o Words(<<"IS", "NOT", "NULL">>)
          [] e.op = "NOT" -> <<Word("NOT")>> \o Parens(children[1])
          [] e.op = "IN" -> children[1] \o <<Word("IN")>>
                            \o Parens(Joined(Tail(children), <<Sym(",")>>))
          [] e.op = "NOT IN" -> children[1] \o Words(<<"NOT", "IN">>)
                                \o Parens(Joined(Tail(children), <<Sym(",")>>))
          [] e.op = "BETWEEN" -> children[1] \o <<Word("BETWEEN")>> \o children[2]
                                 \o <<Word("AND")>> \o children[3]
          [] e.op \in {"AND", "OR"} ->
                 Parens(children[1]) \o <<Word(e.op)>> \o Parens(children[2])
          [] OTHER -> children[1] \o <<Sym(Spelling[e.op])>> \o children[2]

\* render_literal_default: NULL, an integer, quoted or hex-encoded text.
render_literal_default(value, backend) ==
    CASE value = Null -> <<Word("NULL")>>
      [] value[1] = "int" -> IntSQL(value[2])
      [] OTHER -> LET sql == TextSQL(backend, value[2])
                  IN  IF Len(sql) > 1 THEN Parens(sql) ELSE sql

-----------------------------------------------------------------------------
(* _Parser: recursive descent over the tokens from position p.  A step     *)
(* yields [ok, e, p]; Unsupported is the raised _UnsupportedCheckError.    *)

Unsupported == [ok |-> FALSE, e |-> None, p |-> 0]
Parsed(e, p) == [ok |-> TRUE, e |-> e, p |-> p]

Accepts(ts, p, text) ==
    p <= Len(ts) /\ ts[p][1] \in {"word", "symbol"} /\ ts[p][2] = text

Comparators == {<<"=", "eq">>, <<"==", "eq">>, <<"<>", "ne">>, <<"!=", "ne">>,
                <<">", "gt">>, <<">=", "gte">>, <<"<", "lt">>, <<"<=", "lte">>}

\* Words that are never a column: constants and clock or session functions.
ReservedWords == {"TRUE", "FALSE", "NULL", "CURRENT_DATE", "CURRENT_TIME",
                  "CURRENT_TIMESTAMP", "CURRENT_USER", "SESSION_USER", "SYSTEM_USER"}

HexOperand(ts, p, keyword) ==
    LET using == IF keyword = "CONVERT" THEN "USING" ELSE "AS"
        charset == IF keyword = "CONVERT" THEN "UTF8MB4" ELSE "TEXT"
    IN  IF /\ Accepts(ts, p, "(")
           /\ Accepts(ts, p + 1, "X")
           /\ p + 2 <= Len(ts) /\ ts[p + 2][1] = "literal"
           /\ Accepts(ts, p + 3, using)
           /\ Accepts(ts, p + 4, charset)
           /\ Accepts(ts, p + 5, ")")
        THEN Parsed(Lit(TextVal(FromHex(ts[p + 2][2]))), p + 6)
        ELSE Unsupported

KeywordValue == ("TRUE" :> IntVal(1)) @@ ("FALSE" :> IntVal(0)) @@ ("NULL" :> Null)

RECURSIVE _boolean(_, _, _, _)
RECURSIVE Chain(_, _, _, _)
RECURSIVE _comparison(_, _, _)
RECURSIVE _operand(_, _, _)
RECURSIVE Members(_, _, _)

\* An operand of one level: AND binds the comparisons, OR binds the ANDs.
Level(ts, p, operator, keywords) ==
    IF operator = "AND" THEN _comparison(ts, p, keywords)
    ELSE _boolean(ts, p, "AND", keywords)

_boolean(ts, p, operator, keywords) ==
    Chain(ts, Level(ts, p, operator, keywords), operator, keywords)

Joint(operator, left, right) ==
    IF right.ok THEN Parsed(Expr(operator, <<left.e, right.e>>), right.p) ELSE Unsupported

\* The loop of _boolean: operators of one level associate to the left.
Chain(ts, left, operator, keywords) ==
    IF ~left.ok \/ ~Accepts(ts, left.p, operator) THEN left
    ELSE Chain(ts, Joint(operator, left, Level(ts, left.p + 1, operator, keywords)),
               operator, keywords)

Including(sofar, next) ==
    IF next.ok THEN Parsed(Append(sofar.e, next.e), next.p) ELSE Unsupported

\* The operands of IN after the first, up to the closing parenthesis.
Members(ts, sofar, keywords) ==
    IF ~sofar.ok THEN Unsupported
    ELSE IF Accepts(ts, sofar.p, ")") THEN [sofar EXCEPT !.p = @ + 1]
    ELSE IF ~Accepts(ts, sofar.p, ",") THEN Unsupported
    ELSE Members(ts, Including(sofar, _operand(ts, sofar.p + 1, keywords)), keywords)

IsNull(ts, left, p, negated) ==
    IF Accepts(ts, p, "NULL")
    THEN Parsed(Expr(IF negated THEN "IS NOT NULL" ELSE "IS NULL", <<left.e>>), p + 1)
    ELSE Unsupported

Listed(left, all, negated) ==
    IF all.ok THEN Parsed(Expr(IF negated THEN "NOT IN" ELSE "IN", <<left.e>> \o all.e), all.p)
    ELSE Unsupported

InList(ts, left, p, negated, keywords) ==
    IF Accepts(ts, p, "(")
    THEN Listed(left,
                Members(ts, Including(Parsed(<<>>, p), _operand(ts, p + 1, keywords)), keywords),
                negated)
    ELSE Unsupported

Ranged(left, low, high, negated) ==
    IF high.ok
    THEN LET e == Expr("BETWEEN", <<left.e, low.e, high.e>>)
         IN  Parsed(IF negated THEN Expr("NOT", <<e>>) ELSE e, high.p)
    ELSE Unsupported

Between(ts, left, low, negated, keywords) ==
    IF low.ok /\ Accepts(ts, low.p, "AND")
    THEN Ranged(left, low, _operand(ts, low.p + 1, keywords), negated)
    ELSE Unsupported

\* What follows the first operand of a comparison, q past an optional NOT.
Completed(ts, left, negated, q, keywords) ==
    IF Accepts(ts, left.p, "IS")
    THEN IF Accepts(ts, left.p + 1, "NOT") THEN IsNull(ts, left, left.p + 2, TRUE)
         ELSE IsNull(ts, left, left.p + 1, FALSE)
    ELSE IF Accepts(ts, q, "IN") THEN InList(ts, left, q + 1, negated, keywords)
    ELSE IF Accepts(ts, q, "BETWEEN")
         THEN Between(ts, left, _operand(ts, q + 1, keywords), negated, keywords)
    ELSE IF negated THEN Unsupported
    ELSE IF \E c \in Comparators : Accepts(ts, q, c[1])
         THEN Joint((CHOOSE c \in Comparators : Accepts(ts, q, c[1]))[2], left,
                    _operand(ts, q + 1, keywords))
         ELSE left

AfterOperand(ts, left, keywords) ==
    IF ~left.ok THEN Unsupported
    ELSE IF Accepts(ts, left.p, "NOT") THEN Completed(ts, left, TRUE, left.p + 1, keywords)
    ELSE Completed(ts, left, FALSE, left.p, keywords)

Denied(child) == IF child.ok THEN Parsed(Expr("NOT", <<child.e>>), child.p) ELSE Unsupported

_comparison(ts, p, keywords) ==
    IF Accepts(ts, p, "NOT") THEN Denied(_comparison(ts, p + 1, keywords))
    ELSE AfterOperand(ts, _operand(ts, p, keywords), keywords)

Closed(ts, inner) ==
    IF inner.ok /\ Accepts(ts, inner.p, ")") THEN [inner EXCEPT !.p = @ + 1] ELSE Unsupported

\* A single token that is an operand, after an optional sign.
Atom(ts, q, signed, minus, keywords) ==
    IF q > Len(ts) THEN Unsupported
    ELSE IF ts[q][1] = "number"
         THEN LET n == CHOOSE n \in DOMAIN Number : Number[n] = ts[q][2]
              IN  Parsed(Lit(IntVal(IF minus THEN -n ELSE n)), q + 1)
    ELSE IF signed THEN Unsupported
    ELSE IF ts[q][1] = "literal" THEN Parsed(Lit(TextVal(ts[q][2])), q + 1)
    ELSE IF ts[q][1] = "word" /\ ts[q][2] \in {"CONVERT", "CAST"}
         THEN HexOperand(ts, q + 1, ts[q][2])
    ELSE IF ts[q][1] = "word" /\ keywords /\ ts[q][2] \in DOMAIN KeywordValue
         THEN Parsed(Lit(KeywordValue[ts[q][2]]), q + 1)
    ELSE IF ts[q][1] = "identifier" \/ (ts[q][1] = "word" /\ ts[q][2] \notin ReservedWords)
         THEN Parsed(Col(ts[q][2]), q + 1)
    ELSE Unsupported

_operand(ts, p, keywords) ==
    IF Accepts(ts, p, "(") THEN Closed(ts, _boolean(ts, p + 1, "OR", keywords))
    ELSE IF Accepts(ts, p, "-") THEN Atom(ts, p + 1, TRUE, TRUE, keywords)
    ELSE IF Accepts(ts, p, "+") THEN Atom(ts, p + 1, TRUE, FALSE, keywords)
    ELSE Atom(ts, p, FALSE, FALSE, keywords)

\* _Parser.parse: every token must have been consumed.
Whole(ts, parsed) == IF parsed.ok /\ parsed.p = Len(ts) + 1 THEN parsed.e ELSE None
Parse(ts, keywords) == Whole(ts, _boolean(ts, 1, "OR", keywords))

parse_check(ts) == Parse(ts, FALSE)

LiteralOf(e) == IF e # None /\ e.op = "literal" THEN e.val ELSE None
parse_default_literal(ts) == LiteralOf(Parse(ts, TRUE))

-----------------------------------------------------------------------------

Complement == ("eq" :> "ne") @@ ("ne" :> "eq") @@ ("gt" :> "lte") @@ ("gte" :> "lt")
              @@ ("lt" :> "gte") @@ ("lte" :> "gt") @@ ("IS NULL" :> "IS NOT NULL")
              @@ ("IS NOT NULL" :> "IS NULL") @@ ("IN" :> "NOT IN") @@ ("NOT IN" :> "IN")

\* The members of nested operators of the same kind, in order.
Flattened(op, args) ==
    FlattenSeq([i \in DOMAIN args |->
                   IF args[i].op = op THEN args[i].args ELSE <<args[i]>>])

RECURSIVE normalize_check(_)
normalize_check(e) ==
    LET args == [i \in DOMAIN e.args |-> normalize_check(e.args[i])]
        child == args[1]
    IN  IF e.op = "NOT" /\ child.op \in {"AND", "OR"}
        THEN normalize_check(
                 Expr(IF child.op = "AND" THEN "OR" ELSE "AND",
                      [i \in DOMAIN child.args |-> Expr("NOT", <<child.args[i]>>)]))
        ELSE IF e.op = "NOT" /\ child.op \in DOMAIN Complement
             THEN [child EXCEPT !.op = Complement[child.op]]
        ELSE IF e.op = "NOT" /\ child.op = "NOT" THEN child.args[1]
        ELSE [e EXCEPT !.args = IF e.op \in {"AND", "OR"} THEN Flattened(e.op, args) ELSE args]

-----------------------------------------------------------------------------
(* The reference: what an expression means on a row, in SQL's three-valued *)
(* logic.  "T", "F" and "N" (unknown) are the truth values.                *)

Not3(t) == CASE t = "T" -> "F" [] t = "F" -> "T" [] OTHER -> "N"
And3(S) == IF "F" \in S THEN "F" ELSE IF "N" \in S THEN "N" ELSE "T"
Or3(S) == IF "T" \in S THEN "T" ELSE IF "N" \in S THEN "N" ELSE "F"
Bool3(b) == IF b THEN "T" ELSE "F"

ValueOf(e, row) == IF e.op = "column" THEN row[e.val[2]] ELSE e.val

\* The order of two values of the same kind.
Rank(v) == IF v[1] = "int" THEN v[2] ELSE TextLength[v[2]]

Compare3(op, v, w) ==
    IF v = Null \/ w = Null THEN "N"
    ELSE CASE op = "eq" -> Bool3(v = w)
           [] op = "ne" -> Bool3(v # w)
           [] op = "gt" -> Bool3(Rank(v) > Rank(w))
           [] op = "gte" -> Bool3(Rank(v) >= Rank(w))
           [] op = "lt" -> Bool3(Rank(v) < Rank(w))
           [] op = "lte" -> Bool3(Rank(v) <= Rank(w))

RECURSIVE Truth(_, _)
Truth(e, row) ==
    LET v(i) == ValueOf(e.args[i], row)
        equal == {Compare3("eq", v(1), v(i)) : i \in 2 .. Len(e.args)}
    IN  CASE e.op = "AND" -> And3({Truth(e.args[i], row) : i \in DOMAIN e.args})
          [] e.op = "OR" -> Or3({Truth(e.args[i], row) : i \in DOMAIN e.args})
          [] e.op = "NOT" -> Not3(Truth(e.args[1], row))
          [] e.op = "IS NULL" -> Bool3(v(1) = Null)
          [] e.op = "IS NOT NULL" -> Bool3(v(1) # Null)
          [] e.op = "IN" -> Or3(equal)
          [] e.op = "NOT IN" -> Not3(Or3(equal))
          [] e.op = "BETWEEN" -> And3({Compare3("gte", v(1), v(2)), Compare3("lte", v(1), v(3))})
          [] OTHER -> Compare3(e.op, v(1), v(2))

SameMeaning(e, f, rows) == \A row \in rows : Truth(e, row) = Truth(f, row)
=============================================================================
