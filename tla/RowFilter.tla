------------------------------- MODULE RowFilter -------------------------------
(***************************************************************************)
(* The --where filters of `pgx replicate`: the parser, from the tokens of  *)
(* a rule to its expression, and the three-valued evaluation against a row *)
(* of text cells.  The lexer is left out; a token is a record with its     *)
(* kind.                                                                   *)
(***************************************************************************)
EXTENDS Integers, Sequences

CONSTANTS
    Texts,      \* the texts that cells and literals hold
    AsNumber,   \* each text parsed as an f64: a number, NaN, or NotNumber
    NaN,
    NotNumber,
    Rank,       \* the order of the texts as strings
    TextOf      \* the text of each number that occurs as a literal

ASSUME FilterAssumption ==
    /\ AsNumber \in [Texts -> Int \cup {NaN, NotNumber}]
    /\ Rank \in [Texts -> Int]
    /\ \A x \in DOMAIN TextOf : TextOf[x] \in Texts

-----------------------------------------------------------------------------
(* Tokens and expressions *)

Word(t) == [t |-> t]
IdentToken(c) == [t |-> "Ident", col |-> c]
LiteralToken(v) == [t |-> "Literal", val |-> v]

Operators == {"=", "!=", ">", "<", ">=", "<="}

Compare(c, op, v) == [n |-> "cmp", col |-> c, op |-> op, val |-> v]
IsNull(c) == [n |-> "null", col |-> c]
IsNotNull(c) == [n |-> "notnull", col |-> c]
And(a, b) == [n |-> "and", a |-> a, b |-> b]
Or(a, b) == [n |-> "or", a |-> a, b |-> b]

Str(s) == [k |-> "str", s |-> s]
Num(x) == [k |-> "num", x |-> x]
NullLiteral == [k |-> "null"]

Text(s) == [k |-> "text", s |-> s]
Null == [k |-> "null"]
Unchanged == [k |-> "unchanged"]

-----------------------------------------------------------------------------
(* The parser: precedence climbing over the token vector *)

Failed == [ok |-> FALSE]
Parsed(e, p) == [ok |-> TRUE, e |-> e, pos |-> p]

Peek(toks, p) == IF p \in DOMAIN toks THEN toks[p].t ELSE "end"

MutantPrec(t) == IF t \in {"AND", "OR"} THEN 1 ELSE 0   \* no precedence
binary_precedence(t) == CASE t = "OR" -> 1 [] t = "AND" -> 2 [] OTHER -> 0

parse_literal(toks, p, c, op) ==
    IF Peek(toks, p) = "Literal" THEN Parsed(Compare(c, op, toks[p].val), p + 1)
    ELSE IF Peek(toks, p) = "NULL" THEN Parsed(Compare(c, op, NullLiteral), p + 1)
    ELSE Failed

parse_comparison(toks, p) ==
    LET c == toks[p].col
        not == IF Peek(toks, p + 2) = "NOT" THEN 1 ELSE 0
    IN IF Peek(toks, p + 1) = "IS"
       THEN IF Peek(toks, p + 2 + not) = "NULL"
            THEN Parsed(IF not = 1 THEN IsNotNull(c) ELSE IsNull(c), p + 3 + not)
            ELSE Failed
       ELSE IF Peek(toks, p + 1) \in Operators
            THEN parse_literal(toks, p + 2, c, toks[p + 1].t)
            ELSE Failed

RECURSIVE parse_binary(_, _, _), parse_primary(_, _), Climb(_, _, _)

parse_primary(toks, p) ==
    IF Peek(toks, p) = "("
    THEN LET inner == parse_binary(toks, p + 1, 1)
         IN IF inner.ok /\ Peek(toks, inner.pos) = ")"
            THEN Parsed(inner.e, inner.pos + 1)
            ELSE Failed
    ELSE IF Peek(toks, p) = "Ident" THEN parse_comparison(toks, p)
    ELSE Failed

\* The loop of parse_binary: lhs is what it has so far.
Climb(toks, lhs, min) ==
    LET prec == binary_precedence(Peek(toks, lhs.pos))
        rhs == parse_binary(toks, lhs.pos + 1, prec + 1)
    IN IF prec < min THEN lhs
       ELSE IF ~rhs.ok THEN Failed
       ELSE Climb(toks,
                  Parsed(IF Peek(toks, lhs.pos) = "OR"
                         THEN Or(lhs.e, rhs.e) ELSE And(lhs.e, rhs.e), rhs.pos),
                  min)

parse_binary(toks, p, min) ==
    LET lhs == parse_primary(toks, p)
    IN IF lhs.ok THEN Climb(toks, lhs, min) ELSE Failed

\* parse_filter_expr: nothing may be left over.
parse(toks) ==
    LET r == parse_binary(toks, 1, 1)
    IN IF r.ok /\ r.pos = Len(toks) + 1 THEN r ELSE Failed

-----------------------------------------------------------------------------
(* The evaluator: "true", "false" or "null" *)

Truth(b) == IF b THEN "true" ELSE "false"

\* apply on f64: nothing is ordered with, or equal to, NaN.
apply(op, a, b) ==
    IF NaN \in {a, b} THEN op = "!="
    ELSE CASE op = "=" -> a = b  [] op = "!=" -> a # b
           [] op = ">" -> a > b  [] op = "<" -> a < b
           [] op = ">=" -> a >= b [] op = "<=" -> a <= b

apply_str(op, s, u) == apply(op, Rank[s], Rank[u])

LiteralNumber(v) == IF v.k = "num" THEN v.x ELSE AsNumber[v.s]
literal_str(v) == IF v.k = "num" THEN TextOf[v.x] ELSE v.s

compare(row, c, op, v) ==
    IF c \notin DOMAIN row \/ row[c].k # "text" \/ v = NullLiteral THEN "null"
    ELSE LET s == row[c].s
         IN IF NotNumber \notin {AsNumber[s], LiteralNumber(v)}
            THEN Truth(apply(op, AsNumber[s], LiteralNumber(v)))
            ELSE Truth(apply_str(op, s, literal_str(v)))

is_null_value(row, c) == c \notin DOMAIN row \/ row[c].k \in {"null", "unchanged"}

EvalAnd(x, y) ==
    IF "false" \in {x, y} THEN "false"
    ELSE IF x = "true" /\ y = "true" THEN "true"
    ELSE "null"

EvalOr(x, y) ==
    IF "true" \in {x, y} THEN "true"
    ELSE IF x = "false" /\ y = "false" THEN "false"
    ELSE "null"

RECURSIVE eval(_, _)
eval(e, row) ==
    CASE e.n = "cmp"     -> compare(row, e.col, e.op, e.val)
      [] e.n = "null"    -> Truth(is_null_value(row, e.col))
      [] e.n = "notnull" -> Truth(~is_null_value(row, e.col))
      [] e.n = "and"     -> EvalAnd(eval(e.a, row), eval(e.b, row))
      [] e.n = "or"      -> EvalOr(eval(e.a, row), eval(e.b, row))

evaluate(e, row) == eval(e, row) = "true"

-----------------------------------------------------------------------------
(* Reference definitions *)

\* An expression as a user writes it, with no more parentheses than it needs.
RECURSIVE Written(_)
Written(e) ==
    LET Group(x, kinds) ==
          IF x.n \in kinds THEN <<Word("(")>> \o Written(x) \o <<Word(")")>> ELSE Written(x)
        Literal(v) == IF v = NullLiteral THEN Word("NULL") ELSE LiteralToken(v)
    IN CASE e.n = "cmp"     -> <<IdentToken(e.col), Word(e.op), Literal(e.val)>>
         [] e.n = "null"    -> <<IdentToken(e.col), Word("IS"), Word("NULL")>>
         [] e.n = "notnull" -> <<IdentToken(e.col), Word("IS"), Word("NOT"), Word("NULL")>>
         [] e.n = "and"     -> Group(e.a, {"or"}) \o <<Word("AND")>> \o Group(e.b, {"and", "or"})
         [] e.n = "or"      -> Written(e.a) \o <<Word("OR")>> \o Group(e.b, {"or"})

\* How a text stands to a literal, by filter.rs:14-15: as numbers when both are
\* numbers, else as texts.  NaN is a number, and stands apart from every number.
Standing(s, v) ==
    LET Order(x, y) == IF x < y THEN "below" ELSE IF x = y THEN "same" ELSE "above"
        typed == v.k = "num"
        x == AsNumber[s]
    IN  CASE x = NotNumber \/ (~typed /\ AsNumber[v.s] = NotNumber) ->
               Order(Rank[s], Rank[IF typed THEN TextOf[v.x] ELSE v.s])
          [] x = NaN \/ (~typed /\ AsNumber[v.s] = NaN) -> "apart"
          [] OTHER -> Order(x, IF typed THEN v.x ELSE AsNumber[v.s])

\* Where a text must stand for an operator to hold.
Holds == [op \in Operators |->
    CASE op = "="  -> {"same"}           [] op = "!=" -> {"below", "above", "apart"}
      [] op = "<"  -> {"below"}          [] op = ">"  -> {"above"}
      [] op = "<=" -> {"below", "same"}  [] op = ">=" -> {"same", "above"}]

\* SQL's reading of an expression, on the scale false = 0, unknown = 1, true = 2.
RECURSIVE Sql(_, _)
Sql(e, row) ==
    LET known == e.col \in DOMAIN row /\ row[e.col].k = "text"
        Lower(x, y) == IF x < y THEN x ELSE y
    IN CASE e.n = "null"    -> IF known THEN 0 ELSE 2
         [] e.n = "notnull" -> IF known THEN 2 ELSE 0
         [] e.n = "cmp"     -> IF ~known \/ e.val = NullLiteral THEN 1
                               ELSE IF Standing(row[e.col].s, e.val) \in Holds[e.op] THEN 2 ELSE 0
         [] e.n = "and"     -> Lower(Sql(e.a, row), Sql(e.b, row))
         [] e.n = "or"      -> 2 - Lower(2 - Sql(e.a, row), 2 - Sql(e.b, row))
=============================================================================
