-------------------------------- MODULE Parser --------------------------------
(***************************************************************************)
(* Task 048: the statement parser with error recovery.  A source is the    *)
(* sequence of the kinds of its tokens (Lexer, which never fails, is not   *)
(* modelled).  A step is one turn of _parse_program's loop; a parse of an  *)
(* expression is a record: whether it raised, where the parser stands, and *)
(* the tree.                                                               *)
(***************************************************************************)
EXTENDS Integers, Sequences, SequencesExt, FiniteSetsExt

CONSTANT Sources \* the token sequences that are parsed

VARIABLES tokens, pos, statements, \* pos: tokens consumed
          errors,     \* the number of parse errors
          kept        \* history: how many statements and errors the results before
                      \* the last recovery had, which recovery drops

vars == <<tokens, pos, statements, errors, kept>>

Init == /\ tokens \in Sources /\ pos = 0 /\ statements = <<>> /\ errors = 0 /\ kept = 0

Peek(p) == IF p < Len(tokens) THEN tokens[p + 1] ELSE "EOF"
Node(kind, children) == [kind |-> kind, children |-> children]
Raise(p) == [ok |-> FALSE, pos |-> p, tree |-> Node("ERROR", <<>>)]
Parsed(p, tree) == [ok |-> TRUE, pos |-> p, tree |-> tree]
\* _expect, after the parse `r`.
Expect(r, kind) == IF ~r.ok THEN r ELSE IF Peek(r.pos) = kind THEN Parsed(r.pos + 1, r.tree) ELSE Raise(r.pos)

RECURSIVE Factor(_), More(_, _), Expr(_)
Factor(p) ==
    CASE Peek(p) \in {"NUMBER", "IDENT"} -> Parsed(p + 1, Node(Peek(p), <<>>))
      [] Peek(p) = "LPAREN" -> Expect(Expr(p + 1), "RPAREN")
      [] Peek(p) = "MINUS" -> LET r == Factor(p + 1) IN
                              IF r.ok THEN Parsed(r.pos, Node("NEGATE", <<r.tree>>)) ELSE r
      [] OTHER -> Raise(p)
\* The loops of _parse_term ("STAR", "SLASH") and _parse_expr ("PLUS", "MINUS"):
\* operators of one level to the right of `left`.
More(left, ops) ==
    IF ~left.ok \/ Peek(left.pos) \notin ops THEN left
    ELSE LET right == IF "STAR" \in ops THEN Factor(left.pos + 1)
                      ELSE More(Factor(left.pos + 1), {"STAR", "SLASH"})
         IN  IF right.ok
             THEN More(Parsed(right.pos, Node(Peek(left.pos), <<left.tree, right.tree>>)), ops)
             ELSE right
Expr(p) == More(More(Factor(p), {"STAR", "SLASH"}), {"PLUS", "MINUS"})

Statement(p) ==
    IF Peek(p) = "IDENT" /\ Peek(p + 1) = "EQUALS"
    THEN LET r == Expect(Expr(p + 2), "SEMICOLON") IN
         IF r.ok THEN Parsed(r.pos, Node("ASSIGNMENT", <<r.tree>>)) ELSE r
    ELSE LET r == Expect(Expr(p), "SEMICOLON") IN
         IF r.ok THEN Parsed(r.pos, Node("EXPR_STMT", <<r.tree>>)) ELSE r

\* _recover_from_error, from where the exception left the parser: past the next semicolon.
SkipStatement(p) == LET q == Min({s \in p .. Len(tokens) : Peek(s) \in {"SEMICOLON", "EOF"}}) IN
                    IF Peek(q) = "SEMICOLON" THEN q + 1 ELSE q

\* An error drops every statement that was parsed before it.
ParseNext ==
    LET r == Statement(pos) IN
    /\ Peek(pos) # "EOF"
    /\ IF r.ok
       THEN /\ statements' = Append(statements, r.tree) /\ pos' = r.pos
            /\ UNCHANGED <<errors, kept>>
       ELSE /\ statements' = <<Node("ERROR", <<>>)>> /\ pos' = SkipStatement(r.pos)
            /\ errors' = errors + 1 /\ kept' = kept + Len(statements)
    /\ UNCHANGED tokens

\* update: the edited text is parsed from the start (bound: once per source).
Update(edited) == /\ Peek(pos) = "EOF" /\ edited # tokens
                  /\ tokens' = edited /\ pos' = 0 /\ statements' = <<>> /\ errors' = 0 /\ kept' = 0

Next == ParseNext \/ \E edited \in {s \in Sources : Len(s) = 1} : Update(edited)

(***************************************************************************)
(* Properties.  Ref is the reference: split at the last operator of the    *)
(* lowest level that is outside parentheses.                               *)
(***************************************************************************)

Depth(s, i) == Cardinality({k \in 1 .. i : s[k] = "LPAREN"}) - Cardinality({k \in 1 .. i : s[k] = "RPAREN"})
Splits(s, ops) == {i \in 2 .. Len(s) - 1 : /\ s[i] \in ops /\ Depth(s, i) = 0
                                           /\ s[i - 1] \in {"NUMBER", "IDENT", "RPAREN"}}
RECURSIVE Ref(_)
Ref(s) ==
    LET at(ops) == Max(Splits(s, ops))
        Binary(i) == LET l == Ref(SubSeq(s, 1, i - 1))
                         r == Ref(SubSeq(s, i + 1, Len(s)))
                     IN  IF l.ok /\ r.ok THEN Parsed(0, Node(s[i], <<l.tree, r.tree>>)) ELSE Raise(0)
    IN  IF s = <<>> THEN Raise(0)
        ELSE IF Splits(s, {"PLUS", "MINUS"}) # {} THEN Binary(at({"PLUS", "MINUS"}))
        ELSE IF Splits(s, {"STAR", "SLASH"}) # {} THEN Binary(at({"STAR", "SLASH"}))
        ELSE IF s[1] = "MINUS" THEN LET r == Ref(Tail(s)) IN
             IF r.ok THEN Parsed(0, Node("NEGATE", <<r.tree>>)) ELSE r
        ELSE IF s[1] = "LPAREN" /\ Last(s) = "RPAREN" THEN Ref(SubSeq(s, 2, Len(s) - 1))
        ELSE IF Len(s) = 1 /\ s[1] \in {"NUMBER", "IDENT"} THEN Parsed(0, Node(s[1], <<>>))
        ELSE Raise(0)
RefStatement(s) ==
    LET assign == Len(s) > 1 /\ s[1] = "IDENT" /\ s[2] = "EQUALS"
        r == Ref(IF assign THEN SubSeq(s, 3, Len(s)) ELSE s)
    IN  IF ~r.ok THEN r.tree ELSE Node(IF assign THEN "ASSIGNMENT" ELSE "EXPR_STMT", <<r.tree>>)

Semicolons == {i \in 1 .. Len(tokens) : tokens[i] = "SEMICOLON"}
\* The texts between semicolons; the last one, without its semicolon, is an error.
Segment(n) == LET ends == SetToSortSeq(Semicolons \union {Len(tokens) + 1}, <)
                  from == IF n = 1 THEN 1 ELSE ends[n - 1] + 1
              IN  SubSeq(tokens, from, ends[n] - 1)
Result(n) == IF n > Cardinality(Semicolons) THEN Node("ERROR", <<>>) ELSE RefStatement(Segment(n))

\* After each turn the parser stands behind a semicolon or at the end, having met
\* errors and statements as the reference says, one for each text between
\* semicolons; what it still holds are the latest of them.
ParsesLikeTheGrammar ==
    LET done == kept + Len(statements) IN
    /\ pos = Len(tokens) \/ pos = 0 \/ tokens[pos] = "SEMICOLON"
    /\ errors = Cardinality({n \in 1 .. done : Result(n).kind = "ERROR"})
    /\ \A n \in 1 .. Len(statements) : statements[n] = Result(kept + n)
===============================================================================
