--------------------------------- MODULE Lexer --------------------------------
(***************************************************************************)
(* Task 036: the tokenizer of a C-like language.  A source is a sequence   *)
(* of characters, of which `a` and `e` stand for the letters, `0` and `1`  *)
(* for the digits and `@` for what no token starts with.  A step is one    *)
(* turn of tokenize's loop; what is read is modelled by where it ends.     *)
(***************************************************************************)
EXTENDS Integers, Sequences, FiniteSets, FiniteSetsExt, SequencesExt

CONSTANT Programs \* the sources that are tokenized

Characters == {"a", "e", "x", "_", "0", "1", " ", "\n", "quote", "\\", "'",
               "<", "=", "+", "/", "*", ".", "(", ")", "@"}

VARIABLES source, at, line, column, \* at: characters consumed (self.pos)
          toks,  \* [type, from, to, line, column]: a token and the text it stands for
          ended  \* the EOF token has been added

vars == <<source, at, line, column, toks, ended>>

Init == /\ source \in Programs /\ at = 0 /\ line = 1 /\ column = 1
        /\ toks = <<>> /\ ended = FALSE

White == {" ", "\n"}
Digits == {"0", "1"}
Letters == {"a", "e"}
TwoCharOps == {<<"<", "<">>, <<"<", "=">>, <<"=", "=">>, <<"+", "+">>, <<"+", "=">>, <<"/", "=">>, <<"*", "=">>}
OneCharOps == {"<", "=", "+", "/", "*", "."}
Delimiters == {"(", ")"}

Ch(p) == IF p < Len(source) THEN source[p + 1] ELSE "none"
\* The first position at or after p whose character is not in `set`.
RunOf(set, p) == Min({q \in p .. Len(source) : Ch(q) \notin set})
FirstOf(set, p) == Min({q \in p .. Len(source) : Ch(q) \in set \union {"none"}})

\* _advance, from p to q, which counts lines and columns.
Newlines(p, q) == {k \in p .. q - 1 : Ch(k) = "\n"}
\* Mutant: the column is not reset by a newline.
AdvanceOnly(p, q) == /\ at' = q /\ line' = line + Cardinality(Newlines(p, q)) /\ column' = column + q - p
Advance(p, q) == LET breaks == Newlines(p, q) IN
    /\ at' = q /\ line' = line + Cardinality(breaks)
    /\ column' = IF breaks = {} THEN column + q - p ELSE q - Max(breaks)

\* _skip_block_comment: behind the next */, or -1 when there is none.
CommentEnd(p) == LET ends == {q \in p .. Len(source) - 2 : Ch(q) = "*" /\ Ch(q + 1) = "/"} IN
                 IF ends = {} THEN -1 ELSE Min(ends) + 2

\* _read_string, behind the opening quote: where it ends, as what.  A backslash
\* takes the next character with it, a newline too.
StringEnd(p) ==
    LET taken[q \in p .. Len(source)] == q > p /\ Ch(q - 1) = "\\" /\ ~taken[q - 1]
        end == Min({q \in p .. Len(source) : Ch(q) = "none" \/ (Ch(q) \in {"quote", "\n"} /\ ~taken[q])})
    IN  IF Ch(end) = "quote" THEN [to |-> end + 1, type |-> "STRING"] ELSE [to |-> end, type |-> "ERROR"]

\* _read_number.  An exponent makes a float and needs no digits.
NumberEnd(p) ==
    LET whole == RunOf(Digits \union {"_"}, p)
        frac  == IF Ch(whole) = "." /\ Ch(whole + 1) \in Digits
                 THEN RunOf(Digits \union {"_"}, whole + 1) ELSE whole
        sign  == IF Ch(frac + 1) = "+" THEN frac + 2 ELSE frac + 1
    IN  IF Ch(p) = "0" /\ Ch(p + 1) = "x"
        THEN [to |-> RunOf(Digits \union {"a", "e", "_"}, p + 2), type |-> "INTEGER"]
        ELSE IF Ch(frac) = "e" THEN [to |-> RunOf(Digits, sign), type |-> "FLOAT"]
        ELSE [to |-> frac, type |-> IF frac = whole THEN "INTEGER" ELSE "FLOAT"]

\* A character literal: one character or one escape, and the closing quote if it is there.
CharEnd(p) == LET q == IF Ch(p) = "none" THEN p
                       ELSE IF Ch(p) = "\\" THEN (IF Ch(p + 1) = "none" THEN p + 1 ELSE p + 2) ELSE p + 1
              IN  IF Ch(q) = "'" THEN q + 1 ELSE q

\* _read_operator: two characters, then one; never three.
OperatorEnd(p) == IF <<Ch(p), Ch(p + 1)>> \in TwoCharOps THEN p + 2 ELSE p + 1

\* The token that starts at p, by the branches of tokenize in their order.
Read(p) ==
    LET c == Ch(p) IN
    CASE c = "quote" -> StringEnd(p + 1)
      [] c = "'" -> [to |-> CharEnd(p + 1), type |-> "INTEGER"]
      [] c \in Digits -> NumberEnd(p)
      [] c \in Letters \union {"_", "x"} ->
             [to |-> RunOf(Letters \union Digits \union {"_", "x"}, p), type |-> "WORD"]
      [] c \in Delimiters -> [to |-> p + 1, type |-> "DELIMITER"]
      [] c \in OneCharOps -> [to |-> OperatorEnd(p), type |-> "OPERATOR"]
      [] OTHER -> [to |-> p + 1, type |-> "ERROR"]

\* Where the position stands at p, for the tokens that are not made at the start of a step.
LineAt(p) == line + Cardinality(Newlines(at, p))
ColumnAt(p) == IF Newlines(at, p) = {} THEN column + p - at ELSE p - Max(Newlines(at, p))
Token(type, from, to) == [type |-> type, from |-> from, to |-> to, line |-> LineAt(from), column |-> ColumnAt(from)]

\* White space, then a comment or a token.  An unterminated comment is an error
\* token at the end of the source.
ReadNext ==
    LET p == RunOf(White, at) IN
    /\ at < Len(source)
    /\ IF p = Len(source) THEN Advance(at, p) /\ UNCHANGED toks
       ELSE IF Ch(p) = "/" /\ Ch(p + 1) = "/"
       THEN Advance(at, FirstOf({"\n"}, p + 2)) /\ UNCHANGED toks
       ELSE IF Ch(p) = "/" /\ Ch(p + 1) = "*"
       THEN IF CommentEnd(p + 2) # -1 THEN Advance(at, CommentEnd(p + 2)) /\ UNCHANGED toks
            ELSE /\ Advance(at, Len(source))
                 /\ toks' = Append(toks, Token("ERROR", Len(source), Len(source)))
       ELSE Advance(at, Read(p).to) /\ toks' = Append(toks, Token(Read(p).type, p, Read(p).to))
    /\ UNCHANGED <<source, ended>>

Finish == /\ at = Len(source) /\ ~ended /\ ended' = TRUE
          /\ toks' = Append(toks, [type |-> "EOF", from |-> at, to |-> at, line |-> line, column |-> column])
          /\ UNCHANGED <<source, at, line, column>>

Next == ReadNext \/ Finish

(***************************************************************************)
(* Properties                                                              *)
(***************************************************************************)

\* Every token stands at the line and column of its first character, and the
\* lexer's own position is that of the next one.
PositionsAreTrue ==
    LET TrueLine(p) == 1 + Cardinality({k \in 1 .. p : source[k] = "\n"})
        TrueColumn(p) == p + 1 - Max({k \in 1 .. p : source[k] = "\n"} \union {0}) IN
    /\ line = TrueLine(at) /\ column = TrueColumn(at)
    /\ \A i \in 1 .. Len(toks) : toks[i].line = TrueLine(toks[i].from) /\ toks[i].column = TrueColumn(toks[i].from)

\* The tokens come in order and none overlap, and what lies between two of them
\* begins as white space and comments do and ends as they do.
TokensTile == \A i \in 1 .. Len(toks) :
    LET from == IF i = 1 THEN 0 ELSE toks[i - 1].to
        gap == SubSeq(source, from + 1, toks[i].from) IN
    /\ from <= toks[i].from /\ toks[i].to <= at
    /\ gap = <<>> \/ gap[1] \in White \/ (gap[1] = "/" /\ Len(gap) > 1 /\ gap[2] \in {"/", "*"})
    /\ gap # <<>> /\ toks[i].from < Len(source) => Last(gap) \in White \union {"/"}
===============================================================================
