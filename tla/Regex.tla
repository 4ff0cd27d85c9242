--------------------------------- MODULE Regex --------------------------------
(***************************************************************************)
(* Task 029: the regex parser, the backtracking matcher and find_all.  A   *)
(* text is a sequence of characters and a position counts the characters   *)
(* before it.  A step of the state machine is one turn of find_all's loop. *)
(***************************************************************************)
EXTENDS Integers, Sequences, SequencesExt, FiniteSetsExt

CONSTANTS Patterns, Texts \* sets of sequences of one-character strings

VARIABLES pattern, text, start, \* find_all's arguments and its position
          results,              \* the matches found, as <<from, to>> in text
          outcome               \* "running", "done" or "timeout"

vars == <<pattern, text, start, results, outcome>>

Init == /\ pattern \in Patterns /\ text \in Texts
        /\ start = 0 /\ results = <<>> /\ outcome = "running"

(***************************************************************************)
(* RegexParser.  Atom(p, i): the token that starts at p[i] and the index   *)
(* after it; a group or a class may end with the pattern.                  *)
(***************************************************************************)

Tok(type, value, children) == [type |-> type, value |-> value, children |-> children]
Quantifiers == [c \in {"*", "+", "?"} |-> IF c = "*" THEN "STAR" ELSE IF c = "+" THEN "PLUS" ELSE "QUESTION"]

ApplyQuantifier(p, i, base) ==
    IF i <= Len(p) /\ p[i] \in DOMAIN Quantifiers
    THEN [token |-> Tok(Quantifiers[p[i]], {}, <<base>>), next |-> i + 1]
    ELSE [token |-> base, next |-> i]

\* The index of the first `c` at or after i, or the end of the pattern.
Closing(p, i, c) == Min({k \in i .. Len(p) : p[k] = c} \union {Len(p) + 1})
After(p, i) == IF i <= Len(p) THEN i + 1 ELSE i

RECURSIVE Atom(_, _), Children(_, _, _)
Children(p, i, acc) == IF i > Len(p) \/ p[i] = ")" THEN [tokens |-> acc, next |-> After(p, i)]
                       ELSE LET a == Atom(p, i) IN Children(p, a.next, Append(acc, a.token))
Atom(p, i) ==
    CASE p[i] = "^" -> [token |-> Tok("START", {}, <<>>), next |-> i + 1]
      [] p[i] = "$" -> [token |-> Tok("END", {}, <<>>), next |-> i + 1]
      [] p[i] = "." -> ApplyQuantifier(p, i + 1, Tok("DOT", {}, <<>>))
      [] p[i] = "(" -> LET g == Children(p, i + 1, <<>>) IN
                       ApplyQuantifier(p, g.next, Tok("GROUP", {}, g.tokens))
      [] p[i] = "[" -> LET k == Closing(p, i + 1, "]") IN
                       ApplyQuantifier(p, After(p, k), Tok("CLASS", {p[j] : j \in i + 1 .. k - 1}, <<>>))
      [] OTHER -> ApplyQuantifier(p, i + 1, Tok("LITERAL", {p[i]}, <<>>))

RECURSIVE Parse(_, _)
Parse(p, i) == IF i > Len(p) THEN <<>> ELSE LET a == Atom(p, i) IN <<a.token>> \o Parse(p, a.next)

(***************************************************************************)
(* RegexMatcher.  A result is an end position, None or Timeout: the limit  *)
(* on steps, which only a loop that makes no progress reaches here.        *)
(***************************************************************************)

None == -1
Timeout == -2
Hits(t, s, pos) == pos < Len(s) /\ (t.type = "DOT" \/ (t.type \in {"LITERAL", "CLASS"} /\ s[pos + 1] \in t.value))

RECURSIVE MatchTokens(_, _, _, _), Star(_, _, _), Plus(_, _, _), TryFrom(_, _, _, _)
\* _match_single
Single(t, s, pos) == IF t.type = "GROUP" THEN MatchTokens(t.children, 1, s, pos)
                     ELSE IF Hits(t, s, pos) THEN pos + 1 ELSE None

\* The positions that repetitions of `child` reach, in order.  Without progress
\* _match_star stops; _match_plus goes on until the step limit.
Star(child, s, reached) ==
    LET next == Single(child, s, Last(reached)) IN
    IF next = Timeout THEN <<Timeout>>
    ELSE IF next \in {None, Last(reached)} THEN reached ELSE Star(child, s, Append(reached, next))
Plus(child, s, reached) ==
    LET next == Single(child, s, Last(reached)) IN
    IF next = Timeout \/ next = Last(reached) THEN <<Timeout>>
    ELSE IF next = None THEN reached ELSE Plus(child, s, Append(reached, next))

\* The rest of the pattern, from the farthest position first.
TryFrom(ts, i, s, positions) ==
    IF positions = <<>> THEN None
    ELSE IF Last(positions) = Timeout THEN Timeout
    ELSE LET end == MatchTokens(ts, i, s, Last(positions)) IN
         IF end # None THEN end ELSE TryFrom(ts, i, s, Front(positions))

\* A group is matched on its own, before what follows it, and never again.
MatchTokens(ts, i, s, pos) ==
    IF i > Len(ts) THEN pos
    ELSE LET t == ts[i] IN
    CASE t.type = "END" -> IF pos = Len(s) THEN MatchTokens(ts, i + 1, s, pos) ELSE None
      [] t.type \in {"LITERAL", "DOT", "CLASS"} -> IF Hits(t, s, pos) THEN MatchTokens(ts, i + 1, s, pos + 1) ELSE None
      [] t.type = "GROUP" -> LET end == Single(t, s, pos) IN
                             IF end < 0 THEN end ELSE MatchTokens(ts, i + 1, s, end)
      [] t.type = "STAR" -> TryFrom(ts, i + 1, s, Star(t.children[1], s, <<pos>>))
      [] t.type = "PLUS" -> LET reached == Plus(t.children[1], s, <<pos>>) IN
                            TryFrom(ts, i + 1, s, IF reached = <<Timeout>> THEN reached ELSE Tail(reached))
      [] t.type = "QUESTION" ->
           LET next == Single(t.children[1], s, pos) IN
           TryFrom(ts, i + 1, s, IF next = None THEN <<pos>> ELSE <<pos, next>>)
      [] OTHER -> None

\* match: at 0 only when the pattern starts with ^, or else leftmost.
Match(ts, s) ==
    LET anchored == ts # <<>> /\ ts[1].type = "START"
        rest == IF anchored THEN Tail(ts) ELSE ts
        ends == [from \in IF anchored THEN {0} ELSE 0 .. Len(s) |-> MatchTokens(rest, 1, s, from)]
        found == {from \in DOMAIN ends : ends[from] # None}
    IN  IF found = {} THEN <<None, None>> ELSE <<Min(found), ends[Min(found)]>>

Rest == SubSeq(text, start + 1, Len(text))
Tokens == Parse(pattern, 1)

\* One turn of find_all: an empty match moves on by one and is not reported.
FindNext ==
    LET m == Match(Tokens, Rest) IN
    /\ outcome = "running"
    /\ IF start > Len(text) \/ m[1] = None
       THEN outcome' = "done" /\ UNCHANGED <<start, results>>
       ELSE IF m[2] = Timeout
       THEN outcome' = "timeout" /\ UNCHANGED <<start, results>>
       ELSE /\ UNCHANGED outcome
            /\ IF m[2] > m[1]
               THEN results' = Append(results, <<start + m[1], start + m[2]>>) /\ start' = start + m[2]
               ELSE start' = start + 1 /\ UNCHANGED results
    /\ UNCHANGED <<pattern, text>>

Next == FindNext

(***************************************************************************)
(* Properties.  Ends(ts, s, from) is the reference: every position where a *)
(* match of ts that starts in the set `from` may end.                      *)
(***************************************************************************)

RECURSIVE Ends(_, _, _), Once(_, _, _), Closure(_, _, _)
Closure(t, s, from) == LET more == from \union Once(t, s, from) IN
                       IF more = from THEN from ELSE Closure(t, s, more)
Once(t, s, from) ==
    CASE t.type = "GROUP" -> Ends(t.children, s, from)
      [] t.type = "END" -> from \intersect {Len(s)}
      [] t.type = "STAR" -> Closure(t.children[1], s, from)
      [] t.type = "PLUS" -> Closure(t.children[1], s, Once(t.children[1], s, from))
      [] t.type = "QUESTION" -> from \union Once(t.children[1], s, from)
      [] t.type = "START" -> from \intersect {0}
      [] OTHER -> {pos + 1 : pos \in {q \in from : Hits(t, s, q)}}
Ends(ts, s, from) == IF ts = <<>> THEN from ELSE Ends(Tail(ts), s, Once(Head(ts), s, from))

\* No group, and no ^ but in front.
Flat(ts) == \A i \in 1 .. Len(ts) : /\ ts[i].type # "GROUP" /\ (i > 1 => ts[i].type # "START")
                                    /\ \A k \in 1 .. Len(ts[i].children) : ts[i].children[k].type # "GROUP"

\* What a match spans is in the pattern's language; without groups, the leftmost
\* position where the language has a match is found.
MatchesAreRight == outcome = "running" /\ start <= Len(text) =>
    LET m == Match(Tokens, Rest)
        starts == {from \in 0 .. Len(Rest) : Ends(Tokens, Rest, {from}) # {}} IN
    /\ m[2] >= 0 => m[2] \in Ends(Tokens, Rest, {m[1]})
    /\ Flat(Tokens) => m[2] # Timeout /\ m[1] = IF starts = {} THEN None ELSE Min(starts)

\* The matches that find_all reports do not overlap and come in order.
FoundInOrder == \A i \in 1 .. Len(results) :
    /\ results[i][1] < results[i][2] /\ results[i][2] <= start
    /\ i > 1 => results[i - 1][2] <= results[i][1]
===============================================================================
