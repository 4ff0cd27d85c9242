------------------------------- MODULE MCEngines -------------------------------
(***************************************************************************)
(* A bench for the tasks that run, read or recompute something step by     *)
(* step: those of Engines, and the ones below.  They share no state: each  *)
(* behaviour exercises one of them, chosen by `which`, and the others stay *)
(* blank.                                                                  *)
(***************************************************************************)
EXTENDS Engines, FiniteSets

VARIABLES tokens, pos, statements, errors, kept,     \* Parser
          pattern, text, start, results, outcome,    \* Regex
          bound, goals, verdict                      \* Unify

Strings(alphabet, n) == UNION {[1 .. k -> alphabet] : k \in 0 .. n}

\* Every short source, and longer ones for numbers, operators and comments.
MCPrograms == Strings({"a", "0", "quote", "\\", "'", "/", "*", "\n", "<", "="}, 4) \union
    {<<"0", "x", "a", "1", " ", "1", "_", "0", ".", "0", "e", "+", "1">>,
     <<"1", ".", ".", "0", "e", "\n", "@", "(", "a", "+", "+", "e", ")">>,
     <<"<", "<", "=", "+", "=", "=", "/", "=", "*", "=", "*", "/">>,
     <<"/", "*", "\n", "*", "*", "/", "a", "/", "/", "quote", "\n", " ", "a">>,
     <<"quote", "\\", "\n", "quote", "a", "\n", "'", "\\", "'", "'", "a">>,
     <<"a", "\n", "\n", " ", "/", "*", "a", "\n", "a">>}

Kinds == {"IDENT", "EQUALS", "SEMICOLON", "PLUS", "STAR", "MINUS", "LPAREN", "RPAREN"}
Sources == Strings(Kinds, 4) \union
    {<<"LPAREN", "IDENT", "PLUS", "NUMBER", "RPAREN", "STAR", "IDENT", "SEMICOLON">>,
     <<"IDENT", "EQUALS", "NUMBER", "PLUS", "IDENT", "STAR", "MINUS", "NUMBER", "SLASH", "IDENT", "SEMICOLON">>,
     <<"IDENT", "SEMICOLON", "PLUS", "SEMICOLON", "IDENT", "EQUALS", "LPAREN", "IDENT", "SEMICOLON",
       "IDENT", "MINUS", "IDENT", "MINUS", "IDENT", "SEMICOLON">>}

\* a*b, (ab)+$, (a*)b, (a*)+b, ^a?., [ab]+b$, b^a, (a, .*a., (a?b)*, a?a?b, (a*)a, a+a
Patterns == {<<"a", "*", "b">>, <<"(", "a", "b", ")", "+", "$">>, <<"(", "a", "*", ")", "b">>,
             <<"(", "a", "*", ")", "+", "b">>, <<"^", "a", "?", ".">>, <<"[", "a", "b", "]", "+", "b", "$">>,
             <<"b", "^", "a">>, <<"(", "a">>, <<".", "*", "a", ".">>, <<"(", "a", "?", "b", ")", "*">>,
             <<"a", "?", "a", "?", "b">>, <<"(", "a", "*", ")", "a">>, <<"a", "+", "a">>}

\* All programs of three of these instructions, a recursive factorial, and calls of
\* functions with locals from functions with locals, of which some return twice.
Instructions == {<<0, 1>>, <<0, 2>>, <<1>>, <<2>>, <<17, 0>>, <<18, 0>>, <<21, 0, 0>>, <<21, 2, 1>>,
                 <<22>>, <<24, 0>>, <<26>>, <<31, 1>>}
MCCodes == {a \o b \o c : a, b, c \in Instructions} \union
    {<<0, 3, 21, 6, 1, 29, 17, 0, 25, 13, 0, 1, 22, 17, 0, 17, 0, 0, 1, 3, 21, 6, 1, 4, 22>>,
     <<31, 2, 0, 7, 18, 0, 0, 5, 21, 17, 1, 18, 1, 17, 0, 28, 29, 31, 1, 0, 9, 18, 1, 17, 0, 21, 29, 1, 22, 0, 3, 18, 0, 17, 0, 22>>,
     <<0, 4, 20, -3, 19, -3, 0, 5, 18, -1, 21, 14, -1, 29, 31, -2, 0, 6, 26, 21, 23, 4, 29, 0, 8, 17, 0, 22>>,
     <<21, 3, 1, 0, 2, 0, 3, 22>>, <<23, -2, 29, 22>>}

\* Two signals, and five computed nodes made in the order b, c, m, d, e: diamonds,
\* dependencies that switch with the signal that is tested, a memo that compares
\* parities (m) and a node that raises (d).
MCFormula == [b |-> [test |-> "s", zero |-> "s", other |-> "s", add |-> 1],
             c |-> [test |-> "s", zero |-> "t", other |-> "b", add |-> 0],
             m |-> [test |-> "c", zero |-> "s", other |-> "b", add |-> 0],
             d |-> [test |-> "b", zero |-> "c", other |-> "m", add |-> 1],
             e |-> [test |-> "t", zero |-> "d", other |-> "c", add |-> 0]]
MCOrder == <<"b", "c", "m", "d", "e">>
MCRank == [p1 |-> 1, p2 |-> 2, p3 |-> 3]
MCHashFunctions == {h \in [{"n1", "n2", "n3"} -> (0 .. 5) \X (0 .. 5)] : h["n1"] = <<1, 3>>}

Statements == INSTANCE Parser
Engine == INSTANCE Regex WITH Texts <- Strings({"a", "b"}, 4)
Inference == INSTANCE Unify WITH TypeVars <- {"u", "v"}, Constructors <- [Int |-> 0, fn |-> 2],
                                 MaxGoals <- 3, MaxDepth <- 4, outcome <- verdict

statementVars == <<tokens, pos, statements, errors, kept>>
engineVars == <<pattern, text, start, results, outcome>>
inferenceVars == <<bound, goals, verdict>>
benchVars == <<vars, statementVars, engineVars, inferenceVars>>

BenchInit == /\ which \in {"machine", "tokenizer", "nodes", "loader", "ring", "statements", "engine", "inference"}
             /\ Init /\ Inference!Init
             /\ \/ which = "statements" /\ Statements!Init
                \/ which # "statements" /\ tokens = 0 /\ pos = 0 /\ statements = 0 /\ errors = 0 /\ kept = 0
             /\ \/ which = "engine" /\ Engine!Init
                \/ which # "engine" /\ pattern = 0 /\ text = 0 /\ start = 0 /\ results = 0 /\ outcome = 0

BenchNext == /\ Next
             /\ IF which = "statements" THEN Statements!Next ELSE UNCHANGED statementVars
             /\ IF which = "engine" THEN Engine!Next ELSE UNCHANGED engineVars
             /\ IF which = "inference" THEN Inference!Next ELSE UNCHANGED inferenceVars

Bench == BenchInit /\ [][BenchNext]_benchVars

\* Parser, regex engine and type inference (tasks 048, 029, 046) answer as their
\* theories say: the statements and errors of a program are those the grammar gives,
\* one for each text between semicolons; a match is in the pattern's language
\* (leftmost without groups); acyclic bindings are a most general solution, whose
\* instances share no variable.  Cyclic bindings, which unify makes for want of an occurs
\* check, are not: walks over them end in RecursionError, and over no others.
AnswersAreRight ==
    /\ which = "statements" => Statements!ParsesLikeTheGrammar
    /\ which = "engine" => Engine!MatchesAreRight /\ Engine!FoundInOrder
    /\ which = "inference" => Inference!MostGeneral /\ Inference!InstancesAreFresh
===============================================================================
