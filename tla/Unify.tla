--------------------------------- MODULE Unify --------------------------------
(***************************************************************************)
(* Task 046: unification, generalisation and instantiation.  A type is a   *)
(* variable, or a head applied to types ("Int" to none, "fn" to two); the  *)
(* variables' bindings are the state.  There is no occurs check.           *)
(***************************************************************************)
EXTENDS Integers, Sequences, FiniteSets

CONSTANTS TypeVars, Constructors, \* Constructors[h]: how many arguments h takes
          MaxGoals, \* bound: calls of unify
          MaxDepth  \* bound: depth of recursion that stands for RecursionError

Var(v) == [head |-> "var", name |-> v, args |-> <<>>]
Con(h, args) == [head |-> "con", name |-> h, args |-> args]

\* The types that unify is called with: variables, and heads over variables.
Plain == {Var(v) : v \in TypeVars}
TypeArgs == Plain \union UNION {{Con(h, args) : args \in [1 .. Constructors[h] -> Plain]} : h \in DOMAIN Constructors}
Unbound == Con("unbound", <<>>)

VARIABLES bound,  \* bound[v]: a type, or Unbound
          goals,  \* history: the calls of unify so far, the one that raised included
          outcome \* "fine", "type_error" or "recursion"

vars == <<bound, goals, outcome>>

Init == bound = [v \in TypeVars |-> Unbound] /\ goals = {} /\ outcome = "fine"

RECURSIVE Resolve(_, _)
\* resolve_type: the end of a chain of variables.  (resolve also shortens the
\* chain it walked, which no later resolve can tell.)
Resolve(B, t) == IF t.head = "var" /\ B[t.name] # Unbound THEN Resolve(B, B[t.name]) ELSE t

RECURSIVE Solve(_, _, _, _), SolveArgs(_, _, _, _)
\* unify.  Equal types stand for the test of identity: their arguments are the same
\* variables, so the code finds them identical one level down.  What it binds before
\* it raises stays bound.
Solve(B, a, b, depth) ==
    LET t1 == Resolve(B, a)
        t2 == Resolve(B, b) IN
    IF depth = 0 THEN [B |-> B, outcome |-> "recursion"]
    ELSE IF t1 = t2 THEN [B |-> B, outcome |-> "fine"]
    ELSE IF t1.head = "var" THEN [B |-> [B EXCEPT ![t1.name] = t2], outcome |-> "fine"]
    ELSE IF t2.head = "var" THEN [B |-> [B EXCEPT ![t2.name] = t1], outcome |-> "fine"]
    ELSE IF t1.name # t2.name \/ Len(t1.args) # Len(t2.args) THEN [B |-> B, outcome |-> "type_error"]
    ELSE SolveArgs(B, t1.args, t2.args, depth - 1)
SolveArgs(B, as, bs, depth) ==
    IF as = <<>> THEN [B |-> B, outcome |-> "fine"]
    ELSE LET first == Solve(B, Head(as), Head(bs), depth) IN
         IF first.outcome # "fine" THEN first ELSE SolveArgs(first.B, Tail(as), Tail(bs), depth)

UnifyTypes(a, b) ==
    LET s == Solve(bound, a, b, MaxDepth) IN
    /\ outcome = "fine" /\ Cardinality(goals) < MaxGoals /\ <<a, b>> \notin goals
    /\ bound' = s.B /\ outcome' = s.outcome /\ goals' = goals \union {<<a, b>>}

Next == \E a, b \in TypeArgs : UnifyTypes(a, b)

(***************************************************************************)
(* free_type_vars, TypeEnv.generalize and TypeScheme.instantiate, over the *)
(* bindings that unify has left.                                           *)
(***************************************************************************)

RECURSIVE FreeVars(_, _, _), Substitute(_, _, _, _)

\* RecursionError, where a set of variables is expected: unions hand it on.
Raised == "RecursionError"

FreeVars(B, t, depth) ==
    LET r == Resolve(B, t) IN
    IF depth = 0 THEN {Raised} ELSE IF r.head = "var" THEN {r.name}
    ELSE UNION {FreeVars(B, r.args[i], depth - 1) : i \in 1 .. Len(r.args)}

\* The variables of t that are free in no type of the environment.
Generalize(B, env, t) ==
    LET envVars == UNION {FreeVars(B, e, MaxDepth) : e \in env}
        typeVars == FreeVars(B, t, MaxDepth)
    IN  IF Raised \in envVars \union typeVars THEN {Raised} ELSE typeVars \ envVars

\* RecursionError, where a type is expected.
NoType == Con(Raised, <<>>)

\* A copy of r; the exception of an argument is that of the whole.
Copied(r, args) == IF \E i \in 1 .. Len(args) : args[i] = NoType THEN NoType ELSE Con(r.name, args)
Instance(r, renamed) == IF r.name \in renamed THEN [r EXCEPT !.head = "fresh"] ELSE r

\* Mutant: the bindings are not followed.
SubstituteRaw(B, t, renamed, depth) ==
    IF depth = 0 THEN NoType ELSE IF t.head = "var" THEN Instance(t, renamed)
    ELSE Copied(t, [i \in 1 .. Len(t.args) |-> Substitute(B, t.args[i], renamed, depth - 1)])
\* _apply_subst resolves before it looks a name up, and copies the rest.
Substitute(B, t, renamed, depth) ==
    LET r == Resolve(B, t) IN
    IF depth = 0 THEN NoType ELSE IF r.head = "var" THEN Instance(r, renamed)
    ELSE Copied(r, [i \in 1 .. Len(r.args) |-> Substitute(B, r.args[i], renamed, depth - 1)])

(***************************************************************************)
(* Properties                                                              *)
(***************************************************************************)

\* The variables that t leads to through bindings, and the bindings that lead back to
\* their variable, which no finite type solves: there is no occurs check.
NamesIn(t) == IF t.head = "var" THEN {t.name} ELSE {t.args[i].name : i \in 1 .. Len(t.args)}
LeadsTo(t) == {v \in TypeVars : \A S \in SUBSET TypeVars :
    (NamesIn(t) \cap TypeVars \subseteq S /\ \A w \in S : NamesIn(bound[w]) \cap TypeVars \subseteq S) => v \in S}
Infinite(v) == v \in LeadsTo(bound[v])
CyclicBelow(t) == \E v \in LeadsTo(t) : Infinite(v)

\* The ground types over which goals and bindings are compared: three levels.
Flats == {Con(h, <<>>) : h \in {g \in DOMAIN Constructors : Constructors[g] = 0}}
Over(types) == Flats \union UNION {{Con(h, args) : args \in [1 .. Constructors[h] -> types]} :
                                      h \in {g \in DOMAIN Constructors : Constructors[g] > 0}}
Ground == Over(Over(Flats))
Apply(s, t) == IF t.head = "var" THEN s[t.name]
               ELSE Con(t.name, [i \in 1 .. Len(t.args) |-> s[t.args[i].name]])
Solves(s) == \A g \in goals : Apply(s, g[1]) = Apply(s, g[2])
Respects(s) == \A v \in TypeVars : bound[v] # Unbound => s[v] = Apply(s, bound[v])

\* The bindings are a most general solution of all the calls so far: the same ground
\* types satisfy both.  Excepted are cyclic bindings, which unify makes and calls a
\* success where the calls have no solution.  An exception is right: none satisfies
\* the calls.
MostGeneral == \A s \in [TypeVars -> Ground] :
    IF outcome # "fine" \/ \E v \in TypeVars : Infinite(v) THEN ~Solves(s) ELSE Solves(s) <=> Respects(s)

\* An instance of a generalised type has no variables but its own fresh ones and
\* those of the environment: what is done to it later cannot constrain other instances.
\* Generalising ends in RecursionError exactly when a cyclic binding is met.
InstancesAreFresh == outcome = "fine" => \A t \in TypeArgs, e \in Plain \union Flats :
    LET generic == Generalize(bound, {e}, t) IN
    IF CyclicBelow(t) \/ CyclicBelow(e) THEN generic = {Raised}
    ELSE /\ Raised \notin generic
         /\ FreeVars(bound, Substitute(bound, t, generic, MaxDepth), MaxDepth) \subseteq FreeVars(bound, e, MaxDepth)
===============================================================================
