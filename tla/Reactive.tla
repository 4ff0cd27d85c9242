------------------------------- MODULE Reactive -------------------------------
(***************************************************************************)
(* Task 044: signals, computed nodes, memos and effects.  What a computed  *)
(* node computes is data here (Formula): it reads `test`, then one of two  *)
(* other nodes, so its dependencies change from one run to the next.  An   *)
(* effect is a node nobody reads, whose value is what it saw last.         *)
(***************************************************************************)
EXTENDS Lists, SequencesExt

CONSTANTS Signals, Values,  \* Values: a signal's values are 0 .. Values - 1
          Order,    \* the computed nodes, in the order they are created
          Formula,  \* Formula[c] = [test, zero, other, add]
          Coarse,   \* memos whose equals_fn compares parities
          Fragile   \* nodes whose compute_fn raises when the result is 0

Computeds == {Order[i] : i \in 1 .. Len(Order)}
AllNodes == Signals \union Computeds
None == -1

VARIABLES graph,   \* [val, up, down, raised, changed]: values, _dependents, _dependencies,
                   \* whether the last compute_fn raised, what its _recompute returned
          work,    \* the nodes that a set() in progress has still to update, in their order
          made,    \* how many of Order exist
          broken   \* history: an exception ended a constructor or a set() halfway

vars == <<graph, work, made, broken>>

Init == /\ graph = [val |-> [n \in AllNodes |-> IF n \in Signals THEN 0 ELSE None],
                    up |-> [n \in AllNodes |-> <<>>], down |-> [n \in AllNodes |-> <<>>],
                    raised |-> FALSE, changed |-> FALSE]
        /\ work = <<>> /\ made = 0 /\ broken = FALSE

AddNew(list, x) == IF Contains(list, x) THEN list ELSE Append(list, x)

\* record_dependency, at the read of n by c's compute_fn.
Track(G, c, n) == [G EXCEPT !.up[n] = AddNew(@, c), !.down[c] = AddNew(@, n)]

\* clear_dependencies.
Untrack(G, c) == [G EXCEPT !.down[c] = <<>>,
    !.up = [n \in AllNodes |-> IF Contains(G.down[c], n) THEN Without(@[n], {c}) ELSE @[n]]]

Chosen(val, c) == IF val[Formula[c].test] = 0 THEN Formula[c].zero ELSE Formula[c].other
Compute(val, c) == (val[Chosen(val, c)] + Formula[c].add) % Values

\* equals_fn of a memo (equality by default); a plain Computed compares with #.
Same(c, old, new) == old # None /\ IF c \in Coarse THEN old % 2 = new % 2 ELSE old = new

\* Mutant: the dependencies are cleared after compute_fn, not before.
RecomputeThenClear(G, c) ==
    LET T == Untrack(Track(Track(G, c, Formula[c].test), c, Chosen(G.val, c)), c)
        new == Compute(G.val, c) IN
    IF c \in Fragile /\ new = 0 THEN [T EXCEPT !.raised = TRUE, !.changed = FALSE]
    ELSE IF Same(c, G.val[c], new) THEN [T EXCEPT !.changed = FALSE]
    ELSE [T EXCEPT !.val[c] = new, !.changed = TRUE]
Recompute(G, c) ==
    LET T == Track(Track(Untrack(G, c), c, Formula[c].test), c, Chosen(G.val, c))
        new == Compute(G.val, c) IN
    IF c \in Fragile /\ new = 0 THEN [T EXCEPT !.raised = TRUE, !.changed = FALSE]
    ELSE IF Same(c, G.val[c], new) THEN [T EXCEPT !.changed = FALSE]
    ELSE [T EXCEPT !.val[c] = new, !.changed = TRUE]

\* Signal.set, up to its loop over a copy of the dependents.
Set(s, v) ==
    /\ work = <<>> /\ graph.val[s] # v
    /\ graph' = [graph EXCEPT !.val[s] = v] /\ work' = graph.up[s]
    /\ UNCHANGED <<made, broken>>

\* _update of the next node: when its value changed, the loop over its dependents is
\* run to the end first, so a node is updated once for every path that leads to it.
\* An exception leaves all the loops.
Update ==
    LET c == Head(work)
        G == Recompute(graph, c) IN
    /\ work # <<>>
    /\ graph' = [G EXCEPT !.raised = FALSE] /\ broken' = (broken \/ G.raised)
    /\ work' = CASE G.raised -> <<>>
                 [] G.changed -> G.up[c] \o Tail(work)
                 [] OTHER -> Tail(work)
    /\ UNCHANGED made

\* The constructor of the next computed node.  When its first run raises, nobody
\* holds the node, which stays subscribed to what it read (bound: no node is
\* created after an exception).
Create ==
    LET G == Recompute(graph, Order[made + 1]) IN
    /\ work = <<>> /\ ~broken /\ made < Len(Order) /\ made' = made + 1
    /\ graph' = [G EXCEPT !.raised = FALSE]
    /\ broken' = (broken \/ G.raised) /\ UNCHANGED work

Next == Create \/ Update \/ \E s \in Signals, v \in 0 .. Values - 1 : Set(s, v)

(***************************************************************************)
(* Properties                                                              *)
(***************************************************************************)

Existing == {Order[i] : i \in 1 .. made}

\* When set() returns every node agrees with its formula over the values that
\* are current then, whichever paths the change took and whatever dependencies it
\* switched; a memo agrees as far as its equals_fn can tell.
Settled == ~broken /\ work = <<>> => \A c \in Existing : Same(c, graph.val[c], Compute(graph.val, c))

\* The two ends of every edge agree, in the middle of an update and after an exception
\* too; and when set() returns a node is subscribed to exactly the nodes its formula
\* reads.
EdgesAgree == /\ \A n, c \in AllNodes : Contains(graph.up[n], c) <=> Contains(graph.down[c], n)
              /\ ~broken /\ work = <<>> => \A c \in Existing :
                    ToSet(graph.down[c]) = {Formula[c].test, Chosen(graph.val, c)}
===============================================================================
