-------------------------------- MODULE SegTree -------------------------------
(***************************************************************************)
(* Task 035: the segment trees with lazy propagation, for sums and for     *)
(* minima.  Node k has the children 2k and 2k + 1; a pending addition is   *)
(* handed down when an update or a point query passes.                     *)
(***************************************************************************)
EXTENDS Integers, Sequences, FiniteSetsExt

CONSTANTS Size,     \* the number of elements, at least 1
          Amounts,  \* the values of the updates
          MaxUpdates \* bound

VARIABLES flavour,  \* "sum" or "min"
          seg,      \* [tree, lazy], over the node numbers
          elements, \* history: the array that the tree stands for
          updates

vars == <<flavour, seg, elements, updates>>

NodeIds == 1 .. 4 * Size
Combine(a, b) == IF flavour = "sum" THEN a + b ELSE Min({a, b})
\* What adding v to each of n elements does to their sum or minimum.
Shift(v, n) == IF flavour = "sum" THEN v * n ELSE v
Mid(s, e) == (s + e) \div 2
Pull(T, k) == [T EXCEPT !.tree[k] = Combine(T.tree[2 * k], T.tree[2 * k + 1])]

Push(T, k, s, e) ==
    IF T.lazy[k] = 0 THEN T
    ELSE LET v == T.lazy[k] IN
         [T EXCEPT !.tree[2 * k] = @ + Shift(v, Mid(s, e) - s + 1), !.lazy[2 * k] = @ + v,
                   !.tree[2 * k + 1] = @ + Shift(v, e - Mid(s, e)), !.lazy[2 * k + 1] = @ + v,
                   !.lazy[k] = 0]

RECURSIVE Build(_, _, _, _), RangeAdd(_, _, _, _, _, _, _), PointSet(_, _, _, _, _, _)
RECURSIVE Handed(_, _, _, _, _, _), Lookup(_, _, _, _, _, _)

Build(T, k, s, e) ==
    IF s = e THEN [T EXCEPT !.tree[k] = elements[s]]
    ELSE Pull(Build(Build(T, 2 * k, s, Mid(s, e)), 2 * k + 1, Mid(s, e) + 1, e), k)

RangeAdd(T, k, s, e, l, r, v) ==
    IF r < s \/ e < l THEN T
    ELSE IF l <= s /\ e <= r
    THEN [T EXCEPT !.tree[k] = @ + Shift(v, e - s + 1), !.lazy[k] = @ + v]
    ELSE LET T1 == RangeAdd(Push(T, k, s, e), 2 * k, s, Mid(s, e), l, r, v)
         IN  Pull(RangeAdd(T1, 2 * k + 1, Mid(s, e) + 1, e, l, r, v), k)

PointSet(T, k, s, e, i, v) ==
    IF s = e THEN [T EXCEPT !.tree[k] = v]
    ELSE LET T1 == Push(T, k, s, e) IN
         Pull(IF i <= Mid(s, e) THEN PointSet(T1, 2 * k, s, Mid(s, e), i, v)
              ELSE PointSet(T1, 2 * k + 1, Mid(s, e) + 1, e, i, v), k)

\* What point_query and range_min leave: pending additions handed down on their way.
Handed(T, k, s, e, l, r) ==
    IF r < s \/ e < l \/ (l <= s /\ e <= r) THEN T
    ELSE LET T1 == Handed(Push(T, k, s, e), 2 * k, s, Mid(s, e), l, r)
         IN  Handed(T1, 2 * k + 1, Mid(s, e) + 1, e, l, r)

\* The values that a descent to l .. r finds in the nodes.
Lookup(T, k, s, e, l, r) ==
    IF l <= s /\ e <= r THEN T.tree[k]
    ELSE IF r <= Mid(s, e) THEN Lookup(T, 2 * k, s, Mid(s, e), l, r)
    ELSE IF l > Mid(s, e) THEN Lookup(T, 2 * k + 1, Mid(s, e) + 1, e, l, r)
    ELSE Combine(Lookup(T, 2 * k, s, Mid(s, e), l, r), Lookup(T, 2 * k + 1, Mid(s, e) + 1, e, l, r))

All(Op(_, _, _, _, _, _), T, l, r) == Op(T, 1, 0, Size - 1, l, r)
\* point_query and range_min; range_query, which hands nothing down.
QueryPushing(l, r) == All(Lookup, All(Handed, seg, l, r), l, r)
RangeQuery(l, r) == All(Lookup, seg, l, r)

Init == /\ flavour \in {"sum", "min"} /\ updates = 0
        /\ elements \in [0 .. Size - 1 -> Amounts]
        /\ seg = Build([tree |-> [k \in NodeIds |-> 0], lazy |-> [k \in NodeIds |-> 0]], 1, 0, Size - 1)

RangeUpdate(l, r, v) ==
    /\ updates < MaxUpdates /\ updates' = updates + 1 /\ UNCHANGED flavour
    /\ seg' = RangeAdd(seg, 1, 0, Size - 1, l, r, v)
    /\ elements' = [i \in DOMAIN elements |-> IF i \in l .. r THEN elements[i] + v ELSE elements[i]]

PointUpdate(i, v) ==
    /\ flavour = "sum" /\ updates < MaxUpdates /\ updates' = updates + 1 /\ UNCHANGED flavour
    /\ seg' = PointSet(seg, 1, 0, Size - 1, i, v) /\ elements' = [elements EXCEPT ![i] = v]

QueryOn(l, r) == /\ flavour = "sum" => l = r
                 /\ seg' = All(Handed, seg, l, r) /\ UNCHANGED <<flavour, elements, updates>>

Next == \E l, r \in 0 .. Size - 1 :
            \/ l <= r /\ (QueryOn(l, r) \/ \E v \in Amounts : RangeUpdate(l, r, v))
            \/ \E v \in Amounts : l = r /\ PointUpdate(l, v)

(***************************************************************************)
(* Properties                                                              *)
(***************************************************************************)

SumOf(l, r) == MapThenSumSet(LAMBDA i : elements[i], l .. r)

\* Whatever is pending where, every point query and every range minimum answers
\* from the array.  A range sum does where nothing is pending on the way to the
\* range: range_query hands nothing down, and ignores what is.
QueriesAgree == \A l, r \in DOMAIN elements : l <= r =>
    /\ flavour = "min" => QueryPushing(l, r) = Min({elements[i] : i \in l .. r})
    /\ flavour = "sum" => /\ l = r => QueryPushing(l, r) = elements[l]
                          /\ All(Handed, seg, l, r) = seg => RangeQuery(l, r) = SumOf(l, r)
===============================================================================
