-------------------------------- MODULE RbTree --------------------------------
(***************************************************************************)
(* Task 021: the red-black tree.  A node is known by its key; the sentinel *)
(* Nil is a node too, whose parent (and, after a rotation around it, whose *)
(* children) the code really uses.  The mirror-image branches of the code  *)
(* are one definition with a direction d.                                  *)
(***************************************************************************)
EXTENDS Integers, Sequences, FiniteSets

CONSTANTS TreeKeys,  \* a set of positive integers
          Fuel       \* bound: iterations of delete's fixup before it "hangs"

Nil == 0
Nodes == TreeKeys \union {Nil}

VARIABLES tree,    \* [root, n, seen]; n[k] = [color, left, right, parent]; seen is history:
                   \* "blackNephews": a fix-up met a sibling with two black children,
                   \* "nilLifted": a rotation lifted the sentinel
          present, \* history: the keys inserted and not deleted
          hung     \* a fixup did not end within Fuel iterations

vars == <<tree, present, hung>>

Blank(color) == [color |-> color, left |-> Nil, right |-> Nil, parent |-> Nil]
Init == /\ tree = [root |-> Nil, n |-> [k \in Nodes |-> Blank("BLACK")], seen |-> {}]
        /\ present = {} /\ hung = FALSE

Opp(d) == IF d = "left" THEN "right" ELSE "left"
Set(T, node, field, value) == [T EXCEPT !.n[node][field] = value]
See(T, event) == [T EXCEPT !.seen = @ \union {event}]
Color(T, node) == T.n[node].color
Up(T, node) == T.n[node].parent
Side(T, node) == IF node = T.n[Up(T, node)].left THEN "left" ELSE "right"

\* What hung below u's parent is replaced by v: the three-way test that the
\* rotations and _transplant share, which looks on side d first.
Relink(T, u, v, d) ==
    LET p == Up(T, u) IN
    IF p = Nil THEN [T EXCEPT !.root = v]
    ELSE Set(T, p, IF u = T.n[p][d] THEN d ELSE Opp(d), v)

\* _left_rotate and _right_rotate: x takes the inner child c of y, and y, x's place.
Adopt(T, x, c, d) == IF c = Nil THEN Set(T, x, d, c) ELSE Set(Set(T, x, d, c), c, "parent", x)
Lift(T, x, y, d) == [Relink(Set(T, y, "parent", Up(T, x)), x, y, d) EXCEPT !.n[y][d] = x, !.n[x].parent = y]
Rotate(T, x, d) == LET y == T.n[x][Opp(d)]
                       R == Lift(Adopt(T, x, T.n[y][d], Opp(d)), x, y, d)
                   IN  IF y = Nil THEN See(R, "nilLifted") ELSE R

RECURSIVE Descend(_, _, _, _)
\* The parent under which key belongs.
Descend(T, key, parent, current) ==
    IF current = Nil THEN parent
    ELSE Descend(T, key, current, IF key < current THEN T.n[current].left ELSE T.n[current].right)

\* z is on the outer side d: its parent goes up.
Hoist(T, z, d) ==
    LET p == Up(T, z)
        g == Up(T, p)
    IN  Rotate([T EXCEPT !.n[p].color = "BLACK", !.n[g].color = "RED"], g, Opp(d))

RECURSIVE InsertFixup(_, _)
InsertFixup(T, z) ==
    LET p == Up(T, z)
        g == Up(T, p)
        d == Side(T, p)
        uncle == T.n[g][Opp(d)] IN
    IF Color(T, p) # "RED" THEN Set(T, T.root, "color", "BLACK")
    ELSE IF Color(T, uncle) = "RED"
    THEN InsertFixup([T EXCEPT !.n[p].color = "BLACK", !.n[uncle].color = "BLACK", !.n[g].color = "RED"], g)
    ELSE IF z = T.n[p][Opp(d)] THEN InsertFixup(Hoist(Rotate(T, p, d), p, d), p)
    ELSE InsertFixup(Hoist(T, z, d), z)

InsertNode(T, key) ==
    LET parent == Descend(T, key, Nil, T.root)
        T1 == [T EXCEPT !.n[key] = [Blank("RED") EXCEPT !.parent = parent]]
        T2 == IF parent = Nil THEN [T1 EXCEPT !.root = key]
              ELSE Set(T1, parent, IF key < parent THEN "left" ELSE "right", key)
    IN  InsertFixup(T2, key)

Transplant(T, u, v) == Set(Relink(T, u, v, "left"), v, "parent", Up(T, u))

Sibling(T, x, d) == T.n[Up(T, x)][Opp(d)]

\* A red sibling goes up: the new one is black.
RaiseSibling(T, x, d) ==
    LET p == Up(T, x)
        s == Sibling(T, x, d) IN
    IF Color(T, s) # "RED" THEN T
    ELSE Rotate([T EXCEPT !.n[s].color = "BLACK", !.n[p].color = "RED"], p, d)

\* Mutant: the inner nephew stays where it is.
RaiseNephewNot(T, x, d) == T
\* When the outer nephew is black, the inner one goes up.
RaiseNephew(T, x, d) ==
    LET s == Sibling(T, x, d) IN
    IF Color(T, T.n[s][Opp(d)]) # "BLACK" THEN T
    ELSE Rotate([T EXCEPT !.n[T.n[s][d]].color = "BLACK", !.n[s].color = "RED"], s, Opp(d))

LastRotation(T, x, d) ==
    LET p == Up(T, x)
        s == Sibling(T, x, d)
    IN  Rotate([T EXCEPT !.n[s].color = Color(T, p), !.n[p].color = "BLACK",
                         !.n[T.n[s][Opp(d)]].color = "BLACK"], p, d)

\* The rest of an iteration and the next x.  When both nephews are black, x is
\* replaced by its parent's child on its own side, that is by itself.
FixRound(T, x, d) ==
    LET s == Sibling(T, x, d) IN
    IF Color(T, T.n[s].left) = "BLACK" /\ Color(T, T.n[s].right) = "BLACK"
    THEN [t |-> See(Set(T, s, "color", "RED"), "blackNephews"), x |-> T.n[Up(T, x)][d]]
    ELSE LET done == LastRotation(RaiseNephew(T, x, d), x, d) IN [t |-> done, x |-> done.root]

RECURSIVE Minimum(_, _), DeleteFixup(_, _, _)
Minimum(T, node) == IF T.n[node].left = Nil THEN node ELSE Minimum(T, T.n[node].left)

\* _delete_fixup.
DeleteFixup(T, x, fuel) ==
    IF fuel = 0 THEN [t |-> T, hung |-> TRUE]
    ELSE IF x = T.root \/ Color(T, x) # "BLACK"
    THEN [t |-> Set(T, x, "color", "BLACK"), hung |-> FALSE]
    ELSE LET r == FixRound(RaiseSibling(T, x, Side(T, x)), x, Side(T, x)) IN DeleteFixup(r.t, r.x, fuel - 1)

\* y, the successor of z, leaves its place to x and takes over z's right subtree.
Detach(T, y, x, z) ==
    IF Up(T, y) = z THEN Set(T, x, "parent", y)
    ELSE LET U == Transplant(T, y, x) IN [U EXCEPT !.n[y].right = U.n[z].right, !.n[U.n[z].right].parent = y]

\* y takes z's place, left subtree and colour.
Replace(T, y, z) ==
    LET U == Transplant(T, z, y)
    IN  [U EXCEPT !.n[y].left = U.n[z].left, !.n[U.n[z].left].parent = y, !.n[y].color = Color(U, z)]

\* delete: splice out z, or its successor y, which takes z's place and colour.
\* The result: the tree, the child x that moved up, the colour that was lost.
Splice(T, z) ==
    IF T.n[z].left = Nil
    THEN [t |-> Transplant(T, z, T.n[z].right), x |-> T.n[z].right, lost |-> Color(T, z)]
    ELSE IF T.n[z].right = Nil
    THEN [t |-> Transplant(T, z, T.n[z].left), x |-> T.n[z].left, lost |-> Color(T, z)]
    ELSE LET y == Minimum(T, T.n[z].right)
             x == T.n[y].right
         IN  [t |-> Replace(Detach(T, y, x, z), y, z), x |-> x, lost |-> Color(T, y)]

\* Once a rotation lifted the sentinel the model stops: there may then be two nodes
\* of one key, one of them out of reach.
Whole == ~hung /\ "nilLifted" \notin tree.seen

Insert(key) == /\ Whole /\ key \notin present /\ UNCHANGED hung
               /\ tree' = InsertNode(tree, key) /\ present' = present \union {key}

Delete(key) == LET s == Splice(tree, key)
                   f == IF s.lost = "BLACK" THEN DeleteFixup(s.t, s.x, Fuel)
                        ELSE [t |-> s.t, hung |-> FALSE] IN
               /\ Whole /\ key \in present /\ present' = present \ {key}
               /\ tree' = [f.t EXCEPT !.n[key] = Blank("BLACK")] /\ hung' = f.hung

Next == \E key \in TreeKeys : Insert(key) \/ Delete(key)

(***************************************************************************)
(* Properties                                                              *)
(***************************************************************************)

RECURSIVE Walk(_, _, _), BlackHeight(_, _)
Walk(T, node, depth) == IF node = Nil \/ depth = 0 THEN <<>>
    ELSE Walk(T, T.n[node].left, depth - 1) \o <<node>> \o Walk(T, T.n[node].right, depth - 1)
BlackHeight(T, node) == IF node = Nil THEN 1 ELSE
    LET l == BlackHeight(T, T.n[node].left)
        r == BlackHeight(T, T.n[node].right)
    IN  IF l # r \/ l = -1 THEN -1 ELSE l + (IF Color(T, node) = "BLACK" THEN 1 ELSE 0)

\* What a search meets is in order and was inserted and not deleted; it is all of
\* that as long as no rotation lifted the sentinel.
Ordered == LET keys == Walk(tree, tree.root, Cardinality(TreeKeys) + 1)
               met == {keys[i] : i \in 1 .. Len(keys)} IN
    /\ met \subseteq present /\ ("nilLifted" \notin tree.seen => met = present)
    /\ \A i, j \in 1 .. Len(keys) : i < j => keys[i] < keys[j]

\* The tree is a red-black tree until a fix-up meets a sibling with two black children,
\* the case that _delete_fixup gets wrong; nothing else leads to a lifted sentinel.
Balanced ==
    \/ "blackNephews" \in tree.seen
    \/ /\ "nilLifted" \notin tree.seen /\ Color(tree, tree.root) = "BLACK" /\ BlackHeight(tree, tree.root) # -1
       /\ \A k \in present : Color(tree, k) = "RED" => Color(tree, Up(tree, k)) = "BLACK"
NotHung == ~hung
===============================================================================
