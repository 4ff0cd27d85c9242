---------------------------------- MODULE Ring --------------------------------
(***************************************************************************)
(* Task 031: the consistent hash ring.  The hash function is chosen with   *)
(* the initial state; virtual nodes that share a hash overwrite each other *)
(* in the map and are both in the sorted list.                             *)
(***************************************************************************)
EXTENDS Integers, Sequences, FiniteSets, Functions, SequencesExt

CONSTANTS Members, Virtual, \* the nodes, and how many virtual nodes each has
          Hashes,           \* the hashes are 0 .. Hashes - 1, and each is a key's
          HashFunctions,    \* the assignments of hashes to virtual nodes
          MaxPoints         \* bound: the points, of which collisions leave some behind

VARIABLES hash,    \* hash[m]: the hashes of m's virtual nodes, in their order
          ring,    \* _ring: hash -> node
          sorted,  \* _sorted_hashes
          members  \* _nodes

vars == <<hash, ring, sorted, members>>

Points == 0 .. Hashes - 1
Init == /\ hash \in HashFunctions
        /\ ring = [h \in {} |-> ""] /\ sorted = <<>> /\ members = {}

\* bisect_left and bisect_right, counted from 1.
Left(list, h) == Min({i \in 1 .. Len(list) : list[i] >= h} \union {Len(list) + 1})
Right(list, h) == Min({i \in 1 .. Len(list) : list[i] > h} \union {Len(list) + 1})

\* bisect.insort.
Insort(list, h) == InsertAt(list, Right(list, h), h)
\* Mutant: bisect_right for bisect_left, and no look at what is there.
PopNext(list, h) == LET i == Right(list, h) IN IF i <= Len(list) THEN RemoveAt(list, i) ELSE list
\* The pop of one occurrence of h.
PopOne(list, h) == LET i == Left(list, h) IN
                   IF i <= Len(list) /\ list[i] = h THEN RemoveAt(list, i) ELSE list

AddNode(m) ==
    LET with[i \in 0 .. Virtual] == IF i = 0 THEN sorted ELSE Insort(with[i - 1], hash[m][i]) IN
    /\ m \notin members /\ members' = members \union {m} /\ Len(sorted) + Virtual <= MaxPoints
    /\ ring' = [h \in DOMAIN ring \union Range(hash[m]) |-> IF h \in Range(hash[m]) THEN m ELSE ring[h]]
    /\ sorted' = with[Virtual] /\ UNCHANGED hash

\* The map's entry goes with the first virtual node of that hash, whoever put it
\* there, and one point with it.
RemoveNode(m) ==
    LET left[i \in 0 .. Virtual] ==
          IF i = 0 THEN [ring |-> ring, sorted |-> sorted]
          ELSE LET h == hash[m][i]
                   was == left[i - 1]
               IN  IF h \in DOMAIN was.ring
                   THEN [ring |-> Restrict(was.ring, DOMAIN was.ring \ {h}), sorted |-> PopOne(was.sorted, h)]
                   ELSE was IN
    /\ m \in members /\ members' = members \ {m}
    /\ ring' = left[Virtual].ring /\ sorted' = left[Virtual].sorted /\ UNCHANGED hash

Next == \E m \in Members : AddNode(m) \/ RemoveNode(m)

Crash == "KeyError"
Entry(h) == IF h \in DOMAIN ring THEN ring[h] ELSE Crash
\* get_node, for a key whose hash is h: beyond the last point, the last one.
GetNode(h) == IF sorted = <<>> THEN "None"
              ELSE Entry(sorted[Min({Right(sorted, h), Len(sorted)})])

(***************************************************************************)
(* Properties                                                              *)
(***************************************************************************)

NoCollision == \A m, n \in Members : \A i, j \in 1 .. Virtual : hash[m][i] = hash[n][j] => m = n /\ i = j

\* Without colliding hashes, a node that joins takes keys only to itself, and one
\* that leaves gives away its own keys only (an action property).
OnlyItsKeysMove == NoCollision => \A h \in Points :
    GetNode(h)' # GetNode(h) => \/ GetNode(h)' \in members' \ members
                                \/ GetNode(h) \in members \ members'

\* Every key has a node of the ring, or a ring without nodes says so.
KeysHaveNodes == NoCollision /\ members # {} => \A h \in Points : GetNode(h) \in members
===============================================================================
