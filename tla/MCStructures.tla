------------------------------ MODULE MCStructures ------------------------------
(***************************************************************************)
(* A bench for the tasks that keep a data structure: those of Stores, and  *)
(* the ones below.  The components share no state: each behaviour          *)
(* exercises one of them, chosen by `which`, and the others stay in their  *)
(* initial states.                                                         *)
(***************************************************************************)
EXTENDS Stores, TLC

CONSTANTS k1, k2 \* the keys of Wal, which are only compared with one another
Symmetry == Permutations({k1, k2})

VARIABLES tree, present, hung,                   \* RbTree
          flavour, seg, elements, updates,       \* SegTree
          lists, allocatedAt, blockInfo, lost    \* Buddy

RedBlack == INSTANCE RbTree WITH TreeKeys <- 1 .. 6, Fuel <- 12

\* A larger tree, filled in ascending or in descending order: enough keys for fix-ups
\* that go on from a sibling with two black children.
FilledKeys == 1 .. 10
Filled == INSTANCE RbTree WITH TreeKeys <- FilledKeys, Fuel <- 12
Fill == \E key \in FilledKeys : \/ present \in {1 .. key - 1, key + 1 .. 10} /\ Filled!Insert(key)
                                \/ Filled!Delete(key)

Segments == INSTANCE SegTree WITH Size <- 4, Amounts <- {-1, 2}, MaxUpdates <- 2
Allocator == INSTANCE Buddy WITH MaxOrder <- 3, MinOrder <- 0

redBlackVars == <<tree, present, hung>>
segmentVars == <<flavour, seg, elements, updates>>
allocatorVars == <<lists, allocatedAt, blockInfo, lost>>
benchVars == <<storeVars, redBlackVars, segmentVars, allocatorVars>>

\* A component that may start in several states does so in its own behaviours.
BenchInit == /\ which \in {"journal", "tables", "redBlack", "filled", "segments", "replicated", "collector", "allocator"}
             /\ StoresInit /\ Allocator!Init
             /\ IF which = "filled" THEN Filled!Init ELSE RedBlack!Init
             /\ \/ which = "segments" /\ Segments!Init
                \/ which # "segments" /\ flavour = 0 /\ seg = 0 /\ elements = 0 /\ updates = 0

BenchNext == /\ StoresNext
             /\ CASE which = "redBlack" -> RedBlack!Next
                  [] which = "filled" -> Fill
                  [] OTHER -> UNCHANGED redBlackVars
             /\ IF which = "segments" THEN Segments!Next ELSE UNCHANGED segmentVars
             /\ IF which = "allocator" THEN Allocator!Next ELSE UNCHANGED allocatorVars
Bench == BenchInit /\ [][BenchNext]_benchVars

\* Trees and allocator (tasks 021, 035, 041): whatever pending additions or splits came
\* before, a query answers for what is there, and every cell of the pool is in exactly
\* one block.  A search finds what is there, except in a red-black tree whose fix-up
\* met a sibling with two black children and then rotated the sentinel up: keys are
\* lost then, but none is out of order or comes back.
LookupsAnswer ==
    /\ which = "redBlack" => RedBlack!Ordered /\ RedBlack!Balanced /\ RedBlack!NotHung
    /\ which = "filled" => Filled!Ordered /\ Filled!Balanced /\ Filled!NotHung
    /\ which = "segments" => Segments!QueriesAgree
    /\ which = "allocator" => Allocator!PoolIsTiled
===============================================================================
