--------------------------------- MODULE Buddy --------------------------------
(***************************************************************************)
(* Task 041: the buddy allocator.  The buddy of a block is computed with   *)
(* one order too few, so that it lies inside the block; for order 0 the    *)
(* shift is by -1 and free() raises with the block already forgotten.      *)
(***************************************************************************)
EXTENDS Integers, Sequences, FiniteSets, FiniteSetsExt, SequencesExt

CONSTANTS MaxOrder, MinOrder

Orders == MinOrder .. MaxOrder
Addresses == 0 .. 2 ^ MaxOrder - 1

VARIABLES lists,      \* free_lists: order -> sequence of addresses
          allocatedAt, \* allocated: address -> order
          blockInfo,  \* block_info: address -> [order, free]
          lost        \* history: blocks freed by a call that raised

vars == <<lists, allocatedAt, blockInfo, lost>>

Init == /\ lists = [o \in Orders |-> IF o = MaxOrder THEN <<0>> ELSE <<>>]
        /\ allocatedAt = [a \in {} |-> 0]
        /\ blockInfo = [a \in {0} |-> [order |-> MaxOrder, free |-> TRUE]] /\ lost = {}

Put(f, a, v) == [x \in DOMAIN f \union {a} |-> IF x = a THEN v ELSE f[x]]
Drop(f, a) == [x \in DOMAIN f \ {a} |-> f[x]]

OrderForSize(size) == Min({o \in Orders : 2 ^ o >= size})

\* _find_buddy_address: an exclusive or with 1 << (order - 1).
BuddyOf(a, order) == LET bit == 2 ^ (order - 1) IN
    IF (a \div bit) % 2 = 1 THEN a - bit ELSE a + bit

\* _split_block: the upper halves, one for each order from `from` - 1 down to `to`.
Halves(a, from, to) == [o \in to .. from - 1 |-> a + 2 ^ o]

\* alloc takes the first block of the least order that has one.
Alloc(size) ==
    LET order == OrderForSize(size)
        fit   == {o \in order .. MaxOrder : lists[o] # <<>>}
        from  == Min(fit)
        a     == Head(lists[from])
        halves == Halves(a, from, order)
        Upper == {halves[o] : o \in DOMAIN halves} IN
    /\ fit # {}
    /\ lists' = [o \in Orders |-> CASE o = from -> Tail(lists[o])
                                    [] o \in DOMAIN halves -> Append(lists[o], halves[o])
                                    [] OTHER -> lists[o]]
    /\ blockInfo' = [x \in DOMAIN blockInfo \union Upper \union {a} |->
           IF x = a THEN [order |-> order, free |-> FALSE]
           ELSE IF x \in Upper THEN [order |-> CHOOSE o \in DOMAIN halves : halves[o] = x, free |-> TRUE]
           ELSE blockInfo[x]]
    /\ allocatedAt' = Put(allocatedAt, a, order) /\ UNCHANGED lost

\* The tests of _coalesce before it merges.
Merges(L, info, a, order) ==
    LET b == BuddyOf(a, order) IN
    /\ order < MaxOrder /\ b \in DOMAIN info
    /\ info[b].free /\ info[b].order = order /\ Contains(L[order], b)

RECURSIVE Coalesce(_, _, _, _)
Coalesce(L, info, a, order) ==
    IF ~Merges(L, info, a, order) THEN [lists |-> [L EXCEPT ![order] = Append(@, a)], info |-> info]
    ELSE LET b == BuddyOf(a, order)
             m == Min({a, b})
         IN  Coalesce([L EXCEPT ![order] = Remove(@, b)],
                      Put(Drop(info, b), m, [order |-> order + 1, free |-> TRUE]), m, order + 1)

Free(a) ==
    LET order == allocatedAt[a]
        info  == Put(blockInfo, a, [order |-> order, free |-> TRUE])
        done  == Coalesce(lists, info, a, order) IN
    /\ a \in DOMAIN allocatedAt /\ allocatedAt' = Drop(allocatedAt, a)
    /\ IF order = 0 /\ MaxOrder > 0
       THEN blockInfo' = info /\ lost' = lost \union {a} /\ UNCHANGED lists
       ELSE blockInfo' = done.info /\ lists' = done.lists /\ UNCHANGED lost

Next == (\E size \in 1 .. 2 ^ MaxOrder : Alloc(size)) \/ (\E a \in Addresses : Free(a))

(***************************************************************************)
(* Properties                                                              *)
(***************************************************************************)

Cells(a, order) == a .. a + 2 ^ order - 1
Regions == {[kind |-> "allocated", cells |-> Cells(a, allocatedAt[a])] : a \in DOMAIN allocatedAt}
    \union {[kind |-> "lost", cells |-> Cells(a, 0)] : a \in lost}
    \union UNION {{[kind |-> "free", cells |-> Cells(lists[o][i], o)] : i \in 1 .. Len(lists[o])} : o \in Orders}

\* Allocated, free and lost blocks tile the pool: no cell is handed out twice, and
\* none goes missing but by a free() that raised.
PoolIsTiled == /\ \A o \in Orders : IsInjective(lists[o])
               /\ \A r, s \in Regions : r # s => r.cells \intersect s.cells = {}
               /\ UNION {r.cells : r \in Regions} = Addresses
===============================================================================
