------------------------------- MODULE ConnPool -------------------------------
(***************************************************************************)
(* Task 018: the connection pool, used by clients that release what they   *)
(* acquired once.  Every method holds the pool's lock, so each is a step.  *)
(***************************************************************************)
EXTENDS Integers, Sequences, FiniteSets, SequencesExt, Lists

CONSTANTS Clients, MaxSize,
          MaxCreated  \* bound: connections created in one behaviour

VARIABLES pool,     \* _pool: connection ids
          inUse,    \* keys of _in_use
          created,  \* _total_created; ids grow with the time of creation
          alive,    \* connections that are not closed
          held      \* held[c]: the connections client c has acquired

vars == <<pool, inUse, created, alive, held>>

Init == /\ pool = <<>> /\ inUse = {} /\ created = 0 /\ alive = {}
        /\ held = [c \in Clients |-> {}]

Hand(c, conn) == /\ inUse' = inUse \union {conn}
                 /\ held' = [held EXCEPT ![c] = @ \union {conn}]

\* Mutant: the pooled connection is handed out but stays in the pool.
AcquireShared(c) == /\ pool # <<>> /\ Hand(c, Head(pool)) /\ UNCHANGED <<pool, created, alive>>

\* acquire, first branch: whatever is pooled is handed out, closed or not.
AcquirePooled(c) == /\ pool # <<>> /\ Hand(c, Head(pool))
                    /\ pool' = Tail(pool) /\ UNCHANGED <<created, alive>>

\* acquire, second branch; at max_size it raises and changes nothing.
AcquireNew(c) == /\ pool = <<>> /\ Cardinality(inUse) < MaxSize /\ created < MaxCreated
                 /\ created' = created + 1 /\ alive' = alive \union {created + 1}
                 /\ Hand(c, created + 1) /\ UNCHANGED pool

\* release puts the connection back even when close_all has emptied the pool.
Release(c, conn) == /\ conn \in held[c] /\ held' = [held EXCEPT ![c] = @ \ {conn}]
                    /\ inUse' = inUse \ {conn} /\ pool' = Append(pool, conn)
                    /\ UNCHANGED <<created, alive>>

\* The clients keep, and will release, connections that are closed under them.
CloseAll == /\ alive' = alive \ (ToSet(pool) \union inUse)
            /\ pool' = <<>> /\ inUse' = {} /\ UNCHANGED <<created, held>>

\* prune(max_age): pooled connections created before some moment are closed.
Prune(last) == /\ \E conn \in ToSet(pool) : conn <= last
               /\ pool' = Without(pool, 1 .. last)
               /\ alive' = alive \ {conn \in ToSet(pool) : conn <= last}
               /\ UNCHANGED <<inUse, created, held>>

Next == \/ \E c \in Clients : \/ AcquirePooled(c) \/ AcquireNew(c)
                              \/ \E conn \in 1 .. MaxCreated : Release(c, conn)
        \/ CloseAll \/ \E last \in 1 .. MaxCreated : Prune(last)

(***************************************************************************)
(* Properties                                                              *)
(***************************************************************************)

\* A connection has one owner: a client, or the pool, once.  This holds through
\* close_all, prune and the late releases of connections closed meanwhile.
OneOwner == /\ \A c, d \in Clients : c # d => held[c] \intersect held[d] = {}
            /\ IsInjective(pool)
            /\ \A c \in Clients : held[c] \intersect ToSet(pool) = {}

\* max_size bounds the open connections, and none of them is forgotten: each is
\* pooled or in use, though close_all makes the pool forget who holds what.
OpenWithinLimit == /\ Cardinality(alive) <= MaxSize
                   /\ alive \subseteq ToSet(pool) \union inUse
===============================================================================
