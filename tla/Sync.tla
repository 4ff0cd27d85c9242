--------------------------------- MODULE Sync ---------------------------------
(***************************************************************************)
(* The tasks that synchronise threads or coroutines, side by side.  The    *)
(* components share no state: each behaviour exercises one of them, chosen *)
(* by `which`, and the others stay in their initial states.                *)
(***************************************************************************)
EXTENDS Integers, Sequences, FiniteSets

CONSTANTS NumConsumers, QueueSize, MaxOffers,                                    \* AsyncQueue
          Clients, MaxSize, MaxCreated,                                          \* ConnPool
          Users, Keys, MaxCapacity,                                              \* ConcurrentLru
          Threads, Channels, Capacity, Selects, MaxCalls,                        \* Csp
          LockUsers, LockIds, Reentrant, MaxHolds,                               \* Locks
          Callers, MaxRetries, MaxRounds                                         \* Retry

VARIABLES which,
          queue, getters, woken, closed, counts, offered, moved, todo, stage,    \* AsyncQueue
          pool, inUse, created, alive, held,                                     \* ConnPool
          order, expired, capacity, touching, filling, quiet, settled,           \* ConcurrentLru
          buffered, isClosed, notFull, notEmpty, pc, tallies, calls,             \* Csp
          owner, holds, waiters, waitsFor, edges, reported,                      \* Locks
          used, at, failed, outcomes, rounds                                     \* Retry

Queue == INSTANCE AsyncQueue
Pool == INSTANCE ConnPool
Lru == INSTANCE ConcurrentLru
Chan == INSTANCE Csp
Lock == INSTANCE Locks
Retries == INSTANCE Retry

ASSUME SyncAssumption ==
    /\ NumConsumers \in Nat \ {0} /\ QueueSize \in Nat \ {0} /\ MaxSize \in Nat /\ MaxRetries \in Nat
    /\ MaxCapacity \in Nat \ {0} /\ Lru!None \notin Keys
    /\ Lock!Nobody \notin LockUsers /\ Lock!Nothing \notin LockIds
    /\ \A set \in {Channels, Threads, Callers} : IsFiniteSet(set)
    /\ Channels # {} /\ Capacity \in [Channels -> Nat]
    /\ Selects \subseteq Seq([chan : Channels, send : BOOLEAN]) /\ <<>> \notin Selects

queueVars == <<queue, getters, woken, closed, counts, offered, moved, todo, stage>>
poolVars == <<pool, inUse, created, alive, held>>
lruVars == <<order, expired, capacity, touching, filling, quiet, settled>>
chanVars == <<buffered, isClosed, notFull, notEmpty, pc, tallies, calls>>
lockVars == <<owner, holds, waiters, waitsFor, edges, reported>>
retryVars == <<used, at, failed, outcomes, rounds>>
vars == <<which, queueVars, poolVars, lruVars, chanVars, lockVars, retryVars>>

Init == /\ which \in {"queue", "pool", "lru", "chan", "lock", "retry"}
        /\ Queue!Init /\ Pool!Init /\ Lru!Init /\ Chan!Init /\ Lock!Init /\ Retries!Init

Next == /\ UNCHANGED which
        /\ IF which = "queue" THEN Queue!Next ELSE UNCHANGED queueVars
        /\ IF which = "pool" THEN Pool!Next ELSE UNCHANGED poolVars
        /\ IF which = "lru" THEN Lru!Next ELSE UNCHANGED lruVars
        /\ IF which = "chan" THEN Chan!Next ELSE UNCHANGED chanVars
        /\ IF which = "lock" THEN Lock!Next ELSE UNCHANGED lockVars
        /\ IF which = "retry" THEN Retries!Next ELSE UNCHANGED retryVars

Spec == Init /\ [][Next]_vars /\ Chan!Fairness

\* Queue (task 011): nothing accepted is lost, duplicated or reordered through drains,
\* stolen wake-ups and timeouts, and the consumers of a pipeline get all of it.
QueueDelivers == Queue!Conserved /\ Queue!PipelineDelivers

\* Queue and channels (tasks 011, 049): nobody sleeps beside what it waits for, unless
\* another that was woken is on its way to take it.
NoLostWakeup == Queue!NobodyForgotten /\ Chan!NoLostWakeup

\* Pool and retries (tasks 018, 019): connections have one owner and stay within
\* max_size; calls stay within max_retries, which they share.
LimitsHold == Pool!OneOwner /\ Pool!OpenWithinLimit /\ Retries!AttemptsBounded

\* Cache (task 026): eviction order is recency order as far as real time fixes it.
LruOrder == Lru!LruOrder

\* Locks (task 047): the wait-for graph has no edge that is not a wait, and what is
\* reported as a deadlock is a circle of two threads or more, or a thread that asked
\* again for a lock of its own that is not reentrant.
GraphIsSound == Lock!CyclesAreReal /\ Lock!EdgesAreWaits

\* Locks (task 047): threads that wait never form a circle that was not reported.
DeadlocksDetected == Lock!DeadlocksDetected

\* Channels (task 049): once every channel is closed, every call returns but a select
\* whose cases are all sends, which never looks at a closed channel and, without a
\* timeout, never ends.
CallsEndAfterClose == Chan!CallsEndAfterClose
===============================================================================
