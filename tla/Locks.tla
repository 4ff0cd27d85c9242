--------------------------------- MODULE Locks ---------------------------------
(***************************************************************************)
(* Task 047: the lock manager and its wait-for graph.  Every method runs   *)
(* under one mutex.  Threads are well behaved: one that waits makes no     *)
(* call until a release grants it the lock.                                *)
(***************************************************************************)
EXTENDS Integers, Sequences, FiniteSets, SequencesExt

CONSTANTS LockUsers, LockIds,
          Reentrant,   \* the locks registered as reentrant
          MaxHolds     \* bound: hold_count of a reentrant lock

VARIABLES owner,     \* owner[l]: the owning thread or Nobody
          holds,     \* holds[l]: hold_count
          waiters,   \* waiters[l]: queue of threads
          waitsFor,  \* waitsFor[t]: waiting_for, a lock or Nothing
          edges,     \* the edges of the wait-for graph
          reported   \* the cycle the last call returned, as a set; {} if it returned none

vars == <<owner, holds, waiters, waitsFor, edges, reported>>

Nobody == "nobody"
Nothing == "nothing"

Init == /\ owner = [l \in LockIds |-> Nobody] /\ holds = [l \in LockIds |-> 0]
        /\ waiters = [l \in LockIds |-> <<>>]
        /\ waitsFor = [t \in LockUsers |-> Nothing]
        /\ edges = {} /\ reported = {}

Queued(t) == \E l \in LockIds : Contains(waiters[l], t)

\* The threads on a cycle: those that reach themselves.  Each thread waits for
\* at most one other, so the search of find_cycle returns exactly these.  What
\* a search from t finds is in every set that it could not leave.
Step(graph, ts) == {e[2] : e \in {e \in graph : e[1] \in ts}}
Reach(graph, t) ==
    {u \in LockUsers : \A ts \in SUBSET LockUsers :
        Step(graph, ts \union {t}) \subseteq ts => u \in ts}
FindCycle(graph) == {t \in LockUsers : t \in Reach(graph, t)}

\* Who truly waits for whom: a queued thread for the lock's present owner.
TrueWaits == UNION {{<<t, owner[l]>> : t \in ToSet(waiters[l])} : l \in LockIds}

AcquireFree(t, l) == /\ owner[l] = Nobody
                     /\ owner' = [owner EXCEPT ![l] = t] /\ holds' = [holds EXCEPT ![l] = 1] /\ reported' = {}
                     /\ UNCHANGED <<waiters, waitsFor, edges>>

AcquireAgain(t, l) == /\ owner[l] = t /\ l \in Reentrant /\ holds[l] < MaxHolds
                      /\ holds' = [holds EXCEPT ![l] = @ + 1] /\ reported' = {}
                      /\ UNCHANGED <<owner, waiters, waitsFor, edges>>

\* The edge is added, the graph searched; a cycle takes the edge back and is
\* returned.  A lock that is not reentrant adds a self-edge: always a cycle.
AcquireHeld(t, l) ==
    LET graph == edges \union {<<t, owner[l]>>} IN
    /\ owner[l] # Nobody /\ ~(owner[l] = t /\ l \in Reentrant)
    /\ IF FindCycle(graph) # {}
       THEN /\ reported' = FindCycle(graph)
            /\ edges' = edges \ {<<t, owner[l]>>} /\ UNCHANGED <<waiters, waitsFor>>
       ELSE /\ edges' = graph /\ waitsFor' = [waitsFor EXCEPT ![t] = l]
            /\ waiters' = [waiters EXCEPT ![l] = Append(@, t)] /\ reported' = {}
    /\ UNCHANGED <<owner, holds>>

TryAcquire(t, l) == ~Queued(t) /\ (AcquireFree(t, l) \/ AcquireAgain(t, l) \/ AcquireHeld(t, l))

\* Mutant: only the waiter that is granted the lock is detached.
DetachedFirst(l) == {w \in ToSet(waiters[l]) : w = Head(waiters[l])}
Detached(l) == ToSet(waiters[l])

\* release: every waiter loses its edge to t and its waiting_for, the first one
\* is granted the lock; the others get no edge to the new owner.
Release(t, l) ==
    /\ owner[l] = t /\ ~Queued(t) /\ reported' = {}
    /\ IF holds[l] > 1
       THEN holds' = [holds EXCEPT ![l] = @ - 1] /\ UNCHANGED <<owner, waiters, waitsFor, edges>>
       ELSE /\ edges' = edges \ {<<w, t>> : w \in Detached(l)}
            /\ waitsFor' = [w \in LockUsers |-> IF w \in Detached(l) THEN Nothing ELSE waitsFor[w]]
            /\ owner' = [owner EXCEPT ![l] = IF waiters[l] = <<>> THEN Nobody ELSE Head(waiters[l])]
            /\ holds' = [holds EXCEPT ![l] = IF waiters[l] = <<>> THEN 0 ELSE 1]
            /\ waiters' = [waiters EXCEPT ![l] = SubSeq(@, 2, Len(@))]

Next == \E t \in LockUsers, l \in LockIds : TryAcquire(t, l) \/ Release(t, l)

(***************************************************************************)
(* Properties                                                              *)
(***************************************************************************)

\* A reported cycle consists of two threads or more that truly waited for one
\* another in a circle when it was reported.  The exception is a false alarm: a
\* thread that asks again for a lock of its own that is not reentrant is reported
\* as a cycle of itself.
CyclesAreReal == reported # {} =>
    \E t \in LockUsers, l \in LockIds :
        /\ ~Queued(t) /\ owner[l] # Nobody
        /\ IF owner[l] = t THEN l \notin Reentrant /\ reported = {t}
           ELSE /\ \E u, v \in reported : u # v
                /\ \A u \in reported : u \in Reach(TrueWaits \union {<<t, owner[l]>>}, u)

\* The graph errs on one side only: it has no edge that is not a true wait, and
\* a true wait is missing only if a release passed over the waiting thread.
EdgesAreWaits == /\ edges \subseteq TrueWaits
                 /\ \A e \in TrueWaits \ edges : waitsFor[e[1]] = Nothing

\* "Deadlocks are detected": waiting threads never form an undetected circle.
DeadlocksDetected == FindCycle(TrueWaits) = {}
===============================================================================
