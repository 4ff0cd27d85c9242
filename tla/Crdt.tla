--------------------------------- MODULE Crdt ---------------------------------
(***************************************************************************)
(* Task 043: the replicated data types, and the store that merges them.    *)
(* A store maps names to objects; one name is modelled, and `kind` is what *)
(* it names.  An object carries the id of the replica that made it: the    *)
(* clone that merge_from leaves in a store that had none keeps that id, so *)
(* two stores may go on counting, tagging or writing as one replica.       *)
(***************************************************************************)
EXTENDS Integers, FiniteSets, FiniteSetsExt

CONSTANTS Replicas, Elements,
          MaxCalls, \* bound: calls that change an object, merges aside
          MaxTime   \* bound: timestamps are 1 .. MaxTime, in any order, ties too

Kinds == {"counter", "grow", "observed", "register"}
Absent == [id |-> "absent"]

VARIABLES kind,   \* what the name stands for in this behaviour
          store,  \* store[r]: r's object, or Absent
          seen,   \* history: the calls whose effect was in what reached r
          calls   \* history: every call made so far, in a set of records

vars == <<kind, store, seen, calls>>

Init == /\ kind \in Kinds /\ store = [r \in Replicas |-> Absent]
        /\ seen = [r \in Replicas |-> {}] /\ calls = {}

Zero == [r \in Replicas |-> 0]
NoTags == [e \in Elements |-> {}]

\* get_counter, get_set and get_register make the object at its first use.
Fresh(r) == CASE kind = "counter"  -> [id |-> r, p |-> Zero, n |-> Zero]
              [] kind = "grow"     -> [id |-> r, elements |-> {}]
              [] kind = "observed" -> [id |-> r, tag |-> 0, elements |-> NoTags]
              [] kind = "register" -> [id |-> r, value |-> "None", time |-> 0, writer |-> ""]
Object(r) == IF store[r] = Absent THEN Fresh(r) ELSE store[r]

\* A call on r's object, which leaves `object`; `what` is remembered of it: the
\* operation, the id it counted or tagged under (a write: its time), its argument.
Call(r, what, object) ==
    LET call == [what EXCEPT !.n = Cardinality(calls) + 1] IN
    /\ Cardinality(calls) < MaxCalls
    /\ store' = [store EXCEPT ![r] = object]
    /\ calls' = calls \union {call} /\ seen' = [seen EXCEPT ![r] = @ \union {call}]
    /\ UNCHANGED kind
What(op, under, arg) == [op |-> op, under |-> under, arg |-> arg, n |-> 0]

Increment(r) == LET o == Object(r) IN
    kind = "counter" /\ Call(r, What("increment", o.id, 1), [o EXCEPT !.p[o.id] = @ + 1])
Decrement(r) == LET o == Object(r) IN
    kind = "counter" /\ Call(r, What("decrement", o.id, 1), [o EXCEPT !.n[o.id] = @ + 1])

GrowAdd(r, e) == LET o == Object(r) IN
    kind = "grow" /\ Call(r, What("add", o.id, e), [o EXCEPT !.elements = @ \union {e}])

Add(r, e) == LET o == Object(r) IN
    /\ kind = "observed"
    /\ Call(r, What("add", o.id, e),
            [o EXCEPT !.tag = @ + 1, !.elements[e] = @ \union {<<o.id, o.tag + 1>>}])
\* remove drops what this replica has seen of e, and leaves no tombstone.
Remove(r, e) == LET o == Object(r) IN
    /\ kind = "observed" /\ o.elements[e] # {}
    /\ Call(r, What("remove", o.id, e), [o EXCEPT !.elements[e] = {}])

\* LWWRegister.set: an equal timestamp overwrites here, and not in merge.
Write(r, e, time) == LET o == Object(r) IN
    /\ kind = "register"
    /\ Call(r, What("write", time, e),
            IF time >= o.time THEN [o EXCEPT !.value = e, !.time = time, !.writer = o.id] ELSE o)

MinCounts(a, b) == [r \in Replicas |-> IF a[r] < b[r] THEN a[r] ELSE b[r]]

\* Mutant: whatever the other register holds is taken.
MergeTakes(mine, theirs) ==
    CASE kind = "counter" -> [mine EXCEPT !.p = MinCounts(@, theirs.p), !.n = MinCounts(@, theirs.n)]
      [] kind = "grow" -> [mine EXCEPT !.elements = @ \union theirs.elements]
      [] kind = "observed" -> [mine EXCEPT !.elements = [e \in Elements |-> @[e] \union theirs.elements[e]]]
      [] kind = "register" -> [theirs EXCEPT !.id = mine.id]
Merge(mine, theirs) ==
    CASE kind = "counter" -> [mine EXCEPT !.p = MinCounts(@, theirs.p), !.n = MinCounts(@, theirs.n)]
      [] kind = "grow" -> [mine EXCEPT !.elements = @ \union theirs.elements]
      [] kind = "observed" -> [mine EXCEPT !.elements = [e \in Elements |-> @[e] \union theirs.elements[e]]]
      [] kind = "register" -> IF theirs.time > mine.time THEN [theirs EXCEPT !.id = mine.id] ELSE mine

\* merge_from: a clone where r has no object yet.
MergeFrom(r, s) ==
    /\ r # s /\ store[s] # Absent
    /\ store' = [store EXCEPT ![r] = IF @ = Absent THEN store[s] ELSE Merge(@, store[s])]
    /\ seen' = [seen EXCEPT ![r] = @ \union seen[s]]
    /\ UNCHANGED <<kind, calls>>

Next == \E r \in Replicas :
    \/ Increment(r) \/ Decrement(r)
    \/ \E e \in Elements : \/ GrowAdd(r, e) \/ Add(r, e) \/ Remove(r, e)
                           \/ \E time \in 1 .. MaxTime : Write(r, e, time)
    \/ \E s \in Replicas : MergeFrom(r, s)

(***************************************************************************)
(* Properties                                                              *)
(***************************************************************************)

Holds(r, e) == store[r] # Absent /\ IF kind = "grow" THEN e \in store[r].elements
                                    ELSE store[r].elements[e] # {}
Seen(r, op, e) == \E c \in seen[r] : c.op = op /\ c.arg = e

\* A set holds only elements whose add reached the replica, and all those that
\* nobody it has heard of removed.
SetsReflectCalls == kind \in {"grow", "observed"} => \A r \in Replicas, e \in Elements :
    /\ Holds(r, e) => Seen(r, "add", e)
    /\ Seen(r, "add", e) /\ ~Seen(r, "remove", e) => Holds(r, e)

\* A register holds one of the latest writes that reached the replica, in
\* whatever order, by whatever path and how often they did.
LatestWriteWins == kind = "register" => \A r \in Replicas : store[r] # Absent =>
    LET times == {c.under : c \in seen[r]} \union {0} IN
    /\ store[r].time = Max(times)
    /\ store[r].time > 0 => \E c \in seen[r] : c.under = store[r].time /\ c.arg = store[r].value

\* No merge, order of merges or cloned identity makes a counter count what was not counted.
NeverOvercounts == kind = "counter" => \A r, s \in Replicas : store[r] # Absent =>
    LET Made(op) == Cardinality({c \in seen[r] : c.op = op /\ c.under = s}) IN
    store[r].p[s] <= Made("increment") /\ store[r].n[s] <= Made("decrement")

\* What reached a replica determines what it holds, but for writes of one time.
Converges == kind \in {"grow", "register"} => \A r, s \in Replicas :
    seen[r] = seen[s] /\ store[r] # Absent /\ store[s] # Absent =>
        IF kind = "grow" THEN store[r].elements = store[s].elements
        ELSE \/ store[r].value = store[s].value
             \/ \E c, d \in seen[r] : c # d /\ c.under = d.under /\ c.under = store[r].time
===============================================================================
