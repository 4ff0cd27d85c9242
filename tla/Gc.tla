---------------------------------- MODULE Gc ----------------------------------
(***************************************************************************)
(* Task 040: the mark-sweep collector and the runtime that drives it.      *)
(* Marking stops at the roots: what a root refers to is not marked.  The   *)
(* marks are cleared before every use, so they are no state.               *)
(***************************************************************************)
EXTENDS Integers, FiniteSets

CONSTANTS Names, HeapSize, Threshold,
          MaxObjects, \* bound: objects ever allocated
          MaxRefs     \* bound: references of one object

Unset == 0

VARIABLES refs,      \* refs[i]: what live object i refers to (DOMAIN refs: the heap)
          names,     \* the runtime's variables
          roots, sinceGc,
          allocated, freed, \* total_allocated (and the last id), total_freed
          dropped    \* history: what a variable held when its root was removed by hand

vars == <<refs, names, roots, sinceGc, allocated, freed, dropped>>

Init == /\ refs = [i \in {} |-> {}] /\ names = [n \in Names |-> Unset]
        /\ roots = {} /\ sinceGc = 0 /\ allocated = 0 /\ freed = 0 /\ dropped = {}

Live == DOMAIN refs
Held(variables) == {variables[n] : n \in Names} \ {Unset}

\* _mark_phase: the roots that are on the heap, and nothing behind them.
Marked(heap, from) == from \intersect DOMAIN heap

\* collect, over the heap and the roots as they are when it runs.
Collect(heap, from) ==
    /\ refs' = [i \in Marked(heap, from) |-> heap[i]]
    /\ freed' = freed + Cardinality(DOMAIN heap) - Cardinality(Marked(heap, from))

Allocated(to) == [i \in Live \union {allocated + 1} |-> IF i \in Live THEN refs[i] ELSE to]

\* Mutant: the roots follow the variables after the collection, not before.
CreateCollectFirst(n, to) ==
    /\ Cardinality(Live) < HeapSize /\ allocated < MaxObjects
    /\ allocated' = allocated + 1
    /\ names' = [names EXCEPT ![n] = allocated + 1] /\ roots' = Held(names')
    /\ IF sinceGc + 1 >= Threshold
       THEN sinceGc' = 0 /\ Collect(Allocated(to), roots)
       ELSE sinceGc' = sinceGc + 1 /\ refs' = Allocated(to) /\ UNCHANGED freed
    /\ UNCHANGED dropped
\* create_int, create_string, create_list and create_object: allocate, bind the
\* name, replace the roots by the variables' objects, then maybe collect.
Create(n, to) ==
    /\ Cardinality(Live) < HeapSize /\ allocated < MaxObjects
    /\ allocated' = allocated + 1
    /\ names' = [names EXCEPT ![n] = allocated + 1] /\ roots' = Held(names')
    /\ IF sinceGc + 1 >= Threshold
       THEN sinceGc' = 0 /\ Collect(Allocated(to), roots')
       ELSE sinceGc' = sinceGc + 1 /\ refs' = Allocated(to) /\ UNCHANGED freed
    /\ UNCHANGED dropped

DeleteVariable(n) ==
    /\ names[n] # Unset /\ names' = [names EXCEPT ![n] = Unset] /\ roots' = Held(names')
    /\ UNCHANGED <<refs, sinceGc, allocated, freed, dropped>>

\* set_field, append_ref; remove_ref.
Refer(i, j) == /\ i \in Live /\ Cardinality(refs[i] \union {j}) <= MaxRefs
               /\ refs' = [refs EXCEPT ![i] = @ \union {j}]
               /\ UNCHANGED <<names, roots, sinceGc, allocated, freed, dropped>>
Unrefer(i, j) == /\ i \in Live /\ j \in refs[i] /\ refs' = [refs EXCEPT ![i] = @ \ {j}]
                 /\ UNCHANGED <<names, roots, sinceGc, allocated, freed, dropped>>

\* add_root; remove_root, of any id, a variable's too; a collection on demand;
\* is_reachable marks afresh and changes nothing else.
AddRoot(i) == /\ roots' = roots \union {i}
              /\ UNCHANGED <<refs, names, sinceGc, allocated, freed, dropped>>
RemoveRoot(i) == /\ roots' = roots \ {i} /\ dropped' = dropped \union ({i} \intersect Held(names))
                 /\ UNCHANGED <<refs, names, sinceGc, allocated, freed>>
CollectNow == Collect(refs, roots) /\ UNCHANGED <<names, roots, sinceGc, allocated, dropped>>

Next == \/ \E n \in Names : DeleteVariable(n) \/ \E to \in SUBSET (1 .. allocated) :
                                Cardinality(to) <= MaxRefs /\ Create(n, to)
        \/ \E i, j \in 1 .. allocated : Refer(i, j) \/ Unrefer(i, j)
        \/ \E i \in 1 .. allocated : AddRoot(i) \/ RemoveRoot(i)
        \/ CollectNow

(***************************************************************************)
(* Properties                                                              *)
(***************************************************************************)

\* A variable's object is never collected, though any allocation may collect and
\* the roots are replaced on every change, unless the caller removed its root while
\* the variable held it; the totals account for every object.
VariablesSurvive == /\ Held(names) \ dropped \subseteq Live \intersect roots
                    /\ allocated - freed = Cardinality(Live)
===============================================================================
