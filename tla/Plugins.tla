-------------------------------- MODULE Plugins -------------------------------
(***************************************************************************)
(* Task 024: the plugin loader.  Its topological order is the wrong way    *)
(* round: a plugin comes before what it depends on, so a first load_all    *)
(* fails all but the plugins without dependencies, and each further one    *)
(* gets one level farther.                                                 *)
(***************************************************************************)
EXTENDS Integers, Sequences, FiniteSets

CONSTANTS PluginNames, Rank, \* Rank: the alphabetical order, as numbers
          MaxLoads \* bound

Unregistered == "unregistered"

VARIABLES state, deps, \* per plugin; deps is meaningful once registered
          loads,
          relapsed     \* history: plugins whose init_func raised after they had been loaded

vars == <<state, deps, loads, relapsed>>
Init == /\ state = [p \in PluginNames |-> Unregistered] /\ deps = [p \in PluginNames |-> {}]
        /\ loads = 0 /\ relapsed = {}

Registered == {p \in PluginNames : state[p] # Unregistered}
Register(p, on) == /\ p \notin Registered /\ state' = [state EXCEPT ![p] = "REGISTERED"]
                   /\ deps' = [deps EXCEPT ![p] = on] /\ UNCHANGED <<loads, relapsed>>

\* _find_dependents, which unregister asks first.
MayUnregister(p) == p \in Registered /\ \A q \in Registered : p \notin deps[q]
Unregister(p) == /\ MayUnregister(p) /\ state' = [state EXCEPT ![p] = Unregistered]
                 /\ deps' = [deps EXCEPT ![p] = {}] /\ UNCHANGED <<loads, relapsed>>

\* resolve_order: of the plugins that no plugin still waiting depends on, the
\* alphabetically last; what is left on a cycle never comes.
ResolveOrder ==
    LET from[left \in SUBSET Registered] ==
          LET free == {p \in left : \A q \in left : p \notin deps[q]}
              next == CHOOSE p \in free : \A q \in free : Rank[q] <= Rank[p]
          IN  IF free = {} THEN <<>> ELSE <<next>> \o from[left \ {next}]
    IN from[Registered]

\* One plugin of load_all's loop: its dependencies as they stand now, and then its
\* init_func, which is called afresh by every load_all.
LoadOne(states, p, raising) == [states EXCEPT ![p] =
    IF (\E d \in deps[p] : d = p \/ states[d] # "LOADED") \/ p \in raising THEN "FAILED" ELSE "LOADED"]

\* load_all, with the plugins whose init_func raises if it is called this time; a
\* missing dependency and a cycle raise before anything changes.
LoadAll(raising) ==
    LET after[i \in 0 .. Len(ResolveOrder)] ==
            IF i = 0 THEN state ELSE LoadOne(after[i - 1], ResolveOrder[i], raising) IN
    /\ loads < MaxLoads /\ \A p \in Registered : deps[p] \subseteq Registered
    /\ Len(ResolveOrder) = Cardinality(Registered)
    /\ state' = after[Len(ResolveOrder)] /\ loads' = loads + 1 /\ UNCHANGED deps
    /\ relapsed' = relapsed \union {p \in raising : state[p] = "LOADED"}

Next == \/ \E raising \in SUBSET Registered : LoadAll(raising)
        \/ \E p \in PluginNames : Unregister(p) \/ \E on \in SUBSET PluginNames : Register(p, on)

\* What p depends on, directly or not.
Below(on, p) == {q \in PluginNames :
    \A closed \in SUBSET PluginNames :
        (on[p] \subseteq closed /\ \A r \in closed : on[r] \subseteq closed) => q \in closed}

\* A plugin is loaded only while everything it depends on is, unless an init_func below
\* it raised after it had succeeded: load_all then tries the dependents first, which
\* find the result of the time before, and leaves them loaded.
LoadedOnLoaded == \A p \in Registered : state[p] = "LOADED" =>
    \A d \in deps[p] : state[d] = "LOADED" \/ Below(deps, p) \cap relapsed # {}
===============================================================================
