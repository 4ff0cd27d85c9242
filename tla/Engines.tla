-------------------------------- MODULE Engines --------------------------------
(***************************************************************************)
(* The tasks that run, read or recompute something step by step and can be *)
(* proved about, side by side: the stack machine, the tokenizer, the       *)
(* reactive nodes, the plugin loader and the hash ring.  They share no     *)
(* state: each behaviour exercises one of them, chosen by `which`, and the *)
(* others stay as they are.                                                *)
(***************************************************************************)
EXTENDS Integers, Sequences

CONSTANTS Codes, StackSize, MaxFrames, MaxValue,             \* Vm
          Programs,                                          \* Lexer
          Signals, Values, Order, Formula, Coarse, Fragile,  \* Reactive
          PluginNames, Rank, MaxLoads,                       \* Plugins
          Members, Virtual, Hashes, HashFunctions, MaxPoints \* Ring

VARIABLES which,
          code, stack, sp, bp, ip, globals, frames, status, reached,  \* Vm
          source, at, line, column, toks, ended,                      \* Lexer
          graph, work, made, broken,                                  \* Reactive
          state, deps, loads, relapsed,                               \* Plugins
          hash, ring, sorted, members                                 \* Ring

Machine == INSTANCE Vm
Tokenizer == INSTANCE Lexer
Nodes == INSTANCE Reactive
Loader == INSTANCE Plugins
HashRing == INSTANCE Ring

\* A node is made after those its function reads; a ring has points.
ASSUME EnginesAssumption ==
    /\ StackSize \in Nat /\ MaxValue \in Nat /\ Codes \subseteq Seq(Int)
    /\ Programs \subseteq Seq(Tokenizer!Characters)
    /\ Values \in Nat \ {0} /\ Order \in Seq(Nodes!Computeds)
    /\ \A i \in 1 .. Len(Order) :
         /\ Order[i] \notin Signals /\ \A j \in 1 .. i - 1 : Order[j] # Order[i]
         /\ {Formula[Order[i]].test, Formula[Order[i]].zero, Formula[Order[i]].other}
              \subseteq Signals \union {Order[j] : j \in 1 .. i - 1}
         /\ Formula[Order[i]].add \in Int
    /\ Virtual \in Nat \ {0} /\ Hashes \in Nat
    /\ HashFunctions \subseteq [Members -> [1 .. Virtual -> HashRing!Points]]

machineVars == <<code, stack, sp, bp, ip, globals, frames, status, reached>>
tokenizerVars == <<source, at, line, column, toks, ended>>
nodesVars == <<graph, work, made, broken>>
loaderVars == <<state, deps, loads, relapsed>>
ringVars == <<hash, ring, sorted, members>>
vars == <<which, machineVars, tokenizerVars, nodesVars, loaderVars, ringVars>>

\* A component that may start in several states does so in its own behaviours.
Init == /\ Nodes!Init /\ Loader!Init
        /\ \/ which = "machine" /\ Machine!Init
           \/ /\ which # "machine" /\ code = 0 /\ stack = 0 /\ sp = 0 /\ bp = 0 /\ ip = 0 /\ globals = 0
              /\ frames = 0 /\ status = 0 /\ reached = 0
        /\ \/ which = "tokenizer" /\ Tokenizer!Init
           \/ which # "tokenizer" /\ source = 0 /\ at = 0 /\ line = 0 /\ column = 0 /\ toks = 0 /\ ended = 0
        /\ \/ which = "ring" /\ HashRing!Init
           \/ which # "ring" /\ hash = 0 /\ ring = 0 /\ sorted = 0 /\ members = 0

Next == /\ UNCHANGED which
        /\ IF which = "machine" THEN Machine!Next ELSE UNCHANGED machineVars
        /\ IF which = "tokenizer" THEN Tokenizer!Next ELSE UNCHANGED tokenizerVars
        /\ IF which = "nodes" THEN Nodes!Next ELSE UNCHANGED nodesVars
        /\ IF which = "loader" THEN Loader!Next ELSE UNCHANGED loaderVars
        /\ IF which = "ring" THEN HashRing!Next ELSE UNCHANGED ringVars

Spec == Init /\ [][Next]_vars

\* Stack machine (task 037): no call disturbs the stack of its callers.
CallersKeepTheirStack == which = "machine" => Machine!CallersKeepTheirStack

\* Lexer (task 036): tokens tile the source at their true lines and columns.
TextIsAccountedFor == which = "tokenizer" => Tokenizer!PositionsAreTrue /\ Tokenizer!TokensTile

\* Signals and plugins (tasks 044, 024): a node is up to date with what it reads and
\* subscribed to exactly that; a plugin is loaded only while all it depends on is,
\* unless an init_func below it raised after it had succeeded once.
DependenciesHold == Nodes!Settled /\ Nodes!EdgesAgree /\ Loader!LoadedOnLoaded

\* Hash ring (task 031): every key has a node, and a node that joins or leaves moves
\* its own keys only.
KeysStayHome == /\ [](which = "ring" => HashRing!KeysHaveNodes)
                /\ [][which = "ring" => HashRing!OnlyItsKeysMove]_ringVars
===============================================================================
