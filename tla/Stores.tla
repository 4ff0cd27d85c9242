-------------------------------- MODULE Stores --------------------------------
(***************************************************************************)
(* The tasks that store data and can be proved about, side by side: the    *)
(* write-ahead log under its own names, the LSM tree, the replicated types *)
(* and the garbage collector.  They share no state: each behaviour         *)
(* exercises one of them, chosen by `which`, and the others stay in their  *)
(* initial states.                                                         *)
(***************************************************************************)
EXTENDS Wal

CONSTANTS NKeys, MemtableSize, MaxLevels, LevelRatio, MaxWrites, \* Lsm
          Replicas, Elements, MaxCalls, MaxTime,                 \* Crdt
          Names, HeapSize, Threshold, MaxObjects, MaxRefs        \* Gc

VARIABLES which,
          sequence, memtable, levels, truth,                     \* Lsm
          kind, store, seen, calls,                              \* Crdt
          refs, names, roots, sinceGc, allocated, freed, dropped  \* Gc

Tables == INSTANCE Lsm
Replicated == INSTANCE Crdt
Collector == INSTANCE Gc

ASSUME StoresAssumption == Tables!LsmAssumption /\ MaxTime \in Nat

tableVars == <<sequence, memtable, levels, truth>>
replicatedVars == <<kind, store, seen, calls>>
collectorVars == <<refs, names, roots, sinceGc, allocated, freed, dropped>>
storeVars == <<which, vars, tableVars, replicatedVars, collectorVars>>

\* The kind of object is chosen in the behaviours of the replicated types only.
StoresInit == /\ Init /\ Tables!Init /\ Collector!Init
              /\ \/ which = "replicated" /\ Replicated!Init
                 \/ which # "replicated" /\ kind = 0 /\ store = 0 /\ seen = 0 /\ calls = 0

StoresNext == /\ UNCHANGED which
              /\ IF which = "journal" THEN Next ELSE UNCHANGED vars
              /\ IF which = "tables" THEN Tables!Next ELSE UNCHANGED tableVars
              /\ IF which = "replicated" THEN Replicated!Next ELSE UNCHANGED replicatedVars
              /\ IF which = "collector" THEN Collector!Next ELSE UNCHANGED collectorVars

StoresSpec == StoresInit /\ [][StoresNext]_storeVars

\* LSM tree (task 045): through flushes and compactions get and scan find the same
\* entry, and that of the last put where it was not deleted since.
TablesKeepLiveKeys == Tables!TypeOK /\ Tables!ReadsAgree /\ Tables!LiveKeysKept

\* Replicated types (task 043): what a replica shows was called for by what reached it,
\* by whatever path, in whatever order and how often it did: sets and registers are what
\* those calls say, counters no more than was counted.
ReplicasReflectCalls == which = "replicated" =>
    /\ Replicated!SetsReflectCalls /\ Replicated!LatestWriteWins
    /\ Replicated!NeverOvercounts /\ Replicated!Converges

\* Collector (task 040): what a variable holds is not collected, and every object is
\* accounted for.
VariablesSurvive == Collector!VariablesSurvive
===============================================================================
