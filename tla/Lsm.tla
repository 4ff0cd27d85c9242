-------------------------------- MODULE Lsm ---------------------------------
(***************************************************************************)
(* tasks/task_045: LSMTree.  A write goes to the memtable, a full memtable *)
(* becomes a table of the first level, and a level with too many tables is *)
(* merged into the next one, which may be too much for that one in turn:   *)
(* all of it inside the call that wrote.                                   *)
(*                                                                         *)
(* A table is a function from its keys to entries.  Entries are told apart *)
(* by their sequence numbers, so they need no values.  truth is the last   *)
(* write of each key; the code has no such variable.                       *)
(***************************************************************************)
EXTENDS Integers, SequencesExt, FiniteSetsExt, Lists

CONSTANTS NKeys,         \* the keys, in their order, are 1..NKeys
          MemtableSize, MaxLevels, LevelRatio,
          MaxWrites      \* bound: calls of put and delete

\* What the constants must satisfy.
LsmAssumption ==
  /\ NKeys \in Nat \ {0} /\ MemtableSize \in Nat \ {0}
  /\ MaxLevels \in Nat \ {0} /\ LevelRatio \in Nat \ {0}
  /\ MaxWrites \in Nat

VARIABLES sequence, memtable,
          levels,    \* levels[1] is level 0; newer tables come later
          truth

vars == <<sequence, memtable, levels, truth>>

TableKeys == 1..NKeys
Empty == [k \in {} |-> 0]
NoEntry == [seq |-> 0, tombstone |-> TRUE]
Level == 1..MaxLevels

\* _level_max_tables: LevelRatio to the n.
MaxTables[n \in 0..MaxLevels] == IF n = 0 THEN 1 ELSE LevelRatio * MaxTables[n - 1]

Init == /\ sequence = 0
        /\ memtable = Empty
        /\ levels = [n \in Level |-> <<>>]
        /\ truth = [k \in TableKeys |-> NoEntry]
-----------------------------------------------------------------------------
\* SSTable.overlaps: by their ranges of keys.
Overlaps(s, t) ==
  /\ DOMAIN s # {} /\ DOMAIN t # {}
  /\ Max(DOMAIN s) >= Min(DOMAIN t) /\ Min(DOMAIN s) <= Max(DOMAIN t)

\* The newest entry of k in a set of tables that has one.
Newest(tables, k) ==
  LET entries == {t[k] : t \in {u \in tables : k \in DOMAIN u}}
  IN  CHOOSE e \in entries : \A f \in entries : f.seq <= e.seq

KeysOf(tables) == UNION {DOMAIN t : t \in tables}

\* Mutant: the comparison of sequence numbers is the wrong way round.
MergeOldest(tables) ==
  LET oldest(k) == CHOOSE e \in {t[k] : t \in {u \in tables : k \in DOMAIN u}} :
                     \A t \in tables : k \in DOMAIN t => e.seq <= t[k].seq
  IN  [k \in {k \in KeysOf(tables) : ~oldest(k).tombstone} |-> oldest(k)]

\* merge_sstables: the newest entries, the tombstones left out.
Merge(tables) ==
  [k \in {k \in KeysOf(tables) : ~Newest(tables, k).tombstone} |->
     Newest(tables, k)]

\* _compact without its last two lines: all of level n and what overlaps it
\* in the next level become one table there, unless nothing is left of them.
CompactLevel(lv, n) ==
  LET sources == ToSet(lv[n])
      met == {t \in ToSet(lv[n + 1]) : \E s \in sources : Overlaps(s, t)}
      merged == Merge(sources \cup met)
      remaining == Without(lv[n + 1], met)
  IN  [lv EXCEPT ![n] = <<>>,
         ![n + 1] = IF merged = Empty THEN remaining
                                      ELSE Append(remaining, merged)]

\* _compact: on to the next level as long as that one has become too long.
\* at[m] is where level m has been reached, and whether it is compacted too.
Compact(lv, n) ==
  LET at[m \in n..MaxLevels] ==
        IF m = n THEN [levels |-> lv, go |-> lv[n] # <<>>]
        ELSE IF at[m - 1].go
          THEN LET new == CompactLevel(at[m - 1].levels, m - 1)
               IN  [levels |-> new, go |-> Len(new[m]) > MaxTables[m]]
          ELSE at[m - 1]
  IN  at[MaxLevels].levels

\* _flush_memtable
Flush(lv, table) ==
  LET new == [lv EXCEPT ![1] = Append(@, table)]
  IN  IF Len(new[1]) > MaxTables[1] THEN Compact(new, 1) ELSE new

\* put and delete: the memtable is flushed by the write that fills it.
Write(k, tombstone) ==
  /\ sequence < MaxWrites
  /\ sequence' = sequence + 1
  /\ LET entry == [seq |-> sequence', tombstone |-> tombstone]
         table == [x \in DOMAIN memtable \cup {k} |->
                     IF x = k THEN entry ELSE memtable[x]]
         full == Cardinality(DOMAIN table) >= MemtableSize
     IN  /\ memtable' = IF full THEN Empty ELSE table
         /\ levels' = IF full THEN Flush(levels, table) ELSE levels
         /\ truth' = [truth EXCEPT ![k] = entry]

ForceFlush ==
  /\ memtable # Empty
  /\ memtable' = Empty
  /\ levels' = Flush(levels, memtable)
  /\ UNCHANGED <<sequence, truth>>

ForceCompact(n) ==
  /\ levels' = Compact(levels, n)
  /\ UNCHANGED <<sequence, memtable, truth>>

Next == \/ \E k \in TableKeys, tombstone \in BOOLEAN : Write(k, tombstone)
        \/ ForceFlush
        \/ \E n \in Level : ForceCompact(n)

Spec == Init /\ [][Next]_vars
-----------------------------------------------------------------------------
\* get: the memtable, then the first level that has the key, and in it the last
\* table that does.
Having(n, k) == {i \in DOMAIN levels[n] : k \in DOMAIN levels[n][i]}
Get(k) ==
  LET found == {n \in Level : Having(n, k) # {}}
  IN  IF k \in DOMAIN memtable THEN memtable[k]
      ELSE IF found = {} THEN NoEntry
      ELSE levels[Min(found)][Max(Having(Min(found), k))][k]

\* scan: the entry with the highest sequence number.
AllTables == {memtable} \cup UNION {ToSet(levels[n]) : n \in Level}
Scan(k) == IF k \in KeysOf(AllTables) THEN Newest(AllTables, k) ELSE NoEntry

Entries == [seq : Nat \ {0}, tombstone : BOOLEAN]
IsTable(t) == DOMAIN t \subseteq TableKeys /\ \A k \in DOMAIN t : t[k] \in Entries

\* Types; and the levels above the last are within their limits after every
\* call, cascades included.
TypeOK ==
  /\ sequence \in 0..MaxWrites
  /\ IsTable(memtable) /\ Cardinality(DOMAIN memtable) < MemtableSize
  /\ DOMAIN levels = Level
  /\ \A n \in Level : /\ \A i \in DOMAIN levels[n] : IsTable(levels[n][i])
                      /\ n < MaxLevels => Len(levels[n]) <= MaxTables[n]

\* get looks for the newest table by its place and scan for the newest entry
\* by its number: through all compactions they find the same entry.
ReadsAgree == \A k \in TableKeys : Get(k) = Scan(k)

\* A key whose last write is a put is found, with that write: compaction
\* brings back deleted keys (description.md), and never an older put.
LiveKeysKept == \A k \in TableKeys : ~truth[k].tombstone => Get(k) = truth[k]
=============================================================================
