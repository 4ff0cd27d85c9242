-------------------------------- MODULE Txn ---------------------------------
(***************************************************************************)
(* tasks/task_038: TransactionManager.  Every method holds the manager's   *)
(* lock from end to end, so each is one step, and the threads that call    *)
(* the methods interleave between them.                                    *)
(*                                                                         *)
(* A version is known by the transaction that wrote it.  seen and ranges   *)
(* record what the reads and the scans of a transaction returned; the code *)
(* has no such variables and no action looks at them.                      *)
(***************************************************************************)
EXTENDS Integers, FiniteSets, SequencesExt, FiniteSetsExt, Functions

CONSTANTS Keys, Values,
          None,      \* None: no value, and the value of a delete
          Levels,    \* the isolation levels the callers ask for
          MaxTxns    \* bound: transactions begun

ASSUME TxnAssumption ==
  /\ None \notin Values
  /\ Levels \subseteq {"READ_UNCOMMITTED", "READ_COMMITTED",
                       "REPEATABLE_READ", "SERIALIZABLE"}

VARIABLES clock,      \* _timestamp_counter
          txns,       \* the transactions, txn_id is the position
          versions,   \* _versions, a key never committed has no version
          seen, ranges

vars == <<clock, txns, versions, seen, ranges>>

\* _active_txns and _committed_txns; rolled back transactions are in neither.
Active == {t \in DOMAIN txns : txns[t].state = "active"}
Committed == {t \in DOMAIN txns : txns[t].state = "committed"}

Init == /\ clock = 0
        /\ txns = <<>>
        /\ versions = [k \in Keys |-> <<>>]
        /\ seen = <<>>
        /\ ranges = <<>>

\* begin: the snapshot timestamp is the start timestamp.
BeginTxn(level) ==
  /\ Len(txns) < MaxTxns
  /\ clock' = clock + 1
  /\ txns' = Append(txns, [isolation |-> level, state |-> "active",
                           start |-> clock + 1, commit |-> 0,
                           reads |-> {}, writes |-> [k \in {} |-> None]])
  /\ seen' = Append(seen, {})
  /\ ranges' = Append(ranges, {})
  /\ UNCHANGED versions

\* Mutant: the snapshot is not consulted.
InViewLatest(v, t) == v.txn \in Committed \cup {t}

\* The versions a transaction may see, by its isolation level.
InView(v, t) ==
  \/ txns[t].isolation = "READ_UNCOMMITTED"
  \/ v.txn = t
  \/ /\ v.txn \in Committed
     /\ txns[t].isolation = "REPEATABLE_READ" =>
          txns[v.txn].commit <= txns[t].start

\* _visible_version: the last of them in the chain.
Visible(k, t) ==
  LET shown == {i \in DOMAIN versions[k] : InView(versions[k][i], t)}
  IN  IF shown = {} THEN [txn |-> 0, timestamp |-> 0, value |-> None]
                    ELSE versions[k][Max(shown)]

\* read: the key joins the read set, the transaction's own write comes first.
Read(t, k) ==
  /\ t \in Active
  /\ txns' = [txns EXCEPT ![t].reads = @ \cup {k}]
  /\ seen' = IF k \in DOMAIN txns[t].writes THEN seen
             ELSE [seen EXCEPT ![t] =
                     @ \cup {[key |-> k, txn |-> Visible(k, t).txn]}]
  /\ UNCHANGED <<clock, versions, ranges>>

\* The conflict write looks for: a version of an active transaction.
Conflict(t, k) ==
  /\ txns[t].isolation \in {"REPEATABLE_READ", "SERIALIZABLE"}
  /\ \E i \in DOMAIN versions[k] :
       /\ versions[k][i].txn \in Active \ {t}
       /\ versions[k][i].timestamp > txns[t].start

\* write raises on a conflict and changes nothing; delete never looks.
Write(t, k, value) ==
  /\ t \in Active
  /\ value # None => ~Conflict(t, k)
  /\ txns' = [txns EXCEPT ![t].writes =
                [x \in DOMAIN @ \cup {k} |-> IF x = k THEN value ELSE @[x]]]
  /\ UNCHANGED <<clock, versions, seen, ranges>>

\* The value of k for t, and the keys that have one.
ValueOf(t, k) == IF k \in DOMAIN txns[t].writes THEN txns[t].writes[k]
                                                ELSE Visible(k, t).value
Found(t) == {k \in Keys : ValueOf(t, k) # None}

\* Only the keys a scan returns join the read set.
ScanReads(t) == Found(t)

\* scan, of all keys.
Scan(t) ==
  /\ t \in Active
  /\ txns' = [txns EXCEPT ![t].reads = @ \cup ScanReads(t)]
  /\ seen' = [seen EXCEPT ![t] = @ \cup
       {[key |-> k, txn |-> Visible(k, t).txn] :
          k \in Found(t) \ DOMAIN txns[t].writes}]
  /\ ranges' = [ranges EXCEPT ![t] = @ \cup {Found(t) \ DOMAIN txns[t].writes}]
  /\ UNCHANGED <<clock, versions>>

\* Mutant: the committed transactions that started later, not that
\* committed later.
OverwrittenByLaterStart(t) ==
  \E u \in Committed : /\ txns[u].start > txns[t].start
                       /\ txns[t].reads \cap DOMAIN txns[u].writes # {}

\* What a serializable transaction is refused for.
Overwritten(t) ==
  \E u \in Committed : /\ txns[u].commit > txns[t].start
                       /\ txns[t].reads \cap DOMAIN txns[u].writes # {}

\* Mutant: the versions carry the time the transaction began.
InstallAtStart(t, now) ==
  [k \in Keys |-> IF k \notin DOMAIN txns[t].writes THEN versions[k]
     ELSE Append(versions[k], [txn |-> t, timestamp |-> txns[t].start,
                               value |-> txns[t].writes[k]])]

\* The chains with the write set of t at their ends.
Install(t, now) ==
  [k \in Keys |-> IF k \notin DOMAIN txns[t].writes THEN versions[k]
     ELSE Append(versions[k], [txn |-> t, timestamp |-> now,
                               value |-> txns[t].writes[k]])]

CommitTimestamp(t) == clock + 1

\* commit takes its timestamp before it knows whether it will succeed.
Commit(t) ==
  /\ t \in Active
  /\ clock' = CommitTimestamp(t)
  /\ IF txns[t].isolation = "SERIALIZABLE" /\ Overwritten(t)
       THEN /\ txns' = [txns EXCEPT ![t].state = "aborted"]
            /\ UNCHANGED versions
       ELSE /\ txns' = [txns EXCEPT ![t].state = "committed",
                                    ![t].commit = clock']
            /\ versions' = Install(t, clock')
  /\ UNCHANGED <<seen, ranges>>

Rollback(t) ==
  /\ t \in Active
  /\ txns' = [txns EXCEPT ![t].state = "aborted"]
  /\ UNCHANGED <<clock, versions, seen, ranges>>

Next == \/ \E level \in Levels : BeginTxn(level)
        \/ \E t \in DOMAIN txns :
             \/ \E k \in Keys : \/ Read(t, k)
                                \/ \E value \in Values \cup {None} :
                                     Write(t, k, value)
             \/ Scan(t) \/ Commit(t) \/ Rollback(t)

Spec == Init /\ [][Next]_vars
-----------------------------------------------------------------------------
TypeOK ==
  /\ clock \in Len(txns)..(2 * Len(txns))
  /\ \A t \in DOMAIN txns :
       /\ txns[t].state \in {"active", "committed", "aborted"}
       /\ txns[t].start \in 1..clock /\ txns[t].commit \in 0..clock
       /\ txns[t].reads \subseteq Keys
       /\ \E D \in SUBSET Keys : txns[t].writes \in [D -> Values \cup {None}]
  /\ \A k \in Keys : \A i \in DOMAIN versions[k] :
       versions[k][i].value \in Values \cup {None}

\* A chain holds the versions of committed transactions alone, in the order
\* they committed, so no isolation level can read what was never committed
\* and the last version of a chain is the committed state.
ChainsAreHistory == TypeOK /\
  \A k \in Keys :
    /\ \A i \in DOMAIN versions[k] :
         LET v == versions[k][i] IN
           v.txn \in Committed /\ v.timestamp = txns[v.txn].commit
    /\ \A i, j \in DOMAIN versions[k] :
         i < j => versions[k][i].timestamp < versions[k][j].timestamp

\* The last transaction to have committed a version of k by time now.
LastWriter(k, now) ==
  LET older == {t \in Committed : txns[t].commit <= now
                                  /\ k \in DOMAIN txns[t].writes}
  IN  IF older = {} THEN 0
      ELSE CHOOSE t \in older : \A u \in older : txns[u].commit <= txns[t].commit

\* Whatever commits in between, all that a REPEATABLE_READ transaction ever
\* reads, by key or by scan, is the state of the moment it began.
SnapshotReads ==
  \A t \in DOMAIN txns : txns[t].isolation = "REPEATABLE_READ" =>
    \A s \in seen[t] : s.txn = LastWriter(s.key, txns[t].start)

\* A SERIALIZABLE transaction that commits read, by key and among the rows
\* its scans returned, nothing but the state it commits on: running all of
\* it at its commit would have read the same.  If it wrote nothing, all its
\* scans found the same rows: a row that came or went between two of them is
\* in the read set through one of the two.
SerializableAtCommit ==
  \A t \in Committed : txns[t].isolation = "SERIALIZABLE" =>
    /\ \A s \in seen[t] : s.txn = LastWriter(s.key, txns[t].commit - 1)
    /\ DOMAIN txns[t].writes = {} => Cardinality(ranges[t]) <= 1
=============================================================================
