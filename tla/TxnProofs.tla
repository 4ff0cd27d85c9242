------------------------------ MODULE TxnProofs ------------------------------
(***************************************************************************)
(* Proofs about Txn, for any keys, values and number of transactions, and  *)
(* any mixture of isolation levels.                                        *)
(***************************************************************************)
EXTENDS Txn, NumberProofs, FiniteSetTheorems, SequenceTheorems, TLAPS

WriteSets == UNION {[D -> Values \cup {None}] : D \in SUBSET Keys}
Records == [isolation : Levels, state : {"active", "committed", "aborted"},
            start : Nat, commit : Nat, reads : SUBSET Keys, writes : WriteSets]
Versions == [txn : Nat, timestamp : Nat, value : Values \cup {None}]
ReadsOf == [key : Keys, txn : Nat]

Types ==
  /\ clock \in Nat
  /\ txns \in Seq(Records)
  /\ versions \in [Keys -> Seq(Versions)]
  /\ seen \in Seq(SUBSET ReadsOf) /\ Len(seen) = Len(txns)

\* Time stamps come from the clock, which ticks at a begin and at a commit; no
\* two transactions commit at the same time.
Times ==
  /\ clock >= Len(txns) /\ clock + Cardinality(Active) <= 2 * Len(txns)
  /\ \A t \in DOMAIN txns : txns[t].start \in 1..clock /\ txns[t].commit \in 0..clock
  /\ \A t, u \in Committed : txns[t].commit = txns[u].commit => t = u

\* The chains hold the committed writes, each once, by commit time.
Chains ==
  \A k \in Keys :
    /\ \A i \in DOMAIN versions[k] :
         LET v == versions[k][i] IN
           /\ v.txn \in Committed /\ v.timestamp = txns[v.txn].commit
           /\ k \in DOMAIN txns[v.txn].writes
    /\ \A i, j \in DOMAIN versions[k] :
         i < j => versions[k][i].timestamp < versions[k][j].timestamp
    /\ \A t \in Committed : k \in DOMAIN txns[t].writes =>
         \E i \in DOMAIN versions[k] : versions[k][i].txn = t

\* The committed writers of k up to time now, and the last of them.
Older(k, now) == {t \in Committed : txns[t].commit <= now
                                    /\ k \in DOMAIN txns[t].writes}
IsLastWriter(w, k, now) ==
  IF Older(k, now) = {} THEN w = 0
  ELSE w \in Older(k, now) /\ \A u \in Older(k, now) : txns[u].commit <= txns[w].commit

\* Reads of a snapshot are those of its beginning.
SnapshotSeen ==
  \A t \in DOMAIN txns : txns[t].isolation = "REPEATABLE_READ" =>
    \A s \in seen[t] : IsLastWriter(s.txn, s.key, txns[t].start)

IInv == Types /\ Times /\ Chains /\ SnapshotSeen
-----------------------------------------------------------------------------
LEMMA TxnsAreFinite ==
  ASSUME Types
  PROVE  /\ Len(txns) \in Nat /\ DOMAIN txns = 1..Len(txns) /\ DOMAIN seen = DOMAIN txns
         /\ \A t \in DOMAIN txns : txns[t] \in Records /\ seen[t] \in SUBSET ReadsOf
         /\ IsFiniteSet(Active) /\ Cardinality(Active) \in Nat
<1>1. /\ Len(txns) \in Nat /\ DOMAIN txns = 1..Len(txns) /\ DOMAIN seen = 1..Len(seen)
      /\ Len(seen) = Len(txns)
  BY LenProperties DEF Types
<1>2. \A t \in DOMAIN txns : txns[t] \in Records /\ seen[t] \in SUBSET ReadsOf
  BY <1>1, ElementOfSeq DEF Types
<1>3. IsFiniteSet(Active)
  <2>1. IsFiniteSet(1..Len(txns)) /\ Active \subseteq 1..Len(txns)
    BY <1>1, FS_Interval DEF Active
  <2>2. QED
    BY <2>1, FS_Subset
<1>4. QED
  BY <1>1, <1>2, <1>3, FS_CardinalityType

\* The value of the CHOOSE in LastWriter.
LEMMA LastWriterIs ==
  ASSUME Types, Times, NEW k, NEW now, NEW w, IsLastWriter(w, k, now)
  PROVE  w = LastWriter(k, now)
<1> DEFINE older == Older(k, now)
<1>1. CASE older = {}
  BY <1>1 DEF IsLastWriter, LastWriter, Older
<1>2. CASE older # {}
  <2>1. w \in older /\ \A u \in older : txns[u].commit <= txns[w].commit
    BY <1>2 DEF IsLastWriter
  <2>2. \A x \in older : txns[x].commit \in Nat
    BY TxnsAreFinite DEF Older, Committed, Records
  <2>3. \A x \in older : (\A u \in older : txns[u].commit <= txns[x].commit) => x = w
    <3>1. SUFFICES ASSUME NEW x \in older, \A u \in older : txns[u].commit <= txns[x].commit
                   PROVE  x = w
      OBVIOUS
    <3>2. txns[x].commit = txns[w].commit
      BY <2>1, <2>2, <3>1
    <3>3. QED
      BY <2>1, <3>1, <3>2 DEF Times, Older
  <2>4. (CHOOSE t \in older : \A u \in older : txns[u].commit <= txns[t].commit) = w
    BY <2>1, <2>3
  <2>5. QED
    BY <1>2, <2>4 DEF LastWriter, Older
<1>3. QED
  BY <1>1, <1>2

\* The last version up to a time is by the last writer up to that time.
LEMMA LastVersion ==
  ASSUME Types, Times, Chains, NEW k \in Keys, NEW now \in Nat, NEW shown,
         shown = {i \in DOMAIN versions[k] : txns[versions[k][i].txn].commit <= now}
  PROVE  /\ shown = {} => IsLastWriter(0, k, now)
         /\ shown # {} => /\ Max(shown) \in shown
                          /\ \A i \in shown : i <= Max(shown)
                          /\ IsLastWriter(versions[k][Max(shown)].txn, k, now)
<1>1. versions[k] \in Seq(Versions) /\ Len(versions[k]) \in Nat
      /\ DOMAIN versions[k] = 1..Len(versions[k])
  BY LenProperties DEF Types
<1>2. \A i \in DOMAIN versions[k] : /\ versions[k][i].txn \in Committed
                                    /\ versions[k][i].timestamp = txns[versions[k][i].txn].commit
                                    /\ k \in DOMAIN txns[versions[k][i].txn].writes
                                    /\ versions[k][i].timestamp \in Nat
  <2> TAKE i \in DOMAIN versions[k]
  <2>1. versions[k][i] \in Versions
    BY <1>1, ElementOfSeq
  <2>2. QED
    BY <2>1 DEF Chains, Versions
<1>3. \A u \in Older(k, now) : \E i \in shown : versions[k][i].txn = u
  BY DEF Chains, Older
<1>4. ASSUME shown = {} PROVE IsLastWriter(0, k, now)
  BY <1>3, <1>4 DEF IsLastWriter
<1>5. ASSUME shown # {}
      PROVE  /\ Max(shown) \in shown
             /\ \A i \in shown : i <= Max(shown)
             /\ IsLastWriter(versions[k][Max(shown)].txn, k, now)
  <2> DEFINE m == Max(shown)
             w == versions[k][m].txn
  <2>1. m \in shown /\ \A i \in shown : i <= m
    <3>1. shown \in SUBSET (0 .. Len(versions[k]))
      BY <1>1
    <3>2. QED
      BY <1>1, <1>5, <3>1, MaxProperty
  <2> HIDE DEF m
  <2>2. w \in Older(k, now)
    BY <1>2, <2>1 DEF Older
  <2>3. ASSUME NEW u \in Older(k, now) PROVE txns[u].commit <= txns[w].commit
    <3>1. PICK i \in shown : versions[k][i].txn = u
      BY <1>3, <2>3
    <3>2. i = m \/ versions[k][i].timestamp < versions[k][m].timestamp
      BY <1>1, <2>1, <3>1 DEF Chains
    <3>3. QED
      BY <1>2, <2>1, <3>1, <3>2
  <2>4. IsLastWriter(w, k, now)
    BY <2>2, <2>3 DEF IsLastWriter
  <2>5. QED
    BY <2>1, <2>4 DEF m
<1>6. QED
  BY <1>4, <1>5

\* What a transaction may see.
LEMMA VisibleIs ==
  ASSUME IInv, NEW t \in Active, NEW k \in Keys
  PROVE  /\ Visible(k, t).txn \in Nat
         /\ txns[t].isolation = "REPEATABLE_READ" =>
              IsLastWriter(Visible(k, t).txn, k, txns[t].start)
<1> USE DEF IInv
<1> DEFINE shown == {i \in DOMAIN versions[k] : InView(versions[k][i], t)}
<1>1. versions[k] \in Seq(Versions) /\ Len(versions[k]) \in Nat
      /\ DOMAIN versions[k] = 1..Len(versions[k])
  BY LenProperties DEF Types
<1>2. Visible(k, t) = IF shown = {} THEN [txn |-> 0, timestamp |-> 0, value |-> None]
                      ELSE versions[k][Max(shown)]
  BY DEF Visible
<1>3. Visible(k, t).txn \in Nat
  <2>1. CASE shown = {}
    BY <1>2, <2>1
  <2>2. CASE shown # {}
    <3>1. Max(shown) \in shown
      <4>1. shown \in SUBSET (0 .. Len(versions[k]))
        BY <1>1
      <4> HIDE DEF shown
      <4>2. QED
        BY <1>1, <2>2, <4>1, MaxProperty
    <3>2. versions[k][Max(shown)] \in Versions
      BY <1>1, <3>1, ElementOfSeq
    <3>3. QED
      BY <1>2, <2>2, <3>2 DEF Versions
  <2>3. QED
    BY <2>1, <2>2
<1>4. ASSUME txns[t].isolation = "REPEATABLE_READ"
      PROVE  IsLastWriter(Visible(k, t).txn, k, txns[t].start)
  <2>1. t \notin Committed
    BY DEF Active, Committed
  <2>2. \A i \in DOMAIN versions[k] : versions[k][i].txn \in Committed
    BY DEF Chains
  <2>3. shown = {i \in DOMAIN versions[k] :
                   txns[versions[k][i].txn].commit <= txns[t].start}
    BY <1>4, <2>1, <2>2 DEF InView
  <2>4. txns[t].start \in Nat
    BY TxnsAreFinite DEF Records, Active
  <2> HIDE DEF shown
  <2>5. /\ shown = {} => IsLastWriter(0, k, txns[t].start)
        /\ shown # {} => IsLastWriter(versions[k][Max(shown)].txn, k, txns[t].start)
    BY <2>3, <2>4, LastVersion
  <2>6. CASE shown = {}
    BY <1>2, <2>5, <2>6
  <2>7. CASE shown # {}
    BY <1>2, <2>5, <2>7
  <2>8. QED
    BY <2>6, <2>7
<1>5. QED
  BY <1>3, <1>4

\* A call that changes the reads, the writes or, to aborted, the state of one
\* active transaction disturbs neither times nor chains nor last writers.
LEMMA QuietStep ==
  ASSUME IInv, NEW t \in Active, NEW rec \in Records,
         txns' = [txns EXCEPT ![t] = rec], rec.state # "committed",
         rec.start = txns[t].start, rec.commit = txns[t].commit,
         rec.isolation = txns[t].isolation, UNCHANGED versions,
         clock' = clock \/ (clock' = clock + 1 /\ rec.state = "aborted")
  PROVE  /\ txns' \in Seq(Records) /\ Len(txns') = Len(txns) /\ DOMAIN txns' = DOMAIN txns
         /\ Times' /\ Chains'
         /\ \A u \in DOMAIN txns : /\ txns'[u].isolation = txns[u].isolation
                                   /\ txns'[u].start = txns[u].start
         /\ \A w, k, now : IsLastWriter(w, k, now) => IsLastWriter(w, k, now)'
<1> USE DEF IInv
<1>1. t \in DOMAIN txns /\ t \notin Committed
  BY DEF Active, Committed
<1>2. /\ txns' \in Seq(Records) /\ Len(txns') = Len(txns) /\ DOMAIN txns' = DOMAIN txns
      /\ txns'[t] = rec /\ \A u \in DOMAIN txns : u # t => txns'[u] = txns[u]
  BY <1>1, ExceptSeq DEF Types
<1>3. Committed' = Committed /\ \A u \in Committed : txns'[u] = txns[u]
  BY <1>1, <1>2 DEF Committed
<1>4. Active' = IF rec.state = "aborted" THEN Active \ {t} ELSE Active
  BY <1>2 DEF Active, Records
<1>5. clock' + Cardinality(Active') <= clock + Cardinality(Active)
  <2>1. CASE rec.state = "aborted"
    <3>1. Cardinality(Active') = Cardinality(Active) - 1
      BY <1>4, <2>1, TxnsAreFinite, FS_RemoveElement
    <3>2. QED
      BY <3>1, TxnsAreFinite DEF Types
  <2>2. CASE rec.state # "aborted"
    BY <1>4, <2>2, TxnsAreFinite DEF Types
  <2>3. QED
    BY <2>1, <2>2
<1>6. \A u \in DOMAIN txns : /\ txns'[u].isolation = txns[u].isolation
                             /\ txns'[u].start = txns[u].start
                             /\ txns'[u].commit = txns[u].commit
  BY <1>1, <1>2
<1>7. Times'
  <2>1. (clock >= Len(txns) /\ clock + Cardinality(Active) <= 2 * Len(txns))'
    <3>1. clock' >= clock /\ clock' \in Nat /\ Cardinality(Active) \in Nat
          /\ Len(txns) \in Nat /\ clock \in Nat
      BY TxnsAreFinite DEF Types
    <3>2. Cardinality(Active') \in Nat
      BY <1>4, TxnsAreFinite, FS_Subset, FS_CardinalityType
    <3>3. QED
      BY <1>2, <1>5, <3>1, <3>2 DEF Times
  <2>2. clock \in Nat /\ clock' >= clock /\ clock' \in Nat
        /\ \A u \in DOMAIN txns : txns[u].start \in Nat /\ txns[u].commit \in Nat
    BY TxnsAreFinite DEF Types, Records
  <2>3. \A u \in DOMAIN txns : txns'[u].start \in 1..clock' /\ txns'[u].commit \in 0..clock'
    BY <1>6, <2>2 DEF Times
  <2>4. QED
    BY <2>1, <2>3, <1>2, <1>3, <1>6 DEF Times
<1>8. Chains'
  BY <1>3 DEF Chains
<1>9. \A k, now : Older(k, now)' = Older(k, now)
  BY <1>3 DEF Older
<1>10. \A w, k, now : IsLastWriter(w, k, now) => IsLastWriter(w, k, now)'
  <2> TAKE w, k, now
  <2>1. Older(k, now)' = Older(k, now) /\ Older(k, now) \subseteq Committed
    BY <1>9 DEF Older
  <2>2. QED
    BY <2>1, <1>3 DEF IsLastWriter
<1>11. QED
  BY <1>2, <1>6, <1>7, <1>8, <1>10

\* A call that records the reads R of t in it.
LEMMA SeenStep ==
  ASSUME IInv, NEW t \in Active, NEW R \in SUBSET ReadsOf,
         \A s \in R : txns[t].isolation = "REPEATABLE_READ" =>
                        IsLastWriter(s.txn, s.key, txns[t].start),
         seen' = [seen EXCEPT ![t] = @ \cup R],
         UNCHANGED <<clock, versions>>,
         txns' \in Seq(Records), Len(txns') = Len(txns), DOMAIN txns' = DOMAIN txns,
         \A u \in DOMAIN txns : /\ txns'[u].isolation = txns[u].isolation
                                /\ txns'[u].start = txns[u].start,
         \A w, k, now : IsLastWriter(w, k, now) => IsLastWriter(w, k, now)'
  PROVE  Types' /\ SnapshotSeen'
<1> USE DEF IInv
<1>1. t \in DOMAIN txns /\ t \in DOMAIN seen /\ DOMAIN seen = DOMAIN txns
      /\ seen[t] \in SUBSET ReadsOf /\ seen \in Seq(SUBSET ReadsOf)
  BY TxnsAreFinite DEF Active, Types
<1>2. /\ seen' \in Seq(SUBSET ReadsOf) /\ Len(seen') = Len(seen)
      /\ seen'[t] = seen[t] \cup R /\ \A u \in DOMAIN txns : u # t => seen'[u] = seen[u]
  BY <1>1, ExceptSeq
<1>3. Types'
  BY <1>2 DEF Types
<1>4. SnapshotSeen'
  <2>1. SUFFICES ASSUME NEW u \in DOMAIN txns, txns[u].isolation = "REPEATABLE_READ",
                        NEW s \in seen'[u]
                 PROVE  IsLastWriter(s.txn, s.key, txns[u].start)'
    BY DEF SnapshotSeen
  <2>2. IsLastWriter(s.txn, s.key, txns[u].start)
    BY <1>2, <2>1 DEF SnapshotSeen
  <2>3. QED
    BY <2>1, <2>2
<1>5. QED
  BY <1>3, <1>4

\* The record of t after a call that adds to its reads or changes its writes.
LEMMA RecordsKept ==
  ASSUME Types, NEW t \in Active
  PROVE  /\ txns[t] \in Records /\ txns[t].state = "active"
         /\ \A K \in SUBSET Keys : [txns[t] EXCEPT !.reads = @ \cup K] \in Records
         /\ \A k \in Keys, value \in Values \cup {None} :
              [txns[t] EXCEPT !.writes = [x \in DOMAIN @ \cup {k} |->
                                            IF x = k THEN value ELSE @[x]]] \in Records
         /\ [txns[t] EXCEPT !.state = "aborted"] \in Records
<1>1. txns[t] \in Records /\ txns[t].state = "active"
  BY TxnsAreFinite DEF Active
<1>2. \A K \in SUBSET Keys : [txns[t] EXCEPT !.reads = @ \cup K] \in Records
  BY <1>1 DEF Records
<1>3. [txns[t] EXCEPT !.state = "aborted"] \in Records
  BY <1>1 DEF Records
<1>4. ASSUME NEW k \in Keys, NEW value \in Values \cup {None}
      PROVE  [txns[t] EXCEPT !.writes = [x \in DOMAIN @ \cup {k} |->
                                          IF x = k THEN value ELSE @[x]]] \in Records
  <2> DEFINE w == txns[t].writes
             new == [x \in DOMAIN w \cup {k} |-> IF x = k THEN value ELSE w[x]]
  <2>1. PICK D \in SUBSET Keys : w \in [D -> Values \cup {None}]
    BY <1>1 DEF Records, WriteSets
  <2>2. new \in [D \cup {k} -> Values \cup {None}] /\ D \cup {k} \in SUBSET Keys
    BY <2>1
  <2>3. new \in WriteSets
    BY <2>2 DEF WriteSets
  <2> HIDE DEF new
  <2>4. [txns[t] EXCEPT !.writes = new] \in Records
    BY <1>1, <2>3 DEF Records
  <2>5. QED
    BY <2>4 DEF new
<1>5. QED
  BY <1>1, <1>2, <1>3, <1>4

LEMMA ReadStep ==
  ASSUME IInv, NEW t, NEW k \in Keys, Read(t, k)
  PROVE  IInv'
<1> USE DEF IInv
<1> DEFINE rec == [txns[t] EXCEPT !.reads = @ \cup {k}]
           s == [key |-> k, txn |-> Visible(k, t).txn]
           R == IF k \in DOMAIN txns[t].writes THEN {} ELSE {s}
<1>1. t \in Active /\ txns' = [txns EXCEPT ![t] = rec] /\ UNCHANGED <<clock, versions>>
  BY DEF Read
<1>2. rec \in Records /\ rec.state = "active" /\ rec.start = txns[t].start
      /\ rec.commit = txns[t].commit /\ rec.isolation = txns[t].isolation
  BY <1>1, RecordsKept DEF Records
<1>3. R \in SUBSET ReadsOf
      /\ \A r \in R : txns[t].isolation = "REPEATABLE_READ" =>
                        IsLastWriter(r.txn, r.key, txns[t].start)
  BY <1>1, VisibleIs DEF ReadsOf
<1>4. seen' = [seen EXCEPT ![t] = @ \cup R]
  <2>1. t \in DOMAIN seen /\ seen \in Seq(SUBSET ReadsOf)
    BY <1>1, TxnsAreFinite DEF Active, Types
  <2>2. CASE k \in DOMAIN txns[t].writes
    <3>1. R = {} /\ seen' = seen
      BY <1>1, <2>2 DEF Read
    <3>2. [seen EXCEPT ![t] = @ \cup R] = seen
      BY <2>1, <3>1
    <3>3. QED
      BY <3>1, <3>2
  <2>3. CASE k \notin DOMAIN txns[t].writes
    BY <2>3 DEF Read
  <2>4. QED
    BY <2>2, <2>3
<1> HIDE DEF rec, R
<1>5. /\ txns' \in Seq(Records) /\ Len(txns') = Len(txns) /\ DOMAIN txns' = DOMAIN txns
      /\ Times' /\ Chains'
      /\ \A u \in DOMAIN txns : /\ txns'[u].isolation = txns[u].isolation
                                /\ txns'[u].start = txns[u].start
      /\ \A w, x, now : IsLastWriter(w, x, now) => IsLastWriter(w, x, now)'
  BY <1>1, <1>2, QuietStep
<1>6. Types' /\ SnapshotSeen'
  BY <1>1, <1>3, <1>4, <1>5, SeenStep
<1>7. QED
  BY <1>5, <1>6

LEMMA ScanStep ==
  ASSUME IInv, NEW t, Scan(t)
  PROVE  IInv'
<1> USE DEF IInv
<1> DEFINE rec == [txns[t] EXCEPT !.reads = @ \cup ScanReads(t)]
           R == {[key |-> k, txn |-> Visible(k, t).txn] :
                   k \in Found(t) \ DOMAIN txns[t].writes}
<1>1. t \in Active /\ txns' = [txns EXCEPT ![t] = rec] /\ UNCHANGED <<clock, versions>>
      /\ seen' = [seen EXCEPT ![t] = @ \cup R]
  BY DEF Scan
<1>2. rec \in Records /\ rec.state = "active" /\ rec.start = txns[t].start
      /\ rec.commit = txns[t].commit /\ rec.isolation = txns[t].isolation
  <2>1. ScanReads(t) \in SUBSET Keys
    BY DEF ScanReads, Found
  <2>2. QED
    BY <1>1, <2>1, RecordsKept DEF Records
<1>3. R \in SUBSET ReadsOf
      /\ \A r \in R : txns[t].isolation = "REPEATABLE_READ" =>
                        IsLastWriter(r.txn, r.key, txns[t].start)
  BY <1>1, VisibleIs DEF ReadsOf, Found
<1> HIDE DEF rec, R
<1>4. /\ txns' \in Seq(Records) /\ Len(txns') = Len(txns) /\ DOMAIN txns' = DOMAIN txns
      /\ Times' /\ Chains'
      /\ \A u \in DOMAIN txns : /\ txns'[u].isolation = txns[u].isolation
                                /\ txns'[u].start = txns[u].start
      /\ \A w, x, now : IsLastWriter(w, x, now) => IsLastWriter(w, x, now)'
  BY <1>1, <1>2, QuietStep
<1>5. Types' /\ SnapshotSeen'
  BY <1>1, <1>3, <1>4, SeenStep
<1>6. QED
  BY <1>4, <1>5

\* write, delete, rollback, and a commit that is refused.
LEMMA RecordStep ==
  ASSUME IInv, NEW t \in Active, NEW rec \in Records,
         txns' = [txns EXCEPT ![t] = rec], rec.state # "committed",
         rec.start = txns[t].start, rec.commit = txns[t].commit,
         rec.isolation = txns[t].isolation, UNCHANGED <<versions, seen>>,
         clock' = clock \/ (clock' = clock + 1 /\ rec.state = "aborted")
  PROVE  IInv'
<1> USE DEF IInv
<1>1. /\ txns' \in Seq(Records) /\ Len(txns') = Len(txns) /\ DOMAIN txns' = DOMAIN txns
      /\ Times' /\ Chains'
      /\ \A u \in DOMAIN txns : /\ txns'[u].isolation = txns[u].isolation
                                /\ txns'[u].start = txns[u].start
      /\ \A w, x, now : IsLastWriter(w, x, now) => IsLastWriter(w, x, now)'
  BY QuietStep
<1>2. Types' /\ SnapshotSeen'
  BY <1>1 DEF Types, SnapshotSeen
<1>3. QED
  BY <1>1, <1>2

LEMMA BeginStep ==
  ASSUME IInv, NEW level \in Levels, BeginTxn(level)
  PROVE  IInv'
<1> USE DEF IInv
<1> DEFINE n == Len(txns) + 1
           rec == [isolation |-> level, state |-> "active", start |-> clock + 1,
                   commit |-> 0, reads |-> {}, writes |-> [k \in {} |-> None]]
<1>1. /\ clock' = clock + 1 /\ txns' = Append(txns, rec) /\ seen' = Append(seen, {})
      /\ versions' = versions
  BY DEF BeginTxn
<1>2. /\ clock \in Nat /\ txns \in Seq(Records) /\ Len(txns) \in Nat
      /\ DOMAIN txns = 1..Len(txns)
  BY TxnsAreFinite DEF Types
<1>3. rec \in Records
  <2>1. [k \in {} |-> None] \in WriteSets
    <3>1. [k \in {} |-> None] \in [{} -> Values \cup {None}]
      OBVIOUS
    <3>2. QED
      BY <3>1 DEF WriteSets
  <2>2. QED
    BY <1>2, <2>1 DEF Records
<1>4. /\ rec.state = "active" /\ rec.start = clock + 1 /\ rec.commit = 0
      /\ rec.isolation = level
  OBVIOUS
<1> HIDE DEF rec
<1>5. /\ txns' \in Seq(Records) /\ Len(txns') = n /\ DOMAIN txns' = 1..n
      /\ txns'[n] = rec /\ \A u \in DOMAIN txns : txns'[u] = txns[u]
  BY <1>1, <1>2, <1>3, AppendProperties, LenProperties
<1>6. /\ seen' \in Seq(SUBSET ReadsOf) /\ Len(seen') = n
      /\ seen'[n] = {} /\ \A u \in DOMAIN txns : seen'[u] = seen[u]
  BY <1>1, <1>2, AppendProperties, LenProperties DEF Types
<1>7. Types'
  BY <1>1, <1>2, <1>5, <1>6 DEF Types
<1>8. Committed' = Committed /\ \A u \in Committed : txns'[u] = txns[u]
  BY <1>2, <1>4, <1>5 DEF Committed
<1>9. Times'
  <2>1. Active' = Active \cup {n} /\ n \notin Active
    BY <1>2, <1>4, <1>5 DEF Active
  <2>2. Cardinality(Active') = Cardinality(Active) + 1 /\ Cardinality(Active) \in Nat
    BY <2>1, TxnsAreFinite, FS_AddElement
  <2>3. \A t \in DOMAIN txns' : txns'[t].start \in 1..clock' /\ txns'[t].commit \in 0..clock'
    <3> TAKE t \in DOMAIN txns'
    <3>1. CASE t = n
      BY <1>1, <1>2, <1>4, <1>5, <3>1
    <3>2. CASE t # n
      <4>1. t \in DOMAIN txns /\ txns'[t] = txns[t]
        BY <1>2, <1>5, <3>2
      <4>2. QED
        BY <1>1, <1>2, <4>1 DEF Times
    <3>3. QED
      BY <3>1, <3>2
  <2>4. (\A t, u \in Committed : txns[t].commit = txns[u].commit => t = u)'
    BY <1>8 DEF Times
  <2>5. (clock >= Len(txns) /\ clock + Cardinality(Active) <= 2 * Len(txns))'
    BY <1>1, <1>2, <1>5, <2>2 DEF Times
  <2>6. QED
    BY <2>3, <2>4, <2>5 DEF Times
<1>10. Chains'
  <2>1. versions' = versions
    BY <1>1
  <2>2. QED
    BY <2>1, <1>8 DEF Chains
<1>11. \A w, k, now : IsLastWriter(w, k, now) => IsLastWriter(w, k, now)'
  <2> TAKE w, k, now
  <2>1. Older(k, now)' = Older(k, now) /\ Older(k, now) \subseteq Committed
    BY <1>8 DEF Older
  <2>2. QED
    BY <2>1, <1>8 DEF IsLastWriter
<1>12. SnapshotSeen'
  <2>1. SUFFICES ASSUME NEW t \in DOMAIN txns', txns'[t].isolation = "REPEATABLE_READ",
                        NEW s \in seen'[t]
                 PROVE  IsLastWriter(s.txn, s.key, txns[t].start)'
    BY DEF SnapshotSeen
  <2>2. t \in DOMAIN txns /\ txns'[t] = txns[t] /\ seen'[t] = seen[t]
    BY <1>2, <1>5, <1>6, <2>1
  <2>3. QED
    BY <1>11, <2>1, <2>2 DEF SnapshotSeen
<1>13. QED
  BY <1>7, <1>9, <1>10, <1>12

\* A transaction joins the committed ones with the latest time stamp.
LEMMA JoinsCommitted ==
  ASSUME IInv, NEW t \in Active, NEW rec \in Records,
         txns' = [txns EXCEPT ![t] = rec], rec.state = "committed",
         rec.start = txns[t].start, rec.commit = clock + 1,
         rec.isolation = txns[t].isolation, rec.writes = txns[t].writes,
         clock' = clock + 1
  PROVE  /\ txns' \in Seq(Records) /\ Len(txns') = Len(txns) /\ DOMAIN txns' = DOMAIN txns
         /\ txns'[t] = rec /\ \A u \in DOMAIN txns : u # t => txns'[u] = txns[u]
         /\ t \in DOMAIN txns /\ t \notin Committed /\ Committed' = Committed \cup {t}
         /\ \A u \in Committed : txns[u].commit \in 0..clock
         /\ Times'
         /\ \A w, k, now : now \in 0..clock /\ IsLastWriter(w, k, now)
                             => IsLastWriter(w, k, now)'
<1> USE DEF IInv
<1>1. t \in DOMAIN txns /\ t \notin Committed /\ clock \in Nat
  BY DEF Active, Committed, Types
<1>2. /\ txns' \in Seq(Records) /\ Len(txns') = Len(txns) /\ DOMAIN txns' = DOMAIN txns
      /\ txns'[t] = rec /\ \A u \in DOMAIN txns : u # t => txns'[u] = txns[u]
  BY <1>1, ExceptSeq DEF Types
<1>3. Committed' = Committed \cup {t}
  BY <1>1, <1>2 DEF Committed
<1>4. \A u \in Committed : txns[u].commit \in 0..clock /\ u # t /\ u \in DOMAIN txns
  BY <1>1 DEF Times, Committed
<1>5. Active' = Active \ {t}
  BY <1>2 DEF Active
<1>6. Times'
  <2>1. Cardinality(Active') = Cardinality(Active) - 1
    BY <1>5, TxnsAreFinite, FS_RemoveElement
  <2>2. (clock >= Len(txns) /\ clock + Cardinality(Active) <= 2 * Len(txns))'
    BY <1>1, <1>2, <2>1, TxnsAreFinite DEF Times
  <2>3. \A u \in DOMAIN txns' : txns'[u].start \in 1..clock' /\ txns'[u].commit \in 0..clock'
    <3> TAKE u \in DOMAIN txns'
    <3>1. txns[u].start \in 1..clock /\ txns[u].commit \in 0..clock /\ u \in DOMAIN txns
      BY <1>2 DEF Times
    <3>2. CASE u = t
      BY <1>1, <1>2, <3>1, <3>2
    <3>3. CASE u # t
      BY <1>1, <1>2, <3>1, <3>3
    <3>4. QED
      BY <3>2, <3>3
  <2>4. ASSUME NEW x \in Committed', NEW y \in Committed', txns'[x].commit = txns'[y].commit
        PROVE  x = y
    <3>1. \A u \in Committed : txns'[u].commit = txns[u].commit /\ txns'[u].commit <= clock
      BY <1>1, <1>2, <1>4
    <3>2. txns'[t].commit = clock + 1
      BY <1>2
    <3>3. CASE x \in Committed /\ y \in Committed
      BY <2>4, <3>1, <3>3 DEF Times
    <3>4. CASE x = t /\ y \in Committed
      BY <1>1, <1>4, <2>4, <3>1, <3>2, <3>4
    <3>5. CASE y = t /\ x \in Committed
      BY <1>1, <1>4, <2>4, <3>1, <3>2, <3>5
    <3>6. QED
      BY <1>3, <3>3, <3>4, <3>5
  <2>5. QED
    BY <2>2, <2>3, <2>4 DEF Times
<1>7. ASSUME NEW w, NEW k, NEW now \in 0..clock, IsLastWriter(w, k, now)
      PROVE  IsLastWriter(w, k, now)'
  <2>1. \A u \in Committed : txns'[u] = txns[u]
    BY <1>2, <1>4
  <2>2. Older(k, now)' = Older(k, now)
    BY <1>1, <1>2, <1>3, <2>1 DEF Older
  <2>3. Older(k, now) \subseteq Committed
    BY DEF Older
  <2>4. QED
    BY <1>7, <2>1, <2>2, <2>3 DEF IsLastWriter
<1>8. QED
  BY <1>1, <1>2, <1>3, <1>4, <1>6, <1>7

\* The write set of t goes to the ends of the chains.
LEMMA InstallKeepsChains ==
  ASSUME IInv, NEW t \in DOMAIN txns, t \notin Committed,
         txns[t].writes \in WriteSets,
         DOMAIN txns' = DOMAIN txns, Committed' = Committed \cup {t},
         \A u \in DOMAIN txns : u # t => txns'[u] = txns[u],
         txns'[t].writes = txns[t].writes, txns'[t].commit = clock + 1,
         \A u \in Committed : txns[u].commit \in 0..clock,
         versions' = Install(t, clock + 1)
  PROVE  versions' \in [Keys -> Seq(Versions)] /\ Chains'
<1> USE DEF IInv
<1> DEFINE W == DOMAIN txns[t].writes
           v(k) == [txn |-> t, timestamp |-> clock + 1, value |-> txns[t].writes[k]]
<1>1. clock \in Nat /\ t \in Nat
  BY TxnsAreFinite DEF Types
<1>2. \A k \in Keys : k \in W => v(k) \in Versions
  <2>1. PICK D \in SUBSET Keys : txns[t].writes \in [D -> Values \cup {None}]
    BY DEF WriteSets
  <2>2. \A k \in W : txns[t].writes[k] \in Values \cup {None}
    BY <2>1
  <2>3. QED
    BY <1>1, <2>2 DEF Versions
<1>3. \A k \in Keys : /\ k \notin W => versions'[k] = versions[k]
                      /\ k \in W => versions'[k] = Append(versions[k], v(k))
  BY DEF Install
<1>4. \A k \in Keys : /\ versions[k] \in Seq(Versions) /\ Len(versions[k]) \in Nat
                      /\ DOMAIN versions[k] = 1..Len(versions[k])
  BY LenProperties DEF Types
<1>5. \A k \in Keys : k \in W =>
        /\ versions'[k] \in Seq(Versions) /\ Len(versions'[k]) = Len(versions[k]) + 1
        /\ DOMAIN versions'[k] = 1..(Len(versions[k]) + 1)
        /\ versions'[k][Len(versions[k]) + 1] = v(k)
        /\ \A i \in DOMAIN versions[k] : versions'[k][i] = versions[k][i]
  <2> TAKE k \in Keys
  <2> HAVE k \in W
  <2> HIDE DEF v
  <2>1. versions[k] \in Seq(Versions) /\ v(k) \in Versions
    BY <1>2, <1>4
  <2>2. QED
    BY <1>3, <1>4, <2>1, AppendProperties, LenProperties
<1>6. versions' \in [Keys -> Seq(Versions)]
  <2>1. \A k \in Keys : versions'[k] \in Seq(Versions)
    BY <1>3, <1>4, <1>5
  <2>2. QED
    BY <2>1 DEF Install
<1>7. \A u \in Committed : u # t /\ u \in DOMAIN txns /\ txns'[u] = txns[u]
  BY DEF Committed
<1>8. ASSUME NEW k \in Keys, NEW i \in DOMAIN versions[k]
      PROVE  /\ versions[k][i].txn \in Committed
             /\ versions[k][i].timestamp = txns'[versions[k][i].txn].commit
             /\ versions[k][i].timestamp \in 0..clock
             /\ k \in DOMAIN txns'[versions[k][i].txn].writes
  BY <1>7 DEF Chains
<1>9. ASSUME NEW k \in Keys
      PROVE  /\ \A i \in DOMAIN versions'[k] :
                  LET x == versions'[k][i] IN
                    /\ x.txn \in Committed' /\ x.timestamp = txns'[x.txn].commit
                    /\ k \in DOMAIN txns'[x.txn].writes
             /\ \A i, j \in DOMAIN versions'[k] :
                  i < j => versions'[k][i].timestamp < versions'[k][j].timestamp
             /\ \A u \in Committed' : k \in DOMAIN txns'[u].writes =>
                  \E i \in DOMAIN versions'[k] : versions'[k][i].txn = u
  <2> HIDE DEF v
  <2>1. CASE k \notin W
    <3>1. versions'[k] = versions[k]
      BY <1>3, <2>1
    <3>2. \A i \in DOMAIN versions'[k] :
                  LET x == versions'[k][i] IN
                    /\ x.txn \in Committed' /\ x.timestamp = txns'[x.txn].commit
                    /\ k \in DOMAIN txns'[x.txn].writes
      BY <1>8, <3>1
    <3>3. \A u \in Committed' : k \in DOMAIN txns'[u].writes =>
                  \E i \in DOMAIN versions'[k] : versions'[k][i].txn = u
      BY <1>7, <2>1, <3>1 DEF Chains
    <3>4. QED
      BY <3>1, <3>2, <3>3 DEF Chains
  <2>2. CASE k \in W
    <3> DEFINE n == Len(versions[k]) + 1
    <3>1. /\ n \in Nat /\ n \in 1..n /\ DOMAIN versions'[k] = 1..n /\ DOMAIN versions[k] = 1..(n - 1)
          /\ versions'[k][n] = v(k)
          /\ \A i \in DOMAIN versions[k] : versions'[k][i] = versions[k][i]
      BY <1>4, <1>5, <2>2
    <3>2. v(k).txn = t /\ v(k).timestamp = clock + 1
      BY DEF v
    <3> HIDE DEF n
    <3>3. ASSUME NEW i \in DOMAIN versions'[k]
          PROVE  /\ versions'[k][i].txn \in Committed'
                 /\ versions'[k][i].timestamp = txns'[versions'[k][i].txn].commit
                 /\ k \in DOMAIN txns'[versions'[k][i].txn].writes
      <4>1. CASE i = n
        BY <3>1, <3>2, <2>2, <4>1
      <4>2. CASE i # n
        <5>1. i \in DOMAIN versions[k]
          BY <3>1, <3>3, <4>2
        <5>2. QED
          BY <1>8, <3>1, <5>1
      <4>3. QED
        BY <4>1, <4>2
    <3>4. ASSUME NEW i \in DOMAIN versions'[k], NEW j \in DOMAIN versions'[k], i < j
          PROVE  versions'[k][i].timestamp < versions'[k][j].timestamp
      <4>1. i \in DOMAIN versions[k] /\ versions'[k][i] = versions[k][i]
        BY <3>1, <3>4
      <4>2. CASE j = n
        BY <1>1, <1>8, <3>1, <3>2, <4>1, <4>2
      <4>3. CASE j # n
        <5>1. j \in DOMAIN versions[k] /\ versions'[k][j] = versions[k][j]
          BY <3>1, <3>4, <4>3
        <5>2. QED
          BY <3>4, <4>1, <5>1 DEF Chains
      <4>4. QED
        BY <4>2, <4>3
    <3>5. ASSUME NEW u \in Committed', k \in DOMAIN txns'[u].writes
          PROVE  \E i \in DOMAIN versions'[k] : versions'[k][i].txn = u
      <4>1. CASE u = t
        BY <3>1, <3>2, <4>1
      <4>2. CASE u # t
        <5>1. u \in Committed /\ k \in DOMAIN txns[u].writes
          BY <1>7, <3>5, <4>2
        <5>2. PICK i \in DOMAIN versions[k] : versions[k][i].txn = u
          BY <5>1 DEF Chains
        <5>3. QED
          BY <3>1, <5>2
      <4>3. QED
        BY <4>1, <4>2
    <3>6. QED
      BY <3>3, <3>4, <3>5
  <2>3. QED
    BY <2>1, <2>2
<1>10. Chains'
  BY <1>9 DEF Chains
<1>11. QED
  BY <1>6, <1>10

LEMMA CommitStep ==
  ASSUME IInv, NEW t, Commit(t)
  PROVE  IInv'
<1> USE DEF IInv
<1>1. t \in Active /\ clock' = clock + 1 /\ seen' = seen
  BY DEF Commit, CommitTimestamp
<1>2. txns[t] \in Records /\ t \in DOMAIN txns
  BY <1>1, TxnsAreFinite DEF Active
<1>3. CASE txns[t].isolation = "SERIALIZABLE" /\ Overwritten(t)
  <2> DEFINE rec == [txns[t] EXCEPT !.state = "aborted"]
  <2>1. txns' = [txns EXCEPT ![t] = rec] /\ versions' = versions
    BY <1>3 DEF Commit
  <2>2. rec \in Records /\ rec.state = "aborted" /\ rec.start = txns[t].start
        /\ rec.commit = txns[t].commit /\ rec.isolation = txns[t].isolation
    BY <1>2 DEF Records
  <2> HIDE DEF rec
  <2>3. QED
    BY <1>1, <2>1, <2>2, RecordStep
<1>4. CASE ~(txns[t].isolation = "SERIALIZABLE" /\ Overwritten(t))
  <2> DEFINE rec == [txns[t] EXCEPT !.state = "committed", !.commit = clock + 1]
  <2>1. txns' = [txns EXCEPT ![t].state = "committed", ![t].commit = clock + 1]
        /\ versions' = Install(t, clock + 1)
    BY <1>1, <1>4 DEF Commit
  <2>2. txns' = [txns EXCEPT ![t] = rec]
    BY <1>2, <2>1 DEF Types
  <2>3. /\ rec \in Records /\ rec.state = "committed" /\ rec.start = txns[t].start
        /\ rec.commit = clock + 1 /\ rec.isolation = txns[t].isolation
        /\ rec.writes = txns[t].writes
    <3>1. clock + 1 \in Nat
      BY DEF Types
    <3>2. QED
      BY <1>2, <3>1 DEF Records
  <2> HIDE DEF rec
  <2>4. /\ txns' \in Seq(Records) /\ Len(txns') = Len(txns) /\ DOMAIN txns' = DOMAIN txns
        /\ txns'[t] = rec /\ \A u \in DOMAIN txns : u # t => txns'[u] = txns[u]
        /\ t \in DOMAIN txns /\ t \notin Committed /\ Committed' = Committed \cup {t}
        /\ \A u \in Committed : txns[u].commit \in 0..clock
        /\ Times'
        /\ \A w, k, now : now \in 0..clock /\ IsLastWriter(w, k, now)
                            => IsLastWriter(w, k, now)'
    BY <1>1, <2>2, <2>3, JoinsCommitted
  <2>5. txns[t].writes \in WriteSets
    BY <1>2 DEF Records
  <2>6. versions' \in [Keys -> Seq(Versions)] /\ Chains'
    BY <2>1, <2>3, <2>4, <2>5, InstallKeepsChains
  <2>7. Types'
    BY <1>1, <2>4, <2>6 DEF Types
  <2>8. SnapshotSeen'
    <3>1. SUFFICES ASSUME NEW u \in DOMAIN txns, txns'[u].isolation = "REPEATABLE_READ",
                          NEW s \in seen[u]
                   PROVE  IsLastWriter(s.txn, s.key, txns[u].start)'
      BY <1>1, <2>4 DEF SnapshotSeen
    <3>2. txns'[u].start = txns[u].start /\ txns'[u].isolation = txns[u].isolation
          /\ txns[u].start \in 0..clock
      <4>1. txns'[u].start = txns[u].start /\ txns'[u].isolation = txns[u].isolation
        <5>1. CASE u = t
          BY <2>3, <2>4, <5>1
        <5>2. CASE u # t
          BY <2>4, <5>2
        <5>3. QED
          BY <5>1, <5>2
      <4>2. txns[u].start \in 1..clock /\ clock \in Nat
        BY DEF Times, Types
      <4>3. QED
        BY <4>1, <4>2
    <3>3. IsLastWriter(s.txn, s.key, txns[u].start)
      BY <3>1, <3>2 DEF SnapshotSeen
    <3>4. QED
      BY <2>4, <3>2, <3>3
  <2>9. QED
    BY <2>4, <2>6, <2>7, <2>8
<1>5. QED
  BY <1>3, <1>4

\* Every state of an execution satisfies the inductive invariant: times, chains
\* and what transactions were shown fit together after each call.
THEOREM Invariance == Spec => []IInv
<1>1. Init => IInv
  <2> SUFFICES ASSUME Init PROVE IInv
    OBVIOUS
  <2>1. Types
    BY EmptySeq DEF Init, Types
  <2>2. Active = {} /\ Committed = {}
    BY DEF Init, Active, Committed
  <2>3. Times
    BY <2>2, FS_EmptySet DEF Init, Times
  <2>4. Chains /\ SnapshotSeen
    BY <2>2 DEF Init, Chains, SnapshotSeen
  <2>5. QED
    BY <2>1, <2>3, <2>4 DEF IInv
<1>2. IInv /\ [Next]_vars => IInv'
  <2> SUFFICES ASSUME IInv, [Next]_vars PROVE IInv'
    OBVIOUS
  <2>1. ASSUME NEW level \in Levels, BeginTxn(level) PROVE IInv'
    BY <2>1, BeginStep
  <2>2. ASSUME NEW t \in DOMAIN txns, NEW k \in Keys, Read(t, k) PROVE IInv'
    BY <2>2, ReadStep
  <2>3. ASSUME NEW t \in DOMAIN txns, NEW k \in Keys, NEW value \in Values \cup {None},
               Write(t, k, value)
        PROVE  IInv'
    <3> DEFINE rec == [txns[t] EXCEPT !.writes =
                         [x \in DOMAIN @ \cup {k} |-> IF x = k THEN value ELSE @[x]]]
    <3>1. t \in Active /\ txns' = [txns EXCEPT ![t] = rec] /\ UNCHANGED <<clock, versions, seen>>
      BY <2>3 DEF Write
    <3>2. rec \in Records /\ rec.state = "active" /\ rec.start = txns[t].start
          /\ rec.commit = txns[t].commit /\ rec.isolation = txns[t].isolation
      <4>1. txns[t] \in Records /\ txns[t].state = "active" /\ rec \in Records
        BY <3>1, RecordsKept DEF IInv
      <4>2. QED
        BY <4>1 DEF Records
    <3> HIDE DEF rec
    <3>3. QED
      BY <3>1, <3>2, RecordStep
  <2>4. ASSUME NEW t \in DOMAIN txns, Scan(t) PROVE IInv'
    BY <2>4, ScanStep
  <2>5. ASSUME NEW t \in DOMAIN txns, Commit(t) PROVE IInv'
    BY <2>5, CommitStep
  <2>6. ASSUME NEW t \in DOMAIN txns, Rollback(t) PROVE IInv'
    <3> DEFINE rec == [txns[t] EXCEPT !.state = "aborted"]
    <3>1. t \in Active /\ txns' = [txns EXCEPT ![t] = rec] /\ UNCHANGED <<clock, versions, seen>>
      BY <2>6 DEF Rollback
    <3>2. rec \in Records /\ rec.state = "aborted" /\ rec.start = txns[t].start
          /\ rec.commit = txns[t].commit /\ rec.isolation = txns[t].isolation
      BY <3>1, RecordsKept DEF IInv, Records
    <3> HIDE DEF rec
    <3>3. QED
      BY <3>1, <3>2, RecordStep
  <2>7. CASE UNCHANGED vars
    <3>1. Committed' = Committed /\ Active' = Active
      BY <2>7 DEF vars, Committed, Active
    <3>2. \A k, now : Older(k, now)' = Older(k, now)
      BY <2>7, <3>1 DEF vars, Older
    <3>3. \A w, k, now : IsLastWriter(w, k, now)' <=> IsLastWriter(w, k, now)
      BY <2>7, <3>2 DEF vars, IsLastWriter
    <3>4. Types' /\ Times' /\ Chains'
      BY <2>7, <3>1 DEF vars, IInv, Types, Times, Chains
    <3>5. SnapshotSeen'
      BY <2>7, <3>3 DEF vars, IInv, SnapshotSeen
    <3>6. QED
      BY <3>4, <3>5 DEF IInv
  <2>8. QED
    BY <2>1, <2>2, <2>3, <2>4, <2>5, <2>6, <2>7 DEF Next
<1>3. QED
  BY <1>1, <1>2, PTL DEF Spec

\* For any mixture of levels and any number of transactions: the chains hold
\* the versions of the committed transactions alone, by commit time (commit).
THEOREM ChainsAreHistoryHolds == Spec => []ChainsAreHistory
<1>1. IInv => ChainsAreHistory
  <2> SUFFICES ASSUME IInv PROVE ChainsAreHistory
    OBVIOUS
  <2> USE DEF IInv
  <2>1. clock \in Len(txns)..(2 * Len(txns))
    BY TxnsAreFinite DEF Times, Types
  <2>2. ASSUME NEW t \in DOMAIN txns
        PROVE  /\ txns[t].state \in {"active", "committed", "aborted"}
               /\ txns[t].reads \subseteq Keys
               /\ \E D \in SUBSET Keys : txns[t].writes \in [D -> Values \cup {None}]
    BY TxnsAreFinite DEF Records, WriteSets
  <2>3. ASSUME NEW k \in Keys, NEW i \in DOMAIN versions[k]
        PROVE  versions[k][i].value \in Values \cup {None}
    <3>1. versions[k][i] \in Versions
      BY ElementOfSeq, LenProperties DEF Types
    <3>2. QED
      BY <3>1 DEF Versions
  <2>4. TypeOK
    BY <2>1, <2>2, <2>3 DEF TypeOK, Times
  <2>5. QED
    BY <2>4 DEF ChainsAreHistory, Chains
<1>2. QED
  BY Invariance, <1>1, PTL

\* For any mixture of levels and any number of transactions: whatever commits
\* meanwhile, a REPEATABLE_READ transaction reads, by key and by scan, the state
\* of the moment it began (_visible_version).
THEOREM SnapshotReadsHold == Spec => []SnapshotReads
<1>1. IInv => SnapshotReads
  BY LastWriterIs DEF IInv, SnapshotSeen, SnapshotReads
<1>2. QED
  BY Invariance, <1>1, PTL
-----------------------------------------------------------------------------
(* The promise of the SERIALIZABLE level *)

\* The keys that had a value at time now.
HasValue(k, now) ==
  \E i \in DOMAIN versions[k] :
    /\ versions[k][i].timestamp <= now /\ versions[k][i].value # None
    /\ \A j \in DOMAIN versions[k] : versions[k][j].timestamp <= now => j <= i
Rows(now) == {k \in Keys : HasValue(k, now)}

\* What an active transaction read was true some time after it began, and what
\* it read is in its read set; scans show all rows only to one that wrote none.
ReadsWereTrue(t) ==
  /\ \A s \in seen[t] : /\ s.key \in txns[t].reads
                        /\ \E now \in txns[t].start..clock : IsLastWriter(s.txn, s.key, now)
  /\ DOMAIN txns[t].writes = {} =>
       \A R \in ranges[t] : /\ R \subseteq txns[t].reads
                            /\ \E now \in txns[t].start..clock : R = Rows(now)

\* What a committed transaction read was true just before it committed.
ReadsAreTrue(t) ==
  /\ txns[t].commit >= 1
  /\ \A s \in seen[t] : IsLastWriter(s.txn, s.key, txns[t].commit - 1)
  /\ DOMAIN txns[t].writes = {} => \A R, Q \in ranges[t] : R = Q

Serial(t) ==
  txns[t].isolation = "SERIALIZABLE" =>
    /\ txns[t].state = "active" => ReadsWereTrue(t)
    /\ txns[t].state = "committed" => ReadsAreTrue(t)

SInv == /\ ranges \in Seq(SUBSET SUBSET Keys) /\ Len(ranges) = Len(txns)
        /\ \A t \in DOMAIN txns : Serial(t)

\* What was the case at a time that has passed remains so.
PastIsKept ==
  /\ clock' \in Nat /\ clock' >= clock
  /\ \A now \in 0..clock : /\ Rows(now)' = Rows(now)
                           /\ \A w, k : IsLastWriter(w, k, now) => IsLastWriter(w, k, now)'
-----------------------------------------------------------------------------
LEMMA OthersKept ==
  ASSUME IInv, PastIsKept, NEW u \in DOMAIN txns, Serial(u),
         txns'[u] = txns[u], seen'[u] = seen[u], ranges'[u] = ranges[u]
  PROVE  Serial(u)'
<1>1. clock \in Nat /\ clock' \in Nat /\ clock' >= clock
      /\ txns[u].start \in 1..clock /\ txns[u].commit \in 0..clock
  BY DEF IInv, Types, Times, PastIsKept
<1>2. SUFFICES ASSUME txns[u].isolation = "SERIALIZABLE"
               PROVE  /\ txns[u].state = "active" => ReadsWereTrue(u)'
                      /\ txns[u].state = "committed" => ReadsAreTrue(u)'
  BY DEF Serial
<1>3. ASSUME txns[u].state = "active" PROVE ReadsWereTrue(u)'
  <2>1. ReadsWereTrue(u)
    BY <1>2, <1>3 DEF Serial
  <2>2. ASSUME NEW s \in seen[u]
        PROVE  /\ s.key \in txns[u].reads
               /\ \E now \in txns[u].start..clock' : IsLastWriter(s.txn, s.key, now)'
    <3>1. PICK now \in txns[u].start..clock : IsLastWriter(s.txn, s.key, now)
      BY <2>1, <2>2 DEF ReadsWereTrue
    <3>2. now \in 0..clock /\ now \in txns[u].start..clock'
      BY <1>1
    <3>3. IsLastWriter(s.txn, s.key, now)'
      BY <3>1, <3>2 DEF PastIsKept
    <3>4. QED
      BY <2>1, <3>2, <3>3 DEF ReadsWereTrue
  <2>3. ASSUME DOMAIN txns[u].writes = {}, NEW R \in ranges[u]
        PROVE  /\ R \subseteq txns[u].reads
               /\ \E now \in txns[u].start..clock' : R = Rows(now)'
    <3>1. PICK now \in txns[u].start..clock : R = Rows(now)
      BY <2>1, <2>3 DEF ReadsWereTrue
    <3>2. now \in 0..clock /\ now \in txns[u].start..clock'
      BY <1>1
    <3>3. QED
      BY <2>1, <2>3, <3>1, <3>2 DEF ReadsWereTrue, PastIsKept
  <2>4. QED
    BY <2>2, <2>3 DEF ReadsWereTrue
<1>4. ASSUME txns[u].state = "committed" PROVE ReadsAreTrue(u)'
  <2>1. ReadsAreTrue(u)
    BY <1>2, <1>4 DEF Serial
  <2>2. txns[u].commit - 1 \in 0..clock
    BY <1>1, <2>1 DEF ReadsAreTrue
  <2>3. QED
    BY <2>1, <2>2 DEF ReadsAreTrue, PastIsKept
<1>5. QED
  BY <1>3, <1>4

\* What a serializable transaction sees is the present state.
LEMMA VisibleNow ==
  ASSUME IInv, NEW t \in Active, NEW k \in Keys, txns[t].isolation = "SERIALIZABLE"
  PROVE  /\ IsLastWriter(Visible(k, t).txn, k, clock)
         /\ Visible(k, t).value # None <=> HasValue(k, clock)
<1> USE DEF IInv
<1> DEFINE shown == {i \in DOMAIN versions[k] : InView(versions[k][i], t)}
<1>1. t \notin Committed /\ clock \in Nat
  BY DEF Active, Committed, Types
<1>2. \A i \in DOMAIN versions[k] :
        /\ versions[k][i].txn \in Committed
        /\ versions[k][i].timestamp = txns[versions[k][i].txn].commit
  BY DEF Chains
<1>3. \A u \in Committed : txns[u].commit <= clock
  BY <1>1 DEF Times, Committed
<1>4. shown = DOMAIN versions[k]
  BY <1>1, <1>2 DEF InView
<1>5. shown = {i \in DOMAIN versions[k] : txns[versions[k][i].txn].commit <= clock}
  BY <1>2, <1>3, <1>4
<1>6. Visible(k, t) = IF shown = {} THEN [txn |-> 0, timestamp |-> 0, value |-> None]
                      ELSE versions[k][Max(shown)]
  BY DEF Visible
<1> HIDE DEF shown
<1>7. /\ shown = {} => IsLastWriter(0, k, clock)
      /\ shown # {} => /\ Max(shown) \in shown
                       /\ \A i \in shown : i <= Max(shown)
                       /\ IsLastWriter(versions[k][Max(shown)].txn, k, clock)
  BY <1>1, <1>5, LastVersion
<1>8. IsLastWriter(Visible(k, t).txn, k, clock)
  <2>1. CASE shown = {}
    BY <1>6, <1>7, <2>1
  <2>2. CASE shown # {}
    BY <1>6, <1>7, <2>2
  <2>3. QED
    BY <2>1, <2>2
<1>9. Visible(k, t).value # None <=> HasValue(k, clock)
  <2>1. CASE shown = {}
    BY <1>4, <1>6, <2>1 DEF HasValue
  <2>2. CASE shown # {}
    <3> DEFINE m == Max(shown)
    <3>1. m \in DOMAIN versions[k] /\ \A i \in DOMAIN versions[k] : i <= m
      BY <1>4, <1>7, <2>2
    <3>2. \A i \in DOMAIN versions[k] : versions[k][i].timestamp <= clock /\ i \in Nat
      <4>1. versions[k] \in Seq(Versions)
        BY DEF Types
      <4>2. DOMAIN versions[k] \subseteq Nat
        BY <4>1, LenProperties
      <4>3. QED
        BY <1>2, <1>3, <4>2
    <3>3. Visible(k, t) = versions[k][m]
      BY <1>6, <2>2
    <3> HIDE DEF m
    <3>4. \A i \in DOMAIN versions[k] : m <= i => i = m
      BY <3>1, <3>2
    <3>5. QED
      BY <3>1, <3>2, <3>3, <3>4 DEF HasValue
  <2>3. QED
    BY <2>1, <2>2
<1>10. QED
  BY <1>8, <1>9

LEMMA RangesShape ==
  ASSUME IInv, SInv
  PROVE  /\ DOMAIN ranges = DOMAIN txns /\ DOMAIN seen = DOMAIN txns
         /\ \A t \in DOMAIN txns : ranges[t] \in SUBSET SUBSET Keys
<1>1. DOMAIN ranges = 1..Len(ranges) /\ DOMAIN txns = 1..Len(txns)
      /\ Len(ranges) = Len(txns) /\ DOMAIN seen = DOMAIN txns
  BY LenProperties, TxnsAreFinite DEF SInv, IInv, Types
<1>2. QED
  BY <1>1, ElementOfSeq DEF SInv

\* A call on t that leaves the versions alone leaves the other transactions
\* and the past alone.
LEMMA QuietSerial ==
  ASSUME IInv, SInv, NEW t \in Active, NEW rec \in Records,
         txns' = [txns EXCEPT ![t] = rec], rec.state # "committed",
         rec.start = txns[t].start, rec.commit = txns[t].commit,
         rec.isolation = txns[t].isolation, UNCHANGED versions,
         clock' = clock \/ (clock' = clock + 1 /\ rec.state = "aborted"),
         \A u \in DOMAIN txns : u # t => seen'[u] = seen[u] /\ ranges'[u] = ranges[u]
  PROVE  /\ PastIsKept /\ txns'[t] = rec /\ DOMAIN txns' = DOMAIN txns
         /\ Len(txns') = Len(txns)
         /\ \A u \in DOMAIN txns : u # t => Serial(u)'
<1>1. /\ txns' \in Seq(Records) /\ Len(txns') = Len(txns) /\ DOMAIN txns' = DOMAIN txns
      /\ \A w, k, now : IsLastWriter(w, k, now) => IsLastWriter(w, k, now)'
  BY QuietStep
<1>2. t \in DOMAIN txns /\ clock \in Nat
  BY DEF Active, IInv, Types
<1>3. txns'[t] = rec /\ \A u \in DOMAIN txns : u # t => txns'[u] = txns[u]
  BY <1>2, ExceptSeq DEF IInv, Types
<1>4. \A now : Rows(now)' = Rows(now)
  BY DEF Rows, HasValue
<1>5. clock' \in Nat /\ clock' >= clock
  BY <1>2
<1>6. PastIsKept
  BY <1>1, <1>4, <1>5 DEF PastIsKept
<1>7. ASSUME NEW u \in DOMAIN txns, u # t PROVE Serial(u)'
  <2>1. Serial(u)
    BY DEF SInv
  <2>2. QED
    BY <1>3, <1>6, <1>7, <2>1, OthersKept
<1>8. QED
  BY <1>1, <1>3, <1>6, <1>7

\* What t read before is still true while t goes on, whatever it adds.
LEMMA ReadsStayTrue ==
  ASSUME IInv, SInv, PastIsKept, NEW t \in Active, t \in DOMAIN txns,
         txns[t].isolation = "SERIALIZABLE",
         txns'[t].start = txns[t].start, txns[t].reads \subseteq txns'[t].reads
  PROVE  /\ \A s \in seen[t] : /\ s.key \in txns'[t].reads
                               /\ \E now \in txns[t].start..clock' : IsLastWriter(s.txn, s.key, now)'
         /\ DOMAIN txns[t].writes = {} =>
              \A R \in ranges[t] : /\ R \subseteq txns'[t].reads
                                   /\ \E now \in txns[t].start..clock' : R = Rows(now)'
<1>1. ReadsWereTrue(t)
  BY DEF SInv, Serial, Active
<1>2. clock \in Nat /\ clock' \in Nat /\ clock' >= clock /\ txns[t].start \in 1..clock
  BY DEF IInv, Types, Times, PastIsKept
<1>3. \A now \in txns[t].start..clock : now \in 0..clock /\ now \in txns[t].start..clock'
  BY <1>2
<1>4. ASSUME NEW s \in seen[t]
      PROVE  /\ s.key \in txns'[t].reads
             /\ \E now \in txns[t].start..clock' : IsLastWriter(s.txn, s.key, now)'
  <2>1. PICK now \in txns[t].start..clock : IsLastWriter(s.txn, s.key, now)
    BY <1>1, <1>4 DEF ReadsWereTrue
  <2>2. IsLastWriter(s.txn, s.key, now)'
    BY <1>3, <2>1 DEF PastIsKept
  <2>3. QED
    BY <1>1, <1>3, <1>4, <2>2 DEF ReadsWereTrue
<1>5. ASSUME DOMAIN txns[t].writes = {}, NEW R \in ranges[t]
      PROVE  /\ R \subseteq txns'[t].reads
             /\ \E now \in txns[t].start..clock' : R = Rows(now)'
  <2>1. PICK now \in txns[t].start..clock : R = Rows(now)
    BY <1>1, <1>5 DEF ReadsWereTrue
  <2>2. R = Rows(now)'
    BY <1>3, <2>1 DEF PastIsKept
  <2>3. QED
    BY <1>1, <1>3, <1>5, <2>2 DEF ReadsWereTrue
<1>6. QED
  BY <1>4, <1>5

LEMMA ReadSerial ==
  ASSUME IInv, SInv, NEW t, NEW k \in Keys, Read(t, k)
  PROVE  SInv'
<1> DEFINE rec == [txns[t] EXCEPT !.reads = @ \cup {k}]
<1>0. PICK s0, now0 : s0 = [key |-> k, txn |-> Visible(k, t).txn] /\ now0 = clock
  OBVIOUS
<1>1. t \in Active /\ t \in DOMAIN txns /\ txns' = [txns EXCEPT ![t] = rec]
      /\ UNCHANGED <<clock, versions, ranges>>
  BY DEF Read, Active
<1>2. rec \in Records /\ rec.state = "active" /\ rec.start = txns[t].start
      /\ rec.commit = txns[t].commit /\ rec.isolation = txns[t].isolation
      /\ rec.reads = txns[t].reads \cup {k} /\ rec.writes = txns[t].writes
  BY <1>1, RecordsKept DEF Records, IInv
<1>3. /\ \A u \in DOMAIN txns : u # t => seen'[u] = seen[u] /\ ranges'[u] = ranges[u]
      /\ \A s \in seen'[t] : s \in seen[t] \/ s = s0
  <2>1. seen \in Seq(SUBSET ReadsOf) /\ DOMAIN seen = DOMAIN txns
    BY RangesShape DEF IInv, Types
  <2>2. seen' = seen \/ seen' = [seen EXCEPT ![t] = @ \cup {s0}]
    BY <1>0 DEF Read
  <2>3. QED
    BY <1>1, <2>1, <2>2
<1> HIDE DEF rec
<1>4. /\ PastIsKept /\ txns'[t] = rec /\ DOMAIN txns' = DOMAIN txns
      /\ Len(txns') = Len(txns)
      /\ \A u \in DOMAIN txns : u # t => Serial(u)'
  BY <1>1, <1>2, <1>3, QuietSerial
<1>5. ASSUME txns[t].isolation = "SERIALIZABLE" PROVE ReadsWereTrue(t)'
  <2>1. /\ \A s \in seen[t] : /\ s.key \in txns'[t].reads
                              /\ \E now \in txns[t].start..clock' : IsLastWriter(s.txn, s.key, now)'
        /\ DOMAIN txns[t].writes = {} =>
             \A R \in ranges[t] : /\ R \subseteq txns'[t].reads
                                  /\ \E now \in txns[t].start..clock' : R = Rows(now)'
    BY <1>1, <1>2, <1>4, <1>5, ReadsStayTrue
  <2>2. now0 \in txns[t].start..clock' /\ now0 \in 0..clock
    BY <1>0, <1>1 DEF IInv, Types, Times
  <2>3. IsLastWriter(s0.txn, s0.key, now0)
    BY <1>0, <1>1, <1>5, VisibleNow
  <2>4. s0.key \in txns'[t].reads /\ IsLastWriter(s0.txn, s0.key, now0)'
    BY <1>0, <1>2, <1>4, <2>2, <2>3 DEF PastIsKept
  <2>5. ASSUME NEW s \in seen'[t]
        PROVE  /\ s.key \in txns'[t].reads
               /\ \E now \in txns[t].start..clock' : IsLastWriter(s.txn, s.key, now)'
    BY <1>3, <2>1, <2>2, <2>4, <2>5
  <2>6. QED
    BY <1>1, <1>2, <1>4, <2>1, <2>5 DEF ReadsWereTrue
<1>6. Serial(t)'
  BY <1>2, <1>4, <1>5 DEF Serial
<1>7. QED
  BY <1>1, <1>4, <1>6 DEF SInv

LEMMA ScanSerial ==
  ASSUME IInv, SInv, NEW t, Scan(t)
  PROVE  SInv'
<1> DEFINE rec == [txns[t] EXCEPT !.reads = @ \cup ScanReads(t)]
<1>0. PICK found, now0 : found = Found(t) /\ now0 = clock
  OBVIOUS
<1>1. t \in Active /\ t \in DOMAIN txns /\ txns' = [txns EXCEPT ![t] = rec]
      /\ UNCHANGED <<clock, versions>>
  BY DEF Scan, Active
<1>2. found \subseteq Keys /\ found = ScanReads(t)
  BY <1>0 DEF Found, ScanReads
<1>3. rec \in Records /\ rec.state = "active" /\ rec.start = txns[t].start
      /\ rec.commit = txns[t].commit /\ rec.isolation = txns[t].isolation
      /\ rec.reads = txns[t].reads \cup found /\ rec.writes = txns[t].writes
  BY <1>1, <1>2, RecordsKept DEF Records, IInv
<1>4. /\ \A u \in DOMAIN txns : u # t => seen'[u] = seen[u] /\ ranges'[u] = ranges[u]
      /\ \A s \in seen'[t] : s \in seen[t] \/ \E k \in found :
                               s = [key |-> k, txn |-> Visible(k, t).txn]
      /\ ranges'[t] = ranges[t] \cup {found \ DOMAIN txns[t].writes}
      /\ ranges' \in Seq(SUBSET SUBSET Keys) /\ Len(ranges') = Len(ranges)
  <2>1. seen \in Seq(SUBSET ReadsOf) /\ DOMAIN seen = DOMAIN txns
        /\ ranges \in Seq(SUBSET SUBSET Keys) /\ DOMAIN ranges = DOMAIN txns
        /\ ranges[t] \in SUBSET SUBSET Keys
    BY <1>1, RangesShape DEF IInv, Types, SInv
  <2>2. /\ seen' = [seen EXCEPT ![t] = @ \cup
             {[key |-> k, txn |-> Visible(k, t).txn] : k \in found \ DOMAIN txns[t].writes}]
        /\ ranges' = [ranges EXCEPT ![t] = @ \cup {found \ DOMAIN txns[t].writes}]
    BY <1>0 DEF Scan
  <2>3. ranges[t] \cup {found \ DOMAIN txns[t].writes} \in SUBSET SUBSET Keys
    BY <1>2, <2>1
  <2>4. ranges' \in Seq(SUBSET SUBSET Keys) /\ Len(ranges') = Len(ranges)
        /\ ranges'[t] = ranges[t] \cup {found \ DOMAIN txns[t].writes}
        /\ \A u \in DOMAIN txns : u # t => ranges'[u] = ranges[u]
    BY <1>1, <2>1, <2>2, <2>3, ExceptSeq
  <2>5. /\ \A u \in DOMAIN txns : u # t => seen'[u] = seen[u]
        /\ seen'[t] = seen[t] \cup
             {[key |-> k, txn |-> Visible(k, t).txn] : k \in found \ DOMAIN txns[t].writes}
    BY <1>1, <2>1, <2>2
  <2>6. QED
    BY <2>4, <2>5
<1> HIDE DEF rec
<1>5. /\ PastIsKept /\ txns'[t] = rec /\ DOMAIN txns' = DOMAIN txns
      /\ Len(txns') = Len(txns)
      /\ \A u \in DOMAIN txns : u # t => Serial(u)'
  BY <1>1, <1>3, <1>4, QuietSerial
<1>6. ASSUME txns[t].isolation = "SERIALIZABLE" PROVE ReadsWereTrue(t)'
  <2>1. /\ \A s \in seen[t] : /\ s.key \in txns'[t].reads
                              /\ \E now \in txns[t].start..clock' : IsLastWriter(s.txn, s.key, now)'
        /\ DOMAIN txns[t].writes = {} =>
             \A R \in ranges[t] : /\ R \subseteq txns'[t].reads
                                  /\ \E now \in txns[t].start..clock' : R = Rows(now)'
    BY <1>1, <1>3, <1>5, <1>6, ReadsStayTrue
  <2>2. now0 \in txns[t].start..clock' /\ now0 \in 0..clock
    BY <1>0, <1>1 DEF IInv, Types, Times
  <2>3. ASSUME NEW s \in seen'[t]
        PROVE  /\ s.key \in txns'[t].reads
               /\ \E now \in txns[t].start..clock' : IsLastWriter(s.txn, s.key, now)'
    <3>1. CASE s \in seen[t]
      BY <2>1, <3>1
    <3>2. CASE s \notin seen[t]
      <4>1. PICK k \in found : s = [key |-> k, txn |-> Visible(k, t).txn]
        BY <1>4, <2>3, <3>2
      <4>2. k \in Keys /\ s.key = k /\ s.txn = Visible(k, t).txn
        BY <1>2, <4>1
      <4>3. IsLastWriter(s.txn, s.key, now0)
        BY <1>0, <1>1, <1>6, <4>2, VisibleNow
      <4>4. IsLastWriter(s.txn, s.key, now0)'
        BY <1>5, <2>2, <4>3 DEF PastIsKept
      <4>5. QED
        BY <1>3, <1>5, <2>2, <4>2, <4>4
    <3>3. QED
      BY <3>1, <3>2
  <2>4. ASSUME DOMAIN txns[t].writes = {}, NEW R \in ranges'[t]
        PROVE  /\ R \subseteq txns'[t].reads
               /\ \E now \in txns[t].start..clock' : R = Rows(now)'
    <3>1. CASE R \in ranges[t]
      BY <2>1, <2>4, <3>1
    <3>2. CASE R \notin ranges[t]
      <4>1. R = found
        BY <1>4, <2>4, <3>2
      <4>2. \A k \in Keys : ValueOf(t, k) = Visible(k, t).value
        BY <2>4 DEF ValueOf
      <4>3. found = Rows(now0)
        BY <1>0, <1>1, <1>6, <4>2, VisibleNow DEF Found, Rows
      <4>4. R = Rows(now0)'
        BY <1>5, <2>2, <4>1, <4>3 DEF PastIsKept
      <4>5. QED
        BY <1>3, <1>5, <2>2, <4>1, <4>4
    <3>3. QED
      BY <3>1, <3>2
  <2>5. QED
    BY <1>3, <1>5, <2>3, <2>4 DEF ReadsWereTrue
<1>7. Serial(t)'
  BY <1>3, <1>5, <1>6 DEF Serial
<1>8. QED
  BY <1>4, <1>5, <1>7 DEF SInv

\* write and delete, rollback, and a commit that is refused.
LEMMA RecordSerial ==
  ASSUME IInv, SInv, NEW t \in Active, NEW rec \in Records,
         txns' = [txns EXCEPT ![t] = rec],
         rec.state = "aborted" \/ (rec.state = "active" /\ DOMAIN rec.writes # {}),
         rec.start = txns[t].start, rec.commit = txns[t].commit,
         rec.isolation = txns[t].isolation, rec.reads = txns[t].reads,
         UNCHANGED <<versions, seen, ranges>>,
         clock' = clock \/ (clock' = clock + 1 /\ rec.state = "aborted")
  PROVE  SInv'
<1>1. /\ PastIsKept /\ txns'[t] = rec /\ DOMAIN txns' = DOMAIN txns
      /\ Len(txns') = Len(txns)
      /\ \A u \in DOMAIN txns : u # t => Serial(u)'
  BY QuietSerial
<1>2. t \in DOMAIN txns
  BY DEF Active
<1>3. ASSUME txns[t].isolation = "SERIALIZABLE", rec.state = "active"
      PROVE  ReadsWereTrue(t)'
  <2>1. \A s \in seen[t] : /\ s.key \in txns'[t].reads
                           /\ \E now \in txns[t].start..clock' : IsLastWriter(s.txn, s.key, now)'
    BY <1>1, <1>2, <1>3, ReadsStayTrue
  <2>2. QED
    BY <1>1, <1>3, <2>1 DEF ReadsWereTrue
<1>4. Serial(t)'
  BY <1>1, <1>3 DEF Serial
<1>5. QED
  BY <1>1, <1>4 DEF SInv

LEMMA BeginSerial ==
  ASSUME IInv, SInv, NEW level \in Levels, BeginTxn(level)
  PROVE  SInv'
<1> DEFINE n == Len(txns) + 1
<1>1. /\ clock' = clock + 1 /\ seen' = Append(seen, {}) /\ ranges' = Append(ranges, {})
      /\ versions' = versions
  BY DEF BeginTxn
<1>2. PICK rec : txns' = Append(txns, rec) /\ rec.state = "active"
  BY DEF BeginTxn
<1>3. /\ clock \in Nat /\ txns \in Seq(Records) /\ Len(txns) \in Nat
      /\ DOMAIN txns = 1..Len(txns) /\ txns' \in Seq(Records)
  BY TxnsAreFinite, BeginStep DEF IInv, Types
<1>4. /\ DOMAIN txns' = 1..n /\ Len(txns') = n
      /\ txns'[n] = rec /\ \A u \in DOMAIN txns : txns'[u] = txns[u]
  BY <1>2, <1>3
<1>5. /\ seen'[n] = {} /\ \A u \in DOMAIN txns : seen'[u] = seen[u]
  BY <1>1, <1>3, AppendProperties, LenProperties DEF IInv, Types
<1>6. /\ ranges' \in Seq(SUBSET SUBSET Keys) /\ Len(ranges') = n
      /\ ranges'[n] = {} /\ \A u \in DOMAIN txns : ranges'[u] = ranges[u]
  BY <1>1, <1>3, AppendProperties, LenProperties DEF SInv
<1>7. PastIsKept
  <2>1. Committed' = Committed /\ \A u \in Committed : txns'[u] = txns[u]
    BY <1>2, <1>3, <1>4 DEF Committed
  <2>2. \A w, k, now : IsLastWriter(w, k, now) => IsLastWriter(w, k, now)'
    <3> TAKE w, k, now
    <3>1. Older(k, now)' = Older(k, now) /\ Older(k, now) \subseteq Committed
      BY <2>1 DEF Older
    <3>2. QED
      BY <3>1, <2>1 DEF IsLastWriter
  <2>3. \A now : Rows(now)' = Rows(now)
    <3>1. versions' = versions
      BY <1>1
    <3>2. QED
      BY <3>1 DEF Rows, HasValue
  <2>4. QED
    BY <1>1, <1>3, <2>2, <2>3 DEF PastIsKept
<1>8. ASSUME NEW u \in DOMAIN txns' PROVE Serial(u)'
  <2>1. CASE u = n
    BY <1>2, <1>4, <1>5, <1>6, <2>1 DEF Serial, ReadsWereTrue
  <2>2. CASE u # n
    <3>1. u \in DOMAIN txns
      BY <1>3, <1>4, <1>8, <2>2
    <3>2. Serial(u)
      BY <3>1 DEF SInv
    <3>3. QED
      BY <1>4, <1>5, <1>6, <1>7, <3>1, <3>2, OthersKept
  <2>3. QED
    BY <2>1, <2>2
<1>9. QED
  BY <1>4, <1>6, <1>8 DEF SInv

\* The versions that a commit adds are later than any time that has passed.
LEMMA InstallKeepsRows ==
  ASSUME IInv, NEW t, versions' = Install(t, clock + 1), NEW now \in 0..clock
  PROVE  Rows(now)' = Rows(now)
<1>1. clock \in Nat
  BY DEF IInv, Types
<1>2. ASSUME NEW k \in Keys PROVE HasValue(k, now)' <=> HasValue(k, now)
  <2>1. versions[k] \in Seq(Versions) /\ Len(versions[k]) \in Nat
        /\ DOMAIN versions[k] = 1..Len(versions[k])
    BY LenProperties DEF IInv, Types
  <2>2. CASE k \notin DOMAIN txns[t].writes
    <3>1. versions'[k] = versions[k]
      BY <2>2 DEF Install
    <3>2. QED
      BY <3>1 DEF HasValue
  <2>3. CASE k \in DOMAIN txns[t].writes
    <3> DEFINE n == Len(versions[k]) + 1
    <3>1. PICK v : versions'[k] = Append(versions[k], v) /\ v.timestamp = clock + 1
      BY <2>3 DEF Install
    <3>2. /\ DOMAIN versions'[k] = 1..n /\ versions'[k][n] = v
          /\ \A i \in 1..Len(versions[k]) : versions'[k][i] = versions[k][i]
      BY <2>1, <3>1
    <3>3. ~(versions'[k][n].timestamp <= now)
      BY <1>1, <3>1, <3>2
    <3>4. \A i \in DOMAIN versions'[k] : versions'[k][i].timestamp <= now =>
            i \in DOMAIN versions[k] /\ versions'[k][i] = versions[k][i]
      BY <2>1, <3>2, <3>3
    <3>5. \A i \in DOMAIN versions[k] :
            i \in DOMAIN versions'[k] /\ versions'[k][i] = versions[k][i]
      BY <2>1, <3>2
    <3>6. QED
      BY <3>4, <3>5 DEF HasValue
  <2>4. QED
    BY <2>2, <2>3
<1>3. QED
  BY <1>2 DEF Rows

\* Where nothing was committed since t began, the last writer and whether there
\* is a value are what they were at any time since.
LEMMA NothingSince ==
  ASSUME IInv, NEW t \in DOMAIN txns, NEW k \in Keys,
         \A u \in Committed : txns[u].commit > txns[t].start => k \notin DOMAIN txns[u].writes,
         NEW now \in txns[t].start..clock
  PROVE  /\ \A w : IsLastWriter(w, k, now) => IsLastWriter(w, k, clock)
         /\ HasValue(k, now) <=> HasValue(k, clock)
<1> USE DEF IInv
<1>1. clock \in Nat /\ txns[t].start \in 1..clock
      /\ \A u \in Committed : txns[u].commit \in 0..clock
  BY DEF Types, Times, Committed
<1>2. Older(k, now) = Older(k, clock)
  BY <1>1 DEF Older
<1>3. \A w : IsLastWriter(w, k, now) => IsLastWriter(w, k, clock)
  BY <1>2 DEF IsLastWriter
<1>4. \A i \in DOMAIN versions[k] : versions[k][i].timestamp <= now
                                    /\ versions[k][i].timestamp <= clock
  <2> TAKE i \in DOMAIN versions[k]
  <2>1. /\ versions[k][i].txn \in Committed
        /\ versions[k][i].timestamp = txns[versions[k][i].txn].commit
        /\ k \in DOMAIN txns[versions[k][i].txn].writes
    BY DEF Chains
  <2>2. ~(txns[versions[k][i].txn].commit > txns[t].start)
    BY <2>1
  <2>3. QED
    BY <1>1, <2>1, <2>2
<1>5. HasValue(k, now) <=> HasValue(k, clock)
  BY <1>4 DEF HasValue
<1>6. QED
  BY <1>3, <1>5

LEMMA CommitSerial ==
  ASSUME IInv, SInv, NEW t, Commit(t)
  PROVE  SInv'
<1>1. t \in Active /\ clock' = clock + 1 /\ UNCHANGED <<seen, ranges>>
  BY DEF Commit, CommitTimestamp
<1>2. txns[t] \in Records /\ t \in DOMAIN txns /\ clock \in Nat
      /\ txns[t].start \in 1..clock /\ txns[t].state = "active"
  BY <1>1, TxnsAreFinite DEF Active, IInv, Types, Times
<1>3. CASE txns[t].isolation = "SERIALIZABLE" /\ Overwritten(t)
  <2> DEFINE rec == [txns[t] EXCEPT !.state = "aborted"]
  <2>1. txns' = [txns EXCEPT ![t] = rec] /\ versions' = versions
    BY <1>3 DEF Commit
  <2>2. rec \in Records /\ rec.state = "aborted" /\ rec.start = txns[t].start
        /\ rec.commit = txns[t].commit /\ rec.isolation = txns[t].isolation
        /\ rec.reads = txns[t].reads
    BY <1>2 DEF Records
  <2> HIDE DEF rec
  <2>3. QED
    BY <1>1, <2>1, <2>2, RecordSerial
<1>4. CASE ~(txns[t].isolation = "SERIALIZABLE" /\ Overwritten(t))
  <2> DEFINE rec == [txns[t] EXCEPT !.state = "committed", !.commit = clock + 1]
  <2>1. txns' = [txns EXCEPT ![t].state = "committed", ![t].commit = clock + 1]
        /\ versions' = Install(t, clock + 1)
    BY <1>1, <1>4 DEF Commit
  <2>2. txns' = [txns EXCEPT ![t] = rec]
    BY <1>2, <2>1 DEF IInv, Types
  <2>3. /\ rec \in Records /\ rec.state = "committed" /\ rec.start = txns[t].start
        /\ rec.commit = clock + 1 /\ rec.isolation = txns[t].isolation
        /\ rec.writes = txns[t].writes
    <3>1. clock + 1 \in Nat
      BY <1>2
    <3>2. QED
      BY <1>2, <3>1 DEF Records
  <2> HIDE DEF rec
  <2>4. /\ Len(txns') = Len(txns) /\ DOMAIN txns' = DOMAIN txns
        /\ txns'[t] = rec /\ \A u \in DOMAIN txns : u # t => txns'[u] = txns[u]
        /\ \A w, k, now : now \in 0..clock /\ IsLastWriter(w, k, now)
                            => IsLastWriter(w, k, now)'
    BY <1>1, <2>2, <2>3, JoinsCommitted
  <2>5. PastIsKept
    BY <1>1, <1>2, <2>1, <2>4, InstallKeepsRows DEF PastIsKept
  <2>6. ASSUME NEW u \in DOMAIN txns, u # t PROVE Serial(u)'
    BY <1>1, <2>4, <2>5, <2>6, OthersKept DEF SInv
  <2>7. ASSUME txns[t].isolation = "SERIALIZABLE" PROVE ReadsAreTrue(t)'
    <3>1. ReadsWereTrue(t)
      BY <1>2, <2>7 DEF SInv, Serial
    <3>2. \A u \in Committed : txns[u].commit > txns[t].start =>
            txns[t].reads \cap DOMAIN txns[u].writes = {}
      BY <1>4, <2>7 DEF Overwritten
    <3>3. txns'[t].commit = clock + 1 /\ txns'[t].commit - 1 = clock
      <4>1. txns'[t] = rec /\ rec.commit = clock + 1
        BY <2>3, <2>4
      <4>2. clock \in Nat
        BY <1>2
      <4>3. (clock + 1) - 1 = clock
        BY <4>2
      <4>4. txns'[t].commit = clock + 1
        BY <4>1, Zenon
      <4>5. QED
        BY <4>3, <4>4, Zenon
    <3>4. ASSUME NEW s \in seen[t] PROVE IsLastWriter(s.txn, s.key, txns[t].commit - 1)'
      <4>1. PICK now \in txns[t].start..clock : IsLastWriter(s.txn, s.key, now)
        BY <3>1, <3>4 DEF ReadsWereTrue
      <4>2. s.key \in Keys /\ s.key \in txns[t].reads
        <5>1. s \in ReadsOf
          BY <1>2, <3>4, TxnsAreFinite DEF IInv
        <5>2. QED
          BY <3>1, <3>4, <5>1 DEF ReadsOf, ReadsWereTrue
      <4>3. \A u \in Committed : txns[u].commit > txns[t].start =>
              s.key \notin DOMAIN txns[u].writes
        BY <3>2, <4>2
      <4>4. PICK now0 : now0 = clock
        OBVIOUS
      <4>5. IsLastWriter(s.txn, s.key, now0)
        BY <1>2, <4>1, <4>2, <4>3, <4>4, NothingSince
      <4>6. IsLastWriter(s.txn, s.key, now0)'
        BY <1>2, <2>4, <4>4, <4>5
      <4>7. (txns[t].commit - 1)' = now0
        BY <3>3, <4>4
      <4>8. QED
        BY <4>6, <4>7
    <3>5. ASSUME DOMAIN txns[t].writes = {}, NEW R \in ranges[t], NEW Q \in ranges[t]
          PROVE  R = Q
      <4>1. PICK r \in txns[t].start..clock : R = Rows(r) /\ R \subseteq txns[t].reads
        BY <3>1, <3>5 DEF ReadsWereTrue
      <4>2. PICK q \in txns[t].start..clock : Q = Rows(q) /\ Q \subseteq txns[t].reads
        BY <3>1, <3>5 DEF ReadsWereTrue
      <4>3. ASSUME NEW k \in Keys, k \in txns[t].reads
            PROVE  HasValue(k, r) <=> HasValue(k, q)
        <5>1. \A u \in Committed : txns[u].commit > txns[t].start =>
                k \notin DOMAIN txns[u].writes
          BY <3>2, <4>3
        <5>2. HasValue(k, r) <=> HasValue(k, clock)
          BY <1>2, <5>1, NothingSince
        <5>3. HasValue(k, q) <=> HasValue(k, clock)
          BY <1>2, <5>1, NothingSince
        <5>4. QED
          BY <5>2, <5>3
      <4>4. QED
        BY <4>1, <4>2, <4>3 DEF Rows
    <3>6. QED
      BY <1>1, <1>2, <2>3, <2>4, <3>3, <3>4, <3>5 DEF ReadsAreTrue
  <2>8. Serial(t)'
    BY <2>3, <2>4, <2>7 DEF Serial
  <2>9. QED
    BY <1>1, <2>4, <2>6, <2>8 DEF SInv
<1>5. QED
  BY <1>3, <1>4

\* What an active SERIALIZABLE transaction read was true at some time since it
\* began; with the rest of SInv every call preserves that.
THEOREM SerialInvariance == Spec => []SInv
<1>1. Init => SInv
  BY EmptySeq DEF Init, SInv
<1>2. IInv /\ SInv /\ [Next]_vars => SInv'
  <2> SUFFICES ASSUME IInv, SInv, [Next]_vars PROVE SInv'
    OBVIOUS
  <2>1. ASSUME NEW level \in Levels, BeginTxn(level) PROVE SInv'
    BY <2>1, BeginSerial
  <2>2. ASSUME NEW t \in DOMAIN txns, NEW k \in Keys, Read(t, k) PROVE SInv'
    BY <2>2, ReadSerial
  <2>3. ASSUME NEW t \in DOMAIN txns, NEW k \in Keys, NEW value \in Values \cup {None},
               Write(t, k, value)
        PROVE  SInv'
    <3> DEFINE new == [x \in DOMAIN txns[t].writes \cup {k} |->
                         IF x = k THEN value ELSE txns[t].writes[x]]
               rec == [txns[t] EXCEPT !.writes = new]
    <3>1. t \in Active /\ txns' = [txns EXCEPT ![t] = rec]
          /\ UNCHANGED <<clock, versions, seen, ranges>>
      BY <2>3 DEF Write
    <3>2. txns[t] \in Records /\ txns[t].state = "active" /\ rec \in Records
      BY <3>1, RecordsKept DEF IInv
    <3>3. DOMAIN new # {}
      OBVIOUS
    <3> HIDE DEF new
    <3>4. rec.state = "active" /\ rec.start = txns[t].start /\ rec.writes = new
          /\ rec.commit = txns[t].commit /\ rec.isolation = txns[t].isolation
          /\ rec.reads = txns[t].reads
      BY <3>2 DEF Records
    <3> HIDE DEF rec
    <3>5. QED
      BY <3>1, <3>2, <3>3, <3>4, RecordSerial
  <2>4. ASSUME NEW t \in DOMAIN txns, Scan(t) PROVE SInv'
    BY <2>4, ScanSerial
  <2>5. ASSUME NEW t \in DOMAIN txns, Commit(t) PROVE SInv'
    BY <2>5, CommitSerial
  <2>6. ASSUME NEW t \in DOMAIN txns, Rollback(t) PROVE SInv'
    <3> DEFINE rec == [txns[t] EXCEPT !.state = "aborted"]
    <3>1. t \in Active /\ txns' = [txns EXCEPT ![t] = rec]
          /\ UNCHANGED <<clock, versions, seen, ranges>>
      BY <2>6 DEF Rollback
    <3>2. rec \in Records /\ rec.state = "aborted" /\ rec.start = txns[t].start
          /\ rec.commit = txns[t].commit /\ rec.isolation = txns[t].isolation
          /\ rec.reads = txns[t].reads
      BY <3>1, RecordsKept DEF IInv, Records
    <3> HIDE DEF rec
    <3>3. QED
      BY <3>1, <3>2, RecordSerial
  <2>7. CASE UNCHANGED vars
    <3>1. Committed' = Committed
      BY <2>7 DEF vars, Committed
    <3>2. \A k, now : Older(k, now)' = Older(k, now)
      BY <2>7, <3>1 DEF vars, Older
    <3>3. \A w, k, now : IsLastWriter(w, k, now)' <=> IsLastWriter(w, k, now)
      BY <2>7, <3>2 DEF vars, IsLastWriter
    <3>4. \A now : Rows(now)' = Rows(now)
      BY <2>7 DEF vars, Rows, HasValue
    <3>5. PastIsKept
      BY <2>7, <3>3, <3>4 DEF vars, PastIsKept, IInv, Types
    <3>6. \A u \in DOMAIN txns : Serial(u)'
      BY <2>7, <3>5, OthersKept DEF vars, SInv
    <3>7. QED
      BY <2>7, <3>6 DEF vars, SInv
  <2>8. QED
    BY <2>1, <2>2, <2>3, <2>4, <2>5, <2>6, <2>7 DEF Next
<1>3. QED
  BY <1>1, <1>2, Invariance, PTL DEF Spec

\* For any mixture of levels and any number of transactions: a SERIALIZABLE
\* transaction that commits would have read the same had all of it run at its
\* commit, and if it wrote nothing, all its scans found the same rows (commit).
THEOREM SerializableAtCommitHolds == Spec => []SerializableAtCommit
<1>1. IInv /\ SInv => SerializableAtCommit
  <2> SUFFICES ASSUME IInv, SInv, NEW t \in Committed, txns[t].isolation = "SERIALIZABLE"
               PROVE  /\ \A s \in seen[t] : s.txn = LastWriter(s.key, txns[t].commit - 1)
                      /\ DOMAIN txns[t].writes = {} => Cardinality(ranges[t]) <= 1
    BY DEF SerializableAtCommit
  <2>1. ReadsAreTrue(t)
    BY DEF SInv, Serial, Committed
  <2>2. \A s \in seen[t] : s.txn = LastWriter(s.key, txns[t].commit - 1)
    BY <2>1, LastWriterIs DEF ReadsAreTrue, IInv
  <2>3. ASSUME DOMAIN txns[t].writes = {} PROVE Cardinality(ranges[t]) <= 1
    <3>1. CASE ranges[t] = {}
      BY <3>1, FS_EmptySet
    <3>2. CASE ranges[t] # {}
      <4>1. PICK R : ranges[t] = {R}
        BY <2>1, <2>3, <3>2 DEF ReadsAreTrue
      <4>2. QED
        BY <4>1, FS_Singleton
    <3>3. QED
      BY <3>1, <3>2
  <2>4. QED
    BY <2>2, <2>3
<1>2. QED
  BY Invariance, SerialInvariance, <1>1, PTL
=============================================================================
