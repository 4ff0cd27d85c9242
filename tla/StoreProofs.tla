------------------------------ MODULE StoreProofs ------------------------------
(***************************************************************************)
(* Proofs about the tasks of Stores, for any keys, sizes, replicas and     *)
(* numbers of calls: the write-ahead log, the LSM tree, the replicated     *)
(* types and the garbage collector.                                        *)
(***************************************************************************)
EXTENDS Stores, NumberProofs, FiniteSetTheorems, SequenceTheorems, TLAPS

-----------------------------------------------------------------------------
(* The write-ahead log *)

LogRecords == [type : Types, txn : 0..MaxTxns, key : Keys \cup {NoKey}]

\* No record is of a transaction that has not begun.
LogIsPast == \A i \in DOMAIN log : log[i].txn \in 0..txns

\* The buffer of an active transaction is what replaying it would give.
BuffersAreLogged ==
  \A t \in Active, k \in Keys :
    /\ k \in DOMAIN buffers[t] <=> WritesOf(t, k) # {}
    /\ k \in DOMAIN buffers[t] => buffers[t][k] = Effect(Max(WritesOf(t, k)))

JournalInv == TypeOK /\ LogIsPast /\ BuffersAreLogged /\ RecoveryAgrees /\ DataIsCommitted
-----------------------------------------------------------------------------
LEMMA LogShape ==
  ASSUME TypeOK
  PROVE  /\ log \in Seq(LogRecords) /\ Len(log) \in Nat /\ DOMAIN log = 1..Len(log)
         /\ \A i \in DOMAIN log : log[i] \in LogRecords
         /\ CommittedTxns \subseteq 0..MaxTxns
         /\ \A t, k : WritesOf(t, k) \subseteq 1..Len(log)
<1>1. log \in Seq(LogRecords) /\ Len(log) \in Nat /\ DOMAIN log = 1..Len(log)
  BY LenProperties DEF TypeOK, LogRecords
<1>2. \A i \in DOMAIN log : log[i] \in LogRecords
  BY <1>1, ElementOfSeq
<1>3. CommittedTxns \subseteq 0..MaxTxns
  BY <1>2 DEF CommittedTxns, LogRecords
<1>4. \A t, k : WritesOf(t, k) \subseteq 1..Len(log)
  BY <1>1 DEF WritesOf
<1>5. QED
  BY <1>1, <1>2, <1>3, <1>4

\* What a record adds to the sets that the log is read through.
LEMMA LogGrows ==
  ASSUME TypeOK, NEW r \in LogRecords, log' = Append(log, r), NEW n, n = Len(log) + 1
  PROVE  /\ log' \in Seq(LogRecords) /\ Len(log') = n /\ DOMAIN log' = 1..n
         /\ log'[n] = r /\ \A i \in DOMAIN log : log'[i] = log[i]
         /\ \A t, k : WritesOf(t, k)' = WritesOf(t, k) \cup
              (IF r.type \in {"WRITE", "DELETE"} /\ r.txn = t /\ r.key = k THEN {n} ELSE {})
         /\ \A t : Ends(t)' = Ends(t) \cup
              (IF r.type \in {"COMMIT", "ABORT"} /\ r.txn = t THEN {n} ELSE {})
         /\ CommittedTxns' = CommittedTxns \cup (IF r.type = "COMMIT" THEN {r.txn} ELSE {})
         /\ \A i \in DOMAIN log : Effect(i)' = Effect(i)
<1>1. log \in Seq(LogRecords) /\ Len(log) \in Nat /\ DOMAIN log = 1..Len(log)
  BY LogShape
<1>2. /\ log' \in Seq(LogRecords) /\ Len(log') = n /\ DOMAIN log' = 1..n
      /\ log'[n] = r /\ \A i \in DOMAIN log : log'[i] = log[i]
  BY <1>1, AppendProperties, LenProperties
<1>3. DOMAIN log' = DOMAIN log \cup {n} /\ n \notin DOMAIN log
  BY <1>1, <1>2
<1>4. \A t, k : WritesOf(t, k)' = WritesOf(t, k) \cup
        (IF r.type \in {"WRITE", "DELETE"} /\ r.txn = t /\ r.key = k THEN {n} ELSE {})
  BY <1>2, <1>3 DEF WritesOf
<1>5. \A t : Ends(t)' = Ends(t) \cup
        (IF r.type \in {"COMMIT", "ABORT"} /\ r.txn = t THEN {n} ELSE {})
  BY <1>2, <1>3 DEF Ends
<1>6. CommittedTxns' = CommittedTxns \cup (IF r.type = "COMMIT" THEN {r.txn} ELSE {})
  <2>1. \A t : t \in CommittedTxns <=> \E j \in DOMAIN log : log[j].type = "COMMIT" /\ log[j].txn = t
    BY DEF CommittedTxns
  <2>2. \A t : t \in CommittedTxns' <=> \E j \in DOMAIN log' : log'[j].type = "COMMIT" /\ log'[j].txn = t
    BY DEF CommittedTxns
  <2>3. QED
    BY <1>2, <1>3, <2>1, <2>2
<1>7. \A i \in DOMAIN log : Effect(i)' = Effect(i)
  BY <1>2 DEF Effect
<1>8. QED
  BY <1>2, <1>4, <1>5, <1>6, <1>7

LEMMA RedoIs ==
  ASSUME TypeOK, NEW k, Writers(k) # {}, MaxTxns \in Nat
  PROVE  /\ Max(Writers(k)) \in Writers(k)
         /\ Max(WritesOf(Max(Writers(k)), k)) \in WritesOf(Max(Writers(k)), k)
         /\ Redo(k) = Effect(Max(WritesOf(Max(Writers(k)), k)))
<1>1. Writers(k) \in SUBSET (0..MaxTxns)
  BY LogShape DEF Writers
<1>2. Max(Writers(k)) \in Writers(k)
  BY <1>1, MaxProperty
<1>3. WritesOf(Max(Writers(k)), k) # {}
  BY <1>2 DEF Writers
<1>4. WritesOf(Max(Writers(k)), k) \in SUBSET (0..Len(log)) /\ Len(log) \in Nat
  BY LogShape
<1>5. QED
  BY <1>2, <1>3, <1>4, MaxProperty DEF Redo

\* What a record leaves alone that is no write of a committed transaction: the
\* values that recovery gives, and the order of commits if none is added.
LEMMA RedoKept ==
  ASSUME TypeOK, MaxTxns \in Nat, NEW r \in LogRecords, log' = Append(log, r),
         r.type \in {"WRITE", "DELETE"} => r.txn \notin CommittedTxns,
         NEW k \in Keys, r.type = "COMMIT" => WritesOf(r.txn, k)' = {}
  PROVE  /\ Writers(k)' = Writers(k)
         /\ \A t \in CommittedTxns : WritesOf(t, k)' = WritesOf(t, k)
         /\ Redo(k)' = Redo(k)
         /\ CommittedInOrder(k)' => CommittedInOrder(k)
<1> DEFINE n == Len(log) + 1
<1>1. /\ \A t, x : WritesOf(t, x)' = WritesOf(t, x) \cup
           (IF r.type \in {"WRITE", "DELETE"} /\ r.txn = t /\ r.key = x THEN {n} ELSE {})
      /\ \A t : Ends(t) \subseteq Ends(t)'
      /\ CommittedTxns' = CommittedTxns \cup (IF r.type = "COMMIT" THEN {r.txn} ELSE {})
      /\ \A i \in DOMAIN log : Effect(i)' = Effect(i)
  BY LogGrows
<1>2. \A t \in CommittedTxns : WritesOf(t, k)' = WritesOf(t, k)
  BY <1>1
<1>3. Writers(k)' = Writers(k)
  BY <1>1, <1>2 DEF Writers
<1>4. Redo(k)' = Redo(k)
  <2>1. CASE Writers(k) = {}
    BY <1>3, <2>1 DEF Redo
  <2>2. CASE Writers(k) # {}
    <3>1. PICK u, i : u = Max(Writers(k)) /\ i = Max(WritesOf(u, k))
      OBVIOUS
    <3>2. u \in CommittedTxns /\ i \in DOMAIN log /\ Redo(k) = Effect(i)
      BY <2>2, <3>1, RedoIs, LogShape DEF Writers
    <3>3. Max(Writers(k))' = u /\ Max(WritesOf(u, k))' = i
      BY <1>2, <1>3, <3>1, <3>2
    <3>4. Redo(k)' = Effect(i)'
      BY <1>3, <2>2, <3>3 DEF Redo
    <3>5. QED
      BY <1>1, <3>2, <3>4
  <2>3. QED
    BY <2>1, <2>2
<1>5. CommittedInOrder(k)' => CommittedInOrder(k)
  BY <1>1, <1>3 DEF CommittedInOrder
<1>6. QED
  BY <1>2, <1>3, <1>4, <1>5

\* Active transactions have not committed.
LEMMA ActiveIsNotCommitted ==
  ASSUME TypeOK, NEW t \in Active
  PROVE  t \notin CommittedTxns /\ t \in 1..txns /\ Ends(t) = {}
BY DEF TypeOK, CommittedTxns, Ends

\* A record that commits nothing leaves what is promised about unchanged data.
LEMMA DataKept ==
  ASSUME JournalInv, MaxTxns \in Nat, NEW r \in LogRecords, log' = Append(log, r),
         r.type \in {"WRITE", "DELETE"} => r.txn \notin CommittedTxns,
         r.type # "COMMIT", data' = data
  PROVE  RecoveryAgrees' /\ DataIsCommitted'
<1> USE DEF JournalInv
<1>1. \A k \in Keys : /\ \A t \in CommittedTxns : WritesOf(t, k)' = WritesOf(t, k)
                      /\ Redo(k)' = Redo(k)
                      /\ CommittedInOrder(k)' => CommittedInOrder(k)
  BY RedoKept
<1>2. CommittedTxns' = CommittedTxns
  BY LogGrows
<1>3. RecoveryAgrees'
  BY <1>1 DEF RecoveryAgrees
<1>4. DataIsCommitted'
  <2>1. SUFFICES ASSUME NEW k \in Keys, data[k] # Nothing
                 PROVE  \E t \in CommittedTxns' : WritesOf(t, k)' # {}
                                                  /\ data[k] = Max(WritesOf(t, k)')
    BY DEF DataIsCommitted
  <2>2. PICK t \in CommittedTxns : WritesOf(t, k) # {} /\ data[k] = Max(WritesOf(t, k))
    BY <2>1 DEF DataIsCommitted
  <2>3. QED
    BY <1>1, <1>2, <2>2
<1>5. QED
  BY <1>3, <1>4

\* A write or a delete by t: the buffer follows the log.
LEMMA WriteStep ==
  ASSUME JournalInv, MaxTxns \in Nat, NEW t \in 1..MaxTxns, NEW k \in Keys,
         NoKey \notin Keys, Put(t, k) \/ Delete(t, k)
  PROVE  JournalInv'
<1> USE DEF JournalInv
<1> DEFINE n == Len(log) + 1
<1>1. PICK type \in {"WRITE", "DELETE"} :
        /\ t \in Active /\ log' = Append(log, [type |-> type, txn |-> t, key |-> k])
        /\ buffers' = [buffers EXCEPT ![t] = With(@, k, IF type = "WRITE" THEN n ELSE Nothing)]
        /\ UNCHANGED <<txns, data>>
  BY DEF Put, Delete, Log, Lsn
<1>2. PICK r : r = [type |-> type, txn |-> t, key |-> k]
  OBVIOUS
<1>3. r \in LogRecords /\ r.type = type /\ r.txn = t /\ r.key = k /\ log' = Append(log, r)
  BY <1>1, <1>2 DEF LogRecords, Types
<1>4. t \notin CommittedTxns /\ t \in 1..txns
  BY <1>1, ActiveIsNotCommitted
<1>5. RecoveryAgrees' /\ DataIsCommitted'
  BY <1>1, <1>3, <1>4, DataKept
<1>6. /\ log' \in Seq(LogRecords) /\ Len(log') = n /\ DOMAIN log' = 1..n
      /\ log'[n] = r /\ \A i \in DOMAIN log : log'[i] = log[i]
      /\ \A u, x : WritesOf(u, x)' = WritesOf(u, x) \cup
           (IF u = t /\ x = k THEN {n} ELSE {})
      /\ \A u : Ends(u)' = Ends(u)
      /\ \A i \in DOMAIN log : Effect(i)' = Effect(i)
  <2>1. /\ log' \in Seq(LogRecords) /\ Len(log') = n /\ DOMAIN log' = 1..n
        /\ log'[n] = r /\ \A i \in DOMAIN log : log'[i] = log[i]
        /\ \A u, x : WritesOf(u, x)' = WritesOf(u, x) \cup
             (IF r.type \in {"WRITE", "DELETE"} /\ r.txn = u /\ r.key = x THEN {n} ELSE {})
        /\ \A u : Ends(u)' = Ends(u) \cup
             (IF r.type \in {"COMMIT", "ABORT"} /\ r.txn = u THEN {n} ELSE {})
        /\ \A i \in DOMAIN log : Effect(i)' = Effect(i)
    BY <1>3, LogGrows
  <2>2. r.type \in {"WRITE", "DELETE"} /\ r.type \notin {"COMMIT", "ABORT"}
    BY <1>3
  <2>3. QED
    BY <1>3, <2>1, <2>2
<1>7. /\ log \in Seq(LogRecords) /\ Len(log) \in Nat /\ DOMAIN log = 1..Len(log)
      /\ \A u, x : WritesOf(u, x) \subseteq 1..Len(log)
  BY LogShape
<1>8. Active' = Active /\ t \in DOMAIN buffers
  BY <1>1 DEF Active
<1>9. /\ DOMAIN buffers'[t] = DOMAIN buffers[t] \cup {k}
      /\ buffers'[t][k] = IF type = "WRITE" THEN n ELSE Nothing
      /\ \A x \in DOMAIN buffers[t] : x # k => buffers'[t][x] = buffers[t][x]
      /\ \A u \in Active : u # t => buffers'[u] = buffers[u]
  BY <1>1, <1>8 DEF With, Active
<1>10. LogIsPast'
  BY <1>1, <1>3, <1>4, <1>6, <1>7 DEF LogIsPast, TypeOK
<1>11. TypeOK'
  <2>1. \A u \in Active' : \A x \in DOMAIN buffers'[u] : x \in Keys /\ buffers'[u][x] \in 0..n
    <3> TAKE u \in Active'
    <3>1. \A x \in DOMAIN buffers[u] : x \in Keys /\ buffers[u][x] \in 0..Len(log)
      BY <1>8 DEF TypeOK
    <3>2. CASE u = t
      BY <1>7, <1>9, <3>1, <3>2 DEF Nothing
    <3>3. CASE u # t
      BY <1>7, <1>8, <1>9, <3>1, <3>3
    <3>4. QED
      BY <3>2, <3>3
  <2>2. data' \in [Keys -> 0..n]
    BY <1>1, <1>7 DEF TypeOK
  <2>3. Active' = {u \in 1..txns' : Ends(u)' = {}}
    BY <1>1, <1>6, <1>8 DEF TypeOK
  <2>4. QED
    BY <1>1, <1>6, <2>1, <2>2, <2>3 DEF TypeOK, LogRecords
<1>12. BuffersAreLogged'
  <2>1. SUFFICES ASSUME NEW u \in Active, NEW x \in Keys
                 PROVE  /\ x \in DOMAIN buffers'[u] <=> WritesOf(u, x)' # {}
                        /\ x \in DOMAIN buffers'[u] =>
                             buffers'[u][x] = Effect(Max(WritesOf(u, x)))'
    BY <1>8 DEF BuffersAreLogged
  <2>2. CASE u = t /\ x = k
    <3>1. WritesOf(u, x)' = WritesOf(u, x) \cup {n} /\ WritesOf(u, x) \subseteq 1..Len(log)
      BY <1>6, <1>7, <2>2
    <3>2. PICK S : S = WritesOf(u, x)'
      OBVIOUS
    <3>3. S \in SUBSET (0..n) /\ n \in Nat /\ n \in S /\ \A y \in S : y <= n
      BY <1>7, <3>1, <3>2
    <3>4. Max(S) = n
      BY <3>3, MaxProperty
    <3>5. Effect(Max(WritesOf(u, x)))' = IF type = "WRITE" THEN n ELSE Nothing
      BY <1>3, <1>6, <3>2, <3>4 DEF Effect
    <3>6. QED
      BY <1>9, <2>2, <3>1, <3>5
  <2>3. CASE ~(u = t /\ x = k)
    <3>1. WritesOf(u, x)' = WritesOf(u, x)
      BY <1>6, <2>3
    <3>2. /\ x \in DOMAIN buffers'[u] <=> x \in DOMAIN buffers[u]
          /\ x \in DOMAIN buffers[u] => buffers'[u][x] = buffers[u][x]
      BY <1>9, <2>3
    <3>3. /\ x \in DOMAIN buffers[u] <=> WritesOf(u, x) # {}
          /\ x \in DOMAIN buffers[u] => buffers[u][x] = Effect(Max(WritesOf(u, x)))
      BY DEF BuffersAreLogged
    <3>4. WritesOf(u, x) # {} => Effect(Max(WritesOf(u, x)))' = Effect(Max(WritesOf(u, x)))
      <4>1. PICK i : i = Max(WritesOf(u, x))
        OBVIOUS
      <4>2. WritesOf(u, x) # {} => i \in DOMAIN log
        <5>1. WritesOf(u, x) \in SUBSET (0..Len(log))
          BY <1>7
        <5>2. QED
          BY <1>7, <4>1, <5>1, MaxProperty
      <4>3. Max(WritesOf(u, x))' = i
        BY <3>1, <4>1
      <4>4. QED
        BY <1>6, <4>1, <4>2, <4>3
    <3>5. QED
      BY <3>1, <3>2, <3>3, <3>4
  <2>4. QED
    BY <2>2, <2>3
<1>13. QED
  BY <1>5, <1>10, <1>11, <1>12

\* A record that is no write changes no write set and no effect.
LEMMA NoWrite ==
  ASSUME JournalInv, NEW r \in LogRecords, log' = Append(log, r),
         r.type \notin {"WRITE", "DELETE"}
  PROVE  /\ \A u, x : WritesOf(u, x)' = WritesOf(u, x)
         /\ \A u \in Active, x \in Keys :
              /\ x \in DOMAIN buffers[u] <=> WritesOf(u, x)' # {}
              /\ x \in DOMAIN buffers[u] => buffers[u][x] = Effect(Max(WritesOf(u, x)))'
<1> USE DEF JournalInv
<1>1. /\ \A u, x : WritesOf(u, x)' = WritesOf(u, x) \cup
           (IF r.type \in {"WRITE", "DELETE"} /\ r.txn = u /\ r.key = x THEN {Len(log) + 1} ELSE {})
      /\ \A i \in DOMAIN log : Effect(i)' = Effect(i)
  BY LogGrows
<1>2. \A u, x : WritesOf(u, x)' = WritesOf(u, x)
  BY <1>1
<1>3. ASSUME NEW u \in Active, NEW x \in Keys
      PROVE  /\ x \in DOMAIN buffers[u] <=> WritesOf(u, x)' # {}
             /\ x \in DOMAIN buffers[u] => buffers[u][x] = Effect(Max(WritesOf(u, x)))'
  <2>1. /\ x \in DOMAIN buffers[u] <=> WritesOf(u, x) # {}
        /\ x \in DOMAIN buffers[u] => buffers[u][x] = Effect(Max(WritesOf(u, x)))
    BY DEF BuffersAreLogged
  <2>2. PICK i : i = Max(WritesOf(u, x))
    OBVIOUS
  <2>3. WritesOf(u, x) # {} => i \in DOMAIN log
    <3>1. WritesOf(u, x) \in SUBSET (0..Len(log)) /\ Len(log) \in Nat
      BY LogShape
    <3>2. QED
      BY <2>2, <3>1, MaxProperty DEF WritesOf
  <2>4. Max(WritesOf(u, x))' = i
    BY <1>2, <2>2
  <2>5. QED
    BY <1>1, <1>2, <2>1, <2>2, <2>3, <2>4
<1>4. QED
  BY <1>2, <1>3

\* Types and buffers after a record that is no write.
LEMMA ControlRecord ==
  ASSUME JournalInv, NEW r \in LogRecords, log' = Append(log, r),
         r.type \notin {"WRITE", "DELETE"},
         txns' \in 0..MaxTxns, txns' >= txns, r.txn \in 0..txns',
         Active' = {t \in 1..txns' : Ends(t)' = {}},
         \A u \in Active' : \/ u \in Active /\ buffers'[u] = buffers[u]
                            \/ DOMAIN buffers'[u] = {} /\ \A x \in Keys : WritesOf(u, x) = {},
         data' \in [Keys -> 0..Len(log)]
  PROVE  TypeOK' /\ LogIsPast' /\ BuffersAreLogged'
<1> USE DEF JournalInv
<1>1. /\ log' \in Seq(LogRecords) /\ Len(log') = Len(log) + 1
      /\ DOMAIN log' = 1..(Len(log) + 1)
      /\ log'[Len(log) + 1] = r /\ \A i \in DOMAIN log : log'[i] = log[i]
  BY LogGrows
<1>2. Len(log) \in Nat /\ DOMAIN log = 1..Len(log) /\ txns \in Nat
  BY LogShape DEF TypeOK
<1>3. LogIsPast'
  BY <1>1, <1>2 DEF LogIsPast
<1>4. \A u \in Active' : \A x \in DOMAIN buffers'[u] :
        x \in Keys /\ buffers'[u][x] \in 0..Len(log')
  <2>1. \A u \in Active : \A x \in DOMAIN buffers[u] :
          x \in Keys /\ buffers[u][x] \in 0..Len(log)
    BY DEF TypeOK
  <2>2. \A i \in 0..Len(log) : i \in 0..Len(log')
    BY <1>1, <1>2
  <2>3. QED
    BY <2>1, <2>2
<1>5. data' \in [Keys -> 0..Len(log')]
  BY <1>1, <1>2
<1>6. TypeOK'
  BY <1>1, <1>4, <1>5 DEF TypeOK, LogRecords
<1>7. BuffersAreLogged'
  BY NoWrite DEF BuffersAreLogged
<1>8. QED
  BY <1>3, <1>6, <1>7

LEMMA BeginStep ==
  ASSUME JournalInv, MaxTxns \in Nat, BeginTxn
  PROVE  JournalInv'
<1> USE DEF JournalInv
<1>1. PICK r : r = [type |-> "BEGIN", txn |-> txns + 1, key |-> NoKey]
  OBVIOUS
<1>2. /\ txns < MaxTxns /\ txns' = txns + 1 /\ log' = Append(log, r) /\ data' = data
      /\ buffers' = With(buffers, txns + 1, [k \in {} |-> Nothing])
  BY <1>1 DEF BeginTxn, Log
<1>3. txns \in Nat /\ txns' \in 0..MaxTxns /\ txns' >= txns
  BY <1>2 DEF TypeOK
<1>4. r \in LogRecords /\ r.type = "BEGIN" /\ r.txn = txns + 1
  BY <1>1, <1>2, <1>3 DEF LogRecords, Types
<1>5. \A u : Ends(u)' = Ends(u)
  <2>1. \A u : Ends(u)' = Ends(u) \cup
          (IF r.type \in {"COMMIT", "ABORT"} /\ r.txn = u THEN {Len(log) + 1} ELSE {})
    BY <1>2, <1>4, LogGrows
  <2>2. QED
    BY <1>4, <2>1
<1>6. Ends(txns + 1) = {} /\ \A x : WritesOf(txns + 1, x) = {}
  BY <1>3 DEF Ends, WritesOf, LogIsPast
<1>7. Active' = Active \cup {txns + 1} /\ buffers'[txns + 1] = [k \in {} |-> Nothing]
      /\ \A u \in Active : u # txns + 1 => buffers'[u] = buffers[u]
  BY <1>2 DEF With, Active
<1>8. Active' = {t \in 1..txns' : Ends(t)' = {}}
  <2>1. 1..txns' = (1..txns) \cup {txns + 1}
    BY <1>2, <1>3
  <2>2. QED
    BY <1>5, <1>6, <1>7, <2>1 DEF TypeOK
<1>9. txns + 1 \notin Active
  BY <1>3 DEF TypeOK
<1>10. data' \in [Keys -> 0..Len(log)] /\ r.txn \in 0..txns'
  BY <1>2, <1>3, <1>4 DEF TypeOK
<1>11. \A u \in Active' : \/ u \in Active /\ buffers'[u] = buffers[u]
                          \/ DOMAIN buffers'[u] = {} /\ \A x \in Keys : WritesOf(u, x) = {}
  BY <1>6, <1>7, <1>9
<1>12. TypeOK' /\ LogIsPast' /\ BuffersAreLogged'
  BY <1>2, <1>3, <1>4, <1>8, <1>10, <1>11, ControlRecord
<1>13. RecoveryAgrees' /\ DataIsCommitted'
  BY <1>2, <1>4, DataKept
<1>14. QED
  BY <1>12, <1>13

LEMMA CheckpointStep ==
  ASSUME JournalInv, MaxTxns \in Nat, Checkpoint
  PROVE  JournalInv'
<1> USE DEF JournalInv
<1>1. PICK r : r = [type |-> "CHECKPOINT", txn |-> 0, key |-> NoKey]
  OBVIOUS
<1>2. log' = Append(log, r) /\ UNCHANGED <<txns, buffers, data>>
  BY <1>1 DEF Checkpoint, Log
<1>3. txns \in 0..MaxTxns /\ data \in [Keys -> 0..Len(log)]
  BY DEF TypeOK
<1>4. r \in LogRecords /\ r.type = "CHECKPOINT" /\ r.txn = 0
  BY <1>1 DEF LogRecords, Types
<1>5. \A u : Ends(u)' = Ends(u)
  <2>1. \A u : Ends(u)' = Ends(u) \cup
          (IF r.type \in {"COMMIT", "ABORT"} /\ r.txn = u THEN {Len(log) + 1} ELSE {})
    BY <1>2, <1>4, LogGrows
  <2>2. QED
    BY <1>4, <2>1
<1>6. Active' = Active /\ Active' = {t \in 1..txns' : Ends(t)' = {}}
  BY <1>2, <1>5 DEF TypeOK, Active
<1>7. TypeOK' /\ LogIsPast' /\ BuffersAreLogged'
  BY <1>2, <1>3, <1>4, <1>6, ControlRecord
<1>8. RecoveryAgrees' /\ DataIsCommitted'
  BY <1>2, <1>4, DataKept
<1>9. QED
  BY <1>7, <1>8

\* The record that ends t takes it, and it alone, from the active ones.
LEMMA EndingRecord ==
  ASSUME JournalInv, MaxTxns \in Nat, NEW t \in Active, NEW r \in LogRecords,
         log' = Append(log, r), r.type \in {"COMMIT", "ABORT"}, r.txn = t,
         buffers' = Popped(t), txns' = txns, data' \in [Keys -> 0..Len(log)]
  PROVE  TypeOK' /\ LogIsPast' /\ BuffersAreLogged'
<1> USE DEF JournalInv
<1>1. txns \in 0..MaxTxns /\ t \in 1..txns /\ r.txn \in 0..txns'
  BY ActiveIsNotCommitted DEF TypeOK
<1>2. \A u : Ends(u)' = Ends(u) \cup
        (IF r.type \in {"COMMIT", "ABORT"} /\ r.txn = u THEN {Len(log) + 1} ELSE {})
  BY LogGrows
<1>3. Ends(t)' # {} /\ \A u : u # t => Ends(u)' = Ends(u)
  BY <1>2
<1>4. Active' = Active \ {t} /\ \A u \in Active' : u \in Active /\ buffers'[u] = buffers[u]
  BY DEF Popped, Active
<1>5. Active' = {u \in 1..txns' : Ends(u)' = {}}
  BY <1>3, <1>4 DEF TypeOK
<1>6. r.type \notin {"WRITE", "DELETE"} /\ txns' \in 0..MaxTxns /\ txns' >= txns
  BY <1>1
<1>7. QED
  BY <1>1, <1>4, <1>5, <1>6, ControlRecord

LEMMA AbortStep ==
  ASSUME JournalInv, MaxTxns \in Nat, NEW t \in 1..MaxTxns, Abort(t)
  PROVE  JournalInv'
<1> USE DEF JournalInv
<1>1. PICK r : r = [type |-> "ABORT", txn |-> t, key |-> NoKey]
  OBVIOUS
<1>2. /\ t \in Active /\ log' = Append(log, r) /\ buffers' = Popped(t)
      /\ UNCHANGED <<txns, data>>
  BY <1>1 DEF Abort, Log
<1>3. r \in LogRecords /\ r.type = "ABORT" /\ r.txn = t
  BY <1>1 DEF LogRecords, Types
<1>4. data' \in [Keys -> 0..Len(log)]
  BY <1>2 DEF TypeOK
<1>5. TypeOK' /\ LogIsPast' /\ BuffersAreLogged'
  BY <1>2, <1>3, <1>4, EndingRecord
<1>6. RecoveryAgrees' /\ DataIsCommitted'
  BY <1>2, <1>3, DataKept
<1>7. QED
  BY <1>5, <1>6

\* The commit of t applies its buffer; that is what replaying t last gives.
LEMMA CommitStep ==
  ASSUME JournalInv, MaxTxns \in Nat, NEW t \in 1..MaxTxns, Commit(t)
  PROVE  JournalInv'
<1> USE DEF JournalInv
<1> DEFINE n == Len(log) + 1
<1>1. PICK r : r = [type |-> "COMMIT", txn |-> t, key |-> NoKey]
  OBVIOUS
<1>2. /\ t \in Active /\ log' = Append(log, r) /\ buffers' = Popped(t) /\ txns' = txns
      /\ data' = [k \in Keys |-> IF k \in DOMAIN buffers[t] THEN buffers[t][k] ELSE data[k]]
  BY <1>1 DEF Commit, Log
<1>3. r \in LogRecords /\ r.type = "COMMIT" /\ r.txn = t
  BY <1>1 DEF LogRecords, Types
<1>4. data' \in [Keys -> 0..Len(log)]
  BY <1>2 DEF TypeOK
<1>5. TypeOK' /\ LogIsPast' /\ BuffersAreLogged'
  BY <1>2, <1>3, <1>4, EndingRecord
<1>6. t \notin CommittedTxns /\ Ends(t) = {} /\ Len(log) \in Nat /\ DOMAIN log = 1..Len(log)
  BY <1>2, ActiveIsNotCommitted, LogShape
<1>7. /\ \A u, x : WritesOf(u, x)' = WritesOf(u, x)
      /\ \A x \in Keys : /\ x \in DOMAIN buffers[t] <=> WritesOf(t, x) # {}
                         /\ x \in DOMAIN buffers[t] =>
                              buffers[t][x] = Effect(Max(WritesOf(t, x)))'
  BY <1>2, <1>3, NoWrite
<1>8. CommittedTxns' = CommittedTxns \cup {t}
      /\ \A u : Ends(u)' = Ends(u) \cup (IF u = t THEN {n} ELSE {})
  <2>1. /\ CommittedTxns' = CommittedTxns \cup (IF r.type = "COMMIT" THEN {r.txn} ELSE {})
        /\ \A u : Ends(u)' = Ends(u) \cup
             (IF r.type \in {"COMMIT", "ABORT"} /\ r.txn = u THEN {n} ELSE {})
    BY <1>2, <1>3, LogGrows
  <2>2. QED
    BY <1>3, <2>1
<1>9. ASSUME NEW k \in Keys, WritesOf(t, k) = {}
      PROVE  /\ CommittedInOrder(k)' => data'[k] = Redo(k)'
             /\ data'[k] # Nothing => \E u \in CommittedTxns' :
                  WritesOf(u, k)' # {} /\ data'[k] = Max(WritesOf(u, k)')
  <2>1. data'[k] = data[k]
    BY <1>2, <1>7, <1>9
  <2>2. Redo(k)' = Redo(k) /\ (CommittedInOrder(k)' => CommittedInOrder(k))
    BY <1>2, <1>3, <1>7, <1>9, RedoKept
  <2>3. data[k] # Nothing => \E u \in CommittedTxns :
          WritesOf(u, k) # {} /\ data[k] = Max(WritesOf(u, k))
    BY DEF DataIsCommitted
  <2>4. QED
    BY <1>7, <1>8, <2>1, <2>2, <2>3 DEF RecoveryAgrees
<1>10. ASSUME NEW k \in Keys, WritesOf(t, k) # {}
       PROVE  /\ CommittedInOrder(k)' => data'[k] = Redo(k)'
              /\ data'[k] # Nothing => \E u \in CommittedTxns' :
                   WritesOf(u, k)' # {} /\ data'[k] = Max(WritesOf(u, k)')
  <2>1. PICK S, i : S = WritesOf(t, k) /\ i = Max(S)
    OBVIOUS
  <2>2. WritesOf(t, k)' = S /\ Max(WritesOf(t, k))' = i /\ Max(WritesOf(t, k)') = i
    BY <1>7, <2>1
  <2>3. data'[k] = Effect(i)'
    BY <1>2, <1>7, <1>10, <2>2
  <2>4. data'[k] # Nothing => data'[k] = i
    BY <2>3 DEF Effect
  <2>5. ASSUME CommittedInOrder(k)' PROVE data'[k] = Redo(k)'
    <3>1. Writers(k)' = Writers(k) \cup {t}
      BY <1>7, <1>8, <1>10 DEF Writers
    <3>2. PICK W : W = Writers(k)'
      OBVIOUS
    <3>3. W \in SUBSET (0..MaxTxns) /\ t \in W
      <4>1. CommittedTxns' \subseteq 0..MaxTxns
        BY <1>8, LogShape
      <4>2. QED
        BY <3>1, <3>2, <4>1 DEF Writers
    <3>4. ASSUME NEW u \in W PROVE u <= t
      <4>1. SUFFICES ASSUME t < u PROVE FALSE
        BY <3>3
      <4>2. u \in CommittedTxns /\ u # t
        BY <3>1, <3>2, <4>1, <3>3 DEF Writers
      <4>3. PICK j \in DOMAIN log : log[j].type = "COMMIT" /\ log[j].txn = u
        BY <4>2 DEF CommittedTxns
      <4>4. j \in Ends(u)
        BY <4>3 DEF Ends
      <4>5. j \in Ends(u)' /\ n \in Ends(t)'
        BY <1>8, <4>4
      <4>6. t \in Writers(k)' /\ u \in Writers(k)'
        BY <3>2, <3>3
      <4>7. n < j
        BY <2>5, <4>1, <4>5, <4>6 DEF CommittedInOrder
      <4>8. QED
        BY <1>6, <4>7
    <3>5. Max(W) = t
      BY <3>3, <3>4, MaxProperty
    <3>6. Redo(k)' = Effect(Max(WritesOf(Max(Writers(k)), k)))'
      BY <3>2, <3>3 DEF Redo
    <3>7. Max(Writers(k))' = t
      BY <3>2, <3>5
    <3>8. QED
      BY <2>2, <2>3, <3>6, <3>7
  <2>6. QED
    BY <1>8, <1>10, <2>1, <2>2, <2>4, <2>5
<1>11. RecoveryAgrees' /\ DataIsCommitted'
  BY <1>9, <1>10 DEF RecoveryAgrees, DataIsCommitted
<1>12. QED
  BY <1>5, <1>11

LEMMA CrashStep ==
  ASSUME JournalInv, MaxTxns \in Nat, CrashAndRecover
  PROVE  JournalInv'
<1> USE DEF JournalInv
<1>1. data' = [k \in Keys |-> Redo(k)] /\ UNCHANGED <<log, txns, buffers>>
  BY DEF CrashAndRecover
<1>2. /\ \A u, x : WritesOf(u, x)' = WritesOf(u, x) /\ Ends(u)' = Ends(u)
      /\ CommittedTxns' = CommittedTxns /\ Active' = Active
      /\ \A i : Effect(i)' = Effect(i)
  BY <1>1 DEF WritesOf, Ends, CommittedTxns, Active, Effect
<1>3. \A k : Writers(k)' = Writers(k)
  BY <1>2 DEF Writers
<1>4. \A k : Redo(k)' = Redo(k)
  BY <1>1 DEF Redo, Writers, WritesOf, CommittedTxns, Effect
<1>5. ASSUME NEW k \in Keys
      PROVE  /\ Redo(k) \in 0..Len(log)
             /\ Redo(k) # Nothing => \E u \in CommittedTxns :
                  WritesOf(u, k) # {} /\ Redo(k) = Max(WritesOf(u, k))
  <2>1. CASE Writers(k) = {}
    BY <2>1, LogShape DEF Redo, Nothing
  <2>2. CASE Writers(k) # {}
    <3>1. PICK u, i : u = Max(Writers(k)) /\ i = Max(WritesOf(u, k))
      OBVIOUS
    <3>2. u \in Writers(k) /\ i \in WritesOf(u, k) /\ Redo(k) = Effect(i)
      BY <2>2, <3>1, RedoIs
    <3>3. i \in 1..Len(log) /\ Len(log) \in Nat
      BY <3>2, LogShape
    <3>4. Effect(i) \in {0, i}
      BY DEF Effect, Nothing
    <3>5. Redo(k) \in 0..Len(log)
      BY <3>2, <3>3, <3>4
    <3>6. u \in CommittedTxns /\ WritesOf(u, k) # {}
      BY <3>2 DEF Writers
    <3>7. Redo(k) # Nothing => Redo(k) = Max(WritesOf(u, k))
      BY <3>1, <3>2, <3>4 DEF Nothing
    <3>8. QED
      BY <3>5, <3>6, <3>7
  <2>3. QED
    BY <2>1, <2>2
<1>6. TypeOK' /\ LogIsPast'
  BY <1>1, <1>2, <1>5 DEF TypeOK, LogIsPast
<1>7. BuffersAreLogged'
  <2>1. \A u, x : Max(WritesOf(u, x))' = Max(WritesOf(u, x))
    BY <1>2
  <2>2. \A u, x : Effect(Max(WritesOf(u, x)))' = Effect(Max(WritesOf(u, x)))
    BY <1>1 DEF Effect, WritesOf
  <2>3. QED
    BY <1>1, <1>2, <2>2 DEF BuffersAreLogged
<1>8. RecoveryAgrees'
  BY <1>1, <1>4 DEF RecoveryAgrees
<1>9. DataIsCommitted'
  BY <1>1, <1>2, <1>5 DEF DataIsCommitted
<1>10. QED
  BY <1>6, <1>7, <1>8, <1>9

LEMMA StutterStep ==
  ASSUME JournalInv, UNCHANGED vars
  PROVE  JournalInv'
<1> USE DEF JournalInv
<1>1. UNCHANGED <<log, txns, buffers, data>>
  BY DEF vars
<1>2. /\ \A u, x : WritesOf(u, x)' = WritesOf(u, x) /\ Ends(u)' = Ends(u)
      /\ CommittedTxns' = CommittedTxns /\ Active' = Active
  BY <1>1 DEF WritesOf, Ends, CommittedTxns, Active
<1>3. \A k : Writers(k)' = Writers(k)
  BY <1>2 DEF Writers
<1>4. \A k : Redo(k)' = Redo(k)
  BY <1>1 DEF Redo, Writers, WritesOf, CommittedTxns, Effect
<1>5. \A k : CommittedInOrder(k)' <=> CommittedInOrder(k)
  BY <1>2, <1>3 DEF CommittedInOrder
<1>6. TypeOK' /\ LogIsPast'
  BY <1>1, <1>2 DEF TypeOK, LogIsPast
<1>7. BuffersAreLogged'
  <2>1. \A u, x : Effect(Max(WritesOf(u, x)))' = Effect(Max(WritesOf(u, x)))
    BY <1>1 DEF Effect, WritesOf
  <2>2. QED
    BY <1>1, <1>2, <2>1 DEF BuffersAreLogged
<1>8. RecoveryAgrees'
  BY <1>1, <1>4, <1>5 DEF RecoveryAgrees
<1>9. DataIsCommitted'
  <2>1. \A u, x : Max(WritesOf(u, x))' = Max(WritesOf(u, x))
    BY <1>2
  <2>2. QED
    BY <1>1, <1>2, <2>1 DEF DataIsCommitted
<1>10. QED
  BY <1>6, <1>7, <1>8, <1>9

\* Buffers and data follow from the log, after each call and each crash.
THEOREM JournalInvariance == Spec => []JournalInv
<1> USE WalAssumption
<1>1. Init => JournalInv
  <2> SUFFICES ASSUME Init PROVE JournalInv
    OBVIOUS
  <2>1. log = <<>> /\ txns = 0 /\ Active = {} /\ DOMAIN log = {} /\ Len(log) = 0
    BY DEF Init, Active
  <2>2. CommittedTxns = {} /\ \A k : Writers(k) = {}
    BY <2>1 DEF CommittedTxns, Writers
  <2>3. TypeOK
    <3>1. log \in Seq([type : Types, txn : 0..MaxTxns, key : Keys \cup {NoKey}])
      BY <2>1, EmptySeq
    <3>2. Active = {t \in 1..txns : Ends(t) = {}}
      BY <2>1
    <3>3. txns \in 0..MaxTxns /\ data \in [Keys -> 0..Len(log)]
      BY <2>1 DEF Init, Nothing
    <3>4. QED
      BY <2>1, <3>1, <3>2, <3>3 DEF TypeOK
  <2>4. LogIsPast /\ BuffersAreLogged
    BY <2>1 DEF LogIsPast, BuffersAreLogged
  <2>5. RecoveryAgrees /\ DataIsCommitted
    BY <2>2 DEF Init, RecoveryAgrees, DataIsCommitted, Redo
  <2>6. QED
    BY <2>3, <2>4, <2>5 DEF JournalInv
<1>2. JournalInv /\ [Next]_vars => JournalInv'
  <2> SUFFICES ASSUME JournalInv, [Next]_vars PROVE JournalInv'
    OBVIOUS
  <2>1. CASE BeginTxn
    BY <2>1, BeginStep
  <2>2. ASSUME NEW t \in 1..MaxTxns, NEW k \in Keys, Put(t, k) \/ Delete(t, k) PROVE JournalInv'
    BY <2>2, WriteStep
  <2>3. ASSUME NEW t \in 1..MaxTxns, Commit(t) PROVE JournalInv'
    BY <2>3, CommitStep
  <2>4. ASSUME NEW t \in 1..MaxTxns, Abort(t) PROVE JournalInv'
    BY <2>4, AbortStep
  <2>5. CASE Checkpoint
    BY <2>5, CheckpointStep
  <2>6. CASE CrashAndRecover
    BY <2>6, CrashStep
  <2>7. CASE UNCHANGED vars
    BY <2>7, StutterStep
  <2>8. QED
    BY <2>1, <2>2, <2>3, <2>4, <2>5, <2>6, <2>7 DEF Next
<1>3. QED
  BY <1>1, <1>2, PTL DEF Spec

\* However long the log, whatever is active and however often it crashes: a
\* recovery changes no key whose writers committed in the order they began
\* (WALRecovery.recover).
THEOREM RecoveryAgreesHolds == Spec => [](TypeOK /\ RecoveryAgrees)
<1>1. JournalInv => TypeOK /\ RecoveryAgrees
  BY DEF JournalInv
<1>2. QED
  BY JournalInvariance, <1>1, PTL

\* No value shows that its transaction did not commit or replaced itself
\* (commit, redo).
THEOREM DataIsCommittedHolds == Spec => []DataIsCommitted
<1>1. JournalInv => DataIsCommitted
  BY DEF JournalInv
<1>2. QED
  BY JournalInvariance, <1>1, PTL

-----------------------------------------------------------------------------
(* The LSM tree *)

TableSet == UNION {[D -> Tables!Entries] : D \in SUBSET Tables!TableKeys}
LevelLists == [Tables!Level -> Seq(TableSet)]
Truths == [Tables!TableKeys -> [seq : Nat, tombstone : BOOLEAN]]

\* The entries of k in a set of tables, in a level, in all levels.
Of(tables, k) == {t[k] : t \in {u \in tables : k \in DOMAIN u}}
At(lv, n, k) == Of(ToSet(lv[n]), k)
All(lv, k) == UNION {At(lv, n, k) : n \in Tables!Level}

\* A lower level has older entries, the first level has its tables in the order of
\* their entries, and no other has two entries of a key.
Sorted(lv) ==
  /\ \A m, n \in Tables!Level, k \in Tables!TableKeys :
       m < n => \A e \in At(lv, m, k), f \in At(lv, n, k) : f.seq < e.seq
  /\ \A n \in Tables!Level, k \in Tables!TableKeys :
       n # 1 => \A e, f \in At(lv, n, k) : e = f
  /\ \A i, j \in DOMAIN lv[1], k \in Tables!TableKeys :
       i < j /\ k \in DOMAIN lv[1][i] /\ k \in DOMAIN lv[1][j] => lv[1][i][k].seq < lv[1][j][k].seq

\* No entry is newer than the last write of its key.
Bounded(lv, last) == \A k \in Tables!TableKeys : \A e \in All(lv, k) : e.seq <= last[k].seq

\* The levels that have a limit are within it, but for the one that is excepted.
Within(lv, except) == \A n \in Tables!Level :
  n < MaxLevels /\ n # except => Len(lv[n]) <= Tables!MaxTables[n]

\* What compaction may do: lose entries, but no put that is the newest of its key.
Stays(lv, w) == \A k \in Tables!TableKeys :
  /\ All(w, k) \subseteq All(lv, k)
  /\ \A e \in All(lv, k) : ~e.tombstone /\ (\A f \in All(lv, k) : f.seq <= e.seq) => e \in All(w, k)

LEMMA TablesLists ==
  /\ \A s : Tables!ToSet(s) = ToSet(s)
  /\ \A s, gone : Tables!Without(s, gone) = Without(s, gone)
  /\ \A set : Tables!Max(set) = Max(set) /\ Tables!Min(set) = Min(set)
  /\ \A set : Tables!Cardinality(set) = Cardinality(set)
<1>1. \A s : Tables!ToSet(s) = ToSet(s)
  BY DEF Tables!ToSet, ToSet
<1>2. \A s, gone : Tables!Without(s, gone) = Without(s, gone)
  BY DEF Tables!Without, Without
<1>3. \A set : Tables!Max(set) = Max(set) /\ Tables!Min(set) = Min(set)
  BY DEF Tables!Max, Max, Tables!Min, Min
<1>4. ASSUME NEW set PROVE Tables!Cardinality(set) = Cardinality(set)
  BY DEF Tables!Cardinality, Cardinality, Tables!IsFiniteSet, IsFiniteSet
<1>5. QED
  BY <1>1, <1>2, <1>3, <1>4

LEMMA TablesConstants ==
  /\ NKeys \in Nat \ {0} /\ MemtableSize \in Nat \ {0}
  /\ MaxLevels \in Nat \ {0} /\ LevelRatio \in Nat \ {0} /\ MaxWrites \in Nat
BY StoresAssumption DEF Tables!LsmAssumption

\* A table is known by its keys and entries.
LEMMA TableIs ==
  /\ \A t \in TableSet : /\ DOMAIN t \subseteq Tables!TableKeys
                         /\ \A k \in DOMAIN t : t[k] \in Tables!Entries
                         /\ Tables!IsTable(t)
  /\ \A D \in SUBSET Tables!TableKeys : [D -> Tables!Entries] \subseteq TableSet
  /\ Tables!Empty \in TableSet
<1>1. \A t \in TableSet : /\ DOMAIN t \subseteq Tables!TableKeys
                          /\ \A k \in DOMAIN t : t[k] \in Tables!Entries
  BY DEF TableSet
<1>2. \A D \in SUBSET Tables!TableKeys : [D -> Tables!Entries] \subseteq TableSet
  BY DEF TableSet
<1>3. Tables!Empty \in [{} -> Tables!Entries]
  BY DEF Tables!Empty
<1>4. QED
  BY <1>1, <1>2, <1>3 DEF Tables!IsTable

\* Two tables with a key in common overlap.
LEMMA SharedKeyOverlaps ==
  ASSUME NEW s \in TableSet, NEW t \in TableSet, NEW k, k \in DOMAIN s, k \in DOMAIN t
  PROVE  Tables!Overlaps(s, t)
<1>1. PICK S : S = DOMAIN s
  OBVIOUS
<1>2. PICK T : T = DOMAIN t
  OBVIOUS
<1>3. S \in SUBSET (0 .. NKeys) /\ T \in SUBSET (0 .. NKeys) /\ NKeys \in Nat
  BY <1>1, <1>2, TableIs, TablesConstants DEF Tables!TableKeys
<1>4. k \in S /\ k \in T /\ S # {} /\ T # {} /\ S \in SUBSET Nat /\ T \in SUBSET Nat
  BY <1>1, <1>2, <1>3
<1>5. Max(S) \in S /\ k <= Max(S) /\ Max(T) \in T /\ k <= Max(T)
  BY <1>3, <1>4, MaxProperty
<1>6. Min(S) \in S /\ Min(S) <= k /\ Min(T) \in T /\ Min(T) <= k
  BY <1>4, MinProperty
<1>7. Max(S) \in Nat /\ Max(T) \in Nat /\ Min(S) \in Nat /\ Min(T) \in Nat /\ k \in Nat
  BY <1>4, <1>5, <1>6
<1>8. Max(S) >= Min(T) /\ Min(S) <= Max(T)
  BY <1>5, <1>6, <1>7
<1>9. QED
  BY <1>1, <1>2, <1>4, <1>8, TablesLists DEF Tables!Overlaps

LEMMA EntriesAre ==
  ASSUME NEW tables \in SUBSET TableSet, NEW k
  PROVE  /\ Of(tables, k) \subseteq Tables!Entries
         /\ \A e \in Of(tables, k) : e.seq \in Nat /\ e.seq # 0 /\ e.tombstone \in BOOLEAN
         /\ Of(tables, k) # {} <=> k \in Tables!KeysOf(tables)
         /\ Of(tables, k) # {} => k \in Tables!TableKeys
<1>1. Of(tables, k) \subseteq Tables!Entries
  BY TableIs DEF Of
<1>2. \A e \in Tables!Entries : e.seq \in Nat /\ e.seq # 0 /\ e.tombstone \in BOOLEAN
  BY DEF Tables!Entries
<1>3. Of(tables, k) # {} <=> k \in Tables!KeysOf(tables)
  BY DEF Of, Tables!KeysOf
<1>4. k \in Tables!KeysOf(tables) => k \in Tables!TableKeys
  BY TableIs DEF Tables!KeysOf
<1>5. QED
  BY <1>1, <1>2, <1>3, <1>4

\* The newest entry of a key is one of them.
LEMMA NewestIs ==
  ASSUME NEW tables \in SUBSET TableSet, NEW k, NEW top \in Nat, Of(tables, k) # {},
         \A e \in Of(tables, k) : e.seq <= top
  PROVE  /\ Tables!Newest(tables, k) \in Of(tables, k)
         /\ \A f \in Of(tables, k) : f.seq <= Tables!Newest(tables, k).seq
<1>1. PICK E : E = Of(tables, k)
  OBVIOUS
<1>2. PICK S : S = {e.seq : e \in E}
  OBVIOUS
<1>3. \A e \in E : e.seq \in 0 .. top
  BY <1>1, EntriesAre
<1>4. S \in SUBSET (0 .. top) /\ S # {}
  BY <1>1, <1>2, <1>3
<1>5. Max(S) \in S /\ \A x \in S : x <= Max(S)
  BY <1>4, MaxProperty
<1>6. PICK e \in E : e.seq = Max(S)
  BY <1>2, <1>5
<1>7. \A f \in E : f.seq <= e.seq
  BY <1>2, <1>5, <1>6
<1>8. Tables!Newest(tables, k) = CHOOSE x \in E : \A f \in E : f.seq <= x.seq
  BY <1>1 DEF Tables!Newest, Of
<1>9. QED
  BY <1>1, <1>7, <1>8

\* What a merge keeps: of each key the newest entry, if it is a put.
LEMMA MergeIs ==
  ASSUME NEW tables \in SUBSET TableSet, NEW last \in Truths,
         \A k \in Tables!TableKeys : \A e \in Of(tables, k) : e.seq <= last[k].seq
  PROVE  /\ Tables!Merge(tables) \in TableSet
         /\ \A k \in Tables!TableKeys :
              /\ k \in DOMAIN Tables!Merge(tables) =>
                   Of(tables, k) # {} /\ Tables!Merge(tables)[k] = Tables!Newest(tables, k)
              /\ Of(tables, k) # {} /\ ~Tables!Newest(tables, k).tombstone
                   => k \in DOMAIN Tables!Merge(tables)
<1>1. PICK D : D = {k \in Tables!KeysOf(tables) : ~Tables!Newest(tables, k).tombstone}
  OBVIOUS
<1>2. Tables!Merge(tables) = [k \in D |-> Tables!Newest(tables, k)]
  BY <1>1 DEF Tables!Merge
<1>3. ASSUME NEW k \in D
      PROVE  k \in Tables!TableKeys /\ Of(tables, k) # {} /\ Tables!Newest(tables, k) \in Tables!Entries
  <2>1. k \in Tables!TableKeys /\ Of(tables, k) # {}
    BY <1>1, EntriesAre
  <2>2. last[k].seq \in Nat
    BY <2>1 DEF Truths
  <2>3. Tables!Newest(tables, k) \in Of(tables, k)
    BY <2>1, <2>2, NewestIs
  <2>4. QED
    BY <2>1, <2>3, EntriesAre
<1>4. Tables!Merge(tables) \in [D -> Tables!Entries] /\ D \in SUBSET Tables!TableKeys
  BY <1>2, <1>3
<1>5. Tables!Merge(tables) \in TableSet
  BY <1>4, TableIs
<1>6. \A k \in Tables!TableKeys : k \in D <=> Of(tables, k) # {} /\ ~Tables!Newest(tables, k).tombstone
  BY <1>1, EntriesAre
<1>7. QED
  BY <1>2, <1>3, <1>5, <1>6

\* Entries of a key with the same number are the same entry.
LEMMA Distinct ==
  ASSUME NEW lv \in LevelLists, Sorted(lv), NEW k \in Tables!TableKeys,
         NEW e \in All(lv, k), NEW f \in All(lv, k), e.seq = f.seq
  PROVE  e = f
<1>1. PICK m \in Tables!Level, n \in Tables!Level : e \in At(lv, m, k) /\ f \in At(lv, n, k)
  BY DEF All
<1>2. m \in Nat /\ n \in Nat
  BY DEF Tables!Level
<1>3. e.seq \in Nat /\ f.seq \in Nat
  <2>1. ToSet(lv[m]) \in SUBSET TableSet /\ ToSet(lv[n]) \in SUBSET TableSet
    BY EndsOfLists DEF LevelLists
  <2>2. QED
    BY <1>1, <2>1, EntriesAre DEF At
<1>4. m = n
  BY <1>1, <1>2, <1>3 DEF Sorted
<1>5. CASE m # 1
  BY <1>1, <1>4, <1>5 DEF Sorted
<1>6. CASE m = 1
  <2>1. PICK i \in DOMAIN lv[1], j \in DOMAIN lv[1] :
          /\ k \in DOMAIN lv[1][i] /\ e = lv[1][i][k]
          /\ k \in DOMAIN lv[1][j] /\ f = lv[1][j][k]
    BY <1>1, <1>4, <1>6 DEF At, Of, ToSet
  <2>2. i \in Nat /\ j \in Nat
    <3>1. lv[1] \in Seq(TableSet)
      BY <1>6 DEF LevelLists
    <3>2. QED
      BY <2>1, <3>1, LenProperties
  <2>3. i = j
    <3>1. ~(i < j) /\ ~(j < i)
      BY <1>3, <2>1 DEF Sorted
    <3>2. QED
      BY <2>2, <3>1
  <2>4. QED
    BY <2>1, <2>3
<1>7. QED
  BY <1>5, <1>6

\* The next level after a compaction: what did not overlap, and the merged table.
NextLevel(sources, next) ==
  LET met == {t \in next : \E s \in sources : Tables!Overlaps(s, t)}
      merged == Tables!Merge(sources \cup met)
  IN  (next \ met) \cup (IF merged = Tables!Empty THEN {} ELSE {merged})

\* It has one entry of a key at most, from either level, and loses no newest put.
LEMMA NextLevelIs ==
  ASSUME NEW sources \in SUBSET TableSet, NEW next \in SUBSET TableSet, NEW last \in Truths,
         \A k \in Tables!TableKeys :
           /\ \A e \in Of(sources, k) \cup Of(next, k) : e.seq <= last[k].seq
           /\ \A e, f \in Of(sources, k) \cup Of(next, k) : e.seq = f.seq => e = f
           /\ \A e, f \in Of(next, k) : e = f,
         NEW k \in Tables!TableKeys
  PROVE  /\ Of(NextLevel(sources, next), k) \subseteq Of(sources, k) \cup Of(next, k)
         /\ \A e, f \in Of(NextLevel(sources, next), k) : e = f
         /\ \A e \in Of(sources, k) \cup Of(next, k) :
              ~e.tombstone /\ (\A f \in Of(sources, k) \cup Of(next, k) : f.seq <= e.seq)
                => e \in Of(NextLevel(sources, next), k)
<1>1. PICK met : met = {t \in next : \E s \in sources : Tables!Overlaps(s, t)}
  OBVIOUS
<1>2. PICK merged : merged = Tables!Merge(sources \cup met)
  OBVIOUS
<1>3. NextLevel(sources, next) = (next \ met) \cup (IF merged = Tables!Empty THEN {} ELSE {merged})
  BY <1>1, <1>2 DEF NextLevel
<1>4. PICK old : old = sources \cup met
  OBVIOUS
<1>5. old \in SUBSET TableSet /\ met \subseteq next /\ last[k].seq \in Nat
  BY <1>1, <1>4 DEF Truths
<1>6. \A x \in Tables!TableKeys :
        /\ Of(old, x) = Of(sources, x) \cup Of(met, x)
        /\ Of(next, x) = Of(met, x) \cup Of(next \ met, x)
  BY <1>4, <1>5 DEF Of
<1>7. \A x \in Tables!TableKeys : \A e \in Of(old, x) : e.seq <= last[x].seq
  BY <1>6
<1>8. /\ k \in DOMAIN merged => Of(old, k) # {} /\ merged[k] = Tables!Newest(old, k)
      /\ Of(old, k) # {} /\ ~Tables!Newest(old, k).tombstone => k \in DOMAIN merged
  BY <1>2, <1>4, <1>5, <1>7, MergeIs
<1>9. Of(old, k) # {} =>
        /\ Tables!Newest(old, k) \in Of(old, k)
        /\ \A f \in Of(old, k) : f.seq <= Tables!Newest(old, k).seq
  BY <1>5, <1>7, NewestIs
<1>10. Of(NextLevel(sources, next), k) =
         Of(next \ met, k) \cup (IF k \in DOMAIN merged THEN {merged[k]} ELSE {})
  <2>1. DOMAIN Tables!Empty = {}
    BY DEF Tables!Empty
  <2>2. k \in DOMAIN merged => merged # Tables!Empty
    BY <2>1
  <2>3. QED
    <3>1. PICK rest : rest = next \ met
      OBVIOUS
    <3>2. CASE merged = Tables!Empty
      <4>1. NextLevel(sources, next) = rest /\ k \notin DOMAIN merged
        BY <1>3, <2>2, <3>1, <3>2
      <4>2. QED
        BY <3>1, <4>1
    <3>3. CASE merged # Tables!Empty
      <4>1. NextLevel(sources, next) = rest \cup {merged}
        BY <1>3, <3>1, <3>3
      <4>2. Of(rest \cup {merged}, k) = Of(rest, k) \cup Of({merged}, k)
        BY DEF Of
      <4>3. Of({merged}, k) = IF k \in DOMAIN merged THEN {merged[k]} ELSE {}
        BY DEF Of
      <4>4. QED
        BY <3>1, <4>1, <4>2, <4>3
    <3>4. QED
      BY <3>2, <3>3
<1>11. Of(sources, k) # {} => Of(next \ met, k) = {}
  <2>1. SUFFICES ASSUME NEW s \in sources, k \in DOMAIN s, NEW t \in next \ met, k \in DOMAIN t
                 PROVE  FALSE
    BY DEF Of
  <2>2. Tables!Overlaps(s, t)
    BY <2>1, SharedKeyOverlaps
  <2>3. QED
    BY <1>1, <2>2
<1>12. Of(NextLevel(sources, next), k) \subseteq Of(sources, k) \cup Of(next, k)
  BY <1>6, <1>8, <1>9, <1>10
<1>13. ASSUME NEW e \in Of(NextLevel(sources, next), k), NEW f \in Of(NextLevel(sources, next), k)
       PROVE  e = f
  <2>1. CASE Of(sources, k) = {}
    BY <1>12, <2>1
  <2>2. CASE Of(sources, k) # {}
    BY <1>10, <1>11, <2>2
  <2>3. QED
    BY <2>1, <2>2
<1>14. ASSUME NEW e \in Of(sources, k) \cup Of(next, k), ~e.tombstone,
              \A f \in Of(sources, k) \cup Of(next, k) : f.seq <= e.seq
       PROVE  e \in Of(NextLevel(sources, next), k)
  <2>1. CASE e \in Of(next \ met, k)
    BY <1>10, <2>1
  <2>2. CASE e \in Of(old, k)
    <3>1. PICK top : top = Tables!Newest(old, k)
      OBVIOUS
    <3>2. top \in Of(old, k) /\ top.seq >= e.seq /\ top.seq <= e.seq
      BY <1>6, <1>9, <1>14, <2>2, <3>1
    <3>3. top.seq \in Nat /\ e.seq \in Nat
      BY <1>5, <2>2, <3>2, EntriesAre
    <3>4. top = e
      <4>1. top \in Of(sources, k) \cup Of(next, k)
        BY <1>6, <3>2
      <4>2. top.seq = e.seq
        BY <3>2, <3>3
      <4>3. QED
        BY <4>1, <4>2
    <3>5. QED
      BY <1>8, <1>10, <1>14, <2>2, <3>1, <3>4
  <2>3. QED
    BY <1>6, <2>1, <2>2
<1>15. QED
  BY <1>12, <1>13, <1>14

\* A compaction empties its level and makes the next one so; the others stay.
LEMMA CompactLevelIs ==
  ASSUME NEW lv \in LevelLists, NEW last \in Truths, Bounded(lv, last),
         NEW n \in Nat, n \in Tables!Level, n + 1 \in Tables!Level
  PROVE  /\ Tables!CompactLevel(lv, n) \in LevelLists
         /\ Tables!CompactLevel(lv, n)[n] = <<>>
         /\ ToSet(Tables!CompactLevel(lv, n)[n + 1]) = NextLevel(ToSet(lv[n]), ToSet(lv[n + 1]))
         /\ \A m \in Tables!Level : m # n /\ m # n + 1 => Tables!CompactLevel(lv, n)[m] = lv[m]
<1>1. PICK sources : sources = ToSet(lv[n])
  OBVIOUS
<1>2. PICK next : next = ToSet(lv[n + 1])
  OBVIOUS
<1>3. PICK met : met = {t \in next : \E s \in sources : Tables!Overlaps(s, t)}
  OBVIOUS
<1>4. PICK merged : merged = Tables!Merge(sources \cup met)
  OBVIOUS
<1>5. lv[n] \in Seq(TableSet) /\ lv[n + 1] \in Seq(TableSet)
  BY DEF LevelLists
<1>6. sources \in SUBSET TableSet /\ next \in SUBSET TableSet /\ met \in SUBSET TableSet
  BY <1>1, <1>2, <1>3, <1>5, EndsOfLists
<1>7. merged \in TableSet
  <2>1. \A k \in Tables!TableKeys : \A e \in Of(sources \cup met, k) : e.seq <= last[k].seq
    <3>1. SUFFICES ASSUME NEW k \in Tables!TableKeys, NEW e \in Of(sources \cup met, k)
                   PROVE  e.seq <= last[k].seq
      OBVIOUS
    <3>2. e \in Of(sources, k) \/ e \in Of(next, k)
      BY <1>3 DEF Of
    <3>3. e \in All(lv, k)
      BY <1>1, <1>2, <3>2 DEF All, At
    <3>4. QED
      BY <3>3 DEF Bounded
  <2>2. QED
    BY <1>4, <1>6, <2>1, MergeIs
<1>8. PICK remaining : remaining = Without(lv[n + 1], met)
  OBVIOUS
<1>9. remaining \in Seq(TableSet) /\ ToSet(remaining) = next \ met
  BY <1>2, <1>5, <1>8, RemovalKeeps
<1>10. PICK long : long = IF merged = Tables!Empty THEN remaining ELSE Append(remaining, merged)
  OBVIOUS
<1>11. long \in Seq(TableSet)
       /\ ToSet(long) = (next \ met) \cup (IF merged = Tables!Empty THEN {} ELSE {merged})
  BY <1>7, <1>9, <1>10, EndsOfLists
<1>12. Tables!CompactLevel(lv, n) = [lv EXCEPT ![n] = <<>>, ![n + 1] = long]
  BY <1>1, <1>2, <1>3, <1>4, <1>8, <1>10, TablesLists DEF Tables!CompactLevel
<1>13. <<>> \in Seq(TableSet) /\ n # n + 1
  BY EmptySeq
<1>14. Tables!CompactLevel(lv, n) \in LevelLists
  BY <1>11, <1>12, <1>13 DEF LevelLists
<1>15. /\ Tables!CompactLevel(lv, n)[n] = <<>> /\ Tables!CompactLevel(lv, n)[n + 1] = long
       /\ \A m \in Tables!Level : m # n /\ m # n + 1 => Tables!CompactLevel(lv, n)[m] = lv[m]
  BY <1>12, <1>13 DEF LevelLists
<1>16. ToSet(long) = NextLevel(sources, next)
  BY <1>3, <1>4, <1>11 DEF NextLevel
<1>17. QED
  BY <1>1, <1>2, <1>14, <1>15, <1>16

\* So it keeps the order of entries, and every newest put.
LEMMA CompactLevelStep ==
  ASSUME NEW lv \in LevelLists, Sorted(lv), NEW last \in Truths, Bounded(lv, last),
         NEW n \in Nat, n \in Tables!Level, n + 1 \in Tables!Level,
         NEW new, new = Tables!CompactLevel(lv, n)
  PROVE  Sorted(new) /\ Bounded(new, last) /\ Stays(lv, new)
<1>1. /\ new \in LevelLists /\ new[n] = <<>>
      /\ ToSet(new[n + 1]) = NextLevel(ToSet(lv[n]), ToSet(lv[n + 1]))
      /\ \A m \in Tables!Level : m # n /\ m # n + 1 => new[m] = lv[m]
  BY CompactLevelIs
<1>2. \A k \in Tables!TableKeys :
        /\ At(new, n, k) = {}
        /\ \A m \in Tables!Level : m # n /\ m # n + 1 => At(new, m, k) = At(lv, m, k)
  <2>1. ToSet(new[n]) = {}
    BY <1>1 DEF ToSet
  <2>2. QED
    BY <1>1, <2>1 DEF At, Of
<1>3. PICK sources \in SUBSET TableSet, next \in SUBSET TableSet :
        sources = ToSet(lv[n]) /\ next = ToSet(lv[n + 1])
  BY EndsOfLists DEF LevelLists
<1>4. \A k \in Tables!TableKeys : At(lv, n, k) = Of(sources, k) /\ At(lv, n + 1, k) = Of(next, k)
        /\ At(new, n + 1, k) = Of(NextLevel(sources, next), k)
  BY <1>1, <1>3 DEF At
<1>5. \A k \in Tables!TableKeys :
        /\ \A e \in Of(sources, k) \cup Of(next, k) : e.seq <= last[k].seq
        /\ \A e, f \in Of(sources, k) \cup Of(next, k) : e.seq = f.seq => e = f
        /\ \A e, f \in Of(next, k) : e = f
  <2>1. TAKE k \in Tables!TableKeys
  <2>2. Of(sources, k) \cup Of(next, k) \subseteq All(lv, k)
    BY <1>4 DEF All
  <2>3. \A e \in Of(sources, k) \cup Of(next, k) : e.seq <= last[k].seq
    BY <2>2 DEF Bounded
  <2>4. \A e, f \in Of(sources, k) \cup Of(next, k) : e.seq = f.seq => e = f
    BY <2>2, Distinct
  <2>5. n + 1 # 1
    BY DEF Tables!Level
  <2>6. \A e, f \in Of(next, k) : e = f
    BY <1>4, <2>5 DEF Sorted
  <2>7. QED
    BY <2>3, <2>4, <2>6
<1>6. ASSUME NEW k \in Tables!TableKeys
      PROVE  /\ At(new, n + 1, k) \subseteq At(lv, n, k) \cup At(lv, n + 1, k)
             /\ \A e, f \in At(new, n + 1, k) : e = f
             /\ \A e \in At(lv, n, k) \cup At(lv, n + 1, k) :
                  ~e.tombstone /\ (\A f \in At(lv, n, k) \cup At(lv, n + 1, k) : f.seq <= e.seq)
                    => e \in At(new, n + 1, k)
  <2>1. /\ Of(NextLevel(sources, next), k) \subseteq Of(sources, k) \cup Of(next, k)
        /\ \A e, f \in Of(NextLevel(sources, next), k) : e = f
        /\ \A e \in Of(sources, k) \cup Of(next, k) :
             ~e.tombstone /\ (\A f \in Of(sources, k) \cup Of(next, k) : f.seq <= e.seq)
               => e \in Of(NextLevel(sources, next), k)
    BY <1>5, NextLevelIs
  <2>2. QED
    BY <1>4, <2>1
<1>7. Stays(lv, new)
  <2>1. SUFFICES ASSUME NEW k \in Tables!TableKeys
                 PROVE  /\ All(new, k) \subseteq All(lv, k)
                        /\ \A e \in All(lv, k) :
                             ~e.tombstone /\ (\A f \in All(lv, k) : f.seq <= e.seq) => e \in All(new, k)
    BY DEF Stays
  <2>2. All(new, k) \subseteq All(lv, k)
    <3>1. SUFFICES ASSUME NEW m \in Tables!Level, NEW e \in At(new, m, k) PROVE e \in All(lv, k)
      BY DEF All
    <3>2. \E l \in Tables!Level : e \in At(lv, l, k)
      BY <1>2, <1>6, <3>1
    <3>3. QED
      BY <3>2 DEF All
  <2>3. ASSUME NEW m \in Tables!Level, NEW e \in At(lv, m, k),
               ~e.tombstone, \A f \in All(lv, k) : f.seq <= e.seq
        PROVE  e \in All(new, k)
    <3>1. \A f \in At(lv, n, k) \cup At(lv, n + 1, k) : f.seq <= e.seq
      BY <2>3 DEF All
    <3>2. \E l \in Tables!Level : e \in At(new, l, k)
      <4>1. CASE m = n \/ m = n + 1
        BY <1>6, <2>3, <3>1, <4>1
      <4>2. CASE m # n /\ m # n + 1
        BY <1>2, <4>2
      <4>3. QED
        BY <4>1, <4>2
    <3>3. QED
      BY <3>2 DEF All
  <2>4. QED
    BY <2>2, <2>3 DEF All
<1>8. Bounded(new, last)
  BY <1>7 DEF Bounded, Stays
<1>9. Sorted(new)
  <2>1. ASSUME NEW l \in Tables!Level, NEW m \in Tables!Level, NEW k \in Tables!TableKeys, l < m,
               NEW e \in At(new, l, k), NEW f \in At(new, m, k)
        PROVE  f.seq < e.seq
    <3>1. l \in Nat /\ m \in Nat /\ l # n /\ m # n
      BY <1>2, <2>1 DEF Tables!Level
    <3>2. PICK i \in Tables!Level : e \in At(lv, i, k) /\ (i = l \/ (l = n + 1 /\ i = n))
      BY <1>2, <1>6, <3>1
    <3>3. PICK j \in Tables!Level : f \in At(lv, j, k) /\ (j = m \/ (m = n + 1 /\ j = n))
      BY <1>2, <1>6, <3>1
    <3>4. i < j
      BY <2>1, <3>1, <3>2, <3>3
    <3>5. QED
      BY <3>2, <3>3, <3>4 DEF Sorted
  <2>2. ASSUME NEW m \in Tables!Level, NEW k \in Tables!TableKeys, m # 1,
               NEW e \in At(new, m, k), NEW f \in At(new, m, k)
        PROVE  e = f
    <3>1. CASE m = n + 1
      BY <1>6, <2>2, <3>1
    <3>2. CASE m # n + 1
      BY <1>2, <2>2, <3>2 DEF Sorted
    <3>3. QED
      BY <3>1, <3>2
  <2>3. ASSUME NEW i \in DOMAIN new[1], NEW j \in DOMAIN new[1], NEW k \in Tables!TableKeys,
               i < j, k \in DOMAIN new[1][i], k \in DOMAIN new[1][j]
        PROVE  new[1][i][k].seq < new[1][j][k].seq
    <3>1. 1 \in Tables!Level /\ n + 1 # 1
      BY TablesConstants DEF Tables!Level
    <3>2. CASE n = 1
      BY <1>1, <2>3, <3>2
    <3>3. CASE n # 1
      <4>1. new[1] = lv[1]
        BY <1>1, <3>1, <3>3
      <4>2. QED
        BY <2>3, <4>1 DEF Sorted
    <3>4. QED
      BY <3>2, <3>3
  <2>4. QED
    BY <2>1, <2>2, <2>3 DEF Sorted
<1>10. QED
  BY <1>7, <1>8, <1>9

\* The limits of the levels are numbers, powers of the ratio.
LEMMA LimitsAreNumbers == \A n \in 0 .. MaxLevels : Tables!MaxTables[n] \in Nat
<1> DEFINE Def(f, i) == IF i = 0 THEN 1 ELSE LevelRatio * f[i - 1]
           K == CHOOSE f : f = [i \in 0 .. MaxLevels |-> Def(f, i)]
<1>1. LevelRatio \in Nat /\ MaxLevels \in Nat
  BY TablesConstants
<1>2. PICK step : step = [p \in (1 .. MaxLevels) \X Nat |-> LevelRatio * p[2]]
  OBVIOUS
<1>3. ASSUME NEW i \in 1 .. MaxLevels, NEW v \in Nat PROVE step[<<i, v>>] = LevelRatio * v
  BY <1>2
<1>4. \A v \in Nat : LevelRatio * v \in Nat
  BY <1>1
<1>5. PICK f : Solves(f, 0, MaxLevels, Nat, 1, step)
  <2>1. PICK zero, one : zero = 0 /\ one = 1
    OBVIOUS
  <2>2. zero \in Nat /\ zero <= MaxLevels /\ one \in Nat
    BY <1>1, <2>1
  <2>3. step \in [(1 .. MaxLevels) \X Nat -> Nat]
    BY <1>2, <1>4
  <2>4. step \in [((zero + 1) .. MaxLevels) \X Nat -> Nat]
    <3>1. zero + 1 = 1
      BY <2>1
    <3>2. QED
      BY ONLY <2>3, <3>1
  <2>5. PICK f : Solves(f, zero, MaxLevels, Nat, one, step)
    BY ONLY <1>1, <2>2, <2>4, Recursion
  <2>6. QED
    BY <2>1, <2>5
<1>6. /\ f \in [0 .. MaxLevels -> Nat] /\ f[0] = 1
      /\ \A i \in 1 .. MaxLevels : f[i] = step[<<i, f[i - 1]>>]
  BY <1>5 DEF Solves
<1>7. ASSUME NEW i \in 0 .. MaxLevels PROVE f[i] = Def(f, i)
  <2>1. CASE i = 0
    BY <1>6, <2>1
  <2>2. CASE i # 0
    <3>1. i \in 1 .. MaxLevels /\ i - 1 \in 0 .. MaxLevels
      BY <1>1, <2>2
    <3>2. f[i - 1] \in Nat
      BY <1>6, <3>1
    <3>3. QED
      BY <1>3, <1>6, <2>2, <3>1, <3>2
  <2>3. QED
    BY <2>1, <2>2
<1>8. f = [i \in 0 .. MaxLevels |-> Def(f, i)]
  BY <1>6, <1>7
<1>9. K = [i \in 0 .. MaxLevels |-> Def(K, i)]
  BY <1>8
<1>10. Tables!MaxTables = K
  BY DEF Tables!MaxTables
<1> HIDE DEF K
<1>11. PICK P : P = {i \in 0 .. MaxLevels : K[i] \in Nat}
  OBVIOUS
<1>12. 0 \in P
  BY <1>1, <1>9, <1>11
<1>13. ASSUME NEW i \in 0 .. (MaxLevels - 1), i \in P PROVE i + 1 \in P
  <2>1. i + 1 \in 0 .. MaxLevels /\ i + 1 # 0 /\ (i + 1) - 1 = i
    BY <1>1
  <2>2. K[i + 1] = LevelRatio * K[i]
    BY <1>9, <2>1
  <2>3. K[i + 1] \in Nat
    BY <1>4, <1>11, <1>13, <2>2
  <2>4. QED
    BY <1>11, <2>1, <2>3
<1>14. \A i \in 0 .. MaxLevels : i \in P
  BY <1>1, <1>12, <1>13, UpTo
<1>15. QED
  BY <1>10, <1>11, <1>14

\* What holds of the levels through every flush and compaction.
Kept(lv, last) == lv \in LevelLists /\ Sorted(lv) /\ Bounded(lv, last)

LEMMA StaysOn ==
  ASSUME NEW u, NEW v, NEW w, Stays(u, v), Stays(v, w)
  PROVE  Stays(u, w)
<1>1. SUFFICES ASSUME NEW k \in Tables!TableKeys
               PROVE  /\ All(w, k) \subseteq All(u, k)
                      /\ \A e \in All(u, k) :
                           ~e.tombstone /\ (\A f \in All(u, k) : f.seq <= e.seq) => e \in All(w, k)
  BY DEF Stays
<1>2. All(w, k) \subseteq All(v, k) /\ All(v, k) \subseteq All(u, k)
  BY DEF Stays
<1>3. ASSUME NEW e \in All(u, k), ~e.tombstone, \A f \in All(u, k) : f.seq <= e.seq
      PROVE  e \in All(w, k)
  <2>1. e \in All(v, k) /\ \A f \in All(v, k) : f.seq <= e.seq
    BY <1>2, <1>3 DEF Stays
  <2>2. QED
    BY <1>3, <2>1 DEF Stays
<1>4. QED
  BY <1>2, <1>3

\* A level after another: the one that is too long is compacted into the next, which
\* may be too long then, so the limits hold when there is no level to go on to.
LEMMA CompactStep ==
  ASSUME NEW last \in Truths, NEW n \in Tables!Level, NEW lv, Kept(lv, last), Within(lv, n)
  PROVE  /\ Kept(Tables!Compact(lv, n), last)
         /\ Stays(lv, Tables!Compact(lv, n))
         /\ Within(Tables!Compact(lv, n), 0)
<1> DEFINE More(v, m) == LET new == Tables!CompactLevel(v.levels, m - 1)
                         IN  [levels |-> new, go |-> Len(new[m]) > Tables!MaxTables[m]]
           Start == [levels |-> lv, go |-> lv[n] # <<>>]
           Def(f, m) == IF m = n THEN Start
                        ELSE IF f[m - 1].go THEN More(f[m - 1], m) ELSE f[m - 1]
           Turn(m, v) == IF v.go THEN More(v, m) ELSE v
           K == CHOOSE at : at = [m \in n .. MaxLevels |-> Def(at, m)]
<1>1. n \in Nat /\ MaxLevels \in Nat /\ n <= MaxLevels /\ n >= 1
  BY TablesConstants DEF Tables!Level
<1>2. PICK V : V = {v \in [levels : LevelLists, go : BOOLEAN] : Kept(v.levels, last) /\ Stays(lv, v.levels)}
  OBVIOUS
<1>3. Start \in V
  <2>1. Stays(lv, lv)
    BY DEF Stays
  <2>2. Start \in [levels : LevelLists, go : BOOLEAN]
    BY DEF Kept
  <2>3. QED
    BY <1>2, <2>1, <2>2
<1>4. ASSUME NEW m \in (n + 1) .. MaxLevels, NEW v \in V PROVE More(v, m) \in V
  <2>1. PICK u, i : u = v.levels /\ i = m - 1
    OBVIOUS
  <2>2. PICK new : new = Tables!CompactLevel(u, i)
    OBVIOUS
  <2>3. Kept(u, last) /\ Stays(lv, u)
    BY <1>2, <2>1
  <2>4. i \in Nat /\ i \in Tables!Level /\ i + 1 \in Tables!Level /\ i + 1 = m
    BY <1>1, <2>1 DEF Tables!Level
  <2>5. new \in LevelLists
    BY <2>2, <2>3, <2>4, CompactLevelIs DEF Kept
  <2>6. Sorted(new) /\ Bounded(new, last) /\ Stays(u, new)
    BY <2>2, <2>3, <2>4, CompactLevelStep DEF Kept
  <2>7. Stays(lv, new)
    BY <2>3, <2>6, StaysOn
  <2>8. More(v, m) = [levels |-> new, go |-> Len(new[m]) > Tables!MaxTables[m]]
    BY <2>1, <2>2
  <2> HIDE DEF More
  <2>9. QED
    BY <1>2, <2>5, <2>6, <2>7, <2>8 DEF Kept
<1>5. ASSUME NEW m \in (n + 1) .. MaxLevels, NEW v \in V PROVE Turn(m, v) \in V
  BY <1>4
<1> HIDE DEF More, Start
<1>6. PICK step : step = [p \in ((n + 1) .. MaxLevels) \X V |-> Turn(p[1], p[2])]
  OBVIOUS
<1>7. \A m \in (n + 1) .. MaxLevels, v \in V : step[<<m, v>>] = Turn(m, v)
  BY <1>6
<1>8. step \in [((n + 1) .. MaxLevels) \X V -> V]
  <2> HIDE DEF Turn
  <2>1. ASSUME NEW p \in ((n + 1) .. MaxLevels) \X V PROVE Turn(p[1], p[2]) \in V
    <3>1. p[1] \in (n + 1) .. MaxLevels /\ p[2] \in V
      OBVIOUS
    <3>2. QED
      BY ONLY <1>5, <3>1
  <2>2. QED
    BY <1>6, <2>1
<1>9. PICK f : Solves(f, n, MaxLevels, V, Start, step)
  BY ONLY <1>1, <1>3, <1>8, Recursion
<1>10. f = [m \in n .. MaxLevels |-> Def(f, m)]
  <2>1. /\ f \in [n .. MaxLevels -> V] /\ f[n] = Start
        /\ \A i \in (n + 1) .. MaxLevels : f[i] = step[<<i, f[i - 1]>>]
    BY <1>9 DEF Solves
  <2>2. ASSUME NEW m \in n .. MaxLevels PROVE f[m] = Def(f, m)
    <3>1. CASE m = n
      BY <2>1, <3>1
    <3>2. CASE m # n
      <4>1. m \in (n + 1) .. MaxLevels /\ m - 1 \in n .. MaxLevels
        BY <1>1, <3>2
      <4>2. f[m - 1] \in V /\ f[m] = step[<<m, f[m - 1]>>]
        BY <2>1, <4>1
      <4>3. f[m] = Turn(m, f[m - 1])
        BY <1>7, <4>1, <4>2
      <4>4. QED
        BY <3>2, <4>3
    <3>3. QED
      BY <3>1, <3>2
  <2> HIDE DEF Def
  <2>3. QED
    BY <2>1, <2>2
<1>11. K = [m \in n .. MaxLevels |-> Def(K, m)]
  BY <1>10
<1>12. Tables!Compact(lv, n) = K[MaxLevels].levels
  BY DEF Tables!Compact, More, Start
<1> HIDE DEF K
<1>13. K[n] = Start
  BY <1>1, <1>11
<1>14. \A m \in (n + 1) .. MaxLevels : K[m] = Turn(m, K[m - 1])
  BY <1>1, <1>11
<1> HIDE DEF Def
<1>15. PICK P : P = {m \in n .. MaxLevels : K[m] \in V /\ Within(K[m].levels, IF K[m].go THEN m ELSE 0)}
  OBVIOUS
<1>16. n \in P
  <2>1. Start.levels = lv /\ Start.go = (lv[n] # <<>>)
    BY DEF Start
  <2>2. CASE lv[n] # <<>>
    <3>1. Start.go /\ Within(Start.levels, n)
      BY <2>1, <2>2
    <3>2. Within(Start.levels, IF Start.go THEN n ELSE 0)
      BY <3>1
    <3>3. n \in n .. MaxLevels
      BY <1>1
    <3>4. QED
      BY <1>3, <1>13, <1>15, <3>2, <3>3
  <2>3. CASE lv[n] = <<>>
    <3>1. Len(lv[n]) = 0 /\ n \in 0 .. MaxLevels
      BY <1>1, <2>3
    <3>2. Len(lv[n]) <= Tables!MaxTables[n]
      BY <3>1, LimitsAreNumbers
    <3>3. Within(lv, 0)
      BY <3>2 DEF Within
    <3>4. Within(Start.levels, IF Start.go THEN n ELSE 0) /\ n \in n .. MaxLevels
      BY <1>1, <2>1, <2>3, <3>3
    <3>5. QED
      BY <1>3, <1>13, <1>15, <3>4
  <2>4. QED
    BY <2>2, <2>3
<1>17. ASSUME NEW i \in n .. (MaxLevels - 1), i \in P PROVE i + 1 \in P
  <2>1. PICK m, v : m = i + 1 /\ v = K[i]
    OBVIOUS
  <2>2. m \in (n + 1) .. MaxLevels /\ m - 1 = i /\ m \in n .. MaxLevels
    BY <1>1, <2>1
  <2>3. v \in V /\ Within(v.levels, IF v.go THEN i ELSE 0) /\ K[m] = Turn(m, v)
    BY <1>14, <1>15, <1>17, <2>1, <2>2
  <2>4. K[m] \in V
    BY <1>5, <2>2, <2>3
  <2>5. CASE ~v.go
    BY <1>15, <2>1, <2>2, <2>3, <2>4, <2>5
  <2>6. CASE v.go
    <3>1. PICK u, new : u = v.levels /\ new = Tables!CompactLevel(u, i)
      OBVIOUS
    <3>2. K[m] = [levels |-> new, go |-> Len(new[m]) > Tables!MaxTables[m]]
      BY <2>2, <2>3, <2>6, <3>1 DEF More
    <3>3. i \in Nat /\ i \in Tables!Level /\ i + 1 \in Tables!Level /\ Kept(u, last)
      BY <1>1, <1>2, <2>3, <3>1 DEF Tables!Level
    <3>4. new \in LevelLists /\ new[i] = <<>>
          /\ \A l \in Tables!Level : l # i /\ l # m => new[l] = u[l]
      BY <2>1, <3>1, <3>3, CompactLevelIs DEF Kept
    <3>5. \A l \in Tables!Level : Tables!MaxTables[l] \in Nat /\ Len(new[l]) \in Nat
      <4>1. \A l \in Tables!Level : l \in 0 .. MaxLevels /\ new[l] \in Seq(TableSet)
        BY <1>1, <3>4 DEF Tables!Level, LevelLists
      <4>2. QED
        BY <4>1, LimitsAreNumbers, LenProperties
    <3>6. ASSUME NEW l \in Tables!Level, l < MaxLevels, l # (IF K[m].go THEN m ELSE 0)
          PROVE  Len(new[l]) <= Tables!MaxTables[l]
      <4>1. CASE l = i
        <5>1. Len(new[l]) = 0
          BY <3>4, <4>1
        <5>2. QED
          BY <3>5, <5>1
      <4>2. CASE l = m
        <5>1. ~K[m].go /\ K[m].go = (Len(new[m]) > Tables!MaxTables[m])
          BY <3>2, <3>6, <4>2
        <5>2. ~(Len(new[m]) > Tables!MaxTables[m])
          BY <5>1
        <5>3. QED
          BY <3>5, <4>2, <5>2
      <4>3. CASE l # i /\ l # m
        <5>1. new[l] = u[l] /\ Within(u, i)
          BY <2>3, <2>6, <3>1, <3>4, <4>3
        <5>2. QED
          BY <3>6, <4>3, <5>1 DEF Within
      <4>4. QED
        BY <4>1, <4>2, <4>3
    <3>7. Within(new, IF K[m].go THEN m ELSE 0)
      BY <3>6 DEF Within
    <3>8. K[m].levels = new
      BY <3>2
    <3>9. QED
      BY <1>15, <2>1, <2>2, <2>4, <3>7, <3>8
  <2>7. QED
    BY <2>5, <2>6
<1>18. \A m \in n .. MaxLevels : m \in P
  BY ONLY <1>1, <1>16, <1>17, FromTo
<1>19. K[MaxLevels] \in V /\ Within(K[MaxLevels].levels, IF K[MaxLevels].go THEN MaxLevels ELSE 0)
  BY <1>1, <1>15, <1>18
<1>20. Within(K[MaxLevels].levels, 0)
  <2>1. \A l \in Tables!Level : l \in Nat /\ l # 0
    BY DEF Tables!Level
  <2>2. PICK x : x = (IF K[MaxLevels].go THEN MaxLevels ELSE 0)
    OBVIOUS
  <2>3. Within(K[MaxLevels].levels, x) /\ (x = MaxLevels \/ x = 0)
    BY <1>19, <2>2
  <2>4. \A l \in Tables!Level : l < MaxLevels => l # x
    BY <1>1, <2>1, <2>3
  <2>5. QED
    BY <2>3, <2>4 DEF Within
<1>21. QED
  BY <1>2, <1>12, <1>19, <1>20

\* t holds the last writes of its keys, which are newer than what the levels have,
\* and every put that was not followed by another write is in t or in the levels.
Covers(t, lv, last) ==
  /\ \A k \in DOMAIN t : t[k] = last[k] /\ \A e \in All(lv, k) : e.seq < t[k].seq
  /\ \A k \in Tables!TableKeys : ~last[k].tombstone => k \in DOMAIN t \/ last[k] \in All(lv, k)

\* The levels with a table more in the first.
Appended(lv, t) == [lv EXCEPT ![1] = Append(lv[1], t)]

\* A table that is appended to the first level adds its entries to it.
LEMMA AppendTable ==
  ASSUME NEW last \in Truths, NEW lv, Kept(lv, last), NEW t \in TableSet, Covers(t, lv, last),
         NEW mid, mid = Appended(lv, t)
  PROVE  /\ Kept(mid, last)
         /\ \A k \in Tables!TableKeys : All(mid, k) = All(lv, k) \cup Of({t}, k)
         /\ \A n \in Tables!Level : n # 1 => mid[n] = lv[n]
<1>1. 1 \in Tables!Level /\ lv \in LevelLists /\ lv[1] \in Seq(TableSet)
  BY TablesConstants DEF Kept, Tables!Level, LevelLists
<1>2. PICK s, q : s = lv[1] /\ q = Append(s, t)
  OBVIOUS
<1>3. /\ s \in Seq(TableSet) /\ q \in Seq(TableSet) /\ ToSet(q) = ToSet(s) \cup {t}
      /\ Len(s) \in Nat /\ DOMAIN s = 1 .. Len(s) /\ DOMAIN q = 1 .. (Len(s) + 1)
      /\ q[Len(s) + 1] = t /\ \A i \in DOMAIN s : q[i] = s[i]
  <2>1. s \in Seq(TableSet) /\ Len(s) \in Nat /\ DOMAIN s = 1 .. Len(s)
    BY <1>1, <1>2, LenProperties
  <2>2. q \in Seq(TableSet) /\ ToSet(q) = ToSet(s) \cup {t}
    BY <1>2, <2>1, EndsOfLists
  <2>3. DOMAIN q = 1 .. (Len(s) + 1) /\ q[Len(s) + 1] = t /\ \A i \in DOMAIN s : q[i] = s[i]
    BY <1>2, <2>1, AppendProperties, LenProperties
  <2>4. QED
    BY <2>1, <2>2, <2>3
<1>4. /\ mid \in LevelLists /\ mid[1] = q
      /\ \A n \in Tables!Level : n # 1 => mid[n] = lv[n]
  BY <1>1, <1>2, <1>3 DEF LevelLists, Appended
<1>5. \A k \in Tables!TableKeys :
        /\ At(mid, 1, k) = At(lv, 1, k) \cup Of({t}, k)
        /\ \A n \in Tables!Level : n # 1 => At(mid, n, k) = At(lv, n, k)
  <2>1. \A k : Of(ToSet(s) \cup {t}, k) = Of(ToSet(s), k) \cup Of({t}, k)
    BY DEF Of
  <2>2. QED
    BY <1>2, <1>3, <1>4, <2>1 DEF At
<1>6. ASSUME NEW k \in Tables!TableKeys PROVE All(mid, k) = All(lv, k) \cup Of({t}, k)
  <2>1. \A e : e \in All(mid, k) <=> \E n \in Tables!Level : e \in At(mid, n, k)
    BY DEF All
  <2>2. \A e : e \in All(lv, k) <=> \E n \in Tables!Level : e \in At(lv, n, k)
    BY DEF All
  <2>3. QED
    BY <1>1, <1>5, <2>1, <2>2
<1>7. ASSUME NEW k \in Tables!TableKeys, NEW e \in Of({t}, k)
      PROVE  e = last[k] /\ \A f \in All(lv, k) : f.seq < e.seq
  BY <1>7 DEF Of, Covers
<1>8. Bounded(mid, last)
  <2>1. \A k \in Tables!TableKeys : last[k].seq \in Nat
    BY DEF Truths
  <2>2. QED
    <3>1. SUFFICES ASSUME NEW k \in Tables!TableKeys, NEW e \in All(mid, k) PROVE e.seq <= last[k].seq
      BY DEF Bounded
    <3>2. CASE e \in All(lv, k)
      BY <3>2 DEF Bounded, Kept
    <3>3. CASE e \in Of({t}, k)
      BY <1>7, <2>1, <3>3
    <3>4. QED
      BY <1>6, <3>2, <3>3
<1>9. Sorted(mid)
  <2>1. Sorted(lv)
    BY DEF Kept
  <2>2. ASSUME NEW m \in Tables!Level, NEW n \in Tables!Level, NEW k \in Tables!TableKeys, m < n,
               NEW e \in At(mid, m, k), NEW f \in At(mid, n, k)
        PROVE  f.seq < e.seq
    <3>1. n # 1 /\ f \in At(lv, n, k)
      <4>1. m \in Nat /\ n \in Nat /\ m # 0
        BY DEF Tables!Level
      <4>2. n # 1
        BY <2>2, <4>1
      <4>3. QED
        BY <1>5, <2>2, <4>2
    <3>2. CASE e \in At(lv, m, k)
      BY <2>1, <2>2, <3>1, <3>2 DEF Sorted
    <3>3. CASE e \notin At(lv, m, k)
      <4>1. e \in Of({t}, k)
        BY <1>5, <2>2, <3>3
      <4>2. f \in All(lv, k)
        BY <3>1 DEF All
      <4>3. QED
        BY <1>7, <4>1, <4>2
    <3>4. QED
      BY <3>2, <3>3
  <2>3. ASSUME NEW n \in Tables!Level, NEW k \in Tables!TableKeys, n # 1,
               NEW e \in At(mid, n, k), NEW f \in At(mid, n, k)
        PROVE  e = f
    <3>1. e \in At(lv, n, k) /\ f \in At(lv, n, k)
      BY <1>5, <2>3
    <3>2. QED
      BY <2>1, <2>3, <3>1 DEF Sorted
  <2>4. ASSUME NEW i \in DOMAIN q, NEW j \in DOMAIN q, NEW k \in Tables!TableKeys,
               i < j, k \in DOMAIN q[i], k \in DOMAIN q[j]
        PROVE  q[i][k].seq < q[j][k].seq
    <3>1. i \in DOMAIN s /\ q[i] = s[i]
      BY <1>3, <2>4
    <3>2. CASE j \in DOMAIN s
      <4>1. q[j] = s[j]
        BY <1>3, <3>2
      <4>2. QED
        BY <1>2, <2>1, <2>4, <3>1, <3>2, <4>1 DEF Sorted
    <3>3. CASE j \notin DOMAIN s
      <4>1. q[j] = t
        <5>1. j = Len(s) + 1
          BY <1>3, <3>3
        <5>2. QED
          BY <1>3, <5>1
      <4>2. t[k] \in Of({t}, k) /\ s[i][k] \in All(lv, k)
        <5>1. s[i] \in ToSet(lv[1])
          BY <1>2, <3>1 DEF ToSet
        <5>2. s[i][k] \in At(lv, 1, k)
          BY <2>4, <3>1, <5>1 DEF At, Of
        <5>3. QED
          BY <1>1, <2>4, <4>1, <5>2 DEF All, Of
      <4>3. QED
        BY <1>7, <3>1, <4>1, <4>2
    <3>4. QED
      BY <3>2, <3>3
  <2>5. QED
    BY <1>4, <2>2, <2>3, <2>4 DEF Sorted
<1>10. QED
  BY <1>4, <1>6, <1>8, <1>9 DEF Kept

\* A flush moves what its table covers into the levels, cascades included.
LEMMA FlushKeeps ==
  ASSUME NEW last \in Truths, NEW lv, Kept(lv, last), Within(lv, 0),
         NEW t \in TableSet, Covers(t, lv, last)
  PROVE  /\ Kept(Tables!Flush(lv, t), last) /\ Within(Tables!Flush(lv, t), 0)
         /\ Covers(Tables!Empty, Tables!Flush(lv, t), last)
<1>1. PICK mid : mid = Appended(lv, t)
  OBVIOUS
<1>2. /\ Kept(mid, last)
      /\ \A k \in Tables!TableKeys : All(mid, k) = All(lv, k) \cup Of({t}, k)
      /\ \A n \in Tables!Level : n # 1 => mid[n] = lv[n]
  BY <1>1, AppendTable
<1>3. Within(mid, 1)
  <2>1. ASSUME NEW n \in Tables!Level, n < MaxLevels, n # 1 PROVE Len(mid[n]) <= Tables!MaxTables[n]
    <3>1. mid[n] = lv[n] /\ n # 0
      BY <1>2, <2>1 DEF Tables!Level
    <3>2. QED
      BY <2>1, <3>1 DEF Within
  <2>2. QED
    BY <2>1 DEF Within
<1>4. 1 \in Tables!Level /\ 1 \in 0 .. MaxLevels
  BY TablesConstants DEF Tables!Level
<1>5. Len(mid[1]) \in Nat /\ Tables!MaxTables[1] \in Nat
  <2>1. mid[1] \in Seq(TableSet)
    BY <1>2, <1>4 DEF Kept, LevelLists
  <2>2. QED
    BY <1>4, <2>1, LenProperties, LimitsAreNumbers
<1>6. Tables!Flush(lv, t) = IF Len(mid[1]) > Tables!MaxTables[1] THEN Tables!Compact(mid, 1) ELSE mid
  BY <1>1 DEF Tables!Flush, Appended
<1>7. PICK w : w = Tables!Flush(lv, t)
  OBVIOUS
<1>8. Kept(w, last) /\ Within(w, 0) /\ Stays(mid, w)
  <2>1. CASE Len(mid[1]) > Tables!MaxTables[1]
    <3>1. w = Tables!Compact(mid, 1)
      BY <1>6, <1>7, <2>1
    <3>2. PICK one : one = 1
      OBVIOUS
    <3>3. Within(mid, one) /\ one \in Tables!Level
      BY <1>3, <1>4, <3>2
    <3>4. Kept(Tables!Compact(mid, one), last) /\ Stays(mid, Tables!Compact(mid, one))
          /\ Within(Tables!Compact(mid, one), 0)
      BY <1>2, <3>3, CompactStep
    <3>5. QED
      BY <3>1, <3>2, <3>4
  <2>2. CASE ~(Len(mid[1]) > Tables!MaxTables[1])
    <3>1. w = mid /\ Len(mid[1]) <= Tables!MaxTables[1]
      BY <1>5, <1>6, <1>7, <2>2
    <3>2. Within(mid, 0)
      BY <1>3, <3>1 DEF Within
    <3>3. Stays(mid, mid)
      BY DEF Stays
    <3>4. QED
      BY <1>2, <3>1, <3>2, <3>3
  <2>3. QED
    BY <2>1, <2>2
<1>9. ASSUME NEW k \in Tables!TableKeys, ~last[k].tombstone PROVE last[k] \in All(w, k)
  <2>1. last[k] \in All(mid, k)
    <3>1. CASE k \in DOMAIN t
      BY <1>2, <3>1 DEF Covers, Of
    <3>2. CASE k \notin DOMAIN t
      BY <1>2, <1>9, <3>2 DEF Covers
    <3>3. QED
      BY <3>1, <3>2
  <2>2. \A e \in All(mid, k) : e.seq <= last[k].seq
    BY <1>2 DEF Kept, Bounded
  <2>3. QED
    BY <1>8, <1>9, <2>1, <2>2 DEF Stays
<1>10. DOMAIN Tables!Empty = {}
  BY DEF Tables!Empty
<1>11. QED
  BY <1>7, <1>8, <1>9, <1>10 DEF Covers

\* What holds of the tree between calls.
TablesInv ==
  /\ sequence \in 0 .. MaxWrites
  /\ memtable \in TableSet /\ Cardinality(DOMAIN memtable) < MemtableSize
  /\ truth \in Truths /\ \A k \in Tables!TableKeys : truth[k].seq <= sequence
  /\ Kept(levels, truth) /\ Within(levels, 0) /\ Covers(memtable, levels, truth)

LEMMA TableIsFinite ==
  ASSUME NEW t \in TableSet
  PROVE  IsFiniteSet(DOMAIN t) /\ Cardinality(DOMAIN t) \in Nat
<1>1. IsFiniteSet(Tables!TableKeys)
  BY FS_Interval, TablesConstants DEF Tables!TableKeys
<1>2. DOMAIN t \subseteq Tables!TableKeys
  BY TableIs
<1>3. QED
  BY <1>1, <1>2, FS_Subset, FS_CardinalityType

LEMMA EmptyCardinality == Cardinality(DOMAIN Tables!Empty) < MemtableSize
<1>1. DOMAIN Tables!Empty = {}
  BY DEF Tables!Empty
<1>2. QED
  BY <1>1, FS_EmptySet, TablesConstants

\* A put or delete is the newest of its key, and is covered like the others.
LEMMA TableWriteStep ==
  ASSUME TablesInv, NEW k \in Tables!TableKeys, NEW tombstone \in BOOLEAN, Tables!Write(k, tombstone)
  PROVE  TablesInv'
<1>1. PICK entry : entry = [seq |-> sequence + 1, tombstone |-> tombstone]
  OBVIOUS
<1>2. PICK D : D = DOMAIN memtable \cup {k}
  OBVIOUS
<1>3. PICK table : table = [x \in D |-> IF x = k THEN entry ELSE memtable[x]]
  OBVIOUS
<1>4. PICK full : full = (Cardinality(DOMAIN table) >= MemtableSize)
  OBVIOUS
<1>5. /\ sequence < MaxWrites /\ sequence' = sequence + 1
      /\ memtable' = IF full THEN Tables!Empty ELSE table
      /\ levels' = IF full THEN Tables!Flush(levels, table) ELSE levels
      /\ truth' = [truth EXCEPT ![k] = entry]
  BY <1>1, <1>2, <1>3, <1>4, TablesLists DEF Tables!Write
<1>6. sequence \in Nat /\ sequence' \in 0 .. MaxWrites /\ entry \in Tables!Entries
      /\ entry \in [seq : Nat, tombstone : BOOLEAN]
  BY <1>1, <1>5, TablesConstants DEF TablesInv, Tables!Entries
<1>7. table \in TableSet /\ DOMAIN table = D
  <2>1. D \in SUBSET Tables!TableKeys /\ \A x \in DOMAIN memtable : memtable[x] \in Tables!Entries
    BY <1>2, TableIs DEF TablesInv
  <2>2. table \in [D -> Tables!Entries]
    BY <1>2, <1>3, <1>6, <2>1
  <2>3. QED
    BY <2>1, <2>2, TableIs
<1>8. /\ truth' \in Truths /\ truth'[k] = entry
      /\ \A x \in Tables!TableKeys : x # k => truth'[x] = truth[x]
  BY <1>5, <1>6 DEF TablesInv, Truths
<1>9. \A x \in Tables!TableKeys : truth[x].seq \in Nat /\ truth[x].seq <= sequence
  BY DEF TablesInv, Truths
<1>10. \A x \in Tables!TableKeys : truth'[x].seq <= sequence'
  BY <1>1, <1>5, <1>6, <1>8, <1>9
<1>11. ASSUME NEW e \in All(levels, k) PROVE e.seq < entry.seq /\ e.seq \in Nat
  <2>1. e.seq <= truth[k].seq
    BY DEF TablesInv, Kept, Bounded
  <2>2. e.seq \in Nat
    <3>1. PICK n \in Tables!Level : e \in Of(ToSet(levels[n]), k)
      BY DEF All, At
    <3>2. ToSet(levels[n]) \in SUBSET TableSet
      BY EndsOfLists DEF TablesInv, Kept, LevelLists
    <3>3. QED
      BY <3>1, <3>2, EntriesAre
  <2>3. QED
    BY <1>1, <1>6, <1>9, <2>1, <2>2
<1>12. Kept(levels, truth')
  <2>1. ASSUME NEW x \in Tables!TableKeys, NEW e \in All(levels, x) PROVE e.seq <= truth'[x].seq
    <3>1. CASE x = k
      <4>1. e.seq < entry.seq /\ e.seq \in Nat
        BY <1>11, <3>1
      <4>2. entry.seq \in Nat /\ truth'[x] = entry
        BY <1>6, <1>8, <3>1
      <4>3. QED
        BY <4>1, <4>2
    <3>2. CASE x # k
      BY <1>8, <3>2 DEF TablesInv, Kept, Bounded
    <3>3. QED
      BY <3>1, <3>2
  <2>2. QED
    BY <2>1 DEF TablesInv, Kept, Bounded
<1>13. Covers(table, levels, truth')
  <2>1. ASSUME NEW x \in D
        PROVE  table[x] = truth'[x] /\ \A e \in All(levels, x) : e.seq < table[x].seq
    <3>1. CASE x = k
      BY <1>3, <1>8, <1>11, <2>1, <3>1
    <3>2. CASE x # k
      <4>1. x \in DOMAIN memtable /\ x \in Tables!TableKeys /\ table[x] = memtable[x]
        BY <1>2, <1>3, <2>1, <3>2, TableIs DEF TablesInv
      <4>2. QED
        BY <1>8, <3>2, <4>1 DEF TablesInv, Covers
    <3>3. QED
      BY <3>1, <3>2
  <2>2. ASSUME NEW x \in Tables!TableKeys, ~truth'[x].tombstone
        PROVE  x \in D \/ truth'[x] \in All(levels, x)
    BY <1>2, <1>8, <2>2 DEF TablesInv, Covers
  <2>3. QED
    BY <1>7, <2>1, <2>2 DEF Covers
<1>14. Within(levels, 0)
  BY DEF TablesInv
<1>15. PICK last : last = truth'
  OBVIOUS
<1>16. CASE full
  <2>1. /\ Kept(Tables!Flush(levels, table), last) /\ Within(Tables!Flush(levels, table), 0)
        /\ Covers(Tables!Empty, Tables!Flush(levels, table), last)
    BY <1>7, <1>8, <1>12, <1>13, <1>14, <1>15, FlushKeeps
  <2>2. memtable' = Tables!Empty /\ levels' = Tables!Flush(levels, table)
    BY <1>5, <1>16
  <2>3. Kept(levels', truth') /\ Within(levels', 0) /\ Covers(memtable', levels', truth')
    BY <1>15, <2>1, <2>2
  <2>4. memtable' \in TableSet /\ Cardinality(DOMAIN memtable') < MemtableSize
    BY <2>2, TableIs, EmptyCardinality
  <2>5. QED
    BY <1>6, <1>8, <1>10, <2>3, <2>4 DEF TablesInv
<1>17. CASE ~full
  <2>1. memtable' = table /\ levels' = levels
    BY <1>5, <1>17
  <2>2. Cardinality(DOMAIN memtable') < MemtableSize
    <3>1. ~(Cardinality(DOMAIN table) >= MemtableSize)
      BY <1>4, <1>17
    <3>2. Cardinality(DOMAIN table) \in Nat /\ MemtableSize \in Nat
      BY <1>7, TableIsFinite, TablesConstants
    <3>3. QED
      BY <2>1, <3>1, <3>2
  <2>3. Kept(levels', truth') /\ Within(levels', 0) /\ Covers(memtable', levels', truth')
    BY <1>12, <1>13, <1>14, <2>1
  <2>4. QED
    BY <1>6, <1>7, <1>8, <1>10, <2>1, <2>2, <2>3 DEF TablesInv
<1>18. QED
  BY <1>16, <1>17

LEMMA ForceFlushStep ==
  ASSUME TablesInv, Tables!ForceFlush
  PROVE  TablesInv'
<1>1. /\ memtable' = Tables!Empty /\ levels' = Tables!Flush(levels, memtable)
      /\ sequence' = sequence /\ truth' = truth
  BY DEF Tables!ForceFlush
<1>2. /\ Kept(Tables!Flush(levels, memtable), truth) /\ Within(Tables!Flush(levels, memtable), 0)
      /\ Covers(Tables!Empty, Tables!Flush(levels, memtable), truth)
  BY FlushKeeps DEF TablesInv
<1>3. Kept(levels', truth') /\ Within(levels', 0) /\ Covers(memtable', levels', truth')
  BY <1>1, <1>2
<1>4. memtable' \in TableSet /\ Cardinality(DOMAIN memtable') < MemtableSize
  BY <1>1, TableIs, EmptyCardinality
<1>5. QED
  BY <1>1, <1>3, <1>4 DEF TablesInv

LEMMA ForceCompactStep ==
  ASSUME TablesInv, NEW n \in Tables!Level, Tables!ForceCompact(n)
  PROVE  TablesInv'
<1>1. /\ levels' = Tables!Compact(levels, n)
      /\ sequence' = sequence /\ memtable' = memtable /\ truth' = truth
  BY DEF Tables!ForceCompact
<1>2. PICK w : w = Tables!Compact(levels, n)
  OBVIOUS
<1>3. Within(levels, n)
  <2>1. ASSUME NEW m \in Tables!Level, m < MaxLevels PROVE Len(levels[m]) <= Tables!MaxTables[m]
    <3>1. m # 0 /\ Within(levels, 0)
      BY DEF Tables!Level, TablesInv
    <3>2. QED
      BY <2>1, <3>1 DEF Within
  <2>2. QED
    BY <2>1 DEF Within
<1>4. Kept(w, truth) /\ Stays(levels, w) /\ Within(w, 0)
  BY <1>2, <1>3, CompactStep DEF TablesInv
<1>5. ASSUME NEW k \in DOMAIN memtable
      PROVE  memtable[k] = truth[k] /\ \A e \in All(w, k) : e.seq < memtable[k].seq
  <2>1. k \in Tables!TableKeys
    BY TableIs DEF TablesInv
  <2>2. QED
    BY <1>4, <2>1 DEF TablesInv, Covers, Stays
<1>6. ASSUME NEW k \in Tables!TableKeys, ~truth[k].tombstone, k \notin DOMAIN memtable
      PROVE  truth[k] \in All(w, k)
  <2>1. truth[k] \in All(levels, k) /\ \A e \in All(levels, k) : e.seq <= truth[k].seq
    BY <1>6 DEF TablesInv, Covers, Kept, Bounded
  <2>2. QED
    BY <1>4, <1>6, <2>1 DEF Stays
<1>7. Covers(memtable, w, truth)
  BY <1>5, <1>6 DEF Covers
<1>8. Kept(levels', truth') /\ Within(levels', 0) /\ Covers(memtable', levels', truth')
  BY <1>1, <1>2, <1>4, <1>7
<1>9. QED
  BY <1>1, <1>8 DEF TablesInv

\* What get and scan find: the same entry, since the places of the tables are in the
\* order of their entries; and of a live key its last write.
LEMMA ReadsFind ==
  ASSUME TablesInv, NEW k \in Tables!TableKeys
  PROVE  /\ Tables!Get(k) = Tables!Scan(k)
         /\ ~truth[k].tombstone => Tables!Get(k) = truth[k]
<1>1. PICK tables : tables = Tables!AllTables
  OBVIOUS
<1>2. levels \in LevelLists /\ Sorted(levels) /\ Bounded(levels, truth) /\ Covers(memtable, levels, truth)
      /\ memtable \in TableSet /\ truth[k].seq \in Nat
  BY DEF TablesInv, Kept, Truths
<1>3. tables \in SUBSET TableSet /\ Of(tables, k) = Of({memtable}, k) \cup All(levels, k)
  <2>1. tables = {memtable} \cup UNION {ToSet(levels[n]) : n \in Tables!Level}
    BY <1>1, TablesLists DEF Tables!AllTables
  <2>2. \A n \in Tables!Level : ToSet(levels[n]) \subseteq TableSet
    BY <1>2, EndsOfLists DEF LevelLists
  <2>3. tables \in SUBSET TableSet
    BY <1>2, <2>1, <2>2
  <2>4. \A e : e \in Of(tables, k) <=> \E t \in tables : k \in DOMAIN t /\ e = t[k]
    BY DEF Of
  <2>5. \A e : e \in Of({memtable}, k) <=> k \in DOMAIN memtable /\ e = memtable[k]
    BY DEF Of
  <2>6. \A e : e \in All(levels, k) <=>
          \E n \in Tables!Level : \E t \in ToSet(levels[n]) : k \in DOMAIN t /\ e = t[k]
    BY DEF All, At, Of
  <2>7. \A e : e \in Of(tables, k) <=> e \in Of({memtable}, k) \/ e \in All(levels, k)
    <3>1. \A t : t \in tables <=> t = memtable \/ \E n \in Tables!Level : t \in ToSet(levels[n])
      BY <2>1
    <3>2. QED
      BY <2>4, <2>5, <2>6, <3>1
  <2>8. QED
    BY <2>3, <2>7
<1>4. \A e \in Of(tables, k) : e.seq \in Nat /\ e.seq <= truth[k].seq
  <2>1. \A e \in Of(tables, k) : e.seq \in Nat
    BY <1>3, EntriesAre
  <2>2. \A e \in Of({memtable}, k) : e = truth[k]
    BY <1>2 DEF Of, Covers
  <2>3. \A e \in All(levels, k) : e.seq <= truth[k].seq
    BY <1>2 DEF Bounded
  <2>4. truth[k].seq <= truth[k].seq
    BY <1>2
  <2>5. QED
    BY <1>3, <2>1, <2>2, <2>3, <2>4
<1>5. ASSUME NEW e \in Of(tables, k), NEW f \in Of(tables, k), e.seq = f.seq PROVE e = f
  <2>1. \A d \in Of({memtable}, k) : d = truth[k] /\ \A g \in All(levels, k) : g.seq < d.seq
    BY <1>2 DEF Of, Covers
  <2>2. CASE e \in All(levels, k) /\ f \in All(levels, k)
    BY <1>2, <1>5, <2>2, Distinct
  <2>3. CASE e \notin All(levels, k) \/ f \notin All(levels, k)
    BY <1>3, <1>4, <1>5, <2>1, <2>3
  <2>4. QED
    BY <2>2, <2>3
<1>6. ASSUME NEW e \in Of(tables, k), \A f \in Of(tables, k) : f.seq <= e.seq
      PROVE  Tables!Scan(k) = e
  <2>1. PICK top : top = Tables!Newest(tables, k)
    OBVIOUS
  <2>2. top \in Of(tables, k) /\ e.seq <= top.seq
    BY <1>2, <1>3, <1>4, <2>1, NewestIs
  <2>3. top = e
    <3>1. top.seq = e.seq
      BY <1>4, <1>6, <2>2
    <3>2. QED
      BY <1>5, <2>2, <3>1
  <2>4. k \in Tables!KeysOf(tables)
    BY <1>3, EntriesAre
  <2>5. QED
    BY <1>1, <2>1, <2>3, <2>4 DEF Tables!Scan
<1>7. PICK found : found = {n \in Tables!Level : Tables!Having(n, k) # {}}
  OBVIOUS
<1>8. CASE k \in DOMAIN memtable
  <2>1. Tables!Get(k) = memtable[k] /\ memtable[k] = truth[k]
    BY <1>2, <1>8 DEF Tables!Get, Covers
  <2>2. memtable[k] \in Of(tables, k)
    BY <1>3, <1>8 DEF Of
  <2>3. QED
    BY <1>4, <1>6, <2>1, <2>2
<1>9. CASE k \notin DOMAIN memtable /\ found = {}
  <2>1. Tables!Get(k) = Tables!NoEntry
    BY <1>7, <1>9 DEF Tables!Get
  <2>2. Of(tables, k) = {}
    <3>1. SUFFICES ASSUME NEW e \in All(levels, k) PROVE FALSE
      BY <1>3, <1>9 DEF Of
    <3>2. PICK n \in Tables!Level : \E i \in DOMAIN levels[n] : k \in DOMAIN levels[n][i]
      BY DEF All, At, Of, ToSet
    <3>3. n \in found
      BY <1>7, <3>2 DEF Tables!Having
    <3>4. QED
      BY <1>9, <3>3
  <2>3. k \notin Tables!KeysOf(tables)
    BY <1>3, <2>2, EntriesAre
  <2>4. Tables!Scan(k) = Tables!NoEntry
    BY <1>1, <2>3 DEF Tables!Scan
  <2>5. truth[k].tombstone
    BY <1>2, <1>3, <1>9, <2>2 DEF Covers
  <2>6. QED
    BY <2>1, <2>4, <2>5
<1>10. CASE k \notin DOMAIN memtable /\ found # {}
  <2>1. PICK n : n = Min(found)
    OBVIOUS
  <2>2. found \in SUBSET Nat
    BY <1>7 DEF Tables!Level
  <2>3. n \in found /\ \A m \in found : n <= m
    BY <1>10, <2>1, <2>2, MinProperty
  <2>4. PICK places : places = Tables!Having(n, k)
    OBVIOUS
  <2>5. n \in Tables!Level /\ places # {}
    BY <1>7, <2>3, <2>4
  <2>6. levels[n] \in Seq(TableSet)
    BY <1>2, <2>5 DEF LevelLists
  <2>7. places \in SUBSET (0 .. Len(levels[n])) /\ Len(levels[n]) \in Nat
    BY <2>4, <2>6, LenProperties DEF Tables!Having
  <2>8. PICK i : i = Max(places)
    OBVIOUS
  <2>9. i \in places /\ \A j \in places : j <= i
    BY <2>5, <2>7, <2>8, MaxProperty
  <2>10. i \in DOMAIN levels[n] /\ k \in DOMAIN levels[n][i]
    BY <2>4, <2>9 DEF Tables!Having
  <2>11. PICK e : e = levels[n][i][k]
    OBVIOUS
  <2>12. Tables!Get(k) = e
    BY <1>7, <1>10, <2>1, <2>4, <2>8, <2>11, TablesLists DEF Tables!Get
  <2>13. e \in At(levels, n, k)
    BY <2>10, <2>11 DEF At, Of, ToSet
  <2>14. e \in Of(tables, k)
    BY <1>3, <2>5, <2>13 DEF All
  <2>15. ASSUME NEW f \in Of(tables, k) PROVE f.seq <= e.seq
    <3>1. f \in All(levels, k)
      BY <1>3, <1>10 DEF Of
    <3>2. PICK m \in Tables!Level : f \in At(levels, m, k)
      BY <3>1 DEF All
    <3>3. PICK j \in DOMAIN levels[m] : k \in DOMAIN levels[m][j] /\ f = levels[m][j][k]
      BY <3>2 DEF At, Of, ToSet
    <3>4. m \in found /\ f \in At(levels, m, k)
      BY <1>7, <3>2, <3>3 DEF Tables!Having
    <3>5. n <= m /\ n \in Nat /\ m \in Nat /\ e.seq \in Nat /\ f.seq \in Nat
      BY <1>4, <2>2, <2>3, <2>14, <3>4
    <3>6. CASE n < m
      BY <1>2, <2>5, <2>13, <3>4, <3>5, <3>6 DEF Sorted
    <3>7. CASE n = m /\ n # 1
      <4>1. e = f
        BY <1>2, <2>5, <2>13, <3>4, <3>7 DEF Sorted
      <4>2. QED
        BY <3>5, <4>1
    <3>8. CASE n = m /\ n = 1
      <4>1. j \in places /\ j <= i /\ j \in Nat /\ i \in Nat
        BY <2>4, <2>7, <2>9, <3>3, <3>8 DEF Tables!Having
      <4>2. CASE j = i
        BY <2>11, <3>3, <3>5, <3>8, <4>2
      <4>3. CASE j < i
        BY <1>2, <2>10, <2>11, <3>3, <3>5, <3>8, <4>3 DEF Sorted
      <4>4. QED
        BY <4>1, <4>2, <4>3
    <3>9. QED
      BY <3>5, <3>6, <3>7, <3>8
  <2>16. Tables!Scan(k) = e
    BY <1>6, <2>14, <2>15
  <2>17. ASSUME ~truth[k].tombstone PROVE e = truth[k]
    <3>1. truth[k] \in Of(tables, k)
      BY <1>2, <1>3, <1>10, <2>17 DEF Covers
    <3>2. e.seq = truth[k].seq
      BY <1>4, <2>14, <2>15, <3>1
    <3>3. QED
      BY <1>5, <2>14, <3>1, <3>2
  <2>18. QED
    BY <2>12, <2>16, <2>17
<1>11. QED
  BY <1>8, <1>9, <1>10

LEMMA TablesInvImplies == TablesInv => TablesKeepLiveKeys
<1> SUFFICES ASSUME TablesInv PROVE TablesKeepLiveKeys
  OBVIOUS
<1>1. Tables!TypeOK
  <2>1. Tables!IsTable(memtable) /\ Tables!Cardinality(DOMAIN memtable) < MemtableSize
    BY TableIs, TablesLists DEF TablesInv
  <2>2. levels \in LevelLists
    BY DEF TablesInv, Kept
  <2>3. ASSUME NEW n \in Tables!Level, NEW i \in DOMAIN levels[n] PROVE Tables!IsTable(levels[n][i])
    <3>1. levels[n] \in Seq(TableSet)
      BY <2>2 DEF LevelLists
    <3>2. levels[n][i] \in TableSet
      BY <2>3, <3>1, LenProperties, ElementOfSeq
    <3>3. QED
      BY <3>2, TableIs
  <2>4. ASSUME NEW n \in Tables!Level, n < MaxLevels PROVE Len(levels[n]) <= Tables!MaxTables[n]
    <3>1. n # 0 /\ Within(levels, 0)
      BY DEF TablesInv, Tables!Level
    <3>2. QED
      BY <2>4, <3>1 DEF Within
  <2>5. QED
    BY <2>1, <2>2, <2>3, <2>4 DEF TablesInv, LevelLists, Tables!TypeOK
<1>2. Tables!ReadsAgree /\ Tables!LiveKeysKept
  BY ReadsFind DEF Tables!ReadsAgree, Tables!LiveKeysKept
<1>3. QED
  BY <1>1, <1>2 DEF TablesKeepLiveKeys

\* Through every flush, cascade and compaction get and scan find the same entry, the
\* last put of every key that was not deleted since, and the levels stay within
\* their limits (get, scan, _compact, merge_sstables).
THEOREM TablesKeepLiveKeysAlways == StoresSpec => []TablesKeepLiveKeys
<1>1. StoresInit => TablesInv
  <2>1. SUFFICES ASSUME StoresInit PROVE TablesInv
    OBVIOUS
  <2>2. /\ sequence = 0 /\ memtable = Tables!Empty /\ levels = [n \in Tables!Level |-> <<>>]
        /\ truth = [k \in Tables!TableKeys |-> Tables!NoEntry]
    BY <2>1 DEF StoresInit, Tables!Init
  <2>3. memtable \in TableSet /\ Cardinality(DOMAIN memtable) < MemtableSize /\ DOMAIN memtable = {}
    BY <2>2, TableIs, EmptyCardinality DEF Tables!Empty
  <2>4. truth \in Truths /\ \A k \in Tables!TableKeys : truth[k].seq = 0 /\ truth[k].tombstone
    BY <2>2 DEF Truths, Tables!NoEntry
  <2>5. levels \in LevelLists /\ \A n \in Tables!Level : levels[n] = <<>>
    BY <2>2, EmptySeq DEF LevelLists
  <2>6. /\ \A k : All(levels, k) = {}
        /\ \A k : \A n \in Tables!Level : At(levels, n, k) = {}
    <3>1. \A k : \A n \in Tables!Level : At(levels, n, k) = {}
      BY <2>5 DEF At, Of, ToSet
    <3>2. QED
      BY <3>1 DEF All
  <2>7. 1 \in Tables!Level
    BY TablesConstants DEF Tables!Level
  <2>8. Kept(levels, truth)
    BY <2>5, <2>6, <2>7 DEF Kept, Sorted, Bounded
  <2>9. Within(levels, 0)
    <3>1. \A n \in Tables!Level : Len(levels[n]) = 0 /\ Tables!MaxTables[n] \in Nat
      <4>1. \A n \in Tables!Level : n \in 0 .. MaxLevels
        BY DEF Tables!Level
      <4>2. QED
        BY <2>5, <4>1, LimitsAreNumbers
    <3>2. QED
      BY <3>1 DEF Within
  <2>10. Covers(memtable, levels, truth)
    BY <2>3, <2>4 DEF Covers
  <2>11. sequence \in 0 .. MaxWrites /\ \A k \in Tables!TableKeys : truth[k].seq <= sequence
    BY <2>2, <2>4, TablesConstants
  <2>12. QED
    BY <2>3, <2>4, <2>8, <2>9, <2>10, <2>11 DEF TablesInv
<1>2. TablesInv /\ [StoresNext]_storeVars => TablesInv'
  <2>1. SUFFICES ASSUME TablesInv, [StoresNext]_storeVars PROVE TablesInv'
    OBVIOUS
  <2>2. ASSUME NEW k \in Tables!TableKeys, NEW tombstone \in BOOLEAN, Tables!Write(k, tombstone)
        PROVE  TablesInv'
    BY <2>1, <2>2, TableWriteStep
  <2>3. CASE Tables!ForceFlush
    BY <2>1, <2>3, ForceFlushStep
  <2>4. ASSUME NEW n \in Tables!Level, Tables!ForceCompact(n) PROVE TablesInv'
    BY <2>1, <2>4, ForceCompactStep
  <2>5. CASE UNCHANGED tableVars
    BY <2>1, <2>5 DEF tableVars, TablesInv
  <2>6. Tables!Next \/ UNCHANGED tableVars
    BY <2>1 DEF StoresNext, storeVars
  <2>7. QED
    BY <2>2, <2>3, <2>4, <2>5, <2>6 DEF Tables!Next
<1>3. QED
  BY <1>1, <1>2, TablesInvImplies, PTL DEF StoresSpec

-----------------------------------------------------------------------------
(* The replicated types *)

CounterObjects == [id : Replicas, p : [Replicas -> Nat], n : [Replicas -> Nat]]
GrowObjects == [id : Replicas, elements : SUBSET Elements]
ObservedObjects == [id : Replicas, tag : Nat, elements : [Elements -> SUBSET (Replicas \X Nat)]]
RegisterObjects == [id : Replicas, value : Elements \cup {"None"}, time : Nat,
                    writer : Replicas \cup {""}]
Objects == CASE kind = "counter"  -> CounterObjects
             [] kind = "grow"     -> GrowObjects
             [] kind = "observed" -> ObservedObjects
             [] kind = "register" -> RegisterObjects

\* Every call is a new one, and a replica without an object has heard of none.
CallsKept ==
  /\ kind \in Replicated!Kinds
  /\ store \in [Replicas -> Objects \cup {Replicated!Absent}]
  /\ IsFiniteSet(calls) /\ \A c \in calls : c.n \in 1 .. Cardinality(calls)
  /\ seen \in [Replicas -> SUBSET calls]
  /\ \A r \in Replicas : store[r] = Replicated!Absent => seen[r] = {}

\* What an object of each kind holds, in terms of the calls that reached it.
CounterKept == \A r, s \in Replicas : store[r] # Replicated!Absent =>
    /\ store[r].p[s] <= Cardinality({c \in seen[r] : c.op = "increment" /\ c.under = s})
    /\ store[r].n[s] <= Cardinality({c \in seen[r] : c.op = "decrement" /\ c.under = s})
GrowKept == \A r \in Replicas : store[r] # Replicated!Absent =>
    store[r].elements = {e \in Elements : Replicated!Seen(r, "add", e)}
ObservedKept == \A r \in Replicas, e \in Elements : store[r] # Replicated!Absent =>
    /\ store[r].elements[e] # {} => Replicated!Seen(r, "add", e)
    /\ Replicated!Seen(r, "add", e) /\ ~Replicated!Seen(r, "remove", e)
         => store[r].elements[e] # {}
RegisterKept ==
  /\ \A c \in calls : c.under \in 1 .. MaxTime
  /\ \A r \in Replicas : store[r] # Replicated!Absent =>
       /\ \A c \in seen[r] : c.under <= store[r].time
       /\ IF store[r].time = 0 THEN store[r].value = "None"
          ELSE \E c \in seen[r] : c.under = store[r].time /\ c.arg = store[r].value

ReplicatedInv == which = "replicated" =>
  /\ CallsKept
  /\ kind = "counter"  => CounterKept
  /\ kind = "grow"     => GrowKept
  /\ kind = "observed" => ObservedKept
  /\ kind = "register" => RegisterKept

LEMMA ReplicatedCounts == \A set : Replicated!Cardinality(set) = Cardinality(set)
<1>1. ASSUME NEW set PROVE Replicated!Cardinality(set) = Cardinality(set)
  BY DEF Replicated!Cardinality, Cardinality, Replicated!IsFiniteSet, IsFiniteSet
<1>2. QED
  BY <1>1

\* No object is the mark of a missing one.
LEMMA ObjectsArePresent ==
  ASSUME NEW o, o \in CounterObjects \/ o \in GrowObjects \/ o \in ObservedObjects \/ o \in RegisterObjects
  PROVE  o # Replicated!Absent
<1>1. DOMAIN Replicated!Absent = {"id"}
  BY DEF Replicated!Absent
<1>2. CASE o \in CounterObjects
  <2>1. "p" \in DOMAIN o
    BY <1>2 DEF CounterObjects
  <2>2. QED
    BY <1>1, <2>1
<1>3. CASE o \in GrowObjects \/ o \in ObservedObjects
  <2>1. "elements" \in DOMAIN o
    BY <1>3 DEF GrowObjects, ObservedObjects
  <2>2. QED
    BY <1>1, <2>1
<1>4. CASE o \in RegisterObjects
  <2>1. "time" \in DOMAIN o
    BY <1>4 DEF RegisterObjects
  <2>2. QED
    BY <1>1, <2>1
<1>5. QED
  BY <1>2, <1>3, <1>4

\* What a call of any kind does beside changing its object.
LEMMA CallStep ==
  ASSUME CallsKept, NEW r \in Replicas, NEW op, NEW under, NEW arg, NEW object \in Objects,
         Replicated!Call(r, Replicated!What(op, under, arg), object)
  PROVE  /\ CallsKept' /\ kind' = kind
         /\ store' = [store EXCEPT ![r] = object] /\ object # Replicated!Absent
         /\ \E c : /\ c.op = op /\ c.under = under /\ c.arg = arg /\ c \notin calls
                   /\ calls' = calls \cup {c} /\ seen' = [seen EXCEPT ![r] = seen[r] \cup {c}]
<1>1. PICK c : c = [op |-> op, under |-> under, arg |-> arg, n |-> Cardinality(calls) + 1]
  OBVIOUS
<1>2. /\ kind' = kind /\ store' = [store EXCEPT ![r] = object]
      /\ calls' = calls \cup {c} /\ seen' = [seen EXCEPT ![r] = seen[r] \cup {c}]
  <2>1. [Replicated!What(op, under, arg) EXCEPT !.n = Cardinality(calls) + 1] = c
    BY <1>1 DEF Replicated!What
  <2>2. QED
    BY <2>1, ReplicatedCounts DEF Replicated!Call
<1>3. c.op = op /\ c.under = under /\ c.arg = arg /\ c.n = Cardinality(calls) + 1
  BY <1>1
<1>4. Cardinality(calls) \in Nat
  BY FS_CardinalityType DEF CallsKept
<1>5. c \notin calls
  <2>1. SUFFICES ASSUME c \in calls PROVE FALSE
    OBVIOUS
  <2>2. c.n \in 1 .. Cardinality(calls)
    BY <2>1 DEF CallsKept
  <2>3. QED
    BY <1>3, <1>4, <2>2
<1>6. IsFiniteSet(calls') /\ Cardinality(calls') = Cardinality(calls) + 1
  BY <1>2, <1>5, FS_AddElement DEF CallsKept
<1>7. Objects' = Objects
  BY <1>2 DEF Objects
<1>8. object # Replicated!Absent
  BY ObjectsArePresent DEF Objects, CallsKept, Replicated!Kinds
<1>9. \A x \in calls' : x.n \in 1 .. Cardinality(calls')
  <2>1. ASSUME NEW x \in calls PROVE x.n \in 1 .. Cardinality(calls')
    <3>1. x.n \in 1 .. Cardinality(calls)
      BY DEF CallsKept
    <3>2. QED
      BY <1>4, <1>6, <3>1
  <2>2. c.n \in 1 .. Cardinality(calls')
    BY <1>3, <1>4, <1>6
  <2>3. QED
    BY <1>2, <2>1, <2>2
<1>10. seen' \in [Replicas -> SUBSET calls']
  BY <1>2 DEF CallsKept
<1>11. store' \in [Replicas -> Objects' \cup {Replicated!Absent}]
  BY <1>2, <1>7 DEF CallsKept
<1>12. \A s \in Replicas : store'[s] = Replicated!Absent => seen'[s] = {}
  <2>1. SUFFICES ASSUME NEW s \in Replicas, store'[s] = Replicated!Absent PROVE seen'[s] = {}
    OBVIOUS
  <2>2. s # r
    BY <1>2, <1>8, <2>1 DEF CallsKept
  <2>3. store[s] = Replicated!Absent /\ seen'[s] = seen[s]
    BY <1>2, <2>1, <2>2 DEF CallsKept
  <2>4. QED
    BY <2>3 DEF CallsKept
<1>13. kind' \in Replicated!Kinds
  BY <1>2 DEF CallsKept
<1>14. CallsKept'
  BY <1>6, <1>9, <1>10, <1>11, <1>12, <1>13 DEF CallsKept, Replicated!Absent
<1>15. QED
  BY <1>2, <1>3, <1>5, <1>8, <1>14

\* The object a call works on, made if there was none.
LEMMA ObjectIs ==
  ASSUME CallsKept, NEW r \in Replicas
  PROVE  /\ Replicated!Object(r) \in Objects
         /\ store[r] # Replicated!Absent => Replicated!Object(r) = store[r]
         /\ store[r] = Replicated!Absent => Replicated!Object(r) = Replicated!Fresh(r)
<1>1. Replicated!Fresh(r) \in Objects
  <2>1. CASE kind = "counter"
    BY <2>1 DEF Objects, Replicated!Fresh, CounterObjects, Replicated!Zero
  <2>2. CASE kind = "grow"
    BY <2>2 DEF Objects, Replicated!Fresh, GrowObjects
  <2>3. CASE kind = "observed"
    BY <2>3 DEF Objects, Replicated!Fresh, ObservedObjects, Replicated!NoTags
  <2>4. CASE kind = "register"
    BY <2>4 DEF Objects, Replicated!Fresh, RegisterObjects
  <2>5. QED
    BY <2>1, <2>2, <2>3, <2>4 DEF CallsKept, Replicated!Kinds
<1>2. store[r] \in Objects \cup {Replicated!Absent}
  BY DEF CallsKept
<1>3. QED
  BY <1>1, <1>2 DEF Replicated!Object

LEMMA MergeIsObject ==
  ASSUME CallsKept, NEW a \in Objects, NEW b \in Objects
  PROVE  Replicated!Merge(a, b) \in Objects
<1>1. CASE kind = "counter"
  <2>1. a \in CounterObjects /\ b \in CounterObjects /\ Objects = CounterObjects
    BY <1>1 DEF Objects
  <2>2. /\ Replicated!MinCounts(a.p, b.p) \in [Replicas -> Nat]
        /\ Replicated!MinCounts(a.n, b.n) \in [Replicas -> Nat]
    BY <2>1 DEF CounterObjects, Replicated!MinCounts
  <2>3. Replicated!Merge(a, b) = [a EXCEPT !.p = Replicated!MinCounts(a.p, b.p),
                                           !.n = Replicated!MinCounts(a.n, b.n)]
    BY <1>1 DEF Replicated!Merge
  <2>4. QED
    BY <2>1, <2>2, <2>3 DEF CounterObjects
<1>2. CASE kind = "grow"
  BY <1>2 DEF Objects, GrowObjects, Replicated!Merge
<1>3. CASE kind = "observed"
  BY <1>3 DEF Objects, ObservedObjects, Replicated!Merge
<1>4. CASE kind = "register"
  BY <1>4 DEF Objects, RegisterObjects, Replicated!Merge
<1>5. QED
  BY <1>1, <1>2, <1>3, <1>4 DEF CallsKept, Replicated!Kinds

\* What a merge does, whatever the kind.
LEMMA MergeStep ==
  ASSUME CallsKept, NEW r \in Replicas, NEW s \in Replicas, Replicated!MergeFrom(r, s)
  PROVE  /\ CallsKept' /\ kind' = kind /\ calls' = calls
         /\ store[s] \in Objects /\ store[s] # Replicated!Absent
         /\ store[r] # Replicated!Absent => store[r] \in Objects
         /\ store' = [store EXCEPT ![r] = IF store[r] = Replicated!Absent THEN store[s]
                                          ELSE Replicated!Merge(store[r], store[s])]
         /\ store'[r] # Replicated!Absent
         /\ seen' = [seen EXCEPT ![r] = seen[r] \cup seen[s]]
<1>1. /\ kind' = kind /\ calls' = calls /\ store[s] # Replicated!Absent
      /\ store' = [store EXCEPT ![r] = IF store[r] = Replicated!Absent THEN store[s]
                                       ELSE Replicated!Merge(store[r], store[s])]
      /\ seen' = [seen EXCEPT ![r] = seen[r] \cup seen[s]]
  BY DEF Replicated!MergeFrom
<1>2. store[s] \in Objects /\ (store[r] # Replicated!Absent => store[r] \in Objects)
  BY <1>1 DEF CallsKept
<1>3. PICK o : o = IF store[r] = Replicated!Absent THEN store[s]
                   ELSE Replicated!Merge(store[r], store[s])
  OBVIOUS
<1>4. o \in Objects
  BY <1>2, <1>3, MergeIsObject
<1>5. o # Replicated!Absent
  BY <1>4, ObjectsArePresent DEF Objects, CallsKept, Replicated!Kinds
<1>6. store' = [store EXCEPT ![r] = o] /\ store'[r] = o
  BY <1>1, <1>3 DEF CallsKept
<1>7. Objects' = Objects
  BY <1>1 DEF Objects
<1>8. CallsKept'
  <2>1. \A q \in Replicas : store'[q] = Replicated!Absent => seen'[q] = {}
    <3>1. SUFFICES ASSUME NEW q \in Replicas, store'[q] = Replicated!Absent PROVE seen'[q] = {}
      OBVIOUS
    <3>2. q # r
      BY <1>5, <1>6, <3>1
    <3>3. store[q] = Replicated!Absent /\ seen'[q] = seen[q]
      BY <1>1, <1>6, <3>1, <3>2 DEF CallsKept
    <3>4. QED
      BY <3>3 DEF CallsKept
  <2>2. store' \in [Replicas -> Objects' \cup {Replicated!Absent}]
    BY <1>4, <1>6, <1>7 DEF CallsKept
  <2>3. seen' \in [Replicas -> SUBSET calls']
    BY <1>1 DEF CallsKept
  <2>4. QED
    BY <1>1, <2>1, <2>2, <2>3 DEF CallsKept, Replicated!Absent
<1>9. QED
  BY <1>1, <1>2, <1>5, <1>6, <1>8

\* A grow-only set holds what the adds that reached it added.
LEMMA GrowStep ==
  ASSUME CallsKept, kind = "grow", GrowKept, Replicated!Next
  PROVE  CallsKept' /\ kind' = "grow" /\ GrowKept'
<1>1. ASSUME NEW r \in Replicas, NEW e \in Elements, Replicated!GrowAdd(r, e)
      PROVE  CallsKept' /\ kind' = "grow" /\ GrowKept'
  <2>1. PICK o : o = Replicated!Object(r)
    OBVIOUS
  <2>2. o \in GrowObjects /\ Objects = GrowObjects
    BY <2>1, ObjectIs DEF Objects
  <2>3. PICK object : object = [o EXCEPT !.elements = o.elements \cup {e}]
    OBVIOUS
  <2>4. object \in Objects /\ object.elements = o.elements \cup {e}
    BY <2>2, <2>3 DEF GrowObjects
  <2>5. Replicated!Call(r, Replicated!What("add", o.id, e), object)
    BY <1>1, <2>1, <2>3 DEF Replicated!GrowAdd
  <2>6. /\ CallsKept' /\ kind' = kind
        /\ store' = [store EXCEPT ![r] = object] /\ object # Replicated!Absent
        /\ \E c : /\ c.op = "add" /\ c.under = o.id /\ c.arg = e /\ c \notin calls
                  /\ calls' = calls \cup {c} /\ seen' = [seen EXCEPT ![r] = seen[r] \cup {c}]
    BY <2>4, <2>5, CallStep
  <2>7. PICK c : c.op = "add" /\ c.arg = e /\ seen' = [seen EXCEPT ![r] = seen[r] \cup {c}]
    BY <2>6
  <2>8. o.elements = {x \in Elements : Replicated!Seen(r, "add", x)}
    <3>1. CASE store[r] = Replicated!Absent
      <4>1. o.elements = {} /\ seen[r] = {}
        BY <2>1, <3>1, ObjectIs DEF Replicated!Fresh, CallsKept
      <4>2. QED
        BY <4>1 DEF Replicated!Seen
    <3>2. CASE store[r] # Replicated!Absent
      BY <2>1, <3>2, ObjectIs DEF GrowKept
    <3>3. QED
      BY <3>1, <3>2
  <2>9. ASSUME NEW q \in Replicas, store'[q] # Replicated!Absent
        PROVE  store'[q].elements = {x \in Elements : Replicated!Seen(q, "add", x)'}
    <3>1. CASE q = r
      <4>1. store'[q] = object /\ seen'[q] = seen[r] \cup {c}
        BY <2>6, <2>7, <3>1 DEF CallsKept
      <4>2. \A x \in Elements : Replicated!Seen(q, "add", x)' <=> Replicated!Seen(r, "add", x) \/ x = e
        BY <2>7, <4>1 DEF Replicated!Seen
      <4>3. QED
        BY <2>4, <2>8, <4>1, <4>2
    <3>2. CASE q # r
      <4>1. store'[q] = store[q] /\ seen'[q] = seen[q]
        BY <2>6, <2>7, <3>2 DEF CallsKept
      <4>2. QED
        BY <2>9, <4>1 DEF GrowKept, Replicated!Seen
    <3>3. QED
      BY <3>1, <3>2
  <2>10. QED
    BY <2>6, <2>9 DEF GrowKept, Replicated!Absent, Replicated!Seen
<1>2. ASSUME NEW r \in Replicas, NEW s \in Replicas, Replicated!MergeFrom(r, s)
      PROVE  CallsKept' /\ kind' = "grow" /\ GrowKept'
  <2>1. /\ CallsKept' /\ kind' = kind
        /\ store[s] \in Objects /\ store[s] # Replicated!Absent
        /\ store[r] # Replicated!Absent => store[r] \in Objects
        /\ store' = [store EXCEPT ![r] = IF store[r] = Replicated!Absent THEN store[s]
                                         ELSE Replicated!Merge(store[r], store[s])]
        /\ seen' = [seen EXCEPT ![r] = seen[r] \cup seen[s]]
    BY <1>2, MergeStep
  <2>2. ASSUME NEW q \in Replicas, store'[q] # Replicated!Absent
        PROVE  store'[q].elements = {x \in Elements : Replicated!Seen(q, "add", x)'}
    <3>1. store[s].elements = {x \in Elements : Replicated!Seen(s, "add", x)}
      BY <2>1 DEF GrowKept
    <3>2. CASE q = r /\ store[r] = Replicated!Absent
      <4>1. store'[q] = store[s] /\ seen'[q] = seen[s]
        BY <2>1, <3>2 DEF CallsKept
      <4>2. QED
        BY <3>1, <4>1 DEF Replicated!Seen
    <3>3. CASE q = r /\ store[r] # Replicated!Absent
      <4>1. seen'[q] = seen[r] \cup seen[s] /\ store'[q] = Replicated!Merge(store[r], store[s])
        BY <2>1, <3>3 DEF CallsKept
      <4>2. store[r] \in GrowObjects
        BY <2>1, <3>3 DEF Objects
      <4>3. store'[q].elements = store[r].elements \cup store[s].elements
        BY <4>1, <4>2 DEF Replicated!Merge, GrowObjects
      <4>4. store[r].elements = {x \in Elements : Replicated!Seen(r, "add", x)}
        BY <3>3 DEF GrowKept
      <4>5. \A x \in Elements : Replicated!Seen(q, "add", x)'
                                <=> Replicated!Seen(r, "add", x) \/ Replicated!Seen(s, "add", x)
        BY <4>1 DEF Replicated!Seen
      <4>6. QED
        BY <3>1, <4>3, <4>4, <4>5
    <3>4. CASE q # r
      <4>1. store'[q] = store[q] /\ seen'[q] = seen[q]
        BY <2>1, <3>4 DEF CallsKept
      <4>2. QED
        BY <2>2, <4>1 DEF GrowKept, Replicated!Seen
    <3>5. QED
      BY <3>2, <3>3, <3>4
  <2>3. QED
    BY <2>1, <2>2 DEF GrowKept, Replicated!Absent, Replicated!Seen
<1>3. \/ \E r \in Replicas, e \in Elements : Replicated!GrowAdd(r, e)
      \/ \E r, s \in Replicas : Replicated!MergeFrom(r, s)
  BY DEF Replicated!Next, Replicated!Increment, Replicated!Decrement, Replicated!Add,
         Replicated!Remove, Replicated!Write
<1>4. QED
  BY <1>1, <1>2, <1>3

\* What one replica holds of one element, by the calls that reached it.
Reflects(tags, heard, e) ==
  /\ tags # {} => \E c \in heard : c.op = "add" /\ c.arg = e
  /\ (\E c \in heard : c.op = "add" /\ c.arg = e) /\ ~(\E c \in heard : c.op = "remove" /\ c.arg = e)
       => tags # {}

LEMMA ObservedObject ==
  ASSUME CallsKept, kind = "observed", ObservedKept, NEW r \in Replicas
  PROVE  /\ Replicated!Object(r) \in ObservedObjects /\ Objects = ObservedObjects
         /\ \A e \in Elements : Reflects(Replicated!Object(r).elements[e], seen[r], e)
<1>1. Replicated!Object(r) \in ObservedObjects /\ Objects = ObservedObjects
  BY ObjectIs DEF Objects
<1>2. CASE store[r] = Replicated!Absent
  <2>1. Replicated!Object(r).elements = Replicated!NoTags /\ seen[r] = {}
    BY <1>2, ObjectIs DEF Replicated!Fresh, CallsKept
  <2>2. QED
    BY <1>1, <2>1 DEF Reflects, Replicated!NoTags
<1>3. CASE store[r] # Replicated!Absent
  BY <1>1, <1>3, ObjectIs DEF ObservedKept, Reflects, Replicated!Seen
<1>4. QED
  BY <1>2, <1>3

\* An observed-remove set holds no element that was not added, and each one that
\* nobody it has heard of removed.
LEMMA ObservedStep ==
  ASSUME CallsKept, kind = "observed", ObservedKept, Replicated!Next
  PROVE  CallsKept' /\ kind' = "observed" /\ ObservedKept'
<1>1. ASSUME NEW r \in Replicas, NEW e \in Elements, NEW op, NEW object,
             object \in ObservedObjects,
             \A x \in Elements \ {e} : object.elements[x] = Replicated!Object(r).elements[x],
             op \in {"add", "remove"}, op = "add" <=> object.elements[e] # {},
             Replicated!Call(r, Replicated!What(op, Replicated!Object(r).id, e), object)
      PROVE  CallsKept' /\ kind' = "observed" /\ ObservedKept'
  <2>1. /\ CallsKept' /\ kind' = kind /\ store' = [store EXCEPT ![r] = object]
        /\ \E c : /\ c.op = op /\ c.under = Replicated!Object(r).id /\ c.arg = e /\ c \notin calls
                  /\ calls' = calls \cup {c} /\ seen' = [seen EXCEPT ![r] = seen[r] \cup {c}]
    BY <1>1, ObservedObject, CallStep
  <2>2. PICK c : c.op = op /\ c.arg = e /\ seen' = [seen EXCEPT ![r] = seen[r] \cup {c}]
    BY <2>1
  <2>3. ASSUME NEW q \in Replicas, NEW x \in Elements, store'[q] # Replicated!Absent
        PROVE  Reflects(store'[q].elements[x], seen'[q], x)
    <3>1. CASE q = r
      <4>1. store'[q] = object /\ seen'[q] = seen[r] \cup {c}
        BY <2>1, <2>2, <3>1 DEF CallsKept
      <4>2. Reflects(Replicated!Object(r).elements[x], seen[r], x)
        BY ObservedObject
      <4>3. CASE x = e
        BY <1>1, <2>2, <4>1, <4>2, <4>3 DEF Reflects
      <4>4. CASE x # e
        BY <1>1, <2>2, <4>1, <4>2, <4>4 DEF Reflects
      <4>5. QED
        BY <4>3, <4>4
    <3>2. CASE q # r
      <4>1. store'[q] = store[q] /\ seen'[q] = seen[q]
        BY <2>1, <2>2, <3>2 DEF CallsKept
      <4>2. QED
        BY <2>3, <4>1 DEF ObservedKept, Reflects, Replicated!Seen
    <3>3. QED
      BY <3>1, <3>2
  <2>4. QED
    BY <2>1, <2>3 DEF ObservedKept, Reflects, Replicated!Absent, Replicated!Seen
<1>2. ASSUME NEW r \in Replicas, NEW e \in Elements, Replicated!Add(r, e)
      PROVE  CallsKept' /\ kind' = "observed" /\ ObservedKept'
  <2>1. PICK o : o = Replicated!Object(r)
    OBVIOUS
  <2>2. o \in ObservedObjects
    BY <2>1, ObservedObject
  <2>3. PICK object : object = [o EXCEPT !.tag = o.tag + 1,
                                 !.elements[e] = o.elements[e] \cup {<<o.id, o.tag + 1>>}]
    OBVIOUS
  <2>4. /\ object \in ObservedObjects /\ object.elements[e] # {}
        /\ \A x \in Elements \ {e} : object.elements[x] = o.elements[x]
    <3>1. PICK tags : tags = [o.elements EXCEPT ![e] = o.elements[e] \cup {<<o.id, o.tag + 1>>}]
      OBVIOUS
    <3>2. tags \in [Elements -> SUBSET (Replicas \X Nat)]
      BY <2>2, <3>1 DEF ObservedObjects
    <3>3. object = [o EXCEPT !.tag = o.tag + 1, !.elements = tags]
      BY <2>3, <3>1
    <3>4. o.tag + 1 \in Nat
      BY <2>2 DEF ObservedObjects
    <3>5. object.elements = tags
      BY <2>2, <3>3 DEF ObservedObjects
    <3>6. object \in ObservedObjects
      BY <2>2, <3>2, <3>3, <3>4 DEF ObservedObjects
    <3>7. QED
      BY <2>2, <3>1, <3>5, <3>6 DEF ObservedObjects
  <2>5. Replicated!Call(r, Replicated!What("add", o.id, e), object)
    BY <1>2, <2>1, <2>3 DEF Replicated!Add
  <2>6. QED
    BY <1>1, <2>1, <2>4, <2>5
<1>3. ASSUME NEW r \in Replicas, NEW e \in Elements, Replicated!Remove(r, e)
      PROVE  CallsKept' /\ kind' = "observed" /\ ObservedKept'
  <2>1. PICK o : o = Replicated!Object(r)
    OBVIOUS
  <2>2. o \in ObservedObjects
    BY <2>1, ObservedObject
  <2>3. PICK object : object = [o EXCEPT !.elements[e] = {}]
    OBVIOUS
  <2>4. /\ object \in ObservedObjects /\ object.elements[e] = {}
        /\ \A x \in Elements \ {e} : object.elements[x] = o.elements[x]
    <3>1. PICK tags : tags = [o.elements EXCEPT ![e] = {}]
      OBVIOUS
    <3>2. tags \in [Elements -> SUBSET (Replicas \X Nat)]
      BY <2>2, <3>1 DEF ObservedObjects
    <3>3. object = [o EXCEPT !.elements = tags]
      BY <2>3, <3>1
    <3>4. object \in ObservedObjects /\ object.elements = tags
      BY <2>2, <3>2, <3>3 DEF ObservedObjects
    <3>5. QED
      BY <2>2, <3>1, <3>4 DEF ObservedObjects
  <2>5. /\ Replicated!Call(r, Replicated!What("remove", o.id, e), object)
        /\ o.elements[e] # {}
    BY <1>3, <2>1, <2>3 DEF Replicated!Remove
  <2>6. QED
    BY <1>1, <2>1, <2>4, <2>5
<1>4. ASSUME NEW r \in Replicas, NEW s \in Replicas, Replicated!MergeFrom(r, s)
      PROVE  CallsKept' /\ kind' = "observed" /\ ObservedKept'
  <2>1. /\ CallsKept' /\ kind' = kind
        /\ store[s] \in Objects /\ store[s] # Replicated!Absent
        /\ store[r] # Replicated!Absent => store[r] \in Objects
        /\ store' = [store EXCEPT ![r] = IF store[r] = Replicated!Absent THEN store[s]
                                         ELSE Replicated!Merge(store[r], store[s])]
        /\ seen' = [seen EXCEPT ![r] = seen[r] \cup seen[s]]
    BY <1>4, MergeStep
  <2>2. ASSUME NEW q \in Replicas, NEW e \in Elements, store'[q] # Replicated!Absent
        PROVE  Reflects(store'[q].elements[e], seen'[q], e)
    <3>1. Reflects(store[s].elements[e], seen[s], e)
      BY <2>1 DEF ObservedKept, Reflects, Replicated!Seen
    <3>2. CASE q = r /\ store[r] = Replicated!Absent
      <4>1. store'[q] = store[s] /\ seen'[q] = seen[s]
        BY <2>1, <3>2 DEF CallsKept
      <4>2. QED
        BY <3>1, <4>1
    <3>3. CASE q = r /\ store[r] # Replicated!Absent
      <4>1. seen'[q] = seen[r] \cup seen[s] /\ store'[q] = Replicated!Merge(store[r], store[s])
        BY <2>1, <3>3 DEF CallsKept
      <4>2. store[r] \in ObservedObjects
        BY <2>1, <3>3 DEF Objects
      <4>3. store'[q].elements[e] = store[r].elements[e] \cup store[s].elements[e]
        BY <4>1, <4>2 DEF Replicated!Merge, ObservedObjects
      <4>4. Reflects(store[r].elements[e], seen[r], e)
        BY <3>3 DEF ObservedKept, Reflects, Replicated!Seen
      <4>5. QED
        BY <3>1, <4>1, <4>3, <4>4 DEF Reflects
    <3>4. CASE q # r
      <4>1. store'[q] = store[q] /\ seen'[q] = seen[q]
        BY <2>1, <3>4 DEF CallsKept
      <4>2. QED
        BY <2>2, <4>1 DEF ObservedKept, Reflects, Replicated!Seen
    <3>5. QED
      BY <3>2, <3>3, <3>4
  <2>3. QED
    BY <2>1, <2>2 DEF ObservedKept, Reflects, Replicated!Absent, Replicated!Seen
<1>5. \/ \E r \in Replicas, e \in Elements : Replicated!Add(r, e) \/ Replicated!Remove(r, e)
      \/ \E r, s \in Replicas : Replicated!MergeFrom(r, s)
  BY DEF Replicated!Next, Replicated!Increment, Replicated!Decrement, Replicated!GrowAdd,
         Replicated!Write
<1>6. QED
  BY <1>2, <1>3, <1>4, <1>5

\* What a register says of the writes that reached it.
IsLatest(value, time, heard) ==
  /\ \A c \in heard : c.under <= time
  /\ IF time = 0 THEN value = "None" ELSE \E c \in heard : c.under = time /\ c.arg = value

\* A register holds one of the latest writes that reached it.
LEMMA RegisterStep ==
  ASSUME CallsKept, kind = "register", RegisterKept, Replicated!Next
  PROVE  CallsKept' /\ kind' = "register" /\ RegisterKept'
<1>0. /\ \A c \in calls : c.under \in 1 .. MaxTime
      /\ \A r \in Replicas : store[r] # Replicated!Absent =>
           IsLatest(store[r].value, store[r].time, seen[r])
      /\ Objects = RegisterObjects
  BY DEF RegisterKept, IsLatest, Objects
<1>1. ASSUME NEW r \in Replicas, NEW e \in Elements, NEW moment \in 1 .. MaxTime,
             Replicated!Write(r, e, moment)
      PROVE  CallsKept' /\ kind' = "register" /\ RegisterKept'
  <2>1. PICK o : o = Replicated!Object(r)
    OBVIOUS
  <2>2. o \in RegisterObjects
    BY <1>0, <2>1, ObjectIs
  <2>3. PICK object : object = IF moment >= o.time
                               THEN [o EXCEPT !.value = e, !.time = moment, !.writer = o.id] ELSE o
    OBVIOUS
  <2>4. object \in RegisterObjects
    <3>1. moment \in Nat
      BY StoresAssumption
    <3>2. [o EXCEPT !.value = e, !.time = moment, !.writer = o.id] \in RegisterObjects
      BY <2>2, <3>1 DEF RegisterObjects
    <3>3. QED
      BY <2>2, <2>3, <3>2
  <2>5. Replicated!Call(r, Replicated!What("write", moment, e), object)
    BY <1>1, <2>1, <2>3 DEF Replicated!Write
  <2>6. /\ CallsKept' /\ kind' = kind /\ store' = [store EXCEPT ![r] = object]
        /\ \E c : /\ c.op = "write" /\ c.under = moment /\ c.arg = e /\ c \notin calls
                  /\ calls' = calls \cup {c} /\ seen' = [seen EXCEPT ![r] = seen[r] \cup {c}]
    BY <1>0, <2>4, <2>5, CallStep
  <2>7. PICK c : c.under = moment /\ c.arg = e /\ calls' = calls \cup {c}
                 /\ seen' = [seen EXCEPT ![r] = seen[r] \cup {c}]
    BY <2>6
  <2>8. IsLatest(o.value, o.time, seen[r])
    <3>1. CASE store[r] = Replicated!Absent
      <4>1. o = Replicated!Fresh(r) /\ seen[r] = {}
        BY <2>1, <3>1, ObjectIs DEF CallsKept
      <4>2. Replicated!Fresh(r) = [id |-> r, value |-> "None", time |-> 0, writer |-> ""]
        BY DEF Replicated!Fresh
      <4>3. o = [id |-> r, value |-> "None", time |-> 0, writer |-> ""]
        BY <4>1, <4>2
      <4>5. o.value = "None"
        BY <4>3
      <4>6. o.time = 0
        BY <4>3
      <4>7. QED
        BY <4>1, <4>5, <4>6 DEF IsLatest
    <3>2. CASE store[r] # Replicated!Absent
      BY <1>0, <2>1, <3>2, ObjectIs
    <3>3. QED
      BY <3>1, <3>2
  <2>9. IsLatest(object.value, object.time, seen[r] \cup {c})
    <3>1. o.time \in Nat /\ moment \in Nat /\ moment # 0
      <4>1. o.time \in Nat
        BY <2>2 DEF RegisterObjects
      <4>2. moment \in Nat /\ moment # 0
        BY StoresAssumption
      <4>3. QED
        BY <4>1, <4>2
    <3>2. \A d \in seen[r] : d.under \in Nat
      BY <1>0 DEF CallsKept
    <3>3. CASE moment >= o.time
      <4>1. object.value = e /\ object.time = moment
        BY <2>2, <2>3, <3>3 DEF RegisterObjects
      <4>2. \A d \in seen[r] : d.under <= moment
        BY <2>8, <3>1, <3>2, <3>3 DEF IsLatest
      <4>3. QED
        BY <2>7, <3>1, <4>1, <4>2 DEF IsLatest
    <3>4. CASE ~(moment >= o.time)
      <4>1. object = o /\ moment <= o.time /\ o.time # 0
        BY <2>3, <3>1, <3>4
      <4>2. QED
        BY <2>7, <2>8, <4>1 DEF IsLatest
    <3>5. QED
      BY <3>3, <3>4
  <2>10. ASSUME NEW q \in Replicas, store'[q] # Replicated!Absent
         PROVE  IsLatest(store'[q].value, store'[q].time, seen'[q])
    <3>1. CASE q = r
      <4>1. store'[q] = object /\ seen'[q] = seen[r] \cup {c}
        BY <2>6, <2>7, <3>1 DEF CallsKept
      <4>2. QED
        BY <2>9, <4>1
    <3>2. CASE q # r
      <4>1. store'[q] = store[q] /\ seen'[q] = seen[q]
        BY <2>6, <2>7, <3>2 DEF CallsKept
      <4>2. QED
        BY <1>0, <2>10, <4>1
    <3>3. QED
      BY <3>1, <3>2
  <2>11. \A d \in calls' : d.under \in 1 .. MaxTime
    BY <1>0, <2>7
  <2>12. QED
    BY <2>6, <2>10, <2>11 DEF RegisterKept, IsLatest, Replicated!Absent
<1>2. ASSUME NEW r \in Replicas, NEW s \in Replicas, Replicated!MergeFrom(r, s)
      PROVE  CallsKept' /\ kind' = "register" /\ RegisterKept'
  <2>1. /\ CallsKept' /\ kind' = kind /\ calls' = calls
        /\ store[s] \in Objects /\ store[s] # Replicated!Absent
        /\ store[r] # Replicated!Absent => store[r] \in Objects
        /\ store' = [store EXCEPT ![r] = IF store[r] = Replicated!Absent THEN store[s]
                                         ELSE Replicated!Merge(store[r], store[s])]
        /\ seen' = [seen EXCEPT ![r] = seen[r] \cup seen[s]]
    BY <1>2, MergeStep
  <2>2. ASSUME NEW q \in Replicas, store'[q] # Replicated!Absent
        PROVE  IsLatest(store'[q].value, store'[q].time, seen'[q])
    <3>1. IsLatest(store[s].value, store[s].time, seen[s])
      BY <1>0, <2>1
    <3>2. CASE q = r /\ store[r] = Replicated!Absent
      <4>1. store'[q] = store[s] /\ seen'[q] = seen[s]
        BY <2>1, <3>2 DEF CallsKept
      <4>2. QED
        BY <3>1, <4>1
    <3>3. CASE q = r /\ store[r] # Replicated!Absent
      <4>1. seen'[q] = seen[r] \cup seen[s] /\ store'[q] = Replicated!Merge(store[r], store[s])
        BY <2>1, <3>3 DEF CallsKept
      <4>2. store[r] \in RegisterObjects /\ store[s] \in RegisterObjects
        BY <1>0, <2>1, <3>3
      <4>3. IsLatest(store[r].value, store[r].time, seen[r])
        BY <1>0, <3>3
      <4>4. \A d \in seen[r] \cup seen[s] : d.under \in Nat
        BY <1>0 DEF CallsKept
      <4>5. store[r].time \in Nat /\ store[s].time \in Nat
        BY <4>2 DEF RegisterObjects
      <4>6. CASE store[s].time > store[r].time
        <5>1. store'[q].value = store[s].value /\ store'[q].time = store[s].time
          BY <4>1, <4>2, <4>6 DEF Replicated!Merge, RegisterObjects
        <5>2. \A d \in seen[r] : d.under <= store[s].time
          BY <4>3, <4>4, <4>5, <4>6 DEF IsLatest
        <5>3. store[s].time # 0
          BY <4>5, <4>6
        <5>4. QED
          BY <3>1, <4>1, <5>1, <5>2, <5>3 DEF IsLatest
      <4>7. CASE ~(store[s].time > store[r].time)
        <5>1. store'[q] = store[r]
          BY <4>1, <4>7 DEF Replicated!Merge
        <5>2. \A d \in seen[s] : d.under <= store[r].time
          BY <3>1, <4>4, <4>5, <4>7 DEF IsLatest
        <5>3. QED
          BY <4>1, <4>3, <5>1, <5>2 DEF IsLatest
      <4>8. QED
        BY <4>6, <4>7
    <3>4. CASE q # r
      <4>1. store'[q] = store[q] /\ seen'[q] = seen[q]
        BY <2>1, <3>4 DEF CallsKept
      <4>2. QED
        BY <1>0, <2>2, <4>1
    <3>5. QED
      BY <3>2, <3>3, <3>4
  <2>3. \A d \in calls' : d.under \in 1 .. MaxTime
    BY <1>0, <2>1
  <2>4. QED
    BY <2>1, <2>2, <2>3 DEF RegisterKept, IsLatest, Replicated!Absent
<1>3. \/ \E r \in Replicas, e \in Elements, moment \in 1 .. MaxTime : Replicated!Write(r, e, moment)
      \/ \E r, s \in Replicas : Replicated!MergeFrom(r, s)
  BY DEF Replicated!Next, Replicated!Increment, Replicated!Decrement, Replicated!GrowAdd,
         Replicated!Add, Replicated!Remove
<1>4. QED
  BY <1>1, <1>2, <1>3

-----------------------------------------------------------------------------
\* The calls of one sort that a replica has heard of.
Made(heard, op, s) == {c \in heard : c.op = op /\ c.under = s}

LEMMA MadeGrows ==
  ASSUME NEW heard, IsFiniteSet(heard), NEW more, more \subseteq heard, NEW op, NEW s
  PROVE  /\ Cardinality(Made(more, op, s)) \in Nat /\ Cardinality(Made(heard, op, s)) \in Nat
         /\ Cardinality(Made(more, op, s)) <= Cardinality(Made(heard, op, s))
<1>1. /\ Made(heard, op, s) \subseteq heard /\ Made(more, op, s) \subseteq Made(heard, op, s)
  BY DEF Made
<1>2. IsFiniteSet(Made(heard, op, s)) /\ IsFiniteSet(Made(more, op, s))
  BY <1>1, FS_Subset
<1>3. QED
  BY <1>1, <1>2, FS_Subset, FS_CardinalityType

\* One more call of a sort is counted once.
LEMMA MadeOnce ==
  ASSUME NEW heard, IsFiniteSet(heard), NEW c, c \notin heard, NEW op, NEW s,
         c.op = op, c.under = s
  PROVE  Cardinality(Made(heard \cup {c}, op, s)) = Cardinality(Made(heard, op, s)) + 1
<1>1. PICK made : made = Made(heard, op, s)
  OBVIOUS
<1>2. Made(heard \cup {c}, op, s) = made \cup {c} /\ c \notin made /\ made \subseteq heard
  BY <1>1 DEF Made
<1>3. IsFiniteSet(made)
  BY <1>2, FS_Subset
<1>4. Cardinality(made \cup {c}) = Cardinality(made) + 1
  BY <1>2, <1>3, FS_AddElement
<1>5. QED
  BY <1>1, <1>2, <1>4

\* A counter counts at most what was made.
Counted(o, heard) == \A s \in Replicas :
  /\ o.p[s] <= Cardinality(Made(heard, "increment", s))
  /\ o.n[s] <= Cardinality(Made(heard, "decrement", s))

LEMMA CounterStep ==
  ASSUME CallsKept, kind = "counter", CounterKept, Replicated!Next
  PROVE  CallsKept' /\ kind' = "counter" /\ CounterKept'
<1>1. /\ Objects = CounterObjects
      /\ \A r \in Replicas : store[r] # Replicated!Absent => Counted(store[r], seen[r])
      /\ \A r \in Replicas : IsFiniteSet(seen[r])
  <2>1. \A r \in Replicas : IsFiniteSet(seen[r])
    BY FS_Subset DEF CallsKept
  <2>2. QED
    BY <2>1 DEF CounterKept, Counted, Made, Objects
<1>2. ASSUME NEW q \in Replicas, NEW heard, seen[q] \subseteq heard, IsFiniteSet(heard),
             NEW o \in CounterObjects, Counted(o, seen[q])
      PROVE  Counted(o, heard)
  <2>1. SUFFICES ASSUME NEW s \in Replicas
                 PROVE  /\ o.p[s] <= Cardinality(Made(heard, "increment", s))
                        /\ o.n[s] <= Cardinality(Made(heard, "decrement", s))
    BY DEF Counted
  <2>2. o.p[s] \in Nat /\ o.n[s] \in Nat
    BY DEF CounterObjects
  <2>3. /\ o.p[s] <= Cardinality(Made(seen[q], "increment", s))
        /\ o.n[s] <= Cardinality(Made(seen[q], "decrement", s))
    BY <1>2 DEF Counted
  <2>4. /\ Cardinality(Made(seen[q], "increment", s)) \in Nat
        /\ Cardinality(Made(heard, "increment", s)) \in Nat
        /\ Cardinality(Made(seen[q], "increment", s)) <= Cardinality(Made(heard, "increment", s))
    BY <1>2, MadeGrows
  <2>5. /\ Cardinality(Made(seen[q], "decrement", s)) \in Nat
        /\ Cardinality(Made(heard, "decrement", s)) \in Nat
        /\ Cardinality(Made(seen[q], "decrement", s)) <= Cardinality(Made(heard, "decrement", s))
    BY <1>2, MadeGrows
  <2>6. QED
    BY <2>2, <2>3, <2>4, <2>5
<1>3. ASSUME NEW r \in Replicas, Counted(store'[r], seen'[r]),
             \A q \in Replicas \ {r} : store'[q] = store[q] /\ seen'[q] = seen[q],
             CallsKept', kind' = kind
      PROVE  CallsKept' /\ kind' = "counter" /\ CounterKept'
  <2>1. \A q \in Replicas : store'[q] # Replicated!Absent => Counted(store'[q], seen'[q])
    BY <1>1, <1>3
  <2>2. QED
    BY <1>3, <2>1 DEF CounterKept, Counted, Made, Replicated!Absent
<1>4. ASSUME NEW r \in Replicas
      PROVE  Replicated!Object(r) \in CounterObjects /\ Counted(Replicated!Object(r), seen[r])
  <2>1. CASE store[r] = Replicated!Absent
    <3>1. Replicated!Object(r) = [id |-> r, p |-> Replicated!Zero, n |-> Replicated!Zero]
      BY <2>1, ObjectIs DEF Replicated!Fresh
    <3>2. seen[r] = {}
      BY <2>1 DEF CallsKept
    <3>3. \A op, s : Cardinality(Made({}, op, s)) = 0
      <4>1. \A op, s : Made({}, op, s) = {}
        BY DEF Made
      <4>2. QED
        BY <4>1, FS_EmptySet
    <3>4. \A s \in Replicas : Replicated!Object(r).p[s] = 0 /\ Replicated!Object(r).n[s] = 0
      BY <3>1 DEF Replicated!Zero
    <3>5. QED
      BY <1>1, <3>2, <3>3, <3>4, ObjectIs DEF Counted
  <2>2. CASE store[r] # Replicated!Absent
    BY <1>1, <2>2, ObjectIs
  <2>3. QED
    BY <2>1, <2>2
<1>5. ASSUME NEW r \in Replicas, Replicated!Increment(r)
      PROVE  CallsKept' /\ kind' = "counter" /\ CounterKept'
  <2>1. PICK o : o = Replicated!Object(r)
    OBVIOUS
  <2>2. o \in CounterObjects /\ Counted(o, seen[r])
    BY <1>4, <2>1
  <2>3. PICK counts : counts = [o.p EXCEPT ![o.id] = o.p[o.id] + 1]
    OBVIOUS
  <2>4. PICK object : object = [o EXCEPT !.p = counts]
    OBVIOUS
  <2>5. o.id \in Replicas /\ o.p \in [Replicas -> Nat] /\ counts \in [Replicas -> Nat]
    BY <2>2, <2>3 DEF CounterObjects
  <2>6. object \in CounterObjects /\ object.p = counts /\ object.n = o.n
    BY <2>2, <2>4, <2>5 DEF CounterObjects
  <2>7. Replicated!Call(r, Replicated!What("increment", o.id, 1), object)
    BY <1>5, <2>1, <2>3, <2>4 DEF Replicated!Increment
  <2>8. /\ CallsKept' /\ kind' = kind /\ store' = [store EXCEPT ![r] = object]
        /\ \E c : /\ c.op = "increment" /\ c.under = o.id /\ c.arg = 1 /\ c \notin calls
                  /\ calls' = calls \cup {c} /\ seen' = [seen EXCEPT ![r] = seen[r] \cup {c}]
    BY <1>1, <2>6, <2>7, CallStep
  <2>9. PICK c : /\ c.op = "increment" /\ c.under = o.id /\ c \notin calls
                 /\ seen' = [seen EXCEPT ![r] = seen[r] \cup {c}]
    BY <2>8
  <2>10. store'[r] = object /\ seen'[r] = seen[r] \cup {c} /\ c \notin seen[r]
    BY <2>8, <2>9 DEF CallsKept
  <2>11. IsFiniteSet(seen[r] \cup {c})
    BY <1>1, FS_AddElement
  <2>12. Counted(o, seen[r] \cup {c})
    BY <1>2, <2>2, <2>11
  <2>13. Cardinality(Made(seen[r] \cup {c}, "increment", o.id)) = Cardinality(Made(seen[r], "increment", o.id)) + 1
    BY <1>1, <2>9, <2>10, MadeOnce
  <2>14. Cardinality(Made(seen[r], "increment", o.id)) \in Nat
    BY <1>1, MadeGrows
  <2>15. o.p[o.id] <= Cardinality(Made(seen[r], "increment", o.id)) /\ o.p[o.id] \in Nat
    BY <2>2, <2>5 DEF Counted
  <2>16. counts[o.id] <= Cardinality(Made(seen[r] \cup {c}, "increment", o.id))
    BY <2>3, <2>5, <2>13, <2>14, <2>15
  <2>17. Counted(object, seen[r] \cup {c})
    BY <2>3, <2>5, <2>6, <2>12, <2>16 DEF Counted
  <2>18. \A q \in Replicas \ {r} : store'[q] = store[q] /\ seen'[q] = seen[q]
    BY <2>8, <2>9 DEF CallsKept
  <2>19. QED
    BY <1>3, <2>8, <2>10, <2>17, <2>18
<1>6. ASSUME NEW r \in Replicas, Replicated!Decrement(r)
      PROVE  CallsKept' /\ kind' = "counter" /\ CounterKept'
  <2>1. PICK o : o = Replicated!Object(r)
    OBVIOUS
  <2>2. o \in CounterObjects /\ Counted(o, seen[r])
    BY <1>4, <2>1
  <2>3. PICK counts : counts = [o.n EXCEPT ![o.id] = o.n[o.id] + 1]
    OBVIOUS
  <2>4. PICK object : object = [o EXCEPT !.n = counts]
    OBVIOUS
  <2>5. o.id \in Replicas /\ o.n \in [Replicas -> Nat] /\ counts \in [Replicas -> Nat]
    BY <2>2, <2>3 DEF CounterObjects
  <2>6. object \in CounterObjects /\ object.n = counts /\ object.p = o.p
    BY <2>2, <2>4, <2>5 DEF CounterObjects
  <2>7. Replicated!Call(r, Replicated!What("decrement", o.id, 1), object)
    BY <1>6, <2>1, <2>3, <2>4 DEF Replicated!Decrement
  <2>8. /\ CallsKept' /\ kind' = kind /\ store' = [store EXCEPT ![r] = object]
        /\ \E c : /\ c.op = "decrement" /\ c.under = o.id /\ c.arg = 1 /\ c \notin calls
                  /\ calls' = calls \cup {c} /\ seen' = [seen EXCEPT ![r] = seen[r] \cup {c}]
    BY <1>1, <2>6, <2>7, CallStep
  <2>9. PICK c : /\ c.op = "decrement" /\ c.under = o.id /\ c \notin calls
                 /\ seen' = [seen EXCEPT ![r] = seen[r] \cup {c}]
    BY <2>8
  <2>10. store'[r] = object /\ seen'[r] = seen[r] \cup {c} /\ c \notin seen[r]
    BY <2>8, <2>9 DEF CallsKept
  <2>11. IsFiniteSet(seen[r] \cup {c})
    BY <1>1, FS_AddElement
  <2>12. Counted(o, seen[r] \cup {c})
    BY <1>2, <2>2, <2>11
  <2>13. Cardinality(Made(seen[r] \cup {c}, "decrement", o.id)) = Cardinality(Made(seen[r], "decrement", o.id)) + 1
    BY <1>1, <2>9, <2>10, MadeOnce
  <2>14. Cardinality(Made(seen[r], "decrement", o.id)) \in Nat
    BY <1>1, MadeGrows
  <2>15. o.n[o.id] <= Cardinality(Made(seen[r], "decrement", o.id)) /\ o.n[o.id] \in Nat
    BY <2>2, <2>5 DEF Counted
  <2>16. counts[o.id] <= Cardinality(Made(seen[r] \cup {c}, "decrement", o.id))
    BY <2>3, <2>5, <2>13, <2>14, <2>15
  <2>17. Counted(object, seen[r] \cup {c})
    BY <2>3, <2>5, <2>6, <2>12, <2>16 DEF Counted
  <2>18. \A q \in Replicas \ {r} : store'[q] = store[q] /\ seen'[q] = seen[q]
    BY <2>8, <2>9 DEF CallsKept
  <2>19. QED
    BY <1>3, <2>8, <2>10, <2>17, <2>18
<1>7. ASSUME NEW r \in Replicas, NEW s \in Replicas, Replicated!MergeFrom(r, s)
      PROVE  CallsKept' /\ kind' = "counter" /\ CounterKept'
  <2>1. /\ CallsKept' /\ kind' = kind /\ calls' = calls
        /\ store[s] \in Objects /\ store[s] # Replicated!Absent
        /\ store[r] # Replicated!Absent => store[r] \in Objects
        /\ store' = [store EXCEPT ![r] = IF store[r] = Replicated!Absent THEN store[s]
                                         ELSE Replicated!Merge(store[r], store[s])]
        /\ seen' = [seen EXCEPT ![r] = seen[r] \cup seen[s]]
    BY <1>7, MergeStep
  <2>2. seen'[r] = seen[r] \cup seen[s] /\ IsFiniteSet(seen[r] \cup seen[s])
    BY <1>1, <2>1, FS_Union DEF CallsKept
  <2>3. CASE store[r] = Replicated!Absent
    <3>1. store'[r] = store[s]
      BY <2>1, <2>3 DEF CallsKept
    <3>2. QED
      BY <1>1, <1>2, <1>3, <2>1, <2>2, <3>1 DEF CallsKept
  <2>4. CASE store[r] # Replicated!Absent
    <3>1. store'[r] = Replicated!Merge(store[r], store[s])
      BY <2>1, <2>4 DEF CallsKept
    <3>2. store[r] \in CounterObjects /\ store[s] \in CounterObjects
      BY <1>1, <2>1, <2>4
    <3>3. Counted(store[r], seen[r] \cup seen[s])
      BY <1>1, <1>2, <2>2, <2>4, <3>2
    <3>4. /\ store'[r].p = Replicated!MinCounts(store[r].p, store[s].p)
          /\ store'[r].n = Replicated!MinCounts(store[r].n, store[s].n)
      BY <3>1, <3>2 DEF Replicated!Merge, CounterObjects
    <3>5. \A q \in Replicas : store'[r].p[q] <= store[r].p[q] /\ store'[r].n[q] <= store[r].n[q]
                              /\ store'[r].p[q] \in Nat /\ store'[r].n[q] \in Nat
      BY <3>2, <3>4 DEF CounterObjects, Replicated!MinCounts
    <3>6. Counted(store'[r], seen'[r])
      <4>1. SUFFICES ASSUME NEW q \in Replicas
                     PROVE  /\ store'[r].p[q] <= Cardinality(Made(seen'[r], "increment", q))
                            /\ store'[r].n[q] <= Cardinality(Made(seen'[r], "decrement", q))
        BY DEF Counted
      <4>2. /\ Cardinality(Made(seen'[r], "increment", q)) \in Nat
            /\ Cardinality(Made(seen'[r], "decrement", q)) \in Nat
        BY <2>2, MadeGrows
      <4>3. /\ store[r].p[q] <= Cardinality(Made(seen'[r], "increment", q)) /\ store[r].p[q] \in Nat
            /\ store[r].n[q] <= Cardinality(Made(seen'[r], "decrement", q)) /\ store[r].n[q] \in Nat
        BY <2>2, <3>2, <3>3 DEF Counted, CounterObjects
      <4>4. QED
        BY <3>5, <4>2, <4>3
    <3>7. QED
      BY <1>3, <2>1, <3>6 DEF CallsKept
  <2>5. QED
    BY <2>3, <2>4
<1>8. \/ \E r \in Replicas : Replicated!Increment(r) \/ Replicated!Decrement(r)
      \/ \E r, s \in Replicas : Replicated!MergeFrom(r, s)
  BY DEF Replicated!Next, Replicated!GrowAdd, Replicated!Add, Replicated!Remove, Replicated!Write
<1>9. QED
  BY <1>5, <1>6, <1>7, <1>8

LEMMA ReplicatedStep ==
  ASSUME ReplicatedInv, [StoresNext]_storeVars
  PROVE  ReplicatedInv'
<1>1. SUFFICES ASSUME which = "replicated"
               PROVE  /\ CallsKept'
                      /\ (kind = "counter"  => CounterKept)'
                      /\ (kind = "grow"     => GrowKept)'
                      /\ (kind = "observed" => ObservedKept)'
                      /\ (kind = "register" => RegisterKept)'
  <2>1. which' = which
    BY DEF StoresNext, storeVars
  <2>2. QED
    BY <2>1 DEF ReplicatedInv
<1>2. CASE Replicated!Next
  <2>1. CASE kind = "counter"
    BY <1>1, <1>2, <2>1, CounterStep DEF ReplicatedInv
  <2>2. CASE kind = "grow"
    BY <1>1, <1>2, <2>2, GrowStep DEF ReplicatedInv
  <2>3. CASE kind = "observed"
    BY <1>1, <1>2, <2>3, ObservedStep DEF ReplicatedInv
  <2>4. CASE kind = "register"
    BY <1>1, <1>2, <2>4, RegisterStep DEF ReplicatedInv
  <2>5. QED
    BY <1>1, <2>1, <2>2, <2>3, <2>4 DEF ReplicatedInv, CallsKept, Replicated!Kinds
<1>3. CASE UNCHANGED replicatedVars
  <2>1. kind' = kind /\ store' = store /\ seen' = seen /\ calls' = calls
    BY <1>3 DEF replicatedVars
  <2>2. CallsKept'
    BY <1>1, <2>1 DEF ReplicatedInv, CallsKept, Objects, Replicated!Absent
  <2>3. (CounterKept' <=> CounterKept) /\ (GrowKept' <=> GrowKept)
    BY <2>1 DEF CounterKept, GrowKept, Replicated!Seen, Replicated!Absent
  <2>4. (ObservedKept' <=> ObservedKept) /\ (RegisterKept' <=> RegisterKept)
    BY <2>1 DEF ObservedKept, RegisterKept, Replicated!Seen, Replicated!Absent
  <2>5. QED
    BY <1>1, <2>1, <2>2, <2>3, <2>4 DEF ReplicatedInv
<1>4. Replicated!Next \/ UNCHANGED replicatedVars
  BY <1>1 DEF StoresNext, storeVars
<1>5. QED
  BY <1>2, <1>3, <1>4

\* What the invariant says of the four kinds is what is promised of them.
LEMMA RepliesFollow ==
  ASSUME ReplicatedInv
  PROVE  ReplicasReflectCalls
<1>1. SUFFICES ASSUME which = "replicated"
               PROVE  /\ Replicated!SetsReflectCalls /\ Replicated!LatestWriteWins
                      /\ Replicated!NeverOvercounts /\ Replicated!Converges
  BY DEF ReplicasReflectCalls
<1>2. CallsKept
  BY <1>1 DEF ReplicatedInv
<1>3. Replicated!SetsReflectCalls
  <2>1. SUFFICES ASSUME kind = "grow" \/ kind = "observed", NEW r \in Replicas, NEW e \in Elements
                 PROVE  /\ Replicated!Holds(r, e) => Replicated!Seen(r, "add", e)
                        /\ Replicated!Seen(r, "add", e) /\ ~Replicated!Seen(r, "remove", e)
                             => Replicated!Holds(r, e)
    BY DEF Replicated!SetsReflectCalls
  <2>2. CASE store[r] = Replicated!Absent
    BY <1>2, <2>2 DEF CallsKept, Replicated!Holds, Replicated!Seen
  <2>3. CASE store[r] # Replicated!Absent /\ kind = "grow"
    BY <1>1, <2>3 DEF ReplicatedInv, GrowKept, Replicated!Holds
  <2>4. CASE store[r] # Replicated!Absent /\ kind = "observed"
    BY <1>1, <2>4 DEF ReplicatedInv, ObservedKept, Replicated!Holds
  <2>5. QED
    BY <2>1, <2>2, <2>3, <2>4
<1>4. Replicated!LatestWriteWins
  <2>1. SUFFICES ASSUME kind = "register", NEW r \in Replicas, store[r] # Replicated!Absent
                 PROVE  /\ store[r].time = Replicated!Max({c.under : c \in seen[r]} \cup {0})
                        /\ store[r].time > 0 => \E c \in seen[r] : c.under = store[r].time
                                                                   /\ c.arg = store[r].value
    BY DEF Replicated!LatestWriteWins
  <2>2. RegisterKept
    BY <1>1, <2>1 DEF ReplicatedInv
  <2>3. store[r].time \in Nat
    BY <1>2, <2>1 DEF CallsKept, Objects, RegisterObjects
  <2>4. IsLatest(store[r].value, store[r].time, seen[r])
    BY <2>1, <2>2 DEF RegisterKept, IsLatest
  <2>5. PICK times : times = {c.under : c \in seen[r]} \cup {0}
    OBVIOUS
  <2>6. times \subseteq 0 .. MaxTime
    <3>1. \A c \in seen[r] : c.under \in 1 .. MaxTime
      BY <1>2, <2>2 DEF CallsKept, RegisterKept
    <3>2. QED
      BY <2>5, <3>1, StoresAssumption
  <2>7. store[r].time \in times /\ \A x \in times : x <= store[r].time
    BY <2>3, <2>4, <2>5 DEF IsLatest
  <2>8. Max(times) = store[r].time
    BY <2>6, <2>7, MaxProperty, StoresAssumption
  <2>9. Replicated!Max(times) = Max(times)
    BY DEF Replicated!Max, Max
  <2>10. QED
    BY <2>3, <2>4, <2>5, <2>8, <2>9 DEF IsLatest
<1>5. Replicated!NeverOvercounts
  <2>1. SUFFICES ASSUME kind = "counter", NEW r \in Replicas, NEW s \in Replicas,
                        store[r] # Replicated!Absent
                 PROVE  /\ store[r].p[s] <= Cardinality({c \in seen[r] : c.op = "increment" /\ c.under = s})
                        /\ store[r].n[s] <= Cardinality({c \in seen[r] : c.op = "decrement" /\ c.under = s})
    BY ReplicatedCounts DEF Replicated!NeverOvercounts
  <2>2. QED
    BY <1>1, <2>1 DEF ReplicatedInv, CounterKept
<1>6. Replicated!Converges
  <2>1. SUFFICES ASSUME kind = "grow" \/ kind = "register", NEW r \in Replicas, NEW s \in Replicas,
                        seen[r] = seen[s], store[r] # Replicated!Absent, store[s] # Replicated!Absent
                 PROVE  IF kind = "grow" THEN store[r].elements = store[s].elements
                        ELSE \/ store[r].value = store[s].value
                             \/ \E c, d \in seen[r] : c # d /\ c.under = d.under /\ c.under = store[r].time
    BY DEF Replicated!Converges
  <2>2. CASE kind = "grow"
    <3>1. /\ store[r].elements = {e \in Elements : Replicated!Seen(r, "add", e)}
          /\ store[s].elements = {e \in Elements : Replicated!Seen(s, "add", e)}
      BY <1>1, <2>1, <2>2 DEF ReplicatedInv, GrowKept
    <3>2. \A e \in Elements : Replicated!Seen(r, "add", e) <=> Replicated!Seen(s, "add", e)
      BY <2>1 DEF Replicated!Seen
    <3>3. store[r].elements = store[s].elements
      BY <3>1, <3>2
    <3>4. QED
      BY <2>2, <3>3
  <2>3. CASE kind = "register"
    <3>1. RegisterKept
      BY <1>1, <2>3 DEF ReplicatedInv
    <3>2. store[r].time \in Nat /\ store[s].time \in Nat
      BY <1>2, <2>1, <2>3 DEF CallsKept, Objects, RegisterObjects
    <3>3. /\ IsLatest(store[r].value, store[r].time, seen[r])
          /\ IsLatest(store[s].value, store[s].time, seen[r])
      BY <2>1, <3>1 DEF RegisterKept, IsLatest
    <3>4. \A c \in seen[r] : c.under \in 1 .. MaxTime
      BY <1>2, <3>1 DEF CallsKept, RegisterKept
    <3>5. \A c \in seen[r] : c.under \in Nat /\ c.under # 0
      BY <3>4, StoresAssumption
    <3>6. store[r].time = store[s].time
      BY <3>2, <3>3, <3>5 DEF IsLatest
    <3>7. store[r].value = store[s].value
          \/ \E c, d \in seen[r] : c # d /\ c.under = d.under /\ c.under = store[r].time
      BY <3>3, <3>6 DEF IsLatest
    <3>8. QED
      BY <2>3, <3>7
  <2>4. QED
    BY <2>1, <2>2, <2>3
<1>7. QED
  BY <1>3, <1>4, <1>5, <1>6

\* Whatever calls and merges there are, in whatever order and however often: a set holds
\* elements that were added and all that nobody removed, a register one of the latest
\* writes, a counter no more than was counted, and replicas that heard of the same
\* agree (the merge methods, CRDTStore.merge_from).
THEOREM ReplicasReflectCallsAlways == StoresSpec => []ReplicasReflectCalls
<1>1. StoresInit => ReplicatedInv
  <2>1. SUFFICES ASSUME StoresInit, which = "replicated"
                 PROVE  /\ CallsKept
                        /\ kind = "counter"  => CounterKept
                        /\ kind = "grow"     => GrowKept
                        /\ kind = "observed" => ObservedKept
                        /\ kind = "register" => RegisterKept
    BY DEF ReplicatedInv
  <2>2. /\ kind \in Replicated!Kinds /\ store = [r \in Replicas |-> Replicated!Absent]
        /\ seen = [r \in Replicas |-> {}] /\ calls = {}
    BY <2>1 DEF StoresInit, Replicated!Init
  <2>3. IsFiniteSet(calls)
    BY <2>2, FS_EmptySet
  <2>4. QED
    BY <2>2, <2>3 DEF CallsKept, CounterKept, GrowKept, ObservedKept, RegisterKept
<1>2. ReplicatedInv /\ [StoresNext]_storeVars => ReplicatedInv'
  BY ReplicatedStep
<1>3. ReplicatedInv => ReplicasReflectCalls
  BY RepliesFollow
<1>4. QED
  BY <1>1, <1>2, <1>3, PTL DEF StoresSpec

-----------------------------------------------------------------------------
(* The garbage collector *)

\* Ids are handed out in order, and the totals account for every object.
CollectorInv ==
  /\ allocated \in Nat /\ freed \in Int
  /\ Collector!Live \subseteq 1 .. allocated
  /\ names \in [Names -> 0 .. allocated]
  /\ VariablesSurvive

\* The collector counts its heap as the proofs do.
LEMMA CollectorCounts == \A set : Collector!Cardinality(set) = Cardinality(set)
<1>1. ASSUME NEW set PROVE Collector!Cardinality(set) = Cardinality(set)
  BY DEF Collector!Cardinality, Cardinality, Collector!IsFiniteSet, IsFiniteSet
<1>2. QED
  BY <1>1

\* A collection keeps what the roots hold and counts what it drops.
LEMMA CollectKeeps ==
  ASSUME NEW heap, NEW from, IsFiniteSet(DOMAIN heap), freed \in Int, Collector!Collect(heap, from)
  PROVE  /\ Collector!Live' = from \intersect DOMAIN heap
         /\ freed' = freed + Cardinality(DOMAIN heap) - Cardinality(Collector!Live')
         /\ freed' \in Int
<1>1. Collector!Marked(heap, from) = from \intersect DOMAIN heap
  BY DEF Collector!Marked
<1>2. Collector!Live' = from \intersect DOMAIN heap
  BY <1>1 DEF Collector!Collect, Collector!Live
<1>3. freed' = freed + Cardinality(DOMAIN heap) - Cardinality(Collector!Live')
  BY <1>1, <1>2, CollectorCounts DEF Collector!Collect
<1>4. IsFiniteSet(from \intersect DOMAIN heap)
  <2>1. from \intersect DOMAIN heap \subseteq DOMAIN heap
    OBVIOUS
  <2>2. QED
    BY <2>1, FS_Subset
<1>5. Cardinality(DOMAIN heap) \in Nat /\ Cardinality(Collector!Live') \in Nat
  BY <1>2, <1>4, FS_CardinalityType
<1>6. QED
  BY <1>2, <1>3, <1>5

LEMMA LiveIsFinite ==
  ASSUME CollectorInv
  PROVE  /\ IsFiniteSet(Collector!Live) /\ Cardinality(Collector!Live) \in Nat
         /\ Cardinality(Collector!Live \cup {allocated + 1}) = Cardinality(Collector!Live) + 1
         /\ IsFiniteSet(Collector!Live \cup {allocated + 1})
<1>1. IsFiniteSet(1 .. allocated)
  BY FS_Interval DEF CollectorInv
<1>2. IsFiniteSet(Collector!Live)
  BY <1>1, FS_Subset DEF CollectorInv
<1>3. allocated + 1 \notin Collector!Live
  BY DEF CollectorInv
<1>4. QED
  BY <1>2, <1>3, FS_AddElement, FS_CardinalityType

\* An allocation binds its variable before it may collect.
LEMMA CreateStep ==
  ASSUME CollectorInv, NEW n \in Names, NEW to, Collector!Create(n, to)
  PROVE  CollectorInv'
<1> USE DEF CollectorInv, VariablesSurvive, Collector!VariablesSurvive
<1>1. /\ allocated' = allocated + 1 /\ names' = [names EXCEPT ![n] = allocated + 1]
      /\ roots' = Collector!Held(names') /\ dropped' = dropped
  BY DEF Collector!Create
<1>2. names' \in [Names -> 0 .. allocated']
  BY <1>1
<1>3. Collector!Held(names') \ dropped \subseteq Collector!Live \cup {allocated + 1}
  <2>1. SUFFICES ASSUME NEW x \in Names, names'[x] # 0, names'[x] \notin dropped
                 PROVE  names'[x] \in Collector!Live \cup {allocated + 1}
    BY DEF Collector!Held, Collector!Unset
  <2>2. CASE x = n
    BY <1>1, <2>2
  <2>3. CASE x # n
    BY <1>1, <2>1, <2>3 DEF Collector!Held, Collector!Unset
  <2>4. QED
    BY <2>2, <2>3
<1>4. PICK heap : heap = Collector!Allocated(to)
  OBVIOUS
<1>5. DOMAIN heap = Collector!Live \cup {allocated + 1}
  BY <1>4 DEF Collector!Allocated
<1>6. /\ IsFiniteSet(DOMAIN heap) /\ Cardinality(DOMAIN heap) = Cardinality(Collector!Live) + 1
      /\ Cardinality(Collector!Live) \in Nat
  BY <1>5, LiveIsFinite
<1>7. allocated - freed = Cardinality(Collector!Live)
  BY CollectorCounts
<1>8. CASE sinceGc + 1 >= Threshold
  <2>1. Collector!Collect(heap, roots')
    BY <1>4, <1>8 DEF Collector!Create
  <2>2. /\ Collector!Live' = roots' \intersect DOMAIN heap
        /\ freed' = freed + Cardinality(DOMAIN heap) - Cardinality(Collector!Live')
        /\ freed' \in Int
    BY <1>6, <2>1, CollectKeeps
  <2>3. Cardinality(Collector!Live') \in Nat
    <3>1. IsFiniteSet(Collector!Live')
      <4>1. roots' \intersect DOMAIN heap \subseteq DOMAIN heap
        OBVIOUS
      <4>2. QED
        BY <1>6, <2>2, <4>1, FS_Subset
    <3>2. QED
      BY <3>1, FS_CardinalityType
  <2>4. allocated' - freed' = Cardinality(Collector!Live')
    BY <1>1, <1>6, <1>7, <2>2, <2>3
  <2>5. Collector!Live' \subseteq 1 .. allocated'
    <3>1. DOMAIN heap \subseteq 1 .. (allocated + 1)
      BY <1>5
    <3>2. QED
      BY ONLY <1>1, <2>2, <3>1
  <2>6. Collector!Held(names') \ dropped' \subseteq Collector!Live' \intersect roots'
    <3>1. Collector!Held(names') \ dropped' \subseteq DOMAIN heap
      BY <1>1, <1>3, <1>5
    <3>2. QED
      BY ONLY <1>1, <2>2, <3>1
  <2>7. QED
    BY <1>1, <1>2, <2>2, CollectorCounts, <2>4, <2>5, <2>6 DEF Collector!Held
<1>9. CASE ~(sinceGc + 1 >= Threshold)
  <2>1. refs' = heap /\ freed' = freed
    BY <1>4, <1>9 DEF Collector!Create
  <2>2. Collector!Live' = DOMAIN heap
    BY <2>1 DEF Collector!Live
  <2>3. allocated' - freed' = Cardinality(Collector!Live')
    BY <1>1, <1>6, <1>7, <2>1, <2>2
  <2>4. Collector!Held(names') \ dropped' \subseteq Collector!Live' \intersect roots'
    BY <1>1, <1>3, <1>5, <2>2
  <2>5. QED
    BY <1>1, <1>2, CollectorCounts, <1>5, <2>1, <2>2, <2>3, <2>4 DEF Collector!Held
<1>10. QED
  BY <1>8, <1>9

\* A collection on demand.
LEMMA CollectStep ==
  ASSUME CollectorInv, Collector!CollectNow
  PROVE  CollectorInv'
<1> USE DEF CollectorInv, VariablesSurvive, Collector!VariablesSurvive
<1>1. UNCHANGED <<names, roots, allocated, dropped>> /\ Collector!Collect(refs, roots)
  BY DEF Collector!CollectNow
<1>2. IsFiniteSet(DOMAIN refs) /\ Cardinality(DOMAIN refs) \in Nat
  BY LiveIsFinite DEF Collector!Live
<1>3. /\ Collector!Live' = roots \intersect DOMAIN refs
      /\ freed' = freed + Cardinality(DOMAIN refs) - Cardinality(Collector!Live')
      /\ freed' \in Int
  BY <1>1, <1>2, CollectKeeps
<1>4. Cardinality(Collector!Live') \in Nat
  <2>1. roots \intersect DOMAIN refs \subseteq DOMAIN refs
    OBVIOUS
  <2>2. IsFiniteSet(Collector!Live')
    BY <1>2, <1>3, <2>1, FS_Subset
  <2>3. QED
    BY <2>2, FS_CardinalityType
<1>5. allocated - freed = Cardinality(DOMAIN refs)
  BY CollectorCounts DEF Collector!Live
<1>6. allocated' - freed' = Cardinality(Collector!Live')
  BY <1>1, <1>2, <1>3, <1>4, <1>5
<1>7. Collector!Live' \subseteq 1 .. allocated'
  BY <1>1, <1>3 DEF Collector!Live
<1>8. Collector!Held(names)' \ dropped' \subseteq Collector!Live' \intersect roots'
  BY <1>1, <1>3 DEF Collector!Held, Collector!Live
<1>9. QED
  BY <1>1, <1>3, CollectorCounts, <1>6, <1>7, <1>8

LEMMA CollectorStep ==
  ASSUME CollectorInv, Collector!Next \/ UNCHANGED collectorVars
  PROVE  CollectorInv'
<1> USE DEF CollectorInv, VariablesSurvive, Collector!VariablesSurvive
<1>1. CASE \E n \in Names : \E to \in SUBSET (1 .. allocated) : Collector!Create(n, to)
  BY <1>1, CreateStep
<1>2. CASE Collector!CollectNow
  BY <1>2, CollectStep
<1>3. CASE \E n \in Names : Collector!DeleteVariable(n)
  <2>1. PICK n \in Names : Collector!DeleteVariable(n)
    BY <1>3
  <2>2. /\ names' = [names EXCEPT ![n] = 0] /\ roots' = Collector!Held(names')
        /\ UNCHANGED <<refs, allocated, freed, dropped>>
    BY <2>1 DEF Collector!DeleteVariable, Collector!Unset
  <2>3. names' \in [Names -> 0 .. allocated']
    BY <2>2
  <2>4. Collector!Live' = Collector!Live
    BY <2>2 DEF Collector!Live
  <2>5. Collector!Held(names') \subseteq Collector!Held(names)
    <3>1. SUFFICES ASSUME NEW x \in Names, names'[x] # 0
                   PROVE  names'[x] \in Collector!Held(names)
      BY DEF Collector!Held, Collector!Unset
    <3>2. x # n /\ names'[x] = names[x]
      BY <2>2, <3>1
    <3>3. QED
      BY <3>1, <3>2 DEF Collector!Held, Collector!Unset
  <2>6. QED
    BY <2>2, <2>3, <2>4, <2>5 DEF Collector!Held
<1>4. CASE \E i, j \in 1 .. allocated : Collector!Refer(i, j) \/ Collector!Unrefer(i, j)
  <2>1. UNCHANGED <<names, roots, allocated, freed, dropped>> /\ DOMAIN refs' = DOMAIN refs
    BY <1>4 DEF Collector!Refer, Collector!Unrefer
  <2>2. QED
    BY <2>1 DEF Collector!Live, Collector!Held
<1>5. CASE \E i \in 1 .. allocated : Collector!AddRoot(i) \/ Collector!RemoveRoot(i)
  <2>1. /\ UNCHANGED <<names, refs, allocated, freed>>
        /\ dropped \subseteq dropped'
        /\ (roots \intersect Collector!Held(names)) \ dropped' \subseteq roots'
    BY <1>5 DEF Collector!AddRoot, Collector!RemoveRoot
  <2>2. QED
    BY <2>1 DEF Collector!Live, Collector!Held
<1>6. CASE UNCHANGED collectorVars
  BY <1>6 DEF collectorVars, Collector!Live, Collector!Held
<1>7. QED
  BY <1>1, <1>2, <1>3, <1>4, <1>5, <1>6 DEF Collector!Next

\* Whatever is allocated, bound, referred to, rooted or collected: what a variable
\* holds is on the heap and a root, although any allocation may collect, unless its
\* root was removed by hand while the variable held it; and the
\* totals account for every object (ManagedRuntime.create_*, GarbageCollector.collect).
THEOREM VariablesSurviveAlways == StoresSpec => []VariablesSurvive
<1>1. StoresInit => CollectorInv
  <2> SUFFICES ASSUME StoresInit PROVE CollectorInv
    OBVIOUS
  <2>1. /\ refs = [i \in {} |-> {}] /\ names = [n \in Names |-> 0]
        /\ allocated = 0 /\ freed = 0 /\ dropped = {}
    BY DEF StoresInit, Collector!Init, Collector!Unset
  <2>2. Collector!Live = {} /\ Collector!Held(names) = {}
    BY <2>1 DEF Collector!Live, Collector!Held, Collector!Unset
  <2>3. Cardinality(Collector!Live) = 0
    BY <2>2, FS_EmptySet
  <2>4. QED
    BY <2>1, <2>2, <2>3, CollectorCounts DEF CollectorInv, VariablesSurvive, Collector!VariablesSurvive
<1>2. CollectorInv /\ [StoresNext]_storeVars => CollectorInv'
  <2>1. [StoresNext]_storeVars => Collector!Next \/ UNCHANGED collectorVars
    BY DEF StoresNext, storeVars
  <2>2. QED
    BY <2>1, CollectorStep
<1>3. CollectorInv => VariablesSurvive
  BY DEF CollectorInv
<1>4. QED
  BY <1>1, <1>2, <1>3, PTL DEF StoresSpec
===============================================================================
