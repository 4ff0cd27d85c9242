-------------------------------- MODULE Wal ---------------------------------
(***************************************************************************)
(* tasks/task_050: WALKeyValueStore over WriteAheadLog, and WALRecovery.   *)
(* Transactions interleave call by call; a crash may come between any two  *)
(* calls, and rebuilds the data from the log.  The simulated crash keeps   *)
(* the buffers of the transactions that are active, which go on after it.  *)
(*                                                                         *)
(* A record's position in the log is its LSN.  Writes are told apart by    *)
(* their LSNs, so they need no values: data[k] is the LSN of the write     *)
(* whose value k has, 0 if it has none.                                    *)
(***************************************************************************)
EXTENDS Integers, SequencesExt, FiniteSetsExt

CONSTANTS Keys, NoKey,   \* NoKey: of the records that are of no key
          MaxTxns, MaxLog  \* bounds: transactions begun, records logged

ASSUME WalAssumption == NoKey \notin Keys /\ MaxTxns \in Nat /\ MaxLog \in Nat

VARIABLES log,       \* _log
          txns,      \* _txn_counter
          buffers,   \* _txn_buffers; its domain is also that of _active_txns
          data       \* _data

vars == <<log, txns, buffers, data>>

\* A key without a value, and one that a transaction deletes.
Nothing == 0

Init == /\ log = <<>>
        /\ txns = 0
        /\ buffers = [t \in {} |-> <<>>]
        /\ data = [k \in Keys |-> Nothing]
-----------------------------------------------------------------------------
Lsn == Len(log) + 1

Active == DOMAIN buffers

\* Every record is logged through here, whatever its type.
Log(type, t, key) ==
  /\ Len(log) < MaxLog
  /\ log' = Append(log, [type |-> type, txn |-> t, key |-> key])

\* f with x mapped to v.
With(f, x, v) == [y \in DOMAIN f \cup {x} |-> IF y = x THEN v ELSE f[y]]

\* The buffers once t is popped.
Popped(t) == [u \in Active \ {t} |-> buffers[u]]

BeginTxn ==
  /\ txns < MaxTxns
  /\ txns' = txns + 1
  /\ Log("BEGIN", txns', NoKey)
  /\ buffers' = With(buffers, txns', [k \in {} |-> Nothing])
  /\ UNCHANGED data

Put(t, k) ==
  /\ t \in Active
  /\ Log("WRITE", t, k)
  /\ buffers' = [buffers EXCEPT ![t] = With(@, k, Lsn)]
  /\ UNCHANGED <<txns, data>>

\* Mutant: a delete takes the key out of the buffer.
DeleteFromBuffer(t, k) ==
  /\ t \in Active
  /\ Log("DELETE", t, k)
  /\ buffers' = [buffers EXCEPT ![t] = [j \in DOMAIN @ \ {k} |-> @[j]]]
  /\ UNCHANGED <<txns, data>>

Delete(t, k) ==
  /\ t \in Active
  /\ Log("DELETE", t, k)
  /\ buffers' = [buffers EXCEPT ![t] = With(@, k, Nothing)]
  /\ UNCHANGED <<txns, data>>

\* commit applies the buffer before it logs the record; on a transaction
\* that is not active it raises, with nothing changed, and so does abort.
Commit(t) ==
  /\ t \in Active
  /\ data' = [k \in Keys |-> IF k \in DOMAIN buffers[t] THEN buffers[t][k]
                                                       ELSE data[k]]
  /\ buffers' = Popped(t)
  /\ Log("COMMIT", t, NoKey)
  /\ UNCHANGED txns

Abort(t) ==
  /\ t \in Active
  /\ buffers' = Popped(t)
  /\ Log("ABORT", t, NoKey)
  /\ UNCHANGED <<txns, data>>

\* A checkpoint is a record and nothing else: recovery skips it.
Checkpoint ==
  /\ Log("CHECKPOINT", 0, NoKey)
  /\ UNCHANGED <<txns, buffers, data>>

\* WALRecovery.analyze
CommittedTxns == {log[i].txn : i \in {j \in DOMAIN log : log[j].type = "COMMIT"}}

\* The records in which t puts or deletes k.
WritesOf(t, k) == {i \in DOMAIN log : /\ log[i].type \in {"WRITE", "DELETE"}
                                      /\ log[i].txn = t /\ log[i].key = k}

Effect(i) == IF log[i].type = "WRITE" THEN i ELSE Nothing

\* Mutant: the transactions that did not commit are replayed as well.
WritersUnanalyzed(k) == {t \in 1..txns : WritesOf(t, k) # {}}

\* The transactions that are replayed and write k.
Writers(k) == {t \in CommittedTxns : WritesOf(t, k) # {}}

\* redo: the transactions by id, the records of each in the order of the log.
Redo(k) == IF Writers(k) = {} THEN Nothing
           ELSE Effect(Max(WritesOf(Max(Writers(k)), k)))

CrashAndRecover ==
  /\ data' = [k \in Keys |-> Redo(k)]
  /\ UNCHANGED <<log, txns, buffers>>

Next == \/ BeginTxn
        \/ \E t \in 1..MaxTxns, k \in Keys : Put(t, k) \/ Delete(t, k)
        \/ \E t \in 1..MaxTxns : Commit(t) \/ Abort(t)
        \/ Checkpoint
        \/ CrashAndRecover

Spec == Init /\ [][Next]_vars
-----------------------------------------------------------------------------
Types == {"BEGIN", "WRITE", "DELETE", "COMMIT", "ABORT", "CHECKPOINT"}

\* The records that end t: it has one at most, and is active until then.
Ends(t) == {i \in DOMAIN log : log[i].type \in {"COMMIT", "ABORT"}
                              /\ log[i].txn = t}

\* Types; and the active transactions are those begun and not ended in the
\* log.
TypeOK ==
  /\ log \in Seq([type : Types, txn : 0..MaxTxns, key : Keys \cup {NoKey}])
  /\ txns \in 0..MaxTxns
  /\ Active = {t \in 1..txns : Ends(t) = {}}
  /\ \A t \in Active : \A k \in DOMAIN buffers[t] :
       k \in Keys /\ buffers[t][k] \in 0..Len(log)
  /\ data \in [Keys -> 0..Len(log)]

\* The committed writers of k committed in the order in which they began.
CommittedInOrder(k) ==
  \A t, u \in Writers(k) : t < u => \A i \in Ends(t), j \in Ends(u) : i < j

\* A crash changes no key whose writers committed in the order in which they
\* began, whatever else was active, aborted or recovered before.
\* (description.md has the rest: when they did not, the crash brings back the
\* value of a transaction that committed earlier.)
RecoveryAgrees == \A k \in Keys : CommittedInOrder(k) => data[k] = Redo(k)

\* The value of a key is the last one that some committed transaction gave it:
\* no value of another transaction, or that its own writer replaced, shows.
DataIsCommitted ==
  \A k \in Keys : data[k] # Nothing =>
    \E t \in CommittedTxns : WritesOf(t, k) # {} /\ data[k] = Max(WritesOf(t, k))
=============================================================================
