----------------------------- MODULE ConcurrentLru -----------------------------
(***************************************************************************)
(* Task 026: the LRU cache shared by threads.  Every method is one region  *)
(* under the lock except get, which leaves it before touching the entry    *)
(* and moving the key to the end of the order.                             *)
(***************************************************************************)
EXTENDS Integers, Sequences, FiniteSets, SequencesExt, Lists

CONSTANTS Users,        \* the threads
          Keys,
          MaxCapacity   \* capacities are 1 .. MaxCapacity

VARIABLES order,     \* the keys of _cache, least recently used first
          expired,   \* keys whose entry has outlived its ttl
          capacity,
          touching,  \* touching[u]: key get() has read and not yet moved, or None
          filling,   \* filling[u]: key get_or_compute found absent, or None
          quiet,     \* history: quiet[u], keys untouched since u's get() began
          settled    \* history: <<a, b>>: b's last use began after a's had ended

vars == <<order, expired, capacity, touching, filling, quiet, settled>>

None == "none"
Present == ToSet(order)

Init == /\ order = <<>> /\ expired = {} /\ capacity = MaxCapacity
        /\ touching = [u \in Users |-> None] /\ filling = [u \in Users |-> None]
        /\ quiet = [u \in Users |-> {}] /\ settled = {}

\* History: what a use of k does to the keys known to be older than others.
Busy == {touching[u] : u \in Users}
Started(k) == {p \in settled : p[1] # k}
Ended(k, older) == {p \in settled : p[1] # k} \union {<<a, k>> : a \in older}
Gone(gone) == {p \in settled : p[1] \notin gone /\ p[2] \notin gone}
NotQuiet(gone) == [u \in Users |-> quiet[u] \ gone]

\* Keys leave the cache by deletion, expiry, eviction or clear().
RemoveKeys(gone) == /\ order' = Without(order, gone)
                    /\ expired' = expired \ gone
                    /\ settled' = Gone(gone) /\ quiet' = NotQuiet(gone)

\* get, under the lock: a miss, an expired entry deleted, or a hit.
GetRead(u, k, computes) ==
    /\ touching[u] = None /\ filling[u] = None
    /\ filling' = [filling EXCEPT ![u] = IF computes /\ k \notin Present \ expired THEN k ELSE None]
    /\ \/ k \notin Present /\ UNCHANGED <<order, expired, touching, quiet, settled>>
       \/ k \in expired /\ RemoveKeys({k}) /\ UNCHANGED touching
       \/ /\ k \in Present \ expired
          /\ touching' = [touching EXCEPT ![u] = k] /\ settled' = Started(k)
          /\ quiet' = [NotQuiet({k}) EXCEPT ![u] = Present \ (Busy \union {k})]
          /\ UNCHANGED <<order, expired>>
    /\ UNCHANGED capacity

\* Mutant: a used key stays where it is.
MovedNowhere(keys, k) == IF Contains(keys, k) THEN keys ELSE Append(keys, k)
\* move_to_end, or the insertion of a new key.
Moved(keys, k) == Append(Without(keys, {k}), k)

\* get, outside the lock: move_to_end raises KeyError if the key has gone.
GetTouch(u) ==
    LET k == touching[u] IN
    /\ k # None /\ touching' = [touching EXCEPT ![u] = None]
    /\ IF k \in Present
       THEN /\ order' = Moved(order, k)
            /\ settled' = IF \E v \in Users \ {u} : touching[v] = k THEN settled
                          ELSE Ended(k, quiet[u])
       ELSE UNCHANGED <<order, settled>>
    /\ quiet' = [quiet EXCEPT ![u] = {}]
    /\ UNCHANGED <<expired, capacity, filling>>

\* put: a known key moves to the end, a new one evicts the oldest when full.
PutKey(k) ==
    LET full == k \notin Present /\ Len(order) >= capacity
        kept == IF full THEN Tail(order) ELSE order
        gone == IF full THEN {Head(order)} ELSE {} IN
    /\ order' = Moved(kept, k)
    /\ expired' = expired \ (gone \union {k})
    /\ settled' = {p \in Ended(k, Present \ (Busy \union {k})) : {p[1], p[2]} \intersect gone = {}}
    /\ quiet' = NotQuiet(gone \union {k})

Put(k) == PutKey(k) /\ UNCHANGED <<capacity, touching, filling>>

\* get_or_compute: the factory ran with no lock held; now its value is put.
Fill(u) == /\ filling[u] # None /\ PutKey(filling[u])
           /\ filling' = [filling EXCEPT ![u] = None] /\ UNCHANGED <<capacity, touching>>

\* delete, clear, evict_expired, and contains and peek of an expired entry.
Drop(gone) == /\ gone \in {{k} : k \in Present} \union {Present, expired} /\ gone # {}
              /\ RemoveKeys(gone) /\ UNCHANGED <<capacity, touching, filling>>

Expire(k) == /\ k \in Present \ expired /\ expired' = expired \union {k}
             /\ UNCHANGED <<order, capacity, touching, filling, quiet, settled>>

Resize(n) == /\ n # capacity /\ capacity' = n
             /\ RemoveKeys({order[i] : i \in 1 .. Len(order) - n})
             /\ UNCHANGED <<touching, filling>>

Next == \/ \E u \in Users : \/ GetTouch(u) \/ Fill(u)
                            \/ \E k \in Keys, computes \in BOOLEAN : GetRead(u, k, computes)
        \/ \E k \in Keys : Put(k) \/ Expire(k)
        \/ \E gone \in SUBSET Keys : Drop(gone)
        \/ \E n \in 1 .. MaxCapacity : Resize(n)

(***************************************************************************)
(* Properties                                                              *)
(***************************************************************************)

\* The size never exceeds the capacity, and eviction order is recency order as
\* far as real time fixes it: if the last use of b began after the last use of
\* a had ended, a is evicted first, although get moves its key unlocked.
LruOrder == /\ Len(order) <= capacity /\ IsInjective(order) /\ expired \subseteq Present
            /\ \A i, j \in 1 .. Len(order) : <<order[i], order[j]>> \in settled => i < j
===============================================================================
