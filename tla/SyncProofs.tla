------------------------------ MODULE SyncProofs ------------------------------
(***************************************************************************)
(* Proofs about the components of Sync, for any numbers of threads, locks, *)
(* connections, keys, channels and calls.                                  *)
(***************************************************************************)
EXTENDS Sync, NumberProofs, FiniteSetTheorems, SequenceTheorems, TLAPS

LEMMA PoolLists ==
  /\ \A s, gone : Pool!Without(s, gone) = Without(s, gone)
  /\ \A s : Pool!ToSet(s) = ToSet(s) /\ (Pool!IsInjective(s) <=> IsInjective(s))
<1>1. ASSUME NEW s, NEW gone PROVE Pool!Without(s, gone) = Without(s, gone)
  BY DEF Without, Pool!Without
<1>2. QED
  BY <1>1 DEF Pool!ToSet, ToSet, Pool!IsInjective, IsInjective

-----------------------------------------------------------------------------
(* The connection pool *)

\* Connections are numbered by their creation.
PoolTypes == /\ created \in Nat /\ pool \in Seq(Nat) /\ ToSet(pool) \subseteq 1 .. created
             /\ inUse \subseteq 1 .. created /\ alive \subseteq 1 .. created
             /\ held \in [Clients -> SUBSET (1 .. created)]

PoolInv == PoolTypes /\ Pool!OneOwner /\ Pool!OpenWithinLimit

LEMMA PoolNumbers ==
  /\ MaxSize \in Nat
  /\ \A set : Pool!Cardinality(set) = Cardinality(set)
<1>1. ASSUME NEW set PROVE Pool!Cardinality(set) = Cardinality(set)
  BY DEF Pool!Cardinality, Cardinality, Pool!IsFiniteSet, IsFiniteSet
<1>2. QED
  BY <1>1, SyncAssumption

LEMMA PoolInit == Pool!Init => PoolInv
<1> SUFFICES ASSUME Pool!Init PROVE PoolInv
  OBVIOUS
<1>1. pool = <<>> /\ inUse = {} /\ created = 0 /\ alive = {} /\ held = [c \in Clients |-> {}]
  BY DEF Pool!Init
<1>2. ToSet(pool) = {} /\ IsInjective(pool) /\ pool \in Seq(Nat) /\ Cardinality({}) = 0
  BY <1>1, EmptySeq, FS_EmptySet DEF ToSet, IsInjective
<1>3. PoolTypes
  BY <1>1, <1>2 DEF PoolTypes
<1>4. Pool!OneOwner /\ Pool!OpenWithinLimit
  BY <1>1, <1>2, PoolLists, PoolNumbers DEF Pool!OneOwner, Pool!OpenWithinLimit
<1>5. QED
  BY <1>3, <1>4 DEF PoolInv

LEMMA AcquirePooledStep ==
  ASSUME PoolInv, NEW c \in Clients, Pool!AcquirePooled(c)
  PROVE  PoolInv'
<1> USE PoolLists
<1>1. /\ pool # <<>> /\ pool' = Tail(pool) /\ inUse' = inUse \union {Head(pool)}
      /\ held' = [held EXCEPT ![c] = @ \union {Head(pool)}] /\ UNCHANGED <<created, alive>>
  BY DEF Pool!AcquirePooled, Pool!Hand
<1>2. /\ Head(pool) \in ToSet(pool) /\ pool' \in Seq(Nat)
      /\ ToSet(pool) = ToSet(pool') \union {Head(pool)}
      /\ IsInjective(pool') /\ Head(pool) \notin ToSet(pool')
  BY <1>1, EndsOfLists DEF PoolInv, PoolTypes, Pool!OneOwner
<1>3. PoolTypes'
  BY <1>1, <1>2 DEF PoolInv, PoolTypes
<1>4. Pool!OneOwner'
  BY <1>1, <1>2 DEF PoolInv, PoolTypes, Pool!OneOwner
<1>5. Pool!OpenWithinLimit'
  BY <1>1, <1>2 DEF PoolInv, Pool!OpenWithinLimit
<1>6. QED
  BY <1>3, <1>4, <1>5 DEF PoolInv

LEMMA AcquireNewStep ==
  ASSUME PoolInv, NEW c \in Clients, Pool!AcquireNew(c)
  PROVE  PoolInv'
<1> USE PoolLists
<1> DEFINE new == created + 1
<1>1. /\ pool = <<>> /\ pool' = pool /\ Cardinality(inUse) < MaxSize /\ created' = new
      /\ inUse' = inUse \union {new} /\ held' = [held EXCEPT ![c] = @ \union {new}]
      /\ alive' = alive \union {new}
  BY PoolNumbers DEF Pool!AcquireNew, Pool!Hand
<1>2. ToSet(pool) = {}
  BY <1>1 DEF ToSet
<1>3. PoolTypes'
  BY <1>1, <1>2 DEF PoolInv, PoolTypes
<1>4. Pool!OneOwner'
  <2>1. \A d \in Clients : new \notin held[d] /\ held[d] \subseteq 1 .. created
    BY DEF PoolInv, PoolTypes
  <2>2. \A d \in Clients : held'[d] = IF d = c THEN held[d] \union {new} ELSE held[d]
    BY <1>1 DEF PoolInv, PoolTypes
  <2>3. QED
    BY <1>1, <1>2, <2>1, <2>2 DEF PoolInv, Pool!OneOwner
<1>5. Cardinality(alive') <= MaxSize
  <2>1. IsFiniteSet(1 .. created)
    BY FS_Interval DEF PoolInv, PoolTypes
  <2>2. IsFiniteSet(inUse) /\ IsFiniteSet(alive)
    BY <2>1, FS_Subset DEF PoolInv, PoolTypes
  <2>3. alive \subseteq inUse
    BY <1>2 DEF PoolInv, Pool!OpenWithinLimit
  <2>4. Cardinality(alive) <= Cardinality(inUse) /\ Cardinality(alive) \in Nat /\ Cardinality(inUse) \in Nat
    BY <2>2, <2>3, FS_Subset, FS_CardinalityType
  <2>5. new \notin alive
    BY DEF PoolInv, PoolTypes
  <2>6. Cardinality(alive') = Cardinality(alive) + 1
    BY <1>1, <2>2, <2>5, FS_AddElement
  <2>7. QED
    BY <1>1, <2>4, <2>6, PoolNumbers
<1>6. Pool!OpenWithinLimit'
  BY <1>1, <1>5, PoolNumbers DEF PoolInv, Pool!OpenWithinLimit
<1>7. QED
  BY <1>3, <1>4, <1>6 DEF PoolInv

LEMMA PoolReleaseStep ==
  ASSUME PoolInv, NEW c \in Clients, NEW conn, Pool!Release(c, conn)
  PROVE  PoolInv'
<1> USE PoolLists
<1>1. /\ conn \in held[c] /\ held' = [held EXCEPT ![c] = @ \ {conn}]
      /\ inUse' = inUse \ {conn} /\ pool' = Append(pool, conn) /\ UNCHANGED <<created, alive>>
  BY DEF Pool!Release
<1>2. conn \in Nat /\ conn \in 1 .. created /\ conn \notin ToSet(pool)
  BY <1>1 DEF PoolInv, PoolTypes, Pool!OneOwner
<1>3. pool' \in Seq(Nat) /\ ToSet(pool') = ToSet(pool) \union {conn} /\ IsInjective(pool')
  BY <1>1, <1>2, EndsOfLists DEF PoolInv, PoolTypes, Pool!OneOwner
<1>4. \A d \in Clients : held'[d] = IF d = c THEN held[d] \ {conn} ELSE held[d]
  BY <1>1 DEF PoolInv, PoolTypes
<1>5. PoolTypes'
  BY <1>1, <1>2, <1>3 DEF PoolInv, PoolTypes
<1>6. Pool!OneOwner'
  <2>1. \A d, e \in Clients : d # e => held[d] \intersect held[e] = {}
    BY DEF PoolInv, Pool!OneOwner
  <2>2. \A d \in Clients : held[d] \intersect ToSet(pool) = {} /\ (d # c => conn \notin held[d])
    BY <1>1, <2>1 DEF PoolInv, Pool!OneOwner
  <2>3. \A d, e \in Clients : d # e => held'[d] \intersect held'[e] = {}
    BY <1>4, <2>1
  <2>4. \A d \in Clients : held'[d] \intersect ToSet(pool') = {}
    BY <1>3, <1>4, <2>2
  <2>5. QED
    BY <1>3, <2>3, <2>4 DEF Pool!OneOwner
<1>7. Pool!OpenWithinLimit'
  BY <1>1, <1>3 DEF PoolInv, Pool!OpenWithinLimit
<1>8. QED
  BY <1>5, <1>6, <1>7 DEF PoolInv

\* What close_all and prune leave open was open, and is where it was.
LEMMA CloseStep ==
  ASSUME PoolInv, Pool!CloseAll \/ \E last \in 1 .. MaxCreated : Pool!Prune(last)
  PROVE  PoolInv'
<1> USE PoolLists
<1>1. /\ alive' \subseteq alive /\ UNCHANGED <<created, held>> /\ inUse' \subseteq inUse
      /\ pool' \in Seq(Nat) /\ ToSet(pool') \subseteq ToSet(pool) /\ IsInjective(pool')
      /\ alive' \subseteq ToSet(pool') \union inUse'
  <2>1. CASE Pool!CloseAll
    <3>1. /\ alive' = alive \ (ToSet(pool) \union inUse) /\ pool' = <<>> /\ inUse' = {}
          /\ UNCHANGED <<created, held>>
      BY <2>1 DEF Pool!CloseAll
    <3>2. pool' \in Seq(Nat) /\ ToSet(pool') = {} /\ IsInjective(pool')
      BY <3>1, EmptySeq DEF ToSet, IsInjective
    <3>3. QED
      BY <3>1, <3>2 DEF PoolInv, Pool!OpenWithinLimit
  <2>2. ASSUME NEW last \in 1 .. MaxCreated, Pool!Prune(last)
        PROVE  /\ alive' \subseteq alive /\ UNCHANGED <<created, held>> /\ inUse' \subseteq inUse
               /\ pool' \in Seq(Nat) /\ ToSet(pool') \subseteq ToSet(pool) /\ IsInjective(pool')
               /\ alive' \subseteq ToSet(pool') \union inUse'
    <3>1. /\ pool' = Without(pool, 1 .. last)
          /\ alive' = alive \ {conn \in ToSet(pool) : conn <= last}
          /\ UNCHANGED <<inUse, created, held>>
      BY <2>2 DEF Pool!Prune
    <3>2. /\ ToSet(pool') = ToSet(pool) \ (1 .. last) /\ pool' \in Seq(Nat)
          /\ IsInjective(pool')
      BY <3>1, RemovalKeeps DEF PoolInv, PoolTypes, Pool!OneOwner
    <3>3. ASSUME NEW conn \in alive' PROVE conn \in ToSet(pool') \union inUse'
      BY <3>1, <3>2, <3>3 DEF PoolInv, PoolTypes, Pool!OpenWithinLimit
    <3>4. QED
      BY <3>1, <3>2, <3>3
  <2>3. QED
    BY <2>1, <2>2
<1>2. Cardinality(alive') <= MaxSize
  <2>1. IsFiniteSet(1 .. created) /\ alive \subseteq 1 .. created
    BY FS_Interval DEF PoolInv, PoolTypes
  <2>2. IsFiniteSet(alive)
    BY <2>1, FS_Subset
  <2>3. /\ Cardinality(alive') <= Cardinality(alive) /\ Cardinality(alive) \in Nat
        /\ Cardinality(alive') \in Nat
    BY <1>1, <2>2, FS_Subset, FS_CardinalityType
  <2>4. QED
    BY <2>3, PoolNumbers DEF PoolInv, Pool!OpenWithinLimit
<1>3. PoolTypes'
  BY <1>1 DEF PoolInv, PoolTypes
<1>4. Pool!OneOwner'
  BY <1>1 DEF PoolInv, Pool!OneOwner
<1>5. QED
  BY <1>1, <1>2, <1>3, <1>4, PoolNumbers DEF PoolInv, Pool!OpenWithinLimit

LEMMA PoolStep == PoolInv /\ [Pool!Next]_poolVars => PoolInv'
<1> SUFFICES ASSUME PoolInv, [Pool!Next]_poolVars PROVE PoolInv'
  OBVIOUS
<1>1. ASSUME NEW c \in Clients, Pool!AcquirePooled(c) PROVE PoolInv'
  BY <1>1, AcquirePooledStep
<1>2. ASSUME NEW c \in Clients, Pool!AcquireNew(c) PROVE PoolInv'
  BY <1>2, AcquireNewStep
<1>3. ASSUME NEW c \in Clients, NEW conn \in 1 .. MaxCreated, Pool!Release(c, conn) PROVE PoolInv'
  BY <1>3, PoolReleaseStep
<1>4. CASE Pool!CloseAll \/ \E last \in 1 .. MaxCreated : Pool!Prune(last)
  BY <1>4, CloseStep
<1>5. CASE UNCHANGED poolVars
  <2>1. UNCHANGED <<pool, inUse, created, alive, held>>
    BY <1>5 DEF poolVars
  <2>2. PoolTypes' /\ Pool!OneOwner' /\ Pool!OpenWithinLimit'
    BY <2>1, PoolLists DEF PoolInv, PoolTypes, Pool!OneOwner, Pool!OpenWithinLimit
  <2>3. QED
    BY <2>2 DEF PoolInv
<1>6. QED
  BY <1>1, <1>2, <1>3, <1>4, <1>5 DEF Pool!Next

-----------------------------------------------------------------------------
(* Retries *)

\* The callers whose attempt is under way.
Trying == {c \in Callers : at[c] = "running"}

RetryTypes == /\ used \in Nat /\ rounds \in Nat
         /\ at \in [Callers -> {"idle", "running", "sleeping"}]
         /\ failed \in [Callers -> Nat]

\* An attempt begins only while some are left: past max_retries the counter
\* can grow only by the attempts that are under way.
Budget == used > MaxRetries =>
            used + Cardinality(Trying) <= MaxRetries + Cardinality(Callers)

RetryInv == RetryTypes /\ Budget /\ Retries!AttemptsBounded

\* One caller fewer, or one more, is under way.
LEMMA TryingChanges ==
  ASSUME IsFiniteSet(Callers), RetryTypes, NEW c \in Callers,
         NEW s \in {"idle", "running", "sleeping"}, at' = [at EXCEPT ![c] = s]
  PROVE  /\ Cardinality(Trying) \in Nat /\ Cardinality(Trying') \in Nat
         /\ Cardinality(Trying) <= Cardinality(Callers)
         /\ at[c] # "running" /\ s # "running" => Trying' = Trying
         /\ at[c] = "running" /\ s # "running" =>
              Cardinality(Trying') = Cardinality(Trying) - 1
<1>1. IsFiniteSet(Trying) /\ IsFiniteSet(Trying')
      /\ Cardinality(Trying) <= Cardinality(Callers)
  BY FS_Subset DEF Trying
<1>2. at'[c] = s /\ \A d \in Callers : d # c => at'[d] = at[d]
  BY DEF RetryTypes
<1>3. at[c] # "running" /\ s # "running" => Trying' = Trying
  BY <1>2 DEF Trying
<1>4. ASSUME at[c] = "running", s # "running"
      PROVE  Cardinality(Trying') = Cardinality(Trying) - 1
  <2>1. Trying' = Trying \ {c} /\ c \in Trying
    BY <1>2, <1>4 DEF Trying
  <2>2. QED
    BY <1>1, <2>1, FS_RemoveElement
<1>5. QED
  BY <1>1, <1>3, <1>4, FS_CardinalityType

LEMMA RetryNumbers ==
  /\ MaxRetries \in Nat /\ IsFiniteSet(Callers) /\ Cardinality(Callers) \in Nat
  /\ Retries!Cardinality(Callers) = Cardinality(Callers)
<1>1. Retries!Cardinality(Callers) = Cardinality(Callers)
  BY DEF Retries!Cardinality, Cardinality
<1>2. QED
  BY <1>1, SyncAssumption, FS_CardinalityType

LEMMA RetryInit == Retries!Init => RetryInv
<1> SUFFICES ASSUME Retries!Init PROVE RetryInv
  OBVIOUS
<1>1. QED
  BY RetryNumbers DEF Retries!Init, RetryInv, RetryTypes, Budget, Retries!AttemptsBounded

LEMMA RetryStep ==
  ASSUME RetryInv, [Retries!Next]_retryVars
  PROVE  RetryInv'
<1> USE RetryNumbers DEF RetryInv
<1>1. Cardinality(Callers) \in Nat
  OBVIOUS
<1>2. ASSUME NEW c \in Callers, Retries!Start(c) PROVE RetryInv'
  <2>1. CASE Retries!LoopTest
    <3>1. at' = [at EXCEPT ![c] = "running"] /\ used' = used /\ used <= MaxRetries
          /\ UNCHANGED <<failed, outcomes>> /\ rounds' = rounds + 1
      BY <1>2, <2>1 DEF Retries!Start, Retries!LoopTest
    <3>2. RetryTypes' /\ Budget'
      BY <3>1 DEF RetryTypes, Budget
    <3>3. QED
      BY <3>1, <3>2 DEF Retries!AttemptsBounded
  <2>2. CASE ~Retries!LoopTest
    <3>1. at' = [at EXCEPT ![c] = "idle"] /\ failed' = [failed EXCEPT ![c] = 0]
          /\ outcomes' = outcomes \union {[failed |-> 0, raised |-> TRUE]}
          /\ used' = used /\ used > MaxRetries /\ at[c] = "idle" /\ rounds' = rounds + 1
      BY <1>2, <2>2 DEF Retries!Start, Retries!LoopTest, Retries!End, RetryTypes
    <3>2. RetryTypes'
      BY <3>1 DEF RetryTypes
    <3>3. Budget'
      BY <3>1, TryingChanges DEF Budget
    <3>4. Retries!AttemptsBounded'
      BY <3>1, <1>1 DEF Retries!AttemptsBounded, RetryTypes
    <3>5. QED
      BY <3>2, <3>3, <3>4
  <2>3. QED
    BY <2>1, <2>2
<1>3. ASSUME NEW c \in Callers, Retries!Succeed(c) PROVE RetryInv'
  <2>1. at' = [at EXCEPT ![c] = "idle"] /\ failed' = [failed EXCEPT ![c] = 0]
        /\ outcomes' = outcomes \union {[failed |-> failed[c], raised |-> FALSE]}
        /\ at[c] = "running" /\ UNCHANGED <<used, rounds>>
    BY <1>3 DEF Retries!Succeed, Retries!End
  <2>2. RetryTypes'
    BY <2>1 DEF RetryTypes
  <2>3. Budget'
    <3>1. Cardinality(Trying) \in Nat /\ Cardinality(Trying') = Cardinality(Trying) - 1
      BY <2>1, TryingChanges
    <3>2. QED
      BY <2>1, <3>1, <1>1 DEF Budget, RetryTypes
  <2>4. Retries!AttemptsBounded'
    BY <2>1 DEF Retries!AttemptsBounded, RetryTypes
  <2>5. QED
    BY <2>2, <2>3, <2>4
<1>4. ASSUME NEW c \in Callers, Retries!Fail(c) PROVE RetryInv'
  <2>1. at[c] = "running" /\ used' = used + 1 /\ rounds' = rounds
    BY <1>4 DEF Retries!Fail
  <2>2. CASE used' > MaxRetries
    <3>1. at' = [at EXCEPT ![c] = "idle"] /\ failed' = [failed EXCEPT ![c] = 0]
          /\ outcomes' = outcomes \union {[failed |-> failed[c] + 1, raised |-> TRUE]}
      BY <1>4, <2>2 DEF Retries!Fail, Retries!End
    <3>2. RetryTypes'
      BY <2>1, <3>1 DEF RetryTypes
    <3>3. Cardinality(Trying') = Cardinality(Trying) - 1
          /\ Cardinality(Trying) \in Nat /\ Cardinality(Trying') \in Nat
          /\ Cardinality(Trying) <= Cardinality(Callers)
      BY <2>1, <3>1, TryingChanges
    <3>4. Budget'
      <4>1. CASE used > MaxRetries
        BY <4>1, <1>1, <2>1, <3>3 DEF Budget, RetryTypes
      <4>2. CASE used <= MaxRetries
        <5>1. used + 1 + (Cardinality(Trying) - 1) <= MaxRetries + Cardinality(Callers)
          BY <4>2, <1>1, <3>3 DEF RetryTypes
        <5>2. QED
          BY <5>1, <2>1, <3>3 DEF Budget
      <4>3. QED
        BY <4>1, <4>2 DEF RetryTypes
    <3>5. used' <= MaxRetries + Cardinality(Callers)
      <4>1. used' + Cardinality(Trying') <= MaxRetries + Cardinality(Callers)
        BY <2>2, <3>4 DEF Budget
      <4>2. used' \in Nat
        BY <3>2 DEF RetryTypes
      <4>3. QED
        BY <1>1, <3>3, <4>1, <4>2
    <3>6. Retries!AttemptsBounded'
      BY <2>1, <2>2, <3>1, <3>5 DEF Retries!AttemptsBounded, RetryTypes
    <3>7. QED
      BY <3>2, <3>4, <3>6
  <2>3. CASE ~(used' > MaxRetries)
    <3>1. at' = [at EXCEPT ![c] = "sleeping"] /\ failed' = [failed EXCEPT ![c] = @ + 1]
          /\ outcomes' = outcomes
      BY <1>4, <2>3 DEF Retries!Fail
    <3>2. RetryTypes' /\ Budget'
      BY <2>1, <2>3, <3>1 DEF RetryTypes, Budget
    <3>3. Retries!AttemptsBounded'
      BY <1>1, <2>1, <2>3, <3>1 DEF Retries!AttemptsBounded, RetryTypes
    <3>4. QED
      BY <3>2, <3>3
  <2>4. QED
    BY <2>2, <2>3
<1>5. ASSUME NEW c \in Callers, Retries!Wake(c) PROVE RetryInv'
  <2>1. CASE Retries!LoopTest
    <3>1. at' = [at EXCEPT ![c] = "running"] /\ used <= MaxRetries
          /\ UNCHANGED <<used, rounds, failed, outcomes>>
      BY <1>5, <2>1 DEF Retries!Wake, Retries!LoopTest
    <3>2. QED
      BY <3>1 DEF RetryTypes, Budget, Retries!AttemptsBounded
  <2>2. CASE ~Retries!LoopTest
    <3>1. at' = [at EXCEPT ![c] = "idle"] /\ failed' = [failed EXCEPT ![c] = 0]
          /\ outcomes' = outcomes \union {[failed |-> failed[c], raised |-> TRUE]}
          /\ UNCHANGED <<used, rounds>> /\ used > MaxRetries /\ at[c] = "sleeping"
      BY <1>5, <2>2 DEF Retries!Wake, Retries!LoopTest, Retries!End, RetryTypes
    <3>2. RetryTypes'
      BY <3>1 DEF RetryTypes
    <3>3. Budget'
      BY <3>1, TryingChanges DEF Budget
    <3>4. Retries!AttemptsBounded'
      BY <3>1, <1>1 DEF Retries!AttemptsBounded, RetryTypes
    <3>5. QED
      BY <3>2, <3>3, <3>4
  <2>3. QED
    BY <2>1, <2>2
<1>6. CASE UNCHANGED retryVars
  BY <1>6 DEF retryVars, RetryTypes, Budget, Trying, Retries!AttemptsBounded
<1>7. QED
  BY <1>2, <1>3, <1>4, <1>5, <1>6 DEF Retries!Next

LockTypes == /\ owner \in [LockIds -> LockUsers \union {Lock!Nobody}]
         /\ waiters \in [LockIds -> Seq(LockUsers)]
         /\ waitsFor \in [LockUsers -> LockIds \union {Lock!Nothing}]

\* A lock that nobody owns has no queue.
FreeMeansEmpty == \A l \in LockIds : owner[l] = Lock!Nobody => waiters[l] = <<>>

WaitInv == LockTypes /\ FreeMeansEmpty /\ Lock!EdgesAreWaits
-----------------------------------------------------------------------------
\* Who is in a queue that grew at its end or lost its head.
LEMMA QueueMembers ==
  ASSUME NEW q \in Seq(LockUsers)
  PROVE  /\ Lock!ToSet(q) \subseteq LockUsers
         /\ \A t \in LockUsers : Append(q, t) \in Seq(LockUsers)
                                 /\ Lock!ToSet(Append(q, t)) = Lock!ToSet(q) \union {t}
         /\ SubSeq(q, 2, Len(q)) \in Seq(LockUsers)
         /\ Lock!ToSet(SubSeq(q, 2, Len(q))) \subseteq Lock!ToSet(q)
         /\ Lock!ToSet(<<>>) = {}
         /\ q = <<>> => SubSeq(q, 2, Len(q)) = <<>>
         /\ q # <<>> => Head(q) \in LockUsers
<1>1. \A t \in LockUsers : /\ Append(q, t) \in Seq(LockUsers)
                           /\ Lock!ToSet(Append(q, t)) = Lock!ToSet(q) \union {t}
  <2> TAKE t \in LockUsers
  <2>1. /\ Append(q, t) \in Seq(LockUsers) /\ Len(Append(q, t)) = Len(q) + 1
        /\ \A i \in 1 .. Len(q) : Append(q, t)[i] = q[i]
        /\ Append(q, t)[Len(q) + 1] = t
    BY AppendProperties
  <2>2. DOMAIN q = 1 .. Len(q) /\ DOMAIN Append(q, t) = 1 .. (Len(q) + 1) /\ Len(q) \in Nat
    BY <2>1, LenProperties
  <2>3. QED
    BY <2>1, <2>2 DEF Lock!ToSet
<1>2. SubSeq(q, 2, Len(q)) \in Seq(LockUsers)
      /\ Lock!ToSet(SubSeq(q, 2, Len(q))) \subseteq Lock!ToSet(q)
  BY DEF Lock!ToSet
<1>3. Lock!ToSet(q) \subseteq LockUsers /\ Lock!ToSet(<<>>) = {}
  BY DEF Lock!ToSet
<1>4. QED
  BY <1>1, <1>2, <1>3, HeadTailProperties

\* The true waits, one by one.
LEMMA WaitsMembers ==
  /\ \A t, u : <<t, u>> \in Lock!TrueWaits <=>
       \E l \in LockIds : t \in Lock!ToSet(waiters[l]) /\ u = owner[l]
  /\ \A e \in Lock!TrueWaits : e = <<e[1], e[2]>>
<1>1. \A t, u : <<t, u>> \in Lock!TrueWaits <=>
        \E l \in LockIds : t \in Lock!ToSet(waiters[l]) /\ u = owner[l]
  BY DEF Lock!TrueWaits
<1>2. ASSUME NEW e \in Lock!TrueWaits PROVE e = <<e[1], e[2]>>
  <2>1. PICK l \in LockIds : e \in {<<t, owner[l]>> : t \in Lock!ToSet(waiters[l])}
    BY DEF Lock!TrueWaits
  <2>2. PICK t : e = <<t, owner[l]>>
    BY <2>1
  <2>3. QED
    BY <2>2
<1>3. QED
  BY <1>1, <1>2

\* A thread that is not queued waits for nobody.
LEMMA NotQueued ==
  ASSUME NEW t, ~Lock!Queued(t)
  PROVE  \A u : <<t, u>> \notin Lock!TrueWaits
BY WaitsMembers DEF Lock!Queued, Lock!Contains, Lock!ToSet

LEMMA LockAcquireStep ==
  ASSUME WaitInv, NEW t \in LockUsers, NEW l \in LockIds, Lock!TryAcquire(t, l)
  PROVE  WaitInv'
<1> USE DEF WaitInv
<1>1. CASE Lock!AcquireFree(t, l)
  <2>1. owner[l] = Lock!Nobody /\ waiters[l] = <<>> /\ owner' = [owner EXCEPT ![l] = t]
        /\ UNCHANGED <<waiters, waitsFor, edges>>
    BY <1>1 DEF Lock!AcquireFree, FreeMeansEmpty
  <2>2. LockTypes' /\ FreeMeansEmpty'
    BY <2>1 DEF LockTypes, FreeMeansEmpty
  <2>3. \A m \in LockIds : Lock!ToSet(waiters[m]) # {} => owner'[m] = owner[m]
    BY <2>1, QueueMembers DEF LockTypes
  <2>4. Lock!TrueWaits' = Lock!TrueWaits
    <3>1. \A m \in LockIds : {<<u, owner'[m]>> : u \in Lock!ToSet(waiters'[m])}
                           = {<<u, owner[m]>> : u \in Lock!ToSet(waiters[m])}
      BY <2>1, <2>3
    <3>2. QED
      BY <3>1 DEF Lock!TrueWaits
  <2>5. QED
    BY <2>1, <2>2, <2>4 DEF Lock!EdgesAreWaits
<1>2. CASE Lock!AcquireAgain(t, l)
  <2>1. UNCHANGED <<owner, waiters, waitsFor, edges>>
    BY <1>2 DEF Lock!AcquireAgain
  <2>2. Lock!TrueWaits' = Lock!TrueWaits
    BY <2>1 DEF Lock!TrueWaits
  <2>3. QED
    BY <2>1, <2>2 DEF LockTypes, FreeMeansEmpty, Lock!EdgesAreWaits
<1>3. CASE Lock!AcquireHeld(t, l)
  <2> DEFINE graph == edges \union {<<t, owner[l]>>}
  <2>1. ~Lock!Queued(t) /\ owner' = owner /\ owner[l] # Lock!Nobody
    BY <1>3 DEF Lock!TryAcquire, Lock!AcquireHeld
  <2>2. CASE Lock!FindCycle(graph) # {}
    <3>1. edges' = edges \ {<<t, owner[l]>>} /\ UNCHANGED <<waiters, waitsFor, owner>>
      BY <1>3, <2>2 DEF Lock!AcquireHeld
    <3>2. Lock!TrueWaits' = Lock!TrueWaits
      BY <3>1 DEF Lock!TrueWaits
    <3>3. edges' = edges
      BY <3>1, <2>1, NotQueued DEF Lock!EdgesAreWaits
    <3>4. QED
      BY <3>1, <3>2, <3>3 DEF LockTypes, FreeMeansEmpty, Lock!EdgesAreWaits
  <2>3. CASE Lock!FindCycle(graph) = {}
    <3>1. /\ edges' = graph /\ waitsFor' = [waitsFor EXCEPT ![t] = l]
          /\ waiters' = [waiters EXCEPT ![l] = Append(@, t)]
      BY <1>3, <2>3 DEF Lock!AcquireHeld
    <3>2. LockTypes' /\ FreeMeansEmpty'
      BY <2>1, <3>1, QueueMembers DEF LockTypes, FreeMeansEmpty
    <3>3. \A m \in LockIds : Lock!ToSet(waiters'[m]) =
            IF m = l THEN Lock!ToSet(waiters[m]) \union {t} ELSE Lock!ToSet(waiters[m])
      <4> TAKE m \in LockIds
      <4>1. waiters[m] \in Seq(LockUsers)
        BY DEF LockTypes
      <4>2. waiters'[m] = IF m = l THEN Append(waiters[m], t) ELSE waiters[m]
        BY <3>1 DEF LockTypes
      <4>3. QED
        <5>1. Lock!ToSet(Append(waiters[m], t)) = Lock!ToSet(waiters[m]) \union {t}
          BY <4>1, QueueMembers
        <5>2. CASE m = l
          BY <4>2, <5>1, <5>2
        <5>3. CASE m # l
          BY <4>2, <5>3
        <5>4. QED
          BY <5>2, <5>3
    <3>4. \A u, w : <<u, w>> \in Lock!TrueWaits' <=>
            <<u, w>> \in Lock!TrueWaits \/ (u = t /\ w = owner[l])
      <4>1. \A u, w : <<u, w>> \in Lock!TrueWaits' <=>
              \E m \in LockIds : u \in Lock!ToSet(waiters'[m]) /\ w = owner[m]
        BY <2>1 DEF Lock!TrueWaits
      <4>2. QED
        <5> TAKE u, w
        <5>1. <<u, w>> \in Lock!TrueWaits <=>
                \E m \in LockIds : u \in Lock!ToSet(waiters[m]) /\ w = owner[m]
          BY WaitsMembers
        <5>2. \A m \in LockIds : u \in Lock!ToSet(waiters'[m]) <=>
                u \in Lock!ToSet(waiters[m]) \/ (m = l /\ u = t)
          BY <3>3
        <5>3. QED
          BY <4>1, <5>1, <5>2
    <3>5. edges' \subseteq Lock!TrueWaits'
      BY <3>1, <3>4, WaitsMembers DEF Lock!EdgesAreWaits
    <3>6. ASSUME NEW e \in Lock!TrueWaits' \ edges' PROVE waitsFor'[e[1]] = Lock!Nothing
      <4>1. e = <<e[1], e[2]>>
        <5>1. PICK m \in LockIds : e \in {<<u, owner'[m]>> : u \in Lock!ToSet(waiters'[m])}
          BY <3>6 DEF Lock!TrueWaits
        <5>2. PICK u : e = <<u, owner'[m]>>
          BY <5>1
        <5>3. QED
          BY <5>2
      <4>2. e \in Lock!TrueWaits \ edges
        BY <3>1, <3>4, <3>6, <4>1
      <4>3. e[1] # t /\ waitsFor[e[1]] = Lock!Nothing
        BY <2>1, <4>1, <4>2, NotQueued DEF Lock!EdgesAreWaits
      <4>4. QED
        BY <3>1, <4>3 DEF LockTypes
    <3>7. QED
      BY <3>2, <3>5, <3>6 DEF Lock!EdgesAreWaits
  <2>4. QED
    BY <2>2, <2>3
<1>4. QED
  BY <1>1, <1>2, <1>3 DEF Lock!TryAcquire

LEMMA LockReleaseStep ==
  ASSUME WaitInv, NEW t \in LockUsers, NEW l \in LockIds, Lock!Release(t, l)
  PROVE  WaitInv'
<1> USE SyncAssumption
<1> USE DEF WaitInv
<1>1. CASE holds[l] > 1
  <2>1. UNCHANGED <<owner, waiters, waitsFor, edges>>
    BY <1>1 DEF Lock!Release
  <2>2. Lock!TrueWaits' = Lock!TrueWaits
    BY <2>1 DEF Lock!TrueWaits
  <2>3. QED
    BY <2>1, <2>2 DEF LockTypes, FreeMeansEmpty, Lock!EdgesAreWaits
<1>2. CASE ~(holds[l] > 1)
  <2>1. /\ owner[l] = t
        /\ edges' = edges \ {<<w, t>> : w \in Lock!ToSet(waiters[l])}
        /\ waitsFor' = [w \in LockUsers |-> IF w \in Lock!ToSet(waiters[l]) THEN Lock!Nothing
                                                                       ELSE waitsFor[w]]
        /\ owner' = [owner EXCEPT ![l] = IF waiters[l] = <<>> THEN Lock!Nobody ELSE Head(waiters[l])]
        /\ waiters' = [waiters EXCEPT ![l] = SubSeq(@, 2, Len(@))]
    BY <1>2 DEF Lock!Release, Lock!Detached
  <2>2. LockTypes' /\ FreeMeansEmpty'
    <3>1. waiters[l] \in Seq(LockUsers)
      BY DEF LockTypes
    <3>2. /\ waiters[l] # <<>> => Head(waiters[l]) \in LockUsers
          /\ SubSeq(waiters[l], 2, Len(waiters[l])) \in Seq(LockUsers)
          /\ waiters[l] = <<>> => SubSeq(waiters[l], 2, Len(waiters[l])) = <<>>
      BY <3>1, QueueMembers
    <3>3. owner'[l] = Lock!Nobody => waiters'[l] = <<>>
      BY <2>1, <3>2 DEF LockTypes
    <3>4. QED
      BY <2>1, <3>2, <3>3 DEF LockTypes, FreeMeansEmpty
  <2>3. Lock!ToSet(waiters'[l]) \subseteq Lock!ToSet(waiters[l])
        /\ \A m \in LockIds : /\ Lock!ToSet(waiters[m]) \subseteq LockUsers
                              /\ m # l => waiters'[m] = waiters[m] /\ owner'[m] = owner[m]
    BY <2>1, QueueMembers DEF LockTypes
  <2>4. edges' \subseteq Lock!TrueWaits'
    <3>1. SUFFICES ASSUME NEW e \in edges' PROVE e \in Lock!TrueWaits'
      OBVIOUS
    <3>2. e \in edges /\ e \in Lock!TrueWaits /\ e = <<e[1], e[2]>>
      BY <2>1, WaitsMembers DEF Lock!EdgesAreWaits
    <3>3. PICK m \in LockIds : e[1] \in Lock!ToSet(waiters[m]) /\ e[2] = owner[m]
      BY <3>2, WaitsMembers
    <3>4. m # l
      BY <2>1, <3>1, <3>2, <3>3
    <3>5. e[1] \in Lock!ToSet(waiters'[m]) /\ e[2] = owner'[m]
      BY <2>3, <3>3, <3>4
    <3>6. QED
      BY <3>2, <3>5 DEF Lock!TrueWaits
  <2>5. ASSUME NEW e \in Lock!TrueWaits' \ edges' PROVE waitsFor'[e[1]] = Lock!Nothing
    <3>1. PICK m \in LockIds : e[1] \in Lock!ToSet(waiters'[m]) /\ e = <<e[1], owner'[m]>>
      BY <2>5 DEF Lock!TrueWaits
    <3>2. e[1] \in LockUsers
      BY <2>3, <3>1
    <3>3. CASE e[1] \in Lock!ToSet(waiters[l])
      BY <2>1, <3>2, <3>3
    <3>4. CASE e[1] \notin Lock!ToSet(waiters[l])
      <4>1. m # l /\ e[1] \in Lock!ToSet(waiters[m]) /\ e = <<e[1], owner[m]>>
        BY <2>3, <3>1, <3>4
      <4>2. e \in Lock!TrueWaits
        BY <4>1 DEF Lock!TrueWaits
      <4>3. e \notin edges
        BY <2>1, <2>5, <3>4, <4>1
      <4>4. waitsFor[e[1]] = Lock!Nothing
        BY <4>2, <4>3 DEF Lock!EdgesAreWaits
      <4>5. QED
        BY <2>1, <3>2, <4>4
    <3>5. QED
      BY <3>3, <3>4
  <2>6. QED
    BY <2>2, <2>4, <2>5 DEF Lock!EdgesAreWaits
<1>3. QED
  BY <1>1, <1>2

\* A larger graph reaches more.
LEMMA ReachGrows ==
  ASSUME NEW graph, NEW larger, graph \subseteq larger, NEW t
  PROVE  Lock!Reach(graph, t) \subseteq Lock!Reach(larger, t)
<1>1. ASSUME NEW u \in Lock!Reach(graph, t), NEW ts \in SUBSET LockUsers,
             Lock!Step(larger, ts \union {t}) \subseteq ts
      PROVE  u \in ts
  <2>1. Lock!Step(graph, ts \union {t}) \subseteq Lock!Step(larger, ts \union {t})
    BY DEF Lock!Step
  <2>2. QED
    BY <1>1, <2>1 DEF Lock!Reach
<1>2. QED
  BY <1>1 DEF Lock!Reach

\* What is reached leads no farther.
LEMMA ReachIsClosed ==
  ASSUME NEW graph, \A e \in graph : e[2] \in LockUsers, NEW t
  PROVE  Lock!Step(graph, Lock!Reach(graph, t) \union {t}) \subseteq Lock!Reach(graph, t)
<1>1. SUFFICES ASSUME NEW e \in graph, e[1] \in Lock!Reach(graph, t) \union {t},
                      NEW ts \in SUBSET LockUsers, Lock!Step(graph, ts \union {t}) \subseteq ts
               PROVE  e[2] \in ts
  BY DEF Lock!Reach, Lock!Step
<1>2. e[1] \in ts \union {t}
  BY <1>1 DEF Lock!Reach
<1>3. QED
  BY <1>1, <1>2 DEF Lock!Step

\* Where no thread waits for itself, nobody is alone on a circle: the thread before
\* it on the circle is another, and is on it too.
LEMMA NobodyCirclesAlone ==
  ASSUME NEW graph, \A e \in graph : e[2] \in LockUsers /\ e[1] # e[2], NEW u \in Lock!FindCycle(graph)
  PROVE  \E v \in Lock!FindCycle(graph) : v # u
<1> DEFINE R == Lock!Reach(graph, u)
           T == R \ {u}
<1>1. SUFFICES ASSUME \A v \in Lock!FindCycle(graph) : v = u PROVE FALSE
  OBVIOUS
<1>2. u \in R
  BY DEF Lock!FindCycle
<1>3. Lock!Step(graph, R \union {u}) \subseteq R
  BY ReachIsClosed
<1>4. ASSUME NEW e \in graph, e[1] \in T, e[2] = u PROVE FALSE
  <2>1. ASSUME NEW ts \in SUBSET LockUsers, Lock!Step(graph, ts \union {e[1]}) \subseteq ts PROVE e[1] \in ts
    <3>1. u \in ts
      BY <1>4, <2>1 DEF Lock!Step
    <3>2. Lock!Step(graph, ts \union {u}) \subseteq ts
      BY <2>1, <3>1 DEF Lock!Step
    <3>3. QED
      BY <1>4, <3>2 DEF Lock!Reach
  <2>2. e[1] \in LockUsers /\ e[1] \in Lock!Reach(graph, e[1])
    BY <1>4, <2>1 DEF Lock!Reach
  <2>3. QED
    BY <1>1, <1>4, <2>2 DEF Lock!FindCycle
<1>5. Lock!Step(graph, T \union {u}) \subseteq T
  <2>1. SUFFICES ASSUME NEW e \in graph, e[1] \in T \union {u} PROVE e[2] \in T
    BY DEF Lock!Step
  <2>2. e[2] \in R
    BY <2>1, <1>2, <1>3 DEF Lock!Step
  <2>3. QED
    BY <2>1, <2>2, <1>4
<1>6. T \in SUBSET LockUsers
  BY DEF Lock!Reach
<1>7. QED
  BY <1>2, <1>5, <1>6 DEF Lock!Reach

\* A thread that would wait for itself is the only one on a circle of a graph that
\* had none.
LEMMA SelfEdgeCirclesAlone ==
  ASSUME NEW graph, Lock!FindCycle(graph) = {}, NEW t \in LockUsers
  PROVE  Lock!FindCycle(graph \union {<<t, t>>}) = {t}
<1> DEFINE larger == graph \union {<<t, t>>}
<1>1. t \in Lock!Reach(larger, t)
  <2>1. t \in Lock!Step(larger, {t})
    <3>1. <<t, t>> \in larger /\ <<t, t>>[1] = t /\ <<t, t>>[2] = t
      OBVIOUS
    <3>2. QED
      BY <3>1 DEF Lock!Step
  <2>2. QED
    BY <2>1 DEF Lock!Reach, Lock!Step
<1>2. ASSUME NEW u \in LockUsers, u # t, u \in Lock!Reach(larger, u) PROVE u \in Lock!Reach(graph, u)
  <2>1. SUFFICES ASSUME NEW ts \in SUBSET LockUsers, Lock!Step(graph, ts \union {u}) \subseteq ts PROVE u \in ts
    BY DEF Lock!Reach
  <2>2. Lock!Step(larger, ts \union {u}) \subseteq ts
    BY <1>2, <2>1 DEF Lock!Step
  <2>3. QED
    BY <1>2, <2>2 DEF Lock!Reach
<1>3. QED
  BY <1>1, <1>2 DEF Lock!FindCycle

\* The wait-for graph itself never has a circle.
NoCircle == Lock!FindCycle(edges) = {}

LEMMA FewerEdgesNoCircle ==
  ASSUME NoCircle, edges' \subseteq edges
  PROVE  NoCircle'
<1>1. \A u : Lock!Reach(edges', u) \subseteq Lock!Reach(edges, u)
  BY ReachGrows
<1>2. Lock!FindCycle(edges') = {}
  BY <1>1 DEF NoCircle, Lock!FindCycle
<1>3. QED
  BY <1>2 DEF NoCircle, Lock!FindCycle, Lock!Reach, Lock!Step

LEMMA CircleStep ==
  ASSUME NoCircle, NEW t \in LockUsers, NEW l \in LockIds,
         Lock!TryAcquire(t, l) \/ Lock!Release(t, l)
  PROVE  NoCircle'
<1> DEFINE graph == edges \union {<<t, owner[l]>>}
<1>1. CASE Lock!AcquireHeld(t, l) /\ Lock!FindCycle(graph) = {}
  <2>1. edges' = graph
    BY <1>1 DEF Lock!AcquireHeld
  <2>2. Lock!FindCycle(edges') = {}
    BY <1>1, <2>1
  <2>3. QED
    BY <2>2 DEF NoCircle, Lock!FindCycle, Lock!Reach, Lock!Step
<1>2. CASE ~(Lock!AcquireHeld(t, l) /\ Lock!FindCycle(graph) = {})
  <2>1. edges' \subseteq edges
    BY <1>2 DEF Lock!TryAcquire, Lock!AcquireFree, Lock!AcquireAgain, Lock!AcquireHeld, Lock!Release
  <2>2. QED
    BY <2>1, FewerEdgesNoCircle
<1>3. QED
  BY <1>1, <1>2

\* Only try_acquire reports a cycle, of the graph that has no circle, no edge but true
\* waits, and the one it tried.
LEMMA ReportStep ==
  ASSUME WaitInv, NoCircle, NEW t \in LockUsers, NEW l \in LockIds,
         Lock!TryAcquire(t, l) \/ Lock!Release(t, l)
  PROVE  Lock!CyclesAreReal'
<1> USE SyncAssumption
<1> DEFINE graph == edges \union {<<t, owner[l]>>}
<1>1. CASE Lock!AcquireHeld(t, l) /\ ~Lock!Queued(t) /\ Lock!FindCycle(graph) # {}
  <2>1. /\ reported' = Lock!FindCycle(graph) /\ owner[l] # Lock!Nobody
        /\ ~(owner[l] = t /\ l \in Reentrant) /\ UNCHANGED <<owner, waiters>>
    BY <1>1 DEF Lock!AcquireHeld
  <2>2. Lock!TrueWaits' = Lock!TrueWaits /\ ~Lock!Queued(t)'
    BY <1>1, <2>1 DEF Lock!TrueWaits, Lock!Queued
  <2> DEFINE waits == Lock!TrueWaits \union {<<t, owner[l]>>}
  <2>3. graph \subseteq waits
    BY DEF WaitInv, Lock!EdgesAreWaits
  <2>4. \A u \in reported' : u \in Lock!Reach(waits, u)
    <3> TAKE u \in reported'
    <3>1. u \in Lock!Reach(graph, u)
      BY <2>1 DEF Lock!FindCycle
    <3>2. QED
      BY <2>3, <3>1, ReachGrows
  <2>5. CASE owner[l] = t
    <3>1. reported' = {t}
      BY <2>1, <2>5, SelfEdgeCirclesAlone DEF NoCircle
    <3>2. QED
      BY <2>1, <2>2, <2>5, <3>1 DEF Lock!CyclesAreReal
  <2>6. CASE owner[l] # t
    <3>1. ASSUME NEW e \in edges PROVE e[2] \in LockUsers
      <4>1. e \in Lock!TrueWaits /\ e = <<e[1], e[2]>>
        BY WaitsMembers DEF WaitInv, Lock!EdgesAreWaits
      <4>2. PICK m \in LockIds : e[1] \in Lock!ToSet(waiters[m]) /\ e[2] = owner[m]
        BY <4>1, WaitsMembers
      <4>3. waiters[m] # <<>>
        BY <4>2 DEF Lock!ToSet
      <4>4. QED
        BY <4>2, <4>3 DEF WaitInv, LockTypes, FreeMeansEmpty
    <3>2. ASSUME NEW e \in edges PROVE e[1] # e[2]
      <4>1. SUFFICES ASSUME e[1] = e[2] PROVE FALSE
        OBVIOUS
      <4>2. e[1] \in Lock!Reach(edges, e[1])
        BY <3>1, <4>1 DEF Lock!Reach, Lock!Step
      <4>3. QED
        BY <3>1, <4>1, <4>2 DEF NoCircle, Lock!FindCycle
    <3>3. owner[l] \in LockUsers
      BY <2>1 DEF WaitInv, LockTypes
    <3>4. \A e \in graph : e[2] \in LockUsers /\ e[1] # e[2]
      BY <2>6, <3>1, <3>2, <3>3
    <3>5. \E u, v \in reported' : u # v
      BY <1>1, <2>1, <3>4, NobodyCirclesAlone
    <3>6. QED
      BY <2>1, <2>2, <2>4, <2>6, <3>5 DEF Lock!CyclesAreReal, Lock!Reach, Lock!Step
  <2>7. QED
    BY <2>5, <2>6
<1>2. CASE ~(Lock!AcquireHeld(t, l) /\ ~Lock!Queued(t) /\ Lock!FindCycle(graph) # {})
  <2>1. reported' = {}
    BY <1>2 DEF Lock!TryAcquire, Lock!AcquireFree, Lock!AcquireAgain, Lock!AcquireHeld, Lock!Release
  <2>2. QED
    BY <2>1 DEF Lock!CyclesAreReal
<1>3. QED
  BY <1>1, <1>2

LEMMA LockInit == Lock!Init => WaitInv /\ NoCircle /\ Lock!CyclesAreReal
<1> SUFFICES ASSUME Lock!Init PROVE WaitInv /\ NoCircle /\ Lock!CyclesAreReal
  OBVIOUS
<1>1. LockTypes /\ FreeMeansEmpty /\ Lock!CyclesAreReal
  BY DEF Lock!Init, LockTypes, FreeMeansEmpty, Lock!CyclesAreReal
<1>2. Lock!TrueWaits = {}
  <2>1. \A l \in LockIds : Lock!ToSet(waiters[l]) = {}
    BY DEF Lock!Init, Lock!ToSet
  <2>2. QED
    BY <2>1 DEF Lock!TrueWaits
<1>3. NoCircle
  <2>1. ASSUME NEW u PROVE u \notin Lock!Reach(edges, u)
    <3>1. Lock!Step(edges, {} \union {u}) \subseteq {}
      BY DEF Lock!Init, Lock!Step
    <3>2. QED
      BY <3>1 DEF Lock!Reach
  <2>2. QED
    BY <2>1 DEF NoCircle, Lock!FindCycle
<1>4. QED
  BY <1>1, <1>2, <1>3 DEF Lock!Init, WaitInv, Lock!EdgesAreWaits

LEMMA LockStep ==
  ASSUME WaitInv, NoCircle, Lock!CyclesAreReal, [Lock!Next]_lockVars
  PROVE  WaitInv' /\ NoCircle' /\ Lock!CyclesAreReal'
<1>1. ASSUME NEW t \in LockUsers, NEW l \in LockIds, Lock!TryAcquire(t, l) \/ Lock!Release(t, l)
      PROVE  WaitInv' /\ NoCircle' /\ Lock!CyclesAreReal'
  BY <1>1, LockAcquireStep, LockReleaseStep, CircleStep, ReportStep
<1>2. CASE UNCHANGED lockVars
  <2>1. UNCHANGED <<owner, holds, waiters, waitsFor, edges, reported>>
    BY <1>2 DEF lockVars
  <2>2. Lock!TrueWaits' = Lock!TrueWaits /\ \A t : Lock!Queued(t)' <=> Lock!Queued(t)
    BY <2>1 DEF Lock!TrueWaits, Lock!Queued
  <2>3. NoCircle'
    BY <2>1, FewerEdgesNoCircle
  <2>4. WaitInv'
    BY <2>1, <2>2 DEF WaitInv, LockTypes, FreeMeansEmpty, Lock!EdgesAreWaits
  <2>5. Lock!CyclesAreReal'
    BY <2>1, <2>2 DEF Lock!CyclesAreReal, Lock!Reach, Lock!Step
  <2>6. QED
    BY <2>3, <2>4, <2>5
<1>3. QED
  BY <1>1, <1>2 DEF Lock!Next

-----------------------------------------------------------------------------
(* The theorems.  A step of Sync is a step of one component or leaves its    *)
(* variables as they are.                                                    *)

LEMMA OneComponentMoves ==
  ASSUME [Next]_vars
  PROVE  /\ [Queue!Next]_queueVars /\ [Pool!Next]_poolVars /\ [Lru!Next]_lruVars
         /\ [Chan!Next]_chanVars /\ [Lock!Next]_lockVars /\ [Retries!Next]_retryVars
<1>1. CASE Next
  BY <1>1 DEF Next
<1>2. CASE UNCHANGED vars
  BY <1>2 DEF vars
<1>3. QED
  BY <1>1, <1>2

\* However many clients, connections, callers and retries there are: a connection
\* is pooled or used by one client and at most max_size are open
\* (ConnectionPool.acquire, release, prune); no call makes more than
\* max_retries + 1 attempts, and all of them together fail at most once per caller
\* beyond max_retries (retry, whose calls share attempts_used).
THEOREM LimitsHoldAlways == Spec => []LimitsHold
<1> DEFINE Inv == PoolInv /\ RetryInv
<1>1. Init => Inv
  BY PoolInit, RetryInit DEF Init
<1>2. Inv /\ [Next]_vars => Inv'
  BY OneComponentMoves, PoolStep, RetryStep
<1>3. Inv => LimitsHold
  BY DEF LimitsHold, PoolInv, RetryInv
<1> HIDE DEF Inv
<1>4. QED
  BY <1>1, <1>2, <1>3, PTL DEF Spec

\* For any threads and locks, re-entrant or not: every edge of the wait-for graph
\* is a thread that waits for the owner of the lock it is queued for, and what is
\* reported as a deadlock is a circle of two threads or more by such waits, or a thread
\* that asked again for a lock of its own that is not reentrant
\* (LockManager.try_acquire, release, WaitForGraph.find_cycle).
THEOREM GraphIsSoundAlways == Spec => []GraphIsSound
<1> DEFINE Inv == WaitInv /\ NoCircle /\ Lock!CyclesAreReal
<1>1. Init => Inv
  BY LockInit DEF Init
<1>2. Inv /\ [Next]_vars => Inv'
  BY OneComponentMoves, LockStep
<1>3. Inv => GraphIsSound
  BY DEF GraphIsSound, WaitInv
<1> HIDE DEF Inv
<1>4. QED
  BY <1>1, <1>2, <1>3, PTL DEF Spec

-----------------------------------------------------------------------------
(* The cache *)

\* The list s respects the pairs: the first of a pair stands before the second.
InOrder(s, pairs) == \A i, j \in 1 .. Len(s) : <<s[i], s[j]>> \in pairs => i < j

LEMMA LruLists ==
  /\ \A s, gone : Lru!Without(s, gone) = Without(s, gone)
  /\ \A s : Lru!ToSet(s) = ToSet(s) /\ (Lru!IsInjective(s) <=> IsInjective(s))
<1>1. ASSUME NEW s, NEW gone PROVE Lru!Without(s, gone) = Without(s, gone)
  BY DEF Without, Lru!Without
<1>2. QED
  BY <1>1 DEF Lru!ToSet, ToSet, Lru!IsInjective, IsInjective

LEMMA CountTo ==
  ASSUME NEW n \in Nat
  PROVE  IsFiniteSet(1 .. n) /\ Cardinality(1 .. n) = n
<1>1. 1 \in Int /\ n \in Int
  OBVIOUS
<1>2. /\ IsFiniteSet(1 .. n)
      /\ Cardinality(1 .. n) = IF 1 > n THEN 0 ELSE n - 1 + 1
  BY ONLY <1>1, FS_Interval
<1>3. QED
  BY <1>2

\* A removal leaves no more elements than there are places that stay.
LEMMA RemovalShortens ==
  ASSUME NEW S, NEW s \in Seq(S), NEW gone
  PROVE  Len(Without(s, gone)) <= Cardinality({i \in 1 .. Len(s) : s[i] \notin gone})
<1> DEFINE stay == {i \in 1 .. Len(s) : s[i] \notin gone}
<1> PICK w : w = Without(s, gone)
  OBVIOUS
<1>1. w \in Seq(S) /\ Len(w) \in Nat /\ Len(s) \in Nat
  BY Removal, LenProperties
<1>2. PICK e \in [1 .. Len(w) -> 1 .. Len(s)] :
         /\ \A k \in 1 .. Len(w) : s[e[k]] \notin gone
         /\ \A j, k \in 1 .. Len(w) : j < k => e[j] < e[k]
  BY Removal
<1>3. e \in [1 .. Len(w) -> stay]
  BY <1>2
<1>4. \A j, k \in 1 .. Len(w) : e[j] = e[k] => j = k
  <2> TAKE j, k \in 1 .. Len(w)
  <2>1. ~(j < k /\ e[j] = e[k]) /\ ~(k < j /\ e[j] = e[k])
    BY <1>2
  <2>2. QED
    BY <1>1, <2>1
<1>5. e \in Injection(1 .. Len(w), stay)
  BY <1>3, <1>4 DEF Injection, IsInjective
<1>6. IsFiniteSet(stay)
  <2>1. IsFiniteSet(1 .. Len(s)) /\ stay \subseteq 1 .. Len(s)
    BY <1>1, CountTo
  <2>2. QED
    BY <2>1, FS_Subset
<1>7. Cardinality(1 .. Len(w)) <= Cardinality(stay)
  <2> HIDE DEF stay
  <2>1. QED
    BY <1>5, <1>6, FS_Injection
<1>8. Cardinality(1 .. Len(w)) = Len(w)
  BY <1>1, CountTo
<1>9. QED
  BY <1>7, <1>8

LEMMA RemovalKeepsOrder ==
  ASSUME NEW S, NEW s \in Seq(S), NEW gone, NEW pairs, InOrder(s, pairs)
  PROVE  InOrder(Without(s, gone), pairs)
<1> PICK w : w = Without(s, gone)
  OBVIOUS
<1>1. Len(w) \in Nat
  BY Removal, LenProperties
<1>2. PICK e \in [1 .. Len(w) -> 1 .. Len(s)] :
         /\ \A k \in 1 .. Len(w) : w[k] = s[e[k]]
         /\ \A j, k \in 1 .. Len(w) : j < k => e[j] < e[k]
  BY Removal
<1>3. SUFFICES ASSUME NEW i \in 1 .. Len(w), NEW j \in 1 .. Len(w), <<w[i], w[j]>> \in pairs
               PROVE  i < j
  BY DEF InOrder
<1>4. e[i] \in 1 .. Len(s) /\ e[j] \in 1 .. Len(s) /\ <<s[e[i]], s[e[j]]>> \in pairs
  BY <1>2, <1>3
<1>5. e[i] < e[j]
  BY <1>4 DEF InOrder
<1>6. i # j /\ ~(j < i)
  <2>1. j < i => e[j] < e[i]
    BY <1>2
  <2>2. Len(s) \in Nat
    BY LenProperties
  <2>3. QED
    BY <1>4, <1>5, <2>1, <2>2
<1>7. QED
  BY <1>1, <1>6

\* A key that moves to the end, if no pair wants it before another.
LEMMA MovedToEnd ==
  ASSUME NEW s \in Seq(Keys), IsInjective(s), NEW k \in Keys,
         NEW pairs, InOrder(s, pairs),
         NEW newer, \A p \in newer : p[1] # k /\ (p \in pairs \/ p[2] = k)
  PROVE  /\ Lru!Moved(s, k) \in Seq(Keys) /\ IsInjective(Lru!Moved(s, k))
         /\ ToSet(Lru!Moved(s, k)) = ToSet(s) \union {k}
         /\ Len(Lru!Moved(s, k)) <= Len(s) + (IF k \in ToSet(s) THEN 0 ELSE 1)
         /\ InOrder(Lru!Moved(s, k), newer)
<1> PICK w : w = Without(s, {k})
  OBVIOUS
<1> PICK m : m = Lru!Moved(s, k)
  OBVIOUS
<1>1. /\ w \in Seq(Keys) /\ IsInjective(w) /\ ToSet(w) = ToSet(s) \ {k} /\ Len(w) <= Len(s)
      /\ Len(w) \in Nat /\ Len(s) \in Nat
  BY RemovalKeeps, LenProperties
<1>2. m = Append(w, k)
  BY LruLists DEF Lru!Moved
<1>3. /\ m \in Seq(Keys) /\ Len(m) = Len(w) + 1 /\ m[Len(w) + 1] = k
      /\ \A i \in 1 .. Len(w) : m[i] = w[i]
  BY <1>1, <1>2, AppendProperties
<1>4. IsInjective(m) /\ ToSet(m) = ToSet(s) \union {k}
  <2>1. k \notin ToSet(w) /\ ToSet(w) \union {k} = ToSet(s) \union {k}
    BY <1>1
  <2>2. IsInjective(m) /\ ToSet(m) = ToSet(w) \union {k}
    <3>1. w \in Seq(Keys) /\ IsInjective(w)
      BY <1>1
    <3>2. /\ ToSet(Append(w, k)) = ToSet(w) \union {k}
          /\ IsInjective(w) /\ k \notin ToSet(w) => IsInjective(Append(w, k))
      BY <3>1, EndsOfLists
    <3>3. QED
      BY <1>2, <2>1, <3>1, <3>2
  <2>3. QED
    BY <2>1, <2>2
<1>5. ASSUME k \in ToSet(s) PROVE Len(w) <= Len(s) - 1
  <2>1. PICK i \in 1 .. Len(s) : s[i] = k
    BY <1>5, LenProperties DEF ToSet
  <2>2. {j \in 1 .. Len(s) : s[j] \notin {k}} = (1 .. Len(s)) \ {i}
    BY <2>1, LenProperties DEF IsInjective
  <2>3. Cardinality((1 .. Len(s)) \ {i}) = Len(s) - 1
    <3>1. IsFiniteSet(1 .. Len(s)) /\ Cardinality(1 .. Len(s)) = Len(s)
      BY <1>1, CountTo
    <3>2. QED
      BY <2>1, <3>1, FS_RemoveElement
  <2>4. QED
    BY <2>2, <2>3, RemovalShortens
<1>6. InOrder(m, newer)
  <2> SUFFICES ASSUME NEW i \in 1 .. Len(m), NEW j \in 1 .. Len(m), <<m[i], m[j]>> \in newer
               PROVE  i < j
    BY DEF InOrder
  <2>1. m[i] # k
    <3>1. <<m[i], m[j]>>[1] # k
      OBVIOUS
    <3>2. QED
      BY <3>1
  <2>2. i \in 1 .. Len(w)
    BY <1>1, <1>3, <2>1
  <2>3. CASE j = Len(w) + 1
    BY <2>2, <2>3
  <2>4. CASE j # Len(w) + 1
    <3>0. j \in 1 .. Len(w)
      <4>1. j \in 1 .. (Len(w) + 1)
        BY <1>3
      <4>2. QED
        BY <1>1, <2>4, <4>1
    <3>1. j \in 1 .. Len(w) /\ m[j] = w[j] /\ m[i] = w[i]
      BY <1>3, <2>2, <3>0
    <3>2. w[j] # k
      BY <1>1, <3>1, LenProperties DEF ToSet
    <3>3. <<w[i], w[j]>> \in pairs
      <4>1. <<w[i], w[j]>> \in newer /\ <<w[i], w[j]>>[2] = w[j]
        BY <3>1
      <4>2. QED
        BY <3>2, <4>1
    <3>4. InOrder(w, pairs)
      BY RemovalKeepsOrder
    <3>5. QED
      BY <2>2, <3>1, <3>3, <3>4 DEF InOrder
  <2>5. QED
    BY <2>3, <2>4
<1>7. QED
  BY <1>1, <1>3, <1>4, <1>5, <1>6

LruTypes == /\ order \in Seq(Keys) /\ IsInjective(order)
            /\ capacity \in 1 .. MaxCapacity /\ Len(order) <= capacity
            /\ expired \subseteq ToSet(order)
            /\ touching \in [Users -> Keys \union {Lru!None}]
            /\ filling \in [Users -> Keys \union {Lru!None}]
            /\ quiet \in [Users -> SUBSET Keys]

\* A key that get() is about to move is not known to be older than any other.
TouchedIsRecent ==
    \A u \in Users : touching[u] # Lru!None =>
        /\ \A v \in Users : touching[u] \notin quiet[v]
        /\ \A p \in settled : p[1] # touching[u]

LruInv == LruTypes /\ TouchedIsRecent /\ InOrder(order, settled)

LEMMA LruSafe == LruInv => Lru!LruOrder
BY LruLists DEF LruInv, LruTypes, InOrder, Lru!LruOrder, Lru!Present

LEMMA LruInit == Lru!Init => LruInv
<1> SUFFICES ASSUME Lru!Init PROVE LruInv
  OBVIOUS
<1>1. order = <<>> /\ expired = {} /\ capacity = MaxCapacity /\ settled = {}
      /\ touching = [u \in Users |-> Lru!None] /\ filling = [u \in Users |-> Lru!None]
      /\ quiet = [u \in Users |-> {}]
  BY DEF Lru!Init
<1>2. order \in Seq(Keys) /\ IsInjective(order) /\ Len(order) = 0
  BY <1>1, EmptySeq DEF IsInjective
<1>3. QED
  BY <1>1, <1>2, SyncAssumption DEF LruInv, LruTypes, TouchedIsRecent, InOrder

\* Removal: evictions, expiry and deletion lose no order and age no key.
LEMMA RemoveStep ==
  ASSUME LruInv, NEW gone, Lru!RemoveKeys(gone)
  PROVE  /\ order' \in Seq(Keys) /\ IsInjective(order') /\ Len(order') <= Len(order)
         /\ expired' \subseteq ToSet(order') /\ quiet' \in [Users -> SUBSET Keys]
         /\ InOrder(order', settled') /\ settled' \subseteq settled
         /\ \A v \in Users : quiet'[v] \subseteq quiet[v]
<1>1. /\ order' = Without(order, gone) /\ expired' = expired \ gone
      /\ settled' \subseteq settled /\ quiet' = [u \in Users |-> quiet[u] \ gone]
  BY LruLists DEF Lru!RemoveKeys, Lru!Gone, Lru!NotQuiet
<1>2. /\ ToSet(order') = ToSet(order) \ gone /\ IsInjective(order')
      /\ order' \in Seq(Keys) /\ Len(order') <= Len(order)
  BY <1>1, RemovalKeeps DEF LruInv, LruTypes
<1>3. InOrder(order', settled)
  BY <1>1, RemovalKeepsOrder DEF LruInv, LruTypes
<1>4. QED
  BY <1>1, <1>2, <1>3 DEF LruInv, LruTypes, InOrder

LEMMA GetReadStep ==
  ASSUME LruInv, NEW u \in Users, NEW k \in Keys, NEW computes, Lru!GetRead(u, k, computes)
  PROVE  LruInv'
<1>1. /\ touching[u] = Lru!None /\ capacity' = capacity
      /\ \E x \in {k, Lru!None} : filling' = [filling EXCEPT ![u] = x]
  BY DEF Lru!GetRead
<1>2. filling' \in [Users -> Keys \union {Lru!None}] /\ capacity' \in 1 .. MaxCapacity
  BY <1>1 DEF LruInv, LruTypes
<1>3. CASE UNCHANGED <<order, expired, touching, quiet, settled>>
  BY <1>1, <1>2, <1>3 DEF LruInv, LruTypes, TouchedIsRecent, InOrder
<1>4. CASE Lru!RemoveKeys({k}) /\ UNCHANGED touching
  <2>1. Len(order') <= Len(order) /\ Len(order') \in Nat /\ Len(order) \in Nat
    BY <1>4, RemoveStep, LenProperties DEF LruInv, LruTypes
  <2>2. LruTypes' /\ InOrder(order', settled')
    BY <1>1, <1>2, <1>4, <2>1, RemoveStep DEF LruInv, LruTypes
  <2>3. TouchedIsRecent'
    BY <1>4, RemoveStep DEF LruInv, TouchedIsRecent
  <2>4. QED
    BY <2>2, <2>3 DEF LruInv
<1>5. CASE /\ touching' = [touching EXCEPT ![u] = k] /\ settled' = Lru!Started(k)
           /\ quiet' = [Lru!NotQuiet({k}) EXCEPT ![u] = Lru!Present \ (Lru!Busy \union {k})]
           /\ UNCHANGED <<order, expired>>
  <2>1. \A v \in Users : touching'[v] = IF v = u THEN k ELSE touching[v]
    BY <1>5 DEF LruInv, LruTypes
  <2>2. Lru!Present \subseteq Keys
    BY LruLists, EndsOfLists DEF LruInv, LruTypes, Lru!Present
  <2>3. \A v \in Users : quiet'[v] = IF v = u THEN Lru!Present \ (Lru!Busy \union {k})
                                     ELSE quiet[v] \ {k}
    BY <1>5 DEF LruInv, LruTypes, Lru!NotQuiet
  <2>4. LruTypes'
    BY <1>1, <1>2, <1>5, <2>2 DEF LruInv, LruTypes, Lru!NotQuiet
  <2>5. settled' \subseteq settled /\ \A p \in settled' : p[1] # k
    BY <1>5 DEF Lru!Started
  <2>6. TouchedIsRecent'
    <3> SUFFICES ASSUME NEW w \in Users, touching'[w] # Lru!None
                 PROVE  /\ \A v \in Users : touching'[w] \notin quiet'[v]
                        /\ \A p \in settled' : p[1] # touching'[w]
      BY DEF TouchedIsRecent
    <3>1. CASE w = u
      BY <2>1, <2>3, <2>5, <3>1
    <3>2. CASE w # u
      <4>1. touching'[w] = touching[w] /\ touching[w] \in Lru!Busy
        BY <2>1, <3>2 DEF Lru!Busy
      <4>2. QED
        BY <2>3, <2>5, <4>1 DEF LruInv, TouchedIsRecent
    <3>3. QED
      BY <3>1, <3>2
  <2>7. InOrder(order', settled')
    BY <1>5, <2>5 DEF LruInv, InOrder
  <2>8. QED
    BY <2>4, <2>6, <2>7 DEF LruInv
<1>6. QED
  BY <1>3, <1>4, <1>5 DEF Lru!GetRead

LEMMA GetTouchStep ==
  ASSUME LruInv, NEW u \in Users, Lru!GetTouch(u)
  PROVE  LruInv'
<1> PICK k : k = touching[u]
  OBVIOUS
<1>1. /\ k \in Keys /\ k # Lru!None /\ touching' = [touching EXCEPT ![u] = Lru!None]
      /\ quiet' = [quiet EXCEPT ![u] = {}] /\ UNCHANGED <<expired, capacity, filling>>
  BY DEF Lru!GetTouch, LruInv, LruTypes
<1>2. /\ \A v \in Users : touching'[v] = IF v = u THEN Lru!None ELSE touching[v]
      /\ \A v \in Users : quiet'[v] = IF v = u THEN {} ELSE quiet[v]
      /\ touching' \in [Users -> Keys \union {Lru!None}] /\ quiet' \in [Users -> SUBSET Keys]
  BY <1>1 DEF LruInv, LruTypes
<1>3. CASE UNCHANGED <<order, settled>>
  BY <1>1, <1>2, <1>3 DEF LruInv, LruTypes, TouchedIsRecent, InOrder
<1>4. CASE /\ k \in Lru!Present /\ order' = Lru!Moved(order, k)
           /\ settled' \in {settled, Lru!Ended(k, quiet[u])}
  <2>1. /\ \A p \in settled : p[1] # k
        /\ k \notin quiet[u]
    BY <1>1 DEF LruInv, TouchedIsRecent
  <2>2. \A p \in settled' : \/ p \in settled
                            \/ p[1] \in quiet[u] /\ p[2] = k
    BY <1>4 DEF Lru!Ended
  <2>3. /\ order \in Seq(Keys) /\ IsInjective(order) /\ InOrder(order, settled)
        /\ k \in ToSet(order)
    BY <1>4, LruLists DEF LruInv, LruTypes, Lru!Present
  <2>4. \A p \in settled' : p[1] # k /\ (p \in settled \/ p[2] = k)
    BY <2>1, <2>2
  <2>5. /\ order' \in Seq(Keys) /\ IsInjective(order')
        /\ ToSet(order') = ToSet(order) \union {k}
        /\ Len(order') <= Len(order) /\ InOrder(order', settled')
    <3>1. Len(order) + 0 = Len(order)
      BY <2>3, LenProperties
    <3>2. PICK newer : newer = settled'
      OBVIOUS
    <3>3. \A p \in newer : p[1] # k /\ (p \in settled \/ p[2] = k)
      BY <2>4, <3>2
    <3>4. PICK keys : keys = order
      OBVIOUS
    <3>5. /\ Lru!Moved(keys, k) \in Seq(Keys) /\ IsInjective(Lru!Moved(keys, k))
          /\ ToSet(Lru!Moved(keys, k)) = ToSet(keys) \union {k}
          /\ Len(Lru!Moved(keys, k)) <= Len(keys) + (IF k \in ToSet(keys) THEN 0 ELSE 1)
          /\ InOrder(Lru!Moved(keys, k), newer)
      BY <1>1, <2>3, <3>3, <3>4, MovedToEnd
    <3>6. QED
      BY <1>4, <2>3, <3>1, <3>2, <3>4, <3>5
  <2>6. Len(order') \in Nat /\ Len(order) \in Nat
    BY <2>3, <2>5, LenProperties
  <2>7. LruTypes'
    BY <1>1, <1>2, <2>5, <2>6 DEF LruInv, LruTypes
  <2>8. TouchedIsRecent'
    BY <1>2, <2>2 DEF LruInv, TouchedIsRecent
  <2>9. QED
    BY <2>5, <2>7, <2>8 DEF LruInv
<1>5. QED
  <2>1. \/ UNCHANGED <<order, settled>>
        \/ /\ k \in Lru!Present /\ order' = Lru!Moved(order, k)
           /\ settled' \in {settled, Lru!Ended(k, quiet[u])}
    BY DEF Lru!GetTouch
  <2>2. QED
    BY <1>3, <1>4, <2>1

LEMMA PutKeyStep ==
  ASSUME LruInv, NEW k \in Keys, Lru!PutKey(k), UNCHANGED <<capacity, touching>>,
         filling' \in [Users -> Keys \union {Lru!None}]
  PROVE  LruInv'
<1> DEFINE full == k \notin Lru!Present /\ Len(order) >= capacity
<1>1. PICK kept, gone :
        /\ kept = (IF full THEN Tail(order) ELSE order)
        /\ gone = (IF full THEN {Head(order)} ELSE {})
  OBVIOUS
<1>2. /\ order' = Lru!Moved(kept, k) /\ expired' = expired \ (gone \union {k})
      /\ settled' \subseteq Lru!Ended(k, Lru!Present \ (Lru!Busy \union {k}))
      /\ quiet' = [u \in Users |-> quiet[u] \ (gone \union {k})]
  BY <1>1 DEF Lru!PutKey, Lru!NotQuiet
<1>3. /\ order \in Seq(Keys) /\ IsInjective(order) /\ InOrder(order, settled)
      /\ Lru!Present = ToSet(order) /\ Len(order) \in Nat /\ capacity \in Nat \ {0}
      /\ Len(order) <= capacity
  BY LruLists, LenProperties, SyncAssumption DEF LruInv, LruTypes, Lru!Present
<1>4. /\ kept \in Seq(Keys) /\ IsInjective(kept) /\ InOrder(kept, settled)
      /\ ToSet(order) \ gone \subseteq ToSet(kept)
      /\ k \notin ToSet(order) => Len(kept) + 1 <= capacity /\ k \notin ToSet(kept)
      /\ k \in ToSet(order) => kept = order
  <2>1. CASE full
    <3>1. order # <<>>
      BY <1>3, <2>1, EmptySeq
    <3>2. kept = Tail(order) /\ gone = {Head(order)} /\ k \notin ToSet(order)
      BY <1>1, <1>3, <2>1
    <3>3. /\ kept \in Seq(Keys) /\ IsInjective(kept) /\ Len(kept) = Len(order) - 1
          /\ ToSet(kept) \subseteq ToSet(order)
          /\ ToSet(order) = ToSet(kept) \union {Head(order)}
      BY <1>3, <3>1, <3>2, EndsOfLists
    <3>4. \A i \in 1 .. Len(kept) : kept[i] = order[i + 1] /\ i + 1 \in 1 .. Len(order)
      BY <1>3, <3>1, <3>2, <3>3, HeadTailProperties
    <3>5. InOrder(kept, settled)
      BY <1>3, <3>3, <3>4 DEF InOrder
    <3>6. Len(kept) + 1 <= capacity /\ k \notin ToSet(kept)
      BY <1>3, <3>2, <3>3
    <3>7. ToSet(order) \ gone \subseteq ToSet(kept)
      BY <3>2, <3>3
    <3>8. QED
      BY <3>2, <3>3, <3>5, <3>6, <3>7
  <2>2. CASE ~full
    <3>1. kept = order /\ gone = {}
      BY <1>1, <2>2
    <3>2. QED
      BY <1>3, <2>2, <3>1
  <2>3. QED
    BY <2>1, <2>2
<1>5. \A p \in settled' : \/ p \in settled /\ p[1] # k
                          \/ p[1] \notin Lru!Busy \union {k} /\ p[2] = k
  BY <1>2 DEF Lru!Ended
<1>6. /\ order' \in Seq(Keys) /\ IsInjective(order')
      /\ ToSet(order') = ToSet(kept) \union {k}
      /\ Len(order') <= Len(kept) + (IF k \in ToSet(kept) THEN 0 ELSE 1)
      /\ InOrder(order', settled')
  <2>1. \A p \in settled' : p[1] # k /\ (p \in settled \/ p[2] = k)
    BY <1>5
  <2>2. QED
    BY <1>2, <1>4, <2>1, MovedToEnd
<1>7. Len(order') <= capacity
  <2>1. Len(kept) \in Nat /\ Len(order') \in Nat
    BY <1>4, <1>6, LenProperties
  <2>2. QED
    BY <1>3, <1>4, <1>6, <2>1
<1>8. LruTypes'
  BY <1>2, <1>3, <1>4, <1>6, <1>7 DEF LruInv, LruTypes
<1>9. TouchedIsRecent'
  <2> SUFFICES ASSUME NEW u \in Users, touching[u] # Lru!None
               PROVE  /\ \A v \in Users : touching[u] \notin quiet'[v]
                      /\ \A p \in settled' : p[1] # touching[u]
    BY DEF TouchedIsRecent
  <2>1. touching[u] \in Lru!Busy
    BY DEF Lru!Busy
  <2>2. QED
    BY <1>2, <1>5, <2>1 DEF LruInv, TouchedIsRecent
<1>10. QED
  BY <1>6, <1>8, <1>9 DEF LruInv

\* A smaller capacity evicts the oldest keys, one for each that is too many.
LEMMA ResizeStep ==
  ASSUME LruInv, NEW n \in 1 .. MaxCapacity, Lru!Resize(n)
  PROVE  LruInv'
<1> DEFINE gone == {order[i] : i \in 1 .. Len(order) - n}
<1>1. Lru!RemoveKeys(gone) /\ capacity' = n /\ UNCHANGED <<touching, filling>>
  BY DEF Lru!Resize
<1>2. order' = Without(order, gone) /\ order \in Seq(Keys) /\ Len(order) \in Nat
      /\ IsInjective(order) /\ DOMAIN order = 1 .. Len(order) /\ n \in Nat
  BY <1>1, LruLists, LenProperties, SyncAssumption DEF Lru!RemoveKeys, LruInv, LruTypes
<1>3. Len(order') <= n
  <2> DEFINE stay == {i \in 1 .. Len(order) : order[i] \notin gone}
             last == (Len(order) - n + 1) .. Len(order)
  <2>1. Len(order') <= Cardinality(stay)
    BY <1>2, RemovalShortens
  <2>2. stay \subseteq last
    BY <1>2
  <2>3. IsFiniteSet(last) /\ Cardinality(last) = IF Len(order) - n + 1 > Len(order) THEN 0 ELSE n
    <3>1. Len(order) - n + 1 \in Int /\ Len(order) \in Int
      BY <1>2
    <3>2. /\ IsFiniteSet(last)
          /\ Cardinality(last) = IF Len(order) - n + 1 > Len(order) THEN 0
                                 ELSE Len(order) - (Len(order) - n + 1) + 1
      BY ONLY <3>1, FS_Interval
    <3>3. QED
      BY <1>2, <3>2
  <2>4. Cardinality(stay) <= Cardinality(last) /\ Cardinality(stay) \in Nat
    BY <2>2, <2>3, FS_Subset, FS_CardinalityType
  <2>5. Len(order') \in Nat
    BY <1>1, RemoveStep, LenProperties
  <2>6. Cardinality(last) = n
    BY <1>2, <2>3
  <2> HIDE DEF stay, last
  <2>7. QED
    BY <1>2, <2>1, <2>4, <2>5, <2>6
<1> HIDE DEF gone
<1>4. LruTypes' /\ InOrder(order', settled')
  BY <1>1, <1>3, RemoveStep DEF LruInv, LruTypes
<1>5. TouchedIsRecent'
  BY <1>1, RemoveStep DEF LruInv, TouchedIsRecent
<1>6. QED
  BY <1>4, <1>5 DEF LruInv

LEMMA LruStep == LruInv /\ [Lru!Next]_lruVars => LruInv'
<1> SUFFICES ASSUME LruInv, [Lru!Next]_lruVars PROVE LruInv'
  OBVIOUS
<1>1. ASSUME NEW u \in Users, Lru!GetTouch(u) PROVE LruInv'
  BY <1>1, GetTouchStep
<1>2. ASSUME NEW u \in Users, Lru!Fill(u) PROVE LruInv'
  <2>1. /\ filling[u] \in Keys /\ Lru!PutKey(filling[u]) /\ UNCHANGED <<capacity, touching>>
        /\ filling' \in [Users -> Keys \union {Lru!None}]
    BY <1>2 DEF Lru!Fill, LruInv, LruTypes
  <2>2. QED
    BY <2>1, PutKeyStep
<1>3. ASSUME NEW u \in Users, NEW k \in Keys, NEW computes \in BOOLEAN, Lru!GetRead(u, k, computes)
      PROVE  LruInv'
  BY <1>3, GetReadStep
<1>4. ASSUME NEW k \in Keys, Lru!Put(k) PROVE LruInv'
  <2>1. /\ Lru!PutKey(k) /\ UNCHANGED <<capacity, touching, filling>>
    BY <1>4 DEF Lru!Put
  <2>2. QED
    BY <2>1, PutKeyStep DEF LruInv, LruTypes
<1>5. ASSUME NEW k \in Keys, Lru!Expire(k) PROVE LruInv'
  <2>1. /\ k \in ToSet(order) /\ expired' = expired \union {k}
        /\ UNCHANGED <<order, capacity, touching, filling, quiet, settled>>
    BY <1>5, LruLists DEF Lru!Expire, Lru!Present
  <2>2. QED
    BY <2>1 DEF LruInv, LruTypes, TouchedIsRecent, InOrder
<1>6. ASSUME NEW gone \in SUBSET Keys, Lru!Drop(gone) PROVE LruInv'
  <2>1. Lru!RemoveKeys(gone) /\ UNCHANGED <<capacity, touching, filling>>
    BY <1>6 DEF Lru!Drop
  <2>2. Len(order') \in Nat /\ Len(order) \in Nat /\ Len(order') <= Len(order)
    BY <2>1, RemoveStep, LenProperties DEF LruInv, LruTypes
  <2>3. LruTypes' /\ InOrder(order', settled')
    BY <2>1, <2>2, RemoveStep DEF LruInv, LruTypes
  <2>4. TouchedIsRecent'
    BY <2>1, RemoveStep DEF LruInv, TouchedIsRecent
  <2>5. QED
    BY <2>3, <2>4 DEF LruInv
<1>7. ASSUME NEW n \in 1 .. MaxCapacity, Lru!Resize(n) PROVE LruInv'
  BY <1>7, ResizeStep
<1>8. CASE UNCHANGED lruVars
  <2>1. UNCHANGED <<order, expired, capacity, touching, filling, quiet, settled>>
    BY <1>8 DEF lruVars
  <2>2. QED
    BY <2>1 DEF LruInv, LruTypes, TouchedIsRecent, InOrder
<1>9. QED
  BY <1>1, <1>2, <1>3, <1>4, <1>5, <1>6, <1>7, <1>8 DEF Lru!Next

-----------------------------------------------------------------------------
(* The producer-consumer queue *)

LEMMA ThreeLists == \A a, b, c \in Seq(Nat) : (a \o b) \o c = a \o (b \o c)
BY ConcatAssociative

\* A list of distinct elements, split after the k-th.
LEMMA SplitList ==
  ASSUME NEW S, NEW s \in Seq(S), IsInjective(s), NEW k \in 0 .. Len(s)
  PROVE  LET rest == SubSeq(s, k + 1, Len(s))
             first == {s[i] : i \in 1 .. k} IN
         /\ rest \in Seq(S) /\ IsInjective(rest) /\ Len(rest) = Len(s) - k
         /\ ToSet(rest) \intersect first = {}
         /\ ToSet(rest) \subseteq ToSet(s) /\ first \subseteq ToSet(s)
         /\ IsFiniteSet(first) /\ Cardinality(first) = k
<1> DEFINE first == {s[i] : i \in 1 .. k}
<1> PICK rest : rest = SubSeq(s, k + 1, Len(s))
  OBVIOUS
<1>1. Len(s) \in Nat /\ DOMAIN s = 1 .. Len(s) /\ k \in Nat
  BY LenProperties
<1>2. \A i \in k + 1 .. Len(s) : s[i] \in S
  BY <1>1, ElementOfSeq
<1>3. /\ rest \in Seq(S) /\ Len(rest) = (IF k + 1 <= Len(s) THEN Len(s) - (k + 1) + 1 ELSE 0)
      /\ \A i \in 1 .. Len(s) - (k + 1) + 1 : rest[i] = s[(k + 1) + i - 1]
  <2>1. k + 1 \in Int /\ Len(s) \in Int
    BY <1>1
  <2>2. QED
    BY <1>2, <2>1, SubSeqProperties
<1>4. Len(rest) = Len(s) - k
  <2>1. Len(rest) = IF k + 1 <= Len(s) THEN Len(s) - (k + 1) + 1 ELSE 0
    BY <1>3
  <2>2. k <= Len(s) /\ k \in Nat /\ Len(s) \in Nat
    BY <1>1
  <2>3. CASE k + 1 <= Len(s)
    BY <2>1, <2>2, <2>3
  <2>4. CASE ~(k + 1 <= Len(s))
    BY <2>1, <2>2, <2>4
  <2>5. QED
    BY <2>3, <2>4
<1>5. \A i \in 1 .. Len(rest) : rest[i] = s[k + i] /\ k + i \in 1 .. Len(s)
  <2> TAKE i \in 1 .. Len(rest)
  <2>1. i \in 1 .. Len(s) - (k + 1) + 1 /\ (k + 1) + i - 1 = k + i /\ k + i \in 1 .. Len(s)
    <3>1. i \in 1 .. (Len(s) - k)
      BY <1>4
    <3>2. QED
      BY ONLY <1>1, <3>1
  <2>2. QED
    BY <1>3, <2>1
<1>6. DOMAIN rest = 1 .. Len(rest) /\ Len(rest) \in Nat
  BY <1>3, LenProperties
<1>7. IsInjective(rest)
  <2> SUFFICES ASSUME NEW i \in 1 .. Len(rest), NEW j \in 1 .. Len(rest), rest[i] = rest[j]
               PROVE  i = j
    BY <1>6 DEF IsInjective
  <2>1. s[k + i] = s[k + j] /\ k + i \in DOMAIN s /\ k + j \in DOMAIN s
    BY <1>1, <1>5
  <2>2. k + i = k + j
    BY <2>1 DEF IsInjective
  <2>3. i \in Int /\ j \in Int
    BY <1>6
  <2>4. QED
    BY ONLY <1>1, <2>2, <2>3
<1>8. ToSet(rest) \subseteq ToSet(s) /\ first \subseteq ToSet(s)
  <2>1. ToSet(rest) = {rest[i] : i \in 1 .. Len(rest)} /\ ToSet(s) = {s[i] : i \in 1 .. Len(s)}
    BY <1>1, <1>6 DEF ToSet
  <2>2. 1 .. k \subseteq 1 .. Len(s)
    BY <1>1
  <2>3. QED
    BY <1>5, <2>1, <2>2
<1>9. ToSet(rest) \intersect first = {}
  <2> SUFFICES ASSUME NEW i \in 1 .. Len(rest), NEW j \in 1 .. k, rest[i] = s[j] PROVE FALSE
    <3>1. ToSet(rest) = {rest[i] : i \in 1 .. Len(rest)}
      BY <1>6 DEF ToSet
    <3>2. QED
      BY <3>1
  <2>1. s[k + i] = s[j] /\ k + i \in DOMAIN s /\ j \in DOMAIN s
    BY <1>1, <1>5
  <2>2. k + i = j
    BY <2>1 DEF IsInjective
  <2>3. i \in Nat /\ i >= 1 /\ j \in Nat /\ j <= k
    BY <1>1, <1>6
  <2>4. QED
    BY ONLY <1>1, <2>2, <2>3
<1>10. IsFiniteSet(first) /\ Cardinality(first) = k
  <2> DEFINE f == [i \in 1 .. k |-> s[i]]
  <2>1. f \in [1 .. k -> first] /\ (\A t \in first : \E i \in 1 .. k : f[i] = t)
    OBVIOUS
  <2>2. \A i, j \in 1 .. k : f[i] = f[j] => i = j
    BY <1>1 DEF IsInjective
  <2>3. f \in Bijection(1 .. k, first)
    BY <2>1, <2>2 DEF Bijection, Injection, Surjection, IsInjective
  <2> HIDE DEF first, f
  <2>4. ExistsBijection(1 .. k, first)
    BY <2>3 DEF ExistsBijection
  <2>5. QED
    BY <1>1, <2>4, FS_NatBijection, FS_CountingElements
<1>11. QED
  BY <1>3, <1>4, <1>7, <1>8, <1>9, <1>10

LEMMA QueueLists ==
  /\ \A s, gone : Queue!Without(s, gone) = Without(s, gone)
  /\ \A S : \A s \in Seq(S) : \A x : Queue!Contains(s, x) <=> x \in ToSet(s)
  /\ \A a, b \in Nat : Queue!Least(a, b) \in Nat /\ Queue!Least(a, b) <= a
                       /\ Queue!Least(a, b) <= b /\ Queue!Least(a, b) \in {a, b}
  /\ Queue!Consumers = 1 .. NumConsumers /\ IsFiniteSet(Queue!Consumers)
<1>1. ASSUME NEW s, NEW gone PROVE Queue!Without(s, gone) = Without(s, gone)
  BY DEF Without, Queue!Without
<1>2. ASSUME NEW S, NEW s \in Seq(S), NEW x PROVE Queue!Contains(s, x) <=> x \in ToSet(s)
  BY LenProperties DEF Queue!Contains, ToSet
<1>3. \A a, b \in Nat : Queue!Least(a, b) \in Nat /\ Queue!Least(a, b) <= a
                       /\ Queue!Least(a, b) <= b /\ Queue!Least(a, b) \in {a, b}
  BY DEF Queue!Least
<1>4. Queue!Consumers = 1 .. NumConsumers /\ IsFiniteSet(Queue!Consumers)
  BY SyncAssumption, CountTo DEF Queue!Consumers
<1>5. QED
  BY <1>1, <1>2, <1>3, <1>4

QueueTypes == /\ queue \in Seq(Nat) /\ moved \in [in : Seq(Nat), out : Seq(Nat)] /\ offered \in Nat
              /\ stage \in {"setup", "open", "pipeline"}
              /\ getters \in Seq(Queue!Consumers) /\ IsInjective(getters)
              /\ woken \subseteq Queue!Consumers /\ woken \intersect ToSet(getters) = {}
              /\ todo \in [Queue!Consumers -> Nat]
              /\ \A c \in woken \union ToSet(getters) : todo[c] > 0

\* While a consumer sleeps there is a woken one for every queued item.
WokenEnough == getters # <<>> => Cardinality(woken) >= Len(queue)

\* The gets that are still to come, as <<consumer, number>>.
Gets(tasks) == {p \in Queue!Consumers \X Nat : 1 <= p[2] /\ p[2] <= tasks[p[1]]}

\* A pipeline's consumers never sleep, and plan at least as many gets as there
\* are items.
PipelineInv ==
    /\ stage = "setup" => /\ queue = <<>> /\ getters = <<>> /\ woken = {}
                          /\ \A c \in Queue!Consumers : todo[c] = 0
    /\ stage = "pipeline" => /\ closed /\ getters = <<>> /\ woken = {}
                             /\ IsFiniteSet(Gets(todo))
                             /\ Len(queue) <= Cardinality(Gets(todo))

QueueInv == QueueTypes /\ Queue!Conserved /\ WokenEnough /\ PipelineInv

LEMMA QueueSafe ==
  QueueInv => Queue!Conserved /\ Queue!PipelineDelivers /\ Queue!NobodyForgotten
<1> SUFFICES ASSUME QueueInv PROVE Queue!PipelineDelivers /\ Queue!NobodyForgotten
  BY DEF QueueInv
<1>1. queue \in Seq(Nat) /\ Len(queue) \in Nat /\ (queue # <<>> => Len(queue) > 0)
  BY LenProperties, EmptySeq DEF QueueInv, QueueTypes
<1>2. Queue!NobodyForgotten
  <2>1. ASSUME queue # <<>>, getters # <<>>, woken = {} PROVE FALSE
    <3>1. Cardinality(woken) = 0 /\ Cardinality(woken) >= Len(queue)
      BY <2>1, FS_EmptySet DEF QueueInv, WokenEnough
    <3>2. QED
      BY <1>1, <2>1, <3>1
  <2>2. QED
    BY <2>1 DEF Queue!NobodyForgotten
<1>3. ASSUME stage = "pipeline", \A c \in Queue!Consumers : todo[c] = 0 PROVE moved.out = moved.in
  <2>1. Gets(todo) = {}
    BY <1>3 DEF Gets
  <2>2. Len(queue) = 0
    BY <1>1, <1>3, <2>1, FS_EmptySet DEF QueueInv, PipelineInv
  <2>3. queue = <<>>
    BY <1>1, <2>2
  <2>4. moved.in = moved.out \o <<>> /\ moved.out \in Seq(Nat)
    BY <2>3 DEF QueueInv, QueueTypes, Queue!Conserved
  <2>5. QED
    BY <2>4, ConcatEmptySeq
<1>4. QED
  BY <1>2, <1>3 DEF Queue!PipelineDelivers

LEMMA QueueInit == Queue!Init => QueueInv
<1> SUFFICES ASSUME Queue!Init PROVE QueueInv
  OBVIOUS
<1>1. /\ queue = <<>> /\ getters = <<>> /\ woken = {} /\ offered = 0 /\ stage = "setup"
      /\ moved = [in |-> <<>>, out |-> <<>>] /\ counts = [put |-> 0, get |-> 0]
      /\ todo = [c \in Queue!Consumers |-> 0]
  BY DEF Queue!Init
<1>2. ToSet(getters) = {} /\ IsInjective(getters) /\ \A S : <<>> \in Seq(S) /\ Len(<<>>) = 0
  BY <1>1, EmptySeq DEF ToSet, IsInjective
<1>3. <<>> \o <<>> = <<>>
  BY <1>2, ConcatEmptySeq
<1>4. QueueTypes
  BY <1>1, <1>2 DEF QueueTypes
<1>5. Queue!Conserved
  BY <1>1, <1>2, <1>3, SyncAssumption DEF Queue!Conserved
<1>6. QED
  BY <1>1, <1>4, <1>5 DEF QueueInv, WokenEnough, PipelineInv

\* n items arrive, as many as there is room for, and wake as many sleepers.
LEMMA EnqueueStep ==
  ASSUME QueueInv, NEW n \in Nat, Queue!Enqueue(n)
  PROVE  /\ queue' \in Seq(Nat) /\ moved' \in [in : Seq(Nat), out : Seq(Nat)] /\ offered' \in Nat
         /\ Len(queue') <= Len(queue) + n /\ Queue!Conserved' /\ WokenEnough'
         /\ getters' \in Seq(Queue!Consumers) /\ IsInjective(getters')
         /\ woken' \intersect ToSet(getters') = {}
         /\ woken' \union ToSet(getters') \subseteq woken \union ToSet(getters)
         /\ getters = <<>> => getters' = <<>> /\ woken' = woken
<1> PICK kept : kept = Queue!Least(n, Queue!Room)
  OBVIOUS
<1>1. /\ queue \in Seq(Nat) /\ Len(queue) \in Nat /\ Len(queue) <= QueueSize /\ offered \in Nat
      /\ moved.in \in Seq(Nat) /\ moved.out \in Seq(Nat) /\ QueueSize \in Nat
  BY LenProperties, SyncAssumption DEF QueueInv, QueueTypes, Queue!Conserved
<1>2. kept \in Nat /\ kept <= n /\ Len(queue) + kept <= QueueSize
  <2>1. Queue!Room \in Nat /\ Queue!Room = QueueSize - Len(queue)
    BY <1>1 DEF Queue!Room
  <2>2. kept \in Nat /\ kept <= n /\ kept <= Queue!Room
    BY <2>1, QueueLists
  <2>3. QED
    BY <1>1, <2>1, <2>2
<1>3. PICK items : items = [i \in 1 .. kept |-> offered + i]
  OBVIOUS
<1>4. /\ queue' = queue \o items /\ moved' = [moved EXCEPT !.in = @ \o items]
      /\ counts' = [counts EXCEPT !.put = @ + kept] /\ offered' = offered + n
      /\ Queue!Wake(kept)
  BY <1>3 DEF Queue!Enqueue
<1>5. items \in Seq(Nat) /\ Len(items) = kept
  <2>1. items \in [1 .. kept -> Nat] /\ DOMAIN items = 1 .. kept
    BY <1>1, <1>3
  <2>2. items \in Seq(Nat)
    BY <1>2, <2>1
  <2>3. Len(items) \in Nat /\ 1 .. Len(items) = 1 .. kept
    BY <2>1, <2>2, LenProperties
  <2>4. Len(items) = kept
    BY <1>2, <2>3
  <2>5. QED
    BY <2>2, <2>4
<1>6. /\ queue' \in Seq(Nat) /\ Len(queue') = Len(queue) + kept
      /\ moved.in \o items \in Seq(Nat) /\ Len(moved.in \o items) = Len(moved.in) + kept
  BY <1>1, <1>4, <1>5, ConcatProperties
<1>7. /\ moved' \in [in : Seq(Nat), out : Seq(Nat)]
      /\ moved'.in = moved.in \o items /\ moved'.out = moved.out
  BY <1>4, <1>6 DEF QueueInv, QueueTypes
<1>8. Queue!Conserved'
  <2>1. moved.in = moved.out \o queue
    BY DEF QueueInv, Queue!Conserved
  <2>2. moved.in \o items = moved.out \o (queue \o items)
    <3>1. (moved.out \o queue) \o items = moved.out \o (queue \o items)
      <4>1. PICK a \in Seq(Nat), b \in Seq(Nat), c \in Seq(Nat) :
              a = moved.out /\ b = queue /\ c = items
        BY <1>1, <1>5
      <4>2. a \in Seq(Nat) /\ b \in Seq(Nat) /\ c \in Seq(Nat)
        OBVIOUS
      <4>3. (a \o b) \o c = a \o (b \o c)
        BY ONLY <4>2, ThreeLists
      <4>4. QED
        BY <4>1, <4>3
    <3>2. QED
      BY <2>1, <3>1
  <2>3. moved'.in = moved'.out \o queue'
    BY <1>4, <1>7, <2>2
  <2>4. counts = [put |-> Len(moved.in), get |-> Len(moved.out)]
    BY DEF QueueInv, Queue!Conserved
  <2>5. counts' = [put |-> Len(moved'.in), get |-> Len(moved'.out)]
    BY <1>4, <1>6, <1>7, <2>4
  <2>6. QED
    BY <1>2, <1>6, <2>3, <2>5 DEF Queue!Conserved
<1>9. /\ getters \in Seq(Queue!Consumers) /\ IsInjective(getters) /\ Len(getters) \in Nat
      /\ woken \subseteq Queue!Consumers /\ woken \intersect ToSet(getters) = {}
  BY LenProperties DEF QueueInv, QueueTypes
<1> PICK k : k = Queue!Least(kept, Len(getters))
  OBVIOUS
<1> DEFINE first == {getters[i] : i \in 1 .. k}
<1>10. k \in 0 .. Len(getters) /\ k \in {kept, Len(getters)}
  BY <1>2, <1>9, QueueLists
<1>11. getters' = SubSeq(getters, k + 1, Len(getters)) /\ woken' = woken \union first
  BY <1>4 DEF Queue!Wake
<1>12. /\ getters' \in Seq(Queue!Consumers) /\ IsInjective(getters')
       /\ Len(getters') = Len(getters) - k
       /\ ToSet(getters') \intersect first = {}
       /\ ToSet(getters') \subseteq ToSet(getters) /\ first \subseteq ToSet(getters)
       /\ IsFiniteSet(first) /\ Cardinality(first) = k
  BY <1>9, <1>10, <1>11, SplitList
<1> HIDE DEF first
<1>13. /\ woken' \intersect ToSet(getters') = {}
       /\ woken' \union ToSet(getters') \subseteq woken \union ToSet(getters)
  BY <1>9, <1>11, <1>12
<1>14. WokenEnough'
  <2> SUFFICES ASSUME getters' # <<>> PROVE Cardinality(woken') >= Len(queue')
    BY DEF WokenEnough
  <2>1. k = kept /\ getters # <<>>
    <3>1. Len(getters') # 0
      BY <1>12, EmptySeq
    <3>2. k # Len(getters)
      BY <1>9, <1>12, <3>1
    <3>3. getters # <<>>
      BY <1>9, <1>10, <3>2, EmptySeq
    <3>4. QED
      BY <1>10, <3>2, <3>3
  <2>2. IsFiniteSet(woken) /\ Cardinality(woken) \in Nat
    BY <1>9, QueueLists, FS_Subset, FS_CardinalityType
  <2>3. woken \intersect first = {}
    BY <1>9, <1>12
  <2>4. Cardinality(woken') = Cardinality(woken) + Cardinality(first) - Cardinality({})
    BY <1>11, <1>12, <2>2, <2>3, FS_Union
  <2>5. Cardinality(woken) >= Len(queue)
    BY <2>1 DEF QueueInv, WokenEnough
  <2>6. QED
    <3>1. Cardinality(woken') = Cardinality(woken) + kept
      <4>1. Cardinality(first) = kept /\ Cardinality({}) = 0
        BY <1>12, <2>1, FS_EmptySet
      <4>2. QED
        BY <1>2, <2>2, <2>4, <4>1
    <3>2. QED
      BY <1>1, <1>2, <1>6, <2>2, <2>5, <3>1
<1>15. ASSUME getters = <<>> PROVE getters' = <<>> /\ woken' = woken
  <2>1. k = 0
    BY <1>10, <1>15, EmptySeq
  <2>2. first = {}
    BY <2>1 DEF first
  <2>3. Len(getters') = 0
    BY <1>12, <1>15, <2>1, EmptySeq
  <2>4. QED
    BY <1>11, <1>12, <2>2, <2>3, EmptySeq
<1>16. offered' \in Nat /\ Len(queue') <= Len(queue) + n
  BY <1>1, <1>2, <1>4, <1>6
<1>17. QED
  BY ONLY <1>6, <1>7, <1>8, <1>12, <1>13, <1>14, <1>15, <1>16

LEMMA Quotient == ASSUME NEW n \in Nat, NEW m \in Nat \ {0}
                  PROVE  n \div m \in Nat /\ (n \div m) * m <= n
OBVIOUS

\* The shares add up to the number of items.
LEMMA SharesAddUp ==
  ASSUME NEW n \in Nat
  PROVE  /\ Queue!Share(n) \in [Queue!Consumers -> Nat]
         /\ IsFiniteSet(Gets(Queue!Share(n))) /\ Cardinality(Gets(Queue!Share(n))) = n
<1> PICK N : N = NumConsumers
  OBVIOUS
<1> PICK q : q = n \div N
  OBVIOUS
<1> PICK r : r = n - q * (N - 1)
  OBVIOUS
<1>1. N \in Nat \ {0} /\ Queue!Consumers = 1 .. N
  BY SyncAssumption, QueueLists
<1>2. q \in Nat /\ q * N <= n
  BY <1>1, Quotient
<1>3. q * (N - 1) \in Nat /\ q * (N - 1) <= n /\ r \in Nat /\ (N - 1) * q = q * (N - 1)
  <2>1. q * (N - 1) = q * N - q /\ (N - 1) * q = q * N - q
    BY <1>1, <1>2
  <2>2. q * N \in Nat /\ q <= q * N
    BY <1>1, <1>2
  <2>3. QED
    BY <1>2, <2>1, <2>2
<1>4. Queue!Share(n) = [c \in 1 .. N |-> IF c < N THEN q ELSE r]
  BY <1>1 DEF Queue!Share
<1> DEFINE most == (1 .. (N - 1)) \X (1 .. q)
           last == {N} \X (1 .. r)
<1>5. Gets(Queue!Share(n)) = most \union last
  <2>1. ASSUME NEW p \in Gets(Queue!Share(n)) PROVE p \in most \union last
    <3>1. PICK c \in 1 .. N, i \in Nat : p = <<c, i>>
      BY <1>1 DEF Gets
    <3>2. 1 <= i /\ i <= IF c < N THEN q ELSE r
      BY <1>4, <3>1 DEF Gets
    <3>3. QED
      BY <1>1, <1>2, <1>3, <3>1, <3>2
  <2>2. ASSUME NEW p \in most \union last PROVE p \in Gets(Queue!Share(n))
    <3>1. PICK c \in 1 .. N, i \in Nat : p = <<c, i>> /\ 1 <= i /\ i <= IF c < N THEN q ELSE r
      BY <1>1, <1>2, <1>3
    <3>2. QED
      BY <1>1, <1>4, <3>1 DEF Gets
  <2>3. QED
    BY <2>1, <2>2
<1>6. IsFiniteSet(most) /\ Cardinality(most) = (N - 1) * q
  <2>1. /\ IsFiniteSet(1 .. (N - 1)) /\ Cardinality(1 .. (N - 1)) = N - 1
        /\ IsFiniteSet(1 .. q) /\ Cardinality(1 .. q) = q
    BY <1>1, <1>2, CountTo
  <2>2. QED
    <3>1. /\ IsFiniteSet(most)
          /\ Cardinality(most) = Cardinality(1 .. (N - 1)) * Cardinality(1 .. q)
      BY <2>1, FS_Product, Zenon
    <3>2. QED
      BY <2>1, <3>1
<1>7. IsFiniteSet(last) /\ Cardinality(last) = r
  <2>1. IsFiniteSet(1 .. r) /\ Cardinality(1 .. r) = r
    BY <1>3, CountTo
  <2>2. IsFiniteSet({N}) /\ Cardinality({N}) = 1
    BY FS_Singleton
  <2>3. IsFiniteSet(last) /\ Cardinality(last) = 1 * r
    BY <2>1, <2>2, FS_Product
  <2>4. QED
    BY <1>3, <2>3
<1>8. most \intersect last = {}
  BY <1>1
<1> HIDE DEF most, last
<1>9. IsFiniteSet(most \union last)
      /\ Cardinality(most \union last) = (N - 1) * q + r - 0
  BY <1>6, <1>7, <1>8, FS_Union, FS_EmptySet
<1>10. (N - 1) * q + r - 0 = n
  BY <1>3
<1>11. Queue!Share(n) \in [Queue!Consumers -> Nat]
  BY <1>1, <1>2, <1>3, <1>4
<1>12. QED
  BY <1>5, <1>9, <1>10, <1>11

LEMMA OpenStep ==
  ASSUME QueueInv, NEW want \in 1 .. MaxOffers, Queue!Open(want)
  PROVE  QueueInv'
<1>1. /\ stage = "setup" /\ stage' = "open" /\ todo' = [c \in Queue!Consumers |-> want]
      /\ UNCHANGED <<queue, getters, woken, closed, counts, offered, moved>>
  BY DEF Queue!Open
<1>2. want \in Nat /\ want > 0
  OBVIOUS
<1>3. QueueTypes'
  <2>1. ToSet(getters) = {} /\ woken = {}
    BY <1>1 DEF ToSet, QueueInv, PipelineInv
  <2>2. QED
    BY <1>1, <1>2, <2>1 DEF QueueInv, QueueTypes
<1>4. Queue!Conserved' /\ WokenEnough' /\ PipelineInv'
  BY <1>1 DEF QueueInv, Queue!Conserved, WokenEnough, PipelineInv
<1>5. QED
  BY <1>3, <1>4 DEF QueueInv

LEMMA RunPipelineStep ==
  ASSUME QueueInv, NEW n \in 1 .. MaxOffers, Queue!RunPipeline(n)
  PROVE  QueueInv'
<1>1. /\ stage = "setup" /\ stage' = "pipeline" /\ todo' = Queue!Share(n)
      /\ Queue!Enqueue(n) /\ closed' = TRUE
  BY DEF Queue!RunPipeline
<1>2. n \in Nat
  OBVIOUS
<1>3. queue = <<>> /\ getters = <<>> /\ woken = {} /\ Len(queue) = 0
  BY <1>1, EmptySeq DEF QueueInv, PipelineInv
<1>4. /\ getters' = <<>> /\ woken' = {} /\ Len(queue') <= n
  <2>1. Len(queue') <= Len(queue) + n /\ getters' = <<>> /\ woken' = woken
    BY <1>1, <1>2, <1>3, EnqueueStep
  <2>2. QED
    BY <1>2, <1>3, <2>1
<1>5. ToSet(getters') = {}
  BY <1>4 DEF ToSet
<1>6. QueueTypes'
  BY <1>1, <1>2, <1>4, <1>5, EnqueueStep, SharesAddUp DEF QueueTypes
<1>7. PipelineInv'
  BY <1>1, <1>2, <1>4, SharesAddUp DEF PipelineInv
<1>8. QED
  BY <1>1, <1>2, <1>6, <1>7, EnqueueStep DEF QueueInv

LEMMA PutStep ==
  ASSUME QueueInv, NEW n \in 1 .. MaxOffers, Queue!Put(n)
  PROVE  QueueInv'
<1>1. /\ stage = "open" /\ UNCHANGED <<closed, todo, stage>> /\ Queue!Enqueue(n) /\ n \in Nat
  BY DEF Queue!Put
<1>2. /\ getters' \in Seq(Queue!Consumers) /\ IsInjective(getters')
      /\ woken' \intersect ToSet(getters') = {}
      /\ woken' \union ToSet(getters') \subseteq woken \union ToSet(getters)
      /\ queue' \in Seq(Nat) /\ moved' \in [in : Seq(Nat), out : Seq(Nat)] /\ offered' \in Nat
      /\ Queue!Conserved' /\ WokenEnough'
  BY <1>1, EnqueueStep
<1>3. woken \union ToSet(getters) \subseteq Queue!Consumers
  <2>1. ToSet(getters) \subseteq Queue!Consumers
    BY EndsOfLists DEF QueueInv, QueueTypes
  <2>2. QED
    BY <2>1 DEF QueueInv, QueueTypes
<1>4. QueueTypes'
  BY <1>1, <1>2, <1>3 DEF QueueInv, QueueTypes
<1>5. PipelineInv'
  BY <1>1 DEF PipelineInv
<1>6. QED
  BY <1>2, <1>4, <1>5 DEF QueueInv

LEMMA DrainStep == QueueInv /\ Queue!Drain => QueueInv'
<1> SUFFICES ASSUME QueueInv, Queue!Drain PROVE QueueInv'
  OBVIOUS
<1>1. /\ stage = "open" /\ queue' = <<>> /\ moved' = [moved EXCEPT !.out = @ \o queue]
      /\ counts' = [counts EXCEPT !.get = @ + Len(queue)]
      /\ UNCHANGED <<getters, woken, closed, offered, todo, stage>>
  BY DEF Queue!Drain
<1>2. /\ queue \in Seq(Nat) /\ moved.in \in Seq(Nat) /\ moved.out \in Seq(Nat)
      /\ queue' \in Seq(Nat) /\ Len(queue') = 0 /\ moved.in = moved.out \o queue
      /\ counts = [put |-> Len(moved.in), get |-> Len(moved.out)]
  BY <1>1, EmptySeq DEF QueueInv, QueueTypes, Queue!Conserved
<1>3. /\ moved.out \o queue \in Seq(Nat)
      /\ Len(moved.out \o queue) = Len(moved.out) + Len(queue)
  BY <1>2, ConcatProperties
<1>4. /\ moved' \in [in : Seq(Nat), out : Seq(Nat)]
      /\ moved'.in = moved.in /\ moved'.out = moved.out \o queue
  BY <1>1, <1>3 DEF QueueInv, QueueTypes
<1>5. Queue!Conserved'
  <2>1. moved'.out \o <<>> = moved'.out
    BY <1>3, <1>4, ConcatEmptySeq
  <2>2. moved'.in = moved'.out \o queue'
    BY <1>1, <1>2, <1>4, <2>1
  <2>3. counts' = [put |-> Len(moved'.in), get |-> Len(moved'.out)]
    BY <1>1, <1>2, <1>3, <1>4
  <2>4. QED
    BY <1>2, <2>2, <2>3, SyncAssumption DEF Queue!Conserved
<1>6. QueueTypes'
  BY <1>1, <1>2, <1>4 DEF QueueInv, QueueTypes
<1>7. WokenEnough'
  <2>1. Cardinality(woken) \in Nat
    BY QueueLists, FS_Subset, FS_CardinalityType DEF QueueInv, QueueTypes
  <2>2. QED
    BY <1>1, <1>2, <2>1 DEF WokenEnough
<1>8. PipelineInv'
  BY <1>1 DEF PipelineInv
<1>9. QED
  BY <1>5, <1>6, <1>7, <1>8 DEF QueueInv

\* A consumer takes the first item: one item fewer, and one get fewer to come.
LEMMA TakeEffect ==
  ASSUME QueueInv, NEW c \in Queue!Consumers, todo[c] > 0, Queue!Take(c)
  PROVE  /\ queue' \in Seq(Nat) /\ moved' \in [in : Seq(Nat), out : Seq(Nat)]
         /\ Len(queue) \in Nat \ {0} /\ Len(queue') = Len(queue) - 1
         /\ Queue!Conserved' /\ UNCHANGED <<closed, offered, stage>>
         /\ todo' \in [Queue!Consumers -> Nat]
         /\ \A d \in Queue!Consumers : d # c => todo'[d] = todo[d]
         /\ IsFiniteSet(Gets(todo)) =>
              /\ IsFiniteSet(Gets(todo'))
              /\ Cardinality(Gets(todo')) = Cardinality(Gets(todo)) - 1
<1>1. /\ queue # <<>> /\ queue' = Tail(queue)
      /\ moved' = [moved EXCEPT !.out = Append(@, Head(queue))]
      /\ counts' = [counts EXCEPT !.get = @ + 1] /\ todo' = [todo EXCEPT ![c] = @ - 1]
      /\ UNCHANGED <<closed, offered, stage>>
  BY DEF Queue!Take
<1>2. /\ queue \in Seq(Nat) /\ moved.in \in Seq(Nat) /\ moved.out \in Seq(Nat)
      /\ moved.in = moved.out \o queue /\ Len(queue) <= QueueSize
      /\ counts = [put |-> Len(moved.in), get |-> Len(moved.out)]
  BY DEF QueueInv, QueueTypes, Queue!Conserved
<1>3. /\ Head(queue) \in Nat /\ queue' \in Seq(Nat) /\ Len(queue) \in Nat \ {0}
      /\ Len(queue') = Len(queue) - 1
      /\ \A i \in 1 .. Len(queue') : queue'[i] = queue[i + 1]
      /\ Head(queue) = queue[1]
  BY <1>1, <1>2, HeadTailProperties, EmptySeq
<1> PICK out : out = Append(moved.out, Head(queue))
  OBVIOUS
<1>4. /\ out \in Seq(Nat) /\ Len(out) = Len(moved.out) + 1
      /\ \A i \in 1 .. Len(moved.out) : out[i] = moved.out[i]
      /\ out[Len(moved.out) + 1] = queue[1] /\ Len(moved.out) \in Nat
  BY <1>2, <1>3, AppendProperties, LenProperties
<1>5. /\ moved' \in [in : Seq(Nat), out : Seq(Nat)]
      /\ moved'.in = moved.in /\ moved'.out = out
  BY <1>1, <1>4 DEF QueueInv, QueueTypes
<1>6. moved.out \o queue = out \o queue'
  <2>1. /\ moved.out \o queue \in Seq(Nat)
        /\ Len(moved.out \o queue) = Len(moved.out) + Len(queue)
        /\ \A i \in 1 .. Len(moved.out) + Len(queue) : (moved.out \o queue)[i] =
             IF i <= Len(moved.out) THEN moved.out[i] ELSE queue[i - Len(moved.out)]
    BY <1>2, ConcatProperties
  <2>2. /\ out \o queue' \in Seq(Nat)
        /\ Len(out \o queue') = Len(out) + Len(queue')
        /\ \A i \in 1 .. Len(out) + Len(queue') : (out \o queue')[i] =
             IF i <= Len(out) THEN out[i] ELSE queue'[i - Len(out)]
    <3>1. PICK q \in Seq(Nat) : q = queue'
      BY <1>3
    <3>2. /\ out \o q \in Seq(Nat)
          /\ Len(out \o q) = Len(out) + Len(q)
          /\ \A i \in 1 .. Len(out) + Len(q) : (out \o q)[i] =
               IF i <= Len(out) THEN out[i] ELSE q[i - Len(out)]
      BY <1>4, ConcatProperties
    <3>3. QED
      BY <3>1, <3>2
  <2>3. Len(out) + Len(queue') = Len(moved.out) + Len(queue)
    BY <1>3, <1>4
  <2>4. ASSUME NEW i \in 1 .. Len(moved.out) + Len(queue)
        PROVE  (moved.out \o queue)[i] = (out \o queue')[i]
    <3>1. CASE i <= Len(moved.out)
      <4>1. i \in 1 .. Len(moved.out) /\ i <= Len(out)
        BY <1>3, <1>4, <3>1
      <4>2. QED
        BY <1>4, <2>1, <2>2, <2>3, <3>1, <4>1
    <3>2. CASE i = Len(moved.out) + 1
      <4>1. ~(i <= Len(moved.out)) /\ i <= Len(out) /\ i - Len(moved.out) = 1
        BY <1>4, <3>2
      <4>2. QED
        BY <1>4, <2>1, <2>2, <2>3, <3>2, <4>1
    <3>3. CASE i > Len(moved.out) + 1
      <4>1. /\ ~(i <= Len(moved.out)) /\ ~(i <= Len(out))
            /\ i - Len(out) \in 1 .. Len(queue') /\ (i - Len(out)) + 1 = i - Len(moved.out)
        <5>1. PICK a \in Nat, b \in Nat : a = Len(moved.out) /\ b = Len(queue)
          BY <1>3, <1>4
        <5>2. Len(queue') = b - 1 /\ Len(out) = a + 1
          BY <1>3, <1>4, <5>1
        <5>3. i \in Int /\ i <= a + b /\ i > a + 1
          BY <3>3, <5>1
        <5>4. /\ ~(i <= a) /\ ~(i <= a + 1)
              /\ i - (a + 1) \in 1 .. (b - 1) /\ (i - (a + 1)) + 1 = i - a
          BY ONLY <5>3
        <5>5. QED
          BY <5>1, <5>2, <5>4
      <4>2. QED
        BY <1>3, <2>1, <2>2, <2>3, <4>1
    <3>4. QED
      BY <1>3, <1>4, <3>1, <3>2, <3>3
  <2>5. QED
    BY <2>1, <2>2, <2>3, <2>4, SeqEqual
<1>7. Queue!Conserved'
  <2>1. moved'.in = moved'.out \o queue'
    BY <1>2, <1>5, <1>6
  <2>2. counts' = [put |-> Len(moved'.in), get |-> Len(moved'.out)]
    BY <1>1, <1>2, <1>4, <1>5
  <2>3. Len(queue') <= QueueSize
    BY <1>2, <1>3, SyncAssumption
  <2>4. QED
    BY <2>1, <2>2, <2>3 DEF Queue!Conserved
<1>8. /\ todo \in [Queue!Consumers -> Nat]
      /\ todo' \in [Queue!Consumers -> Nat] /\ todo'[c] = todo[c] - 1
      /\ \A d \in Queue!Consumers : d # c => todo'[d] = todo[d]
  BY <1>1 DEF QueueInv, QueueTypes
<1>9. ASSUME IsFiniteSet(Gets(todo))
      PROVE  /\ IsFiniteSet(Gets(todo'))
             /\ Cardinality(Gets(todo')) = Cardinality(Gets(todo)) - 1
  <2>1. Gets(todo') = Gets(todo) \ {<<c, todo[c]>>}
    <3>1. ASSUME NEW d \in Queue!Consumers, NEW i \in Nat
          PROVE  <<d, i>> \in Gets(todo') <=> <<d, i>> \in Gets(todo) \ {<<c, todo[c]>>}
      <4>1. <<d, i>> \in Gets(todo') <=> 1 <= i /\ i <= todo'[d]
        BY DEF Gets
      <4>2. <<d, i>> \in Gets(todo) <=> 1 <= i /\ i <= todo[d]
        BY DEF Gets
      <4>3. CASE d = c
        BY <1>8, <4>1, <4>2, <4>3
      <4>4. CASE d # c
        BY <1>8, <4>1, <4>2, <4>4
      <4>5. QED
        BY <4>3, <4>4
    <3>2. Gets(todo') \subseteq Queue!Consumers \X Nat /\ Gets(todo) \subseteq Queue!Consumers \X Nat
      BY DEF Gets
    <3>3. QED
      BY <3>1, <3>2
  <2>2. <<c, todo[c]>> \in Gets(todo)
    BY <1>8 DEF Gets
  <2>3. QED
    BY <1>9, <2>1, <2>2, FS_RemoveElement
<1>10. QED
  BY <1>1, <1>3, <1>5, <1>7, <1>8, <1>9

LEMMA GetStep ==
  ASSUME QueueInv, NEW c \in Queue!Consumers, Queue!Get(c)
  PROVE  QueueInv'
<1>1. todo[c] > 0 /\ c \notin woken /\ c \notin ToSet(getters)
  BY QueueLists DEF Queue!Get, Queue!Running, QueueInv, QueueTypes
<1>2. Cardinality(woken) \in Nat
  BY QueueLists, FS_Subset, FS_CardinalityType DEF QueueInv, QueueTypes
<1>3. ToSet(getters) \subseteq Queue!Consumers
  BY EndsOfLists DEF QueueInv, QueueTypes
<1>4. CASE Queue!Take(c) /\ UNCHANGED <<getters, woken>>
  <2>1. /\ Queue!Conserved' /\ Len(queue') = Len(queue) - 1 /\ Len(queue) \in Nat \ {0}
        /\ UNCHANGED <<closed, offered, stage>>
    BY <1>1, <1>4, TakeEffect
  <2>2. QueueTypes'
    BY <1>1, <1>3, <1>4, <2>1, TakeEffect DEF QueueInv, QueueTypes
  <2>3. WokenEnough'
    BY <1>2, <1>4, <2>1 DEF QueueInv, WokenEnough
  <2>4. PipelineInv'
    <3>1. stage # "setup"
      BY <2>1, EmptySeq DEF QueueInv, PipelineInv
    <3>2. ASSUME stage = "pipeline"
          PROVE  IsFiniteSet(Gets(todo')) /\ Len(queue') <= Cardinality(Gets(todo'))
      <4>1. IsFiniteSet(Gets(todo)) /\ Len(queue) <= Cardinality(Gets(todo))
        BY <3>2 DEF QueueInv, PipelineInv
      <4>2. IsFiniteSet(Gets(todo')) /\ Cardinality(Gets(todo')) = Cardinality(Gets(todo)) - 1
        BY <1>1, <1>4, <4>1, TakeEffect
      <4>3. Cardinality(Gets(todo)) \in Nat
        BY <4>1, FS_CardinalityType
      <4>4. QED
        BY <2>1, <4>1, <4>2, <4>3
    <3>3. QED
      BY <1>4, <2>1, <3>1, <3>2 DEF QueueInv, PipelineInv
  <2>5. QED
    BY <2>1, <2>2, <2>3, <2>4 DEF QueueInv
<1>5. CASE ~closed /\ Queue!Suspend(c) /\ UNCHANGED woken
  <2>1. /\ queue = <<>> /\ getters' = Append(getters, c) /\ ~closed
        /\ UNCHANGED <<woken, queue, closed, counts, offered, moved, todo, stage>>
    BY <1>5 DEF Queue!Suspend
  <2>2. /\ getters' \in Seq(Queue!Consumers) /\ IsInjective(getters')
        /\ ToSet(getters') = ToSet(getters) \union {c} /\ Len(queue) = 0
    BY <1>1, <2>1, EndsOfLists, EmptySeq DEF QueueInv, QueueTypes
  <2>3. QueueTypes'
    BY <1>1, <2>1, <2>2 DEF QueueInv, QueueTypes
  <2>4. Queue!Conserved' /\ WokenEnough'
    BY <1>2, <2>1, <2>2 DEF QueueInv, Queue!Conserved, WokenEnough
  <2>5. PipelineInv'
    <3>1. stage # "pipeline"
      BY <2>1 DEF QueueInv, PipelineInv
    <3>2. stage # "setup"
      BY <1>1 DEF QueueInv, PipelineInv
    <3>3. QED
      BY <2>1, <3>1, <3>2 DEF PipelineInv
  <2>6. QED
    BY <2>3, <2>4, <2>5 DEF QueueInv
<1>6. CASE /\ closed /\ queue = <<>> /\ todo' = [todo EXCEPT ![c] = 0]
           /\ UNCHANGED <<queue, getters, woken, closed, counts, offered, moved, stage>>
  <2>1. QueueTypes'
    BY <1>1, <1>3, <1>6 DEF QueueInv, QueueTypes
  <2>2. Queue!Conserved' /\ WokenEnough'
    BY <1>6 DEF QueueInv, Queue!Conserved, WokenEnough
  <2>3. Gets(todo') \subseteq Gets(todo)
    <3>1. \A d \in Queue!Consumers : todo'[d] \in Nat /\ todo[d] \in Nat /\ todo'[d] <= todo[d]
      BY <1>6 DEF QueueInv, QueueTypes
    <3>2. ASSUME NEW d \in Queue!Consumers, NEW i \in Nat, i <= todo'[d] PROVE i <= todo[d]
      BY <3>1, <3>2
    <3>3. QED
      BY <3>2 DEF Gets
  <2>4. PipelineInv'
    <3>1. ASSUME stage = "pipeline"
          PROVE  IsFiniteSet(Gets(todo')) /\ Len(queue') <= Cardinality(Gets(todo'))
      <4>1. IsFiniteSet(Gets(todo')) /\ Cardinality(Gets(todo')) \in Nat
        BY <2>3, <3>1, FS_Subset, FS_CardinalityType DEF QueueInv, PipelineInv
      <4>2. QED
        BY <1>6, <4>1, EmptySeq
    <3>2. QED
      BY <1>6, <3>1 DEF QueueInv, PipelineInv
  <2>5. QED
    BY <2>1, <2>2, <2>4 DEF QueueInv
<1>7. QED
  BY <1>4, <1>5, <1>6 DEF Queue!Get

LEMMA ResumeStep ==
  ASSUME QueueInv, NEW c \in Queue!Consumers, Queue!Resume(c)
  PROVE  QueueInv'
<1>1. c \in woken /\ todo[c] > 0 /\ c \notin ToSet(getters) /\ woken' = woken \ {c}
  BY DEF Queue!Resume, QueueInv, QueueTypes
<1>2. stage \notin {"setup", "pipeline"}
  BY <1>1 DEF QueueInv, PipelineInv
<1>3. /\ Cardinality(woken) \in Nat /\ Cardinality(woken') = Cardinality(woken) - 1
      /\ Cardinality(woken') \in Nat
  <2>1. IsFiniteSet(woken)
    BY QueueLists, FS_Subset DEF QueueInv, QueueTypes
  <2>2. IsFiniteSet(woken')
    BY <1>1, <2>1, FS_RemoveElement
  <2>3. QED
    BY <1>1, <2>1, <2>2, FS_RemoveElement, FS_CardinalityType
<1>4. ToSet(getters) \subseteq Queue!Consumers
  BY EndsOfLists DEF QueueInv, QueueTypes
<1>5. CASE Queue!Take(c) /\ UNCHANGED getters
  <2>1. /\ Queue!Conserved' /\ Len(queue') = Len(queue) - 1 /\ Len(queue) \in Nat \ {0}
        /\ UNCHANGED <<closed, offered, stage>>
    BY <1>1, <1>5, TakeEffect
  <2>2. QueueTypes'
    BY <1>1, <1>4, <1>5, <2>1, TakeEffect DEF QueueInv, QueueTypes
  <2>3. WokenEnough'
    BY <1>3, <1>5, <2>1 DEF QueueInv, WokenEnough
  <2>4. PipelineInv'
    BY <1>2, <2>1 DEF PipelineInv
  <2>5. QED
    BY <2>1, <2>2, <2>3, <2>4 DEF QueueInv
<1>6. CASE Queue!Suspend(c)
  <2>1. /\ queue = <<>> /\ getters' = Append(getters, c)
        /\ UNCHANGED <<queue, closed, counts, offered, moved, todo, stage>>
    BY <1>6 DEF Queue!Suspend
  <2>2. /\ getters' \in Seq(Queue!Consumers) /\ IsInjective(getters')
        /\ ToSet(getters') = ToSet(getters) \union {c} /\ Len(queue) = 0
    BY <1>1, <2>1, EndsOfLists, EmptySeq DEF QueueInv, QueueTypes
  <2>3. QueueTypes'
    BY <1>1, <2>1, <2>2 DEF QueueInv, QueueTypes
  <2>4. Queue!Conserved' /\ WokenEnough'
    BY <1>3, <2>1, <2>2 DEF QueueInv, Queue!Conserved, WokenEnough
  <2>5. PipelineInv'
    BY <1>2, <2>1 DEF PipelineInv
  <2>6. QED
    BY <2>3, <2>4, <2>5 DEF QueueInv
<1>7. QED
  BY <1>5, <1>6 DEF Queue!Resume

\* A cancelled consumer that was woken hands its wake-up to the next sleeper.
LEMMA TimeoutStep ==
  ASSUME QueueInv, NEW c \in Queue!Consumers, Queue!Timeout(c)
  PROVE  QueueInv'
<1>1. /\ todo' = [todo EXCEPT ![c] = 0]
      /\ UNCHANGED <<queue, closed, counts, offered, moved, stage>>
  BY DEF Queue!Timeout
<1>2. /\ getters \in Seq(Queue!Consumers) /\ IsInjective(getters) /\ Len(getters) \in Nat
      /\ ToSet(getters) \subseteq Queue!Consumers /\ IsFiniteSet(woken)
      /\ queue \in Seq(Nat) /\ Len(queue) \in Nat
      /\ woken \subseteq Queue!Consumers /\ woken \intersect ToSet(getters) = {}
  BY EndsOfLists, LenProperties, QueueLists, FS_Subset DEF QueueInv, QueueTypes
<1>3. Queue!Conserved'
  BY <1>1 DEF QueueInv, Queue!Conserved
<1>4. CASE c \in ToSet(getters) /\ getters' = Without(getters, {c}) /\ UNCHANGED woken
  <2>1. /\ getters' \in Seq(Queue!Consumers) /\ IsInjective(getters')
        /\ ToSet(getters') = ToSet(getters) \ {c}
    BY <1>2, <1>4, RemovalKeeps
  <2>2. QueueTypes'
    BY <1>1, <1>2, <1>4, <2>1 DEF QueueInv, QueueTypes
  <2>3. getters # <<>> /\ stage \notin {"setup", "pipeline"}
    BY <1>4 DEF ToSet, QueueInv, PipelineInv
  <2>4. WokenEnough' /\ PipelineInv'
    BY <1>1, <1>4, <2>3 DEF QueueInv, WokenEnough, PipelineInv
  <2>5. QED
    BY <1>3, <2>2, <2>4 DEF QueueInv
<1>5. ASSUME c \in woken, NEW k \in {0, Queue!Least(1, Len(getters))}, queue # <<>> => k # 0 \/ getters = <<>>,
             getters' = SubSeq(getters, k + 1, Len(getters)),
             woken' = (woken \ {c}) \union {getters[i] : i \in 1 .. k}
      PROVE  QueueInv'
  <2>1. k \in 0 .. Len(getters) /\ k \in {0, 1}
    <3>1. Queue!Least(1, Len(getters)) \in Nat /\ Queue!Least(1, Len(getters)) <= Len(getters)
          /\ Queue!Least(1, Len(getters)) <= 1
      BY <1>2, QueueLists
    <3>2. QED
      BY <1>2, <3>1
  <2> DEFINE first == {getters[i] : i \in 1 .. k}
  <2>2. /\ getters' \in Seq(Queue!Consumers) /\ IsInjective(getters')
        /\ ToSet(getters') \intersect first = {}
        /\ ToSet(getters') \subseteq ToSet(getters) /\ first \subseteq ToSet(getters)
        /\ IsFiniteSet(first) /\ Cardinality(first) = k
    BY <1>2, <1>5, <2>1, SplitList
  <2>3. woken' = (woken \ {c}) \union first
    BY <1>5
  <2> HIDE DEF first
  <2>4. QueueTypes'
    <3>1. /\ woken' \intersect ToSet(getters') = {} /\ c \notin woken' \union ToSet(getters')
          /\ woken' \union ToSet(getters') \subseteq woken \union ToSet(getters)
      BY <1>2, <1>5, <2>2, <2>3
    <3>2. QED
      BY <1>1, <1>2, <2>2, <3>1 DEF QueueInv, QueueTypes
  <2>5. WokenEnough'
    <3> SUFFICES ASSUME getters' # <<>> PROVE Cardinality(woken') >= Len(queue)
      BY <1>1 DEF WokenEnough
    <3>1. getters # <<>>
      <4>1. ToSet(getters') # {}
        BY <2>2, LenProperties, EmptySeq DEF ToSet
      <4>2. QED
        BY <2>2, <4>1 DEF ToSet
    <3>2. (woken \ {c}) \intersect first = {}
      BY <1>2, <2>2
    <3>3. /\ IsFiniteSet(woken \ {c}) /\ Cardinality(woken \ {c}) = Cardinality(woken) - 1
          /\ Cardinality(woken) \in Nat /\ Cardinality(woken \ {c}) \in Nat
      BY <1>2, <1>5, FS_RemoveElement, FS_CardinalityType
    <3>4. Cardinality(woken') = Cardinality(woken \ {c}) + Cardinality(first) - Cardinality({})
      BY <2>2, <2>3, <3>2, <3>3, FS_Union
    <3>5. Cardinality(woken') = Cardinality(woken) - 1 + k
      <4>1. Cardinality({}) = 0 /\ Cardinality(first) = k
        BY <2>2, FS_EmptySet
      <4>2. QED
        BY <2>1, <3>3, <3>4, <4>1
    <3>6. Cardinality(woken) >= Len(queue)
      BY <3>1 DEF QueueInv, WokenEnough
    <3>7. CASE queue = <<>>
      BY <2>1, <3>3, <3>4, <3>5, <3>7, EmptySeq
    <3>8. CASE queue # <<>>
      <4>1. k = 1
        BY <1>5, <2>1, <3>1, <3>8
      <4>2. QED
        BY <1>2, <3>3, <3>5, <3>6, <4>1
    <3>9. QED
      BY <3>7, <3>8
  <2>6. PipelineInv'
    BY <1>1, <1>5 DEF QueueInv, PipelineInv
  <2>7. QED
    BY <1>3, <2>4, <2>5, <2>6 DEF QueueInv
<1>6. CASE /\ c \in woken
           /\ LET next == IF queue = <<>> THEN 0 ELSE Queue!Least(1, Len(getters)) IN
              /\ getters' = SubSeq(getters, next + 1, Len(getters))
              /\ woken' = (woken \ {c}) \union {getters[i] : i \in 1 .. next}
  <2> DEFINE next == IF queue = <<>> THEN 0 ELSE Queue!Least(1, Len(getters))
  <2>1. next \in {0, Queue!Least(1, Len(getters))}
    OBVIOUS
  <2>2. queue # <<>> => next # 0 \/ getters = <<>>
    BY <1>2, EmptySeq DEF Queue!Least
  <2>3. /\ getters' = SubSeq(getters, next + 1, Len(getters))
        /\ woken' = (woken \ {c}) \union {getters[i] : i \in 1 .. next}
    BY <1>6
  <2> HIDE DEF next
  <2>4. QED
    BY <1>5, <1>6, <2>1, <2>2, <2>3
<1>7. QED
  <2>1. Queue!Contains(getters, c) <=> c \in ToSet(getters)
    BY <1>2, QueueLists
  <2>2. Queue!Without(getters, {c}) = Without(getters, {c})
    BY QueueLists
  <2>3. QED
    BY <1>4, <1>6, <2>1, <2>2 DEF Queue!Timeout

LEMMA QueueStep == QueueInv /\ [Queue!Next]_queueVars => QueueInv'
<1> SUFFICES ASSUME QueueInv, [Queue!Next]_queueVars PROVE QueueInv'
  OBVIOUS
<1>1. ASSUME NEW n \in 1 .. MaxOffers, Queue!Open(n) \/ Queue!RunPipeline(n) \/ Queue!Put(n)
      PROVE  QueueInv'
  BY <1>1, OpenStep, RunPipelineStep, PutStep
<1>2. ASSUME Queue!Close PROVE QueueInv'
  <2>1. /\ stage = "open" /\ UNCHANGED <<queue, getters, woken, counts, offered, moved, todo, stage>>
    BY <1>2 DEF Queue!Close
  <2>2. QueueTypes' /\ WokenEnough' /\ PipelineInv'
    BY <2>1 DEF QueueInv, QueueTypes, WokenEnough, PipelineInv
  <2>3. Queue!Conserved'
    BY <2>1 DEF QueueInv, Queue!Conserved
  <2>4. QED
    BY <2>2, <2>3 DEF QueueInv
<1>3. ASSUME NEW c \in Queue!Consumers, Queue!Get(c) \/ Queue!Resume(c) \/ Queue!Timeout(c)
      PROVE  QueueInv'
  BY <1>3, GetStep, ResumeStep, TimeoutStep
<1>4. CASE UNCHANGED queueVars
  <2>1. UNCHANGED <<queue, getters, woken, closed, counts, offered, moved, todo, stage>>
    BY <1>4 DEF queueVars
  <2>2. QueueTypes' /\ WokenEnough' /\ PipelineInv'
    BY <2>1 DEF QueueInv, QueueTypes, WokenEnough, PipelineInv, Gets
  <2>3. Queue!Conserved'
    BY <2>1 DEF QueueInv, Queue!Conserved
  <2>4. QED
    BY <2>2, <2>3 DEF QueueInv
<1>5. QED
  BY <1>1, <1>2, <1>3, <1>4, DrainStep DEF Queue!Next

-----------------------------------------------------------------------------
(* The channels *)

SendCalls == [op : {"send"}, chs : Seq(Channels) \ {<<>>}]
RecvCalls == [op : {"recv"}, ch : Channels]
SelectCalls == {call \in [op : {"select"}, at : {"case", "second"}, i : Nat,
                          cases : Seq([chan : Channels, send : BOOLEAN])] :
                  call.i \in 1 .. Len(call.cases)}
Calls == {Chan!Idle} \union SendCalls \union RecvCalls \union SelectCalls

ChanTypes == /\ buffered \in [Channels -> Nat] /\ isClosed \in [Channels -> BOOLEAN]
             /\ notFull \in [Channels -> Seq(Threads)] /\ notEmpty \in [Channels -> Seq(Threads)]
             /\ pc \in [Threads -> Calls]

\* The threads that want to send to ch, or to receive from it, and are awake.
Sending(ch) == {t \in Threads : /\ pc[t].op = "send" /\ Head(pc[t].chs) = ch
                                /\ t \notin ToSet(notFull[ch])}
Receiving(ch) == {t \in Threads : /\ pc[t].op = "recv" /\ pc[t].ch = ch
                                  /\ t \notin ToSet(notEmpty[ch])}

\* Who sleeps on a condition of ch is in a call to ch, once.
SleepersOf(ch) ==
    /\ IsInjective(notFull[ch]) /\ IsInjective(notEmpty[ch])
    /\ \A t \in ToSet(notFull[ch]) : pc[t].op = "send" /\ Head(pc[t].chs) = ch
    /\ \A t \in ToSet(notEmpty[ch]) : pc[t].op = "recv" /\ pc[t].ch = ch
    /\ isClosed[ch] => notFull[ch] = <<>> /\ notEmpty[ch] = <<>>

\* While somebody sleeps there is an awake thread for every free place, and for
\* every value.
SendersEnough(ch) == notFull[ch] # <<>> =>
    Capacity[ch] # 0 /\ buffered[ch] + Cardinality(Sending(ch)) >= Capacity[ch]
ReceiversEnough(ch) == notEmpty[ch] # <<>> => Cardinality(Receiving(ch)) >= buffered[ch]

ChanInv == ChanTypes /\ \A ch \in Channels : /\ SleepersOf(ch) /\ SendersEnough(ch)
                                             /\ ReceiversEnough(ch)

Awake(t) == \A ch \in Channels : t \notin ToSet(notFull[ch]) /\ t \notin ToSet(notEmpty[ch])

LEMMA ChanNumbers ==
  /\ Capacity \in [Channels -> Nat] /\ IsFiniteSet(Threads) /\ IsFiniteSet(Channels)
  /\ \A s, gone : Chan!Without(s, gone) = Without(s, gone)
<1>1. ASSUME NEW s, NEW gone PROVE Chan!Without(s, gone) = Without(s, gone)
  BY DEF Without, Chan!Without
<1>2. QED
  BY <1>1, SyncAssumption

LEMMA AsleepIs ==
  ASSUME ChanTypes, NEW t
  PROVE  ~Chan!Asleep(t) <=> Awake(t)
<1>1. ASSUME NEW ch \in Channels
      PROVE  Chan!Contains(notFull[ch] \o notEmpty[ch], t)
               <=> t \in ToSet(notFull[ch]) \/ t \in ToSet(notEmpty[ch])
  <2>1. PICK a \in Seq(Threads), b \in Seq(Threads) : a = notFull[ch] /\ b = notEmpty[ch]
    BY DEF ChanTypes
  <2>2. /\ a \o b \in Seq(Threads) /\ Len(a \o b) = Len(a) + Len(b)
        /\ \A i \in 1 .. Len(a) + Len(b) : (a \o b)[i] =
             IF i <= Len(a) THEN a[i] ELSE b[i - Len(a)]
    BY ConcatProperties
  <2>3. /\ Len(a) \in Nat /\ Len(b) \in Nat
        /\ ToSet(a) = {a[i] : i \in 1 .. Len(a)} /\ ToSet(b) = {b[i] : i \in 1 .. Len(b)}
    BY LenProperties DEF ToSet
  <2>4. ASSUME NEW i \in 1 .. Len(a) + Len(b), (a \o b)[i] = t PROVE t \in ToSet(a) \/ t \in ToSet(b)
    <3>1. CASE i <= Len(a)
      BY <2>2, <2>3, <2>4, <3>1
    <3>2. CASE ~(i <= Len(a))
      <4>1. i - Len(a) \in 1 .. Len(b)
        BY <2>3, <3>2
      <4>2. QED
        BY <2>2, <2>3, <2>4, <3>2, <4>1
    <3>3. QED
      BY <3>1, <3>2
  <2>5. ASSUME NEW i \in 1 .. Len(a), a[i] = t PROVE \E j \in 1 .. Len(a) + Len(b) : (a \o b)[j] = t
    <3>1. i \in 1 .. Len(a) + Len(b) /\ i <= Len(a)
      BY <2>3
    <3>2. QED
      BY <2>2, <2>5, <3>1
  <2>6. ASSUME NEW i \in 1 .. Len(b), b[i] = t PROVE \E j \in 1 .. Len(a) + Len(b) : (a \o b)[j] = t
    <3>1. /\ i + Len(a) \in 1 .. Len(a) + Len(b) /\ ~(i + Len(a) <= Len(a))
          /\ (i + Len(a)) - Len(a) = i
      BY <2>3
    <3>2. QED
      BY <2>2, <2>6, <3>1
  <2>7. Chan!Contains(a \o b, t) <=> \E i \in 1 .. Len(a) + Len(b) : (a \o b)[i] = t
    BY <2>2 DEF Chan!Contains
  <2>8. Chan!Contains(a \o b, t) <=> t \in ToSet(a) \/ t \in ToSet(b)
    BY <2>3, <2>4, <2>5, <2>6, <2>7
  <2>9. QED
    BY <2>1, <2>8
<1>2. QED
  BY <1>1 DEF Chan!Asleep, Awake

\* A thread in no blocking call is awake.
LEMMA OthersAreAwake ==
  ASSUME ChanInv, NEW t \in Threads, pc[t].op \notin {"send", "recv"}
  PROVE  Awake(t) /\ \A ch \in Channels : t \notin Sending(ch) /\ t \notin Receiving(ch)
BY DEF ChanInv, SleepersOf, Awake, Sending, Receiving

LEMMA Finite ==
  ASSUME NEW ch
  PROVE  /\ IsFiniteSet(Sending(ch)) /\ Cardinality(Sending(ch)) \in Nat
         /\ IsFiniteSet(Receiving(ch)) /\ Cardinality(Receiving(ch)) \in Nat
<1>1. Sending(ch) \subseteq Threads /\ Receiving(ch) \subseteq Threads
  BY DEF Sending, Receiving
<1>2. QED
  BY <1>1, ChanNumbers, FS_Subset, FS_CardinalityType

LEMMA FiniteNext ==
  ASSUME NEW ch
  PROVE  /\ IsFiniteSet(Sending(ch)') /\ Cardinality(Sending(ch)') \in Nat
         /\ IsFiniteSet(Receiving(ch)') /\ Cardinality(Receiving(ch)') \in Nat
<1>1. Sending(ch)' \subseteq Threads /\ Receiving(ch)' \subseteq Threads
  BY DEF Sending, Receiving
<1>2. QED
  BY <1>1, ChanNumbers, FS_Subset, FS_CardinalityType

\* A set that loses at most t, or gains h.
LEMMA OneLess ==
  ASSUME NEW A, NEW B, IsFiniteSet(A), IsFiniteSet(B), NEW t, A \ {t} \subseteq B
  PROVE  Cardinality(B) >= Cardinality(A) - (IF t \in A THEN 1 ELSE 0)
<1>1. IsFiniteSet(A \ {t}) /\ Cardinality(A) \in Nat /\ Cardinality(B) \in Nat
      /\ Cardinality(A \ {t}) = IF t \in A THEN Cardinality(A) - 1 ELSE Cardinality(A)
  BY FS_RemoveElement, FS_CardinalityType
<1>2. Cardinality(A \ {t}) <= Cardinality(B)
  BY FS_Subset
<1>3. QED
  BY <1>1, <1>2

LEMMA OneMore ==
  ASSUME NEW A, NEW B, IsFiniteSet(A), IsFiniteSet(B), NEW h, h \notin A, A \union {h} \subseteq B
  PROVE  Cardinality(B) >= Cardinality(A) + 1
<1>1. Cardinality(A \union {h}) = Cardinality(A) + 1 /\ IsFiniteSet(A \union {h})
      /\ Cardinality(A) \in Nat /\ Cardinality(B) \in Nat
  BY FS_AddElement, FS_CardinalityType
<1>2. Cardinality(A \union {h}) <= Cardinality(B)
  BY FS_Subset
<1>3. QED
  BY <1>1, <1>2

\* A sender leaves, and has filled a place; or nothing changes for the others.
LEMMA SendersKept ==
  ASSUME ChanInv, ChanTypes', NEW ch \in Channels, NEW t,
         Sending(ch) \ {t} \subseteq Sending(ch)',
         notFull'[ch] # <<>> => notFull[ch] # <<>>,
         buffered'[ch] >= buffered[ch] + (IF t \in Sending(ch) THEN 1 ELSE 0)
  PROVE  SendersEnough(ch)'
<1> PICK A, B : A = Sending(ch) /\ B = Sending(ch)'
  OBVIOUS
<1>1. /\ IsFiniteSet(A) /\ IsFiniteSet(B) /\ Cardinality(A) \in Nat /\ Cardinality(B) \in Nat
      /\ A \ {t} \subseteq B
  BY Finite, FiniteNext
<1>2. Cardinality(B) >= Cardinality(A) - (IF t \in A THEN 1 ELSE 0)
  BY <1>1, OneLess
<1>3. buffered[ch] \in Nat /\ buffered'[ch] \in Nat /\ Capacity[ch] \in Nat
  BY ChanNumbers DEF ChanInv, ChanTypes
<1>4. SendersEnough(ch)
  BY DEF ChanInv
<1>5. ASSUME notFull'[ch] # <<>>
      PROVE  Capacity[ch] # 0 /\ buffered'[ch] + Cardinality(B) >= Capacity[ch]
  <2>1. Capacity[ch] # 0 /\ buffered[ch] + Cardinality(A) >= Capacity[ch]
    BY <1>4, <1>5 DEF SendersEnough
  <2>2. CASE t \in A
    BY <1>1, <1>2, <1>3, <2>1, <2>2
  <2>3. CASE t \notin A
    BY <1>1, <1>2, <1>3, <2>1, <2>3
  <2>4. QED
    BY <2>2, <2>3
<1>6. QED
  BY <1>5 DEF SendersEnough

\* A sender is woken for the place that became free.
LEMMA SendersWoken ==
  ASSUME ChanInv, ChanTypes', NEW ch \in Channels, NEW h, h \notin Sending(ch),
         Sending(ch) \union {h} \subseteq Sending(ch)', notFull[ch] # <<>>,
         buffered'[ch] >= buffered[ch] - 1
  PROVE  SendersEnough(ch)'
<1> PICK A, B : A = Sending(ch) /\ B = Sending(ch)'
  OBVIOUS
<1>1. /\ IsFiniteSet(A) /\ IsFiniteSet(B) /\ Cardinality(A) \in Nat /\ Cardinality(B) \in Nat
      /\ A \union {h} \subseteq B /\ h \notin A
  BY Finite, FiniteNext
<1>2. Cardinality(B) >= Cardinality(A) + 1
  BY <1>1, OneMore
<1>3. buffered[ch] \in Nat /\ buffered'[ch] \in Nat /\ Capacity[ch] \in Nat
  BY ChanNumbers DEF ChanInv, ChanTypes
<1>4. Capacity[ch] # 0 /\ buffered[ch] + Cardinality(A) >= Capacity[ch]
  BY DEF ChanInv, SendersEnough
<1>5. buffered'[ch] + Cardinality(B) >= Capacity[ch]
  BY <1>1, <1>2, <1>3, <1>4
<1>6. QED
  BY <1>4, <1>5 DEF SendersEnough

LEMMA ReceiversKept ==
  ASSUME ChanInv, ChanTypes', NEW ch \in Channels, NEW t,
         Receiving(ch) \ {t} \subseteq Receiving(ch)',
         notEmpty'[ch] # <<>> => notEmpty[ch] # <<>>,
         buffered'[ch] <= buffered[ch] - (IF t \in Receiving(ch) THEN 1 ELSE 0)
  PROVE  ReceiversEnough(ch)'
<1> PICK A, B : A = Receiving(ch) /\ B = Receiving(ch)'
  OBVIOUS
<1>1. /\ IsFiniteSet(A) /\ IsFiniteSet(B) /\ Cardinality(A) \in Nat /\ Cardinality(B) \in Nat
      /\ A \ {t} \subseteq B
  BY Finite, FiniteNext
<1>2. Cardinality(B) >= Cardinality(A) - (IF t \in A THEN 1 ELSE 0)
  BY <1>1, OneLess
<1>3. buffered[ch] \in Nat /\ buffered'[ch] \in Nat
  BY DEF ChanInv, ChanTypes
<1>4. ReceiversEnough(ch)
  BY DEF ChanInv
<1>5. ASSUME notEmpty'[ch] # <<>> PROVE Cardinality(B) >= buffered'[ch]
  <2>1. Cardinality(A) >= buffered[ch]
    BY <1>4, <1>5 DEF ReceiversEnough
  <2>2. CASE t \in A
    BY <1>1, <1>2, <1>3, <2>1, <2>2
  <2>3. CASE t \notin A
    BY <1>1, <1>2, <1>3, <2>1, <2>3
  <2>4. QED
    BY <2>2, <2>3
<1>6. QED
  BY <1>5 DEF ReceiversEnough

LEMMA ReceiversWoken ==
  ASSUME ChanInv, ChanTypes', NEW ch \in Channels, NEW h, h \notin Receiving(ch),
         Receiving(ch) \union {h} \subseteq Receiving(ch)', notEmpty[ch] # <<>>,
         buffered'[ch] <= buffered[ch] + 1
  PROVE  ReceiversEnough(ch)'
<1> PICK A, B : A = Receiving(ch) /\ B = Receiving(ch)'
  OBVIOUS
<1>1. /\ IsFiniteSet(A) /\ IsFiniteSet(B) /\ Cardinality(A) \in Nat /\ Cardinality(B) \in Nat
      /\ A \union {h} \subseteq B /\ h \notin A
  BY Finite, FiniteNext
<1>2. Cardinality(B) >= Cardinality(A) + 1
  BY <1>1, OneMore
<1>3. buffered[ch] \in Nat /\ buffered'[ch] \in Nat
  BY DEF ChanInv, ChanTypes
<1>4. Cardinality(A) >= buffered[ch]
  BY DEF ChanInv, ReceiversEnough
<1>5. Cardinality(B) >= buffered'[ch]
  BY <1>1, <1>2, <1>3, <1>4
<1>6. QED
  BY <1>5 DEF ReceiversEnough

LEMMA ChanSafe == ChanInv => Chan!NoLostWakeup
<1> SUFFICES ASSUME ChanInv, NEW ch \in Channels
             PROVE  /\ (notFull[ch] # <<>> /\ Chan!HasRoom(ch)) =>
                         \E t \in Threads : /\ pc[t].op = "send" /\ Head(pc[t].chs) = ch
                                            /\ ~Chan!Asleep(t)
                    /\ (notEmpty[ch] # <<>> /\ buffered[ch] > 0) =>
                         \E t \in Threads : pc[t].op = "recv" /\ pc[t].ch = ch /\ ~Chan!Asleep(t)
                    /\ isClosed[ch] => notFull[ch] = <<>> /\ notEmpty[ch] = <<>>
  BY DEF Chan!NoLostWakeup
<1>1. /\ buffered[ch] \in Nat /\ Capacity[ch] \in Nat /\ SleepersOf(ch)
      /\ SendersEnough(ch) /\ ReceiversEnough(ch) /\ ChanTypes
      /\ Cardinality(Sending(ch)) \in Nat /\ Cardinality(Receiving(ch)) \in Nat
  BY Finite, ChanNumbers DEF ChanInv, ChanTypes
<1>2. ASSUME notFull[ch] # <<>>, Chan!HasRoom(ch)
      PROVE  \E t \in Threads : /\ pc[t].op = "send" /\ Head(pc[t].chs) = ch
                                /\ ~Chan!Asleep(t)
  <2>1. Cardinality(Sending(ch)) > 0
    BY <1>1, <1>2 DEF SendersEnough, Chan!HasRoom
  <2>2. PICK t : t \in Sending(ch)
    BY <2>1, FS_EmptySet
  <2>3. t \in Threads /\ pc[t].op = "send" /\ Head(pc[t].chs) = ch /\ t \notin ToSet(notFull[ch])
    BY <2>2 DEF Sending
  <2>4. Awake(t)
    BY <2>3 DEF Awake, ChanInv, SleepersOf
  <2>5. QED
    BY <1>1, <2>3, <2>4, AsleepIs
<1>3. ASSUME notEmpty[ch] # <<>>, buffered[ch] > 0
      PROVE  \E t \in Threads : pc[t].op = "recv" /\ pc[t].ch = ch /\ ~Chan!Asleep(t)
  <2>1. Cardinality(Receiving(ch)) > 0
    BY <1>1, <1>3 DEF ReceiversEnough
  <2>2. PICK t : t \in Receiving(ch)
    BY <2>1, FS_EmptySet
  <2>3. t \in Threads /\ pc[t].op = "recv" /\ pc[t].ch = ch /\ t \notin ToSet(notEmpty[ch])
    BY <2>2 DEF Receiving
  <2>4. Awake(t)
    BY <2>3 DEF Awake, ChanInv, SleepersOf
  <2>5. QED
    BY <1>1, <2>3, <2>4, AsleepIs
<1>4. QED
  BY <1>1, <1>2, <1>3 DEF SleepersOf

LEMMA ChanInit == Chan!Init => ChanInv
<1> SUFFICES ASSUME Chan!Init PROVE ChanInv
  OBVIOUS
<1>1. /\ buffered = [ch \in Channels |-> 0] /\ isClosed = [ch \in Channels |-> FALSE]
      /\ notFull = [ch \in Channels |-> <<>>] /\ notEmpty = [ch \in Channels |-> <<>>]
      /\ pc = [t \in Threads |-> Chan!Idle]
  BY DEF Chan!Init
<1>2. <<>> \in Seq(Threads) /\ ToSet(<<>>) = {} /\ IsInjective(<<>>)
  BY EmptySeq DEF ToSet, IsInjective
<1>3. ChanTypes
  BY <1>1, <1>2 DEF ChanTypes, Calls
<1>4. \A ch \in Channels : SleepersOf(ch) /\ SendersEnough(ch) /\ ReceiversEnough(ch)
  BY <1>1, <1>2 DEF SleepersOf, SendersEnough, ReceiversEnough
<1>5. QED
  BY <1>3, <1>4 DEF ChanInv

\* The first sleeper of a condition is notified: it is awake now.
LEMMA Notified ==
  ASSUME NEW s \in Seq(Threads), IsInjective(s)
  PROVE  /\ Chan!NotifyOne(s) \in Seq(Threads) /\ IsInjective(Chan!NotifyOne(s))
         /\ ToSet(Chan!NotifyOne(s)) \subseteq ToSet(s)
         /\ s = <<>> => Chan!NotifyOne(s) = <<>>
         /\ s # <<>> => Head(s) \in ToSet(s) \ ToSet(Chan!NotifyOne(s))
<1>1. CASE s = <<>>
  <2>1. Chan!NotifyOne(s) = <<>>
    BY <1>1, EmptySeq, SubSeqEmpty DEF Chan!NotifyOne
  <2>2. QED
    BY <1>1, <2>1
<1>2. CASE s # <<>>
  <2>1. Chan!NotifyOne(s) = Tail(s)
    BY <1>2, TailIsSubSeq DEF Chan!NotifyOne
  <2>2. QED
    BY <1>2, <2>1, EndsOfLists
<1>3. QED
  BY <1>1, <1>2

\* A thread that is awake goes on to its next call, and nothing else changes for
\* the sleepers: what the channels know of them stays right.
LEMMA LeaveKeepsSleepers ==
  ASSUME ChanInv, NEW t \in Threads, NEW next \in Calls, Awake(t), Chan!Leave(t, next)
  PROVE  /\ pc' \in [Threads -> Calls]
         /\ pc'[t] = next /\ \A u \in Threads : u # t => pc'[u] = pc[u]
         /\ \A ch \in Channels :
              /\ \A u \in ToSet(notFull[ch]) : pc'[u].op = "send" /\ Head(pc'[u].chs) = ch
              /\ \A u \in ToSet(notEmpty[ch]) : pc'[u].op = "recv" /\ pc'[u].ch = ch
<1>1. /\ pc' \in [Threads -> Calls]
      /\ pc'[t] = next /\ \A u \in Threads : u # t => pc'[u] = pc[u]
  BY DEF Chan!Leave, ChanInv, ChanTypes
<1>2. ASSUME NEW ch \in Channels, NEW u \in ToSet(notFull[ch])
      PROVE  pc'[u].op = "send" /\ Head(pc'[u].chs) = ch
  <2>1. u # t /\ u \in Threads
    BY EndsOfLists DEF Awake, ChanInv, ChanTypes
  <2>2. QED
    BY <1>1, <2>1 DEF ChanInv, SleepersOf
<1>3. ASSUME NEW ch \in Channels, NEW u \in ToSet(notEmpty[ch])
      PROVE  pc'[u].op = "recv" /\ pc'[u].ch = ch
  <2>1. u # t /\ u \in Threads
    BY EndsOfLists DEF Awake, ChanInv, ChanTypes
  <2>2. QED
    BY <1>1, <2>1 DEF ChanInv, SleepersOf
<1>4. QED
  BY <1>1, <1>2, <1>3

\* A thread leaves its call, or goes on in it, with nothing sent or received.
LEMMA ReturnStep ==
  ASSUME ChanInv, NEW t \in Threads, NEW next \in Calls, Awake(t), Chan!Leave(t, next),
         UNCHANGED <<buffered, isClosed, notFull, notEmpty>>,
         \A ch \in Channels : t \in Sending(ch) => isClosed[ch] \/ ~Chan!HasRoom(ch),
         \A ch \in Channels : t \in Receiving(ch) => buffered[ch] = 0
  PROVE  ChanInv'
<1>1. /\ pc' \in [Threads -> Calls]
      /\ pc'[t] = next /\ \A u \in Threads : u # t => pc'[u] = pc[u]
      /\ \A ch \in Channels :
              /\ \A u \in ToSet(notFull[ch]) : pc'[u].op = "send" /\ Head(pc'[u].chs) = ch
              /\ \A u \in ToSet(notEmpty[ch]) : pc'[u].op = "recv" /\ pc'[u].ch = ch
  BY LeaveKeepsSleepers
<1>2. ChanTypes'
  BY <1>1 DEF ChanInv, ChanTypes
<1>3. ASSUME NEW ch \in Channels PROVE (SleepersOf(ch) /\ SendersEnough(ch) /\ ReceiversEnough(ch))'
  <2>1. SleepersOf(ch)'
    BY <1>1 DEF ChanInv, SleepersOf
  <2>2. Sending(ch) \ {t} \subseteq Sending(ch)' /\ Receiving(ch) \ {t} \subseteq Receiving(ch)'
    BY <1>1 DEF Sending, Receiving
  <2>3. /\ buffered[ch] \in Nat /\ Capacity[ch] \in Nat /\ Cardinality(Sending(ch)') \in Nat
        /\ Cardinality(Receiving(ch)') \in Nat
    BY FiniteNext, ChanNumbers DEF ChanInv, ChanTypes
  <2>4. SendersEnough(ch)'
    <3>1. CASE t \notin Sending(ch)
      <4>1. buffered'[ch] >= buffered[ch] + 0
        BY <2>3
      <4>2. QED
        BY <1>2, <2>2, <3>1, <4>1, SendersKept
    <3>2. CASE t \in Sending(ch) /\ isClosed[ch]
      BY <3>2 DEF ChanInv, SleepersOf, SendersEnough
    <3>3. CASE t \in Sending(ch) /\ ~Chan!HasRoom(ch)
      <4>1. Capacity[ch] # 0 /\ buffered[ch] >= Capacity[ch]
        BY <2>3, <3>3 DEF Chan!HasRoom
      <4>2. buffered[ch] + Cardinality(Sending(ch)') >= Capacity[ch]
        BY <2>3, <4>1
      <4>3. QED
        BY <4>1, <4>2 DEF SendersEnough
    <3>4. QED
      BY <3>1, <3>2, <3>3
  <2>5. ReceiversEnough(ch)'
    <3>1. CASE t \notin Receiving(ch)
      <4>1. buffered'[ch] <= buffered[ch] - 0
        BY <2>3
      <4>2. QED
        BY <1>2, <2>2, <3>1, <4>1, ReceiversKept
    <3>2. CASE t \in Receiving(ch)
      BY <2>3, <3>2 DEF ReceiversEnough
    <3>3. QED
      BY <3>1, <3>2
  <2>6. QED
    BY <2>1, <2>4, <2>5
<1>4. QED
  BY <1>2, <1>3 DEF ChanInv

\* A value is sent: a place is filled and a receiver is notified.
LEMMA PushStep ==
  ASSUME ChanInv, NEW t \in Threads, NEW ch \in Channels, NEW next \in Calls, Awake(t),
         Chan!Push(t, ch, next),
         \A c \in Channels : t \notin Receiving(c) /\ (t \in Sending(c) => c = ch)
  PROVE  ChanInv'
<1>1. /\ buffered' = [buffered EXCEPT ![ch] = @ + 1]
      /\ notEmpty' = [notEmpty EXCEPT ![ch] = Chan!NotifyOne(@)]
      /\ Chan!Leave(t, next) /\ UNCHANGED <<isClosed, notFull>>
  BY DEF Chan!Push
<1>2. /\ pc' \in [Threads -> Calls]
      /\ pc'[t] = next /\ \A u \in Threads : u # t => pc'[u] = pc[u]
      /\ \A c \in Channels :
              /\ \A u \in ToSet(notFull[c]) : pc'[u].op = "send" /\ Head(pc'[u].chs) = c
              /\ \A u \in ToSet(notEmpty[c]) : pc'[u].op = "recv" /\ pc'[u].ch = c
  BY <1>1, LeaveKeepsSleepers
<1>3. /\ notEmpty[ch] \in Seq(Threads) /\ IsInjective(notEmpty[ch])
      /\ \A c \in Channels : buffered[c] \in Nat
  BY DEF ChanInv, ChanTypes, SleepersOf
<1>4. /\ notEmpty'[ch] \in Seq(Threads) /\ IsInjective(notEmpty'[ch])
      /\ ToSet(notEmpty'[ch]) \subseteq ToSet(notEmpty[ch])
      /\ notEmpty[ch] = <<>> => notEmpty'[ch] = <<>>
      /\ notEmpty[ch] # <<>> => Head(notEmpty[ch]) \in ToSet(notEmpty[ch]) \ ToSet(notEmpty'[ch])
  <2>1. notEmpty'[ch] = Chan!NotifyOne(notEmpty[ch])
    BY <1>1 DEF ChanInv, ChanTypes
  <2>2. QED
    BY <1>3, <2>1, Notified
<1>5. /\ \A c \in Channels : c # ch => notEmpty'[c] = notEmpty[c] /\ buffered'[c] = buffered[c]
      /\ buffered'[ch] = buffered[ch] + 1
  BY <1>1 DEF ChanInv, ChanTypes
<1>6. ChanTypes'
  <2>1. buffered' \in [Channels -> Nat]
    BY <1>1, <1>3 DEF ChanInv, ChanTypes
  <2>2. notEmpty' \in [Channels -> Seq(Threads)]
    BY <1>1, <1>4 DEF ChanInv, ChanTypes
  <2>3. QED
    BY <1>1, <1>2, <2>1, <2>2 DEF ChanInv, ChanTypes
<1>7. ASSUME NEW c \in Channels PROVE (SleepersOf(c) /\ SendersEnough(c) /\ ReceiversEnough(c))'
  <2>1. SleepersOf(c)'
    <3>1. ToSet(notEmpty'[c]) \subseteq ToSet(notEmpty[c]) /\ IsInjective(notEmpty'[c])
      BY <1>4, <1>5 DEF ChanInv, SleepersOf
    <3>2. isClosed'[c] => notFull'[c] = <<>> /\ notEmpty'[c] = <<>>
      BY <1>1, <1>4, <1>5 DEF ChanInv, SleepersOf
    <3>3. QED
      BY <1>1, <1>2, <3>1, <3>2 DEF ChanInv, SleepersOf
  <2>2. Sending(c) \ {t} \subseteq Sending(c)'
    BY <1>1, <1>2 DEF Sending
  <2>3. Receiving(c) \subseteq Receiving(c)'
    <3>1. ToSet(notEmpty'[c]) \subseteq ToSet(notEmpty[c])
      BY <1>4, <1>5
    <3>2. QED
      BY <1>2, <3>1 DEF Receiving
  <2>4. SendersEnough(c)'
    <3>1. buffered'[c] >= buffered[c] + (IF t \in Sending(c) THEN 1 ELSE 0)
      BY <1>3, <1>5
    <3>2. QED
      BY <1>1, <1>6, <2>2, <3>1, SendersKept
  <2>5. ReceiversEnough(c)'
    <3>1. CASE c # ch
      <4>1. Receiving(c) \ {t} \subseteq Receiving(c)' /\ buffered'[c] <= buffered[c] - 0
            /\ t \notin Receiving(c)
        BY <1>3, <1>5, <2>3, <3>1
      <4>2. QED
        BY <1>5, <1>6, <3>1, <4>1, ReceiversKept
    <3>2. CASE c = ch /\ notEmpty[ch] = <<>>
      BY <1>4, <3>2 DEF ReceiversEnough
    <3>3. CASE c = ch /\ notEmpty[ch] # <<>>
      <4>1. PICK h : h = Head(notEmpty[ch])
        OBVIOUS
      <4>2. h \in ToSet(notEmpty[ch]) /\ h \notin ToSet(notEmpty'[ch]) /\ h \in Threads
        BY <1>3, <1>4, <3>3, <4>1, EndsOfLists
      <4>3. h \notin Receiving(ch) /\ h \in Receiving(ch)'
        BY <1>2, <4>2 DEF Receiving
      <4>4. buffered'[ch] <= buffered[ch] + 1
        BY <1>3, <1>5
      <4>5. Receiving(ch) \union {h} \subseteq Receiving(ch)'
        BY <2>3, <3>3, <4>3
      <4>6. QED
        BY <1>6, <3>3, <4>3, <4>4, <4>5, ReceiversWoken
    <3>4. QED
      BY <3>1, <3>2, <3>3
  <2>6. QED
    BY <2>1, <2>4, <2>5
<1>8. QED
  BY <1>6, <1>7 DEF ChanInv

\* A value is received: a place becomes free and a sender is notified.
LEMMA PopStep ==
  ASSUME ChanInv, NEW t \in Threads, NEW ch \in Channels, Awake(t), Chan!Pop(t, ch),
         \A c \in Channels : t \notin Sending(c) /\ (t \in Receiving(c) => c = ch)
  PROVE  ChanInv'
<1>1. /\ buffered[ch] > 0 /\ buffered' = [buffered EXCEPT ![ch] = @ - 1]
      /\ notFull' = [notFull EXCEPT ![ch] = Chan!NotifyOne(@)]
      /\ Chan!Leave(t, Chan!Idle) /\ UNCHANGED <<isClosed, notEmpty>> /\ Chan!Idle \in Calls
  BY DEF Chan!Pop, Calls
<1>2. /\ pc' \in [Threads -> Calls]
      /\ pc'[t] = Chan!Idle /\ \A u \in Threads : u # t => pc'[u] = pc[u]
      /\ \A c \in Channels :
              /\ \A u \in ToSet(notFull[c]) : pc'[u].op = "send" /\ Head(pc'[u].chs) = c
              /\ \A u \in ToSet(notEmpty[c]) : pc'[u].op = "recv" /\ pc'[u].ch = c
  BY <1>1, LeaveKeepsSleepers
<1>3. /\ notFull[ch] \in Seq(Threads) /\ IsInjective(notFull[ch])
      /\ \A c \in Channels : buffered[c] \in Nat
  BY DEF ChanInv, ChanTypes, SleepersOf
<1>4. /\ notFull'[ch] \in Seq(Threads) /\ IsInjective(notFull'[ch])
      /\ ToSet(notFull'[ch]) \subseteq ToSet(notFull[ch])
      /\ notFull[ch] = <<>> => notFull'[ch] = <<>>
      /\ notFull[ch] # <<>> => Head(notFull[ch]) \in ToSet(notFull[ch]) \ ToSet(notFull'[ch])
  <2>1. notFull'[ch] = Chan!NotifyOne(notFull[ch])
    BY <1>1 DEF ChanInv, ChanTypes
  <2>2. QED
    BY <1>3, <2>1, Notified
<1>5. /\ \A c \in Channels : c # ch => notFull'[c] = notFull[c] /\ buffered'[c] = buffered[c]
      /\ buffered'[ch] = buffered[ch] - 1
  BY <1>1 DEF ChanInv, ChanTypes
<1>6. ChanTypes'
  <2>1. buffered' \in [Channels -> Nat]
    <3>1. buffered[ch] - 1 \in Nat
      BY <1>1, <1>3
    <3>2. QED
      BY <1>1, <3>1 DEF ChanInv, ChanTypes
  <2>2. notFull' \in [Channels -> Seq(Threads)]
    BY <1>1, <1>4 DEF ChanInv, ChanTypes
  <2>3. QED
    BY <1>1, <1>2, <2>1, <2>2 DEF ChanInv, ChanTypes
<1>7. ASSUME NEW c \in Channels PROVE (SleepersOf(c) /\ SendersEnough(c) /\ ReceiversEnough(c))'
  <2>1. SleepersOf(c)'
    <3>1. ToSet(notFull'[c]) \subseteq ToSet(notFull[c]) /\ IsInjective(notFull'[c])
      BY <1>4, <1>5 DEF ChanInv, SleepersOf
    <3>2. isClosed'[c] => notFull'[c] = <<>> /\ notEmpty'[c] = <<>>
      BY <1>1, <1>4, <1>5 DEF ChanInv, SleepersOf
    <3>3. QED
      BY <1>1, <1>2, <3>1, <3>2 DEF ChanInv, SleepersOf
  <2>2. Receiving(c) \ {t} \subseteq Receiving(c)'
    BY <1>1, <1>2 DEF Receiving
  <2>3. Sending(c) \subseteq Sending(c)'
    <3>1. ToSet(notFull'[c]) \subseteq ToSet(notFull[c])
      BY <1>4, <1>5
    <3>2. QED
      BY <1>2, <3>1 DEF Sending
  <2>4. ReceiversEnough(c)'
    <3>1. buffered'[c] <= buffered[c] - (IF t \in Receiving(c) THEN 1 ELSE 0)
      BY <1>3, <1>5
    <3>2. QED
      BY <1>1, <1>6, <2>2, <3>1, ReceiversKept
  <2>5. SendersEnough(c)'
    <3>1. CASE c # ch
      <4>1. Sending(c) \ {t} \subseteq Sending(c)' /\ buffered'[c] >= buffered[c] + 0
            /\ t \notin Sending(c)
        BY <1>3, <1>5, <2>3, <3>1
      <4>2. QED
        BY <1>5, <1>6, <3>1, <4>1, SendersKept
    <3>2. CASE c = ch /\ notFull[ch] = <<>>
      BY <1>4, <3>2 DEF SendersEnough
    <3>3. CASE c = ch /\ notFull[ch] # <<>>
      <4>1. PICK h : h = Head(notFull[ch])
        OBVIOUS
      <4>2. h \in ToSet(notFull[ch]) /\ h \notin ToSet(notFull'[ch]) /\ h \in Threads
        BY <1>3, <1>4, <3>3, <4>1, EndsOfLists
      <4>3. h \notin Sending(ch) /\ h \in Sending(ch)'
        BY <1>2, <4>2 DEF Sending
      <4>4. buffered'[ch] >= buffered[ch] - 1
        BY <1>3, <1>5
      <4>5. Sending(ch) \union {h} \subseteq Sending(ch)'
        BY <2>3, <3>3, <4>3
      <4>6. QED
        BY <1>6, <3>3, <4>3, <4>4, <4>5, SendersWoken
    <3>4. QED
      BY <3>1, <3>2, <3>3
  <2>6. QED
    BY <2>1, <2>4, <2>5
<1>8. QED
  BY <1>6, <1>7 DEF ChanInv

LEMMA CallsOf ==
  ASSUME NEW call \in Calls
  PROVE  /\ call.op = "send" => call \in SendCalls
         /\ call.op = "recv" => call \in RecvCalls
         /\ call.op = "select" => call \in SelectCalls
         /\ call.op \in {"idle", "send", "recv", "select"}
BY DEF Calls, SendCalls, RecvCalls, SelectCalls, Chan!Idle

\* The order in which FanOut.send serves the channels.
LEMMA ChannelList == Chan!SetToSeq(Channels) \in Seq(Channels) \ {<<>>}
<1>1. \A S : Chan!SetToSeq(S) = CHOOSE f \in [1 .. Chan!Cardinality(S) -> S] : Chan!IsInjective(f)
  BY DEF Chan!SetToSeq
<1>2. \A S : Chan!Cardinality(S) = Cardinality(S)
  BY DEF Chan!Cardinality, Cardinality, Chan!IsFiniteSet, IsFiniteSet
<1>3. Cardinality(Channels) \in Nat \ {0} /\ ExistsBijection(1 .. Cardinality(Channels), Channels)
  BY SyncAssumption, ChanNumbers, FS_CardinalityType, FS_EmptySet
<1>4. PICK f \in [1 .. Cardinality(Channels) -> Channels] : IsInjective(f)
  BY <1>3 DEF ExistsBijection, Bijection, Injection
<1>5. Chan!IsInjective(f)
  BY <1>4 DEF IsInjective, Chan!IsInjective
<1>6. Chan!SetToSeq(Channels) \in [1 .. Cardinality(Channels) -> Channels]
  BY <1>1, <1>2, <1>4, <1>5
<1>7. \A s \in [1 .. Cardinality(Channels) -> Channels] : s \in Seq(Channels) /\ s # <<>>
  <2> TAKE s \in [1 .. Cardinality(Channels) -> Channels]
  <2>1. s \in Seq(Channels)
    BY <1>3
  <2>2. 1 \in DOMAIN s /\ DOMAIN s = 1 .. Len(s)
    BY <1>3, <2>1, LenProperties
  <2>3. s # <<>>
    BY <2>2, EmptySeq
  <2>4. QED
    BY <2>1, <2>3
<1>8. QED
  BY <1>6, <1>7

LEMMA BeginStep ==
  ASSUME ChanInv, NEW t \in Threads, Chan!Begin(t)
  PROVE  ChanInv'
<1>1. pc[t] = Chan!Idle /\ pc[t].op = "idle" /\ UNCHANGED <<buffered, isClosed, notFull, notEmpty>>
  BY DEF Chan!Begin, Chan!Idle
<1>2. Awake(t) /\ \A ch \in Channels : t \notin Sending(ch) /\ t \notin Receiving(ch)
  BY <1>1, OthersAreAwake
<1>3. PICK next \in Calls : Chan!Leave(t, next)
  <2>1. ASSUME NEW chs \in {<<ch>> : ch \in Channels} \union {Chan!SetToSeq(Channels)},
               Chan!Leave(t, [op |-> "send", chs |-> chs])
        PROVE  \E next \in Calls : Chan!Leave(t, next)
    <3>1. chs \in Seq(Channels) \ {<<>>}
      <4>1. ASSUME NEW ch \in Channels PROVE <<ch>> \in Seq(Channels) /\ <<ch>> # <<>>
        BY <4>1
      <4>2. QED
        BY <2>1, <4>1, ChannelList
    <3>2. [op |-> "send", chs |-> chs] \in Calls
      BY <3>1 DEF Calls, SendCalls
    <3>3. QED
      BY <2>1, <3>2
  <2>2. ASSUME NEW ch \in Channels, Chan!Leave(t, [op |-> "recv", ch |-> ch])
        PROVE  \E next \in Calls : Chan!Leave(t, next)
    <3>1. [op |-> "recv", ch |-> ch] \in Calls
      BY DEF Calls, RecvCalls
    <3>2. QED
      BY <2>2, <3>1
  <2>3. ASSUME NEW cs \in Selects,
               Chan!Leave(t, [op |-> "select", at |-> "case", i |-> 1, cases |-> cs])
        PROVE  \E next \in Calls : Chan!Leave(t, next)
    <3>1. cs \in Seq([chan : Channels, send : BOOLEAN]) /\ cs # <<>>
      BY SyncAssumption
    <3>2. 1 \in 1 .. Len(cs)
      BY <3>1, EmptySeq
    <3>3. [op |-> "select", at |-> "case", i |-> 1, cases |-> cs] \in Calls
      BY <3>1, <3>2 DEF Calls, SelectCalls
    <3>4. QED
      BY <2>3, <3>3
  <2>4. QED
    BY <2>1, <2>2, <2>3 DEF Chan!Begin
<1>4. QED
  BY <1>1, <1>2, <1>3, ReturnStep

\* A thread goes to sleep on a condition that has nothing for it.
LEMMA SendSleeps ==
  ASSUME ChanInv, NEW t \in Threads, NEW ch \in Channels, Awake(t),
         pc[t].op = "send", Head(pc[t].chs) = ch, ~isClosed[ch], ~Chan!HasRoom(ch),
         notFull' = [notFull EXCEPT ![ch] = Append(@, t)],
         UNCHANGED <<buffered, isClosed, notEmpty, pc>>
  PROVE  ChanInv'
<1>1. notFull[ch] \in Seq(Threads) /\ IsInjective(notFull[ch]) /\ t \notin ToSet(notFull[ch])
  BY DEF ChanInv, ChanTypes, SleepersOf, Awake
<1>2. /\ notFull'[ch] \in Seq(Threads) /\ IsInjective(notFull'[ch])
      /\ ToSet(notFull'[ch]) = ToSet(notFull[ch]) \union {t}
  <2>1. notFull'[ch] = Append(notFull[ch], t)
    BY DEF ChanInv, ChanTypes
  <2>2. QED
    BY <1>1, <2>1, EndsOfLists
<1>3. \A c \in Channels : c # ch => notFull'[c] = notFull[c]
  BY DEF ChanInv, ChanTypes
<1>4. ChanTypes'
  BY <1>2 DEF ChanInv, ChanTypes
<1>5. ASSUME NEW c \in Channels PROVE (SleepersOf(c) /\ SendersEnough(c) /\ ReceiversEnough(c))'
  <2>1. SleepersOf(c)'
    BY <1>2, <1>3 DEF ChanInv, SleepersOf
  <2>2. SendersEnough(c)'
    <3>1. /\ buffered[c] \in Nat /\ Capacity[c] \in Nat /\ Cardinality(Sending(c)') \in Nat
      BY FiniteNext, ChanNumbers DEF ChanInv, ChanTypes
    <3>2. CASE c = ch
      <4>1. Capacity[c] # 0 /\ buffered[c] >= Capacity[c]
        BY <3>1, <3>2 DEF Chan!HasRoom
      <4>2. buffered[c] + Cardinality(Sending(c)') >= Capacity[c]
        BY <3>1, <4>1
      <4>3. QED
        BY <4>1, <4>2 DEF SendersEnough
    <3>3. CASE c # ch
      <4>1. Sending(c) = Sending(c)'
        BY <1>3, <3>3 DEF Sending
      <4>2. QED
        BY <1>3, <3>3, <4>1 DEF ChanInv, SendersEnough
    <3>4. QED
      BY <3>2, <3>3
  <2>3. ReceiversEnough(c)'
    BY DEF ChanInv, ReceiversEnough, Receiving
  <2>4. QED
    BY <2>1, <2>2, <2>3
<1>6. QED
  BY <1>4, <1>5 DEF ChanInv

LEMMA RecvSleeps ==
  ASSUME ChanInv, NEW t \in Threads, NEW ch \in Channels, Awake(t),
         pc[t].op = "recv", pc[t].ch = ch, ~isClosed[ch], buffered[ch] = 0,
         notEmpty' = [notEmpty EXCEPT ![ch] = Append(@, t)],
         UNCHANGED <<buffered, isClosed, notFull, pc>>
  PROVE  ChanInv'
<1>1. notEmpty[ch] \in Seq(Threads) /\ IsInjective(notEmpty[ch]) /\ t \notin ToSet(notEmpty[ch])
  BY DEF ChanInv, ChanTypes, SleepersOf, Awake
<1>2. /\ notEmpty'[ch] \in Seq(Threads) /\ IsInjective(notEmpty'[ch])
      /\ ToSet(notEmpty'[ch]) = ToSet(notEmpty[ch]) \union {t}
  <2>1. notEmpty'[ch] = Append(notEmpty[ch], t)
    BY DEF ChanInv, ChanTypes
  <2>2. QED
    BY <1>1, <2>1, EndsOfLists
<1>3. \A c \in Channels : c # ch => notEmpty'[c] = notEmpty[c]
  BY DEF ChanInv, ChanTypes
<1>4. ChanTypes'
  BY <1>2 DEF ChanInv, ChanTypes
<1>5. ASSUME NEW c \in Channels PROVE (SleepersOf(c) /\ SendersEnough(c) /\ ReceiversEnough(c))'
  <2>1. SleepersOf(c)'
    BY <1>2, <1>3 DEF ChanInv, SleepersOf
  <2>2. ReceiversEnough(c)'
    <3>1. CASE c = ch
      <4>1. Cardinality(Receiving(c)') \in Nat
        BY FiniteNext
      <4>2. QED
        BY <3>1, <4>1 DEF ReceiversEnough
    <3>2. CASE c # ch
      <4>1. Receiving(c) = Receiving(c)'
        BY <1>3, <3>2 DEF Receiving
      <4>2. QED
        BY <1>3, <3>2, <4>1 DEF ChanInv, ReceiversEnough
    <3>3. QED
      BY <3>1, <3>2
  <2>3. SendersEnough(c)'
    BY DEF ChanInv, SendersEnough, Sending
  <2>4. QED
    BY <2>1, <2>2, <2>3
<1>6. QED
  BY <1>4, <1>5 DEF ChanInv

LEMMA SendStep ==
  ASSUME ChanInv, NEW t \in Threads, Chan!Send(t)
  PROVE  ChanInv'
<1> DEFINE chs == pc[t].chs
           ch == Head(chs)
           rest == Tail(chs)
<1>1. pc[t].op = "send" /\ pc[t] \in SendCalls /\ Awake(t)
  BY CallsOf, AsleepIs DEF Chan!Send, ChanInv, ChanTypes
<1>2. chs \in Seq(Channels) /\ chs # <<>> /\ ch \in Channels /\ rest \in Seq(Channels)
  BY <1>1, HeadTailProperties DEF SendCalls
<1>3. \A c \in Channels : t \notin Receiving(c) /\ (t \in Sending(c) => c = ch)
  BY <1>1 DEF Receiving, Sending
<1>4. ASSUME Chan!Return(t), isClosed[ch] \/ ~Chan!HasRoom(ch) PROVE ChanInv'
  <2>1. /\ Chan!Leave(t, Chan!Idle) /\ UNCHANGED <<buffered, isClosed, notFull, notEmpty>>
        /\ Chan!Idle \in Calls
    BY <1>4 DEF Chan!Return, Chan!StillThere, Calls
  <2>2. QED
    BY <1>1, <1>3, <1>4, <2>1, ReturnStep
<1>5. ASSUME ~isClosed[ch],
             Chan!Push(t, ch, IF rest = <<>> THEN Chan!Idle ELSE [pc[t] EXCEPT !.chs = rest])
      PROVE  ChanInv'
  <2>1. PICK next : next = IF rest = <<>> THEN Chan!Idle ELSE [pc[t] EXCEPT !.chs = rest]
    OBVIOUS
  <2>2. next \in Calls
    <3>1. rest # <<>> => [pc[t] EXCEPT !.chs = rest] \in SendCalls
      BY <1>1, <1>2 DEF SendCalls
    <3>2. QED
      BY <2>1, <3>1 DEF Calls
  <2>3. Chan!Push(t, ch, next)
    BY <1>5, <2>1
  <2>4. QED
    BY <1>1, <1>2, <1>3, <1>5, <2>2, <2>3, PushStep
<1>6. ASSUME ~isClosed[ch], ~Chan!HasRoom(ch), notFull' = [notFull EXCEPT ![ch] = Append(@, t)],
             UNCHANGED <<buffered, isClosed, notEmpty, pc, tallies, calls>>
      PROVE  ChanInv'
  BY <1>1, <1>2, <1>6, SendSleeps
<1>7. QED
  BY <1>4, <1>5, <1>6 DEF Chan!Send

LEMMA RecvStep ==
  ASSUME ChanInv, NEW t \in Threads, Chan!Recv(t)
  PROVE  ChanInv'
<1> DEFINE ch == pc[t].ch
<1>1. pc[t].op = "recv" /\ pc[t] \in RecvCalls /\ Awake(t) /\ ch \in Channels
  BY CallsOf, AsleepIs DEF Chan!Recv, ChanInv, ChanTypes, RecvCalls
<1>2. \A c \in Channels : t \notin Sending(c) /\ (t \in Receiving(c) => c = ch)
  BY <1>1 DEF Receiving, Sending
<1>3. CASE Chan!Pop(t, ch)
  BY <1>1, <1>2, <1>3, PopStep
<1>4. CASE buffered[ch] = 0 /\ Chan!Return(t)
  <2>1. /\ Chan!Leave(t, Chan!Idle) /\ UNCHANGED <<buffered, isClosed, notFull, notEmpty>>
        /\ Chan!Idle \in Calls
    BY <1>4 DEF Chan!Return, Chan!StillThere, Calls
  <2>2. QED
    BY <1>1, <1>2, <1>4, <2>1, ReturnStep
<1>5. CASE /\ buffered[ch] = 0 /\ ~isClosed[ch]
           /\ notEmpty' = [notEmpty EXCEPT ![ch] = Append(@, t)]
           /\ UNCHANGED <<buffered, isClosed, notFull, pc, tallies, calls>>
  BY <1>1, <1>5, RecvSleeps
<1>6. QED
  BY <1>3, <1>4, <1>5 DEF Chan!Recv

LEMMA SelectStep ==
  ASSUME ChanInv, NEW t \in Threads, Chan!Select(t)
  PROVE  ChanInv'
<1> DEFINE case == pc[t].cases[pc[t].i]
           Moves(call) == Chan!Leave(t, call) /\ Chan!StillThere
<1>1. pc[t].op = "select" /\ pc[t] \in SelectCalls
  BY CallsOf DEF Chan!Select, ChanInv, ChanTypes
<1>2. Awake(t) /\ \A c \in Channels : t \notin Sending(c) /\ t \notin Receiving(c)
  BY <1>1, OthersAreAwake
<1>3. /\ pc[t].i \in 1 .. Len(pc[t].cases) /\ Len(pc[t].cases) \in Nat
      /\ pc[t].cases \in Seq([chan : Channels, send : BOOLEAN])
  BY <1>1, LenProperties DEF SelectCalls
<1>4. case.chan \in Channels
  <2>1. case \in [chan : Channels, send : BOOLEAN]
    BY <1>3, ElementOfSeq
  <2>2. QED
    BY <2>1
<1>5. ASSUME NEW call \in Calls, Moves(call) PROVE ChanInv'
  <2>1. Chan!Leave(t, call) /\ UNCHANGED <<buffered, isClosed, notFull, notEmpty>>
    BY <1>5 DEF Chan!StillThere
  <2>2. QED
    BY <1>2, <2>1, ReturnStep
<1>6. ASSUME Chan!Return(t) PROVE ChanInv'
  <2>1. Moves(Chan!Idle) /\ Chan!Idle \in Calls
    BY <1>6 DEF Chan!Return, Calls
  <2>2. QED
    BY <1>5, <2>1
<1>7. ASSUME Chan!NextCase(t) PROVE ChanInv'
  <2> DEFINE next == [pc[t] EXCEPT !.at = "case", !.i = (@ % Len(pc[t].cases)) + 1]
  <2>1. pc[t].i % Len(pc[t].cases) \in 0 .. Len(pc[t].cases) - 1
    BY <1>3
  <2>2. next \in SelectCalls
    <3>1. (pc[t].i % Len(pc[t].cases)) + 1 \in 1 .. Len(pc[t].cases)
      BY <1>3, <2>1
    <3>2. QED
      <4>1. next = [op |-> "select", at |-> "case", cases |-> pc[t].cases,
                    i |-> (pc[t].i % Len(pc[t].cases)) + 1]
        <5>1. PICK r \in [op : {"select"}, at : {"case", "second"}, i : Nat,
                          cases : Seq([chan : Channels, send : BOOLEAN])] : r = pc[t]
          BY <1>1 DEF SelectCalls
        <5>2. [r EXCEPT !.at = "case", !.i = (@ % Len(r.cases)) + 1]
                = [op |-> "select", at |-> "case", cases |-> r.cases,
                   i |-> (r.i % Len(r.cases)) + 1]
          <6>1. PICK c, k, a : r = [op |-> "select", at |-> a, cases |-> c, i |-> k]
            BY <5>1
          <6>2. [r EXCEPT !.at = "case"] = [op |-> "select", at |-> "case", cases |-> c, i |-> k]
            BY <6>1
          <6>3. \A v : [[op |-> "select", at |-> "case", cases |-> c, i |-> k] EXCEPT !.i = v]
                         = [op |-> "select", at |-> "case", cases |-> c, i |-> v]
            OBVIOUS
          <6>4. r.i = k /\ r.cases = c
            BY <6>1
          <6>5. [r EXCEPT !.at = "case", !.i = (@ % Len(r.cases)) + 1]
                  = [[r EXCEPT !.at = "case"] EXCEPT !.i = (k % Len(c)) + 1]
            BY <6>2, <6>4
          <6>6. [[r EXCEPT !.at = "case"] EXCEPT !.i = (k % Len(c)) + 1]
                  = [op |-> "select", at |-> "case", cases |-> c, i |-> (k % Len(c)) + 1]
            BY ONLY <6>2, <6>3, Zenon
          <6>7. QED
            BY ONLY <6>4, <6>5, <6>6, Zenon
        <5>3. QED
          BY <5>1, <5>2
      <4>2. pc[t].cases \in Seq([chan : Channels, send : BOOLEAN])
            /\ (pc[t].i % Len(pc[t].cases)) + 1 \in Nat
        BY <1>3, <3>1
      <4>3. QED
        BY <3>1, <4>1, <4>2 DEF SelectCalls
  <2>3. next \in Calls
    BY <2>2 DEF Calls
  <2>4. Moves(next) \/ Chan!Return(t)
    BY <1>7 DEF Chan!NextCase
  <2> HIDE DEF next, Moves
  <2>5. QED
    BY <1>5, <1>6, <2>3, <2>4
<1>8. ASSUME Chan!Second(t) PROVE ChanInv'
  <2>1. [pc[t] EXCEPT !.at = "second"] \in SelectCalls
    BY <1>1 DEF SelectCalls
  <2>2. [pc[t] EXCEPT !.at = "second"] \in Calls
    BY <2>1 DEF Calls
  <2>3. QED
    BY <1>5, <1>8, <2>2 DEF Chan!Second
<1>9. ASSUME Chan!Push(t, case.chan, Chan!Idle) PROVE ChanInv'
  <2>1. Chan!Idle \in Calls
    BY DEF Calls
  <2>2. QED
    BY <1>2, <1>4, <1>9, <2>1, PushStep
<1>10. ASSUME Chan!Pop(t, case.chan) PROVE ChanInv'
  BY <1>2, <1>4, <1>10, PopStep
<1>11. QED
  BY <1>6, <1>7, <1>8, <1>9, <1>10 DEF Chan!Select, Chan!SelectSend, Chan!SelectRecv

\* A wait that ends by itself: one thread more is awake.
LEMMA WaitEndsStep ==
  ASSUME ChanInv, NEW t \in Threads, Chan!WaitEnds(t)
  PROVE  ChanInv'
<1>1. /\ notFull' = [ch \in Channels |-> Without(notFull[ch], {t})]
      /\ notEmpty' = [ch \in Channels |-> Without(notEmpty[ch], {t})]
      /\ UNCHANGED <<buffered, isClosed, pc>>
  BY ChanNumbers DEF Chan!WaitEnds
<1>2. ASSUME NEW ch \in Channels
      PROVE  /\ notFull'[ch] \in Seq(Threads) /\ notEmpty'[ch] \in Seq(Threads)
             /\ IsInjective(notFull'[ch]) /\ IsInjective(notEmpty'[ch])
             /\ ToSet(notFull'[ch]) = ToSet(notFull[ch]) \ {t}
             /\ ToSet(notEmpty'[ch]) = ToSet(notEmpty[ch]) \ {t}
             /\ notFull[ch] = <<>> => notFull'[ch] = <<>>
             /\ notEmpty[ch] = <<>> => notEmpty'[ch] = <<>>
  <2>1. PICK a \in Seq(Threads), b \in Seq(Threads) :
          a = notFull[ch] /\ b = notEmpty[ch] /\ IsInjective(a) /\ IsInjective(b)
    BY DEF ChanInv, ChanTypes, SleepersOf
  <2>2. notFull'[ch] = Without(a, {t}) /\ notEmpty'[ch] = Without(b, {t})
    BY <1>1, <2>1
  <2>3. /\ Without(a, {t}) \in Seq(Threads) /\ IsInjective(Without(a, {t}))
        /\ ToSet(Without(a, {t})) = ToSet(a) \ {t} /\ Len(Without(a, {t})) <= Len(a)
    BY <2>1, RemovalKeeps
  <2>4. /\ Without(b, {t}) \in Seq(Threads) /\ IsInjective(Without(b, {t}))
        /\ ToSet(Without(b, {t})) = ToSet(b) \ {t} /\ Len(Without(b, {t})) <= Len(b)
    BY <2>1, RemovalKeeps
  <2>5. \A s, w \in Seq(Threads) : Len(w) <= Len(s) /\ s = <<>> => w = <<>>
    BY EmptySeq
  <2>6. QED
    BY <2>1, <2>2, <2>3, <2>4, <2>5
<1>3. ChanTypes'
  BY <1>1, <1>2 DEF ChanInv, ChanTypes
<1>4. ASSUME NEW ch \in Channels PROVE (SleepersOf(ch) /\ SendersEnough(ch) /\ ReceiversEnough(ch))'
  <2>1. SleepersOf(ch)'
    <3>1. SleepersOf(ch)
      BY DEF ChanInv
    <3>2. \A u \in ToSet(notFull'[ch]) : pc'[u].op = "send" /\ Head(pc'[u].chs) = ch
      BY <1>1, <1>2, <3>1 DEF SleepersOf
    <3>3. \A u \in ToSet(notEmpty'[ch]) : pc'[u].op = "recv" /\ pc'[u].ch = ch
      BY <1>1, <1>2, <3>1 DEF SleepersOf
    <3>4. isClosed'[ch] => notFull'[ch] = <<>> /\ notEmpty'[ch] = <<>>
      BY <1>1, <1>2, <3>1 DEF SleepersOf
    <3>5. QED
      BY <1>2, <3>2, <3>3, <3>4 DEF SleepersOf
  <2>2. PICK x : x \notin Sending(ch) \union Receiving(ch)
    BY NoSetContainsEverything
  <2>3. Sending(ch) \ {x} \subseteq Sending(ch)' /\ Receiving(ch) \ {x} \subseteq Receiving(ch)'
    BY <1>1, <1>2 DEF Sending, Receiving
  <2>4. buffered'[ch] >= buffered[ch] + 0 /\ buffered'[ch] <= buffered[ch] - 0
    BY <1>1 DEF ChanInv, ChanTypes
  <2>5. SendersEnough(ch)'
    BY <1>2, <1>3, <2>2, <2>3, <2>4, SendersKept
  <2>6. ReceiversEnough(ch)'
    BY <1>2, <1>3, <2>2, <2>3, <2>4, ReceiversKept
  <2>7. QED
    BY <2>1, <2>5, <2>6
<1>5. QED
  BY <1>3, <1>4 DEF ChanInv

LEMMA CloseChannelStep ==
  ASSUME ChanInv, NEW ch \in Channels, Chan!Close(ch)
  PROVE  ChanInv'
<1>1. /\ isClosed' = [isClosed EXCEPT ![ch] = TRUE]
      /\ notEmpty' = [notEmpty EXCEPT ![ch] = <<>>] /\ notFull' = [notFull EXCEPT ![ch] = <<>>]
      /\ UNCHANGED <<buffered, pc>>
  BY DEF Chan!Close
<1>2. <<>> \in Seq(Threads) /\ ToSet(<<>>) = {} /\ IsInjective(<<>>)
  BY EmptySeq DEF ToSet, IsInjective
<1>3. ChanTypes'
  BY <1>1, <1>2 DEF ChanInv, ChanTypes
<1>4. ASSUME NEW c \in Channels PROVE (SleepersOf(c) /\ SendersEnough(c) /\ ReceiversEnough(c))'
  <2>1. CASE c = ch
    <3>1. notEmpty'[c] = <<>> /\ notFull'[c] = <<>>
      BY <1>1, <2>1 DEF ChanInv, ChanTypes
    <3>2. QED
      BY <1>2, <3>1 DEF SleepersOf, SendersEnough, ReceiversEnough
  <2>2. CASE c # ch
    <3>1. notEmpty'[c] = notEmpty[c] /\ notFull'[c] = notFull[c] /\ isClosed'[c] = isClosed[c]
      BY <1>1, <2>2 DEF ChanInv, ChanTypes
    <3>2. Sending(c)' = Sending(c) /\ Receiving(c)' = Receiving(c)
      BY <1>1, <3>1 DEF Sending, Receiving
    <3>3. QED
      BY <1>1, <3>1, <3>2 DEF ChanInv, SleepersOf, SendersEnough, ReceiversEnough
  <2>3. QED
    BY <2>1, <2>2
<1>5. QED
  BY <1>3, <1>4 DEF ChanInv

LEMMA ChanStep == ChanInv /\ [Chan!Next]_chanVars => ChanInv'
<1> SUFFICES ASSUME ChanInv, [Chan!Next]_chanVars PROVE ChanInv'
  OBVIOUS
<1>1. ASSUME NEW t \in Threads, Chan!Begin(t) PROVE ChanInv'
  BY <1>1, BeginStep
<1>2. ASSUME NEW t \in Threads, Chan!Region(t) PROVE ChanInv'
  BY <1>2, SendStep, RecvStep, SelectStep DEF Chan!Region
<1>3. ASSUME NEW t \in Threads, Chan!WaitEnds(t) PROVE ChanInv'
  BY <1>3, WaitEndsStep
<1>4. ASSUME NEW t \in Threads, NEW ch \in Channels, Chan!TryRecv(t, ch) \/ Chan!TrySend(t, ch)
      PROVE  ChanInv'
  <2>1. pc[t].op = "idle" /\ Chan!Idle \in Calls /\ (Chan!Pop(t, ch) \/ Chan!Push(t, ch, Chan!Idle))
    BY <1>4 DEF Chan!TryRecv, Chan!TrySend, Chan!Idle, Calls
  <2>2. Awake(t) /\ \A c \in Channels : t \notin Sending(c) /\ t \notin Receiving(c)
    BY <2>1, OthersAreAwake
  <2>3. QED
    BY <2>1, <2>2, PushStep, PopStep
<1>5. ASSUME NEW ch \in Channels, Chan!Close(ch) PROVE ChanInv'
  BY <1>5, CloseChannelStep
<1>6. CASE UNCHANGED chanVars
  <2>1. UNCHANGED <<buffered, isClosed, notFull, notEmpty, pc, tallies, calls>>
    BY <1>6 DEF chanVars
  <2>2. \A ch : Sending(ch)' = Sending(ch) /\ Receiving(ch)' = Receiving(ch)
    BY <2>1 DEF Sending, Receiving
  <2>3. QED
    BY <2>1, <2>2 DEF ChanInv, ChanTypes, SleepersOf, SendersEnough, ReceiversEnough
<1>7. QED
  BY <1>1, <1>2, <1>3, <1>4, <1>5, <1>6 DEF Chan!Next

-----------------------------------------------------------------------------
(* The theorems *)

\* For any keys, users and capacities: if the last operation on one key had ended
\* before the last on another began, the first is evicted first
\* (ConcurrentLRU.get, put, resize).
THEOREM LruOrderAlways == Spec => []LruOrder
<1>1. Init => LruInv
  BY LruInit DEF Init
<1>2. LruInv /\ [Next]_vars => LruInv'
  BY OneComponentMoves, LruStep
<1>3. LruInv => LruOrder
  BY LruSafe DEF LruOrder
<1>4. QED
  BY <1>1, <1>2, <1>3, PTL DEF Spec

\* For any number of consumers, size of the queue and items: what was taken and
\* what is queued are together what put accepted, in its order, through drains,
\* timeouts and wake-ups that find the queue empty, and the consumers of
\* run_pipeline take all that was queued (AsyncBoundedQueue.put, get, drain).
THEOREM QueueDeliversAlways == Spec => []QueueDelivers
<1>1. Init => QueueInv
  BY QueueInit DEF Init
<1>2. QueueInv /\ [Next]_vars => QueueInv'
  BY OneComponentMoves, QueueStep
<1>3. QueueInv => QueueDelivers
  BY QueueSafe DEF QueueDelivers
<1>4. QED
  BY <1>1, <1>2, <1>3, PTL DEF Spec

\* For any threads, channels and capacities: while a coroutine sleeps on a queue
\* with items, or a thread on a channel that could serve it, another was woken for
\* it (AsyncBoundedQueue.put, get; Channel.send, recv, close, select).
THEOREM NoLostWakeupAlways == Spec => []NoLostWakeup
<1> DEFINE Inv == QueueInv /\ ChanInv
<1>1. Init => Inv
  BY QueueInit, ChanInit DEF Init
<1>2. Inv /\ [Next]_vars => Inv'
  BY OneComponentMoves, QueueStep, ChanStep
<1>3. Inv => NoLostWakeup
  BY QueueSafe, ChanSafe DEF NoLostWakeup
<1> HIDE DEF Inv
<1>4. QED
  BY <1>1, <1>2, <1>3, PTL DEF Spec
=============================================================================
