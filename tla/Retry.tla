---------------------------------- MODULE Retry -------------------------------
(***************************************************************************)
(* Task 019: the retry decorators.  The counter of attempts belongs to the *)
(* decorated function, not to the call: concurrent calls of retry_async,   *)
(* which lose the processor while the function runs and while they sleep,  *)
(* and all later calls share it.                                           *)
(***************************************************************************)
EXTENDS Integers, FiniteSets

CONSTANTS Callers, MaxRetries,
          MaxRounds \* bound: calls of the decorated function

VARIABLES used,    \* attempts_used
          at,      \* at[c]: "idle", "running" (awaiting func) or "sleeping"
          failed,  \* history: failed attempts of c's current call
          outcomes, \* history: how calls ended, as [failed, raised]
          rounds

vars == <<used, at, failed, outcomes, rounds>>
Init == /\ used = 0 /\ at = [c \in Callers |-> "idle"] /\ failed = [c \in Callers |-> 0]
        /\ outcomes = {} /\ rounds = 0

End(c, tries, raised) == /\ at' = [at EXCEPT ![c] = "idle"] /\ failed' = [failed EXCEPT ![c] = 0]
                         /\ outcomes' = outcomes \union {[failed |-> tries, raised |-> raised]}

\* `while attempts_used <= max_retries`, at the start of a call and after a sleep.
LoopTest == used <= MaxRetries

Start(c) == /\ at[c] = "idle" /\ rounds < MaxRounds /\ rounds' = rounds + 1 /\ UNCHANGED used
            /\ IF LoopTest THEN at' = [at EXCEPT ![c] = "running"] /\ UNCHANGED <<failed, outcomes>>
               ELSE End(c, 0, TRUE)

\* The function returns, or raises what is not to be retried.
Succeed(c) == at[c] = "running" /\ End(c, failed[c], FALSE) /\ UNCHANGED <<used, rounds>>

\* A retryable exception: count it, then give up or sleep.
Fail(c) == /\ at[c] = "running" /\ used' = used + 1 /\ UNCHANGED rounds
           /\ IF used' > MaxRetries THEN End(c, failed[c] + 1, TRUE)
              ELSE /\ at' = [at EXCEPT ![c] = "sleeping"] /\ failed' = [failed EXCEPT ![c] = @ + 1]
                   /\ UNCHANGED outcomes

Wake(c) == /\ at[c] = "sleeping" /\ UNCHANGED <<used, rounds>>
           /\ IF LoopTest THEN at' = [at EXCEPT ![c] = "running"] /\ UNCHANGED <<failed, outcomes>>
              ELSE End(c, failed[c], TRUE)

Next == \E c \in Callers : Start(c) \/ Succeed(c) \/ Fail(c) \/ Wake(c)

\* However calls interleave, one makes at most max_retries + 1 attempts, all of
\* them together fail no more than that but for the attempts already under way,
\* and none gives up before the attempts that the calls share are used up.
AttemptsBounded ==
    /\ \A o \in outcomes : o.failed <= MaxRetries + 1 /\ (o.raised => used > MaxRetries)
    /\ used <= MaxRetries + Cardinality(Callers)
    /\ \A c \in Callers : failed[c] <= MaxRetries /\ failed[c] <= used
===============================================================================
