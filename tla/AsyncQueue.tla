------------------------------ MODULE AsyncQueue ------------------------------
(***************************************************************************)
(* Task 011: the bounded asyncio queue, its producers, consumers and the   *)
(* pipeline.  put() and drain() never suspend, so they are one step each;  *)
(* get() suspends inside asyncio.Queue, whose getter futures are modelled  *)
(* from how get() uses them: put_nowait completes the first future, the    *)
(* item stays queued until the woken coroutine runs, and a coroutine       *)
(* cancelled by wait_for hands its wakeup to the next one.                 *)
(***************************************************************************)
EXTENDS Integers, Sequences, FiniteSets, SequencesExt, Lists

CONSTANTS NumConsumers,  \* num_consumers; a consumer is its index
          QueueSize,     \* maxsize
          MaxOffers      \* bound: items offered to put() in one behaviour

Consumers == 1 .. NumConsumers

VARIABLES queue,      \* the items of asyncio.Queue, by the order of put()
          getters,    \* consumers suspended in asyncio.Queue.get
          woken,      \* consumers whose getter future is completed
          closed,     \* _closed
          counts,     \* _put_count and _get_count
          offered,    \* items offered so far; item n is the n-th
          moved,      \* history: items accepted, and items taken out, in order
          todo,       \* todo[c]: gets consumer c has still to make
          stage       \* "setup", "open" (hand-made tasks), "pipeline"

vars == <<queue, getters, woken, closed, counts, offered, moved, todo, stage>>

Init == /\ queue = <<>> /\ getters = <<>> /\ woken = {} /\ closed = FALSE
        /\ counts = [put |-> 0, get |-> 0] /\ offered = 0
        /\ moved = [in |-> <<>>, out |-> <<>>]
        /\ todo = [c \in Consumers |-> 0] /\ stage = "setup"

Least(a, b) == IF a < b THEN a ELSE b

\* asyncio: put_nowait completes the first getter, n times.
Wake(n) == LET k == Least(n, Len(getters)) IN
           /\ getters' = SubSeq(getters, k + 1, Len(getters))
           /\ woken' = woken \union {getters[i] : i \in 1 .. k}

Room == QueueSize - Len(queue)

\* put, put_many and producer: n puts with no suspension between them.  A full
\* queue makes put() return False at once: the item is dropped.
Enqueue(n) == LET kept == Least(n, Room)
                  items == [i \in 1 .. kept |-> offered + i] IN
              /\ queue' = queue \o items /\ moved' = [moved EXCEPT !.in = @ \o items]
              /\ counts' = [counts EXCEPT !.put = @ + kept]
              /\ offered' = offered + n /\ Wake(kept)

\* Tasks made by hand: every consumer wants `want` items of an open queue.
Open(want) == /\ stage = "setup" /\ stage' = "open"
              /\ todo' = [c \in Consumers |-> want]
              /\ UNCHANGED <<queue, getters, woken, closed, counts, offered, moved>>

\* Mutant: the remainder of the division goes to nobody.
ShareEvenly(n) == [c \in Consumers |-> n \div NumConsumers]
\* The n items are shared out and the last consumer has the remainder.
Share(n) == [c \in Consumers |-> IF c < NumConsumers THEN n \div NumConsumers
                  ELSE n - (n \div NumConsumers) * (NumConsumers - 1)]

\* run_pipeline: the consumer tasks exist but none runs before the producer
\* has finished and close() was called, for neither of them suspends.
RunPipeline(n) == /\ stage = "setup" /\ stage' = "pipeline"
                  /\ todo' = Share(n) /\ Enqueue(n) /\ closed' = TRUE

Put(n) == /\ stage = "open" /\ ~closed /\ offered + n <= MaxOffers
          /\ Enqueue(n) /\ UNCHANGED <<closed, todo, stage>>

Close == /\ stage = "open" /\ ~closed /\ closed' = TRUE
         /\ UNCHANGED <<queue, getters, woken, counts, offered, moved, todo, stage>>

Drain == /\ stage = "open" /\ queue # <<>> /\ queue' = <<>>
         /\ moved' = [moved EXCEPT !.out = @ \o queue]
         /\ counts' = [counts EXCEPT !.get = @ + Len(queue)]
         /\ UNCHANGED <<getters, woken, closed, offered, todo, stage>>

\* get_nowait inside asyncio.Queue.get, and the consumer's _get_count += 1.
Take(c) == /\ queue # <<>> /\ queue' = Tail(queue)
           /\ moved' = [moved EXCEPT !.out = Append(@, Head(queue))]
           /\ counts' = [counts EXCEPT !.get = @ + 1]
           /\ todo' = [todo EXCEPT ![c] = @ - 1]
           /\ UNCHANGED <<closed, offered, stage>>

Suspend(c) == /\ queue = <<>> /\ getters' = Append(getters, c)
              /\ UNCHANGED <<queue, closed, counts, offered, moved, todo, stage>>

Running(c) == todo[c] > 0 /\ c \notin woken /\ ~Contains(getters, c)

\* The consumer calls get(): a closed empty queue raises and ends its loop.
Get(c) == /\ Running(c)
          /\ \/ Take(c) /\ UNCHANGED <<getters, woken>>
             \/ ~closed /\ Suspend(c) /\ UNCHANGED woken
             \/ /\ closed /\ queue = <<>> /\ todo' = [todo EXCEPT ![c] = 0]
                /\ UNCHANGED <<queue, getters, woken, closed, counts, offered, moved, stage>>

\* A woken coroutine runs; another may have taken the item, then it waits again.
Resume(c) == /\ c \in woken /\ woken' = woken \ {c}
             /\ (Take(c) /\ UNCHANGED getters) \/ Suspend(c)

\* wait_for cancels get(): TimeoutError ends the consumer's loop.
Timeout(c) ==
    /\ todo' = [todo EXCEPT ![c] = 0]
    /\ \/ Contains(getters, c) /\ getters' = Without(getters, {c}) /\ UNCHANGED woken
       \/ /\ c \in woken
          /\ LET next == IF queue = <<>> THEN 0 ELSE Least(1, Len(getters)) IN
             /\ getters' = SubSeq(getters, next + 1, Len(getters))
             /\ woken' = (woken \ {c}) \union {getters[i] : i \in 1 .. next}
    /\ UNCHANGED <<queue, closed, counts, offered, moved, stage>>

Next == \/ \E n \in 1 .. MaxOffers : Open(n) \/ RunPipeline(n) \/ Put(n)
        \/ Close \/ Drain
        \/ \E c \in Consumers : Get(c) \/ Resume(c) \/ Timeout(c)

(***************************************************************************)
(* Properties                                                              *)
(***************************************************************************)

\* Nothing accepted is lost, duplicated or reordered, through drains, stolen
\* wakeups and timeouts, and the two counters count what went in and out.
Conserved == /\ moved.in = moved.out \o queue /\ Len(queue) <= QueueSize
             /\ counts = [put |-> Len(moved.in), get |-> Len(moved.out)]

\* No consumer sleeps beside a queued item unless a woken one is on its way.
NobodyForgotten == (queue # <<>> /\ getters # <<>>) => woken # {}

\* When the consumers of run_pipeline have ended, everything the producer got
\* accepted has been delivered, however they raced for it.
PipelineDelivers == (stage = "pipeline" /\ \A c \in Consumers : todo[c] = 0)
                    => moved.out = moved.in
===============================================================================
