---------------------------------- MODULE Csp ----------------------------------
(***************************************************************************)
(* Task 049: CSP channels shared by threads.  One step is one region under *)
(* a channel's lock, or one read outside it.  A thread in send or recv is  *)
(* asleep on a condition or wants the lock (external: notify removes the   *)
(* longest sleeper, which then competes for the lock like any other).      *)
(***************************************************************************)
EXTENDS Integers, Sequences, FiniteSets, SequencesExt, Lists

CONSTANTS Threads, Channels,
          Capacity,   \* [Channels -> Nat]; 0 is an unbuffered channel
          Selects,    \* the case lists given to select: [chan, send] records
          MaxCalls    \* bound: calls made in one behaviour

VARIABLES buffered,   \* buffered[ch]: length of _buffer; values are not told apart
          isClosed,   \* isClosed[ch]: _closed
          notFull,    \* notFull[ch]: sleepers of the condition _not_full
          notEmpty,   \* notEmpty[ch]: sleepers of _not_empty
          pc,         \* pc[t]: the call thread t is in
          tallies,     \* tallies[ch]: send_count and recv_count
          calls       \* calls made so far

vars == <<buffered, isClosed, notFull, notEmpty, pc, tallies, calls>>

Idle == [op |-> "idle"]

Init == /\ buffered = [ch \in Channels |-> 0] /\ isClosed = [ch \in Channels |-> FALSE]
        /\ notFull = [ch \in Channels |-> <<>>] /\ notEmpty = [ch \in Channels |-> <<>>]
        /\ pc = [t \in Threads |-> Idle] /\ calls = 0
        /\ tallies = [ch \in Channels |-> [sent |-> 0, received |-> 0]]

HasRoom(ch) == Capacity[ch] = 0 \/ buffered[ch] < Capacity[ch]

Leave(t, next) == pc' = [pc EXCEPT ![t] = next]
Asleep(t) == \E ch \in Channels : Contains(notFull[ch] \o notEmpty[ch], t)

\* Mutant: the notification is forgotten.
NotifyNobody(sleepers) == sleepers
NotifyOne(sleepers) == SubSeq(sleepers, 2, Len(sleepers))

Push(t, ch, next) == /\ buffered' = [buffered EXCEPT ![ch] = @ + 1]
                     /\ tallies' = [tallies EXCEPT ![ch].sent = @ + 1]
                     /\ notEmpty' = [notEmpty EXCEPT ![ch] = NotifyOne(@)]
                     /\ Leave(t, next) /\ UNCHANGED <<isClosed, notFull>>

Pop(t, ch) == /\ buffered[ch] > 0 /\ buffered' = [buffered EXCEPT ![ch] = @ - 1]
              /\ tallies' = [tallies EXCEPT ![ch].received = @ + 1]
              /\ notFull' = [notFull EXCEPT ![ch] = NotifyOne(@)]
              /\ Leave(t, Idle) /\ UNCHANGED <<isClosed, notEmpty, calls>>

StillThere == UNCHANGED <<buffered, isClosed, notFull, notEmpty, tallies, calls>>
Return(t) == Leave(t, Idle) /\ StillThere

\* A call begins.  send goes to one channel, FanOut.send to several in turn.
Begin(t) ==
    /\ pc[t] = Idle /\ calls < MaxCalls /\ calls' = calls + 1
    /\ \/ \E chs \in {<<ch>> : ch \in Channels} \union {SetToSeq(Channels)} :
             Leave(t, [op |-> "send", chs |-> chs])
       \/ \E ch \in Channels : Leave(t, [op |-> "recv", ch |-> ch])
       \/ \E cs \in Selects : Leave(t, [op |-> "select", at |-> "case", i |-> 1, cases |-> cs])
    /\ UNCHANGED <<buffered, isClosed, notFull, notEmpty, tallies>>

\* send: the entry of the loop and every wake-up test the same things.  Any
\* call may have a timeout; one without is a call whose deadline never comes.
Send(t) == /\ pc[t].op = "send" /\ ~Asleep(t)
           /\ LET ch == Head(pc[t].chs)
                  rest == Tail(pc[t].chs) IN
              \/ isClosed[ch] /\ Return(t)                    \* ChannelClosed
              \/ /\ ~isClosed[ch] /\ HasRoom(ch) /\ UNCHANGED calls
                 /\ Push(t, ch, IF rest = <<>> THEN Idle ELSE [pc[t] EXCEPT !.chs = rest])
              \/ ~isClosed[ch] /\ ~HasRoom(ch) /\ Return(t)   \* the deadline passed
              \/ /\ ~isClosed[ch] /\ ~HasRoom(ch)
                 /\ notFull' = [notFull EXCEPT ![ch] = Append(@, t)]
                 /\ UNCHANGED <<buffered, isClosed, notEmpty, pc, tallies, calls>>

Recv(t) == /\ pc[t].op = "recv" /\ ~Asleep(t)
           /\ LET ch == pc[t].ch IN
              \/ Pop(t, ch)
              \/ buffered[ch] = 0 /\ Return(t)                \* closed, or too late
              \/ /\ buffered[ch] = 0 /\ ~isClosed[ch]
                 /\ notEmpty' = [notEmpty EXCEPT ![ch] = Append(@, t)]
                 /\ UNCHANGED <<buffered, isClosed, notFull, pc, tallies, calls>>

\* Condition.wait(timeout) ends by itself and the thread wants the lock again.
WaitEnds(t) == /\ Asleep(t)
               /\ notFull' = [ch \in Channels |-> Without(notFull[ch], {t})]
               /\ notEmpty' = [ch \in Channels |-> Without(notEmpty[ch], {t})]
               /\ UNCHANGED <<buffered, isClosed, pc, tallies, calls>>

TryRecv(t, ch) == pc[t] = Idle /\ Pop(t, ch)
TrySend(t, ch) == /\ pc[t] = Idle /\ calls < MaxCalls /\ calls' = calls + 1
                  /\ ~isClosed[ch] /\ HasRoom(ch) /\ Push(t, ch, Idle)

\* Mutant: close notifies the receivers only.
CloseForReceivers(ch) == /\ ~isClosed[ch] /\ isClosed' = [isClosed EXCEPT ![ch] = TRUE]
                         /\ notEmpty' = [notEmpty EXCEPT ![ch] = <<>>]
                         /\ UNCHANGED <<buffered, notFull, pc, tallies, calls>>
\* close, and Pipeline.close_all channel by channel, wake every sleeper.
Close(ch) == /\ ~isClosed[ch] /\ isClosed' = [isClosed EXCEPT ![ch] = TRUE]
             /\ notEmpty' = [notEmpty EXCEPT ![ch] = <<>>]
             /\ notFull' = [notFull EXCEPT ![ch] = <<>>]
             /\ UNCHANGED <<buffered, pc, tallies, calls>>

\* select and FanIn.recv: the loop body for case i.  A send reads is_closed
\* before it takes the lock; a recv reads it after try_recv has released it.
\* After the last case the deadline, if there is one, may have passed.
NextCase(t) ==
    \/ Leave(t, [pc[t] EXCEPT !.at = "case", !.i = (@ % Len(pc[t].cases)) + 1]) /\ StillThere
    \/ pc[t].i = Len(pc[t].cases) /\ Return(t)
Second(t) == Leave(t, [pc[t] EXCEPT !.at = "second"]) /\ StillThere
SelectSend(t, ch) ==
    \/ pc[t].at = "case" /\ IF isClosed[ch] THEN NextCase(t) ELSE Second(t)
    \/ pc[t].at = "second" /\ HasRoom(ch) /\ Push(t, ch, Idle) /\ UNCHANGED calls
    \/ pc[t].at = "second" /\ ~HasRoom(ch) /\ NextCase(t)
SelectRecv(t, ch) ==
    \/ pc[t].at = "case" /\ (Pop(t, ch) \/ (buffered[ch] = 0 /\ Second(t)))
    \/ pc[t].at = "second" /\ IF isClosed[ch] THEN Return(t) ELSE NextCase(t)
Select(t) == /\ pc[t].op = "select"
             /\ LET case == pc[t].cases[pc[t].i] IN
                IF case.send THEN SelectSend(t, case.chan) ELSE SelectRecv(t, case.chan)

Region(t) == Send(t) \/ Recv(t) \/ Select(t)
Next == \/ \E t \in Threads : \/ Begin(t) \/ Region(t) \/ WaitEnds(t)
                              \/ \E ch \in Channels : TryRecv(t, ch) \/ TrySend(t, ch)
        \/ \E ch \in Channels : Close(ch)
\* The scheduler and the lock let every thread that is not asleep go on.
Fairness == \A t \in Threads : WF_vars(Region(t))

(***************************************************************************)
(* Properties                                                              *)
(***************************************************************************)

\* No thread sleeps through what it waits for: whoever sleeps on a channel that
\* could serve it has a woken competitor, and a closed channel has no sleepers.
NoLostWakeup == \A ch \in Channels :
    /\ (notFull[ch] # <<>> /\ HasRoom(ch)) =>
         \E t \in Threads : pc[t].op = "send" /\ Head(pc[t].chs) = ch /\ ~Asleep(t)
    /\ (notEmpty[ch] # <<>> /\ buffered[ch] > 0) =>
         \E t \in Threads : pc[t].op = "recv" /\ pc[t].ch = ch /\ ~Asleep(t)
    /\ isClosed[ch] => notFull[ch] = <<>> /\ notEmpty[ch] = <<>>

\* A select of nothing but sends passes over closed channels: it goes round for ever
\* unless it has a timeout.
OnlySends(t) == pc[t].op = "select" /\ \A i \in 1 .. Len(pc[t].cases) : pc[t].cases[i].send

\* Once every channel is closed (Pipeline.close_all), every call returns but those.
CallsEndAfterClose == \A t \in Threads :
    (\A ch \in Channels : isClosed[ch]) ~> (pc[t] = Idle \/ OnlySends(t))
===============================================================================
