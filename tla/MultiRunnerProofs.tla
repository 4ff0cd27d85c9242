------------------------- MODULE MultiRunnerProofs -------------------------
(***************************************************************************)
(* Proofs about MultiRunner and the Reports made of its files, for any     *)
(* agents, tasks, languages, rounds and outcomes.                          *)
(***************************************************************************)
EXTENDS Reports, NumberProofs, FiniteSetTheorems, SequenceTheorems, TLAPS

\* The labels of the body of the loop over agents.
InLoop == {"task", "call", "count", "open", "write", "append"}
Saving == {"open", "write", "append"}

\* Where the session is: the round in progress is one of Runs, its agent one
\* of the list, and completed_runs counts the rounds before it.
Control ==
  /\ pc \in InLoop => turn <= NAgents
  /\ pc \in InLoop \cup {"agent", "endround"} =>
       runIdx <= Runs /\ roundsDone = runIdx - 1
  /\ pc = "pause" => runIdx < Runs /\ roundsDone = runIdx
  /\ pc = "round" => roundsDone = runIdx - 1
  /\ pc = "call" => Len(records) < NTasks
  /\ pc = "count" => records # <<>>
-----------------------------------------------------------------------------
\* The order of a round is a permutation of the list of agents.
LEMMA OrderPermutes ==
  ASSUME NEW r \in Nat
  PROVE  /\ Order(r) \in [1..NAgents -> Agents]
         /\ \A i, j \in 1..NAgents : Order(r)[i] = Order(r)[j] => i = j
         /\ \A a \in Agents : \E i \in 1..NAgents : Order(r)[i] = a
<1>1. /\ NAgents \in Nat
      /\ AgentList \in [1..NAgents -> Agents]
      /\ \A i, j \in 1..NAgents : AgentList[i] = AgentList[j] => i = j
      /\ \A a \in Agents : \E i \in 1..NAgents : AgentList[i] = a
  BY SessionAssumption DEF NAgents, Agents, ToSet
<1>2. CASE r % 2 = 1
  BY <1>1, <1>2 DEF Order
<1>3. CASE r % 2 # 1
  <2>1. Order(r) = [i \in 1..NAgents |-> AgentList[(NAgents - i) + 1]]
    BY <1>3 DEF Order, Reverse, NAgents
  <2>2. \A i \in 1..NAgents : (NAgents - i) + 1 \in 1..NAgents
    BY <1>1
  <2>3. \A a \in Agents : \E i \in 1..NAgents : Order(r)[i] = a
    <3>1. TAKE a \in Agents
    <3>2. PICK k \in 1..NAgents : AgentList[k] = a
      BY <1>1
    <3>3. Order(r)[(NAgents - k) + 1] = a
      BY <1>1, <2>1, <2>2, <3>2
    <3>4. QED
      BY <2>2, <3>3
  <2>4. QED
    BY <1>1, <2>1, <2>2, <2>3
<1>4. QED
  BY <1>2, <1>3

\* The agent of the run in progress.
LEMMA CurrentAgent ==
  ASSUME TypeOK, Control, pc \in InLoop
  PROVE  Current \in Agents /\ runIdx \in 1..Runs /\ turn \in 1..NAgents
<1>1. NAgents \in Nat /\ Runs \in Nat
  BY SessionAssumption DEF NAgents
<1>2. runIdx \in 1..Runs /\ turn \in 1..NAgents
  BY <1>1 DEF TypeOK, Control, InLoop
<1>3. QED
  BY <1>1, <1>2, OrderPermutes DEF Current

\* The record that has just been made, and the ones before it.
LEMMA LastRecord ==
  ASSUME records \in Seq(Recs), records # <<>>
  PROVE  /\ Last(records) \in Recs /\ Last(records).out \in Outcomes
         /\ Front(records) \in Seq(Recs)
         /\ records = Append(Front(records), Last(records))
<1> PICK n : n = Len(records)
  OBVIOUS
<1>1. n \in Nat \ {0} /\ \A i \in 1..n : records[i] \in Recs
  BY LenProperties, EmptySeq, ElementOfSeq
<1>2. Last(records) = records[n] /\ records[n] \in Recs
  BY <1>1 DEF Last
<1>3. PICK f : f = SubSeq(records, 1, n - 1)
  OBVIOUS
<1>4. f = Front(records)
  BY <1>3 DEF Front
<1>5. f \in Seq(Recs) /\ Len(f) = n - 1 /\ \A i \in 1..(n - 1) : f[i] = records[i]
  BY <1>1, <1>3, SubSeqProperties
<1>6. records = Append(f, records[n])
  BY <1>1, <1>2, <1>5, AppendProperties, SeqEqual
<1>7. QED
  BY <1>2, <1>4, <1>5, <1>6 DEF Recs

\* Every step of the session keeps the variables in their types and the
\* control where Control says it is.
LEMMA TypeStep ==
  ASSUME TypeOK, Control, [Next]_vars
  PROVE  TypeOK' /\ Control'
<1> USE DEF TypeOK, Control, Labels, InLoop, At, Goto, Running, signal, report
<1>0. NAgents \in Nat /\ Runs \in Nat /\ NTasks \in Nat
  BY SessionAssumption DEF NAgents
<1>1. CASE Round
  BY <1>0, <1>1 DEF Round
<1>2. CASE NextAgent
  <2>1. CASE turn > NAgents \/ interrupted
    BY <1>0, <1>2, <2>1 DEF NextAgent
  <2>2. CASE ~(turn > NAgents \/ interrupted)
    BY <1>0, <1>2, <2>2 DEF NextAgent
  <2>3. QED
    BY <2>1, <2>2
<1>3. CASE NextTask
  BY <1>0, <1>3 DEF NextTask
<1>4. CASE RunTask
  <2>1. PICK o \in Outcomes :
          records' = Append(records, [task |-> Len(records) + 1, out |-> o])
    BY <1>4 DEF RunTask
  <2>2. PICK rec : rec = [task |-> Len(records) + 1, out |-> o]
    OBVIOUS
  <2>3. rec \in Recs
    BY <1>0, <1>4, <2>2 DEF RunTask, Recs
  <2>4. records' \in Seq(Recs) /\ records' # <<>>
    BY <2>1, <2>2, <2>3, AppendProperties
  <2>5. QED
    BY <1>0, <1>4, <2>4 DEF RunTask
<1>16. CASE CountTask
  <2>1. PICK o : o = Last(records).out
    OBVIOUS
  <2>2. Current \in Agents
    BY <1>16, CurrentAgent DEF CountTask
  <2>3. o \in Outcomes /\ progress' = Update(progress, Current, o)
    BY <1>16, <2>1, LastRecord DEF CountTask
  <2>4. progress' \in [completed : Nat, resolved : Nat, failed : Nat,
                       errors : Nat, agentResolved : [Agents -> Nat],
                       agentTotal : [Agents -> Nat]]
    <3>1. /\ One(o.resolved) \in Nat
          /\ One(~o.resolved /\ o.kind = "error") \in Nat
          /\ One(~o.resolved /\ o.kind # "error") \in Nat
      BY DEF One
    <3>2. [progress.agentTotal EXCEPT ![Current] = @ + 1] \in [Agents -> Nat]
      BY <2>2
    <3>3. [progress.agentResolved EXCEPT ![Current] = @ + One(o.resolved)]
            \in [Agents -> Nat]
      BY <2>2, <3>1
    <3>4. /\ progress.completed + 1 \in Nat
          /\ progress.resolved + One(o.resolved) \in Nat
          /\ progress.errors + One(~o.resolved /\ o.kind = "error") \in Nat
          /\ progress.failed + One(~o.resolved /\ o.kind # "error") \in Nat
      BY <3>1
    <3>5. QED
      BY <2>3, <3>2, <3>3, <3>4 DEF Update
  <2>5. QED
    BY <1>0, <1>16, <2>4 DEF CountTask
<1>5. CASE SaveOpen
  <2>1. Current \in Agents /\ runIdx \in 1..Runs
    BY <1>5, CurrentAgent DEF SaveOpen
  <2>2. [state |-> "torn", recs |-> <<>>]
          \in [state : {"absent", "torn", "whole"}, recs : Seq(Recs)]
    OBVIOUS
  <2>3. QED
    BY <1>0, <1>5, <2>1, <2>2 DEF SaveOpen
<1>6. CASE SaveWrite
  <2>1. Current \in Agents /\ runIdx \in 1..Runs
    BY <1>6, CurrentAgent DEF SaveWrite
  <2>2. QED
    BY <1>0, <1>6, <2>1 DEF SaveWrite
<1>7. CASE AppendRaw
  <2>1. Current \in Agents
    BY <1>7, CurrentAgent DEF AppendRaw
  <2>2. Append(raw[Current], records) \in Seq(Seq(Recs))
    BY <2>1
  <2>3. raw' \in [Agents -> Seq(Seq(Recs))]
    BY <1>7, <2>2 DEF AppendRaw
  <2>4. QED
    BY <1>0, <1>7, <2>3 DEF AppendRaw
<1>8. CASE EndRound
  BY <1>0, <1>8 DEF EndRound
<1>9. CASE EndPause
  BY <1>0, <1>9 DEF EndPause
<1>10. CASE DoAggregate
  BY <1>0, <1>10 DEF DoAggregate
<1>11. CASE SaveAggregate
  BY <1>0, <1>11 DEF SaveAggregate
<1>12. CASE Crash
  BY <1>0, <1>12 DEF Crash
<1>13. CASE FirstSigint
  BY <1>0, <1>13 DEF FirstSigint
<1>14. CASE SecondSigint
  BY <1>0, <1>14 DEF SecondSigint
<1>15. CASE UNCHANGED vars
  BY <1>15 DEF vars
<1>17. QED
  BY <1>1, <1>2, <1>3, <1>4, <1>5, <1>6, <1>7, <1>8, <1>9, <1>10, <1>11,
     <1>12, <1>13, <1>14, <1>15, <1>16 DEF Next, Main
-----------------------------------------------------------------------------
\* How many runs each agent has when the session is in a round: one more for
\* the agents before turn.  After Ctrl+C this holds only until the loop over
\* agents is left, and the runs do not change any more from there on.
Lengths ==
  /\ pc \in InLoop \/ (pc = "agent" /\ ~interrupted) =>
       \A j \in 1..NAgents : Len(raw[Order(runIdx)[j]]) =
                               IF j < turn THEN runIdx ELSE runIdx - 1
  /\ pc \in {"endround", "pause"} /\ ~interrupted =>
       \A a \in Agents : Len(raw[a]) = runIdx
  /\ pc = "round" /\ ~interrupted =>
       \A a \in Agents : Len(raw[a]) = runIdx - 1

\* No agent run is started when one that was cut off has been saved, ...
NoneCutOff ==
  pc \in InLoop => \A a \in Agents : \A r \in 1..Len(raw[a]) :
                     Len(raw[a][r]) >= NTasks

\* ... and the run that is being saved is whole, or Ctrl+C cut it off.
SavedRun ==
  /\ pc \in Saving /\ Len(records) < NTasks => interrupted
  /\ pc = "append" =>
       disk[Current][runIdx] = [state |-> "whole", recs |-> records]

\* A task that was being called when Ctrl+C came has not been counted yet.
CallPending ==
  pc \in {"call", "count"} /\ interrupted => progress.completed <= atInt

IInv == /\ TypeOK /\ Control
        /\ Lengths /\ NoneCutOff /\ SavedRun /\ CallPending
        /\ RawIsOnDisk /\ RoundsBalanced /\ PartialIsLast /\ InterruptPromise

LEMMA InitIInv == Init => IInv
<1> SUFFICES ASSUME Init PROVE IInv
  OBVIOUS
<1>1. NAgents \in Nat /\ Runs \in Nat /\ NTasks \in Nat
  BY SessionAssumption DEF NAgents
<1>2. TypeOK
  <2>1. raw \in [Agents -> Seq(Seq(Recs))]
    BY DEF Init
  <2>2. Absent \in [state : {"absent", "torn", "whole"}, recs : Seq(Recs)]
    BY DEF Absent
  <2>3. disk \in [Agents -> [1..Runs ->
                   [state : {"absent", "torn", "whole"}, recs : Seq(Recs)]]]
    BY <2>2 DEF Init
  <2>4. Zero \in [Agents -> Nat]
    BY DEF Zero
  <2>5. progress \in [completed : Nat, resolved : Nat, failed : Nat,
                      errors : Nat, agentResolved : [Agents -> Nat],
                      agentTotal : [Agents -> Nat]]
    BY <2>4 DEF Init
  <2>6. /\ pc = "round" /\ exit = "none" /\ runIdx = 1 /\ turn = 1
        /\ records = <<>> /\ interrupted = FALSE /\ atInt = 0
        /\ roundsDone = 0 /\ aggFile = "absent"
    BY DEF Init
  <2>7. /\ 1 \in 1..(Runs + 1) /\ 1 \in 1..(NAgents + 1) /\ 0 \in 0..Runs
        /\ <<>> \in Seq(Recs)
    BY <1>1
  <2>8. pc \in Labels /\ exit \in {"none", "ok", "nodata", "crash", "forced"}
    BY <2>6 DEF Labels
  <2>9. QED
    BY <2>1, <2>3, <2>5, <2>6, <2>7, <2>8 DEF TypeOK
<1>3. \A a \in Agents : raw[a] = <<>>
  BY DEF Init
<1>4. QED
  BY <1>1, <1>2, <1>3 DEF Init, IInv, Control, Lengths, NoneCutOff, SavedRun,
     CallPending, RawIsOnDisk, RoundsBalanced, PartialIsLast,
     InterruptPromise, InLoop, Saving

\* The promise about Ctrl+C needs nothing but the control.
LEMMA PromiseStep ==
  ASSUME TypeOK, CallPending, InterruptPromise, [Next]_vars
  PROVE  CallPending' /\ InterruptPromise'
<1> USE DEF CallPending, InterruptPromise, TypeOK, At, Goto, Running, signal, report
<1>1. CASE NextTask
  BY <1>1 DEF NextTask
<1>2. CASE CountTask
  <2>1. progress'.completed = progress.completed + 1
    BY <1>2 DEF CountTask, Update
  <2>2. QED
    BY <1>2, <2>1 DEF CountTask
<1>3. CASE FirstSigint
  BY <1>3 DEF FirstSigint
<1>4. CASE /\ UNCHANGED <<interrupted, atInt, progress>>
           /\ pc' = pc \/ pc' \notin {"call", "count"} \/ pc = "call"
  BY <1>4
<1>5. QED
  BY <1>1, <1>2, <1>3, <1>4 DEF Next, Main, vars, Round, NextAgent, RunTask, SaveOpen,
     SaveWrite, AppendRaw, EndRound, EndPause, DoAggregate, SaveAggregate,
     Crash, SecondSigint

\* A step of the loops that leaves the saved runs alone.
LEMMA LoopStep ==
  ASSUME IInv, Round \/ NextAgent \/ NextTask \/ RunTask \/ CountTask
               \/ EndRound \/ EndPause
  PROVE  (Lengths /\ NoneCutOff /\ SavedRun)'
         /\ (RawIsOnDisk /\ RoundsBalanced /\ PartialIsLast)'
<1> USE DEF InLoop, Saving, At, Goto, Running, signal
<1>0. /\ NAgents \in Nat /\ Runs \in Nat /\ NTasks \in Nat
      /\ runIdx \in Nat /\ turn \in Nat
  BY SessionAssumption DEF NAgents, IInv, TypeOK
<1>a. /\ \A j \in 1..NAgents : Order(runIdx)[j] \in Agents
      /\ \A a \in Agents : \E j \in 1..NAgents : Order(runIdx)[j] = a
  BY <1>0, OrderPermutes
<1>1. UNCHANGED <<raw, disk, interrupted>>
  BY DEF Round, NextAgent, NextTask, RunTask, CountTask, EndRound, EndPause
<1>2. (RawIsOnDisk /\ RoundsBalanced /\ PartialIsLast)'
  BY <1>1 DEF IInv, RawIsOnDisk, RoundsBalanced, PartialIsLast
<1>3. NoneCutOff'
  <2>1. CASE pc' = "task" /\ pc = "agent"
    <3>1. ~interrupted
      BY <2>1 DEF Round, NextAgent, NextTask, RunTask, CountTask, EndRound, EndPause
    <3>2. \A a \in Agents : \A r \in 1..Len(raw[a]) : ~(Len(raw[a][r]) < NTasks)
      BY <3>1 DEF IInv, PartialIsLast
    <3>3. \A a \in Agents : \A r \in 1..Len(raw[a]) : Len(raw[a][r]) \in Nat
      BY DEF IInv, TypeOK
    <3>4. ASSUME NEW a \in Agents, NEW r \in 1..Len(raw[a])
          PROVE  Len(raw[a][r]) >= NTasks
      <4>1. PICK n : n = Len(raw[a][r])
        OBVIOUS
      <4>2. n \in Nat /\ ~(n < NTasks)
        BY <3>2, <3>3, <4>1
      <4>3. n >= NTasks
        BY ONLY <1>0, <4>2
      <4>4. QED
        BY <4>1, <4>3
    <3>5. QED
      BY <1>1, <3>4 DEF NoneCutOff
  <2>2. CASE ~(pc' = "task" /\ pc = "agent")
    <3>1. pc' \in InLoop => pc \in InLoop
      BY <2>2 DEF Round, NextAgent, NextTask, RunTask, CountTask, EndRound, EndPause
    <3>2. QED
      BY <1>1, <3>1 DEF IInv, NoneCutOff
  <2>3. QED
    BY <2>1, <2>2
<1>4. SavedRun'
  <2>1. pc' # "append"
    BY DEF Round, NextAgent, NextTask, RunTask, CountTask, EndRound, EndPause
  <2>2. pc' \in Saving => Len(records') = Len(records) /\ NextTask
    BY DEF Round, NextAgent, NextTask, RunTask, CountTask, EndRound, EndPause
  <2>3. QED
    BY <1>1, <2>1, <2>2 DEF SavedRun, NextTask
<1>5. Lengths'
  <2>1. CASE Round
    BY <1>0, <1>a, <1>1, <2>1 DEF IInv, Lengths, Round
  <2>2. CASE NextAgent
    <3>1. CASE turn > NAgents \/ interrupted
      BY <1>0, <1>a, <1>1, <2>2, <3>1 DEF IInv, Lengths, NextAgent
    <3>2. CASE ~(turn > NAgents \/ interrupted)
      BY <1>0, <1>1, <2>2, <3>2 DEF IInv, Lengths, NextAgent
    <3>3. QED
      BY <3>1, <3>2
  <2>3. CASE NextTask
    <3>1. CASE pc' = "agent"
      <4>1. interrupted /\ pc' # "round" /\ pc' # "endround" /\ pc' # "pause"
        BY <1>0, <2>3, <3>1, SessionAssumption DEF NextTask
      <4>2. QED
        BY <1>1, <3>1, <4>1 DEF Lengths
    <3>2. CASE pc' # "agent"
      BY <1>1, <2>3, <3>2 DEF IInv, Lengths, NextTask
    <3>3. QED
      BY <3>1, <3>2
  <2>4. CASE RunTask \/ CountTask
    BY <1>1, <2>4 DEF IInv, Lengths, RunTask, CountTask
  <2>5. CASE EndRound
    BY <1>0, <1>1, <2>5 DEF IInv, Lengths, EndRound
  <2>6. CASE EndPause
    BY <1>0, <1>1, <2>6 DEF IInv, Lengths, EndPause
  <2>7. QED
    BY <2>1, <2>2, <2>3, <2>4, <2>5, <2>6
<1>6. QED
  BY <1>2, <1>3, <1>4, <1>5

\* The lengths of the agents' runs while a run is being saved.
LEMMA LengthsWhileSaving ==
  ASSUME IInv, pc \in InLoop
  PROVE  /\ Current \in Agents /\ runIdx \in 1..Runs
         /\ Len(raw[Current]) = runIdx - 1
         /\ \A a \in Agents : Len(raw[a]) \in {runIdx - 1, runIdx}
<1>1. Current \in Agents /\ runIdx \in 1..Runs /\ turn \in 1..NAgents
  BY CurrentAgent DEF IInv
<1>2. \A a \in Agents : \E j \in 1..NAgents : Order(runIdx)[j] = a
  BY <1>1, OrderPermutes
<1>3. QED
  BY <1>1, <1>2 DEF IInv, Lengths, Current

\* Writing the file of the run in progress changes no file that was counted.
LEMMA SaveStep ==
  ASSUME IInv, SaveOpen \/ SaveWrite
  PROVE  (Lengths /\ NoneCutOff /\ SavedRun)'
         /\ (RawIsOnDisk /\ RoundsBalanced /\ PartialIsLast)'
<1> USE DEF InLoop, Saving, At, Goto, Running, signal
<1>1. /\ UNCHANGED <<raw, interrupted, records, runIdx, turn>>
      /\ pc \in {"open", "write"} /\ pc' \in {"write", "append"}
  BY DEF SaveOpen, SaveWrite
<1>2. /\ Current \in Agents /\ runIdx \in 1..Runs
      /\ Len(raw[Current]) = runIdx - 1
  BY <1>1, LengthsWhileSaving
<1>3. Current' = Current
  BY <1>1 DEF Current
<1>4. SavedRun'
  BY <1>1, <1>2, <1>3 DEF IInv, SavedRun, SaveOpen, SaveWrite, TypeOK
<1>5. RawIsOnDisk'
  <2>1. SUFFICES ASSUME NEW a \in Agents, NEW r \in 1..Len(raw[a])
                 PROVE  /\ r <= Runs
                        /\ disk'[a][r] = [state |-> "whole", recs |-> raw[a][r]]
    BY <1>1 DEF RawIsOnDisk
  <2>2. Len(raw[a]) \in Nat
    BY DEF IInv, TypeOK
  <2>3. r <= Runs /\ disk[a][r] = [state |-> "whole", recs |-> raw[a][r]]
    BY DEF IInv, RawIsOnDisk
  <2>4. ~(a = Current /\ r = runIdx)
    BY <1>2, <2>2
  <2>5. r \in 1..Runs
    BY <2>2, <2>3, SessionAssumption
  <2>6. PICK f : disk' = [disk EXCEPT ![Current][runIdx] = f]
    BY DEF SaveOpen, SaveWrite
  <2>7. disk'[a][r] = disk[a][r]
    BY <1>2, <2>4, <2>5, <2>6 DEF IInv, TypeOK
  <2>8. QED
    BY <2>3, <2>7
<1>6. (RoundsBalanced /\ PartialIsLast)'
  BY <1>1 DEF IInv, RoundsBalanced, PartialIsLast
<1>7. (Lengths /\ NoneCutOff)'
  BY <1>1 DEF IInv, Lengths, NoneCutOff
<1>8. QED
  BY <1>4, <1>5, <1>6, <1>7

\* Counting the run that was just saved: it is the run of this round, and it
\* misses tasks only if Ctrl+C cut it off.
LEMMA AppendStep ==
  ASSUME IInv, AppendRaw
  PROVE  (Lengths /\ NoneCutOff /\ SavedRun)'
         /\ (RawIsOnDisk /\ RoundsBalanced /\ PartialIsLast)'
<1> USE DEF InLoop, Saving, At, Goto, Running, signal
<1>0. NAgents \in Nat /\ Runs \in Nat /\ NTasks \in Nat
  BY SessionAssumption DEF NAgents
<1>1. /\ UNCHANGED <<disk, interrupted, records, runIdx>>
      /\ pc = "append" /\ pc' = "agent" /\ turn' = turn + 1
      /\ raw' = [raw EXCEPT ![Current] = Append(@, records)]
  BY DEF AppendRaw
<1>2. /\ Current \in Agents /\ runIdx \in 1..Runs
      /\ Len(raw[Current]) = runIdx - 1
      /\ \A a \in Agents : Len(raw[a]) \in {runIdx - 1, runIdx}
  BY <1>1, LengthsWhileSaving
<1>3. /\ raw \in [Agents -> Seq(Seq(Recs))] /\ records \in Seq(Recs)
      /\ turn \in 1..NAgents
  BY <1>0, <1>1 DEF IInv, TypeOK, Control
<1>4. /\ Len(raw'[Current]) = runIdx
      /\ raw'[Current][runIdx] = records
      /\ \A r \in 1..(runIdx - 1) : raw'[Current][r] = raw[Current][r]
      /\ \A a \in Agents \ {Current} : raw'[a] = raw[a]
  <2>1. raw'[Current] = Append(raw[Current], records)
    BY <1>1, <1>2, <1>3
  <2>2. raw[Current] \in Seq(Seq(Recs))
    BY <1>2, <1>3
  <2>3. QED
    BY <1>1, <1>2, <1>3, <2>1, <2>2
<1>5. ASSUME NEW a \in Agents, NEW r \in 1..Len(raw[a])
      PROVE  ~(Len(raw[a][r]) < NTasks)
  <2>1. Len(raw[a][r]) >= NTasks
    BY <1>1 DEF IInv, NoneCutOff
  <2>2. Len(raw[a][r]) \in Nat
    BY <1>3
  <2>3. QED
    BY <1>0, <2>1, <2>2
<1>6. RawIsOnDisk'
  <2>1. disk[Current][runIdx] = [state |-> "whole", recs |-> records]
    BY <1>1 DEF IInv, SavedRun
  <2>2. QED
    BY <1>0, <1>1, <1>2, <1>4, <2>1 DEF IInv, RawIsOnDisk
<1>7. RoundsBalanced'
  BY <1>2, <1>4 DEF RoundsBalanced
<1>8. PartialIsLast'
  <2>1. SUFFICES ASSUME NEW a \in Agents, NEW r \in 1..Len(raw'[a]),
                        Len(raw'[a][r]) < NTasks
                 PROVE  /\ interrupted /\ r = Len(raw'[a])
                        /\ \A b \in Agents : Len(raw'[b]) <= r
    BY <1>1 DEF PartialIsLast
  <2>2. a = Current /\ r = runIdx
    <3>1. a = Current
      BY <1>4, <1>5, <2>1
    <3>2. r \in 1..runIdx
      BY <1>4, <3>1
    <3>3. r \in 1..(runIdx - 1) => ~(Len(raw'[a][r]) < NTasks)
      BY <1>2, <1>4, <1>5, <3>1
    <3>4. QED
      BY <1>2, <2>1, <3>1, <3>2, <3>3
  <2>3. interrupted
    BY <1>1, <1>4, <2>1, <2>2 DEF IInv, SavedRun
  <2>4. QED
    BY <1>2, <1>4, <2>2, <2>3
<1>9. Lengths'
  <2>1. SUFFICES ASSUME NEW j \in 1..NAgents
                 PROVE  Len(raw'[Order(runIdx)[j]]) =
                        IF j < turn + 1 THEN runIdx ELSE runIdx - 1
    BY <1>1 DEF Lengths
  <2>2. Order(runIdx)[j] \in Agents /\ (Order(runIdx)[j] = Current => j = turn)
    <3>1. /\ Order(runIdx) \in [1..NAgents -> Agents]
          /\ \A i, k \in 1..NAgents :
               Order(runIdx)[i] = Order(runIdx)[k] => i = k
      BY <1>2, OrderPermutes
    <3>2. QED
      BY <1>3, <3>1 DEF Current
  <2>3. Len(raw[Order(runIdx)[j]]) = IF j < turn THEN runIdx ELSE runIdx - 1
    BY <1>1 DEF IInv, Lengths
  <2>4. CASE j = turn
    BY <1>4, <2>4 DEF Current
  <2>5. CASE j # turn
    BY <1>0, <1>3, <1>4, <2>2, <2>3, <2>5
  <2>6. QED
    BY <2>4, <2>5
<1>10. (NoneCutOff /\ SavedRun)'
  BY <1>1 DEF NoneCutOff, SavedRun
<1>11. QED
  BY <1>6, <1>7, <1>8, <1>9, <1>10

\* The steps after the loops, a crash and the two signals move no run.
LEMMA QuietStep ==
  ASSUME IInv, DoAggregate \/ SaveAggregate \/ Crash \/ FirstSigint
               \/ SecondSigint \/ UNCHANGED vars
  PROVE  (Lengths /\ NoneCutOff /\ SavedRun)'
         /\ (RawIsOnDisk /\ RoundsBalanced /\ PartialIsLast)'
<1>1. /\ UNCHANGED <<raw, disk, records, runIdx, turn>>
      /\ interrupted => interrupted'
      /\ pc' = pc \/ pc' \in {"aggopen", "aggwrite", "summary"}
  BY DEF DoAggregate, SaveAggregate, Crash, FirstSigint, SecondSigint, vars,
     At, Goto, signal
<1>2. Current' = Current
  BY <1>1 DEF Current
<1>3. (RawIsOnDisk /\ RoundsBalanced /\ PartialIsLast)'
  BY <1>1 DEF IInv, RawIsOnDisk, RoundsBalanced, PartialIsLast
<1>4. (NoneCutOff /\ SavedRun)'
  BY <1>1, <1>2 DEF IInv, NoneCutOff, SavedRun, InLoop, Saving
<1>5. Lengths'
  BY <1>1 DEF IInv, Lengths, InLoop
<1>6. QED
  BY <1>3, <1>4, <1>5

LEMMA NextIInv == IInv /\ [Next]_vars => IInv'
<1> SUFFICES ASSUME IInv, [Next]_vars PROVE IInv'
  OBVIOUS
<1>1. TypeOK' /\ Control'
  BY TypeStep DEF IInv
<1>2. CallPending' /\ InterruptPromise'
  BY PromiseStep DEF IInv
<1>3. /\ (Lengths /\ NoneCutOff /\ SavedRun)'
      /\ (RawIsOnDisk /\ RoundsBalanced /\ PartialIsLast)'
  BY LoopStep, SaveStep, AppendStep, QuietStep DEF Next, Main
<1>4. QED
  BY <1>1, <1>2, <1>3 DEF IInv

-----------------------------------------------------------------------------
(* What FlattenSeq concatenates. *)

\* f[i] is the concatenation of the first i sequences of s.
Sums(f, s, S) ==
  /\ f \in [0 .. Len(s) -> Seq(S)] /\ f[0] = <<>>
  /\ \A i \in 1 .. Len(s) : f[i] = f[i - 1] \o s[i]

\* The recursive function inside FlattenSeq exists.
LEMMA FlattenIs ==
  ASSUME NEW S, NEW s \in Seq(S), Len(s) # 0
  PROVE  \E f : /\ f = [i \in 1 .. Len(s) |-> IF i = 1 THEN s[i] ELSE f[i - 1] \o s[i]]
                /\ FlattenSeq(s) = f[Len(s)]
<1> DEFINE Def(f, i) == IF i = 1 THEN s[i] ELSE f[i - 1] \o s[i]
           Solved == {n \in Nat : \E f : f = [i \in 1 .. n |-> Def(f, i)]}
<1>1. 0 \in Solved
  <2> DEFINE f == [i \in 1 .. 0 |-> i]
  <2>1. f = [i \in 1 .. 0 |-> Def(f, i)]
    OBVIOUS
  <2>2. QED
    BY <2>1
<1>2. ASSUME NEW n \in 0 .. (Len(s) - 1), n \in Solved PROVE n + 1 \in Solved
  <2>1. PICK f : f = [i \in 1 .. n |-> Def(f, i)]
    BY <1>2
  <2> DEFINE g == [i \in 1 .. (n + 1) |-> IF i = n + 1 THEN Def(f, n + 1) ELSE f[i]]
  <2>0. \A i \in 1 .. n : f[i] = Def(f, i)
    BY <2>1
  <2>2. \A i \in 1 .. (n + 1) : g[i] = Def(g, i)
    <3> TAKE i \in 1 .. (n + 1)
    <3>1. CASE i = n + 1
      <4>1. g[i] = Def(f, i)
        BY <3>1
      <4>2. i # 1 => i - 1 \in 1 .. n /\ i - 1 # n + 1 /\ g[i - 1] = f[i - 1]
        BY <3>1
      <4>3. QED
        BY <4>1, <4>2
    <3>2. CASE i # n + 1
      <4>1. i \in 1 .. n /\ g[i] = f[i]
        BY <3>2
      <4>2. i # 1 => g[i - 1] = f[i - 1]
        BY <4>1
      <4>3. QED
        BY <2>0, <4>1, <4>2
    <3>3. QED
      BY <3>1, <3>2
  <2>3. g = [i \in 1 .. (n + 1) |-> Def(g, i)]
    BY <2>2
  <2>4. \E h : h = [i \in 1 .. (n + 1) |-> Def(h, i)]
    <3> WITNESS g
    <3> QED
      BY <2>3
  <2>5. n + 1 \in Nat
    BY <1>2
  <2>6. QED
    BY <2>4, <2>5, Zenon
<1>3. Len(s) \in Nat
  BY LenProperties
<1>4. Len(s) \in Solved
  <2> HIDE DEF Solved
  <2>1. \A i \in 0 .. Len(s) : i \in Solved
    BY <1>1, <1>2, <1>3, UpTo
  <2>2. QED
    BY <1>3, <2>1
<1>5. \E f : f = [i \in 1 .. Len(s) |-> Def(f, i)]
  BY <1>4
<1> DEFINE c == CHOOSE f : f = [i \in 1 .. Len(s) |-> Def(f, i)]
<1>6. c = [i \in 1 .. Len(s) |-> Def(c, i)]
  BY <1>5
<1>7. FlattenSeq(s) = c[Len(s)]
  BY DEF FlattenSeq
<1>8. QED
  BY <1>6, <1>7

LEMMA FlattenSums ==
  ASSUME NEW S, NEW s \in Seq(Seq(S))
  PROVE  \E f : Sums(f, s, S) /\ FlattenSeq(s) = f[Len(s)]
<1>1. Len(s) \in Nat /\ \A i \in 1 .. Len(s) : s[i] \in Seq(S)
  BY LenProperties, ElementOfSeq
<1>2. CASE Len(s) = 0
  <2> DEFINE f == [i \in 0 .. 0 |-> <<>>]
  <2>1. s = <<>> /\ <<>> \in Seq(S)
    BY <1>2, EmptySeq
  <2>2. FlattenSeq(s) = f[0] /\ f[0] = <<>>
    BY <1>2, <2>1 DEF FlattenSeq
  <2>3. Sums(f, s, S)
    BY <1>2, <2>1 DEF Sums
  <2>4. QED
    BY <1>2, <2>2, <2>3
<1>3. CASE Len(s) # 0
  <2>1. PICK c : /\ c = [i \in 1 .. Len(s) |-> IF i = 1 THEN s[i] ELSE c[i - 1] \o s[i]]
                 /\ FlattenSeq(s) = c[Len(s)]
    BY <1>3, FlattenIs
  <2>2. \A i \in 1 .. Len(s) : c[i] = IF i = 1 THEN s[i] ELSE c[i - 1] \o s[i]
    BY <2>1
  <2> DEFINE f == [i \in 0 .. Len(s) |-> IF i = 0 THEN <<>> ELSE c[i]]
  <2>3. f[0] = <<>> /\ \A i \in 1 .. Len(s) : f[i] = c[i]
    BY <1>1
  <2>4. \A i \in 1 .. Len(s) : f[i] = f[i - 1] \o s[i]
    <3> TAKE i \in 1 .. Len(s)
    <3>1. CASE i = 1
      <4>1. s[i] = <<>> \o s[i]
        BY <1>1, ConcatEmptySeq
      <4>2. f[i - 1] = <<>> /\ f[i] = s[i]
        BY <2>2, <2>3, <3>1
      <4>3. QED
        BY <4>1, <4>2
    <3>2. CASE i # 1
      <4>1. i - 1 \in 1 .. Len(s)
        BY <1>1, <3>2
      <4>2. f[i - 1] = c[i - 1] /\ f[i] = c[i - 1] \o s[i]
        BY <2>2, <2>3, <3>2, <4>1
      <4>3. QED
        BY <4>2
    <3>3. QED
      BY <3>1, <3>2
  <2>5. DOMAIN f = 0 .. Len(s) /\ f = [i \in 0 .. Len(s) |-> f[i]]
    OBVIOUS
  <2>a. f[Len(s)] = c[Len(s)]
    BY <1>1, <1>3, <2>3
  <2> HIDE DEF f
  <2> DEFINE P == {i \in 0 .. Len(s) : f[i] \in Seq(S)}
  <2>6. 0 \in P
    <3>1. <<>> \in Seq(S)
      BY EmptySeq
    <3>2. 0 \in 0 .. Len(s) /\ f[0] \in Seq(S)
      BY <1>1, <2>3, <3>1
    <3>3. QED
      BY <3>2
  <2>7. ASSUME NEW i \in 0 .. (Len(s) - 1), i \in P PROVE i + 1 \in P
    <3>1. i + 1 \in 1 .. Len(s) /\ i + 1 \in 0 .. Len(s) /\ (i + 1) - 1 = i
      BY <1>1
    <3>2. f[i + 1] = f[i] \o s[i + 1]
      BY <2>4, <3>1
    <3>3. f[i] \in Seq(S) /\ s[i + 1] \in Seq(S)
      BY <1>1, <2>7, <3>1
    <3>4. f[i + 1] \in Seq(S)
      BY <3>2, <3>3, ConcatProperties
    <3>5. QED
      BY <3>1, <3>4
  <2>8. \A i \in 0 .. Len(s) : i \in P
    <3> HIDE DEF P
    <3>1. QED
      BY <1>1, <2>6, <2>7, UpTo
  <2>9. f \in [0 .. Len(s) -> Seq(S)]
    BY <2>5, <2>8
  <2>10. QED
    BY <2>1, <2>3, <2>4, <2>9, <2>a DEF Sums
<1>4. QED
  BY <1>2, <1>3

\* Two sequences that begin alike have the same sums up to there.
LEMMA SumsOfHead ==
  ASSUME NEW S, NEW s, NEW p, NEW f, NEW g, Sums(f, s, S), Sums(g, p, S),
         NEW k \in Nat, k <= Len(s), k <= Len(p), Len(s) \in Nat, Len(p) \in Nat,
         \A i \in 1 .. k : s[i] = p[i]
  PROVE  f[k] = g[k]
<1> DEFINE P == {i \in 0 .. k : f[i] = g[i]}
<1>1. 0 \in P
  BY DEF Sums
<1>2. ASSUME NEW i \in 0 .. (k - 1), i \in P PROVE i + 1 \in P
  <2>1. /\ i + 1 \in 1 .. Len(s) /\ i + 1 \in 1 .. Len(p) /\ i + 1 \in 1 .. k
        /\ (i + 1) - 1 = i
    OBVIOUS
  <2>2. f[i + 1] = f[i] \o s[i + 1] /\ g[i + 1] = g[i] \o p[i + 1]
    BY <2>1 DEF Sums
  <2>3. f[i] = g[i] /\ s[i + 1] = p[i + 1]
    BY <1>2, <2>1
  <2>4. f[i + 1] = g[i + 1] /\ i + 1 \in 0 .. k
    BY <2>1, <2>2, <2>3
  <2>5. QED
    BY <2>4
<1>3. \A i \in 0 .. k : i \in P
  <2> HIDE DEF P
  <2>1. QED
    BY <1>1, <1>2, UpTo
<1>4. QED
  BY <1>3

\* Empty sequences at the end add nothing.
LEMMA SumsOfTail ==
  ASSUME NEW S, NEW s, NEW f, Sums(f, s, S), Len(s) \in Nat,
         NEW k \in 0 .. Len(s), \A i \in (k + 1) .. Len(s) : s[i] = <<>>
  PROVE  f[Len(s)] = f[k]
<1> DEFINE P == {i \in 0 .. (Len(s) - k) : f[k + i] = f[k]}
<1>1. 0 \in P
  OBVIOUS
<1>2. ASSUME NEW i \in 0 .. ((Len(s) - k) - 1), i \in P PROVE i + 1 \in P
  <2>1. /\ k + (i + 1) \in 1 .. Len(s) /\ k + (i + 1) \in (k + 1) .. Len(s)
        /\ (k + (i + 1)) - 1 = k + i /\ k + i \in 0 .. Len(s)
        /\ i + 1 \in 0 .. (Len(s) - k)
    OBVIOUS
  <2>2. f[k + (i + 1)] = f[k + i] \o s[k + (i + 1)] /\ s[k + (i + 1)] = <<>>
        /\ f[k + i] \in Seq(S)
    BY <2>1 DEF Sums
  <2>3. f[k + (i + 1)] = f[k + i]
    BY <2>2, ConcatEmptySeq
  <2>4. QED
    BY <1>2, <2>1, <2>3
<1>3. \A i \in 0 .. (Len(s) - k) : i \in P
  <2>1. Len(s) - k \in Nat
    OBVIOUS
  <2> HIDE DEF P
  <2>2. QED
    BY <1>1, <1>2, <2>1, UpTo
<1>4. Len(s) - k \in P /\ k + (Len(s) - k) = Len(s)
  BY <1>3
<1>5. QED
  BY <1>4

\* Sequences that agree up to k, with nothing after it, are concatenated to the
\* same.
LEMMA FlattenAgrees ==
  ASSUME NEW S, NEW s \in Seq(Seq(S)), NEW p \in Seq(Seq(S)),
         NEW k \in Nat, k <= Len(s), k <= Len(p),
         \A i \in 1 .. k : s[i] = p[i],
         \A i \in (k + 1) .. Len(s) : s[i] = <<>>,
         \A i \in (k + 1) .. Len(p) : p[i] = <<>>
  PROVE  FlattenSeq(s) = FlattenSeq(p)
<1>1. Len(s) \in Nat /\ Len(p) \in Nat
  BY LenProperties
<1>2. PICK f : Sums(f, s, S) /\ FlattenSeq(s) = f[Len(s)]
  BY FlattenSums
<1>3. PICK g : Sums(g, p, S) /\ FlattenSeq(p) = g[Len(p)]
  BY FlattenSums
<1>4. f[k] = g[k]
  BY <1>1, <1>2, <1>3, SumsOfHead
<1>5. f[Len(s)] = f[k] /\ g[Len(p)] = g[k]
  <2>1. k \in 0 .. Len(s) /\ k \in 0 .. Len(p)
    BY <1>1
  <2>2. f[Len(s)] = f[k]
    BY <1>1, <1>2, <2>1, SumsOfTail
  <2>3. g[Len(p)] = g[k]
    BY <1>1, <1>3, <2>1, SumsOfTail
  <2>4. QED
    BY <2>2, <2>3
<1>6. QED
  BY <1>2, <1>3, <1>4, <1>5

\* Filling the place behind the last sequence that is not empty appends to the
\* concatenation.
LEMMA FlattenAdds ==
  ASSUME NEW S, NEW s \in Seq(Seq(S)), NEW p \in Seq(Seq(S)),
         NEW k \in 1 .. Len(s), Len(p) = Len(s),
         \A i \in 1 .. (k - 1) : s[i] = p[i],
         \A i \in k .. Len(s) : s[i] = <<>>,
         \A i \in (k + 1) .. Len(p) : p[i] = <<>>
  PROVE  FlattenSeq(p) = FlattenSeq(s) \o p[k] /\ FlattenSeq(s) \in Seq(S)
<1>1. Len(s) \in Nat /\ Len(p) \in Nat
  BY LenProperties
<1>2. PICK f : Sums(f, s, S) /\ FlattenSeq(s) = f[Len(s)]
  BY FlattenSums
<1>3. PICK g : Sums(g, p, S) /\ FlattenSeq(p) = g[Len(p)]
  BY FlattenSums
<1>4. PICK j \in Nat : j = k - 1
  BY <1>1
<1>5. /\ j <= Len(s) /\ j <= Len(p) /\ j \in 0 .. Len(s) /\ k \in 0 .. Len(p)
      /\ j + 1 = k /\ k \in 1 .. Len(p)
  BY <1>1, <1>4
<1>a. Sums(f, s, S) /\ Sums(g, p, S)
  BY <1>2, <1>3
<1>b. \A i \in 1 .. j : s[i] = p[i]
  BY <1>4
<1>c. \A i \in (j + 1) .. Len(s) : s[i] = <<>>
  BY <1>5
<1>6. f[j] = g[j]
  BY ONLY <1>1, <1>4, <1>5, <1>a, <1>b, SumsOfHead
<1>7. f[Len(s)] = f[j]
  <2>1. j \in 0 .. Len(s)
    BY <1>5
  <2>2. QED
    BY ONLY <1>1, <1>a, <1>c, <2>1, SumsOfTail
<1>d. \A i \in (k + 1) .. Len(p) : p[i] = <<>>
  OBVIOUS
<1>8. g[Len(p)] = g[k]
  BY ONLY <1>1, <1>5, <1>a, <1>d, SumsOfTail
<1>9. g[k] = g[j] \o p[k]
  BY <1>3, <1>4, <1>5 DEF Sums
<1>10. f[Len(s)] \in Seq(S)
  <2>1. Len(s) \in 0 .. Len(s)
    BY <1>1
  <2>2. QED
    BY <1>a, <2>1 DEF Sums
<1>11. QED
  BY <1>2, <1>3, <1>6, <1>7, <1>8, <1>9, <1>10
-----------------------------------------------------------------------------
(* The counters on the console, the files and the aggregate. *)

\* The files d of an agent, as the sequences of records that are pooled.
FileOf == [state : {"absent", "torn", "whole"}, recs : Seq(Recs)]
FilesOf(d) == [r \in 1..Runs |-> IF d[r].state = "whole" THEN d[r].recs ELSE <<>>]
Files(a) == FilesOf(disk[a])

\* A whole file is of a run that was counted, or of the one about to be.
FilesAreRuns ==
  \A a \in Agents : \A r \in 1..Runs : disk[a][r].state = "whole" =>
    r <= Len(raw[a]) \/ (pc = "append" /\ a = Current /\ r = runIdx)

\* What is written at the end is the aggregate of all runs.
AggregateIsMade ==
  /\ pc \in {"aggopen", "aggwrite", "summary"} => agg = Aggregate
  /\ exit = "ok" => pc = "summary"

KInv == IInv /\ FilesAreRuns /\ AggregateIsMade /\ NothingForgotten

LEMMA FilesAreSequences ==
  ASSUME NEW d \in [1..Runs -> FileOf]
  PROVE  /\ FilesOf(d) \in Seq(Seq(Recs)) /\ Len(FilesOf(d)) = Runs /\ Runs \in Nat
         /\ FlattenSeq(FilesOf(d)) \in Seq(Recs)
<1>1. Runs \in Nat
  BY SessionAssumption
<1>2. \A r \in 1..Runs : FilesOf(d)[r] \in Seq(Recs)
  <2>1. TAKE r \in 1..Runs
  <2>2. d[r].recs \in Seq(Recs) /\ <<>> \in Seq(Recs)
    BY EmptySeq DEF FileOf
  <2>3. QED
    BY <2>2 DEF FilesOf
<1>3. FilesOf(d) \in [1..Runs -> Seq(Recs)]
  BY <1>2 DEF FilesOf
<1>4. FilesOf(d) \in Seq(Seq(Recs)) /\ Len(FilesOf(d)) = Runs
  BY <1>1, <1>3
<1>5. PICK f : Sums(f, FilesOf(d), Recs) /\ FlattenSeq(FilesOf(d)) = f[Len(FilesOf(d))]
  BY <1>4, FlattenSums
<1>6. Len(FilesOf(d)) \in 0 .. Len(FilesOf(d))
  BY <1>1, <1>4
<1>7. QED
  BY <1>1, <1>4, <1>5, <1>6 DEF Sums

LEMMA FilesArePooled ==
  ASSUME TypeOK, NEW a \in Agents
  PROVE  /\ Files(a) \in Seq(Seq(Recs)) /\ Len(Files(a)) = Runs /\ Runs \in Nat
         /\ Pooled(a) = FlattenSeq(Files(a)) /\ Pooled(a) \in Seq(Recs)
<1>1. disk \in [Agents -> [1..Runs -> FileOf]]
  BY DEF TypeOK, FileOf
<1>2. disk[a] \in [1..Runs -> FileOf]
  BY <1>1
<1>3. Pooled(a) = FlattenSeq(FilesOf(disk[a]))
  BY DEF Pooled, FilesOf
<1>4. QED
  BY <1>2, <1>3, FilesAreSequences DEF Files, FilesOf

LEMMA HeldRecords ==
  ASSUME TypeOK, Control, NEW a \in Agents
  PROVE  Held(a) \in Seq(Recs)
BY LastRecord DEF TypeOK, Control, Held

\* One more record is counted once, and once more if it is resolved.
LEMMA ResolvedAppends ==
  ASSUME NEW s \in Seq(Recs), NEW rec \in Recs
  PROVE  /\ Cardinality(Resolved(s)) \in Nat
         /\ Cardinality(Resolved(Append(s, rec)))
              = Cardinality(Resolved(s)) + One(rec.out.resolved)
<1>1. Len(s) \in Nat /\ DOMAIN s = 1..Len(s)
  BY LenProperties
<1>2. IsFiniteSet(Resolved(s)) /\ Cardinality(Resolved(s)) \in Nat
  <2>1. IsFiniteSet(1..Len(s))
    BY <1>1, FS_Interval
  <2>2. Resolved(s) \in SUBSET (1..Len(s))
    BY <1>1 DEF Resolved
  <2>3. IsFiniteSet(Resolved(s))
    BY <2>1, <2>2, FS_Subset
  <2>4. QED
    BY <2>3, FS_CardinalityType
<1>3. PICK t : t = Append(s, rec)
  OBVIOUS
<1>4. /\ Len(s) + 1 \in Nat /\ DOMAIN t = 1..(Len(s) + 1) /\ t[Len(s) + 1] = rec
      /\ \A i \in 1..Len(s) : t[i] = s[i]
  BY <1>1, <1>3, AppendProperties
<1>5. Len(s) + 1 \notin Resolved(s)
  BY <1>1 DEF Resolved
<1>6. CASE rec.out.resolved
  <2>1. Resolved(t) = Resolved(s) \cup {Len(s) + 1}
    BY <1>1, <1>4, <1>6 DEF Resolved
  <2>2. Cardinality(Resolved(t)) = Cardinality(Resolved(s)) + 1
    BY <1>2, <1>5, <2>1, FS_AddElement
  <2>3. QED
    BY <1>2, <1>3, <1>6, <2>2 DEF One
<1>7. CASE ~rec.out.resolved
  <2>1. Resolved(t) = Resolved(s)
    BY <1>1, <1>4, <1>7 DEF Resolved
  <2>2. QED
    BY <1>2, <1>3, <1>7, <2>1 DEF One
<1>8. QED
  BY <1>6, <1>7

\* A record that run_task returned is not counted at once.
LEMMA RunTaskCounts ==
  ASSUME IInv, NothingForgotten, RunTask
  PROVE  NothingForgotten'
<1>1. /\ pc = "call" /\ pc' = "count" /\ UNCHANGED <<runIdx, turn, disk, progress>>
      /\ \E o \in Outcomes :
            records' = Append(records, [task |-> Len(records) + 1, out |-> o])
  BY DEF RunTask, At, Goto
<1>2. records \in Seq(Recs) /\ Len(records) \in Nat
  BY LenProperties DEF IInv, TypeOK
<1>3. Front(records') = records
  <2>1. PICK rec : records' = Append(records, rec)
    BY <1>1
  <2>2. Len(Append(records, rec)) - 1 = Len(records)
    BY <1>2, AppendProperties
  <2>3. SubSeq(Append(records, rec), 1, Len(records)) = records
    BY <1>2
  <2>4. QED
    BY <2>1, <2>2, <2>3 DEF Front
<1>4. \A a \in Agents : Held(a)' = Held(a) /\ Pooled(a)' = Pooled(a)
  BY <1>1, <1>3 DEF Held, Pooled, Current
<1>5. QED
  BY <1>1, <1>4 DEF NothingForgotten

\* The counters hear of the last record of the run in progress.
LEMMA CountTaskCounts ==
  ASSUME IInv, NothingForgotten, CountTask
  PROVE  NothingForgotten'
<1>1. pc = "count" /\ pc' = "task" /\ UNCHANGED <<runIdx, turn, disk, records>>
  BY DEF CountTask, At, Goto
<1>2. PICK rec, before, o : rec = Last(records) /\ before = Front(records) /\ o = rec.out
  OBVIOUS
<1>3. /\ rec \in Recs /\ o \in Outcomes /\ before \in Seq(Recs)
      /\ records = Append(before, rec) /\ progress' = Update(progress, Current, o)
  BY <1>1, <1>2, LastRecord DEF IInv, TypeOK, Control, CountTask
<1>4. Current \in Agents /\ Current' = Current
  BY <1>1, CurrentAgent DEF IInv, InLoop, Current
<1>6. o.resolved \in BOOLEAN
  BY <1>3, SessionAssumption
<1>7. /\ progress.completed \in Nat /\ progress.resolved \in Nat
      /\ progress.failed \in Nat /\ progress.errors \in Nat
      /\ progress.agentTotal \in [Agents -> Nat]
      /\ progress.agentResolved \in [Agents -> Nat]
  BY DEF IInv, TypeOK
<1>8. /\ progress'.completed = progress.completed + 1
      /\ progress'.resolved = progress.resolved + One(o.resolved)
      /\ progress'.errors = progress.errors + One(~o.resolved /\ o.kind = "error")
      /\ progress'.failed = progress.failed + One(~o.resolved /\ o.kind # "error")
      /\ progress'.agentTotal = [progress.agentTotal EXCEPT ![Current] = @ + 1]
      /\ progress'.agentResolved
           = [progress.agentResolved EXCEPT ![Current] = @ + One(o.resolved)]
  BY <1>3 DEF Update
<1>9. progress'.completed = progress'.resolved + progress'.failed + progress'.errors
  <2>1. progress.completed = progress.resolved + progress.failed + progress.errors
    BY DEF NothingForgotten
  <2>2. CASE o.resolved
    BY <1>7, <1>8, <2>1, <2>2 DEF One
  <2>3. CASE ~o.resolved /\ o.kind = "error"
    BY <1>7, <1>8, <2>1, <2>3 DEF One
  <2>4. CASE ~o.resolved /\ o.kind # "error"
    BY <1>7, <1>8, <2>1, <2>4 DEF One
  <2>5. QED
    BY <2>2, <2>3, <2>4
<1>10. ASSUME NEW a \in Agents
       PROVE  LET known == (Pooled(a) \o Held(a))' IN
              /\ progress'.agentTotal[a] = Len(known)
              /\ progress'.agentResolved[a] = Cardinality(Resolved(known))
  <2>1. Pooled(a)' = Pooled(a)
    BY <1>1 DEF Pooled
  <2>2. PICK known : known = Pooled(a) \o Held(a)
    OBVIOUS
  <2>3. Pooled(a) \in Seq(Recs) /\ Held(a) \in Seq(Recs)
    BY FilesArePooled, HeldRecords DEF IInv
  <2>4. known \in Seq(Recs)
    BY <2>2, <2>3, ConcatProperties
  <2>5. /\ progress.agentTotal[a] = Len(known)
        /\ progress.agentResolved[a] = Cardinality(Resolved(known))
    BY <2>2 DEF NothingForgotten
  <2>6. CASE a = Current
    <3>1. Held(a) = before /\ Held(a)' = Append(before, rec)
      BY <1>1, <1>2, <1>3, <1>4, <2>6 DEF Held
    <3>2. Pooled(a) \o Append(before, rec) = Append(Pooled(a) \o before, rec)
      BY <1>3, <2>3
    <3>3. (Pooled(a) \o Held(a))' = Append(known, rec)
      BY <2>1, <2>2, <3>1, <3>2
    <3>4. Len(Append(known, rec)) = Len(known) + 1
      BY <1>3, <2>4, AppendProperties
    <3>5. Cardinality(Resolved(Append(known, rec)))
            = Cardinality(Resolved(known)) + One(o.resolved)
      BY <1>2, <1>3, <2>4, ResolvedAppends
    <3>6. /\ progress'.agentTotal[a] = progress.agentTotal[a] + 1
          /\ progress'.agentResolved[a] = progress.agentResolved[a] + One(o.resolved)
      BY <1>4, <1>7, <1>8, <2>6
    <3>7. QED
      BY <2>5, <3>3, <3>4, <3>5, <3>6
  <2>7. CASE a # Current
    <3>1. Held(a)' = Held(a)
      BY <1>1, <1>4, <2>7 DEF Held
    <3>2. /\ progress'.agentTotal[a] = progress.agentTotal[a]
          /\ progress'.agentResolved[a] = progress.agentResolved[a]
      BY <1>4, <1>7, <1>8, <2>7
    <3>3. QED
      BY <2>1, <2>2, <2>5, <3>1, <3>2
  <2>8. QED
    BY <2>6, <2>7
<1>11. QED
  BY <1>9, <1>10 DEF NothingForgotten

\* Opening the file of a run drops no file: there was none of that run.
LEMMA OpenCounts ==
  ASSUME IInv, FilesAreRuns, NothingForgotten, SaveOpen
  PROVE  NothingForgotten' /\ FilesAreRuns'
<1>1. /\ pc = "open" /\ pc' = "write" /\ UNCHANGED <<runIdx, turn, records, raw, progress>>
      /\ disk' = [disk EXCEPT ![Current][runIdx] = [state |-> "torn", recs |-> <<>>]]
  BY DEF SaveOpen, At, Goto, signal
<1>2. /\ Current \in Agents /\ runIdx \in 1..Runs /\ Len(raw[Current]) = runIdx - 1
      /\ Current' = Current
  BY <1>1, LengthsWhileSaving DEF InLoop, Current
<1>3. \A a \in Agents, r \in 1..Runs :
        disk'[a][r] = IF a = Current /\ r = runIdx
                      THEN [state |-> "torn", recs |-> <<>>] ELSE disk[a][r]
  BY <1>1, <1>2 DEF IInv, TypeOK
<1>4. disk[Current][runIdx].state # "whole"
  BY <1>1, <1>2 DEF FilesAreRuns
<1>5. \A a \in Agents : Pooled(a)' = Pooled(a) /\ Held(a)' = Held(a)
  <2>1. TAKE a \in Agents
  <2>2. Files(a)' = Files(a)
    BY <1>3, <1>4 DEF Files, FilesOf
  <2>3. Pooled(a)' = Pooled(a)
    BY <2>2 DEF Pooled, Files, FilesOf
  <2>4. Held(a)' = Held(a)
    BY <1>1, <1>2 DEF Held
  <2>5. QED
    BY <2>3, <2>4
<1>6. FilesAreRuns'
  BY <1>1, <1>3 DEF FilesAreRuns
<1>7. QED
  BY <1>1, <1>5, <1>6 DEF NothingForgotten

\* When the file of a run is whole its records move from the hands of the
\* session to the end of what is pooled.
LEMMA WriteCounts ==
  ASSUME IInv, FilesAreRuns, NothingForgotten, SaveWrite
  PROVE  NothingForgotten' /\ FilesAreRuns'
<1>1. /\ pc = "write" /\ pc' = "append" /\ UNCHANGED <<runIdx, turn, records, raw, progress>>
      /\ disk' = [disk EXCEPT ![Current][runIdx] = [state |-> "whole", recs |-> records]]
  BY DEF SaveWrite, At, Goto, signal
<1>2. /\ Current \in Agents /\ runIdx \in 1..Runs /\ Len(raw[Current]) = runIdx - 1
      /\ Current' = Current
  BY <1>1, LengthsWhileSaving DEF InLoop, Current
<1>3. \A a \in Agents, r \in 1..Runs :
        disk'[a][r] = IF a = Current /\ r = runIdx
                      THEN [state |-> "whole", recs |-> records] ELSE disk[a][r]
  BY <1>1, <1>2 DEF IInv, TypeOK
<1>4. FilesAreRuns'
  <2>1. \A a \in Agents, r \in 1..Runs : disk[a][r].state = "whole" => r <= Len(raw[a])
    BY <1>1 DEF FilesAreRuns
  <2>2. QED
    BY <1>1, <1>2, <1>3, <2>1 DEF FilesAreRuns
<1>5. ASSUME NEW a \in Agents
      PROVE  (Pooled(a) \o Held(a))' = Pooled(a) \o Held(a)
  <2>1. CASE a # Current
    <3>1. Files(a)' = Files(a)
      BY <1>3, <2>1 DEF Files, FilesOf
    <3>2. Pooled(a)' = Pooled(a)
      BY <3>1 DEF Pooled, Files, FilesOf
    <3>3. Held(a)' = Held(a)
      BY <1>1, <1>2, <2>1 DEF Held
    <3>4. QED
      BY <3>2, <3>3
  <2>2. CASE a = Current
    <3>1. /\ Files(a) \in Seq(Seq(Recs)) /\ Len(Files(a)) = Runs /\ Runs \in Nat
          /\ Pooled(a) = FlattenSeq(Files(a))
      BY FilesArePooled DEF IInv
    <3>2. PICK s : s = Files(a)
      OBVIOUS
    <3>3. PICK p : p = Files(a)'
      OBVIOUS
    <3>4. /\ p \in Seq(Seq(Recs)) /\ Len(p) = Runs
          /\ Pooled(a)' = FlattenSeq(p) /\ Pooled(a)' \in Seq(Recs)
      <4>1. TypeOK'
        BY TypeStep DEF IInv, Next, Main
      <4>2. disk' \in [Agents -> [1..Runs -> FileOf]]
        BY <4>1 DEF TypeOK, FileOf
      <4>3. disk'[a] \in [1..Runs -> FileOf]
        BY <4>2
      <4>4. p = FilesOf(disk'[a]) /\ Pooled(a)' = FlattenSeq(FilesOf(disk'[a]))
        BY <3>3 DEF Files, FilesOf, Pooled
      <4>5. QED
        BY <4>3, <4>4, FilesAreSequences
    <3>5. \A r \in 1..Runs : s[r] = IF disk[a][r].state = "whole"
                                    THEN disk[a][r].recs ELSE <<>>
      BY <3>2 DEF Files, FilesOf
    <3>6. \A r \in 1..Runs : p[r] = IF r = runIdx THEN records ELSE s[r]
      <4>1. TAKE r \in 1..Runs
      <4>2. p[r] = IF disk'[a][r].state = "whole" THEN disk'[a][r].recs ELSE <<>>
        BY <3>3 DEF Files, FilesOf
      <4>3. CASE r = runIdx
        BY <1>3, <2>2, <4>2, <4>3
      <4>4. CASE r # runIdx
        BY <1>3, <2>2, <3>5, <4>2, <4>4
      <4>5. QED
        BY <4>3, <4>4
    <3>7. \A r \in runIdx..Runs : s[r] = <<>>
      <4>1. TAKE r \in runIdx..Runs
      <4>2. r \in 1..Runs /\ ~(r <= runIdx - 1)
        BY <1>2, <3>1
      <4>3. disk[a][r].state # "whole"
        BY <1>1, <1>2, <2>2, <4>2 DEF FilesAreRuns
      <4>4. QED
        BY <3>5, <4>2, <4>3
    <3>8. /\ \A r \in 1..(runIdx - 1) : s[r] = p[r]
          /\ \A r \in (runIdx + 1)..Runs : p[r] = <<>>
          /\ p[runIdx] = records
      <4>1. runIdx \in 1..Runs /\ Runs \in Nat
        BY <1>2, <3>1
      <4>2. \A r \in 1..(runIdx - 1) : r \in 1..Runs /\ r # runIdx
        BY <4>1
      <4>3. \A r \in (runIdx + 1)..Runs : r \in 1..Runs /\ r # runIdx /\ r \in runIdx..Runs
        BY <4>1
      <4>4. QED
        BY <3>6, <3>7, <4>1, <4>2, <4>3
    <3>9. s \in Seq(Seq(Recs)) /\ Len(s) = Runs /\ Len(p) = Len(s) /\ runIdx \in 1..Len(s)
      BY <1>2, <3>1, <3>2, <3>4
    <3>10. FlattenSeq(p) = FlattenSeq(s) \o p[runIdx]
      BY ONLY <3>4, <3>7, <3>8, <3>9, FlattenAdds
    <3>11. Held(a) = records /\ Held(a)' = <<>>
      BY <1>1, <1>2, <2>2 DEF Held
    <3>12. Pooled(a)' \o <<>> = Pooled(a)'
      BY <3>4, ConcatEmptySeq
    <3>13. QED
      BY <3>1, <3>2, <3>4, <3>8, <3>10, <3>11, <3>12
  <2>3. QED
    BY <2>1, <2>2
<1>6. QED
  BY <1>1, <1>4, <1>5 DEF NothingForgotten

\* The other steps change no counter, no file and no record in hand.
LEMMA OthersCount ==
  ASSUME IInv, FilesAreRuns, NothingForgotten,
         \/ Round \/ NextAgent \/ NextTask \/ AppendRaw \/ EndRound \/ EndPause
         \/ DoAggregate \/ SaveAggregate \/ Crash \/ FirstSigint \/ SecondSigint
         \/ UNCHANGED vars
  PROVE  NothingForgotten' /\ FilesAreRuns'
<1> USE DEF At, Goto, signal
<1>1. UNCHANGED <<disk, progress>>
  BY DEF Round, NextAgent, NextTask, AppendRaw, EndRound, EndPause, DoAggregate,
     SaveAggregate, Crash, FirstSigint, SecondSigint, vars
<1>2. ASSUME NEW a \in Agents
      PROVE  Held(a)' = Held(a)
  <2>1. CASE NextTask
    <3>1. pc = "task" /\ UNCHANGED <<runIdx, records>>
      BY <2>1 DEF NextTask
    <3>2. CASE turn' = turn /\ pc' \in {"call", "open"}
      <4>1. Current' = Current
        BY <3>1, <3>2 DEF Current
      <4>2. QED
        BY <3>1, <3>2, <4>1 DEF Held
    <3>3. CASE records = <<>> /\ pc' = "agent"
      BY <3>1, <3>3 DEF Held
    <3>4. QED
      BY <2>1, <3>2, <3>3 DEF NextTask
  <2>2. CASE NextAgent
    <3>1. pc = "agent" /\ (pc' = "endround" \/ (pc' = "task" /\ records' = <<>>))
      BY <2>2 DEF NextAgent
    <3>2. QED
      BY <3>1 DEF Held
  <2>3. CASE Crash \/ FirstSigint \/ SecondSigint \/ UNCHANGED vars
    <3>1. UNCHANGED <<pc, runIdx, turn, records>>
      BY <2>3 DEF Crash, FirstSigint, SecondSigint, vars
    <3>2. Current' = Current
      BY <3>1 DEF Current
    <3>3. QED
      BY <3>1, <3>2 DEF Held
  <2>4. CASE Round \/ AppendRaw \/ EndRound \/ EndPause \/ DoAggregate \/ SaveAggregate
    <3>1. /\ pc \notin {"task", "call", "count", "open", "write"}
          /\ pc' \notin {"task", "call", "count", "open", "write"}
      BY <2>4 DEF Round, AppendRaw, EndRound, EndPause, DoAggregate, SaveAggregate
    <3>2. QED
      BY <3>1 DEF Held
  <2>5. QED
    BY <2>1, <2>2, <2>3, <2>4
<1>3. \A a \in Agents : Pooled(a)' = Pooled(a)
  BY <1>1 DEF Pooled
<1>4. FilesAreRuns'
  <2>1. CASE AppendRaw
    <3>1. /\ pc = "append" /\ raw' = [raw EXCEPT ![Current] = Append(@, records)]
      BY <2>1 DEF AppendRaw
    <3>2. /\ Current \in Agents /\ runIdx \in 1..Runs /\ Len(raw[Current]) = runIdx - 1
      BY <3>1, LengthsWhileSaving DEF InLoop
    <3>3. raw \in [Agents -> Seq(Seq(Recs))] /\ records \in Seq(Recs)
      BY DEF IInv, TypeOK
    <3>4. raw[Current] \in Seq(Seq(Recs))
      BY <3>2, <3>3
    <3>5. Len(raw'[Current]) = runIdx /\ \A a \in Agents \ {Current} : raw'[a] = raw[a]
      <4>1. raw'[Current] = Append(raw[Current], records)
        BY <3>1, <3>2, <3>3
      <4>2. Len(Append(raw[Current], records)) = Len(raw[Current]) + 1
        BY <3>3, <3>4, AppendProperties
      <4>3. \A a \in Agents \ {Current} : raw'[a] = raw[a]
        BY <3>1, <3>3
      <4>4. QED
        BY <3>2, <4>1, <4>2, <4>3
    <3>6. ASSUME NEW a \in Agents, NEW r \in 1..Runs, disk'[a][r].state = "whole"
          PROVE  r <= Len(raw'[a])
      <4>1. r <= Len(raw[a]) \/ (a = Current /\ r = runIdx)
        BY <1>1, <3>6 DEF FilesAreRuns
      <4>2. CASE a = Current
        BY <3>2, <3>5, <4>1, <4>2
      <4>3. CASE a # Current
        BY <3>5, <4>1, <4>3
      <4>4. QED
        BY <4>2, <4>3
    <3>7. QED
      BY <3>6 DEF FilesAreRuns
  <2>2. CASE Crash \/ FirstSigint \/ SecondSigint \/ UNCHANGED vars
    <3>1. UNCHANGED <<pc, runIdx, turn, raw>>
      BY <2>2 DEF Crash, FirstSigint, SecondSigint, vars
    <3>2. Current' = Current
      BY <3>1 DEF Current
    <3>3. QED
      BY <1>1, <3>1, <3>2 DEF FilesAreRuns
  <2>3. CASE Round \/ NextAgent \/ NextTask \/ EndRound \/ EndPause \/ DoAggregate
             \/ SaveAggregate
    <3>1. pc # "append" /\ raw' = raw
      BY <2>3 DEF Round, NextAgent, NextTask, EndRound, EndPause, DoAggregate, SaveAggregate
    <3>2. QED
      BY <1>1, <3>1 DEF FilesAreRuns
  <2>4. QED
    BY <2>1, <2>2, <2>3
<1>5. QED
  BY <1>1, <1>2, <1>3, <1>4 DEF NothingForgotten

\* The aggregate is made once, after the last run was counted.
LEMMA AggregateStep ==
  ASSUME IInv, AggregateIsMade, [Next]_vars
  PROVE  AggregateIsMade'
<1> USE DEF At, Goto, Running, signal, report
<1>1. CASE DoAggregate
  <2>1. raw' = raw
    BY <1>1 DEF DoAggregate
  <2>2. Aggregate' = Aggregate
    BY <2>1 DEF Aggregate
  <2>3. QED
    BY <1>1, <2>2 DEF DoAggregate, AggregateIsMade
<1>2. CASE SaveAggregate \/ Crash \/ FirstSigint \/ SecondSigint \/ UNCHANGED vars
  <2>1. raw' = raw /\ agg' = agg
    BY <1>2 DEF SaveAggregate, Crash, FirstSigint, SecondSigint, vars
  <2>2. Aggregate' = Aggregate
    BY <2>1 DEF Aggregate
  <2>3. QED
    BY <1>2, <2>1, <2>2 DEF SaveAggregate, Crash, FirstSigint, SecondSigint, vars,
       AggregateIsMade
<1>3. CASE Round \/ NextAgent \/ NextTask \/ RunTask \/ CountTask \/ SaveOpen
           \/ SaveWrite \/ AppendRaw \/ EndRound \/ EndPause
  <2>1. pc' \notin {"aggopen", "aggwrite", "summary"} /\ exit' = "none"
    BY <1>3 DEF Round, NextAgent, NextTask, RunTask, CountTask, SaveOpen, SaveWrite,
       AppendRaw, EndRound, EndPause
  <2>2. QED
    BY <2>1 DEF AggregateIsMade
<1>4. QED
  BY <1>1, <1>2, <1>3 DEF Next, Main

LEMMA InitKInv == Init => KInv
<1> SUFFICES ASSUME Init PROVE KInv
  OBVIOUS
<1>1. IInv
  BY InitIInv
<1>2. /\ pc = "round" /\ exit = "none" /\ raw = [a \in Agents |-> <<>>]
      /\ disk = [a \in Agents |-> [r \in 1..Runs |-> Absent]]
  BY DEF Init
<1>3. \A a \in Agents, r \in 1..Runs : disk[a][r].state = "absent"
  BY <1>2 DEF Absent
<1>4. FilesAreRuns /\ AggregateIsMade
  BY <1>2, <1>3 DEF FilesAreRuns, AggregateIsMade
<1>5. ASSUME NEW a \in Agents
      PROVE  Pooled(a) \o Held(a) = <<>>
  <2>1. /\ Files(a) \in Seq(Seq(Recs)) /\ Len(Files(a)) = Runs /\ Runs \in Nat
        /\ Pooled(a) = FlattenSeq(Files(a))
    BY <1>1, FilesArePooled DEF IInv
  <2>2. PICK s : s = Files(a)
    OBVIOUS
  <2>3. PICK p : p = <<>>
    OBVIOUS
  <2>4. p \in Seq(Seq(Recs)) /\ Len(p) = 0 /\ p \in Seq(Recs)
    BY <2>3, EmptySeq
  <2>5. \A r \in 1..Runs : s[r] = <<>>
    BY <1>3, <2>2 DEF Files, FilesOf
  <2>6. /\ s \in Seq(Seq(Recs)) /\ 0 \in Nat /\ 0 <= Len(s) /\ 0 <= Len(p)
        /\ \A i \in 1..0 : s[i] = p[i]
        /\ \A i \in (0 + 1)..Len(s) : s[i] = <<>>
        /\ \A i \in (0 + 1)..Len(p) : p[i] = <<>>
    BY <2>1, <2>2, <2>4, <2>5
  <2>7. FlattenSeq(s) = FlattenSeq(p)
    BY ONLY <2>4, <2>6, FlattenAgrees
  <2>8. FlattenSeq(p) = p
    BY <2>4 DEF FlattenSeq
  <2>9. Held(a) = <<>>
    BY <1>2 DEF Held
  <2>10. p \o <<>> = p
    BY <2>4, ConcatEmptySeq
  <2>11. QED
    BY <2>1, <2>2, <2>3, <2>7, <2>8, <2>9, <2>10
<1>6. Len(<<>>) = 0 /\ Cardinality(Resolved(<<>>)) = 0
  <2>1. Resolved(<<>>) = {}
    BY DEF Resolved
  <2>2. QED
    BY <2>1, FS_EmptySet
<1>7. /\ progress.completed = 0 /\ progress.resolved = 0 /\ progress.failed = 0
      /\ progress.errors = 0
      /\ \A a \in Agents : progress.agentTotal[a] = 0 /\ progress.agentResolved[a] = 0
  BY DEF Init, Zero
<1>8. NothingForgotten
  <2>1. progress.completed = progress.resolved + progress.failed + progress.errors
    BY <1>7
  <2>2. \A a \in Agents :
          /\ progress.agentTotal[a] = Len(Pooled(a) \o Held(a))
          /\ progress.agentResolved[a] = Cardinality(Resolved(Pooled(a) \o Held(a)))
    BY <1>5, <1>6, <1>7
  <2>3. QED
    BY <2>1, <2>2 DEF NothingForgotten
<1>9. QED
  BY <1>1, <1>4, <1>8 DEF KInv

LEMMA NextKInv == KInv /\ [Next]_vars => KInv'
<1> SUFFICES ASSUME KInv, [Next]_vars PROVE KInv'
  OBVIOUS
<1>1. IInv'
  BY NextIInv DEF KInv
<1>2. AggregateIsMade'
  BY AggregateStep DEF KInv
<1>3. CASE RunTask \/ CountTask
  <2>1. pc # "append" /\ UNCHANGED <<raw, disk>>
    BY <1>3 DEF RunTask, CountTask, At
  <2>2. FilesAreRuns'
    BY <2>1 DEF KInv, FilesAreRuns
  <2>3. QED
    BY <1>1, <1>2, <1>3, <2>2, RunTaskCounts, CountTaskCounts DEF KInv
<1>4. CASE SaveOpen
  BY <1>1, <1>2, <1>4, OpenCounts DEF KInv
<1>5. CASE SaveWrite
  BY <1>1, <1>2, <1>5, WriteCounts DEF KInv
<1>6. CASE \/ Round \/ NextAgent \/ NextTask \/ AppendRaw \/ EndRound \/ EndPause
           \/ DoAggregate \/ SaveAggregate \/ Crash \/ FirstSigint \/ SecondSigint
           \/ UNCHANGED vars
  BY <1>1, <1>2, <1>6, OthersCount DEF KInv
<1>7. QED
  BY <1>3, <1>4, <1>5, <1>6 DEF Next, Main

\* What the runs in memory and the files on disk concatenate to is the same once
\* no run is being saved.
LEMMA MemoryAgreesWithFiles ==
  ASSUME KInv, exit = "ok"
  PROVE  AggregateAgrees
<1>1. SUFFICES ASSUME NEW a \in Agents PROVE agg[a] = Summary(Pooled(a))
  BY DEF AggregateAgrees
<1>2. pc = "summary" /\ agg = Aggregate
  BY DEF KInv, AggregateIsMade
<1>3. agg[a] = Summary(FlattenSeq(raw[a]))
  BY <1>2 DEF Aggregate
<1>4. /\ Files(a) \in Seq(Seq(Recs)) /\ Len(Files(a)) = Runs /\ Runs \in Nat
      /\ Pooled(a) = FlattenSeq(Files(a))
  BY FilesArePooled DEF KInv, IInv
<1>5. raw[a] \in Seq(Seq(Recs)) /\ Len(raw[a]) \in Nat
  BY LenProperties DEF KInv, IInv, TypeOK
<1>6. PICK s : s = raw[a]
  OBVIOUS
<1>7. PICK p : p = Files(a)
  OBVIOUS
<1>8. \A r \in 1..Runs : p[r] = IF disk[a][r].state = "whole" THEN disk[a][r].recs ELSE <<>>
  BY <1>7 DEF Files, FilesOf
<1>9. \A r \in 1..Len(s) : r <= Runs /\ disk[a][r] = [state |-> "whole", recs |-> s[r]]
  BY <1>6 DEF KInv, IInv, RawIsOnDisk
<1>10. Len(s) <= Runs
  <2>1. CASE Len(s) = 0
    BY <1>4, <2>1
  <2>2. CASE Len(s) # 0
    <3>1. Len(s) \in 1..Len(s)
      BY <1>5, <1>6, <2>2
    <3>2. QED
      BY <1>9, <3>1
  <2>3. QED
    BY <2>1, <2>2
<1>11. \A r \in 1..Len(s) : s[r] = p[r]
  <2>1. TAKE r \in 1..Len(s)
  <2>2. r <= Runs /\ disk[a][r] = [state |-> "whole", recs |-> s[r]]
    BY <1>9
  <2>3. r \in 1..Runs
    BY <1>4, <1>5, <1>6, <2>2
  <2>4. disk[a][r].state = "whole" /\ disk[a][r].recs = s[r]
    BY <2>2
  <2>5. QED
    BY <1>8, <2>3, <2>4
<1>12. \A r \in (Len(s) + 1)..Len(p) : p[r] = <<>>
  <2>1. TAKE r \in (Len(s) + 1)..Len(p)
  <2>2. r \in 1..Runs /\ ~(r <= Len(s))
    BY <1>4, <1>5, <1>6, <1>7
  <2>3. disk[a][r].state # "whole"
    BY <1>2, <1>6, <2>2 DEF KInv, FilesAreRuns
  <2>4. QED
    BY <1>8, <2>2, <2>3
<1>13. /\ s \in Seq(Seq(Recs)) /\ p \in Seq(Seq(Recs)) /\ Len(s) \in Nat
       /\ Len(s) <= Len(s) /\ Len(s) <= Len(p)
       /\ \A r \in (Len(s) + 1)..Len(s) : s[r] = <<>>
  BY <1>4, <1>5, <1>6, <1>7, <1>10
<1>14. FlattenSeq(s) = FlattenSeq(p)
  BY ONLY <1>11, <1>12, <1>13, FlattenAgrees
<1>15. QED
  BY <1>3, <1>4, <1>6, <1>7, <1>14
-----------------------------------------------------------------------------
(* The reports *)

\* A rate times the number it is a rate of is the count it was made from.
LEMMA RoundedBack ==
  ASSUME NEW n \in Nat, n # 0, NEW r \in Nat
  PROVE  RoundedPart(<<r, n>>, n) = r
<1>1. PICK d \in Nat : d = 2 * n
  OBVIOUS
<1>2. PICK q \in Nat : q = r * d
  <2>1. r * d \in Nat
    BY <1>1
  <2>2. QED
    BY <2>1
<1>3. 2 * r * n = q
  BY <1>1, <1>2
<1>4. (q + n) \div d = r
  <2>1. n < d /\ d > 0
    BY <1>1
  <2>2. PICK m \in Int : m = (q + n) \div d
    BY <2>1
  <2>3. d * m <= r * d + n /\ r * d + n < d * m + d
    BY <1>2, <2>1, <2>2
  <2>4. m = r
    <3>1. CASE m < r
      <4>1. m + 1 <= r
        BY <3>1
      <4>2. d * (m + 1) <= d * r
        BY <4>1
      <4>3. QED
        BY <2>3, <4>2
    <3>2. CASE m > r
      <4>1. r + 1 <= m
        BY <3>2
      <4>2. d * (r + 1) <= d * m
        BY <4>1
      <4>3. d * r + d <= d * m
        BY <4>2
      <4>4. QED
        BY <2>1, <2>3, <4>3
    <3>3. QED
      BY <3>1, <3>2
  <2>5. QED
    BY <2>2, <2>4
<1>5. RoundedPart(<<r, n>>, n) = (2 * r * n + n) \div (2 * n)
  BY DEF RoundedPart
<1>6. QED
  BY <1>1, <1>3, <1>4, <1>5

\* The places of a list of records make a finite set, and so does any part of it.
LEMMA PartIsFinite ==
  ASSUME NEW s \in Seq(Recs), NEW part \in SUBSET (DOMAIN s)
  PROVE  IsFiniteSet(part) /\ Cardinality(part) \in Nat
<1>1. IsFiniteSet(1 .. Len(s)) /\ DOMAIN s = 1 .. Len(s)
  BY FS_Interval, LenProperties
<1>2. IsFiniteSet(part)
  BY <1>1, FS_Subset
<1>3. QED
  BY <1>2, FS_CardinalityType

\* What a set of places counts.
CountAt(s, part) == [total    |-> Cardinality(part),
                     resolved |-> Cardinality(part \cap Resolved(s))]

Counts == [total : Nat, resolved : Nat]

LEMMA CountsAreNumbers ==
  ASSUME NEW s \in Seq(Recs), NEW part \in SUBSET (DOMAIN s)
  PROVE  CountAt(s, part) \in Counts
<1>1. part \cap Resolved(s) \in SUBSET (DOMAIN s)
  OBVIOUS
<1>2. QED
  BY <1>1, PartIsFinite DEF CountAt, Counts

\* Parts that share no place add up.
LEMMA PartsAddUp ==
  ASSUME NEW s \in Seq(Recs), NEW p \in SUBSET (DOMAIN s), NEW q \in SUBSET (DOMAIN s),
         p \cap q = {}
  PROVE  CountAt(s, p \cup q) = Sum(CountAt(s, p), CountAt(s, q))
<1>1. PICK pr : pr = p \cap Resolved(s)
  OBVIOUS
<1>2. PICK qr : qr = q \cap Resolved(s)
  OBVIOUS
<1>3. /\ pr \in SUBSET (DOMAIN s) /\ qr \in SUBSET (DOMAIN s) /\ pr \cap qr = {}
      /\ (p \cup q) \cap Resolved(s) = pr \cup qr
  BY <1>1, <1>2
<1>4. /\ IsFiniteSet(p) /\ IsFiniteSet(q) /\ IsFiniteSet(pr) /\ IsFiniteSet(qr)
      /\ Cardinality(p) \in Nat /\ Cardinality(q) \in Nat
      /\ Cardinality(pr) \in Nat /\ Cardinality(qr) \in Nat
  BY <1>3, PartIsFinite
<1>0. Cardinality(p \cap q) = 0 /\ Cardinality(pr \cap qr) = 0
  BY <1>3, FS_EmptySet
<1>5. Cardinality(p \cup q) = Cardinality(p) + Cardinality(q)
  <2>1. Cardinality(p \cup q) = Cardinality(p) + Cardinality(q) - Cardinality(p \cap q)
    BY <1>4, FS_Union
  <2>2. QED
    BY <1>0, <1>4, <2>1
<1>6. Cardinality(pr \cup qr) = Cardinality(pr) + Cardinality(qr)
  <2>1. Cardinality(pr \cup qr) = Cardinality(pr) + Cardinality(qr) - Cardinality(pr \cap qr)
    BY <1>4, FS_Union
  <2>2. QED
    BY <1>0, <1>4, <2>1
<1>7. QED
  BY <1>1, <1>2, <1>3, <1>5, <1>6 DEF CountAt, Sum

\* The places whose task is one of T and belongs to a tab.
Tabbed(s, tab, T) == {i \in DOMAIN s : s[i].task \in T /\ LanguageOf(s[i].task) = tab}

\* The sum of the products of a tab is the number of its records.
LEMMA TabCounts ==
  ASSUME TypeOK, NEW a \in Agents, NEW tab
  PROVE  TabOverall(a, tab) = CountAt(Pooled(a), Tabbed(Pooled(a), tab, 1 .. NTasks))
<1> DEFINE s == Pooled(a)
           of(t) == {i \in DOMAIN s : s[i].task = t}
           Shows(t) == LanguageOf(t) = tab /\ PerTask(a)[t].runs # 0
           Part(t) == [total    |-> PerTask(a)[t].runs,
                       resolved |-> RoundedPart(PerTask(a)[t].rate, PerTask(a)[t].runs)]
           Added(t, v) == IF LanguageOf(t) # tab \/ PerTask(a)[t].runs = 0 THEN v ELSE Sum(v, Part(t))
           Def(f, t) == IF t = 0 THEN Nothing ELSE Added(t, f[t - 1])
           V == [total : Nat, resolved : Nat]
<1>1. s \in Seq(Recs) /\ NTasks \in Nat
  BY FilesArePooled, SessionAssumption
<1>2. ASSUME NEW t \in 1 .. NTasks
      PROVE  /\ CountAt(s, of(t)) \in V
             /\ PerTask(a)[t].runs = CountAt(s, of(t)).total
             /\ PerTask(a)[t].runs # 0 => Part(t) = CountAt(s, of(t))
             /\ PerTask(a)[t].runs = 0 => CountAt(s, of(t)) = Nothing
  <2>1. of(t) \in SUBSET (DOMAIN s) /\ of(t) \cap Resolved(s) \in SUBSET (DOMAIN s)
    OBVIOUS
  <2>2. /\ Cardinality(of(t)) \in Nat /\ Cardinality(of(t) \cap Resolved(s)) \in Nat
        /\ IsFiniteSet(of(t))
    BY <1>1, <2>1, PartIsFinite
  <2>3. CountOf(s, t) = CountAt(s, of(t))
    BY DEF CountOf, CountAt
  <2>4. PerTask(a)[t] = [runs |-> CountAt(s, of(t)).total,
                         rate |-> <<CountAt(s, of(t)).resolved, CountAt(s, of(t)).total>>]
    BY <2>3 DEF PerTask
  <2>5. CountAt(s, of(t)) \in V
    BY <2>2 DEF CountAt
  <2>6. ASSUME PerTask(a)[t].runs # 0 PROVE Part(t) = CountAt(s, of(t))
    <3>1. PICK n : n = Cardinality(of(t))
      OBVIOUS
    <3>2. PICK r : r = Cardinality(of(t) \cap Resolved(s))
      OBVIOUS
    <3>3. n \in Nat /\ r \in Nat /\ n # 0
      BY <2>2, <2>4, <2>6, <3>1, <3>2 DEF CountAt
    <3>4. PerTask(a)[t].runs = n /\ PerTask(a)[t].rate = <<r, n>>
      BY <2>4, <3>1, <3>2 DEF CountAt
    <3>5. RoundedPart(<<r, n>>, n) = r
      BY <3>3, RoundedBack
    <3>6. QED
      BY <3>1, <3>2, <3>4, <3>5 DEF CountAt
  <2>7. ASSUME PerTask(a)[t].runs = 0 PROVE CountAt(s, of(t)) = Nothing
    <3>1. of(t) = {}
      BY <2>2, <2>4, <2>7, FS_EmptySet DEF CountAt
    <3>2. of(t) \cap Resolved(s) = {}
      BY <3>1
    <3>3. Cardinality({}) = 0
      BY FS_EmptySet
    <3>4. QED
      BY <3>1, <3>2, <3>3 DEF CountAt, Nothing
  <2>8. QED
    BY <2>4, <2>5, <2>6, <2>7
<1>3. PICK step : step = [p \in (1 .. NTasks) \X V |-> Added(p[1], p[2])]
  OBVIOUS
<1>4. ASSUME NEW t \in 1 .. NTasks, NEW v \in V
      PROVE  step[<<t, v>>] = Added(t, v) /\ Added(t, v) \in V
  <2>1. step[<<t, v>>] = Added(t, v)
    BY <1>3
  <2>2. ASSUME PerTask(a)[t].runs # 0 PROVE Sum(v, Part(t)) \in V
    <3>1. Part(t) \in V
      BY <1>2, <2>2
    <3> HIDE DEF Part
    <3>2. QED
      BY <3>1 DEF Sum
  <2>3. QED
    BY <2>1, <2>2
<1> HIDE DEF Added
<1>5. \E f : f = [t \in 0 .. NTasks |-> Def(f, t)]
  <2>1. step \in [(1 .. NTasks) \X V -> V]
    BY <1>3, <1>4
  <2>2. Nothing \in V
    BY DEF Nothing
  <2>3. PICK f : FromZero(f, NTasks, V, Nothing, step)
    BY <1>1, <2>1, <2>2, RecursionFromZero
  <2>4. ASSUME NEW t \in 0 .. NTasks PROVE f[t] = Def(f, t)
    <3>1. CASE t = 0
      BY <2>3, <3>1 DEF FromZero
    <3>2. CASE t # 0
      <4>1. t \in 1 .. NTasks /\ t - 1 \in 0 .. NTasks
        BY <1>1, <3>2
      <4>2. f[t - 1] \in V
        BY <2>3, <4>1 DEF FromZero
      <4>3. QED
        BY <1>4, <2>3, <3>2, <4>1, <4>2 DEF FromZero
    <3>3. QED
      BY <3>1, <3>2
  <2>5. QED
    BY <2>3, <2>4 DEF FromZero
<1> DEFINE K == CHOOSE f : f = [t \in 0 .. NTasks |-> Def(f, t)]
<1>6. K = [t \in 0 .. NTasks |-> Def(K, t)]
  BY <1>5
<1>7. TabOverall(a, tab) = K[NTasks]
  BY DEF TabOverall, Added
<1>8. PICK k : k = [t \in 0 .. NTasks |-> Def(k, t)] /\ TabOverall(a, tab) = k[NTasks]
  BY <1>6, <1>7
<1> HIDE DEF K
<1> DEFINE P == {t \in 0 .. NTasks : k[t] = CountAt(s, Tabbed(s, tab, 1 .. t))}
<1>9. 0 \in P
  <2>1. Tabbed(s, tab, 1 .. 0) = {} /\ Cardinality({}) = 0
    BY FS_EmptySet DEF Tabbed
  <2>2. k[0] = Nothing
    BY <1>1, <1>8
  <2>3. QED
    <3>1. {} \cap Resolved(s) = {}
      OBVIOUS
    <3>2. CountAt(s, Tabbed(s, tab, 1 .. 0)) = Nothing
      BY <2>1, <3>1 DEF CountAt, Nothing
    <3>3. QED
      BY <1>1, <2>2, <3>2
<1>10. ASSUME NEW t \in 0 .. (NTasks - 1), t \in P PROVE t + 1 \in P
  <2>1. t + 1 \in 1 .. NTasks /\ t + 1 \in 0 .. NTasks /\ (t + 1) - 1 = t /\ t + 1 # 0
    BY <1>1
  <2>2. k[t + 1] = Added(t + 1, CountAt(s, Tabbed(s, tab, 1 .. t)))
    BY <1>8, <1>10, <2>1
  <2>3. CASE LanguageOf(t + 1) # tab
    <3>1. Tabbed(s, tab, 1 .. (t + 1)) = Tabbed(s, tab, 1 .. t)
      BY <1>1, <2>3 DEF Tabbed, Recs
    <3>2. QED
      BY <2>1, <2>2, <2>3, <3>1 DEF Added
  <2>4. CASE LanguageOf(t + 1) = tab
    <3>1. PICK p : p = Tabbed(s, tab, 1 .. t)
      OBVIOUS
    <3>2. PICK q : q = of(t + 1)
      OBVIOUS
    <3>3. p \in SUBSET (DOMAIN s) /\ q \in SUBSET (DOMAIN s) /\ p \cap q = {}
      BY <1>1, <3>1, <3>2 DEF Tabbed
    <3>4. Tabbed(s, tab, 1 .. (t + 1)) = p \cup q
      BY <1>1, <2>4, <3>1, <3>2 DEF Tabbed, Recs
    <3>5. CountAt(s, p \cup q) = Sum(CountAt(s, p), CountAt(s, q))
      BY <1>1, <3>3, PartsAddUp
    <3>6. CASE PerTask(a)[t + 1].runs # 0
      <4>1. Part(t + 1) = CountAt(s, q)
        BY <1>2, <2>1, <3>2, <3>6
      <4>2. QED
        BY <2>1, <2>2, <2>4, <3>1, <3>4, <3>5, <3>6, <4>1 DEF Added
    <3>7. CASE PerTask(a)[t + 1].runs = 0
      <4>1. CountAt(s, q) = Nothing
        BY <1>2, <2>1, <3>2, <3>7
      <4>2. CountAt(s, p) \in V
        <5>1. p \cap Resolved(s) \in SUBSET (DOMAIN s)
          BY <3>3
        <5>2. QED
          BY <1>1, <3>3, <5>1, PartIsFinite DEF CountAt
      <4>3. Sum(CountAt(s, p), Nothing) = CountAt(s, p)
        BY <4>2 DEF Sum, Nothing
      <4>4. QED
        BY <2>1, <2>2, <3>1, <3>4, <3>5, <3>7, <4>1, <4>3 DEF Added
    <3>8. QED
      BY <3>6, <3>7
  <2>5. QED
    BY <2>3, <2>4
<1>11. \A t \in 0 .. NTasks : t \in P
  <2> HIDE DEF P
  <2>1. QED
    BY <1>1, <1>9, <1>10, UpTo
<1>12. QED
  BY <1>1, <1>8, <1>11

\* The tabs and the tasks without one share the records among them.
LEMMA TabsShareRecords ==
  ASSUME TypeOK, NEW a \in Agents
  PROVE  /\ Sum(TabsOverall(a), Untabbed(a)) = Count(Pooled(a))
         /\ TabsOverall(a) \in Counts /\ Untabbed(a) \in Counts
<1> DEFINE s == Pooled(a)
           of(tab) == Tabbed(s, tab, 1 .. NTasks)
           rest == {i \in DOMAIN s : LanguageOf(s[i].task) \notin Tabs}
<1>1. s \in Seq(Recs) /\ Len(s) \in Nat /\ DOMAIN s = 1 .. Len(s)
  BY FilesArePooled, LenProperties
<1>2. \A i \in DOMAIN s : s[i].task \in 1 .. NTasks
  <2>1. \A i \in DOMAIN s : s[i] \in Recs
    BY <1>1, ElementOfSeq
  <2>2. QED
    BY <2>1 DEF Recs
<1>3. PICK p : p = of("python")
  OBVIOUS
<1>4. PICK c : c = of("c_cpp")
  OBVIOUS
<1>5. PICK g : g = of("cuda")
  OBVIOUS
<1>6. PICK u : u = rest
  OBVIOUS
<1>7. /\ p \in SUBSET (DOMAIN s) /\ c \in SUBSET (DOMAIN s) /\ g \in SUBSET (DOMAIN s)
      /\ u \in SUBSET (DOMAIN s)
  BY <1>3, <1>4, <1>5, <1>6 DEF Tabbed
<1>8. c \cap g = {} /\ p \cap (c \cup g) = {}
  BY <1>3, <1>4, <1>5 DEF Tabbed
<1>9. (p \cup (c \cup g)) \cap u = {}
  BY <1>3, <1>4, <1>5, <1>6 DEF Tabbed, Tabs
<1>10. (p \cup (c \cup g)) \cup u = DOMAIN s
  <2>1. \A i \in DOMAIN s : i \in p \/ i \in c \/ i \in g \/ i \in u
    BY <1>2, <1>3, <1>4, <1>5, <1>6 DEF Tabbed, Tabs
  <2>2. QED
    BY <1>7, <2>1
<1>11. TabsOverall(a) = Sum(CountAt(s, p), Sum(CountAt(s, c), CountAt(s, g)))
  BY <1>3, <1>4, <1>5, TabCounts DEF TabsOverall
<1>12. Untabbed(a) = CountAt(s, u)
  BY <1>6 DEF Untabbed, CountAt
<1>13. Count(s) = CountAt(s, DOMAIN s)
  <2>1. Cardinality(1 .. Len(s)) = Len(s)
    BY <1>1, FS_Interval
  <2>2. (DOMAIN s) \cap Resolved(s) = Resolved(s)
    BY DEF Resolved
  <2>3. QED
    BY <1>1, <2>1, <2>2 DEF Count, CountAt
<1> HIDE DEF s
<1>14. Sum(CountAt(s, c), CountAt(s, g)) = CountAt(s, c \cup g)
  BY <1>1, <1>7, <1>8, PartsAddUp
<1>15. Sum(CountAt(s, p), CountAt(s, c \cup g)) = CountAt(s, p \cup (c \cup g))
  BY <1>1, <1>7, <1>8, PartsAddUp
<1>16. Sum(CountAt(s, p \cup (c \cup g)), CountAt(s, u)) = CountAt(s, DOMAIN s)
  BY <1>1, <1>7, <1>9, <1>10, PartsAddUp
<1>17. CountAt(s, p \cup (c \cup g)) \in Counts /\ CountAt(s, u) \in Counts
  BY <1>1, <1>7, CountsAreNumbers
<1>18. QED
  BY <1>11, <1>12, <1>13, <1>14, <1>15, <1>16, <1>17 DEF s

\* What is counted in a concatenation.
LEMMA ConcatCounts ==
  ASSUME NEW p \in Seq(Recs), NEW h \in Seq(Recs)
  PROVE  Count(p \o h) = Sum(Count(p), Count(h))
<1>1. PICK s : s = p \o h
  OBVIOUS
<1>2. /\ s \in Seq(Recs) /\ Len(p) \in Nat /\ Len(h) \in Nat /\ Len(s) = Len(p) + Len(h)
      /\ DOMAIN p = 1 .. Len(p) /\ DOMAIN h = 1 .. Len(h) /\ DOMAIN s = 1 .. Len(s)
      /\ \A i \in 1 .. Len(p) : s[i] = p[i]
      /\ \A i \in 1 .. Len(h) : s[Len(p) + i] = h[i]
  BY <1>1, ConcatProperties, LenProperties
<1>3. PICK x : x = {i \in Resolved(s) : i <= Len(p)}
  OBVIOUS
<1>4. PICK y : y = {i \in Resolved(s) : i > Len(p)}
  OBVIOUS
<1>5. /\ Resolved(s) \in SUBSET (1 .. Len(s)) /\ Resolved(h) \in SUBSET (1 .. Len(h))
      /\ Resolved(p) \in SUBSET (1 .. Len(p))
  BY <1>2 DEF Resolved
<1>6. x = Resolved(p)
  BY <1>2, <1>3 DEF Resolved
<1>7. IsFiniteSet(y) /\ Cardinality(y) = Cardinality(Resolved(h))
  <2> DEFINE shift == [i \in Resolved(h) |-> Len(p) + i]
  <2>1. \A i \in Resolved(h) : Len(p) + i \in y
    BY <1>2, <1>4, <1>5 DEF Resolved
  <2>2. \A i \in y : i - Len(p) \in Resolved(h) /\ Len(p) + (i - Len(p)) = i
    <3>1. TAKE i \in y
    <3>2. i \in 1 .. Len(s) /\ i > Len(p) /\ s[i].out.resolved
      BY <1>2, <1>4, <1>5 DEF Resolved
    <3>3. i - Len(p) \in 1 .. Len(h) /\ Len(p) + (i - Len(p)) = i
      BY <1>2, <3>2
    <3>4. s[Len(p) + (i - Len(p))] = h[i - Len(p)]
      BY <1>2, <3>3
    <3>5. h[i - Len(p)].out.resolved
      BY <3>2, <3>3, <3>4
    <3>6. QED
      BY <1>2, <3>3, <3>5 DEF Resolved
  <2>3. shift \in [Resolved(h) -> y]
    BY <2>1
  <2>4. \A i, j \in Resolved(h) : shift[i] = shift[j] => i = j
    BY <1>2, <1>5
  <2>5. \A k \in y : \E i \in Resolved(h) : shift[i] = k
    BY <2>2
  <2> HIDE DEF shift
  <2>6. ExistsBijection(Resolved(h), y)
    BY <2>3, <2>4, <2>5 DEF ExistsBijection, Bijection, Injection, IsInjective, Surjection
  <2>7. IsFiniteSet(Resolved(h))
    BY <1>2, <1>5, PartIsFinite
  <2>8. QED
    BY <2>6, <2>7, FS_Bijection
<1>8. Resolved(s) = x \cup y /\ x \cap y = {} /\ y \in SUBSET (1 .. Len(s))
  <2>1. \A i \in Resolved(s) : i \in Int
    BY <1>5
  <2>2. QED
    BY <1>2, <1>3, <1>4, <1>5, <2>1
<1>9. /\ IsFiniteSet(x) /\ Cardinality(x) \in Nat /\ Cardinality(y) \in Nat
  BY <1>2, <1>5, <1>6, <1>7, PartIsFinite, FS_CardinalityType
<1>10. Cardinality(Resolved(s)) = Cardinality(x) + Cardinality(y)
  <2>1. Cardinality(x \cup y) = Cardinality(x) + Cardinality(y) - Cardinality(x \cap y)
    BY <1>7, <1>9, FS_Union
  <2>2. Cardinality(x \cap y) = 0
    BY <1>8, FS_EmptySet
  <2>3. QED
    BY <1>8, <1>9, <2>1, <2>2
<1>11. QED
  BY <1>1, <1>2, <1>6, <1>7, <1>10 DEF Count, Sum

\* The row of an agent is made of its last saved run.
LEMMA RowsAreLast ==
  ASSUME KInv, NEW a \in Shown
  PROVE  \/ raw[a] # <<>> /\ Row(a) = Count(Last(raw[a]))
         \/ pc = "append" /\ a = Current /\ Row(a) = Count(records)
<1>1. a \in Agents /\ Loaded(a) # {} /\ Runs \in Nat /\ Loaded(a) \in SUBSET (0 .. Runs)
  BY SessionAssumption DEF Shown, Loaded
<1>2. PICK m : m = Max(Loaded(a))
  OBVIOUS
<1>3. m \in Loaded(a) /\ \A r \in Loaded(a) : r <= m
  BY <1>1, <1>2, MaxProperty
<1>4. m \in 1 .. Runs /\ disk[a][m].state = "whole"
  BY <1>3 DEF Loaded
<1>5. Row(a) = Count(disk[a][m].recs)
  BY <1>2 DEF Row, Latest
<1>6. raw[a] \in Seq(Seq(Recs)) /\ Len(raw[a]) \in Nat
  BY <1>1, LenProperties DEF KInv, IInv, TypeOK
<1>7. CASE m <= Len(raw[a])
  <2>1. PICK n : n = Len(raw[a])
    OBVIOUS
  <2>2. n \in 1 .. n /\ n \in 1 .. Len(raw[a]) /\ n \in Nat
    BY <1>4, <1>6, <1>7, <2>1
  <2>3. n <= Runs /\ disk[a][n] = [state |-> "whole", recs |-> raw[a][n]]
    BY <1>1, <2>2 DEF KInv, IInv, RawIsOnDisk
  <2>4. n \in Loaded(a)
    BY <1>1, <2>2, <2>3 DEF Loaded
  <2>5. n = m
    BY <1>3, <1>4, <1>7, <2>1, <2>2, <2>4
  <2>6. Last(raw[a]) = raw[a][n] /\ raw[a] # <<>>
    BY <2>1, <2>2 DEF Last
  <2>7. QED
    BY <1>5, <2>3, <2>5, <2>6
<1>8. CASE ~(m <= Len(raw[a]))
  <2>1. pc = "append" /\ a = Current /\ m = runIdx
    BY <1>1, <1>4, <1>8 DEF KInv, FilesAreRuns
  <2>2. disk[a][m] = [state |-> "whole", recs |-> records]
    BY <2>1 DEF KInv, IInv, SavedRun
  <2>3. QED
    BY <1>5, <2>1, <2>2
<1>9. QED
  BY <1>7, <1>8

LEMMA FilesAreReported == KInv => ReportsAgree
<1> SUFFICES ASSUME KInv PROVE ReportsAgree
  OBVIOUS
<1>1. ASSUME NEW a \in Agents
      PROVE  /\ progress.agentTotal[a] =
                  Sum(TabsOverall(a), Sum(Untabbed(a), Count(Held(a)))).total
             /\ progress.agentResolved[a] =
                  Sum(TabsOverall(a), Sum(Untabbed(a), Count(Held(a)))).resolved
  <2>1. Pooled(a) \in Seq(Recs) /\ Held(a) \in Seq(Recs)
    BY FilesArePooled, HeldRecords DEF KInv, IInv
  <2>2. Sum(TabsOverall(a), Untabbed(a)) = Count(Pooled(a))
    BY TabsShareRecords DEF KInv, IInv
  <2>3. PICK t : t = TabsOverall(a)
    OBVIOUS
  <2>4. PICK u : u = Untabbed(a)
    OBVIOUS
  <2>5. PICK h : h = Count(Held(a))
    OBVIOUS
  <2>6. t \in Counts /\ u \in Counts
    BY <2>3, <2>4, TabsShareRecords DEF KInv, IInv
  <2>7. h \in Counts
    <3>1. Resolved(Held(a)) \in SUBSET (DOMAIN Held(a)) /\ Len(Held(a)) \in Nat
      BY <2>1, LenProperties DEF Resolved
    <3>2. Cardinality(Resolved(Held(a))) \in Nat
      BY <2>1, <3>1, PartIsFinite
    <3>3. QED
      BY <2>5, <3>1, <3>2 DEF Count, Counts
  <2>8. Count(Pooled(a) \o Held(a)) = Sum(Sum(t, u), h)
    BY <2>1, <2>2, <2>3, <2>4, <2>5, ConcatCounts
  <2>9. /\ progress.agentTotal[a] = Count(Pooled(a) \o Held(a)).total
        /\ progress.agentResolved[a] = Count(Pooled(a) \o Held(a)).resolved
    BY DEF KInv, NothingForgotten, Count
  <2>10. Sum(Sum(t, u), h) = Sum(t, Sum(u, h))
    BY <2>6, <2>7 DEF Sum, Counts
  <2>11. QED
    BY <2>3, <2>4, <2>5, <2>8, <2>9, <2>10
<1>2. QED
  BY <1>1, RowsAreLast DEF ReportsAgree
-----------------------------------------------------------------------------
\* The inductive invariant holds in every state of a session.
THEOREM SessionInvariant == Spec => []IInv
  BY InitIInv, NextIInv, PTL DEF Spec

\* Every variable keeps its type.
THEOREM TypeCorrect == Spec => []TypeOK
<1>1. IInv => TypeOK
  BY DEF IInv
<1>2. QED
  BY <1>1, SessionInvariant, PTL

\* No crash and no Ctrl+C loses or tears a run that was counted: for any
\* number of agents, tasks and rounds it is whole in its own file.
THEOREM CountedRunsAreDurable == Spec => []RawIsOnDisk
<1>1. IInv => RawIsOnDisk
  BY DEF IInv
<1>2. QED
  BY <1>1, SessionInvariant, PTL

\* The agents of a session are never more than one run apart.
THEOREM AgentsStayBalanced == Spec => []RoundsBalanced
<1>1. IInv => RoundsBalanced
  BY DEF IInv
<1>2. QED
  BY <1>1, SessionInvariant, PTL

\* A counted run that misses tasks was cut off by Ctrl+C and is the last.
THEOREM OnlyLastRunIsPartial == Spec => []PartialIsLast
<1>1. IInv => PartialIsLast
  BY DEF IInv
<1>2. QED
  BY <1>1, SessionInvariant, PTL

\* After the first Ctrl+C at most the task being called is still finished.
THEOREM OneTaskAfterCtrlC == Spec => []InterruptPromise
<1>1. IInv => InterruptPromise
  BY DEF IInv
<1>2. QED
  BY <1>1, SessionInvariant, PTL

\* The counters, the files and the aggregate fit together in every state.
THEOREM CountersInvariant == Spec => []KInv
  BY InitKInv, NextKInv, PTL DEF Spec

\* The counters on the console agree with the files and the run in hand: a crash
\* or a second Ctrl+C loses at most one run of one agent.
THEOREM NothingIsForgotten == Spec => []NothingForgotten
<1>1. KInv => NothingForgotten
  BY DEF KInv
<1>2. QED
  BY <1>1, CountersInvariant, PTL

\* What the aggregate says of an agent is what the dashboard makes of its files.
THEOREM AggregatesAgree == Spec => []AggregateAgrees
<1>1. KInv => AggregateAgrees
  BY MemoryAgreesWithFiles DEF AggregateAgrees
<1>2. QED
  BY <1>1, CountersInvariant, PTL

\* However a session ends, what the dashboard makes of its files accounts for every
\* record the console counted but those in hand, and the report shows last runs:
\* for any agents, tasks, languages, rounds and outcomes.
THEOREM ReportsAccountForSessions == Spec => []ReportsAgree
  BY CountersInvariant, FilesAreReported, PTL
=============================================================================
