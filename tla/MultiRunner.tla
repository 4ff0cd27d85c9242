----------------------------- MODULE MultiRunner -----------------------------
(***************************************************************************)
(* multi_runner.main: one session of Runs rounds, every agent on every     *)
(* task in each, with Ctrl+C at any time, exceptions out of run_task and   *)
(* out of the writing of files, and the aggregate made from memory at the  *)
(* end.  run_task is the call of TaskContract that Runner implements.      *)
(*                                                                         *)
(* pc names the statement main is about to run; a program that stopped     *)
(* keeps the pc it stopped at, and exit says how it stopped.               *)
(***************************************************************************)
EXTENDS Integers, SequencesExt

CONSTANTS AgentList,  \* the agents, in command-line order
          NTasks,     \* how many tasks were discovered
          Runs,       \* --runs
          Pause,      \* --pause is positive
          Outcomes    \* the records run_task may return

ASSUME SessionAssumption ==
  /\ AgentList \in Seq(ToSet(AgentList)) /\ AgentList # <<>>
  /\ \A i, j \in DOMAIN AgentList : AgentList[i] = AgentList[j] => i = j
  /\ NTasks \in Nat \ {0} /\ Runs \in Nat /\ Pause \in BOOLEAN
  /\ \A o \in Outcomes : o.kind \in {"verdict", "error"}
                         /\ o.resolved \in BOOLEAN

VARIABLES pc, exit,
          runIdx,       \* run_idx
          turn,         \* position in ordered_agents
          records,      \* the records of the agent run in progress
          raw,          \* raw[agent]: its saved runs
          disk,         \* disk[agent][run]: the file of that agent run
          interrupted,  \* _interrupted
          atInt,        \* progress.completed when Ctrl+C came first
          progress,     \* the ProgressTracker
          roundsDone,   \* completed_runs
          agg, aggFile  \* the aggregate and its file

vars == <<pc, exit, runIdx, turn, records, raw, disk, interrupted, atInt,
          progress, roundsDone, agg, aggFile>>

signal == <<interrupted, atInt>>
report == <<agg, aggFile>>

Agents == ToSet(AgentList)
NAgents == Len(AgentList)
Recs == [task : 1..NTasks, out : Outcomes]
Absent == [state |-> "absent", recs |-> <<>>]

\* The agents of a round, in the order they run: reversed every other round.
Order(r) == IF r % 2 = 1 THEN AgentList ELSE Reverse(AgentList)
Current == Order(runIdx)[turn]

\* What aggregate says of one agent: for each task and over all of them, how
\* many records there are and how many are resolved.  The rates are quotients of these.
Resolved(recs) == {i \in DOMAIN recs : recs[i].out.resolved}
Count(recs) == [total |-> Len(recs), resolved |-> Cardinality(Resolved(recs))]
CountOf(recs, t) ==
  LET own == {i \in DOMAIN recs : recs[i].task = t}
  IN [total |-> Cardinality(own), resolved |-> Cardinality(own \cap Resolved(recs))]
Summary(recs) == [perTask |-> [t \in 1..NTasks |-> CountOf(recs, t)],
                  overall |-> Count(recs)]
NoSummary == [a \in Agents |-> Summary(<<>>)]

\* Mutant: each run of an agent replaces the one before it.
AggregateLastRun ==
  [a \in Agents |-> Summary(IF raw[a] = <<>> THEN <<>> ELSE Last(raw[a]))]

\* aggregate(raw, tasks): from what the session holds in memory.
Aggregate == [a \in Agents |-> Summary(FlattenSeq(raw[a]))]

Zero == [a \in Agents |-> 0]
-----------------------------------------------------------------------------
Init == /\ pc = "round" /\ exit = "none"
        /\ runIdx = 1 /\ turn = 1
        /\ records = <<>>
        /\ raw = [a \in Agents |-> <<>>]
        /\ disk = [a \in Agents |-> [r \in 1..Runs |-> Absent]]
        /\ interrupted = FALSE /\ atInt = 0
        /\ progress = [completed |-> 0, resolved |-> 0, failed |-> 0,
                       errors |-> 0, agentResolved |-> Zero,
                       agentTotal |-> Zero]
        /\ roundsDone = 0
        /\ agg = NoSummary /\ aggFile = "absent"

Running == exit = "none"
At(label) == pc = label /\ Running
Goto(label) == pc' = label /\ UNCHANGED exit

\* The head of the loop over rounds.
Round ==
  /\ At("round")
  /\ turn' = 1
  /\ Goto(IF runIdx > Runs \/ interrupted THEN "aggregate" ELSE "agent")
  /\ UNCHANGED <<runIdx, records, raw, disk, signal, progress, roundsDone,
                 report>>

\* The head of the loop over the agents of a round.
NextAgent ==
  /\ At("agent")
  /\ IF turn > NAgents \/ interrupted
       THEN Goto("endround") /\ UNCHANGED records
       ELSE Goto("task") /\ records' = <<>>
  /\ UNCHANGED <<runIdx, turn, raw, disk, signal, progress, roundsDone,
                 report>>

\* Mutant: the loop over tasks does not look at the flag.
NextTaskUninterrupted ==
  /\ At("task")
  /\ IF Len(records) < NTasks
       THEN Goto("call") /\ UNCHANGED turn ELSE Goto("open") /\ UNCHANGED turn
  /\ UNCHANGED <<runIdx, records, raw, disk, signal, progress, roundsDone, report>>

\* Mutant: a run in which nothing was resolved is not worth a file.
NextTaskSavesResolved ==
  /\ At("task")
  /\ IF Len(records) < NTasks /\ ~interrupted
       THEN Goto("call") /\ UNCHANGED turn
       ELSE IF Resolved(records) # {} THEN Goto("open") /\ UNCHANGED turn
                                        ELSE Goto("agent") /\ turn' = turn + 1
  /\ UNCHANGED <<runIdx, records, raw, disk, signal, progress, roundsDone, report>>

\* The head of the loop over tasks; after it, a run with records is saved.
NextTask ==
  /\ At("task")
  /\ IF Len(records) < NTasks /\ ~interrupted
       THEN Goto("call") /\ UNCHANGED turn
       ELSE IF records # <<>>
              THEN Goto("open") /\ UNCHANGED turn
              ELSE Goto("agent") /\ turn' = turn + 1
  /\ UNCHANGED <<runIdx, records, raw, disk, signal, progress, roundsDone,
                 report>>

One(cond) == IF cond THEN 1 ELSE 0

\* Mutant: "else" in place of "elif": an error counts as a failure too.
UpdateTwice(p, a, o) ==
  [completed |-> p.completed + 1,
   resolved |-> p.resolved + One(o.resolved),
   errors |-> p.errors + One(o.kind = "error"),
   failed |-> p.failed + One(~o.resolved),
   agentTotal |-> [p.agentTotal EXCEPT ![a] = @ + 1],
   agentResolved |-> [p.agentResolved EXCEPT ![a] = @ + One(o.resolved)]]

\* ProgressTracker.update
Update(p, a, o) ==
  [completed |-> p.completed + 1,
   resolved |-> p.resolved + One(o.resolved),
   errors |-> p.errors + One(~o.resolved /\ o.kind = "error"),
   failed |-> p.failed + One(~o.resolved /\ o.kind # "error"),
   agentTotal |-> [p.agentTotal EXCEPT ![a] = @ + 1],
   agentResolved |-> [p.agentResolved EXCEPT ![a] = @ + One(o.resolved)]]

\* run_task returns a record, whatever happened to the flag meanwhile, ...
RunTask ==
  /\ At("call")
  /\ \E o \in Outcomes :
       records' = Append(records, [task |-> Len(records) + 1, out |-> o])
  /\ Goto("count")
  /\ UNCHANGED <<runIdx, turn, raw, disk, signal, progress, roundsDone, report>>

\* ... and the counters hear of it next.  What a second Ctrl+C in the middle of
\* update leaves of them is gone with the process.
CountTask ==
  /\ At("count")
  /\ progress' = Update(progress, Current, Last(records).out)
  /\ Goto("task")
  /\ UNCHANGED <<runIdx, turn, records, raw, disk, signal, roundsDone, report>>

\* save_run_results: open(path, "w") creates an empty file, ...
SaveOpen ==
  /\ At("open")
  /\ disk' = [disk EXCEPT ![Current][runIdx] =
                [state |-> "torn", recs |-> <<>>]]
  /\ Goto("write")
  /\ UNCHANGED <<runIdx, turn, records, raw, signal, progress, roundsDone,
                 report>>

\* Mutant: the name of the file does not hold the number of the run.
SaveWriteOneName ==
  /\ At("write")
  /\ disk' = [disk EXCEPT ![Current][1] = [state |-> "whole", recs |-> records]]
  /\ Goto("append")
  /\ UNCHANGED <<runIdx, turn, records, raw, signal, progress, roundsDone, report>>

\* ... json.dump and close complete it, ...
SaveWrite ==
  /\ At("write")
  /\ disk' = [disk EXCEPT ![Current][runIdx] =
                [state |-> "whole", recs |-> records]]
  /\ Goto("append")
  /\ UNCHANGED <<runIdx, turn, records, raw, signal, progress, roundsDone,
                 report>>

\* Mutant: a round is counted for every agent run.
AppendRawCounting ==
  /\ At("append")
  /\ raw' = [raw EXCEPT ![Current] = Append(@, records)]
  /\ turn' = turn + 1 /\ roundsDone' = roundsDone + 1
  /\ Goto("agent")
  /\ UNCHANGED <<runIdx, records, disk, signal, progress, report>>

\* ... and only then is the run part of what will be aggregated.
AppendRaw ==
  /\ At("append")
  /\ raw' = [raw EXCEPT ![Current] = Append(@, records)]
  /\ turn' = turn + 1
  /\ Goto("agent")
  /\ UNCHANGED <<runIdx, records, disk, signal, progress, roundsDone, report>>

\* Mutant: the flag is cleared when a round is over.
EndRoundClearing ==
  /\ At("endround")
  /\ roundsDone' = roundsDone + 1 /\ interrupted' = FALSE
  /\ runIdx' = runIdx + 1 /\ Goto("round")
  /\ UNCHANGED <<turn, records, raw, disk, atInt, progress, report>>

\* After the agents of a round, also when the loop over them was broken off.
EndRound ==
  /\ At("endround")
  /\ roundsDone' = roundsDone + 1
  /\ IF runIdx < Runs /\ ~interrupted /\ Pause
       THEN Goto("pause") /\ UNCHANGED runIdx
       ELSE Goto("round") /\ runIdx' = runIdx + 1
  /\ UNCHANGED <<turn, records, raw, disk, signal, progress, report>>

\* Mutant: Ctrl+C starts the seconds of the pause again.
EndPauseUninterrupted ==
  /\ At("pause") /\ ~interrupted
  /\ runIdx' = runIdx + 1
  /\ Goto("round")
  /\ UNCHANGED <<turn, records, raw, disk, signal, progress, roundsDone, report>>

\* The pause between rounds, over in time or at once after Ctrl+C.
EndPause ==
  /\ At("pause")
  /\ runIdx' = runIdx + 1
  /\ Goto("round")
  /\ UNCHANGED <<turn, records, raw, disk, signal, progress, roundsDone,
                 report>>

DoAggregate ==
  /\ At("aggregate")
  /\ IF \E a \in Agents : raw[a] # <<>>
       THEN agg' = Aggregate /\ Goto("aggopen")
       ELSE exit' = "nodata" /\ UNCHANGED <<pc, agg>>
  /\ UNCHANGED <<runIdx, turn, records, raw, disk, signal, progress,
                 roundsDone, aggFile>>

SaveAggregate ==
  /\ \/ At("aggopen") /\ aggFile' = "torn" /\ Goto("aggwrite")
     \/ At("aggwrite") /\ aggFile' = "whole" /\ pc' = "summary" /\ exit' = "ok"
  /\ UNCHANGED <<runIdx, turn, records, raw, disk, signal, progress,
                 roundsDone, agg>>

\* An exception out of run_task, or out of reading or writing a file, is
\* caught nowhere in main.
Crash ==
  /\ Running /\ pc \in {"call", "open", "write", "aggregate",
                       "aggopen", "aggwrite"}
  /\ exit' = "crash"
  /\ UNCHANGED <<pc, runIdx, turn, records, raw, disk, signal, progress,
                 roundsDone, report>>

\* _handle_sigint: the first Ctrl+C sets the flag, ...
FirstSigint ==
  /\ Running /\ ~interrupted
  /\ interrupted' = TRUE
  /\ atInt' = progress.completed
  /\ UNCHANGED <<pc, exit, runIdx, turn, records, raw, disk, progress,
                 roundsDone, report>>

\* ... the second exits where it strikes.
SecondSigint ==
  /\ Running /\ interrupted
  /\ exit' = "forced"
  /\ UNCHANGED <<pc, runIdx, turn, records, raw, disk, signal, progress,
                 roundsDone, report>>
-----------------------------------------------------------------------------
Main == \/ Round \/ NextAgent \/ NextTask \/ RunTask \/ CountTask
        \/ SaveOpen \/ SaveWrite \/ AppendRaw \/ EndRound \/ EndPause
        \/ DoAggregate \/ SaveAggregate

Next == Main \/ Crash \/ FirstSigint \/ SecondSigint

\* main goes on by itself: its calls of run_task end (TaskContract), its
\* pauses end by the clock.  Signals and exceptions need not come.
Spec == Init /\ [][Next]_vars /\ WF_vars(Main)
-----------------------------------------------------------------------------
Labels == {"round", "agent", "task", "call", "count", "open", "write", "append",
           "endround", "pause", "aggregate", "aggopen", "aggwrite", "summary"}

TypeOK ==
  /\ pc \in Labels /\ exit \in {"none", "ok", "nodata", "crash", "forced"}
  /\ runIdx \in 1..(Runs + 1) /\ turn \in 1..(NAgents + 1)
  /\ records \in Seq(Recs)
  /\ raw \in [Agents -> Seq(Seq(Recs))]
  /\ disk \in [Agents -> [1..Runs ->
                 [state : {"absent", "torn", "whole"}, recs : Seq(Recs)]]]
  /\ interrupted \in BOOLEAN /\ atInt \in Nat
  /\ progress \in [completed : Nat, resolved : Nat, failed : Nat,
                   errors : Nat, agentResolved : [Agents -> Nat],
                   agentTotal : [Agents -> Nat]]
  /\ roundsDone \in 0..Runs
  /\ aggFile \in {"absent", "torn", "whole"}

\* Every run the aggregate will count is complete on disk, as the file of the
\* round it was made in, before it is counted: no crash and no second Ctrl+C
\* loses or tears a run that was reported as saved.
RawIsOnDisk ==
  \A a \in Agents : \A r \in 1..Len(raw[a]) :
    r <= Runs /\ disk[a][r] = [state |-> "whole", recs |-> raw[a][r]]

\* The agents of a session never differ by more than one run, wherever it is
\* interrupted, exits or crashes: the comparison stays between equals.
RoundsBalanced ==
  \A a, b \in Agents : Len(raw[a]) - Len(raw[b]) <= 1

\* A run that misses tasks was cut off by Ctrl+C, in the round the session
\* stopped in: no later run of any agent follows it.
PartialIsLast ==
  \A a \in Agents : \A r \in 1..Len(raw[a]) :
    Len(raw[a][r]) < NTasks =>
      interrupted /\ r = Len(raw[a]) /\ \A b \in Agents : Len(raw[b]) <= r

\* "finishing current task then saving results": after the first Ctrl+C at
\* most one more task is finished, whatever the loops are doing when it comes.
InterruptPromise == interrupted => progress.completed <= atInt + 1

\* The whole files of an agent as the dashboard pools them, ...
Pooled(a) == FlattenSeq([r \in 1..Runs |-> IF disk[a][r].state = "whole"
                                           THEN disk[a][r].recs ELSE <<>>])
\* ... and the records of the agent that are in no such file yet, and counted.
Held(a) == IF pc \in {"task", "call", "open", "write"} /\ a = Current THEN records
           ELSE IF pc = "count" /\ a = Current THEN Front(records) ELSE <<>>

\* The counters on the console agree with the records: what was counted is on
\* disk or in the hands of the run in progress, also after a crash, so that a
\* crash loses at most one run of one agent and one more record that no counter
\* has heard of.
NothingForgotten ==
  /\ progress.completed = progress.resolved + progress.failed
                          + progress.errors
  /\ \A a \in Agents :
       LET known == Pooled(a) \o Held(a) IN
       /\ progress.agentTotal[a] = Len(known)
       /\ progress.agentResolved[a] = Cardinality(Resolved(known))

\* The aggregate computed from memory says of every agent what the dashboard
\* computes from the files of the session.
AggregateAgrees ==
  exit = "ok" => \A a \in Agents : agg[a] = Summary(Pooled(a))

\* The session ends, with a task that never succeeds and with Ctrl+C alike.
SessionEnds == <>(exit # "none")

\* A round counts as complete in the last message ("interrupted after N/M
\* complete round(s)") when every agent ran every task in it.
CompleteRounds ==
  exit = "ok" /\ interrupted =>
    \A r \in 1..roundsDone : \A a \in Agents :
      disk[a][r].state = "whole" /\ Len(disk[a][r].recs) = NTasks
=============================================================================
