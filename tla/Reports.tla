------------------------------- MODULE Reports -------------------------------
(***************************************************************************)
(* report.py and dashboard.py, run when a session of MultiRunner is over,  *)
(* on the files it left in results/: the whole and torn files of its agent *)
(* runs, and the aggregate if it was written.  Both programs only read, so *)
(* what they show is a function of those files.  A rate is the pair of its *)
(* numerator and denominator.                                              *)
(***************************************************************************)
EXTENDS MultiRunner, FiniteSetsExt

CONSTANT Language  \* Language[t]: the "language" of task t's metadata.json

\* Timestamps order the runs of an agent, and those of one session increase.
Loaded(a) == {r \in 1..Runs : disk[a][r].state = "whole"}
Shown == {a \in Agents : Loaded(a) # {}}
-----------------------------------------------------------------------------
(* report.py *)

\* latest_per_agent asks every dataset that parses for its "agent", a key that
\* aggregates do not have; nothing catches the KeyError.
ReportRaises == aggFile = "whole"

\* Mutant: the first run of an agent is kept.
LatestKeepsFirst(a) == disk[a][Min(Loaded(a))].recs

\* The records latest_per_agent keeps of an agent.
Latest(a) == disk[a][Max(Loaded(a))].recs

\* agent_summary of them: what the table has in the row of the agent.
Row(a) == Count(Latest(a))
-----------------------------------------------------------------------------
(* dashboard.py *)

\* get_task_language
LanguageOf(t) == IF Language[t] \in {"c", "cpp"} THEN "c_cpp" ELSE Language[t]

\* The tabs, of the three canonical languages.
Tabs == {"python", "c_cpp", "cuda"}

\* aggregate_from_runs: "runs" and "resolve_rate" of an agent on every task.
PerTask(a) ==
  [t \in 1..NTasks |->
     LET c == CountOf(Pooled(a), t)
     IN [runs |-> c.total, rate |-> <<c.resolved, c.total>>]]

\* round(rate * n), a half rounded up.
RoundedPart(rate, n) == (2 * rate[1] * n + rate[2]) \div (2 * rate[2])

Sum(c, d) == [total |-> c.total + d.total, resolved |-> c.resolved + d.resolved]
Nothing == [total |-> 0, resolved |-> 0]

\* _filter_agg_by_lang: the "overall" of an agent on the tasks of one tab, made
\* of the rates and not of the records; a task it did not run has no entry.
TabOverall(a, tab) ==
  LET per == PerTask(a)
      upTo[t \in 0..NTasks] ==
        IF t = 0 THEN Nothing
        ELSE IF LanguageOf(t) # tab \/ per[t].runs = 0 THEN upTo[t - 1]
        ELSE Sum(upTo[t - 1], [total    |-> per[t].runs,
                               resolved |-> RoundedPart(per[t].rate, per[t].runs)])
  IN upTo[NTasks]

\* What the tabs say together.
TabsOverall(a) == Sum(TabOverall(a, "python"),
                      Sum(TabOverall(a, "c_cpp"), TabOverall(a, "cuda")))
-----------------------------------------------------------------------------
Over == exit # "none"

\* The pooled records of tasks in a language that has no tab.
Untabbed(a) ==
  LET own == {i \in DOMAIN Pooled(a) : LanguageOf(Pooled(a)[i].task) \notin Tabs}
  IN [total |-> Cardinality(own), resolved |-> Cardinality(own \cap Resolved(Pooled(a)))]

\* However a session ended, with whatever torn or partial files, the tabs of the
\* dashboard account for every record that was counted on the console, except
\* those of one unfinished run of one agent and of tasks without a tab; and a
\* report that can be made has, for every agent with a saved run, its last one.
ReportsAgree == Over =>
  /\ \A a \in Agents :
       LET shown == Sum(TabsOverall(a), Sum(Untabbed(a), Count(Held(a)))) IN
       /\ progress.agentTotal[a] = shown.total
       /\ progress.agentResolved[a] = shown.resolved
  /\ ~ReportRaises => \A a \in Shown :
       \/ raw[a] # <<>> /\ Row(a) = Count(Last(raw[a]))
       \/ pc = "append" /\ a = Current /\ Row(a) = Count(records)

\* "reads benchmark result JSON files and produces comparisons" (report.py:1): a
\* session that went well leaves files that can be reported on.
CompleteSessionsAreReported == exit = "ok" => ~ReportRaises
=============================================================================
