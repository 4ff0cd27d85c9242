------------------------------- MODULE Runner -------------------------------
(***************************************************************************)
(* runner.run_task, call after call: one work directory per call, the      *)
(* pre-check, the agent, the safety check, the two test runs, the clean-up.*)
(* The agent is another process, and its own children may outlive it: they *)
(* go on editing the work directory, or deleting protected entries, while  *)
(* the harness judges the work and even during later calls.  An agent that *)
(* returns leaves children that do not hold its output, since              *)
(* subprocess.run reads that to the end; one that is killed at its timeout *)
(* or by Ctrl+C leaves any.  On Windows the child is a shell, the CLI      *)
(* itself is one of its children, and after the kill the output is waited  *)
(* for until the last process that holds it is gone.                       *)
(*                                                                         *)
(* The contents of a work directory are what its two test groups would say *)
(* if they ran to their end; running them does not change that.            *)
(***************************************************************************)
EXTENDS FiniteSets

CONSTANTS Agents,  \* the agents the calls are made for
          Items,   \* top-level entries of the protected directories
          OnNt     \* os.name == "nt", hence use_shell

ASSUME RunnerAssumption ==
  Agents # {} /\ IsFiniteSet(Items) /\ OnNt \in BOOLEAN

VARIABLES pc,       \* the step of run_task that comes next
          task,     \* the task directory of this call
          agent,    \* the agent of this call
          content,  \* what is in the work directory
          workdir,  \* the temporary directory: "none", "live" or "left"
          stray,    \* kinds of processes the agent of this call left behind
          outlived, \* there were some when the wait for the agent ended
          orphans,  \* agents of earlier calls with such processes
          suspects, \* the agents in orphans when this call was made
          home,     \* protected entries that exist
          wipedBy,  \* who deleted each entry that does not
          pre,      \* _pre_snapshot
          alerts,   \* the entries the safety check of this call reported
          ran,      \* the agent of this call was started
          f2p,      \* resolved, the verdict of the first test run
          agentOk,  \* agent_ok
          out       \* the record this call is about to return, or returned

vars == <<pc, task, agent, content, workdir, stray, outlived, orphans, suspects,
          home, wipedBy, pre, alerts, ran, f2p, agentOk, out>>

work == <<task, agent, orphans, suspects>>
disk == <<home, wipedBy>>
judge == <<outlived, pre, alerts, ran, f2p, agentOk, out>>

NoRecord == [kind |-> "none"]

\* The call as its caller sees it.
Contract == INSTANCE TaskContract WITH
  phase <- CASE pc \in {"idle", "returned", "raised"} -> pc
             [] OTHER -> "running",
  result <- IF pc = "returned" THEN out ELSE NoRecord

Contents == [f2p : BOOLEAN, p2p : BOOLEAN]
Tasks == [src : BOOLEAN, tests : BOOLEAN, base : Contents]

\* What an agent leaves running: processes that hold its output, and others.
Leftovers == {"holding", "detached"}

InWork == pc \in {"copy", "precheck", "prepare", "agent", "killed", "safety",
                  "f2p", "p2p"}
-----------------------------------------------------------------------------
Init == /\ pc = "idle"
        /\ task \in Tasks
        /\ agent \in Agents
        /\ content = [f2p |-> FALSE, p2p |-> FALSE]
        /\ workdir = "none"
        /\ stray = {} /\ outlived = FALSE
        /\ orphans = {} /\ suspects = {}
        /\ home = Items
        /\ wipedBy = [i \in Items |-> {}]
        /\ pre = {} /\ alerts = {} /\ ran = FALSE /\ f2p = FALSE
        /\ agentOk = FALSE /\ out = NoRecord

\* A caller's loop makes the next call, whatever the last one left behind.
Call == /\ pc \in {"idle", "returned", "raised"}
        /\ pc' = "load"
        /\ task' \in Tasks
        /\ agent' \in Agents
        /\ orphans' = IF stray # {} THEN orphans \cup {agent} ELSE orphans
        /\ suspects' = orphans'
        /\ stray' = {} /\ outlived' = FALSE
        /\ workdir' = "none"
        /\ pre' = {} /\ alerts' = {} /\ ran' = FALSE /\ f2p' = FALSE
        /\ agentOk' = FALSE /\ out' = NoRecord
        /\ UNCHANGED <<content, disk>>

\* Metadata and description are read, then the two directories tested: the
\* error records of a task without one of them need no work directory.
Load == /\ pc = "load"
        /\ \/ pc' = "raised" /\ UNCHANGED out
           \/ /\ ~(task.src /\ task.tests)
              /\ out' = Contract!ErrorRecord
              /\ pc' = "returned"
           \/ task.src /\ task.tests /\ pc' = "mkdtemp" /\ UNCHANGED out
        /\ UNCHANGED <<work, content, workdir, stray, outlived, disk, pre,
                       alerts, ran, f2p, agentOk>>

MakeWorkDir ==
  /\ pc = "mkdtemp"
  /\ \/ workdir' = "live" /\ pc' = "snapshot"
     \/ UNCHANGED workdir /\ pc' = "raised"
  /\ UNCHANGED <<work, content, stray, disk, judge>>

\* Mutant: one snapshot made when the program starts serves every call.
SnapshotAtStartup ==
  /\ pc = "snapshot"
  /\ pre' = Items /\ pc' = "copy"
  /\ UNCHANGED <<work, content, workdir, stray, outlived, disk, alerts, ran,
                 f2p, agentOk, out>>

\* Taken before the try block: an iterdir that raises here leaves the work
\* directory where it is.
Snapshot ==
  /\ pc = "snapshot"
  /\ \/ pre' = home /\ pc' = "copy" /\ UNCHANGED workdir
     \/ UNCHANGED pre /\ pc' = "raised" /\ workdir' = "left"
  /\ UNCHANGED <<work, content, stray, outlived, disk, alerts, ran, f2p,
                 agentOk, out>>

CopyIn ==
  /\ pc = "copy"
  /\ content' = task.base
  /\ pc' = "precheck"
  /\ UNCHANGED <<work, workdir, stray, disk, judge>>

\* Mutant: a pytest that was cut off counts as passed.
PassedUnlessFailed(group) == {TRUE, content[group]}

\* _run_pytest: passed is what the tests say, and False when pytest times out.
Passed(group) == {FALSE, content[group]}

\* Mutant: the return of the error record is forgotten.
PreCheckGoesOn ==
  /\ pc = "precheck"
  /\ \E p \in Passed("f2p") :
       /\ out' = IF p THEN Contract!ErrorRecord ELSE out
       /\ pc' = "prepare"
  /\ UNCHANGED <<work, content, workdir, stray, outlived, disk, pre, alerts,
                 ran, f2p, agentOk>>

PreCheck ==
  /\ pc = "precheck"
  /\ \E p \in Passed("f2p") :
       IF p THEN out' = Contract!ErrorRecord /\ pc' = "finally"
            ELSE UNCHANGED out /\ pc' = "prepare"
  /\ UNCHANGED <<work, content, workdir, stray, outlived, disk, pre, alerts,
                 ran, f2p, agentOk>>

\* invoke_agent up to the subprocess: guardrail files, prompt, command.  The
\* CLI may be missing, which is a verdict all the same; a shell is not.
StartAgent ==
  /\ pc = "prepare"
  /\ \/ pc' = "agent" /\ ran' = TRUE
     \/ ~OnNt /\ pc' = "safety" /\ UNCHANGED ran
  /\ UNCHANGED <<work, content, workdir, stray, outlived, disk, pre, alerts,
                 f2p, agentOk, out>>

\* Any step inside the try block may raise, and Ctrl+C may end the wait for
\* the agent: the finally clause still runs.
StepRaises ==
  /\ InWork
  /\ pc' = "finally"
  /\ stray' \in IF pc = "agent" THEN SUBSET Leftovers ELSE {stray}
  /\ UNCHANGED <<work, content, workdir, disk, judge>>

Wipe(who) == \E i \in home : /\ home' = home \ {i}
                             /\ wipedBy' = [wipedBy EXCEPT ![i] = {who}]

\* The agent, or what is left running of it, edits the work directory or
\* deletes a protected entry.
AgentActs ==
  /\ pc = "agent" \/ stray # {}
  /\ \/ workdir = "live" /\ content' \in Contents /\ UNCHANGED disk
     \/ Wipe(agent) /\ UNCHANGED content
  /\ UNCHANGED <<pc, work, workdir, stray, judge>>

\* The child has exited and nothing holds its output any more.
AgentReturns ==
  /\ pc = "agent"
  /\ pc' = "safety"
  /\ agentOk' = TRUE
  /\ stray' \in SUBSET {"detached"} /\ outlived' = (stray' # {})
  /\ UNCHANGED <<work, content, workdir, disk, pre, alerts, ran, f2p, out>>

\* The timeout: the child is killed, its own children may go on.
KillAgent ==
  /\ pc = "agent"
  /\ pc' = "killed"
  /\ stray' \in SUBSET Leftovers
  /\ UNCHANGED <<work, content, workdir, disk, judge>>

\* Mutant: every platform waits for the output of the leftover processes.
AgentTimesOutClosed ==
  /\ pc = "killed" /\ "holding" \notin stray
  /\ pc' = "safety"
  /\ outlived' = (stray # {})
  /\ UNCHANGED <<work, content, workdir, stray, disk, pre, alerts, ran, f2p,
                 agentOk, out>>

\* TimeoutExpired reaches invoke_agent once subprocess.run lets go.
AgentTimesOut ==
  /\ pc = "killed" /\ (OnNt => "holding" \notin stray)
  /\ pc' = "safety"
  /\ outlived' = (stray # {})
  /\ UNCHANGED <<work, content, workdir, stray, disk, pre, alerts, ran, f2p,
                 agentOk, out>>

StrayExits ==
  /\ \E kind \in stray : stray' = stray \ {kind}
  /\ UNCHANGED <<pc, work, content, workdir, disk, judge>>

OrphanActs ==
  /\ \E a \in orphans : \/ Wipe(a) /\ UNCHANGED orphans
                        \/ orphans' = orphans \ {a} /\ UNCHANGED disk
  /\ UNCHANGED <<pc, task, agent, suspects, content, workdir, stray, judge>>

SafetyCheck ==
  /\ pc = "safety"
  /\ alerts' = pre \ home
  /\ pc' = "f2p"
  /\ UNCHANGED <<work, content, workdir, stray, outlived, disk, pre, ran, f2p,
                 agentOk, out>>

PostFailToPass ==
  /\ pc = "f2p"
  /\ f2p' \in Passed("f2p")
  /\ pc' = "p2p"
  /\ UNCHANGED <<work, content, workdir, stray, outlived, disk, pre, alerts,
                 ran, agentOk, out>>

\* Mutant: an agent that did not complete gets an error record.
PostPassToPassError ==
  /\ pc = "p2p"
  /\ \E p \in Passed("p2p") :
       out' = IF agentOk THEN [kind |-> "verdict", resolved |-> f2p,
                               regression |-> ~p, completed |-> TRUE]
                         ELSE Contract!ErrorRecord
  /\ pc' = "finally"
  /\ UNCHANGED <<work, content, workdir, stray, outlived, disk, pre, alerts,
                 ran, f2p, agentOk>>

\* The last test run, and the record built from both.
PostPassToPass ==
  /\ pc = "p2p"
  /\ \E p \in Passed("p2p") :
       out' = [kind |-> "verdict", resolved |-> f2p, regression |-> ~p,
               completed |-> agentOk]
  /\ pc' = "finally"
  /\ UNCHANGED <<work, content, workdir, stray, outlived, disk, pre, alerts,
                 ran, f2p, agentOk>>

\* Mutant: the early return of the pre-check skips the clean-up.
CleanupOfVerdicts ==
  /\ pc = "finally"
  /\ workdir' = IF out.kind = "error" THEN "left" ELSE "none"
  /\ pc' = IF out = NoRecord THEN "raised" ELSE "returned"
  /\ UNCHANGED <<work, content, stray, disk, judge>>

\* rmtree with ignore_errors: what an agent made undeletable, or a process
\* still writes, stays behind without a word.  Ctrl+C in it loses the record.
Cleanup ==
  /\ pc = "finally"
  /\ \/ /\ workdir' \in IF ran THEN {"none", "left"} ELSE {"none"}
        /\ pc' = IF out = NoRecord THEN "raised" ELSE "returned"
     \/ workdir' = "left" /\ pc' = "raised"
  /\ UNCHANGED <<work, content, stray, disk, judge>>
-----------------------------------------------------------------------------
Harness == \/ Load \/ MakeWorkDir \/ Snapshot \/ CopyIn \/ PreCheck
           \/ StartAgent \/ KillAgent \/ AgentTimesOut
           \/ SafetyCheck \/ PostFailToPass \/ PostPassToPass \/ Cleanup

Next == Harness \/ StepRaises \/ Call \/ AgentActs \/ AgentReturns \/ StrayExits
        \/ OrphanActs

\* The harness is one thread that goes on until its call ends, and the
\* timeout of subprocess.run strikes an agent that does not return.  Nothing
\* is assumed of exceptions, the agent, what it leaves running, or the caller.
Spec == Init /\ [][Next]_vars /\ WF_vars(Harness)
-----------------------------------------------------------------------------
TypeOK ==
  /\ pc \in {"idle", "load", "mkdtemp", "snapshot", "copy", "precheck",
             "prepare", "agent", "killed", "safety", "f2p", "p2p", "finally",
             "returned", "raised"}
  /\ task \in Tasks /\ agent \in Agents /\ content \in Contents
  /\ workdir \in {"none", "live", "left"}
  /\ stray \subseteq Leftovers /\ outlived \in BOOLEAN /\ orphans \subseteq Agents
  /\ suspects \subseteq Agents
  /\ home \subseteq Items /\ wipedBy \in [Items -> SUBSET Agents]
  /\ pre \subseteq Items /\ alerts \subseteq Items
  /\ ran \in BOOLEAN /\ f2p \in BOOLEAN /\ agentOk \in BOOLEAN
  /\ out \in Contract!Records \cup {NoRecord}
  /\ out # NoRecord => pc \in {"finally", "returned", "raised"}

\* run_task implements the contract its callers rely on, the end of every
\* call included: no agent and no leftover process can hold a call up, unless
\* OnNt.
ImplementsContract == Contract!CSpec

\* A record speaks of one state of the work directory, both verdicts of what
\* is there at the end, unless processes of this call's own agent outlived the
\* wait for it: those edit between the two test runs, whether the agent
\* returned by itself or was killed.  A timeout alone, an agent that was not
\* found and the leftovers of earlier calls do no such harm.
CoherentVerdict ==
  (pc = "finally" /\ out.kind = "verdict" /\ ~outlived) =>
     /\ out.resolved => content.f2p
     /\ ~out.regression => content.p2p

\* A call that returns a record leaves its temporary directory behind only
\* if its agent ran: the other leaks come with an exception.
LeakHasACause == (workdir = "left") => (ran \/ pc = "raised")

\* ERR counts no work of an agent: a call that returns an error record has
\* not started one, and a call that started one and returns gives a verdict.
ErrorMeansNoAgent ==
  (pc = "returned") => (out.kind = "error" => ~ran /\ alerts = {})

\* Every entry a safety alert reports was deleted during this call: by its
\* agent, or by a process that an earlier call's timeout had left running.
AlertHasACulprit == 
  \A i \in alerts : wipedBy[i] # {} /\ wipedBy[i] \subseteq {agent} \cup suspects

\* "Agent timed out after {timeout}s": the timeout ends the wait for the
\* agent.
TimeoutEndsTheWait == (pc = "killed") ~> (pc # "killed")
=============================================================================
