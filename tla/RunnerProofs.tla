---------------------------- MODULE RunnerProofs ----------------------------
(***************************************************************************)
(* Proofs about Runner, for any agents, protected entries and platform.    *)
(***************************************************************************)
EXTENDS Runner, TLAPS

\* The steps of a call before its agent is started.
BeforeAgent == {"load", "mkdtemp", "snapshot", "copy", "precheck", "prepare"}

\* Until the agent is started the call has nothing to answer for, and until
\* it ends nothing of it outlives it.
Fresh ==
  /\ pc \in BeforeAgent => ~ran /\ alerts = {}
  /\ pc \in BeforeAgent \cup {"agent"} => stray = {}

\* An error record is made only where no agent was started.
ErrorIsEarly == out.kind = "error" => ~ran /\ alerts = {}

\* While the work is judged, and after, nothing edits it but what outlived the
\* wait for the agent, so that without that the first verdict still holds when
\* the second is given.
Judged == pc \in {"safety", "f2p", "p2p"} \/ (pc = "finally" /\ out.kind = "verdict")

Settled ==
  /\ Judged /\ ~outlived => stray = {}
  /\ pc = "p2p" /\ ~outlived => (f2p => content.f2p)

\* What this call may be blamed for: whatever is gone since the snapshot was
\* deleted by its agent or by an agent that earlier calls left running.
Blame ==
  /\ orphans \subseteq suspects
  /\ alerts \subseteq pre \ home
  /\ \A i \in pre \ home : /\ wipedBy[i] # {}
                           /\ wipedBy[i] \subseteq {agent} \cup suspects

IInv == /\ TypeOK /\ Fresh /\ ErrorIsEarly /\ Settled /\ Blame
        /\ LeakHasACause /\ CoherentVerdict
-----------------------------------------------------------------------------
LEMMA RecordFields ==
  /\ NoRecord.kind = "none"
  /\ Contract!ErrorRecord.kind = "error"
  /\ Contract!ErrorRecord \in Contract!Records
  /\ \A o \in Contract!Records :
       o.kind \in {"verdict", "error"} /\ o # NoRecord
BY DEF NoRecord, Contract!ErrorRecord, Contract!Records, Contract!Verdicts

LEMMA InitInvariant == Init => IInv
<1> SUFFICES ASSUME Init PROVE IInv
  OBVIOUS
<1> USE RecordFields DEF Init
<1>1. TypeOK
  BY DEF TypeOK, Contents
<1>2. Fresh /\ ErrorIsEarly /\ LeakHasACause
  BY DEF Fresh, ErrorIsEarly, LeakHasACause, BeforeAgent
<1>3. Settled /\ CoherentVerdict
  BY DEF Settled, Judged, CoherentVerdict
<1>4. Blame
  BY DEF Blame
<1>5. QED
  BY <1>1, <1>2, <1>3, <1>4 DEF IInv

\* Every step keeps the variables in their types.
LEMMA TypeStep == TypeOK /\ [Next]_vars => TypeOK'
<1> SUFFICES ASSUME TypeOK, [Next]_vars PROVE TypeOK'
  OBVIOUS
<1> USE RecordFields DEF TypeOK, work, disk, judge
<1>1. CASE Call
  BY <1>1 DEF Call
<1>2. CASE Load \/ MakeWorkDir \/ Snapshot
  BY <1>2 DEF Load, MakeWorkDir, Snapshot
<1>3. CASE CopyIn
  BY <1>3 DEF CopyIn, Tasks, Contents
<1>4. CASE PreCheck \/ StartAgent \/ StepRaises
  BY <1>4 DEF PreCheck, StartAgent, StepRaises, InWork
<1>5. CASE AgentActs \/ OrphanActs
  BY <1>5 DEF AgentActs, OrphanActs, Wipe
<1>6. CASE AgentReturns \/ KillAgent \/ AgentTimesOut \/ StrayExits
  BY <1>6 DEF AgentReturns, KillAgent, AgentTimesOut, StrayExits, Leftovers
<1>7. CASE SafetyCheck \/ Cleanup
  BY <1>7 DEF SafetyCheck, Cleanup
<1>8. CASE PostFailToPass
  BY <1>8 DEF PostFailToPass, Passed, Contents
<1>9. CASE PostPassToPass
  BY <1>9 DEF PostPassToPass, Passed, Contents, Contract!Records,
              Contract!Verdicts
<1>10. CASE UNCHANGED vars
  BY <1>10 DEF vars
<1>11. QED
  BY <1>1, <1>2, <1>3, <1>4, <1>5, <1>6, <1>7, <1>8, <1>9, <1>10
  DEF Next, Harness

\* What a call may be held to before and after its agent.
LEMMA FreshStep ==
  ASSUME IInv, [Next]_vars
  PROVE  Fresh' /\ ErrorIsEarly' /\ LeakHasACause'
<1> USE RecordFields DEF IInv, TypeOK, Fresh, ErrorIsEarly, LeakHasACause,
                         BeforeAgent, work, disk, judge
<1>1. CASE Call
  BY <1>1 DEF Call
<1>2. CASE Load \/ MakeWorkDir \/ Snapshot \/ CopyIn
  BY <1>2 DEF Load, MakeWorkDir, Snapshot, CopyIn
<1>3. CASE PreCheck \/ StartAgent \/ StepRaises
  BY <1>3 DEF PreCheck, StartAgent, StepRaises, InWork
<1>4. CASE AgentActs \/ OrphanActs \/ StrayExits
  BY <1>4 DEF AgentActs, OrphanActs, StrayExits, Wipe
<1>5. CASE AgentReturns \/ KillAgent \/ AgentTimesOut
  BY <1>5 DEF AgentReturns, KillAgent, AgentTimesOut
<1>6. CASE SafetyCheck \/ PostFailToPass \/ Cleanup
  BY <1>6 DEF SafetyCheck, PostFailToPass, Cleanup
<1>7. CASE PostPassToPass
  BY <1>7 DEF PostPassToPass
<1>8. CASE UNCHANGED vars
  BY <1>8 DEF vars
<1>9. QED
  BY <1>1, <1>2, <1>3, <1>4, <1>5, <1>6, <1>7, <1>8 DEF Next, Harness

\* The work of an agent that left nothing running is not touched while it is
\* judged.
LEMMA SettledStep ==
  ASSUME IInv, [Next]_vars
  PROVE  Settled' /\ CoherentVerdict'
<1> USE RecordFields DEF IInv, TypeOK, Fresh, Settled, Judged, CoherentVerdict,
                         BeforeAgent, work, disk, judge
<1>1. CASE Call
  BY <1>1 DEF Call
<1>2. CASE Load \/ MakeWorkDir \/ Snapshot \/ CopyIn
  BY <1>2 DEF Load, MakeWorkDir, Snapshot, CopyIn
<1>3. CASE PreCheck \/ StartAgent \/ StepRaises
  BY <1>3 DEF PreCheck, StartAgent, StepRaises, InWork
<1>4. CASE AgentActs \/ OrphanActs \/ StrayExits
  BY <1>4 DEF AgentActs, OrphanActs, StrayExits, Wipe
<1>5. CASE AgentReturns \/ KillAgent \/ AgentTimesOut
  BY <1>5 DEF AgentReturns, KillAgent, AgentTimesOut
<1>6. CASE SafetyCheck \/ Cleanup
  BY <1>6 DEF SafetyCheck, Cleanup
<1>7. CASE PostFailToPass
  BY <1>7 DEF PostFailToPass, Passed, Contents
<1>8. CASE PostPassToPass
  <2>1. PICK p \in {FALSE, content.p2p} :
          out' = [kind |-> "verdict", resolved |-> f2p, regression |-> ~p,
                  completed |-> agentOk]
    BY <1>8 DEF PostPassToPass, Passed
  <2>2. out'.resolved = f2p /\ out'.regression = ~p
    BY <2>1
  <2>3. p => content.p2p
    BY <2>1
  <2>4. UNCHANGED <<stray, outlived, content, f2p>> /\ pc = "p2p" /\ pc' = "finally"
    BY <1>8 DEF PostPassToPass
  <2>5. Settled'
    BY <2>2, <2>4
  <2>6. CoherentVerdict'
    BY <2>2, <2>3, <2>4
  <2>7. QED
    BY <2>5, <2>6
<1>9. CASE UNCHANGED vars
  BY <1>9 DEF vars
<1>10. QED
  BY <1>1, <1>2, <1>3, <1>4, <1>5, <1>6, <1>7, <1>8, <1>9 DEF Next, Harness

\* A deletion is by the agent of this call or by one it may be blamed with.
LEMMA BlameStep ==
  ASSUME IInv, [Next]_vars
  PROVE  Blame'
<1> USE DEF IInv, TypeOK, Blame, work, disk, judge
<1>1. CASE Call
  BY <1>1 DEF Call
<1>2. CASE Snapshot
  BY <1>2 DEF Snapshot, Fresh, BeforeAgent
<1>3. CASE SafetyCheck
  BY <1>3 DEF SafetyCheck
<1>4. CASE AgentActs \/ OrphanActs
  BY <1>4 DEF AgentActs, OrphanActs, Wipe
<1>5. CASE Load \/ MakeWorkDir \/ CopyIn \/ PreCheck \/ StartAgent
  BY <1>5 DEF Load, MakeWorkDir, CopyIn, PreCheck, StartAgent
<1>6. CASE StepRaises \/ AgentReturns \/ KillAgent \/ AgentTimesOut
  BY <1>6 DEF StepRaises, AgentReturns, KillAgent, AgentTimesOut
<1>7. CASE StrayExits \/ PostFailToPass \/ PostPassToPass \/ Cleanup
  BY <1>7 DEF StrayExits, PostFailToPass, PostPassToPass, Cleanup
<1>8. CASE UNCHANGED vars
  BY <1>8 DEF vars
<1>9. QED
  BY <1>1, <1>2, <1>3, <1>4, <1>5, <1>6, <1>7, <1>8 DEF Next, Harness

\* The invariant that holds the parts of a call together.
THEOREM CallInvariant == Spec => []IInv
<1>1. IInv /\ [Next]_vars => IInv'
  BY TypeStep, FreshStep, SettledStep, BlameStep DEF IInv
<1>2. QED
  BY InitInvariant, <1>1, PTL DEF Spec

\* The variables of run_task keep their types, and no step goes on after a
\* record has been made.
THEOREM TypeCorrect == Spec => []TypeOK
<1>1. IInv => TypeOK
  BY DEF IInv
<1>2. QED
  BY CallInvariant, <1>1, PTL

\* The two verdicts of a record are about one state of the work directory, after
\* a timeout too and whatever leftovers of earlier agents do, unless processes
\* of this call's own agent outlived the wait for it.
THEOREM VerdictsAreCoherent == Spec => []CoherentVerdict
<1>1. IInv => CoherentVerdict
  BY DEF IInv
<1>2. QED
  BY CallInvariant, <1>1, PTL

\* A work directory stays behind only with an agent or an exception.
THEOREM LeaksHaveCauses == Spec => []LeakHasACause
<1>1. IInv => LeakHasACause
  BY DEF IInv
<1>2. QED
  BY CallInvariant, <1>1, PTL

\* An error record stands for a call that started no agent.
THEOREM ErrorsStartNoAgent == Spec => []ErrorMeansNoAgent
<1>1. IInv => ErrorMeansNoAgent
  BY DEF IInv, ErrorIsEarly, ErrorMeansNoAgent
<1>2. QED
  BY CallInvariant, <1>1, PTL

\* Every alert has a culprit among the agent and the leftovers of earlier
\* agents.
THEOREM AlertsHaveCulprits == Spec => []AlertHasACulprit
<1>1. IInv => AlertHasACulprit
  BY DEF IInv, Blame, AlertHasACulprit
<1>2. QED
  BY CallInvariant, <1>1, PTL
-----------------------------------------------------------------------------
\* The safety part of ImplementsContract.
ContractSteps == Contract!CInit /\ [][Contract!CNext]_(Contract!cvars)

LEMMA StepImplementsContract ==
  ASSUME IInv, [Next]_vars
  PROVE  [Contract!CNext]_(Contract!cvars)
<1> USE RecordFields DEF Contract!CNext, Contract!cvars, Contract!Call,
      Contract!Return, Contract!Raise, Contract!NoRecord, NoRecord,
      work, disk, judge
<1>1. CASE Call
  BY <1>1 DEF Call
<1>2. CASE Load
  BY <1>2 DEF Load
<1>3. CASE Cleanup
  BY <1>3 DEF Cleanup, IInv, TypeOK
<1>4. CASE MakeWorkDir \/ Snapshot \/ CopyIn \/ PreCheck \/ StartAgent
  BY <1>4 DEF MakeWorkDir, Snapshot, CopyIn, PreCheck, StartAgent
<1>5. CASE StepRaises \/ AgentReturns \/ KillAgent \/ AgentTimesOut
  BY <1>5 DEF StepRaises, AgentReturns, KillAgent, AgentTimesOut, InWork
<1>6. CASE SafetyCheck \/ PostFailToPass \/ PostPassToPass
  BY <1>6 DEF SafetyCheck, PostFailToPass, PostPassToPass
<1>7. CASE AgentActs \/ StrayExits \/ OrphanActs
  BY <1>7 DEF AgentActs, StrayExits, OrphanActs
<1>8. CASE UNCHANGED vars
  BY <1>8 DEF vars
<1>9. QED
  BY <1>1, <1>2, <1>3, <1>4, <1>5, <1>6, <1>7, <1>8 DEF Next, Harness

\* Every step of run_task is a step of the contract or none: one record or
\* one exception for each call.
THEOREM StepsFollowContract == Spec => ContractSteps
<1>1. Init => Contract!CInit
  BY DEF Init, Contract!CInit, Contract!NoRecord, NoRecord
<1>2. QED
  BY CallInvariant, StepImplementsContract, <1>1, PTL DEF Spec, ContractSteps
=============================================================================
