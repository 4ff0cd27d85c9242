---------------------------- MODULE TaskContract ----------------------------
(***************************************************************************)
(* What runner.run_task promises its callers: a call ends, either with one *)
(* result record or with an exception.  A record is either a verdict on    *)
(* what the agent left in its work directory, or an error record written   *)
(* without a verdict.  Runner implements this module; MultiRunner uses its *)
(* set of records as the outcomes of the calls it makes.                   *)
(***************************************************************************)

VARIABLES phase,   \* where the call is
          result   \* the record it returned, NoRecord before that

cvars == <<phase, result>>

\* The record of a call that reached the tests after the agent (266-279).
Verdicts == [kind : {"verdict"}, resolved : BOOLEAN, regression : BOOLEAN,
             completed : BOOLEAN]

\* The record of _error_record: every flag of it is False (284-297).
ErrorRecord == [kind |-> "error", resolved |-> FALSE, regression |-> FALSE,
                completed |-> FALSE]

Records == Verdicts \cup {ErrorRecord}

NoRecord == [kind |-> "none"]

CInit == phase = "idle" /\ result = NoRecord

Call == /\ phase \in {"idle", "returned", "raised"}
        /\ phase' = "running"
        /\ result' = NoRecord

Return == /\ phase = "running"
          /\ phase' = "returned"
          /\ result' \in Records

Raise == /\ phase = "running"
         /\ phase' = "raised"
         /\ UNCHANGED result

CNext == Call \/ Return \/ Raise

\* A call that has started ends: the caller never waits for ever.
CSpec == CInit /\ [][CNext]_cvars /\ WF_cvars(Return \/ Raise)
=============================================================================
