--------------------------- MODULE MCMultiRunner ---------------------------
(* Two agents, two tasks, two rounds: each agent goes first once, and      *)
(* Ctrl+C can fall in any of the loops of any round.                       *)
EXTENDS Reports

CONSTANTS amp, claude

Contract == INSTANCE TaskContract WITH phase <- "idle", result <- "none"

MCAgentList == <<amp, claude>>

\* One task in a language that the tabs rename, and one that has no tab.
MCLanguage == <<"cpp", "rust">>

\* One record for each way ProgressTracker.update counts a record.
MCOutcomes == {o \in Contract!Records : ~o.regression /\ o.completed = o.resolved}
=============================================================================
