------------------------------- MODULE Model -------------------------------
(***************************************************************************)
(* Run instances and their statuses (src/model/run_meta.go).               *)
(***************************************************************************)
CONSTANT Runs       \* run instances (RunID)

None == "none"      \* no timer, no deadline, no such instance

Statuses == {"Running", "Awaiting", "Succeeded", "Failed", "Cancelled"}

\* RunStatus.IsTerminal.
IsTerminal(s) == s \in {"Succeeded", "Failed", "Cancelled"}
=============================================================================
