----------------------------- MODULE Execution -----------------------------
(***************************************************************************)
(* What the engine promises about one run: the workflow function is walked *)
(* once.  Each call of a primitive records its decision when it is first   *)
(* made, and nothing that happens to the process (a crash, a replay, a     *)
(* failed store call) is visible in the walk.  A failed run may be taken   *)
(* up again where it stopped, a cancelled one never.                       *)
(***************************************************************************)
EXTENDS Program

VARIABLES version,  \* the code version the instance was started with
          trail,    \* the decisions recorded so far
          outcome,  \* "live", "Succeeded", "Failed" or "Cancelled"
          output    \* the result of a succeeded run

execVars == <<version, trail, outcome, output>>

ExecInit ==
  /\ version \in Versions
  /\ trail = << >> /\ outcome = "live" /\ output = Nil

\* The call that has been reached makes its decision.
Decide ==
  /\ outcome = "live"
  /\ trail' # << >>
  /\ LET e == trail'[Len(trail')]
     IN  /\ e \in LogEntry
         /\ Fits(e, Reached(trail, Len(trail), version))
         /\ trail' = Append(trail, e)
  /\ UNCHANGED <<version, outcome, output>>

\* The function has returned: the output is what Return recorded, if it did.
Finish ==
  /\ outcome = "live"
  /\ trail # << >>
  /\ Reached(trail, Len(trail), version).step = Nil
  /\ outcome' = "Succeeded"
  /\ output' = IF trail[Len(trail)].kind = "return" THEN trail[Len(trail)].val ELSE Nil
  /\ UNCHANGED <<version, trail>>

Abort ==
  /\ outcome = "live"
  /\ outcome' = "Failed"
  /\ UNCHANGED <<version, trail, output>>

Withdraw ==
  /\ outcome = "live"
  /\ outcome' = "Cancelled"
  /\ UNCHANGED <<version, trail, output>>

Resume ==
  /\ outcome = "Failed"
  /\ outcome' = "live" /\ output' = Nil
  /\ UNCHANGED <<version, trail>>

ExecNext == Decide \/ Finish \/ Abort \/ Withdraw \/ Resume

ExecSpec == ExecInit /\ [][ExecNext]_execVars
=============================================================================
