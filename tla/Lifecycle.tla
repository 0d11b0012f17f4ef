----------------------------- MODULE Lifecycle -----------------------------
(***************************************************************************)
(* What the engine promises about a run, without saying how: the status    *)
(* graph of model.RunStatus, and that only the one holder of a run's lock  *)
(* moves the run along it.                                                 *)
(***************************************************************************)
EXTENDS Model, Naturals

CONSTANTS
  Procs,       \* who may hold a run
  Decisions    \* Decisions[r]: the decisions r's workflow takes to succeed

VARIABLES
  status,      \* the status of a run, or None
  done,        \* its decisions so far
  holders      \* who holds it

vars == <<status, done, holders>>

Init ==
  /\ status = [r \in Runs |-> None]
  /\ done = [r \in Runs |-> 0]
  /\ holders = [r \in Runs |-> {}]

Become(r, s) == status' = [status EXCEPT ![r] = s] /\ UNCHANGED <<done, holders>>

Create(r) == status[r] = None /\ Become(r, "Running")

Claim(r) ==
  /\ holders[r] = {}
  /\ \E p \in Procs : holders' = [holders EXCEPT ![r] = {p}]
  /\ UNCHANGED <<status, done>>

\* A holder lets go, or a crash takes any number of them.
LetGo ==
  /\ \E lost \in SUBSET Runs :
       holders' = [r \in Runs |-> IF r \in lost THEN {} ELSE holders[r]]
  /\ UNCHANGED <<status, done>>

Decide(r) ==
  /\ status[r] = "Running" /\ done[r] < Decisions[r]
  /\ done' = [done EXCEPT ![r] = @ + 1]
  /\ UNCHANGED <<status, holders>>

\* What the holder of r may do to it.
Move(r) ==
  /\ holders[r] # {}
  /\ \/ status[r] = "Awaiting" /\ Become(r, "Running")
     \/ status[r] = "Running" /\ Become(r, "Awaiting")
     \/ status[r] = "Running" /\ done[r] = Decisions[r] /\ Become(r, "Succeeded")
     \/ status[r] \in {"Running", "Awaiting"} /\ Become(r, "Failed")
     \/ status[r] \in {"Running", "Awaiting"} /\ Become(r, "Cancelled")
     \/ status[r] = "Failed" /\ Become(r, "Running")
     \/ Decide(r)

Next == LetGo \/ \E r \in Runs : Create(r) \/ Claim(r) \/ Move(r)

Spec == Init /\ [][Next]_vars
=============================================================================
