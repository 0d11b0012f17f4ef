--------------------------- MODULE WaiterRegistry ---------------------------
(***************************************************************************)
(* The registry behind WaitDone (src/engine/waiters.go).  A waiter is a    *)
(* WaitDone call with its channel; notify takes the registrations of a run *)
(* out of the registry in one step and closes the channels in later ones.  *)
(***************************************************************************)
EXTENDS Model

CONSTANT Waiters

VARIABLES
  byID,      \* byID[r]: the waiters registered for r
  closed     \* waiters whose channel has been closed

registryVars == <<byID, closed>>

RegistryTypeOK == byID \in [Runs -> SUBSET Waiters] /\ closed \subseteq Waiters

RegistryInit == byID = [r \in Runs |-> {}] /\ closed = {}

Add(r, w) == byID' = [byID EXCEPT ![r] = @ \cup {w}] /\ UNCHANGED closed

\* Mutant: the registration stays behind.
MutRemoveNothing(r, w) == UNCHANGED <<byID, closed>>
Remove(r, w) == byID' = [byID EXCEPT ![r] = @ \ {w}] /\ UNCHANGED closed

\* The locked half of notify; byID[r] is the snapshot to close.
Detach(r) == byID' = [byID EXCEPT ![r] = {}] /\ UNCHANGED closed

\* The unlocked half: close the channels of the snapshot ws.
Close(ws) == closed' = closed \cup ws /\ UNCHANGED byID
=============================================================================
