------------------------------ MODULE MCEngine ------------------------------
(***************************************************************************)
(* Small instances of Engine: the workflow functions they execute.         *)
(***************************************************************************)
EXTENDS Engine, TLC

Interchangeable ==
  Permutations(Workers) \cup Permutations(Waiters) \cup Permutations(Manuals) \cup Permutations(Cancellers)

Everywhere(plan) == [r \in Runs |-> plan]
ExecSleep  == Everywhere(<<"exec", "sleep">>)
SleepAwait == Everywhere(<<"sleep", "await">>)
JustSleep  == Everywhere(<<"sleep">>)
JustExec   == Everywhere(<<"exec">>)

\* One run sleeps and waits for a signal, the others do neither.
Mixed ==
  LET one == CHOOSE r \in Runs : TRUE
  IN  [r \in Runs |-> IF r = one THEN <<"sleep", "await">> ELSE <<"exec">>]
=============================================================================
