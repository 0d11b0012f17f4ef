-------------------------- MODULE MCLeasedExecute --------------------------
(***************************************************************************)
(* A small instance of LeasedExecute.                                      *)
(***************************************************************************)
EXTENDS LeasedExecute, TLC

Interchangeable == Permutations(Procs)

\* Waits of 1, then 2 (8 without the cap); waits of 0 and of less; one attempt; and
\* parameters the constructors repair.
SomePolicies ==
  { NewExponentialBackoff(1, <<8, 1>>, 2, 3), NewFixedDelay(0, 2), NewFixedDelay(-1, 2), NewFixedDelay(1, 0),
    NewExponentialBackoff(0, <<1, 1>>, 0, 2), NoRetry }
=============================================================================
