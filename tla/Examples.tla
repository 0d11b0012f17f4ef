------------------------------ MODULE Examples ------------------------------
(***************************************************************************)
(* The workflow functions of src/examples as programs.  A call is its      *)
(* primitive, its duration (in units that keep the order of the durations  *)
(* in the code) and the call that follows each result.  All Awaits of the  *)
(* examples name one signal.                                               *)
(***************************************************************************)
EXTENDS Program, TLC

Call(op, delay, next) == [op |-> op, delay |-> delay, next |-> next]

\* if err != nil { return err }, then the call s.
OrFail(s) == [r \in Results |-> IF r \in {Err, Timeout} THEN Fail ELSE s]

\* return wf.Return(...): ErrReturn is handed back to the engine.
Returning == Call("Return", 0, [r \in Results |-> Fail])

\* hello: greet, nap, wait for the approval; a timeout has its own result.
HelloWorkflow ==
  [hello_greet      |-> Call("Execute", 0, OrFail("hello_nap")),
   hello_nap        |-> Call("Sleep", 1, OrFail("hello_approve")),
   hello_approve    |-> Call("Await", 2,
                          [r \in Results |-> IF r = Timeout THEN "hello_unapproved"
                                             ELSE "hello_approved"]),
   hello_unapproved |-> Returning,
   hello_approved   |-> Returning]

\* observability: the same steps; a timeout fails the run.
DemoWorkflow ==
  [demo_greet   |-> Call("Execute", 0, OrFail("demo_nap")),
   demo_nap     |-> Call("Sleep", 1, OrFail("demo_approve")),
   demo_approve |-> Call("Await", 2, OrFail("demo_return")),
   demo_return  |-> Returning]

\* replay: three Executes in a loop, and a Return whose argument changes with
\* every call.
ReplayWorkflow ==
  [square_0 |-> Call("Execute", 0, OrFail("square_1")),
   square_1 |-> Call("Execute", 0, OrFail("square_2")),
   square_2 |-> Call("Execute", 0, OrFail("squares")),
   squares  |-> Returning]

ExampleCalls == HelloWorkflow @@ DemoWorkflow @@ ReplayWorkflow
=============================================================================
