-------------------------- MODULE MCWorkflowContext --------------------------
(***************************************************************************)
(* Small workflow functions for WorkflowContext.                           *)
(***************************************************************************)
EXTENDS WorkflowContext, Examples

\* The examples, and an order: charge, then (by the value charged) cool down or
\* not, wait for an approval with a timeout (which fails the order), confirm
\* without one, return.
Order ==
  [charge  |-> Call("Execute", 0, [r \in Results |-> CASE r = "x" -> "cool" [] r = "y" -> "approve"
                                                      [] OTHER -> Fail]),
   cool    |-> Call("Sleep", 1, OrFail("approve")),
   approve |-> Call("Await", 1, OrFail("confirm")),
   confirm |-> Call("Await", 0, OrFail("finish")),
   finish  |-> Returning]
Calls == Order @@ ExampleCalls

ShopSteps == DOMAIN Calls
ShopEntry == [order |-> "charge", hello |-> "hello_greet", demo |-> "demo_greet",
              replay |-> "square_0"]
ShopOp == [s \in ShopSteps |-> Calls[s].op]
ShopSignalOf == [s \in ShopSteps |-> IF s = "confirm" THEN "b" ELSE "a"]
ShopDelay == [s \in ShopSteps |-> Calls[s].delay]
ShopSucc == [s \in ShopSteps |-> Calls[s].next]
ShopTarget == [p \in Payloads |-> IF p = "p2" THEN "b" ELSE "a"]

\* A function that awaits the same signal twice, the second time for long.
TwiceSteps == {"first", "second"}
TwiceEntry == [v1 |-> "first"]
TwiceOp == [s \in TwiceSteps |-> "Await"]
TwiceSignalOf == [s \in TwiceSteps |-> "a"]
TwiceDelay == [first |-> 1, second |-> 0]
TwiceSucc == [s \in TwiceSteps |-> [r \in Results |-> IF s = "first" THEN "second" ELSE Nil]]
ToA == [p \in Payloads |-> "a"]

\* A function that handles the error of Execute with another Execute, and all
\* of whose waits end by themselves.
CatchSteps == {"try", "alt", "cool", "approve", "finish"}
CatchEntry == [v1 |-> "try"]
CatchOp == [try |-> "Execute", alt |-> "Execute", cool |-> "Sleep", approve |-> "Await",
            finish |-> "Return"]
CatchSignalOf == [s \in CatchSteps |-> "a"]
CatchDelay == [s \in CatchSteps |-> CASE s = "cool" -> 1 [] s = "approve" -> 2 [] OTHER -> 0]
CatchSucc ==
  [s \in CatchSteps |-> [r \in Results |->
     CASE s = "try"     -> (CASE r = "x" -> Nil [] r = "y" -> "cool" [] OTHER -> "alt")
       [] s = "alt"     -> IF r = Err THEN Fail ELSE "approve"
       [] s = "cool"    -> "approve"
       [] s = "approve" -> "finish"
       [] s = "finish"  -> Fail ]]
ASSUME CatchAssumption == CatchSteps = Steps => AwaitsTimeOut /\ ~ErrorsPropagate
=============================================================================
