------------------------------ MODULE Program ------------------------------
(***************************************************************************)
(* A workflow function, as the replay machinery of src/engine/context.go   *)
(* sees it.  Between two primitive calls business code is deterministic,   *)
(* so the function is an automaton: a Step is one call of a primitive, and *)
(* Succ says which call comes next for each result the call can return.   *)
(* A result is a recorded value, a signal payload, Nil (Sleep returned     *)
(* nil), Timeout (ErrAwaitTimeout) or Err (Execute returned an error).     *)
(* The function ends by returning nil (Nil) or the error at hand (Fail).   *)
(*                                                                         *)
(* Each version of the code has its own entry call; the versions may share *)
(* steps or not.                                                           *)
(***************************************************************************)
EXTENDS Integers, Sequences

CONSTANTS
  Steps,      \* the primitive calls of the workflow functions
  Versions,   \* registered code versions
  Entry,      \* Entry[v]: the first call of version v
  Op,         \* Op[s]: the primitive called at s
  SignalOf,   \* SignalOf[s]: the signal an Await call names
  Delay,      \* Delay[s]: Sleep's d, Await's timeout (0 is "no timeout")
  Succ,       \* Succ[s][r]: the call after s returned r
  Values,     \* results of business functions and arguments of Return
  Payloads,   \* signal payloads; each is sent by one Signal call
  Signals     \* signal names

Nil     == "nil"
Err     == "err"
Timeout == "timeout"
Fail    == "fail"

Primitives == {"Execute", "Sleep", "Await", "Return"}
Results    == Values \cup Payloads \cup {Nil, Err, Timeout}

ASSUME ProgramAssumption ==
  /\ Entry \in [Versions -> Steps]
  /\ Op \in [Steps -> Primitives]
  /\ SignalOf \in [Steps -> Signals]
  /\ Delay \in [Steps -> Nat]
  /\ Succ \in [Steps -> [Results -> Steps \cup {Nil, Fail}]]
  /\ {Nil, Fail} \cap Steps = {}

\* EntryKind: an entry's identity is its kind and its position.
Kinds == {"exec", "sleep", "await_deadline", "await", "await_timeout", "return"}

\* A LogEntry.  "by" is a history field: the step whose call recorded the
\* entry.  The code stores no such thing, and consume never looks at it.
LogEntry ==
  [kind : {"exec", "return"}, val : Values, by : Steps]
    \cup [kind : {"await"}, val : Payloads, by : Steps]
    \cup [kind : {"sleep", "await_deadline"}, val : Nat, by : Steps]
    \cup [kind : {"await_timeout"}, val : {Nil}, by : Steps]

\* The kinds the call at s accepts (the arguments of wf.consume).  An Await
\* with a timeout consumes twice: its deadline when called, then its outcome.
Want(s, stage) ==
  CASE Op[s] = "Execute" -> {"exec"}
    [] Op[s] = "Sleep"   -> {"sleep"}
    [] Op[s] = "Return"  -> {"return"}
    [] Op[s] = "Await"   -> IF Delay[s] = 0 THEN {"await"}
                            ELSE IF stage = "call" THEN {"await_deadline"}
                            ELSE {"await", "await_timeout"}

\* What the call that consumed or committed e returns to business code.
ResultOf(e) ==
  CASE e.kind = "sleep"         -> Nil
    [] e.kind = "await_timeout" -> Timeout
    [] OTHER                    -> e.val

\* The place in the function right after e has been consumed or committed.
After(e) ==
  CASE e.kind = "await_deadline" -> [step |-> e.by, stage |-> "outcome"]
    [] e.kind = "return"         -> [step |-> Nil,  stage |-> "returned"]
    [] OTHER -> [step |-> Succ[e.by][ResultOf(e)], stage |-> "call"]

\* The place version v has reached after the first n entries of j.
Reached(j, n, v) ==
  IF n = 0 THEN [step |-> Entry[v], stage |-> "call"] ELSE After(j[n])

\* e is an entry the call at position p records.
Fits(e, p) ==
  /\ p.step \in Steps
  /\ e.by = p.step
  /\ e.kind \in Want(p.step, p.stage)

\* Business code hands every error of Execute back to the engine.
ErrorsPropagate == \A s \in Steps : Op[s] = "Execute" => Succ[s][Err] = Fail

\* Every Await gives up at some point.
AwaitsTimeOut == \A s \in Steps : Op[s] = "Await" => Delay[s] > 0
=============================================================================
