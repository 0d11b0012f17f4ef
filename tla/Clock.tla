------------------------------- MODULE Clock -------------------------------
(***************************************************************************)
(* The clock the engine waits on (src/clock/clock.go).  Advance moves the  *)
(* time and collects the timers that are due while it holds the mutex; it  *)
(* sends to their channels afterwards, one by one; the channels are        *)
(* buffered and nobody waits on two, so the order of the sends is left     *)
(* open and the slices are sets.  A channel is named by the process that   *)
(* called After: none has two that matter.                                 *)
(***************************************************************************)
EXTENDS Integers

VARIABLES
  now,      \* the time
  timers,   \* timers that have not fired
  due,      \* timers Advance has taken out and has still to send to
  ready     \* channels that hold a value

clockVars == <<now, timers, due, ready>>

ClockInit == now = 0 /\ timers = {} /\ due = {} /\ ready = {}

\* After(d) with d > 0; the caller keeps no other channel.
After(p, d) ==
  /\ timers' = timers \cup {[id |-> p, deadline |-> now + d]}
  /\ ready' = ready \ {p}
  /\ UNCHANGED <<now, due>>

\* !now.Before(deadline).  (Mutant: a timer due this very moment is left.)
MutStrictlyPast(t, time) == time > t.deadline
Reached(t, time) == time >= t.deadline

\* Advance(d), under the mutex.
AdvanceTime(d) ==
  /\ due = {}
  /\ now' = now + d
  /\ due' = { t \in timers : Reached(t, now + d) }
  /\ timers' = { t \in timers : ~Reached(t, now + d) }
  /\ UNCHANGED ready

\* Advance(d), outside: one send.
Send ==
  /\ \E t \in due :
       /\ ready' = ready \cup {t.id}
       /\ due' = due \ {t}
  /\ UNCHANGED <<now, timers>>

\* The process that waited is gone, and its timers with it.
Forget(p) ==
  /\ timers' = { t \in timers : t.id # p }
  /\ due' = { t \in due : t.id # p }
  /\ ready' = ready \ {p}
  /\ UNCHANGED now

\* p has a timer among ts.
In(p, ts) == \E t \in ts : t.id = p
=============================================================================
