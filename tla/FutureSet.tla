------------------------------ MODULE FutureSet ------------------------------
(***************************************************************************)
(* What the future queue of the Network Code interpreter promises.         *)
(*                                                                         *)
(* A future is an alarm: at the time `expiry' the interpreter continues at *)
(* `jmp'.  The queue is the set of the pending alarms; taking one removes  *)
(* the alarm that expires first and, of two that expire together, the one  *)
(* that was pushed first.  `ticket', the number of the push, exists only   *)
(* to state that rule; the code has no such field.                         *)
(*                                                                         *)
(* FutureQueue, the circular array with its in-place bubble sort, is shown *)
(* to implement this module.                                               *)
(***************************************************************************)
EXTENDS Naturals, FiniteSets

CONSTANTS
  MAX_FUTURES,  \* capacity of the queue
  Addr,         \* jump addresses
  Waits,        \* the waits programs ask for, in microseconds
  Times,        \* the readings the wall clock can return
  MaxPushes     \* bound: pushes in a behaviour

VARIABLES
  pending,      \* the set of the pending alarms
  pushes,       \* alarms pushed so far: the next ticket
  now,          \* the wall clock
  ret,          \* what the last push or pop returned
  out           \* the alarm the last successful pop handed over

vars == <<pending, pushes, now, ret, out>>

(* f is due before g.                                                      *)
Before(f, g) ==
  \/ f.expiry < g.expiry
  \/ f.expiry = g.expiry /\ f.ticket < g.ticket

Init ==
  /\ pending = {}
  /\ pushes = 0
  /\ now \in Times
  /\ ret = "OK"
  /\ out = [jmp |-> 0, expiry |-> 0, ticket |-> 0]

Push(jmp, wait) ==
  /\ Cardinality(pending) < MAX_FUTURES
  /\ pushes < MaxPushes
  /\ pending' = pending \cup
       {[jmp |-> jmp, expiry |-> now + wait, ticket |-> pushes]}
  /\ pushes' = pushes + 1
  /\ ret' = "OK"
  /\ UNCHANGED <<now, out>>

RefusePush ==
  /\ Cardinality(pending) = MAX_FUTURES
  /\ ret' = "FULL"
  /\ UNCHANGED <<pending, pushes, now, out>>

Pop ==
  /\ \E f \in pending :
       /\ \A g \in pending \ {f} : Before(f, g)
       /\ out' = f
       /\ pending' = pending \ {f}
  /\ ret' = "OK"
  /\ UNCHANGED <<pushes, now>>

RefusePop ==
  /\ pending = {}
  /\ ret' = "EMPTY"
  /\ UNCHANGED <<pending, pushes, now, out>>

Clock ==
  /\ now' \in Times
  /\ UNCHANGED <<pending, pushes, ret, out>>

Next ==
  \/ \E jmp \in Addr, wait \in Waits : Push(jmp, wait)
  \/ RefusePush
  \/ Pop
  \/ RefusePop
  \/ Clock

Spec == Init /\ [][Next]_vars
=============================================================================
