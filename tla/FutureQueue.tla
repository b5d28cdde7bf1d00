----------------------------- MODULE FutureQueue -----------------------------
(***************************************************************************)
(* The future queue of the interpreter (future_queue.c): an array of       *)
(* MAX_FUTURES alarms used as a circular buffer whose window of `length'   *)
(* slots starting at `first' is kept sorted by expiry.                     *)
(*                                                                         *)
(* A push writes the slot after the window and bubble-sorts the window in  *)
(* place.  Its loops are modelled one iteration per step, so that what the *)
(* sort does for every capacity and every content can be proved; nothing   *)
(* else is enabled until it returns, because only the interpreter's thread *)
(* uses the queue.  The expiry is computed from the wall clock, which can  *)
(* be set forward and back between any two calls.                          *)
(***************************************************************************)
EXTENDS Naturals, FiniteSets

CONSTANTS
  MAX_FUTURES,  \* number of slots of the array
  Addr,         \* jump addresses
  Waits,        \* the waits programs ask for, in microseconds
  Times,        \* the readings now_us() can return
  MaxPushes     \* bound: pushes in a behaviour

(* The indices are u8: a larger array could not be told full.              *)
ASSUME QueueAssumption ==
  /\ MAX_FUTURES \in 1..255
  /\ Addr \subseteq Nat /\ 0 \in Addr
  /\ Waits \subseteq Nat
  /\ Times \subseteq Nat
  /\ MaxPushes \in Nat

VARIABLES
  first,        \* u8: index of the first alarm
  length,       \* u8: number of alarms
  at,           \* the array
  now,          \* the wall clock
  loop,         \* the sort: whether it runs, and its counters i and j
  pushes,       \* history: alarms pushed so far, the next alarm's ticket
  ret,          \* what the last push_future or pop_future returned
  out           \* *out_el of the last pop that succeeded

vars == <<first, length, at, now, loop, pushes, ret, out>>

Slots == 0 .. MAX_FUTURES - 1

(* ncm_future_queue_el_t.  wait_time is written and never read: left out.  *)
Future == [jmp : Addr, expiry : Nat, ticket : Nat]

ZeroFuture == [jmp |-> 0, expiry |-> 0, ticket |-> 0]

(* f is due before g, or as early and pushed before it.                    *)
Precedes(f, g) ==
  \/ f.expiry < g.expiry
  \/ f.expiry = g.expiry /\ f.ticket < g.ticket

(* Variant: forgets that the window starts at `first'.                     *)
SlotFromZero(k) == k % MAX_FUTURES

(* The slot of the k-th alarm of the window.                               *)
Slot(k) == (first + k) % MAX_FUTURES

Idle == [on |-> FALSE, i |-> 0, j |-> 0]

(* init_future_queue; the interpreter is a static, zeroed, structure.      *)
Init ==
  /\ first = 0
  /\ length = 0
  /\ at = [s \in Slots |-> ZeroFuture]
  /\ now \in Times
  /\ loop = Idle
  /\ pushes = 0
  /\ ret = "OK"
  /\ out = ZeroFuture

(* push_future up to its call of sort_future_queue.                        *)
Push(jmp, wait) ==
  /\ ~loop.on
  /\ length # MAX_FUTURES
  /\ pushes < MaxPushes
  /\ at' = [at EXCEPT ![Slot(length)] =
              [jmp |-> jmp, expiry |-> now + wait, ticket |-> pushes]]
  /\ length' = (length + 1) % 256
  /\ pushes' = pushes + 1
  /\ loop' = [on |-> TRUE, i |-> 0, j |-> 0]
  /\ ret' = "OK"
  /\ UNCHANGED <<first, now, out>>

(* push_future on a full queue: FUTURE_Q_FULL.                             *)
PushFull ==
  /\ ~loop.on
  /\ length = MAX_FUTURES
  /\ ret' = "FULL"
  /\ UNCHANGED <<first, length, at, now, loop, pushes, out>>

(* Variant: exchanges neighbours that are equal, too.                      *)
CompareExchangeEqual(a, jx, jxp) ==
  IF a[jx].expiry >= a[jxp].expiry
  THEN [a EXCEPT ![jx] = a[jxp], ![jxp] = a[jx]]
  ELSE a

(* Exchange two neighbours that are out of order; equal ones stay.         *)
CompareExchange(a, jx, jxp) ==
  IF a[jx].expiry > a[jxp].expiry
  THEN [a EXCEPT ![jx] = a[jxp], ![jxp] = a[jx]]
  ELSE a

(* One iteration of the inner loop of sort_future_queue.                   *)
SortStep ==
  /\ loop.on
  /\ loop.i + 1 < length
  /\ loop.j + loop.i + 1 < length
  /\ at' = CompareExchange(at, Slot(loop.j), Slot(loop.j + 1))
  /\ loop' = [loop EXCEPT !.j = @ + 1]
  /\ UNCHANGED <<first, length, now, pushes, ret, out>>

(* Variant: the outer loop does not advance.                               *)
SortPassStuck ==
  /\ loop.on
  /\ loop.i + 1 < length
  /\ loop.j + loop.i + 1 >= length
  /\ loop' = [on |-> TRUE, i |-> loop.i, j |-> 0]
  /\ UNCHANGED <<first, length, at, now, pushes, ret, out>>

(* The inner loop ends: the next iteration of the outer one.               *)
SortPass ==
  /\ loop.on
  /\ loop.i + 1 < length
  /\ loop.j + loop.i + 1 >= length
  /\ loop' = [on |-> TRUE, i |-> loop.i + 1, j |-> 0]
  /\ UNCHANGED <<first, length, at, now, pushes, ret, out>>

(* The outer loop ends: push_future returns.                               *)
SortReturn ==
  /\ loop.on
  /\ loop.i + 1 >= length
  /\ loop' = Idle
  /\ UNCHANGED <<first, length, at, now, pushes, ret, out>>

Sort == SortStep \/ SortPass \/ SortReturn

(* Variant: pop_future does not look whether the queue is empty.           *)
PopUnchecked ==
  /\ ~loop.on
  /\ out' = at[first]
  /\ first' = (first + 1) % MAX_FUTURES
  /\ length' = length - 1
  /\ ret' = "OK"
  /\ UNCHANGED <<at, now, loop, pushes>>

(* pop_future.                                                             *)
Pop ==
  /\ ~loop.on
  /\ length # 0
  /\ out' = at[first]
  /\ first' = (first + 1) % MAX_FUTURES
  /\ length' = length - 1
  /\ ret' = "OK"
  /\ UNCHANGED <<at, now, loop, pushes>>

(* pop_future on an empty queue: FUTURE_Q_EMPTY.                           *)
PopEmpty ==
  /\ ~loop.on
  /\ length = 0
  /\ ret' = "EMPTY"
  /\ UNCHANGED <<first, length, at, now, loop, pushes, out>>

(* The wall clock moves, or is set.                                        *)
Clock ==
  /\ now' \in Times
  /\ UNCHANGED <<first, length, at, loop, pushes, ret, out>>

Next ==
  \/ \E jmp \in Addr, wait \in Waits : Push(jmp, wait)
  \/ PushFull
  \/ Sort
  \/ Pop
  \/ PopEmpty
  \/ Clock

Spec == Init /\ [][Next]_vars

(* The thread that pushes runs the sort to its end.                        *)
FairSpec == Spec /\ WF_vars(Sort)

-----------------------------------------------------------------------------
(* The window indices 0 .. length - 1, and the alarms in the window.       *)
Window == 0 .. length - 1

Queued == {at[Slot(k)] : k \in Window}

(* The queue never holds more than its array and its fields stay in range  *)
(* (queue->first and queue->length are u8).                                *)
TypeOK ==
  /\ first \in Slots
  /\ length \in 0 .. MAX_FUTURES
  /\ at \in [Slots -> Future]
  /\ now \in Times
  /\ loop \in [on : BOOLEAN, i : Nat, j : Nat]
  /\ pushes \in 0 .. MaxPushes
  /\ ret \in {"OK", "FULL", "EMPTY"}
  /\ out \in Future

(* Between calls the window is sorted, and alarms with one expiry are in   *)
(* the order they were pushed in, wherever the window wraps round the end  *)
(* of the array: what peek and pop rely on (sort_future_queue).            *)
WindowInOrder ==
  ~loop.on =>
    \A k, m \in Window : k < m => Precedes(at[Slot(k)], at[Slot(m)])

(* Every push returns: the two loops of sort_future_queue end.             *)
PushReturns == loop.on ~> ~loop.on

(* The array implements the set of alarms: no alarm is lost, duplicated or *)
(* overtaken by the sort, by the wrap of the indices or by a full queue.   *)
Abstract == INSTANCE FutureSet WITH pending <- Queued
ImplementsFutureSet == Abstract!Spec
=============================================================================
