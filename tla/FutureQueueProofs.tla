-------------------------- MODULE FutureQueueProofs --------------------------
(***************************************************************************)
(* Proofs about FutureQueue, for every capacity up to 255, every set of    *)
(* addresses, waits and clock readings, and every number of pushes.        *)
(*                                                                         *)
(* The argument is the classical one for a bubble sort, carried out on the *)
(* window of a circular array: after i passes the last i alarms are in     *)
(* their final places (TailSorted), and within a pass the alarm at j is    *)
(* the latest of those before it (MaxAtJ).  Ties keep the order of their   *)
(* tickets because only strictly later alarms are exchanged.               *)
(*                                                                         *)
(* With that FutureQueue implements FutureSet: a push adds an alarm, every *)
(* step of the sort leaves the set of the alarms in the window alone, and  *)
(* a pop takes the alarm that is due before all others.                    *)
(***************************************************************************)
EXTENDS FutureQueue, FunctionTheorems, FiniteSetTheorems, TLAPS

E(k) == at[Slot(k)].expiry
T(k) == at[Slot(k)].ticket

(* Every queued alarm has a ticket of its own, an old one.                 *)
Tickets ==
  /\ \A k \in Window : T(k) < pushes
  /\ \A k, m \in Window : k # m => T(k) # T(m)

(* Alarms with one expiry are in the order of their tickets.               *)
TiesInOrder ==
  \A k, m \in Window : k < m /\ E(k) = E(m) => T(k) < T(m)

(* No alarm of the last n is earlier than one before it.                   *)
TailSorted(n) ==
  \A k, m \in Window : k < m /\ m + n >= length => E(k) <= E(m)

MaxAtJ == \A k \in Window : k < loop.j => E(k) <= E(loop.j)

SortInv ==
  /\ ~loop.on => TailSorted(length)
  /\ loop.on =>
       /\ loop.i < length
       /\ loop.i + loop.j < length
       /\ TailSorted(loop.i)
       /\ MaxAtJ

IInv ==
  /\ TypeOK
  /\ Tickets
  /\ TiesInOrder
  /\ SortInv

-----------------------------------------------------------------------------
(* Reduction modulo M below 2 * M.                                         *)
LEMMA ModSmall ==
  ASSUME NEW M \in Nat \ {0}, NEW x \in Nat, x < 2 * M
  PROVE  x % M = IF x < M THEN x ELSE x - M
OBVIOUS

LEMMA Capacity == QueueAssumption => MAX_FUTURES \in Nat \ {0}
BY DEF QueueAssumption

(* The slot of a window index, with the wrap written out.                  *)
LEMMA SlotValue ==
  ASSUME QueueAssumption, first \in Slots, NEW k \in 0 .. MAX_FUTURES
  PROVE  Slot(k) = IF first + k < MAX_FUTURES
                   THEN first + k ELSE first + k - MAX_FUTURES
<1>1. /\ MAX_FUTURES \in Nat \ {0}
      /\ first \in Nat
      /\ first + k \in Nat
      /\ first + k < 2 * MAX_FUTURES
  BY Capacity DEF Slots
<1>2. \A x \in Nat : x < 2 * MAX_FUTURES =>
        x % MAX_FUTURES = IF x < MAX_FUTURES THEN x ELSE x - MAX_FUTURES
  BY <1>1, ModSmall
<1>3. QED
  BY <1>1, <1>2, SMTT(30) DEF Slot

(* Window indices name slots of the array, each its own.                   *)
LEMMA SlotType ==
  ASSUME QueueAssumption, first \in Slots, NEW k \in 0 .. MAX_FUTURES
  PROVE  Slot(k) \in Slots
BY Capacity, SlotValue DEF Slots

LEMMA SlotInjective ==
  ASSUME QueueAssumption, first \in Slots,
         NEW k \in Slots, NEW m \in Slots, Slot(k) = Slot(m)
  PROVE  k = m
<1>1. k \in 0 .. MAX_FUTURES /\ m \in 0 .. MAX_FUTURES
  BY Capacity DEF Slots
<1>2. QED
  BY <1>1, Capacity, SlotValue DEF Slots

(* Advancing `first' shifts the window by one.                             *)
LEMMA SlotShift ==
  ASSUME QueueAssumption, first \in Slots,
         first' = (first + 1) % MAX_FUTURES,
         NEW k \in 0 .. MAX_FUTURES - 2
  PROVE  /\ first' \in Slots
         /\ Slot(k)' = Slot(k + 1)
<1>1. first + 1 \in Nat /\ first + 1 < 2 * MAX_FUTURES
  BY Capacity DEF Slots
<1>2. first' = IF first + 1 < MAX_FUTURES
               THEN first + 1 ELSE first + 1 - MAX_FUTURES
  BY <1>1, Capacity, ModSmall DEF Slots
<1>3. first' \in Slots
  BY <1>2, Capacity DEF Slots
<1>4. first' + k \in Nat /\ first' + k < 2 * MAX_FUTURES
  BY <1>3, Capacity DEF Slots
<1>5. Slot(k)' = IF first' + k < MAX_FUTURES
                 THEN first' + k ELSE first' + k - MAX_FUTURES
  BY <1>4, Capacity, ModSmall DEF Slot
<1>6. Slot(k + 1) = IF first + (k + 1) < MAX_FUTURES
                    THEN first + (k + 1) ELSE first + (k + 1) - MAX_FUTURES
  BY SlotValue, Capacity
<1>7. QED
  BY <1>2, <1>3, <1>5, <1>6, Capacity DEF Slots

-----------------------------------------------------------------------------
(* What the actions do to the alarm at each place of the window.           *)
LEMMA PushWindow ==
  ASSUME QueueAssumption, TypeOK, NEW jmp \in Addr, NEW wait \in Waits,
         Push(jmp, wait)
  PROVE  /\ length < MAX_FUTURES /\ length' = length + 1
         /\ \A k \in Window : at'[Slot(k)'] = at[Slot(k)]
         /\ at'[Slot(length)] =
              [jmp |-> jmp, expiry |-> now + wait, ticket |-> pushes]
<1>1. length \in Nat /\ length < MAX_FUTURES /\ MAX_FUTURES < 256
  BY DEF QueueAssumption, TypeOK, Push
<1>2. length' = length + 1
  <2>1. length + 1 \in Nat /\ length + 1 < 256
    BY <1>1, Capacity
  <2>2. (length + 1) % 256 = length + 1
    BY <2>1
  <2>3. QED
    BY <2>2 DEF Push
<1>3. first \in Slots /\ length \in Slots /\ Slot(length) \in Slots
  BY <1>1, Capacity, SlotType, SMTT(30) DEF TypeOK, Slots
<1>4. ASSUME NEW k \in Window
      PROVE  at'[Slot(k)'] = at[Slot(k)]
  <2>1. k \in Slots /\ k # length
    BY <1>1, Capacity DEF Window, Slots
  <2>2. Slot(k) \in Slots /\ Slot(k) # Slot(length)
    BY <1>3, <2>1, Capacity, SlotInjective, SlotType DEF Slots
  <2>3. Slot(k)' = Slot(k)
    BY DEF Push, Slot
  <2>4. QED
    BY <2>2, <2>3 DEF Push, TypeOK
<1>5. QED
  BY <1>1, <1>2, <1>3, <1>4 DEF Push, TypeOK

(* The index an alarm of the window came from in a step of the sort.       *)
Source(k) ==
  IF E(loop.j) <= E(loop.j + 1) THEN k
  ELSE IF k = loop.j THEN loop.j + 1
  ELSE IF k = loop.j + 1 THEN loop.j ELSE k

LEMMA SortStepWindow ==
  ASSUME QueueAssumption, TypeOK, SortStep
  PROVE  /\ loop.j \in Window /\ loop.j + 1 \in Window
         /\ at' \in [Slots -> Future]
         /\ \A k \in Window : /\ Source(k) \in Window
                              /\ at'[Slot(k)'] = at[Slot(Source(k))]
<1>1. /\ length \in Nat /\ length <= MAX_FUTURES
      /\ loop.i \in Nat /\ loop.j \in Nat
      /\ at \in [Slots -> Future] /\ first \in Slots
  BY DEF TypeOK
<1>2. loop.j \in Window /\ loop.j + 1 \in Window
  BY <1>1 DEF SortStep, Window
<1>3. \A k \in Window : /\ k \in Slots /\ Slot(k) \in Slots
                        /\ Slot(k)' = Slot(k)
                        /\ Slot(k) \in DOMAIN at
                        /\ E(k) \in Nat
  <2>1. ASSUME NEW k \in Window PROVE k \in Slots /\ Slot(k) \in Slots
    BY <1>1, Capacity, SlotType DEF Window, Slots
  <2>2. ASSUME NEW k \in Window PROVE Slot(k)' = Slot(k)
    BY DEF SortStep, Slot
  <2>3. ASSUME NEW k \in Window PROVE Slot(k) \in DOMAIN at /\ E(k) \in Nat
    BY <1>1, <2>1 DEF E, Future
  <2>4. QED
    BY <2>1, <2>2, <2>3
<1>4. \A k, m \in Window : Slot(k) = Slot(m) => k = m
  BY <1>1, <1>3, SlotInjective
<1>5. CASE E(loop.j) <= E(loop.j + 1)
  <2>1. at' = at
    BY <1>2, <1>3, <1>5 DEF SortStep, CompareExchange, E
  <2>2. QED
    BY <1>1, <1>2, <1>3, <1>5, <2>1 DEF Source
<1>6. CASE ~(E(loop.j) <= E(loop.j + 1))
  <2>1. at' = [at EXCEPT ![Slot(loop.j)] = at[Slot(loop.j + 1)],
                         ![Slot(loop.j + 1)] = at[Slot(loop.j)]]
    BY <1>2, <1>3, <1>6 DEF SortStep, CompareExchange, E
  <2>2. at' \in [Slots -> Future]
    BY <1>1, <1>2, <1>3, <2>1
  <2>3. Slot(loop.j) # Slot(loop.j + 1)
    BY <1>1, <1>2, <1>4
  <2>4. ASSUME NEW k \in Window
        PROVE  Source(k) \in Window /\ at'[Slot(k)'] = at[Slot(Source(k))]
    <3>1. CASE k = loop.j
      BY <1>1, <1>2, <1>3, <1>6, <2>1, <2>3, <3>1 DEF Source
    <3>2. CASE k = loop.j + 1
      BY <1>1, <1>2, <1>3, <1>6, <2>1, <2>3, <3>2 DEF Source
    <3>3. CASE k # loop.j /\ k # loop.j + 1
      <4>1. Slot(k) # Slot(loop.j) /\ Slot(k) # Slot(loop.j + 1)
        BY <1>2, <1>4, <3>3
      <4>2. QED
        BY <1>1, <1>2, <1>3, <1>6, <2>1, <4>1, <3>3 DEF Source
    <3>4. QED
      BY <3>1, <3>2, <3>3
  <2>5. QED
    BY <1>2, <2>2, <2>4
<1>7. QED
  BY <1>5, <1>6

LEMMA PopWindow ==
  ASSUME QueueAssumption, TypeOK, Pop
  PROVE  /\ length \in 1 .. MAX_FUTURES
         /\ first' \in Slots
         /\ first = Slot(0)
         /\ \A k \in 0 .. length - 2 : at'[Slot(k)'] = at[Slot(k + 1)]
<1>1. length \in 1 .. MAX_FUTURES
  BY DEF Pop, TypeOK
<1>2. first \in Slots /\ MAX_FUTURES \in Nat \ {0}
  BY Capacity DEF TypeOK
<1>3. first' \in Slots
  <2>1. first + 1 \in Nat
    BY <1>2 DEF Slots
  <2>2. (first + 1) % MAX_FUTURES \in 0 .. MAX_FUTURES - 1
    BY <1>2, <2>1
  <2>3. QED
    BY <2>2 DEF Pop, Slots
<1>4. first = Slot(0)
  BY <1>2, SlotValue DEF Slots
<1>5. ASSUME NEW k \in 0 .. length - 2
      PROVE  at'[Slot(k)'] = at[Slot(k + 1)]
  <2>1. k \in 0 .. MAX_FUTURES - 2
    BY <1>1, <1>2
  <2>2. Slot(k)' = Slot(k + 1)
    BY <1>2, <2>1, SlotShift DEF Pop
  <2>3. QED
    BY <2>2 DEF Pop
<1>6. QED
  BY <1>1, <1>3, <1>4, <1>5

-----------------------------------------------------------------------------
(* The fields of the queue keep their types whatever is pushed, sorted,    *)
(* popped or read from the clock; no index leaves the array.               *)
LEMMA TypeStep ==
  ASSUME QueueAssumption, TypeOK, [Next]_vars
  PROVE  TypeOK'
<1>1. ASSUME NEW jmp \in Addr, NEW wait \in Waits, Push(jmp, wait)
      PROVE  TypeOK'
  <2>1. length' \in 0 .. MAX_FUTURES
    <3>1. length < MAX_FUTURES /\ length' = length + 1
      BY <1>1, PushWindow
    <3>2. QED
      BY <3>1, Capacity DEF TypeOK
  <2>2. [jmp |-> jmp, expiry |-> now + wait, ticket |-> pushes] \in Future
    BY DEF Future, TypeOK, QueueAssumption
  <2>3. at' \in [Slots -> Future]
    BY <1>1, <2>2 DEF Push, TypeOK
  <2>4. pushes' \in 0 .. MaxPushes
    BY <1>1 DEF Push, TypeOK, QueueAssumption
  <2>5. QED
    BY <1>1, <2>1, <2>3, <2>4 DEF Push, TypeOK
<1>2. CASE PushFull
  BY <1>2 DEF PushFull, TypeOK, Slots
<1>3. CASE SortStep
  BY <1>3, SortStepWindow DEF SortStep, TypeOK
<1>4. CASE SortPass
  <2>1. loop' \in [on : BOOLEAN, i : Nat, j : Nat]
    BY <1>4 DEF SortPass, TypeOK
  <2>2. QED
    BY <1>4, <2>1 DEF SortPass, TypeOK, Slots, Future
<1>5. CASE SortReturn
  BY <1>5 DEF SortReturn, TypeOK, Idle
<1>6. CASE Pop
  <2>1. length \in 1 .. MAX_FUTURES /\ first' \in Slots /\ first \in Slots
    BY <1>6, PopWindow DEF TypeOK
  <2>2. length' \in 0 .. MAX_FUTURES
    BY <1>6, <2>1, Capacity DEF Pop
  <2>3. out' \in Future
    BY <1>6, <2>1 DEF Pop, TypeOK
  <2>4. QED
    BY <1>6, <2>1, <2>2, <2>3 DEF Pop, TypeOK
<1>7. CASE PopEmpty
  BY <1>7 DEF PopEmpty, TypeOK
<1>8. CASE Clock
  BY <1>8 DEF Clock, TypeOK
<1>9. CASE UNCHANGED vars
  BY <1>9 DEF vars, TypeOK, Slots
<1>10. QED
  BY <1>1, <1>2, <1>3, <1>4, <1>5, <1>6, <1>7, <1>8, <1>9 DEF Next, Sort

(* Steps that leave the window alone keep what only the window decides.    *)
LEMMA SameWindow ==
  ASSUME Tickets, TiesInOrder, UNCHANGED <<first, length, at, pushes>>
  PROVE  Tickets' /\ TiesInOrder'
BY DEF Tickets, TiesInOrder, Window, T, E, Slot

LEMMA PushStep ==
  ASSUME QueueAssumption, IInv, NEW jmp \in Addr, NEW wait \in Waits,
         Push(jmp, wait)
  PROVE  Tickets' /\ TiesInOrder' /\ SortInv'
<1>1. TypeOK /\ Tickets /\ TiesInOrder /\ SortInv
  BY DEF IInv
<1>2. PICK n \in Nat : n = length
  BY <1>1 DEF TypeOK
<1>3. /\ Window = 0 .. n - 1 /\ Window' = 0 .. n
      /\ pushes \in Nat /\ pushes' = pushes + 1 /\ length' = n + 1
  BY <1>1, <1>2, PushWindow DEF Push, TypeOK, Window
<1>4. \A k \in 0 .. n - 1 : T(k)' = T(k) /\ E(k)' = E(k)
  BY <1>1, <1>3, PushWindow DEF T, E
<1>5. T(n)' = pushes
  <2>1. Slot(n)' = Slot(length)
    BY <1>2 DEF Push, Slot
  <2>2. at'[Slot(length)] =
          [jmp |-> jmp, expiry |-> now + wait, ticket |-> pushes]
    BY <1>1, PushWindow
  <2>3. QED
    BY <2>1, <2>2 DEF T
<1>6. \A k \in 0 .. n - 1 : T(k) \in Nat /\ T(k) < pushes
  <2>1. ASSUME NEW k \in 0 .. n - 1 PROVE T(k) \in Nat
    <3>1. Slot(k) \in Slots
      BY <1>1, <1>2, SlotType DEF TypeOK
    <3>2. QED
      BY <1>1, <3>1 DEF TypeOK, T, Future
  <2>2. QED
    BY <1>1, <1>3, <2>1 DEF Tickets
<1>7. Tickets'
  <2>1. \A k \in 0 .. n : T(k)' < pushes'
    BY <1>2, <1>3, <1>4, <1>5, <1>6
  <2>2. \A k, m \in 0 .. n - 1 : k # m => T(k)' # T(m)'
    BY <1>1, <1>3, <1>4 DEF Tickets
  <2>3. \A k \in 0 .. n - 1 : T(k)' # T(n)'
    BY <1>3, <1>4, <1>5, <1>6
  <2>4. \A k, m \in 0 .. n : k # m => T(k)' # T(m)'
    BY <1>2, <2>2, <2>3
  <2>5. QED
    BY <1>3, <2>1, <2>4 DEF Tickets
<1>8. TiesInOrder'
  <2>1. ASSUME NEW k \in 0 .. n, NEW m \in 0 .. n, k < m, E(k)' = E(m)'
        PROVE  T(k)' < T(m)'
    <3>1. CASE m = n
      BY <1>2, <1>4, <1>5, <1>6, <2>1, <3>1
    <3>2. CASE m # n
      <4>1. k \in 0 .. n - 1 /\ m \in 0 .. n - 1
        BY <1>2, <2>1, <3>2
      <4>2. E(k) = E(m)
        BY <1>4, <2>1, <4>1
      <4>3. QED
        BY <1>1, <1>3, <1>4, <2>1, <4>1, <4>2 DEF TiesInOrder
    <3>3. QED
      BY <3>1, <3>2
  <2>2. QED
    BY <1>3, <2>1 DEF TiesInOrder
<1>9. SortInv'
  <2>1. loop' = [on |-> TRUE, i |-> 0, j |-> 0]
    BY DEF Push
  <2>2. TailSorted(0)'
    BY <1>2, <1>3 DEF TailSorted
  <2>3. MaxAtJ'
    BY <1>2, <1>3, <2>1 DEF MaxAtJ
  <2>4. TailSorted(loop.i)'
    BY <2>1, <2>2 DEF TailSorted
  <2>5. QED
    BY <1>2, <1>3, <2>1, <2>3, <2>4 DEF SortInv
<1>10. QED
  BY <1>7, <1>8, <1>9

LEMMA PopStep ==
  ASSUME QueueAssumption, IInv, Pop
  PROVE  Tickets' /\ TiesInOrder' /\ SortInv'
<1>1. TypeOK /\ Tickets /\ TiesInOrder /\ SortInv
  BY DEF IInv
<1>2. PICK n \in Nat : n + 1 = length
  <2>1. length \in Nat \ {0}
    BY <1>1 DEF Pop, TypeOK
  <2>2. length - 1 \in Nat /\ (length - 1) + 1 = length
    BY <2>1
  <2>3. QED
    BY <2>2
<1>3. /\ Window = 0 .. n /\ Window' = 0 .. n - 1
      /\ pushes' = pushes /\ length' = n /\ loop' = loop /\ ~loop.on
  BY <1>2 DEF Pop, Window
<1>4. \A k \in 0 .. n - 1 : /\ k + 1 \in 0 .. n
                            /\ T(k)' = T(k + 1) /\ E(k)' = E(k + 1)
  <2>1. \A k \in 0 .. n - 1 : at'[Slot(k)'] = at[Slot(k + 1)]
    BY <1>1, <1>2, PopWindow
  <2>2. QED
    BY <1>2, <2>1 DEF T, E
<1>5. Tickets'
  <2>1. \A k \in 0 .. n - 1 : T(k)' < pushes'
    BY <1>1, <1>3, <1>4 DEF Tickets
  <2>2. \A k, m \in 0 .. n - 1 : k # m => T(k)' # T(m)'
    <3>1. \A k, m \in 0 .. n : k # m => T(k) # T(m)
      BY <1>1, <1>3 DEF Tickets
    <3>2. QED
      BY <1>4, <3>1
  <2>3. QED
    BY <1>3, <2>1, <2>2 DEF Tickets
<1>6. TiesInOrder'
  <2>1. \A k, m \in 0 .. n : k < m /\ E(k) = E(m) => T(k) < T(m)
    BY <1>1, <1>3 DEF TiesInOrder
  <2>2. \A k, m \in 0 .. n - 1 : k < m /\ E(k)' = E(m)' => T(k)' < T(m)'
    BY <1>4, <2>1
  <2>3. QED
    BY <1>3, <2>2 DEF TiesInOrder
<1>7. SortInv'
  <2>1. \A k, m \in 0 .. n : k < m => E(k) <= E(m)
    BY <1>1, <1>2, <1>3 DEF SortInv, TailSorted
  <2>2. \A k, m \in 0 .. n - 1 : k < m => E(k)' <= E(m)'
    BY <1>4, <2>1
  <2>3. QED
    BY <1>2, <1>3, <2>2 DEF SortInv, TailSorted
<1>8. QED
  BY <1>5, <1>6, <1>7

(* An iteration of the inner loop carries the latest alarm one place on,   *)
(* and never lets two alarms with one expiry pass each other.              *)
LEMMA SortStepStep ==
  ASSUME QueueAssumption, IInv, SortStep
  PROVE  Tickets' /\ TiesInOrder' /\ SortInv'
<1> DEFINE j == loop.j
<1>1. TypeOK /\ Tickets /\ TiesInOrder /\ SortInv
  BY DEF IInv
<1>2. /\ length \in Nat /\ loop.i \in Nat /\ j \in Nat
      /\ loop.on /\ j + loop.i + 1 < length
  BY <1>1 DEF SortStep, TypeOK
<1>3. /\ length' = length /\ Window' = Window /\ pushes' = pushes
      /\ loop'.on /\ loop'.i = loop.i /\ loop'.j = j + 1
  BY <1>1 DEF SortStep, Window, TypeOK
<1>4. \A k \in Window : /\ Source(k) \in Window
                        /\ T(k)' = T(Source(k)) /\ E(k)' = E(Source(k))
  BY <1>1, SortStepWindow DEF T, E
<1>5. \A k \in Window : E(k) \in Nat /\ T(k) \in Nat /\ k \in Nat
  <2>1. ASSUME NEW k \in Window PROVE Slot(k) \in Slots
    BY <1>1, SlotType DEF TypeOK, Window
  <2>2. QED
    BY <1>1, <2>1 DEF TypeOK, E, T, Future, Window
<1>6. j \in Window /\ j + 1 \in Window
  BY <1>2 DEF Window
<1>7. \A k, m \in Window : Source(k) = Source(m) => k = m
  BY <1>5, <1>6 DEF Source
<1>8. Tickets'
  <2>1. \A k \in Window : T(k)' < pushes'
    BY <1>1, <1>3, <1>4 DEF Tickets
  <2>2. \A k, m \in Window : k # m => T(k)' # T(m)'
    BY <1>1, <1>4, <1>7 DEF Tickets
  <2>3. QED
    BY <1>3, <2>1, <2>2 DEF Tickets
<1>9. TiesInOrder'
  <2>1. ASSUME NEW k \in Window, NEW m \in Window,
               k < m, E(Source(k)) = E(Source(m))
        PROVE  Source(k) < Source(m)
    BY <1>5, <1>6, <2>1 DEF Source
  <2>2. ASSUME NEW k \in Window, NEW m \in Window, k < m, E(k)' = E(m)'
        PROVE  T(k)' < T(m)'
    BY <1>1, <1>4, <2>1, <2>2 DEF TiesInOrder
  <2>3. QED
    BY <1>3, <2>2 DEF TiesInOrder
<1>10. SortInv'
  <2>1. \A k, m \in Window : k < m /\ m + loop.i >= length => E(k) <= E(m)
    BY <1>1, <1>2 DEF SortInv, TailSorted
  <2>2. \A k \in Window : k < j => E(k) <= E(j)
    BY <1>1, <1>2 DEF SortInv, MaxAtJ
  <2>3. ASSUME NEW k \in Window, NEW m \in Window,
               k < m, m + loop.i >= length
        PROVE  E(k)' <= E(m)'
    <3>1. Source(m) = m /\ Source(k) < m
      BY <1>2, <1>5, <1>6, <2>3 DEF Source
    <3>2. QED
      BY <1>4, <2>1, <2>3, <3>1
  <2>4. TailSorted(loop.i)'
    BY <1>3, <2>3 DEF TailSorted
  <2>5. E(j) <= E(Source(j + 1)) /\ E(j + 1) <= E(Source(j + 1))
    BY <1>5, <1>6 DEF Source
  <2>6. ASSUME NEW k \in Window, k < j + 1
        PROVE  E(Source(k)) <= E(Source(j + 1))
    <3>1. CASE k = j
      BY <1>5, <1>6, <2>5, <3>1 DEF Source
    <3>2. CASE k # j
      <4>1. Source(k) = k /\ k < j
        BY <1>2, <1>5, <2>6, <3>2 DEF Source
      <4>2. QED
        BY <1>4, <1>5, <1>6, <2>2, <2>5, <4>1
    <3>3. QED
      BY <3>1, <3>2
  <2>7. MaxAtJ'
    <3>1. PICK q \in Window : q = j + 1
      BY <1>6
    <3>2. \A k \in Window : k < q => E(k)' <= E(q)'
      BY <1>4, <2>6, <3>1
    <3>3. E(loop.j)' = E(q)' /\ loop'.j = q
      BY <1>3, <3>1 DEF E, Slot
    <3>4. QED
      BY <1>3, <3>2, <3>3 DEF MaxAtJ
  <2>8. QED
    BY <1>2, <1>3, <2>4, <2>7 DEF SortInv
<1>11. QED
  BY <1>8, <1>9, <1>10

(* At the end of a pass the latest alarm of the unsorted part is in place. *)
LEMMA SortPassStep ==
  ASSUME QueueAssumption, IInv, SortPass
  PROVE  Tickets' /\ TiesInOrder' /\ SortInv'
<1>1. TypeOK /\ Tickets /\ TiesInOrder /\ SortInv
  BY DEF IInv
<1>2. UNCHANGED <<first, length, at, pushes>>
  BY DEF SortPass
<1>3. Tickets' /\ TiesInOrder'
  BY <1>1, <1>2, SameWindow
<1>4. /\ length \in Nat /\ loop.i \in Nat /\ loop.j \in Nat
      /\ loop.on /\ loop.i + 1 < length
      /\ loop.j + loop.i + 1 = length
      /\ loop' = [on |-> TRUE, i |-> loop.i + 1, j |-> 0]
  BY <1>1 DEF SortPass, TypeOK, SortInv
<1>5. \A k \in Window : E(k)' = E(k) /\ k \in Nat
  BY <1>2 DEF E, Slot, Window
<1>6. ASSUME NEW k \in Window, NEW m \in Window,
             k < m, m + (loop.i + 1) >= length
      PROVE  E(k) <= E(m)
  <2>1. CASE m = loop.j
    BY <1>1, <1>4, <1>6, <2>1 DEF SortInv, MaxAtJ
  <2>2. CASE m # loop.j
    <3>1. m + loop.i >= length
      BY <1>4, <1>5, <1>6, <2>2
    <3>2. QED
      BY <1>1, <1>4, <1>6, <3>1 DEF SortInv, TailSorted
  <2>3. QED
    BY <2>1, <2>2
<1>7. Window' = Window /\ length' = length
  BY <1>2 DEF Window
<1>8. TailSorted(loop.i)'
  BY <1>4, <1>5, <1>6, <1>7 DEF TailSorted
<1>9. MaxAtJ'
  BY <1>4, <1>5, <1>7 DEF MaxAtJ
<1>10. SortInv'
  BY <1>4, <1>7, <1>8, <1>9 DEF SortInv
<1>11. QED
  BY <1>3, <1>10

(* When the outer loop ends the whole window is in order.                  *)
LEMMA SortReturnStep ==
  ASSUME QueueAssumption, IInv, SortReturn
  PROVE  Tickets' /\ TiesInOrder' /\ SortInv'
<1>1. TypeOK /\ Tickets /\ TiesInOrder /\ SortInv
  BY DEF IInv
<1>2. UNCHANGED <<first, length, at, pushes>>
  BY DEF SortReturn
<1>3. Tickets' /\ TiesInOrder'
  BY <1>1, <1>2, SameWindow
<1>4. /\ length \in Nat /\ loop.i \in Nat /\ loop.j \in Nat
      /\ loop.on /\ loop.i + 1 = length /\ ~loop'.on
  BY <1>1 DEF SortReturn, TypeOK, SortInv, Idle
<1>5. \A k \in Window : E(k)' = E(k) /\ k \in Nat
  BY <1>2 DEF E, Slot, Window
<1>6. \A k, m \in Window : k < m => E(k) <= E(m)
  BY <1>1, <1>4, <1>5 DEF SortInv, TailSorted
<1>7. Window' = Window
  BY <1>2 DEF Window
<1>8. TailSorted(length)'
  BY <1>5, <1>6, <1>7 DEF TailSorted
<1>9. QED
  BY <1>3, <1>4, <1>8 DEF SortInv

(* Steps that leave the queue and the sort alone.                          *)
LEMMA IdleStep ==
  ASSUME IInv, UNCHANGED <<first, length, at, pushes, loop>>
  PROVE  Tickets' /\ TiesInOrder' /\ SortInv'
<1>1. Tickets /\ TiesInOrder /\ SortInv
  BY DEF IInv
<1>2. Tickets' /\ TiesInOrder'
  BY <1>1, SameWindow
<1>3. SortInv'
  BY <1>1 DEF SortInv, TailSorted, MaxAtJ, Window, E, Slot
<1>4. QED
  BY <1>2, <1>3

-----------------------------------------------------------------------------
LEMMA InitIInv == QueueAssumption /\ Init => IInv
<1> SUFFICES ASSUME QueueAssumption, Init PROVE IInv
  OBVIOUS
<1>1. ZeroFuture \in Future
  BY DEF ZeroFuture, Future, QueueAssumption
<1>2. TypeOK
  BY <1>1 DEF Init, TypeOK, QueueAssumption, Slots, Idle
<1>3. Window = {}
  BY DEF Init, Window
<1>4. Tickets /\ TiesInOrder /\ TailSorted(length)
  BY <1>3 DEF Tickets, TiesInOrder, TailSorted
<1>5. SortInv
  BY <1>4 DEF Init, Idle, SortInv
<1>6. QED
  BY <1>2, <1>4, <1>5 DEF IInv

LEMMA NextIInv == QueueAssumption /\ IInv /\ [Next]_vars => IInv'
<1> SUFFICES ASSUME QueueAssumption, IInv, [Next]_vars PROVE IInv'
  OBVIOUS
<1>1. TypeOK'
  BY TypeStep DEF IInv
<1>2. Tickets' /\ TiesInOrder' /\ SortInv'
  <2>1. ASSUME NEW jmp \in Addr, NEW wait \in Waits, Push(jmp, wait)
        PROVE  Tickets' /\ TiesInOrder' /\ SortInv'
    BY <2>1, PushStep
  <2>2. CASE PushFull
    BY <2>2, IdleStep DEF PushFull
  <2>3. CASE SortStep
    BY <2>3, SortStepStep
  <2>4. CASE SortPass
    BY <2>4, SortPassStep
  <2>5. CASE SortReturn
    BY <2>5, SortReturnStep
  <2>6. CASE Pop
    BY <2>6, PopStep
  <2>7. CASE PopEmpty
    BY <2>7, IdleStep DEF PopEmpty
  <2>8. CASE Clock
    BY <2>8, IdleStep DEF Clock
  <2>9. CASE UNCHANGED vars
    BY <2>9, IdleStep DEF vars
  <2>10. QED
    BY <2>1, <2>2, <2>3, <2>4, <2>5, <2>6, <2>7, <2>8, <2>9 DEF Next, Sort
<1>3. QED
  BY <1>1, <1>2 DEF IInv

(* Between calls the tickets and expiries together order the window.       *)
LEMMA IInvOrder == IInv => WindowInOrder
<1> SUFFICES ASSUME IInv, ~loop.on, NEW k \in Window, NEW m \in Window, k < m
             PROVE  Precedes(at[Slot(k)], at[Slot(m)])
  BY DEF WindowInOrder
<1>1. TypeOK /\ TiesInOrder /\ TailSorted(length)
  BY DEF IInv, SortInv
<1>2. length \in Nat /\ k \in Nat /\ m \in Nat
  BY <1>1 DEF TypeOK, Window
<1>3. E(k) <= E(m)
  BY <1>1, <1>2 DEF TailSorted
<1>4. E(k) = E(m) => T(k) < T(m)
  BY <1>1 DEF TiesInOrder
<1>5. E(k) \in Nat /\ E(m) \in Nat
  BY <1>1, QueueAssumption, SlotType DEF TypeOK, E, Future, Window
<1>6. QED
  BY <1>3, <1>4, <1>5 DEF Precedes, E, T

(* The invariant behind the theorems: the queue and the progress of the    *)
(* sort, in every reachable state.                                         *)
THEOREM Inductive == Spec => []IInv
BY InitIInv, NextIInv, QueueAssumption, PTL DEF Spec

(* No call of push_future or pop_future leaves an index outside the array  *)
(* or a length above its capacity, for any capacity a u8 can count.        *)
THEOREM TypeCorrect == Spec => []TypeOK
<1>1. IInv => TypeOK
  BY DEF IInv
<1>2. QED
  BY <1>1, Inductive, PTL

(* Whenever no push is under way the window is sorted by expiry and then   *)
(* by age: sort_future_queue sorts, stably, wherever the window wraps.     *)
THEOREM AlwaysInOrder == Spec => []WindowInOrder
BY Inductive, IInvOrder, PTL
-----------------------------------------------------------------------------
(* Distinct tickets make the places of the window distinct alarms: the set *)
(* has as many members as the window has places.                           *)
LEMMA QueuedSize ==
  ASSUME IInv
  PROVE  IsFiniteSet(Queued) /\ Cardinality(Queued) = length
<1> DEFINE f == [k \in Window |-> at[Slot(k)]]
<1>1. length \in Nat /\ Tickets
  BY DEF IInv, TypeOK
<1>2. f \in [Window -> Queued]
  BY DEF Queued
<1>3. \A a, b \in Window : f[a] = f[b] => a = b
  BY <1>1 DEF Tickets, T
<1>4. \A q \in Queued : \E k \in Window : f[k] = q
  BY DEF Queued
<1>5. f \in Bijection(Window, Queued)
  BY <1>2, <1>3, <1>4, Fun_IsBij
<1>6. ExistsBijection(Window, Queued)
  BY <1>5 DEF ExistsBijection
<1>7. IsFiniteSet(Window) /\ Cardinality(Window) = length
  BY <1>1, FS_Interval DEF Window
<1>8. QED
  BY <1>6, <1>7, FS_Bijection

(* FutureSet's Cardinality is the one of FiniteSets.                       *)
LEMMA SameCardinality == \A S : Abstract!Cardinality(S) = Cardinality(S)
BY DEF Abstract!Cardinality, Cardinality

LEMMA PushRefines ==
  ASSUME IInv, NEW jmp \in Addr, NEW wait \in Waits, Push(jmp, wait)
  PROVE  Abstract!Push(jmp, wait)
<1> DEFINE new == [jmp |-> jmp, expiry |-> now + wait, ticket |-> pushes]
<1>1. TypeOK
  BY DEF IInv
<1>2. PICK n \in Nat : n = length
  BY <1>1 DEF TypeOK
<1>3. /\ n < MAX_FUTURES /\ length' = n + 1
      /\ \A k \in 0 .. n - 1 : at'[Slot(k)'] = at[Slot(k)]
      /\ at'[Slot(length)] = new
  BY <1>1, <1>2, PushWindow, QueueAssumption DEF Window
<1>4. at'[Slot(n)'] = new
  <2>1. Slot(n)' = Slot(length)
    BY <1>2 DEF Push, Slot
  <2>2. QED
    BY <1>3, <2>1
<1>5. Window = 0 .. n - 1 /\ Window' = (0 .. n - 1) \cup {n}
  BY <1>2, <1>3 DEF Window
<1>6. Queued' = {at'[Slot(k)'] : k \in Window'}
  BY DEF Queued
<1>7. Queued' = Queued \cup {new}
  BY <1>3, <1>4, <1>5, <1>6 DEF Queued
<1>8. Abstract!Cardinality(Queued) < MAX_FUTURES
  BY <1>2, <1>3, QueuedSize, SameCardinality
<1>9. QED
  BY <1>7, <1>8 DEF Push, Abstract!Push

(* The sort permutes the window: Source is its own inverse.                *)
LEMMA SortStepRefines ==
  ASSUME IInv, SortStep
  PROVE  Queued' = Queued
<1>1. TypeOK
  BY DEF IInv
<1>2. /\ loop.j \in Window /\ loop.j + 1 \in Window
      /\ \A k \in Window : /\ Source(k) \in Window
                           /\ at'[Slot(k)'] = at[Slot(Source(k))]
  BY <1>1, SortStepWindow, QueueAssumption
<1>3. loop.j # loop.j + 1
  BY <1>1 DEF TypeOK
<1>4. \A k \in Window : Source(Source(k)) = k
  BY <1>2, <1>3 DEF Source
<1>5. Window' = Window
  BY DEF SortStep, Window
<1>6. Queued' = {at'[Slot(k)'] : k \in Window}
  BY <1>5 DEF Queued
<1>7. Queued' = {at[Slot(Source(k))] : k \in Window}
  BY <1>2, <1>6
<1>8. QED
  BY <1>2, <1>4, <1>7, ZenonT(60) DEF Queued

LEMMA PopRefines ==
  ASSUME IInv, Pop
  PROVE  Abstract!Pop
<1>1. TypeOK /\ WindowInOrder /\ Tickets
  BY IInvOrder DEF IInv
<1>2. PICK n \in Nat : n + 1 = length
  <2>1. length \in Nat \ {0}
    BY <1>1 DEF Pop, TypeOK
  <2>2. length - 1 \in Nat /\ (length - 1) + 1 = length
    BY <2>1
  <2>3. QED
    BY <2>2
<1>3. /\ first = Slot(0)
      /\ \A k \in 0 .. n - 1 : at'[Slot(k)'] = at[Slot(k + 1)]
  BY <1>1, <1>2, PopWindow, QueueAssumption
<1>4. Window = 0 .. n /\ Window' = 0 .. n - 1 /\ 0 \in Window
  BY <1>2 DEF Pop, Window
<1>5. out' = at[Slot(0)] /\ out' \in Queued
  BY <1>3, <1>4 DEF Pop, Queued
<1>6. \A m \in 1 .. n : Precedes(at[Slot(0)], at[Slot(m)])
  BY <1>1, <1>2, <1>4 DEF Pop, WindowInOrder
<1>7. \A m \in 1 .. n : at[Slot(m)] # at[Slot(0)]
  BY <1>1, <1>2, <1>4 DEF Tickets, T
<1>8. Queued \ {out'} = {at[Slot(m)] : m \in 1 .. n}
  BY <1>2, <1>4, <1>5, <1>7 DEF Queued
<1>9. Queued' = {at[Slot(m)] : m \in 1 .. n}
  <2>1. Queued' = {at'[Slot(k)'] : k \in 0 .. n - 1}
    BY <1>4 DEF Queued
  <2>2. Queued' = {at[Slot(k + 1)] : k \in 0 .. n - 1}
    BY <1>3, <2>1
  <2>3. \A m \in 1 .. n : m - 1 \in 0 .. n - 1 /\ (m - 1) + 1 = m
    BY <1>2
  <2>4. \A k \in 0 .. n - 1 : k + 1 \in 1 .. n
    BY <1>2
  <2>5. QED
    BY <2>2, <2>3, <2>4
<1>10. \A g \in Queued \ {out'} : Abstract!Before(out', g)
  BY <1>5, <1>6, <1>8 DEF Precedes, Abstract!Before
<1>11. Queued' = Queued \ {out'}
  BY <1>8, <1>9
<1>12. QED
  BY <1>5, <1>10, <1>11 DEF Pop, Abstract!Pop

(* Steps that leave the window alone leave the set alone.                  *)
LEMMA SameQueued ==
  ASSUME UNCHANGED <<first, length, at>>
  PROVE  Queued' = Queued
BY DEF Queued, Window, Slot

LEMMA StepRefines == IInv /\ [Next]_vars => [Abstract!Next]_Abstract!vars
<1> SUFFICES ASSUME IInv, [Next]_vars PROVE [Abstract!Next]_Abstract!vars
  OBVIOUS
<1>1. ASSUME NEW jmp \in Addr, NEW wait \in Waits, Push(jmp, wait)
      PROVE  Abstract!Next
  BY <1>1, PushRefines DEF Abstract!Next
<1>2. CASE PushFull
  <2>1. Queued' = Queued
    BY <1>2, SameQueued DEF PushFull
  <2>2. Abstract!Cardinality(Queued) = MAX_FUTURES
    BY <1>2, QueuedSize, SameCardinality DEF PushFull
  <2>3. QED
    BY <1>2, <2>1, <2>2 DEF PushFull, Abstract!RefusePush, Abstract!Next
<1>3. CASE SortStep
  BY <1>3, SortStepRefines DEF SortStep, Abstract!vars
<1>4. CASE SortPass
  BY <1>4, SameQueued DEF SortPass, Abstract!vars
<1>5. CASE SortReturn
  BY <1>5, SameQueued DEF SortReturn, Abstract!vars
<1>6. CASE Pop
  BY <1>6, PopRefines DEF Abstract!Next
<1>7. CASE PopEmpty
  <2>1. Queued = {} /\ Queued' = {}
    BY <1>7 DEF PopEmpty, Queued, Window
  <2>2. QED
    BY <1>7, <2>1 DEF PopEmpty, Abstract!RefusePop, Abstract!Next
<1>8. CASE Clock
  <2>1. Queued' = Queued
    BY <1>8, SameQueued DEF Clock
  <2>2. QED
    BY <1>8, <2>1 DEF Clock, Abstract!Clock, Abstract!Next
<1>9. CASE UNCHANGED vars
  BY <1>9, SameQueued DEF vars, Abstract!vars
<1>10. QED
  BY <1>1, <1>2, <1>3, <1>4, <1>5, <1>6, <1>7, <1>8, <1>9 DEF Next, Sort

LEMMA InitRefines == Init => Abstract!Init
BY DEF Init, Abstract!Init, ZeroFuture, Queued, Window

(* For every capacity, the circular array with its in-place bubble sort    *)
(* behaves as the set of pending alarms: no alarm is lost, doubled or      *)
(* overtaken, and pop_future hands out the earliest, oldest first.         *)
THEOREM Implements == Spec => ImplementsFutureSet
<1>1. Spec => []IInv
  BY Inductive
<1>2. QED
  BY <1>1, InitRefines, StepRefines, PTL
     DEF Spec, ImplementsFutureSet, Abstract!Spec
=============================================================================
