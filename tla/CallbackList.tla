---------------------------- MODULE CallbackList ----------------------------
(***************************************************************************)
(* jQuery.Callbacks (jquery-1.9.1.js), the list of functions on which      *)
(* jQuery.Deferred, jQuery.ready and the queues of an element are built.   *)
(*                                                                         *)
(* The closure of one list is a record and each method is an operator from *)
(* record to record.  The calls of the functions are not made here: an     *)
(* operator that starts the loop of fire() returns a record whose "firing" *)
(* has become TRUE, and the module that uses it runs the loop, because the *)
(* functions called may come back to the same list.  "live" says that      *)
(* list is not undefined, "stacked" that stack is not.  firingIndex counts *)
(* from 0, as in the code.                                                 *)
(***************************************************************************)
EXTENDS Integers, Sequences, SequencesExt

NoData == 0         \* memory that is undefined or false

CONSTANTS
  Entry,            \* what may be in a list
  Data              \* what a list may be fired with

ASSUME DataAssumption == NoData \notin Data

Options == [once : BOOLEAN, memory : BOOLEAN, unique : BOOLEAN,
            stopOnFalse : BOOLEAN]

Lists == [list : Seq(Entry), live : BOOLEAN, firing : BOOLEAN,
          memory : Data \cup {NoData}, fired : BOOLEAN,
          firingLength : Nat, firingIndex : Int, firingStart : Nat,
          stack : Seq(Data), stacked : BOOLEAN, options : Options]

NewList(options, entries) ==
  [list |-> entries, live |-> TRUE, firing |-> FALSE, memory |-> NoData,
   fired |-> FALSE, firingLength |-> 0, firingIndex |-> 0,
   firingStart |-> 0, stack |-> <<>>, stacked |-> ~options.once,
   options |-> options]

(* fire() up to its loop.                                                  *)
StartFire(l, data) ==
  [l EXCEPT !.memory = IF l.options.memory THEN data ELSE NoData,
            !.fired = TRUE,
            !.firingIndex = l.firingStart,
            !.firingStart = 0,
            !.firingLength = Len(l.list),
            !.firing = TRUE]

(* The condition of the loop.                                              *)
InLoop(l) == l.live /\ l.firingIndex < l.firingLength

Disable(l) ==
  [l EXCEPT !.live = FALSE, !.list = <<>>, !.stacked = FALSE, !.stack = <<>>,
            !.memory = NoData]

(* fire() after its loop: what was asked for meanwhile comes next.         *)
EndFire(l) ==
  LET idle == [l EXCEPT !.firing = FALSE] IN
  CASE ~l.live -> idle
    [] l.live /\ l.stacked /\ l.stack # <<>> ->
         StartFire([idle EXCEPT !.stack = Tail(l.stack)], Head(l.stack))
    [] l.live /\ l.stacked /\ l.stack = <<>> -> idle
    [] l.live /\ ~l.stacked /\ l.memory # NoData ->
         [idle EXCEPT !.list = <<>>]
    [] OTHER -> Disable(idle)

Has(l, c) == c \in Range(l.list)

(* With "memory" a function added after a fire is called at once; during a *)
(* fire it joins the batch.                                                *)
Add(l, c) ==
  LET longer == [l EXCEPT !.list = IF l.options.unique /\ Has(l, c)
                                   THEN @ ELSE Append(@, c)]
  IN CASE ~l.live -> l
       [] l.live /\ l.firing ->
            [longer EXCEPT !.firingLength = Len(longer.list)]
       [] l.live /\ ~l.firing /\ l.memory # NoData ->
            StartFire([longer EXCEPT !.firingStart = Len(l.list)], l.memory)
       [] OTHER -> longer

(* Variant: the index does not count the place the loop is at.           *)
RemoveBefore(l, c) ==
  LET at == {i \in 1..Len(l.list) : l.list[i] = c}
      passed == {i \in at : i <= l.firingIndex}
      count(S) == IF l.firing THEN Cardinality(S) ELSE 0
  IN [l EXCEPT !.list = SelectSeq(l.list, LAMBDA x : x # c),
               !.firingLength = @ - count(at),
               !.firingIndex = @ - count(passed)]

(* All the places of c are cut out; while firing, the loop's index moves   *)
(* back over those it has passed.                                          *)
RemoveEvery(l, c) ==
  LET at == {i \in 1..Len(l.list) : l.list[i] = c}
      passed == {i \in at : i - 1 <= l.firingIndex}
      count(S) == IF l.firing THEN Cardinality(S) ELSE 0
  IN [l EXCEPT !.list = SelectSeq(l.list, LAMBDA x : x # c),
               !.firingLength = @ - count(at),
               !.firingIndex = @ - count(passed)]

Empty(l) == [l EXCEPT !.list = <<>>, !.live = TRUE]

Lock(l) ==
  LET locked == [l EXCEPT !.stacked = FALSE, !.stack = <<>>]
  IN IF l.memory = NoData THEN Disable(locked) ELSE locked

FireWith(l, data) ==
  CASE ~l.live \/ (l.fired /\ ~l.stacked) -> l
    [] l.live /\ (~l.fired \/ l.stacked) /\ l.firing ->
         [l EXCEPT !.stack = Append(@, data)]
    [] OTHER -> StartFire(l, data)

(* The function called has returned; with stopOnFalse, false breaks the    *)
(* loop and forgets the value.                                             *)
Returned(l) == [l EXCEPT !.firingIndex = @ + 1]
Stopped(l) == [l EXCEPT !.memory = NoData, !.firingIndex = l.firingLength]
=============================================================================
