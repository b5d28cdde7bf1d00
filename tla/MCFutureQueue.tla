---------------------------- MODULE MCFutureQueue ----------------------------
(***************************************************************************)
(* Small instances of FutureQueue.  Three slots make the window wrap round *)
(* the array; five or six pushes refill it after pops; waits of 0, 1 and 3 *)
(* under a clock that jumps both ways produce equal and inverted expiries. *)
(***************************************************************************)
EXTENDS FutureQueue

MCAddr == {0}
MCWaits == {0, 1, 3}
MCTimes == {0, 2}
=============================================================================
