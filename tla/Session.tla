------------------------------- MODULE Session -------------------------------
(***************************************************************************)
(* What the control files of the module promise: a program is loaded and   *)
(* replaced only while none runs, what is started is the program loaded    *)
(* last, and one program runs at a time until it is stopped or ends.       *)
(*                                                                         *)
(* Control, with the threads and steps of the code, is shown to implement  *)
(* this module for a single user.                                          *)
(***************************************************************************)
EXTENDS Naturals

CONSTANT MaxLoads  \* bound: programs loaded in a behaviour

None == 0

VARIABLES
  loaded,       \* the program loaded last, or None
  running       \* the program that runs, or None

vars == <<loaded, running>>

Init == loaded = None /\ running = None

Load(p) ==
  /\ running = None
  /\ loaded' = p
  /\ UNCHANGED running

(* A load for which there is no memory leaves no program.                  *)
Lose ==
  /\ running = None
  /\ loaded' = None
  /\ UNCHANGED running

Run ==
  /\ running = None
  /\ loaded # None
  /\ running' = loaded
  /\ UNCHANGED loaded

(* It is stopped, it ends or it fails.                                     *)
End ==
  /\ running # None
  /\ running' = None
  /\ UNCHANGED loaded

Next == Lose \/ Run \/ End \/ \E p \in 1 .. MaxLoads : Load(p)

Spec == Init /\ [][Next]_vars
=============================================================================
