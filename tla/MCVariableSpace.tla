--------------------------- MODULE MCVariableSpace ---------------------------
(* Small instances of VariableSpace for TLC.                               *)
EXTENDS VariableSpace

(* Two contents that differ in length and in their first byte, and one     *)
(* that is longer than a buffer and the length behind it.                  *)
MCValues ==
  {[length |-> 2, data |-> <<1, 1, 0, 0>>], [length |-> 1, data |-> <<2, 0, 0, 0>>],
   [length |-> 4, data |-> <<3, 3, 3, 3>>]}
=============================================================================
