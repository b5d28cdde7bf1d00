----------------------------- MODULE MCControl ------------------------------
EXTENDS Control

CONSTANTS u1, u2

Group(who, most, times, late, fails) ==
  [users |-> who, loads |-> most, starts |-> times, late |-> late,
   fails |-> fails]

(* One user; two who write at the same time.                               *)
MCGroups ==
  {Group({u1}, 3, 3, FALSE, FALSE), Group({u1}, 2, 2, TRUE, TRUE),
   Group({u1, u2}, 2, 2, FALSE, FALSE), Group({u1, u2}, 2, 1, TRUE, TRUE)}
OneUser == {Group({u1}, 3, 3, FALSE, FALSE)}
TwoUsers == {Group({u1, u2}, 2, 2, FALSE, FALSE)}
=============================================================================
