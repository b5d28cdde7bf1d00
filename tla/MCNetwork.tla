------------------------------ MODULE MCNetwork -------------------------------
(***************************************************************************)
(* Small instances of Network: a build for one channel with a params file  *)
(* of two, the second of which has no device.                              *)
(***************************************************************************)
EXTENDS Network

Mac == [c \in Channels |-> IF c = 0 THEN "a" ELSE "b"]
=============================================================================
