-------------------------------- MODULE MCPage --------------------------------
(* A small instance of Page: a slider of three steps.                      *)
EXTENDS Page

Distances == {-2, 1, 4}
Texts == {1, 3, 4, 9, NaN}
Scales == {0, 1, NaN}
=============================================================================
