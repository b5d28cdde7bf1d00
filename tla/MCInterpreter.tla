---------------------------- MODULE MCInterpreter ----------------------------
(***************************************************************************)
(* Small instances of Interpreter.  Timed are the closed programs of three *)
(* instructions of a small set that halt, and not at once; Long and        *)
(* Shipped are longer ones with all other instructions, <<HALT>> is too    *)
(* short for their futures, and Open is left by its own; any of them       *)
(* follows any other.                                                      *)
(***************************************************************************)
EXTENDS Interpreter

I(type, a, b, c, d) ==
  [type |-> type, args |-> [k \in 0 .. 3 |-> <<a, b, c, d>>[k + 1]]]

FUTURE(delay, jmp) == I("FUTURE", delay, jmp, 0, 0)
WAIT(delay, jmp) == I("WAIT", delay, jmp, 0, 0)
GOTO(jmp) == I("GOTO", jmp, 0, 0, 0)
IF_(guard, jmp, x, y) == I("IF", guard, jmp, x, y)
Op(type) == I(type, 0, 0, 0, 0)
HALT == Op("HALT")
END == Op("END_OF_PROGRAM")

Small ==
  {FUTURE(d, 1) : d \in {0, 2}} \cup {FUTURE(1, 2), WAIT(0, 2), WAIT(1, 0)}
    \cup {GOTO(0), HALT, END, Op("RECEIVE")}
    \cup {IF_(CHANNEL_XY_RCV_BUF_EMPTY, 2, 0, 0)}

Timed ==
  {p \in [1 .. 3 -> Small] :
     /\ Closed(p) /\ \E k \in DOMAIN p : p[k].type \in {"HALT", "WAIT"}
     /\ p[1].type \notin {"HALT", "END_OF_PROGRAM"}}

(* Eleven instructions each: jumps to 220, the program's bytes, are        *)
(* refused.  The guards 7 and 8 compare variables, 42 is none.             *)
Counting ==
  << I("SET_COUNTER", 0, 7, 0, 0), I("ADD_TO_COUNTER", 0, 2, 0, 0),
     IF_(TEST_COUNT, 4, 0, 1), END,
     I("SUB_FROM_COUNTER", 0, 3, 0, 0), IF_(TEST_COUNT, 7, 0, 6), END,
     I("CLEAR_COUNTER", 0, 0, 0, 0), IF_(7, 10, 0, 0), IF_(42, 0, 0, 0), END >>

Sending ==
  << I("CREATE", 0, 0, 0, 0), I("SEND", 0, 0, 0, 0),
     IF_(STATUS_TEST, 4, 2^ERR_BIT_RCV_FAULT, 0),
     Op("RECEIVE"), IF_(ALWAYS_FALSE, 0, 0, 0),
     I("SEND", 0, 0, 0, 0), END, END, END, END, END >>

Syncing ==
  << I("SYNC", 0, 0, 0, 0), I("SYNC", 1, 1, 0, 0),
     IF_(STATUS_TEST, 4, 2^ERR_BIT_SYNC_TIMEOUT, 0), WAIT(1, 4),
     FUTURE(2, 6), FUTURE(1, 6), IF_(8, 10, 0, 0), WAIT(1, 5), HALT,
     IF_(ALWAYS_TRUE, 0, 0, 0), END >>

Refusing ==
  << IF_(7, 4, 0, 0), IF_(8, 5, 0, 0), IF_(9, 6, 0, 0), Op("XSEND"),
     FUTURE(1, 220), WAIT(1, 220), GOTO(220), END, END, END, END >>

Long == {Counting, Sending, Syncing, Refusing}

(* A program that leaves a future behind, and one too short for it.        *)
Leaving == {<<FUTURE(1, 2), Op("NOP"), HALT>>, <<HALT>>}

(* samples/vm1.ncm and vm2.ncm, as hax.h builds them, with shorter times.  *)
Shipped ==
  { << I("CREATE", 0, 0, 0, 0), I("SEND", 0, 0, 0, 0), I("SYNC", SYNC_MASTER, 0, 0, 0),
       FUTURE(1, 5), HALT, I("RECEIVE", 0, 1, 0, 0), I("CREATE", 0, 0, 0, 0),
       I("SEND", 0, 0, 0, 0), IF_(ALWAYS_TRUE, 3, 0, 0) >>,
    << I("SYNC", 1, 2, 0, 0), I("CREATE", 0, 0, 0, 0), I("SEND", 0, 0, 0, 0),
       FUTURE(1, 5), HALT, I("RECEIVE", 0, 1, 0, 0), IF_(ALWAYS_TRUE, 1, 0, 0) >> }

(* An IF jumps out of it unchecked, a future within its bytes, and the     *)
(* last instruction goes on.                                               *)
Open ==
  {<<FUTURE(1, 40), IF_(8, 6, 0, 0), IF_(8, 4, 0, 0), HALT, Op("NOP")>>}

Restarted == Long \cup Shipped \cup {<<HALT>>} \cup Open

Late == {<<FUTURE(0, 2), HALT, END>>}
=============================================================================
