----------------------------- MODULE Interpreter -----------------------------
(***************************************************************************)
(* The thread that interprets a Network Code program (interpreter.c,       *)
(* guards.c, counter.c): it fetches the instruction at the program         *)
(* counter, runs its handler, and looks between two instructions whether   *)
(* it was told to stop.  A program that was stopped is followed by         *)
(* another, on the same interpreter.  (That a thread which has returned by *)
(* itself may be gone when it is stopped is for Control to say.)           *)
(*                                                                         *)
(* The future queue is a sequence sorted by expiry: FutureQueue shows that *)
(* the array of the code behaves like one.  Variables are written by users *)
(* at any time, so a guard about them can have any value; messages arrive  *)
(* at any time.  Channels all have a device, as after a correct params     *)
(* file.                                                                   *)
(*                                                                         *)
(* now_us is the wall clock (do_gettimeofday), which can be set back or    *)
(* forward at any time; the timer of a sleep counts what has passed.       *)
(*                                                                         *)
(* External: usleep_range(r, r) returns r microseconds later, or after     *)
(* more, or when kthread_stop wakes the thread; for a u64 that wrapped     *)
(* below zero the kernel clamps the timer to its maximum, which is         *)
(* centuries.                                                              *)
(***************************************************************************)
EXTENDS Integers, Sequences, SequencesExt, FiniteSets

CONSTANTS
  Programs,     \* what is loaded: sequences of instructions
  Channels,     \* the channels of the params file
  MAX_FUTURES, MAX_COUNTERS, MAX_MESSAGES,
  Modulus,      \* the counters are u32: 2^32
  SizeofInstr,  \* sizeof(ncm_instr_t)
  MaxTime,      \* bound: the clock
  MaxQueued,    \* bound: messages in a queue
  MaxStarts     \* bound: starts in a behaviour

ALWAYS_TRUE == 0
ALWAYS_FALSE == 1
CHANNEL_XY_RCV_BUF_EMPTY == 2
SEND_BUFFER_EMPTY == 3
TEST_COUNT == 4
STATUS_TEST == 5
VariableTests == 6 .. 9   \* EQUAL, GREATER, LESS_VAR_VAR, TEST_VAR
VAR_QUEUE_EMPTY == 10
VAR_QUEUE_FULL == 11

ERR_BIT_SYNC_TIMEOUT == 15
ERR_BIT_RCV_FAULT == 10

SYNC_MASTER == 0

Counters == 0 .. MAX_COUNTERS - 1
Messages == 0 .. MAX_MESSAGES - 1

Instruction == [type : STRING, args : [0 .. 3 -> Nat]]

(* The handlers index the arrays with the arguments as they are; and a     *)
(* count of futures is a u8.                                               *)
Legal(i) ==
  /\ i.type \in {"CLEAR_COUNTER", "ADD_TO_COUNTER", "SUB_FROM_COUNTER", "SET_COUNTER"}
       => i.args[0] \in Counters
  /\ i.type = "CREATE" => i.args[1] \in Messages
  /\ i.type = "SEND" => i.args[0] \in Channels /\ i.args[1] \in Messages
  /\ i.type = "RECEIVE" => i.args[0] \in Channels
  /\ i.type = "SYNC" /\ i.args[0] = SYNC_MASTER => i.args[1] \in Channels
  /\ i.type = "IF" =>
       /\ i.args[0] = CHANNEL_XY_RCV_BUF_EMPTY => i.args[2] \in Channels
       /\ i.args[0] = TEST_COUNT => i.args[2] \in Counters

ASSUME InterpreterAssumption ==
  /\ \A p \in Programs : p \in Seq(Instruction) /\ \A k \in DOMAIN p : Legal(p[k])
  /\ Channels \subseteq Nat
  /\ MAX_FUTURES \in 1 .. 255 /\ MAX_COUNTERS \in Nat /\ MAX_MESSAGES \in Nat
  /\ Modulus \in Nat \ {0} /\ SizeofInstr \in Nat \ {0}
  /\ MaxTime \in Nat /\ MaxQueued \in Nat /\ MaxStarts \in Nat

VARIABLES
  program,      \* the block of instructions
  program_length, \* the length sysfs stored beside it
  fits,         \* history: closed, and so were the futures it started with
  program_counter,
  future_queue, \* the pending futures, first to expire first
  counters,
  error_bits,   \* the bits that are set
  message_space, \* of each slot, whether it holds a packet
  message_queue, \* of each channel, how many messages are queued
  status,       \* where the thread is
  head,         \* handle_halt's popped future; history after it returns
  timer,        \* what is left of its sleep
  deadline,     \* when ncm_receive_sync gives up
  should_stop,  \* the flag kthread_stop sets
  now,          \* the wall clock
  steady,       \* history: it was not set since a HALT last read it
  missed,       \* history: a pending future was overdue, by no sleep in time
  starts,       \* starts so far
  nonempty      \* history: channels found not empty and not received from

machine == <<program, program_length, fits>>
data == <<counters, error_bits>>
network == <<message_space, message_queue>>
sleep == <<head, timer>>
control == <<should_stop, starts>>
clock == <<now, steady, missed>>

vars == <<machine, program_counter, future_queue, data, network, status, sleep,
          deadline, control, clock, nonempty>>

Future == [jmp_address : Nat, expiry : Nat]
NoFuture == [jmp_address |-> 0, expiry |-> 0]

(* init_interpreter; the structure is static and zeroed.                   *)
Init ==
  /\ program = << >> /\ program_length = 0 /\ fits = TRUE
  /\ program_counter = 0
  /\ future_queue = << >>
  /\ counters = [c \in Counters |-> 0]
  /\ error_bits = {}
  /\ message_space = [m \in Messages |-> FALSE]
  /\ message_queue = [c \in Channels |-> 0]
  /\ status = "absent"
  /\ head = NoFuture /\ timer = 0 /\ deadline = 0
  /\ should_stop = FALSE /\ starts = 0
  /\ now = 0 /\ steady = TRUE /\ missed = FALSE
  /\ nonempty = {}

-----------------------------------------------------------------------------
(* A program is closed if its jumps stay in it or are refused and no       *)
(* instruction that goes on to the next one is its last.  A start fits if  *)
(* its program is closed and contains what the pending futures jump to.    *)
Refused(p, jmp) == jmp >= SizeofInstr * Len(p)

Final(i) ==
  \/ i.type \in {"GOTO", "HALT", "WAIT", "END_OF_PROGRAM"}
  \/ i.type = "IF" /\ i.args[0] = ALWAYS_TRUE

Closed(p) ==
  /\ p # << >>
  /\ \A k \in DOMAIN p :
       LET i == p[k]
       IN  /\ i.type = "IF" => i.args[1] < Len(p)
           /\ i.type \in {"FUTURE", "WAIT"} => i.args[1] < Len(p) \/ Refused(p, i.args[1])
           /\ i.type = "GOTO" => i.args[0] < Len(p) \/ Refused(p, i.args[0])
           /\ k = Len(p) => Final(i)

Fits(p) ==
  /\ Closed(p)
  /\ \A k \in DOMAIN future_queue : future_queue[k].jmp_address < Len(p)

(* A program is written to the code file, whose length is the number of    *)
(* its bytes, and start_interpreter starts it: the network is initialised  *)
(* anew and nothing else is.                                               *)
Start(p) ==
  /\ status = "absent" /\ starts < MaxStarts
  /\ program' = p
  /\ program_length' = SizeofInstr * Len(p)
  /\ fits' = Fits(p)
  /\ program_counter' = 0
  /\ message_space' = [m \in Messages |-> FALSE]
  /\ message_queue' = [c \in Channels |-> 0]
  /\ status' = "check"
  /\ starts' = starts + 1
  /\ nonempty' = {} /\ head' = NoFuture
  /\ UNCHANGED <<future_queue, data, timer, deadline, should_stop, clock>>

(* kthread_stop sets the flag and wakes the thread, whose handle_halt      *)
(* then goes on as if the time had come.                                   *)
Asleep == status \in {"asleep", "asleep for ages"}

(* Variant: wakes the thread and sets the flag too late to be seen.        *)
StopUnflagged ==
  /\ status # "absent" /\ ~should_stop
  /\ status' = IF Asleep THEN "check" ELSE status
  /\ program_counter' = IF Asleep THEN head.jmp_address ELSE program_counter
  /\ timer' = 0
  /\ UNCHANGED <<machine, future_queue, data, network, head, deadline, control,
                 clock, nonempty>>

Stop ==
  /\ status # "absent" /\ ~should_stop
  /\ should_stop' = TRUE
  /\ status' = IF Asleep THEN "check" ELSE status
  /\ program_counter' = IF Asleep THEN head.jmp_address ELSE program_counter
  /\ timer' = 0
  /\ UNCHANGED <<machine, future_queue, data, network, head, deadline, starts,
                 clock, nonempty>>

(* stop_interpreter returns when the thread has.                           *)
Stopped ==
  /\ status = "exited" /\ should_stop
  /\ status' = "absent"
  /\ should_stop' = FALSE
  /\ UNCHANGED <<machine, program_counter, future_queue, data, network, sleep,
                 deadline, starts, clock, nonempty>>

(* Variant: while(1).                                                      *)
CheckUnflagged ==
  /\ status = "check"
  /\ status' = IF program_counter < Len(program) THEN "run" ELSE "wild"
  /\ UNCHANGED <<machine, program_counter, future_queue, data, network, sleep,
                 deadline, control, clock, nonempty>>

(* The loop of interpreter_threadfn; what lies behind the program is not   *)
(* the program's.                                                          *)
Check ==
  /\ status = "check"
  /\ status' = IF should_stop THEN "exited"
               ELSE IF program_counter < Len(program) THEN "run" ELSE "wild"
  /\ UNCHANGED <<machine, program_counter, future_queue, data, network, sleep,
                 deadline, control, clock, nonempty>>

-----------------------------------------------------------------------------
At(type) == status = "run" /\ program[program_counter + 1].type = type
arg(k) == program[program_counter + 1].args[k]

(* What the loop does with the result of a handler.                        *)
INSTR_OK == status' = "check" /\ program_counter' = program_counter + 1
INSTR_ERROR == status' = "exited" /\ UNCHANGED program_counter
INSTR_CHANGE_PC(pc) == status' = "check" /\ program_counter' = pc

HandleNop ==
  /\ At("NOP")
  /\ INSTR_OK
  /\ UNCHANGED <<machine, future_queue, data, network, sleep, deadline, control,
                 clock, nonempty>>

(* Variant: push_future does not sort.                                     *)
PushedLast(f) == Append(future_queue, f)

(* push_future: behind the futures that do not expire later.               *)
Pushed(f) ==
  InsertAt(future_queue,
           Cardinality({k \in DOMAIN future_queue :
                          future_queue[k].expiry <= f.expiry}) + 1, f)

(* Variant: does not look whether the queue is full.                       *)
CanPushFull == arg(1) < program_length

CanPush == arg(1) < program_length /\ Len(future_queue) # MAX_FUTURES

HandleFuture ==
  /\ At("FUTURE")
  /\ \/ /\ CanPush
        /\ future_queue' = Pushed([jmp_address |-> arg(1), expiry |-> now + arg(0)])
        /\ INSTR_OK
     \/ ~CanPush /\ INSTR_ERROR /\ UNCHANGED future_queue
  /\ UNCHANGED <<machine, data, network, sleep, deadline, control, clock, nonempty>>

(* handle_wait: a future, and then a halt, which reads the clock again.    *)
HandleWait ==
  /\ At("WAIT")
  /\ \/ /\ CanPush
        /\ future_queue' = Pushed([jmp_address |-> arg(1), expiry |-> now + arg(0)])
        /\ status' = "halt"
     \/ ~CanPush /\ status' = "exited" /\ UNCHANGED future_queue
  /\ UNCHANGED <<machine, program_counter, data, network, sleep, deadline,
                 control, clock, nonempty>>

(* range = head.expiry - now_us() is unsigned and never below zero.        *)
SleepOf(f) == IF f.expiry >= now THEN "asleep" ELSE "asleep for ages"

HandleHalt ==
  /\ At("HALT") \/ status = "halt"
  /\ \/ /\ future_queue # << >>
        /\ head' = Head(future_queue)
        /\ future_queue' = Tail(future_queue)
        /\ status' = SleepOf(head')
        /\ timer' = IF head'.expiry >= now THEN head'.expiry - now ELSE 0
        /\ steady' = TRUE
     \/ /\ future_queue = << >>
        /\ status' = "exited"
        /\ UNCHANGED <<sleep, future_queue, steady>>
  /\ UNCHANGED <<machine, program_counter, data, network, deadline, control,
                 now, missed, nonempty>>

(* usleep_range returns.                                                   *)
Wake ==
  /\ status = "asleep" /\ timer = 0
  /\ INSTR_CHANGE_PC(head.jmp_address)
  /\ UNCHANGED <<machine, future_queue, data, network, sleep, deadline, control,
                 clock, nonempty>>

HandleGoto ==
  /\ At("GOTO")
  /\ \/ arg(0) < program_length /\ INSTR_CHANGE_PC(arg(0))
     \/ arg(0) >= program_length /\ INSTR_ERROR
  /\ UNCHANGED <<machine, future_queue, data, network, sleep, deadline, control,
                 clock, nonempty>>

(* Variant: breaks from the switch instead of returning.                   *)
HandleEndOfProgramBreak ==
  /\ At("END_OF_PROGRAM")
  /\ INSTR_OK
  /\ UNCHANGED <<machine, future_queue, data, network, sleep, deadline, control,
                 clock, nonempty>>

HandleEndOfProgram ==
  /\ At("END_OF_PROGRAM")
  /\ status' = "exited"
  /\ UNCHANGED <<machine, program_counter, future_queue, data, network, sleep,
                 deadline, control, clock, nonempty>>

-----------------------------------------------------------------------------
Bit(mask, b) == (mask \div 2^b) % 2 = 1

(* Variant: tests whether the queue has a message.                         *)
GuardInverted(g, x, y) ==
  CASE g = ALWAYS_TRUE -> {TRUE}
    [] g = CHANNEL_XY_RCV_BUF_EMPTY -> {message_queue[x] # 0}
    [] g = TEST_COUNT -> {counters[x] = y}
    [] OTHER -> BOOLEAN

(* test_guard: the values the guard can have; none if it is invalid.       *)
Guard(g, x, y) ==
  CASE g = ALWAYS_TRUE -> {TRUE}
    [] g = CHANNEL_XY_RCV_BUF_EMPTY -> {message_queue[x] = 0}
    [] g = TEST_COUNT -> {counters[x] = y}
    [] g = STATUS_TEST -> {\E b \in error_bits : Bit(x, b)}
    [] g \in VariableTests -> BOOLEAN
    [] g \in {ALWAYS_FALSE, SEND_BUFFER_EMPTY, VAR_QUEUE_EMPTY, VAR_QUEUE_FULL} -> {FALSE}
    [] OTHER -> {}

HandleIf ==
  /\ At("IF")
  /\ LET values == Guard(arg(0), arg(2), arg(3))
     IN  \/ TRUE \in values /\ INSTR_CHANGE_PC(arg(1)) /\ UNCHANGED nonempty
         \/ /\ FALSE \in values
            /\ INSTR_OK
            /\ nonempty' = IF arg(0) = CHANNEL_XY_RCV_BUF_EMPTY
                           THEN nonempty \cup {arg(2)} ELSE nonempty
         \/ values = {} /\ INSTR_ERROR /\ UNCHANGED nonempty
  /\ UNCHANGED <<machine, future_queue, data, network, sleep, deadline, control, clock>>

SetCounter(c, n) == counters' = [counters EXCEPT ![c] = n % Modulus]

HandleCounter ==
  /\ \/ At("CLEAR_COUNTER") /\ SetCounter(arg(0), 0)
     \/ At("SET_COUNTER") /\ SetCounter(arg(0), arg(1))
     \/ At("ADD_TO_COUNTER") /\ SetCounter(arg(0), counters[arg(0)] + arg(1))
     \/ At("SUB_FROM_COUNTER") /\ SetCounter(arg(0), counters[arg(0)] - arg(1))
  /\ INSTR_OK
  /\ UNCHANGED <<machine, future_queue, error_bits, network, sleep, deadline,
                 control, clock, nonempty>>

HandleCreate ==
  /\ At("CREATE")
  /\ message_space' = [message_space EXCEPT ![arg(1)] = TRUE]
  /\ INSTR_OK
  /\ UNCHANGED <<machine, future_queue, data, message_queue, sleep, deadline,
                 control, clock, nonempty>>

(* ncm_send_message: the packet is given away; an empty slot is an error.  *)
HandleSend ==
  /\ At("SEND")
  /\ \/ message_space[arg(1)] /\ INSTR_OK
     \/ ~message_space[arg(1)] /\ INSTR_ERROR
  /\ message_space' = [message_space EXCEPT ![arg(1)] = FALSE]
  /\ UNCHANGED <<machine, future_queue, data, message_queue, sleep, deadline,
                 control, clock, nonempty>>

set_error(b) == error_bits' = error_bits \cup {b}
clear_error(b) == error_bits' = error_bits \ {b}

HandleReceive ==
  /\ At("RECEIVE")
  /\ LET c == arg(0)
     IN  /\ \/ /\ message_queue[c] = 0
               /\ set_error(ERR_BIT_RCV_FAULT)
               /\ UNCHANGED message_queue
            \/ /\ message_queue[c] > 0
               /\ message_queue' = [message_queue EXCEPT ![c] = @ - 1]
               /\ clear_error(ERR_BIT_RCV_FAULT)
         /\ nonempty' = nonempty \ {c}
  /\ INSTR_OK
  /\ UNCHANGED <<machine, future_queue, counters, message_space, sleep, deadline,
                 control, clock>>

(* A master sends and goes on; a slave waits, blind to kthread_stop.       *)
HandleSync ==
  /\ At("SYNC")
  /\ \/ arg(0) = SYNC_MASTER /\ INSTR_OK /\ UNCHANGED deadline
     \/ /\ arg(0) # SYNC_MASTER
        /\ status' = "sync"
        /\ deadline' = now + arg(1)
        /\ UNCHANGED program_counter
  /\ UNCHANGED <<machine, future_queue, data, network, sleep, control, clock, nonempty>>

(* A packet of the master ends the wait, or the clock is found past the    *)
(* deadline.                                                               *)
SyncArrives ==
  /\ status = "sync"
  /\ clear_error(ERR_BIT_SYNC_TIMEOUT)
  /\ INSTR_OK
  /\ UNCHANGED <<machine, future_queue, counters, network, sleep, deadline,
                 control, clock, nonempty>>

SyncTimesOut ==
  /\ status = "sync" /\ now > deadline
  /\ set_error(ERR_BIT_SYNC_TIMEOUT)
  /\ INSTR_OK
  /\ UNCHANGED <<machine, future_queue, counters, network, sleep, deadline,
                 control, clock, nonempty>>

(* Types that have no case in the loop: INVALID_INSTR.                     *)
Known == {"NOP", "GOTO", "FUTURE", "HALT", "WAIT", "IF", "CLEAR_COUNTER",
          "ADD_TO_COUNTER", "SUB_FROM_COUNTER", "SET_COUNTER", "CREATE", "SEND",
          "RECEIVE", "SYNC", "END_OF_PROGRAM"}

HandleInvalid ==
  /\ status = "run" /\ program[program_counter + 1].type \notin Known
  /\ status' = "exited"
  /\ UNCHANGED <<machine, program_counter, future_queue, data, network, sleep,
                 deadline, control, clock, nonempty>>

-----------------------------------------------------------------------------
(* The receiving thread queues a message.                                  *)
Arrive(c) ==
  /\ status # "absent" /\ message_queue[c] < MaxQueued
  /\ message_queue' = [message_queue EXCEPT ![c] = @ + 1]
  /\ UNCHANGED <<machine, program_counter, future_queue, data, message_space,
                 status, sleep, deadline, control, clock, nonempty>>

Overdue(t) == \E k \in DOMAIN future_queue : future_queue[k].expiry < t
OnTheClock == status = "asleep" /\ timer > 0 /\ steady

(* A microsecond passes; a clock at its bound is set back by one.          *)
Tick ==
  /\ now < MaxTime \/ timer > 0
  /\ now' = IF now < MaxTime THEN now + 1 ELSE now
  /\ timer' = IF timer > 0 THEN timer - 1 ELSE 0
  /\ steady' = (steady /\ now < MaxTime)
  /\ missed' = (missed \/ (Overdue(now') /\ ~OnTheClock))
  /\ UNCHANGED <<machine, program_counter, future_queue, data, network, status,
                 head, deadline, control, nonempty>>

(* The wall clock is set, back or forward.                                 *)
SetClock(t) ==
  /\ now' = t
  /\ steady' = FALSE
  /\ missed' = (missed \/ Overdue(t))
  /\ UNCHANGED <<machine, program_counter, future_queue, data, network, status,
                 sleep, deadline, control, nonempty>>

Handle ==
  \/ HandleNop \/ HandleFuture \/ HandleWait \/ HandleHalt \/ HandleGoto
  \/ HandleEndOfProgram \/ HandleIf \/ HandleCounter \/ HandleCreate
  \/ HandleSend \/ HandleReceive \/ HandleSync \/ HandleInvalid

Interpret == Check \/ Handle \/ Wake \/ SyncTimesOut

Next ==
  \/ \E p \in Programs : Start(p)
  \/ Stop
  \/ Stopped
  \/ Interpret
  \/ SyncArrives
  \/ \E c \in Channels : Arrive(c)
  \/ Tick
  \/ \E t \in 0 .. MaxTime : SetClock(t)

Spec == Init /\ [][Next]_vars

(* The thread runs when it can, and time passes; nobody need send.         *)
FairSpec == Spec /\ WF_vars(Interpret) /\ WF_vars(Stopped) /\ WF_vars(Tick)

-----------------------------------------------------------------------------
Statuses == {"absent", "check", "run", "halt", "asleep", "asleep for ages",
             "sync", "wild", "exited"}

TypeOK ==
  /\ program \in Programs \cup {<< >>}
  /\ program_length = SizeofInstr * Len(program)
  /\ fits \in BOOLEAN
  /\ program_counter \in Nat
  /\ future_queue \in Seq(Future) /\ Len(future_queue) <= MAX_FUTURES
  /\ counters \in [Counters -> 0 .. Modulus - 1]
  /\ error_bits \subseteq {ERR_BIT_SYNC_TIMEOUT, ERR_BIT_RCV_FAULT}
  /\ message_space \in [Messages -> BOOLEAN]
  /\ message_queue \in [Channels -> 0 .. MaxQueued]
  /\ status \in Statuses
  /\ head \in Future /\ timer \in Nat /\ deadline \in Nat
  /\ should_stop \in BOOLEAN /\ starts \in 0 .. MaxStarts
  /\ now \in 0 .. MaxTime /\ steady \in BOOLEAN /\ missed \in BOOLEAN
  /\ nonempty \subseteq Channels

(* The interpreter never fetches what is not an instruction of its program *)
(* ("Index to the current instruction"), if the program is closed and the  *)
(* futures that earlier programs left in the queue point into it: then no  *)
(* jump, refusal, timeout or stop leads out, nor does a future it leaves.  *)
InsideProgram == fits => status # "wild"

(* The same without the premise: nothing in the code checks it.            *)
AlwaysInside == status # "wild"

(* What waits for a future does not go on before the clock says that it    *)
(* has expired: no instruction is executed earlier, be the interpreter     *)
(* stopped in its sleep or not, unless the clock was set after handle_halt *)
(* read it.                                                                *)
OnTime == status = "run" /\ steady => now >= head.expiry

(* A channel that a guard found not empty is still not empty when the      *)
(* program receives from it, whatever arrives in between: such a RECEIVE   *)
(* raises no ERR_BIT_RCV_FAULT (ncm_rx_buff_empty and its caller do not    *)
(* hold the channel's lock between the test and the RECEIVE).              *)
TestedIsNonempty ==
  status # "absent" => \A c \in nonempty : message_queue[c] > 0

(* Where a HALT sleeps without end, the clock went past a pending future   *)
(* while the thread was executing or overslept, or was set past it: never  *)
(* in a sleep that is on time, whatever the order of the futures and of    *)
(* the programs that left them (push_future, pop_future, handle_halt).     *)
NoOversleep == status = "asleep for ages" => missed

(* No sleep goes on beyond the time the future is due ("the exact          *)
(* timestamp when this future should occur").                              *)
NeverForAges == status # "asleep for ages"

(* A program that fits and is told to stop stops, unless a HALT that comes *)
(* too late for its future catches it first.                               *)
StopEnds ==
  should_stop ~> (status = "absent" \/ status = "asleep for ages" \/ ~fits)

(* A start begins from the state of a new interpreter ("after resetting    *)
(* the interpreter state").                                                *)
StartResets ==
  [][ status = "absent" /\ status' # "absent"
      => /\ future_queue' = << >>
         /\ counters' = [c \in Counters |-> 0]
         /\ error_bits' = {} ]_vars
=============================================================================
