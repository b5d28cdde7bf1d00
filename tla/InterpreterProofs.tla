--------------------------- MODULE InterpreterProofs ---------------------------
(***************************************************************************)
(* Proofs about Interpreter, for all programs, channels, capacities and    *)
(* clocks: its types, that no instruction is executed before the future    *)
(* it waited for, that a program that fits is never left, even by a future *)
(* that an earlier one left in the queue, and that a sleep that is on time *)
(* misses no future.                                                       *)
(***************************************************************************)
EXTENDS Interpreter, FiniteSetTheorems, WellFoundedInduction, TLAPS

LEMMA Bounds ==
  /\ Channels \subseteq Nat
  /\ MAX_FUTURES \in Nat /\ MAX_FUTURES > 0
  /\ Modulus \in Nat /\ Modulus > 0
  /\ SizeofInstr \in Nat /\ SizeofInstr > 0
  /\ MaxTime \in Nat /\ MaxQueued \in Nat /\ MaxStarts \in Nat
  BY InterpreterAssumption

LEMMA Fetch ==
  ASSUME TypeOK, program_counter < Len(program)
  PROVE  /\ program \in Programs
         /\ program \in Seq(Instruction)
         /\ program_counter + 1 \in DOMAIN program
         /\ program[program_counter + 1] \in Instruction
         /\ Legal(program[program_counter + 1])
         /\ \A k \in 0 .. 3 : arg(k) \in Nat
<1>1. program \in Programs
  BY DEF TypeOK
<1>2. program \in Seq(Instruction)
  BY <1>1, InterpreterAssumption
<1>3. program_counter + 1 \in DOMAIN program
  BY <1>2 DEF TypeOK
<1>4. program[program_counter + 1] \in Instruction
  BY <1>2, <1>3
<1>5. Legal(program[program_counter + 1])
  BY <1>1, <1>3, InterpreterAssumption
<1>6. \A k \in 0 .. 3 : arg(k) \in Nat
  BY <1>4 DEF arg, Instruction
<1> QED
  BY <1>1, <1>2, <1>3, <1>4, <1>5, <1>6

(* A push adds one future to the queue, behind those that do not expire    *)
(* later, and moves the others behind it.                                  *)
NotLater(f) == {k \in DOMAIN future_queue : future_queue[k].expiry <= f.expiry}

LEMMA Inserted ==
  ASSUME NEW F, NEW u \in Seq(F), NEW v \in Seq(F), NEW f \in F,
         NEW q, q = u \o <<f>> \o v
  PROVE  /\ q \in Seq(F)
         /\ Len(q) = Len(u) + 1 + Len(v)
         /\ \A k \in 1 .. Len(u) : q[k] = u[k]
         /\ q[Len(u) + 1] = f
         /\ \A k \in Len(u) + 2 .. Len(u) + 1 + Len(v) :
              q[k] = v[k - Len(u) - 1]
OBVIOUS

LEMMA PushedAt ==
  ASSUME NEW F, future_queue \in Seq(F), NEW f \in F
  PROVE  LET c == Cardinality(NotLater(f))
         IN  /\ c \in 0 .. Len(future_queue)
             /\ Pushed(f) \in Seq(F)
             /\ Len(Pushed(f)) = Len(future_queue) + 1
             /\ \A k \in 1 .. c : Pushed(f)[k] = future_queue[k]
             /\ Pushed(f)[c + 1] = f
             /\ \A k \in c + 2 .. Len(future_queue) + 1 :
                  /\ Pushed(f)[k] = future_queue[k - 1]
                  /\ k - 1 \in DOMAIN future_queue
<1> DEFINE S == NotLater(f)
           c == Cardinality(S)
<1>1. c \in 0 .. Len(future_queue)
  <2>1. DOMAIN future_queue = 1 .. Len(future_queue) /\ Len(future_queue) \in Nat
    OBVIOUS
  <2>2. /\ IsFiniteSet(1 .. Len(future_queue))
        /\ Cardinality(1 .. Len(future_queue)) = Len(future_queue)
    BY <2>1, FS_Interval, SMTT(30)
  <2>3. IsFiniteSet(S) /\ c <= Len(future_queue)
    BY <2>1, <2>2, FS_Subset DEF NotLater
  <2> QED
    BY <2>1, <2>3, FS_CardinalityType
<1>2. Pushed(f) = SubSeq(future_queue, 1, c) \o <<f>>
                    \o SubSeq(future_queue, c + 1, Len(future_queue))
  <2>1. Pushed(f) = SubSeq(future_queue, 1, (c + 1) - 1) \o <<f>>
                      \o SubSeq(future_queue, c + 1, Len(future_queue))
    BY DEF Pushed, InsertAt, NotLater
  <2>2. (c + 1) - 1 = c
    BY <1>1
  <2> QED
    BY <2>1, <2>2
<1> HIDE DEF c
<1> DEFINE u == SubSeq(future_queue, 1, c)
           v == SubSeq(future_queue, c + 1, Len(future_queue))
<1>3. /\ u \in Seq(F) /\ Len(u) = c
      /\ \A k \in 1 .. c : u[k] = future_queue[k]
  BY <1>1
<1>4. /\ v \in Seq(F) /\ Len(v) = Len(future_queue) - c
      /\ \A k \in 1 .. Len(future_queue) - c : v[k] = future_queue[c + k]
  BY <1>1
<1>5. Pushed(f) = u \o <<f>> \o v
  BY <1>2
<1> HIDE DEF u, v
<1>6. /\ Pushed(f) \in Seq(F) /\ Len(Pushed(f)) = c + 1 + Len(v)
      /\ \A k \in 1 .. c : Pushed(f)[k] = u[k]
      /\ Pushed(f)[c + 1] = f
      /\ \A k \in c + 2 .. c + 1 + Len(v) : Pushed(f)[k] = v[k - c - 1]
  <2>1. /\ Pushed(f) \in Seq(F)
        /\ Len(Pushed(f)) = Len(u) + 1 + Len(v)
        /\ \A k \in 1 .. Len(u) : Pushed(f)[k] = u[k]
        /\ Pushed(f)[Len(u) + 1] = f
        /\ \A k \in Len(u) + 2 .. Len(u) + 1 + Len(v) :
             Pushed(f)[k] = v[k - Len(u) - 1]
    <3>1. u \in Seq(F) /\ v \in Seq(F) /\ f \in F
      BY <1>3, <1>4
    <3>2. Pushed(f) = u \o <<f>> \o v
      BY <1>5
    <3> QED
      BY <3>1, <3>2, Inserted
  <2>2. Len(u) = c
    BY <1>3
  <2> QED
    BY <2>1, <2>2
<1>7. Len(future_queue) \in Nat /\ c + 1 + Len(v) = Len(future_queue) + 1
  BY <1>1, <1>4
<1>8. ASSUME NEW k \in c + 2 .. Len(future_queue) + 1
      PROVE  /\ Pushed(f)[k] = future_queue[k - 1]
             /\ k - 1 \in DOMAIN future_queue
  <2>1. Pushed(f)[k] = v[k - c - 1]
    BY <1>6, <1>7
  <2>2. k - c - 1 \in 1 .. Len(future_queue) - c /\ c + (k - c - 1) = k - 1
    BY <1>1
  <2>3. v[k - c - 1] = future_queue[c + (k - c - 1)]
    BY <1>4, <2>2
  <2>4. k - 1 \in 1 .. Len(future_queue)
    BY <1>1
  <2> QED
    BY <2>1, <2>2, <2>3, <2>4
<1> QED
  BY <1>1, <1>3, <1>6, <1>7, <1>8 DEF c

LEMMA PushedAdds ==
  ASSUME NEW F, future_queue \in Seq(F), NEW f \in F
  PROVE  /\ Pushed(f) \in Seq(F)
         /\ Len(Pushed(f)) = Len(future_queue) + 1
         /\ \A k \in DOMAIN Pushed(f) :
              \/ Pushed(f)[k] = f
              \/ \E j \in DOMAIN future_queue : Pushed(f)[k] = future_queue[j]
<1> DEFINE c == Cardinality(NotLater(f))
<1>1. /\ c \in 0 .. Len(future_queue)
      /\ Pushed(f) \in Seq(F) /\ Len(Pushed(f)) = Len(future_queue) + 1
      /\ \A k \in 1 .. c : Pushed(f)[k] = future_queue[k]
      /\ Pushed(f)[c + 1] = f
      /\ \A k \in c + 2 .. Len(future_queue) + 1 :
           Pushed(f)[k] = future_queue[k - 1] /\ k - 1 \in DOMAIN future_queue
  BY PushedAt
<1> HIDE DEF c
<1>2. ASSUME NEW k \in DOMAIN Pushed(f)
      PROVE  \/ Pushed(f)[k] = f
             \/ \E j \in DOMAIN future_queue : Pushed(f)[k] = future_queue[j]
  <2>1. \/ k \in 1 .. c /\ k \in DOMAIN future_queue
        \/ k = c + 1
        \/ k \in c + 2 .. Len(future_queue) + 1
    BY <1>1
  <2> QED
    BY <1>1, <2>1
<1> QED
  BY <1>1, <1>2

LEMMA ModRange ==
  ASSUME NEW a \in Int
  PROVE  a % Modulus \in 0 .. Modulus - 1
  BY InterpreterAssumption
-----------------------------------------------------------------------------
(* What is fetched is an instruction; and no step that leaves a sleep      *)
(* before its time leads to one.                                           *)
Fetching == status = "run" => program_counter < Len(program)

Waited ==
  /\ status \in {"run", "halt", "sync"} /\ steady => now >= head.expiry
  /\ status = "check" /\ ~should_stop /\ steady => now >= head.expiry
  /\ status = "asleep" /\ steady =>
       /\ now + timer >= head.expiry
       /\ timer > 0 => now + timer = head.expiry
  /\ status = "absent" => ~should_stop

IInv == TypeOK /\ Fetching /\ Waited

(* Every handler runs on an instruction of the program.                    *)
LEMMA AtFetches ==
  ASSUME IInv, status = "run"
  PROVE  /\ program_counter < Len(program)
         /\ Legal(program[program_counter + 1])
         /\ arg(0) \in Nat /\ arg(1) \in Nat
  BY Fetch DEF IInv, Fetching

LEMMA FutureAdded ==
  ASSUME IInv, status = "run", CanPush
  PROVE  LET f == [jmp_address |-> arg(1), expiry |-> now + arg(0)]
         IN  Pushed(f) \in Seq(Future) /\ Len(Pushed(f)) <= MAX_FUTURES
<1> DEFINE f == [jmp_address |-> arg(1), expiry |-> now + arg(0)]
<1>1. arg(0) \in Nat /\ arg(1) \in Nat
  BY AtFetches
<1>2. f \in Future
  BY <1>1 DEF Future, IInv, TypeOK
<1>3. /\ future_queue \in Seq(Future) /\ Len(future_queue) <= MAX_FUTURES
      /\ Len(future_queue) # MAX_FUTURES
  BY DEF IInv, TypeOK, CanPush
<1>4. Pushed(f) \in Seq(Future) /\ Len(Pushed(f)) = Len(future_queue) + 1
  BY <1>2, <1>3, PushedAdds
<1> QED
  BY <1>3, <1>4, InterpreterAssumption

(* TypeOK in parts, each kept by a step that leaves its variables alone.   *)
MachineOK ==
  /\ program \in Programs \cup {<< >>}
  /\ program_length = SizeofInstr * Len(program)
  /\ fits \in BOOLEAN

DataOK ==
  /\ counters \in [Counters -> 0 .. Modulus - 1]
  /\ error_bits \subseteq {ERR_BIT_SYNC_TIMEOUT, ERR_BIT_RCV_FAULT}

SpaceOK == message_space \in [Messages -> BOOLEAN]
ArrivedOK == message_queue \in [Channels -> 0 .. MaxQueued]
ControlOK == should_stop \in BOOLEAN /\ starts \in 0 .. MaxStarts
QueueOK == future_queue \in Seq(Future) /\ Len(future_queue) <= MAX_FUTURES
PlaceOK == program_counter \in Nat /\ status \in Statuses
HeadOK == head \in Future
TimerOK == timer \in Nat
ClockOK == now \in 0 .. MaxTime /\ steady \in BOOLEAN /\ missed \in BOOLEAN
RestOK == deadline \in Nat /\ nonempty \subseteq Channels

LEMMA Parts ==
  /\ TypeOK <=> /\ MachineOK /\ DataOK /\ SpaceOK /\ ArrivedOK /\ ControlOK
                /\ QueueOK /\ PlaceOK /\ HeadOK /\ TimerOK /\ ClockOK /\ RestOK
  /\ TypeOK' <=> /\ MachineOK' /\ DataOK' /\ SpaceOK' /\ ArrivedOK' /\ ControlOK'
                 /\ QueueOK' /\ PlaceOK' /\ HeadOK' /\ TimerOK' /\ ClockOK' /\ RestOK'
<1>1. TypeOK <=> /\ MachineOK /\ DataOK /\ SpaceOK /\ ArrivedOK /\ ControlOK
                 /\ QueueOK /\ PlaceOK /\ HeadOK /\ TimerOK /\ ClockOK /\ RestOK
  BY DEF TypeOK, MachineOK, DataOK, SpaceOK, ArrivedOK, ControlOK, QueueOK, PlaceOK,
         HeadOK, TimerOK, ClockOK, RestOK
<1> QED
  BY <1>1, PTL

LEMMA Kept ==
  ASSUME TypeOK
  PROVE  /\ UNCHANGED machine => MachineOK' /\ UNCHANGED <<program, fits>>
         /\ UNCHANGED data => DataOK'
         /\ UNCHANGED network => SpaceOK' /\ ArrivedOK'
         /\ UNCHANGED message_space => SpaceOK'
         /\ UNCHANGED message_queue => ArrivedOK'
         /\ UNCHANGED control => ControlOK' /\ UNCHANGED should_stop
         /\ UNCHANGED future_queue => QueueOK'
         /\ UNCHANGED head => HeadOK'
         /\ UNCHANGED sleep => HeadOK' /\ TimerOK' /\ UNCHANGED <<head, timer>>
         /\ UNCHANGED clock => ClockOK' /\ UNCHANGED <<now, steady, missed>>
         /\ UNCHANGED deadline /\ nonempty' \subseteq Channels => RestOK'
         /\ nonempty \subseteq Channels
         /\ program_counter \in Nat /\ program_counter + 1 \in Nat
<1> USE Parts
<1>1. UNCHANGED machine => MachineOK' /\ UNCHANGED <<program, fits>>
  BY DEF machine, MachineOK
<1>2. UNCHANGED data => DataOK'
  BY DEF data, DataOK
<1>3. UNCHANGED network => UNCHANGED message_space /\ UNCHANGED message_queue
  BY DEF network
<1>4. UNCHANGED message_space => SpaceOK'
  BY DEF SpaceOK
<1>5. UNCHANGED message_queue => ArrivedOK'
  BY DEF ArrivedOK
<1>6. UNCHANGED control => ControlOK' /\ UNCHANGED should_stop
  BY DEF control, ControlOK
<1>7. UNCHANGED future_queue => QueueOK'
  BY DEF QueueOK
<1>8. UNCHANGED head => HeadOK'
  BY DEF HeadOK
<1>9. UNCHANGED deadline /\ nonempty' \subseteq Channels => RestOK'
  BY DEF RestOK
<1>11. UNCHANGED sleep => HeadOK' /\ TimerOK' /\ UNCHANGED <<head, timer>>
  BY DEF sleep, HeadOK, TimerOK
<1>12. UNCHANGED clock => ClockOK' /\ UNCHANGED <<now, steady, missed>>
  BY DEF clock, ClockOK
<1>10. nonempty \subseteq Channels /\ program_counter \in Nat
  BY DEF RestOK, PlaceOK
<1> QED
  BY <1>1, <1>2, <1>3, <1>4, <1>5, <1>6, <1>7, <1>8, <1>9, <1>10, <1>11, <1>12

(* A step that neither sleeps nor wakes nor looks at the clock keeps what  *)
(* was waited for.                                                         *)
LEMMA Onward ==
  ASSUME IInv, status \in {"run", "sync"}, UNCHANGED <<sleep, clock, control>>,
         status' \in {"check", "halt", "sync", "exited"}
  PROVE  Fetching' /\ Waited'
  BY DEF IInv, Fetching, Waited, sleep, clock, control

LEMMA Standing ==
  ASSUME IInv, UNCHANGED <<machine, program_counter, status, sleep, clock, control>>
  PROVE  Fetching' /\ Waited'
  BY DEF IInv, Fetching, Waited, machine, sleep, clock, control

(* The types, the bound of the queue and the waiting are kept by every     *)
(* step.                                                                   *)
THEOREM Inductive == IInv /\ [Next]_vars => IInv'
<1> SUFFICES ASSUME IInv, [Next]_vars PROVE IInv'
  OBVIOUS
<1>0. /\ MachineOK /\ DataOK /\ SpaceOK /\ ArrivedOK /\ ControlOK
      /\ QueueOK /\ PlaceOK /\ HeadOK /\ TimerOK /\ ClockOK /\ RestOK
  BY Parts DEF IInv
<1>1. ASSUME NEW p \in Programs, Start(p) PROVE IInv'
  <2>1. MachineOK' /\ program_counter' \in Nat
    BY <1>1, <1>0 DEF Start, MachineOK, Fits, Closed
  <2>2. SpaceOK' /\ ArrivedOK'
    BY <1>1, Bounds, <1>0 DEF Start, SpaceOK, ArrivedOK
  <2>3. ControlOK' /\ UNCHANGED should_stop
    BY <1>1, Bounds, <1>0 DEF Start, ControlOK
  <2>4. HeadOK' /\ TimerOK' /\ RestOK' /\ now >= head'.expiry
    BY <1>1, Bounds, <1>0 DEF Start, HeadOK, TimerOK, ClockOK, RestOK, NoFuture, Future
  <2> QED
    BY <1>1, <2>1, <2>2, <2>3, <2>4, Parts, Kept
       DEF Start, IInv, Fetching, Waited, Statuses, PlaceOK
<1>2. CASE Stop
  <2>1. ControlOK' /\ should_stop'
    BY <1>2, <1>0 DEF Stop, ControlOK
  <2>2. head.jmp_address \in Nat
    BY <1>0 DEF HeadOK, Future
  <2>3. TimerOK'
    BY <1>2 DEF Stop, TimerOK
  <2>4. PlaceOK' /\ (status' = "asleep" => FALSE) /\ status' # "absent"
    BY <1>2, <2>2, <1>0 DEF Stop, Asleep, PlaceOK, Statuses
  <2>5. Fetching' /\ Waited'
    <3>1. UNCHANGED <<program, head, now, steady>>
      BY <1>2, Kept DEF Stop, IInv
    <3>2. status' = "run" => status = "run" /\ program_counter' = program_counter
      BY <1>2 DEF Stop, Asleep
    <3>3. status' \in {"run", "halt", "sync"} => status = status'
      BY <1>2 DEF Stop, Asleep
    <3> QED
      BY <2>1, <2>4, <3>1, <3>2, <3>3 DEF IInv, Fetching, Waited
  <2> QED
    BY <1>2, <2>1, <2>3, <2>4, <2>5, Parts, Kept DEF Stop, IInv
<1>3. CASE Stopped
  <2>1. ControlOK' /\ ~should_stop'
    BY <1>3, <1>0 DEF Stopped, ControlOK
  <2> QED
    BY <1>3, <2>1, Parts, Kept
       DEF Stopped, IInv, Fetching, Waited, Statuses, PlaceOK
<1>4. CASE Check
  BY <1>4, Parts, Kept
     DEF Check, IInv, Fetching, Waited, Statuses, PlaceOK
<1>5. CASE HandleNop
  BY <1>5, Parts, Kept, Onward
     DEF HandleNop, At, INSTR_OK, IInv, Statuses, PlaceOK
<1>6. CASE HandleFuture
  <2>1. QueueOK'
    BY <1>6, FutureAdded, <1>0 DEF HandleFuture, At, QueueOK, IInv
  <2> QED
    BY <1>6, <2>1, Parts, Kept, Onward
       DEF HandleFuture, At, INSTR_OK, INSTR_ERROR, IInv, Statuses, PlaceOK
<1>7. CASE HandleWait
  <2>1. QueueOK'
    BY <1>7, FutureAdded, <1>0 DEF HandleWait, At, QueueOK, IInv
  <2> QED
    BY <1>7, <2>1, Parts, Kept, Onward
       DEF HandleWait, At, IInv, Statuses, PlaceOK
<1>8. CASE HandleHalt
  <2>1. HeadOK' /\ QueueOK'
    <3>1. CASE future_queue = << >>
      BY <1>8, <3>1, <1>0 DEF HandleHalt, sleep, HeadOK, QueueOK
    <3>2. CASE future_queue # << >>
      <4>1. Head(future_queue) \in Future
        BY <3>2, <1>0 DEF QueueOK
      <4>2. /\ Tail(future_queue) \in Seq(Future)
            /\ Len(Tail(future_queue)) = Len(future_queue) - 1
        BY <3>2, <1>0 DEF QueueOK
      <4>3. Len(Tail(future_queue)) <= MAX_FUTURES
        BY <4>2, Bounds, <1>0 DEF QueueOK
      <4> QED
        BY <1>8, <3>2, <4>1, <4>2, <4>3, <1>0 DEF HandleHalt, HeadOK, QueueOK
    <3> QED
      BY <3>1, <3>2
  <2>2. TimerOK' /\ ClockOK'
    <3>1. head'.expiry \in Nat /\ now \in Nat
      BY <2>1, <1>0, Bounds DEF HeadOK, Future, ClockOK
    <3>2. TimerOK'
      BY <1>8, <3>1, <1>0 DEF HandleHalt, sleep, TimerOK
    <3>3. steady' \in BOOLEAN
      BY <1>8, <1>0, Zenon DEF HandleHalt, ClockOK
    <3> QED
      BY <1>8, <3>2, <3>3, <1>0 DEF HandleHalt, ClockOK
  <2>3. PlaceOK' /\ status' \in {"asleep", "asleep for ages", "exited"}
    BY <1>8, <1>0 DEF HandleHalt, SleepOf, PlaceOK, Statuses
  <2>4. status' = "asleep" =>
          /\ now' + timer' >= head'.expiry
          /\ timer' > 0 => now' + timer' = head'.expiry
    <3>1. CASE future_queue = << >>
      BY <1>8, <3>1 DEF HandleHalt
    <3>2. CASE future_queue # << >>
      <4>1. head'.expiry \in Nat /\ now \in Nat /\ now' = now
        BY <1>8, <2>1, <1>0, Bounds DEF HandleHalt, HeadOK, Future, ClockOK
      <4> QED
        BY <1>8, <3>2, <4>1 DEF HandleHalt, SleepOf
    <3> QED
      BY <3>1, <3>2
  <2> QED
    BY <1>8, <2>1, <2>2, <2>3, <2>4, Parts, Kept
       DEF HandleHalt, IInv, Fetching, Waited
<1>9. CASE Wake
  <2>1. head.jmp_address \in Nat
    BY <1>0 DEF HeadOK, Future
  <2>2. steady => now >= head.expiry
    BY <1>9, <1>0, Bounds DEF Wake, IInv, Waited, HeadOK, Future, ClockOK
  <2> QED
    BY <1>9, <2>1, <2>2, Parts, Kept
       DEF Wake, INSTR_CHANGE_PC, IInv, Fetching, Waited, Statuses, PlaceOK
<1>10. CASE HandleGoto
  <2>1. arg(0) \in Nat
    BY <1>10, AtFetches, <1>0 DEF HandleGoto, At, IInv
  <2> QED
    BY <1>10, <2>1, Parts, Kept, Onward
       DEF HandleGoto, At, INSTR_CHANGE_PC, INSTR_ERROR, IInv, Statuses, PlaceOK
<1>11. CASE HandleEndOfProgram
  BY <1>11, Parts, Kept, Onward
     DEF HandleEndOfProgram, At, IInv, Statuses, PlaceOK
<1>12. CASE HandleIf
  <2>1. arg(1) \in Nat /\ (arg(0) = CHANNEL_XY_RCV_BUF_EMPTY => arg(2) \in Channels)
    BY <1>12, AtFetches, <1>0 DEF HandleIf, At, Legal, arg, IInv
  <2>2. nonempty' \subseteq Channels
    BY <1>12, <2>1, <1>0 DEF HandleIf, RestOK
  <2>3. PlaceOK' /\ status' \in {"check", "exited"}
    <3>1. INSTR_CHANGE_PC(arg(1)) \/ INSTR_OK \/ (INSTR_ERROR /\ status = "run")
      BY <1>12 DEF HandleIf, At
    <3>2. status' \in {"check", "exited"}
      BY <3>1, <1>0 DEF INSTR_CHANGE_PC, INSTR_OK, INSTR_ERROR, HandleIf, At
    <3>3. program_counter' \in Nat
      BY <2>1, <3>1, Kept DEF IInv, INSTR_CHANGE_PC, INSTR_OK, INSTR_ERROR
    <3> QED
      BY <3>2, <3>3 DEF PlaceOK, Statuses
  <2> QED
    BY <1>12, <2>2, <2>3, Parts, Kept, Onward
       DEF HandleIf, At, IInv, Statuses, PlaceOK
<1>13. CASE HandleCounter
  <2>1. arg(0) \in Counters /\ arg(1) \in Nat
    BY <1>13, AtFetches, <1>0 DEF HandleCounter, At, Legal, arg, IInv
  <2>2. PICK m \in Int : SetCounter(arg(0), m)
    <3>1. counters[arg(0)] \in Int
      BY <2>1, Bounds, <1>0 DEF DataOK
    <3> QED
      BY <1>13, <2>1, <3>1, <1>0 DEF HandleCounter
  <2>3. DataOK'
    <3>1. m % Modulus \in 0 .. Modulus - 1
      BY ModRange, <1>0
    <3> QED
      BY <1>13, <2>2, <3>1, <1>0 DEF HandleCounter, SetCounter, DataOK
  <2> QED
    BY <1>13, <2>3, Parts, Kept, Onward
       DEF HandleCounter, At, INSTR_OK, IInv, Statuses, PlaceOK
<1>14. CASE HandleCreate
  <2>1. SpaceOK'
    BY <1>14, <1>0 DEF HandleCreate, SpaceOK
  <2> QED
    BY <1>14, <2>1, Parts, Kept, Onward
       DEF HandleCreate, At, INSTR_OK, IInv, Statuses, PlaceOK
<1>15. CASE HandleSend
  <2>1. SpaceOK'
    BY <1>15, <1>0 DEF HandleSend, SpaceOK
  <2> QED
    BY <1>15, <2>1, Parts, Kept, Onward
       DEF HandleSend, At, INSTR_OK, INSTR_ERROR, IInv, Statuses, PlaceOK
<1>16. CASE HandleReceive
  <2>1. arg(0) \in Channels
    BY <1>16, AtFetches, <1>0 DEF HandleReceive, At, Legal, arg, IInv
  <2>2. ArrivedOK'
    BY <1>16, <2>1, Bounds, <1>0 DEF HandleReceive, ArrivedOK
  <2>3. DataOK'
    BY <1>16, <1>0 DEF HandleReceive, set_error, clear_error, DataOK
  <2>4. nonempty' \subseteq Channels
    BY <1>16, <1>0 DEF HandleReceive, RestOK
  <2> QED
    BY <1>16, <2>2, <2>3, <2>4, Parts, Kept, Onward
       DEF HandleReceive, At, INSTR_OK, IInv, Statuses, PlaceOK
<1>17. CASE HandleSync
  <2>1. arg(1) \in Nat
    BY <1>17, AtFetches, <1>0 DEF HandleSync, At, IInv
  <2>2. RestOK'
    BY <1>17, <2>1, Bounds, <1>0 DEF HandleSync, RestOK, ClockOK
  <2> QED
    BY <1>17, <2>2, Parts, Kept, Onward
       DEF HandleSync, At, INSTR_OK, IInv, Statuses, PlaceOK
<1>18. CASE SyncArrives \/ SyncTimesOut
  <2>1. DataOK'
    BY <1>18, <1>0 DEF SyncArrives, SyncTimesOut, set_error, clear_error, DataOK
  <2> QED
    BY <1>18, <2>1, Parts, Kept, Onward
       DEF SyncArrives, SyncTimesOut, INSTR_OK, IInv, Statuses, PlaceOK
<1>19. CASE HandleInvalid
  BY <1>19, Parts, Kept, Onward
     DEF HandleInvalid, IInv, Statuses, PlaceOK
<1>20. ASSUME NEW c \in Channels, Arrive(c) PROVE IInv'
  <2>1. ArrivedOK'
    BY <1>20, Bounds, <1>0 DEF Arrive, ArrivedOK
  <2> QED
    BY <1>20, <2>1, Parts, Kept, Standing
       DEF Arrive, IInv, PlaceOK
<1>21. CASE Tick
  <2>1. /\ MachineOK' /\ DataOK' /\ SpaceOK' /\ ArrivedOK' /\ ControlOK' /\ RestOK'
        /\ QueueOK' /\ HeadOK' /\ UNCHANGED <<program, should_stop, head>>
    BY <1>21, Kept DEF Tick, IInv
  <2>2. UNCHANGED <<program_counter, status>>
    BY <1>21 DEF Tick
  <2>3. TimerOK' /\ ClockOK'
    BY <1>21, <1>0, Bounds DEF Tick, TimerOK, ClockOK
  <2>4. TypeOK'
    BY <2>1, <2>2, <2>3, <1>0, Parts DEF PlaceOK
  <2>5. /\ now \in Nat /\ timer \in Nat /\ head.expiry \in Nat
        /\ steady' => steady /\ now' = now + 1
        /\ timer' = IF timer > 0 THEN timer - 1 ELSE 0
    <3>1. now \in Nat /\ timer \in Nat /\ head.expiry \in Nat
      BY <1>0, Bounds DEF HeadOK, Future, TimerOK, ClockOK
    <3>2. steady' = (steady /\ now < MaxTime)
      BY <1>21 DEF Tick
    <3>3. steady' => steady /\ now < MaxTime
      BY <3>2
    <3> QED
      BY <1>21, <3>1, <3>3 DEF Tick
  <2> QED
    BY <2>1, <2>2, <2>4, <2>5 DEF IInv, Fetching, Waited
<1>22. ASSUME NEW t \in 0 .. MaxTime, SetClock(t) PROVE IInv'
  <2>1. ClockOK' /\ ~steady'
    BY <1>22 DEF SetClock, ClockOK
  <2> QED
    BY <1>22, <2>1, <1>0, Parts, Kept
       DEF SetClock, IInv, Fetching, Waited, PlaceOK
<1>23. CASE UNCHANGED vars
  <2>1. /\ UNCHANGED <<machine, data, network, control, future_queue, sleep, clock>>
        /\ UNCHANGED <<program_counter, status, deadline, nonempty>>
    BY <1>23 DEF vars
  <2>2. UNCHANGED <<program, should_stop, head, timer, now, steady>> /\ TypeOK'
    BY <2>1, <1>0, Parts, Kept DEF IInv, PlaceOK
  <2> QED
    BY <2>1, <2>2 DEF IInv, Fetching, Waited
<1> QED
  BY <1>1, <1>2, <1>3, <1>4, <1>5, <1>6, <1>7, <1>8, <1>9, <1>10, <1>11, <1>12,
     <1>13, <1>14, <1>15, <1>16, <1>17, <1>18, <1>19, <1>20, <1>21, <1>22, <1>23
     DEF Next, Interpret, Handle

LEMMA Initially == Init => IInv
<1> SUFFICES ASSUME Init PROVE IInv
  OBVIOUS
<1>1. ControlOK /\ PlaceOK /\ HeadOK /\ TimerOK /\ ClockOK /\ RestOK
  <2>1. ControlOK /\ PlaceOK
    <3>1. starts \in 0 .. MaxStarts
      BY Bounds DEF Init
    <3>2. should_stop \in BOOLEAN
      BY Zenon DEF Init
    <3>3. PlaceOK
      BY DEF Init, PlaceOK, Statuses
    <3> QED
      BY <3>1, <3>2, <3>3 DEF ControlOK
  <2>2. HeadOK
    BY DEF Init, HeadOK, Future, NoFuture
  <2>3. TimerOK /\ ClockOK /\ RestOK
    <3>1. steady \in BOOLEAN /\ missed \in BOOLEAN
      BY Zenon DEF Init
    <3> QED
      BY <3>1, Bounds DEF Init, TimerOK, ClockOK, RestOK
  <2> QED
    BY <2>1, <2>2, <2>3
<1>4. MachineOK
  <2>1. SizeofInstr * Len(<< >>) = 0
    BY Bounds
  <2>2. fits \in BOOLEAN
    BY Zenon DEF Init
  <2> QED
    BY <2>1, <2>2 DEF Init, MachineOK
<1>2. DataOK /\ SpaceOK /\ ArrivedOK
  BY Bounds DEF Init, DataOK, SpaceOK, ArrivedOK
<1>3. QueueOK
  BY Bounds DEF Init, QueueOK
<1> QED
  BY <1>1, <1>2, <1>3, <1>4, Parts DEF Init, IInv, Fetching, Waited, NoFuture

(* The interpreter's state keeps its types, its queue never holds more     *)
(* than its array, and its counters wrap like u32.                         *)
THEOREM TypeCorrect == Spec => []TypeOK
<1>1. Spec => []IInv
  BY Initially, Inductive, PTL DEF Spec
<1>2. IInv => TypeOK
  BY DEF IInv
<1> QED
  BY <1>1, <1>2, PTL

(* No instruction is executed before the clock says that the future it     *)
(* waited for is due, unless the clock was set after the HALT had read it. *)
THEOREM NeverEarly == Spec => []OnTime
<1>1. Spec => []IInv
  BY Initially, Inductive, PTL DEF Spec
<1>2. IInv => OnTime
  BY DEF IInv, Waited, OnTime
<1> QED
  BY <1>1, <1>2, PTL
-----------------------------------------------------------------------------
(* Where the interpreter is, or will be when it wakes, lies in its program *)
(* of n instructions, and so does every place a future will send it to.    *)
Within(n) ==
  /\ program \in Programs /\ Closed(program) /\ Len(program) = n
  /\ status \in {"check", "run", "halt", "sync"} => program_counter < n
  /\ status = "sync" => program[program_counter + 1].type = "SYNC"
  /\ \A k \in DOMAIN future_queue : future_queue[k].jmp_address < n
  /\ Asleep => head.jmp_address < n
  /\ status # "wild"

(* In a closed program a jump that is taken stays inside, and what goes on *)
(* to the next instruction finds one.                                      *)
LEMMA ClosedProgram ==
  ASSUME NEW n \in Nat, IInv, Within(n), status = "run"
  PROVE  /\ At("IF") => arg(1) < n
         /\ At("FUTURE") \/ At("WAIT") => (CanPush => arg(1) < n)
         /\ At("GOTO") => (arg(0) < program_length => arg(0) < n)
         /\ ~Final(program[program_counter + 1]) => program_counter + 1 < n
<1> DEFINE k == program_counter + 1
           i == program[k]
<1>1. k \in DOMAIN program /\ Len(program) = n /\ program \in Seq(Instruction)
  BY Fetch DEF IInv, Fetching, Within
<1>2. program_counter \in Nat /\ program_length = SizeofInstr * n
  BY <1>1 DEF IInv, TypeOK
<1>3. Closed(program)
  BY DEF Within
<1>4. /\ i.type = "IF" => i.args[1] < n
      /\ i.type \in {"FUTURE", "WAIT"} => i.args[1] < n \/ i.args[1] >= SizeofInstr * n
      /\ i.type = "GOTO" => i.args[0] < n \/ i.args[0] >= SizeofInstr * n
      /\ k = n => Final(i)
  BY <1>1, <1>3 DEF Closed, Refused
<1>5. arg(0) \in Nat /\ arg(1) \in Nat /\ SizeofInstr * n \in Nat
  BY AtFetches, Bounds
<1>6. k <= n
  BY <1>1
<1>7. arg(0) = i.args[0] /\ arg(1) = i.args[1]
  BY DEF arg
<1> HIDE DEF i
<1>8. \A type : At(type) => i.type = type
  BY DEF At, i
<1>9. CanPush => arg(1) < SizeofInstr * n
  BY <1>2 DEF CanPush
<1>10. ~Final(i) => program_counter + 1 < n
  BY <1>2, <1>4, <1>6
<1>11. At("IF") => arg(1) < n
  BY <1>4, <1>7, <1>8
<1>12. At("FUTURE") \/ At("WAIT") => (CanPush => arg(1) < n)
  BY <1>4, <1>5, <1>7, <1>8, <1>9
<1>13. At("GOTO") => (arg(0) < program_length => arg(0) < n)
  BY <1>2, <1>4, <1>5, <1>7, <1>8
<1> QED
  BY <1>10, <1>11, <1>12, <1>13 DEF i

LEMMA PushedWithin ==
  ASSUME NEW n \in Nat, IInv, Within(n), status = "run", CanPush, arg(1) < n
  PROVE  LET q == Pushed([jmp_address |-> arg(1), expiry |-> now + arg(0)])
         IN  \A k \in DOMAIN q : q[k].jmp_address < n
<1> DEFINE f == [jmp_address |-> arg(1), expiry |-> now + arg(0)]
<1>1. f \in Future
  BY AtFetches DEF Future, IInv, TypeOK
<1>2. future_queue \in Seq(Future)
  BY DEF IInv, TypeOK
<1>3. f.jmp_address < n
  OBVIOUS
<1>4. \A j \in DOMAIN future_queue : future_queue[j].jmp_address < n
  BY DEF Within
<1> HIDE DEF f
<1>5. \A k \in DOMAIN Pushed(f) :
        Pushed(f)[k] = f \/ \E j \in DOMAIN future_queue : Pushed(f)[k] = future_queue[j]
  BY <1>1, <1>2, PushedAdds
<1>6. \A k \in DOMAIN Pushed(f) : Pushed(f)[k].jmp_address < n
  BY <1>3, <1>4, <1>5
<1> QED
  BY <1>6 DEF f

(* The guard of the jump that ends a loop never fails.                     *)
LEMMA AlwaysTrue ==
  ASSUME NEW x, NEW y
  PROVE  FALSE \notin Guard(ALWAYS_TRUE, x, y)
<1>1. Guard(0, x, y) = {TRUE}
  BY 0 # 2, 0 # 4, 0 # 5, 0 \notin 6 .. 9, 0 \notin {1, 3, 10, 11}, Zenon
     DEF Guard, CHANNEL_XY_RCV_BUF_EMPTY, ALWAYS_TRUE, ALWAYS_FALSE, TEST_COUNT,
         STATUS_TEST, VariableTests, SEND_BUFFER_EMPTY, VAR_QUEUE_EMPTY, VAR_QUEUE_FULL
<1> QED
  BY <1>1 DEF ALWAYS_TRUE

LEMMA WithinKept ==
  ASSUME NEW n \in Nat, IInv, Within(n), status # "absent", [Next]_vars
  PROVE  Within(n)'
<1> USE DEF machine, sleep, Asleep
<1>0. /\ program_counter \in Nat /\ future_queue \in Seq(Future)
      /\ Len(program) = n
  BY InterpreterAssumption DEF IInv, TypeOK, Within
<1>1. ASSUME NEW p \in Programs, Start(p) PROVE Within(n)'
  BY <1>1 DEF Start
<1>2. CASE Stop
  BY <1>2, <1>0 DEF Stop, Within
<1>3. CASE Stopped
  BY <1>3, <1>0 DEF Stopped, Within
<1>4. CASE Check
  BY <1>4, <1>0 DEF Check, Within
<1>5. ASSUME status = "run", ~Final(program[program_counter + 1]), INSTR_OK, UNCHANGED <<machine, future_queue, head>>
      PROVE  Within(n)'
  <2>1. program_counter + 1 < n
    BY <1>5, ClosedProgram DEF Within
  <2> QED
    BY <1>5, <1>0, <2>1 DEF INSTR_OK, Within
<1>6. ASSUME status = "run", INSTR_ERROR, UNCHANGED <<machine, future_queue, head>>
      PROVE  Within(n)'
  BY <1>6, <1>0 DEF INSTR_ERROR, Within
<1>7. ASSUME NEW pc \in Nat, status = "run", pc < n, INSTR_CHANGE_PC(pc),
             UNCHANGED <<machine, future_queue, head>>
      PROVE  Within(n)'
  BY <1>7, <1>0 DEF INSTR_CHANGE_PC, Within
<1>8. CASE HandleFuture
  <2>1. CASE CanPush
    <3>1. arg(1) < n /\ program_counter + 1 < n
      BY <1>8, <2>1, ClosedProgram DEF HandleFuture, At, Within, Final
    <3>2. \A k \in DOMAIN future_queue' : future_queue'[k].jmp_address < n
      BY <1>8, <2>1, <3>1, PushedWithin DEF HandleFuture, At
    <3> QED
      BY <1>8, <1>0, <2>1, <3>1, <3>2 DEF HandleFuture, At, INSTR_OK, Within
  <2>2. CASE ~CanPush
    BY <1>8, <1>6, <2>2 DEF HandleFuture, At
  <2> QED
    BY <2>1, <2>2
<1>9. CASE HandleWait
  <2>1. CASE CanPush
    <3>1. arg(1) < n /\ program_counter < n
      BY <1>9, <2>1, ClosedProgram DEF HandleWait, At, Within
    <3>2. \A k \in DOMAIN future_queue' : future_queue'[k].jmp_address < n
      BY <1>9, <2>1, <3>1, PushedWithin DEF HandleWait, At
    <3> QED
      BY <1>9, <1>0, <2>1, <3>1, <3>2 DEF HandleWait, At, Within
  <2>2. CASE ~CanPush
    BY <1>9, <1>0, <2>2 DEF HandleWait, At, Within
  <2> QED
    BY <2>1, <2>2
<1>10. CASE HandleHalt
  <2>1. CASE future_queue = << >>
    BY <1>10, <1>0, <2>1 DEF HandleHalt, At, Within
  <2>2. CASE future_queue # << >>
    <3>1. Head(future_queue).jmp_address < n
      <4>1. 1 \in DOMAIN future_queue /\ Head(future_queue) = future_queue[1]
        BY <1>0, <2>2
      <4> QED
        BY <4>1 DEF Within
    <3>2. \A k \in DOMAIN Tail(future_queue) : Tail(future_queue)[k].jmp_address < n
      <4> TAKE k \in DOMAIN Tail(future_queue)
      <4>1. k + 1 \in DOMAIN future_queue /\ Tail(future_queue)[k] = future_queue[k + 1]
        BY <1>0, <2>2
      <4> QED
        BY <4>1 DEF Within
    <3> QED
      BY <1>10, <1>0, <2>2, <3>1, <3>2 DEF HandleHalt, SleepOf, At, Within
  <2> QED
    BY <2>1, <2>2
<1>11. CASE Wake
  BY <1>11, <1>0 DEF Wake, INSTR_CHANGE_PC, Within
<1>12. CASE HandleGoto
  <2>1. arg(0) \in Nat
    BY <1>12, AtFetches DEF HandleGoto, At
  <2>2. arg(0) < program_length => arg(0) < n
    BY <1>12, ClosedProgram DEF HandleGoto, At, Within
  <2> QED
    BY <1>12, <1>6, <1>7, <2>1, <2>2 DEF HandleGoto, At
<1>13. CASE HandleEndOfProgram
  BY <1>13, <1>0 DEF HandleEndOfProgram, At, Within
<1>14. CASE HandleIf
  <2>1. arg(1) \in Nat /\ arg(1) < n
    BY <1>14, AtFetches, ClosedProgram DEF HandleIf, At, Within
  <2>2. CASE INSTR_OK /\ FALSE \in Guard(arg(0), arg(2), arg(3))
    <3>1. arg(0) # ALWAYS_TRUE
      BY <2>2, AlwaysTrue
    <3>2. ~Final(program[program_counter + 1])
      BY <1>14, <3>1 DEF HandleIf, At, Final, arg
    <3> QED
      BY <1>14, <1>5, <2>2, <3>2 DEF HandleIf, At
  <2>3. CASE INSTR_CHANGE_PC(arg(1)) \/ INSTR_ERROR
    BY <1>14, <1>6, <1>7, <2>1, <2>3 DEF HandleIf, At
  <2> QED
    BY <1>14, <2>2, <2>3 DEF HandleIf
<1>15. CASE HandleNop \/ HandleCounter \/ HandleCreate \/ HandleReceive
  BY <1>15, <1>5 DEF HandleNop, HandleCounter, HandleCreate, HandleReceive, At, Final
<1>16. CASE HandleSend
  BY <1>16, <1>5, <1>6 DEF HandleSend, At, Final
<1>17. CASE HandleSync
  <2>1. CASE INSTR_OK
    BY <1>17, <1>5, <2>1 DEF HandleSync, At, Final
  <2>2. CASE status' = "sync" /\ UNCHANGED program_counter
    BY <1>17, <1>0, <2>2 DEF HandleSync, At, Within
  <2> QED
    BY <1>17, <2>1, <2>2 DEF HandleSync
<1>18. CASE SyncArrives \/ SyncTimesOut
  <2>1. program_counter + 1 < n
    <3>1. /\ program \in Programs /\ program \in Seq(Instruction)
          /\ Closed(program) /\ Len(program) = n
      BY InterpreterAssumption DEF Within
    <3>2. program_counter < n /\ program[program_counter + 1].type = "SYNC"
      BY <1>18 DEF SyncArrives, SyncTimesOut, Within
    <3>3. program_counter + 1 \in DOMAIN program
      BY <1>0, <3>1, <3>2
    <3>4. program_counter + 1 = n => Final(program[program_counter + 1])
      BY <3>1, <3>3 DEF Closed
    <3>5. ~Final(program[program_counter + 1])
      BY <3>2 DEF Final
    <3> QED
      BY <1>0, <3>2, <3>4, <3>5
  <2> QED
    BY <1>18, <1>0, <2>1 DEF SyncArrives, SyncTimesOut, INSTR_OK, Within
<1>19. CASE HandleInvalid
  BY <1>19, <1>0 DEF HandleInvalid, Within
<1>20. ASSUME NEW c \in Channels, Arrive(c) PROVE Within(n)'
  BY <1>20 DEF Arrive, Within
<1>21. CASE Tick
  BY <1>21 DEF Tick, Within
<1>22. ASSUME NEW t \in 0 .. MaxTime, SetClock(t) PROVE Within(n)'
  BY <1>22 DEF SetClock, Within
<1>23. CASE UNCHANGED vars
  BY <1>23 DEF vars, Within
<1> QED
  BY <1>1, <1>2, <1>3, <1>4, <1>8, <1>9, <1>10, <1>11, <1>12, <1>13, <1>14, <1>15,
     <1>16, <1>17, <1>18, <1>19, <1>20, <1>21, <1>22, <1>23
     DEF Next, Interpret, Handle

(* A start that fits begins within its program; every other step keeps the *)
(* program.                                                                *)
Contained == fits /\ status # "absent" => Within(Len(program))

LEMMA ContainedKept ==
  ASSUME IInv, Contained, [Next]_vars
  PROVE  Contained'
<1>1. ASSUME NEW p \in Programs, Start(p) PROVE Contained'
  <2>1. p \in Seq(Instruction) /\ Len(p) \in Nat
    BY InterpreterAssumption
  <2>2. /\ program' = p /\ program_counter' = 0 /\ status' = "check"
        /\ UNCHANGED future_queue
    BY <1>1 DEF Start
  <2>3. CASE fits'
    <3>1. /\ Closed(p) /\ Len(p) > 0
          /\ \A k \in DOMAIN future_queue : future_queue[k].jmp_address < Len(p)
      <4>1. Fits(p)
        BY <1>1, <2>3 DEF Start
      <4>2. p # << >> /\ Closed(p)
        BY <4>1 DEF Fits, Closed
      <4> QED
        BY <2>1, <4>1, <4>2 DEF Fits
    <3>2. Closed(program)'
      BY <2>2, <3>1 DEF Closed, Refused, Final
    <3> QED
      BY <2>1, <2>2, <3>1, <3>2 DEF Contained, Within, Asleep
  <2> QED
    BY <2>3 DEF Contained
<1>2. CASE \A p \in Programs : ~Start(p)
  <2>1. UNCHANGED <<program, fits>> /\ (status = "absent" => status' = "absent")
    BY <1>2 DEF Next, Interpret, Handle, Stop, Stopped, Check, At, Asleep, HandleNop,
       HandleFuture, HandleWait, HandleHalt, Wake, HandleGoto, HandleEndOfProgram, HandleIf,
       HandleCounter, HandleCreate, HandleSend, HandleReceive, HandleSync, SyncArrives,
       SyncTimesOut, HandleInvalid, Arrive, Tick, SetClock, machine, vars
  <2>2. CASE fits /\ status # "absent"
    <3>1. Len(program) \in Nat
      BY InterpreterAssumption DEF IInv, TypeOK
    <3>2. Within(Len(program))
      BY <2>2 DEF Contained
    <3>3. PICK n \in Nat : n = Len(program)
      BY <3>1
    <3>4. Within(n)'
      BY <2>2, <3>2, <3>3, WithinKept
    <3>5. Within(n)' => Within(Len(program))'
      BY <2>1, <3>3 DEF Within
    <3> QED
      BY <3>4, <3>5 DEF Contained
  <2> QED
    BY <2>1, <2>2 DEF Contained
<1> QED
  BY <1>1, <1>2

(* A program that is closed and contains what the pending futures jump to  *)
(* when it starts is never left, however it is timed, stopped and sent on  *)
(* by the futures of earlier programs.                                     *)
THEOREM StaysInside == Spec => []InsideProgram
<1>1. Init => IInv /\ Contained
  BY Initially DEF Init, Contained
<1>2. IInv /\ Contained /\ [Next]_vars => (IInv /\ Contained)'
  BY Inductive, ContainedKept
<1>3. Contained => InsideProgram
  BY DEF Contained, Within, InsideProgram
<1> QED
  BY <1>1, <1>2, <1>3, PTL DEF Spec
-----------------------------------------------------------------------------
Nonempty == \A c \in nonempty : message_queue[c] > 0

LEMMA GuardFalse ==
  ASSUME NEW x, NEW y, FALSE \in Guard(CHANNEL_XY_RCV_BUF_EMPTY, x, y)
  PROVE  ~(message_queue[x] = 0)
<1>1. Guard(2, x, y) = {message_queue[x] = 0}
  <2>1. /\ 2 # 0 /\ 2 # 4 /\ 2 # 5 /\ 2 \notin 6 .. 9
        /\ 2 \notin {1, 3, 10, 11}
    OBVIOUS
  <2> QED
    BY <2>1, Zenon
       DEF Guard, CHANNEL_XY_RCV_BUF_EMPTY, ALWAYS_TRUE, ALWAYS_FALSE, TEST_COUNT,
           STATUS_TEST, VariableTests, SEND_BUFFER_EMPTY, VAR_QUEUE_EMPTY, VAR_QUEUE_FULL
<1>2. FALSE \in {message_queue[x] = 0}
  BY <1>1 DEF CHANNEL_XY_RCV_BUF_EMPTY
<1> QED
  BY <1>2, Zenon

LEMMA NonemptyKept ==
  ASSUME IInv, Nonempty, [Next]_vars
  PROVE  Nonempty'
<1> USE DEF Nonempty, network
<1>0. message_queue \in [Channels -> Nat] /\ nonempty \subseteq Channels
  BY Bounds DEF IInv, TypeOK
<1>1. ASSUME NEW p \in Programs, Start(p) PROVE Nonempty'
  BY <1>1 DEF Start
<1>2. CASE HandleIf
  <2>1. UNCHANGED message_queue
    BY <1>2 DEF HandleIf
  <2>2. CASE UNCHANGED nonempty
    BY <2>1, <2>2
  <2>3. CASE /\ arg(0) = CHANNEL_XY_RCV_BUF_EMPTY
             /\ FALSE \in Guard(arg(0), arg(2), arg(3))
             /\ nonempty' = nonempty \cup {arg(2)}
    <3>1. ~(message_queue[arg(2)] = 0)
      BY <2>3, GuardFalse
    <3>2. arg(2) \in Channels
      BY <1>2, <2>3, AtFetches DEF HandleIf, At, Legal, arg
    <3> QED
      BY <1>0, <2>1, <2>3, <3>1, <3>2
  <2> QED
    BY <1>2, <2>2, <2>3 DEF HandleIf
<1>3. CASE HandleReceive
  <2>1. /\ nonempty' = nonempty \ {arg(0)}
        /\ \A c \in Channels \ {arg(0)} : message_queue'[c] = message_queue[c]
    BY <1>0, <1>3 DEF HandleReceive
  <2> QED
    BY <1>0, <2>1
<1>4. ASSUME NEW c \in Channels, Arrive(c) PROVE Nonempty'
  BY <1>0, <1>4 DEF Arrive
<1>5. CASE UNCHANGED <<message_queue, nonempty>>
  BY <1>5
<1> QED
  BY <1>1, <1>2, <1>3, <1>4, <1>5
     DEF Next, Interpret, Handle, Stop, Stopped, Check, HandleNop, HandleFuture,
         HandleWait, HandleHalt, Wake, HandleGoto, HandleEndOfProgram, HandleCounter,
         HandleCreate, HandleSend, HandleSync, SyncArrives, SyncTimesOut,
         HandleInvalid, Tick, SetClock, vars

(* A channel found not empty stays so until the program receives from it.  *)
THEOREM StaysNonempty == Spec => []TestedIsNonempty
<1>1. Init => IInv /\ Nonempty
  BY Initially DEF Init, Nonempty
<1>2. IInv /\ Nonempty /\ [Next]_vars => (IInv /\ Nonempty)'
  BY Inductive, NonemptyKept
<1>3. Nonempty => TestedIsNonempty
  BY DEF Nonempty, TestedIsNonempty
<1> QED
  BY <1>1, <1>2, <1>3, PTL DEF Spec
-----------------------------------------------------------------------------
(* The queue is sorted by expiry.                                          *)
Sorted ==
  \A i, j \in DOMAIN future_queue :
    i < j => future_queue[i].expiry <= future_queue[j].expiry

LEMMA Expiries ==
  /\ \A f \in Future : f.expiry \in Nat
  /\ \A q \in Seq(Future) : \A k \in DOMAIN q : q[k].expiry \in Nat
<1>1. \A f \in Future : f.expiry \in Nat
  BY DEF Future
<1> QED
  BY <1>1

(* In a sorted queue the futures that do not expire later than f are the   *)
(* first ones, so that a push keeps it sorted.                             *)
LEMMA NotLaterFirst ==
  ASSUME future_queue \in Seq(Future), Sorted, NEW f \in Future
  PROVE  NotLater(f) = 1 .. Cardinality(NotLater(f))
<1> DEFINE n == Len(future_queue)
           S == NotLater(f)
           R == {k \in 1 .. n + 1 : k \notin S}
<1>1. /\ n \in Nat /\ DOMAIN future_queue = 1 .. n /\ f.expiry \in Nat
      /\ \A k \in 1 .. n : future_queue[k].expiry \in Nat
  BY Expiries
<1>2. S \subseteq 1 .. n
  BY <1>1 DEF NotLater
<1>3. n + 1 \in R /\ R \subseteq Nat
  BY <1>1, <1>2
<1>4. PICK m \in R : \A k \in R : ~ (<<k, m>> \in OpToRel(<, Nat))
  BY <1>3, NatLessThanWellFounded, WFMin
<1>5. m \in 1 .. n + 1 /\ m \notin S /\ \A k \in R : ~ (k < m)
  BY <1>3, <1>4 DEF OpToRel
<1>6. \A k \in 1 .. m - 1 : k \in S
  BY <1>1, <1>5
<1>7. \A k \in S : k < m
  <2> SUFFICES ASSUME NEW k \in S, k >= m
               PROVE  FALSE
    BY <1>2, <1>5
  <2>1. k \in 1 .. n /\ k > m /\ m \in 1 .. n
    BY <1>2, <1>5
  <2>2. future_queue[m].expiry <= future_queue[k].expiry
    BY <1>1, <2>1 DEF Sorted
  <2>3. future_queue[k].expiry <= f.expiry
    BY DEF NotLater
  <2>4. future_queue[m].expiry <= f.expiry
    BY <1>1, <2>1, <2>2, <2>3
  <2> QED
    BY <1>1, <1>5, <2>1, <2>4 DEF NotLater
<1> HIDE DEF S
<1>8. S = 1 .. m - 1
  <2>1. 1 .. m - 1 \subseteq S
    BY <1>6
  <2>2. S \subseteq 1 .. m - 1
    <3> SUFFICES ASSUME NEW k \in S
                 PROVE  k \in 1 .. m - 1
      OBVIOUS
    <3>1. k \in 1 .. n /\ k < m
      BY <1>2, <1>7
    <3> QED
      BY <1>1, <1>5, <3>1
  <2> QED
    BY <2>1, <2>2
<1>9. Cardinality(1 .. m - 1) = m - 1
  BY <1>5, FS_Interval
<1> QED
  BY <1>8, <1>9 DEF S

LEMMA PushedSorted ==
  ASSUME future_queue \in Seq(Future), Sorted, NEW f \in Future
  PROVE  LET q == Pushed(f)
         IN  \A i, j \in DOMAIN q : i < j => q[i].expiry <= q[j].expiry
<1> DEFINE n == Len(future_queue)
           c == Cardinality(NotLater(f))
           q == Pushed(f)
<1>1. /\ c \in 0 .. n /\ q \in Seq(Future) /\ Len(q) = n + 1
      /\ \A k \in 1 .. c : q[k] = future_queue[k]
      /\ q[c + 1] = f
      /\ \A k \in c + 2 .. n + 1 :
           q[k] = future_queue[k - 1] /\ k - 1 \in DOMAIN future_queue
  BY PushedAt
<1>2. NotLater(f) = 1 .. c
  BY NotLaterFirst
<1>3. /\ n \in Nat /\ DOMAIN future_queue = 1 .. n /\ DOMAIN q = 1 .. n + 1
      /\ f.expiry \in Nat
      /\ \A k \in 1 .. n : future_queue[k].expiry \in Nat
  BY <1>1, Expiries
<1> HIDE DEF c, q, n
<1>4. \A k \in 1 .. n : k <= c <=> future_queue[k].expiry <= f.expiry
  BY <1>1, <1>2, <1>3 DEF NotLater
<1>5. \A i, j \in 1 .. n :
        i < j => future_queue[i].expiry <= future_queue[j].expiry
  BY <1>3 DEF Sorted
<1> SUFFICES ASSUME NEW i \in 1 .. n + 1, NEW j \in 1 .. n + 1, i < j
             PROVE  q[i].expiry <= q[j].expiry
  BY <1>3 DEF q
<1>6. CASE j <= c
  <2>1. i \in 1 .. c /\ j \in 1 .. c /\ i \in 1 .. n /\ j \in 1 .. n
    BY <1>1, <1>3, <1>6
  <2> QED
    BY <1>1, <1>5, <2>1
<1>7. CASE j = c + 1
  <2>1. i \in 1 .. c /\ i \in 1 .. n
    BY <1>1, <1>3, <1>7
  <2> QED
    BY <1>1, <1>4, <1>7, <2>1
<1>8. CASE j > c + 1
  <2>1. j - 1 \in 1 .. n /\ q[j] = future_queue[j - 1] /\ j - 1 > c
    BY <1>1, <1>3, <1>8
  <2>2. CASE i <= c
    <3>1. i \in 1 .. c /\ i \in 1 .. n /\ i < j - 1
      BY <1>1, <1>3, <2>1, <2>2
    <3> QED
      BY <1>1, <1>5, <2>1, <3>1
  <2>3. CASE i = c + 1
    <3>1. ~ (future_queue[j - 1].expiry <= f.expiry)
      BY <1>1, <1>3, <1>4, <2>1
    <3> QED
      BY <1>1, <1>3, <2>1, <2>3, <3>1
  <2>4. CASE i > c + 1
    <3>1. i - 1 \in 1 .. n /\ q[i] = future_queue[i - 1] /\ i - 1 < j - 1
      BY <1>1, <1>3, <2>1, <2>4
    <3> QED
      BY <1>5, <2>1, <3>1
  <2> QED
    BY <1>1, <1>3, <2>2, <2>3, <2>4
<1> QED
  BY <1>1, <1>3, <1>6, <1>7, <1>8

(* The thread sleeps until the first of the futures.                       *)
First ==
  status = "asleep" =>
    \A k \in DOMAIN future_queue : head.expiry <= future_queue[k].expiry

(* Unless one was missed, no future that is pending is overdue.            *)
InTime ==
  /\ Sorted /\ First
  /\ ~missed => /\ ~Overdue(now)
                /\ status # "asleep for ages"

LEMMA InTimePushed ==
  ASSUME IInv, InTime, status = "run", CanPush,
         future_queue' = Pushed([jmp_address |-> arg(1), expiry |-> now + arg(0)]),
         UNCHANGED <<now, missed>>, status' \in {"check", "halt"}
  PROVE  InTime'
<1> DEFINE f == [jmp_address |-> arg(1), expiry |-> now + arg(0)]
<1>1. arg(0) \in Nat /\ arg(1) \in Nat /\ now \in Nat
  BY AtFetches, Bounds DEF IInv, TypeOK
<1>2. f \in Future /\ now <= f.expiry
  BY <1>1 DEF Future
<1>3. future_queue \in Seq(Future) /\ Sorted
  BY DEF IInv, TypeOK, InTime
<1>4. future_queue' = Pushed(f)
  OBVIOUS
<1> HIDE DEF f
<1>5. Sorted'
  BY <1>2, <1>3, <1>4, PushedSorted DEF Sorted
<1>6. ASSUME ~missed PROVE ~Overdue(now)'
  <2>1. \A k \in DOMAIN future_queue : ~ (future_queue[k].expiry < now)
    BY <1>6 DEF InTime, Overdue
  <2>2. ~ (f.expiry < now)
    BY <1>1, <1>2, Expiries
  <2>3. \A k \in DOMAIN Pushed(f) : ~ (Pushed(f)[k].expiry < now)
    BY <1>2, <1>3, <2>1, <2>2, PushedAdds
  <2> QED
    BY <1>4, <2>3 DEF Overdue
<1> QED
  BY <1>5, <1>6 DEF InTime, First

LEMMA InTimeKept ==
  ASSUME IInv, InTime, [Next]_vars
  PROVE  InTime'
<1> USE DEF sleep, clock
<1>0. /\ future_queue \in Seq(Future) /\ now \in Nat /\ head \in Future
      /\ head.expiry \in Nat /\ missed \in BOOLEAN
      /\ \A k \in DOMAIN future_queue : future_queue[k].expiry \in Nat
  <2>1. /\ future_queue \in Seq(Future) /\ head \in Future
        /\ now \in 0 .. MaxTime /\ missed \in BOOLEAN
    BY DEF IInv, TypeOK
  <2> QED
    BY <2>1, Bounds, Expiries
<1>1. ASSUME UNCHANGED <<future_queue, now, missed>>,
             status' \notin {"asleep", "asleep for ages"}
      PROVE  InTime'
  BY <1>1 DEF InTime, Sorted, First, Overdue
<1>2. ASSUME UNCHANGED <<future_queue, now, missed, head, status>>
      PROVE  InTime'
  BY <1>2 DEF InTime, Sorted, First, Overdue
<1>3. CASE \/ \E p \in Programs : Start(p)
           \/ Stop \/ Stopped \/ Check \/ Wake \/ SyncArrives \/ SyncTimesOut
  BY <1>1, <1>3
  DEF Start, Stop, Stopped, Check, Wake, SyncArrives, SyncTimesOut, INSTR_CHANGE_PC,
  INSTR_OK, Asleep
<1>4. CASE \/ HandleNop \/ HandleGoto \/ HandleEndOfProgram \/ HandleIf
           \/ HandleCounter \/ HandleCreate \/ HandleSend \/ HandleReceive
           \/ HandleInvalid \/ HandleSync
  BY <1>1, <1>4
  DEF HandleNop, HandleGoto, HandleEndOfProgram, HandleIf, HandleCounter,
  HandleCreate, HandleSend, HandleReceive, HandleInvalid, HandleSync, INSTR_OK,
  INSTR_ERROR, INSTR_CHANGE_PC
<1>5. CASE HandleFuture \/ HandleWait
  <2>1. status = "run" /\ UNCHANGED <<now, missed>>
    BY <1>5 DEF HandleFuture, HandleWait, At
  <2>2. CASE CanPush
    <3>1. /\ future_queue'
                = Pushed([jmp_address |-> arg(1), expiry |-> now + arg(0)])
          /\ status' \in {"check", "halt"}
      BY <1>5, <2>2 DEF HandleFuture, HandleWait, INSTR_OK
    <3> QED
      BY <2>1, <2>2, <3>1, InTimePushed
  <2>3. CASE ~CanPush
    BY <1>1, <1>5, <2>3 DEF HandleFuture, HandleWait, INSTR_ERROR
  <2> QED
    BY <2>2, <2>3
<1>6. CASE HandleHalt
  <2>1. CASE future_queue = << >>
    BY <1>1, <1>6, <2>1 DEF HandleHalt
  <2>2. CASE future_queue # << >>
    <3> DEFINE h == Head(future_queue)
               t == Tail(future_queue)
    <3>1. /\ head' = h /\ future_queue' = t /\ now' = now /\ missed' = missed
          /\ status' = SleepOf(h)
      BY <1>6, <2>2 DEF HandleHalt
    <3>2. 1 \in DOMAIN future_queue /\ h = future_queue[1]
      BY <1>0, <2>2
    <3>3. ASSUME ~missed PROVE now <= h.expiry /\ h.expiry \in Nat
      <4>1. ~ (future_queue[1].expiry < now)
        BY <3>2, <3>3 DEF InTime, Overdue
      <4> QED
        BY <1>0, <3>2, <4>1
    <3>4. ~missed => status' = "asleep"
      BY <1>0, <3>1, <3>3 DEF SleepOf
    <3>5. \A k \in DOMAIN t : /\ t[k] = future_queue[k + 1]
                              /\ k + 1 \in DOMAIN future_queue /\ k + 1 > 1
      BY <1>0, <2>2
    <3>6. \A i, j \in DOMAIN t : i < j => i + 1 < j + 1
      BY <1>0, <2>2
    <3> HIDE DEF h, t
    <3>7. \A k \in DOMAIN t : h.expiry <= t[k].expiry
      BY <3>2, <3>5 DEF InTime, Sorted
    <3>8. \A i, j \in DOMAIN t : i < j => t[i].expiry <= t[j].expiry
      BY <3>5, <3>6 DEF InTime, Sorted
    <3>9. ~missed => \A k \in DOMAIN t : ~ (t[k].expiry < now)
      BY <3>5 DEF InTime, Overdue
    <3> QED
      BY <3>1, <3>4, <3>7, <3>8, <3>9 DEF InTime, Sorted, First, Overdue
  <2> QED
    BY <2>1, <2>2
<1>8. CASE \E c \in Channels : Arrive(c)
  BY <1>2, <1>8 DEF Arrive
<1>9. CASE Tick
  <2>1. /\ UNCHANGED <<future_queue, status, head>> /\ Sorted' /\ First'
        /\ missed' = (missed \/ (Overdue(now') /\ ~OnTheClock))
    BY <1>9 DEF Tick, InTime, Sorted, First
  <2>2. ASSUME ~missed' PROVE ~Overdue(now)'
    <3>1. ~missed /\ (~Overdue(now') \/ OnTheClock)
      BY <2>1, <2>2, <1>0
    <3>2. CASE ~Overdue(now')
      BY <2>1, <3>2 DEF Overdue
    <3>3. CASE OnTheClock
      <4>1. /\ status = "asleep" /\ timer \in Nat /\ timer > 0
            /\ now + timer = head.expiry
        BY <3>3 DEF OnTheClock, IInv, TypeOK, Waited
      <4>2. now' \in Nat /\ now' <= now + 1
        BY <1>9, <1>0 DEF Tick
      <4>3. now' <= head.expiry
        BY <1>0, <4>1, <4>2
      <4>4. \A k \in DOMAIN future_queue : ~ (future_queue[k].expiry < now')
        BY <1>0, <4>1, <4>2, <4>3 DEF InTime, First
      <4> QED
        BY <2>1, <4>4 DEF Overdue
    <3> QED
      BY <3>1, <3>2, <3>3
  <2> QED
    BY <2>1, <2>2 DEF InTime
<1>10. ASSUME NEW u \in 0 .. MaxTime, SetClock(u) PROVE InTime'
  <2>1. /\ UNCHANGED <<future_queue, status, head>> /\ Sorted' /\ First'
        /\ now' = u /\ missed' = (missed \/ Overdue(u))
    BY <1>10 DEF SetClock, InTime, Sorted, First
  <2>2. ~missed' => ~Overdue(now)'
    BY <2>1 DEF Overdue
  <2> QED
    BY <2>1, <2>2 DEF InTime
<1>11. CASE UNCHANGED vars
  BY <1>2, <1>11 DEF vars
<1> QED
  BY <1>3, <1>4, <1>5, <1>6, <1>8, <1>9, <1>10, <1>11 DEF Next, Interpret, Handle

(* A sleep without end has its cause outside the queue and the sleeps: the *)
(* clock went past a pending future while the thread executed, overslept   *)
(* or was not there, or it was set.  No sleep that is on time goes past    *)
(* another future, in whatever order and by whichever program they were    *)
(* pushed.                                                                 *)
THEOREM NeverOverslept == Spec => []NoOversleep
<1>1. Init => IInv /\ InTime
  BY Initially DEF Init, InTime, Sorted, First, Overdue
<1>2. IInv /\ InTime /\ [Next]_vars => (IInv /\ InTime)'
  BY Inductive, InTimeKept
<1>3. InTime => NoOversleep
  BY DEF InTime, NoOversleep
<1> QED
  BY <1>1, <1>2, <1>3, PTL DEF Spec
=============================================================================
