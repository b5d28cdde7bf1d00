------------------------------ MODULE Streams -------------------------------
(***************************************************************************)
(* What the visualizer draws of a program: parse.py makes a tree of the    *)
(* ways the program can take, and straighten (visualize.js) makes a stream *)
(* of boxes of each, for a percentile of the lengths of the instructions.  *)
(*                                                                         *)
(* All instructions but PAUSE and LOOP have the same distribution in       *)
(* lengths, so its quantiles are a function of the percentile.  Lengths    *)
(* are without the scale, by which all of them are multiplied.  A program  *)
(* is a sequence of instructions, whose addresses begin with 0.            *)
(***************************************************************************)
EXTENDS Integers, Sequences, SequencesExt

CONSTANTS
  Programs,     \* the programs that are drawn
  Quantile,     \* [percentile -> length]: external, jstat's NormalDistribution
  Mew           \* the mean length

(***************************************************************************)
(* parse.py, whose builder is [queue, scheduled_time, failed]: the         *)
(* addresses of the FUTUREs that wait, and the time each was scheduled for *)
(* last, for all ways together                                             *)
(***************************************************************************)
Node(instr, length, children) ==
  [instr |-> instr, length |-> length, children |-> children]
LOOP == Node("LOOP", 0, << >>)

(* sorted by arg0, the last: of the futures with the longest delay the     *)
(* youngest.                                                               *)
NextFuture(p, queue) ==
  LET delay(k) == p[queue[k] + 1].arg0
  IN CHOOSE k \in DOMAIN queue :
       \A j \in DOMAIN queue : delay(j) < delay(k) \/ (delay(j) = delay(k) /\ j <= k)

RECURSIVE BuildStep(_, _, _, _)

(* The ways on from i: back is a loop, and out of the program is none.     *)
Ways(p, i, nexts, time, builder) ==
  FoldLeft(LAMBDA done, n :
             IF n <= i THEN [done EXCEPT !.children = Append(@, LOOP)]
             ELSE IF n >= Len(p) THEN done
             ELSE LET step == BuildStep(p, n, time + Mew, done.builder)
                  IN [children |-> Append(done.children, step.tree),
                      builder |-> step.builder],
           [children |-> << >>, builder |-> builder], nexts)

(* TreeBuilder.step.  A HALT with no future is an exception.               *)
BuildStep(p, i, time, builder) ==
  LET instr == p[i + 1]
      on(nexts, b) == Ways(p, i, nexts, time, b)
      plain(w) == [tree |-> Node(instr.instr, Mew, w.children), builder |-> w.builder]
  IN CASE instr.instr = "FUTURE" ->
            plain(on(<<i + 1>>,
                     [builder EXCEPT !.queue = Append(@, i),
                                     !.scheduled_time[i] = time + instr.arg0]))
       [] instr.instr = "IF" -> plain(on(<<i + 1, instr.arg1>>, builder))
       [] instr.instr = "HALT" /\ builder.queue = << >> ->
            plain([children |-> << >>, builder |-> [builder EXCEPT !.failed = TRUE]])
       [] instr.instr = "HALT" /\ builder.queue # << >> ->
            LET k == NextFuture(p, builder.queue)
                future == builder.queue[k]
                w == on(<<p[future + 1].arg1>>,
                        [builder EXCEPT !.queue = RemoveAt(@, k)])
                pause == Node("PAUSE", builder.scheduled_time[future] - time,
                              w.children)
            IN [tree |-> Node("HALT", Mew, <<pause>>), builder |-> w.builder]
       [] OTHER -> plain(on(<<i + 1>>, builder))

Build(p) ==
  BuildStep(p, 0, 0, [queue |-> << >>, failed |-> FALSE,
                      scheduled_time |-> [i \in 0 .. Len(p) - 1 |-> 0]])

ASSUME StreamsAssumption ==
  /\ Mew \in Nat /\ \A at \in DOMAIN Quantile : Quantile[at] \in Int
  /\ \A p \in Programs : ~Build(p).builder.failed

(***************************************************************************)
(* straighten                                                              *)
(***************************************************************************)
NoTime == -1        \* the start of a box that does not show one
Box(instr, start, length) == [instr |-> instr, start |-> start, length |-> length]
LoopBox == Box("LOOP", NoTime, 0)
NegativeTime == <<Box("Negative Time", NoTime, -1)>>
DeadlineMissed == <<Box("Deadline Missed", NoTime, -1)>>

LengthOf(stream) == FoldLeft(LAMBDA len, box : len + box.length, 0, stream)

(* Variant: all but the last box.                                          *)
MakeSpacerShort(stream) == <<Box("&nbsp;", NoTime, LengthOf(Front(stream)))>>

make_spacer(stream) == <<Box("&nbsp;", NoTime, LengthOf(stream))>>

(* The length of a pause is contracted as the others expand.               *)
PauseLength(node, time_now, time_now_mean) ==
  node.length - (time_now - time_now_mean)

RECURSIVE straighten(_, _, _, _, _)

(* The first way goes on in the stream, every other in one of its own      *)
(* behind a spacer; a stream whose way does not end in a loop is lost.     *)
straighten(at, node, stream, time_now, time_now_mean) ==
  LET pause == node.instr = "PAUSE"
      len == IF pause THEN PauseLength(node, time_now, time_now_mean)
             ELSE Quantile[at]
      drawn == Append(stream, Box(node.instr, time_now, len))
      way(c) == straighten(at, node.children[c],
                           IF c = 1 THEN drawn ELSE make_spacer(drawn),
                           time_now + len, time_now_mean + node.length)
      ways == [c \in DOMAIN node.children |-> way(c)]
  IN CASE node = LOOP -> <<Append(stream, LoopBox)>>
       [] node # LOOP /\ len < 0 ->
            <<IF pause THEN DeadlineMissed ELSE NegativeTime>>
       [] OTHER -> FlattenSeq(ways)

(* The streams of a program, as render has them.                           *)
Streams(at, p) == straighten(at, Build(p).tree, << >>, 0, 0)
=============================================================================
