-------------------------------- MODULE MCFx --------------------------------
(* One element.  The first program may make any three calls, in scripts    *)
(* and in complete callbacks alike, the second any four but the animation  *)
(* of nothing in scripts, the third five of three that nest.               *)
EXTENDS Fx
MCDurations == {0, 2}
P(s, c, n) == [scripts |-> s, callbacks |-> c, most |-> n]
EveryCall ==
  {"animate", "animateNow", "animateNothing", "delay", "promise", "stop",
   "stopEnd", "stopClear", "stopClearEnd", "finish", "clearQueue"}
MCPrograms ==
  { P(EveryCall, EveryCall, 3),
    P(EveryCall \ {"animateNothing"}, EveryCall, 4),
    P({"animateNow", "stopEnd"}, {"animateNow", "stop", "stopEnd"}, 5) }
=============================================================================
