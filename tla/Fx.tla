--------------------------------- MODULE Fx ---------------------------------
(***************************************************************************)
(* The queue of an element and its animations in jquery-1.9.1.js: queue,   *)
(* dequeue, delay, clearQueue and promise; Animation, animate, stop and    *)
(* finish; jQuery.timers and the interval that ticks them.                 *)
(*                                                                         *)
(* The element's queue begins with "inprogress" while one of its functions *)
(* runs, and whoever that is calls dequeue when it is done.  The complete  *)
(* callback of an animation is the page's and may call any of the methods  *)
(* again, inside tick's, stop's and finish's loops over jQuery.timers.     *)
(* stack holds what is left to do of the calls under way, the next first;  *)
(* "user" on top of it is the page's callback.  With an empty stack the    *)
(* browser runs a script, the interval or a timeout.  Time is counted in   *)
(* ticks of the interval.                                                  *)
(***************************************************************************)
EXTENDS Integers, Sequences, FiniteSets, SequencesExt

CONSTANTS
  Durations,        \* of animations, in ticks; 0 is over at once
  Programs,         \* [scripts, callbacks, most]: what each may call, and
                    \* the bound on the number of calls
  MaxOps            \* bound: the largest of those

Ids == 1..MaxOps
NoId == 0
InProgress == [k |-> "inprogress", a |-> NoId]
Anim(a) == [k |-> "anim", a |-> a]
Delay(a) == [k |-> "delay", a |-> a]
Entries == {InProgress} \cup [k : {"anim", "delay"}, a : Ids]

VARIABLES
  program,
  mixed,            \* history: the calls that came at a bad time, see Mixes
  queue,            \* the element's "fx" queue
  hooks,            \* its queueHooks: an index of hookObjs, or NoId
  hookObjs,         \* the queueHooks objects made, which closures still hold
  anims,            \* the animations, in the order of the calls
  timers,           \* jQuery.timers: the animations that are ticked
  interval,         \* timerId
  delays,           \* the timeouts of delay() that are to come
  finishing,        \* the element's "finish" flag
  promises,         \* of promise(), in the order of the calls
  stack,
  ops

vars == <<program, mixed, queue, hooks, hookObjs, anims, timers, interval,
          delays, finishing, promises, stack, ops>>

(* queueHooks: cur is InProgress where the code has undefined.             *)
NewHooks == [unqueued |-> 0, waiters |-> {}, stop |-> NoId, cur |-> InProgress]

Init ==
  /\ program \in Programs
  /\ mixed = {}
  /\ queue = <<>>
  /\ hooks = NoId
  /\ hookObjs = <<>>
  /\ anims = <<>>
  /\ timers = <<>>
  /\ interval = FALSE
  /\ delays = {}
  /\ finishing = FALSE
  /\ promises = <<>>
  /\ stack = <<>>
  /\ ops = 0

Idle == stack = <<>>
Do(op, a, flag) == [op |-> op, a |-> a, flag |-> flag, list |-> <<>>]
Plain(op) == Do(op, NoId, FALSE)
Top == IF Idle THEN Plain("none") ELSE Head(stack)
Instead(todo) == stack' = todo \o Tail(stack)

(* _queueHooks: the hooks there are, or new ones.                          *)
HooksThere == IF hooks = NoId THEN Len(hookObjs) + 1 ELSE hooks
HookObjsThere == IF hooks = NoId THEN Append(hookObjs, NewHooks) ELSE hookObjs

(* empty.fire() of the hooks h, which prefilter's makes wait for the       *)
(* animations outside the queue: who waits is told, queue and hooks go.    *)
EmptyFire(h, objs) ==
  IF objs[h].unqueued = 0
  THEN /\ promises' = [p \in DOMAIN promises |->
                        IF p \in objs[h].waiters THEN "resolved"
                        ELSE promises[p]]
       /\ hookObjs' = [objs EXCEPT ![h].waiters = {}]
       /\ queue' = <<>>
       /\ hooks' = NoId
  ELSE /\ hookObjs' = objs
       /\ hooks' = IF hooks = NoId THEN h ELSE hooks
       /\ queue' = <<>>
       /\ UNCHANGED promises

(***************************************************************************)
(* dequeue                                                                 *)
(***************************************************************************)
Dequeue ==
  /\ Top.op = "dequeue"
  /\ LET waiting == IF queue # <<>> /\ Head(queue) = InProgress
                    THEN Tail(queue) ELSE queue
         h == HooksThere
         objs == HookObjsThere
     IN IF waiting = <<>>
        THEN /\ EmptyFire(h, [objs EXCEPT ![h].cur = InProgress])
             /\ Instead(<<>>)
             /\ UNCHANGED delays
        ELSE LET e == Head(waiting) IN
             /\ queue' = <<InProgress>> \o Tail(waiting)
             /\ hooks' = h
             /\ hookObjs' = [objs EXCEPT ![h].cur = e,
                                         ![h].stop = IF e.k = "delay" THEN e.a
                                                     ELSE NoId]
             /\ delays' = IF e.k = "delay" THEN delays \cup {e.a} ELSE delays
             /\ Instead(IF e.k = "anim" THEN <<Do("begin", e.a, FALSE)>>
                        ELSE <<>>)
             /\ UNCHANGED promises
  /\ UNCHANGED <<program, mixed, anims, timers, interval, finishing, ops>>

(***************************************************************************)
(* Animation, doAnimation                                                  *)
(***************************************************************************)
(* What its end calls: complete if it was resolved, which is the page's    *)
(* and then dequeue; last, the hooks of one that was outside the queue.    *)
Complete(a) == Do("complete", a, FALSE)
Unqueue(a) == IF anims[a].queued THEN <<>>
              ELSE <<Do("unqueued", anims[a].hooks, FALSE)>>
(* Variant: complete is attached with always.                               *)
SettlesAlways(a, gotoEnd) == <<Complete(a)>> \o Unqueue(a)

Settles(a, gotoEnd) == (IF gotoEnd THEN <<Complete(a)>> ELSE <<>>) \o Unqueue(a)

(* A new Animation ticks once, and joins jQuery.timers unless that was its *)
(* last frame.  complete is attached after that, so such a one is outside  *)
(* the hooks' count before it is called.  A timer that joins while tick    *)
(* goes through them is still reached in the same round, at its first      *)
(* frame.                                                                  *)
Begin ==
  /\ Top.op = "begin"
  /\ LET a == Top.a
         lasts == anims[a].dur > 0
         ticking == \E i \in DOMAIN stack : stack[i].op = "ticked"
     IN /\ anims' = [anims EXCEPT
                       ![a].st = IF lasts THEN "running" ELSE "resolved",
                       ![a].left = anims[a].dur + (IF ticking THEN 1 ELSE 0),
                       ![a].stopped = FALSE,
                       ![a].hooks = HooksThere]
        /\ timers' = IF lasts THEN Append(timers, a) ELSE timers
        /\ interval' = (interval \/ lasts)
        /\ IF anims[a].queued
           THEN UNCHANGED <<hooks, hookObjs>>
           ELSE /\ hooks' = HooksThere
                /\ hookObjs' = [HookObjsThere EXCEPT
                                  ![HooksThere].unqueued = @ + 1]
        /\ Instead((IF lasts THEN <<>>
                    ELSE IF anims[a].queued THEN <<Complete(a)>>
                    ELSE <<Do("unqueued", HooksThere, FALSE), Complete(a)>>)
                   \o <<Do("begun", a, FALSE)>>)
  /\ UNCHANGED <<program, mixed, queue, delays, finishing, promises, ops>>

(* doAnimation.finish = stop( true ); while finish() runs that is done now. *)
Begun ==
  /\ Top.op = "begun"
  /\ anims' = [anims EXCEPT ![Top.a].begun = TRUE]
  /\ Instead(IF finishing THEN <<Do("stopAnim", Top.a, TRUE)>> ELSE <<>>)
  /\ UNCHANGED <<program, mixed, queue, hooks, hookObjs, timers, interval,
                 delays, finishing, promises, ops>>

(* animation.stop( gotoEnd )                                               *)
StopAnim ==
  /\ Top.op = "stopAnim"
  /\ LET a == Top.a
         settles == ~anims[a].stopped /\ anims[a].st = "running"
     IN /\ anims' = [anims EXCEPT
                       ![a].stopped = TRUE,
                       ![a].st = IF ~settles THEN @
                                 ELSE IF Top.flag THEN "resolved"
                                 ELSE "rejected"]
        /\ Instead(IF settles THEN Settles(a, Top.flag) ELSE <<>>)
  /\ UNCHANGED <<program, mixed, queue, hooks, hookObjs, timers, interval,
                 delays, finishing, promises, ops>>

(* opt.complete: the page's callback, then dequeue.                        *)
Completed ==
  /\ Top.op = "complete"
  /\ Instead(<<Do("user", Top.a, FALSE)>>
             \o (IF anims[Top.a].queued THEN <<Plain("dequeue")>> ELSE <<>>))
  /\ anims' = [anims EXCEPT ![Top.a].completes = @ + 1]
  /\ UNCHANGED <<program, mixed, queue, hooks, hookObjs, timers, interval,
                 delays, finishing, promises, ops>>

(* Variant: it is left to the next dequeue to tell who waits.               *)
UnqueuedSilent ==
  /\ Top.op = "unqueued"
  /\ hookObjs' = [hookObjs EXCEPT ![Top.a].unqueued = @ - 1]
  /\ Instead(<<>>)
  /\ UNCHANGED <<program, mixed, queue, hooks, anims, timers, interval, delays,
                 finishing, promises, ops>>

Unqueued ==
  /\ Top.op = "unqueued"
  /\ LET h == Top.a
         objs == [hookObjs EXCEPT ![h].unqueued = @ - 1]
     IN IF queue # <<>> \/ objs[h].unqueued > 0
        THEN /\ hookObjs' = objs
             /\ UNCHANGED <<queue, hooks, promises>>
        ELSE EmptyFire(h, objs)
  /\ Instead(<<>>)
  /\ UNCHANGED <<program, mixed, anims, timers, interval, delays, finishing,
                 ops>>

(* The page's complete callback returns.                                   *)
Return ==
  /\ Top.op = "user"
  /\ Instead(<<>>)
  /\ UNCHANGED <<program, mixed, queue, hooks, hookObjs, anims, timers,
                 interval, delays, finishing, promises, ops>>

(***************************************************************************)
(* jQuery.fx.tick                                                          *)
(***************************************************************************)
(* timers[ i ] is ticked; one that is over is taken off, if the page's     *)
(* callback has left it where it was.                                      *)
Tick ==
  /\ Top.op = "tick"
  /\ Top.a < Len(timers)
  /\ LET i == Top.a
         a == timers[i + 1]
         over == anims[a].stopped \/ anims[a].left <= 1
     IN /\ anims' = [anims EXCEPT
                       ![a].left = IF over THEN 0 ELSE @ - 1,
                       ![a].st = IF over /\ @ = "running" THEN "resolved"
                                 ELSE @]
        /\ Instead(IF ~over THEN <<Do("tick", i + 1, FALSE)>>
                   ELSE (IF anims[a].st = "running"
                         THEN Settles(a, TRUE) ELSE <<>>)
                        \o <<[Do("ticked", i, FALSE) EXCEPT !.list = <<a>>]>>)
  /\ UNCHANGED <<program, mixed, queue, hooks, hookObjs, timers, interval,
                 delays, finishing, promises, ops>>

Ticked ==
  /\ Top.op = "ticked"
  /\ LET i == Top.a
         there == i < Len(timers) /\ timers[i + 1] = Top.list[1]
     IN /\ timers' = IF there THEN RemoveAt(timers, i + 1) ELSE timers
        /\ Instead(<<Do("tick", IF there THEN i ELSE i + 1, FALSE)>>)
  /\ UNCHANGED <<program, mixed, queue, hooks, hookObjs, anims, interval,
                 delays, finishing, promises, ops>>

(* Variant: the interval is cleared whether or not timers are left.         *)
TickEndsAll ==
  /\ Top.op = "tick"
  /\ Top.a >= Len(timers)
  /\ interval' = FALSE
  /\ Instead(<<>>)
  /\ UNCHANGED <<program, mixed, queue, hooks, hookObjs, anims, timers, delays,
                 finishing, promises, ops>>

TickEnds ==
  /\ Top.op = "tick"
  /\ Top.a >= Len(timers)
  /\ interval' = (interval /\ timers # <<>>)
  /\ Instead(<<>>)
  /\ UNCHANGED <<program, mixed, queue, hooks, hookObjs, anims, timers, delays,
                 finishing, promises, ops>>

(***************************************************************************)
(* stop, finish                                                            *)
(***************************************************************************)
(* stop( clearQueue, gotoEnd ): the timeout of a delay() is cleared, if    *)
(* the hooks still know of it, and then the timers are gone through from   *)
(* the last.                                                               *)
StopBegins ==
  /\ Top.op = "stop"
  /\ IF hooks # NoId /\ hookObjs[hooks].stop # NoId
     THEN /\ delays' = delays \ {hookObjs[hooks].stop}
          /\ hookObjs' = [hookObjs EXCEPT ![hooks].stop = NoId]
     ELSE UNCHANGED <<delays, hookObjs>>
  /\ Instead(<<Do("stopTimers", Len(timers), Top.flag)>>)
  /\ UNCHANGED <<program, mixed, queue, hooks, anims, timers, interval,
                 finishing, promises, ops>>

(* A timer that is settled has lost its elem and is passed over; finish()  *)
(* stops only those of the queue.  list has the ones that were stopped.    *)
StopTimers ==
  /\ Top.op \in {"stopTimers", "finishTimers"}
  /\ Top.a \in 1..Len(timers)
  /\ LET a == timers[Top.a]
         rest == [Top EXCEPT !.a = @ - 1]
     IN Instead(IF /\ anims[a].st = "running"
                   /\ Top.op = "stopTimers" \/ anims[a].queued
                THEN <<Do("stopAnim", a, Top.flag), Do("splice", Top.a, FALSE),
                       [rest EXCEPT !.list = <<a>>]>>
                ELSE <<rest>>)
  /\ UNCHANGED <<program, mixed, queue, hooks, hookObjs, anims, timers,
                 interval, delays, finishing, promises, ops>>

(* timers.splice( index, 1 )                                               *)
Splice ==
  /\ Top.op = "splice"
  /\ timers' = IF Top.a <= Len(timers) THEN RemoveAt(timers, Top.a) ELSE timers
  /\ Instead(<<>>)
  /\ UNCHANGED <<program, mixed, queue, hooks, hookObjs, anims, interval,
                 delays, finishing, promises, ops>>

(* dequeue follows unless an animation brought to its end has called it.   *)
StopEnds ==
  /\ Top.op \in {"stopTimers", "finishTimers"}
  /\ Top.a = 0
  /\ Instead(IF Top.op = "stopTimers" /\ (Top.list = <<>> \/ ~Top.flag)
             THEN <<Plain("dequeue")>> ELSE <<>>)
  /\ UNCHANGED <<program, mixed, queue, hooks, hookObjs, anims, timers,
                 interval, delays, finishing, promises, ops>>

(* timers[ index ] is undefined: an exception ends all that was under way. *)
NoSuchTimer ==
  /\ Top.op \in {"stopTimers", "finishTimers"}
  /\ Top.a > Len(timers)
  /\ stack' = <<>>
  /\ UNCHANGED <<program, mixed, queue, hooks, hookObjs, anims, timers,
                 interval, delays, finishing, promises, ops>>

(* finish(): the queue is emptied, then what runs, what is ticked and what *)
(* was in the queue are brought to their ends, in that order.              *)
FinishBegins ==
  /\ Top.op = "finish"
  /\ LET cur == IF hooks = NoId THEN InProgress ELSE hookObjs[hooks].cur
         anim(e) == e.k = "anim"
         ends(es) == [i \in DOMAIN SelectSeq(es, anim) |->
                       Do("finishOne", SelectSeq(es, anim)[i].a, FALSE)]
     IN Instead(ends(<<cur>>) \o <<Do("finishTimers", Len(timers), TRUE)>>
                \o ends(queue) \o <<Plain("finished")>>)
  /\ finishing' = TRUE
  /\ queue' = <<>>
  /\ UNCHANGED <<program, mixed, hooks, hookObjs, anims, timers, interval,
                 delays, promises, ops>>

(* doAnimation.finish is doAnimation until that has returned.              *)
FinishOne ==
  /\ Top.op = "finishOne"
  /\ Instead(<<IF anims[Top.a].begun THEN Do("stopAnim", Top.a, TRUE)
               ELSE Do("begin", Top.a, FALSE)>>)
  /\ UNCHANGED <<program, mixed, queue, hooks, hookObjs, anims, timers,
                 interval, delays, finishing, promises, ops>>

Finished ==
  /\ Top.op = "finished"
  /\ finishing' = FALSE
  /\ Instead(<<>>)
  /\ UNCHANGED <<program, mixed, queue, hooks, hookObjs, anims, timers,
                 interval, delays, promises, ops>>

(***************************************************************************)
(* What scripts and the complete callbacks call, and the browser           *)
(***************************************************************************)
(* Calls that come at a bad time, by what they do then: they leave the     *)
(* queue without its "inprogress" while what that stood for goes on; they  *)
(* start the queue in a complete callback whose own dequeue is to come, or *)
(* before stop(true) has come to what runs; they shorten jQuery.timers     *)
(* under a loop that goes backwards over it and splices by index.          *)
Held == {a \in DOMAIN anims : anims[a].queued /\ anims[a].st = "running"}
Loose == {a \in DOMAIN anims : ~anims[a].queued /\ anims[a].st = "running"}

Stopping == {"stop", "stopEnd", "stopClear", "stopClearEnd"}
Clearing == {"stopClear", "stopClearEnd"}

Emptied(op) ==
  \/ op = "clearQueue" /\ Held # {}
  \/ op \in Clearing \cup {"clearQueue", "finish"} /\ delays # {}

DequeueToCome == \E i \in DOMAIN stack : stack[i].op = "dequeue"

Restarted(op) ==
  \/ op \in Stopping /\ queue # <<>> /\ DequeueToCome
  \/ /\ op \in {"animate", "delay"}
     /\ queue # <<>> => Head(queue) # InProgress
     /\ DequeueToCome \/ Held # {}

InALoop ==
  \E i \in DOMAIN stack : stack[i].op \in {"stopTimers", "finishTimers"}

Mishaps == {"emptied", "cleared", "restarted", "cut", "finished", "jumped",
            "nested"}
Mixes(op) ==
  {why \in Mishaps :
     CASE why = "emptied" -> Emptied(op)
       [] why = "cleared" -> op \in Clearing /\ Held # {}
       [] why = "restarted" -> Restarted(op)
       [] why = "cut" -> /\ op \in {"stopEnd", "stopClearEnd"}
                         /\ delays # {} /\ Loose # {}
       [] why = "finished" -> op = "finish" /\ ~Idle
       [] why = "jumped" -> op = "animateNothing" /\ queue # <<>>
       [] why = "nested" -> op \in Stopping \cup {"finish"} /\ InALoop}

Calls(op) ==
  /\ ops < program.most
  /\ op \in IF Idle THEN program.scripts ELSE program.callbacks
  /\ Idle \/ Top.op = "user"
  /\ ops' = ops + 1
  /\ mixed' = mixed \cup Mixes(op)
  /\ UNCHANGED <<program, timers, interval, delays, finishing>>

Does(todo) == stack' = todo \o stack
NewAnim(d, q) == [queued |-> q, dur |-> d, left |-> 0, st |-> "queued",
                  stopped |-> FALSE, begun |-> FALSE, hooks |-> NoId,
                  completes |-> 0]

(* fn.queue( fn ): in it goes, and if nothing is in progress out again.    *)
Enqueue(e) ==
  /\ queue' = Append(queue, e)
  /\ hooks' = HooksThere
  /\ hookObjs' = HookObjsThere
  /\ Does(IF queue # <<>> /\ Head(queue) = InProgress THEN <<>>
          ELSE <<Plain("dequeue")>>)

Animate(d) ==
  /\ Calls("animate")
  /\ anims' = Append(anims, NewAnim(d, TRUE))
  /\ Enqueue(Anim(Len(anims) + 1))
  /\ UNCHANGED promises

(* queue: false                                                            *)
AnimateNow(d) ==
  /\ Calls("animateNow")
  /\ anims' = Append(anims, NewAnim(d, FALSE))
  /\ Does(<<Do("begin", Len(anims) + 1, FALSE)>>)
  /\ UNCHANGED <<queue, hooks, hookObjs, promises>>

(* Without properties it begins and ends at once, and calls dequeue though *)
(* it was not in the queue.                                                *)
AnimateNothing ==
  /\ Calls("animateNothing")
  /\ anims' = Append(anims, NewAnim(0, TRUE))
  /\ Does(<<Do("begin", Len(anims) + 1, FALSE)>>)
  /\ UNCHANGED <<queue, hooks, hookObjs, promises>>

DelayCall ==
  /\ Calls("delay")
  /\ Enqueue(Delay(ops + 1))
  /\ UNCHANGED <<anims, promises>>

(* fn.queue( [] ): an empty queue is dequeued.                             *)
Clear ==
  /\ queue' = <<>>
  /\ hooks' = HooksThere
  /\ hookObjs' = HookObjsThere

ClearQueue ==
  /\ Calls("clearQueue")
  /\ Clear
  /\ Does(<<Plain("dequeue")>>)
  /\ UNCHANGED <<anims, promises>>

Stop(gotoEnd) ==
  /\ Calls(IF gotoEnd THEN "stopEnd" ELSE "stop")
  /\ Does(<<Do("stop", NoId, gotoEnd)>>)
  /\ UNCHANGED <<queue, hooks, hookObjs, anims, promises>>

StopClear(gotoEnd) ==
  /\ Calls(IF gotoEnd THEN "stopClearEnd" ELSE "stopClear")
  /\ Clear
  /\ Does(<<Plain("dequeue"), Do("stop", NoId, gotoEnd)>>)
  /\ UNCHANGED <<anims, promises>>

Finish ==
  /\ Calls("finish")
  /\ Does(<<Plain("finish")>>)
  /\ UNCHANGED <<queue, hooks, hookObjs, anims, promises>>

(* promise(): resolved at once if there are no hooks.                      *)
Promise ==
  /\ Calls("promise")
  /\ promises' = Append(promises, IF hooks = NoId THEN "resolved" ELSE "pending")
  /\ hookObjs' = IF hooks = NoId THEN hookObjs
                 ELSE [hookObjs EXCEPT ![hooks].waiters =
                                         @ \cup {Len(promises) + 1}]
  /\ UNCHANGED <<queue, hooks, anims, stack>>

Interval ==
  /\ Idle
  /\ interval
  /\ Does(<<Do("tick", 0, FALSE)>>)
  /\ UNCHANGED <<program, mixed, queue, hooks, hookObjs, anims, timers,
                 interval, delays, finishing, promises, ops>>

(* The timeout of a delay() calls next.                                    *)
DelayOver ==
  /\ Idle
  /\ \E a \in delays : delays' = delays \ {a}
  /\ Does(<<Plain("dequeue")>>)
  /\ UNCHANGED <<program, mixed, queue, hooks, hookObjs, anims, timers,
                 interval, finishing, promises, ops>>

Under ==
  \/ Dequeue \/ Begin \/ Begun \/ StopAnim \/ Completed \/ Unqueued \/ Return
  \/ Tick \/ Ticked \/ TickEnds
  \/ StopBegins \/ StopTimers \/ Splice \/ StopEnds \/ NoSuchTimer
  \/ FinishBegins \/ FinishOne \/ Finished

Call ==
  \/ \E d \in Durations : Animate(d) \/ AnimateNow(d)
  \/ \E gotoEnd \in BOOLEAN : Stop(gotoEnd) \/ StopClear(gotoEnd)
  \/ AnimateNothing \/ DelayCall \/ ClearQueue \/ Finish \/ Promise

Next == Under \/ Call \/ Interval \/ DelayOver

Spec == Init /\ [][Next]_vars

(* A call that is under way goes on; the interval and timeouts come.       *)
FairSpec == Spec /\ WF_vars(Under) /\ WF_vars(Interval) /\ WF_vars(DelayOver)

(***************************************************************************)
(* Properties                                                              *)
(***************************************************************************)
Running(a) == anims[a].st = "running"
Without(whys) == mixed \cap whys = {}

(* The state keeps its shape.  A queue holds at most one "inprogress", its *)
(* head; while animations outside the queue run, the hooks they count on   *)
(* are the element's.                                                      *)
TypeOK ==
  /\ program \in Programs /\ mixed \subseteq Mishaps
  /\ queue \in Seq(Entries)
  /\ \A i \in DOMAIN queue : queue[i] = InProgress => i = 1
  /\ hooks \in {NoId} \cup DOMAIN hookObjs
  /\ \A h \in DOMAIN hookObjs :
       /\ hookObjs[h].unqueued \in Nat
       /\ hookObjs[h].unqueued > 0 => hooks = h
  /\ \A a \in DOMAIN anims :
       anims[a].st \in {"queued", "running", "resolved", "rejected"}
  /\ timers \in Seq(DOMAIN anims)
  /\ interval \in BOOLEAN
  /\ delays \subseteq Ids
  /\ finishing \in BOOLEAN
  /\ promises \in Seq({"pending", "resolved"})
  /\ ops \in 0..MaxOps

(* The calls by which what is queued gets ahead of what runs.              *)
Overtaking == {"emptied", "restarted", "jumped", "finished", "nested"}

(* Between two calls an animation that runs is ticked: it is in            *)
(* jQuery.timers, once, and the interval is on, whatever the callbacks did *)
(* to the list while tick went through it, or started while stop or finish *)
(* did: if none of those was called inside another one's loop.             *)
Ticks ==
  /\ timers # <<>> /\ Idle => interval
  /\ IsInjective(timers)
  /\ Without({"nested"}) /\ Idle =>
       \A a \in DOMAIN anims : Running(a) => a \in ToSet(timers)

(* Between two calls a queue that is not empty is held by an animation of  *)
(* it that runs, or by a delay that is to end: the queue is never stuck,   *)
(* if no stop(false, true) came in a delay while another animation ran,    *)
(* and none in another one's loop.                                         *)
QueueHeld ==
  Without({"cut", "nested"}) /\ Idle /\ queue # <<>> =>
    /\ Head(queue) = InProgress
    /\ \/ delays # {}
       \/ \E a \in ToSet(timers) : anims[a].queued /\ Running(a)

(* The animations of a queue run one at a time, and never during a delay   *)
(* of it, if it was not emptied under the one that ran, started by a       *)
(* callback before its turn or passed by an animation of nothing, and no   *)
(* finish or nested loop lost its place.                                   *)
OneAtATime ==
  Without(Overtaking) /\ Idle =>
    Cardinality(Held) + Cardinality(delays) <= 1

(* The queue goes on and its animations do, one after the other (enqueue,  *)
(* dequeue, tick, stop, finish): the conjunction of the above, with the    *)
(* calls that each of them excepts.                                        *)
QueueRuns == TypeOK /\ Ticks /\ QueueHeld /\ OneAtATime

(* complete is called once for an animation that came to its end, in the   *)
(* interval, by stop or by finish, and never for one that was stopped      *)
(* before, unless finish was called in a complete callback.                *)
CompleteOnce ==
  Without({"finished"}) =>
    \A a \in DOMAIN anims :
      /\ anims[a].completes <= 1
      /\ anims[a].completes = 1 => anims[a].st = "resolved"
      /\ Idle /\ anims[a].st = "resolved" => anims[a].completes = 1

(* A promise() is resolved only when no animation it was to wait for runs, *)
(* if none of these calls was made, nor stop(true) while one ran.          *)
PromiseWaits ==
  [][ mixed' \cap (Overtaking \cup {"cleared"}) = {} =>
        \A p \in DOMAIN promises :
          promises[p] = "pending" /\ promises'[p] = "resolved" =>
            Held = {} /\ Loose = {} ]_vars

(* A promise() does not resolve while an animation runs, and every one is  *)
(* resolved in the end, unless the queue got stuck (jQuery.fn.promise, the *)
(* hooks' empty.fire; the calls that each part excepts).                   *)
PromiseKept ==
  /\ PromiseWaits
  /\ \A p \in Ids :
       (p \in DOMAIN promises)
         ~> \/ p \in DOMAIN promises /\ promises[p] = "resolved"
            \/ ~Without({"cut", "nested"})

(* The properties without the calls they except: none of them holds.       *)
TicksAlways ==
  Idle => \A a \in DOMAIN anims : Running(a) => a \in ToSet(timers)

QueueRunsAlways ==
  Idle => /\ queue # <<>> => delays # {} \/ Held # {}
          /\ Cardinality(Held) + Cardinality(delays) <= 1

CompleteOnceAlways == \A a \in DOMAIN anims : anims[a].completes <= 1

PromiseWaitsAlways ==
  [][ \A p \in DOMAIN promises :
        promises[p] = "pending" /\ promises'[p] = "resolved" =>
          Held = {} /\ Loose = {} ]_vars

(* defaultPrefilter's comment says that "the complete handler will be      *)
(* called before this completes": one that was over at once is not.        *)
CompleteFirst ==
  [][\A h \in DOMAIN hookObjs :
       hookObjs'[h].unqueued < hookObjs[h].unqueued =>
         \A a \in DOMAIN anims :
           anims[a].st = "resolved" /\ ~anims[a].queued => anims[a].completes = 1]_vars
=============================================================================
