------------------------------ MODULE Deferred ------------------------------
(***************************************************************************)
(* jQuery.Callbacks, jQuery.Deferred, jQuery.when and jQuery.ready         *)
(* (jquery-1.9.1.js), with the scripts that use them.                      *)
(*                                                                         *)
(* There is one thread, and what is hard is re-entrance: a function that a *)
(* list calls may add to, remove from, fire or lock the same list or       *)
(* another one, and throws.  frames is the stack of the activations under  *)
(* way, the running one first:                                             *)
(*   "loop"    the loop of fire() of the list l with the value data        *)
(*   "called"  that loop while a function of the page runs: any operation  *)
(*             may be called by it (its last act is Return or Throw)       *)
(*   "back"    that loop while a function of jQuery's own runs above it    *)
(*   "todo"    the rest of a method of jQuery: the operations left         *)
(* With no frame the browser may run a script, an event or a timer.        *)
(*                                                                         *)
(* Parts that do not touch each other are kept apart by "program", the     *)
(* operations this page's scripts call, so that they are not multiplied.   *)
(***************************************************************************)
EXTENDS CallbackList, TLC

CONSTANTS
  Fns, NoFn,        \* the functions of the page, and none of them
  Programs,         \* sets of operations the scripts may call
  ListOptions,      \* the options of the list made by jQuery.Callbacks()
  MaxOps            \* bound: operations called by the scripts

Kinds == <<"done", "fail", "progress">>
KindSet == Range(Kinds)

(* The Deferreds: two of the page's, one made by then(), one by when(), and *)
(* readyList.                                                              *)
Own == {"a", "b"}
Made == {"then", "when", "ready"}
Deferreds == Own \cup Made
CB == <<"cb", "list">>
ListIds == {CB} \cup (Deferreds \X KindSet)

Call(op, l, c, data) == [op |-> op, l |-> l, c |-> c, data |-> data]
Frame(k, l, data, c, todo) ==
  [k |-> k, l |-> l, data |-> data, c |-> c, todo |-> todo,
   whole |-> FALSE, did |-> <<>>]
(* The entries of the lists: a function of the page, one of jQuery's that  *)
(* acts on the list l, and a function of the page wrapped by then().       *)
NoList == <<"none", "none">>
User(f) == [k |-> "user", f |-> f, l |-> NoList]
Inner(k, l) == [k |-> k, f |-> NoFn, l |-> l]
NoEntry == Inner("none", NoList)
ThenFn == Inner("thenFn", NoList)

LoopFrame(l, nl, data) ==
  [Frame("loop", l, data, NoEntry, <<>>) EXCEPT !.whole = nl.firingIndex = 0]

VARIABLES
  program, lists, frames,
  state,            \* of each Deferred
  remaining,        \* of when(): the subordinates that are not resolved
  made,             \* the Deferreds that exist
  subs,             \* history: what then() or when() was called on
  readyWait, isReady,
  page,             \* document.readyState, and whether completed() listens
  timers,           \* setTimeout( jQuery.ready ) calls that are to come
  holds,            \* history: holdReady(true) calls that are not released
  regs, log,        \* history: functions given to a list, calls made
  broken,           \* history: the lists whose loop an exception left
  ops

vars == <<program, lists, frames, state, remaining, made, subs, readyWait,
          isReady, page, timers, holds, regs, log, broken, ops>>
readyVars == <<readyWait, isReady, page, timers, holds>>
history == <<regs, log, broken>>

OnceMemory ==
  [once |-> TRUE, memory |-> TRUE, unique |-> FALSE, stopOnFalse |-> FALSE]
MemoryOnly == [OnceMemory EXCEPT !.once = FALSE]

(* The three lists of a new Deferred: the first functions of done and fail *)
(* set its state, disable the other and lock progress.                     *)
DeferredList(d, kind) ==
  IF kind = "progress"
  THEN NewList(MemoryOnly, <<>>)
  ELSE NewList(OnceMemory,
               <<Inner("setState", <<d, kind>>),
                 Inner("disable", <<d, IF kind = "done" THEN "fail"
                                       ELSE "done">>),
                 Inner("lock", <<d, "progress">>)>>)

(* The lists of a program: a list, readyList, or the Deferreds.            *)
UsedLists(calls) ==
  IF "fire" \in calls THEN {CB}
  ELSE IF "ready" \in calls THEN {"ready"} \X KindSet
  ELSE (Own \cup (calls \cap {"then", "when"})) \X KindSet

Init ==
  /\ program \in Programs
  /\ \E o \in IF "fire" \in program THEN ListOptions ELSE {OnceMemory} :
       lists = [l \in UsedLists(program) |->
                 IF l = CB THEN NewList(o, <<>>) ELSE DeferredList(l[1], l[2])]
  /\ frames = <<>>
  /\ state = [d \in Deferreds |-> "pending"]
  /\ remaining = 0
  /\ made = Own
  /\ subs = [d \in Made |-> <<>>]
  /\ readyWait = 1
  /\ isReady = FALSE
  /\ page = [phase |-> "loading", listening |-> FALSE, body |-> FALSE]
  /\ timers = 0
  /\ holds = 0
  /\ regs = <<>>
  /\ log = <<>>
  /\ broken = {}
  /\ ops = 0

Idle == frames = <<>>
Top == IF Idle THEN Frame("none", NoList, NoData, NoEntry, <<>>)
       ELSE Head(frames)
Below == Tail(frames)

(* The list l has become nl: when that starts its loop, the loop runs on   *)
(* top of the frames fs.                                                   *)
Become(l, nl, fs, data) ==
  /\ lists' = [lists EXCEPT ![l] = nl]
  /\ frames' = IF nl.firing /\ ~lists[l].firing
               THEN <<LoopFrame(l, nl, data)>> \o fs
               ELSE fs

(***************************************************************************)
(* The loop of fire()                                                      *)
(***************************************************************************)
Looping(l) == ~Idle /\ Top.k = "loop" /\ Top.l = l

Current(l) == lists[l].list[lists[l].firingIndex + 1]

CanCall(l) ==
  Looping(l) /\ InLoop(lists[l]) /\ lists[l].firingIndex < Len(lists[l].list)

Pass(l) == lists' = [lists EXCEPT ![l] = Returned(@)]

(* Above the loop, the operations todo of a function of jQuery's own.      *)
Inside(l, todo) ==
  frames' = <<Frame("todo", l, Top.data, NoEntry, todo),
              [Top EXCEPT !.k = "back"]>> \o Below

(* A function of the page, also when then() has wrapped it, gets control.  *)
CallUser(l) ==
  /\ CanCall(l)
  /\ LET c == Current(l) IN
     /\ c.k \in {"user", "thenFn"}
     /\ frames' = <<[Top EXCEPT !.k = "called", !.c = c,
                                !.did = Append(@, c)]>> \o Below
     /\ log' = Append(log, [l |-> l, c |-> c, v |-> Top.data])
  /\ UNCHANGED <<program, lists, state, remaining, made, subs, readyVars, regs,
                 broken, ops>>

(* state = stateString                                                     *)
CallSetState(l) ==
  /\ CanCall(l)
  /\ Current(l).k = "setState"
  /\ state' = [state EXCEPT ![Current(l).l[1]] =
                 IF Current(l).l[2] = "done" THEN "resolved" ELSE "rejected"]
  /\ Pass(l)
  /\ UNCHANGED <<program, frames, remaining, made, subs, readyVars, history,
                 ops>>

(* The disable() of the other list, the lock() of progress.                *)
CallDisable(l) ==
  /\ CanCall(l)
  /\ Current(l).k \in {"disable", "lock"}
  /\ lists' = [lists EXCEPT
                 ![l] = Returned(@),
                 ![Current(l).l] = IF Current(l).k = "lock" THEN Lock(@)
                                   ELSE Disable(@)]
  /\ UNCHANGED <<program, frames, state, remaining, made, subs, readyVars,
                 history, ops>>

(* newDefer's resolveWith, rejectWith or notifyWith in then(); the         *)
(* master's reject in when().                                              *)
CallForward(l) ==
  /\ CanCall(l)
  /\ Current(l).k = "forward"
  /\ Inside(l, <<Call("fire", Current(l).l, NoEntry, Top.data)>>)
  /\ UNCHANGED <<program, lists, state, remaining, made, subs, readyVars,
                 history, ops>>

(* Variant: the count is tested before it is made smaller.               *)
CallUpdateEarly(l) ==
  /\ CanCall(l)
  /\ Current(l).k = "update"
  /\ remaining' = IF l[2] = "progress" THEN remaining ELSE remaining - 1
  /\ Inside(l, IF l[2] = "progress" \/ remaining = 1 + remaining'
               THEN <<Call("fire", <<"when", l[2]>>, NoEntry, Top.data)>>
               ELSE <<>>)
  /\ UNCHANGED <<program, lists, state, made, subs, readyVars, history, ops>>

(* updateFunc of when(): the last subordinate resolves the master.         *)
CallUpdate(l) ==
  /\ CanCall(l)
  /\ Current(l).k = "update"
  /\ remaining' = IF l[2] = "progress" THEN remaining ELSE remaining - 1
  /\ Inside(l, IF l[2] = "progress" \/ remaining' = 0
               THEN <<Call("fire", <<"when", l[2]>>, NoEntry, Top.data)>>
               ELSE <<>>)
  /\ UNCHANGED <<program, lists, state, made, subs, readyVars, history, ops>>

GoOn(l) ==
  /\ ~Idle
  /\ Top.k = "back"
  /\ Top.l = l
  /\ Pass(l)
  /\ frames' = <<[Top EXCEPT !.k = "loop"]>> \o Below
  /\ UNCHANGED <<program, state, remaining, made, subs, readyVars, history,
                 ops>>

(* The loop has ended; a fire() asked for meanwhile takes its place.       *)
LoopEnds(l) ==
  /\ Looping(l)
  /\ ~InLoop(lists[l])
  /\ LET nl == EndFire(lists[l]) IN
     /\ lists' = [lists EXCEPT ![l] = nl]
     /\ frames' =
          IF nl.firing
          THEN <<LoopFrame(l, nl, Head(lists[l].stack))>> \o Below
          ELSE Below
  /\ UNCHANGED <<program, state, remaining, made, subs, readyVars, history,
                 ops>>

(* An exception ends every activation; no loop resets its "firing".        *)
Unwind ==
  /\ frames' = <<>>
  /\ broken' = broken \cup {frames[i].l : i \in
                 {j \in 1..Len(frames) : frames[j].k # "todo"}}

(* list[ firingIndex ] is undefined: the list was emptied by a function it *)
(* has called.                                                             *)
CallUndefined(l) ==
  /\ Looping(l)
  /\ InLoop(lists[l])
  /\ lists[l].firingIndex >= Len(lists[l].list)
  /\ Unwind
  /\ UNCHANGED <<program, lists, state, remaining, made, subs, readyVars, regs,
                 log, ops>>

(***************************************************************************)
(* The rest of a method of jQuery                                          *)
(***************************************************************************)
Proceed ==
  /\ ~Idle
  /\ Top.k = "todo"
  /\ Top.todo # <<>>
  /\ LET call == Head(Top.todo)
         rest == <<[Top EXCEPT !.todo = Tail(@)]>> \o Below
     IN CASE call.op = "add" ->
               Become(call.l, Add(lists[call.l], call.c), rest,
                      lists[call.l].memory)
          [] call.op = "fire" ->
               Become(call.l, FireWith(lists[call.l], call.data), rest,
                      call.data)
          [] call.op = "unlessRemaining" ->
               Become(call.l, IF remaining = 0
                              THEN FireWith(lists[call.l], call.data)
                              ELSE lists[call.l], rest, call.data)
  /\ UNCHANGED <<program, state, remaining, made, subs, readyVars, history,
                 ops>>

Done ==
  /\ ~Idle
  /\ Top.k = "todo"
  /\ Top.todo = <<>>
  /\ frames' = Below
  /\ UNCHANGED <<program, lists, state, remaining, made, subs, readyVars,
                 history, ops>>

Todo(todo) ==
  frames' = <<Frame("todo", NoList, NoData, NoEntry, todo)>> \o frames

(***************************************************************************)
(* The page's functions return or throw                                    *)
(***************************************************************************)
Return(l) ==
  /\ ~Idle
  /\ Top.k = "called"
  /\ Top.l = l
  /\ Top.c.k = "user"
  /\ frames' = <<[Top EXCEPT !.k = "loop"]>> \o Below
  /\ \/ Pass(l)
     \/ /\ l = CB
        /\ lists[l].options.stopOnFalse
        /\ lists' = [lists EXCEPT ![l] = Stopped(@)]
  /\ UNCHANGED <<program, state, remaining, made, subs, readyVars, history,
                 ops>>

(* What a function given to then() returns settles the new Deferred, now   *)
(* or, when it is a promise, as soon as that promise is settled.           *)
ReturnThen(l) ==
  /\ ~Idle
  /\ Top.k = "called"
  /\ Top.l = l
  /\ Top.c.k = "thenFn"
  /\ \/ /\ Inside(l, <<Call("fire", <<"then", l[2]>>, NoEntry, Top.data)>>)
        /\ UNCHANGED subs
     \/ \E d \in Own \ Range(subs["then"]) :
          /\ Inside(l, [i \in 1..3 |->
                          Call("add", <<d, Kinds[i]>>,
                               Inner("forward", <<"then", Kinds[i]>>),
                               NoData)])
          /\ subs' = [subs EXCEPT !["then"] = Append(@, d)]
  /\ UNCHANGED <<program, lists, state, remaining, made, readyVars, history,
                 ops>>

Throw ==
  /\ "throw" \in program
  /\ ~Idle
  /\ Top.k = "called"
  /\ Unwind
  /\ UNCHANGED <<program, lists, state, remaining, made, subs, readyVars, regs,
                 log, ops>>

(***************************************************************************)
(* What the page calls, from a script or from a function that was called   *)
(***************************************************************************)
Scripts(op) ==
  /\ op \in program
  /\ Idle \/ Top.k = "called"
  /\ ops < MaxOps
  /\ ops' = ops + 1

(* The functions that were given to a list, and one that was not: which    *)
(* one does not matter.                                                    *)
Known == {regs[i].f : i \in DOMAIN regs}
Fresh == IF Fns \subseteq Known THEN NoFn
         ELSE CHOOSE f \in Fns : f \notin Known

(* done(), fail() and progress() of a promise, add() of a list.            *)
AddFn(l, f) ==
  /\ Scripts("add")
  /\ f = Fresh \/ (l = CB /\ f \in Known)
  /\ l # CB => l[1] \in made \ {"ready"}
  /\ regs' = Append(regs, [l |-> l, f |-> f])
  /\ Become(l, Add(lists[l], User(f)), frames, lists[l].memory)
  /\ UNCHANGED <<program, state, remaining, made, subs, readyVars, log, broken>>

(* resolve(), reject() and notify() of a Deferred of the page.             *)
Settle(d, kind) ==
  /\ Scripts(kind)
  /\ Become(<<d, kind>>, FireWith(lists[<<d, kind>>], ops + 1), frames, ops + 1)
  /\ UNCHANGED <<program, state, remaining, made, subs, readyVars, history>>

(* then(), with functions or with none.                                    *)
Then(d) ==
  /\ Scripts("then")
  /\ "then" \notin made
  /\ made' = made \cup {"then"}
  /\ subs' = [subs EXCEPT !["then"] = <<d>>]
  /\ \E given \in BOOLEAN :
       Todo([i \in 1..3 |->
              Call("add", <<d, Kinds[i]>>,
                   IF given THEN ThenFn
                   ELSE Inner("forward", <<"then", Kinds[i]>>), NoData)])
  /\ UNCHANGED <<program, lists, state, remaining, readyVars, history>>

(* when() of both Deferreds, or of values that are none.                   *)
When(ds) ==
  /\ Scripts("when")
  /\ "when" \notin made
  /\ made' = made \cup {"when"}
  /\ subs' = [subs EXCEPT !["when"] = ds]
  /\ remaining' = Len(ds)
  /\ Todo(FlattenSeq([i \in 1..Len(ds) |->
            <<Call("add", <<ds[i], "done">>, Inner("update", NoList), NoData),
              Call("add", <<ds[i], "fail">>,
                   Inner("forward", <<"when", "fail">>), NoData),
              Call("add", <<ds[i], "progress">>, Inner("update", NoList),
                   NoData)>>])
          \o <<Call("unlessRemaining", <<"when", "done">>, NoEntry,
                    MaxOps + 1)>>)
  /\ UNCHANGED <<program, lists, state, readyVars, history>>

(* The other methods of a list.                                            *)
FireList ==
  /\ Scripts("fire")
  /\ Become(CB, FireWith(lists[CB], ops + 1), frames, ops + 1)
  /\ UNCHANGED <<program, state, remaining, made, subs, readyVars, history>>

RemoveFn(f) ==
  /\ Scripts("remove")
  /\ f \in Known
  /\ Become(CB, RemoveEvery(lists[CB], User(f)), frames, NoData)
  /\ UNCHANGED <<program, state, remaining, made, subs, readyVars, history>>

EmptyList ==
  /\ Scripts("empty")
  /\ Become(CB, Empty(lists[CB]), frames, NoData)
  /\ UNCHANGED <<program, state, remaining, made, subs, readyVars, history>>

DisableList ==
  /\ Scripts("disable")
  /\ Become(CB, Disable(lists[CB]), frames, NoData)
  /\ UNCHANGED <<program, state, remaining, made, subs, readyVars, history>>

LockList ==
  /\ Scripts("lock")
  /\ Become(CB, Lock(lists[CB]), frames, NoData)
  /\ UNCHANGED <<program, state, remaining, made, subs, readyVars, history>>

(***************************************************************************)
(* jQuery.ready                                                            *)
(***************************************************************************)
ReadyList == <<"ready", "done">>

(* Variant: listens also when the document is complete.                  *)
ReadyListening(f) ==
  /\ Scripts("ready")
  /\ f = Fresh
  /\ regs' = Append(regs, [l |-> ReadyList, f |-> f])
  /\ made' = made \cup {"ready"}
  /\ page' = [page EXCEPT !.listening = TRUE]
  /\ Become(ReadyList, Add(lists[ReadyList], User(f)), frames,
            lists[ReadyList].memory)
  /\ UNCHANGED <<program, state, remaining, subs, readyWait, isReady, timers,
                 holds, log, broken>>

(* jQuery.ready.promise().done( fn )                                       *)
Ready(f) ==
  /\ Scripts("ready")
  /\ f = Fresh
  /\ regs' = Append(regs, [l |-> ReadyList, f |-> f])
  /\ made' = made \cup {"ready"}
  /\ timers' = IF "ready" \notin made /\ page.phase = "complete"
               THEN timers + 1 ELSE timers
  /\ page' = IF "ready" \notin made /\ page.phase # "complete"
             THEN [page EXCEPT !.listening = TRUE] ELSE page
  /\ Become(ReadyList, Add(lists[ReadyList], User(f)), frames,
            lists[ReadyList].memory)
  /\ UNCHANGED <<program, state, remaining, subs, readyWait, isReady, holds,
                 log, broken>>

(* jQuery.ready( wait ), when t timers are set.                            *)
ReadyCall(wait, t) ==
  LET counted == IF wait THEN readyWait - 1 ELSE readyWait
      abort == IF wait THEN counted # 0 ELSE isReady
      again == ~abort /\ ~page.body
      ready == ~abort /\ page.body
      held == IF ready /\ ~wait THEN counted - 1 ELSE counted
  IN /\ readyWait' = held
     /\ timers' = IF again THEN t + 1 ELSE t
     /\ isReady' = (isReady \/ ready)
     /\ IF ready /\ (wait \/ held <= 0)
        THEN Todo(<<Call("fire", ReadyList, NoEntry, MaxOps + 1)>>)
        ELSE UNCHANGED frames

(* holdReady( true ), and holdReady( false ) once for each of them.        *)
Hold ==
  /\ Scripts("hold")
  /\ readyWait' = readyWait + 1
  /\ holds' = holds + 1
  /\ UNCHANGED <<program, lists, frames, state, remaining, made, subs, isReady,
                 page, timers, history>>

Release ==
  /\ "hold" \in program
  /\ Idle \/ Top.k = "called"
  /\ holds > 0
  /\ holds' = holds - 1
  /\ ReadyCall(TRUE, timers)
  /\ UNCHANGED <<program, lists, state, remaining, made, subs, page, history,
                 ops>>

(* The browser parses the body, then fires DOMContentLoaded and load; an   *)
(* old one may fire DOMContentLoaded before there is a body.               *)
ParseBody ==
  /\ "ready" \in program
  /\ Idle
  /\ ~page.body
  /\ page' = [page EXCEPT !.body = TRUE]
  /\ UNCHANGED <<program, lists, frames, state, remaining, made, subs,
                 readyWait, isReady, timers, holds, history, ops>>

Completed(phase) ==
  /\ "ready" \in program
  /\ Idle
  /\ page.phase = IF phase = "complete" THEN "interactive" ELSE "loading"
  /\ phase = "complete" => page.body
  /\ page' = [page EXCEPT !.phase = phase, !.listening = FALSE]
  /\ IF page.listening
     THEN ReadyCall(FALSE, timers)
     ELSE UNCHANGED <<readyWait, timers, isReady, frames>>
  /\ UNCHANGED <<program, lists, state, remaining, made, subs, holds, history,
                 ops>>

Timer ==
  /\ Idle
  /\ timers > 0
  /\ ReadyCall(FALSE, timers - 1)
  /\ UNCHANGED <<program, lists, state, remaining, made, subs, page, holds,
                 history, ops>>

Fire(l) ==
  \/ CallUser(l) \/ CallSetState(l) \/ CallDisable(l) \/ CallForward(l)
  \/ CallUpdate(l) \/ GoOn(l) \/ LoopEnds(l) \/ CallUndefined(l)
  \/ Return(l) \/ ReturnThen(l)

Runs == (\E l \in {Top.l} \ {NoList} : Fire(l)) \/ Proceed \/ Done

Browser == ParseBody \/ (\E p \in {"interactive", "complete"} : Completed(p))

Page ==
  \/ \E l \in DOMAIN lists, f \in Fns : AddFn(l, f)
  \/ \E d \in Own, k \in KindSet : Settle(d, k)
  \/ \E d \in Own : Then(d)
  \/ \E ds \in {<<"a", "b">>, <<>>} : When(ds)
  \/ FireList
  \/ \E f \in Fns : RemoveFn(f)
  \/ EmptyList \/ DisableList \/ LockList
  \/ \E f \in Fns : Ready(f)
  \/ Hold
  \/ Throw

Next == Runs \/ Browser \/ Timer \/ Release \/ Page

Spec == Init /\ [][Next]_vars

(* The engine goes on with what runs, the browser loads the page and runs  *)
(* its timers, and what a script holds it releases.                        *)
FairSpec ==
  Spec /\ WF_vars(Runs) /\ WF_vars(Browser) /\ WF_vars(Timer)
       /\ WF_vars(Release)

(***************************************************************************)
(* Properties                                                              *)
(***************************************************************************)
TypeOK ==
  /\ \A l \in DOMAIN lists : lists[l] \in Lists
  /\ state \in [Deferreds -> {"pending", "resolved", "rejected"}]
  /\ made \subseteq Deferreds
  /\ remaining \in Int
  /\ readyWait \in Nat
  /\ isReady \in BOOLEAN
  /\ \A i \in DOMAIN frames : frames[i].k \in {"loop", "called", "back", "todo"}
  /\ broken \subseteq ListIds

Called(l) == LET mine == SelectSeq(log, LAMBDA e : e.l = l /\ e.c.k = "user")
             IN [i \in DOMAIN mine |-> mine[i].c.f]
Given(l) == LET mine == SelectSeq(regs, LAMBDA e : e.l = l)
            IN [i \in DOMAIN mine |-> mine[i].f]

DoneOrFail == {l \in ListIds : l[2] \in {"done", "fail"}}

(* The functions given to a promise with done() or fail() are called once, *)
(* in the order in which they were given, also those given by a function   *)
(* that is being called; a promise calls those of one outcome only, and    *)
(* all with the same value.                                                *)
CalledInOrder ==
  /\ \A l \in DoneOrFail : IsPrefix(Called(l), Given(l))
  /\ \A i, j \in DOMAIN log :
       /\ log[i].l \in DoneOrFail
       /\ log[j].l \in DoneOrFail
       /\ log[i].l[1] = log[j].l[1]
       => log[i].l = log[j].l /\ log[i].v = log[j].v

(* When nothing runs, a settled promise has called every function it was   *)
(* given for that outcome, before or after; only an exception thrown by    *)
(* one of them leaves functions of that list uncalled.                     *)
AllCalled ==
  Idle => \A l \in DoneOrFail \ broken :
            /\ (l[2] = "done" /\ state[l[1]] = "resolved")
                 \/ (l[2] = "fail" /\ state[l[1]] = "rejected")
            => Called(l) = Given(l)

(* A function given to progress() gets the values in the order of the      *)
(* notify() calls and none of them twice, whether it was given before, in  *)
(* or after them and whether notify() was called by such a function.       *)
NotifiedInOrder ==
  \A i, j \in DOMAIN log :
    /\ i < j
    /\ log[i].l = log[j].l
    /\ log[i].l[2] = "progress"
    /\ log[i].c = log[j].c
    => log[i].v < log[j].v

(* Whatever a function does to the list that calls it, the loop of fire()  *)
(* ends only when it has called every function that is in the list then.   *)
(* (After empty() it may not: :1116.)                                      *)
NoneSkipped ==
  /\ ~Idle
  /\ Top.k = "loop"
  /\ Top.l = CB
  /\ Top.whole
  /\ ~InLoop(lists[CB])
  /\ ~lists[CB].options.stopOnFalse
  /\ "empty" \notin program
  => Range(lists[CB].list) \subseteq Range(Top.did)

(* Functions are called as they were given, whatever they do to the lists  *)
(* they are called from (jQuery.Callbacks, jQuery.Deferred): the           *)
(* conjunction of the above.                                               *)
CallsMade ==
  TypeOK /\ CalledInOrder /\ AllCalled /\ NotifiedInOrder /\ NoneSkipped

(* when(): the master is rejected when one of the Deferreds is and         *)
(* resolved when all are; then() has the outcome of the first Deferred, or *)
(* of the promise that its function returned.                              *)
Follows ==
  Idle /\ broken = {} =>
    /\ "when" \in made =>
         state["when"] =
           IF \E d \in Range(subs["when"]) : state[d] = "rejected"
           THEN "rejected"
           ELSE IF \A d \in Range(subs["when"]) : state[d] = "resolved"
                THEN "resolved" ELSE "pending"
    /\ "then" \in made =>
         state["then"] = IF state[subs["then"][1]] = "pending" THEN "pending"
                         ELSE state[Last(subs["then"])]

(* The functions given to ready() run only with the document parsed and no *)
(* hold outstanding, however holds, releases and the two events follow on  *)
(* each other.                                                             *)
NotBeforeReady ==
  [][state'["ready"] # state["ready"] =>
       page.phase # "loading" /\ page.body /\ holds = 0]_vars

(* A function given to ready() is called, never before the page is ready,  *)
(* and in the end, unless the page is still held or another function given *)
(* to ready() has thrown (jQuery.ready, holdReady).                        *)
ReadyRuns ==
  /\ NotBeforeReady
  /\ \A f \in Fns :
       [l |-> ReadyList, f |-> f] \in Range(regs)
         ~> \/ f \in Range(Called(ReadyList))
            \/ holds > 0
            \/ ReadyList \in broken
=============================================================================
