# Network Code Module: models and proofs

The repository is a Linux kernel module (3.6.11-rt) that interprets *Network
Code*, a small language for programs that communicate in real time, with a
translator for programs of the hardware version and a web page that draws the
ways a program can take in time. This directory holds TLA+ models of the kernel
module and of the scripts behind the page, the TLC configurations that check
them, and proofs of the main properties of the kernel module, of the page's
script, and of the requests of jQuery.

    tlc -workers 2 -config MCInterpreterRestarts.cfg MCInterpreter
    tlapm InterpreterProofs.tla

`PROJECT.json` is the index: components, runs, the source lines each definition
stands for, findings, hazards, theorems, and for each checked property a
*variant* of a definition (a plausible bug, next to it in the module) under
which the property fails.

## The system

The kernel module:

| Component | State | Operations | What is hard about it |
|---|---|---|---|
| Future queue (`future_queue.c`) | circular array, `first`, `length` | push (with an in-place bubble sort), pop | wrap-around, equal expiries, a wall clock that is set |
| Variable space (`variable_space.c`) | per variable two buffers, two pointers, a lock | set, get, compare, test | RCU readers against several writers |
| Interpreter (`interpreter.c`, `guards.c`, `counter.c`) | program, pc, queue, counters, error bits | one handler per instruction, the loop, start, stop | futures that are late, stops during a sleep, restarts, jumps |
| Life cycle (`sysfs.c`, `netcode_module.c`, start and stop) | blocks of code and params, thread handles | writes to `code`, `params`, `control`; removal | check-then-act by several users, threads that end by themselves, order of tear-down |
| Network (`nc_net.c`) | channels with receive queues, message slots, sockets | create, send, receive, sync; the receiving thread | a receive in three lock sections, buffers that are replaced, channels without a device, ownership of packets, timeouts |
| Translator (`ncm_translator/`) | none | bytecode of the hardware to instructions | agreement with the interpreter |
| Scripts, `hax.h`, samples | none | load and start a program | |

The visualizer (`ncm_visualizer/`), whose scripts the browser runs in one
thread, from event to event:

| Component | State | Operations | What is hard about it |
|---|---|---|---|
| `parse.py` | list of futures | execution tree of a program | futures shared by branches |
| `visualize.js`, `bootstrap-slider.js` | percentile, scale, fields, throttle's timer, the slider's value and listeners | typing, dragging, zooming, `straighten`, `render` | values that arrive by several ways and late; positions that must add up |
| `mustache.js` | a writer's caches of templates and partials | parse, compile, render | positions noted before it is known whether they count; caches by text and name |
| jQuery: callbacks, deferreds, `ready` | lists, indices of the running loop, counts | add, remove, fire, lock, ...; then, when; hold | functions that change the list that calls them |
| jQuery: data, events, elements | cache by id, free ids, handlers, native listeners | on, off, trigger, dispatch, html, append, remove, clone | handlers that unbind and remove during their event; ids used again |
| jQuery: queues and animations | an element's queue and hooks, timers, timeouts | queue, delay, animate, stop, finish, promise | callbacks inside the loops over the timers |
| jQuery: requests | a closure per request, the count of active ones, JSONP names | ajax, abort, load; answers, timers, scripts | callbacks that abort and start requests; names used again; late scripts |

How they interact: a write to a file of sysfs runs in its user's thread. `run`
initialises the network, whose receiving thread queues messages per channel,
and makes the interpreter's thread, which executes the program: it pushes and
pops futures (only this thread uses the queue), reads variables into message
slots and sends them, and receives messages into variables. Users read and
write the same variables through sysfs at any time. `stop` and the removal of
the module stop the receiving thread, free the channels, and stop the
interpreter, in this order. Shared without a lock are: the handle of the
interpreter's thread (what `is_running` tests), the blocks of code and
params, the channel array.

The page loads the tree that `parse.py` wrote with a request of jQuery, and
draws it once the document is ready. Each change of the percentile or the scale
makes streams of the tree (`straighten`), renders them with mustache, and
replaces what `#container` holds with `html()`, which cleans the data and the
handlers (tooltips, clicks) of what was there. The slider's events reach the
page through `throttle`, its document listeners through jQuery's events.

What makes each correct:

* Future queue: it hands over pending alarms by expiry, then by order of push;
  none is lost or duplicated; a push returns.
* Variable space: a get returns a content the variable had during the call; a
  set takes effect whole; sets return.
* Interpreter: it executes instructions of its program only, none before the
  future it waited for, does not oversleep, and ends when stopped; what a guard
  established holds when the program relies on it; a start resets it.
* Life cycle: one interpreter at a time, on memory nobody frees under it; a
  stop returns and leaves no thread behind; what is started is what was loaded
  last.
* Network: a frame and a packet have one owner; a receive takes the message it
  looked for; a sync returns.
* Page: what is drawn, the fields and the slider agree; the last change is
  applied; what stands at a place begins at that time.
* Templates: the output depends on the template and the view alone.
* Callbacks and deferreds: each function is called as often and in the order it
  was given; a promise follows what it was made of.
* Elements: data and listeners exist exactly for what is on the page; an event
  calls what was bound when it began.
* Animations: the queue never stops by itself; complete is called once.
* Requests: the page is told once, in order, with its own data.

`PROJECT.json` lists, under "hazards", where each of these can go wrong.

## The modules

### FutureSet, FutureQueue, MCFutureQueue

`FutureSet` is the abstract queue: a set of pending alarms of which a pop takes
the first. `FutureQueue` is the code: `Push` writes the slot behind the window,
then `SortStep`, `SortPass`, `SortReturn` are one iteration of the inner loop,
the end of the inner and the end of the outer loop of `sort_future_queue`.
Nothing else is enabled during a sort, as only the interpreter's thread uses
the queue; only the clock may move. The expiry is `now + wait`, where `now` is
any reading in `Times`, since `do_gettimeofday` follows a clock users can set.
The history field `ticket` numbers the pushes; the code never looks at it, and
the field `wait_time`, which is written and not read, is left out. Expiries are
naturals: u64 microseconds do not wrap.

### VariableSpace, MCVariableSpace

One variable, `Readers` in `get_variable_data` and `Writers` in
`set_variable_data`. A step is one access to memory that another thread may
write: each of the three dereferences of `read_buf` (`ptr`), the lengths read
through them (`len`), each byte of each `memcpy`. C does not order the
arguments of `memcpy`, and neither does the model. The swap of the pointers and
the unlock are one step: only the lock's holder uses `write_buf`, and readers
see one pointer change. `synchronize_rcu` is modelled by its contract: `grace`
is the set of readers whose sections were under way. Histories: `last`, what
was published last; `seen`, the contents during a call; `quiet`, nothing was
published during the call; `alone`, no writer took the lock during the call
while another was in its grace period; `fits`, nothing longer than a buffer has
been set. Nothing in the code makes that so: `ncm_sysfs_var_store` hands over
what a user writes, up to a page (`Limit`), and the `memcpy` is not bounded.
`SetOverrun` and `SetLose` are that copy beyond the buffer, through the
structure as `variable_space.h` lays it out: the buffer's length, the other
buffer, and then the pointers, after which (`Lost`) nothing is defined any more
and the threads stop. `GetBeyond` is the copy of a reader that believes such a
length. The properties are about the time before (`fits`), and `FrontAlways`,
the same as `FrontIsLast` without that premise, is refuted.

### Session, Control, MCControl

`Session` is the promise of the control files: a program is loaded while none
runs, what runs is what was loaded last, one at a time. `Control` is the code:
each write to `code`, `params` or `control` goes through its handler step by
step (`op`), with the test of `is_running` and what follows apart. Blocks of
memory are numbered by their load, channel arrays and threads by their start,
so that a stale pointer is a number in `freed` or `released`. The threads
are reduced to where they are with respect to shared memory: `interp` (created,
between instructions, in an instruction, in the network, asleep) and `recv`.
`Schedule` is `sched_setscheduler(interpreter->thread)`: the handle may not have
been assigned yet. `kthread_stop` is a flag, a wake-up and a wait. `Remove` is
`cleanup_module`: the removal of the files waits for the writes under way.
What fails is an action next to what works (`LoadCodeFails`, `LoadParamsFails`,
`InitNetworkFails`, `FreeNetworkFails`, `ReceivingFails`; `Spawn` and
`InitNetwork` may store an error for a handle, place `"failed"`), in the groups
with `fails`: it is not tied to one cause, so that a start whose socket failed
may still be stopped without harm, as memory that happens to be good allows. A
step that uses what it should not ends its process, place `"oops"`. That is
also what a stop may come to that finds the thread returned by itself
(`StopReceivingGone`, `StopThreadGone`): nobody holds its task, which may be
freed memory or not, so that the stop dies or goes on. The
initial state is that of the default build, whose `-DVM` starts nothing.
`Groups` are the instances, each with its users, bounds, futures and failures.
`Alone` is what one user's instance is. All properties but `Settled` and the
types have it as a premise: two users can start two interpreters and leave one
behind, as `MCControlTwoUsers.cfg` shows.

### Interpreter, MCInterpreter

One action per handler of `interpreter.c`, with `INSTR_OK`, `INSTR_ERROR` and
`INSTR_CHANGE_PC` for what the loop does with its result. `status` is where
the thread is: `check` is the head of the loop, `wild` that it is about to
fetch from beyond its program. The future queue is a sequence sorted by expiry,
which `FutureQueue` shows the array to be. Guards about variables have any
value, as users write variables at any time. The network is a filled or empty
slot per message and a number of messages per channel. `SleepOf` is the
unsigned `range` of `handle_halt`: a future in the past gives a sleep of
centuries. Time passes at any point (`Tick`), and the wall clock that `now_us`
reads is set at any point, forward or back (`SetClock`); a sleep counts what
passes (`timer`), not the clock. A restart (`Start`) keeps what
`start_interpreter` keeps. Programs are arbitrary. Three histories say when the
properties claim something: `fits`, the program is closed (`Closed`) and the
futures pending at its start point into it; `steady`, the clock was not set
since a HALT read it; `missed`, the clock went past a pending future otherwise
than in a sleep that is on time, that is during execution, after a sleep that
lasted longer than asked, or by being set. Without these premises the code
gives no such guarantee: see By hand.

### Network, MCNetwork

`nc_net.c` below the life of its threads. The receiving thread takes a frame
into its buffer (`ReceiveFrame`) and compares it channel by channel (`Match`),
going on with another buffer, as kmalloc left it, once it has queued one (in a
build for two channels, other than the default, that may be an old message). A
RECEIVE is one action per lock section (`ReceiveTest`, `ReceiveFirst`,
`ReceiveDelete`) and one for the copy in between. Packets are numbers that are
in a slot, with a driver or lost; a driver may be busy; a channel without a
device has an unset `dev`, whose use is an error or undefined (`SendWild`). A
SYNC waits on a socket that every frame reaches: `left` and `wait` are the
microseconds until `start + timeout` and until the receive returns.

### Slider, Page, MCPage

`Slider` is `bootstrap-slider.js` with one handle: presses, moves and releases
of the mouse, with the listeners a press binds to the document (`handlers`
counts them, because a release outside of the window leaves them bound), and
`setValue`. `Page` extends it with `visualize.js`: typing and the release of a
key are two actions, each slide passes `Throttle`, whose timer is an action.
Numbers are multiples of half a step, so that values between two steps occur.
Two history variables tell a newer value from an older one: `unapplied`, the
newest slide is still held back, and `late`, what was handled last is older.

### CallbackList, Deferred, MCDeferred

`CallbackList` has the methods of `jQuery.Callbacks` as operators from the
closure of a list to the closure. `Deferred` is a machine that runs them: a
stack of the activations under way (a loop of `fire`, a function of the page, a
method of jQuery that has more to do), in which the function on top may call any
operation again or throw. A Deferred is three lists and a state; `then`, `when`
and `ready` are built of them as in the code.

### Dom, MCDom

A document, a box and the items in it. `id`, `cache`, `deletedIds` and `guid`
are jQuery's; `listening` and `capture` are what the browser was told. `events`
is the stack of events under way, each with its path and the handlers `dispatch`
collected for the present element; a handler may bind, unbind, trigger, copy,
remove and replace. History variables say what is bound, which nodes the page
kept, and which handlers ran. What jQuery keeps is one record, `Now`, and its
methods (`EventAdd`, `EventRemove`, `CleanData`, `DropEntry`) are operators from
such a record to the next, which the actions compose as the code does. The
code's loops over the types that have handlers are written out for the four
types there are. A delegated handler's selector matches the items below the
element it is bound to (`Found`: Sizzle's outermost matcher asks that the
element is below the context).

### Fx, MCFx

One element's queue, its hooks (numbered, since closures hold old ones), its
animations and `jQuery.timers`. What a call has left to do is on `stack`, entry
by entry of the loops in `tick`, `stop` and `finish`, so that a complete
callback ("user") runs where the code calls it and may call the methods again.
Any method may be called there and in scripts. `mixed` is the history of the
calls that came at a time at which the code does not provide for them:

* `emptied`: `clearQueue` under an animation of the queue, or `clearQueue`,
  `finish` or `stop(true)` during a delay;
* `cleared`: `stop(true)` under an animation of the queue;
* `restarted`: a stop with something queued, or an animation or a delay with
  nothing in progress, in a complete callback whose own dequeue is to come or
  which stop(true) called before it came to the animation that runs;
* `cut`: a stop to the end during a delay with an animation outside the queue;
* `finished`: `finish` in a complete callback;
* `jumped`: an animation of nothing, which does not wait for its turn;
* `nested`: a stop or `finish` inside the loop of another one over the timers.

Each property names those it excepts (`Without`); none holds without (By hand).

### Mustache, Streams, Visualizer, MCVisualizer

`Mustache` has `parse`, `nestTokens`, `renderTokens` and the writer as recursive
operators and a machine that calls one writer again and again. `Streams` is
`parse.py`'s tree and `straighten`. `Visualizer` composes them: a program is
drawn for one percentile after the other through the page's template, and what
is shown is compared with the streams. A template whose delimiters are not two
is refused (`Proper`), where it begins and where it sets them. The cache has a
history beside each template's tokens, the delimiters it was compiled for: the
code does not look at them when it finds the template again. `Shown` says that
a pause ends at the same time for every percentile, which is what `straighten`
contracts pauses for; it does not say that this is when its future is due,
which is false (`PausesOnTime`).

### Ajax, MCAjax

A closure per call of `jQuery.ajax`, and a stack of the points at which the
page's functions run inside `ajax` and `done`, at each of which the page may
abort, start another request or throw. The transports are the browser's
XMLHttpRequest, asynchronous or not, and script elements, with the JSONP names
and the functions bound to them; the script of an aborted request still runs.
Conversions go through pairs of converters, as `dataTypes` asks. The external
part is an answer: its status, its type, and whether it converts.

## The runs

| Run | Bounds | Question and answer |
|---|---|---|
| FutureQueue | 3 slots, 5 pushes, waits 0, 1, 3, clock 0 or 2 | Does the array implement the set of alarms, is the window in order, does each push return? Yes. |
| VariableSpace | 2 writers, 1 reader, buffers of 2 bytes, contents of 1, 2 and 4 bytes | Until a content is set that fits no buffer: is the front buffer whole, do quiet gets return it, does the grace period protect a reader that stays with one buffer (unless writers overlap), do sets return? Yes. |
| Control | 1 user with 3 loads and 3 starts, or 2 and 2 with late futures and failures; 2 users with 2 and 2, or 2 and 1 with late futures and failures | For one user: does the life cycle implement a session, with one interpreter, memory held and no thread left behind? Does every stop return, unless a sleep is endless, the kernel refused something, or the interpreter had ended by itself? For two users: is what a later start takes, between writes, never a freed block? Yes. (For two users the first questions have the answer no, see By hand.) |
| InterpreterRestarts | the two sample programs (`hax.h`, `samples/`), 4 programs of 10 or 11 instructions with all instructions and guards, one too short for their futures and one that leaves its block; 2 futures, 2 starts, clock to 2 | Is nothing executed early, unless the clock is set during the sleep? Does a program stay in its block that is closed and contains what the pending futures jump to? Yes. |
| InterpreterTimed | closed programs of 3 instructions of 10 that halt, and not at once, 2 futures, clock to 2, fair | Is a sleep endless only after a future was missed by execution, a long sleep or a set clock? Does every stop end but in such a sleep? Is a channel tested not empty received from? Yes. |
| Network | 2 channels in a build for 1, one without a device, 3 frames from 2 addresses, 3 packets, 2 slots, sockets that hold 2 | Has each frame and packet one owner, is a RECEIVE's message the newest it found, does a SYNC return? Yes. |
| Page | a slider of three steps, numbers on, between and beside them, one that is none, three scales, a threshold of two ticks, two lost releases | Do drawing, fields and slider agree, and is the last slide applied? Yes. |
| Deferred | 6 parts of the interface, 3 functions, 4 calls | Are all functions called as they were given, do promises follow, do ready functions run? Yes. |
| Dom | 2 items, 3 sets of calls and bindings, 4 calls | Is data kept for what is kept, are listeners attached where handlers are, do events call what was bound? Yes. |
| Fx | any 3 calls, any 4 (but in scripts no animation of nothing), 5 of three that nest; durations 0 and 2 ticks | But for the calls each property names: is what runs ticked, does the queue go on one by one, is complete called once, are promises kept? Yes. |
| Visualizer | all templates of up to 4 of 12 pieces; 3 calls with 4 templates, 3 views, 6 sets of partials and 3 delimiters; all programs of up to 3 of 9 instructions and 3 longer ones, 5 percentiles | Is a template parsed by its grammar or refused? Does a writer render as a new one, given all partials and nothing compiled for other delimiters? Is a program redrawn whole and in place, and does a pause end at the same time for every percentile? Yes. |
| Ajax | 4 pages, each with 1 to 3 settings and 2 or 3 requests, 3 answers | Is each request told once, in order, with its own data, are the counts right, does a request with a timeout complete? Yes. |

Why the bounds suffice. Three slots with five pushes fill the array, wrap the
window and refill it, with both orders of expiry and ties. Two writers and a
reader are the smallest sets in which a buffer is retired, reused and still
read, and in which writers compete for the lock; readers do not see each other.
Two bytes and contents of lengths 1 and 2 show torn data and torn lengths; four
reach over the length into the other buffer, or to the pointers.
Three loads and starts let a stale pointer outlive two replacements. Programs
of three instructions over two futures fill the queue and loop through it;
those of eleven reach the refusals, at the length in bytes, and leave futures
behind. A clock of three values has a past, a present and a future for a sleep
to be set back to and missed by. Three frames let one be queued before, one
during and one after a RECEIVE; sockets of two overflow. A function that calls back needs a call to
bind it, one to run it, and one or two inside: four calls reach each pair of
operations at each point, and the third request of a page uses the name of the
first while the second holds another. Each bound is a constant of its module
(`MaxPushes`, `MaxLoads`, `MaxStarts`, `MaxTime`, `MaxQueued`,
`MaxFrames`, `MaxPackets`, `MaxHandlers`, `MaxOps`, `MaxRequests`); the theorems
hold for all of them.

Parts of an interface that do not touch each other are checked in instances of
their own (`Programs`, `Pages`, `Groups`), chosen in the initial state of one
run, so that they do not multiply.

`CHECK_DEADLOCK FALSE` stands where the system may stop for good: a module that
was removed, a program that ended, a clock or a count of calls at its bound, a
page whose scripts are done. FutureQueue and VariableSpace are checked for
deadlock; Network and Page never stop but for their bounds.

### By hand

These configurations check what the code, a comment or a reader might be thought
to promise and TLC refutes; "findings" in `PROJECT.json` tells what each shows.

| Configuration | Module | Refuted |
|---|---|---|
| MCVariableSpaceTorn.cfg | MCVariableSpace | GetsStored |
| MCNetworkTwice.cfg | MCNetwork | FramesOnce |
| MCControlNetworkFreed.cfg | MCControl | ChannelsHeld |
| MCControlExitedRunning.cfg | MCControl | RunningIsLive |
| MCControlTwoUsers.cfg | MCControl | CodeHeld |
| MCInterpreterLate.cfg | MCInterpreter | NeverForAges |
| MCInterpreterNotReset.cfg | MCInterpreter | StartResets |
| MCAjaxNamed.cfg | MCAjax | OwnAnswerAlways |
| MCAjaxLoad.cfg | MCAjax | LatestShown |
| MCAjaxCached.cfg | MCAjax | NotModifiedSeen |

Further ones are refuted in the configuration of their module when they are put
in the place of its properties: `InOrder` (Network), `AgreeAlways` (Page),
`NotHeardInVain` and `OneIsOnce` (Dom), `CountedAlways` (Ajax), `FrontAlways`
(VariableSpace), `AlwaysInside` (InterpreterRestarts), `TicksAlways`,
`QueueRunsAlways`, `CompleteOnceAlways`, and as a PROPERTY `PromiseWaitsAlways`
and `CompleteFirst` (Fx), `RenderedAlways`, `RenderedWithTags` and `PausesOnTime` (Visualizer);
`OneInterpreter` in `MCControlTwoUsers.cfg` and `StopsCleanly` in
`MCControlExitedRunning.cfg`. Each of them is a checked property without its
premise, or what a reader of the code might take for granted.

### Fairness

* FutureQueue: weak fairness of the sort. The thread that pushes runs on; no
  call is assumed to be made.
* VariableSpace: weak fairness of each thread inside a call, and strong
  fairness of taking the lock: a lock that is freed goes to a thread that
  waits, and each set ends with a grace period without the lock. No one is
  assumed to call.
* Control: weak fairness of each handler under way and of both threads. Users
  need not write; the receiving thread's `kernel_recvmsg` has a timeout, an
  instruction ends, and a sleep ends unless it is the wrapped one.
* Interpreter: weak fairness of the interpreter, of the return of a stop, and of
  time. A clock at its bound is set back by one while time passes, so that
  sleeps and timeouts still end. Nothing is assumed to arrive.
* Network: weak fairness of the receiving thread, of an instruction under way
  and of time. Nothing is assumed to arrive.
* Page: time passes and a timer that is due fires. Nobody is assumed to type or
  to move the mouse.
* Deferred, Fx, Ajax: weak fairness of the engine (what runs goes on: functions
  of the page return), of the browser's timers and, in Deferred, of the events
  of loading and of the release of a hold. Nothing is assumed of the page's next
  calls nor, in Ajax, of servers: the timeout alone ends a request.

## What is proved

For every value of the constants, from the named assumptions of the module
(`QueueAssumption`, `VariableAssumption`, `InterpreterAssumption`,
`ControlAssumption`, `NetworkAssumption`, `SliderAssumption`, `PageAssumption`,
`AjaxAssumption`, `DomAssumption`) and, where a theorem is stated with a premise, from the one
named here:

* `FutureQueueProofs`: `TypeCorrect`, `AlwaysInOrder`. Sortedness between
  calls is not inductive: within a sort the window is not sorted. The invariant
  describes the sort: behind the i alarms already in place at the end the
  window is sorted and holds the largest, the j-th alarm is the largest of
  those before it, and before the sort all but the pushed alarm were in order.
  Stability comes from `Precedes`, which includes the ticket. Slots are compared
  through the injectivity of `Slot` on a window. `Implements`, in the same
  module: each step is a step of `FutureSet` under `pending <- Queued`, or a
  stutter: an exchange permutes the window, a push adds one element, a pop
  removes the least.
* `VariableSpaceProofs`: `TypeCorrect`, `FrontAlwaysLast`, `QuietGetExact`,
  `OneBufferGetExact`. The invariant has parts for the lock
  (who is in the copying places holds it), the back buffer (its copied bytes are
  the argument's, and it is not the front), the front buffer (it stores
  `last`, both while `fits`), and each reader
  (what it copied while nothing is published is `last`'s; what it copied while
  writers do not overlap agrees with a content that is still in its buffer). The last part rests on `GraceInv`: while such a
  reader is in the back buffer, a writer is in the grace period that covers the
  reader, and none is inside the lock.
* `InterpreterProofs`: `TypeCorrect`, `NeverEarly`, `StaysInside`,
  `StaysNonempty`, `NeverOverslept`. `TypeOK` says too little about where the thread is:
  `Fetching` adds that what runs is an instruction of the program, and `Waited`
  that a thread about to execute has waited for its future, is being stopped, or
  runs on a clock that was set (`steady`). `StaysInside` is about starts that
  fit (`fits`: a closed program, whose jumps stay inside or are refused and whose
  last instruction does not go on, over pending futures that point into it). It
  is preserved by `Within`, that every pending jump lies inside. That a push
  inserts one future and keeps the others (`PushedAdds`) is a lemma about
  `InsertAt`. `NeverOverslept` is preserved by `InTime`: the queue is sorted by
  expiry, what is slept for comes before all that is in it (`First`), and while
  nothing was missed no future is overdue, so that time in a sleep that is on
  time overtakes none. `MCInterpreterLate.cfg` shows the endless sleep after a
  miss.
* `ControlProofs`: `StartedOnce`, `HeldWhileUsed`, `NothingLeft`,
  `NeverFreed`, and `Implements`, that Control implements Session; all but
  `NeverFreed` and the types for one user, since with two they are false (see
  Findings). They hold whether or not the kernel gives memory, sockets and
  threads, and whatever becomes of a write that dies. The properties speak of
  the moments between writes, and are not inductive: within one, handles and
  threads disagree. The invariant therefore follows the one busy process through its handler: `Known` says for each place
  which threads there can be and by which handle they are known, `Handles` what
  the global handles hold there, `Fetched` that the program a thread runs, or is
  about to, is the one loaded last, in a block that is not freed. `Turns` adds
  that a removal and a write exclude each other, `Replaced` that a freed block
  is named only inside the write that replaces it.
* `NetworkProofs`: `GivenToDriverOnce`, that a packet a driver was given is in
  no slot and is given to no driver again, for any number of channels.
  `EveryFrameOnce` and `NewestDelivered` have the premise `MAX_CHANNELS = 1`,
  which is what `nc_net.h` defines; with two, `MCNetworkTwice.cfg` refutes the
  first. That a frame is in one place says nothing of the buffer that the
  receiving thread reads next: the invariant adds that numbers grow from the
  queues over the buffer in hand to the socket (`Socket`, `NewestInHand`,
  `Queues`), so that what is queued is new to the queue, and is its first.
  `Held` says what the interpreter's thread knows between the lock sections of a
  RECEIVE: the message it copies is still queued, behind what came since, so
  that the deletion takes the message that was delivered.
* `PageProofs`: `AlwaysAgrees`. That the slider stands where the percentile is
  once the newest slide is handled follows from where it stood when that slide
  was held back, and that is what `Newest` adds. It rests on lemmas about
  rounding, for any step: `Handle`, that the mouse puts the handle on a place
  that rounding keeps, and `RoundOnTrack`, that a release, which rounds the
  percentage again, leaves the value between the ends.
* `AjaxProofs`: `AlwaysKept`, that what `jQuery.ajax` keeps (`RequestsKept`:
  types, counts, what is told, whose data) it keeps whatever a page's functions
  do where they are called. None of its parts is inductive: each speaks of
  whole requests, and the page acts in the middle of several. The invariant
  says where each request is. `Held` and `Free` are about names: a pending
  request holds its name, a bound name is bound to the request that holds it,
  and what is kept for later use is bound to nothing and kept once, so that a
  late script finds its own request or no function. `Unsent` adds that a request
  not sent yet is not answered, `Own` that data is a request's own. `Kept`
  follows the stack: a request is in one activation of `ajax` and in one of
  `done` at most (`Single`), each point of `done` has told what comes before it
  and no more (`Where`), and a request in none is on its way and nothing has
  been told of it, or all has (`Known`). `Covered` is about the entries below
  the top: ajax() is left for another call inside `beforeSend` only where there
  is such a function. `Counts` is `Counted` with the count in terms of the
  stack, as it is lowered when `done` is left; it is about runs without an
  exception or an abort before the sending, as `Counted` is. One lemma,
  `AnswerKeeps`, is about `done` and serves all its callers (answers, timeouts,
  scripts, aborts, refusals of a transport).
* `DomProofs`: `DataIsHeld`, `HandlersAreHeard` and, with the premise
  `OffsNamed`, `EventsCallRight`, for any finite set of items, bindings, calls
  and depth of nested events. The invariant of the first two is `Holds`. `Store`
  is about jQuery's record alone and is kept by each of its operators, one after
  the other: `Ids` (an id is one element's and has an entry; a deleted id is
  below `guid`, is in `deletedIds` once and is nobody's, so that what is taken
  from there is new), `Lists` (a list under a type holds bindings of that node
  and type, once each, delegated ones first) and `Listens` (the native
  listeners, and the counter of `focusinBubbles`, which is raised when the first
  handler of focusin comes to an element and lowered when `off` takes the last
  one; `cleanData`, which asks for handlers bound as focusin, leaves it raised
  for delegated ones of focus: it is at least the number of elements that have
  handlers under focusin). `Tree` is what the proofs need of the document:
  parents have ranks, so that the climb from a node to the root ends and visits
  each node once; `append`, `html` and `remove` change which ranks there are,
  and `Ranked` is shown again for each. `EventsCallRight` adds `OffHeld` (a handler that
  was taken off is in no list), `EventsHold` (the queue of an event under way
  names handlers of its type that are bound to the node it is at, each once per
  element, none that was off before it started, and its path has no node twice)
  and `LogHolds` (what was called for an event under way lies behind it on its
  path, or is in its queue no more). Without `OffsNamed`, which says that focus
  is taken off with a selector if at all, `CalledRight` is false: `off("focus")`
  looks under "focus", where delegated handlers of focus, which are kept under
  "focusin", are not found (`jquery-1.9.1.js:2857`), and they are called later.
  TLC shows it in seven states when the second program of MCDom may bind
  `FocusBelow` and `MCOffs` has `Without("focus", "any", "any", FALSE)`.

Checked by TLC only: liveness (`PushReturns`, `SetReturns`, `StopReturns`,
`StopEnds`, `SyncReturns`, `SlideApplied`, `ReadyRuns`, `PromiseKept`,
`RequestsEnd`), which TLAPS cannot prove under fairness; and the safety
properties of Deferred, Fx, Mustache and Visualizer. What a recursive
definition computes for every input is beyond the prover (its induction theorems
take an operator as a parameter), and it has no backend in a module that
declares one: Mustache, Streams and Visualizer stay with TLC. Deferred and Fx
declare none; their proofs are not written (see the plan).

## Findings

"findings" in `PROJECT.json` lists them with the lines they quote. In short:

* Kernel module: a set copies more than its buffer holds; a get can be torn
  through its three dereferences; channels are freed before their user is stopped; a program that ended is reported running,
  and its thread's task is used when it is stopped; two users can free the
  running program and start two; nothing that may fail is looked at; a late HALT
  sleeps for ages; a start does not reset the interpreter; a program can leave
  its block; messages of a channel are delivered last
  first; the loops over `MAX_CHANNELS`, channels without a device, busy drivers
  and a second CREATE.
* Page: throttle applies an older slide over a newer value; `hack` has no
  effect; `parse.py` waits for the longest future, and pauses do not end when
  their futures are due.
* jQuery and mustache: re-entrance that the code does not provide for (`empty`
  and exceptions during `fire`; `one` in nested events; `stop` and `finish` in a
  complete callback; `abort` in `ajaxSend`), counters and names that are then
  left wrong, answers that overtake each other, and partials and delimiters of
  an earlier render.

Four more show in the premises that properties need, and as counterexamples
when a premise is dropped:

* `OneBufferGet` without `alone[r]`: the lock is freed before the grace period
  (`variable_space.c:69`), so a second writer needs only the lock to write into
  the buffer the first one retired while a reader is in it.
* `StopReturns` without `~group.late`: an endless sleep (`interpreter.c:76`)
  that begins after the stop's wake-up keeps the stop waiting.
* `CalledRight` without `OffsNamed`: delegated handlers of focus outlive an
  `off("focus")` that names no selector (`jquery-1.9.1.js:2857`).
* `OnTime` without `steady`: a sleep that began with the right length ends
  early for a clock that is set back meanwhile (`netcode_helper.c:16`,
  `interpreter.c:76`).

## What is not modelled, and the plan

Not modelled: selectors (Sizzle), styles, attributes, positions and the parsing
of HTML in jQuery, and its work-arounds for browsers, which keep next to no
state; Bootstrap, jstat and draggable, which are minified; the legend and the
dialog of `visualize.js`; touch and ranges of the slider; `skb_print` and all
other printing, the build and load scripts, `mkparams.py` (formatting). Nothing
of the kernel or the browser is modelled beyond the contracts named in the
modules' headers.

What is left, in order:

1. `VarCompare`: `cmp_variables` and `test_variable` as functions against a
   reference (numbers, parity), and against a concurrent writer.
2. `Translator`: each bytecode's instruction against the test's expectation and
   against what Interpreter does with it.
3. A composition of Control's threads with Interpreter, so that late futures
   come from programs instead of a constant; the builds that start a preloaded
   program; the varspace files.
4. Proofs, in this order: Deferred's `CallsMade` and `Follows`; Fx's
   `CompleteOnce` and `QueueRuns`. As in AjaxProofs, each needs an invariant of
   the stack of what is under way.
