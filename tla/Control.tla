------------------------------- MODULE Control -------------------------------
(***************************************************************************)
(* The life cycle of the interpreter: users write programs, parameters and *)
(* commands to the files of sysfs (sysfs.c); a command starts or stops the *)
(* thread that interprets the program and the thread that receives from    *)
(* the network (interpreter.c, nc_net.c); removing the module stops them   *)
(* too (netcode_module.c).                                                 *)
(*                                                                         *)
(* Each write is handled by the thread of its user, step by step, with the *)
(* test of is_running() and what follows from it as separate steps.  Of    *)
(* the interpreter only what touches shared resources is kept: it fetches  *)
(* an instruction from the program, uses the network, sleeps, or returns.  *)
(*                                                                         *)
(* A step that uses a pointer it should not ends its process: "oops".      *)
(*                                                                         *)
(* External: kthread_run makes a thread and returns its handle, or an      *)
(* error that is no handle; kthread_stop takes hold of the thread's task,  *)
(* sets the flag kthread_should_stop() reads, wakes the thread and waits   *)
(* until it has returned.  Of a thread that has returned already the task  *)
(* may be freed memory: nobody else keeps hold of it, so the call returns  *)
(* or ends its caller.  kmalloc and sock_create may fail.                  *)
(***************************************************************************)
EXTENDS Naturals

CONSTANTS
  Users,        \* processes that write to the control files
  Groups,       \* the users there may be, the bounds for them, whether their
                \* programs can halt for a future already due, and whether
                \* the kernel may run out of memory, sockets or threads
  Rmmod,        \* the process that removes the module
  MaxLoads,     \* bound: programs loaded, by any group
  MaxStarts     \* bound: starts of the interpreter, by any group

ASSUME ControlAssumption ==
  /\ Rmmod \notin Users
  /\ MaxLoads \in Nat /\ MaxStarts \in Nat
  /\ Groups \subseteq [users : SUBSET Users, loads : 0 .. MaxLoads,
                       starts : 0 .. MaxStarts, late : BOOLEAN, fails : BOOLEAN]

NULL == 0
Loads == 1 .. MaxLoads
Starts == 1 .. MaxStarts
Processes == Users \cup {Rmmod}

VARIABLES
  group,        \* the users there are
  present,      \* whether the files of sysfs exist
  instructions, \* program.instructions: the block of the load so numbered
  loads,        \* programs loaded so far
  freed,        \* the blocks given to kfree
  params,       \* the pointers of interp_params
  program,      \* interpreter->program
  at,           \* network.at: the channels of the start so numbered
  released,     \* the channel arrays given to kfree
  thread,       \* interpreter->thread: the thread of the start so numbered
  receiving_thread, \* network.receiving_thread, likewise
  starts,       \* starts so far
  op,           \* of each process, its place in the handler of its write
  handle,       \* of each process, the thread it has made or stops
  interp, interp_stop,  \* of each interpreter thread, its place; those told
                        \* to stop
  recv, recv_stop       \* of each receiving thread, likewise

files == <<group, present, instructions, loads, freed, params>>
shared == <<program, at, released, thread, receiving_thread, starts>>
process == <<op, handle>>
threads == <<interp, interp_stop, recv, recv_stop>>

vars == <<files, shared, process, threads>>

(* The interpreter is static and zeroed; init_interpreter; the default     *)
(* build starts nothing.                                                   *)
Init ==
  /\ group \in Groups
  /\ present = TRUE
  /\ instructions = NULL /\ loads = 0 /\ freed = {}
  /\ params = "null"
  /\ program = NULL /\ at = NULL /\ released = {}
  /\ thread = NULL /\ receiving_thread = NULL /\ starts = 0
  /\ op = [u \in Processes |-> "idle"]
  /\ handle = [u \in Processes |-> NULL]
  /\ interp = [s \in Starts |-> "absent"] /\ interp_stop = {}
  /\ recv = [s \in Starts |-> "absent"] /\ recv_stop = {}

is_running == thread # NULL

(* Process u goes from one place of its handler to another.                *)
Goto(u, from, to) == op[u] = from /\ op' = [op EXCEPT ![u] = to]

(* Variant: returns when there is no memory, with the old block's address. *)
LoadCodeStale(u) ==
  /\ Goto(u, "load code", "idle")
  /\ \/ loads < group.loads /\ loads' = loads + 1 /\ instructions' = loads + 1
     \/ UNCHANGED <<loads, instructions>>
  /\ UNCHANGED <<group, present, freed, params, shared, handle, threads>>

-----------------------------------------------------------------------------
(* ncm_sysfs_store on "code": refused while running; otherwise the old     *)
(* block is freed and the new one takes its place.                         *)
StoreCode(u) ==
  /\ present /\ ~is_running /\ loads < group.loads
  /\ Goto(u, "idle", "free code")
  /\ UNCHANGED <<files, shared, handle, threads>>

FreeCode(u) ==
  /\ Goto(u, "free code", "load code")
  /\ freed' = freed \cup ({instructions} \ {NULL})
  /\ UNCHANGED <<group, present, instructions, loads, params, shared, handle, threads>>

LoadCode(u) ==
  /\ Goto(u, "load code", "idle")
  /\ loads < group.loads
  /\ loads' = loads + 1
  /\ instructions' = loads + 1
  /\ UNCHANGED <<group, present, freed, params, shared, handle, threads>>

(* Without memory the code is copied to NULL.                              *)
LoadCodeFails(u) ==
  /\ group.fails
  /\ Goto(u, "load code", "oops")
  /\ instructions' = NULL
  /\ UNCHANGED <<group, present, loads, freed, params, shared, handle, threads>>

(* ncm_sysfs_store on "params", with a well-formed file.                   *)
StoreParams(u) ==
  /\ present /\ ~is_running
  /\ Goto(u, "idle", "free params")
  /\ UNCHANGED <<files, shared, handle, threads>>

FreeParams(u) ==
  /\ Goto(u, "free params", "load params")
  /\ params' = IF params = "null" THEN "null" ELSE "freed"
  /\ UNCHANGED <<group, present, instructions, loads, freed, shared, handle, threads>>

LoadParams(u) ==
  /\ Goto(u, "load params", "idle")
  /\ params' = "held"
  /\ UNCHANGED <<group, present, instructions, loads, freed, shared, handle, threads>>

LoadParamsFails(u) ==
  /\ group.fails
  /\ Goto(u, "load params", "oops")
  /\ params' = "null"
  /\ UNCHANGED <<group, present, instructions, loads, freed, shared, handle, threads>>

(* Variant: starts whether it runs or not.                                 *)
StoreRunAlways(u) ==
  /\ present
  /\ Goto(u, "idle", "run")
  /\ UNCHANGED <<files, shared, handle, threads>>

(* ncm_sysfs_store, "run" on "control".                                    *)
StoreRun(u) ==
  /\ present /\ ~is_running
  /\ Goto(u, "idle", "run")
  /\ UNCHANGED <<files, shared, handle, threads>>

RunRefused(u) ==
  /\ instructions = NULL \/ params = "null"
  /\ Goto(u, "run", "idle")
  /\ UNCHANGED <<files, shared, handle, threads>>

RunAccepted(u) ==
  /\ instructions # NULL /\ params # "null" /\ starts < group.starts
  /\ Goto(u, "run", "init network")
  /\ program' = instructions
  /\ UNCHANGED <<files, at, released, thread, receiving_thread, starts, handle,
                 threads>>

(* start_interpreter: init_network allocates the channels and starts the   *)
(* receiving thread, whose handle may be an error,                         *)
InitNetwork(u) ==
  /\ Goto(u, "init network", "spawn")
  /\ starts < group.starts
  /\ LET s == starts + 1
     IN  /\ starts' = s
         /\ at' = s
         /\ receiving_thread' = s
         /\ \E made \in {"check"} \cup (IF group.fails THEN {"failed"} ELSE {}) :
              recv' = [recv EXCEPT ![s] = made]
         /\ handle' = [handle EXCEPT ![u] = s]
  /\ UNCHANGED <<files, program, released, thread, interp, interp_stop, recv_stop>>

(* (or initialises a lock at NULL, for want of memory)                     *)
InitNetworkFails(u) ==
  /\ group.fails
  /\ Goto(u, "init network", "oops")
  /\ at' = NULL
  /\ UNCHANGED <<files, program, released, thread, receiving_thread, starts, handle,
                 threads>>

(* kthread_run makes the thread, which may run at once, or an error,       *)
Spawn(u) ==
  /\ Goto(u, "spawn", "assign")
  /\ \E made \in {"created"} \cup (IF group.fails THEN {"failed"} ELSE {}) :
       interp' = [interp EXCEPT ![handle[u]] = made]
  /\ UNCHANGED <<files, shared, handle, interp_stop, recv, recv_stop>>

(* and only then its handle, or the error, is stored.                      *)
Assign(u) ==
  /\ Goto(u, "assign", "idle")
  /\ thread' = handle[u]
  /\ handle' = [handle EXCEPT ![u] = NULL]
  /\ UNCHANGED <<files, program, at, released, receiving_thread, starts, threads>>

(* ncm_sysfs_store, "stop" on "control".                                   *)
StoreStop(u) ==
  /\ present /\ is_running
  /\ Goto(u, "idle", "stop receiving")
  /\ UNCHANGED <<files, shared, handle, threads>>

(* stop_interpreter: destroy_network tells the receiving thread to stop,   *)
StopReceiving(u) ==
  /\ Goto(u, "stop receiving", "await receiving")
  /\ recv[receiving_thread] # "failed"
  /\ handle' = [handle EXCEPT ![u] = receiving_thread]
  /\ recv_stop' = recv_stop \cup {receiving_thread}
  /\ UNCHANGED <<files, shared, interp, interp_stop, recv>>

(* (or touches the task of one that was never made or has returned)        *)
StopReceivingGone(u) ==
  /\ Goto(u, "stop receiving", "oops")
  /\ recv[receiving_thread] \in {"failed", "exited"}
  /\ UNCHANGED <<files, shared, handle, threads>>

(* Variant: frees the channels without waiting.                            *)
FreeNetworkEarly(u) ==
  /\ at # NULL
  /\ Goto(u, "await receiving", "stop thread")
  /\ released' = released \cup {at}
  /\ UNCHANGED <<files, program, at, thread, receiving_thread, starts, handle,
                 threads>>

(* waits for it, releases the sockets and frees the channels;              *)
FreeNetwork(u) ==
  /\ at # NULL
  /\ Goto(u, "await receiving", "stop thread")
  /\ recv[handle[u]] = "exited"
  /\ released' = released \cup {at}
  /\ UNCHANGED <<files, program, at, thread, receiving_thread, starts, handle,
                 threads>>

(* (or dies of a socket that was not created, before or after that, or of  *)
(* channels that another user's start or stop has taken away)              *)
FreeNetworkFails(u) ==
  /\ group.fails \/ at \in {NULL} \cup released
  /\ Goto(u, "await receiving", "oops")
  /\ recv[handle[u]] = "exited"
  /\ released' \in {released, released \cup ({at} \ {NULL})}
  /\ UNCHANGED <<files, program, at, thread, receiving_thread, starts, handle,
                 threads>>

(* Variant: wakes the interpreter and forgets the flag.                    *)
StopThreadUnflagged(u) ==
  /\ thread # NULL /\ interp[thread] # "failed"
  /\ Goto(u, "stop thread", "await thread")
  /\ handle' = [handle EXCEPT ![u] = thread]
  /\ interp' = IF interp[thread] \in {"asleep", "asleep for ages"}
               THEN [interp EXCEPT ![thread] = "check"] ELSE interp
  /\ UNCHANGED <<files, shared, interp_stop, recv, recv_stop>>

(* the interpreter is told to stop, woken if it sleeps,                    *)
StopThread(u) ==
  /\ thread # NULL /\ interp[thread] # "failed"
  /\ Goto(u, "stop thread", "await thread")
  /\ handle' = [handle EXCEPT ![u] = thread]
  /\ interp_stop' = interp_stop \cup {thread}
  /\ interp' = IF interp[thread] \in {"asleep", "asleep for ages"}
               THEN [interp EXCEPT ![thread] = "check"] ELSE interp
  /\ UNCHANGED <<files, shared, recv, recv_stop>>

(* (or, for it was never made, has returned by itself or was stopped by    *)
(* another user, touches NULL, an error or a task that may be freed)       *)
StopThreadGone(u) ==
  /\ thread # NULL => interp[thread] \in {"failed", "exited"}
  /\ Goto(u, "stop thread", "oops")
  /\ UNCHANGED <<files, shared, handle, threads>>

(* Variant: does not wait for the interpreter.                             *)
StoppedEarly(u) ==
  /\ Goto(u, "await thread", "idle")
  /\ thread' = NULL
  /\ handle' = [handle EXCEPT ![u] = NULL]
  /\ UNCHANGED <<files, program, at, released, receiving_thread, starts, threads>>

(* and waited for.                                                         *)
Stopped(u) ==
  /\ Goto(u, "await thread", "idle")
  /\ interp[handle[u]] = "exited"
  /\ thread' = NULL
  /\ handle' = [handle EXCEPT ![u] = NULL]
  /\ UNCHANGED <<files, program, at, released, receiving_thread, starts, threads>>

(* Variant: removes the files and leaves the threads.                      *)
RemoveFilesOnly ==
  /\ present
  /\ \A u \in group.users : op[u] = "idle"
  /\ present' = FALSE
  /\ Goto(Rmmod, "idle", "idle")
  /\ UNCHANGED <<group, instructions, loads, freed, params, shared, handle, threads>>

(* cleanup_module: removing the files waits for the writes under way.      *)
Remove ==
  /\ present
  /\ \A u \in group.users : op[u] = "idle"
  /\ present' = FALSE
  /\ Goto(Rmmod, "idle", IF is_running THEN "stop receiving" ELSE "idle")
  /\ UNCHANGED <<group, instructions, loads, freed, params, shared, handle, threads>>

-----------------------------------------------------------------------------
InterpGoto(s, from, to) ==
  /\ interp[s] = from
  /\ interp' = [interp EXCEPT ![s] = to]
  /\ UNCHANGED <<files, shared, process, interp_stop, recv, recv_stop>>

(* interpreter_threadfn raises the priority of interpreter->thread, which  *)
(* should be itself.  It may not have been assigned yet: the thread dies   *)
(* of the NULL pointer, or works on what another start left there.         *)
Schedule(s) ==
  \/ thread # NULL /\ InterpGoto(s, "created", "check")
  \/ thread # s /\ InterpGoto(s, "created", "exited")

(* kthread_should_stop().                                                  *)
Check(s) ==
  \/ s \notin interp_stop /\ InterpGoto(s, "check", "run")
  \/ s \in interp_stop /\ InterpGoto(s, "check", "exited")

(* An instruction without network or sleep, or END_OF_PROGRAM, an error or *)
(* an invalid instruction.                                                 *)
Instruction(s) == InterpGoto(s, "run", "check") \/ InterpGoto(s, "run", "exited")

(* CREATE, SEND, RECEIVE, SYNC or a test of a receive buffer.              *)
UseNetwork(s) == InterpGoto(s, "run", "network")
NetworkDone(s) ==
  InterpGoto(s, "network", "check") \/ InterpGoto(s, "network", "exited")

(* HALT and WAIT.  For a future that is already due the unsigned range     *)
(* wraps: the sleep has no end in practice (Interpreter's SleepOf).        *)
Halt(s) ==
  \/ InterpGoto(s, "run", "asleep")
  \/ group.late /\ InterpGoto(s, "run", "asleep for ages")

Wake(s) == InterpGoto(s, "asleep", "check")

(* receiving_threadfn: the flag is read again after each message or        *)
(* time-out.                                                               *)
ReceiveMessage(s) ==
  /\ recv[s] = "check" /\ s \notin recv_stop
  /\ recv' = [recv EXCEPT ![s] = "receive"]
  /\ UNCHANGED <<files, shared, process, interp, interp_stop, recv_stop>>

Received(s) ==
  /\ recv[s] = "receive"
  /\ recv' = [recv EXCEPT ![s] = "check"]
  /\ UNCHANGED <<files, shared, process, interp, interp_stop, recv_stop>>

(* Without a socket or a message buffer the thread dies where it is.       *)
ReceivingFails(s) ==
  /\ group.fails /\ recv[s] \in {"check", "receive"}
  /\ recv' = [recv EXCEPT ![s] = "exited"]
  /\ UNCHANGED <<files, shared, process, interp, interp_stop, recv_stop>>

ReceivingEnds(s) ==
  /\ recv[s] = "check" /\ s \in recv_stop
  /\ recv' = [recv EXCEPT ![s] = "exited"]
  /\ UNCHANGED <<files, shared, process, interp, interp_stop, recv_stop>>

-----------------------------------------------------------------------------
(* What a user starts, and what then goes on by itself.                    *)
Store(u) == StoreCode(u) \/ StoreParams(u) \/ StoreRun(u) \/ StoreStop(u)

Handler(u) ==
  \/ FreeCode(u) \/ LoadCode(u) \/ LoadCodeFails(u)
  \/ FreeParams(u) \/ LoadParams(u) \/ LoadParamsFails(u)
  \/ RunRefused(u) \/ RunAccepted(u) \/ InitNetwork(u) \/ InitNetworkFails(u)
  \/ Spawn(u) \/ Assign(u)
  \/ StopReceiving(u) \/ StopReceivingGone(u) \/ FreeNetwork(u) \/ FreeNetworkFails(u)
  \/ StopThread(u) \/ StopThreadGone(u) \/ Stopped(u)

Interpret(s) ==
  \/ Schedule(s) \/ Check(s) \/ Instruction(s) \/ UseNetwork(s)
  \/ NetworkDone(s) \/ Halt(s) \/ Wake(s)

Receive(s) ==
  ReceiveMessage(s) \/ Received(s) \/ ReceivingFails(s) \/ ReceivingEnds(s)

Next ==
  \/ \E u \in group.users : Store(u)
  \/ Remove
  \/ \E u \in Processes : Handler(u)
  \/ \E s \in Starts : Interpret(s) \/ Receive(s)

Spec == Init /\ [][Next]_vars

(* Threads that can run do; users need not write anything.                 *)
FairSpec ==
  /\ Spec
  /\ \A u \in Processes : WF_vars(Handler(u))
  /\ \A s \in Starts : WF_vars(Interpret(s)) /\ WF_vars(Receive(s))

-----------------------------------------------------------------------------
Places == {"idle", "free code", "load code", "free params", "load params",
           "run", "init network", "spawn", "assign", "stop receiving",
           "await receiving", "stop thread", "await thread", "oops"}

TypeOK ==
  /\ present \in BOOLEAN
  /\ group \in Groups
  /\ loads \in 0 .. MaxLoads /\ instructions \in 0 .. loads
  /\ freed \subseteq Loads
  /\ params \in {"null", "held", "freed"}
  /\ starts \in 0 .. MaxStarts
  /\ program \in 0 .. MaxLoads
  /\ at \in 0 .. starts /\ thread \in 0 .. starts
  /\ receiving_thread \in 0 .. starts
  /\ released \subseteq Starts
  /\ op \in [Processes -> Places]
  /\ handle \in [Processes -> 0 .. starts]
  /\ interp \in [Starts -> {"absent", "created", "check", "run", "network",
                            "asleep", "asleep for ages", "exited", "failed"}]
  /\ recv \in [Starts -> {"absent", "check", "receive", "exited", "failed"}]
  /\ interp_stop \subseteq Starts /\ recv_stop \subseteq Starts

Live(s) == interp[s] \notin {"absent", "exited", "failed"}
Receiving(s) == recv[s] \notin {"absent", "exited", "failed"}

(* No write is being handled.  One that dies is never over.                *)
Quiet == \A u \in Processes : op[u] = "idle"

(* One user writes, one file after another.                                *)
Alone == \E u \in Users : group.users = {u}

(* At most one interpreter, which is false of two users who write at the   *)
(* same time.                                                              *)
OneInterpreter == \A s, t \in Starts : Live(s) /\ Live(t) => s = t
OneReceiver == \A s, t \in Starts : Receiving(s) /\ Receiving(t) => s = t

(* For one user there is one interpreter and one receiving thread at most, *)
(* whatever is written while they are made or are being stopped            *)
(* (start_interpreter, stop_interpreter).                                  *)
OneOfEach == TypeOK /\ (Alone => OneInterpreter /\ OneReceiver)

(* The block that an interpreter thread fetches its instructions from is   *)
(* never freed under it ("make sure we don't modify interpreter state      *)
(* while it's running", ncm_sysfs_store).                                  *)
CodeHeld == \A s \in Starts : Live(s) => program \notin freed \cup {NULL}

(* The receiving thread's channels are its own and are not freed before it *)
(* has returned (destroy_network); the interpreter uses freed channels     *)
(* during a stop only, or after one that died.                             *)
NetworkHeld ==
  \A s \in Starts :
    /\ Receiving(s) => at = s /\ s \notin released
    /\ interp[s] = "network" /\ at \in released
         => \E u \in Processes : op[u] \in {"stop thread", "await thread", "oops"}

(* For one user, both.                                                     *)
BlocksHeld == Alone => CodeHeld /\ NetworkHeld

(* For one user, no thread runs that nothing can stop any more: between    *)
(* writes the handles name every thread there is, and once the module is   *)
(* removed there is none (start_interpreter, cleanup_module).  Nothing is  *)
(* said of a write or a removal that died.                                 *)
NoOrphan ==
  Alone /\ Quiet => \A s \in Starts :
    Live(s) \/ Receiving(s) => present /\ thread = s /\ receiving_thread = s

(* While the interpreter uses a channel, the channels are there ("stops    *)
(* the interpreter thread and cleans up the interpreter").                 *)
ChannelsHeld == \A s \in Starts : interp[s] = "network" => at \notin released

(* Between writes, the interpreter is reported running only if it is.      *)
RunningIsLive == Quiet /\ is_running => Live(thread)

(* While the kernel can give what is asked of it, no write of a single     *)
(* user and no removal dies: false, for the task of an interpreter that    *)
(* has returned is not held for the stop that is still to come.            *)
StopsCleanly == Alone /\ ~group.fails => \A u \in Processes : op[u] # "oops"

(* However the writes of several users interleave, between writes the      *)
(* program and the parameters to start with next are never blocks that     *)
(* were freed (ncm_sysfs_store frees one block and stores another).        *)
Settled == Quiet => instructions \notin freed /\ params # "freed"

(* Every stop of one user returns, by command or by the removal of the     *)
(* module, unless a sleep for a late future has no end, the kernel could   *)
(* not give what the start asked for, or the interpreter has returned by   *)
(* itself: its task may then be gone, and the stop dies of it.             *)
Ended == thread # NULL /\ interp[thread] = "exited" /\ thread \notin interp_stop
StopReturns ==
  \A u \in Processes :
    Alone /\ ~group.late /\ ~group.fails /\ op[u] = "stop receiving"
      ~> op[u] = "idle" \/ (op[u] = "oops" /\ Ended)

(* For one user the threads and steps of a session are not to be seen:     *)
(* what runs is what was loaded last, and it is not replaced meanwhile.    *)
S == INSTANCE Session WITH
       loaded <- IF Alone THEN instructions ELSE NULL,
       running <- IF Alone /\ \E s \in Starts : Live(s)
                  THEN program ELSE NULL
ImplementsSession == S!Spec
=============================================================================
