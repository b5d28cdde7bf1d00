---------------------------- MODULE ControlProofs ----------------------------
(***************************************************************************)
(* Proofs about Control, for any number of users, programs and starts:     *)
(* types and blocks for any group of users; for one user that a start is   *)
(* never doubled, that what threads use is not freed, that nothing is left *)
(* over, and that Control implements Session.                              *)
(*                                                                         *)
(* The invariant follows the single busy process through its handler: at   *)
(* each place it is known whether there are threads, and by which handle.  *)
(***************************************************************************)
EXTENDS Control, TLAPS

Stopping == {"stop receiving", "await receiving", "stop thread", "await thread"}
Destroyed == {"stop thread", "await thread"}
Gone == Destroyed \cup {"oops"}
Ending == Stopping \cup {"oops"}
Making == {"spawn", "assign"}
Starting == Making \cup {"init network"}
Storing == {"free code", "load code", "free params", "load params", "run",
            "init network"}

Busy(places) == \E u \in Processes : op[u] \in places

(* The types, part by part, with the numbers of blocks, threads and        *)
(* channels bounded by the loads and starts so far.                        *)
Blocks ==
  /\ loads \in 0 .. MaxLoads /\ instructions \in 0 .. loads
  /\ freed \subseteq 1 .. loads
  /\ program \in 0 .. MaxLoads
  /\ params \in {"null", "held", "freed"}

Numbered ==
  /\ starts \in 0 .. MaxStarts
  /\ at \in {NULL, starts} /\ receiving_thread = starts /\ thread \in 0 .. starts
  /\ released \subseteq 1 .. starts
  /\ handle \in [Processes -> 0 .. starts]

Threads ==
  /\ interp \in [Starts -> {"absent", "created", "check", "run", "network",
                            "asleep", "asleep for ages", "exited", "failed"}]
  /\ recv \in [Starts -> {"absent", "check", "receive", "exited", "failed"}]
  /\ interp_stop \subseteq Starts /\ recv_stop \subseteq Starts

At ==
  /\ op \in [Processes -> Places]
  /\ \A u \in Processes : op[u] \in Stopping => starts # NULL

Types ==
  /\ group \in Groups /\ present \in BOOLEAN
  /\ Blocks /\ Numbered /\ Threads /\ At

(* Removing the module waits for the writes, and no write begins then.     *)
Turns ==
  /\ \A u \in Users \ group.users : op[u] = "idle"
  /\ present => op[Rmmod] = "idle"
  /\ op[Rmmod] \in {"idle", "oops"} \cup Stopping
  /\ ~present => \A u \in Users : op[u] = "idle"

(* A block that was freed is still the next one only inside the write      *)
(* that replaces it.                                                       *)
Replaced ==
  /\ instructions \in freed => Busy({"load code"})
  /\ params = "freed" => Busy({"load params"})

(* What a process knows of the threads at each place of its handler.       *)
KnownBy(u) ==
  /\ op[u] \in Storing \cup Making => thread = NULL
  /\ op[u] \in Making => starts # NULL /\ handle[u] = starts
  /\ op[u] \in Stopping => thread = starts
  /\ op[u] \in {"await receiving", "await thread"} => handle[u] = starts

Known == \A u \in Processes : KnownBy(u)

(* The threads there are belong to the last start, and a handle or a       *)
(* process that is making them names them.                                 *)
Handles ==
  /\ thread \in {NULL, starts}
  /\ \A s \in Starts : Live(s) =>
       s = starts /\ (thread = starts \/ Busy({"assign"}))
  /\ \A s \in Starts : Receiving(s) =>
       /\ s = starts /\ at = starts /\ starts \notin released
       /\ (thread = starts /\ ~Busy(Destroyed)) \/ Busy(Making)
  /\ starts \in released =>
       Busy(Gone) \/ (thread = NULL /\ ~Busy(Making))
  /\ ~present /\ ~Busy(Ending) => thread = NULL

(* What runs or is about to is what was loaded last, and is not freed.     *)
Fetched ==
  thread # NULL \/ Busy(Starting)
    => program = instructions /\ program # NULL /\ program \notin freed

Single == Known /\ Handles /\ Fetched

IInv == Types /\ Turns /\ Replaced /\ (Alone => Single)

-----------------------------------------------------------------------------
LEMMA Bounds ==
  /\ MaxLoads \in Nat /\ MaxStarts \in Nat
  /\ Rmmod \notin Users
  /\ \A g \in Groups : /\ g.users \subseteq Users
                        /\ g.loads \in 0 .. MaxLoads
                        /\ g.starts \in 0 .. MaxStarts
BY ControlAssumption

LEMMA Positive == \A s \in Starts : s # NULL
BY Bounds DEF Starts, NULL

LEMMA InitInvariant == Init => IInv
<1> SUFFICES ASSUME Init PROVE IInv
  OBVIOUS
<1>1. Types
  <2>1. Blocks
    BY Bounds DEF Init, Blocks, NULL
  <2>2. Numbered
    BY Bounds DEF Init, Numbered, NULL
  <2>3. Threads
    BY DEF Init, Threads
  <2>4. At
    BY DEF Init, At, Places, Stopping
  <2> QED
    BY <2>1, <2>2, <2>3, <2>4 DEF Init, Types
<1>2. Turns /\ Replaced
  BY DEF Init, Turns, Replaced, Processes
<1>3. Known /\ Handles /\ Fetched
  BY DEF Init, Known, KnownBy, Handles, Fetched, Live, Receiving, Busy, NULL, Processes, Starts,
         Storing, Making, Stopping, Starting, Destroyed, Gone
<1> QED
  BY <1>1, <1>2, <1>3 DEF IInv, Single

-----------------------------------------------------------------------------
(* Types.                                                                  *)
LEMMA Numbers ==
  ASSUME Types
  PROVE  /\ MaxLoads \in Nat /\ MaxStarts \in Nat
         /\ loads \in 0 .. MaxLoads /\ starts \in 0 .. MaxStarts
         /\ loads \in Nat /\ starts \in Nat
         /\ instructions \in 0 .. loads /\ thread \in 0 .. starts
         /\ group.users \subseteq Users
         /\ group.loads \in 0 .. MaxLoads /\ group.starts \in 0 .. MaxStarts
<1>1. group \in Groups
  BY DEF Types
<1>2. /\ group.users \subseteq Users
      /\ group.loads \in 0 .. MaxLoads /\ group.starts \in 0 .. MaxStarts
  BY <1>1, Bounds
<1> QED
  BY <1>2, Bounds DEF Types, Blocks, Numbered

LEMMA TypesTypeOK == Types => TypeOK
<1> SUFFICES ASSUME Types PROVE TypeOK
  OBVIOUS
<1>1. freed \subseteq Loads /\ released \subseteq Starts
  BY Numbers DEF Types, Blocks, Numbered, Loads, Starts
<1>2. at \in 0 .. starts /\ thread \in 0 .. starts /\ receiving_thread \in 0 .. starts
  BY Numbers DEF Types, Numbered, NULL
<1> QED
  BY <1>1, <1>2 DEF Types, Blocks, Numbered, Threads, At, TypeOK

(* What a write leaves alone when it begins, and what the threads do.      *)
LEMMA StoreFrame ==
  ASSUME NEW u, Store(u)
  PROVE  UNCHANGED <<files, shared, handle, threads>> /\ present /\ op[u] = "idle"
BY DEF Store, StoreCode, StoreParams, StoreRun, StoreStop, Goto

LEMMA ThreadFrame ==
  ASSUME NEW s, Interpret(s) \/ Receive(s)
  PROVE  UNCHANGED <<files, shared, process, interp_stop, recv_stop>>
BY DEF Interpret, Schedule, Check, Instruction, UseNetwork, NetworkDone, Halt, Wake,
   InterpGoto, Receive, ReceiveMessage, Received, ReceivingFails, ReceivingEnds

LEMMA WentOn ==
  ASSUME At, NEW u \in Processes, NEW from, NEW to \in Places, Goto(u, from, to)
  PROVE  /\ op[u] = from
         /\ op' \in [Processes -> Places]
         /\ op'[u] = to
         /\ \A v \in Processes \ {u} : op'[v] = op[v]
BY DEF At, Goto

LEMMA HandlerBlocks ==
  ASSUME Types, NEW u \in Processes, Handler(u)
  PROVE  Blocks'
<1>1. CASE FreeCode(u)
  <2>1. /\ freed' = freed \cup ({instructions} \ {NULL})
        /\ UNCHANGED <<loads, instructions, params, program>>
    BY <1>1 DEF FreeCode, files, shared
  <2> QED
    BY <2>1, Numbers DEF Types, Blocks, NULL
<1>2. CASE LoadCode(u)
  <2>1. /\ loads < group.loads
        /\ loads' = loads + 1 /\ instructions' = loads + 1
        /\ UNCHANGED <<freed, params, program>>
    BY <1>2 DEF LoadCode, files, shared
  <2> QED
    BY <2>1, Numbers DEF Types, Blocks, NULL
<1>3. CASE FreeParams(u)
  <2>1. /\ params' \in {"null", "freed"}
        /\ UNCHANGED <<loads, instructions, freed, program>>
    BY <1>3 DEF FreeParams, files, shared
  <2> QED
    BY <2>1, Numbers DEF Types, Blocks, NULL
<1>4. CASE LoadParams(u) \/ LoadParamsFails(u)
  <2>1. /\ params' \in {"held", "null"}
        /\ UNCHANGED <<loads, instructions, freed, program>>
    BY <1>4 DEF LoadParams, LoadParamsFails, files, shared
  <2> QED
    BY <2>1, Numbers DEF Types, Blocks, NULL
<1>5. CASE RunAccepted(u)
  <2>1. /\ program' = instructions
        /\ UNCHANGED <<loads, instructions, freed, params>>
    BY <1>5 DEF RunAccepted, files, shared
  <2> QED
    BY <2>1, Numbers DEF Types, Blocks, NULL
<1>6. CASE LoadCodeFails(u)
  <2>1. instructions' = NULL /\ UNCHANGED <<loads, freed, params, program>>
    BY <1>6 DEF LoadCodeFails, files, shared
  <2> QED
    BY <2>1, Numbers DEF Types, Blocks, NULL
<1>7. CASE \/ RunRefused(u) \/ InitNetwork(u) \/ InitNetworkFails(u) \/ Spawn(u)
           \/ Assign(u) \/ StopReceiving(u) \/ StopReceivingGone(u) \/ FreeNetwork(u)
           \/ FreeNetworkFails(u) \/ StopThread(u) \/ StopThreadGone(u) \/ Stopped(u)
  <2>1. UNCHANGED <<loads, instructions, freed, params, program>>
    BY <1>7 DEF RunRefused, InitNetwork, InitNetworkFails, Spawn, Assign, StopReceiving,
       StopReceivingGone, FreeNetwork, FreeNetworkFails, StopThread, StopThreadGone, Stopped,
       files, shared, process, threads
  <2> QED
    BY <2>1 DEF Types, Blocks
<1> QED
  BY <1>1, <1>2, <1>3, <1>4, <1>5, <1>6, <1>7 DEF Handler

LEMMA HandlerNumbered ==
  ASSUME Types, NEW u \in Processes, Handler(u)
  PROVE  Numbered'
<1>1. CASE InitNetwork(u)
  <2>1. /\ starts < group.starts
        /\ starts' = starts + 1 /\ at' = starts + 1 /\ receiving_thread' = starts + 1
        /\ handle' = [handle EXCEPT ![u] = starts + 1]
        /\ UNCHANGED <<thread, released>>
    BY <1>1 DEF InitNetwork, Goto, Stopping, files, shared
  <2> QED
    BY <2>1, Numbers DEF Types, Numbered, At, NULL
<1>2. CASE Assign(u)
  <2>1. /\ thread' = handle[u]
        /\ handle' = [handle EXCEPT ![u] = NULL]
        /\ UNCHANGED <<starts, at, receiving_thread, released>>
    BY <1>2 DEF Assign, Goto, Stopping, files, shared
  <2> QED
    BY <2>1, Numbers DEF Types, Numbered, At, NULL
<1>3. CASE StopReceiving(u)
  <2>1. /\ handle' = [handle EXCEPT ![u] = receiving_thread]
        /\ UNCHANGED <<starts, at, receiving_thread, thread, released>>
    BY <1>3 DEF StopReceiving, Goto, Stopping, files, shared
  <2> QED
    BY <2>1, Numbers DEF Types, Numbered, At, NULL
<1>4. CASE FreeNetwork(u) \/ FreeNetworkFails(u)
  <2>1. /\ op[u] \in Stopping
        /\ released' = released \/ (at # NULL /\ released' = released \cup {at})
        /\ UNCHANGED <<starts, at, receiving_thread, thread, handle>>
    BY <1>4 DEF FreeNetwork, FreeNetworkFails, Goto, Stopping, files, shared
  <2>2. at # NULL => at \in 1 .. starts
    <3>1. starts \in Nat /\ (at = NULL \/ at = starts)
      BY Numbers DEF Types, Numbered
    <3>2. starts = 0 \/ starts \in 1 .. starts
      BY <3>1
    <3> QED
      BY <3>1, <3>2 DEF NULL
  <2>3. released' \subseteq 1 .. starts
    <3>1. released \subseteq 1 .. starts
      BY DEF Types, Numbered
    <3>2. CASE released' = released
      BY <3>1, <3>2
    <3>3. CASE at # NULL /\ released' = released \cup {at}
      BY <2>2, <3>1, <3>3
    <3> QED
      BY <2>1, <3>2, <3>3
  <2> QED
    BY <2>1, <2>3 DEF Types, Numbered
<1>5. CASE StopThread(u)
  <2>1. /\ handle' = [handle EXCEPT ![u] = thread]
        /\ UNCHANGED <<starts, at, receiving_thread, thread, released>>
    BY <1>5 DEF StopThread, Goto, Stopping, files, shared
  <2> QED
    BY <2>1, Numbers DEF Types, Numbered, At, NULL
<1>6. CASE Stopped(u)
  <2>1. /\ thread' = NULL /\ handle' = [handle EXCEPT ![u] = NULL]
        /\ UNCHANGED <<starts, at, receiving_thread, released>>
    BY <1>6 DEF Stopped, Goto, Stopping, files, shared
  <2> QED
    BY <2>1, Numbers DEF Types, Numbered, At, NULL
<1>7. CASE InitNetworkFails(u)
  <2>1. at' = NULL /\ UNCHANGED <<starts, receiving_thread, thread, released, handle>>
    BY <1>7 DEF InitNetworkFails
  <2> QED
    BY <2>1 DEF Types, Numbered
<1>8. CASE \/ FreeCode(u) \/ LoadCode(u) \/ LoadCodeFails(u) \/ FreeParams(u)
           \/ LoadParams(u) \/ LoadParamsFails(u) \/ RunRefused(u) \/ RunAccepted(u)
           \/ Spawn(u) \/ StopReceivingGone(u) \/ StopThreadGone(u)
  <2>1. UNCHANGED <<starts, at, receiving_thread, thread, released, handle>>
    BY <1>8 DEF FreeCode, LoadCode, LoadCodeFails, FreeParams, LoadParams, LoadParamsFails,
       RunRefused, RunAccepted, Spawn, StopReceivingGone, StopThreadGone, files, shared,
       process, threads
  <2> QED
    BY <2>1 DEF Types, Numbered
<1> QED
  BY <1>1, <1>2, <1>3, <1>4, <1>5, <1>6, <1>7, <1>8 DEF Handler

LEMMA HandlerThreads ==
  ASSUME Types, NEW u \in Processes, Handler(u)
  PROVE  Threads'
<1>1. CASE InitNetwork(u)
  <2>1. /\ starts < group.starts
        /\ \E made \in {"check", "failed"} : recv' = [recv EXCEPT ![starts + 1] = made]
        /\ UNCHANGED <<interp, interp_stop, recv_stop>>
    BY <1>1 DEF InitNetwork, Goto, Stopping
  <2> QED
    BY <2>1, Numbers DEF Types, Numbered, Threads, At, Starts, NULL
<1>2. CASE Spawn(u)
  <2>1. /\ \E made \in {"created", "failed"} : interp' = [interp EXCEPT ![handle[u]] = made]
        /\ UNCHANGED <<interp_stop, recv, recv_stop>>
    BY <1>2 DEF Spawn, Goto, Stopping
  <2> QED
    BY <2>1, Numbers DEF Types, Numbered, Threads, At, Starts, NULL
<1>3. CASE StopReceiving(u)
  <2>1. /\ op[u] \in Stopping
        /\ recv_stop' = recv_stop \cup {receiving_thread}
        /\ UNCHANGED <<interp, interp_stop, recv>>
    BY <1>3 DEF StopReceiving, Goto, Stopping
  <2>2. starts \in Starts
    BY <2>1, Numbers DEF Types, At, Starts, NULL
  <2> QED
    BY <2>1, <2>2, Numbers DEF Types, Numbered, Threads, At, Starts, NULL
<1>4. CASE StopThread(u)
  <2>1. /\ thread # NULL
        /\ interp_stop' = interp_stop \cup {thread}
        /\ interp' = interp \/ interp' = [interp EXCEPT ![thread] = "check"]
        /\ UNCHANGED <<recv, recv_stop>>
    BY <1>4 DEF StopThread, Goto, Stopping
  <2>2. thread \in Starts
    BY <2>1, Numbers DEF Types, At, Starts, NULL
  <2> QED
    BY <2>1, <2>2, Numbers DEF Types, Numbered, Threads, At, Starts, NULL
<1>5. CASE \/ FreeCode(u) \/ LoadCode(u) \/ LoadCodeFails(u) \/ FreeParams(u)
           \/ LoadParams(u) \/ LoadParamsFails(u) \/ RunRefused(u) \/ RunAccepted(u)
           \/ InitNetworkFails(u) \/ Assign(u) \/ StopReceivingGone(u) \/ FreeNetwork(u)
           \/ FreeNetworkFails(u) \/ StopThreadGone(u) \/ Stopped(u)
  <2>1. UNCHANGED threads
    BY <1>5 DEF FreeCode, LoadCode, LoadCodeFails, FreeParams, LoadParams, LoadParamsFails,
       RunRefused, RunAccepted, InitNetworkFails, Assign, StopReceivingGone, FreeNetwork,
       FreeNetworkFails, StopThreadGone, Stopped, files, shared, process, threads
  <2> QED
    BY <2>1 DEF Types, Threads, threads
<1> QED
  BY <1>1, <1>2, <1>3, <1>4, <1>5 DEF Handler

(* A handler stops something only in a stop.                               *)
LEMMA HandlerAt ==
  ASSUME Types, NEW u \in Processes, Handler(u)
  PROVE  /\ At'
         /\ \A v \in Processes \ {u} : op'[v] = op[v]
         /\ op[u] # "idle"
         /\ op[u] \in Stopping => op'[u] \in {"idle", "oops"} \cup Stopping
<1>1. starts' = starts \/ starts' # NULL
  <2>1. CASE InitNetwork(u)
    <3>1. starts' = starts + 1
      BY <2>1 DEF InitNetwork
    <3> QED
      BY <3>1, Numbers DEF NULL
  <2>2. CASE ~InitNetwork(u)
    BY <2>2 DEF Handler, FreeCode, LoadCode, LoadCodeFails, FreeParams, LoadParams,
       LoadParamsFails, RunRefused, RunAccepted, InitNetworkFails, Spawn, Assign,
       StopReceiving, StopReceivingGone, FreeNetwork, FreeNetworkFails, StopThread,
       StopThreadGone, Stopped, shared
  <2> QED
    BY <2>1, <2>2
<1>2. /\ op' \in [Processes -> Places]
      /\ op'[u] \in Stopping => op[u] \in Stopping
      /\ \A v \in Processes \ {u} : op'[v] = op[v]
      /\ op[u] # "idle"
      /\ op[u] \in Stopping => op'[u] \in {"idle", "oops"} \cup Stopping
  <2>1. CASE FreeCode(u)
    <3>1. /\ op[u] = "free code" /\ op'[u] = "load code"
          /\ op' \in [Processes -> Places]
          /\ \A v \in Processes \ {u} : op'[v] = op[v]
      BY <2>1, WentOn DEF FreeCode, Types, Places
    <3> QED
      BY <3>1 DEF Stopping
  <2>2. CASE LoadCode(u)
    <3>1. /\ op[u] = "load code" /\ op'[u] = "idle"
          /\ op' \in [Processes -> Places]
          /\ \A v \in Processes \ {u} : op'[v] = op[v]
      BY <2>2, WentOn DEF LoadCode, Types, Places
    <3> QED
      BY <3>1 DEF Stopping
  <2>3. CASE FreeParams(u)
    <3>1. /\ op[u] = "free params" /\ op'[u] = "load params"
          /\ op' \in [Processes -> Places]
          /\ \A v \in Processes \ {u} : op'[v] = op[v]
      BY <2>3, WentOn DEF FreeParams, Types, Places
    <3> QED
      BY <3>1 DEF Stopping
  <2>4. CASE LoadParams(u)
    <3>1. /\ op[u] = "load params" /\ op'[u] = "idle"
          /\ op' \in [Processes -> Places]
          /\ \A v \in Processes \ {u} : op'[v] = op[v]
      BY <2>4, WentOn DEF LoadParams, Types, Places
    <3> QED
      BY <3>1 DEF Stopping
  <2>5. CASE RunRefused(u)
    <3>1. /\ op[u] = "run" /\ op'[u] = "idle"
          /\ op' \in [Processes -> Places]
          /\ \A v \in Processes \ {u} : op'[v] = op[v]
      BY <2>5, WentOn DEF RunRefused, Types, Places
    <3> QED
      BY <3>1 DEF Stopping
  <2>6. CASE RunAccepted(u)
    <3>1. /\ op[u] = "run" /\ op'[u] = "init network"
          /\ op' \in [Processes -> Places]
          /\ \A v \in Processes \ {u} : op'[v] = op[v]
      BY <2>6, WentOn DEF RunAccepted, Types, Places
    <3> QED
      BY <3>1 DEF Stopping
  <2>7. CASE InitNetwork(u)
    <3>1. /\ op[u] = "init network" /\ op'[u] = "spawn"
          /\ op' \in [Processes -> Places]
          /\ \A v \in Processes \ {u} : op'[v] = op[v]
      BY <2>7, WentOn DEF InitNetwork, Types, Places
    <3> QED
      BY <3>1 DEF Stopping
  <2>8. CASE Spawn(u)
    <3>1. /\ op[u] = "spawn" /\ op'[u] = "assign"
          /\ op' \in [Processes -> Places]
          /\ \A v \in Processes \ {u} : op'[v] = op[v]
      BY <2>8, WentOn DEF Spawn, Types, Places
    <3> QED
      BY <3>1 DEF Stopping
  <2>9. CASE Assign(u)
    <3>1. /\ op[u] = "assign" /\ op'[u] = "idle"
          /\ op' \in [Processes -> Places]
          /\ \A v \in Processes \ {u} : op'[v] = op[v]
      BY <2>9, WentOn DEF Assign, Types, Places
    <3> QED
      BY <3>1 DEF Stopping
  <2>10. CASE StopReceiving(u)
    <3>1. /\ op[u] = "stop receiving" /\ op'[u] = "await receiving"
          /\ op' \in [Processes -> Places]
          /\ \A v \in Processes \ {u} : op'[v] = op[v]
      BY <2>10, WentOn DEF StopReceiving, Types, Places
    <3> QED
      BY <3>1 DEF Stopping
  <2>11. CASE FreeNetwork(u)
    <3>1. /\ op[u] = "await receiving" /\ op'[u] = "stop thread"
          /\ op' \in [Processes -> Places]
          /\ \A v \in Processes \ {u} : op'[v] = op[v]
      BY <2>11, WentOn DEF FreeNetwork, Types, Places
    <3> QED
      BY <3>1 DEF Stopping
  <2>12. CASE StopThread(u)
    <3>1. /\ op[u] = "stop thread" /\ op'[u] = "await thread"
          /\ op' \in [Processes -> Places]
          /\ \A v \in Processes \ {u} : op'[v] = op[v]
      BY <2>12, WentOn DEF StopThread, Types, Places
    <3> QED
      BY <3>1 DEF Stopping
  <2>13. CASE StopThreadGone(u)
    <3>1. /\ op[u] = "stop thread" /\ op'[u] = "oops"
          /\ op' \in [Processes -> Places]
          /\ \A v \in Processes \ {u} : op'[v] = op[v]
      BY <2>13, WentOn DEF StopThreadGone, Types, Places
    <3> QED
      BY <3>1 DEF Stopping
  <2>14. CASE Stopped(u)
    <3>1. /\ op[u] = "await thread" /\ op'[u] = "idle"
          /\ op' \in [Processes -> Places]
          /\ \A v \in Processes \ {u} : op'[v] = op[v]
      BY <2>14, WentOn DEF Stopped, Types, Places
    <3> QED
      BY <3>1 DEF Stopping
  <2>15. CASE LoadCodeFails(u)
    <3>1. /\ op[u] = "load code" /\ op'[u] = "oops"
          /\ op' \in [Processes -> Places]
          /\ \A v \in Processes \ {u} : op'[v] = op[v]
      BY <2>15, WentOn DEF LoadCodeFails, Types, Places
    <3> QED
      BY <3>1 DEF Stopping
  <2>16. CASE LoadParamsFails(u)
    <3>1. /\ op[u] = "load params" /\ op'[u] = "oops"
          /\ op' \in [Processes -> Places]
          /\ \A v \in Processes \ {u} : op'[v] = op[v]
      BY <2>16, WentOn DEF LoadParamsFails, Types, Places
    <3> QED
      BY <3>1 DEF Stopping
  <2>17. CASE InitNetworkFails(u)
    <3>1. /\ op[u] = "init network" /\ op'[u] = "oops"
          /\ op' \in [Processes -> Places]
          /\ \A v \in Processes \ {u} : op'[v] = op[v]
      BY <2>17, WentOn DEF InitNetworkFails, Types, Places
    <3> QED
      BY <3>1 DEF Stopping
  <2>18. CASE StopReceivingGone(u)
    <3>1. /\ op[u] = "stop receiving" /\ op'[u] = "oops"
          /\ op' \in [Processes -> Places]
          /\ \A v \in Processes \ {u} : op'[v] = op[v]
      BY <2>18, WentOn DEF StopReceivingGone, Types, Places
    <3> QED
      BY <3>1 DEF Stopping
  <2>19. CASE FreeNetworkFails(u)
    <3>1. /\ op[u] = "await receiving" /\ op'[u] = "oops"
          /\ op' \in [Processes -> Places]
          /\ \A v \in Processes \ {u} : op'[v] = op[v]
      BY <2>19, WentOn DEF FreeNetworkFails, Types, Places
    <3> QED
      BY <3>1 DEF Stopping
  <2> QED
    BY <2>1, <2>2, <2>3, <2>4, <2>5, <2>6, <2>7, <2>8, <2>9, <2>10, <2>11, <2>12, <2>13,
       <2>14, <2>15, <2>16, <2>17, <2>18, <2>19 DEF Handler
<1> QED
  BY <1>1, <1>2 DEF Types, At

LEMMA NextTypes ==
  ASSUME Types, [Next]_vars
  PROVE  Types'
<1>1. ASSUME NEW u \in group.users, Store(u)
      PROVE  Types'
  <2>1. u \in Processes /\ UNCHANGED <<files, shared, handle, threads>>
    BY <1>1, Numbers, StoreFrame DEF Processes
  <2>2. /\ op' \in [Processes -> Places]
        /\ op'[u] \in Stopping => thread # NULL
        /\ \A v \in Processes \ {u} : op'[v] = op[v]
    <3>1. CASE StoreCode(u)
      BY <2>1, <3>1, WentOn DEF StoreCode, Types, Places, Stopping
    <3>2. CASE StoreParams(u)
      BY <2>1, <3>2, WentOn DEF StoreParams, Types, Places, Stopping
    <3>3. CASE StoreRun(u)
      BY <2>1, <3>3, WentOn DEF StoreRun, Types, Places, Stopping
    <3>4. CASE StoreStop(u)
      BY <2>1, <3>4, WentOn DEF StoreStop, Types, Places, is_running
    <3> QED
      BY <1>1, <3>1, <3>2, <3>3, <3>4 DEF Store
  <2>3. thread # NULL => starts # NULL
    BY Numbers DEF NULL
  <2>4. At'
    BY <2>1, <2>2, <2>3 DEF Types, At, shared
  <2> QED
    BY <2>1, <2>4 DEF Types, Blocks, Numbered, Threads, files, shared, threads
<1>2. CASE Remove
  <2>1. /\ present' = FALSE
        /\ UNCHANGED <<group, instructions, loads, freed, params, shared, handle, threads>>
        /\ op' = [op EXCEPT ![Rmmod] = IF thread # NULL THEN "stop receiving" ELSE "idle"]
    BY <1>2 DEF Remove, Goto, is_running
  <2>2. thread # NULL => starts # NULL
    BY Numbers DEF NULL
  <2>3. At'
    BY <2>1, <2>2 DEF Types, At, Places, Stopping, shared
  <2> QED
    BY <2>1, <2>3 DEF Types, Blocks, Numbered, Threads, shared, threads
<1>3. ASSUME NEW u \in Processes, Handler(u)
      PROVE  Types'
  <2>1. UNCHANGED <<group, present>>
    BY <1>3 DEF Handler, FreeCode, LoadCode, LoadCodeFails, FreeParams, LoadParams,
       LoadParamsFails, RunRefused, RunAccepted, InitNetwork, InitNetworkFails, Spawn, Assign,
       StopReceiving, StopReceivingGone, FreeNetwork, FreeNetworkFails, StopThread,
       StopThreadGone, Stopped, files
  <2> QED
    BY <1>3, <2>1, HandlerBlocks, HandlerNumbered, HandlerThreads, HandlerAt DEF Types
<1>4. ASSUME NEW s \in Starts, Interpret(s) \/ Receive(s)
      PROVE  Types'
  <2>1. UNCHANGED <<files, shared, process, interp_stop, recv_stop>>
    BY <1>4, ThreadFrame
  <2>2. interp' \in [Starts -> {"absent", "created", "check", "run", "network",
                                "asleep", "asleep for ages", "exited", "failed"}]
    BY <1>4 DEF Interpret, Schedule, Check, Instruction, UseNetwork, NetworkDone, Halt, Wake,
       InterpGoto, Receive, ReceiveMessage, Received, ReceivingFails, ReceivingEnds, Types, Threads
  <2>3. recv' \in [Starts -> {"absent", "check", "receive", "exited", "failed"}]
    BY <1>4 DEF Interpret, Schedule, Check, Instruction, UseNetwork, NetworkDone, Halt, Wake,
       InterpGoto, Receive, ReceiveMessage, Received, ReceivingFails, ReceivingEnds, Types, Threads
  <2> QED
    BY <2>1, <2>2, <2>3 DEF Types, Blocks, Numbered, Threads, At, files, shared, process
<1>5. CASE UNCHANGED vars
  BY <1>5 DEF Types, Blocks, Numbered, Threads, At, vars, files, shared, process, threads
<1> QED
  BY <1>1, <1>2, <1>3, <1>4, <1>5 DEF Next

-----------------------------------------------------------------------------
(* Turns and the blocks that are replaced.                                 *)
LEMMA NextTurns ==
  ASSUME Types, Turns, [Next]_vars
  PROVE  Turns'
<1> USE DEF Processes
<1>1. ASSUME NEW u \in group.users, Store(u)
      PROVE  Turns'
  <2>1. u \in Users /\ u # Rmmod
    BY <1>1, Numbers, Bounds
  <2>2. UNCHANGED <<group, present>> /\ present
    BY <1>1, StoreFrame DEF files
  <2>3. \A v \in Processes \ {u} : op'[v] = op[v]
    BY <1>1 DEF Store, StoreCode, StoreParams, StoreRun, StoreStop, Goto, Types, At
  <2> QED
    BY <2>1, <2>2, <2>3 DEF Turns
<1>2. CASE Remove
  <2>1. present' = FALSE /\ group' = group
    BY <1>2 DEF Remove
  <2>2. \A v \in Users : op[v] = "idle"
    BY <1>2 DEF Remove, Turns
  <2>3. \A v \in Users : op'[v] = op[v]
    BY <1>2, Bounds DEF Remove, Goto, Types, At
  <2>4. op'[Rmmod] \in {"idle"} \cup Stopping
    BY <1>2 DEF Remove, Goto, Types, At, Stopping
  <2> QED
    BY <2>1, <2>2, <2>3, <2>4 DEF Turns
<1>3. ASSUME NEW u \in Processes, Handler(u)
      PROVE  Turns'
  <2>1. UNCHANGED <<group, present>>
    BY <1>3 DEF Handler, FreeCode, LoadCode, LoadCodeFails, FreeParams, LoadParams,
       LoadParamsFails, RunRefused, RunAccepted, InitNetwork, InitNetworkFails, Spawn, Assign,
       StopReceiving, StopReceivingGone, FreeNetwork, FreeNetworkFails, StopThread,
       StopThreadGone, Stopped, files
  <2>2. op[u] # "idle" /\ \A v \in Processes \ {u} : op'[v] = op[v]
    BY <1>3, HandlerAt
  <2>3. (present => u # Rmmod) /\ (~present => u = Rmmod) /\ u \notin Users \ group.users
    BY <2>2 DEF Turns
  <2>4. op'[Rmmod] \in {"idle", "oops"} \cup Stopping
    <3>1. op[u] # "oops"
      BY <1>3 DEF Handler, FreeCode, LoadCode, LoadCodeFails, FreeParams, LoadParams,
         LoadParamsFails, RunRefused, RunAccepted, InitNetwork, InitNetworkFails, Spawn, Assign,
         StopReceiving, StopReceivingGone, FreeNetwork, FreeNetworkFails, StopThread,
         StopThreadGone, Stopped, Goto
    <3> QED
      BY <1>3, <2>2, <3>1, HandlerAt DEF Turns
  <2> QED
    BY <2>1, <2>2, <2>3, <2>4, Bounds DEF Turns
<1>4. ASSUME NEW s \in Starts, Interpret(s) \/ Receive(s)
      PROVE  Turns'
  BY <1>4, ThreadFrame DEF Turns, files, process
<1>5. CASE UNCHANGED vars
  BY <1>5 DEF Turns, vars, files, process
<1> QED
  BY <1>1, <1>2, <1>3, <1>4, <1>5 DEF Next

(* Whoever is at a place stays there when another goes on.                 *)
LEMMA Stays ==
  ASSUME NEW u \in Processes, NEW place,
         \A v \in Processes \ {u} : op'[v] = op[v],
         op[u] # place, Busy({place})
  PROVE  Busy({place})'
BY DEF Busy

LEMMA NextReplaced ==
  ASSUME Types, Replaced, [Next]_vars
  PROVE  Replaced'
<1>1. ASSUME NEW u \in group.users, Store(u)
      PROVE  Replaced'
  <2>1. u \in Processes /\ op[u] = "idle" /\ UNCHANGED <<instructions, freed, params>>
    BY <1>1, Numbers, StoreFrame DEF Processes, files
  <2>2. \A v \in Processes \ {u} : op'[v] = op[v]
    BY <1>1 DEF Store, StoreCode, StoreParams, StoreRun, StoreStop, Goto, Types, At
  <2> QED
    BY <2>1, <2>2, Stays DEF Replaced
<1>2. CASE Remove
  <2>1. op[Rmmod] = "idle" /\ UNCHANGED <<instructions, freed, params>>
    BY <1>2 DEF Remove, Goto
  <2>2. \A v \in Processes \ {Rmmod} : op'[v] = op[v]
    BY <1>2 DEF Remove, Goto, Types, At
  <2> QED
    BY <2>1, <2>2, Stays DEF Replaced, Processes
<1>3. ASSUME NEW u \in Processes, Handler(u)
      PROVE  Replaced'
  <2>1. At' /\ \A v \in Processes \ {u} : op'[v] = op[v]
    BY <1>3, HandlerAt
  <2>2. CASE FreeCode(u)
    <3>1. op[u] # "load params" /\ op'[u] = "load code" /\ params' = params
      BY <2>2, WentOn DEF FreeCode, Types, Places
    <3> QED
      BY <2>1, <3>1, Stays DEF Replaced, Busy
  <2>3. CASE LoadCode(u)
    <3>1. /\ op[u] # "load params" /\ params' = params
          /\ instructions' = loads + 1 /\ freed' = freed
      BY <2>3 DEF LoadCode, Goto
    <3>2. loads + 1 \notin 1 .. loads
      BY Numbers
    <3>3. instructions' \notin freed'
      BY <3>1, <3>2 DEF Types, Blocks
    <3> QED
      BY <2>1, <3>1, <3>3, Stays DEF Replaced
  <2>4. CASE FreeParams(u)
    <3>1. op[u] # "load code" /\ op'[u] = "load params" /\ UNCHANGED <<instructions, freed>>
      BY <2>4, WentOn DEF FreeParams, Types, Places
    <3> QED
      BY <2>1, <3>1, Stays DEF Replaced, Busy
  <2>5. CASE LoadParams(u)
    <3>1. op[u] # "load code" /\ params' = "held" /\ UNCHANGED <<instructions, freed>>
      BY <2>5 DEF LoadParams, Goto
    <3> QED
      BY <2>1, <3>1, Stays DEF Replaced
  <2>6. CASE \/ RunRefused(u) \/ RunAccepted(u) \/ InitNetwork(u) \/ InitNetworkFails(u)
             \/ Spawn(u) \/ Assign(u) \/ StopReceiving(u) \/ StopReceivingGone(u)
             \/ FreeNetwork(u) \/ FreeNetworkFails(u) \/ StopThread(u)
             \/ StopThreadGone(u) \/ Stopped(u)
    <3>1. UNCHANGED <<instructions, freed, params>> /\ op[u] \notin {"load code", "load params"}
      BY <2>6 DEF RunRefused, RunAccepted, InitNetwork, InitNetworkFails, Spawn, Assign,
         StopReceiving, StopReceivingGone, FreeNetwork, FreeNetworkFails, StopThread,
         StopThreadGone, Stopped, Goto, files
    <3> QED
      BY <2>1, <3>1, Stays DEF Replaced
  <2>7. CASE LoadCodeFails(u)
    <3>1. op[u] # "load params" /\ instructions' = NULL /\ UNCHANGED <<freed, params>>
      BY <2>7 DEF LoadCodeFails, Goto
    <3>2. NULL \notin freed
      BY Numbers DEF Types, Blocks, NULL
    <3> QED
      BY <2>1, <3>1, <3>2, Stays DEF Replaced
  <2>8. CASE LoadParamsFails(u)
    <3>1. op[u] # "load code" /\ params' = "null" /\ UNCHANGED <<instructions, freed>>
      BY <2>8 DEF LoadParamsFails, Goto
    <3> QED
      BY <2>1, <3>1, Stays DEF Replaced
  <2> QED
    BY <1>3, <2>2, <2>3, <2>4, <2>5, <2>6, <2>7, <2>8 DEF Handler
<1>4. ASSUME NEW s \in Starts, Interpret(s) \/ Receive(s)
      PROVE  Replaced'
  <2>1. UNCHANGED <<instructions, freed, params, op>>
    BY <1>4, ThreadFrame DEF files, process
  <2> QED
    BY <2>1 DEF Replaced, Busy
<1>5. CASE UNCHANGED vars
  BY <1>5 DEF Replaced, Busy, vars, files, process
<1> QED
  BY <1>1, <1>2, <1>3, <1>4, <1>5 DEF Next

-----------------------------------------------------------------------------
(* One user.  One process at most is busy at a time.                       *)
LEMMA OthersIdle ==
  ASSUME Turns, Alone, NEW u \in Processes,
         op[u] # "idle" \/ (present /\ u \in group.users)
  PROVE  \A v \in Processes \ {u} : op[v] = "idle"
<1>1. PICK w \in Users : group.users = {w}
  BY DEF Alone
<1>2. \A v \in Users \ {w} : op[v] = "idle"
  BY <1>1 DEF Turns
<1>3. CASE present
  BY <1>1, <1>2, <1>3 DEF Turns, Processes
<1>4. CASE ~present
  BY <1>4 DEF Turns, Processes
<1> QED
  BY <1>3, <1>4

(* What is busy is then at the place of that process.                      *)
LEMMA Sole ==
  ASSUME NEW u \in Processes, \A v \in Processes \ {u} : op[v] = "idle"
  PROVE  /\ Busy(Destroyed) <=> op[u] \in Destroyed
         /\ Busy(Making) <=> op[u] \in Making
         /\ Busy(Starting) <=> op[u] \in Starting
         /\ Busy(Gone) <=> op[u] \in Gone
         /\ Busy(Ending) <=> op[u] \in Ending
         /\ Busy({"assign"}) <=> op[u] = "assign"
         /\ Busy({"load code"}) <=> op[u] = "load code"
BY DEF Busy, Destroyed, Making, Starting, Stopping, Gone, Ending

LEMMA SoleNext ==
  ASSUME NEW u \in Processes, \A v \in Processes \ {u} : op'[v] = "idle"
  PROVE  /\ Busy(Destroyed)' <=> op'[u] \in Destroyed
         /\ Busy(Making)' <=> op'[u] \in Making
         /\ Busy(Starting)' <=> op'[u] \in Starting
         /\ Busy(Gone)' <=> op'[u] \in Gone
         /\ Busy(Ending)' <=> op'[u] \in Ending
         /\ Busy({"assign"})' <=> op'[u] = "assign"
         /\ KnownBy(u)' => Known'
BY DEF Busy, Destroyed, Making, Starting, Stopping, Gone, Ending, Known, KnownBy, Storing

(* A step of u that concerns neither the threads nor what they use.        *)
LEMMA Aside ==
  ASSUME NEW u \in Processes, Types, Single,
         \A v \in Processes \ {u} : op[v] = "idle",
         \A v \in Processes \ {u} : op'[v] = "idle",
         UNCHANGED <<thread, starts, released, interp, recv, present>>,
         op[u] \in {"idle"} \cup Storing, op'[u] \in {"idle", "oops"} \cup Storing,
         op'[u] # "idle" => thread = NULL,
         op'[u] = "init network" =>
           (program = instructions /\ program # NULL /\ program \notin freed)',
         thread # NULL => UNCHANGED <<program, instructions, freed, at>>
  PROVE  Single'
<1>1. Known'
  BY SoleNext DEF KnownBy, Storing, Making, Stopping
<1>2. Handles'
  <2>1. \A s \in Starts : (Live(s)' <=> Live(s)) /\ (Receiving(s)' <=> Receiving(s))
    BY DEF Live, Receiving
  <2>2. ~Busy(Making) /\ ~Busy({"assign"}) /\ ~Busy(Gone) /\ ~Busy(Ending)
    BY Sole DEF Storing, Making, Stopping, Destroyed, Gone, Ending
  <2>3. ~Busy(Making)' /\ ~Busy({"assign"})' /\ ~Busy(Destroyed)'
    BY SoleNext DEF Storing, Making, Stopping, Destroyed
  <2>4. CASE thread = NULL
    <3>1. \A s \in Starts : ~Live(s) /\ ~Receiving(s)
      <4>1. \A s \in Starts : Live(s) \/ Receiving(s) => s = starts /\ thread = starts
        BY <2>2 DEF Single, Handles
      <4> QED
        BY <2>4, <4>1, Positive
    <3> QED
      BY <2>1, <2>3, <2>4, <3>1 DEF Handles
  <2>5. CASE thread # NULL
    BY <2>1, <2>2, <2>3, <2>5 DEF Single, Handles
  <2> QED
    BY <2>4, <2>5
<1>3. Fetched'
  <2>1. op'[u] \in Starting => op'[u] = "init network"
    BY DEF Storing, Making, Starting
  <2>2. Busy(Starting)' <=> op'[u] \in Starting
    BY SoleNext
  <2>3. CASE thread = NULL
    BY <2>1, <2>2, <2>3 DEF Fetched
  <2>4. CASE thread # NULL
    <3>1. program = instructions /\ program # NULL /\ program \notin freed
      BY <2>4 DEF Single, Fetched
    <3>2. UNCHANGED <<program, instructions, freed>>
      BY <2>4
    <3> QED
      BY <3>1, <3>2 DEF Fetched
  <2> QED
    BY <2>3, <2>4
<1> QED
  BY <1>1, <1>2, <1>3 DEF Single

(* Threads end of themselves, and go on.                                   *)
LEMMA ThreadSingle ==
  ASSUME Types, Single, NEW s \in Starts, Interpret(s) \/ Receive(s)
  PROVE  Single'
<1>1. UNCHANGED <<files, shared, process>>
  BY ThreadFrame
<1>2. \A t \in Starts : Live(t)' => Live(t)
  BY DEF Interpret, Schedule, Check, Instruction, UseNetwork, NetworkDone, Halt, Wake,
     InterpGoto, Receive, ReceiveMessage, Received, ReceivingFails, ReceivingEnds, Live, Types, Threads, threads
<1>3. \A t \in Starts : Receiving(t)' => Receiving(t)
  BY DEF Interpret, Schedule, Check, Instruction, UseNetwork, NetworkDone, Halt, Wake,
     InterpGoto, Receive, ReceiveMessage, Received, ReceivingFails, ReceivingEnds, Receiving, Types, Threads
<1>4. Known'
  BY <1>1 DEF Single, Known, KnownBy, shared, process
<1>5. Handles'
  BY <1>1, <1>2, <1>3 DEF Single, Handles, Busy, files, shared, process
<1>6. Fetched'
  BY <1>1 DEF Single, Fetched, Busy, files, shared, process
<1> QED
  BY <1>4, <1>5, <1>6 DEF Single

(* A stop begins while the module's handles name what runs.                *)
LEMMA StopSingle ==
  ASSUME NEW u \in Processes, Single, thread # NULL,
         \A v \in Processes \ {u} : op[v] = "idle",
         \A v \in Processes \ {u} : op'[v] = "idle",
         op[u] = "idle", op'[u] = "stop receiving",
         UNCHANGED <<program, instructions, freed, at, thread, starts, released, interp, recv>>
  PROVE  Single'
<1>1. Known'
  BY SoleNext DEF Single, Handles, KnownBy, Storing, Making, Stopping
<1>2. Handles'
  <2>1. \A s \in Starts : (Live(s)' <=> Live(s)) /\ (Receiving(s)' <=> Receiving(s))
    BY DEF Live, Receiving
  <2> QED
    BY <2>1, Sole, SoleNext DEF Single, Handles, Making, Stopping, Destroyed, Gone, Ending
<1>3. Fetched'
  BY SoleNext DEF Single, Fetched
<1> QED
  BY <1>1, <1>2, <1>3 DEF Single

LEMMA StoreSingle ==
  ASSUME Types, Turns, Alone, Single, NEW u \in group.users, Store(u)
  PROVE  Single'
<1>1. u \in Processes
  BY Numbers DEF Processes
<1>2. UNCHANGED <<files, shared, handle, threads>> /\ present /\ op[u] = "idle"
  BY StoreFrame
<1>3. \A v \in Processes \ {u} : op[v] = "idle"
  <2>1. present /\ u \in group.users
    BY <1>2
  <2> QED
    BY <1>1, <2>1, OthersIdle
<1>4. \A v \in Processes \ {u} : op'[v] = "idle"
  BY <1>3 DEF Store, StoreCode, StoreParams, StoreRun, StoreStop, Goto, Types, At
<1>5. UNCHANGED <<program, instructions, freed, at, thread, starts, released, interp, recv,
                  present>>
  BY <1>2 DEF files, shared, threads
<1>6. CASE StoreStop(u)
  <2>1. thread # NULL /\ op'[u] = "stop receiving"
    BY <1>1, <1>6, WentOn DEF StoreStop, is_running, Types, Places
  <2> QED
    BY <1>1, <1>2, <1>3, <1>4, <1>5, <2>1, StopSingle
<1>7. CASE StoreCode(u) \/ StoreParams(u) \/ StoreRun(u)
  <2>1. thread = NULL /\ op'[u] \in {"free code", "free params", "run"}
    BY <1>1, <1>7, WentOn DEF StoreCode, StoreParams, StoreRun, is_running, Types, Places
  <2>2. op'[u] \in Storing /\ op'[u] # "init network"
    BY <2>1 DEF Storing
  <2> QED
    BY <1>1, <1>2, <1>3, <1>4, <1>5, <2>1, <2>2, Aside
<1> QED
  BY <1>6, <1>7 DEF Store

LEMMA RemoveSingle ==
  ASSUME Types, Turns, Alone, Single, Remove
  PROVE  Single'
<1>1. Rmmod \in Processes
  BY DEF Processes
<1>2. /\ present /\ present' = FALSE /\ op[Rmmod] = "idle"
      /\ \A v \in group.users : op[v] = "idle"
      /\ UNCHANGED <<program, instructions, freed, at, thread, starts, released, interp,
                     recv>>
  BY DEF Remove, Goto, shared, threads
<1>3. \A v \in Processes \ {Rmmod} : op[v] = "idle"
  BY <1>2 DEF Turns, Processes
<1>4. \A v \in Processes \ {Rmmod} : op'[v] = "idle"
  BY <1>3 DEF Remove, Goto, Types, At
<1>5. op'[Rmmod] = IF thread # NULL THEN "stop receiving" ELSE "idle"
  BY <1>1 DEF Remove, Goto, is_running, Types, At
<1>6. CASE thread # NULL
  BY <1>1, <1>2, <1>3, <1>4, <1>5, <1>6, StopSingle
<1>7. CASE thread = NULL
  <2>1. Known'
    BY <1>1, <1>4, <1>5, <1>7, SoleNext DEF KnownBy, Storing, Making, Stopping
  <2>2. Handles'
    <3>1. \A s \in Starts : (Live(s)' <=> Live(s)) /\ (Receiving(s)' <=> Receiving(s))
      BY <1>2 DEF Live, Receiving
    <3> QED
      BY <1>1, <1>2, <1>3, <1>4, <1>5, <1>7, <3>1, Sole, SoleNext
         DEF Single, Handles, Making, Stopping, Destroyed, Gone, Ending
  <2>3. Fetched'
    BY <1>1, <1>2, <1>4, <1>5, <1>7, SoleNext DEF Fetched, Starting, Making
  <2> QED
    BY <2>1, <2>2, <2>3 DEF Single
<1> QED
  BY <1>6, <1>7

(* Where a thread is being made there is none, and where one is known to   *)
(* have ended there is none of its kind.                                   *)
LEMMA NoThread ==
  ASSUME Types, Handles, thread = NULL, ~Busy(Making)
  PROVE  \A s \in Starts : ~Live(s) /\ ~Receiving(s)
<1>1. ~Busy({"assign"})
  BY DEF Busy, Making
<1> QED
  BY <1>1 DEF Handles, Starts, NULL

LEMMA HandlerSingle ==
  ASSUME Types, Turns, Replaced, Alone, Single, NEW u \in Processes, Handler(u)
  PROVE  Single'
<1>1. /\ \A v \in Processes \ {u} : op'[v] = op[v]
      /\ op[u] # "idle"
  BY HandlerAt
<1>2. \A v \in Processes \ {u} : op[v] = "idle"
  BY <1>1, OthersIdle
<1>3. \A v \in Processes \ {u} : op'[v] = "idle"
  BY <1>1, <1>2
<1>4. KnownBy(u)
  BY DEF Single, Known
<1>5. thread \in {NULL, starts} /\ starts \in 0 .. MaxStarts /\ starts \in Nat
  BY Numbers DEF Single, Handles
<1>6. CASE \/ FreeCode(u) \/ LoadCode(u) \/ LoadCodeFails(u) \/ FreeParams(u)
           \/ LoadParams(u) \/ LoadParamsFails(u) \/ RunRefused(u) \/ InitNetworkFails(u)
  <2>1. /\ op[u] \in Storing
        /\ op'[u] \in {"load code", "load params", "idle", "oops"}
    BY <1>6, WentOn DEF FreeCode, LoadCode, LoadCodeFails, FreeParams, LoadParams,
       LoadParamsFails, RunRefused, InitNetworkFails, Types, Places, Storing
  <2>2. UNCHANGED <<thread, starts, released, interp, recv, present>>
    BY <1>6 DEF FreeCode, LoadCode, LoadCodeFails, FreeParams, LoadParams, LoadParamsFails,
       RunRefused, InitNetworkFails, files, shared, threads
  <2>3. thread = NULL
    BY <1>4, <2>1 DEF KnownBy
  <2>4. op'[u] \in {"idle", "oops"} \cup Storing /\ op'[u] # "init network"
    BY <2>1 DEF Storing
  <2> QED
    BY <1>2, <1>3, <2>1, <2>2, <2>3, <2>4, Aside
<1>7. CASE RunAccepted(u)
  <2>1. /\ op[u] = "run" /\ op'[u] = "init network"
        /\ instructions # NULL /\ program' = instructions
        /\ UNCHANGED <<instructions, freed>>
        /\ UNCHANGED <<thread, starts, released, interp, recv, present>>
    BY <1>7, WentOn DEF RunAccepted, Types, Places, files, threads
  <2>2. thread = NULL
    BY <1>4, <2>1 DEF KnownBy, Storing
  <2>3. instructions \notin freed
    BY <1>2, <2>1, Sole DEF Replaced
  <2>4. op[u] \in Storing /\ op'[u] \in Storing
    BY <2>1 DEF Storing
  <2>5. (program = instructions /\ program # NULL /\ program \notin freed)'
    BY <2>1, <2>3
  <2> QED
    BY <1>2, <1>3, <2>1, <2>2, <2>4, <2>5, Aside
<1>8. CASE InitNetwork(u)
  <2>1. /\ op[u] = "init network" /\ op'[u] = "spawn"
        /\ starts' = starts + 1 /\ at' = starts + 1
        /\ \E made \in {"check", "failed"} : recv' = [recv EXCEPT ![starts + 1] = made]
        /\ handle' = [handle EXCEPT ![u] = starts + 1]
        /\ UNCHANGED <<program, instructions, freed, thread, released, interp, present>>
    BY <1>8, WentOn DEF InitNetwork, Types, Places, files
  <2>2. thread = NULL
    BY <1>4, <2>1 DEF KnownBy, Storing
  <2>3. \A s \in Starts : ~Live(s) /\ ~Receiving(s)
    BY <1>2, <2>1, <2>2, Sole, NoThread DEF Single, Making
  <2>4. starts + 1 # NULL /\ starts + 1 \notin released
    <3>1. starts + 1 # NULL /\ starts + 1 \notin 1 .. starts
      BY <1>5 DEF NULL
    <3> QED
      BY <3>1 DEF Types, Numbered
  <2>5. handle'[u] = starts + 1
    BY <2>1 DEF Types, Numbered
  <2>6. Known'
    BY <1>3, <2>1, <2>2, <2>4, <2>5, SoleNext DEF KnownBy, Storing, Making, Stopping
  <2>7. Handles'
    <3>1. \A s \in Starts : ~Live(s)' /\ (Receiving(s)' => s = starts')
      BY <2>1, <2>3 DEF Live, Receiving, Types, Threads
    <3>2. Busy(Making)'
      BY <1>3, <2>1, SoleNext DEF Making
    <3>3. present
      BY <2>1 DEF Turns, Stopping, Processes
    <3> QED
      BY <2>1, <2>2, <2>4, <3>1, <3>2, <3>3 DEF Handles
  <2>8. Fetched'
    BY <1>2, <2>1, Sole DEF Single, Fetched, Starting
  <2> QED
    BY <2>6, <2>7, <2>8 DEF Single
<1>9. CASE Spawn(u)
  <2>1. /\ op[u] = "spawn" /\ op'[u] = "assign"
        /\ \E made \in {"created", "failed"} : interp' = [interp EXCEPT ![handle[u]] = made]
        /\ UNCHANGED <<program, instructions, freed, at, thread, starts, released, recv,
                       present, handle>>
    BY <1>9, WentOn DEF Spawn, Types, Places, files, shared
  <2>2. thread = NULL /\ starts # NULL /\ handle[u] = starts
    BY <1>4, <2>1 DEF KnownBy, Making
  <2>3. Known'
    BY <1>3, <2>1, <2>2, SoleNext DEF KnownBy, Storing, Making, Stopping
  <2>4. Busy(Making) /\ Busy(Starting) /\ ~Busy({"assign"}) /\ ~Busy(Gone)
    BY <1>2, <2>1, Sole DEF Making, Starting, Destroyed, Gone
  <2>5. Busy(Making)' /\ Busy({"assign"})' /\ ~Busy(Destroyed)'
    BY <1>3, <2>1, SoleNext DEF Making, Destroyed
  <2>6. Handles'
    <3>1. \A s \in Starts :
            (Live(s)' => s = starts) /\ (Receiving(s)' => s = starts /\ at = starts)
      BY <2>1, <2>2, <2>4 DEF Live, Receiving, Types, Threads, Single, Handles
    <3>2. starts \notin released /\ present
      BY <2>1, <2>4 DEF Single, Handles, Turns, Stopping, Processes
    <3> QED
      BY <2>1, <2>2, <2>5, <3>1, <3>2 DEF Handles
  <2>7. Fetched'
    BY <2>1, <2>4 DEF Single, Fetched
  <2> QED
    BY <2>3, <2>6, <2>7 DEF Single
<1>10. CASE Assign(u)
  <2>1. /\ op[u] = "assign" /\ op'[u] = "idle" /\ thread' = handle[u]
        /\ UNCHANGED <<program, instructions, freed, at, starts, released, interp, recv,
                       present>>
    BY <1>10, WentOn DEF Assign, Types, Places, files, threads
  <2>2. thread = NULL /\ starts # NULL /\ handle[u] = starts
    BY <1>4, <2>1 DEF KnownBy, Making
  <2>3. Known'
    BY <1>3, <2>1, SoleNext DEF KnownBy, Storing, Making, Stopping
  <2>4. Busy(Making) /\ Busy(Starting) /\ ~Busy(Gone)
    BY <1>2, <2>1, Sole DEF Making, Starting, Destroyed, Gone
  <2>5. ~Busy(Destroyed)' /\ ~Busy(Making)' /\ ~Busy(Starting)'
    BY <1>3, <2>1, SoleNext DEF Making, Starting, Destroyed
  <2>6. present
    BY <2>1 DEF Turns, Stopping, Processes
  <2>7. Handles'
    <3>1. \A s \in Starts :
            (Live(s)' => s = starts) /\ (Receiving(s)' => s = starts /\ at = starts)
      BY <2>1 DEF Live, Receiving, Single, Handles
    <3>2. starts \notin released
      BY <2>4 DEF Single, Handles
    <3> QED
      BY <2>1, <2>2, <2>5, <2>6, <3>1, <3>2 DEF Handles
  <2>8. Fetched'
    BY <2>1, <2>4 DEF Single, Fetched
  <2> QED
    BY <2>3, <2>7, <2>8 DEF Single
<1>11. CASE StopReceiving(u)
  <2>1. /\ op[u] = "stop receiving" /\ op'[u] = "await receiving"
        /\ handle' = [handle EXCEPT ![u] = receiving_thread]
        /\ UNCHANGED <<program, instructions, freed, at, thread, starts, released, interp, recv,
                       present>>
    BY <1>11, WentOn DEF StopReceiving, Types, Places, files, shared
  <2>2. thread = starts /\ starts # NULL
    BY <1>4, <2>1 DEF KnownBy, Stopping, Types, At
  <2>3. handle'[u] = starts
    BY <2>1 DEF Types, Numbered
  <2>4. Known'
    BY <1>3, <2>1, <2>2, <2>3, SoleNext DEF KnownBy, Storing, Making, Stopping
  <2>5. /\ ~Busy(Making) /\ ~Busy({"assign"}) /\ ~Busy(Gone)
        /\ ~Busy(Making)' /\ ~Busy({"assign"})' /\ ~Busy(Destroyed)' /\ Busy(Ending)'
    BY <1>2, <1>3, <2>1, Sole, SoleNext DEF Making, Stopping, Destroyed, Gone, Ending
  <2>6. Handles'
    <3>1. \A s \in Starts :
            (Live(s)' => s = starts) /\ (Receiving(s)' => s = starts /\ at = starts)
      BY <2>1 DEF Live, Receiving, Single, Handles
    <3>2. starts \notin released
      BY <2>2, <2>5 DEF Single, Handles
    <3> QED
      BY <2>1, <2>2, <2>5, <3>1, <3>2 DEF Handles
  <2>7. Fetched'
    BY <2>1, <2>2 DEF Single, Fetched
  <2> QED
    BY <2>4, <2>6, <2>7 DEF Single
<1>12. CASE FreeNetwork(u) \/ FreeNetworkFails(u)
  <2>1. /\ op[u] = "await receiving" /\ op'[u] \in {"stop thread", "oops"}
        /\ recv[handle[u]] = "exited"
        /\ UNCHANGED <<program, instructions, freed, thread, starts, interp, recv, present,
                       handle>>
    BY <1>12, WentOn DEF FreeNetwork, FreeNetworkFails, Types, Places, files, threads
  <2>2. thread = starts /\ starts # NULL /\ handle[u] = starts
    BY <1>4, <2>1 DEF KnownBy, Stopping, Types, At
  <2>3. Known'
    BY <1>3, <2>1, <2>2, SoleNext DEF KnownBy, Storing, Making, Stopping
  <2>4. ~Busy({"assign"}) /\ Busy(Gone)' /\ Busy(Ending)'
    BY <1>2, <1>3, <2>1, Sole, SoleNext DEF Stopping, Destroyed, Gone, Ending
  <2>5. Handles'
    <3>1. \A s \in Starts : (Live(s)' => s = starts) /\ ~Receiving(s)'
      BY <2>1, <2>2 DEF Live, Receiving, Single, Handles
    <3> QED
      BY <2>1, <2>2, <2>4, <3>1 DEF Handles
  <2>6. Fetched'
    BY <2>1, <2>2 DEF Single, Fetched
  <2> QED
    BY <2>3, <2>5, <2>6 DEF Single
<1>13. CASE StopThread(u)
  <2>1. /\ op[u] = "stop thread" /\ op'[u] = "await thread"
        /\ handle' = [handle EXCEPT ![u] = thread]
        /\ UNCHANGED <<program, instructions, freed, thread, starts, released, recv, present>>
    BY <1>13, WentOn DEF StopThread, Types, Places, files, shared
  <2>2. thread = starts /\ starts # NULL
    BY <1>4, <2>1 DEF KnownBy, Stopping, Types, At
  <2>3. handle'[u] = starts
    BY <2>1, <2>2 DEF Types, Numbered
  <2>4. Known'
    BY <1>3, <2>1, <2>2, <2>3, SoleNext DEF KnownBy, Storing, Making, Stopping
  <2>5. Busy(Destroyed) /\ ~Busy(Making) /\ Busy(Gone)' /\ Busy(Ending)'
    BY <1>2, <1>3, <2>1, Sole, SoleNext DEF Making, Stopping, Destroyed, Gone, Ending
  <2>6. Handles'
    <3>1. \A s \in Starts : Live(s)' => Live(s)
      BY <1>13 DEF StopThread, Live, Types, Threads
    <3>2. \A s \in Starts : ~Receiving(s)'
      BY <2>1, <2>5 DEF Receiving, Single, Handles
    <3>3. \A s \in Starts : Live(s) => s = starts
      BY DEF Single, Handles
    <3> QED
      BY <2>1, <2>2, <2>5, <3>1, <3>2, <3>3 DEF Handles
  <2>7. Fetched'
    BY <2>1, <2>2 DEF Single, Fetched
  <2> QED
    BY <2>4, <2>6, <2>7 DEF Single
<1>14. CASE StopReceivingGone(u) \/ StopThreadGone(u)
  <2>1. /\ op[u] \in {"stop receiving", "stop thread"} /\ op'[u] = "oops"
        /\ UNCHANGED <<program, instructions, freed, at, thread, starts, released, interp, recv,
                       present>>
    BY <1>14, WentOn DEF StopReceivingGone, StopThreadGone, Types, Places, files, shared,
       threads
  <2>2. thread = starts /\ starts # NULL
    BY <1>4, <2>1 DEF KnownBy, Stopping, Types, At
  <2>3. Known'
    BY <1>3, <2>1, <2>2, SoleNext DEF KnownBy, Storing, Making, Stopping
  <2>4. ~Busy(Making) /\ ~Busy({"assign"}) /\ Busy(Gone)' /\ Busy(Ending)'
    BY <1>2, <1>3, <2>1, Sole, SoleNext DEF Making, Gone, Ending
  <2>5. Handles'
    <3>1. \A s \in Starts : (Live(s)' <=> Live(s)) /\ (Receiving(s)' <=> Receiving(s))
      BY <2>1 DEF Live, Receiving
    <3>2. \A s \in Starts : ~Receiving(s)
      <4>1. CASE op[u] = "stop receiving"
        <5>1. recv[starts] \in {"failed", "exited"}
          BY <1>14, <4>1 DEF StopReceivingGone, StopThreadGone, Goto, Types, Numbered
        <5> QED
          BY <5>1 DEF Receiving, Single, Handles
      <4>2. CASE op[u] = "stop thread"
        <5>1. Busy(Destroyed)
          BY <4>2 DEF Busy, Destroyed
        <5> QED
          BY <2>4, <5>1 DEF Single, Handles
      <4> QED
        BY <2>1, <4>1, <4>2
    <3>3. \A s \in Starts : Live(s) => s = starts
      BY DEF Single, Handles
    <3> QED
      BY <2>1, <2>2, <2>4, <3>1, <3>2, <3>3 DEF Handles
  <2>6. Fetched'
    BY <2>1, <2>2 DEF Single, Fetched
  <2> QED
    BY <2>3, <2>5, <2>6 DEF Single
<1>15. CASE Stopped(u)
  <2>1. /\ op[u] = "await thread" /\ op'[u] = "idle"
        /\ interp[handle[u]] = "exited" /\ thread' = NULL
        /\ UNCHANGED <<program, instructions, freed, starts, released, interp, recv, present>>
    BY <1>15, WentOn DEF Stopped, Types, Places, files, threads
  <2>2. handle[u] = starts
    BY <1>4, <2>1 DEF KnownBy
  <2>3. Known'
    BY <1>3, <2>1, SoleNext DEF KnownBy, Storing, Making, Stopping
  <2>4. Busy(Destroyed) /\ ~Busy(Making) /\ ~Busy(Making)' /\ ~Busy(Starting)'
    BY <1>2, <1>3, <2>1, Sole, SoleNext DEF Making, Starting, Destroyed
  <2>5. Handles'
    <3>1. \A s \in Starts : ~Live(s)' /\ ~Receiving(s)'
      BY <2>1, <2>2, <2>4 DEF Live, Receiving, Single, Handles
    <3> QED
      BY <2>1, <2>4, <3>1 DEF Handles
  <2>6. Fetched'
    BY <2>1, <2>4 DEF Fetched
  <2> QED
    BY <2>3, <2>5, <2>6 DEF Single
<1> QED
  BY <1>6, <1>7, <1>8, <1>9, <1>10, <1>11, <1>12, <1>13, <1>14, <1>15 DEF Handler

-----------------------------------------------------------------------------
LEMMA SameGroup == [Next]_vars => group' = group
BY DEF Next, Store, StoreCode, StoreParams, StoreRun, StoreStop, Remove, Handler, FreeCode,
   LoadCode, LoadCodeFails, FreeParams, LoadParams, LoadParamsFails, RunRefused, RunAccepted,
   InitNetwork, InitNetworkFails, Spawn, Assign, StopReceiving, StopReceivingGone, FreeNetwork,
   FreeNetworkFails, StopThread, StopThreadGone, Stopped, Interpret, Schedule, Check,
   Instruction, UseNetwork, NetworkDone, Halt, Wake, InterpGoto, Receive, ReceiveMessage,
   Received, ReceivingFails, ReceivingEnds, files, vars

LEMMA NextInvariant == IInv /\ [Next]_vars => IInv'
<1> SUFFICES ASSUME IInv, [Next]_vars PROVE IInv'
  OBVIOUS
<1>1. Types' /\ Turns' /\ Replaced'
  BY NextTypes, NextTurns, NextReplaced DEF IInv
<1>2. ASSUME Alone PROVE Single'
  <2>1. Types /\ Turns /\ Replaced /\ Single
    BY <1>2 DEF IInv
  <2>2. ASSUME NEW u \in group.users, Store(u) PROVE Single'
    BY <1>2, <2>1, <2>2, StoreSingle
  <2>3. ASSUME Remove PROVE Single'
    BY <1>2, <2>1, <2>3, RemoveSingle
  <2>4. ASSUME NEW u \in Processes, Handler(u) PROVE Single'
    BY <1>2, <2>1, <2>4, HandlerSingle
  <2>5. ASSUME NEW s \in Starts, Interpret(s) \/ Receive(s) PROVE Single'
    BY <2>1, <2>5, ThreadSingle
  <2>6. CASE UNCHANGED vars
    BY <2>1, <2>6 DEF Single, Known, KnownBy, Handles, Fetched, Busy, Live, Receiving, vars,
       files, shared, process, threads
  <2> QED
    BY <2>2, <2>3, <2>4, <2>5, <2>6 DEF Next
<1>3. Alone' => Alone
  BY SameGroup DEF Alone
<1> QED
  BY <1>1, <1>2, <1>3 DEF IInv

THEOREM Inductive == Spec => []IInv
<1> QED
  BY InitInvariant, NextInvariant, PTL DEF Spec

(* Types, and for one user at most one interpreter and one receiving       *)
(* thread, whatever is written while they are made or stopped              *)
(* (start_interpreter, stop_interpreter): all belong to the last start.    *)
THEOREM StartedOnce == Spec => []OneOfEach
<1>1. IInv => OneOfEach
  BY TypesTypeOK DEF IInv, Single, Handles, OneOfEach, OneInterpreter, OneReceiver
<1> QED
  BY <1>1, Inductive, PTL

(* For one user no program is freed while a thread fetches from it, and no *)
(* channels while a thread receives from them (ncm_sysfs_store,            *)
(* destroy_network), for any number of programs and starts.                *)
THEOREM HeldWhileUsed == Spec => []BlocksHeld
<1>1. ASSUME IInv, Alone PROVE CodeHeld
  <2>1. ASSUME NEW s \in Starts, Live(s) PROVE program \notin freed \cup {NULL}
    <3>1. s = starts /\ (thread = starts \/ Busy({"assign"}))
      BY <1>1, <2>1 DEF IInv, Single, Handles
    <3>2. s # NULL
      BY DEF Starts, NULL
    <3>3. Busy({"assign"}) => Busy(Starting)
      BY DEF Busy, Starting, Making
    <3> QED
      BY <1>1, <3>1, <3>2, <3>3 DEF IInv, Single, Fetched
  <2> QED
    BY <2>1 DEF CodeHeld
<1>2. ASSUME IInv, Alone PROVE NetworkHeld
  <2>1. ASSUME NEW s \in Starts, Receiving(s) PROVE at = s /\ s \notin released
    BY <1>2, <2>1 DEF IInv, Single, Handles
  <2>2. ASSUME NEW s \in Starts, interp[s] = "network", at \in released
        PROVE  \E u \in Processes : op[u] \in {"stop thread", "await thread", "oops"}
    <3>1. Live(s)
      BY <2>2 DEF Live
    <3>2. s = starts /\ (thread = starts \/ Busy({"assign"}))
      BY <1>2, <3>1 DEF IInv, Single, Handles
    <3>3. starts \in released
      <4>1. at \in {NULL, starts} /\ released \subseteq 1 .. starts /\ starts \in Nat
        BY <1>2, Numbers DEF IInv, Types, Numbered
      <4> QED
        BY <2>2, <4>1 DEF NULL
    <3>4. Busy(Gone)
      BY <1>2, <3>2, <3>3 DEF IInv, Single, Handles, Starts, NULL, Busy, Making
    <3> QED
      BY <3>4 DEF Busy, Destroyed, Gone
  <2> QED
    BY <2>1, <2>2 DEF NetworkHeld
<1>3. IInv => BlocksHeld
  BY <1>1, <1>2 DEF BlocksHeld
<1> QED
  BY <1>3, Inductive, PTL

(* For one user nothing is left running that no handle names, and nothing  *)
(* at all once the module is removed (cleanup_module).                     *)
THEOREM NothingLeft == Spec => []NoOrphan
<1>1. ASSUME IInv, Alone, Quiet, NEW s \in Starts, Live(s) \/ Receiving(s)
      PROVE  present /\ thread = s /\ receiving_thread = s
  <2>1. ~Busy({"assign"}) /\ ~Busy(Making) /\ ~Busy(Ending)
    BY <1>1 DEF Quiet, Busy, Making, Stopping, Ending
  <2>2. s = starts /\ thread = starts
    BY <1>1, <2>1 DEF IInv, Single, Handles
  <2>3. present
    BY <1>1, <2>1, <2>2 DEF IInv, Single, Handles, Starts, NULL
  <2> QED
    BY <1>1, <2>2, <2>3 DEF IInv, Types, Numbered
<1>2. IInv => NoOrphan
  BY <1>1 DEF NoOrphan
<1> QED
  BY <1>2, Inductive, PTL

(* Between writes the program and parameters to start with are never       *)
(* blocks that were freed, for any number of users (ncm_sysfs_store).      *)
THEOREM NeverFreed == Spec => []Settled
<1>1. IInv => Settled
  BY DEF IInv, Replaced, Settled, Quiet, Busy
<1> QED
  BY <1>1, Inductive, PTL

-----------------------------------------------------------------------------
(* Control implements Session for one user.                                *)
Runs == \E s \in Starts : Live(s)
Loaded == IF Alone THEN instructions ELSE NULL
Running == IF Alone /\ Runs THEN program ELSE NULL

LEMMA InitRefines == Init => S!Init
BY DEF Init, S!Init, S!None, Live, NULL, Starts

LEMMA NoneIsNull == S!None = NULL
BY DEF S!None, NULL

(* While something runs, what is started with does not change.             *)
LEMMA RunsHolds ==
  ASSUME IInv, Alone, Runs
  PROVE  program = instructions /\ program # NULL /\ (thread # NULL \/ Busy({"assign"}))
<1>1. PICK s \in Starts : Live(s)
  BY DEF Runs
<1>2. s = starts /\ (thread = starts \/ Busy({"assign"}))
  BY <1>1 DEF IInv, Single, Handles
<1>3. thread # NULL \/ Busy({"assign"})
  BY <1>2 DEF Starts, NULL
<1>4. thread # NULL \/ Busy(Starting)
  BY <1>3 DEF Busy, Starting, Making
<1> QED
  BY <1>3, <1>4 DEF IInv, Single, Fetched

(* What else a step does to a program that runs or is loaded, it does to   *)
(* neither.                                                                *)
LEMMA SameSession ==
  ASSUME group' = group, instructions' = instructions, Runs' <=> Runs,
         Runs => program' = program
  PROVE  UNCHANGED <<Loaded, Running>>
BY DEF Loaded, Running, Alone

LEMMA ThreadRefines ==
  ASSUME IInv, NEW s \in Starts, Interpret(s) \/ Receive(s)
  PROVE  S!Next \/ UNCHANGED <<Loaded, Running>>
<1>1. UNCHANGED <<group, instructions, program>>
  BY ThreadFrame DEF files, shared
<1>2. \A t \in Starts : Live(t)' => Live(t)
  BY DEF Interpret, Schedule, Check, Instruction, UseNetwork, NetworkDone, Halt, Wake,
     InterpGoto, Receive, ReceiveMessage, Received, ReceivingFails, ReceivingEnds, Live, IInv, Types, Threads,
     threads
<1>3. Runs' => Runs
  BY <1>2 DEF Runs
<1>4. CASE (Runs' <=> Runs) \/ ~Alone
  BY <1>1, <1>4 DEF Loaded, Running, Alone
<1>5. CASE Alone /\ Runs /\ ~Runs'
  <2>1. program # NULL
    BY <1>5, RunsHolds
  <2>2. Running = program /\ Running' = NULL /\ Loaded' = Loaded
    BY <1>1, <1>5 DEF Loaded, Running, Alone
  <2>3. S!End
    BY <2>1, <2>2 DEF S!End, S!None, NULL, Loaded, Running, Runs
  <2> QED
    BY <2>3 DEF S!Next
<1> QED
  BY <1>3, <1>4, <1>5

LEMMA HandlerRefines ==
  ASSUME IInv, NEW u \in Processes, Handler(u), group' = group
  PROVE  S!Next \/ UNCHANGED <<Loaded, Running>>
<1>1. CASE ~Alone
  BY <1>1 DEF Loaded, Running, Alone
<1>2. ASSUME Alone
      PROVE  S!Next \/ UNCHANGED <<Loaded, Running>>
  <2>1. Alone' /\ Types /\ Turns /\ Single /\ KnownBy(u)
    BY <1>2 DEF Alone, IInv, Single, Known
  <2>2. \A v \in Processes \ {u} : op[v] = "idle"
    <3>1. op[u] # "idle"
      BY <2>1, HandlerAt
    <3> QED
      BY <1>2, <2>1, <3>1, OthersIdle
  <2>3. CASE LoadCode(u)
    <3>1. op[u] = "load code" /\ loads < group.loads
          /\ instructions' = loads + 1 /\ UNCHANGED <<interp, program>>
      BY <2>3 DEF LoadCode, Goto, shared, threads
    <3>2. ~Runs
      <4>1. thread = NULL /\ ~Busy({"assign"})
        BY <2>1, <2>2, <3>1, Sole DEF KnownBy, Storing
      <4> QED
        BY <1>2, <4>1, RunsHolds
    <3>3. ~Runs'
      BY <3>1, <3>2 DEF Runs, Live
    <3>4. loads + 1 \in 1 .. MaxLoads
      <4>1. loads \in Nat /\ MaxLoads \in Nat /\ group.loads \in 0 .. MaxLoads
        BY <2>1, Numbers
      <4>2. loads < group.loads
        BY <3>1
      <4> HIDE <2>3, <3>1
      <4> QED
        BY <4>1, <4>2
    <3>5. S!Load(loads + 1)
      BY <1>2, <2>1, <3>1, <3>2, <3>3 DEF S!Load, S!None, NULL, Runs
    <3> QED
      BY <3>4, <3>5 DEF S!Next
  <2>4. CASE Spawn(u)
    <3>1. /\ op[u] = "spawn"
          /\ \/ interp' = [interp EXCEPT ![handle[u]] = "created"]
             \/ interp' = [interp EXCEPT ![handle[u]] = "failed"]
          /\ UNCHANGED <<instructions, program>>
      BY <2>4 DEF Spawn, Goto, files, shared
    <3>2. thread = NULL /\ starts # NULL /\ handle[u] = starts /\ ~Busy({"assign"})
          /\ Busy(Starting)
      BY <2>1, <2>2, <3>1, Sole DEF KnownBy, Making, Starting
    <3>3. ~Runs
      BY <1>2, <3>2, RunsHolds
    <3>4. starts \in Starts
      BY <2>1, <3>2, Numbers DEF Starts, NULL
    <3>5. CASE interp' = [interp EXCEPT ![handle[u]] = "created"]
      <4>1. Runs'
        BY <2>1, <3>2, <3>4, <3>5 DEF Runs, Live, Types, Threads
      <4>2. program = instructions /\ program # NULL
        BY <2>1, <3>2 DEF Single, Fetched
      <4>3. S!Run
        BY <1>2, <2>1, <3>1, <3>3, <4>1, <4>2 DEF S!Run, S!None, NULL, Runs
      <4> QED
        BY <4>3 DEF S!Next
    <3>6. CASE interp' = [interp EXCEPT ![handle[u]] = "failed"]
      <4>1. ~Runs'
        BY <2>1, <3>3, <3>6 DEF Runs, Live, Types, Threads
      <4> QED
        BY <3>1, <3>3, <4>1, SameSession
    <3> QED
      BY <3>1, <3>5, <3>6
  <2>5. CASE RunAccepted(u)
    <3>1. op[u] = "run" /\ UNCHANGED <<instructions, interp>>
      BY <2>5 DEF RunAccepted, Goto, files, threads
    <3>2. thread = NULL /\ ~Busy({"assign"})
      BY <2>1, <2>2, <3>1, Sole DEF KnownBy, Storing
    <3>3. ~Runs
      BY <1>2, <3>2, RunsHolds
    <3>4. ~Runs'
      BY <3>1, <3>3 DEF Runs, Live
    <3> QED
      BY <3>1, <3>3, <3>4, SameSession
  <2>6. CASE StopThread(u)
    <3>1. UNCHANGED <<instructions, program>>
      BY <2>6 DEF StopThread, files, shared
    <3>2. \A s \in Starts : Live(s)' <=> Live(s)
      BY <2>1, <2>6 DEF StopThread, Live, Types, Threads
    <3> QED
      BY <3>1, <3>2, SameSession DEF Runs
  <2>7. CASE LoadCodeFails(u)
    <3>1. op[u] = "load code" /\ instructions' = NULL /\ UNCHANGED <<interp, program>>
      BY <2>7 DEF LoadCodeFails, Goto, shared, threads
    <3>2. ~Runs
      <4>1. thread = NULL /\ ~Busy({"assign"})
        BY <2>1, <2>2, <3>1, Sole DEF KnownBy, Storing
      <4> QED
        BY <1>2, <4>1, RunsHolds
    <3>3. ~Runs'
      BY <3>1, <3>2 DEF Runs, Live
    <3>4. S!Lose
      BY <1>2, <2>1, <3>1, <3>2, <3>3 DEF S!Lose, S!None, NULL, Runs
    <3> QED
      BY <3>4 DEF S!Next
  <2>8. CASE \/ FreeCode(u) \/ FreeParams(u) \/ LoadParams(u) \/ LoadParamsFails(u)
             \/ RunRefused(u) \/ InitNetwork(u) \/ InitNetworkFails(u) \/ Assign(u)
             \/ StopReceiving(u) \/ StopReceivingGone(u) \/ FreeNetwork(u)
             \/ FreeNetworkFails(u) \/ StopThreadGone(u) \/ Stopped(u)
    <3>1. UNCHANGED <<instructions, program, interp>>
      BY <2>8 DEF FreeCode, FreeParams, LoadParams, LoadParamsFails, RunRefused, InitNetwork,
         InitNetworkFails, Assign, StopReceiving, StopReceivingGone, FreeNetwork,
         FreeNetworkFails, StopThreadGone, Stopped, files, shared, threads
    <3> QED
      BY <3>1, SameSession DEF Runs, Live
  <2> QED
    BY <2>3, <2>4, <2>5, <2>6, <2>7, <2>8 DEF Handler
<1> QED
  BY <1>1, <1>2

LEMMA NextRefines == IInv /\ [Next]_vars => [S!Next]_<<Loaded, Running>>
<1> SUFFICES ASSUME IInv, [Next]_vars PROVE S!Next \/ UNCHANGED <<Loaded, Running>>
  OBVIOUS
<1>1. ASSUME NEW u \in group.users, Store(u)
      PROVE  S!Next \/ UNCHANGED <<Loaded, Running>>
  BY <1>1, StoreFrame, SameSession DEF files, shared, threads, Runs, Live
<1>2. CASE Remove
  BY <1>2, SameSession DEF Remove, shared, threads, Runs, Live
<1>3. ASSUME NEW u \in Processes, Handler(u)
      PROVE  S!Next \/ UNCHANGED <<Loaded, Running>>
  BY <1>3, SameGroup, HandlerRefines
<1>4. ASSUME NEW s \in Starts, Interpret(s) \/ Receive(s)
      PROVE  S!Next \/ UNCHANGED <<Loaded, Running>>
  BY <1>4, ThreadRefines
<1>5. CASE UNCHANGED vars
  BY <1>5, SameSession DEF vars, files, shared, threads, Runs, Live
<1> QED
  BY <1>1, <1>2, <1>3, <1>4, <1>5 DEF Next

(* The threads, handles and steps of the code implement Session: for one   *)
(* user what runs is what was loaded last, it is not replaced while it     *)
(* runs, and one program runs at a time (ncm_sysfs_store).                 *)
THEOREM Implements == Spec => ImplementsSession
<1>1. IInv /\ [Next]_vars => [S!Next]_S!vars
  BY NextRefines DEF S!vars, Loaded, Running, Runs
<1> QED
  BY <1>1, Inductive, InitRefines, PTL DEF Spec, ImplementsSession, S!Spec
=============================================================================
