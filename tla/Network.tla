------------------------------- MODULE Network -------------------------------
(***************************************************************************)
(* The network of an interpreter (nc_net.c).  A thread receives frames and *)
(* queues those that come from the address of a channel; the interpreter's *)
(* thread takes messages off the queues, makes packets in the slots of the *)
(* message space and gives them to a driver, and waits for syncs.          *)
(*                                                                         *)
(* A message is the frame it was received in, with a number that tells it  *)
(* from the others.  The life of the threads belongs to Control, the mode  *)
(* is NC_HARD (nothing sets it to soft).                                   *)
(*                                                                         *)
(* External: a packet socket holds frames up to a limit and drops what     *)
(* comes then, whatever its protocol; kmalloc returns memory as it was     *)
(* left; a driver takes a packet or answers that it is busy.               *)
(***************************************************************************)
EXTENDS Integers, Sequences, SequencesExt, FiniteSets

CONSTANTS
  channels,     \* params->channels
  MAX_CHANNELS, \* the channels that the build was made for
  mac,          \* of each channel, the address it receives from
  Devices,      \* the channels whose device exists
  Addresses,    \* of stations on the wire
  Slots,        \* of the message space
  Programs,     \* of each program, the types of its instructions
  Timeouts,     \* of SYNC instructions
  RcvBuf,       \* what a socket holds
  MaxFrames,    \* bound: frames on the wire
  MaxPackets    \* bound: packets allocated

Channels == 0 .. channels - 1

ASSUME NetworkAssumption ==
  /\ channels \in Nat /\ MAX_CHANNELS \in 1 .. channels
  /\ mac \in [Channels -> Addresses] /\ "unwritten" \notin Addresses
  /\ Devices \subseteq Channels
  /\ Programs \subseteq SUBSET {"RECEIVE", "CREATE", "SEND", "SYNC_MASTER",
                               "SYNC_SLAVE"}
  /\ Timeouts \subseteq Nat
  /\ RcvBuf \in Nat /\ MaxFrames \in Nat /\ MaxPackets \in Nat

NULL == 0

Frame == [id : 1 .. MaxFrames, source : Addresses, proto : {"NC", "SYNC"}]
NoFrame == [id |-> NULL, source |-> "unwritten", proto |-> "none"]

NothingTaken == [msg |-> NoFrame, chan |-> 0]

VARIABLES
  program,      \* the types of its instructions
  frames,       \* frames sent on the wire so far
  receive_socket, \* the frames it holds, first to be read first
  sync_socket,  \* likewise, their protocols
  thread,       \* where the receiving thread is
  nc_msg,       \* its buffer
  chan,         \* the channel it compares with
  accepted,     \* history: messages received from the address of a channel
  message_queue, \* of each channel, first to be taken first
  buffers,      \* history: what was written in the buffers given to kfree
  interp,       \* where the interpreter's thread is
  taken,        \* what ncm_receive_message_to_var takes, and where from
  looked,       \* history: what was queued when it looked
  received,     \* history: the messages copied to variables
  message_space, \* of each slot, its packet
  packets,      \* packets allocated so far
  driver,       \* history: of each packet, how often a driver took it
  sk_rcvtimeo,  \* the timeout of the sync socket
  left, wait    \* microseconds until a SYNC, and its receive, are overdue

wire == <<frames, receive_socket, sync_socket>>
receiving == <<thread, nc_msg, chan, accepted>>
queues == <<message_queue, buffers>>
taking == <<taken, looked, received>>
sending == <<message_space, packets, driver>>
syncing == <<sk_rcvtimeo, left, wait>>

vars == <<program, wire, receiving, queues, interp, taking, sending, syncing>>

(* init_network.                                                           *)
Init ==
  /\ program \in Programs
  /\ frames = 0 /\ receive_socket = << >> /\ sync_socket = << >>
  /\ thread = "receive" /\ nc_msg = NoFrame /\ chan = 0
  /\ accepted = {}
  /\ message_queue = [c \in Channels |-> << >>] /\ buffers = {}
  /\ interp = "idle"
  /\ taken = NothingTaken /\ looked = {} /\ received = << >>
  /\ message_space = [s \in Slots |-> NULL]
  /\ packets = 0 /\ driver = [p \in 1 .. MaxPackets |-> 0]
  /\ sk_rcvtimeo = 0 /\ left = 0 /\ wait = 0

-----------------------------------------------------------------------------
(* A frame arrives: each socket was made for every protocol and gets it.   *)
Queued(socket, f) == IF Len(socket) < RcvBuf THEN Append(socket, f) ELSE socket

Arrive(source, proto) ==
  LET f == [id |-> frames + 1, source |-> source, proto |-> proto]
  IN  /\ frames < MaxFrames
      /\ frames' = frames + 1
      /\ receive_socket' = Queued(receive_socket, f)
      /\ sync_socket' = Queued(sync_socket, proto)
      /\ UNCHANGED <<program, receiving, queues, interp, taking, sending,
                     syncing>>

-----------------------------------------------------------------------------
(* The messages for the channels of the build.                             *)
Accepted(f) ==
  f.proto = "NC" /\ \E c \in 0 .. MAX_CHANNELS - 1 : f.source = mac[c]

(* receiving_threadfn: nc_rcvmsg writes the frame into the buffer and      *)
(* refuses other protocols, among them the syncs.                          *)
ReceiveFrame ==
  /\ thread = "receive" /\ receive_socket # << >>
  /\ nc_msg' = Head(receive_socket)
  /\ receive_socket' = Tail(receive_socket)
  /\ thread' = IF Head(receive_socket).proto = "NC" THEN "match" ELSE "receive"
  /\ accepted' = accepted \cup {f \in {Head(receive_socket)} : Accepted(f)}
  /\ chan' = 0
  /\ UNCHANGED <<program, frames, sync_socket, queues, interp, taking,
                 sending, syncing>>

(* Variant: list_add_tail.                                                 *)
ListAddTail(queue, m) == Append(queue, m)

ListAdd(queue, m) == <<m>> \o queue

(* The loop over the channels.  A buffer that was queued is replaced by a  *)
(* new one, as it was left by whoever had that memory, and the loop goes   *)
(* on with it.                                                             *)
Match ==
  /\ thread = "match" /\ chan < MAX_CHANNELS
  /\ \/ /\ nc_msg.source = mac[chan]
        /\ message_queue' = [message_queue EXCEPT ![chan] = ListAdd(@, nc_msg)]
        /\ \E old \in buffers \cup {NoFrame} :
             /\ nc_msg' = old
             /\ buffers' = buffers \ {old}
     \/ /\ nc_msg.source # mac[chan]
        /\ UNCHANGED <<nc_msg, queues>>
  /\ chan' = chan + 1
  /\ UNCHANGED <<program, wire, thread, accepted, interp, taking, sending,
                 syncing>>

(* Rejected or not, the next frame goes into the buffer there is.          *)
MatchDone ==
  /\ thread = "match" /\ chan = MAX_CHANNELS
  /\ thread' = "receive"
  /\ UNCHANGED <<program, wire, nc_msg, chan, accepted, queues, interp,
                 taking, sending, syncing>>

-----------------------------------------------------------------------------
(* The interpreter comes to an instruction of type t.                      *)
Idle(t) == interp = "idle" /\ t \in program

(* ncm_receive_message_to_var, a section of the channel's lock at a time:  *)
(* is there a message (and an error if not),                               *)
ReceiveTest(c) ==
  /\ Idle("RECEIVE")
  /\ message_queue[c] # << >>
  /\ interp' = "first"
  /\ taken' = [taken EXCEPT !.chan = c]
  /\ looked' = ToSet(message_queue[c])
  /\ UNCHANGED <<program, wire, receiving, queues, received, sending, syncing>>

(* which is the first,                                                     *)
ReceiveFirst ==
  /\ interp = "first"
  /\ interp' = "copy"
  /\ taken' = [taken EXCEPT !.msg = Head(message_queue[taken.chan])]
  /\ UNCHANGED <<program, wire, receiving, queues, looked, received, sending,
                 syncing>>

(* (it is copied to the variable)                                          *)
ReceiveCopy ==
  /\ interp = "copy"
  /\ interp' = "delete"
  /\ received' = Append(received, taken.msg)
  /\ UNCHANGED <<program, wire, receiving, queues, taken, looked, sending,
                 syncing>>

(* Variant: deletes the first message, which may be another by now.        *)
ReceiveDeleteFirst ==
  /\ interp = "delete"
  /\ interp' = "idle"
  /\ message_queue' = [message_queue EXCEPT ![taken.chan] = Tail(@)]
  /\ buffers' = buffers \cup {taken.msg}
  /\ taken' = NothingTaken /\ looked' = {}
  /\ UNCHANGED <<program, wire, receiving, received, sending, syncing>>

(* and it is deleted, and freed.                                           *)
ReceiveDelete ==
  /\ interp = "delete"
  /\ interp' = "idle"
  /\ message_queue' =
       [message_queue EXCEPT ![taken.chan] = RemoveFirst(@, taken.msg)]
  /\ buffers' = buffers \cup {taken.msg}
  /\ taken' = NothingTaken /\ looked' = {}
  /\ UNCHANGED <<program, wire, receiving, received, sending, syncing>>

-----------------------------------------------------------------------------
(* ncm_create_message_from_var: a packet that the slot held is forgotten.  *)
Create(s) ==
  /\ Idle("CREATE") /\ packets < MaxPackets
  /\ packets' = packets + 1
  /\ message_space' = [message_space EXCEPT ![s] = packets + 1]
  /\ UNCHANGED <<program, wire, receiving, queues, interp, taking, driver,
                 syncing>>

(* ndo_start_xmit, NETDEV_TX_OK or NETDEV_TX_BUSY.                         *)
Transmit(p) == driver' = [driver EXCEPT ![p] = @ + 1] \/ UNCHANGED driver

(* What channel->dev is: where there is no device, what kmalloc left.      *)
Dev(c) == IF c \in Devices THEN {"device"} ELSE {"zero", "wild"}

(* ncm_send_message_hard: the slot is cleared whatever the driver answers. *)
SendMessage(c, s) ==
  /\ Idle("SEND") /\ "device" \in Dev(c)
  /\ message_space[s] # NULL
  /\ Transmit(message_space[s])
  /\ message_space' = [message_space EXCEPT ![s] = NULL]
  /\ UNCHANGED <<program, wire, receiving, queues, interp, taking, packets,
                 syncing>>

(* ncm_send_sync_hard.                                                     *)
SendSync(c) ==
  /\ Idle("SYNC_MASTER") /\ "device" \in Dev(c) /\ packets < MaxPackets
  /\ packets' = packets + 1
  /\ Transmit(packets + 1)
  /\ UNCHANGED <<program, wire, receiving, queues, interp, taking, message_space,
                 syncing>>

(* Over a channel without a device a SEND is an error if the memory        *)
(* happened to be zero, and otherwise a call through it, as a SYNC is.  An *)
(* empty slot is an error whatever the channel.                            *)
SendFails(c, s) ==
  /\ Idle("SEND")
  /\ message_space[s] = NULL \/ "zero" \in Dev(c)
  /\ interp' = "failed"
  /\ UNCHANGED <<program, wire, receiving, queues, taking, sending, syncing>>

SendWild(c, s) ==
  /\ "wild" \in Dev(c)
  /\ \/ Idle("SEND") /\ message_space[s] # NULL
     \/ Idle("SYNC_MASTER")
  /\ interp' = "wild"
  /\ UNCHANGED <<program, wire, receiving, queues, taking, sending, syncing>>

-----------------------------------------------------------------------------
(* ncm_receive_sync: left is start - now + timeout.                        *)
SyncStart(timeout) ==
  /\ Idle("SYNC_SLAVE")
  /\ interp' = "sync"
  /\ left' = timeout /\ sk_rcvtimeo' = timeout
  /\ UNCHANGED <<program, wire, receiving, queues, taking, sending, wait>>

SyncReceive ==
  /\ interp = "sync"
  /\ interp' = "sync wait"
  /\ wait' = sk_rcvtimeo
  /\ UNCHANGED <<program, wire, receiving, queues, taking, sending,
                 sk_rcvtimeo, left>>

(* nc_rcvmsg takes a frame, which is a sync or counts as a failure,        *)
SyncTake ==
  /\ interp = "sync wait" /\ sync_socket # << >>
  /\ sync_socket' = Tail(sync_socket)
  /\ interp' = IF Head(sync_socket) = "SYNC" THEN "idle" ELSE "sync failed"
  /\ UNCHANGED <<program, frames, receive_socket, receiving, queues, taking,
                 sending, syncing>>

(* or none came in time.                                                   *)
SyncExpire ==
  /\ interp = "sync wait" /\ sync_socket = << >> /\ wait = 0
  /\ interp' = "sync failed"
  /\ UNCHANGED <<program, wire, receiving, queues, taking, sending, syncing>>

(* Variant: waits for the whole timeout again, with a new start.           *)
SyncRetryAnew ==
  /\ interp = "sync failed"
  /\ interp' = "sync"
  /\ left' = sk_rcvtimeo
  /\ UNCHANGED <<program, wire, receiving, queues, taking, sending,
                 sk_rcvtimeo, wait>>

(* After a failure it gives up, or waits for what is left.                 *)
SyncRetry ==
  /\ interp = "sync failed"
  /\ \/ left < 0 /\ interp' = "idle" /\ UNCHANGED sk_rcvtimeo
     \/ left >= 0 /\ interp' = "sync" /\ sk_rcvtimeo' = left
  /\ UNCHANGED <<program, wire, receiving, queues, taking, sending, left,
                 wait>>

(* A microsecond passes; left is not looked at once it is negative.        *)
Tick ==
  /\ interp \in {"sync", "sync wait", "sync failed"}
  /\ left >= 0 \/ wait > 0
  /\ left' = IF left >= 0 THEN left - 1 ELSE left
  /\ wait' = IF wait > 0 THEN wait - 1 ELSE wait
  /\ UNCHANGED <<program, wire, receiving, queues, interp, taking, sending,
                 sk_rcvtimeo>>

-----------------------------------------------------------------------------
ReceivingThread == ReceiveFrame \/ Match \/ MatchDone

(* What the program does next, and what then goes on by itself.            *)
Instruction ==
  \/ \E c \in Channels : ReceiveTest(c) \/ SendSync(c)
  \/ \E s \in Slots : Create(s)
  \/ \E c \in Channels, s \in Slots :
       SendMessage(c, s) \/ SendFails(c, s) \/ SendWild(c, s)
  \/ \E t \in Timeouts : SyncStart(t)

Receive == ReceiveFirst \/ ReceiveCopy \/ ReceiveDelete

Sync == SyncReceive \/ SyncTake \/ SyncExpire \/ SyncRetry

Next ==
  \/ \E a \in Addresses, proto \in {"NC", "SYNC"} : Arrive(a, proto)
  \/ ReceivingThread
  \/ Instruction \/ Receive \/ Sync
  \/ Tick

Spec == Init /\ [][Next]_vars

(* Both threads run when they can, and time passes; nothing needs to       *)
(* arrive.                                                                 *)
FairSpec ==
  /\ Spec
  /\ WF_vars(ReceivingThread) /\ WF_vars(Receive) /\ WF_vars(Sync)
  /\ WF_vars(Tick)

-----------------------------------------------------------------------------
TypeOK ==
  /\ program \in Programs
  /\ frames \in 0 .. MaxFrames
  /\ receive_socket \in Seq(Frame) /\ Len(receive_socket) <= RcvBuf
  /\ sync_socket \in Seq({"NC", "SYNC"}) /\ Len(sync_socket) <= RcvBuf
  /\ thread \in {"receive", "match"}
  /\ nc_msg \in Frame \cup {NoFrame}
  /\ chan \in 0 .. MAX_CHANNELS
  /\ accepted \subseteq Frame
  /\ message_queue \in [Channels -> Seq(Frame)]
  /\ buffers \subseteq Frame
  /\ interp \in {"idle", "first", "copy", "delete", "sync", "sync wait",
                 "sync failed", "failed", "wild"}
  /\ taken \in [msg : Frame \cup {NoFrame}, chan : Channels]
  /\ looked \subseteq Frame
  /\ received \in Seq(Frame)
  /\ message_space \in [Slots -> 0 .. packets]
  /\ packets \in 0 .. MaxPackets
  /\ driver \in [1 .. MaxPackets -> Nat]
  /\ sk_rcvtimeo \in Nat /\ wait \in Nat /\ left \in Int /\ left >= -1

(* The messages of channel c that are queued and not yet copied.           *)
Waiting(c) ==
  ToSet(message_queue[c])
    \ (IF interp = "delete" /\ taken.chan = c THEN {taken.msg} ELSE {})

(* The message that the receiving thread has yet to queue.                 *)
InHand ==
  {m \in {nc_msg} :
     thread = "match" /\ \E c \in chan .. MAX_CHANNELS - 1 : m.source = mac[c]}

(* No message reaches the program twice or is queued twice, and none is    *)
(* lost between the socket and the variable, whatever arrives between the  *)
(* sections of a RECEIVE and whatever is in the buffers that are reused    *)
(* ("get a new message buffer ready for the next arrival").                *)
EachOnce ==
  /\ accepted = InHand \cup ToSet(received)
                 \cup UNION {ToSet(message_queue[c]) : c \in Channels}
  /\ InHand \cap ToSet(received) = {}
  /\ \A c \in Channels : InHand \cap ToSet(message_queue[c]) = {}
  /\ IsInjective(received)
  /\ \A c \in Channels : IsInjective(message_queue[c])
  /\ \A c \in Channels : Waiting(c) \cap ToSet(received) = {}

(* A RECEIVE never delivers a message that is older than one that was      *)
(* queued when it began, although it takes the channel's lock again after  *)
(* it looked (ncm_receive_message_to_var).                                 *)
Freshest ==
  interp \in {"copy", "delete"} => \A f \in looked : f.id <= taken.msg.id

(* Messages of a channel are delivered in their order ("read the first     *)
(* message off the queue").                                                *)
InOrder ==
  \A i, j \in DOMAIN received : i < j => received[i].id < received[j].id

(* A driver gets a packet once, and what it got is in no slot any more: it *)
(* owns the packet (ndo_start_xmit), which a second SEND or the next       *)
(* CREATE must not touch.                                                  *)
GivenOnce ==
  /\ \A p \in 1 .. packets : driver[p] <= 1
  /\ \A s \in Slots : message_space[s] # NULL => driver[message_space[s]] = 0
  /\ \A s, t \in Slots :
       message_space[s] = message_space[t] /\ message_space[s] # NULL => s = t

(* Frames and packets have one owner at a time, and none is lost between   *)
(* two of them (receiving_threadfn, ncm_receive_message_to_var,            *)
(* ncm_send_message): the conjunction of the above.                        *)
FramesOnce == TypeOK /\ EachOnce /\ GivenOnce

(* A SYNC ends, however many other frames arrive meanwhile and arm its     *)
(* timeout again (ncm_receive_sync).                                       *)
SyncReturns == interp = "sync" ~> interp = "idle"
=============================================================================
