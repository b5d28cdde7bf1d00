---------------------------- MODULE NetworkProofs ----------------------------
(***************************************************************************)
(* Proofs about Network, for any channels, devices, programs, sockets and  *)
(* numbers of frames and packets: a packet is given to a driver once,      *)
(* and, in a build for one channel (the default), no message is lost or    *)
(* delivered twice, and a RECEIVE delivers the newest.                     *)
(***************************************************************************)
EXTENDS Network, SequenceTheorems, WellFoundedInduction, TLAPS

(* Packets not allocated yet are with no driver.                           *)
Fresh == \A p \in 1 .. MaxPackets : p > packets => driver[p] = 0

(* While it receives, the interpreter's thread holds a message that is in  *)
(* the queue, whatever is queued before it meanwhile.                      *)
Holding == interp \in {"first", "copy", "delete"}
Held ==
  /\ Holding =>
       /\ message_queue[taken.chan] # << >>
       /\ looked \subseteq ToSet(message_queue[taken.chan])
  /\ interp \in {"copy", "delete"} =>
       taken.msg \in ToSet(message_queue[taken.chan])
  /\ interp = "delete" => taken.msg \in ToSet(received)

(* Numbers grow from the queues to the socket: what is queued is older     *)
(* than what is in hand, and that is older than what is in the socket.     *)
Socket ==
  /\ \A i, j \in DOMAIN receive_socket :
       i < j => receive_socket[i].id < receive_socket[j].id
  /\ \A i \in DOMAIN receive_socket : receive_socket[i].id <= frames
  /\ \A f \in accepted : f.id <= frames
  /\ \A f \in accepted : \A i \in DOMAIN receive_socket :
       f.id < receive_socket[i].id

NewestInHand == \A m \in InHand : \A f \in accepted \ {m} : f.id < m.id

(* The newest is first in its queue, and the build has one queue.          *)
Queues ==
  /\ \A c \in Channels : \A i, j \in DOMAIN message_queue[c] :
       i < j => message_queue[c][j].id < message_queue[c][i].id
  /\ \A c \in Channels \ {0} : message_queue[c] = << >>

Passed == EachOnce /\ Socket /\ NewestInHand /\ Queues /\ Freshest

-----------------------------------------------------------------------------
(* Sequences as queues: what they hold after each operation.               *)
LEMMA SetOfSeq ==
  ASSUME NEW S, NEW s \in Seq(S)
  PROVE  /\ ToSet(s) \subseteq S
         /\ \A e : e \in ToSet(s) <=> \E i \in 1 .. Len(s) : s[i] = e
         /\ s # << >> => Head(s) \in ToSet(s) /\ Head(s) = s[1]
BY DEF ToSet

LEMMA SetOfEmpty == ToSet(<< >>) = {}
BY DEF ToSet

LEMMA Prepended ==
  ASSUME NEW S, NEW s \in Seq(S), NEW e \in S
  PROVE  /\ <<e>> \o s \in Seq(S)
         /\ <<e>> \o s # << >>
         /\ ToSet(<<e>> \o s) = {e} \cup ToSet(s)
         /\ Len(<<e>> \o s) = Len(s) + 1
         /\ (<<e>> \o s)[1] = e
         /\ \A i \in 1 .. Len(s) : (<<e>> \o s)[i + 1] = s[i]
<1> DEFINE t == <<e>> \o s
<1>1. /\ t \in Seq(S) /\ Len(t) = Len(s) + 1
      /\ t[1] = e /\ \A i \in 1 .. Len(s) : t[i + 1] = s[i]
  OBVIOUS
<1>2. ToSet(t) \subseteq {e} \cup ToSet(s)
  <2> SUFFICES ASSUME NEW i \in 1 .. Len(t)
               PROVE  t[i] \in {e} \cup ToSet(s)
    BY <1>1 DEF ToSet
  <2>1. CASE i = 1
    BY <1>1, <2>1
  <2>2. CASE i # 1
    <3>1. i - 1 \in 1 .. Len(s) /\ t[(i - 1) + 1] = s[i - 1]
      BY <1>1, <2>2
    <3> QED
      BY <3>1, SetOfSeq
  <2> QED
    BY <2>1, <2>2
<1>3. {e} \cup ToSet(s) \subseteq ToSet(t)
  <2>1. e \in ToSet(t)
    <3>1. 1 \in 1 .. Len(t) /\ t[1] = e
      BY <1>1
    <3> HIDE DEF t
    <3> QED
      BY <3>1 DEF ToSet
  <2>2. ASSUME NEW f \in ToSet(s)
        PROVE  f \in ToSet(t)
    <3>1. PICK i \in 1 .. Len(s) : s[i] = f
      BY SetOfSeq
    <3>2. i + 1 \in 1 .. Len(t) /\ t[i + 1] = f
      BY <1>1, <3>1
    <3> QED
      BY <1>1, <3>2, SetOfSeq
  <2> QED
    BY <2>1, <2>2
<1>4. t # << >>
  BY <1>1
<1> QED
  BY <1>1, <1>2, <1>3, <1>4

LEMMA Appended ==
  ASSUME NEW S, NEW s \in Seq(S), NEW e \in S
  PROVE  /\ Append(s, e) \in Seq(S)
         /\ ToSet(Append(s, e)) = ToSet(s) \cup {e}
<1>1. /\ Append(s, e) \in Seq(S) /\ Len(Append(s, e)) = Len(s) + 1
      /\ \A i \in 1 .. Len(s) : Append(s, e)[i] = s[i]
      /\ Append(s, e)[Len(s) + 1] = e
  OBVIOUS
<1> DEFINE t == Append(s, e)
<1> HIDE DEF t
<1>2. /\ t \in Seq(S) /\ Len(s) \in Nat /\ Len(t) = Len(s) + 1
      /\ \A i \in 1 .. Len(s) : t[i] = s[i]
      /\ t[Len(s) + 1] = e
  BY <1>1 DEF t
<1>3. \A f : f \in ToSet(t) <=> f \in ToSet(s) \cup {e}
  <2> TAKE f
  <2>1. f \in ToSet(t) <=> \E i \in 1 .. Len(t) : t[i] = f
    BY <1>2, SetOfSeq
  <2>2. f \in ToSet(s) <=> \E i \in 1 .. Len(s) : s[i] = f
    BY SetOfSeq
  <2>3. \A i : i \in 1 .. Len(t) <=> i \in 1 .. Len(s) \/ i = Len(s) + 1
    BY <1>2
  <2>4. (\E i \in 1 .. Len(t) : t[i] = f)
          <=> (\E i \in 1 .. Len(s) : s[i] = f) \/ e = f
    BY <1>2, <2>3
  <2> QED
    BY <2>1, <2>2, <2>4
<1> QED
  BY <1>2, <1>3 DEF t

(* Taking a member off a queue that holds it once leaves the others, in    *)
(* their order.                                                            *)
LEMMA Deleted ==
  ASSUME NEW S, NEW s \in Seq(S), NEW e
  PROVE  /\ RemoveFirst(s, e) \in Seq(S)
         /\ \/ RemoveFirst(s, e) = s /\ e \notin ToSet(s)
            \/ \E k \in 1 .. Len(s) :
                 /\ s[k] = e
                 /\ Len(RemoveFirst(s, e)) = Len(s) - 1
                 /\ \A i \in 1 .. Len(s) - 1 :
                      RemoveFirst(s, e)[i] = IF i < k THEN s[i] ELSE s[i + 1]
<1>1. CASE e \notin ToSet(s)
  <2>1. ~ \E i \in 1 .. Len(s) : s[i] = e
    BY <1>1, SetOfSeq
  <2> QED
    BY <1>1, <2>1 DEF RemoveFirst
<1>2. CASE e \in ToSet(s)
  <2> DEFINE I == {i \in 1 .. Len(s) : s[i] = e}
  <2>1. I # {} /\ I \subseteq 1 .. Len(s)
    BY <1>2, SetOfSeq
  <2> DEFINE k == Min(I)
  <2>2. k \in I
    <3>1. \E x \in I : \A y \in I : x <= y
      <4>1. I \subseteq Nat
        BY <2>1
      <4>2. PICK x \in I : \A y \in I : ~ (<<y, x>> \in OpToRel(<, Nat))
        BY <2>1, <4>1, NatLessThanWellFounded, WFMin
      <4>3. \A y \in I : ~ (y < x)
        BY <4>1, <4>2 DEF OpToRel
      <4> QED
        BY <4>1, <4>3
    <3> HIDE DEF I
    <3> QED
      BY <3>1 DEF Min
  <2>3. RemoveFirst(s, e) = RemoveAt(s, k)
    BY <2>1 DEF RemoveFirst, SelectInSeq
  <2>4. k \in 1 .. Len(s) /\ s[k] = e
    BY <2>2
  <2> HIDE DEF k
  <2>5. /\ RemoveAt(s, k) \in Seq(S) /\ Len(RemoveAt(s, k)) = Len(s) - 1
        /\ \A i \in 1 .. Len(s) - 1 :
             RemoveAt(s, k)[i] = IF i < k THEN s[i] ELSE s[i + 1]
    <3> DEFINE a == SubSeq(s, 1, k - 1)
               b == SubSeq(s, k + 1, Len(s))
    <3>1. /\ a \in Seq(S) /\ Len(a) = k - 1
          /\ \A i \in 1 .. k - 1 : a[i] = s[i]
      BY <2>4
    <3>2. /\ b \in Seq(S) /\ Len(b) = Len(s) - k
          /\ \A i \in 1 .. Len(s) - k : b[i] = s[i + k]
      BY <2>4
    <3>3. RemoveAt(s, k) = a \o b
      BY DEF RemoveAt
    <3> HIDE DEF a, b
    <3>4. /\ a \o b \in Seq(S) /\ Len(a \o b) = Len(a) + Len(b)
          /\ \A i \in 1 .. Len(a) + Len(b) :
               (a \o b)[i] = IF i <= Len(a) THEN a[i] ELSE b[i - Len(a)]
      BY <3>1, <3>2, ConcatProperties
    <3>5. \A i \in 1 .. Len(s) - 1 :
            /\ i < k => a[i] = s[i]
            /\ i >= k => b[i - (k - 1)] = s[i + 1]
      <4> TAKE i \in 1 .. Len(s) - 1
      <4>1. i >= k => i - (k - 1) \in 1 .. Len(s) - k
        BY <2>4
      <4>2. i >= k => (i - (k - 1)) + k = i + 1
        BY <2>4
      <4>3. i < k => i \in 1 .. k - 1
        BY <2>4
      <4> QED
        BY <3>1, <3>2, <4>1, <4>2, <4>3
    <3>6. \A i \in 1 .. Len(s) - 1 :
            (a \o b)[i] = IF i < k THEN s[i] ELSE s[i + 1]
      <4> TAKE i \in 1 .. Len(s) - 1
      <4>1. /\ Len(a) + Len(b) = Len(s) - 1 /\ Len(a) = k - 1
            /\ i <= k - 1 <=> i < k
        BY <2>4, <3>1, <3>2
      <4>2. (a \o b)[i] = IF i <= Len(a) THEN a[i] ELSE b[i - Len(a)]
        BY <3>4, <4>1
      <4>3. CASE i < k
        <5>1. i <= Len(a) /\ a[i] = s[i]
          BY <3>5, <4>1, <4>3
        <5> QED
          BY <4>2, <4>3, <5>1
      <4>4. CASE ~ (i < k)
        <5>1. i >= k
          BY <2>4, <4>4
        <5>2. ~ (i <= Len(a)) /\ b[i - Len(a)] = s[i + 1]
          BY <3>5, <4>1, <4>4, <5>1
        <5> QED
          BY <4>2, <4>4, <5>2
      <4> QED
        BY <4>3, <4>4
    <3>7. Len(a) + Len(b) = Len(s) - 1
      BY <2>4, <3>1, <3>2
    <3> QED
      BY <3>3, <3>4, <3>6, <3>7
  <2> QED
    BY <2>3, <2>4, <2>5
<1> QED
  BY <1>1, <1>2

LEMMA DeletedOnce ==
  ASSUME NEW S, NEW s \in Seq(S), IsInjective(s), NEW e \in ToSet(s)
  PROVE  /\ ToSet(RemoveFirst(s, e)) = ToSet(s) \ {e}
         /\ IsInjective(RemoveFirst(s, e))
<1> DEFINE t == RemoveFirst(s, e)
<1>1. PICK k \in 1 .. Len(s) :
        /\ s[k] = e /\ Len(t) = Len(s) - 1
        /\ \A i \in 1 .. Len(s) - 1 : t[i] = IF i < k THEN s[i] ELSE s[i + 1]
  BY Deleted
<1>2. t \in Seq(S)
  BY Deleted
<1> HIDE DEF t
<1> DEFINE at(i) == IF i < k THEN i ELSE i + 1
<1>3. \A i \in 1 .. Len(t) : at(i) \in (1 .. Len(s)) \ {k} /\ t[i] = s[at(i)]
  BY <1>1
<1>4. \A i, j \in 1 .. Len(t) : at(i) = at(j) => i = j
  BY <1>1
<1>5. \A i \in (1 .. Len(s)) \ {k} : \E j \in 1 .. Len(t) : at(j) = i
  <2> TAKE i \in (1 .. Len(s)) \ {k}
  <2>1. CASE i < k
    <3>1. i \in 1 .. Len(t) /\ at(i) = i
      BY <1>1, <2>1
    <3> QED
      BY <3>1
  <2>2. CASE i > k
    <3>1. i - 1 \in 1 .. Len(t) /\ at(i - 1) = i
      BY <1>1, <2>2
    <3> QED
      BY <3>1
  <2> QED
    BY <1>1, <2>1, <2>2
<1>6. DOMAIN s = 1 .. Len(s) /\ DOMAIN t = 1 .. Len(t)
  BY <1>2
<1> HIDE DEF at
<1>7. \A i, j \in 1 .. Len(s) : s[i] = s[j] => i = j
  BY <1>6 DEF IsInjective
<1>8. IsInjective(t)
  BY <1>3, <1>4, <1>6, <1>7 DEF IsInjective
<1>9. ToSet(t) = ToSet(s) \ {e}
  <2>1. \A f : f \in ToSet(t) <=> \E i \in 1 .. Len(t) : t[i] = f
    BY <1>2, SetOfSeq
  <2>2. \A f : f \in ToSet(s) <=> \E i \in 1 .. Len(s) : s[i] = f
    BY SetOfSeq
  <2>3. ASSUME NEW f \in ToSet(t)
        PROVE  f \in ToSet(s) \ {e}
    <3>1. PICK i \in 1 .. Len(t) : t[i] = f
      BY <2>1
    <3>2. at(i) \in (1 .. Len(s)) \ {k} /\ s[at(i)] = f
      BY <1>3, <3>1
    <3> QED
      BY <1>1, <1>7, <2>2, <3>2
  <2>4. ASSUME NEW f \in ToSet(s) \ {e}
        PROVE  f \in ToSet(t)
    <3>1. PICK i \in 1 .. Len(s) : s[i] = f
      BY <2>2
    <3>2. i \in (1 .. Len(s)) \ {k}
      BY <1>1, <3>1
    <3>3. PICK j \in 1 .. Len(t) : at(j) = i
      BY <1>5, <3>2
    <3> QED
      BY <1>3, <2>1, <3>1, <3>3
  <2> QED
    BY <2>3, <2>4
<1> QED
  BY <1>8, <1>9 DEF t

-----------------------------------------------------------------------------
LEMMA Bounds ==
  /\ channels \in Nat /\ MAX_CHANNELS \in Nat
  /\ 1 <= MAX_CHANNELS /\ MAX_CHANNELS <= channels
  /\ 0 .. MAX_CHANNELS - 1 \subseteq Channels
  /\ mac \in [Channels -> Addresses] /\ "unwritten" \notin Addresses
  /\ Timeouts \subseteq Nat
  /\ RcvBuf \in Nat /\ MaxFrames \in Nat /\ MaxPackets \in Nat
BY NetworkAssumption DEF Channels

(* The types, part by part.                                                *)
Interps == {"idle", "first", "copy", "delete", "sync", "sync wait",
            "sync failed", "failed", "wild"}

Messages ==
  /\ program \in Programs
  /\ frames \in 0 .. MaxFrames
  /\ receive_socket \in Seq(Frame) /\ Len(receive_socket) <= RcvBuf
  /\ sync_socket \in Seq({"NC", "SYNC"}) /\ Len(sync_socket) <= RcvBuf
  /\ thread \in {"receive", "match"}
  /\ nc_msg \in Frame \cup {NoFrame}
  /\ chan \in 0 .. MAX_CHANNELS
  /\ accepted \subseteq Frame
  /\ message_queue \in [Channels -> Seq(Frame)]
  /\ buffers \subseteq Frame
  /\ taken \in [msg : Frame \cup {NoFrame}, chan : Channels]
  /\ looked \subseteq Frame
  /\ received \in Seq(Frame)

Packets ==
  /\ message_space \in [Slots -> 0 .. packets]
  /\ packets \in 0 .. MaxPackets
  /\ driver \in [1 .. MaxPackets -> Nat]

Waits == sk_rcvtimeo \in Nat /\ wait \in Nat /\ left \in Int /\ left >= -1

LEMMA Parts ==
  TypeOK <=> Messages /\ Packets /\ Waits /\ interp \in Interps
BY DEF TypeOK, Messages, Packets, Waits, Interps

OwnedMessages == Messages /\ Held /\ interp \in Interps
OwnedPackets == Packets /\ GivenOnce /\ Fresh

Owned == OwnedMessages /\ OwnedPackets /\ Waits

(* What only moves messages leaves packets alone, and what gives packets   *)
(* away, waits for a sync or ends leaves messages alone.                   *)
LEMMA PacketsAlone ==
  ASSUME OwnedPackets, UNCHANGED sending
  PROVE  OwnedPackets'
BY DEF OwnedPackets, Packets, GivenOnce, Fresh, sending

LEMMA WaitsAlone ==
  ASSUME Waits, UNCHANGED syncing
  PROVE  Waits'
BY DEF Waits, syncing

LEMMA MessagesAlone ==
  ASSUME OwnedMessages, UNCHANGED <<program, wire, receiving, queues, taking>>,
         ~Holding, interp' \in Interps \ {"first", "copy", "delete"}
  PROVE  OwnedMessages'
<1>1. Messages'
  BY DEF OwnedMessages, Messages, wire, receiving, queues, taking
<1>2. Held'
  BY DEF Held, Holding
<1> QED
  BY <1>1, <1>2 DEF OwnedMessages

-----------------------------------------------------------------------------
(* A message more at the end of a socket.                                  *)
Grown(s, f, t) ==
  /\ Len(t) = Len(s) + 1 /\ t[Len(s) + 1] = f
  /\ \A i \in 1 .. Len(s) : t[i] = s[i]

(* Frames arrive and are queued.                                           *)
LEMMA SocketKeeps ==
  ASSUME NEW S, NEW s \in Seq(S), Len(s) <= RcvBuf, NEW f \in S
  PROVE  /\ Queued(s, f) \in Seq(S) /\ Len(Queued(s, f)) <= RcvBuf
         /\ Queued(s, f) = s \/ Grown(s, f, Queued(s, f))
BY Bounds DEF Queued, Grown

LEMMA ArriveKeeps ==
  ASSUME OwnedMessages, NEW a \in Addresses, NEW proto \in {"NC", "SYNC"},
         Arrive(a, proto)
  PROVE  OwnedMessages'
<1> DEFINE f == [id |-> frames + 1, source |-> a, proto |-> proto]
<1>1. frames \in 0 .. MaxFrames /\ frames < MaxFrames
  BY DEF OwnedMessages, Messages, Arrive
<1>2. f \in Frame /\ frames' \in 0 .. MaxFrames
  BY <1>1, Bounds DEF Frame, Arrive
<1>3. /\ receive_socket' = Queued(receive_socket, f)
      /\ sync_socket' = Queued(sync_socket, proto)
      /\ UNCHANGED <<program, receiving, queues, interp, taking>>
  BY DEF Arrive
<1> HIDE DEF f
<1>4. /\ receive_socket' \in Seq(Frame) /\ Len(receive_socket') <= RcvBuf
      /\ sync_socket' \in Seq({"NC", "SYNC"}) /\ Len(sync_socket') <= RcvBuf
  BY <1>2, <1>3, SocketKeeps DEF OwnedMessages, Messages
<1>5. Messages'
  BY <1>2, <1>3, <1>4 DEF OwnedMessages, Messages, receiving, queues, taking
<1>6. Held' /\ interp' \in Interps
  BY <1>3 DEF OwnedMessages, Held, Holding, queues, taking
<1> QED
  BY <1>5, <1>6 DEF OwnedMessages

LEMMA ReceiveFrameKeeps ==
  ASSUME OwnedMessages, ReceiveFrame
  PROVE  OwnedMessages'
<1> USE DEF ReceiveFrame, OwnedMessages
<1>1. /\ Head(receive_socket) \in Frame
      /\ Tail(receive_socket) \in Seq(Frame)
      /\ Len(Tail(receive_socket)) <= RcvBuf
  BY Bounds, HeadTailProperties DEF Messages
<1>2. chan' \in 0 .. MAX_CHANNELS
  BY Bounds
<1>3. Messages'
  BY <1>1, <1>2 DEF Messages, queues, taking
<1>4. Held' /\ interp' \in Interps
  BY DEF Held, Holding, queues, taking
<1> QED
  BY <1>3, <1>4

LEMMA MatchKeeps ==
  ASSUME OwnedMessages, Match
  PROVE  OwnedMessages'
<1> USE DEF OwnedMessages
<1>1. chan \in Channels /\ chan' \in 0 .. MAX_CHANNELS
  BY Bounds DEF Match, Messages
<1>2. CASE nc_msg.source = mac[chan]
  <2>1. /\ message_queue' = [message_queue EXCEPT
                              ![chan] = ListAdd(message_queue[chan], nc_msg)]
        /\ nc_msg' \in buffers \cup {NoFrame} /\ buffers' \subseteq buffers
    BY <1>2 DEF Match
  <2>2. nc_msg \in Frame
    BY <1>1, <1>2, Bounds DEF Messages, NoFrame
  <2>3. message_queue[chan] \in Seq(Frame)
    BY <1>1 DEF Messages
  <2>4. /\ ListAdd(message_queue[chan], nc_msg) \in Seq(Frame)
        /\ ListAdd(message_queue[chan], nc_msg) # << >>
        /\ ToSet(message_queue[chan])
              \subseteq ToSet(ListAdd(message_queue[chan], nc_msg))
    BY <2>2, <2>3, Prepended DEF ListAdd
  <2>5. Messages'
    BY <1>1, <2>1, <2>4 DEF Match, Messages, wire, taking
  <2>6. taken.chan \in Channels
    BY DEF Messages
  <2>7. /\ message_queue[taken.chan] # << >> =>
             message_queue'[taken.chan] # << >>
        /\ ToSet(message_queue[taken.chan])
              \subseteq ToSet(message_queue'[taken.chan])
    <3>1. CASE taken.chan = chan
      BY <1>1, <2>1, <2>4, <3>1 DEF Messages
    <3>2. CASE taken.chan # chan
      BY <2>1, <2>6, <3>2 DEF Messages
    <3> QED
      BY <3>1, <3>2
  <2>8. Held' /\ interp' \in Interps
    BY <2>7 DEF Match, Held, Holding, taking
  <2> QED
    BY <2>5, <2>8
<1>3. CASE nc_msg.source # mac[chan]
  <2>1. UNCHANGED <<nc_msg, queues>>
    BY <1>3 DEF Match
  <2>2. Messages'
    BY <1>1, <2>1 DEF Match, Messages, wire, queues, taking
  <2>3. Held' /\ interp' \in Interps
    BY <2>1 DEF Match, Held, Holding, queues, taking
  <2> QED
    BY <2>2, <2>3
<1> QED
  BY <1>2, <1>3

LEMMA MatchDoneKeeps ==
  ASSUME OwnedMessages, MatchDone
  PROVE  OwnedMessages'
<1>1. Messages'
  BY DEF OwnedMessages, MatchDone, Messages, wire, queues, taking
<1>2. Held' /\ interp' \in Interps
  BY DEF OwnedMessages, MatchDone, Held, Holding, queues, taking
<1> QED
  BY <1>1, <1>2 DEF OwnedMessages

(* A RECEIVE.                                                              *)
LEMMA ReceiveTestKeeps ==
  ASSUME OwnedMessages, NEW c \in Channels, ReceiveTest(c)
  PROVE  OwnedMessages'
<1> USE DEF ReceiveTest, OwnedMessages
<1>1. message_queue[c] \in Seq(Frame) /\ ToSet(message_queue[c]) \subseteq Frame
  BY SetOfSeq DEF Messages
<1>2. taken' \in [msg : Frame \cup {NoFrame}, chan : Channels]
      /\ taken'.chan = c
  BY DEF Messages
<1>3. Messages'
  BY <1>1, <1>2 DEF Messages, wire, receiving, queues
<1>4. Held' /\ interp' \in Interps
  BY <1>2 DEF Held, Holding, Interps, queues
<1> QED
  BY <1>3, <1>4

LEMMA ReceiveFirstKeeps ==
  ASSUME OwnedMessages, ReceiveFirst
  PROVE  OwnedMessages'
<1> USE DEF ReceiveFirst, OwnedMessages
<1>1. /\ taken.chan \in Channels
      /\ message_queue[taken.chan] \in Seq(Frame)
      /\ message_queue[taken.chan] # << >>
      /\ looked \subseteq ToSet(message_queue[taken.chan])
  BY DEF Messages, Held, Holding
<1>2. /\ Head(message_queue[taken.chan]) \in Frame
      /\ Head(message_queue[taken.chan]) \in ToSet(message_queue[taken.chan])
  BY <1>1, SetOfSeq, HeadTailProperties
<1>3. /\ taken' \in [msg : Frame \cup {NoFrame}, chan : Channels]
      /\ taken'.chan = taken.chan
      /\ taken'.msg = Head(message_queue[taken.chan])
  BY <1>2 DEF Messages
<1>4. Messages'
  BY <1>3 DEF Messages, wire, receiving, queues
<1>5. Held' /\ interp' \in Interps
  BY <1>1, <1>2, <1>3 DEF Held, Holding, Interps, queues
<1> QED
  BY <1>4, <1>5

LEMMA ReceiveCopyKeeps ==
  ASSUME OwnedMessages, ReceiveCopy
  PROVE  OwnedMessages'
<1> USE DEF ReceiveCopy, OwnedMessages
<1>1. /\ taken.chan \in Channels
      /\ message_queue[taken.chan] \in Seq(Frame)
      /\ taken.msg \in ToSet(message_queue[taken.chan])
  BY DEF Messages, Held
<1>2. taken.msg \in Frame
  BY <1>1, SetOfSeq
<1>3. /\ received' \in Seq(Frame)
      /\ taken.msg \in ToSet(received')
  BY <1>2, Appended DEF Messages
<1>4. Messages'
  BY <1>3 DEF Messages, wire, receiving, queues
<1>5. Held' /\ interp' \in Interps
  BY <1>1, <1>3 DEF Held, Holding, Interps, queues
<1> QED
  BY <1>4, <1>5

LEMMA ReceiveDeleteKeeps ==
  ASSUME OwnedMessages, ReceiveDelete
  PROVE  OwnedMessages'
<1> USE DEF ReceiveDelete, OwnedMessages
<1>1. /\ taken.chan \in Channels
      /\ message_queue[taken.chan] \in Seq(Frame)
      /\ taken.msg \in ToSet(message_queue[taken.chan])
  BY DEF Messages, Held
<1>2. taken.msg \in Frame
  BY <1>1, SetOfSeq
<1>3. RemoveFirst(message_queue[taken.chan], taken.msg) \in Seq(Frame)
  BY <1>1, Deleted
<1>4. taken' \in [msg : Frame \cup {NoFrame}, chan : Channels]
  BY Bounds DEF NothingTaken, Channels
<1>5. Messages'
  BY <1>1, <1>2, <1>3, <1>4 DEF Messages, wire, receiving
<1>6. Held' /\ interp' \in Interps
  BY DEF Held, Holding, Interps
<1> QED
  BY <1>5, <1>6

(* Packets.                                                                *)
LEMMA CreateKeeps ==
  ASSUME OwnedPackets, NEW s \in Slots, Create(s)
  PROVE  OwnedPackets'
<1> USE DEF Create, OwnedPackets
<1>1. /\ packets \in 0 .. MaxPackets /\ packets' = packets + 1
      /\ packets' \in 1 .. MaxPackets /\ MaxPackets \in Nat
  BY Bounds DEF Packets
<1>2. \A t \in Slots : message_space'[t] = IF t = s THEN packets + 1
                                           ELSE message_space[t]
  BY DEF Packets
<1>3. Packets'
  BY <1>1, <1>2 DEF Packets
<1>4. Fresh'
  BY <1>1 DEF Fresh
<1>5. driver[packets + 1] = 0
  BY <1>1 DEF Fresh
<1>6. GivenOnce'
  <2>1. \A p \in 1 .. packets' : driver'[p] <= 1
    BY <1>1, <1>5 DEF GivenOnce
  <2>2. \A t \in Slots : message_space'[t] # NULL => driver'[message_space'[t]] = 0
    BY <1>2, <1>5 DEF GivenOnce
  <2>3. \A t, u \in Slots :
          message_space'[t] = message_space'[u] /\ message_space'[t] # NULL => t = u
    BY <1>1, <1>2 DEF GivenOnce, Packets
  <2> QED
    BY <2>1, <2>2, <2>3 DEF GivenOnce
<1> QED
  BY <1>3, <1>4, <1>6

LEMMA SendMessageKeeps ==
  ASSUME OwnedPackets, NEW c \in Channels, NEW s \in Slots, SendMessage(c, s)
  PROVE  OwnedPackets'
<1> USE DEF SendMessage, OwnedPackets
<1> DEFINE q == message_space[s]
<1>1. /\ packets \in 0 .. MaxPackets /\ packets' = packets /\ MaxPackets \in Nat
      /\ q \in 1 .. packets /\ driver[q] = 0
  BY Bounds DEF Packets, GivenOnce, NULL
<1>2. \A t \in Slots : message_space'[t] = IF t = s THEN NULL
                                           ELSE message_space[t]
  BY DEF Packets
<1>3. /\ driver' \in [1 .. MaxPackets -> Nat]
      /\ \A p \in 1 .. MaxPackets : p # q => driver'[p] = driver[p]
      /\ driver'[q] <= 1
  BY <1>1, SMTT(30) DEF Packets, Transmit
<1> HIDE DEF q
<1>4. Packets'
  BY <1>1, <1>2, <1>3 DEF Packets, NULL
<1>5. Fresh'
  BY <1>1, <1>3 DEF Fresh
<1>6. GivenOnce'
  <2>1. \A p \in 1 .. packets' : driver'[p] <= 1
    BY <1>1, <1>3 DEF GivenOnce
  <2>2. ASSUME NEW t \in Slots, message_space'[t] # NULL
        PROVE  driver'[message_space'[t]] = 0
    <3>1. t # s /\ message_space'[t] = message_space[t]
      BY <1>2, <2>2
    <3>2. message_space[t] # q /\ message_space[t] \in 1 .. packets
      BY <2>2, <3>1 DEF GivenOnce, q, Packets, NULL
    <3>3. driver[message_space[t]] = 0
      BY <2>2, <3>1 DEF GivenOnce
    <3> QED
      BY <1>1, <1>3, <3>1, <3>2, <3>3
  <2>3. \A t, u \in Slots :
          message_space'[t] = message_space'[u] /\ message_space'[t] # NULL => t = u
    BY <1>2 DEF GivenOnce
  <2> QED
    BY <2>1, <2>2, <2>3 DEF GivenOnce
<1> QED
  BY <1>4, <1>5, <1>6

LEMMA SendSyncKeeps ==
  ASSUME OwnedPackets, NEW c \in Channels, SendSync(c)
  PROVE  OwnedPackets'
<1> USE DEF SendSync, OwnedPackets
<1>1. /\ packets \in 0 .. MaxPackets /\ packets' = packets + 1
      /\ packets' \in 1 .. MaxPackets /\ MaxPackets \in Nat
  BY Bounds DEF Packets
<1>2. driver[packets + 1] = 0
  BY <1>1 DEF Fresh
<1>3. /\ driver' \in [1 .. MaxPackets -> Nat]
      /\ \A p \in 1 .. MaxPackets : p # packets + 1 => driver'[p] = driver[p]
      /\ driver'[packets + 1] <= 1
  BY <1>1, <1>2 DEF Packets, Transmit
<1>4. Packets'
  BY <1>1, <1>3 DEF Packets
<1>5. Fresh'
  BY <1>1, <1>3 DEF Fresh
<1>6. GivenOnce'
  <2>1. \A p \in 1 .. packets' : driver'[p] <= 1
    BY <1>1, <1>3 DEF GivenOnce
  <2>2. ASSUME NEW t \in Slots, message_space'[t] # NULL
        PROVE  driver'[message_space'[t]] = 0
    <3>1. message_space'[t] \in 1 .. packets /\ driver[message_space[t]] = 0
      BY <2>2 DEF GivenOnce, Packets, NULL
    <3> QED
      BY <1>1, <1>3, <3>1
  <2>3. \A t, u \in Slots :
          message_space'[t] = message_space'[u] /\ message_space'[t] # NULL => t = u
    BY DEF GivenOnce
  <2> QED
    BY <2>1, <2>2, <2>3 DEF GivenOnce
<1> QED
  BY <1>4, <1>5, <1>6

(* Waiting for a sync.                                                     *)
LEMMA SyncKeeps ==
  ASSUME Waits, \/ \E t \in Timeouts : SyncStart(t)
                \/ SyncReceive \/ SyncRetry \/ Tick
  PROVE  Waits'
<1>1. ASSUME NEW t \in Timeouts, SyncStart(t)
      PROVE  Waits'
  BY <1>1, Bounds DEF Waits, SyncStart
<1>2. CASE SyncReceive
  BY <1>2 DEF Waits, SyncReceive
<1>3. CASE SyncRetry
  <2>1. UNCHANGED <<left, wait>>
    BY <1>3 DEF SyncRetry
  <2>2. sk_rcvtimeo' = sk_rcvtimeo \/ (left >= 0 /\ sk_rcvtimeo' = left)
    BY <1>3 DEF SyncRetry
  <2> QED
    BY <2>1, <2>2 DEF Waits
<1>4. CASE Tick
  <2>1. /\ left' = IF left >= 0 THEN left - 1 ELSE left
        /\ wait' = IF wait > 0 THEN wait - 1 ELSE wait
        /\ sk_rcvtimeo' = sk_rcvtimeo
    BY <1>4 DEF Tick
  <2> QED
    BY <2>1 DEF Waits
<1> QED
  BY <1>1, <1>2, <1>3, <1>4

LEMMA SyncTakeKeeps ==
  ASSUME OwnedMessages, SyncTake
  PROVE  OwnedMessages'
<1> USE DEF SyncTake, OwnedMessages
<1>1. /\ Tail(sync_socket) \in Seq({"NC", "SYNC"})
      /\ Len(Tail(sync_socket)) <= RcvBuf
  <2>1. /\ sync_socket \in Seq({"NC", "SYNC"}) /\ sync_socket # << >>
        /\ Len(sync_socket) <= RcvBuf
    BY DEF Messages
  <2>2. /\ Tail(sync_socket) \in Seq({"NC", "SYNC"})
        /\ Len(Tail(sync_socket)) = Len(sync_socket) - 1
    BY <2>1, HeadTailProperties
  <2>3. Len(sync_socket) \in Nat
    BY <2>1, LenProperties
  <2>4. RcvBuf \in Nat
    BY Bounds
  <2> HIDE DEF SyncTake, OwnedMessages
  <2> QED
    BY <2>1, <2>2, <2>3, <2>4
<1>2. Messages'
  BY <1>1 DEF Messages, receiving, queues, taking
<1>3. Held' /\ interp' \in Interps
  BY DEF Held, Holding, Interps
<1> QED
  BY <1>2, <1>3

-----------------------------------------------------------------------------
LEMMA OwnedInit == Init => Owned
<1> SUFFICES ASSUME Init PROVE Owned
  OBVIOUS
<1>1. OwnedMessages
  <2>1. taken \in [msg : Frame \cup {NoFrame}, chan : Channels]
    BY Bounds DEF Init, NothingTaken, Channels
  <2>2. Messages
    BY <2>1, Bounds DEF Init, Messages
  <2> QED
    BY <2>2 DEF Init, OwnedMessages, Held, Holding, Interps
<1>2. OwnedPackets
  BY Bounds DEF Init, OwnedPackets, Packets, GivenOnce, Fresh, NULL
<1>3. Waits
  BY DEF Init, Waits
<1> QED
  BY <1>1, <1>2, <1>3 DEF Owned

LEMMA OwnedNext == Owned /\ [Next]_vars => Owned'
<1> SUFFICES ASSUME Owned, [Next]_vars
             PROVE  Owned'
  OBVIOUS
<1>0. OwnedMessages /\ OwnedPackets /\ Waits
  BY DEF Owned
<1> SUFFICES OwnedMessages' /\ OwnedPackets' /\ Waits'
  BY DEF Owned
<1>1. CASE \/ \E a \in Addresses, proto \in {"NC", "SYNC"} : Arrive(a, proto)
           \/ ReceivingThread \/ Receive
           \/ \E c \in Channels : ReceiveTest(c)
  <2>1. UNCHANGED sending /\ UNCHANGED syncing
    BY <1>1 DEF Arrive, ReceivingThread, ReceiveFrame, Match, MatchDone,
    Receive, ReceiveFirst, ReceiveCopy, ReceiveDelete, ReceiveTest
  <2>2. OwnedMessages'
    BY <1>0, <1>1, ArriveKeeps, ReceiveFrameKeeps, MatchKeeps, MatchDoneKeeps,
    ReceiveTestKeeps, ReceiveFirstKeeps, ReceiveCopyKeeps, ReceiveDeleteKeeps
    DEF ReceivingThread, Receive
  <2> QED
    BY <1>0, <2>1, <2>2, PacketsAlone, WaitsAlone
<1>2. CASE \/ \E c \in Channels : SendSync(c)
           \/ \E s \in Slots : Create(s)
           \/ \E c \in Channels, s \in Slots : SendMessage(c, s)
  <2>1. /\ UNCHANGED <<program, wire, receiving, queues, taking>>
        /\ interp = "idle" /\ UNCHANGED <<interp, syncing>>
    BY <1>2 DEF Create, SendMessage, SendSync, Idle
  <2>2. OwnedMessages'
    BY <1>0, <2>1, MessagesAlone DEF Holding, Interps
  <2>3. OwnedPackets'
    BY <1>0, <1>2, CreateKeeps, SendMessageKeeps, SendSyncKeeps
  <2> QED
    BY <1>0, <2>1, <2>2, <2>3, WaitsAlone
<1>3. CASE \E c \in Channels, s \in Slots : SendFails(c, s) \/ SendWild(c, s)
  <2>1. /\ UNCHANGED <<program, wire, receiving, queues, taking>>
        /\ interp = "idle" /\ interp' \in {"failed", "wild"}
        /\ UNCHANGED sending /\ UNCHANGED syncing
    BY <1>3 DEF SendFails, SendWild, Idle
  <2>2. OwnedMessages'
    BY <1>0, <2>1, MessagesAlone DEF Holding, Interps
  <2> QED
    BY <1>0, <2>1, <2>2, PacketsAlone, WaitsAlone
<1>4. CASE (\E t \in Timeouts : SyncStart(t)) \/ SyncReceive \/ SyncRetry \/ Tick
  <2>1. /\ UNCHANGED <<program, wire, receiving, queues, taking>>
        /\ ~Holding /\ interp' \in Interps \ {"first", "copy", "delete"}
        /\ UNCHANGED sending
    BY <1>4 DEF SyncStart, SyncReceive, SyncRetry, Tick, Idle, Holding, Interps
  <2>2. OwnedMessages'
    BY <1>0, <2>1, MessagesAlone
  <2> QED
    BY <1>0, <1>4, <2>1, <2>2, PacketsAlone, SyncKeeps
<1>5. CASE SyncTake
  <2>1. UNCHANGED sending /\ UNCHANGED syncing
    BY <1>5 DEF SyncTake
  <2> QED
    BY <1>0, <1>5, <2>1, SyncTakeKeeps, PacketsAlone, WaitsAlone
<1>6. CASE SyncExpire
  <2>1. /\ UNCHANGED <<program, wire, receiving, queues, taking>>
        /\ ~Holding /\ interp' = "sync failed"
        /\ UNCHANGED sending /\ UNCHANGED syncing
    BY <1>6 DEF SyncExpire, Holding
  <2>2. OwnedMessages'
    BY <1>0, <2>1, MessagesAlone DEF Interps
  <2> QED
    BY <1>0, <2>1, <2>2, PacketsAlone, WaitsAlone
<1>7. CASE UNCHANGED vars
  <2>1. /\ UNCHANGED <<program, wire, receiving, queues, interp, taking>>
        /\ UNCHANGED sending /\ UNCHANGED syncing
    BY <1>7 DEF vars
  <2>2. OwnedMessages'
    BY <1>0, <2>1 DEF OwnedMessages, Messages, Held, Holding, wire, receiving,
    queues, taking
  <2> QED
    BY <1>0, <2>1, <2>2, PacketsAlone, WaitsAlone
<1> QED
  BY <1>1, <1>2, <1>3, <1>4, <1>5, <1>6, <1>7 DEF Next, Instruction, Sync

(* For any channels: types, and a driver gets a packet once and owns it    *)
(* from then on, whatever it answers (ncm_send_message_hard).              *)
THEOREM GivenToDriverOnce == Spec => [](TypeOK /\ GivenOnce)
<1>1. Owned => TypeOK /\ GivenOnce
  BY Parts DEF Owned, OwnedMessages, OwnedPackets
<1> QED
  BY <1>1, OwnedInit, OwnedNext, PTL DEF Spec

-----------------------------------------------------------------------------
(* In a build for one channel, from here on: what is in hand is what is to *)
(* be compared with the only channel.                                      *)
LEMMA OneInHand ==
  ASSUME MAX_CHANNELS = 1, OwnedMessages
  PROVE  /\ InHand = IF thread = "match" /\ chan = 0 /\ nc_msg.source = mac[0]
                     THEN {nc_msg} ELSE {}
         /\ InHand \subseteq Frame
<1>1. chan \in 0 .. 1 /\ 0 \in Channels
  BY Bounds DEF OwnedMessages, Messages
<1>2. /\ chan = 0 => chan .. MAX_CHANNELS - 1 = {0}
      /\ chan = 1 => chan .. MAX_CHANNELS - 1 = {}
  BY <1>1
<1>3. InHand = IF thread = "match" /\ chan = 0 /\ nc_msg.source = mac[0]
               THEN {nc_msg} ELSE {}
  BY <1>1, <1>2 DEF InHand
<1>4. mac[0] # "unwritten"
  BY <1>1, Bounds
<1>5. nc_msg.source = mac[0] => nc_msg \in Frame
  BY <1>4 DEF OwnedMessages, Messages, NoFrame
<1> QED
  BY <1>3, <1>5

LEMMA FrameIds == \A f \in Frame : f.id \in Int
BY Bounds DEF Frame

(* A queue in descending order holds each message once.                    *)
LEMMA DescendingInjective ==
  ASSUME NEW s \in Seq(Frame),
         \A i, j \in DOMAIN s : i < j => s[j].id < s[i].id
  PROVE  IsInjective(s)
<1> SUFFICES ASSUME NEW i \in DOMAIN s, NEW j \in DOMAIN s, s[i] = s[j]
             PROVE  i = j
  BY DEF IsInjective
<1>1. i \in Int /\ j \in Int /\ s[i] \in Frame /\ s[j] \in Frame
  OBVIOUS
<1>2. s[i].id \in Int /\ ~ (s[j].id < s[i].id) /\ ~ (s[i].id < s[j].id)
  BY <1>1, FrameIds
<1> QED
  BY <1>1, <1>2

LEMMA DeletedDescends ==
  ASSUME NEW s \in Seq(Frame), NEW e,
         \A i, j \in DOMAIN s : i < j => s[j].id < s[i].id
  PROVE  \A i, j \in DOMAIN RemoveFirst(s, e) :
           i < j => RemoveFirst(s, e)[j].id < RemoveFirst(s, e)[i].id
<1> DEFINE t == RemoveFirst(s, e)
<1>1. CASE t = s
  BY <1>1
<1>2. CASE \E k \in 1 .. Len(s) :
             /\ Len(t) = Len(s) - 1
             /\ \A i \in 1 .. Len(s) - 1 :
                  t[i] = IF i < k THEN s[i] ELSE s[i + 1]
  <2>1. PICK k \in 1 .. Len(s) :
          /\ Len(t) = Len(s) - 1
          /\ \A i \in 1 .. Len(s) - 1 :
               t[i] = IF i < k THEN s[i] ELSE s[i + 1]
    BY <1>2
  <2>2. t \in Seq(Frame)
    BY Deleted
  <2> HIDE DEF t
  <2>3. DOMAIN t = 1 .. Len(s) - 1 /\ DOMAIN s = 1 .. Len(s)
    BY <2>1, <2>2
  <2> SUFFICES ASSUME NEW i \in 1 .. Len(s) - 1, NEW j \in 1 .. Len(s) - 1,
                      i < j
               PROVE  t[j].id < t[i].id
    BY <2>3 DEF t
  <2> DEFINE at(n) == IF n < k THEN n ELSE n + 1
  <2>4. /\ at(i) \in 1 .. Len(s) /\ at(j) \in 1 .. Len(s) /\ at(i) < at(j)
        /\ t[i] = s[at(i)] /\ t[j] = s[at(j)]
    BY <2>1
  <2> HIDE DEF at
  <2> QED
    BY <2>3, <2>4
<1> QED
  <2>1. t = s \/ \E k \in 1 .. Len(s) :
          /\ Len(t) = Len(s) - 1
          /\ \A i \in 1 .. Len(s) - 1 :
               t[i] = IF i < k THEN s[i] ELSE s[i + 1]
    BY Deleted
  <2> HIDE DEF t
  <2> QED
    BY <1>1, <1>2, <2>1 DEF t

(* Everything but waiting and sending, as it is while nothing is received. *)
LEMMA PassedAlone ==
  ASSUME Passed, UNCHANGED <<frames, receive_socket, receiving, queues, taking>>,
         interp' = interp \/ (~Holding /\ ~Holding')
  PROVE  Passed'
<1> USE DEF receiving, queues, taking
<1>1. UNCHANGED InHand
  BY DEF InHand
<1>2. \A c : Waiting(c)' = Waiting(c)
  BY DEF Waiting, Holding
<1>3. EachOnce'
  BY <1>1, <1>2 DEF Passed, EachOnce
<1>4. Socket' /\ NewestInHand' /\ Queues'
  BY <1>1 DEF Passed, Socket, NewestInHand, Queues
<1>5. Freshest'
  BY DEF Passed, Freshest, Holding
<1> QED
  BY <1>3, <1>4, <1>5 DEF Passed

LEMMA ArrivePassed ==
  ASSUME OwnedMessages, Passed, NEW a \in Addresses,
         NEW proto \in {"NC", "SYNC"}, Arrive(a, proto)
  PROVE  Passed'
<1> DEFINE f == [id |-> frames + 1, source |-> a, proto |-> proto]
<1>1. /\ frames \in Int /\ frames' = frames + 1
      /\ receive_socket' = Queued(receive_socket, f)
      /\ UNCHANGED <<receiving, queues, interp, taking>>
  BY DEF OwnedMessages, Messages, Arrive
<1>2. f \in Frame /\ f.id = frames + 1
  BY Bounds DEF OwnedMessages, Messages, Arrive, Frame
<1> HIDE DEF f
<1> USE DEF receiving, queues, taking
<1>3. UNCHANGED InHand
  BY <1>1 DEF InHand
<1>4. \A c : Waiting(c)' = Waiting(c)
  BY <1>1 DEF Waiting
<1>5. EachOnce'
  BY <1>1, <1>3, <1>4 DEF Passed, EachOnce
<1>6. NewestInHand' /\ Queues' /\ Freshest'
  BY <1>1, <1>3 DEF Passed, NewestInHand, Queues, Freshest
<1>7. Socket'
  <2>1. /\ receive_socket \in Seq(Frame) /\ Len(receive_socket) <= RcvBuf
        /\ accepted \subseteq Frame
    BY DEF OwnedMessages, Messages
  <2>2. \A g \in Frame : g.id \in Int
    BY FrameIds
  <2>3. DOMAIN receive_socket = 1 .. Len(receive_socket)
    BY <2>1
  <2>4. \A i \in 1 .. Len(receive_socket) :
          /\ receive_socket[i] \in Frame
          /\ receive_socket[i].id \in Int /\ receive_socket[i].id <= frames
    BY <2>1, <2>2, <2>3 DEF Passed, Socket
  <2>5. receive_socket \in Seq(Frame) /\ Len(receive_socket) <= RcvBuf
    BY <2>1
  <2>6. /\ Queued(receive_socket, f) \in Seq(Frame)
        /\ \/ Queued(receive_socket, f) = receive_socket
           \/ Grown(receive_socket, f, Queued(receive_socket, f))
    BY <1>2, <2>5, SocketKeeps
  <2>7. receive_socket' = Queued(receive_socket, f)
    BY <1>1
  <2>8. CASE receive_socket' = receive_socket
    BY <1>1, <2>1, <2>2, <2>4, <2>8 DEF Passed, Socket
  <2>9. CASE Grown(receive_socket, f, receive_socket')
    <3>0. /\ Len(receive_socket') = Len(receive_socket) + 1
          /\ receive_socket'[Len(receive_socket) + 1] = f
          /\ \A i \in 1 .. Len(receive_socket) :
               receive_socket'[i] = receive_socket[i]
      BY <2>9 DEF Grown
    <3>1. DOMAIN receive_socket' = 1 .. Len(receive_socket) + 1
      BY <2>6, <2>7, <3>0
    <3>2. \A i, j \in 1 .. Len(receive_socket) + 1 :
            i < j => receive_socket'[i].id < receive_socket'[j].id
      <4>1. \A i, j \in 1 .. Len(receive_socket) :
              i < j => receive_socket[i].id < receive_socket[j].id
        BY <2>3 DEF Passed, Socket
      <4> TAKE i, j \in 1 .. Len(receive_socket) + 1
      <4> HAVE i < j
      <4>2. i \in 1 .. Len(receive_socket) /\ Len(receive_socket) \in Nat
        BY <2>1
      <4>3. CASE j \in 1 .. Len(receive_socket)
        BY <3>0, <4>1, <4>2, <4>3
      <4>4. CASE j = Len(receive_socket) + 1
        BY <1>1, <1>2, <2>4, <3>0, <4>2, <4>4
      <4> QED
        BY <4>2, <4>3, <4>4
    <3>3. \A i \in 1 .. Len(receive_socket) + 1 :
            receive_socket'[i].id <= frames'
      BY <1>1, <1>2, <2>1, <2>4, <3>0
    <3>4. \A g \in accepted : g.id \in Int /\ g.id <= frames
      BY <2>1, <2>2 DEF Passed, Socket
    <3>5. \A g \in accepted : \A i \in 1 .. Len(receive_socket) + 1 :
            g.id < receive_socket'[i].id
      <4>1. \A g \in accepted : \A i \in 1 .. Len(receive_socket) :
              g.id < receive_socket[i].id
        BY <2>3 DEF Passed, Socket
      <4> TAKE g \in accepted
      <4> TAKE i \in 1 .. Len(receive_socket) + 1
      <4>2. CASE i \in 1 .. Len(receive_socket)
        BY <3>0, <4>1, <4>2
      <4>3. CASE i = Len(receive_socket) + 1
        BY <1>1, <1>2, <3>0, <3>4, <4>3
      <4>4. Len(receive_socket) \in Nat
        BY <2>1
      <4> QED
        BY <4>2, <4>3, <4>4
    <3> QED
      BY <1>1, <3>1, <3>2, <3>3, <3>4, <3>5 DEF Socket
  <2> QED
    BY <2>8, <2>9, <2>6, <2>7
<1> QED
  BY <1>5, <1>6, <1>7 DEF Passed

LEMMA ReceiveFramePassed ==
  ASSUME MAX_CHANNELS = 1, OwnedMessages, OwnedMessages', Passed, ReceiveFrame
  PROVE  Passed'
<1> DEFINE f == Head(receive_socket)
<1>1. /\ receive_socket \in Seq(Frame) /\ receive_socket # << >>
      /\ f \in Frame /\ f.id \in Int /\ accepted \subseteq Frame
      /\ f = receive_socket[1] /\ 1 \in DOMAIN receive_socket
  BY FrameIds DEF OwnedMessages, Messages, ReceiveFrame
<1>2. InHand = {}
  BY OneInHand DEF ReceiveFrame
<1>3. /\ accepted' = accepted \cup InHand' /\ InHand' \subseteq {f}
  <2>1. /\ chan' = 0 /\ nc_msg' = f
        /\ thread' = "match" <=> f.proto = "NC"
    BY DEF ReceiveFrame
  <2>2. InHand' = IF thread' = "match" /\ chan' = 0 /\ nc_msg'.source = mac[0]
                  THEN {nc_msg'} ELSE {}
    <3>1. \A c \in Int : c = 0 => c .. MAX_CHANNELS - 1 = {0}
      OBVIOUS
    <3> QED
      BY <2>1, <3>1 DEF InHand
  <2>3. Accepted(f) <=> f.proto = "NC" /\ f.source = mac[0]
    <3>1. 0 .. MAX_CHANNELS - 1 = {0}
      OBVIOUS
    <3> QED
      BY <3>1 DEF Accepted
  <2>4. accepted' = accepted \cup {g \in {f} : Accepted(g)}
    BY DEF ReceiveFrame
  <2> HIDE DEF f
  <2> QED
    BY <2>1, <2>2, <2>3, <2>4
<1>4. \A g \in accepted : g.id < f.id
  BY <1>1 DEF Passed, Socket
<1>5. f \notin accepted
  BY <1>1, <1>4
<1>6. UNCHANGED <<frames, queues, interp, taking>>
  BY DEF ReceiveFrame
<1>7. receive_socket' = Tail(receive_socket)
  BY DEF ReceiveFrame
<1> HIDE DEF f
<1> USE DEF queues, taking
<1>8. EachOnce'
  <2>1. \A c : Waiting(c)' = Waiting(c)
    BY <1>6 DEF Waiting
  <2>2. /\ ToSet(received) \subseteq accepted
        /\ \A c \in Channels : ToSet(message_queue[c]) \subseteq accepted
    BY DEF Passed, EachOnce
  <2> QED
    BY <1>2, <1>3, <1>5, <1>6, <2>1, <2>2 DEF Passed, EachOnce
<1>9. Socket'
  <2>1. /\ Tail(receive_socket) \in Seq(Frame)
        /\ Len(Tail(receive_socket)) = Len(receive_socket) - 1
        /\ \A i \in 1 .. Len(receive_socket) - 1 :
             /\ Tail(receive_socket)[i] = receive_socket[i + 1]
             /\ i + 1 \in 1 .. Len(receive_socket)
        /\ Len(receive_socket) \in Nat /\ Len(receive_socket) > 0
    BY <1>1, HeadTailProperties, LenProperties
  <2>2. /\ DOMAIN receive_socket = 1 .. Len(receive_socket)
        /\ DOMAIN receive_socket' = 1 .. Len(receive_socket) - 1
    BY <1>1, <1>7, <2>1
  <2>3. \A i, j \in DOMAIN receive_socket' :
          i < j => receive_socket'[i].id < receive_socket'[j].id
    BY <1>7, <2>1, <2>2 DEF Passed, Socket
  <2>4. \A i \in DOMAIN receive_socket' :
          /\ receive_socket'[i].id <= frames'
          /\ f.id < receive_socket'[i].id
    BY <1>1, <1>6, <1>7, <2>1, <2>2 DEF Passed, Socket
  <2>5. f.id <= frames'
    BY <1>1, <1>6 DEF Passed, Socket
  <2>6. \A g \in accepted : /\ g.id <= frames'
                           /\ \A i \in DOMAIN receive_socket' :
                                g.id < receive_socket'[i].id
    BY <1>6, <1>7, <2>1, <2>2 DEF Passed, Socket
  <2> QED
    BY <1>3, <2>3, <2>4, <2>5, <2>6 DEF Socket
<1>10. NewestInHand'
  BY <1>3, <1>4 DEF NewestInHand
<1>11. Queues' /\ Freshest'
  BY <1>6 DEF Passed, Queues, Freshest
<1> QED
  BY <1>8, <1>9, <1>10, <1>11 DEF Passed

LEMMA MatchPassed ==
  ASSUME MAX_CHANNELS = 1, OwnedMessages, Passed, Match
  PROVE  Passed'
<1>1. /\ chan = 0 /\ chan' = 1 /\ thread = "match" /\ 0 \in Channels
      /\ UNCHANGED <<frames, receive_socket, accepted, interp, taking>>
  BY Bounds DEF OwnedMessages, Messages, Match, wire
<1> USE DEF taking
<1>2. InHand' = {}
  <2>1. 1 .. MAX_CHANNELS - 1 = {}
    OBVIOUS
  <2> QED
    BY <1>1, <2>1 DEF InHand
<1>3. Socket' /\ Freshest'
  BY <1>1 DEF Passed, Socket, Freshest
<1>4. NewestInHand'
  BY <1>2 DEF NewestInHand
<1>5. CASE nc_msg.source = mac[chan]
  <2>1. InHand = {nc_msg} /\ nc_msg \in Frame
    BY <1>1, <1>5, OneInHand
  <2>2. /\ message_queue[0] \in Seq(Frame)
        /\ ToSet(message_queue[0]) \subseteq accepted \ {nc_msg}
    BY <1>1, <2>1 DEF OwnedMessages, Messages, Passed, EachOnce
  <2> DEFINE q == ListAdd(message_queue[0], nc_msg)
  <2>3. /\ q \in Seq(Frame) /\ Len(q) = Len(message_queue[0]) + 1
        /\ ToSet(q) = {nc_msg} \cup ToSet(message_queue[0])
        /\ q[1] = nc_msg
        /\ \A i \in 1 .. Len(message_queue[0]) : q[i + 1] = message_queue[0][i]
    BY <2>1, <2>2, Prepended DEF ListAdd
  <2>4. \A c \in Channels : message_queue'[c] = IF c = 0 THEN q
                                               ELSE message_queue[c]
    BY <1>1, <1>5 DEF OwnedMessages, Messages, Match
  <2> HIDE DEF q
  <2>5. \A i, j \in DOMAIN q : i < j => q[j].id < q[i].id
    <3>1. /\ DOMAIN q = 1 .. Len(message_queue[0]) + 1
          /\ DOMAIN message_queue[0] = 1 .. Len(message_queue[0])
          /\ Len(message_queue[0]) \in Nat
      BY <2>2, <2>3
    <3> SUFFICES ASSUME NEW i \in DOMAIN q, NEW j \in DOMAIN q, i < j
                 PROVE  q[j].id < q[i].id
      OBVIOUS
    <3>2. /\ j - 1 \in 1 .. Len(message_queue[0])
          /\ q[j] = message_queue[0][j - 1]
      <4>1. j - 1 \in 1 .. Len(message_queue[0]) /\ (j - 1) + 1 = j
        BY <3>1
      <4> QED
        BY <2>3, <4>1
    <3>3. CASE i = 1
      <4>1. q[j] \in accepted \ {nc_msg}
        BY <2>2, <3>1, <3>2 DEF ToSet
      <4> QED
        BY <2>1, <2>3, <3>3, <4>1 DEF Passed, NewestInHand
    <3>4. CASE i # 1
      <4>1. i - 1 \in 1 .. Len(message_queue[0]) /\ (i - 1) + 1 = i
        BY <3>1, <3>4
      <4>2. q[i] = message_queue[0][i - 1] /\ i - 1 < j - 1
        BY <2>3, <3>1, <4>1
      <4> QED
        BY <1>1, <3>1, <3>2, <4>1, <4>2 DEF Passed, Queues
    <3> QED
      BY <3>3, <3>4
  <2>6. Queues'
    BY <2>4, <2>5 DEF Passed, Queues
  <2>7. IsInjective(q)
    BY <2>3, <2>5, DescendingInjective
  <2>8. UNION {ToSet(message_queue'[c]) : c \in Channels}
          = {nc_msg} \cup UNION {ToSet(message_queue[c]) : c \in Channels}
    BY <1>1, <2>3, <2>4
  <2>9. nc_msg \notin ToSet(received)
    BY <2>1 DEF Passed, EachOnce
  <2>10. \A c \in Channels : Waiting(c)' \subseteq Waiting(c) \cup {nc_msg}
    BY <1>1, <2>3, <2>4 DEF Waiting
  <2>11. EachOnce'
    BY <1>1, <1>2, <2>1, <2>4, <2>7, <2>8, <2>9, <2>10 DEF Passed, EachOnce
  <2> QED
    BY <1>3, <1>4, <2>6, <2>11 DEF Passed
<1>6. CASE nc_msg.source # mac[chan]
  <2>1. InHand = {} /\ UNCHANGED queues
    BY <1>1, <1>6, OneInHand DEF Match
  <2>2. \A c : Waiting(c)' = Waiting(c)
    BY <1>1, <2>1 DEF Waiting, queues
  <2>3. EachOnce' /\ Queues'
    BY <1>1, <1>2, <2>1, <2>2 DEF Passed, EachOnce, Queues, queues
  <2> QED
    BY <1>3, <1>4, <2>3 DEF Passed
<1> QED
  BY <1>5, <1>6

LEMMA MatchDonePassed ==
  ASSUME MAX_CHANNELS = 1, OwnedMessages, Passed, MatchDone
  PROVE  Passed'
<1>1. /\ InHand = {}
      /\ UNCHANGED <<frames, receive_socket, accepted, queues, interp, taking>>
  BY OneInHand DEF MatchDone, wire
<1>2. InHand' = {}
  BY DEF MatchDone, InHand
<1> USE DEF queues, taking
<1>3. \A c : Waiting(c)' = Waiting(c)
  BY <1>1 DEF Waiting
<1>4. EachOnce'
  BY <1>1, <1>2, <1>3 DEF Passed, EachOnce
<1>5. Socket' /\ NewestInHand' /\ Queues' /\ Freshest'
  BY <1>1, <1>2 DEF Passed, Socket, NewestInHand, Queues, Freshest
<1> QED
  BY <1>4, <1>5 DEF Passed

(* What the sections of a RECEIVE leave alone.                             *)
LEMMA ReceivingAlone ==
  ASSUME Passed, UNCHANGED <<frames, receive_socket, receiving>>
  PROVE  Socket' /\ NewestInHand' /\ UNCHANGED InHand
<1> USE DEF receiving
<1>1. UNCHANGED InHand
  BY DEF InHand
<1> QED
  BY <1>1 DEF Passed, Socket, NewestInHand

LEMMA ReceiveTestPassed ==
  ASSUME Passed, NEW c \in Channels, ReceiveTest(c)
  PROVE  Passed'
<1>1. /\ interp = "idle" /\ interp' = "first"
      /\ UNCHANGED <<frames, receive_socket, receiving, queues, received>>
  BY DEF ReceiveTest, Idle, wire
<1>2. Socket' /\ NewestInHand' /\ UNCHANGED InHand
  BY <1>1, ReceivingAlone
<1> USE DEF receiving, queues
<1>3. \A d : Waiting(d)' = Waiting(d)
  BY <1>1 DEF Waiting
<1>4. EachOnce'
  BY <1>1, <1>2, <1>3 DEF Passed, EachOnce
<1>5. Queues' /\ Freshest'
  BY <1>1 DEF Passed, Queues, Freshest
<1> QED
  BY <1>2, <1>4, <1>5 DEF Passed

(* The first of a queue is its newest.                                     *)
LEMMA ReceiveFirstPassed ==
  ASSUME OwnedMessages, Passed, ReceiveFirst
  PROVE  Passed'
<1> DEFINE q == message_queue[taken.chan]
<1>1. /\ interp = "first" /\ interp' = "copy" /\ looked' = looked
      /\ UNCHANGED <<frames, receive_socket, receiving, queues, received>>
  BY DEF ReceiveFirst, wire
<1>2. Socket' /\ NewestInHand' /\ UNCHANGED InHand
  BY <1>1, ReceivingAlone
<1>3. /\ taken.chan \in Channels /\ q \in Seq(Frame) /\ q # << >>
      /\ looked \subseteq ToSet(q)
  BY <1>1 DEF OwnedMessages, Messages, Held, Holding
<1>4. taken'.msg = Head(q)
  BY DEF ReceiveFirst, OwnedMessages, Messages
<1>5. \A i, j \in DOMAIN q : i < j => q[j].id < q[i].id
  BY <1>3 DEF Passed, Queues
<1> HIDE DEF q
<1>6. ASSUME NEW f \in looked
      PROVE  f.id <= taken'.msg.id
  <2>1. PICK i \in 1 .. Len(q) : q[i] = f
    BY <1>3, SetOfSeq
  <2>2. /\ DOMAIN q = 1 .. Len(q) /\ 1 \in 1 .. Len(q) /\ Head(q) = q[1]
        /\ Len(q) \in Nat
    BY <1>3
  <2>3. q[1].id \in Int /\ q[i].id \in Int
    BY <1>3, <2>2, FrameIds
  <2>4. i = 1 \/ q[i].id < q[1].id
    BY <1>5, <2>2
  <2> QED
    BY <1>4, <2>1, <2>2, <2>3, <2>4
<1>7. Freshest'
  BY <1>1, <1>6 DEF Freshest
<1> USE DEF receiving, queues
<1>8. \A d : Waiting(d)' = Waiting(d)
  BY <1>1 DEF Waiting
<1>9. EachOnce' /\ Queues'
  BY <1>1, <1>2, <1>8 DEF Passed, EachOnce, Queues
<1> QED
  BY <1>2, <1>7, <1>9 DEF Passed

(* What is copied was queued and not yet copied.                           *)
LEMMA ReceiveCopyPassed ==
  ASSUME OwnedMessages, Passed, ReceiveCopy
  PROVE  Passed'
<1> DEFINE m == taken.msg
<1>1. /\ interp = "copy" /\ interp' = "delete"
      /\ received' = Append(received, m)
      /\ UNCHANGED <<frames, receive_socket, receiving, queues, taken, looked>>
  BY DEF ReceiveCopy, wire
<1>2. Socket' /\ NewestInHand' /\ UNCHANGED InHand
  BY <1>1, ReceivingAlone
<1>3. /\ taken.chan \in Channels /\ m \in ToSet(message_queue[taken.chan])
      /\ message_queue[taken.chan] \in Seq(Frame) /\ received \in Seq(Frame)
  BY <1>1 DEF OwnedMessages, Messages, Held
<1>4. m \in Frame
  BY <1>3, SetOfSeq
<1>5. ToSet(received') = ToSet(received) \cup {m}
  BY <1>1, <1>3, <1>4, Appended
<1>6. \A c \in Channels : Waiting(c) = ToSet(message_queue[c])
  BY <1>1 DEF Waiting
<1>7. m \notin ToSet(received)
  BY <1>3, <1>6 DEF Passed, EachOnce
<1>8. IsInjective(received')
  <2>1. IsInjective(received) /\ DOMAIN received = 1 .. Len(received)
    BY <1>3 DEF Passed, EachOnce
  <2>2. /\ DOMAIN received' = 1 .. Len(received) + 1 /\ Len(received) \in Nat
        /\ \A i \in 1 .. Len(received) : received'[i] = received[i]
        /\ received'[Len(received) + 1] = m
    BY <1>1, <1>3, <1>4
  <2>3. \A i \in 1 .. Len(received) : received[i] # m
    BY <1>3, <1>7, SetOfSeq
  <2>4. \A i, j \in 1 .. Len(received) : received[i] = received[j] => i = j
    BY <2>1 DEF IsInjective
  <2> SUFFICES ASSUME NEW i \in 1 .. Len(received) + 1,
                      NEW j \in 1 .. Len(received) + 1,
                      received'[i] = received'[j]
               PROVE  i = j
    BY <2>2 DEF IsInjective
  <2>5. /\ i \in 1 .. Len(received) \/ i = Len(received) + 1
        /\ j \in 1 .. Len(received) \/ j = Len(received) + 1
    BY <2>2
  <2> QED
    BY <2>2, <2>3, <2>4, <2>5
<1> USE DEF receiving, queues
<1>9. \A c \in Channels :
        /\ Waiting(c)' \subseteq Waiting(c)
        /\ Waiting(c)' \cap ToSet(received') = {}
  <2> TAKE c \in Channels
  <2>1. Waiting(c)' = Waiting(c) \ (IF taken.chan = c THEN {m} ELSE {})
    BY <1>1, <1>6 DEF Waiting
  <2>2. Waiting(c) \cap ToSet(received) = {}
    BY DEF Passed, EachOnce
  <2>3. taken.chan # c => m \notin Waiting(c)
    <3>1. taken.chan = 0
      BY <1>3, SetOfEmpty DEF Passed, Queues
    <3>2. c # 0 => Waiting(c) = {}
      BY <1>6, SetOfEmpty DEF Passed, Queues
    <3> QED
      BY <3>1, <3>2
  <2> QED
    BY <1>5, <2>1, <2>2, <2>3
<1>10. ToSet(received') \cup UNION {ToSet(message_queue[c]) : c \in Channels}
        = ToSet(received) \cup UNION {ToSet(message_queue[c]) : c \in Channels}
  BY <1>3, <1>5
<1>11. m \notin InHand
  BY <1>3 DEF Passed, EachOnce
<1>12. EachOnce'
  BY <1>1, <1>2, <1>5, <1>8, <1>9, <1>10, <1>11 DEF Passed, EachOnce
<1>13. Queues' /\ Freshest'
  BY <1>1 DEF Passed, Queues, Freshest
<1> QED
  BY <1>2, <1>12, <1>13 DEF Passed

(* What is deleted has been copied, and the others keep their order.       *)
LEMMA ReceiveDeletePassed ==
  ASSUME OwnedMessages, Passed, ReceiveDelete
  PROVE  Passed'
<1> DEFINE m == taken.msg
           q == message_queue[taken.chan]
           r == RemoveFirst(q, m)
<1>1. /\ interp = "delete" /\ interp' = "idle"
      /\ message_queue' = [message_queue EXCEPT ![taken.chan] = r]
      /\ UNCHANGED <<frames, receive_socket, receiving, received>>
  BY DEF ReceiveDelete, wire
<1>2. Socket' /\ NewestInHand' /\ UNCHANGED InHand
  BY <1>1, ReceivingAlone
<1>3. /\ taken.chan \in Channels /\ q \in Seq(Frame)
      /\ m \in ToSet(q) /\ m \in ToSet(received)
  BY <1>1 DEF OwnedMessages, Messages, Held
<1>4. IsInjective(q)
  BY <1>3 DEF Passed, EachOnce
<1>5. ToSet(r) = ToSet(q) \ {m} /\ IsInjective(r)
  BY <1>3, <1>4, DeletedOnce
<1>6. \A c \in Channels :
        message_queue'[c] = IF c = taken.chan THEN r ELSE message_queue[c]
  BY <1>1 DEF OwnedMessages, Messages
<1>7. \A i, j \in DOMAIN r : i < j => r[j].id < r[i].id
  <2>1. \A i, j \in DOMAIN q : i < j => q[j].id < q[i].id
    BY <1>3 DEF Passed, Queues
  <2> HIDE DEF m, q
  <2> QED
    BY <1>3, <2>1, DeletedDescends
<1>8. taken.chan = 0
  BY <1>3, SetOfEmpty DEF Passed, Queues
<1> HIDE DEF m, q, r
<1>9. Queues'
  BY <1>6, <1>7, <1>8 DEF Passed, Queues
<1> USE DEF receiving
<1>10. \A c \in Channels : Waiting(c)' = Waiting(c)
  <2> TAKE c \in Channels
  <2>1. CASE c = taken.chan
    BY <1>1, <1>5, <1>6, <2>1 DEF Waiting, m, q
  <2>2. CASE c # taken.chan
    BY <1>1, <1>6, <2>2 DEF Waiting
  <2> QED
    BY <2>1, <2>2
<1>11. ToSet(received) \cup UNION {ToSet(message_queue'[c]) : c \in Channels}
        = ToSet(received) \cup UNION {ToSet(message_queue[c]) : c \in Channels}
  <2>1. \A c \in Channels :
          /\ ToSet(message_queue'[c]) \subseteq ToSet(message_queue[c])
          /\ ToSet(message_queue[c]) \subseteq ToSet(message_queue'[c]) \cup {m}
    BY <1>5, <1>6 DEF q
  <2> QED
    BY <1>3, <2>1
<1>12. \A c \in Channels :
         /\ IsInjective(message_queue'[c])
         /\ ToSet(message_queue'[c]) \subseteq ToSet(message_queue[c])
  BY <1>5, <1>6 DEF Passed, EachOnce, q
<1>13. EachOnce'
  BY <1>1, <1>2, <1>10, <1>11, <1>12 DEF Passed, EachOnce
<1>14. Freshest'
  BY <1>1 DEF Freshest
<1> QED
  BY <1>2, <1>9, <1>13, <1>14 DEF Passed

-----------------------------------------------------------------------------
LEMMA PassedInit == Init => Passed
<1> SUFFICES ASSUME Init PROVE Passed
  OBVIOUS
<1>1. InHand = {} /\ ToSet(received) = {} /\ IsInjective(received)
  BY SetOfEmpty DEF Init, InHand, IsInjective
<1>2. \A c \in Channels : /\ message_queue[c] = << >>
                         /\ ToSet(message_queue[c]) = {}
                         /\ IsInjective(message_queue[c])
                         /\ Waiting(c) = {}
  BY SetOfEmpty DEF Init, Waiting, IsInjective
<1>3. EachOnce
  BY <1>1, <1>2 DEF Init, EachOnce
<1>4. Socket /\ NewestInHand
  BY <1>1 DEF Init, Socket, NewestInHand
<1>5. Queues /\ Freshest
  BY <1>2 DEF Init, Queues, Freshest
<1> QED
  BY <1>3, <1>4, <1>5 DEF Passed

LEMMA PassedNext ==
  ASSUME MAX_CHANNELS = 1
  PROVE  Owned /\ Owned' /\ Passed /\ [Next]_vars => Passed'
<1> SUFFICES ASSUME OwnedMessages, OwnedMessages', Passed, [Next]_vars
             PROVE  Passed'
  BY DEF Owned
<1>1. CASE \/ \E a \in Addresses, proto \in {"NC", "SYNC"} : Arrive(a, proto)
           \/ ReceivingThread
  BY <1>1, ArrivePassed, ReceiveFramePassed, MatchPassed, MatchDonePassed
  DEF ReceivingThread
<1>2. CASE Receive \/ \E c \in Channels : ReceiveTest(c)
  BY <1>2, ReceiveTestPassed, ReceiveFirstPassed, ReceiveCopyPassed,
  ReceiveDeletePassed DEF Receive
<1>3. CASE \/ \E c \in Channels : SendSync(c)
           \/ \E s \in Slots : Create(s)
           \/ \E c \in Channels, s \in Slots :
                SendMessage(c, s) \/ SendFails(c, s) \/ SendWild(c, s)
           \/ \E t \in Timeouts : SyncStart(t)
  <2>1. /\ UNCHANGED <<frames, receive_socket, receiving, queues, taking>>
        /\ interp = "idle" /\ interp' \in {"idle", "failed", "wild", "sync"}
    BY <1>3 DEF SendSync, Create, SendMessage, SendFails, SendWild, SyncStart,
    Idle, wire
  <2> QED
    BY <2>1, PassedAlone DEF Holding
<1>4. CASE Sync \/ Tick
  <2>1. UNCHANGED <<frames, receive_socket, receiving, queues, taking>>
    BY <1>4 DEF Sync, SyncReceive, SyncTake, SyncExpire, SyncRetry, Tick, wire
  <2>2. interp' = interp \/ (~Holding /\ ~Holding')
    BY <1>4 DEF Sync, SyncReceive, SyncTake, SyncExpire, SyncRetry, Tick,
    Holding
  <2> QED
    BY <2>1, <2>2, PassedAlone
<1>5. CASE UNCHANGED vars
  <2>1. /\ UNCHANGED <<frames, receive_socket, receiving, queues, taking>>
        /\ interp' = interp
    BY <1>5 DEF vars, wire
  <2> QED
    BY <2>1, PassedAlone
<1> QED
  BY <1>1, <1>2, <1>3, <1>4, <1>5 DEF Next, Instruction

LEMMA AllPassed ==
  ASSUME MAX_CHANNELS = 1
  PROVE  Spec => [](Owned /\ Passed)
BY OwnedInit, OwnedNext, PassedInit, PassedNext, PTL DEF Spec

(* In a build for one channel, which is the default: a message that comes  *)
(* for the channel is in one place at a time, from the socket to the       *)
(* variable, and a packet has one owner (receiving_threadfn,               *)
(* ncm_receive_message_to_var, ncm_send_message_hard).                     *)
THEOREM EveryFrameOnce ==
  ASSUME MAX_CHANNELS = 1
  PROVE  Spec => []FramesOnce
<1>1. Owned /\ Passed => FramesOnce
  BY Parts DEF Owned, OwnedMessages, OwnedPackets, Passed, FramesOnce
<1> QED
  BY <1>1, AllPassed, PTL

(* In such a build a RECEIVE delivers nothing older than what was queued   *)
(* when it began, whatever comes between its sections                      *)
(* (ncm_receive_message_to_var).                                           *)
THEOREM NewestDelivered ==
  ASSUME MAX_CHANNELS = 1
  PROVE  Spec => []Freshest
BY AllPassed, PTL DEF Passed
=============================================================================
