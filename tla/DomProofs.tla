----------------------------- MODULE DomProofs -----------------------------
(***************************************************************************)
(* Proofs about Dom: what jQuery keeps for an element is that element's    *)
(* and goes with it (DataHeld), listeners are where handlers are (Heard),  *)
(* events call what was bound when they started, once (CalledRight).       *)
(*                                                                         *)
(* The operations of Dom are operators on what jQuery keeps, q; Store says *)
(* what holds of q and is shown to be kept by one operator after the       *)
(* other, before the actions are looked at.                                *)
(***************************************************************************)
EXTENDS Dom, FiniteSetTheorems, SequenceTheorems, WellFoundedInduction, TLAPS

HandlerSet ==
  [origType : OrigTypes, handler : STRING, ns : STRING, delegated : BOOLEAN,
   one : BOOLEAN, uid : Nat]
ListSet == [list : Seq(HandlerSet), delegateCount : Nat]
EventsSet == UNION {[T -> ListSet] : T \in SUBSET Types}
EntrySet == [data : SUBSET {"key"}, parsedAttrs : BOOLEAN, events : EventsSet]
Caches == UNION {[D -> EntrySet] : D \in SUBSET Nat}
Jq ==
  [id : [Nodes -> Nat], cache : Caches, deletedIds : Seq(Nat), guid : Nat,
   listening : SUBSET (Nodes \X Types), attaches : Nat, capture : BOOLEAN]
BoundSet == Seq([node : Nodes, b : HandlerSet])

(* Ids: who has one has an entry under it, and it is nobody else's.        *)
Ids(q) ==
  /\ \A m, n \in Nodes : q.id[m] = q.id[n] /\ q.id[m] # NoId => m = n
  /\ \A n \in Nodes : q.id[n] # NoId => q.id[n] \in DOMAIN q.cache
  /\ \A i \in DOMAIN q.cache : i # NoId /\ \E n \in Nodes : q.id[n] = i
  /\ \A n \in Nodes : q.id[n] < q.guid
  /\ \A k \in DOMAIN q.deletedIds :
       /\ q.deletedIds[k] # NoId
       /\ q.deletedIds[k] < q.guid
       /\ q.deletedIds[k] \notin DOMAIN q.cache
  /\ \A j, k \in DOMAIN q.deletedIds :
       q.deletedIds[j] = q.deletedIds[k] => j = k

(* Lists of handlers, when bd was bound and the handlers dead were taken   *)
(* off.                                                                    *)
Same(b, c) ==
  /\ b.origType = c.origType
  /\ b.handler = c.handler
  /\ b.ns = c.ns
  /\ b.delegated = c.delegated

Registered(bd, n, t, b) ==
  /\ b.uid \in DOMAIN bd
  /\ bd[b.uid].node = n
  /\ Same(bd[b.uid].b, b)
  /\ Mapped(b.origType, b.delegated) = t

InOrder(bd, dead, n, t, hs) ==
  /\ hs.delegateCount <= Len(hs.list)
  /\ \A k \in DOMAIN hs.list :
       /\ Registered(bd, n, t, hs.list[k])
       /\ hs.list[k].uid \notin dead
       /\ hs.list[k].delegated <=> k <= hs.delegateCount
  /\ \A j, k \in DOMAIN hs.list : hs.list[j].uid = hs.list[k].uid => j = k

ListOk(bd, dead, n, t, hs) ==
  hs.list # <<>> /\ InOrder(bd, dead, n, t, hs)

EventsOf(q, n) == Entry(q, n).events
Lists(q, bd, dead) ==
  \A n \in Nodes : \A t \in DOMAIN EventsOf(q, n) :
    ListOk(bd, dead, n, t, EventsOf(q, n)[t])

(* Listeners.                                                              *)
Focused(q) == {n \in Nodes : "focusin" \in DOMAIN EventsOf(q, n)}
Listens(q) ==
  /\ \A n \in Nodes, t \in Types \ {"focusin"} :
       <<n, t>> \in q.listening <=> t \in DOMAIN EventsOf(q, n)
  /\ Cardinality(Focused(q)) <= q.attaches
  /\ q.capture <=> q.attaches > 0

Store(q, bd, dead) ==
  /\ q \in Jq
  /\ Ids(q)
  /\ Lists(q, bd, dead)
  /\ Listens(q)

(* The tree.                                                               *)
Ranked(par, rank, top) ==
  /\ top \in Nat
  /\ rank \in [Nodes -> 0..top]
  /\ par \in [Nodes -> Nodes \cup {NoNode}]
  /\ \A n \in Nodes : par[n] # NoNode => rank[par[n]] < rank[n]

Tree ==
  /\ parent \in [Nodes -> Nodes \cup {NoNode}]
  /\ born \subseteq Items
  /\ parent[Doc] = NoNode
  /\ parent[Box] = Doc
  /\ \A n \in Items : parent[n] \in born \cup {Box, NoNode}
  /\ \A n \in Items \ born : parent[n] = NoNode
  /\ \E rank, top : Ranked(parent, rank, top)

(* Events.                                                                 *)
GroupSet == [elem : Nodes, hs : Seq(HandlerSet)]
EventSet ==
  [n : Nat, type : Types, target : Nodes, path : Seq(Nodes), i : Nat,
   queue : Seq(GroupSet), stopped : BOOLEAN, immediate : BOOLEAN,
   native : BOOLEAN, related : Nodes \cup {NoNode},
   k : {"path", "queue", "called"}]
LogSet == Seq([n : Nat, at : Nodes, elem : Nodes, b : HandlerSet])

EventOk(e) ==
  /\ e \in EventSet
  /\ e.i > 0
  /\ e.k # "path" => e.i <= Len(e.path)
  /\ e.k = "path" => e.queue = <<>>

Dead == {o[1] : o \in offs}

EventsTyped ==
  /\ events \in Seq(EventSet)
  /\ \A j \in DOMAIN events : EventOk(events[j])

(* What holds whatever off() is called with.                               *)
Base ==
  /\ program \in Programs
  /\ Tree
  /\ bound \in BoundSet
  /\ Store(Now, bound, {})
  /\ \A n \in Items \ born : ~HasEntry(Now, n)
  /\ EventsTyped
  /\ started \in Nat
  /\ ops \in Nat

Holds == Base /\ NoLeak

(* What was taken off is in no list.                                       *)
OffHeld ==
  /\ \A o \in offs : o[1] \in DOMAIN bound /\ o[2] \in Nat
  /\ Lists(Now, bound, Dead)

(* What is still to be called.                                             *)
InQueue(e, elem, u) ==
  \E g \in DOMAIN e.queue :
    /\ e.queue[g].elem = elem
    /\ \E h \in DOMAIN e.queue[g].hs : e.queue[g].hs[h].uid = u

QueueOk(bd, e) ==
  /\ \A g, h \in DOMAIN e.queue : e.queue[g].elem = e.queue[h].elem => g = h
  /\ \A g \in DOMAIN e.queue :
       /\ \A h \in DOMAIN e.queue[g].hs :
            LET b == e.queue[g].hs[h]
            IN /\ Registered(bd, e.path[e.i], e.type, b)
               /\ b.delegated <=> e.queue[g].elem # e.path[e.i]
       /\ \A h, j \in DOMAIN e.queue[g].hs :
            e.queue[g].hs[h].uid = e.queue[g].hs[j].uid => h = j

PathOk(e) == IsInjective(e.path)

EventRight(e, bd, of, st) ==
  /\ PathOk(e)
  /\ QueueOk(bd, e)
  /\ e.n <= st
  /\ \A o \in of : e.n > o[2] =>
       \A elem \in Nodes : ~InQueue(e, elem, o[1])

EventsHold ==
  /\ \A j \in DOMAIN events : EventRight(events[j], bound, offs, started)
  /\ \A j, k \in DOMAIN events :
       events[j].n = events[k].n /\ events[j].type = events[k].type => j = k

(* What was called is in the queue no more.                                *)
Called(l, e) ==
  \E j \in DOMAIN e.path :
    /\ e.path[j] = l.at
    /\ \/ j < e.i
       \/ j = e.i /\ e.k # "path" /\ ~InQueue(e, l.elem, l.b.uid)

LogType(l) == Mapped(l.b.origType, l.b.delegated)
LogOk(l, bd, st) ==
  /\ l.n <= st
  /\ Registered(bd, l.at, LogType(l), l.b)
OneOf(l, e) == l.n = e.n /\ LogType(l) = e.type

LogHolds ==
  /\ log \in LogSet
  /\ \A k \in DOMAIN log :
       /\ LogOk(log[k], bound, started)
       /\ \A j \in DOMAIN events :
            OneOf(log[k], events[j]) => Called(log[k], events[j])

AllHolds == Holds /\ OffHeld /\ EventsHold /\ LogHolds /\ CalledRight

(***************************************************************************)
(* Numbers, sequences                                                      *)
(***************************************************************************)

(* Induction on the natural numbers, for a set instead of a predicate.     *)
LEMMA NatSetInduction ==
  ASSUME NEW S, 0 \in S, \A n \in Nat : n \in S => n + 1 \in S
  PROVE  \A n \in Nat : n \in S
<1> DEFINE I == Nat \ S
<1>1. SUFFICES ASSUME I # {} PROVE FALSE
  OBVIOUS
<1>2. PICK x \in I : \A y \in I : ~ (<<y, x>> \in OpToRel(<, Nat))
  BY <1>1, NatLessThanWellFounded, WFMin
<1>3. x \in Nat /\ x # 0 /\ x - 1 \in Nat /\ x - 1 < x
  OBVIOUS
<1>4. x - 1 \notin S
  BY <1>3
<1> QED
  BY <1>2, <1>3, <1>4 DEF OpToRel

(* The function that Chosen defines by recursion exists.                   *)
ChosenUpTo(f, list, chosen, m) ==
  f = [k \in 0..m |-> IF k = 0 THEN <<>>
                      ELSE IF k \in chosen THEN Append(f[k - 1], list[k])
                      ELSE f[k - 1]]

(* So far as any place.                                                    *)
LEMMA ChosenExists ==
  ASSUME NEW list, NEW chosen, NEW m \in Nat
  PROVE  \E f : ChosenUpTo(f, list, chosen, m)
<1> DEFINE S == {k \in Nat : \E f : ChosenUpTo(f, list, chosen, k)}
<1>1. 0 \in S
  <2> DEFINE g == [k \in 0..0 |-> <<>>]
  <2>1. ChosenUpTo(g, list, chosen, 0)
    BY DEF ChosenUpTo
  <2> QED
    BY <2>1
<1>2. ASSUME NEW n \in Nat, n \in S PROVE n + 1 \in S
  <2>1. PICK f : ChosenUpTo(f, list, chosen, n)
    BY <1>2
  <2> DEFINE g == [k \in 0..(n + 1) |->
                    IF k <= n THEN f[k]
                    ELSE IF k \in chosen THEN Append(f[n], list[k]) ELSE f[n]]
  <2>2. \A k \in 0..n : f[k] = IF k = 0 THEN <<>>
                      ELSE IF k \in chosen THEN Append(f[k - 1], list[k])
                      ELSE f[k - 1]
    BY <2>1 DEF ChosenUpTo
  <2>3. \A k \in 0..(n + 1) :
          g[k] = IF k = 0 THEN <<>>
                 ELSE IF k \in chosen THEN Append(g[k - 1], list[k])
                 ELSE g[k - 1]
    <3> SUFFICES ASSUME NEW k \in 0..(n + 1)
                 PROVE  g[k] = IF k = 0 THEN <<>>
                               ELSE IF k \in chosen
                               THEN Append(g[k - 1], list[k]) ELSE g[k - 1]
      OBVIOUS
    <3>1. CASE k <= n
      BY <2>2, <3>1
    <3>2. CASE k = n + 1
      BY <3>2
    <3> QED
      BY <3>1, <3>2
  <2>4. ChosenUpTo(g, list, chosen, n + 1)
    BY <2>3 DEF ChosenUpTo
  <2> QED
    BY <2>4
<1>3. \A n \in Nat : n \in S
  <2> HIDE DEF S
  <2> QED
    BY <1>1, <1>2, NatSetInduction
<1> QED
  BY <1>3

(* So Chosen may be followed place by place.                               *)
LEMMA ChosenSteps ==
  ASSUME NEW list, NEW chosen, Len(list) \in Nat
  PROVE  \E f : /\ f[0] = <<>>
                /\ \A k \in 1..Len(list) :
                     f[k] = IF k \in chosen THEN Append(f[k - 1], list[k])
                            ELSE f[k - 1]
                /\ Chosen(list, chosen) = f[Len(list)]
<1>1. PICK f : /\ ChosenUpTo(f, list, chosen, Len(list))
                /\ Chosen(list, chosen) = f[Len(list)]
  <2> DEFINE up == CHOOSE f : ChosenUpTo(f, list, chosen, Len(list))
  <2>1. ChosenUpTo(up, list, chosen, Len(list))
    BY ChosenExists
  <2>2. Chosen(list, chosen) = up[Len(list)]
    BY DEF Chosen, ChosenUpTo
  <2> HIDE DEF up
  <2> QED
    BY <2>1, <2>2
<1>2. \A k \in 0..Len(list) :
        f[k] = IF k = 0 THEN <<>>
               ELSE IF k \in chosen THEN Append(f[k - 1], list[k])
               ELSE f[k - 1]
  BY <1>1 DEF ChosenUpTo
<1>3. f[0] = <<>>
  BY <1>2
<1>4. \A k \in 1..Len(list) :
        f[k] = IF k \in chosen THEN Append(f[k - 1], list[k]) ELSE f[k - 1]
  BY <1>2
<1> QED
  BY <1>1, <1>3, <1>4

(* What Chosen returns: the elements at the chosen places, in their order; *)
(* of those at the places up to d there are as many as were chosen there.  *)
Picked(c, list, chosen, pos) ==
  /\ Len(c) = Cardinality(chosen)
  /\ pos \in [1..Len(c) -> chosen]
  /\ \A j \in 1..Len(c) : c[j] = list[pos[j]]
  /\ \A j, k \in 1..Len(c) : j < k => pos[j] < pos[k]
  /\ \A i \in chosen : \E j \in 1..Len(c) : pos[j] = i
  /\ \A d \in 0..Len(list) : \A j \in 1..Len(c) :
       pos[j] <= d <=> j <= Cardinality(chosen \cap (1..d))

PickedUpTo(c, list, chosen, pos, m) ==
  /\ Len(c) = Cardinality(chosen \cap (1..m))
  /\ pos \in [1..Len(c) -> chosen \cap (1..m)]
  /\ \A j \in 1..Len(c) : c[j] = list[pos[j]]
  /\ \A j, k \in 1..Len(c) : j < k => pos[j] < pos[k]
  /\ \A i \in chosen \cap (1..m) : \E j \in 1..Len(c) : pos[j] = i
  /\ \A d \in 0..m : \A j \in 1..Len(c) :
       pos[j] <= d <=> j <= Cardinality(chosen \cap (1..d))

(* The chosen places up to d are finitely many, and no more up to an       *)
(* earlier one.                                                            *)
LEMMA UpToFinite ==
  ASSUME NEW chosen, NEW d \in Nat
  PROVE  /\ IsFiniteSet(chosen \cap (1..d))
         /\ Cardinality(chosen \cap (1..d)) \in Nat
         /\ \A e \in 0..d : Cardinality(chosen \cap (1..e))
                              <= Cardinality(chosen \cap (1..d))
<1>1. IsFiniteSet(1..d)
  BY FS_Interval
<1>2. IsFiniteSet(chosen \cap (1..d))
  BY <1>1, FS_Subset
<1>3. ASSUME NEW e \in 0..d
      PROVE  Cardinality(chosen \cap (1..e)) <= Cardinality(chosen \cap (1..d))
  <2>1. chosen \cap (1..e) \in SUBSET (chosen \cap (1..d))
    OBVIOUS
  <2> QED
    BY <1>2, <2>1, FS_Subset
<1> QED
  BY <1>2, <1>3, FS_CardinalityType

(* The next place counts if it was chosen.                                 *)
LEMMA UpToNext ==
  ASSUME NEW chosen, NEW d \in Nat
  PROVE  Cardinality(chosen \cap (1..(d + 1)))
           = IF d + 1 \in chosen THEN Cardinality(chosen \cap (1..d)) + 1
             ELSE Cardinality(chosen \cap (1..d))
<1>1. IsFiniteSet(chosen \cap (1..d))
  BY UpToFinite
<1>2. CASE d + 1 \in chosen
  <2>1. chosen \cap (1..(d + 1)) = (chosen \cap (1..d)) \cup {d + 1}
    BY <1>2
  <2>2. d + 1 \notin chosen \cap (1..d)
    OBVIOUS
  <2> QED
    BY <1>1, <1>2, <2>1, <2>2, FS_AddElement
<1>3. CASE d + 1 \notin chosen
  <2>1. chosen \cap (1..(d + 1)) = chosen \cap (1..d)
    BY <1>3
  <2> QED
    BY <1>3, <2>1
<1> QED
  BY <1>2, <1>3

(* The next place is chosen.                                               *)
LEMMA PickedAtNext ==
  ASSUME NEW A, NEW list \in Seq(A), NEW chosen, NEW m \in Nat, m < Len(list),
         m + 1 \in chosen, NEW c \in Seq(A), NEW pos,
         PickedUpTo(c, list, chosen, pos, m)
  PROVE  PickedUpTo(Append(c, list[m + 1]), list, chosen,
                    [j \in 1..(Len(c) + 1) |->
                       IF j <= Len(c) THEN pos[j] ELSE m + 1], m + 1)
<1> DEFINE c2 == Append(c, list[m + 1])
           pos2 == [j \in 1..(Len(c) + 1) |->
                     IF j <= Len(c) THEN pos[j] ELSE m + 1]
<1>0. list[m + 1] \in A /\ Len(list) \in Nat
  BY ElementOfSeq, LenProperties
<1>1. /\ Len(c) \in Nat
      /\ Len(c2) = Len(c) + 1
      /\ \A j \in 1..Len(c) : c2[j] = c[j]
      /\ c2[Len(c) + 1] = list[m + 1]
  BY <1>0, AppendProperties
<1>2. Len(c2) = Cardinality(chosen \cap (1..(m + 1)))
  BY <1>1, UpToNext DEF PickedUpTo
<1>3. /\ \A j \in 1..Len(c) : pos[j] \in chosen \cap (1..m)
      /\ \A j \in 1..Len(c) : c[j] = list[pos[j]]
      /\ \A j, k \in 1..Len(c) : j < k => pos[j] < pos[k]
      /\ \A i \in chosen \cap (1..m) : \E j \in 1..Len(c) : pos[j] = i
      /\ \A d \in 0..m : \A j \in 1..Len(c) :
           pos[j] <= d <=> j <= Cardinality(chosen \cap (1..d))
      /\ Len(c) = Cardinality(chosen \cap (1..m))
  BY DEF PickedUpTo
<1>4. /\ pos2 \in [1..Len(c2) -> chosen \cap (1..(m + 1))]
      /\ \A j \in 1..Len(c) : pos2[j] = pos[j]
      /\ pos2[Len(c) + 1] = m + 1
  <2>1. \A j \in 1..(Len(c) + 1) :
          pos2[j] = IF j <= Len(c) THEN pos[j] ELSE m + 1
    OBVIOUS
  <2>2. DOMAIN pos2 = 1..(Len(c) + 1)
    OBVIOUS
  <2>3. pos2 = [j \in 1..Len(c2) |-> pos2[j]]
    BY <1>1
  <2>4. \A j \in 1..Len(c) : j \in 1..(Len(c) + 1) /\ j <= Len(c)
    BY <1>1
  <2>5. Len(c) + 1 \in 1..(Len(c) + 1) /\ ~ (Len(c) + 1 <= Len(c))
    BY <1>1
  <2> HIDE DEF pos2
  <2>6. \A j \in 1..Len(c) : pos2[j] = pos[j]
    BY <2>1, <2>4
  <2>7. pos2[Len(c) + 1] = m + 1
    BY <2>1, <2>5
  <2>8. ASSUME NEW j \in 1..Len(c2)
        PROVE  pos2[j] \in chosen \cap (1..(m + 1))
    <3>1. CASE j \in 1..Len(c)
      <4>1. pos2[j] \in chosen /\ pos2[j] \in 1..m
        BY <1>3, <2>6, <3>1
      <4> QED
        BY <4>1
    <3>2. CASE j = Len(c) + 1
      BY <2>7, <3>2
    <3> QED
      BY <1>1, <3>1, <3>2
  <2> QED
    BY <2>3, <2>6, <2>7, <2>8
<1> HIDE DEF c2, pos2
<1>5. ASSUME NEW j \in 1..Len(c2) PROVE c2[j] = list[pos2[j]]
  <2>1. CASE j \in 1..Len(c)
    <3>1. c2[j] = c[j] /\ pos2[j] = pos[j]
      BY <1>1, <1>4, <2>1
    <3>2. c[j] = list[pos[j]]
      BY <1>3, <2>1
    <3> QED
      BY <3>1, <3>2
  <2>2. CASE j = Len(c) + 1
    BY <1>1, <1>4, <2>2
  <2> QED
    BY <1>1, <2>1, <2>2
<1>6. ASSUME NEW j \in 1..Len(c2), NEW k \in 1..Len(c2), j < k
      PROVE  pos2[j] < pos2[k]
  <2>1. CASE k \in 1..Len(c)
    <3>1. j \in 1..Len(c)
      BY <1>1, <1>6, <2>1
    <3>2. pos2[j] = pos[j] /\ pos2[k] = pos[k]
      BY <1>4, <2>1, <3>1
    <3>3. pos[j] < pos[k]
      BY <1>3, <1>6, <2>1, <3>1
    <3> QED
      BY <3>2, <3>3
  <2>2. CASE k = Len(c) + 1
    <3>1. j \in 1..Len(c)
      BY <1>1, <1>6, <2>2
    <3>2. pos2[j] \in 1..m
      BY <1>3, <1>4, <3>1
    <3> QED
      BY <1>4, <2>2, <3>2
  <2> QED
    BY <1>1, <2>1, <2>2
<1>7. \A i \in chosen \cap (1..(m + 1)) : \E j \in 1..Len(c2) : pos2[j] = i
  <2> SUFFICES ASSUME NEW i \in chosen \cap (1..(m + 1))
               PROVE  \E j \in 1..Len(c2) : pos2[j] = i
    OBVIOUS
  <2>1. CASE i = m + 1
    BY <1>1, <1>4, <2>1
  <2>2. CASE i \in chosen \cap (1..m)
    <3>1. PICK j \in 1..Len(c) : pos[j] = i
      BY <1>3, <2>2
    <3> QED
      BY <1>1, <1>4, <3>1
  <2> QED
    BY <2>1, <2>2
<1>8. ASSUME NEW d \in 0..(m + 1), NEW j \in 1..Len(c2)
      PROVE  pos2[j] <= d <=> j <= Cardinality(chosen \cap (1..d))
  <2>1. CASE d = m + 1
    <3>1. pos2[j] \in 1..(m + 1)
      BY <1>4
    <3>2. j <= Cardinality(chosen \cap (1..d))
      BY <1>1, <1>2, <2>1
    <3> QED
      BY <2>1, <3>1, <3>2
  <2>2. CASE d \in 0..m /\ j <= Len(c)
    <3>1. j \in 1..Len(c) /\ pos2[j] = pos[j]
      BY <1>1, <1>4, <2>2
    <3>2. pos[j] <= d <=> j <= Cardinality(chosen \cap (1..d))
      BY <1>3, <2>2, <3>1
    <3> QED
      BY <3>1, <3>2
  <2>3. CASE d \in 0..m /\ j = Len(c) + 1
    <3>0. \A e \in 0..m : Cardinality(chosen \cap (1..e))
                             <= Cardinality(chosen \cap (1..m))
      BY UpToFinite
    <3>1. /\ d \in 0..m
          /\ d \in Nat
          /\ Cardinality(chosen \cap (1..d))
               <= Cardinality(chosen \cap (1..m))
      <4>1. d \in 0..m
        BY <2>3
      <4>2. d \in Nat
        BY <4>1
      <4>3. Cardinality(chosen \cap (1..d))
               <= Cardinality(chosen \cap (1..m))
        BY <3>0, <4>1, Zenon
      <4> QED
        BY <4>1, <4>2, <4>3
    <3>2. Cardinality(chosen \cap (1..d)) \in Nat
      BY <3>1, UpToFinite
    <3>3. pos2[j] = m + 1
      BY <1>4, <2>3
    <3> QED
      BY <1>1, <1>3, <2>3, <3>1, <3>2, <3>3
  <2> QED
    BY <1>1, <2>1, <2>2, <2>3
<1>9. PickedUpTo(c2, list, chosen, pos2, m + 1)
  BY <1>2, <1>4, <1>5, <1>6, <1>7, <1>8 DEF PickedUpTo
<1> QED
  BY <1>9 DEF c2, pos2

(* The next place is not chosen.                                           *)
LEMMA PickedOverNext ==
  ASSUME NEW list, NEW chosen, NEW m \in Nat, m + 1 \notin chosen,
         NEW c, Len(c) \in Nat, NEW pos, PickedUpTo(c, list, chosen, pos, m)
  PROVE  PickedUpTo(c, list, chosen, pos, m + 1)
<1>1. chosen \cap (1..(m + 1)) = chosen \cap (1..m)
  OBVIOUS
<1>2. ASSUME NEW d \in 0..(m + 1), NEW j \in 1..Len(c)
      PROVE  pos[j] <= d <=> j <= Cardinality(chosen \cap (1..d))
  <2>1. CASE d = m + 1
    <3>1. pos[j] \in 1..m
      BY DEF PickedUpTo
    <3>2. pos[j] <= d
      BY <2>1, <3>1
    <3>3. Len(c) = Cardinality(chosen \cap (1..m))
      BY DEF PickedUpTo
    <3>4. j <= Cardinality(chosen \cap (1..m))
      BY <3>3
    <3> QED
      BY <1>1, <2>1, <3>2, <3>4
  <2>2. CASE d \in 0..m
    BY <2>2 DEF PickedUpTo
  <2> QED
    BY <2>1, <2>2
<1> QED
  BY <1>1, <1>2 DEF PickedUpTo

(* Chosen returns what it should, for any list and any places.             *)
LEMMA ChosenPicked ==
  ASSUME NEW A, NEW list \in Seq(A), NEW chosen, chosen \subseteq DOMAIN list
  PROVE  /\ Chosen(list, chosen) \in Seq(A)
         /\ \E pos : Picked(Chosen(list, chosen), list, chosen, pos)
<1>0. Len(list) \in Nat /\ DOMAIN list = 1..Len(list)
  BY LenProperties
<1>1. PICK f : /\ f[0] = <<>>
               /\ \A k \in 1..Len(list) :
                    f[k] = IF k \in chosen THEN Append(f[k - 1], list[k])
                           ELSE f[k - 1]
               /\ Chosen(list, chosen) = f[Len(list)]
  BY <1>0, ChosenSteps, SMTT(30)
<1> DEFINE Good(k) == /\ f[k] \in Seq(A)
                      /\ \E pos : PickedUpTo(f[k], list, chosen, pos, k)
           S == {k \in Nat : k <= Len(list) => Good(k)}
<1>2. 0 \in S
  <2>1. f[0] \in Seq(A) /\ Len(f[0]) = 0
    BY <1>1
  <2>2. chosen \cap (1..0) = {}
    OBVIOUS
  <2>3. Cardinality(chosen \cap (1..0)) = 0
    BY <2>2, FS_EmptySet
  <2>4. PickedUpTo(f[0], list, chosen, [j \in {} |-> j], 0)
    BY <2>1, <2>2, <2>3 DEF PickedUpTo
  <2> QED
    BY <2>1, <2>4
<1>3. ASSUME NEW n \in Nat, n \in S PROVE n + 1 \in S
  <2> SUFFICES ASSUME n + 1 <= Len(list) PROVE Good(n + 1)
    OBVIOUS
  <2>1. f[n] \in Seq(A) /\ \E pos : PickedUpTo(f[n], list, chosen, pos, n)
    BY <1>0, <1>3
  <2>2. PICK pos : PickedUpTo(f[n], list, chosen, pos, n)
    BY <2>1
  <2>3. f[n + 1] = IF n + 1 \in chosen THEN Append(f[n], list[n + 1])
                   ELSE f[n]
    BY <1>0, <1>1
  <2>4. CASE n + 1 \in chosen
    <3>1. list[n + 1] \in A
      BY <1>0, ElementOfSeq
    <3>2. f[n + 1] \in Seq(A)
      BY <2>1, <2>3, <2>4, <3>1
    <3>3. n < Len(list)
      BY <1>0
    <3>4. PickedUpTo(Append(f[n], list[n + 1]), list, chosen,
                     [j \in 1..(Len(f[n]) + 1) |->
                        IF j <= Len(f[n]) THEN pos[j] ELSE n + 1], n + 1)
      BY <2>1, <2>2, <2>4, <3>3, PickedAtNext
    <3>5. \E p : PickedUpTo(f[n + 1], list, chosen, p, n + 1)
      BY <2>3, <2>4, <3>4
    <3> QED
      BY <3>2, <3>5
  <2>5. CASE n + 1 \notin chosen
    <3>1. Len(f[n]) \in Nat
      BY <2>1, LenProperties
    <3>2. PickedUpTo(f[n], list, chosen, pos, n + 1)
      BY <2>2, <2>5, <3>1, PickedOverNext
    <3> QED
      BY <2>1, <2>3, <2>5, <3>2
  <2> QED
    BY <2>4, <2>5
<1>4. \A n \in Nat : n \in S
  <2> HIDE DEF S
  <2> QED
    BY <1>2, <1>3, NatSetInduction
<1>5. Good(Len(list))
  BY <1>0, <1>4
<1>6. PICK pos : PickedUpTo(f[Len(list)], list, chosen, pos, Len(list))
  BY <1>5
<1>7. chosen \cap (1..Len(list)) = chosen
  BY <1>0
<1>8. Picked(Chosen(list, chosen), list, chosen, pos)
  BY <1>1, <1>6, <1>7 DEF Picked, PickedUpTo
<1> QED
  BY <1>1, <1>5, <1>8

(***************************************************************************)
(* Lists of handlers                                                       *)
(***************************************************************************)
LEMMA InsertProperties ==
  ASSUME NEW A, NEW s \in Seq(A), NEW e \in A, NEW i \in 0..Len(s)
  PROVE  /\ InsertAt(s, i + 1, e) \in Seq(A)
         /\ Len(InsertAt(s, i + 1, e)) = Len(s) + 1
         /\ \A k \in 1..(Len(s) + 1) :
              InsertAt(s, i + 1, e)[k] = IF k <= i THEN s[k]
                                         ELSE IF k = i + 1 THEN e ELSE s[k - 1]
<1> DEFINE s1 == SubSeq(s, 1, i)
           s2 == SubSeq(s, i + 1, Len(s))
<1>1. /\ Len(s) \in Nat /\ \A k \in 1..Len(s) : s[k] \in A
      /\ i \in Nat /\ i <= Len(s)
  BY LenProperties, ElementOfSeq
<1>2. /\ s1 \in Seq(A) /\ Len(s1) = i
      /\ \A k \in 1..i : s1[k] = s[k]
  <2>1. \A k \in 1..i : s[k] \in A
    BY <1>1
  <2>2. /\ SubSeq(s, 1, i) \in Seq(A)
        /\ Len(SubSeq(s, 1, i)) = IF 1 <= i THEN i - 1 + 1 ELSE 0
        /\ \A k \in 1..(i - 1 + 1) : SubSeq(s, 1, i)[k] = s[1 + k - 1]
    BY <1>1, <2>1, SubSeqProperties
  <2> QED
    BY <1>1, <2>2
<1>3. /\ s2 \in Seq(A) /\ Len(s2) = Len(s) - i
      /\ \A k \in 1..(Len(s) - i) : s2[k] = s[i + k]
  <2>1. \A k \in (i + 1)..Len(s) : s[k] \in A
    BY <1>1
  <2>2. /\ SubSeq(s, i + 1, Len(s)) \in Seq(A)
        /\ Len(SubSeq(s, i + 1, Len(s)))
             = IF i + 1 <= Len(s) THEN Len(s) - (i + 1) + 1 ELSE 0
        /\ \A k \in 1..(Len(s) - (i + 1) + 1) :
             SubSeq(s, i + 1, Len(s))[k] = s[i + 1 + k - 1]
    BY <1>1, <2>1, SubSeqProperties
  <2> QED
    BY <1>1, <2>2
<1>4. <<e>> \in Seq(A) /\ Len(<<e>>) = 1 /\ <<e>>[1] = e
  OBVIOUS
<1>5. InsertAt(s, i + 1, e) = (s1 \o <<e>>) \o s2
  <2>1. (i + 1) - 1 = i
    BY <1>1
  <2>2. InsertAt(s, i + 1, e)
          = SubSeq(s, 1, (i + 1) - 1) \o <<e>> \o SubSeq(s, i + 1, Len(s))
    BY Zenon DEF InsertAt
  <2> QED
    BY <2>1, <2>2, Zenon
<1> HIDE DEF s1, s2
<1> DEFINE s3 == s1 \o <<e>>
<1>6. /\ s3 \in Seq(A) /\ Len(s3) = i + 1
      /\ \A k \in 1..i : s3[k] = s[k]
      /\ s3[i + 1] = e
  <2>1. /\ s3 \in Seq(A)
        /\ Len(s3) = Len(s1) + Len(<<e>>)
        /\ \A k \in 1..(Len(s1) + Len(<<e>>)) :
             s3[k] = IF k <= Len(s1) THEN s1[k] ELSE <<e>>[k - Len(s1)]
    BY <1>2, <1>4, ConcatProperties
  <2> QED
    BY <1>1, <1>2, <1>4, <2>1
<1> HIDE DEF s3
<1>7. /\ s3 \o s2 \in Seq(A)
      /\ Len(s3 \o s2) = Len(s3) + Len(s2)
      /\ \A k \in 1..(Len(s3) + Len(s2)) :
           (s3 \o s2)[k] = IF k <= Len(s3) THEN s3[k] ELSE s2[k - Len(s3)]
  BY <1>3, <1>6, ConcatProperties
<1>8. InsertAt(s, i + 1, e) = s3 \o s2
  BY <1>5 DEF s3
<1>9. ASSUME NEW k \in 1..(Len(s) + 1)
      PROVE  (s3 \o s2)[k] = IF k <= i THEN s[k]
                             ELSE IF k = i + 1 THEN e ELSE s[k - 1]
  <2>0. k \in Nat /\ k \in 1..(Len(s3) + Len(s2))
    BY <1>1, <1>3, <1>6
  <2>1. (s3 \o s2)[k] = IF k <= Len(s3) THEN s3[k] ELSE s2[k - Len(s3)]
    BY <1>7, <2>0
  <2>2. CASE k <= i
    <3>1. k \in 1..i /\ k <= Len(s3)
      BY <1>1, <1>6, <2>0, <2>2
    <3> QED
      BY <1>6, <2>1, <2>2, <3>1
  <2>3. CASE k = i + 1
    BY <1>1, <1>6, <2>1, <2>3
  <2>4. CASE k > i + 1
    <3>1. k - (i + 1) \in 1..(Len(s) - i) /\ ~ (k <= Len(s3))
      BY <1>1, <1>6, <2>0, <2>4
    <3>2. s2[k - (i + 1)] = s[i + (k - (i + 1))]
      BY <1>3, <3>1
    <3>3. i + (k - (i + 1)) = k - 1
      BY <1>1, <2>0
    <3> QED
      BY <1>1, <1>6, <2>0, <2>1, <2>4, <3>1, <3>2, <3>3
  <2> QED
    BY <1>1, <2>0, <2>2, <2>3, <2>4
<1>10. Len(s3) + Len(s2) = Len(s) + 1
  BY <1>1, <1>3, <1>6
<1>11. s3 \o s2 \in Seq(A) /\ Len(s3 \o s2) = Len(s) + 1
  BY <1>7, <1>10, Zenon
<1>12. /\ InsertAt(s, i + 1, e) \in Seq(A)
       /\ Len(InsertAt(s, i + 1, e)) = Len(s) + 1
  BY <1>8, <1>11, Zenon
<1>13. ASSUME NEW k \in 1..(Len(s) + 1)
       PROVE  InsertAt(s, i + 1, e)[k]
                = IF k <= i THEN s[k] ELSE IF k = i + 1 THEN e ELSE s[k - 1]
  <2>1. (s3 \o s2)[k] = IF k <= i THEN s[k]
                        ELSE IF k = i + 1 THEN e ELSE s[k - 1]
    BY <1>9
  <2> QED
    BY <1>8, <2>1, Zenon
<1> QED
  BY <1>12, <1>13

(* There are d numbers from 1 to d.                                        *)
LEMMA UpToCardinality ==
  ASSUME NEW d \in Nat
  PROVE  IsFiniteSet(1..d) /\ Cardinality(1..d) = d
  BY FS_Interval

(* What is left keeps its order, its delegates first and counted.          *)
LEMMA LeftOk ==
  ASSUME NEW bd, NEW dead, NEW n, NEW t, NEW hs \in ListSet,
         InOrder(bd, dead, n, t, hs), NEW off, off \subseteq DOMAIN hs.list,
         NEW hs2, hs2 = LeftOf(hs, off)
  PROVE  /\ hs2 \in ListSet
         /\ InOrder(bd, dead, n, t, hs2)
         /\ \A k \in DOMAIN hs2.list :
              \E j \in DOMAIN hs.list \ off : hs2.list[k] = hs.list[j]
<1> SUFFICES
      ASSUME NEW left, left = Chosen(hs.list, DOMAIN hs.list \ off),
             NEW cut, cut = Cardinality({k \in off : hs.list[k].delegated}),
             hs2 = [list |-> left, delegateCount |-> hs.delegateCount - cut]
      PROVE  /\ hs2 \in ListSet
             /\ InOrder(bd, dead, n, t, hs2)
             /\ \A k \in DOMAIN left :
                  \E j \in DOMAIN hs.list \ off : left[k] = hs.list[j]
  <2>1. PICK left :  left = Chosen(hs.list, DOMAIN hs.list \ off)
    OBVIOUS
  <2>2. PICK cut : cut = Cardinality({k \in off : hs.list[k].delegated})
    OBVIOUS
  <2>3. hs2 = [list |-> left, delegateCount |-> hs.delegateCount - cut]
    BY <2>1, <2>2 DEF LeftOf
  <2>4. hs2.list = left
    BY <2>3
  <2> QED
    BY <2>1, <2>2, <2>3, <2>4
<1> DEFINE in == DOMAIN hs.list \ off
           d == hs.delegateCount
<1>1. /\ hs.list \in Seq(HandlerSet) /\ d \in Nat
      /\ Len(hs.list) \in Nat /\ DOMAIN hs.list = 1..Len(hs.list)
  BY LenProperties DEF ListSet
<1>2. /\ d <= Len(hs.list)
      /\ \A k \in DOMAIN hs.list :
           /\ Registered(bd, n, t, hs.list[k])
           /\ hs.list[k].uid \notin dead
           /\ hs.list[k].delegated <=> k <= d
      /\ \A j, k \in DOMAIN hs.list : hs.list[j].uid = hs.list[k].uid => j = k
  BY DEF InOrder
<1>3. PICK pos : left \in Seq(HandlerSet) /\ Picked(left, hs.list, in, pos)
  <2>1. in \subseteq DOMAIN hs.list
    OBVIOUS
  <2> QED
    BY <1>1, <2>1, ChosenPicked
<1>4. Len(left) \in Nat /\ DOMAIN left = 1..Len(left)
  BY <1>3, LenProperties
<1>5. /\ \A k \in DOMAIN left : pos[k] \in in /\ left[k] = hs.list[pos[k]]
      /\ \A j, k \in DOMAIN left : j < k => pos[j] < pos[k]
      /\ Len(left) = Cardinality(in)
      /\ \A e \in 0..Len(hs.list) : \A j \in 1..Len(left) :
           pos[j] <= e <=> j <= Cardinality(in \cap (1..e))
  BY <1>3, <1>4 DEF Picked
<1>6. d - cut = Cardinality(in \cap (1..d)) /\ d - cut \in Nat
  <2>1. {k \in off : hs.list[k].delegated} = (1..d) \cap off
    <3>1. \A k \in off : k \in 1..Len(hs.list) /\ k \in DOMAIN hs.list
      BY <1>1
    <3>2. \A k \in off : hs.list[k].delegated <=> k <= d
      BY <1>2, <3>1
    <3>3. \A k \in off : hs.list[k].delegated <=> k \in 1..d
      BY <1>1, <3>1, <3>2
    <3> QED
      BY <3>3, Zenon
  <2>2. IsFiniteSet(1..d) /\ Cardinality(1..d) = d
    BY <1>1, UpToCardinality
  <2>3. in \cap (1..d) = (1..d) \ off
    BY <1>1, <1>2
  <2>4. Cardinality((1..d) \ off) = d - Cardinality((1..d) \cap off)
    BY <2>2, FS_Difference
  <2>5. Cardinality(in \cap (1..d)) \in Nat
    BY <1>1, UpToFinite
  <2> QED
    BY <2>1, <2>3, <2>4, <2>5
<1> HIDE DEF in
<1>7. \A k \in DOMAIN left : pos[k] <= d <=> k <= d - cut
  <2>1. d \in 0..Len(hs.list)
    BY <1>1, <1>2
  <2> QED
    BY <1>4, <1>5, <1>6, <2>1
<1>8. d - cut <= Len(left)
  <2>1. in \cap (1..Len(hs.list)) = in
    BY <1>1 DEF in
  <2>2. d \in 0..Len(hs.list)
    BY <1>1, <1>2
  <2>3. \A e \in 0..Len(hs.list) :
          Cardinality(in \cap (1..e)) <= Cardinality(in \cap (1..Len(hs.list)))
    BY <1>1, UpToFinite
  <2>4. Cardinality(in \cap (1..d)) <= Cardinality(in)
    BY <2>1, <2>2, <2>3
  <2> QED
    BY <1>5, <1>6, <2>4
<1>9. hs2.list = left /\ hs2.delegateCount = d - cut
  OBVIOUS
<1>10. hs2 \in ListSet
  BY <1>3, <1>6 DEF ListSet
<1>11. ASSUME NEW k \in DOMAIN left
       PROVE  /\ Registered(bd, n, t, left[k])
              /\ left[k].uid \notin dead
              /\ left[k].delegated <=> k <= d - cut
              /\ \E j \in in : left[k] = hs.list[j]
  <2>1. pos[k] \in in /\ left[k] = hs.list[pos[k]]
    BY <1>5
  <2>2. pos[k] \in DOMAIN hs.list
    BY <2>1 DEF in
  <2> QED
    BY <1>2, <1>7, <2>1, <2>2
<1>12. ASSUME NEW j \in DOMAIN left, NEW k \in DOMAIN left,
              left[j].uid = left[k].uid
       PROVE  j = k
  <2>1. /\ pos[j] \in DOMAIN hs.list /\ left[j] = hs.list[pos[j]]
        /\ pos[k] \in DOMAIN hs.list /\ left[k] = hs.list[pos[k]]
    BY <1>5 DEF in
  <2>2. pos[j] = pos[k]
    <3>1. hs.list[pos[j]].uid = hs.list[pos[k]].uid
      BY <1>12, <2>1
    <3> QED
      BY <1>2, <2>1, <3>1, Zenon
  <2>3. pos[j] \in Nat /\ pos[k] \in Nat /\ j \in Nat /\ k \in Nat
    BY <1>1, <1>4, <2>1
  <2>4. (j < k => pos[j] < pos[k]) /\ (k < j => pos[k] < pos[j])
    BY <1>5
  <2>5. ~ (j < k) /\ ~ (k < j)
    BY <2>2, <2>3, <2>4
  <2> QED
    BY <2>3, <2>5
<1>13. InOrder(bd, dead, n, t, hs2)
  BY <1>8, <1>9, <1>11, <1>12 DEF InOrder
<1> QED
  BY <1>10, <1>11, <1>13 DEF in

(* A handler that is not in the list comes in at its place.                *)
LEMMA AddOk ==
  ASSUME NEW bd, NEW dead, NEW n, NEW t, NEW hs \in ListSet,
         InOrder(bd, dead, n, t, hs), NEW b \in HandlerSet,
         Registered(bd, n, t, b), b.uid \notin dead,
         \A k \in DOMAIN hs.list : hs.list[k].uid # b.uid,
         NEW hs2,
         hs2 = IF b.delegated
               THEN [list |-> InsertAt(hs.list, hs.delegateCount + 1, b),
                     delegateCount |-> hs.delegateCount + 1]
               ELSE [hs EXCEPT !.list = Append(@, b)]
  PROVE  /\ hs2 \in ListSet
         /\ ListOk(bd, dead, n, t, hs2)
         /\ \A k \in DOMAIN hs2.list :
              \/ hs2.list[k] = b
              \/ \E j \in DOMAIN hs.list : hs2.list[k] = hs.list[j]
<1> DEFINE d == hs.delegateCount
           d2 == hs2.delegateCount
           list == hs.list
           list2 == hs2.list
           at == IF b.delegated THEN d + 1 ELSE Len(list) + 1
<1>1. /\ list \in Seq(HandlerSet) /\ d \in Nat
      /\ Len(list) \in Nat /\ DOMAIN list = 1..Len(list)
      /\ b.delegated \in BOOLEAN /\ d <= Len(list)
  BY LenProperties DEF ListSet, HandlerSet, InOrder
<1>2. /\ \A k \in DOMAIN list :
           /\ Registered(bd, n, t, list[k])
           /\ list[k].uid \notin dead
           /\ list[k].delegated <=> k <= d
      /\ \A j, k \in DOMAIN list : list[j].uid = list[k].uid => j = k
  BY DEF InOrder
<1>3. /\ list2 \in Seq(HandlerSet) /\ Len(list2) = Len(list) + 1
      /\ \A k \in 1..(Len(list) + 1) :
           list2[k] = IF k < at THEN list[k]
                      ELSE IF k = at THEN b ELSE list[k - 1]
      /\ d2 = IF b.delegated THEN d + 1 ELSE d
      /\ hs2 \in ListSet
  <2>1. CASE b.delegated
    <3>1. /\ list2 = InsertAt(list, d + 1, b) /\ d2 = d + 1
          /\ hs2 = [list |-> list2, delegateCount |-> d + 1] /\ at = d + 1
      BY <2>1
    <3>2. d \in 0..Len(list)
      BY <1>1
    <3>3. /\ InsertAt(list, d + 1, b) \in Seq(HandlerSet)
          /\ Len(InsertAt(list, d + 1, b)) = Len(list) + 1
          /\ \A k \in 1..(Len(list) + 1) :
               InsertAt(list, d + 1, b)[k] =
                 IF k <= d THEN list[k] ELSE IF k = d + 1 THEN b ELSE list[k - 1]
      BY <1>1, <3>2, InsertProperties
    <3>4. \A k \in 1..(Len(list) + 1) : k <= d <=> k < d + 1
      BY <1>1
    <3> HIDE DEF d, d2, list, list2, at
    <3>5. hs2 \in ListSet
      <4>1. list2 \in Seq(HandlerSet) /\ d + 1 \in Nat
        BY <1>1, <3>1, <3>3
      <4>2. [list |-> list2, delegateCount |-> d + 1] \in ListSet
        BY <4>1 DEF ListSet
      <4> QED
        BY <3>1, <4>2
    <3> QED
      BY <2>1, <3>1, <3>3, <3>4, <3>5
  <2>2. CASE ~ b.delegated
    <3>1. /\ list2 = Append(list, b) /\ d2 = d
          /\ hs2 = [list |-> list2, delegateCount |-> d] /\ at = Len(list) + 1
      BY <2>2 DEF ListSet
    <3>2. /\ Append(list, b) \in Seq(HandlerSet)
          /\ Len(Append(list, b)) = Len(list) + 1
          /\ \A k \in 1..Len(list) : Append(list, b)[k] = list[k]
          /\ Append(list, b)[Len(list) + 1] = b
      BY <1>1, AppendProperties
    <3>3. \A k \in 1..(Len(list) + 1) :
            (k \in 1..Len(list) /\ k < Len(list) + 1) \/ k = Len(list) + 1
      BY <1>1
    <3> HIDE DEF d, d2, list, list2, at
    <3>4. hs2 \in ListSet
      <4>1. list2 \in Seq(HandlerSet) /\ d \in Nat
        BY <1>1, <3>1, <3>2
      <4>2. [list |-> list2, delegateCount |-> d] \in ListSet
        BY <4>1 DEF ListSet
      <4> QED
        BY <3>1, <4>2
    <3>5. \A k \in 1..(Len(list) + 1) :
           list2[k] = IF k < at THEN list[k]
                      ELSE IF k = at THEN b ELSE list[k - 1]
      BY <1>1, <3>1, <3>2, <3>3
    <3> QED
      BY <2>2, <3>1, <3>2, <3>4, <3>5
  <2> QED
    BY <2>1, <2>2
<1>4. at \in 1..(Len(list) + 1)
  BY <1>1
<1>5. /\ \A k \in 1..(Len(list) + 1) : k < at => b.delegated \/ k <= Len(list)
      /\ b.delegated => at = d + 1
      /\ ~ b.delegated => at = Len(list) + 1
  BY <1>1
<1> HIDE DEF d, d2, list, list2, at
<1>6. DOMAIN list2 = 1..(Len(list) + 1) /\ Len(list2) \in Nat
  BY <1>1, <1>3, LenProperties
<1>7. ASSUME NEW k \in DOMAIN list2
      PROVE  \/ k = at /\ list2[k] = b
             \/ k < at /\ k \in DOMAIN list /\ list2[k] = list[k]
             \/ k > at /\ k - 1 \in DOMAIN list /\ list2[k] = list[k - 1]
  <2>1. list2[k] = IF k < at THEN list[k]
                   ELSE IF k = at THEN b ELSE list[k - 1]
    BY <1>3, <1>6
  <2>2. k \in Nat /\ at \in Nat /\ k \in 1..(Len(list) + 1)
    BY <1>1, <1>4, <1>6
  <2> QED
    BY <1>1, <1>4, <2>1, <2>2
<1>8. ASSUME NEW k \in DOMAIN list2
      PROVE  /\ Registered(bd, n, t, list2[k])
             /\ list2[k].uid \notin dead
             /\ list2[k].delegated <=> k <= d2
  <2>0. k \in Nat
    BY <1>1, <1>6
  <2>1. CASE k = at /\ list2[k] = b
    BY <1>1, <1>3, <1>5, <2>1
  <2>2. CASE k < at /\ k \in DOMAIN list /\ list2[k] = list[k]
    <3>1. list[k].delegated <=> k <= d
      BY <1>2, <2>2
    <3>2. k <= d <=> k <= d2
      BY <1>1, <1>3, <1>5, <2>0, <2>2
    <3> QED
      BY <1>2, <2>2, <3>1, <3>2
  <2>3. CASE k > at /\ k - 1 \in DOMAIN list /\ list2[k] = list[k - 1]
    <3>1. list[k - 1].delegated <=> k - 1 <= d
      BY <1>2, <2>3
    <3>2. k - 1 <= d <=> k <= d2
      BY <1>1, <1>3, <1>4, <1>5, <1>6, <2>0, <2>3
    <3> QED
      BY <1>2, <2>3, <3>1, <3>2
  <2> QED
    BY <1>7, <2>1, <2>2, <2>3
<1>9. ASSUME NEW j \in DOMAIN list2, NEW k \in DOMAIN list2,
             list2[j].uid = list2[k].uid, j < k
      PROVE  FALSE
  <2>0. j \in Nat /\ k \in Nat /\ at \in Nat
    BY <1>1, <1>4, <1>6
  <2>1. \A i \in DOMAIN list : list[i].uid # b.uid
    BY DEF list
  <2>2. \A i, l \in DOMAIN list : list[i].uid = list[l].uid => i = l
    BY <1>2
  <2>3. CASE k < at
    <3>1. /\ j \in DOMAIN list /\ list2[j] = list[j]
          /\ k \in DOMAIN list /\ list2[k] = list[k]
      BY <1>7, <1>9, <2>0, <2>3
    <3> QED
      BY <1>9, <2>0, <2>2, <3>1
  <2>4. CASE k = at
    <3>1. j \in DOMAIN list /\ list2[j] = list[j] /\ list2[k] = b
      BY <1>7, <1>9, <2>0, <2>4
    <3> QED
      BY <1>9, <2>1, <3>1
  <2>5. CASE k > at /\ j = at
    <3>1. /\ k - 1 \in DOMAIN list /\ list2[k] = list[k - 1]
          /\ list2[j] = b
      BY <1>7, <2>0, <2>5
    <3> QED
      BY <1>9, <2>1, <3>1
  <2>6. CASE k > at /\ j < at
    <3>1. /\ k - 1 \in DOMAIN list /\ list2[k] = list[k - 1]
          /\ j \in DOMAIN list /\ list2[j] = list[j]
      BY <1>7, <2>0, <2>6
    <3>2. j = k - 1
      BY <1>9, <2>2, <3>1
    <3> QED
      BY <2>0, <2>6, <3>2
  <2>7. CASE k > at /\ j > at
    <3>1. /\ k - 1 \in DOMAIN list /\ list2[k] = list[k - 1]
          /\ j - 1 \in DOMAIN list /\ list2[j] = list[j - 1]
      BY <1>7, <2>0, <2>7
    <3>2. j - 1 = k - 1
      BY <1>9, <2>2, <3>1
    <3> QED
      BY <1>9, <2>0, <3>2
  <2> QED
    BY <2>0, <2>3, <2>4, <2>5, <2>6, <2>7
<1>10. \A j, k \in DOMAIN list2 : list2[j].uid = list2[k].uid => j = k
  <2> SUFFICES ASSUME NEW j \in DOMAIN list2, NEW k \in DOMAIN list2,
                      list2[j].uid = list2[k].uid
               PROVE  j = k
    OBVIOUS
  <2>1. j \in Nat /\ k \in Nat
    BY <1>1, <1>6
  <2>2. ~ (j < k) /\ ~ (k < j)
    BY <1>9
  <2> QED
    BY <2>1, <2>2
<1>11. d2 <= Len(list2) /\ list2 # <<>>
  BY <1>1, <1>3
<1>12. ListOk(bd, dead, n, t, hs2)
  BY <1>8, <1>10, <1>11 DEF ListOk, InOrder, d2, list2
<1>13. \A k \in DOMAIN list2 :
         list2[k] = b \/ \E j \in DOMAIN list : list2[k] = list[j]
  BY <1>7
<1> QED
  BY <1>3, <1>12, <1>13 DEF list, list2

(***************************************************************************)
(* Entries                                                                 *)
(***************************************************************************)

(* Nothing but the entry of n has changed from q to q2, listeners aside.   *)
Only(q, q2, n) ==
  \A m \in Nodes \ {n} : /\ Entry(q2, m) = Entry(q, m)
                         /\ HasEntry(q2, m) <=> HasEntry(q, m)
SameListeners(q, q2) ==
  /\ q2.listening = q.listening
  /\ q2.attaches = q.attaches
  /\ q2.capture = q.capture

(* The types of the fields of what jQuery keeps.                           *)
LEMMA JqFields ==
  ASSUME NEW q \in Jq
  PROVE  /\ q.id \in [Nodes -> Nat]
         /\ q.cache \in [DOMAIN q.cache -> EntrySet]
         /\ DOMAIN q.cache \subseteq Nat
         /\ q.deletedIds \in Seq(Nat)
         /\ q.guid \in Nat
         /\ q.listening \subseteq Nodes \X Types
         /\ q.attaches \in Nat
         /\ q.capture \in BOOLEAN
<1>1. q.cache \in Caches
  BY DEF Jq
<1>2. PICK D \in SUBSET Nat : q.cache \in [D -> EntrySet]
  BY <1>1 DEF Caches
<1>3. DOMAIN q.cache = D
  BY <1>2
<1> QED
  BY <1>2, <1>3 DEF Jq

(* A function from ids to entries is a cache.                              *)
LEMMA CacheIn ==
  ASSUME NEW D, D \subseteq Nat, NEW c \in [D -> EntrySet]
  PROVE  c \in Caches
  BY DEF Caches

(* The empty entry has no handlers.                                        *)
LEMMA EmptyEntryIn ==
  /\ EmptyEntry \in EntrySet
  /\ EmptyEntry.events = <<>>
  /\ DOMAIN EmptyEntry.events = {}
<1>1. <<>> \in [{} -> ListSet]
  OBVIOUS
<1>2. <<>> \in EventsSet
  BY <1>1 DEF EventsSet
<1> QED
  BY <1>2 DEF EmptyEntry, EntrySet

(* The types of the lists of an entry.                                     *)
LEMMA EventsIn ==
  ASSUME NEW E \in EventsSet
  PROVE  /\ DOMAIN E \subseteq Types
         /\ \A t \in DOMAIN E : E[t] \in ListSet
  BY DEF EventsSet

(* Lists for some types are the lists of an entry.                         *)
LEMMA IntoEvents ==
  ASSUME NEW T, T \subseteq Types, NEW E, E \in [T -> ListSet]
  PROVE  E \in EventsSet
  BY DEF EventsSet

(* The type of the entry of a node, there or not.                          *)
LEMMA EntryIn ==
  ASSUME NEW q \in Jq, NEW n \in Nodes
  PROVE  /\ Entry(q, n) \in EntrySet
         /\ EventsOf(q, n) \in EventsSet
         /\ DOMAIN EventsOf(q, n) \subseteq Types
         /\ \A t \in DOMAIN EventsOf(q, n) : EventsOf(q, n)[t] \in ListSet
<1>1. Entry(q, n) \in EntrySet
  BY JqFields, EmptyEntryIn DEF Entry, HasEntry
<1>2. EventsOf(q, n) \in EventsSet
  BY <1>1 DEF EventsOf, EntrySet
<1> QED
  BY <1>1, <1>2, EventsIn

(* Put changes the entry under the node's number only.                     *)
LEMMA PutFields ==
  ASSUME NEW q \in Jq, NEW n \in Nodes, NEW entry \in EntrySet,
         NEW q2, q2 = Put(q, n, entry)
  PROVE  /\ q2 \in Jq
         /\ q2.id = q.id
         /\ q2.deletedIds = q.deletedIds
         /\ q2.guid = q.guid
         /\ SameListeners(q, q2)
         /\ DOMAIN q2.cache = DOMAIN q.cache \cup {q.id[n]}
         /\ q2.cache[q.id[n]] = entry
         /\ \A i \in DOMAIN q.cache \ {q.id[n]} : q2.cache[i] = q.cache[i]
<1> DEFINE c == [i \in DOMAIN q.cache \cup {q.id[n]} |->
                  IF i = q.id[n] THEN entry ELSE q.cache[i]]
<1>1. q.id[n] \in Nat
  BY JqFields
<1>2. c \in [DOMAIN q.cache \cup {q.id[n]} -> EntrySet]
  BY JqFields
<1>3. c \in Caches
  BY <1>1, <1>2, JqFields, CacheIn
<1>4. q2 = [q EXCEPT !.cache = c]
  BY DEF Put
<1>5. /\ DOMAIN c = DOMAIN q.cache \cup {q.id[n]}
      /\ c[q.id[n]] = entry
      /\ \A i \in DOMAIN q.cache \ {q.id[n]} : c[i] = q.cache[i]
  OBVIOUS
<1> HIDE DEF c
<1>6. q2 \in Jq /\ q2.cache = c
  BY <1>3, <1>4 DEF Jq
<1>7. /\ q2.id = q.id
      /\ q2.deletedIds = q.deletedIds
      /\ q2.guid = q.guid
      /\ SameListeners(q, q2)
  BY <1>4 DEF Jq, SameListeners
<1> QED
  BY <1>5, <1>6, <1>7

(* An entry that was there is replaced, and no id changes.                 *)
LEMMA PutOk ==
  ASSUME NEW q \in Jq, Ids(q), NEW n \in Nodes, HasEntry(q, n),
         NEW entry \in EntrySet, NEW q2, q2 = Put(q, n, entry)
  PROVE  /\ q2 \in Jq
         /\ Ids(q2)
         /\ HasEntry(q2, n)
         /\ Entry(q2, n) = entry
         /\ Only(q, q2, n)
         /\ SameListeners(q, q2)
<1>1. /\ q2 \in Jq
      /\ q2.id = q.id
      /\ q2.deletedIds = q.deletedIds
      /\ q2.guid = q.guid
      /\ SameListeners(q, q2)
      /\ DOMAIN q2.cache = DOMAIN q.cache \cup {q.id[n]}
      /\ q2.cache[q.id[n]] = entry
      /\ \A i \in DOMAIN q.cache \ {q.id[n]} : q2.cache[i] = q.cache[i]
  BY PutFields
<1>2. DOMAIN q2.cache = DOMAIN q.cache
  BY <1>1 DEF HasEntry
<1>3. Ids(q2)
  BY <1>1, <1>2 DEF Ids
<1>4. HasEntry(q2, n) /\ Entry(q2, n) = entry
  BY <1>1, <1>2 DEF HasEntry, Entry
<1>5. ASSUME NEW m \in Nodes \ {n}
      PROVE  /\ Entry(q2, m) = Entry(q, m)
             /\ HasEntry(q2, m) <=> HasEntry(q, m)
  <2>1. q.id[m] # NoId => q.id[m] # q.id[n]
    BY DEF Ids
  <2> QED
    BY <1>1, <1>2, <2>1 DEF HasEntry, Entry
<1> QED
  BY <1>1, <1>3, <1>4, <1>5 DEF Only

(* An id that is nobody's is given to n.                                   *)
LEMMA FreshId ==
  ASSUME NEW q \in Jq, Ids(q), NEW n \in Nodes, ~HasEntry(q, n),
         NEW i \in Nat, i # NoId, i \notin DOMAIN q.cache,
         NEW q1 \in Jq, q1.id[n] = i,
         \A m \in Nodes \ {n} : q1.id[m] = q.id[m], q1.cache = q.cache,
         SameListeners(q, q1), i < q1.guid, q.guid <= q1.guid,
         \A k \in DOMAIN q1.deletedIds :
            /\ q1.deletedIds[k] # NoId
            /\ q1.deletedIds[k] < q1.guid
            /\ q1.deletedIds[k] \notin DOMAIN q.cache
            /\ q1.deletedIds[k] # i,
         \A j, k \in DOMAIN q1.deletedIds :
            q1.deletedIds[j] = q1.deletedIds[k] => j = k,
         NEW q2, q2 = Put(q1, n, EmptyEntry)
  PROVE  /\ q2 \in Jq
         /\ Ids(q2)
         /\ HasEntry(q2, n)
         /\ Entry(q2, n) = EmptyEntry
         /\ Only(q, q2, n)
         /\ SameListeners(q, q2)
<1>0. PICK e \in EntrySet : e = EmptyEntry /\ q2 = Put(q1, n, e)
  BY EmptyEntryIn
<1>1. /\ q2 \in Jq
      /\ q2.id = q1.id
      /\ q2.deletedIds = q1.deletedIds
      /\ q2.guid = q1.guid
      /\ SameListeners(q1, q2)
      /\ DOMAIN q2.cache = DOMAIN q1.cache \cup {q1.id[n]}
      /\ q2.cache[q1.id[n]] = e
      /\ \A k \in DOMAIN q1.cache \ {q1.id[n]} : q2.cache[k] = q1.cache[k]
  BY <1>0, PutFields
<1>2. /\ q.id \in [Nodes -> Nat]
      /\ q.guid \in Nat /\ q1.guid \in Nat
  BY JqFields
<1>3. \A m \in Nodes : q.id[m] # NoId => q.id[m] \in DOMAIN q.cache
  BY DEF Ids
<1>4. q.id[n] = NoId /\ \A m \in Nodes : q.id[m] # i
  BY <1>3 DEF HasEntry
<1>5. /\ DOMAIN q2.cache = DOMAIN q.cache \cup {i}
      /\ q2.cache[i] = EmptyEntry
      /\ \A k \in DOMAIN q.cache : q2.cache[k] = q.cache[k]
      /\ q2.id[n] = i
      /\ \A m \in Nodes \ {n} : q2.id[m] = q.id[m]
  BY <1>0, <1>1, <1>2
<1>6. Ids(q2)
  <2>1. \A l, m \in Nodes : q2.id[m] = q2.id[l] /\ q2.id[m] # NoId => m = l
    BY <1>4, <1>5 DEF Ids
  <2>2. \A m \in Nodes : q2.id[m] # NoId => q2.id[m] \in DOMAIN q2.cache
    BY <1>3, <1>5
  <2>3. ASSUME NEW k \in DOMAIN q2.cache
        PROVE  k # NoId /\ \E m \in Nodes : q2.id[m] = k
    <3>1. CASE k = i
      BY <1>5, <3>1
    <3>2. CASE k \in DOMAIN q.cache
      <4>1. PICK m \in Nodes : q.id[m] = k /\ k # NoId
        BY <3>2 DEF Ids
      <4>2. m # n
        BY <1>4, <4>1
      <4> QED
        BY <1>5, <4>1, <4>2
    <3> QED
      BY <1>5, <3>1, <3>2
  <2>4. \A m \in Nodes : q2.id[m] < q2.guid
    <3>1. \A m \in Nodes : q.id[m] < q.guid /\ q.id[m] \in Nat
      BY <1>2 DEF Ids
    <3> QED
      BY <1>1, <1>2, <1>5, <3>1
  <2>5. \A k \in DOMAIN q2.deletedIds :
          /\ q2.deletedIds[k] # NoId
          /\ q2.deletedIds[k] < q2.guid
          /\ q2.deletedIds[k] \notin DOMAIN q2.cache
    BY <1>1, <1>5
  <2>6. \A j, k \in DOMAIN q2.deletedIds :
          q2.deletedIds[j] = q2.deletedIds[k] => j = k
    BY <1>1
  <2> QED
    BY <2>1, <2>2, <2>3, <2>4, <2>5, <2>6 DEF Ids
<1>7. HasEntry(q2, n) /\ Entry(q2, n) = EmptyEntry
  BY <1>5 DEF HasEntry, Entry
<1>8. ASSUME NEW m \in Nodes \ {n}
      PROVE  /\ Entry(q2, m) = Entry(q, m)
             /\ HasEntry(q2, m) <=> HasEntry(q, m)
  BY <1>4, <1>5 DEF HasEntry, Entry
<1>9. SameListeners(q, q2)
  BY <1>1 DEF SameListeners
<1> QED
  BY <1>1, <1>6, <1>7, <1>8, <1>9 DEF Only

(* A node gets an entry, with a number that was given back or a new one:   *)
(* nobody else's entry changes.                                            *)
LEMMA WithEntryOk ==
  ASSUME NEW q \in Jq, Ids(q), NEW n \in Nodes,
         NEW q2, q2 = WithEntry(q, n)
  PROVE  /\ q2 \in Jq
         /\ Ids(q2)
         /\ HasEntry(q2, n)
         /\ \A m \in Nodes : Entry(q2, m) = Entry(q, m)
         /\ Only(q, q2, n)
         /\ SameListeners(q, q2)
<1>1. CASE HasEntry(q, n)
  <2>1. q2 = q
    BY <1>1 DEF WithEntry
  <2> QED
    BY <1>1, <2>1 DEF Only, SameListeners
<1>2. CASE ~HasEntry(q, n)
  <2>1. q.id[n] = NoId /\ Entry(q, n) = EmptyEntry
    BY <1>2 DEF Ids, HasEntry, Entry
  <2>2. /\ q.id \in [Nodes -> Nat] /\ q.guid \in Nat
        /\ q.deletedIds \in Seq(Nat)
    BY JqFields
  <2>3. /\ \A k \in DOMAIN q.deletedIds :
             /\ q.deletedIds[k] # NoId
             /\ q.deletedIds[k] < q.guid
             /\ q.deletedIds[k] \notin DOMAIN q.cache
        /\ \A j, k \in DOMAIN q.deletedIds :
             q.deletedIds[j] = q.deletedIds[k] => j = k
        /\ \A i \in DOMAIN q.cache : i # NoId /\ i < q.guid
        /\ q.guid > 0
    <3>1. \A i \in DOMAIN q.cache : i # NoId /\ i < q.guid
      BY DEF Ids
    <3>2. q.id[n] < q.guid
      BY DEF Ids
    <3> QED
      BY <2>1, <2>2, <3>1, <3>2 DEF Ids, NoId
  <2>4. CASE q.deletedIds # <<>>
    <3> DEFINE i == Last(q.deletedIds)
               q1 == [q EXCEPT !.id[n] = Last(q.deletedIds),
                               !.deletedIds = Front(q.deletedIds)]
               len == Len(q.deletedIds)
    <3>1. q2 = Put(q1, n, EmptyEntry)
      BY <1>2, <2>1, <2>4 DEF WithEntry
    <3>2. /\ len \in Nat /\ len > 0 /\ i = q.deletedIds[len]
          /\ DOMAIN q.deletedIds = 1..len
      BY <2>2, <2>4, EmptySeq, LenProperties DEF Last
    <3>3. /\ Front(q.deletedIds) \in Seq(Nat)
          /\ DOMAIN Front(q.deletedIds) = 1..(len - 1)
          /\ \A k \in 1..(len - 1) : Front(q.deletedIds)[k] = q.deletedIds[k]
      BY <2>2, <2>4, <3>2 DEF Front
    <3>4. i \in Nat /\ i # NoId /\ i < q.guid /\ i \notin DOMAIN q.cache
      BY <2>2, <2>3, <3>2
    <3>5. /\ q1 \in Jq /\ q1.id[n] = i
          /\ \A m \in Nodes \ {n} : q1.id[m] = q.id[m]
          /\ q1.cache = q.cache /\ q1.guid = q.guid
          /\ q1.deletedIds = Front(q.deletedIds)
      BY <2>2, <3>3, <3>4 DEF Jq
    <3>6. SameListeners(q, q1)
      BY DEF Jq, SameListeners
    <3> HIDE DEF i, q1, len
    <3>7. \A k \in DOMAIN q1.deletedIds :
            k \in DOMAIN q.deletedIds /\ k # len
              /\ q1.deletedIds[k] = q.deletedIds[k]
      BY <3>2, <3>3, <3>5
    <3>8. len \in DOMAIN q.deletedIds
      BY <3>2
    <3>9. /\ \A k \in DOMAIN q1.deletedIds :
               /\ q1.deletedIds[k] # NoId
               /\ q1.deletedIds[k] < q1.guid
               /\ q1.deletedIds[k] \notin DOMAIN q.cache
               /\ q1.deletedIds[k] # i
          /\ \A j, k \in DOMAIN q1.deletedIds :
               q1.deletedIds[j] = q1.deletedIds[k] => j = k
      BY <2>3, <3>2, <3>5, <3>7, <3>8
    <3>10. i < q1.guid /\ q.guid <= q1.guid
      BY <2>2, <3>4, <3>5
    <3>11. /\ q2 \in Jq
           /\ Ids(q2)
           /\ HasEntry(q2, n)
           /\ Entry(q2, n) = EmptyEntry
           /\ Only(q, q2, n)
           /\ SameListeners(q, q2)
      BY <1>2, <3>1, <3>4, <3>5, <3>6, <3>9, <3>10, FreshId
    <3> QED
      BY <2>1, <3>11 DEF Only
  <2>5. CASE q.deletedIds = <<>>
    <3> DEFINE i == q.guid
               q1 == [q EXCEPT !.id[n] = q.guid, !.guid = @ + 1]
    <3>1. q2 = Put(q1, n, EmptyEntry)
      BY <1>2, <2>1, <2>5 DEF WithEntry
    <3>2. i \in Nat /\ i # NoId /\ i \notin DOMAIN q.cache
      BY <2>2, <2>3 DEF NoId
    <3>3. /\ q1 \in Jq /\ q1.id[n] = i
          /\ \A m \in Nodes \ {n} : q1.id[m] = q.id[m]
          /\ q1.cache = q.cache /\ q1.guid = q.guid + 1
          /\ q1.deletedIds = q.deletedIds
      <4>1. /\ [q.id EXCEPT ![n] = i] \in [Nodes -> Nat]
            /\ q.guid + 1 \in Nat
        BY <2>2
      <4>2. q1 = [q EXCEPT !.id = [q.id EXCEPT ![n] = i], !.guid = q.guid + 1]
        BY DEF Jq
      <4> HIDE DEF i, q1
      <4> QED
        BY <4>1, <4>2 DEF Jq
    <3>4. SameListeners(q, q1)
      BY DEF Jq, SameListeners
    <3>5. i < q1.guid /\ q.guid <= q1.guid
      BY <2>2, <3>3
    <3>6. DOMAIN q1.deletedIds = {}
      BY <2>5, <3>3
    <3> HIDE DEF i, q1
    <3>7. /\ q2 \in Jq
          /\ Ids(q2)
          /\ HasEntry(q2, n)
          /\ Entry(q2, n) = EmptyEntry
          /\ Only(q, q2, n)
          /\ SameListeners(q, q2)
      BY <1>2, <3>1, <3>2, <3>3, <3>4, <3>5, <3>6, FreshId
    <3> QED
      BY <2>1, <3>7 DEF Only
  <2> QED
    BY <2>4, <2>5
<1> QED
  BY <1>1, <1>2

(* The entry goes, and the number is given back.                           *)
LEMMA DropOk ==
  ASSUME NEW q \in Jq, Ids(q), NEW n \in Nodes, HasEntry(q, n),
         NEW q2, q2 = DropEntry(q, n)
  PROVE  /\ q2 \in Jq
         /\ Ids(q2)
         /\ ~HasEntry(q2, n)
         /\ Entry(q2, n) = EmptyEntry
         /\ Only(q, q2, n)
         /\ SameListeners(q, q2)
<1> DEFINE i == q.id[n]
           c == [k \in DOMAIN q.cache \ {q.id[n]} |-> q.cache[k]]
           len == Len(q.deletedIds)
<1>1. /\ q.id \in [Nodes -> Nat] /\ q.guid \in Nat
      /\ q.deletedIds \in Seq(Nat) /\ i \in Nat
      /\ q.cache \in [DOMAIN q.cache -> EntrySet]
      /\ DOMAIN q.cache \subseteq Nat
  BY JqFields
<1>2. i # NoId /\ i \in DOMAIN q.cache
  BY DEF HasEntry
<1>3. /\ DOMAIN c = DOMAIN q.cache \ {i}
      /\ \A k \in DOMAIN q.cache \ {i} : c[k] = q.cache[k]
      /\ c \in Caches
  <2>1. c \in [DOMAIN q.cache \ {i} -> EntrySet]
    BY <1>1
  <2> QED
    BY <1>1, <2>1, CacheIn
<1>4. q2 = [q EXCEPT !.cache = c, !.id[n] = NoId,
                     !.deletedIds = Append(@, i)]
  BY DEF DropEntry
<1> HIDE DEF c
<1>5. /\ Append(q.deletedIds, i) \in Seq(Nat)
      /\ len \in Nat
      /\ DOMAIN q.deletedIds = 1..len
      /\ DOMAIN Append(q.deletedIds, i) = 1..(len + 1)
      /\ \A k \in 1..len : Append(q.deletedIds, i)[k] = q.deletedIds[k]
      /\ Append(q.deletedIds, i)[len + 1] = i
  BY <1>1, AppendProperties, LenProperties
<1>6. /\ q2 \in Jq
      /\ q2.cache = c
      /\ q2.id = [q.id EXCEPT ![n] = NoId]
      /\ q2.deletedIds = Append(q.deletedIds, i)
      /\ q2.guid = q.guid
  <2>1. [q.id EXCEPT ![n] = NoId] \in [Nodes -> Nat]
    BY <1>1 DEF NoId
  <2>2. q2 = [q EXCEPT !.cache = c, !.id = [q.id EXCEPT ![n] = NoId],
                       !.deletedIds = Append(q.deletedIds, i)]
    BY <1>4 DEF Jq
  <2> HIDE DEF i
  <2> QED
    BY <1>3, <1>5, <2>1, <2>2 DEF Jq
<1>7. SameListeners(q, q2)
  BY <1>4 DEF Jq, SameListeners
<1>8. q2.id[n] = NoId /\ \A m \in Nodes \ {n} : q2.id[m] = q.id[m]
  BY <1>1, <1>6
<1>9. \A m \in Nodes \ {n} : q.id[m] # i
  BY <1>2 DEF Ids
<1>10. /\ DOMAIN q2.cache = DOMAIN q.cache \ {i}
       /\ \A k \in DOMAIN q.cache \ {i} : q2.cache[k] = q.cache[k]
  BY <1>3, <1>6
<1> HIDE DEF i, len
<1>11. Ids(q2)
  <2>1. \A l, m \in Nodes : q2.id[m] = q2.id[l] /\ q2.id[m] # NoId => m = l
    BY <1>8 DEF Ids
  <2>2. \A m \in Nodes : q2.id[m] # NoId => q2.id[m] \in DOMAIN q2.cache
    BY <1>8, <1>9, <1>10 DEF Ids
  <2>3. ASSUME NEW k \in DOMAIN q2.cache
        PROVE  k # NoId /\ \E m \in Nodes : q2.id[m] = k
    <3>1. k \in DOMAIN q.cache /\ k # i
      BY <1>10
    <3>2. PICK m \in Nodes : q.id[m] = k /\ k # NoId
      BY <3>1 DEF Ids
    <3>3. m # n
      BY <3>1, <3>2 DEF i
    <3> QED
      BY <1>8, <3>2, <3>3
  <2>4. \A m \in Nodes : q2.id[m] < q2.guid
    <3>1. \A m \in Nodes : q.id[m] < q.guid /\ q.id[m] \in Nat
      BY <1>1 DEF Ids
    <3>2. NoId < q.guid
      BY <1>1, <3>1 DEF NoId
    <3> QED
      BY <1>6, <1>8, <3>1, <3>2
  <2>5. i < q.guid
    BY DEF Ids, i
  <2>6. \A k \in DOMAIN q.deletedIds :
          /\ q.deletedIds[k] # NoId
          /\ q.deletedIds[k] < q.guid
          /\ q.deletedIds[k] \notin DOMAIN q.cache
          /\ q.deletedIds[k] # i
    BY <1>2 DEF Ids
  <2>7. ASSUME NEW k \in DOMAIN q2.deletedIds
        PROVE  /\ q2.deletedIds[k] # NoId
               /\ q2.deletedIds[k] < q2.guid
               /\ q2.deletedIds[k] \notin DOMAIN q2.cache
    <3>1. CASE k \in 1..len
      <4>1. q2.deletedIds[k] = q.deletedIds[k] /\ k \in DOMAIN q.deletedIds
        BY <1>5, <1>6, <3>1
      <4> QED
        BY <1>6, <1>10, <2>6, <4>1
    <3>2. CASE k = len + 1
      <4>1. q2.deletedIds[k] = i
        BY <1>5, <1>6, <3>2
      <4> QED
        BY <1>2, <1>6, <1>10, <2>5, <4>1
    <3> QED
      BY <1>5, <1>6, <3>1, <3>2
  <2>8. ASSUME NEW j \in DOMAIN q2.deletedIds, NEW k \in DOMAIN q2.deletedIds,
               q2.deletedIds[j] = q2.deletedIds[k]
        PROVE  j = k
    <3>1. \A l \in 1..len : q2.deletedIds[l] = q.deletedIds[l]
      BY <1>5, <1>6
    <3>2. q2.deletedIds[len + 1] = i
      BY <1>5, <1>6
    <3>3. \A l, m \in 1..len : q.deletedIds[l] = q.deletedIds[m] => l = m
      BY <1>5 DEF Ids
    <3>4. \A l \in 1..len : q.deletedIds[l] # i
      BY <1>5, <2>6
    <3>5. /\ j \in 1..len \/ j = len + 1
          /\ k \in 1..len \/ k = len + 1
      BY <1>5, <1>6
    <3> QED
      BY <2>8, <3>1, <3>2, <3>3, <3>4, <3>5
  <2> QED
    BY <2>1, <2>2, <2>3, <2>4, <2>7, <2>8 DEF Ids
<1>12. ~HasEntry(q2, n) /\ Entry(q2, n) = EmptyEntry
  BY <1>8 DEF HasEntry, Entry
<1>13. ASSUME NEW m \in Nodes \ {n}
       PROVE  /\ Entry(q2, m) = Entry(q, m)
              /\ HasEntry(q2, m) <=> HasEntry(q, m)
  BY <1>8, <1>9, <1>10 DEF HasEntry, Entry
<1> QED
  BY <1>6, <1>7, <1>11, <1>12, <1>13 DEF Only

(***************************************************************************)
(* Listeners                                                               *)
(***************************************************************************)
LEMMA NodesFinite == IsFiniteSet(Nodes)
<1>1. IsFiniteSet({Doc, Box})
  <2>1. {Doc, Box} = {Doc} \cup {Box}
    OBVIOUS
  <2>2. IsFiniteSet({Doc})
    BY FS_Singleton
  <2>3. IsFiniteSet({Doc} \cup {Box})
    BY <2>2, FS_AddElement
  <2> QED
    BY <2>1, <2>3
<1> QED
  BY <1>1, DomAssumption, FS_Union DEF Nodes

(* The nodes with handlers of focusin can be counted.                      *)
LEMMA FocusedFinite ==
  ASSUME NEW q
  PROVE  /\ IsFiniteSet(Focused(q))
         /\ Cardinality(Focused(q)) \in Nat
<1>1. Focused(q) \in SUBSET Nodes
  BY DEF Focused
<1>2. IsFiniteSet(Focused(q))
  BY <1>1, NodesFinite, FS_Subset
<1> QED
  BY <1>2, FS_CardinalityType

(* Two counts that go up or down together stay in their order.             *)
LEMMA OneEach ==
  ASSUME NEW a \in Nat, NEW c \in Nat, c <= a
  PROVE  /\ \A a2, c2 : a2 = a + 1 /\ c2 = c + 1 => c2 <= a2
         /\ \A a2, c2 : a2 = a - 1 /\ c2 = c - 1 => c2 <= a2
  OBVIOUS

(* The entries depend on ids and cache only.                               *)
LEMMA EntriesSame ==
  ASSUME NEW q, NEW q2, q2.id = q.id, q2.cache = q.cache
  PROVE  \A m : /\ Entry(q2, m) = Entry(q, m)
                /\ EventsOf(q2, m) = EventsOf(q, m)
                /\ HasEntry(q2, m) <=> HasEntry(q, m)
  BY DEF Entry, EventsOf, HasEntry

(* So do the numbers, and those given back.                                *)
LEMMA IdsSame ==
  ASSUME NEW q, Ids(q), NEW q2, q2.id = q.id, q2.cache = q.cache,
         q2.deletedIds = q.deletedIds, q2.guid = q.guid
  PROVE  Ids(q2)
  BY DEF Ids

(* The handlers of the other nodes are as they were.                       *)
LEMMA OnlyEvents ==
  ASSUME NEW q, NEW q2, NEW n \in Nodes, Only(q, q2, n)
  PROVE  \A m \in Nodes \ {n} : EventsOf(q2, m) = EventsOf(q, m)
  BY DEF Only, EventsOf

(* Lists are kept when those of the one node that changes are.             *)
LEMMA ListsOnly ==
  ASSUME NEW bd, NEW dead, NEW q, Lists(q, bd, dead), NEW q2, NEW n \in Nodes,
         Only(q, q2, n),
         \A t \in DOMAIN EventsOf(q2, n) :
           ListOk(bd, dead, n, t, EventsOf(q2, n)[t])
  PROVE  Lists(q2, bd, dead)
  BY OnlyEvents DEF Lists

(* The same types, the same listeners.                                     *)
LEMMA ListensSame ==
  ASSUME NEW q, Listens(q), NEW q2, SameListeners(q, q2),
         \A m \in Nodes : DOMAIN EventsOf(q2, m) = DOMAIN EventsOf(q, m)
  PROVE  Listens(q2)
<1>1. Focused(q2) = Focused(q)
  BY DEF Focused
<1> QED
  BY <1>1 DEF Listens, SameListeners

(* A type more, and its listener.                                          *)
LEMMA ListensSetup ==
  ASSUME NEW q \in Jq, Listens(q), NEW n \in Nodes, NEW t \in Types,
         t \notin DOMAIN EventsOf(q, n), NEW q1, q1 = Setup(q, n, t),
         NEW q2, SameListeners(q1, q2),
         \A m \in Nodes \ {n} : DOMAIN EventsOf(q2, m) = DOMAIN EventsOf(q, m),
         DOMAIN EventsOf(q2, n) = DOMAIN EventsOf(q, n) \cup {t}
  PROVE  Listens(q2)
<1>1. q.attaches \in Nat /\ q.capture \in BOOLEAN
  BY JqFields
<1>2. CASE t = "focusin"
  <2>1. /\ q2.listening = q.listening
        /\ q2.attaches = q.attaches + 1
        /\ q2.capture = (q.capture \/ q.attaches = 0)
    BY <1>2 DEF Setup, SameListeners, Jq
  <2>2. Focused(q2) = Focused(q) \cup {n} /\ n \notin Focused(q)
    BY <1>2 DEF Focused
  <2>3. Cardinality(Focused(q2)) = Cardinality(Focused(q)) + 1
    BY <2>2, FocusedFinite, FS_AddElement
  <2>4. Cardinality(Focused(q2)) <= q2.attaches
    <3>1. /\ Cardinality(Focused(q)) \in Nat
          /\ Cardinality(Focused(q)) <= q.attaches
      BY FocusedFinite DEF Listens
    <3> QED
      BY <1>1, <2>1, <2>3, <3>1, OneEach
  <2>5. q2.capture <=> q2.attaches > 0
    <3>1. q.capture <=> q.attaches > 0
      BY DEF Listens
    <3>2. q.attaches > 0 \/ q.attaches = 0
      BY <1>1
    <3>3. q2.attaches > 0
      BY <1>1, <2>1
    <3>4. q2.capture
      BY <2>1, <3>1, <3>2, Zenon
    <3> QED
      BY <3>3, <3>4, Zenon
  <2>6. \A m \in Nodes, s \in Types \ {"focusin"} :
          <<m, s>> \in q2.listening <=> s \in DOMAIN EventsOf(q2, m)
    BY <1>2, <2>1 DEF Listens
  <2> QED
    BY <2>4, <2>5, <2>6 DEF Listens
<1>3. CASE t # "focusin"
  <2>1. /\ q2.listening = q.listening \cup {<<n, t>>}
        /\ q2.attaches = q.attaches
        /\ q2.capture = q.capture
    BY <1>3 DEF Setup, SameListeners, Jq
  <2>2. Focused(q2) = Focused(q)
    BY <1>3 DEF Focused
  <2>3. \A m \in Nodes, s \in Types \ {"focusin"} :
          <<m, s>> \in q2.listening <=> s \in DOMAIN EventsOf(q2, m)
    BY <1>3, <2>1 DEF Listens
  <2> QED
    BY <2>1, <2>2, <2>3 DEF Listens
<1> QED
  BY <1>2, <1>3

(* A type less, and its listener.                                          *)
LEMMA ListensTeardown ==
  ASSUME NEW q \in Jq, Listens(q), NEW n \in Nodes, NEW t \in Types,
         t \in DOMAIN EventsOf(q, n), NEW q1, q1 = Teardown(q, n, t),
         NEW q2, SameListeners(q1, q2),
         \A m \in Nodes \ {n} : DOMAIN EventsOf(q2, m) = DOMAIN EventsOf(q, m),
         DOMAIN EventsOf(q2, n) = DOMAIN EventsOf(q, n) \ {t}
  PROVE  Listens(q2)
<1>1. q.attaches \in Nat /\ q.capture \in BOOLEAN
  BY JqFields
<1>2. CASE t = "focusin"
  <2>1. /\ q2.listening = q.listening
        /\ q2.attaches = q.attaches - 1
        /\ q2.capture = (q.capture /\ q.attaches # 1)
    BY <1>2 DEF Teardown, SameListeners, Jq
  <2>2. Focused(q2) = Focused(q) \ {n} /\ n \in Focused(q)
    BY <1>2 DEF Focused
  <2>3. Cardinality(Focused(q2)) = Cardinality(Focused(q)) - 1
    BY <2>2, FocusedFinite, FS_RemoveElement, ZenonT(40)
  <2>4. /\ Cardinality(Focused(q)) \in Nat
        /\ Cardinality(Focused(q2)) \in Nat
        /\ Cardinality(Focused(q)) <= q.attaches
    BY FocusedFinite DEF Listens
  <2>5. Cardinality(Focused(q2)) <= q2.attaches
    BY <1>1, <2>1, <2>3, <2>4, OneEach
  <2>6. q2.capture <=> q2.attaches > 0
    <3>1. q.capture <=> q.attaches > 0
      BY DEF Listens
    <3>2. q.attaches > 0 /\ q.attaches # 1 <=> q2.attaches > 0
      BY <1>1, <2>1
    <3> QED
      BY <2>1, <3>1, <3>2, Zenon
  <2>7. \A m \in Nodes, s \in Types \ {"focusin"} :
          <<m, s>> \in q2.listening <=> s \in DOMAIN EventsOf(q2, m)
    BY <1>2, <2>1 DEF Listens
  <2> QED
    BY <2>5, <2>6, <2>7 DEF Listens
<1>3. CASE t # "focusin"
  <2>1. /\ q2.listening = q.listening \ {<<n, t>>}
        /\ q2.attaches = q.attaches
        /\ q2.capture = q.capture
    BY <1>3 DEF Teardown, SameListeners, Jq
  <2>2. Focused(q2) = Focused(q)
    BY <1>3 DEF Focused
  <2>3. \A m \in Nodes, s \in Types \ {"focusin"} :
          <<m, s>> \in q2.listening <=> s \in DOMAIN EventsOf(q2, m)
    BY <1>3, <2>1 DEF Listens
  <2> QED
    BY <2>1, <2>2, <2>3 DEF Listens
<1> QED
  BY <1>2, <1>3

(* All types of a node go when nothing listens there but for focusin.      *)
LEMMA ListensDrop ==
  ASSUME NEW q \in Jq, Listens(q), NEW n \in Nodes,
         NEW q2, q2.attaches = q.attaches, q2.capture = q.capture,
         \A t \in Types \ {"focusin"} : <<n, t>> \notin q2.listening,
         \A m \in Nodes \ {n}, t \in Types :
           <<m, t>> \in q2.listening <=> <<m, t>> \in q.listening,
         \A m \in Nodes \ {n} : DOMAIN EventsOf(q2, m) = DOMAIN EventsOf(q, m),
         DOMAIN EventsOf(q2, n) = {}
  PROVE  Listens(q2)
<1>1. q.attaches \in Nat
  BY JqFields
<1>2. Focused(q2) \in SUBSET Focused(q)
  BY DEF Focused
<1>3. Cardinality(Focused(q2)) <= Cardinality(Focused(q))
  BY <1>2, FocusedFinite, FS_Subset
<1>4. Cardinality(Focused(q2)) <= q2.attaches
  BY <1>1, <1>3, FocusedFinite DEF Listens
<1>5. \A m \in Nodes, s \in Types \ {"focusin"} :
        <<m, s>> \in q2.listening <=> s \in DOMAIN EventsOf(q2, m)
  BY DEF Listens
<1> QED
  BY <1>4, <1>5 DEF Listens

(***************************************************************************)
(* Handlers                                                                *)
(***************************************************************************)

(* The handlers of a type kept for n.                                      *)
KeptOf(q, n, t) == Range(HandlersOf(q, n, t).list)
Fewer(q, q2, n) == \A t \in Types : KeptOf(q2, n, t) \subseteq KeptOf(q, n, t)
Without(q, n, t, o) == \A b \in KeptOf(q, n, t) : ~Matches(b, o)

(* The handlers kept under a type are those in its list.                   *)
LEMMA KeptIs ==
  ASSUME NEW q, NEW n, NEW t
  PROVE  /\ t \in DOMAIN EventsOf(q, n) =>
              /\ HandlersOf(q, n, t) = EventsOf(q, n)[t]
              /\ \A b : b \in KeptOf(q, n, t) <=>
                   \E k \in DOMAIN EventsOf(q, n)[t].list :
                     b = EventsOf(q, n)[t].list[k]
         /\ t \notin DOMAIN EventsOf(q, n) =>
              /\ HandlersOf(q, n, t) = NoHandlers
              /\ KeptOf(q, n, t) = {}
<1>1. ASSUME t \in DOMAIN EventsOf(q, n)
      PROVE  /\ HandlersOf(q, n, t) = EventsOf(q, n)[t]
             /\ \A b : b \in KeptOf(q, n, t) <=>
                  \E k \in DOMAIN EventsOf(q, n)[t].list :
                    b = EventsOf(q, n)[t].list[k]
  <2>1. HandlersOf(q, n, t) = EventsOf(q, n)[t]
    BY <1>1 DEF HandlersOf, EventsOf
  <2> QED
    BY <2>1 DEF KeptOf, Range
<1>2. ASSUME t \notin DOMAIN EventsOf(q, n)
      PROVE  /\ HandlersOf(q, n, t) = NoHandlers
             /\ KeptOf(q, n, t) = {}
  <2>1. HandlersOf(q, n, t) = NoHandlers
    BY <1>2 DEF HandlersOf, EventsOf
  <2>2. HandlersOf(q, n, t).list = <<>>
    BY <2>1 DEF NoHandlers
  <2>3. DOMAIN HandlersOf(q, n, t).list = {}
    BY <2>2
  <2> QED
    BY <2>1, <2>3 DEF KeptOf, Range
<1> QED
  BY <1>1, <1>2

(* No handlers are in order.                                               *)
LEMMA NoHandlersOk ==
  ASSUME NEW bd, NEW dead, NEW n, NEW t
  PROVE  /\ NoHandlers \in ListSet
         /\ NoHandlers.list = <<>>
         /\ NoHandlers.delegateCount = 0
         /\ InOrder(bd, dead, n, t, NoHandlers)
<1>1. /\ <<>> \in Seq(HandlerSet) /\ Len(<<>>) = 0
      /\ DOMAIN <<>> = {}
  BY EmptySeq
<1>2. NoHandlers.list = <<>> /\ NoHandlers.delegateCount = 0
  BY DEF NoHandlers
<1>3. NoHandlers \in ListSet
  BY <1>1 DEF NoHandlers, ListSet
<1>4. InOrder(bd, dead, n, t, NoHandlers)
  BY <1>1, <1>2 DEF InOrder
<1> QED
  BY <1>2, <1>3, <1>4

(* The events of an entry are replaced.                                    *)
LEMMA PutEventsOk ==
  ASSUME NEW q \in Jq, Ids(q), NEW n \in Nodes, HasEntry(q, n),
         NEW evs \in EventsSet,
         NEW q2, q2 = Put(q, n, [Entry(q, n) EXCEPT !.events = evs])
  PROVE  /\ q2 \in Jq
         /\ Ids(q2)
         /\ HasEntry(q2, n)
         /\ Only(q, q2, n)
         /\ SameListeners(q, q2)
         /\ EventsOf(q2, n) = evs
<1>1. Entry(q, n) \in EntrySet
  BY EntryIn
<1>2. PICK entry \in EntrySet :
        /\ entry = [Entry(q, n) EXCEPT !.events = evs]
        /\ entry.events = evs
  BY <1>1 DEF EntrySet
<1>3. q2 = Put(q, n, entry)
  BY <1>2
<1>4. /\ q2 \in Jq
      /\ Ids(q2)
      /\ HasEntry(q2, n)
      /\ Entry(q2, n) = entry
      /\ Only(q, q2, n)
      /\ SameListeners(q, q2)
  BY <1>3, PutOk
<1> QED
  BY <1>2, <1>4 DEF EventsOf

(* One list of an entry is replaced.                                       *)
LEMMA WithHandlersOk ==
  ASSUME NEW q \in Jq, Ids(q), NEW n \in Nodes, HasEntry(q, n),
         NEW t \in Types, NEW hs \in ListSet,
         NEW q2, q2 = WithHandlers(q, n, t, hs)
  PROVE  /\ q2 \in Jq
         /\ Ids(q2)
         /\ HasEntry(q2, n)
         /\ Only(q, q2, n)
         /\ SameListeners(q, q2)
         /\ DOMAIN EventsOf(q2, n) = DOMAIN EventsOf(q, n) \cup {t}
         /\ EventsOf(q2, n)[t] = hs
         /\ \A s \in DOMAIN EventsOf(q, n) \ {t} :
              EventsOf(q2, n)[s] = EventsOf(q, n)[s]
<1> DEFINE E == EventsOf(q, n)
           evs == [s \in DOMAIN E \cup {t} |-> IF s = t THEN hs ELSE E[s]]
<1>1. DOMAIN E \subseteq Types /\ \A s \in DOMAIN E : E[s] \in ListSet
  BY EntryIn
<1>2. evs \in [DOMAIN E \cup {t} -> ListSet]
  BY <1>1
<1>3. evs \in EventsSet
  BY <1>1, <1>2, IntoEvents
<1>4. /\ DOMAIN evs = DOMAIN E \cup {t}
      /\ evs[t] = hs
      /\ \A s \in DOMAIN E \ {t} : evs[s] = E[s]
  OBVIOUS
<1>5. Entry(q, n) \in EntrySet
  BY EntryIn
<1>6. q2 = Put(q, n, [Entry(q, n) EXCEPT !.events = evs])
  BY <1>5 DEF WithHandlers, EventsOf, EntrySet
<1> HIDE DEF evs
<1>7. /\ q2 \in Jq
      /\ Ids(q2)
      /\ HasEntry(q2, n)
      /\ Only(q, q2, n)
      /\ SameListeners(q, q2)
      /\ EventsOf(q2, n) = evs
  BY <1>3, <1>6, PutEventsOk
<1> QED
  BY <1>4, <1>7

(* Setup touches listeners only.                                           *)
LEMMA SetupFields ==
  ASSUME NEW q \in Jq, NEW n \in Nodes, NEW t \in Types,
         NEW q2, q2 = Setup(q, n, t)
  PROVE  /\ q2 \in Jq
         /\ q2.id = q.id
         /\ q2.cache = q.cache
         /\ q2.deletedIds = q.deletedIds
         /\ q2.guid = q.guid
<1>1. q.attaches \in Nat /\ q.capture \in BOOLEAN
      /\ q.listening \subseteq Nodes \X Types
  BY JqFields
<1>2. CASE t = "focusin"
  <2>0. (q.capture \/ q.attaches = 0) \in BOOLEAN /\ q.attaches + 1 \in Nat
    BY <1>1
  <2>1. PICK a \in Nat, c \in BOOLEAN :
          a = q.attaches + 1 /\ c = (q.capture \/ q.attaches = 0)
    BY <2>0, Zenon
  <2>2. q2 = [q EXCEPT !.attaches = a, !.capture = c]
    BY <1>2, <2>1 DEF Setup, Jq
  <2> QED
    BY <2>2 DEF Jq
<1>3. CASE t # "focusin"
  <2>0. q.listening \cup {<<n, t>>} \subseteq Nodes \X Types
    BY <1>1
  <2>1. PICK l \in SUBSET (Nodes \X Types) : l = q.listening \cup {<<n, t>>}
    BY <2>0
  <2>2. q2 = [q EXCEPT !.listening = l]
    BY <1>3, <2>1 DEF Setup, Jq
  <2> QED
    BY <2>2 DEF Jq
<1> QED
  BY <1>2, <1>3

(* So does Teardown, and its count is not negative.                        *)
LEMMA TeardownFields ==
  ASSUME NEW q \in Jq, Listens(q), NEW n \in Nodes, NEW t \in Types,
         t \in DOMAIN EventsOf(q, n), NEW q2, q2 = Teardown(q, n, t)
  PROVE  /\ q2 \in Jq
         /\ q2.id = q.id
         /\ q2.cache = q.cache
         /\ q2.deletedIds = q.deletedIds
         /\ q2.guid = q.guid
<1>1. q.attaches \in Nat /\ q.capture \in BOOLEAN
      /\ q.listening \subseteq Nodes \X Types
  BY JqFields
<1>2. CASE t = "focusin"
  <2>1. n \in Focused(q)
    BY <1>2 DEF Focused
  <2>2. Cardinality(Focused(q)) # 0
    BY <2>1, FocusedFinite, FS_EmptySet
  <2>3. Cardinality(Focused(q)) <= q.attaches /\ Cardinality(Focused(q)) \in Nat
    BY FocusedFinite DEF Listens
  <2>4. q.attaches # 0
    BY <2>2, <2>3
  <2>50. (q.capture /\ q.attaches # 1) \in BOOLEAN /\ q.attaches - 1 \in Nat
    BY <1>1, <2>4
  <2>5. PICK a \in Nat, c \in BOOLEAN :
          a = q.attaches - 1 /\ c = (q.capture /\ q.attaches # 1)
    BY <2>50, Zenon
  <2>6. q2 = [q EXCEPT !.attaches = a, !.capture = c]
    BY <1>2, <2>5 DEF Teardown, Jq
  <2> QED
    BY <2>6 DEF Jq
<1>3. CASE t # "focusin"
  <2>1. PICK l \in SUBSET (Nodes \X Types) : l = q.listening \ {<<n, t>>}
    BY <1>1
  <2>2. q2 = [q EXCEPT !.listening = l]
    BY <1>3, <2>1 DEF Teardown, Jq
  <2> QED
    BY <2>2 DEF Jq
<1> QED
  BY <1>2, <1>3

(* What Store says, taken apart for a node.                                *)
LEMMA StoreParts ==
  ASSUME NEW bd, NEW dead, NEW q, Store(q, bd, dead), NEW n \in Nodes
  PROVE  /\ q \in Jq
         /\ Ids(q)
         /\ Lists(q, bd, dead)
         /\ Listens(q)
         /\ DOMAIN EventsOf(q, n) # {} => HasEntry(q, n)
         /\ \A t \in DOMAIN EventsOf(q, n) :
              /\ t \in Types
              /\ EventsOf(q, n)[t] \in ListSet
              /\ ListOk(bd, dead, n, t, EventsOf(q, n)[t])
<1>1. q \in Jq /\ Ids(q) /\ Lists(q, bd, dead) /\ Listens(q)
  BY DEF Store
<1>2. ASSUME ~HasEntry(q, n) PROVE DOMAIN EventsOf(q, n) = {}
  BY <1>2, EmptyEntryIn DEF EventsOf, Entry
<1>3. \A t \in DOMAIN EventsOf(q, n) :
        t \in Types /\ EventsOf(q, n)[t] \in ListSet
  BY <1>1, EntryIn
<1>4. \A t \in DOMAIN EventsOf(q, n) :
        ListOk(bd, dead, n, t, EventsOf(q, n)[t])
  BY <1>1 DEF Lists
<1> QED
  BY <1>1, <1>2, <1>3, <1>4

(* The handlers of one type, but t, are as they were.                      *)
LEMMA KeptSame ==
  ASSUME NEW q, NEW q2, NEW n, NEW s,
         s \in DOMAIN EventsOf(q2, n) <=> s \in DOMAIN EventsOf(q, n),
         s \in DOMAIN EventsOf(q, n) => EventsOf(q2, n)[s] = EventsOf(q, n)[s]
  PROVE  /\ KeptOf(q2, n, s) = KeptOf(q, n, s)
         /\ HandlersOf(q2, n, s) = HandlersOf(q, n, s)
<1>1. HandlersOf(q2, n, s) = HandlersOf(q, n, s)
  BY KeptIs
<1> QED
  BY <1>1 DEF KeptOf

(* Of the handlers of one type those that match go, and the listener with  *)
(* the last.                                                               *)
LEMMA RemoveTypeOk ==
  ASSUME NEW bd, NEW dead, NEW q, Store(q, bd, dead), NEW n \in Nodes,
         NEW t \in Types, NEW o, NEW q2, q2 = RemoveType(q, n, t, o)
  PROVE  /\ Store(q2, bd, dead)
         /\ Only(q, q2, n)
         /\ HasEntry(q2, n) <=> HasEntry(q, n)
         /\ Fewer(q, q2, n)
         /\ Without(q2, n, t, o)
<1>1. q \in Jq /\ Ids(q) /\ Lists(q, bd, dead) /\ Listens(q)
  BY StoreParts
<1>2. CASE t \notin DOMAIN EventsOf(q, n)
  <2>1. HandlersOf(q, n, t).list = <<>>
    BY <1>2, KeptIs, NoHandlersOk
  <2>2. q2 = q
    BY <2>1, SMTT(30) DEF RemoveType
  <2>3. KeptOf(q2, n, t) = {}
    BY <1>2, <2>2, KeptIs
  <2> QED
    BY <2>2, <2>3 DEF Only, Fewer, Without
<1>3. CASE t \in DOMAIN EventsOf(q, n)
  <2>a. PICK hs : hs = EventsOf(q, n)[t]
    OBVIOUS
  <2>b. PICK off : off = {k \in DOMAIN hs.list : Matches(hs.list[k], o)}
    OBVIOUS
  <2>c. PICK hs2 : hs2 = LeftOf(hs, off)
    OBVIOUS
  <2>d. PICK left : left = hs2.list
    OBVIOUS
  <2>1. /\ HasEntry(q, n) /\ hs \in ListSet
        /\ hs.list # <<>> /\ InOrder(bd, dead, n, t, hs)
        /\ HandlersOf(q, n, t) = hs
    BY <1>3, <2>a, StoreParts, KeptIs DEF ListOk
  <2>2. q2 = IF left # <<>> THEN WithHandlers(q, n, t, hs2)
             ELSE Put(Teardown(q, n, t), n,
                      [Entry(q, n) EXCEPT
                         !.events = [s \in DOMAIN @ \ {t} |-> @[s]]])
    BY <2>1, <2>a, <2>b, <2>c, <2>d DEF RemoveType
  <2>3. off \subseteq DOMAIN hs.list
    BY <2>b
  <2>4. /\ hs2 \in ListSet
        /\ InOrder(bd, dead, n, t, hs2)
        /\ \A k \in DOMAIN left : \E j \in DOMAIN hs.list \ off :
             left[k] = hs.list[j]
    BY <2>1, <2>3, <2>c, <2>d, LeftOk
  <2>5. \A j \in DOMAIN hs.list \ off : ~Matches(hs.list[j], o)
    BY <2>b
  <2>6. hs2.list = left
    BY <2>d
  <2>7. \A b : b \in KeptOf(q, n, t) <=>
          \E k \in DOMAIN hs.list : b = hs.list[k]
    BY <1>3, <2>a, KeptIs
  <2>8. CASE left # <<>>
    <3>1. q2 = WithHandlers(q, n, t, hs2)
      BY <2>2, <2>8
    <3>2. /\ q2 \in Jq
          /\ Ids(q2)
          /\ HasEntry(q2, n)
          /\ Only(q, q2, n)
          /\ SameListeners(q, q2)
          /\ DOMAIN EventsOf(q2, n) = DOMAIN EventsOf(q, n) \cup {t}
          /\ EventsOf(q2, n)[t] = hs2
          /\ \A s \in DOMAIN EventsOf(q, n) \ {t} :
               EventsOf(q2, n)[s] = EventsOf(q, n)[s]
      <4>1. q \in Jq /\ Ids(q) /\ HasEntry(q, n) /\ hs2 \in ListSet
        BY <1>1, <2>1, <2>4
      <4> QED
        BY <3>1, <4>1, WithHandlersOk
    <3>3. DOMAIN EventsOf(q2, n) = DOMAIN EventsOf(q, n)
      BY <1>3, <3>2
    <3>4. ASSUME NEW s \in DOMAIN EventsOf(q2, n)
          PROVE  ListOk(bd, dead, n, s, EventsOf(q2, n)[s])
      <4>1. CASE s = t
        BY <2>4, <2>6, <2>8, <3>2, <4>1 DEF ListOk
      <4>2. CASE s # t
        BY <3>2, <3>3, <4>2, StoreParts
      <4> QED
        BY <4>1, <4>2
    <3>5. Lists(q2, bd, dead)
      BY <1>1, <3>2, <3>4, ListsOnly
    <3>6. \A m \in Nodes : DOMAIN EventsOf(q2, m) = DOMAIN EventsOf(q, m)
      BY <3>2, <3>3, OnlyEvents
    <3>7. Listens(q2)
      BY <1>1, <3>2, <3>6, ListensSame
    <3>8. \A b : b \in KeptOf(q2, n, t) <=>
            \E k \in DOMAIN left : b = left[k]
      BY <1>3, <2>6, <3>2, <3>3, KeptIs
    <3>9. Fewer(q, q2, n)
      <4>1. ASSUME NEW s \in Types \ {t}
            PROVE  KeptOf(q2, n, s) = KeptOf(q, n, s)
        BY <3>2, <3>3, KeptSame
      <4>2. KeptOf(q2, n, t) \subseteq KeptOf(q, n, t)
        BY <2>4, <2>7, <3>8
      <4> QED
        BY <4>1, <4>2 DEF Fewer
    <3>10. Without(q2, n, t, o)
      BY <2>4, <2>5, <3>8 DEF Without
    <3> QED
      BY <2>1, <3>2, <3>5, <3>7, <3>9, <3>10 DEF Store
  <2>9. CASE left = <<>>
    <3> DEFINE E == EventsOf(q, n)
               evs == [s \in DOMAIN E \ {t} |-> E[s]]
    <3>0. PICK q1 : q1 = Teardown(q, n, t)
      OBVIOUS
    <3>1. /\ q1 \in Jq
          /\ q1.id = q.id
          /\ q1.cache = q.cache
          /\ q1.deletedIds = q.deletedIds
          /\ q1.guid = q.guid
      BY <1>1, <1>3, <3>0, TeardownFields
    <3>2. Ids(q1)
      BY <1>1, <3>1, IdsSame
    <3>3. \A m : /\ Entry(q1, m) = Entry(q, m)
                 /\ EventsOf(q1, m) = EventsOf(q, m)
                 /\ HasEntry(q1, m) <=> HasEntry(q, m)
      BY <3>1, EntriesSame
    <3>4. evs \in EventsSet
      <4>1. evs \in [DOMAIN E \ {t} -> ListSet]
        BY <1>1, EntryIn
      <4> QED
        BY <1>1, <4>1, EntryIn, IntoEvents
    <3>5. DOMAIN evs = DOMAIN E \ {t} /\ \A s \in DOMAIN E \ {t} : evs[s] = E[s]
      OBVIOUS
    <3>6. q2 = Put(q1, n, [Entry(q1, n) EXCEPT !.events = evs])
      <4>1. Entry(q, n) \in EntrySet
        BY <1>1, EntryIn
      <4>2. q2 = Put(q1, n, [Entry(q, n) EXCEPT
                               !.events = [s \in DOMAIN @ \ {t} |-> @[s]]])
        BY <2>2, <2>9, <3>0
      <4>3. [Entry(q, n) EXCEPT !.events = [s \in DOMAIN @ \ {t} |-> @[s]]]
              = [Entry(q, n) EXCEPT !.events = evs]
        BY <4>1 DEF EventsOf, EntrySet
      <4> QED
        BY <3>3, <4>2, <4>3
    <3> HIDE DEF evs
    <3>7. /\ q2 \in Jq
          /\ Ids(q2)
          /\ HasEntry(q2, n)
          /\ Only(q1, q2, n)
          /\ SameListeners(q1, q2)
          /\ EventsOf(q2, n) = evs
      BY <2>1, <3>1, <3>2, <3>3, <3>4, <3>6, PutEventsOk
    <3>8. Only(q, q2, n)
      BY <3>3, <3>7 DEF Only
    <3>9. \A s \in DOMAIN EventsOf(q2, n) :
            ListOk(bd, dead, n, s, EventsOf(q2, n)[s])
      BY <3>5, <3>7, StoreParts
    <3>10. Lists(q2, bd, dead)
      BY <1>1, <3>8, <3>9, ListsOnly
    <3>11. /\ \A m \in Nodes \ {n} :
                DOMAIN EventsOf(q2, m) = DOMAIN EventsOf(q, m)
           /\ DOMAIN EventsOf(q2, n) = DOMAIN EventsOf(q, n) \ {t}
      BY <3>5, <3>7, <3>8, OnlyEvents
    <3>12. Listens(q2)
      BY <1>1, <1>3, <3>0, <3>7, <3>11, ListensTeardown
    <3>13. KeptOf(q2, n, t) = {}
      BY <3>11, KeptIs
    <3>14. Fewer(q, q2, n)
      <4>1. ASSUME NEW s \in Types \ {t}
            PROVE  KeptOf(q2, n, s) = KeptOf(q, n, s)
        <5>1. s \in DOMAIN EventsOf(q2, n) <=> s \in DOMAIN EventsOf(q, n)
          BY <3>11
        <5>2. s \in DOMAIN EventsOf(q, n) =>
                EventsOf(q2, n)[s] = EventsOf(q, n)[s]
          BY <3>5, <3>7
        <5> QED
          BY <5>1, <5>2, KeptSame
      <4> QED
        BY <3>13, <4>1 DEF Fewer
    <3>15. Without(q2, n, t, o)
      BY <3>13 DEF Without
    <3> QED
      BY <2>1, <3>7, <3>8, <3>10, <3>12, <3>14, <3>15 DEF Store
  <2> QED
    BY <2>8, <2>9
<1> QED
  BY <1>2, <1>3

(* Only, twice.                                                            *)
LEMMA OnlyTrans ==
  ASSUME NEW q, NEW q1, NEW q2, NEW n, Only(q, q1, n), Only(q1, q2, n)
  PROVE  Only(q, q2, n)
  BY DEF Only

(* Nothing has changed.                                                    *)
LEMMA OnlySame ==
  ASSUME NEW q, NEW n
  PROVE  Only(q, q, n) /\ Fewer(q, q, n)
  BY DEF Only, Fewer

(* Fewer, twice.                                                           *)
LEMMA FewerTrans ==
  ASSUME NEW q, NEW q1, NEW q2, NEW n, Fewer(q, q1, n), Fewer(q1, q2, n)
  PROVE  Fewer(q, q2, n)
  BY DEF Fewer

(* What is not there is not there with fewer handlers.                     *)
LEMMA WithoutFewer ==
  ASSUME NEW q, NEW q2, NEW n, Fewer(q, q2, n), NEW t \in Types, NEW o,
         Without(q, n, t, o)
  PROVE  Without(q2, n, t, o)
  BY DEF Fewer, Without

(* The same for all types, one after the other.                            *)
LEMMA RemoveTypesOk ==
  ASSUME NEW bd, NEW dead, NEW q, Store(q, bd, dead), NEW n \in Nodes,
         NEW o, NEW q2, q2 = RemoveTypes(q, n, o)
  PROVE  /\ Store(q2, bd, dead)
         /\ Only(q, q2, n)
         /\ HasEntry(q2, n) <=> HasEntry(q, n)
         /\ Fewer(q, q2, n)
         /\ \A t \in Types : Without(q2, n, t, o)
<1>0. /\ "click" \in Types /\ "mouseover" \in Types
      /\ "focus" \in Types /\ "focusin" \in Types
  BY DEF Types
<1>1. PICK q3 : q3 = RemoveType(q, n, "click", o)
  OBVIOUS
<1>2. PICK q4 : q4 = RemoveType(q3, n, "mouseover", o)
  OBVIOUS
<1>3. PICK q5 : q5 = RemoveType(q4, n, "focus", o)
  OBVIOUS
<1>4. q2 = RemoveType(q5, n, "focusin", o)
  BY <1>1, <1>2, <1>3 DEF RemoveTypes
<1>5. /\ Store(q3, bd, dead) /\ Only(q, q3, n)
      /\ HasEntry(q3, n) <=> HasEntry(q, n)
      /\ Fewer(q, q3, n) /\ Without(q3, n, "click", o)
  BY <1>0, <1>1, RemoveTypeOk
<1>6. /\ Store(q4, bd, dead) /\ Only(q3, q4, n)
      /\ HasEntry(q4, n) <=> HasEntry(q3, n)
      /\ Fewer(q3, q4, n) /\ Without(q4, n, "mouseover", o)
  BY <1>0, <1>2, <1>5, RemoveTypeOk
<1>7. /\ Store(q5, bd, dead) /\ Only(q4, q5, n)
      /\ HasEntry(q5, n) <=> HasEntry(q4, n)
      /\ Fewer(q4, q5, n) /\ Without(q5, n, "focus", o)
  BY <1>0, <1>3, <1>6, RemoveTypeOk
<1>8. /\ Store(q2, bd, dead) /\ Only(q5, q2, n)
      /\ HasEntry(q2, n) <=> HasEntry(q5, n)
      /\ Fewer(q5, q2, n) /\ Without(q2, n, "focusin", o)
  BY <1>0, <1>4, <1>7, RemoveTypeOk
<1>9. Only(q, q2, n)
  BY <1>5, <1>6, <1>7, <1>8, OnlyTrans
<1>10. Fewer(q4, q2, n) /\ Fewer(q3, q2, n) /\ Fewer(q, q2, n)
  BY <1>5, <1>6, <1>7, <1>8, FewerTrans
<1>11. /\ Without(q2, n, "click", o) /\ Without(q2, n, "mouseover", o)
       /\ Without(q2, n, "focus", o) /\ Without(q2, n, "focusin", o)
  BY <1>0, <1>5, <1>6, <1>7, <1>8, <1>10, WithoutFewer
<1>12. \A t \in Types : Without(q2, n, t, o)
  BY <1>11 DEF Types
<1> QED
  BY <1>5, <1>6, <1>7, <1>8, <1>9, <1>10, <1>12

(* An entry without data and handlers goes.                                *)
LEMMA DropStore ==
  ASSUME NEW bd, NEW dead, NEW q, Store(q, bd, dead), NEW n \in Nodes,
         HasEntry(q, n), DOMAIN EventsOf(q, n) = {},
         NEW q2, q2 = DropEntry(q, n)
  PROVE  /\ Store(q2, bd, dead)
         /\ Only(q, q2, n)
         /\ ~HasEntry(q2, n)
         /\ \A t : KeptOf(q2, n, t) = {}
<1>1. q \in Jq /\ Ids(q) /\ Lists(q, bd, dead) /\ Listens(q)
  BY StoreParts
<1>2. /\ q2 \in Jq
      /\ Ids(q2)
      /\ ~HasEntry(q2, n)
      /\ Entry(q2, n) = EmptyEntry
      /\ Only(q, q2, n)
      /\ SameListeners(q, q2)
  BY <1>1, DropOk
<1>3. DOMAIN EventsOf(q2, n) = {}
  BY <1>2, EmptyEntryIn DEF EventsOf
<1>4. Lists(q2, bd, dead)
  BY <1>1, <1>2, <1>3, ListsOnly
<1>5. \A m \in Nodes : DOMAIN EventsOf(q2, m) = DOMAIN EventsOf(q, m)
  BY <1>2, <1>3, OnlyEvents
<1>6. Listens(q2)
  BY <1>1, <1>2, <1>5, ListensSame
<1>7. \A t : KeptOf(q2, n, t) = {}
  BY <1>3, KeptIs
<1> QED
  BY <1>2, <1>4, <1>6, <1>7 DEF Store

(* Handlers are kept under a type.                                         *)
LEMMA MappedIn ==
  ASSUME NEW origType \in OrigTypes, NEW delegated
  PROVE  Mapped(origType, delegated) \in Types
  BY DEF Mapped, OrigTypes, Types

(* off(): nothing that matches is left under the types looked at.          *)
LEMMA EventRemoveOk ==
  ASSUME NEW bd, NEW dead, NEW q, Store(q, bd, dead), NEW n \in Nodes,
         NEW o, o.origType \in OrigTypes \cup {"any"},
         NEW q2, q2 = EventRemove(q, n, o)
  PROVE  /\ Store(q2, bd, dead)
         /\ Only(q, q2, n)
         /\ HasEntry(q2, n) => HasEntry(q, n)
         /\ Fewer(q, q2, n)
         /\ o.origType # "any"
              => Without(q2, n, Mapped(o.origType, o.selector), o)
         /\ o.origType = "any"
              => \A t \in Types : Without(q2, n, t, [o EXCEPT !.mapped = TRUE])
<1>1. CASE ~HasEntry(q, n) \/ IsEmptyDataObject(Entry(q, n))
             \/ DOMAIN Entry(q, n).events = {}
  <2>1. q2 = q
    BY <1>1 DEF EventRemove
  <2>2. DOMAIN EventsOf(q, n) = {}
    BY <1>1, EmptyEntryIn DEF IsEmptyDataObject, EventsOf, Entry
  <2>3. \A t, p : Without(q2, n, t, p)
    BY <2>1, <2>2, KeptIs DEF Without
  <2> QED
    BY <2>1, <2>3, OnlySame
<1>2. CASE ~(~HasEntry(q, n) \/ IsEmptyDataObject(Entry(q, n))
               \/ DOMAIN Entry(q, n).events = {})
  <2>1. PICK q1 : q1 = IF o.origType = "any"
                       THEN RemoveTypes(q, n, [o EXCEPT !.mapped = TRUE])
                       ELSE RemoveType(q, n, Mapped(o.origType, o.selector), o)
    OBVIOUS
  <2>2. q2 = IF IsEmptyDataObject(Entry(q1, n)) THEN DropEntry(q1, n) ELSE q1
    BY <1>2, <2>1 DEF EventRemove, DropEmpty
  <2>3. /\ Store(q1, bd, dead)
        /\ Only(q, q1, n)
        /\ HasEntry(q1, n) <=> HasEntry(q, n)
        /\ Fewer(q, q1, n)
        /\ o.origType # "any"
             => Without(q1, n, Mapped(o.origType, o.selector), o)
        /\ o.origType = "any"
             => \A t \in Types : Without(q1, n, t, [o EXCEPT !.mapped = TRUE])
    <3>1. CASE o.origType = "any"
      <4>1. q1 = RemoveTypes(q, n, [o EXCEPT !.mapped = TRUE])
        BY <2>1, <3>1
      <4> QED
        BY <3>1, <4>1, RemoveTypesOk
    <3>2. CASE o.origType # "any"
      <4>1. Mapped(o.origType, o.selector) \in Types
        BY <3>2, MappedIn
      <4>2. q1 = RemoveType(q, n, Mapped(o.origType, o.selector), o)
        BY <2>1, <3>2
      <4> QED
        BY <3>2, <4>1, <4>2, RemoveTypeOk
    <3> QED
      BY <3>1, <3>2
  <2>4. CASE IsEmptyDataObject(Entry(q1, n))
    <3>1. q2 = DropEntry(q1, n)
      BY <2>2, <2>4
    <3>2. HasEntry(q1, n) /\ DOMAIN EventsOf(q1, n) = {}
      BY <1>2, <2>3, <2>4, EmptyEntryIn DEF IsEmptyDataObject, EventsOf
    <3>3. /\ Store(q2, bd, dead)
          /\ Only(q1, q2, n)
          /\ ~HasEntry(q2, n)
          /\ \A t : KeptOf(q2, n, t) = {}
      BY <2>3, <3>1, <3>2, DropStore
    <3>4. Only(q, q2, n)
      BY <2>3, <3>3, OnlyTrans
    <3>5. Fewer(q, q2, n) /\ \A t, p : Without(q2, n, t, p)
      BY <3>3 DEF Fewer, Without
    <3> QED
      BY <3>3, <3>4, <3>5
  <2>5. CASE ~IsEmptyDataObject(Entry(q1, n))
    BY <2>2, <2>3, <2>5
  <2> QED
    BY <2>4, <2>5
<1> QED
  BY <1>1, <1>2

(* The handlers of a node and a type are in order, there or not.           *)
LEMMA HandlersOk ==
  ASSUME NEW bd, NEW dead, NEW q, Store(q, bd, dead), NEW n \in Nodes, NEW t
  PROVE  /\ HandlersOf(q, n, t) \in ListSet
         /\ InOrder(bd, dead, n, t, HandlersOf(q, n, t))
         /\ \A b : b \in KeptOf(q, n, t) <=>
              \E k \in DOMAIN HandlersOf(q, n, t).list :
                b = HandlersOf(q, n, t).list[k]
<1>1. CASE t \in DOMAIN EventsOf(q, n)
  BY <1>1, StoreParts, KeptIs DEF ListOk
<1>2. CASE t \notin DOMAIN EventsOf(q, n)
  <2>1. HandlersOf(q, n, t) = NoHandlers /\ KeptOf(q, n, t) = {}
    BY <1>2, KeptIs
  <2>2. DOMAIN NoHandlers.list = {}
    BY NoHandlersOk
  <2> QED
    BY <2>1, <2>2, NoHandlersOk
<1> QED
  BY <1>1, <1>2

(* on(): a handler more in its list, with the listener if it is the first. *)
LEMMA EventAddOk ==
  ASSUME NEW bd, NEW dead, NEW q, Store(q, bd, dead), NEW n \in Nodes,
         NEW b \in HandlerSet, b.uid \notin dead,
         Registered(bd, n, Mapped(b.origType, b.delegated), b),
         \A t \in Types : \A c \in KeptOf(q, n, t) : c.uid # b.uid,
         NEW q2, q2 = EventAdd(q, n, b)
  PROVE  /\ Store(q2, bd, dead)
         /\ Only(q, q2, n)
         /\ HasEntry(q2, n)
         /\ \A t \in Types : KeptOf(q2, n, t) \subseteq KeptOf(q, n, t) \cup {b}
<1>1. PICK type : type = Mapped(b.origType, b.delegated)
  OBVIOUS
<1>2. type \in Types
  BY <1>1, MappedIn DEF HandlerSet
<1>3. PICK q1 : q1 = WithEntry(q, n)
  OBVIOUS
<1>4. q \in Jq /\ Ids(q) /\ Lists(q, bd, dead) /\ Listens(q)
  BY StoreParts
<1>5. /\ q1 \in Jq
      /\ Ids(q1)
      /\ HasEntry(q1, n)
      /\ \A m \in Nodes : Entry(q1, m) = Entry(q, m)
      /\ Only(q, q1, n)
      /\ SameListeners(q, q1)
  BY <1>3, <1>4, WithEntryOk
<1>6. \A m \in Nodes : EventsOf(q1, m) = EventsOf(q, m)
  BY <1>5 DEF EventsOf
<1>7. Listens(q1)
  BY <1>4, <1>5, <1>6, ListensSame
<1>8. PICK old : old = HandlersOf(q, n, type)
  OBVIOUS
<1>9. HandlersOf(q1, n, type) = old
  BY <1>6, <1>8, KeptIs
<1>10. /\ old \in ListSet /\ InOrder(bd, dead, n, type, old)
       /\ \A c : c \in KeptOf(q, n, type) <=>
            \E k \in DOMAIN old.list : c = old.list[k]
  BY <1>8, HandlersOk
<1>11. PICK hs2 :
         hs2 = IF b.delegated
               THEN [list |-> InsertAt(old.list, old.delegateCount + 1, b),
                     delegateCount |-> old.delegateCount + 1]
               ELSE [old EXCEPT !.list = Append(@, b)]
  OBVIOUS
<1>12. /\ hs2 \in ListSet
       /\ ListOk(bd, dead, n, type, hs2)
       /\ \A k \in DOMAIN hs2.list :
            \/ hs2.list[k] = b
            \/ \E j \in DOMAIN old.list : hs2.list[k] = old.list[j]
  <2>1. \A k \in DOMAIN old.list : old.list[k].uid # b.uid
    BY <1>2, <1>10
  <2>2. Registered(bd, n, type, b)
    BY <1>1
  <2> QED
    BY <1>10, <1>11, <2>1, <2>2, AddOk
<1>13. PICK qs : qs = IF type \in DOMAIN EventsOf(q, n) THEN q1
                      ELSE Setup(q1, n, type)
  OBVIOUS
<1>14. q2 = WithHandlers(qs, n, type, hs2)
  <2>1. qs = IF type \in DOMAIN Entry(q1, n).events THEN q1
             ELSE Setup(q1, n, type)
    BY <1>6, <1>13 DEF EventsOf
  <2> QED
    BY <1>1, <1>3, <1>9, <1>11, <2>1 DEF EventAdd
<1>15. /\ qs \in Jq
       /\ Ids(qs)
       /\ HasEntry(qs, n)
       /\ \A m : EventsOf(qs, m) = EventsOf(q1, m)
       /\ Only(q1, qs, n)
  <2>1. CASE type \in DOMAIN EventsOf(q, n)
    BY <1>5, <1>13, <2>1 DEF Only
  <2>2. CASE type \notin DOMAIN EventsOf(q, n)
    <3>1. /\ qs \in Jq
          /\ qs.id = q1.id
          /\ qs.cache = q1.cache
          /\ qs.deletedIds = q1.deletedIds
          /\ qs.guid = q1.guid
      BY <1>2, <1>5, <1>13, <2>2, SetupFields
    <3>2. \A m : /\ Entry(qs, m) = Entry(q1, m)
                 /\ EventsOf(qs, m) = EventsOf(q1, m)
                 /\ HasEntry(qs, m) <=> HasEntry(q1, m)
      BY <3>1, EntriesSame
    <3>3. Ids(qs)
      BY <1>5, <3>1, IdsSame
    <3> QED
      BY <1>5, <3>1, <3>2, <3>3 DEF Only
  <2> QED
    BY <2>1, <2>2
<1>16. /\ q2 \in Jq
       /\ Ids(q2)
       /\ HasEntry(q2, n)
       /\ Only(qs, q2, n)
       /\ SameListeners(qs, q2)
       /\ DOMAIN EventsOf(q2, n) = DOMAIN EventsOf(qs, n) \cup {type}
       /\ EventsOf(q2, n)[type] = hs2
       /\ \A s \in DOMAIN EventsOf(qs, n) \ {type} :
            EventsOf(q2, n)[s] = EventsOf(qs, n)[s]
  <2>1. qs \in Jq /\ Ids(qs) /\ HasEntry(qs, n) /\ hs2 \in ListSet
    BY <1>12, <1>15
  <2> QED
    BY <1>2, <1>14, <2>1, WithHandlersOk
<1>17. Only(q, q2, n)
  BY <1>5, <1>15, <1>16, OnlyTrans
<1>18. /\ DOMAIN EventsOf(q2, n) = DOMAIN EventsOf(q, n) \cup {type}
       /\ \A s \in DOMAIN EventsOf(q, n) \ {type} :
            EventsOf(q2, n)[s] = EventsOf(q, n)[s]
       /\ \A m \in Nodes \ {n} : DOMAIN EventsOf(q2, m) = DOMAIN EventsOf(q, m)
  BY <1>6, <1>15, <1>16, <1>17, OnlyEvents
<1>19. Lists(q2, bd, dead)
  <2>1. ASSUME NEW s \in DOMAIN EventsOf(q2, n)
        PROVE  ListOk(bd, dead, n, s, EventsOf(q2, n)[s])
    <3>1. CASE s = type
      BY <1>12, <1>16, <3>1
    <3>2. CASE s # type
      BY <1>18, <3>2, StoreParts
    <3> QED
      BY <3>1, <3>2
  <2> QED
    BY <1>4, <1>17, <2>1, ListsOnly
<1>20. Listens(q2)
  <2>1. CASE type \in DOMAIN EventsOf(q, n)
    <3>1. \A m \in Nodes : DOMAIN EventsOf(q2, m) = DOMAIN EventsOf(q1, m)
      BY <1>6, <1>18, <2>1
    <3>2. SameListeners(q1, q2)
      BY <1>13, <1>16, <2>1
    <3> QED
      BY <1>7, <3>1, <3>2, ListensSame
  <2>2. CASE type \notin DOMAIN EventsOf(q, n)
    <3>1. qs = Setup(q1, n, type)
      BY <1>13, <2>2
    <3>2. type \notin DOMAIN EventsOf(q1, n)
      BY <1>6, <2>2
    <3>3. /\ \A m \in Nodes \ {n} :
               DOMAIN EventsOf(q2, m) = DOMAIN EventsOf(q1, m)
          /\ DOMAIN EventsOf(q2, n) = DOMAIN EventsOf(q1, n) \cup {type}
      BY <1>6, <1>18
    <3> QED
      BY <1>2, <1>5, <1>7, <1>16, <3>1, <3>2, <3>3, ListensSetup
  <2> QED
    BY <2>1, <2>2
<1>21. ASSUME NEW t \in Types
       PROVE  KeptOf(q2, n, t) \subseteq KeptOf(q, n, t) \cup {b}
  <2>1. CASE t = type
    <3>1. \A c : c \in KeptOf(q2, n, t) <=>
            \E k \in DOMAIN hs2.list : c = hs2.list[k]
      BY <1>16, <1>18, <2>1, KeptIs
    <3> QED
      BY <1>10, <1>12, <2>1, <3>1
  <2>2. CASE t # type
    <3>1. t \in DOMAIN EventsOf(q2, n) <=> t \in DOMAIN EventsOf(q, n)
      BY <1>18, <2>2
    <3>2. t \in DOMAIN EventsOf(q, n) =>
            EventsOf(q2, n)[t] = EventsOf(q, n)[t]
      BY <1>18, <2>2
    <3> QED
      BY <3>1, <3>2, KeptSame
  <2> QED
    BY <2>1, <2>2
<1> QED
  BY <1>16, <1>17, <1>19, <1>20, <1>21 DEF Store

(***************************************************************************)
(* cleanData                                                               *)
(***************************************************************************)
LEMMA OffAllOk ==
  ASSUME NEW type \in {"click", "focus", "focusin"}
  PROVE  /\ OffAll(type).origType \in OrigTypes \cup {"any"}
         /\ OffAll(type).origType = type
         /\ ~OffAll(type).selector
         /\ type # "any"
         /\ type \in Types
         /\ type \in SpecialTypes
         /\ Mapped(type, FALSE) = type
         /\ \A b : Matches(b, OffAll(type)) <=> b.origType = type
<1>1. /\ type # "any" /\ type \in Types /\ type \in SpecialTypes
      /\ Mapped(type, FALSE) = type
  BY DEF Types, SpecialTypes, Mapped
<1>2. /\ OffAll(type).origType = type
      /\ OffAll(type).handler = "any"
      /\ OffAll(type).ns = "any"
      /\ OffAll(type).selector = FALSE
      /\ OffAll(type).mapped = FALSE
  BY DEF OffAll
<1>3. OffAll(type).origType \in OrigTypes \cup {"any"}
  BY <1>2 DEF OrigTypes
<1>4. ASSUME NEW b
      PROVE  Matches(b, OffAll(type)) <=> b.origType = type
  BY <1>2, Zenon DEF Matches
<1> QED
  BY <1>1, <1>2, <1>3, <1>4

(* cleanData of a special type: its handlers go. Those of a mapped type    *)
(* are left to cleanData of the type they are kept under.                  *)
LEMMA CleanSpecialOk ==
  ASSUME NEW bd, NEW dead, NEW q, Store(q, bd, dead), NEW n \in Nodes,
         NEW type \in {"click", "focus", "focusin"},
         NEW q2, q2 = CleanType(q, n, type)
  PROVE  /\ Store(q2, bd, dead)
         /\ Only(q, q2, n)
         /\ HasEntry(q2, n) => HasEntry(q, n)
         /\ Fewer(q, q2, n)
         /\ type # "focusin" => type \notin DOMAIN EventsOf(q2, n)
<1>1. CASE type \notin DOMAIN EventsOf(q, n)
  <2>1. q2 = q
    BY <1>1 DEF CleanType, EventsOf
  <2> QED
    BY <1>1, <2>1, OnlySame
<1>2. CASE type \in DOMAIN EventsOf(q, n)
  <2>1. q2 = EventRemove(q, n, OffAll(type))
    BY <1>2, OffAllOk DEF CleanType, EventsOf
  <2>2. PICK o : /\ o = OffAll(type)
                /\ o.origType \in OrigTypes \cup {"any"}
    BY OffAllOk
  <2>3. /\ Store(q2, bd, dead)
        /\ Only(q, q2, n)
        /\ HasEntry(q2, n) => HasEntry(q, n)
        /\ Fewer(q, q2, n)
        /\ o.origType # "any"
             => Without(q2, n, Mapped(o.origType, o.selector), o)
    BY <2>1, <2>2, EventRemoveOk
  <2>4. Mapped(o.origType, o.selector) = type /\ o.origType # "any"
    BY <2>2, OffAllOk DEF Mapped
  <2>5. Without(q2, n, type, o)
    BY <2>3, <2>4
  <2>6. ASSUME type # "focusin", type \in DOMAIN EventsOf(q2, n)
        PROVE  FALSE
    <3>1. PICK hs : hs = EventsOf(q2, n)[type]
      OBVIOUS
    <3>2. hs \in ListSet /\ hs.list # <<>> /\ InOrder(bd, dead, n, type, hs)
      BY <2>3, <2>6, <3>1, StoreParts DEF ListOk
    <3>3. 1 \in DOMAIN hs.list /\ hs.list[1] \in HandlerSet
      <4>1. hs.list \in Seq(HandlerSet)
        BY <3>2 DEF ListSet
      <4>2. Len(hs.list) \in Nat /\ Len(hs.list) # 0
              /\ DOMAIN hs.list = 1..Len(hs.list)
        BY <3>2, <4>1, LenProperties, EmptySeq
      <4> QED
        BY <4>1, <4>2, ElementOfSeq
    <3>4. PICK b : b = hs.list[1]
      OBVIOUS
    <3>5. b \in KeptOf(q2, n, type)
      BY <2>6, <3>1, <3>3, <3>4, KeptIs
    <3>6. Mapped(b.origType, b.delegated) = type /\ b.origType \in OrigTypes
      BY <3>2, <3>3, <3>4 DEF InOrder, Registered, HandlerSet
    <3>7. b.origType = type
      BY <2>6, <3>6 DEF Mapped, OrigTypes
    <3> QED
      BY <2>2, <2>5, <3>5, <3>7, OffAllOk DEF Without
  <2> QED
    BY <2>3, <2>6
<1> QED
  BY <1>1, <1>2

(* With the last handler the list has gone.                                *)
LEMMA KeptEmpty ==
  ASSUME NEW bd, NEW dead, NEW q, Store(q, bd, dead), NEW n \in Nodes, NEW t,
         KeptOf(q, n, t) = {}
  PROVE  t \notin DOMAIN EventsOf(q, n)
<1>1. SUFFICES ASSUME t \in DOMAIN EventsOf(q, n) PROVE FALSE
  OBVIOUS
<1>2. PICK hs : hs = EventsOf(q, n)[t]
  OBVIOUS
<1>3. hs \in ListSet /\ hs.list # <<>>
  BY <1>1, <1>2, StoreParts DEF ListOk
<1>4. 1 \in DOMAIN hs.list
  <2>1. hs.list \in Seq(HandlerSet)
    BY <1>3 DEF ListSet
  <2>2. /\ Len(hs.list) \in Nat /\ Len(hs.list) # 0
        /\ DOMAIN hs.list = 1..Len(hs.list)
    BY <1>3, <2>1, LenProperties, EmptySeq
  <2> QED
    BY <2>2
<1>5. hs.list[1] \in KeptOf(q, n, t)
  BY <1>1, <1>2, <1>4, KeptIs
<1> QED
  BY <1>5

(* cleanData: the node has no entry afterwards, and no listener.           *)
LEMMA CleanDataOk ==
  ASSUME NEW bd, NEW dead, NEW q, Store(q, bd, dead), NEW n \in Nodes,
         NEW q2, q2 = CleanData(q, n)
  PROVE  /\ Store(q2, bd, dead)
         /\ Only(q, q2, n)
         /\ ~HasEntry(q2, n)
<1>1. PICK q3 : q3 = CleanType(q, n, "click")
  OBVIOUS
<1>2. PICK q4 : q4 = CleanType(q3, n, "focus")
  OBVIOUS
<1>3. PICK q5 : q5 = CleanType(q4, n, "focusin")
  OBVIOUS
<1>4. PICK q6 : q6 = CleanType(q5, n, "mouseover")
  OBVIOUS
<1>5. q2 = IF HasEntry(q6, n) THEN DropEntry(q6, n) ELSE q6
  BY <1>1, <1>2, <1>3, <1>4 DEF CleanData, DropKept
<1>6. /\ Store(q3, bd, dead) /\ Only(q, q3, n)
      /\ "click" \notin DOMAIN EventsOf(q3, n)
  BY <1>1, CleanSpecialOk
<1>7. /\ Store(q4, bd, dead) /\ Only(q3, q4, n)
      /\ "focus" \notin DOMAIN EventsOf(q4, n)
      /\ Fewer(q3, q4, n)
  BY <1>2, <1>6, CleanSpecialOk
<1>8. /\ Store(q5, bd, dead) /\ Only(q4, q5, n)
      /\ Fewer(q4, q5, n)
  BY <1>3, <1>7, CleanSpecialOk
<1>9. Only(q, q5, n)
  BY <1>6, <1>7, <1>8, OnlyTrans
<1>10. q5 \in Jq /\ Ids(q5) /\ Lists(q5, bd, dead) /\ Listens(q5)
  BY <1>8, StoreParts
<1>11. /\ "click" \notin DOMAIN EventsOf(q5, n)
       /\ "focus" \notin DOMAIN EventsOf(q5, n)
  <2>1. \A t : KeptOf(q5, n, t) = {} => t \notin DOMAIN EventsOf(q5, n)
    BY <1>8, KeptEmpty
  <2>2. /\ KeptOf(q3, n, "click") = {}
        /\ KeptOf(q4, n, "focus") = {}
    BY <1>6, <1>7, KeptIs
  <2>3. "click" \in Types /\ "focus" \in Types
    BY DEF Types
  <2>4. /\ KeptOf(q5, n, "click") = {}
        /\ KeptOf(q5, n, "focus") = {}
    BY <1>7, <1>8, <2>2, <2>3 DEF Fewer
  <2> QED
    BY <2>1, <2>4
<1>12. CASE "mouseover" \notin DOMAIN EventsOf(q5, n) /\ ~HasEntry(q5, n)
  <2>1. q6 = q5
    BY <1>4, <1>12 DEF CleanType, EventsOf
  <2> QED
    BY <1>5, <1>8, <1>9, <1>12, <2>1
<1>13. CASE HasEntry(q5, n)
  <2>1. /\ q6 \in Jq /\ q6.id = q5.id /\ q6.cache = q5.cache
        /\ q6.deletedIds = q5.deletedIds /\ q6.guid = q5.guid
        /\ q6.attaches = q5.attaches /\ q6.capture = q5.capture
        /\ q6.listening = q5.listening \ {<<n, "mouseover">>}
    <3>1. CASE "mouseover" \in DOMAIN EventsOf(q5, n)
      <4>1. "mouseover" \notin SpecialTypes
        BY DEF SpecialTypes
      <4>2. q6 = [q5 EXCEPT !.listening = @ \ {<<n, "mouseover">>}]
        BY <1>4, <3>1, <4>1 DEF CleanType, EventsOf
      <4>3. PICK l \in SUBSET (Nodes \X Types) :
              l = q5.listening \ {<<n, "mouseover">>}
        BY <1>10, JqFields
      <4>4. q6 = [q5 EXCEPT !.listening = l]
        BY <1>10, <4>2, <4>3 DEF Jq
      <4> QED
        BY <1>10, <4>3, <4>4 DEF Jq
    <3>2. CASE "mouseover" \notin DOMAIN EventsOf(q5, n)
      <4>1. q6 = q5
        BY <1>4, <3>2 DEF CleanType, EventsOf
      <4>2. <<n, "mouseover">> \notin q5.listening
        BY <1>10, <3>2 DEF Listens, Types
      <4> QED
        BY <1>10, <4>1, <4>2
    <3> QED
      BY <3>1, <3>2
  <2>2. \A m : /\ Entry(q6, m) = Entry(q5, m)
               /\ EventsOf(q6, m) = EventsOf(q5, m)
               /\ HasEntry(q6, m) <=> HasEntry(q5, m)
    BY <2>1, EntriesSame
  <2>3. Ids(q6)
    BY <1>10, <2>1, IdsSame
  <2>4. HasEntry(q6, n) /\ q2 = DropEntry(q6, n)
    BY <1>5, <1>13, <2>2
  <2>5. /\ q2 \in Jq
        /\ Ids(q2)
        /\ ~HasEntry(q2, n)
        /\ Entry(q2, n) = EmptyEntry
        /\ Only(q6, q2, n)
        /\ SameListeners(q6, q2)
    BY <2>1, <2>3, <2>4, DropOk
  <2>6. Only(q5, q2, n)
    BY <2>2, <2>5 DEF Only
  <2>7. Only(q, q2, n)
    BY <1>9, <2>6, OnlyTrans
  <2>8. DOMAIN EventsOf(q2, n) = {}
    BY <2>5, EmptyEntryIn DEF EventsOf
  <2>9. Lists(q2, bd, dead)
    BY <1>10, <2>6, <2>8, ListsOnly
  <2>10. q2.attaches = q5.attaches /\ q2.capture = q5.capture
    BY <2>1, <2>5 DEF SameListeners
  <2>11. q2.listening = q5.listening \ {<<n, "mouseover">>}
    BY <2>1, <2>5 DEF SameListeners
  <2>12. \A t \in Types \ {"focusin"} : <<n, t>> \notin q2.listening
    <3>1. \A t \in {"click", "focus"} : <<n, t>> \notin q5.listening
      BY <1>10, <1>11 DEF Listens, Types
    <3> QED
      BY <2>11, <3>1 DEF Types
  <2>13. \A m \in Nodes \ {n}, t \in Types :
           <<m, t>> \in q2.listening <=> <<m, t>> \in q5.listening
    BY <2>11
  <2>14. \A m \in Nodes \ {n} :
           DOMAIN EventsOf(q2, m) = DOMAIN EventsOf(q5, m)
    BY <2>6, OnlyEvents
  <2>15. Listens(q2)
    BY <1>10, <2>8, <2>10, <2>12, <2>13, <2>14, ListensDrop
  <2> QED
    BY <2>5, <2>7, <2>9, <2>15 DEF Store
<1> QED
  BY <1>8, <1>12, <1>13, StoreParts

(***************************************************************************)
(* cleanData of one node after the other                                   *)
(***************************************************************************)
AnyOf(s) == CHOOSE n \in s : TRUE
CleanStep(f, s, q) ==
  IF s = {} THEN q ELSE CleanData(f[s \ {AnyOf(s)}], AnyOf(s))
CleanUpTo(f, ns, q, k) ==
  f = [s \in {s \in SUBSET ns : Cardinality(s) <= k} |-> CleanStep(f, s, q)]

(* A set without one of its elements.                                      *)
LEMMA Smaller ==
  ASSUME NEW ns, IsFiniteSet(ns), NEW s \in SUBSET ns
  PROVE  /\ IsFiniteSet(s)
         /\ Cardinality(s) \in Nat
         /\ Cardinality(s) <= Cardinality(ns)
         /\ s = {} <=> Cardinality(s) = 0
         /\ \A x \in s : /\ s \ {x} \in SUBSET ns
                         /\ Cardinality(s \ {x}) = Cardinality(s) - 1
<1>1. IsFiniteSet(s) /\ Cardinality(s) <= Cardinality(ns)
  BY FS_Subset
<1>2. Cardinality(s) \in Nat
  BY <1>1, FS_CardinalityType
<1>3. s = {} <=> Cardinality(s) = 0
  BY <1>1, FS_EmptySet
<1>4. ASSUME NEW x \in s
      PROVE  /\ s \ {x} \in SUBSET ns
             /\ Cardinality(s \ {x}) = Cardinality(s) - 1
  BY <1>1, FS_RemoveElement
<1> QED
  BY <1>1, <1>2, <1>3, <1>4

(* The function that FoldSet defines by recursion exists for sets of up to *)
(* m nodes.                                                                *)
LEMMA CleanExists ==
  ASSUME NEW ns, IsFiniteSet(ns), NEW q, NEW m \in Nat
  PROVE  \E f : CleanUpTo(f, ns, q, m)
<1> DEFINE S == {k \in Nat : \E f : CleanUpTo(f, ns, q, k)}
<1>1. 0 \in S
  <2> DEFINE D == {s \in SUBSET ns : Cardinality(s) <= 0}
             g == [s \in D |-> q]
  <2>1. \A s \in D : s = {}
    BY Smaller
  <2>2. \A s \in D : g[s] = CleanStep(g, s, q)
    BY <2>1 DEF CleanStep
  <2>3. g = [s \in D |-> CleanStep(g, s, q)]
    BY <2>2
  <2>4. CleanUpTo(g, ns, q, 0)
    BY <2>3 DEF CleanUpTo
  <2> QED
    BY <2>4
<1>2. ASSUME NEW n \in Nat, n \in S PROVE n + 1 \in S
  <2>1. PICK f : CleanUpTo(f, ns, q, n)
    BY <1>2
  <2> DEFINE D == {s \in SUBSET ns : Cardinality(s) <= n}
             D2 == {s \in SUBSET ns : Cardinality(s) <= n + 1}
             g == [s \in D2 |-> IF s \in D THEN f[s] ELSE CleanStep(f, s, q)]
  <2>2. \A s \in D : f[s] = CleanStep(f, s, q)
    BY <2>1 DEF CleanUpTo
  <2>3. ASSUME NEW s \in D2
        PROVE  /\ g[s] = CleanStep(f, s, q)
               /\ CleanStep(g, s, q) = CleanStep(f, s, q)
    <3>1. g[s] = CleanStep(f, s, q)
      BY <2>2
    <3>2. CASE s = {}
      BY <3>1, <3>2 DEF CleanStep
    <3>3. CASE s # {}
      <4>1. AnyOf(s) \in s
        BY <3>3 DEF AnyOf
      <4>2. PICK r : r = s \ {AnyOf(s)}
        OBVIOUS
      <4>3. r \in SUBSET ns /\ Cardinality(r) = Cardinality(s) - 1
              /\ Cardinality(s) \in Nat /\ Cardinality(s) <= n + 1
        BY <4>1, <4>2, Smaller
      <4>4. r \in D /\ r \in D2
        BY <4>3
      <4>5. g[r] = f[r]
        BY <4>4
      <4> QED
        BY <3>1, <4>2, <4>5 DEF CleanStep
    <3> QED
      BY <3>2, <3>3
  <2>4. g = [s \in D2 |-> CleanStep(g, s, q)]
    BY <2>3
  <2>5. CleanUpTo(g, ns, q, n + 1)
    BY <2>4 DEF CleanUpTo
  <2> QED
    BY <2>5
<1>3. \A n \in Nat : n \in S
  <2> HIDE DEF S
  <2> QED
    BY <1>1, <1>2, NatSetInduction
<1> QED
  BY <1>3

(* So CleanAll may be followed node by node.                               *)
LEMMA CleanSteps ==
  ASSUME NEW ns, IsFiniteSet(ns), NEW q
  PROVE  \E f : /\ \A s \in SUBSET ns : f[s] = CleanStep(f, s, q)
                /\ CleanAll(q, ns) = f[ns]
<1> DEFINE it == CHOOSE f : f = [s \in SUBSET ns |-> CleanStep(f, s, q)]
<1>1. \E f : f = [s \in SUBSET ns |-> CleanStep(f, s, q)]
  <2>1. Cardinality(ns) \in Nat
    BY FS_CardinalityType
  <2>2. PICK f : CleanUpTo(f, ns, q, Cardinality(ns))
    BY <2>1, CleanExists
  <2>3. {s \in SUBSET ns : Cardinality(s) <= Cardinality(ns)} = SUBSET ns
    BY Smaller
  <2>4. f = [s \in SUBSET ns |-> CleanStep(f, s, q)]
    BY <2>2, <2>3 DEF CleanUpTo
  <2> QED
    BY <2>4
<1>2. it = [s \in SUBSET ns |-> CleanStep(it, s, q)]
  BY <1>1
<1>3. CleanAll(q, ns) = it[ns]
  BY DEF CleanAll, FoldSet, MapThenFoldSet, CleanStep, AnyOf
<1> HIDE DEF it
<1>4. \A s \in SUBSET ns : it[s] = CleanStep(it, s, q)
  BY <1>2
<1> QED
  BY <1>3, <1>4

(* Nothing but the entries of the nodes S has changed, listeners aside.    *)
OnlyIn(q, q2, S) ==
  \A m \in Nodes \ S : /\ Entry(q2, m) = Entry(q, m)
                       /\ HasEntry(q2, m) <=> HasEntry(q, m)
Cleaned(q, q2, S, bd, dead) ==
  /\ Store(q2, bd, dead)
  /\ OnlyIn(q, q2, S)
  /\ \A n \in S : ~HasEntry(q2, n)

(* CleanAll: the nodes have no entries afterwards, and the others' are as  *)
(* they were.                                                              *)
LEMMA CleanAllOk ==
  ASSUME NEW bd, NEW dead, NEW q, Store(q, bd, dead),
         NEW ns \in SUBSET Nodes, NEW q2, q2 = CleanAll(q, ns)
  PROVE  Cleaned(q, q2, ns, bd, dead)
<1>1. IsFiniteSet(ns) /\ Cardinality(ns) \in Nat
  BY NodesFinite, FS_Subset, FS_CardinalityType
<1>2. PICK f : /\ \A s \in SUBSET ns : f[s] = CleanStep(f, s, q)
               /\ q2 = f[ns]
  BY <1>1, CleanSteps
<1> DEFINE T == {k \in Nat : \A s \in SUBSET ns :
                   Cardinality(s) = k => Cleaned(q, f[s], s, bd, dead)}
<1>3. 0 \in T
  <2>1. ASSUME NEW s \in SUBSET ns, Cardinality(s) = 0
        PROVE  Cleaned(q, f[s], s, bd, dead)
    <3>1. s = {}
      BY <1>1, <2>1, Smaller
    <3>2. f[s] = q
      BY <1>2, <3>1 DEF CleanStep
    <3> QED
      BY <3>1, <3>2 DEF Cleaned, OnlyIn
  <2> QED
    BY <2>1
<1>4. ASSUME NEW k \in Nat, k \in T PROVE k + 1 \in T
  <2>1. ASSUME NEW s \in SUBSET ns, Cardinality(s) = k + 1
        PROVE  Cleaned(q, f[s], s, bd, dead)
    <3>1. s # {}
      BY <1>1, <2>1, Smaller
    <3>2. PICK n : n = AnyOf(s)
      OBVIOUS
    <3>3. n \in s /\ n \in Nodes
      BY <3>1, <3>2 DEF AnyOf
    <3>4. PICK r : r = s \ {n}
      OBVIOUS
    <3>5. r \in SUBSET ns /\ Cardinality(r) = k
      BY <1>1, <2>1, <3>3, <3>4, Smaller
    <3>6. Cleaned(q, f[r], r, bd, dead)
      BY <1>4, <3>5
    <3>7. f[s] = CleanData(f[r], n)
      BY <1>2, <3>1, <3>2, <3>4 DEF CleanStep
    <3>8. PICK p : p = f[r]
      OBVIOUS
    <3>9. /\ Store(f[s], bd, dead)
          /\ Only(p, f[s], n)
          /\ ~HasEntry(f[s], n)
      BY <3>3, <3>6, <3>7, <3>8, CleanDataOk DEF Cleaned
    <3>10. OnlyIn(q, f[s], s)
      BY <3>3, <3>4, <3>6, <3>8, <3>9 DEF Cleaned, OnlyIn, Only
    <3>11. \A m \in s : ~HasEntry(f[s], m)
      <4>1. s \subseteq Nodes
        OBVIOUS
      <4> QED
        BY <3>4, <3>6, <3>8, <3>9, <4>1 DEF Cleaned, Only
    <3> QED
      BY <3>9, <3>10, <3>11 DEF Cleaned
  <2> QED
    BY <2>1
<1>5. \A k \in Nat : k \in T
  <2> HIDE DEF T
  <2> QED
    BY <1>3, <1>4, NatSetInduction
<1>6. Cardinality(ns) \in T
  BY <1>1, <1>5
<1> QED
  BY <1>2, <1>6

(***************************************************************************)
(* jQuery.event.add of one handler after the other                         *)
(***************************************************************************)
CopyStep(f, s, q, n, seq) ==
  IF s = {} THEN q ELSE EventAdd(f[s \ {Max(s)}], n, seq[Max(s)])
CopyUpTo(f, ns, q, n, seq, k) ==
  f = [s \in {s \in SUBSET ns : Cardinality(s) <= k} |->
         CopyStep(f, s, q, n, seq)]

(* Max is the greatest of some numbers.                                    *)
LEMMA MaxIn ==
  ASSUME NEW m \in Nat
  PROVE  \A s \in SUBSET (1..m) : s # {} =>
           Max(s) \in s /\ \A y \in s : Max(s) >= y
<1> DEFINE S == {k \in Nat : \A s \in SUBSET (1..k) :
                   s # {} => \E x \in s : \A y \in s : x >= y}
<1>1. 0 \in S
  <2>1. 1..0 = {}
    OBVIOUS
  <2> QED
    BY <2>1
<1>2. ASSUME NEW k \in Nat, k \in S PROVE k + 1 \in S
  <2>1. ASSUME NEW s \in SUBSET (1..(k + 1)), s # {}
        PROVE  \E x \in s : \A y \in s : x >= y
    <3>1. CASE k + 1 \in s
      <4>1. \A y \in s : k + 1 >= y
        OBVIOUS
      <4> QED
        BY <3>1, <4>1
    <3>2. CASE k + 1 \notin s
      <4>1. s \in SUBSET (1..k)
        BY <3>2
      <4> QED
        BY <1>2, <2>1, <4>1
    <3> QED
      BY <3>1, <3>2
  <2> QED
    BY <2>1
<1>3. m \in S
  <2> HIDE DEF S
  <2> QED
    BY <1>1, <1>2, NatSetInduction
<1>4. ASSUME NEW s \in SUBSET (1..m), s # {}
      PROVE  Max(s) \in s /\ \A y \in s : Max(s) >= y
  <2>1. \E x \in s : \A y \in s : x >= y
    BY <1>3, <1>4
  <2> QED
    BY <2>1 DEF Max
<1> QED
  BY <1>4

(* The greatest of the numbers up to k + 1.                                *)
LEMMA MaxUpTo ==
  ASSUME NEW k \in Nat
  PROVE  Max(1..(k + 1)) = k + 1 /\ (1..(k + 1)) \ {k + 1} = 1..k
<1>1. k + 1 \in 1..(k + 1) /\ k + 1 \in Nat
  OBVIOUS
<1>2. /\ Max(1..(k + 1)) \in 1..(k + 1)
      /\ \A y \in 1..(k + 1) : Max(1..(k + 1)) >= y
  BY <1>1, MaxIn
<1>3. PICK x : x = Max(1..(k + 1))
  OBVIOUS
<1>4. x \in 1..(k + 1) /\ x >= k + 1
  BY <1>1, <1>2, <1>3
<1>5. x = k + 1
  BY <1>4
<1>6. (1..(k + 1)) \ {k + 1} = 1..k
  OBVIOUS
<1> QED
  BY <1>3, <1>5, <1>6

(* The function that FoldLeft defines by recursion exists for so many      *)
(* handlers.                                                               *)
LEMMA CopyExists ==
  ASSUME NEW ns, IsFiniteSet(ns), \A s \in SUBSET ns : s # {} => Max(s) \in s,
         NEW q, NEW e, NEW seq, NEW m \in Nat
  PROVE  \E f : CopyUpTo(f, ns, q, e, seq, m)
<1> DEFINE S == {k \in Nat : \E f : CopyUpTo(f, ns, q, e, seq, k)}
<1>1. 0 \in S
  <2> DEFINE D == {s \in SUBSET ns : Cardinality(s) <= 0}
             g == [s \in D |-> q]
  <2>1. \A s \in D : s = {}
    BY Smaller
  <2>2. \A s \in D : g[s] = CopyStep(g, s, q, e, seq)
    BY <2>1 DEF CopyStep
  <2>3. g = [s \in D |-> CopyStep(g, s, q, e, seq)]
    BY <2>2
  <2>4. CopyUpTo(g, ns, q, e, seq, 0)
    BY <2>3 DEF CopyUpTo
  <2> QED
    BY <2>4
<1>2. ASSUME NEW n \in Nat, n \in S PROVE n + 1 \in S
  <2>1. PICK f : CopyUpTo(f, ns, q, e, seq, n)
    BY <1>2
  <2> DEFINE D == {s \in SUBSET ns : Cardinality(s) <= n}
             D2 == {s \in SUBSET ns : Cardinality(s) <= n + 1}
             g == [s \in D2 |-> IF s \in D THEN f[s]
                                ELSE CopyStep(f, s, q, e, seq)]
  <2>2. \A s \in D : f[s] = CopyStep(f, s, q, e, seq)
    BY <2>1 DEF CopyUpTo
  <2>3. ASSUME NEW s \in D2
        PROVE  /\ g[s] = CopyStep(f, s, q, e, seq)
               /\ CopyStep(g, s, q, e, seq) = CopyStep(f, s, q, e, seq)
    <3>1. g[s] = CopyStep(f, s, q, e, seq)
      BY <2>2
    <3>2. CASE s = {}
      BY <3>1, <3>2 DEF CopyStep
    <3>3. CASE s # {}
      <4>1. Max(s) \in s
        BY <3>3
      <4>2. PICK r : r = s \ {Max(s)}
        OBVIOUS
      <4>3. r \in SUBSET ns /\ Cardinality(r) = Cardinality(s) - 1
              /\ Cardinality(s) \in Nat /\ Cardinality(s) <= n + 1
        BY <4>1, <4>2, Smaller
      <4>4. r \in D /\ r \in D2
        BY <4>3
      <4>5. g[r] = f[r]
        BY <4>4
      <4> QED
        BY <3>1, <4>2, <4>5 DEF CopyStep
    <3> QED
      BY <3>2, <3>3
  <2>4. g = [s \in D2 |-> CopyStep(g, s, q, e, seq)]
    BY <2>3
  <2>5. CopyUpTo(g, ns, q, e, seq, n + 1)
    BY <2>4 DEF CopyUpTo
  <2> QED
    BY <2>5
<1>3. \A n \in Nat : n \in S
  <2> HIDE DEF S
  <2> QED
    BY <1>1, <1>2, NatSetInduction
<1> QED
  BY <1>3

CopyRun(f, q, n, seq) ==
  /\ f[{}] = q
  /\ \A k \in 0..(Len(seq) - 1) :
       f[1..(k + 1)] = EventAdd(f[1..k], n, seq[k + 1])
  /\ CopyAll(q, n, seq) = f[1..Len(seq)]

(* So CopyAll may be followed handler by handler.                          *)
LEMMA CopySteps ==
  ASSUME NEW seq, Len(seq) \in Nat, DOMAIN seq = 1..Len(seq), NEW q, NEW n
  PROVE  \E f : CopyRun(f, q, n, seq)
<1> DEFINE ns == 1..Len(seq)
           it == CHOOSE f : f = [s \in SUBSET ns |-> CopyStep(f, s, q, n, seq)]
<1>0. IsFiniteSet(ns)
  BY FS_Interval
<1>1. \E f : f = [s \in SUBSET ns |-> CopyStep(f, s, q, n, seq)]
  <2>1. Cardinality(ns) \in Nat
    BY <1>0, FS_CardinalityType
  <2>2. PICK f : CopyUpTo(f, ns, q, n, seq, Cardinality(ns))
    <3>1. \A s \in SUBSET ns : s # {} => Max(s) \in s
      BY MaxIn
    <3> HIDE DEF ns
    <3> QED
      BY <1>0, <2>1, <3>1, CopyExists
  <2>3. {s \in SUBSET ns : Cardinality(s) <= Cardinality(ns)} = SUBSET ns
    BY <1>0, Smaller
  <2>4. f = [s \in SUBSET ns |-> CopyStep(f, s, q, n, seq)]
    BY <2>2, <2>3 DEF CopyUpTo
  <2> QED
    BY <2>4
<1>2. it = [s \in SUBSET ns |-> CopyStep(it, s, q, n, seq)]
  BY <1>1
<1>3. CopyAll(q, n, seq) = it[ns]
  BY DEF CopyAll, FoldLeft, MapThenFoldSet, CopyStep
<1> HIDE DEF it
<1>4. \A s \in SUBSET ns : it[s] = CopyStep(it, s, q, n, seq)
  BY <1>2
<1>5. it[{}] = q
  BY <1>4 DEF CopyStep
<1>6. ASSUME NEW k \in 0..(Len(seq) - 1)
      PROVE  it[1..(k + 1)] = EventAdd(it[1..k], n, seq[k + 1])
  <2>1. 1..(k + 1) \in SUBSET ns /\ 1..(k + 1) # {}
    <3>1. k \in Nat /\ k + 1 <= Len(seq) /\ k + 1 >= 1
      OBVIOUS
    <3>2. 1 \in 1..(k + 1)
      BY <3>1
    <3>3. \A x \in 1..(k + 1) : x \in 1..Len(seq)
      BY <3>1
    <3> QED
      BY <3>2, <3>3
  <2>2. Max(1..(k + 1)) = k + 1 /\ (1..(k + 1)) \ {k + 1} = 1..k
    <3>1. k \in Nat
      OBVIOUS
    <3> QED
      BY <3>1, MaxUpTo
  <2> QED
    BY <1>4, <2>1, <2>2 DEF CopyStep
<1>7. CopyRun(it, q, n, seq)
  BY <1>3, <1>5, <1>6 DEF CopyRun
<1> QED
  BY <1>7

(* What is kept is right when more was bound.                              *)
LEMMA StoreLonger ==
  ASSUME NEW bd, NEW bd2, NEW dead, NEW q, Store(q, bd, dead),
         \A u \in DOMAIN bd : u \in DOMAIN bd2 /\ bd2[u] = bd[u]
  PROVE  Store(q, bd2, dead)
<1>1. \A n, t, b : Registered(bd, n, t, b) => Registered(bd2, n, t, b)
  BY DEF Registered
<1>2. \A n, t, hs : ListOk(bd, dead, n, t, hs) => ListOk(bd2, dead, n, t, hs)
  BY <1>1 DEF ListOk, InOrder
<1> QED
  BY <1>2 DEF Store, Lists

(* WithEntry keeps Store.                                                  *)
LEMMA WithEntryStore ==
  ASSUME NEW bd, NEW dead, NEW q, Store(q, bd, dead), NEW n \in Nodes,
         NEW q2, q2 = WithEntry(q, n)
  PROVE  /\ Store(q2, bd, dead)
         /\ HasEntry(q2, n)
         /\ \A m \in Nodes : Entry(q2, m) = Entry(q, m)
         /\ Only(q, q2, n)
<1>1. q \in Jq /\ Ids(q) /\ Lists(q, bd, dead) /\ Listens(q)
  BY StoreParts
<1>2. /\ q2 \in Jq
      /\ Ids(q2)
      /\ HasEntry(q2, n)
      /\ \A m \in Nodes : Entry(q2, m) = Entry(q, m)
      /\ Only(q, q2, n)
      /\ SameListeners(q, q2)
  BY <1>1, WithEntryOk
<1>3. \A m \in Nodes : EventsOf(q2, m) = EventsOf(q, m)
  BY <1>2 DEF EventsOf
<1>4. Lists(q2, bd, dead)
  BY <1>1, <1>3 DEF Lists
<1>5. Listens(q2)
  BY <1>1, <1>2, <1>3, ListensSame
<1> QED
  BY <1>2, <1>4, <1>5 DEF Store

(* Data is written: the events of the entry stay.                          *)
LEMMA PutDataOk ==
  ASSUME NEW bd, NEW dead, NEW q, Store(q, bd, dead), NEW n \in Nodes,
         HasEntry(q, n), NEW entry \in EntrySet,
         entry.events = EventsOf(q, n), NEW q2, q2 = Put(q, n, entry)
  PROVE  /\ Store(q2, bd, dead)
         /\ HasEntry(q2, n)
         /\ Only(q, q2, n)
         /\ \A m \in Nodes : EventsOf(q2, m) = EventsOf(q, m)
<1>1. q \in Jq /\ Ids(q) /\ Lists(q, bd, dead) /\ Listens(q)
  BY StoreParts
<1>2. /\ q2 \in Jq
      /\ Ids(q2)
      /\ HasEntry(q2, n)
      /\ Entry(q2, n) = entry
      /\ Only(q, q2, n)
      /\ SameListeners(q, q2)
  BY <1>1, PutOk
<1>3. \A m \in Nodes : EventsOf(q2, m) = EventsOf(q, m)
  BY <1>2, OnlyEvents DEF EventsOf
<1>4. Lists(q2, bd, dead)
  BY <1>1, <1>3 DEF Lists
<1>5. Listens(q2)
  BY <1>1, <1>2, <1>3, ListensSame
<1> QED
  BY <1>2, <1>3, <1>4, <1>5 DEF Store

(* Handlers numbered from base + 1 are added to n.                         *)
CopyOf(bd, dead, n, base, seq) ==
  \A i \in DOMAIN seq :
    /\ seq[i].uid = base + i
    /\ seq[i].uid \notin dead
    /\ Registered(bd, n, Mapped(seq[i].origType, seq[i].delegated), seq[i])
UidsUpTo(q, n, u) ==
  \A t \in Types : \A c \in KeptOf(q, n, t) : c.uid <= u

(* A kept handler was bound to the node, and is not dead.                  *)
LEMMA UidsIn ==
  ASSUME NEW bd, NEW dead, NEW q, Store(q, bd, dead), NEW n \in Nodes
  PROVE  \A t : \A c \in KeptOf(q, n, t) :
           /\ c \in HandlerSet
           /\ c.uid \in Nat
           /\ c.uid \in DOMAIN bd
           /\ c.uid \notin dead
           /\ Registered(bd, n, t, c)
<1> SUFFICES ASSUME NEW t, NEW c \in KeptOf(q, n, t)
             PROVE  /\ c \in HandlerSet
                    /\ c.uid \in Nat
                    /\ c.uid \in DOMAIN bd
                    /\ c.uid \notin dead
                    /\ Registered(bd, n, t, c)
  OBVIOUS
<1>1. PICK hs : hs = HandlersOf(q, n, t)
  OBVIOUS
<1>2. hs \in ListSet /\ InOrder(bd, dead, n, t, hs)
  BY <1>1, HandlersOk
<1>3. PICK k \in DOMAIN hs.list : c = hs.list[k]
  BY <1>1, HandlersOk
<1>4. c \in HandlerSet
  <2>1. hs.list \in Seq(HandlerSet)
    BY <1>2 DEF ListSet
  <2>2. DOMAIN hs.list = 1..Len(hs.list)
    BY <2>1, LenProperties
  <2> QED
    BY <1>3, <2>1, <2>2, ElementOfSeq
<1>5. Registered(bd, n, t, c) /\ c.uid \notin dead
  BY <1>2, <1>3 DEF InOrder
<1> QED
  BY <1>4, <1>5 DEF Registered, HandlerSet

(* CopyAll adds to the one node.                                           *)
LEMMA CopyAllOk ==
  ASSUME NEW bd, NEW dead, NEW q, Store(q, bd, dead), NEW n \in Nodes,
         HasEntry(q, n), NEW seq \in Seq(HandlerSet), NEW base \in Nat,
         CopyOf(bd, dead, n, base, seq), UidsUpTo(q, n, base),
         NEW q2, q2 = CopyAll(q, n, seq)
  PROVE  /\ Store(q2, bd, dead)
         /\ HasEntry(q2, n)
         /\ Only(q, q2, n)
<1>1. Len(seq) \in Nat /\ DOMAIN seq = 1..Len(seq)
        /\ \A i \in 1..Len(seq) : seq[i] \in HandlerSet
  BY LenProperties, ElementOfSeq
<1>2. PICK f : /\ f[{}] = q
               /\ \A k \in 0..(Len(seq) - 1) :
                    f[1..(k + 1)] = EventAdd(f[1..k], n, seq[k + 1])
               /\ q2 = f[1..Len(seq)]
  <2>1. Len(seq) \in Nat /\ DOMAIN seq = 1..Len(seq)
    BY <1>1
  <2>2. PICK f : CopyRun(f, q, n, seq)
    BY <2>1, CopySteps
  <2> QED
    BY <2>2 DEF CopyRun
<1> DEFINE Good(k, r) == /\ Store(r, bd, dead)
                         /\ HasEntry(r, n)
                         /\ Only(q, r, n)
                         /\ UidsUpTo(r, n, base + k)
           S == {k \in Nat : k <= Len(seq) => Good(k, f[1..k])}
<1>3. 0 \in S
  <2>1. 1..0 = {} /\ base + 0 = base
    OBVIOUS
  <2> QED
    BY <1>2, <2>1, OnlySame
<1>4. ASSUME NEW k \in Nat, k \in S PROVE k + 1 \in S
  <2>1. SUFFICES ASSUME k + 1 <= Len(seq)
                 PROVE  Good(k + 1, f[1..(k + 1)])
    OBVIOUS
  <2>2. k <= Len(seq) /\ k \in 0..(Len(seq) - 1) /\ k + 1 \in 1..Len(seq)
    BY <1>1, <2>1
  <2>3. PICK r : r = f[1..k]
    OBVIOUS
  <2>4. Good(k, r)
    BY <1>4, <2>2, <2>3
  <2>5. PICK b \in HandlerSet : b = seq[k + 1]
    BY <1>1, <2>2
  <2>6. PICK r2 : r2 = f[1..(k + 1)]
    OBVIOUS
  <2>7. r2 = EventAdd(r, n, b)
    BY <1>2, <2>2, <2>3, <2>5, <2>6
  <2>8. /\ b.uid = base + (k + 1)
        /\ b.uid \notin dead
        /\ Registered(bd, n, Mapped(b.origType, b.delegated), b)
    BY <1>1, <2>2, <2>5 DEF CopyOf
  <2>9. \A t \in Types : \A c \in KeptOf(r, n, t) :
          c.uid # b.uid /\ (c.uid \in Nat => c.uid <= base + (k + 1))
    <3>1. \A t \in Types : \A c \in KeptOf(r, n, t) : c.uid \in Nat
      BY <2>4, UidsIn
    <3> QED
      BY <2>4, <2>8, <3>1 DEF UidsUpTo
  <2>10. /\ Store(r2, bd, dead)
         /\ Only(r, r2, n)
         /\ HasEntry(r2, n)
         /\ \A t \in Types : KeptOf(r2, n, t) \subseteq KeptOf(r, n, t) \cup {b}
    BY <2>4, <2>7, <2>8, <2>9, EventAddOk
  <2>11. Only(q, r2, n)
    BY <2>4, <2>10, OnlyTrans
  <2>12. UidsUpTo(r2, n, base + (k + 1))
    <3>1. \A t \in Types : \A c \in KeptOf(r, n, t) : c.uid \in Nat
      BY <2>4, UidsIn
    <3>2. b.uid <= base + (k + 1)
      BY <2>8
    <3> QED
      BY <2>9, <2>10, <3>1, <3>2 DEF UidsUpTo
  <2> QED
    BY <2>6, <2>10, <2>11, <2>12
<1>5. \A k \in Nat : k \in S
  <2> HIDE DEF S
  <2> QED
    BY <1>3, <1>4, NatSetInduction
<1>6. Good(Len(seq), f[1..Len(seq)])
  BY <1>1, <1>5
<1> QED
  BY <1>2, <1>6

(***************************************************************************)
(* The tree                                                                *)
(***************************************************************************)
UpIn(f, par) ==
  [m \in Nodes \cup {NoNode} |->
     IF m = NoNode THEN <<>> ELSE <<m>> \o f[par[m]]]
UpOf(par) == CHOOSE f : f = UpIn(f, par)
Path(par, n) == UpOf(par)[n]
Above(par, n) == Range(Path(par, n))

(* The document, the box and the items are different nodes.                *)
LEMMA NodesApart ==
  /\ NoNode \notin Nodes
  /\ Doc \notin Items /\ Box \notin Items /\ Doc # Box
  /\ Doc \in Nodes /\ Box \in Nodes
  /\ \A n \in Nodes : n = Doc \/ n = Box \/ n \in Items
  /\ Items \subseteq Nodes
  BY DomAssumption DEF Nodes, Doc, Box, NoNode

(* What holds of a node when it holds of its parent holds of all.          *)
LEMMA RankInduction ==
  ASSUME NEW par, NEW rank, NEW top, Ranked(par, rank, top), NEW S,
         \A m \in Nodes : par[m] = NoNode \/ par[m] \in S => m \in S
  PROVE  Nodes \subseteq S
<1> DEFINE T == {k \in Nat : \A m \in Nodes : rank[m] <= k => m \in S}
<1>1. /\ \A m \in Nodes : rank[m] \in Nat
      /\ \A m \in Nodes : par[m] # NoNode =>
           par[m] \in Nodes /\ rank[par[m]] < rank[m]
  BY DEF Ranked
<1>2. 0 \in T
  <2>1. ASSUME NEW m \in Nodes, rank[m] <= 0 PROVE m \in S
    <3>1. par[m] = NoNode
      BY <1>1, <2>1
    <3> QED
      BY <3>1
  <2> QED
    BY <2>1
<1>3. ASSUME NEW k \in Nat, k \in T PROVE k + 1 \in T
  <2>1. ASSUME NEW m \in Nodes, rank[m] <= k + 1 PROVE m \in S
    <3>1. CASE par[m] = NoNode
      BY <3>1
    <3>2. CASE par[m] # NoNode
      <4>1. par[m] \in Nodes /\ rank[par[m]] <= k
        BY <1>1, <2>1, <3>2
      <4>2. par[m] \in S
        BY <1>3, <4>1
      <4> QED
        BY <4>2
    <3> QED
      BY <3>1, <3>2
  <2> QED
    BY <2>1
<1>4. \A k \in Nat : k \in T
  <2> HIDE DEF T
  <2> QED
    BY <1>2, <1>3, NatSetInduction
<1>5. \A m \in Nodes : rank[m] \in T
  BY <1>1, <1>4
<1> QED
  BY <1>1, <1>5

(* The paths exist.                                                        *)
RankedBelow(rank, k) == {m \in Nodes : rank[m] < k} \cup {NoNode}
UpTo(f, par, rank, k) ==
  f = [m \in RankedBelow(rank, k) |->
         IF m = NoNode THEN <<>> ELSE <<m>> \o f[par[m]]]

(* By induction over the ranks.                                            *)
LEMMA UpExists ==
  ASSUME NEW par, NEW rank, NEW top, Ranked(par, rank, top)
  PROVE  \E f : f = UpIn(f, par)
<1> DEFINE D(k) == RankedBelow(rank, k)
           St(f, m) == IF m = NoNode THEN <<>> ELSE <<m>> \o f[par[m]]
           S == {k \in Nat : \E f : UpTo(f, par, rank, k)}
<1>0. /\ \A m \in Nodes : rank[m] \in Nat
      /\ \A m \in Nodes : par[m] \in Nodes \cup {NoNode}
      /\ \A m \in Nodes : par[m] # NoNode => rank[par[m]] < rank[m]
      /\ \A m \in Nodes : rank[m] <= top
      /\ top \in Nat
  BY DEF Ranked
<1>1. 0 \in S
  <2> DEFINE g == [m \in D(0) |-> <<>>]
  <2>1. \A m \in D(0) : m = NoNode
    BY <1>0 DEF RankedBelow
  <2>2. g = [m \in D(0) |-> St(g, m)]
    BY <2>1
  <2>3. UpTo(g, par, rank, 0)
    BY <2>2 DEF UpTo
  <2> QED
    BY <2>3
<1>2. ASSUME NEW k \in Nat, k \in S PROVE k + 1 \in S
  <2>1. PICK f : UpTo(f, par, rank, k)
    BY <1>2
  <2> DEFINE g == [m \in D(k + 1) |-> IF m \in D(k) THEN f[m] ELSE St(f, m)]
  <2>2. ASSUME NEW m \in D(k + 1)
        PROVE  g[m] = St(f, m) /\ St(g, m) = St(f, m)
    <3>1. g[m] = St(f, m)
      BY <2>1 DEF UpTo
    <3>2. CASE m = NoNode
      BY <3>1, <3>2
    <3>3. CASE m # NoNode
      <4>1. m \in Nodes /\ rank[m] < k + 1
        BY <3>3 DEF RankedBelow
      <4>2. par[m] \in D(k) /\ par[m] \in D(k + 1)
        BY <1>0, <4>1 DEF RankedBelow
      <4>3. g[par[m]] = f[par[m]]
        BY <4>2
      <4> QED
        BY <3>1, <4>3
    <3> QED
      BY <3>2, <3>3
  <2>3. g = [m \in D(k + 1) |-> St(g, m)]
    BY <2>2
  <2>4. UpTo(g, par, rank, k + 1)
    BY <2>3 DEF UpTo
  <2> QED
    BY <2>4
<1>3. \A k \in Nat : k \in S
  <2> HIDE DEF S
  <2> QED
    BY <1>1, <1>2, NatSetInduction
<1>4. PICK f : UpTo(f, par, rank, top + 1)
  BY <1>0, <1>3
<1>5. D(top + 1) = Nodes \cup {NoNode}
  BY <1>0 DEF RankedBelow
<1>6. f = UpIn(f, par)
  BY <1>4, <1>5 DEF UpIn, UpTo
<1> QED
  BY <1>6

(* A path starts at the node and goes on as its parent's.                  *)
LEMMA PathSteps ==
  ASSUME NEW par, NEW rank, NEW top, Ranked(par, rank, top)
  PROVE  /\ Path(par, NoNode) = <<>>
         /\ \A m \in Nodes : Path(par, m) = <<m>> \o Path(par, par[m])
<1>1. UpOf(par) = UpIn(UpOf(par), par)
  BY UpExists DEF UpOf
<1>2. PICK f : f = UpOf(par)
  OBVIOUS
<1>3. f = UpIn(f, par)
  BY <1>1, <1>2
<1>4. f[NoNode] = <<>>
  BY <1>3 DEF UpIn
<1>5. \A m \in Nodes : f[m] = <<m>> \o f[par[m]]
  BY <1>3, NodesApart DEF UpIn
<1> QED
  BY <1>2, <1>4, <1>5 DEF Path

(* PathUp, InPage and GetAll are about these paths.                        *)
LEMMA PathUpIs ==
  ASSUME NEW n \in Nodes
  PROVE  /\ PathUp(n) = Path(parent, n)
         /\ InPage(n) <=> Doc \in Above(parent, n)
         /\ GetAll(n) = {m \in Nodes : n \in Above(parent, m)}
<1>1. \A m : PathUp(m) = Path(parent, m)
  BY DEF PathUp, Path, UpOf, UpIn
<1> QED
  BY <1>1 DEF InPage, GetAll, Above

(* The type of a sequence with an element in front.                        *)
LEMMA ConsIn ==
  ASSUME NEW A, NEW e \in A, NEW s \in Seq(A), NEW s2, s2 = <<e>> \o s
  PROVE  s2 \in Seq(A)
<1>1. <<e>> \in Seq(A)
  OBVIOUS
<1> QED
  BY <1>1, ConcatProperties

(* What is in a sequence with an element in front.                         *)
LEMMA RangeCons ==
  ASSUME NEW A, NEW e \in A, NEW s \in Seq(A), NEW s2, s2 = <<e>> \o s
  PROVE  \A x : x \in Range(s2) <=> x = e \/ x \in Range(s)
<1>1. /\ <<e>> \in Seq(A) /\ Len(<<e>>) = 1 /\ <<e>>[1] = e
      /\ Len(s) \in Nat /\ DOMAIN s = 1..Len(s)
  BY LenProperties
<1>2. /\ s2 \in Seq(A)
      /\ Len(s2) = Len(s) + 1
      /\ \A k \in 1..(Len(s) + 1) : s2[k] = IF k <= 1 THEN e ELSE s[k - 1]
  BY <1>1, ConcatProperties
<1>3. /\ s2[1] = e
      /\ \A k \in 1..Len(s) : s2[k + 1] = s[k]
      /\ DOMAIN s2 = 1..(Len(s) + 1)
  <2>1. DOMAIN s2 = 1..(Len(s) + 1)
    BY <1>2, LenProperties
  <2>2. s2[1] = e
    BY <1>1, <1>2
  <2>3. ASSUME NEW k \in 1..Len(s) PROVE s2[k + 1] = s[k]
    BY <1>1, <1>2
  <2> QED
    BY <2>1, <2>2, <2>3
<1>4. Range(s2) \subseteq {e} \cup Range(s)
  <2>1. ASSUME NEW k \in 1..(Len(s) + 1) PROVE s2[k] \in {e} \cup Range(s)
    <3>1. CASE k = 1
      BY <1>3, <3>1
    <3>2. CASE k # 1
      <4>1. k - 1 \in 1..Len(s) /\ s2[k] = s[k - 1]
        BY <1>1, <1>2, <3>2
      <4> QED
        BY <1>1, <4>1 DEF Range
    <3> QED
      BY <3>1, <3>2
  <2> QED
    BY <1>3, <2>1 DEF Range
<1>5. {e} \cup Range(s) \subseteq Range(s2)
  <2>1. 1 \in DOMAIN s2 /\ \A k \in 1..Len(s) : k + 1 \in DOMAIN s2
    BY <1>1, <1>3
  <2>2. e \in Range(s2)
    BY <1>3, <2>1 DEF Range
  <2>3. ASSUME NEW x \in Range(s) PROVE x \in Range(s2)
    <3>1. PICK k \in 1..Len(s) : x = s[k]
      BY <1>1 DEF Range
    <3>2. k + 1 \in DOMAIN s2 /\ s2[k + 1] = x
      BY <1>3, <2>1, <3>1
    <3> QED
      BY <3>2 DEF Range
  <2> QED
    BY <2>2, <2>3
<1> QED
  BY <1>2, <1>3, <1>4, <1>5

(* Paths are sequences of nodes.                                           *)
LEMMA PathIn ==
  ASSUME NEW par, NEW rank, NEW top, Ranked(par, rank, top)
  PROVE  /\ \A m \in Nodes \cup {NoNode} : Path(par, m) \in Seq(Nodes)
         /\ Above(par, NoNode) = {}
<1>1. /\ Path(par, NoNode) = <<>>
      /\ \A m \in Nodes : Path(par, m) = <<m>> \o Path(par, par[m])
  BY PathSteps
<1>2. /\ <<>> \in Seq(Nodes) /\ DOMAIN <<>> = {}
  BY EmptySeq
<1> DEFINE S == {m \in Nodes : Path(par, m) \in Seq(Nodes)}
<1>3. ASSUME NEW m \in Nodes, par[m] = NoNode \/ par[m] \in S
      PROVE  m \in S
  <2>1. Path(par, par[m]) \in Seq(Nodes)
    BY <1>1, <1>2, <1>3
  <2> QED
    BY <1>1, <2>1, ConsIn
<1>4. Nodes \subseteq S
  <2> HIDE DEF S
  <2> QED
    BY <1>3, RankInduction
<1>5. Above(par, NoNode) = {}
  BY <1>1, <1>2 DEF Above, Range
<1> QED
  BY <1>1, <1>2, <1>4, <1>5

(* Who is above a node: the node, and who is above its parent.             *)
LEMMA AboveIs ==
  ASSUME NEW par, NEW rank, NEW top, Ranked(par, rank, top), NEW m \in Nodes
  PROVE  /\ Above(par, m) \subseteq Nodes
         /\ m \in Above(par, m)
         /\ par[m] = NoNode => Above(par, m) = {m}
         /\ par[m] # NoNode => /\ par[m] \in Nodes
                               /\ Above(par, m) = {m} \cup Above(par, par[m])
<1>1. par[m] \in Nodes \cup {NoNode}
  BY DEF Ranked
<1>2. Path(par, par[m]) \in Seq(Nodes) /\ Path(par, m) \in Seq(Nodes)
  BY <1>1, PathIn
<1>3. Above(par, m) = {m} \cup Above(par, par[m])
  <2>1. PICK s, s2 \in Seq(Nodes) : s = Path(par, par[m]) /\ s2 = Path(par, m)
    BY <1>2
  <2>2. s2 = <<m>> \o s
    BY <2>1, PathSteps
  <2>3. \A x : x \in Range(s2) <=> x = m \/ x \in Range(s)
    BY <2>2, RangeCons
  <2> QED
    BY <2>1, <2>3 DEF Above
<1>4. Above(par, m) \subseteq Nodes
  <2>1. DOMAIN Path(par, m) = 1..Len(Path(par, m))
    BY <1>2, LenProperties
  <2> QED
    BY <1>2, <2>1, ElementOfSeq DEF Above, Range
<1>5. Above(par, NoNode) = {}
  BY PathIn
<1> QED
  BY <1>1, <1>3, <1>4, <1>5

(* Who is above someone above a node is above the node.                    *)
LEMMA AboveTrans ==
  ASSUME NEW par, NEW rank, NEW top, Ranked(par, rank, top),
         NEW x \in Nodes, NEW y \in Above(par, x)
  PROVE  \A m \in Nodes : x \in Above(par, m) => y \in Above(par, m)
<1> DEFINE S == {m \in Nodes : x \in Above(par, m) => y \in Above(par, m)}
<1>1. ASSUME NEW m \in Nodes, par[m] = NoNode \/ par[m] \in S
      PROVE  m \in S
  BY <1>1, AboveIs
<1>2. Nodes \subseteq S
  <2> HIDE DEF S
  <2> QED
    BY <1>1, RankInduction
<1> QED
  BY <1>2

(* Ranks fall on the way up: no node is above itself.                      *)
LEMMA RankAbove ==
  ASSUME NEW par, NEW rank, NEW top, Ranked(par, rank, top)
  PROVE  \A m \in Nodes : \A x \in Above(par, m) : x # m => rank[x] < rank[m]
<1> DEFINE S == {m \in Nodes : \A x \in Above(par, m) :
                                 x # m => rank[x] < rank[m]}
<1>0. /\ \A m \in Nodes : rank[m] \in Nat
      /\ \A m \in Nodes : par[m] # NoNode => rank[par[m]] < rank[m]
  BY DEF Ranked
<1>1. ASSUME NEW m \in Nodes, par[m] = NoNode \/ par[m] \in S
      PROVE  m \in S
  <2>1. CASE par[m] = NoNode
    BY <2>1, AboveIs
  <2>2. CASE par[m] # NoNode
    <3>1. /\ par[m] \in Nodes /\ Above(par, m) = {m} \cup Above(par, par[m])
          /\ Above(par, par[m]) \subseteq Nodes
      BY <2>2, AboveIs
    <3>2. rank[par[m]] < rank[m]
      BY <1>0, <2>2
    <3>3. par[m] \in S
      BY <1>1, <2>2, <3>1, NodesApart
    <3>4. ASSUME NEW x \in Above(par, m), x # m PROVE rank[x] < rank[m]
      <4>1. x \in Above(par, par[m]) /\ x \in Nodes
        BY <3>1, <3>4
      <4>2. x = par[m] \/ rank[x] < rank[par[m]]
        BY <3>3, <4>1
      <4> QED
        BY <1>0, <3>1, <3>2, <4>1, <4>2
    <3> QED
      BY <3>4
  <2> QED
    BY <2>1, <2>2
<1>2. Nodes \subseteq S
  <2> HIDE DEF S
  <2> QED
    BY <1>1, RankInduction
<1> QED
  BY <1>2

(* Where nothing above has changed, the path is as it was.                 *)
LEMMA PathSame ==
  ASSUME NEW par, NEW rank, NEW top, Ranked(par, rank, top),
         NEW par2, NEW rank2, NEW top2, Ranked(par2, rank2, top2),
         NEW X, \A m \in Nodes \ X : par2[m] = par[m]
  PROVE  \A m \in Nodes : Above(par, m) \cap X = {} =>
           Path(par2, m) = Path(par, m)
<1> DEFINE S == {m \in Nodes : Above(par, m) \cap X = {} =>
                   Path(par2, m) = Path(par, m)}
<1>0. /\ Path(par, NoNode) = <<>>
      /\ \A m \in Nodes : Path(par, m) = <<m>> \o Path(par, par[m])
      /\ Path(par2, NoNode) = <<>>
      /\ \A m \in Nodes : Path(par2, m) = <<m>> \o Path(par2, par2[m])
  BY PathSteps
<1>1. ASSUME NEW m \in Nodes, par[m] = NoNode \/ par[m] \in S
      PROVE  m \in S
  <2>1. SUFFICES ASSUME Above(par, m) \cap X = {}
                 PROVE  Path(par2, m) = Path(par, m)
    OBVIOUS
  <2>2. par2[m] = par[m]
    BY <2>1, AboveIs
  <2>3. Path(par2, par[m]) = Path(par, par[m])
    <3>1. CASE par[m] = NoNode
      BY <1>0, <3>1
    <3>2. CASE par[m] # NoNode
      <4>1. Above(par, par[m]) \cap X = {}
        BY <2>1, <3>2, AboveIs
      <4> QED
        BY <1>1, <3>2, <4>1
    <3> QED
      BY <3>1, <3>2
  <2> QED
    BY <1>0, <2>2, <2>3
<1>2. Nodes \subseteq S
  <2> HIDE DEF S
  <2> QED
    BY <1>1, RankInduction
<1> QED
  BY <1>2

(* Whoever was below the only node that has moved still is.                *)
LEMMA StillBelow ==
  ASSUME NEW par, NEW rank, NEW top, Ranked(par, rank, top),
         NEW par2, NEW rank2, NEW top2, Ranked(par2, rank2, top2),
         NEW n \in Nodes, \A m \in Nodes \ {n} : par2[m] = par[m]
  PROVE  \A m \in Nodes : n \in Above(par, m) => n \in Above(par2, m)
<1> DEFINE S == {m \in Nodes : n \in Above(par, m) => n \in Above(par2, m)}
<1>1. ASSUME NEW m \in Nodes, par[m] = NoNode \/ par[m] \in S
      PROVE  m \in S
  <2>1. CASE m = n
    BY <2>1, AboveIs
  <2>2. CASE m # n
    <3>1. par2[m] = par[m]
      BY <2>2
    <3> QED
      BY <1>1, <2>2, <3>1, AboveIs
  <2> QED
    BY <2>1, <2>2
<1>2. Nodes \subseteq S
  <2> HIDE DEF S
  <2> QED
    BY <1>1, RankInduction
<1> QED
  BY <1>2

(* The box is on the way from everything in the page to the document.      *)
LEMMA BoxAbove ==
  ASSUME NEW par, NEW rank, NEW top, Ranked(par, rank, top),
         \A n \in Items : par[n] # Doc
  PROVE  \A m \in Nodes \ {Doc} : Doc \in Above(par, m) => Box \in Above(par, m)
<1> DEFINE S == {m \in Nodes : m # Doc /\ Doc \in Above(par, m)
                                 => Box \in Above(par, m)}
<1>1. ASSUME NEW m \in Nodes, par[m] = NoNode \/ par[m] \in S
      PROVE  m \in S
  <2>1. CASE m = Doc
    BY <2>1
  <2>2. CASE m = Box
    BY <2>2, AboveIs
  <2>3. CASE m \in Items
    BY <1>1, <2>3, AboveIs
  <2> QED
    BY <2>1, <2>2, <2>3, NodesApart
<1>2. Nodes \subseteq S
  <2> HIDE DEF S
  <2> QED
    BY <1>1, RankInduction
<1> QED
  BY <1>2

(***************************************************************************)
(* Steps                                                                   *)
(***************************************************************************)
LEMMA PathUpNext ==
  /\ \A m : PathUp(m)' = Path(parent', m)
  /\ \A m : InPage(m)' <=> Doc \in Above(parent', m)
  /\ \A m : InPage(m) <=> Doc \in Above(parent, m)
  /\ \A m : PathUp(m) = Path(parent, m)
  /\ \A m \in Nodes : \A n : m \in GetAll(n) <=> n \in Above(parent, m)
<1>1. \A m : PathUp(m)' = Path(parent', m)
  BY DEF PathUp, Path, UpOf, UpIn
<1>2. \A m : PathUp(m) = Path(parent, m)
  BY DEF PathUp, Path, UpOf, UpIn
<1>3. \A m : InPage(m)' <=> Doc \in Above(parent', m)
  BY <1>1 DEF InPage, Above
<1>4. \A m : InPage(m) <=> Doc \in Above(parent, m)
  BY <1>2 DEF InPage, Above
<1>5. \A m \in Nodes : \A n : m \in GetAll(n) <=> n \in Above(parent, m)
  BY <1>2 DEF GetAll, Above
<1> QED
  BY <1>1, <1>2, <1>3, <1>4, <1>5

(* The fields of Now.                                                      *)
LEMMA NowIs ==
  /\ Now.id = id /\ Now.cache = cache /\ Now.deletedIds = deletedIds
  /\ Now.guid = guid /\ Now.listening = listening
  /\ Now.attaches = attaches /\ Now.capture = capture
  BY DEF Now

(* Set makes of what jQuery keeps what it is given.                        *)
LEMMA SetIs ==
  ASSUME NEW q \in Jq, Set(q)
  PROVE  Now' = q
  BY DEF Set, Now, Jq

(* Nothing that jQuery keeps has changed.                                  *)
LEMMA SetSame ==
  ASSUME UNCHANGED jq
  PROVE  Now' = Now
  BY DEF jq, Now

(* What an operation on n does to what is kept, when the page stays as it  *)
(* is.                                                                     *)
Touches(S) ==
  /\ \A m \in Nodes \ S : HasEntry(Now', m) => HasEntry(Now, m)
  /\ \A m \in S : InPage(m) \/ m \in kept'
  /\ kept \subseteq kept'
  /\ parent' = parent

(* What touches S alone, and leaves what is in S in the page or kept,      *)
(* leaks nothing.                                                          *)
LEMMA NoLeakKept ==
  ASSUME NoLeak, NEW S \in SUBSET Nodes, Touches(S)
  PROVE  NoLeak'
<1>1. \A m : InPage(m)' <=> InPage(m)
  BY PathUpNext DEF Touches
<1>2. ASSUME NEW m \in Nodes, HasEntry(Now', m)
      PROVE  InPage(m)' \/ m \in kept'
  <2>1. CASE m \in S
    BY <1>1, <2>1 DEF Touches
  <2>2. CASE m \notin S
    BY <1>1, <1>2, <2>2 DEF Touches, NoLeak
  <2> QED
    BY <2>1, <2>2
<1> QED
  BY <1>2 DEF NoLeak

(* A node that is written to is in the page, or remembered.                *)
LEMMA TouchedKeeps ==
  ASSUME NEW n \in Nodes, Touched(n)
  PROVE  /\ InPage(n) \/ n \in kept'
         /\ kept \subseteq kept'
  BY DEF Touched

(* What on() is called with is a handler, whatever its number.             *)
LEMMA BindsIn ==
  ASSUME program \in Programs, NEW b \in program.binds, NEW u \in Nat
  PROVE  /\ b \in HandlerSet
         /\ [b EXCEPT !.uid = u] \in HandlerSet
         /\ [b EXCEPT !.uid = u].uid = u
         /\ Same(b, [b EXCEPT !.uid = u])
<1>1. b \in [origType : OrigTypes, handler : STRING, ns : STRING,
             delegated : BOOLEAN, one : BOOLEAN, uid : {0}]
  BY DomAssumption
<1> QED
  BY <1>1 DEF HandlerSet, Same

(* A handler is added to the history.                                      *)
Grown(bs, bd, n, b) ==
  /\ bd \in BoundSet
  /\ DOMAIN bd = 1..(Len(bs) + 1)
  /\ \A u \in DOMAIN bs : u \in DOMAIN bd /\ bd[u] = bs[u]
  /\ bd[Len(bs) + 1].node = n
  /\ bd[Len(bs) + 1].b = b

(* What was bound keeps its number.                                        *)
LEMMA BoundAppend ==
  ASSUME NEW bs \in BoundSet, NEW n \in Nodes, NEW b \in HandlerSet,
         NEW bd, bd = Append(bs, [node |-> n, b |-> b])
  PROVE  Grown(bs, bd, n, b)
<1>1. PICK e \in [node : Nodes, b : HandlerSet] : e = [node |-> n, b |-> b]
  OBVIOUS
<1>2. bd = Append(bs, e) /\ e.node = n /\ e.b = b
  BY <1>1
<1>3. /\ bd \in BoundSet
      /\ Len(bs) \in Nat
      /\ DOMAIN bs = 1..Len(bs)
      /\ DOMAIN bd = 1..(Len(bs) + 1)
      /\ \A u \in 1..Len(bs) : bd[u] = bs[u]
      /\ bd[Len(bs) + 1] = e
  BY <1>2, AppendProperties, LenProperties DEF BoundSet
<1> QED
  BY <1>2, <1>3 DEF Grown

(* on(): the handler is in its list, and is not dead.                      *)
LEMMA OnStore ==
  ASSUME Base, NEW dead, Store(Now, bound, dead), dead \subseteq DOMAIN bound,
         NEW n \in Nodes, NEW b \in program.binds, On(n, b)
  PROVE  /\ Store(Now', bound', dead)
         /\ Only(Now, Now', n)
         /\ bound' \in BoundSet
         /\ \A u \in DOMAIN bound : u \in DOMAIN bound' /\ bound'[u] = bound[u]
<1>1. bound \in BoundSet /\ program \in Programs
  BY DEF Base
<1>2. PICK u : u = Len(bound) + 1
  OBVIOUS
<1>3. PICK c : c = [b EXCEPT !.uid = Len(bound) + 1]
  OBVIOUS
<1>4. Len(bound) \in Nat /\ DOMAIN bound = 1..Len(bound)
  BY <1>1, LenProperties DEF BoundSet
<1>5. b \in HandlerSet /\ c \in HandlerSet /\ c.uid = u /\ Same(b, c)
  BY <1>1, <1>2, <1>3, <1>4, BindsIn, SMTT(30)
<1>6. bound' = Append(bound, [node |-> n, b |-> b])
  BY DEF On
<1>20. Grown(bound, bound', n, b)
  BY <1>1, <1>5, <1>6, BoundAppend
<1>7. /\ bound' \in BoundSet
      /\ DOMAIN bound' = 1..(Len(bound) + 1)
      /\ \A v \in DOMAIN bound : v \in DOMAIN bound' /\ bound'[v] = bound[v]
      /\ bound'[Len(bound) + 1].node = n
      /\ bound'[Len(bound) + 1].b = b
  BY <1>4, <1>20 DEF Grown
<1>8. Registered(bound', n, Mapped(c.origType, c.delegated), c)
  BY <1>2, <1>4, <1>5, <1>7 DEF Registered
<1>9. Store(Now, bound', dead)
  BY <1>7, StoreLonger
<1>10. \A t \in Types : \A d \in KeptOf(Now, n, t) : d.uid # c.uid
  <2>1. \A t \in Types : \A d \in KeptOf(Now, n, t) : d.uid \in DOMAIN bound
    BY UidsIn
  <2> QED
    BY <1>2, <1>4, <1>5, <2>1
<1>11. c.uid \notin dead
  BY <1>2, <1>4, <1>5
<1>12. PICK q : q = EventAdd(Now, n, c)
  OBVIOUS
<1>13. /\ Store(q, bound', dead)
       /\ Only(Now, q, n)
  BY <1>5, <1>8, <1>9, <1>10, <1>11, <1>12, EventAddOk
<1>14. Set(q)
  BY <1>3, <1>12 DEF On
<1>15. Now' = q
  BY <1>13, <1>14, SetIs DEF Store
<1> QED
  BY <1>7, <1>13, <1>15

(* What an operation does that leaves the page as it is and touches what   *)
(* is kept for n alone.                                                    *)
LEMMA HasOnly ==
  ASSUME NEW q, NEW q2, NEW n \in Nodes, Only(q, q2, n)
  PROVE  \A m \in Nodes \ {n} : HasEntry(q2, m) <=> HasEntry(q, m)
  BY DEF Only

(* data() writes to one entry.                                             *)
LEMMA SetDataOk ==
  ASSUME NEW bd, NEW dead, Store(Now, bd, dead), NEW n \in Nodes,
         SetData(n) \/ AllData(n)
  PROVE  /\ Store(Now', bd, dead)
         /\ Only(Now, Now', n)
<1>1. PICK q : q = WithEntry(Now, n)
  OBVIOUS
<1>2. Store(q, bd, dead) /\ HasEntry(q, n) /\ Only(Now, q, n)
  BY <1>1, WithEntryStore
<1>3. Entry(q, n) \in EntrySet
  BY <1>2, EntryIn DEF Store
<1>4. PICK e : /\ e \in EntrySet
               /\ e.events = EventsOf(q, n)
               /\ Set(Put(q, n, e))
  <2>1. CASE SetData(n)
    <3>1. PICK e : e = [Entry(q, n) EXCEPT !.data = {"key"}]
      OBVIOUS
    <3>2. e \in EntrySet /\ e.events = EventsOf(q, n)
      BY <1>3, <3>1 DEF EntrySet, EventsOf
    <3>3. Set(Put(q, n, e))
      BY <1>1, <2>1, <3>1 DEF SetData
    <3> QED
      BY <3>2, <3>3
  <2>2. CASE AllData(n)
    <3>1. PICK e : e = [Entry(q, n) EXCEPT
                          !.parsedAttrs = Entry(q, n).parsedAttrs \/ n # Doc]
      OBVIOUS
    <3>2. e \in EntrySet /\ e.events = EventsOf(q, n)
      BY <1>3, <3>1 DEF EntrySet, EventsOf
    <3>3. Set(Put(q, n, e))
      BY <1>1, <2>2, <3>1 DEF AllData
    <3> QED
      BY <3>2, <3>3
  <2> QED
    BY <2>1, <2>2
<1>5. PICK q2 : q2 = Put(q, n, e)
  OBVIOUS
<1>6. Store(q2, bd, dead) /\ Only(q, q2, n)
  BY <1>2, <1>4, <1>5, PutDataOk
<1>7. q2 \in Jq /\ Set(q2)
  BY <1>4, <1>5, <1>6 DEF Store
<1>8. Now' = q2
  BY <1>7, SetIs
<1>9. Only(Now, q2, n)
  BY <1>2, <1>6, OnlyTrans
<1> QED
  BY <1>6, <1>8, <1>9

(* removeData() drops an entry that is left empty.                         *)
LEMMA RemoveDataOk ==
  ASSUME NEW bd, NEW dead, Store(Now, bd, dead), NEW n \in Nodes,
         RemoveData(n)
  PROVE  /\ Store(Now', bd, dead)
         /\ Only(Now, Now', n)
         /\ HasEntry(Now, n)
<1>1. HasEntry(Now, n)
  BY DEF RemoveData
<1>2. Entry(Now, n) \in EntrySet
  BY EntryIn DEF Store
<1>3. PICK e : e = [Entry(Now, n) EXCEPT !.data = {}]
  OBVIOUS
<1>4. e \in EntrySet /\ e.events = EventsOf(Now, n)
  BY <1>2, <1>3 DEF EntrySet, EventsOf
<1>5. Set(IF IsEmptyDataObject(e) THEN DropEntry(Now, n) ELSE Put(Now, n, e))
  BY <1>3 DEF RemoveData
<1>6. PICK q2 : q2 = IF IsEmptyDataObject(e) THEN DropEntry(Now, n)
                     ELSE Put(Now, n, e)
  OBVIOUS
<1>7. CASE IsEmptyDataObject(e)
  <2>1. e = EmptyEntry
    BY <1>7 DEF IsEmptyDataObject
  <2>2. DOMAIN EventsOf(Now, n) = {}
    BY <1>4, <2>1, EmptyEntryIn
  <2>3. q2 = DropEntry(Now, n)
    BY <1>6, <1>7
  <2>4. Store(q2, bd, dead) /\ Only(Now, q2, n)
    BY <1>1, <2>2, <2>3, DropStore
  <2>5. Now' = q2
    BY <1>5, <1>6, <2>4, SetIs DEF Store
  <2> QED
    BY <1>1, <2>4, <2>5
<1>8. CASE ~IsEmptyDataObject(e)
  <2>1. q2 = Put(Now, n, e)
    BY <1>6, <1>8
  <2>2. Store(q2, bd, dead) /\ Only(Now, q2, n)
    BY <1>1, <1>4, <2>1, PutDataOk
  <2>3. Now' = q2
    BY <1>5, <1>6, <2>2, SetIs DEF Store
  <2> QED
    BY <1>1, <2>2, <2>3
<1> QED
  BY <1>7, <1>8

(* off(), and what one() does when its handler is called.                  *)
LEMMA RemovedOk ==
  ASSUME NEW bd, NEW dead, Store(Now, bd, dead), NEW n \in Nodes,
         NEW o, o.origType \in OrigTypes \cup {"any"}, Set(EventRemove(Now, n, o))
  PROVE  /\ Store(Now', bd, dead)
         /\ Only(Now, Now', n)
         /\ HasEntry(Now', n) => HasEntry(Now, n)
         /\ Now' = EventRemove(Now, n, o)
<1>1. PICK q : q = EventRemove(Now, n, o)
  OBVIOUS
<1>2. /\ Store(q, bd, dead)
      /\ Only(Now, q, n)
      /\ HasEntry(q, n) => HasEntry(Now, n)
  BY <1>1, EventRemoveOk
<1>3. q \in Jq /\ Set(q)
  BY <1>1, <1>2 DEF Store
<1>4. Now' = q
  BY <1>3, SetIs
<1> QED
  BY <1>1, <1>2, <1>4

(* What off() is called with.                                              *)
LEMMA OffsIn ==
  ASSUME NEW o \in Offs
  PROVE  o.origType \in OrigTypes \cup {"any"}
  BY DomAssumption

(* html() and remove(): what is kept for the nodes of S goes.              *)
LEMMA CleanedIs ==
  ASSUME NEW bd, NEW dead, Store(Now, bd, dead), NEW S \in SUBSET Nodes,
         Set(CleanAll(Now, S))
  PROVE  Cleaned(Now, Now', S, bd, dead)
<1>1. PICK q : q = CleanAll(Now, S)
  OBVIOUS
<1>2. Cleaned(Now, q, S, bd, dead)
  BY <1>1, CleanAllOk
<1>3. q \in Jq /\ Set(q)
  BY <1>1, <1>2 DEF Cleaned, Store
<1>4. Now' = q
  BY <1>3, SetIs
<1> QED
  BY <1>2, <1>4

(* clone(): what is bound to n is bound to new.                            *)
GrownBy(bs, bd, n, copied) ==
  /\ bd \in BoundSet
  /\ DOMAIN bd = 1..(Len(bs) + Len(copied))
  /\ \A u \in DOMAIN bs : u \in DOMAIN bd /\ bd[u] = bs[u]
  /\ \A i \in DOMAIN copied : /\ Len(bs) + i \in DOMAIN bd
                              /\ bd[Len(bs) + i].node = n
                              /\ bd[Len(bs) + i].b = copied[i]

Joined(s, r, c) ==
  /\ DOMAIN c = 1..(Len(s) + Len(r))
  /\ \A i \in 1..Len(s) : c[i] = s[i]
  /\ \A i \in 1..Len(r) : c[Len(s) + i] = r[i]

(* The elements of two sequences, joined.                                  *)
LEMMA ConcatIs ==
  ASSUME NEW A, NEW s \in Seq(A), NEW r \in Seq(A), NEW c, c = s \o r
  PROVE  c \in Seq(A) /\ Joined(s, r, c)
<1>1. c \in Seq(A)
  BY ConcatProperties
<1>2. Len(c) = Len(s) + Len(r)
  BY ConcatProperties
<1>3. Len(s) \in Nat /\ Len(r) \in Nat
  BY LenProperties
<1>4. \A i \in 1..(Len(s) + Len(r)) :
        c[i] = IF i <= Len(s) THEN s[i] ELSE r[i - Len(s)]
  BY ConcatProperties
<1>5. \A i \in 1..Len(s) : c[i] = s[i]
  BY <1>3, <1>4
<1>6. \A i \in 1..Len(r) : c[Len(s) + i] = r[i]
  <2> TAKE i \in 1..Len(r)
  <2>1. /\ Len(s) + i \in 1..(Len(s) + Len(r))
        /\ ~(Len(s) + i <= Len(s))
        /\ Len(s) + i - Len(s) = i
    BY <1>3
  <2> QED
    BY <1>4, <2>1
<1>7. DOMAIN c = 1..(Len(s) + Len(r))
  BY <1>1, <1>2, LenProperties
<1> QED
  BY <1>1, <1>2, <1>5, <1>6, <1>7 DEF Joined

(* What was bound keeps its number when copies are bound.                  *)
LEMMA BoundConcat ==
  ASSUME NEW bs \in BoundSet, NEW n \in Nodes, NEW copied \in Seq(HandlerSet),
         NEW bd,
         bd = bs \o [i \in DOMAIN copied |-> [node |-> n, b |-> copied[i]]]
  PROVE  GrownBy(bs, bd, n, copied)
<1>1. PICK cs : cs = [i \in DOMAIN copied |-> [node |-> n, b |-> copied[i]]]
  OBVIOUS
<1>2. DOMAIN copied = 1..Len(copied) /\ Len(copied) \in Nat
  BY LenProperties
<1>3. \A i \in 1..Len(copied) : copied[i] \in HandlerSet
  BY ElementOfSeq
<1>4. \A i \in 1..Len(copied) :
        /\ cs[i] \in [node : Nodes, b : HandlerSet]
        /\ cs[i].node = n
        /\ cs[i].b = copied[i]
  <2> TAKE i \in 1..Len(copied)
  <2>1. cs[i] = [node |-> n, b |-> copied[i]]
    BY <1>1, <1>2
  <2> QED
    BY <1>3, <2>1
<1>3a. cs = [i \in 1..Len(copied) |-> cs[i]]
  BY <1>1, <1>2
<1>3b. PICK A : A = [node : Nodes, b : HandlerSet]
  OBVIOUS
<1>4a. \A i \in 1..Len(copied) : cs[i] \in A
  BY <1>3b, <1>4
<1>5. cs \in [1..Len(copied) -> A]
  BY <1>3a, <1>4a
<1>6. cs \in Seq(A)
  BY <1>2, <1>5
<1>7. Len(cs) = Len(copied)
  BY <1>2, <1>5
<1>8. bs \in Seq(A) /\ bd = bs \o cs
  BY <1>1, <1>3b DEF BoundSet
<1>9. bd \in Seq(A) /\ Joined(bs, cs, bd)
  BY <1>6, <1>8, ConcatIs
<1>10. Len(bs) \in Nat /\ DOMAIN bs = 1..Len(bs)
  BY <1>8, LenProperties
<1>11. \A u \in DOMAIN bs : u \in DOMAIN bd /\ bd[u] = bs[u]
  BY <1>2, <1>7, <1>9, <1>10 DEF Joined
<1>13. \A i \in DOMAIN copied : /\ Len(bs) + i \in DOMAIN bd
                                /\ bd[Len(bs) + i].node = n
                                /\ bd[Len(bs) + i].b = copied[i]
  <2> TAKE i \in DOMAIN copied
  <2>1. i \in 1..Len(cs)
    BY <1>2, <1>7
  <2>2. Len(bs) + i \in DOMAIN bd
    BY <1>2, <1>7, <1>9, <1>10 DEF Joined
  <2> QED
    BY <1>2, <1>4, <1>7, <1>9, <2>1, <2>2 DEF Joined
<1> QED
  BY <1>3b, <1>7, <1>9, <1>11, <1>13 DEF Joined, GrownBy, BoundSet

(* What is copied are handlers.                                            *)
LEMMA CopiedIn ==
  ASSUME NEW dead, Store(Now, bound, dead), NEW n \in Nodes
  PROVE  ListOf(n, "click") \o ListOf(n, "mouseover") \o ListOf(n, "focus")
           \o ListOf(n, "focusin") \in Seq(HandlerSet)
<1>1. \A t : ListOf(n, t) \in Seq(HandlerSet)
  BY HandlersOk DEF ListOf, ListSet
<1> QED
  BY <1>1, ConcatProperties

FreshOf(copied, u, fresh) ==
  /\ fresh \in Seq(HandlerSet)
  /\ DOMAIN fresh = DOMAIN copied
  /\ \A i \in DOMAIN copied : fresh[i].uid = u + i /\ Same(copied[i], fresh[i])

(* The copies are numbered on from what was bound.                         *)
LEMMA FreshIs ==
  ASSUME NEW copied \in Seq(HandlerSet), NEW u \in Nat,
         NEW fresh, fresh = [i \in DOMAIN copied |-> [copied[i] EXCEPT !.uid = u + i]]
  PROVE  FreshOf(copied, u, fresh)
<1>2. DOMAIN copied = 1..Len(copied) /\ Len(copied) \in Nat
  BY LenProperties
<1>3. \A i \in 1..Len(copied) : copied[i] \in HandlerSet
  BY ElementOfSeq
<1>4. ASSUME NEW c \in HandlerSet, NEW v \in Nat
      PROVE  [c EXCEPT !.uid = v] \in HandlerSet
  BY <1>4 DEF HandlerSet
<1>5. ASSUME NEW c \in HandlerSet, NEW v \in Nat, NEW d, d = [c EXCEPT !.uid = v]
      PROVE  d.uid = v /\ Same(c, d)
  BY <1>5 DEF HandlerSet, Same
<1>6. \A i \in 1..Len(copied) : u + i \in Nat
  BY <1>2
<1>7. \A i \in 1..Len(copied) : fresh[i] = [copied[i] EXCEPT !.uid = u + i]
  BY <1>2
<1>8. \A i \in 1..Len(copied) : fresh[i] \in HandlerSet
  BY <1>3, <1>4, <1>6, <1>7
<1>9. fresh \in [1..Len(copied) -> HandlerSet]
  BY <1>2, <1>8
<1>10. \A i \in 1..Len(copied) : fresh[i].uid = u + i /\ Same(copied[i], fresh[i])
  <2> TAKE i \in 1..Len(copied)
  <2>1. copied[i] \in HandlerSet /\ u + i \in Nat
    BY <1>3, <1>6
  <2>2. fresh[i] = [copied[i] EXCEPT !.uid = u + i]
    BY <1>7
  <2>3. PICK c \in HandlerSet : c = copied[i]
    BY <2>1
  <2>4. PICK v \in Nat : v = u + i
    BY <2>1
  <2>5. PICK d : d = fresh[i]
    OBVIOUS
  <2>6. d = [c EXCEPT !.uid = v]
    BY <2>2, <2>3, <2>4, <2>5
  <2>7. d.uid = v /\ Same(c, d)
    BY <2>6 DEF HandlerSet, Same
  <2>8. fresh[i].uid = u + i
    BY <2>4, <2>5, <2>7
  <2>9. Same(copied[i], fresh[i])
    BY <2>3, <2>5, <2>7
  <2> QED
    BY <2>8, <2>9
<1>11. fresh \in Seq(HandlerSet)
  BY <1>2, <1>9
<1>12. DOMAIN fresh = DOMAIN copied
  OBVIOUS
<1>13. \A i \in DOMAIN copied : fresh[i].uid = u + i /\ Same(copied[i], fresh[i])
  BY <1>2, <1>10, Zenon
<1> QED
  BY <1>11, <1>12, <1>13, Zenon DEF FreshOf

(* So they are what CopyAllOk asks for.                                    *)
LEMMA CloneCopies ==
  ASSUME NEW bd, NEW dead, NEW q, Store(q, bd, dead), NEW n \in Nodes,
         HasEntry(q, n), NEW copied \in Seq(HandlerSet), NEW base \in Nat,
         NEW fresh \in Seq(HandlerSet), DOMAIN fresh = DOMAIN copied,
         \A i \in DOMAIN copied : /\ fresh[i].uid = base + i
                                  /\ Same(copied[i], fresh[i]),
         \A i \in DOMAIN copied : /\ base + i \in DOMAIN bd
                                  /\ base + i \notin dead
                                  /\ bd[base + i].node = n
                                  /\ bd[base + i].b = copied[i]
  PROVE  CopyOf(bd, dead, n, base, fresh)
  BY DEF CopyOf, Registered

(* Nothing is kept for a node that was not made yet.                       *)
LEMMA UnbornEmpty ==
  ASSUME Base, NEW n \in Items \ born
  PROVE  n \in Nodes /\ ~HasEntry(Now, n) /\ Entry(Now, n) = EmptyEntry
  BY NodesApart DEF Base, Entry

(* clone(): the copy has the data and the handlers, and nobody else's      *)
(* change.                                                                 *)
LEMMA CloneOk ==
  ASSUME Base, NEW dead, Store(Now, bound, dead), dead \subseteq DOMAIN bound,
         NEW n \in Items, NEW new \in Items, Clone(n, new)
  PROVE  /\ Store(Now', bound', dead)
         /\ Only(Now, Now', new)
         /\ bound' \in BoundSet
         /\ \A u \in DOMAIN bound : u \in DOMAIN bound' /\ bound'[u] = bound[u]
<1>1. bound \in BoundSet
  BY DEF Base
<1>2. n \in Nodes /\ new \in Nodes /\ new \in Items \ born
  BY NodesApart DEF Clone
<1>3. Len(bound) \in Nat /\ DOMAIN bound = 1..Len(bound)
  BY <1>1, LenProperties DEF BoundSet
<1>4. CASE IsEmptyDataObject(Entry(Now, n))
  <2>1. UNCHANGED jq /\ bound' = bound
    BY <1>4 DEF Clone
  <2>2. Now' = Now
    BY <2>1, SetSame
  <2> QED
    BY <1>1, <2>1, <2>2, OnlySame
<1>5. CASE ~IsEmptyDataObject(Entry(Now, n))
  <2>1. PICK copied : copied = ListOf(n, "click") \o ListOf(n, "mouseover")
                                \o ListOf(n, "focus") \o ListOf(n, "focusin")
    OBVIOUS
  <2>2. PICK fresh : fresh = [i \in DOMAIN copied |->
                               [copied[i] EXCEPT !.uid = Len(bound) + i]]
    OBVIOUS
  <2>3. PICK q0 : q0 = WithEntry(Now, new)
    OBVIOUS
  <2>4. PICK e : e = [Entry(Now, n) EXCEPT !.events = <<>>]
    OBVIOUS
  <2>5. PICK q1 : q1 = Put(q0, new, e)
    OBVIOUS
  <2>6. PICK q2 : q2 = CopyAll(q1, new, fresh)
    OBVIOUS
  <2>7. /\ Set(q2)
        /\ bound' = bound \o [i \in DOMAIN copied |->
                               [node |-> new, b |-> copied[i]]]
    BY <1>5, <2>1, <2>2, <2>3, <2>4, <2>5, <2>6 DEF Clone
  <2>8. copied \in Seq(HandlerSet)
    BY <1>2, <2>1, CopiedIn
  <2>9. GrownBy(bound, bound', new, copied)
    BY <1>1, <1>2, <2>7, <2>8, BoundConcat
  <2>10. /\ bound' \in BoundSet
         /\ \A u \in DOMAIN bound : u \in DOMAIN bound' /\ bound'[u] = bound[u]
         /\ \A i \in DOMAIN copied : /\ Len(bound) + i \in DOMAIN bound'
                                     /\ bound'[Len(bound) + i].node = new
                                     /\ bound'[Len(bound) + i].b = copied[i]
    BY <2>9 DEF GrownBy
  <2>11. /\ fresh \in Seq(HandlerSet)
         /\ DOMAIN fresh = DOMAIN copied
         /\ \A i \in DOMAIN copied : /\ fresh[i].uid = Len(bound) + i
                                     /\ Same(copied[i], fresh[i])
    <3>1. PICK u \in Nat : u = Len(bound)
      BY <1>3
    <3>2. fresh = [i \in DOMAIN copied |-> [copied[i] EXCEPT !.uid = u + i]]
      BY <2>2, <3>1
    <3>3. FreshOf(copied, u, fresh)
      BY <2>8, <3>2, FreshIs
    <3> QED
      BY <3>1, <3>3 DEF FreshOf
  <2>12. /\ Store(q0, bound, dead)
         /\ HasEntry(q0, new)
         /\ Entry(q0, new) = EmptyEntry
         /\ Only(Now, q0, new)
    BY <1>2, <2>3, WithEntryStore, UnbornEmpty
  <2>13. e \in EntrySet /\ e.events = EventsOf(q0, new)
    <3>1. Entry(Now, n) \in EntrySet
      BY <1>2, EntryIn DEF Store
    <3>2. PICK evs \in EventsSet : evs = EmptyEntry.events
      BY EmptyEntryIn DEF EntrySet
    <3>3. e = [Entry(Now, n) EXCEPT !.events = evs]
      BY <2>4, <3>2, EmptyEntryIn
    <3>4. e \in EntrySet /\ e.events = evs
      BY <3>1, <3>3 DEF EntrySet
    <3> QED
      BY <2>12, <3>2, <3>4 DEF EventsOf
  <2>14. Store(q1, bound, dead) /\ HasEntry(q1, new) /\ Only(q0, q1, new)
    BY <1>2, <2>5, <2>12, <2>13, PutDataOk
  <2>15. Store(q1, bound', dead)
    BY <2>10, <2>14, StoreLonger
  <2>16. UidsUpTo(q1, new, Len(bound))
    <3>1. \A t : \A c \in KeptOf(q1, new, t) : c.uid \in DOMAIN bound
      BY <1>2, <2>14, UidsIn
    <3> QED
      BY <1>3, <3>1 DEF UidsUpTo
  <2>17. \A i \in DOMAIN copied : Len(bound) + i \notin dead
    <3>1. DOMAIN copied = 1..Len(copied) /\ Len(copied) \in Nat
      BY <2>8, LenProperties
    <3> QED
      BY <1>3, <3>1
  <2>18. PICK bd : bd = bound'
    OBVIOUS
  <2>19. /\ Store(q1, bd, dead)
         /\ \A i \in DOMAIN copied : /\ Len(bound) + i \in DOMAIN bd
                                     /\ Len(bound) + i \notin dead
                                     /\ bd[Len(bound) + i].node = new
                                     /\ bd[Len(bound) + i].b = copied[i]
    BY <2>10, <2>15, <2>17, <2>18
  <2>20. CopyOf(bd, dead, new, Len(bound), fresh)
    BY <1>2, <1>3, <2>8, <2>11, <2>14, <2>19, CloneCopies
  <2>21. Store(q2, bd, dead) /\ Only(q1, q2, new)
    BY <1>2, <1>3, <2>6, <2>11, <2>14, <2>16, <2>19, <2>20, CopyAllOk
  <2>22. Now' = q2
    <3>1. q2 \in Jq
      BY <2>21 DEF Store
    <3> QED
      BY <2>7, <3>1, SetIs
  <2>23. Only(Now, q2, new)
    <3>1. Only(Now, q1, new)
      BY <2>12, <2>14, OnlyTrans
    <3> QED
      BY <2>21, <3>1, OnlyTrans
  <2> QED
    BY <2>10, <2>18, <2>21, <2>22, <2>23
<1> QED
  BY <1>4, <1>5

(***************************************************************************)
(* The tree                                                                *)
(***************************************************************************)
LEMMA TreeRank ==
  ASSUME Tree
  PROVE  /\ \E rank, top : Ranked(parent, rank, top)
         /\ \A n \in Items : parent[n] # Doc
         /\ \A n \in Items : parent[n] \in Nodes \cup {NoNode}
         /\ born \subseteq Nodes
<1>1. \A n \in Items : parent[n] # Doc
  BY NodesApart DEF Tree, Nodes
<1>2. \A n \in Items : parent[n] \in Nodes \cup {NoNode}
  BY NodesApart DEF Tree
<1>3. born \subseteq Nodes
  BY NodesApart DEF Tree
<1> QED
  BY <1>1, <1>2, <1>3 DEF Tree

(* The tree stays as it is.                                                *)
LEMMA TreeSame ==
  ASSUME Tree, UNCHANGED <<parent, born>>
  PROVE  Tree'
  BY DEF Tree

(* The parent of the items in X is changed, as the ranks allow.            *)
LEMMA TreeMoved ==
  ASSUME Tree, NEW rank, NEW top, Ranked(parent', rank, top),
         born' \subseteq Items, born \subseteq born',
         \A n \in Items : \/ parent'[n] = parent[n]
                          \/ parent'[n] = NoNode
                          \/ n \in born' /\ parent'[n] \in born' \cup {Box},
         parent'[Doc] = NoNode, parent'[Box] = Doc
  PROVE  Tree'
<1>1. parent' \in [Nodes -> Nodes \cup {NoNode}]
  BY DEF Ranked
<1>2. \A n \in Items : parent'[n] \in born' \cup {Box, NoNode}
  BY DEF Tree
<1>3. \A n \in Items \ born' : parent'[n] = NoNode
  BY DEF Tree
<1> QED
  BY <1>1, <1>2, <1>3 DEF Tree

(* What was in the box is out of it, and the new item is in.               *)
LEMMA HtmlRanked ==
  ASSUME Tree, NEW new \in Items \ born, NEW par2,
         NEW rank, NEW top, Ranked(parent, rank, top),
         par2 = [m \in Nodes |-> CASE m = new -> Box
                                   [] m \in Children(Box) -> NoNode
                                   [] OTHER -> parent[m]]
  PROVE  \E rank2, top2 : Ranked(par2, rank2, top2)
<1>1. new \in Nodes /\ Box \in Nodes /\ new # Box /\ new # Doc
  BY NodesApart
<1>2. /\ top \in Nat
      /\ rank \in [Nodes -> 0..top]
      /\ parent \in [Nodes -> Nodes \cup {NoNode}]
      /\ \A n \in Nodes : parent[n] # NoNode => rank[parent[n]] < rank[n]
  BY DEF Ranked
<1>3. PICK rank2 : rank2 = [m \in Nodes |-> IF m = new THEN rank[Box] + 1
                                            ELSE rank[m]]
  OBVIOUS
<1>4. rank2 \in [Nodes -> 0..(top + 1)]
  BY <1>1, <1>2, <1>3
<1>5. \A m \in Nodes : \/ par2[m] = Box /\ m = new
                       \/ par2[m] = NoNode
                       \/ par2[m] = parent[m] /\ m # new
  <2> TAKE m \in Nodes
  <2>1. CASE m = new
    <3>1. par2[m] = CASE m = new -> Box
                      [] m \in Children(Box) -> NoNode
                      [] OTHER -> parent[m]
      OBVIOUS
    <3>2. m \notin Children(Box)
      BY <2>1, NodesApart DEF Children, Tree
    <3> QED
      BY <2>1, <3>1, <3>2
  <2>2. CASE m # new /\ m \in Children(Box)
    BY <2>2
  <2>3. CASE m # new /\ m \notin Children(Box)
    BY <2>3
  <2> QED
    BY <2>1, <2>2, <2>3
<1>6. \A m \in Nodes : parent[m] # new
  <2> TAKE m \in Nodes
  <2>1. CASE m = Doc
    BY <1>1, <2>1, NodesApart DEF Tree
  <2>2. CASE m = Box
    BY <1>1, <2>2 DEF Tree
  <2>3. CASE m \in Items
    BY <1>1, <2>3, NodesApart DEF Tree
  <2> QED
    BY <2>1, <2>2, <2>3, NodesApart
<1>7. par2 \in [Nodes -> Nodes \cup {NoNode}]
  BY <1>1, <1>2
<1>8. ASSUME NEW m \in Nodes, par2[m] # NoNode
      PROVE  rank2[par2[m]] < rank2[m]
  <2>1. CASE par2[m] = Box /\ m = new
    <3>1. rank2[Box] = rank[Box] /\ rank2[new] = rank[Box] + 1
      BY <1>1, <1>3
    <3>2. rank[Box] \in Nat
      BY <1>1, <1>2
    <3> QED
      BY <2>1, <3>1, <3>2
  <2>2. CASE par2[m] = parent[m] /\ m # new
    <3>1. parent[m] \in Nodes /\ parent[m] # new /\ rank[parent[m]] < rank[m]
      BY <1>2, <1>6, <1>8, <2>2
    <3>2. rank2[parent[m]] = rank[parent[m]] /\ rank2[m] = rank[m]
      BY <1>3, <2>2, <3>1
    <3> QED
      BY <2>2, <3>1, <3>2
  <2> QED
    BY <1>5, <1>8, <2>1, <2>2
<1>9. top + 1 \in Nat
  BY <1>2
<1>10. Ranked(par2, rank2, top + 1)
  BY <1>4, <1>7, <1>8, <1>9 DEF Ranked
<1> QED
  BY <1>10

(* A node is taken out.                                                    *)
LEMMA RemoveRanked ==
  ASSUME NEW par, NEW rank, NEW top, Ranked(par, rank, top), NEW n \in Nodes,
         NEW par2, par2 = [par EXCEPT ![n] = NoNode]
  PROVE  Ranked(par2, rank, top)
  BY DEF Ranked

(* A node comes under one that is not below it: all that is below it is    *)
(* ranked below all others.                                                *)
LEMMA AppendRanked ==
  ASSUME NEW par, NEW rank, NEW top, Ranked(par, rank, top), NEW n \in Nodes,
         NEW to \in Nodes, n \notin Above(par, to),
         NEW par2, par2 = [par EXCEPT ![n] = to]
  PROVE  \E rank2, top2 : Ranked(par2, rank2, top2)
<1>1. /\ top \in Nat
      /\ rank \in [Nodes -> 0..top]
      /\ par \in [Nodes -> Nodes \cup {NoNode}]
      /\ \A m \in Nodes : par[m] # NoNode => rank[par[m]] < rank[m]
  BY DEF Ranked
<1>2. PICK rank2 : rank2 = [m \in Nodes |-> IF n \in Above(par, m)
                                            THEN rank[m] + rank[to] + 1
                                            ELSE rank[m]]
  OBVIOUS
<1>3. PICK top2 : top2 = top + top + 1
  OBVIOUS
<1>4. top2 \in Nat
  BY <1>1, <1>3
<1>5. rank2 \in [Nodes -> 0..top2]
  <2>1. ASSUME NEW m \in Nodes
        PROVE  rank2[m] \in 0..top2
    <3>1. rank[m] \in 0..top /\ rank[to] \in 0..top
      BY <1>1
    <3> QED
      BY <1>1, <1>2, <1>3, <3>1
  <2>2. rank2 = [m \in Nodes |-> rank2[m]]
    BY <1>2
  <2> QED
    BY <2>1, <2>2
<1>6. par2 \in [Nodes -> Nodes \cup {NoNode}]
  BY <1>1
<1>7. ASSUME NEW m \in Nodes, par2[m] # NoNode
      PROVE  rank2[par2[m]] < rank2[m]
  <2>1. rank[m] \in Nat /\ rank[to] \in Nat
    BY <1>1
  <2>2. CASE m = n
    <3>1. par2[m] = to /\ rank2[to] = rank[to]
      BY <1>1, <1>2, <2>2
    <3>2. n \in Above(par, m)
      BY <2>2, AboveIs
    <3>3. rank2[m] = rank[m] + rank[to] + 1
      BY <1>2, <3>2
    <3> QED
      BY <2>1, <3>1, <3>3
  <2>3. CASE m # n
    <3>1. par2[m] = par[m] /\ par[m] \in Nodes /\ rank[par[m]] < rank[m]
      BY <1>1, <1>7, <2>3
    <3>2. Above(par, m) = {m} \cup Above(par, par[m])
      BY <1>7, <3>1, AboveIs
    <3>3. n \in Above(par, m) <=> n \in Above(par, par[m])
      BY <2>3, <3>2
    <3>4. rank[par[m]] \in Nat
      BY <1>1, <3>1
    <3> QED
      BY <1>2, <2>1, <3>1, <3>3, <3>4
  <2> QED
    BY <2>2, <2>3
<1> QED
  BY <1>4, <1>5, <1>6, <1>7 DEF Ranked

(* What is not below a node that is moved is in the page or not as before. *)
LEMMA ElsewhereSame ==
  ASSUME NEW par, NEW rank, NEW top, Ranked(par, rank, top),
         NEW par2, NEW rank2, NEW top2, Ranked(par2, rank2, top2),
         NEW n \in Nodes, \A m \in Nodes \ {n} : par2[m] = par[m]
  PROVE  \A m \in Nodes : n \notin Above(par, m) => Above(par2, m) = Above(par, m)
<1> TAKE m \in Nodes
<1>1. PICK X : X = {n}
  OBVIOUS
<1>2. \A l \in Nodes \ X : par2[l] = par[l]
  BY <1>1
<1>3. \A l \in Nodes : Above(par, l) \cap X = {} => Path(par2, l) = Path(par, l)
  BY <1>2, PathSame
<1>4. n \notin Above(par, m) => Above(par, m) \cap X = {}
  BY <1>1
<1> QED
  BY <1>3, <1>4 DEF Above

(***************************************************************************)
(* The stack of events                                                     *)
(***************************************************************************)
LEMMA TopIs ==
  ASSUME EventsTyped, Top.k # "none"
  PROVE  /\ events # <<>>
         /\ 1 \in DOMAIN events
         /\ Top = events[1]
         /\ EventOk(Top)
<1>1. events # <<>>
  BY DEF Top, Idle, NoEvent
<1>2. events \in Seq(EventSet)
  BY DEF EventsTyped
<1>3. Top = events[1] /\ 1 \in DOMAIN events
  BY <1>1, <1>2 DEF Top, Idle
<1> QED
  BY <1>1, <1>3 DEF EventsTyped

Replaced(es, es2, e) ==
  /\ es2 \in Seq(EventSet)
  /\ DOMAIN es2 = DOMAIN es
  /\ 1 \in DOMAIN es
  /\ es2[1] = e
  /\ \A j \in DOMAIN es : j # 1 => es2[j] = es[j]

Consed(s, s2, e) ==
  /\ Len(s2) = Len(s) + 1
  /\ s2[1] = e
  /\ \A j \in DOMAIN s2 : j # 1 => j - 1 \in DOMAIN s /\ s2[j] = s[j - 1]
  /\ \A j \in DOMAIN s : j + 1 \in DOMAIN s2 /\ s2[j + 1] = s[j]

(* The elements of a sequence with one in front.                           *)
LEMMA ConsIs ==
  ASSUME NEW A, NEW e \in A, NEW s \in Seq(A), NEW s2, s2 = <<e>> \o s
  PROVE  s2 \in Seq(A) /\ Consed(s, s2, e)
<1>1. /\ <<e>> \in Seq(A) /\ Len(<<e>>) = 1 /\ <<e>>[1] = e
      /\ Len(s) \in Nat /\ DOMAIN s = 1..Len(s)
  BY LenProperties
<1>2. /\ s2 \in Seq(A)
      /\ Len(s2) = Len(s) + 1
      /\ \A k \in 1..(Len(s) + 1) : s2[k] = IF k <= 1 THEN e ELSE s[k - 1]
  BY <1>1, ConcatProperties
<1>3. DOMAIN s2 = 1..(Len(s) + 1)
  BY <1>2, LenProperties
<1>4. s2[1] = e
  BY <1>1, <1>2
<1>5. ASSUME NEW j \in DOMAIN s2, j # 1
      PROVE  j - 1 \in DOMAIN s /\ s2[j] = s[j - 1]
  BY <1>1, <1>2, <1>3, <1>5
<1>6. ASSUME NEW j \in DOMAIN s
      PROVE  j + 1 \in DOMAIN s2 /\ s2[j + 1] = s[j]
  BY <1>1, <1>2, <1>3
<1> QED
  BY <1>2, <1>4, <1>5, <1>6 DEF Consed

(* The running event is replaced, and the others stay.                     *)
LEMMA ReplaceIs ==
  ASSUME EventsTyped, Top.k # "none", NEW e \in EventSet, Replace(e)
  PROVE  Replaced(events, events', e)
<1>1. events \in Seq(EventSet) /\ events # <<>>
  BY TopIs DEF EventsTyped
<1>2. PICK t : t = Tail(events)
  OBVIOUS
<1>3. /\ t \in Seq(EventSet)
      /\ Len(t) = Len(events) - 1
      /\ \A j \in 1..Len(t) : t[j] = events[j + 1]
  BY <1>1, <1>2, HeadTailProperties
<1>4. Len(events) \in Nat /\ Len(events) > 0 /\ DOMAIN events = 1..Len(events)
  BY <1>1, LenProperties, EmptySeq
<1>6. events' = <<e>> \o t
  BY <1>2 DEF Replace
<1>7. events' \in Seq(EventSet) /\ Consed(t, events', e)
  BY <1>3, <1>6, ConsIs
<1>8. DOMAIN events' = DOMAIN events
  <2>1. DOMAIN events' = 1..Len(events')
    BY <1>7, LenProperties
  <2> QED
    BY <1>3, <1>4, <1>7, <2>1 DEF Consed
<1>9. events'[1] = e
  BY <1>7 DEF Consed
<1>10. ASSUME NEW j \in DOMAIN events, j # 1
       PROVE  events'[j] = events[j]
  <2>1. j - 1 \in 1..Len(t) /\ j - 1 + 1 = j
    BY <1>3, <1>4, <1>10
  <2>2. events'[j] = t[j - 1]
    BY <1>7, <1>8, <1>10 DEF Consed
  <2> QED
    BY <1>3, <2>1, <2>2
<1>11. 1 \in DOMAIN events
  BY <1>4
<1> QED
  BY <1>7, <1>8, <1>9, <1>10, <1>11 DEF Replaced

(* So the types are right.                                                 *)
LEMMA ReplaceTyped ==
  ASSUME EventsTyped, Top.k # "none", NEW e, EventOk(e), Replace(e)
  PROVE  EventsTyped'
<1>1. e \in EventSet
  BY DEF EventOk
<1>2. Replaced(events, events', e)
  BY <1>1, ReplaceIs
<1>3. \A j \in DOMAIN events' : EventOk(events'[j])
  BY <1>2 DEF Replaced, EventsTyped
<1>4. events' \in Seq(EventSet)
  BY <1>2 DEF Replaced
<1> QED
  BY <1>3, <1>4 DEF EventsTyped

(* The running event ends.                                                 *)
LEMMA TailTyped ==
  ASSUME EventsTyped, Top.k # "none", events' = Tail(events)
  PROVE  /\ EventsTyped'
         /\ \A j \in DOMAIN events' : /\ j + 1 \in DOMAIN events
                                      /\ events'[j] = events[j + 1]
<1>1. events \in Seq(EventSet) /\ events # <<>>
  BY TopIs DEF EventsTyped
<1>2. /\ events' \in Seq(EventSet)
      /\ Len(events') = Len(events) - 1
      /\ \A j \in 1..Len(events') : events'[j] = events[j + 1]
  BY <1>1, HeadTailProperties
<1>3. DOMAIN events = 1..Len(events) /\ Len(events) \in Nat
  BY <1>1, LenProperties
<1>4. DOMAIN events' = 1..Len(events')
  BY <1>2, LenProperties
<1>5. \A j \in DOMAIN events' : /\ j + 1 \in DOMAIN events
                                /\ events'[j] = events[j + 1]
  BY <1>2, <1>3, <1>4
<1>6. \A j \in DOMAIN events' : EventOk(events'[j])
  BY <1>5 DEF EventsTyped
<1> QED
  BY <1>2, <1>5, <1>6 DEF EventsTyped

(* An event starts.                                                        *)
LEMMA PushTyped ==
  ASSUME NEW es \in Seq(EventSet), \A j \in DOMAIN es : EventOk(es[j]),
         NEW e, EventOk(e), NEW es2, es2 = <<e>> \o es
  PROVE  es2 \in Seq(EventSet) /\ \A j \in DOMAIN es2 : EventOk(es2[j])
<1>1. e \in EventSet
  BY DEF EventOk
<1>2. es2 \in Seq(EventSet) /\ Consed(es, es2, e)
  BY <1>1, ConsIs
<1>3. ASSUME NEW j \in DOMAIN es2
      PROVE  EventOk(es2[j])
  BY <1>2 DEF Consed
<1> QED
  BY <1>2, <1>3

Starts(e, n, type, target, path) ==
  /\ EventOk(e)
  /\ e.n = n /\ e.type = type /\ e.target = target /\ e.path = path
  /\ e.i = 1 /\ e.queue = <<>> /\ e.k = "path"

(* The event that trigger() starts.                                        *)
LEMMA NewEventOk ==
  ASSUME NEW n \in Nat, NEW type \in Types, NEW target \in Nodes,
         NEW path \in Seq(Nodes), NEW e, e = NewEvent(n, type, target, path)
  PROVE  Starts(e, n, type, target, path)
<1>1. e = [n |-> n, type |-> type, target |-> target, path |-> path, i |-> 1,
           queue |-> <<>>, stopped |-> FALSE, immediate |-> FALSE,
           native |-> FALSE, related |-> NoNode, k |-> "path"]
  BY DEF NewEvent, NoEvent
<1>2. <<>> \in Seq(GroupSet)
  OBVIOUS
<1>3. e \in EventSet
  BY <1>1, <1>2 DEF EventSet
<1>4. /\ e.n = n /\ e.type = type /\ e.target = target /\ e.path = path
      /\ e.i = 1 /\ e.queue = <<>> /\ e.k = "path"
  BY <1>1
<1> QED
  BY <1>3, <1>4 DEF EventOk, Starts

(* The event that the browser starts.                                      *)
LEMMA NativeEventOk ==
  ASSUME NEW n \in Nat, NEW type \in Types, NEW target \in Nodes,
         NEW path \in Seq(Nodes), NEW related \in Nodes \cup {NoNode}, NEW e,
         e = [NewEvent(n, type, target, path) EXCEPT !.native = TRUE,
                                                     !.related = related]
  PROVE  Starts(e, n, type, target, path)
<1>1. PICK f : f = [n |-> n, type |-> type, target |-> target, path |-> path, i |-> 1,
           queue |-> <<>>, stopped |-> FALSE, immediate |-> FALSE,
           native |-> TRUE, related |-> related, k |-> "path"]
  OBVIOUS
<1>2. <<>> \in Seq(GroupSet)
  OBVIOUS
<1>3. f \in EventSet
  BY <1>1, <1>2 DEF EventSet
<1>4. /\ f.n = n /\ f.type = type /\ f.target = target /\ f.path = path
      /\ f.i = 1 /\ f.queue = <<>> /\ f.k = "path"
  BY <1>1
<1>5. e = f
  <2>1. PICK g : g = NewEvent(n, type, target, path)
    OBVIOUS
  <2>2. g = [n |-> n, type |-> type, target |-> target, path |-> path, i |-> 1,
             queue |-> <<>>, stopped |-> FALSE, immediate |-> FALSE,
             native |-> FALSE, related |-> NoNode, k |-> "path"]
    BY <2>1 DEF NewEvent, NoEvent
  <2>3. e = [g EXCEPT !.native = TRUE, !.related = related]
    BY <2>1
  <2> QED
    BY <1>1, <2>2, <2>3
<1>6. EventOk(f)
  BY <1>3, <1>4 DEF EventOk
<1> QED
  BY <1>4, <1>5, <1>6 DEF Starts

(***************************************************************************)
(* Which handlers are called                                               *)
(***************************************************************************)
Cut(s, m, n, r) ==
  /\ Len(r) = IF m <= n THEN n - m + 1 ELSE 0
  /\ \A i \in 1..(n - m + 1) : r[i] = s[m + i - 1]

(* The elements of a part of a list.                                       *)
LEMMA SubSeqIs ==
  ASSUME NEW A, NEW s, NEW m \in Int, NEW n \in Int,
         \A i \in m..n : s[i] \in A, NEW r, r = SubSeq(s, m, n)
  PROVE  r \in Seq(A) /\ Cut(s, m, n, r)
  BY SubSeqProperties DEF Cut

(* A function on 1..k is a sequence.                                       *)
LEMMA FunctionSeq ==
  ASSUME NEW A, NEW k \in Nat, NEW f \in [1..k -> A]
  PROVE  f \in Seq(A) /\ Len(f) = k
  OBVIOUS

SplitOf(hs, dl, dr) ==
  /\ dl \in Seq(HandlerSet)
  /\ dr \in Seq(HandlerSet)
  /\ \A k \in DOMAIN dl : /\ k \in DOMAIN hs.list
                          /\ k <= hs.delegateCount
                          /\ dl[k] = hs.list[k]
  /\ \A k \in DOMAIN dr : /\ hs.delegateCount + k \in DOMAIN hs.list
                          /\ ~(hs.delegateCount + k <= hs.delegateCount)
                          /\ dr[k] = hs.list[hs.delegateCount + k]

(* The delegates of a list, and the others.                                *)
LEMMA SplitOk ==
  ASSUME NEW hs \in ListSet, hs.delegateCount <= Len(hs.list),
         NEW dl, dl = SubSeq(hs.list, 1, hs.delegateCount),
         NEW dr, dr = SubSeq(hs.list, hs.delegateCount + 1, Len(hs.list))
  PROVE  SplitOf(hs, dl, dr)
<1>1. PICK list \in Seq(HandlerSet) : list = hs.list
  BY DEF ListSet
<1>2. PICK d \in Nat : d = hs.delegateCount
  BY DEF ListSet
<1>3. PICK m \in Nat : m = Len(list)
  BY LenProperties
<1>4. DOMAIN list = 1..m /\ d <= m
  BY <1>1, <1>2, <1>3, LenProperties
<1>5. \A i \in 1..m : list[i] \in HandlerSet
  BY <1>1, <1>3, ElementOfSeq
<1>5a. PICK e : e = hs.delegateCount + 1
  OBVIOUS
<1>5b. e \in Int /\ e = d + 1
  BY <1>2, <1>5a
<1>6. dl = SubSeq(list, 1, d)
  BY <1>1, <1>2, Zenon
<1>6a. dr = SubSeq(list, e, m)
  BY <1>1, <1>3, <1>5a, Zenon
<1>7. \A i \in 1..d : list[i] \in HandlerSet
  BY <1>4, <1>5
<1>8. /\ dl \in Seq(HandlerSet)
      /\ Len(dl) = d
      /\ \A i \in 1..d : dl[i] = list[i]
  <2>1. 1 \in Int /\ d \in Int
    OBVIOUS
  <2>2. dl \in Seq(HandlerSet) /\ Cut(list, 1, d, dl)
    BY <1>6, <1>7, <2>1, SubSeqIs
  <2>3. d - 1 + 1 = d /\ \A i \in 1..d : 1 + i - 1 = i
    OBVIOUS
  <2>4. Len(dl) = d
    BY <2>2, <2>3 DEF Cut
  <2>5. \A i \in 1..d : dl[i] = list[i]
    BY <2>2, <2>3 DEF Cut
  <2> QED
    BY <2>2, <2>4, <2>5
<1>9. DOMAIN dl = 1..d
  BY <1>8, LenProperties
<1>10. \A k \in DOMAIN dl : k \in DOMAIN list /\ k <= d /\ dl[k] = list[k]
  BY <1>4, <1>8, <1>9
<1>11. \A i \in (d + 1)..m : list[i] \in HandlerSet
  BY <1>5
<1>12. /\ dr \in Seq(HandlerSet)
       /\ Len(dr) = m - d
       /\ \A i \in 1..(m - d) : dr[i] = list[d + i]
  <2>2. m \in Int /\ \A i \in e..m : list[i] \in HandlerSet
    BY <1>5b, <1>11
  <2>3. dr \in Seq(HandlerSet) /\ Cut(list, e, m, dr)
    BY <1>5b, <1>6a, <2>2, SubSeqIs
  <2>4. m - e + 1 = m - d /\ \A i \in 1..(m - d) : e + i - 1 = d + i
    BY <1>5b
  <2>5. Len(dr) = m - d
    BY <1>4, <1>5b, <2>3, <2>4 DEF Cut
  <2>6. \A i \in 1..(m - d) : dr[i] = list[d + i]
    BY <2>3, <2>4 DEF Cut
  <2> QED
    BY <2>3, <2>5, <2>6
<1>13. DOMAIN dr = 1..(m - d)
  BY <1>4, <1>12, LenProperties
<1>14. \A k \in DOMAIN dr :
         d + k \in DOMAIN list /\ ~(d + k <= d) /\ dr[k] = list[d + k]
  <2> TAKE k \in DOMAIN dr
  <2>1. k \in 1..(m - d)
    BY <1>13
  <2>2. d + k \in 1..m /\ ~(d + k <= d)
    BY <1>4, <2>1
  <2>3. d + k \in DOMAIN list
    BY <1>4, <2>2
  <2>4. dr[k] = list[d + k]
    BY <1>12, <2>1
  <2> QED
    BY <2>2, <2>3, <2>4
<1> QED
  BY <1>1, <1>2, <1>8, <1>10, <1>12, <1>14 DEF SplitOf

(* The elements a selector finds on the way up are below the node, each    *)
(* once.                                                                   *)
LEMMA MatchingOk ==
  ASSUME Tree, NEW at \in Nodes, NEW target \in Nodes,
         NEW m, m = Matching(at, target)
  PROVE  /\ m \in Seq(Nodes)
         /\ \A i \in DOMAIN m : Found(m[i], at)
         /\ IsInjective(PathUp(target)) =>
              \A i, j \in DOMAIN m : m[i] = m[j] => i = j
<1>1. PICK up : up = PathUp(target)
  OBVIOUS
<1>2. up \in Seq(Nodes)
  BY <1>1, TreeRank, PathUpIs, PathIn
<1>3. PICK ch : ch = {k \in DOMAIN up : Found(up[k], at)}
  OBVIOUS
<1>4. m = Chosen(up, ch) /\ ch \subseteq DOMAIN up
  BY <1>1, <1>3 DEF Matching
<1>5. PICK pos : m \in Seq(Nodes) /\ Picked(m, up, ch, pos)
  BY <1>2, <1>4, ChosenPicked
<1>6. DOMAIN m = 1..Len(m) /\ Len(m) \in Nat
  BY <1>5, LenProperties
<1>7. \A i \in DOMAIN m : pos[i] \in ch /\ m[i] = up[pos[i]]
  BY <1>5, <1>6 DEF Picked
<1>8. \A i, j \in DOMAIN m : pos[i] = pos[j] => i = j
  <2> TAKE i, j \in DOMAIN m
  <2>1. pos[i] \in Nat /\ pos[j] \in Nat
    BY <1>2, <1>4, <1>7, LenProperties
  <2>2. i < j => pos[i] < pos[j]
    BY <1>5, <1>6 DEF Picked
  <2>3. j < i => pos[j] < pos[i]
    BY <1>5, <1>6 DEF Picked
  <2> QED
    BY <1>6, <2>1, <2>2, <2>3
<1>9. \A i \in DOMAIN m : Found(m[i], at)
  BY <1>3, <1>7
<1>10. ASSUME IsInjective(up), NEW i \in DOMAIN m, NEW j \in DOMAIN m, m[i] = m[j]
       PROVE  i = j
  <2>1. up[pos[i]] = up[pos[j]] /\ pos[i] \in DOMAIN up /\ pos[j] \in DOMAIN up
    BY <1>4, <1>7, <1>10
  <2>2. pos[i] = pos[j]
    BY <1>10, <2>1 DEF IsInjective
  <2> QED
    BY <1>8, <2>2
<1> QED
  BY <1>1, <1>5, <1>9, <1>10

QueueFrom(q, m, at, dl, dr) ==
  /\ q \in Seq(GroupSet)
  /\ \E c \in Nat :
       /\ c <= Len(m)
       /\ \A g \in DOMAIN q : \/ /\ g \in 1..c
                                 /\ q[g].elem = m[g]
                                 /\ q[g].hs = dl
                              \/ /\ g = c + 1
                                 /\ q[g].elem = at
                                 /\ q[g].hs = dr

(* The delegates for each of these elements come before the others.        *)
LEMMA HandlersIs ==
  ASSUME NEW m \in Seq(Nodes), NEW at \in Nodes, NEW dl \in Seq(HandlerSet),
         NEW dr \in Seq(HandlerSet), NEW l, NEW r,
         l = (IF dl = <<>> THEN <<>>
              ELSE [i \in DOMAIN m |-> [elem |-> m[i], hs |-> dl]]),
         r = (IF dr = <<>> THEN <<>> ELSE <<[elem |-> at, hs |-> dr]>>)
  PROVE  QueueFrom(l \o r, m, at, dl, dr)
<1>1. PICK A : A = GroupSet
  OBVIOUS
<1>2. DOMAIN m = 1..Len(m) /\ Len(m) \in Nat
  BY LenProperties
<1>3. PICK e : e = [elem |-> at, hs |-> dr]
  OBVIOUS
<1>4. e \in A /\ e.elem = at /\ e.hs = dr
  BY <1>1, <1>3 DEF GroupSet
<1>5. r = <<>> \/ r = <<e>>
  BY <1>3
<1>6. /\ r \in Seq(A)
      /\ Len(r) \in 0..1
      /\ \A i \in 1..Len(r) : i = 1 /\ r[i] = e
  BY <1>4, <1>5
<1>7. PICK c \in Nat : /\ c <= Len(m)
                       /\ l \in Seq(A)
                       /\ Len(l) = c
                       /\ \A i \in 1..c : l[i].elem = m[i] /\ l[i].hs = dl
  <2>1. CASE dl = <<>>
    BY <1>2, <2>1
  <2>2. CASE dl # <<>>
    <3>1. l = [i \in 1..Len(m) |-> [elem |-> m[i], hs |-> dl]]
      BY <1>2, <2>2
    <3>2. \A i \in 1..Len(m) : /\ l[i] \in A
                               /\ l[i].elem = m[i]
                               /\ l[i].hs = dl
      <4> TAKE i \in 1..Len(m)
      <4>1. l[i] = [elem |-> m[i], hs |-> dl]
        BY <3>1
      <4>2. m[i] \in Nodes
        BY <1>2, ElementOfSeq
      <4> QED
        BY <1>1, <4>1, <4>2 DEF GroupSet
    <3>3. l = [i \in 1..Len(m) |-> l[i]]
      BY <3>1
    <3>4. PICK k \in Nat : k = Len(m)
      BY <1>2
    <3>5. l \in [1..k -> A]
      BY <3>2, <3>3, <3>4
    <3>6. l \in Seq(A) /\ Len(l) = k
      BY <3>5, FunctionSeq
    <3>7. /\ k <= Len(m)
          /\ Len(l) = k
          /\ \A i \in 1..k : l[i].elem = m[i] /\ l[i].hs = dl
      BY <3>2, <3>4, <3>6
    <3> QED
      BY <3>6, <3>7
  <2> QED
    BY <2>1, <2>2
<1>8. PICK q : q = l \o r
  OBVIOUS
<1>9. q \in Seq(A) /\ Joined(l, r, q)
  BY <1>6, <1>7, <1>8, ConcatIs
<1>10. ASSUME NEW g \in DOMAIN q
       PROVE  \/ g \in 1..c /\ q[g].elem = m[g] /\ q[g].hs = dl
              \/ g = c + 1 /\ q[g].elem = at /\ q[g].hs = dr
  <2>1. g \in 1..(c + Len(r))
    BY <1>7, <1>9 DEF Joined
  <2>2. CASE g \in 1..c
    BY <1>7, <1>9, <2>2, ZenonT(40) DEF Joined
  <2>3. CASE g \notin 1..c
    <3>1. g = c + 1 /\ 1 \in 1..Len(r)
      BY <1>6, <1>7, <2>1, <2>3
    <3>2. q[g] = r[1]
      BY <1>7, <1>9, <3>1 DEF Joined
    <3> QED
      BY <1>4, <1>6, <3>1, <3>2
  <2> QED
    BY <2>2, <2>3
<1>11. QueueFrom(q, m, at, dl, dr)
  BY <1>1, <1>7, <1>9, <1>10 DEF QueueFrom
<1> QED
  BY <1>8, <1>11

(* Where the handlers that are to be called come from.                     *)
LEMMA HandlersFrom ==
  ASSUME Tree, NEW bd, NEW dead, Store(Now, bd, dead), NEW at \in Nodes,
         NEW target \in Nodes, NEW type
  PROVE  \E m, dl, dr : /\ m = Matching(at, target)
                        /\ m \in Seq(Nodes)
                        /\ SplitOf(HandlersOf(Now, at, type), dl, dr)
                        /\ QueueFrom(Handlers(at, target, type), m, at, dl, dr)
<1>1. PICK hs : hs = HandlersOf(Now, at, type)
  OBVIOUS
<1>2. hs \in ListSet /\ InOrder(bd, dead, at, type, hs)
  BY <1>1, HandlersOk
<1>3. hs.delegateCount <= Len(hs.list)
  BY <1>2 DEF InOrder
<1>4. PICK dl : dl = SubSeq(hs.list, 1, hs.delegateCount)
  OBVIOUS
<1>5. PICK dr : dr = SubSeq(hs.list, hs.delegateCount + 1, Len(hs.list))
  OBVIOUS
<1>6. SplitOf(hs, dl, dr)
  BY <1>2, <1>3, <1>4, <1>5, SplitOk
<1>7. dl \in Seq(HandlerSet) /\ dr \in Seq(HandlerSet)
  BY <1>6 DEF SplitOf
<1>8. PICK m : m = Matching(at, target)
  OBVIOUS
<1>9. m \in Seq(Nodes)
  BY <1>8, MatchingOk
<1>10. PICK l : l = IF dl = <<>> THEN <<>>
                    ELSE [i \in DOMAIN m |-> [elem |-> m[i], hs |-> dl]]
  OBVIOUS
<1>11. PICK r : r = IF dr = <<>> THEN <<>> ELSE <<[elem |-> at, hs |-> dr]>>
  OBVIOUS
<1>12. Handlers(at, target, type) = l \o r
  BY <1>1, <1>4, <1>5, <1>8, <1>10, <1>11 DEF Handlers
<1>13. QueueFrom(l \o r, m, at, dl, dr)
  BY <1>7, <1>9, <1>10, <1>11, HandlersIs
<1> QED
  BY <1>1, <1>6, <1>8, <1>9, <1>12, <1>13

(***************************************************************************)
(* An event goes on                                                        *)
(***************************************************************************)
Goes(e, e2, k, i, q) ==
  /\ e2 \in EventSet
  /\ e2.k = k
  /\ e2.i = i
  /\ e2.queue = q
  /\ e2.n = e.n
  /\ e2.type = e.type
  /\ e2.path = e.path

(* The handlers are looked up.                                             *)
LEMMA GoesQueue ==
  ASSUME NEW e \in EventSet, NEW q \in Seq(GroupSet),
         NEW e2, e2 = [e EXCEPT !.k = "queue", !.queue = q]
  PROVE  Goes(e, e2, "queue", e.i, q)
  BY DEF EventSet, Goes

(* The event goes to the next node.                                        *)
LEMMA GoesOn ==
  ASSUME NEW e \in EventSet, NEW i \in Nat, NEW e2, e2 = [e EXCEPT !.i = i]
  PROVE  Goes(e, e2, e.k, i, e.queue)
  BY DEF EventSet, Goes

(* The queue is given up or done.                                          *)
LEMMA GoesBack ==
  ASSUME NEW e \in EventSet, NEW i \in Nat, NEW q \in Seq(GroupSet),
         NEW e2, e2 = [e EXCEPT !.k = "path", !.i = i, !.queue = q]
  PROVE  Goes(e, e2, "path", i, q)
  BY DEF EventSet, Goes

(* The next group of the queue.                                            *)
LEMMA GoesNext ==
  ASSUME NEW e \in EventSet, NEW q \in Seq(GroupSet),
         NEW e2, e2 = [e EXCEPT !.queue = q]
  PROVE  Goes(e, e2, e.k, e.i, q)
  BY DEF EventSet, Goes

(* A handler has returned.                                                 *)
LEMMA GoesFlags ==
  ASSUME NEW e \in EventSet, NEW s \in BOOLEAN, NEW im \in BOOLEAN,
         NEW e2, e2 = [e EXCEPT !.k = "queue", !.stopped = s, !.immediate = im]
  PROVE  Goes(e, e2, "queue", e.i, e.queue)
  BY DEF EventSet, Goes

(* A handler is called.                                                    *)
LEMMA GoesCalled ==
  ASSUME NEW e \in EventSet, NEW e2, e2 = [e EXCEPT !.k = "called"]
  PROVE  Goes(e, e2, "called", e.i, e.queue)
  BY DEF EventSet, Goes

(* The types of an event.                                                  *)
LEMMA EventFields ==
  ASSUME NEW e, EventOk(e)
  PROVE  /\ e \in EventSet
         /\ e.n \in Nat /\ e.type \in Types /\ e.target \in Nodes
         /\ e.path \in Seq(Nodes) /\ e.i \in Nat /\ e.i > 0
         /\ e.queue \in Seq(GroupSet)
         /\ e.k \in {"path", "queue", "called"}
         /\ e.stopped \in BOOLEAN /\ e.immediate \in BOOLEAN
  BY DEF EventOk, EventSet

(* The node at which the event is.                                         *)
LEMMA AtIn ==
  ASSUME EventsTyped, Top.k # "none", Top.i <= Len(Top.path)
  PROVE  At \in Nodes /\ Top.i \in DOMAIN Top.path
<1>1. EventOk(Top)
  BY TopIs
<1>2. Top.path \in Seq(Nodes) /\ Top.i \in Nat /\ Top.i > 0
  BY <1>1, EventFields
<1>3. Top.i \in 1..Len(Top.path)
  BY <1>2, LenProperties
<1> QED
  BY <1>2, <1>3, ElementOfSeq, LenProperties DEF At

(* What Visit makes of the running event.                                  *)
LEMMA VisitOk ==
  ASSUME Base, Visit
  PROVE  \E e : /\ EventOk(e) /\ Replace(e)
                /\ Top.k = "path" /\ Top.i <= Len(Top.path)
                /\ \/ Goes(Top, e, "queue", Top.i,
                           Handlers(At, Top.target, Top.type))
                   \/ Goes(Top, e, "path", Top.i + 1, Top.queue)
<1>1. EventsTyped /\ Tree /\ Store(Now, bound, {})
  BY DEF Base
<1>2. Top.k = "path" /\ Top.i <= Len(Top.path)
  BY DEF Visit
<1>3. EventOk(Top) /\ At \in Nodes
  BY <1>1, <1>2, TopIs, AtIn
<1>4. PICK t : t = Top
  OBVIOUS
<1>5. PICK q : q = Handlers(At, t.target, t.type)
  OBVIOUS
<1>6. q \in Seq(GroupSet)
  <2>1. t.target \in Nodes
    BY <1>3, <1>4, EventFields
  <2>2. \E m, dl, dr : QueueFrom(q, m, At, dl, dr)
    BY <1>1, <1>3, <1>5, <2>1, HandlersFrom
  <2> QED
    BY <2>2 DEF QueueFrom
<1>7. \/ Replace([t EXCEPT !.k = "queue", !.queue = q])
      \/ Replace([t EXCEPT !.i = t.i + 1])
  BY <1>4, <1>5 DEF Visit
<1>8. /\ t \in EventSet /\ t.i \in Nat /\ t.i > 0 /\ t.queue \in Seq(GroupSet)
      /\ t.k = "path" /\ t.i <= Len(t.path) /\ t.queue = <<>>
  BY <1>2, <1>3, <1>4, EventFields DEF EventOk
<1>9. CASE Replace([t EXCEPT !.k = "queue", !.queue = q])
  <2>1. PICK e : e = [t EXCEPT !.k = "queue", !.queue = q]
    OBVIOUS
  <2>2. Goes(t, e, "queue", t.i, q)
    BY <1>6, <1>8, <2>1, GoesQueue
  <2>3. EventOk(e)
    BY <1>8, <2>2 DEF EventOk, Goes
  <2> QED
    BY <1>2, <1>4, <1>5, <1>9, <2>1, <2>2, <2>3
<1>10. CASE Replace([t EXCEPT !.i = t.i + 1])
  <2>1. PICK i \in Nat : i = t.i + 1
    BY <1>8
  <2>2. PICK e : e = [t EXCEPT !.i = i]
    OBVIOUS
  <2>3. Goes(t, e, t.k, i, t.queue)
    BY <1>8, <2>2, GoesOn
  <2>4. EventOk(e)
    BY <1>8, <2>1, <2>3 DEF EventOk, Goes
  <2>5. Replace(e)
    BY <1>10, <2>1, <2>2
  <2> QED
    BY <1>2, <1>4, <1>8, <2>1, <2>3, <2>4, <2>5
<1> QED
  BY <1>7, <1>9, <1>10

(* The groups but the first.                                               *)
LEMMA TailIn ==
  ASSUME NEW q \in Seq(GroupSet), q # <<>>
  PROVE  /\ Tail(q) \in Seq(GroupSet)
         /\ \A g \in DOMAIN Tail(q) : g + 1 \in DOMAIN q /\ Tail(q)[g] = q[g + 1]
<1>1. /\ Tail(q) \in Seq(GroupSet)
      /\ Len(Tail(q)) = Len(q) - 1
      /\ \A g \in 1..Len(Tail(q)) : Tail(q)[g] = q[g + 1]
  BY HeadTailProperties
<1>2. DOMAIN Tail(q) = 1..Len(Tail(q)) /\ DOMAIN q = 1..Len(q) /\ Len(q) \in Nat
  BY <1>1, LenProperties
<1> QED
  BY <1>1, <1>2

(* What NextElement makes of the running event.                            *)
LEMMA NextElementOk ==
  ASSUME EventsTyped, NextElement
  PROVE  \E e : /\ EventOk(e) /\ Replace(e) /\ Top.k = "queue"
                /\ \/ Goes(Top, e, "path", Top.i + 1, <<>>)
                   \/ Top.queue # <<>> /\ Goes(Top, e, "queue", Top.i, Tail(Top.queue))
<1>1. Top.k = "queue"
  BY DEF NextElement
<1>2. EventOk(Top)
  BY <1>1, TopIs
<1>3. PICK t : t = Top
  OBVIOUS
<1>4. /\ t \in EventSet /\ t.i \in Nat /\ t.i > 0 /\ t.queue \in Seq(GroupSet)
      /\ t.k = "queue" /\ t.i <= Len(t.path)
  BY <1>1, <1>2, <1>3, EventFields DEF EventOk
<1>5. PICK i \in Nat : i = t.i + 1
  BY <1>4
<1>6. PICK none : none = <<>>
  OBVIOUS
<1>7. none \in Seq(GroupSet)
  BY <1>6
<1>8. PICK q : q = Tail(t.queue)
  OBVIOUS
<1>9. \/ Replace([t EXCEPT !.k = "path", !.i = i, !.queue = none])
      \/ ~(Len(t.queue) <= 1) /\ Replace([t EXCEPT !.queue = q])
  <2>1. Replace(IF t.stopped \/ Len(t.queue) <= 1
                THEN [t EXCEPT !.k = "path", !.i = i, !.queue = none]
                ELSE [t EXCEPT !.queue = q])
    BY <1>3, <1>5, <1>6, <1>8 DEF NextElement
  <2> QED
    BY <2>1
<1>10. CASE Replace([t EXCEPT !.k = "path", !.i = i, !.queue = none])
  <2>1. PICK e : e = [t EXCEPT !.k = "path", !.i = i, !.queue = none]
    OBVIOUS
  <2>2. Goes(t, e, "path", i, none)
    BY <1>4, <1>7, <2>1, GoesBack
  <2>3. EventOk(e)
    BY <1>4, <1>5, <1>6, <2>2 DEF EventOk, Goes
  <2> QED
    BY <1>1, <1>3, <1>5, <1>6, <1>10, <2>1, <2>2, <2>3
<1>11. CASE ~(Len(t.queue) <= 1) /\ Replace([t EXCEPT !.queue = q])
  <2>1. t.queue # <<>>
    BY <1>4, <1>11
  <2>2. q \in Seq(GroupSet)
    BY <1>4, <1>8, <2>1, TailIn
  <2>3. PICK e : e = [t EXCEPT !.queue = q]
    OBVIOUS
  <2>4. Goes(t, e, t.k, t.i, q)
    BY <1>4, <2>2, <2>3, GoesNext
  <2>5. EventOk(e)
    BY <1>4, <2>4 DEF EventOk, Goes
  <2> QED
    BY <1>1, <1>3, <1>4, <1>8, <1>11, <2>1, <2>3, <2>4, <2>5
<1> QED
  BY <1>9, <1>10, <1>11

(* What Return makes of the running event.                                 *)
LEMMA ReturnOk ==
  ASSUME EventsTyped, NEW how, Return(how)
  PROVE  \E e : /\ EventOk(e) /\ Replace(e) /\ Top.k = "called"
                /\ Goes(Top, e, "queue", Top.i, Top.queue)
<1>1. Top.k = "called"
  BY DEF Return
<1>2. EventOk(Top)
  BY <1>1, TopIs
<1>3. PICK t : t = Top
  OBVIOUS
<1>4. /\ t \in EventSet /\ t.i > 0 /\ t.i <= Len(t.path)
      /\ t.stopped \in BOOLEAN /\ t.immediate \in BOOLEAN
  BY <1>1, <1>2, <1>3, EventFields DEF EventOk
<1>5. PICK s \in BOOLEAN : s = (t.stopped \/ how # "go")
  OBVIOUS
<1>6. PICK im \in BOOLEAN : im = (t.immediate \/ how = "immediate")
  OBVIOUS
<1>7. PICK e : e = [t EXCEPT !.k = "queue", !.stopped = s, !.immediate = im]
  OBVIOUS
<1>8. Goes(t, e, "queue", t.i, t.queue)
  BY <1>4, <1>7, GoesFlags
<1>9. EventOk(e)
  BY <1>4, <1>8 DEF EventOk, Goes
<1>10. Replace(e)
  BY <1>3, <1>5, <1>6, <1>7 DEF Return
<1> QED
  BY <1>1, <1>3, <1>8, <1>9, <1>10

(* A handler leaves the queue.                                             *)
Popped(q, q2) ==
  /\ q2 \in Seq(GroupSet)
  /\ DOMAIN q2 = DOMAIN q
  /\ 1 \in DOMAIN q
  /\ q2[1].elem = q[1].elem
  /\ q2[1].hs = Tail(q[1].hs)
  /\ \A g \in DOMAIN q : g # 1 => q2[g] = q[g]

(* The first handler of the first group is gone, and no other.             *)
LEMMA PopIs ==
  ASSUME NEW q \in Seq(GroupSet), q # <<>>, q[1].hs # <<>>,
         NEW q2, q2 = [q EXCEPT ![1].hs = Tail(q[1].hs)]
  PROVE  Popped(q, q2)
<1>1. PICK m \in Nat : m = Len(q)
  BY LenProperties
<1>2. DOMAIN q = 1..m /\ 1 \in 1..m
  BY <1>1, LenProperties, EmptySeq
<1>3. \A g \in 1..m : q[g] \in GroupSet
  BY <1>1, ElementOfSeq
<1>4. q[1].hs \in Seq(HandlerSet) /\ q[1].elem \in Nodes
  BY <1>2, <1>3 DEF GroupSet
<1>5. PICK t \in Seq(HandlerSet) : t = Tail(q[1].hs)
  BY <1>4, HeadTailProperties
<1>6. PICK g1 \in GroupSet : g1 = q[1]
  BY <1>2, <1>3
<1>7. PICK g2 : g2 = [g1 EXCEPT !.hs = t]
  OBVIOUS
<1>8. g2 \in GroupSet /\ g2.elem = g1.elem /\ g2.hs = t
  BY <1>7 DEF GroupSet
<1>9. q2 = [q EXCEPT ![1] = g2]
  BY <1>5, <1>6, <1>7
<1>10. /\ DOMAIN q2 = 1..m
       /\ q2[1] = g2
       /\ \A g \in 1..m : g # 1 => q2[g] = q[g]
  BY <1>2, <1>9
<1>11. \A g \in 1..m : q2[g] \in GroupSet
  BY <1>3, <1>8, <1>10
<1>12. q2 = [g \in 1..m |-> q2[g]]
  BY <1>2, <1>9
<1>13. q2 \in [1..m -> GroupSet]
  BY <1>11, <1>12
<1>14. q2 \in Seq(GroupSet)
  BY <1>13, FunctionSeq
<1> QED
  BY <1>2, <1>5, <1>6, <1>8, <1>10, <1>14 DEF Popped

RemovesOne(b, at) ==
  \E off : /\ off.origType = b.origType
           /\ off.handler = b.handler
           /\ off.ns = (IF b.ns = "" THEN "any" ELSE b.ns)
           /\ off.selector = b.delegated
           /\ off.mapped = FALSE
           /\ Set(EventRemove(Now, at, off))

(* What CallHandler makes of the running event, and calls.                 *)
LEMMA CallHandlerOk ==
  ASSUME EventsTyped, CallHandler
  PROVE  \E e, q, b :
           /\ EventOk(e) /\ Replace(e)
           /\ Top.k = "queue" /\ Popped(Top.queue, q)
           /\ Top.queue[1].hs # <<>> /\ b \in HandlerSet
           /\ b = Head(Top.queue[1].hs)
           /\ \/ Goes(Top, e, "queue", Top.i, q) /\ UNCHANGED <<jq, offs, log>>
              \/ /\ Goes(Top, e, "called", Top.i, q)
                 /\ b.one => RemovesOne(b, At) /\ Gone({b.uid})
                 /\ ~b.one => Set(Now) /\ Gone({})
                 /\ log' = Append(log, [n |-> Top.n, at |-> At,
                                        elem |-> Top.queue[1].elem, b |-> b])
<1>1. Top.k = "queue" /\ Group.hs # <<>>
  BY DEF CallHandler
<1>2. EventOk(Top)
  BY <1>1, TopIs
<1>3. PICK t : t = Top
  OBVIOUS
<1>4. /\ t \in EventSet /\ t.i \in Nat /\ t.i > 0 /\ t.queue \in Seq(GroupSet)
      /\ t.k = "queue" /\ t.i <= Len(t.path)
  BY <1>1, <1>2, <1>3, EventFields DEF EventOk
<1>5. t.queue # <<>>
  BY <1>1, <1>3 DEF Group
<1>6. Group = t.queue[1] /\ t.queue[1] \in GroupSet
  BY <1>3, <1>4, <1>5 DEF Group
<1>7. t.queue[1].hs # <<>> /\ t.queue[1].hs \in Seq(HandlerSet)
  BY <1>1, <1>6 DEF GroupSet
<1>8. PICK b \in HandlerSet : b = Head(t.queue[1].hs)
  BY <1>7, HeadTailProperties
<1>9. PICK q : q = [t.queue EXCEPT ![1].hs = Tail(t.queue[1].hs)]
  OBVIOUS
<1>10. Popped(t.queue, q)
  BY <1>4, <1>5, <1>7, <1>9, PopIs
<1>11. PICK e : e = [t EXCEPT !.queue = q]
  OBVIOUS
<1>12. e = [t EXCEPT !.queue[1].hs = Tail(@)]
  BY <1>4, <1>9, <1>11 DEF EventSet
<1>13. Goes(t, e, "queue", t.i, q)
  BY <1>4, <1>10, <1>11, GoesNext DEF Popped
<1>14. PICK off : off = [origType |-> b.origType, handler |-> b.handler,
                         ns |-> IF b.ns = "" THEN "any" ELSE b.ns,
                         selector |-> b.delegated, mapped |-> FALSE]
  OBVIOUS
<1>15. \/ Replace(e) /\ UNCHANGED <<jq, offs, log>>
       \/ /\ Replace([e EXCEPT !.k = "called"])
          /\ Set(IF b.one THEN EventRemove(Now, At, off) ELSE Now)
          /\ Gone(IF b.one THEN {b.uid} ELSE {})
          /\ log' = Append(log, [n |-> t.n, at |-> At,
                                 elem |-> t.queue[1].elem, b |-> b])
  BY <1>3, <1>6, <1>8, <1>12, <1>14 DEF CallHandler
<1>16. EventOk(e)
  BY <1>4, <1>13 DEF EventOk, Goes
<1>17. CASE Replace(e) /\ UNCHANGED <<jq, offs, log>>
  BY <1>1, <1>3, <1>7, <1>8, <1>10, <1>13, <1>16, <1>17
<1>18. CASE /\ Replace([e EXCEPT !.k = "called"])
            /\ Set(IF b.one THEN EventRemove(Now, At, off) ELSE Now)
            /\ Gone(IF b.one THEN {b.uid} ELSE {})
            /\ log' = Append(log, [n |-> t.n, at |-> At,
                                   elem |-> t.queue[1].elem, b |-> b])
  <2>1. PICK e2 : e2 = [e EXCEPT !.k = "called"]
    OBVIOUS
  <2>2. Goes(e, e2, "called", e.i, e.queue)
    BY <1>13, <2>1, GoesCalled DEF Goes
  <2>3. Goes(t, e2, "called", t.i, q)
    BY <1>13, <2>2 DEF Goes
  <2>4. EventOk(e2)
    BY <1>4, <2>3 DEF EventOk, Goes
  <2>5. b.one => RemovesOne(b, At) /\ Gone({b.uid})
    <3>1. /\ off.origType = b.origType
          /\ off.handler = b.handler
          /\ off.ns = (IF b.ns = "" THEN "any" ELSE b.ns)
          /\ off.selector = b.delegated
          /\ off.mapped = FALSE
      BY <1>14
    <3> QED
      BY <1>18, <3>1 DEF RemovesOne
  <2>6. ~b.one => Set(Now) /\ Gone({})
    BY <1>18
  <2>7. Replace(e2)
    BY <1>18, <2>1
  <2> QED
    BY <1>1, <1>3, <1>7, <1>8, <1>10, <1>18, <2>3, <2>4, <2>5, <2>6, <2>7
<1> QED
  BY <1>15, <1>17, <1>18

(***************************************************************************)
(* What holds is kept by every step                                        *)
(***************************************************************************)
LEMMA EventsSame ==
  ASSUME EventsTyped, UNCHANGED events
  PROVE  EventsTyped'
  BY DEF EventsTyped

(* The scripts' calls are counted.                                         *)
LEMMA CallsCounts ==
  ASSUME ops \in Nat, NEW op, Calls(op)
  PROVE  ops' \in Nat
  BY DEF Calls

(* The parts of Base.                                                      *)
LEMMA BaseKept ==
  ASSUME Base, UNCHANGED program, Tree', bound' \in BoundSet,
         Store(Now', bound', {}), EventsTyped', started' \in Nat, ops' \in Nat,
         \A n \in Items \ born' : ~HasEntry(Now', n)
  PROVE  Base'
<1>1. program' \in Programs
  BY DEF Base
<1> QED
  BY <1>1 DEF Base

(* An operation on n that leaves the tree as it is.                        *)
LEMMA PageOp ==
  ASSUME Base, UNCHANGED <<program, parent, born, events, started>>,
         NEW op, Calls(op), NEW n \in Nodes, Exists(n), bound' \in BoundSet,
         Store(Now', bound', {}), Only(Now, Now', n)
  PROVE  Base'
<1>1. Tree'
  BY TreeSame DEF Base
<1>2. EventsTyped'
  BY EventsSame DEF Base
<1>3. started' \in Nat /\ ops' \in Nat
  BY CallsCounts DEF Base
<1>4. \A m \in Items \ born' : ~HasEntry(Now', m)
  <2> TAKE m \in Items \ born'
  <2>1. m \in Nodes \ {n} /\ m \in Items \ born
    BY NodesApart DEF Exists
  <2> QED
    BY <2>1, HasOnly DEF Base
<1>5. UNCHANGED program
  OBVIOUS
<1> QED
  BY <1>1, <1>2, <1>3, <1>4, <1>5, BaseKept

(* What is written to n is remembered when n is not in the page.           *)
LEMMA OnlyTouches ==
  ASSUME NEW n \in Nodes, Only(Now, Now', n), Touched(n), UNCHANGED parent
  PROVE  Touches({n})
  BY HasOnly, TouchedKeeps DEF Touches

(* Nothing more is kept.                                                   *)
LEMMA NoneTouched ==
  ASSUME NEW n \in Nodes, Only(Now, Now', n), HasEntry(Now', n) => HasEntry(Now, n),
         UNCHANGED <<kept, parent>>
  PROVE  Touches({})
  BY HasOnly DEF Touches

(* on() and one().                                                         *)
LEMMA OnHolds ==
  ASSUME Holds, NEW n \in Nodes, NEW b \in program.binds, On(n, b)
  PROVE  Holds'
<1>1. Base /\ NoLeak
  BY DEF Holds
<1>2. PICK none : none = {}
  OBVIOUS
<1>3. Store(Now, bound, none) /\ none \subseteq DOMAIN bound
  BY <1>1, <1>2 DEF Base
<1>4. /\ Store(Now', bound', none)
      /\ Only(Now, Now', n)
      /\ bound' \in BoundSet
  BY <1>1, <1>3, OnStore
<1>5. /\ UNCHANGED <<program, parent, born, events, started>>
      /\ Calls("on") /\ Exists(n) /\ Touched(n)
  BY DEF On
<1>6. Base'
  BY <1>1, <1>2, <1>4, <1>5, PageOp
<1>7. Touches({n})
  BY <1>4, <1>5, OnlyTouches
<1>8. NoLeak'
  BY <1>1, <1>7, NoLeakKept
<1> QED
  BY <1>6, <1>8 DEF Holds

(* off().                                                                  *)
LEMMA OffHolds ==
  ASSUME Holds, NEW n \in Nodes, NEW o \in Offs, Off(n, o)
  PROVE  Holds'
<1>1. Base /\ NoLeak
  BY DEF Holds
<1>2. Store(Now, bound, {})
  BY <1>1 DEF Base
<1>3. /\ UNCHANGED <<program, parent, born, events, started, bound, kept>>
      /\ Calls("off") /\ Exists(n) /\ Set(EventRemove(Now, n, o))
  BY DEF Off
<1>4. o.origType \in OrigTypes \cup {"any"}
  BY OffsIn
<1>5. /\ Store(Now', bound, {})
      /\ Only(Now, Now', n)
      /\ HasEntry(Now', n) => HasEntry(Now, n)
  BY <1>2, <1>3, <1>4, RemovedOk
<1>6. bound' \in BoundSet /\ Store(Now', bound', {})
  BY <1>1, <1>3, <1>5 DEF Base
<1>7. Base'
  BY <1>1, <1>3, <1>5, <1>6, PageOp
<1>8. Touches({})
  BY <1>3, <1>5, NoneTouched
<1>9. NoLeak'
  BY <1>1, <1>8, NoLeakKept
<1> QED
  BY <1>7, <1>9 DEF Holds

(* data().                                                                 *)
LEMMA DataHolds ==
  ASSUME Holds, NEW n \in Nodes, SetData(n) \/ AllData(n)
  PROVE  Holds'
<1>1. Base /\ NoLeak
  BY DEF Holds
<1>2. Store(Now, bound, {})
  BY <1>1 DEF Base
<1>3. /\ UNCHANGED <<program, parent, born, events, started, bound>>
      /\ Calls("data") /\ Exists(n) /\ Touched(n)
  BY DEF SetData, AllData
<1>4. Store(Now', bound, {}) /\ Only(Now, Now', n)
  BY <1>2, SetDataOk
<1>5. bound' \in BoundSet /\ Store(Now', bound', {})
  BY <1>1, <1>3, <1>4 DEF Base
<1>6. Base'
  BY <1>1, <1>3, <1>4, <1>5, PageOp
<1>7. Touches({n})
  BY <1>3, <1>4, OnlyTouches
<1>8. NoLeak'
  BY <1>1, <1>7, NoLeakKept
<1> QED
  BY <1>6, <1>8 DEF Holds

(* removeData().                                                           *)
LEMMA RemoveDataHolds ==
  ASSUME Holds, NEW n \in Nodes, RemoveData(n)
  PROVE  Holds'
<1>1. Base /\ NoLeak
  BY DEF Holds
<1>2. Store(Now, bound, {})
  BY <1>1 DEF Base
<1>3. /\ UNCHANGED <<program, parent, born, events, started, bound, kept>>
      /\ Calls("data") /\ Exists(n)
  BY DEF RemoveData
<1>4. Store(Now', bound, {}) /\ Only(Now, Now', n) /\ HasEntry(Now, n)
  BY <1>2, RemoveDataOk
<1>5. bound' \in BoundSet /\ Store(Now', bound', {})
  BY <1>1, <1>3, <1>4 DEF Base
<1>6. Base'
  BY <1>1, <1>3, <1>4, <1>5, PageOp
<1>7. Touches({})
  BY <1>3, <1>4, NoneTouched
<1>8. NoLeak'
  BY <1>1, <1>7, NoLeakKept
<1> QED
  BY <1>6, <1>8 DEF Holds

(* clone().                                                                *)
LEMMA CloneHolds ==
  ASSUME Holds, NEW n \in Items, NEW new \in Items, Clone(n, new)
  PROVE  Holds'
<1>1. Base /\ NoLeak
  BY DEF Holds
<1>2. PICK none : none = {}
  OBVIOUS
<1>3. Store(Now, bound, none) /\ none \subseteq DOMAIN bound
  BY <1>1, <1>2 DEF Base
<1>4. /\ Store(Now', bound', none)
      /\ Only(Now, Now', new)
      /\ bound' \in BoundSet
  BY <1>1, <1>3, CloneOk
<1>5. /\ UNCHANGED <<program, parent, events, started>>
      /\ Calls("clone") /\ new \in Items \ born /\ born' = born \cup {new}
      /\ kept' = kept \cup {new}
  BY DEF Clone
<1>6. Tree'
  BY <1>1, <1>5 DEF Base, Tree
<1>7. EventsTyped'
  BY <1>1, <1>5, EventsSame DEF Base
<1>8. started' \in Nat /\ ops' \in Nat
  BY <1>1, <1>5, CallsCounts DEF Base
<1>9. new \in Nodes
  BY NodesApart
<1>10. \A m \in Items \ born' : ~HasEntry(Now', m)
  <2> TAKE m \in Items \ born'
  <2>1. m \in Nodes \ {new} /\ m \in Items \ born
    BY <1>5, NodesApart
  <2> QED
    BY <1>1, <1>4, <1>9, <2>1, HasOnly DEF Base
<1>11. Base'
  BY <1>1, <1>2, <1>4, <1>5, <1>6, <1>7, <1>8, <1>10, BaseKept
<1>12. Touches({new})
  BY <1>4, <1>5, <1>9, HasOnly DEF Touches
<1>13. NoLeak'
  BY <1>1, <1>9, <1>12, NoLeakKept
<1> QED
  BY <1>11, <1>13 DEF Holds

(* Nothing comes to be kept for what was not made yet.                     *)
LEMMA NewUnborn ==
  ASSUME Base, NEW S, S \subseteq Nodes, Cleaned(Now, Now', S, bound, {}),
         born \subseteq born'
  PROVE  \A m \in Items \ born' : ~HasEntry(Now', m)
<1> TAKE m \in Items \ born'
<1>1. m \in Nodes /\ m \in Items \ born
  BY NodesApart
<1>2. ~HasEntry(Now, m)
  BY <1>1 DEF Base
<1> QED
  BY <1>1, <1>2 DEF Cleaned, OnlyIn

(* html(): all that is in the page afterwards and has an entry was in it,  *)
(* for what was below the box has none.                                    *)
LEMMA HtmlHolds ==
  ASSUME Holds, NEW new \in Items, Html(Box, new)
  PROVE  Holds'
<1>1. Base /\ NoLeak /\ Tree
  BY DEF Holds, Base
<1>2. /\ UNCHANGED <<program, events, bound, started>>
      /\ Calls("html") /\ new \in Items \ born /\ born' = born \cup {new}
      /\ kept' = kept \ Below(Box)
      /\ Set(CleanAll(Now, Below(Box)))
      /\ parent' = [m \in Nodes |-> CASE m = new -> Box
                                      [] m \in Children(Box) -> NoNode
                                      [] OTHER -> parent[m]]
  BY DEF Html
<1>3. PICK rank, top : Ranked(parent, rank, top)
  BY <1>1, TreeRank
<1>4. PICK par2 : par2 = parent'
  OBVIOUS
<1>5. PICK rank2, top2 : Ranked(par2, rank2, top2)
  <2>1. par2 = [m \in Nodes |-> CASE m = new -> Box
                                  [] m \in Children(Box) -> NoNode
                                  [] OTHER -> parent[m]]
    BY <1>2, <1>4
  <2> QED
    BY <1>1, <1>2, <1>3, <2>1, HtmlRanked
<1>6. PICK S : S = Below(Box)
  OBVIOUS
<1>7. S \in SUBSET Nodes
  BY <1>6 DEF Below, GetAll
<1>8. Store(Now, bound, {})
  BY <1>1 DEF Base
<1>9. Cleaned(Now, Now', S, bound, {})
  BY <1>2, <1>6, <1>7, <1>8, CleanedIs
<1>10. new \notin {Doc, Box} /\ Doc \notin Children(Box) /\ Box \notin Children(Box)
  BY <1>1, NodesApart DEF Children, Tree
<1>11. /\ parent'[Doc] = NoNode
       /\ parent'[Box] = Doc
       /\ parent'[new] = Box
  <2>1. parent'[Doc] = NoNode /\ parent'[Box] = Doc
    BY <1>1, <1>2, <1>10, NodesApart DEF Tree
  <2>2. new \in Nodes /\ new \notin Children(Box)
    BY <1>1, <1>2, NodesApart DEF Children, Tree
  <2> QED
    BY <1>2, <2>1, <2>2
<1>12. \A n \in Items : \/ parent'[n] = parent[n]
                        \/ parent'[n] = NoNode
                        \/ n \in born' /\ parent'[n] \in born' \cup {Box}
  <2> TAKE n \in Items
  <2>1. CASE n = new
    BY <1>2, <1>11, <2>1
  <2>2. CASE n # new /\ n \in Children(Box)
    BY <1>2, <2>2, NodesApart
  <2>3. CASE n # new /\ n \notin Children(Box)
    BY <1>2, <2>3, NodesApart
  <2> QED
    BY <2>1, <2>2, <2>3
<1>13. born' \subseteq Items /\ born \subseteq born'
  BY <1>1, <1>2 DEF Tree
<1>14. Tree'
  BY <1>1, <1>4, <1>5, <1>11, <1>12, <1>13, TreeMoved
<1>15. \A m \in Items \ born' : ~HasEntry(Now', m)
  BY <1>1, <1>7, <1>9, <1>13, NewUnborn
<1>16. EventsTyped' /\ started' \in Nat /\ ops' \in Nat
  BY <1>1, <1>2, EventsSame, CallsCounts DEF Base
<1>17. bound' \in BoundSet /\ Store(Now', bound', {})
  BY <1>1, <1>2, <1>9 DEF Base, Cleaned
<1>18. Base'
  BY <1>1, <1>2, <1>14, <1>15, <1>16, <1>17, BaseKept
<1>19. ASSUME NEW m \in Nodes, HasEntry(Now', m)
       PROVE  InPage(m)' \/ m \in kept'
  <2>1. m \notin S
    BY <1>9, <1>19 DEF Cleaned
  <2>2. HasEntry(Now, m)
    BY <1>9, <1>19, <2>1 DEF Cleaned, OnlyIn
  <2>3. CASE m \in kept
    BY <1>2, <1>6, <2>1, <2>3
  <2>4. CASE m \notin kept
    <3>1. Doc \in Above(parent, m)
      BY <1>1, <2>2, <2>4, PathUpIs DEF NoLeak
    <3>2. m = Doc \/ m = Box
      <4>1. m # Doc => Box \in Above(parent, m)
        BY <1>1, <1>3, <3>1, TreeRank, BoxAbove
      <4>2. Box \in Above(parent, m) => m \in GetAll(Box)
        BY PathUpNext
      <4> QED
        BY <1>6, <2>1, <4>1, <4>2 DEF Below
    <3>3. Doc \in Above(par2, Doc) /\ Above(par2, Box) = {Box} \cup Above(par2, Doc)
      BY <1>4, <1>5, <1>11, AboveIs, NodesApart
    <3>4. Doc \in Above(parent', m)
      BY <1>4, <3>2, <3>3
    <3> QED
      BY <3>4, PathUpNext
  <2> QED
    BY <2>3, <2>4
<1>20. NoLeak'
  BY <1>19 DEF NoLeak
<1> QED
  BY <1>18, <1>20 DEF Holds

(* remove() and detach(): what was below the node has no entry or is kept, *)
(* and the page is the same for the others.                                *)
LEMMA RemoveHolds ==
  ASSUME Holds, NEW n \in Items, NEW keepData \in BOOLEAN, RemoveNode(n, keepData)
  PROVE  Holds'
<1>1. Base /\ NoLeak /\ Tree
  BY DEF Holds, Base
<1>2. /\ UNCHANGED <<program, born, events, bound, started>>
      /\ Calls("remove") /\ n \in born
      /\ parent' = [parent EXCEPT ![n] = NoNode]
      /\ keepData => Set(Now) /\ kept' = kept \cup GetAll(n)
      /\ ~keepData => Set(CleanAll(Now, GetAll(n))) /\ kept' = kept \ GetAll(n)
  BY DEF RemoveNode
<1>3. PICK rank, top : Ranked(parent, rank, top)
  BY <1>1, TreeRank
<1>4. PICK par2 : par2 = parent'
  OBVIOUS
<1>5. n \in Nodes /\ n # Doc /\ n # Box
  BY NodesApart
<1>6. Ranked(par2, rank, top) /\ \A m \in Nodes \ {n} : par2[m] = parent[m]
  <2>1. par2 = [parent EXCEPT ![n] = NoNode]
    BY <1>2, <1>4
  <2>2. \A m \in Nodes \ {n} : par2[m] = parent[m]
    BY <1>1, <2>1 DEF Tree
  <2>3. Ranked(par2, rank, top)
    BY <1>3, <1>5, <2>1, RemoveRanked
  <2> QED
    BY <2>2, <2>3
<1>7. PICK S : S = GetAll(n)
  OBVIOUS
<1>8. S \in SUBSET Nodes
  BY <1>7 DEF GetAll
<1>9. Store(Now, bound, {}) /\ Now \in Jq
  BY <1>1 DEF Base, Store
<1>10. /\ Store(Now', bound, {})
       /\ \A m \in Nodes : HasEntry(Now', m) => HasEntry(Now, m)
       /\ ~keepData => \A m \in S : ~HasEntry(Now', m)
  <2>1. CASE keepData
    <3>1. Now' = Now
      BY <1>2, <1>9, <2>1, SetIs
    <3> QED
      BY <1>9, <2>1, <3>1
  <2>2. CASE ~keepData
    <3>1. Cleaned(Now, Now', S, bound, {})
      BY <1>2, <1>7, <1>8, <1>9, <2>2, CleanedIs
    <3>2. \A m \in S : ~HasEntry(Now', m)
      BY <3>1 DEF Cleaned
    <3>3. \A m \in Nodes \ S : HasEntry(Now', m) <=> HasEntry(Now, m)
      BY <3>1 DEF Cleaned, OnlyIn
    <3>4. Store(Now', bound, {})
      BY <3>1 DEF Cleaned
    <3> QED
      BY <3>2, <3>3, <3>4
  <2> QED
    BY <2>1, <2>2
<1>11. Tree'
  <2>1. parent'[Doc] = NoNode /\ parent'[Box] = Doc
    BY <1>1, <1>2, <1>5, NodesApart DEF Tree
  <2>2. \A m \in Items : parent'[m] = parent[m] \/ parent'[m] = NoNode
    BY <1>1, <1>2, NodesApart DEF Tree
  <2>3. Ranked(parent', rank, top) /\ born' \subseteq Items /\ born \subseteq born'
    BY <1>1, <1>2, <1>4, <1>6 DEF Tree
  <2> QED
    BY <1>1, <2>1, <2>2, <2>3, TreeMoved
<1>12. \A m \in Items \ born' : ~HasEntry(Now', m)
  BY <1>1, <1>2, <1>10, NodesApart DEF Base
<1>13. EventsTyped' /\ started' \in Nat /\ ops' \in Nat
  BY <1>1, <1>2, EventsSame, CallsCounts DEF Base
<1>14. bound' \in BoundSet /\ Store(Now', bound', {})
  BY <1>1, <1>2, <1>10 DEF Base
<1>15. Base'
  BY <1>1, <1>2, <1>11, <1>12, <1>13, <1>14, BaseKept
<1>16. ASSUME NEW m \in Nodes, HasEntry(Now', m)
       PROVE  InPage(m)' \/ m \in kept'
  <2>1. HasEntry(Now, m)
    BY <1>10, <1>16
  <2>2. CASE m \in S
    BY <1>2, <1>7, <1>10, <1>16, <2>2
  <2>3. CASE m \notin S
    <3>1. n \notin Above(parent, m)
      BY <1>7, <2>3, PathUpNext
    <3>2. Above(par2, m) = Above(parent, m)
      BY <1>3, <1>5, <1>6, <3>1, ElsewhereSame
    <3>3. InPage(m)' <=> InPage(m)
      BY <1>4, <3>2, PathUpNext
    <3>4. m \in kept => m \in kept'
      BY <1>2, <1>7, <2>3
    <3> QED
      BY <1>1, <2>1, <3>3, <3>4 DEF NoLeak
  <2> QED
    BY <2>2, <2>3
<1>17. NoLeak'
  BY <1>16 DEF NoLeak
<1> QED
  BY <1>15, <1>17 DEF Holds

(* appendTo(): what comes to be out of the page is kept.                   *)
LEMMA AppendHolds ==
  ASSUME Holds, NEW n \in Items, NEW to \in Nodes, AppendTo(n, to)
  PROVE  Holds'
<1>1. Base /\ NoLeak /\ Tree
  BY DEF Holds, Base
<1>2. /\ UNCHANGED <<program, born, jq, events, bound, started>>
      /\ Calls("append") /\ n \in born
      /\ to \in (born \cup {Box}) \ GetAll(n)
      /\ parent' = [parent EXCEPT ![n] = to]
      /\ kept' = IF InPage(to) THEN kept \ GetAll(n)
                 ELSE kept \cup {m \in GetAll(n) : InPage(m)}
  BY DEF AppendTo
<1>3. PICK rank, top : Ranked(parent, rank, top)
  BY <1>1, TreeRank
<1>4. PICK par2 : par2 = parent'
  OBVIOUS
<1>5. n \in Nodes /\ n # Doc /\ n # Box
  BY NodesApart
<1>6. n \notin Above(parent, to)
  BY <1>2, PathUpNext
<1>7. par2 = [parent EXCEPT ![n] = to]
  BY <1>2, <1>4
<1>8. PICK rank2, top2 : Ranked(par2, rank2, top2)
  BY <1>3, <1>5, <1>6, <1>7, AppendRanked
<1>9. par2[n] = to /\ \A m \in Nodes \ {n} : par2[m] = parent[m]
  BY <1>1, <1>5, <1>7 DEF Tree
<1>10. Now' = Now
  BY <1>2, SetSame
<1>11. Tree'
  <2>1. parent'[Doc] = NoNode /\ parent'[Box] = Doc
    BY <1>1, <1>2, <1>5, NodesApart DEF Tree
  <2>2. \A m \in Items : \/ parent'[m] = parent[m]
                         \/ parent'[m] = NoNode
                         \/ m \in born' /\ parent'[m] \in born' \cup {Box}
    BY <1>2, <1>4, <1>9, NodesApart
  <2>3. Ranked(parent', rank2, top2) /\ born' \subseteq Items /\ born \subseteq born'
    BY <1>1, <1>2, <1>4, <1>8 DEF Tree
  <2> QED
    BY <1>1, <2>1, <2>2, <2>3, TreeMoved
<1>12. \A m \in Items \ born' : ~HasEntry(Now', m)
  BY <1>1, <1>2, <1>10 DEF Base
<1>13. EventsTyped' /\ started' \in Nat /\ ops' \in Nat
  BY <1>1, <1>2, EventsSame, CallsCounts DEF Base
<1>14. bound' \in BoundSet /\ Store(Now', bound', {})
  BY <1>1, <1>2, <1>10 DEF Base
<1>15. Base'
  BY <1>1, <1>2, <1>11, <1>12, <1>13, <1>14, BaseKept
<1>16. ASSUME NEW m \in Nodes, HasEntry(Now', m)
       PROVE  InPage(m)' \/ m \in kept'
  <2>1. InPage(m) \/ m \in kept
    BY <1>1, <1>10, <1>16 DEF NoLeak
  <2>2. CASE m \notin GetAll(n)
    <3>1. n \notin Above(parent, m)
      BY <2>2, PathUpNext
    <3>2. Above(par2, m) = Above(parent, m)
      BY <1>3, <1>5, <1>8, <1>9, <3>1, ElsewhereSame
    <3>3. InPage(m)' <=> InPage(m)
      BY <1>4, <3>2, PathUpNext
    <3>4. m \in kept => m \in kept'
      BY <1>2, <2>2
    <3> QED
      BY <2>1, <3>3, <3>4
  <2>3. CASE m \in GetAll(n) /\ ~InPage(to)
    BY <1>2, <2>1, <2>3
  <2>4. CASE m \in GetAll(n) /\ InPage(to)
    <3>1. Doc \in Above(parent, to) /\ n \in Above(parent, m)
      BY <2>4, PathUpNext
    <3>2. Doc \in Above(par2, to)
      BY <1>3, <1>5, <1>6, <1>8, <1>9, <3>1, ElsewhereSame
    <3>3. n \in Above(par2, m)
      BY <1>3, <1>5, <1>8, <1>9, <3>1, StillBelow
    <3>4. Above(par2, n) = {n} \cup Above(par2, to)
      <4>1. to # NoNode
        BY NodesApart
      <4> QED
        BY <1>5, <1>8, <1>9, <4>1, AboveIs
    <3>5. Doc \in Above(par2, n)
      BY <3>2, <3>4
    <3>6. Doc \in Above(par2, m)
      BY <1>5, <1>8, <3>3, <3>5, AboveTrans
    <3> QED
      BY <1>4, <3>6, PathUpNext
  <2> QED
    BY <2>2, <2>3, <2>4
<1>17. NoLeak'
  BY <1>16 DEF NoLeak
<1> QED
  BY <1>15, <1>17 DEF Holds

(* Only events and counts change.                                          *)
LEMMA BaseQuiet ==
  ASSUME Base, UNCHANGED <<program, parent, born, jq, bound>>,
         EventsTyped', started' \in Nat, ops' \in Nat
  PROVE  Base'
<1>1. Now' = Now
  BY SetSame
<1>2. Tree'
  BY TreeSame DEF Base
<1>3. \A m \in Items \ born' : ~HasEntry(Now', m)
  BY <1>1 DEF Base
<1>4. bound' \in BoundSet /\ Store(Now', bound', {})
  BY <1>1 DEF Base
<1> QED
  BY <1>2, <1>3, <1>4, BaseKept

(* Neither the page nor what is kept changes.                              *)
LEMMA LeakQuiet ==
  ASSUME NoLeak, UNCHANGED <<parent, jq, kept>>
  PROVE  NoLeak'
<1>1. Now' = Now
  BY SetSame
<1>2. Touches({})
  BY <1>1 DEF Touches
<1> QED
  BY <1>2, NoLeakKept

(* The event goes on.                                                      *)
LEMMA RunQuiet ==
  ASSUME Holds, UNCHANGED <<program, parent, born, jq, bound, kept>>,
         EventsTyped', started' \in Nat, ops' \in Nat
  PROVE  Holds'
<1>1. Base /\ NoLeak
  BY DEF Holds
<1>2. Base'
  BY <1>1, BaseQuiet
<1>3. NoLeak'
  BY <1>1, LeakQuiet
<1> QED
  BY <1>2, <1>3 DEF Holds

(* The steps of an event that call nothing.                                *)
LEMMA VisitHolds ==
  ASSUME Holds, Visit \/ EventEnds \/ NextElement \/ \E how : Return(how)
  PROVE  Holds'
<1>1. Base /\ EventsTyped /\ started \in Nat /\ ops \in Nat
  BY DEF Holds, Base
<1>2. UNCHANGED <<program, parent, born, jq, bound, kept, started, ops>>
  BY DEF Visit, EventEnds, NextElement, Return
<1>3. EventsTyped'
  <2>1. CASE Visit
    <3>1. PICK e : EventOk(e) /\ Replace(e) /\ Top.k # "none"
      BY <1>1, <2>1, VisitOk
    <3> QED
      BY <1>1, <3>1, ReplaceTyped
  <2>2. CASE EventEnds
    <3>1. Top.k # "none" /\ events' = Tail(events)
      BY <2>2 DEF EventEnds
    <3> QED
      BY <1>1, <3>1, TailTyped
  <2>3. CASE NextElement
    <3>1. PICK e : EventOk(e) /\ Replace(e) /\ Top.k # "none"
      BY <1>1, <2>3, NextElementOk
    <3> QED
      BY <1>1, <3>1, ReplaceTyped
  <2>4. CASE \E how : Return(how)
    <3>1. PICK how : Return(how)
      BY <2>4
    <3>2. PICK e : EventOk(e) /\ Replace(e) /\ Top.k # "none"
      BY <1>1, <3>1, ReturnOk
    <3> QED
      BY <1>1, <3>2, ReplaceTyped
  <2> QED
    BY <2>1, <2>2, <2>3, <2>4
<1>4. started' \in Nat /\ ops' \in Nat
  BY <1>1, <1>2
<1> QED
  BY <1>2, <1>3, <1>4, RunQuiet

(* A handler is called: what is kept changes when one() bound it.          *)
LEMMA CallKeeps ==
  ASSUME Base, CallHandler, NEW dead, Store(Now, bound, dead)
  PROVE  /\ At \in Nodes
         /\ Store(Now', bound, dead)
         /\ Only(Now, Now', At)
         /\ HasEntry(Now', At) => HasEntry(Now, At)
<1>1. EventsTyped
  BY DEF Base
<1>2. PICK e, q, b :
        /\ EventOk(e)
        /\ Top.k = "queue" /\ b \in HandlerSet
        /\ \/ UNCHANGED <<jq, offs, log>>
           \/ /\ b.one => RemovesOne(b, At)
              /\ ~b.one => Set(Now)
  BY <1>1, CallHandlerOk
<1>3. At \in Nodes
  <2>1. EventOk(Top)
    BY <1>1, <1>2, TopIs
  <2>2. Top.i <= Len(Top.path)
    BY <1>2, <2>1 DEF EventOk
  <2> QED
    BY <1>1, <1>2, <2>2, AtIn
<1>4. CASE Now' = Now
  BY <1>3, <1>4, OnlySame
<1>5. CASE RemovesOne(b, At)
  <2>1. PICK off : off.origType = b.origType /\ Set(EventRemove(Now, At, off))
    BY <1>5 DEF RemovesOne
  <2>2. off.origType \in OrigTypes \cup {"any"}
    BY <1>2, <2>1 DEF HandlerSet
  <2> QED
    BY <1>3, <2>1, <2>2, RemovedOk
<1>6. Now' = Now \/ RemovesOne(b, At)
  <2>1. UNCHANGED jq => Now' = Now
    BY SetSame
  <2>2. Set(Now) => Now' = Now
    BY SetIs DEF Store
  <2> QED
    BY <1>2, <2>1, <2>2
<1> QED
  BY <1>4, <1>5, <1>6

(* The step that calls a handler.                                          *)
LEMMA CallHolds ==
  ASSUME Holds, CallHandler
  PROVE  Holds'
<1>1. Base /\ NoLeak /\ EventsTyped
  BY DEF Holds, Base
<1>2. UNCHANGED <<program, parent, born, bound, kept, started, ops>>
  BY DEF CallHandler
<1>3. PICK e : EventOk(e) /\ Replace(e) /\ Top.k # "none"
  BY <1>1, CallHandlerOk
<1>4. EventsTyped'
  BY <1>1, <1>3, ReplaceTyped
<1>5. Store(Now, bound, {})
  BY <1>1 DEF Base
<1>6. /\ At \in Nodes
      /\ Store(Now', bound, {})
      /\ Only(Now, Now', At)
      /\ HasEntry(Now', At) => HasEntry(Now, At)
  BY <1>1, <1>5, CallKeeps
<1>7. Tree'
  BY <1>1, <1>2, TreeSame DEF Base
<1>8. bound' \in BoundSet /\ Store(Now', bound', {})
  BY <1>1, <1>2, <1>6 DEF Base
<1>9. \A m \in Items \ born' : ~HasEntry(Now', m)
  <2> TAKE m \in Items \ born'
  <2>1. m \in Nodes /\ m \in Items \ born /\ ~HasEntry(Now, m)
    BY <1>1, <1>2, NodesApart DEF Base
  <2>2. m # At => ~HasEntry(Now', m)
    BY <1>6, <2>1, HasOnly
  <2> QED
    BY <1>6, <2>1, <2>2
<1>10. started' \in Nat /\ ops' \in Nat
  BY <1>1, <1>2 DEF Base
<1>11. Base'
  BY <1>1, <1>2, <1>4, <1>7, <1>8, <1>9, <1>10, BaseKept
<1>12. Touches({})
  BY <1>2, <1>6, NoneTouched
<1>13. NoLeak'
  BY <1>1, <1>12, NoLeakKept
<1> QED
  BY <1>11, <1>13 DEF Holds

(* An event starts.                                                        *)
LEMMA PathUpIn ==
  ASSUME Tree, NEW n \in Nodes
  PROVE  PathUp(n) \in Seq(Nodes)
  BY TreeRank, PathIn, PathUpIs

(* What trigger() puts on the stack.                                       *)
LEMMA TriggerOk ==
  ASSUME Base, NEW n \in Nodes, NEW t \in {"click", "mouseenter"}, Trigger(n, t)
  PROVE  \E e : /\ EventOk(e) /\ e.n = started + 1
                /\ e.queue = <<>> /\ e.i = 1 /\ e.k = "path"
                /\ e.path = PathUp(n)
                /\ events' = <<e>> \o events
                /\ started' = started + 1
<1>1. Tree /\ started \in Nat
  BY DEF Base
<1>2. t \in OrigTypes
  BY DEF OrigTypes
<1>3. Mapped(t, FALSE) \in Types
  BY <1>2, MappedIn
<1>4. PathUp(n) \in Seq(Nodes)
  BY <1>1, PathUpIn
<1>5. PICK u \in Nat : u = started + 1
  BY <1>1
<1>6. PICK e : e = NewEvent(u, Mapped(t, FALSE), n, PathUp(n))
  OBVIOUS
<1>7. Starts(e, u, Mapped(t, FALSE), n, PathUp(n))
  BY <1>3, <1>4, <1>6, NewEventOk
<1>8. events' = <<e>> \o events /\ started' = u
  BY <1>5, <1>6 DEF Trigger
<1> QED
  BY <1>5, <1>7, <1>8 DEF Starts

(* trigger().                                                              *)
LEMMA TriggerHolds ==
  ASSUME Holds, NEW n \in Nodes, NEW t \in {"click", "mouseenter"}, Trigger(n, t)
  PROVE  Holds'
<1>1. Base /\ EventsTyped /\ started \in Nat /\ ops \in Nat
  BY DEF Holds, Base
<1>2. /\ UNCHANGED <<program, parent, born, jq, bound, kept>>
      /\ Calls("trigger")
  BY DEF Trigger
<1>3. PICK e : /\ EventOk(e) /\ events' = <<e>> \o events
               /\ started' = started + 1
  BY <1>1, TriggerOk
<1>4. EventsTyped'
  <2>1. events \in Seq(EventSet) /\ \A j \in DOMAIN events : EventOk(events[j])
    BY <1>1 DEF EventsTyped
  <2>2. PICK es : es = events'
    OBVIOUS
  <2>3. es \in Seq(EventSet) /\ \A j \in DOMAIN es : EventOk(es[j])
    BY <1>3, <2>1, <2>2, PushTyped
  <2> QED
    BY <2>2, <2>3 DEF EventsTyped
<1>5. started' \in Nat /\ ops' \in Nat
  BY <1>1, <1>2, <1>3, CallsCounts
<1> QED
  BY <1>2, <1>4, <1>5, RunQuiet

NativeStarts(e, f, n, type) ==
  /\ Starts(e, started + 1, type, n, IF type = "focus" THEN <<n>> ELSE PathUp(n))
  /\ Starts(f, started + 1, "focusin", n, PathUp(n))
  /\ \/ events' = <<e>> \o <<>>
     \/ type = "focus" /\ events' = <<f>> \o (<<e>> \o <<>>)
  /\ started' = started + 1

(* What the browser puts on the stack: the event and, with handlers of     *)
(* focusin, the one that the capturing listener makes of it.               *)
LEMMA NativeOk ==
  ASSUME Base, NEW n \in Nodes, NEW type \in {"click", "mouseover", "focus"},
         NEW related \in Nodes \cup {NoNode}, Native(n, type, related)
  PROVE  \E e, f : NativeStarts(e, f, n, type)
<1>1. Tree /\ started \in Nat
  BY DEF Base
<1>2. type \in Types /\ "focusin" \in Types
  BY DEF Types
<1>3. PathUp(n) \in Seq(Nodes)
  BY <1>1, PathUpIn
<1>4. PICK p : p = IF type = "focus" THEN <<n>> ELSE PathUp(n)
  OBVIOUS
<1>5. p \in Seq(Nodes)
  BY <1>3, <1>4
<1>6. PICK u \in Nat : u = started + 1
  BY <1>1
<1>7. PICK e : e = [NewEvent(u, type, n, p) EXCEPT !.native = TRUE,
                                                   !.related = related]
  OBVIOUS
<1>8. Starts(e, u, type, n, p)
  BY <1>2, <1>5, <1>6, <1>7, NativeEventOk
<1>9. PICK f : f = NewEvent(u, "focusin", n, PathUp(n))
  OBVIOUS
<1>10. Starts(f, u, "focusin", n, PathUp(n))
  BY <1>2, <1>3, <1>6, <1>9, NewEventOk
<1>11. /\ started' = u
       /\ events' = (IF type = "focus" /\ capture THEN <<f>> ELSE <<>>) \o <<e>>
  BY <1>4, <1>6, <1>7, <1>9 DEF Native
<1>12. PICK es : es = <<e>>
  OBVIOUS
<1>13. es \in Seq(EventSet) /\ <<e>> \o <<>> = es /\ <<>> \o es = es
  BY <1>8, <1>12 DEF EventOk, Starts
<1>14. \/ events' = <<e>> \o <<>>
       \/ type = "focus" /\ events' = <<f>> \o (<<e>> \o <<>>)
  <2>1. CASE type = "focus" /\ capture
    <3>1. events' = <<f>> \o es
      BY <1>11, <1>12, <2>1
    <3> QED
      BY <1>13, <2>1, <3>1
  <2>2. CASE ~(type = "focus" /\ capture)
    <3>1. events' = <<>> \o es
      BY <1>11, <1>12, <2>2
    <3> QED
      BY <1>13, <3>1
  <2> QED
    BY <2>1, <2>2
<1> QED
  BY <1>4, <1>6, <1>8, <1>10, <1>11, <1>14 DEF NativeStarts

(* The browser's events.                                                   *)
LEMMA NativeHolds ==
  ASSUME Holds, NEW n \in Nodes, NEW type \in {"click", "mouseover", "focus"},
         NEW related \in Nodes \cup {NoNode}, Native(n, type, related)
  PROVE  Holds'
<1>1. Base /\ started \in Nat /\ ops \in Nat
  BY DEF Holds, Base
<1>2. /\ UNCHANGED <<program, parent, born, jq, bound, kept>>
      /\ ops' = ops + 1
  BY DEF Native
<1>3. PICK e, f : NativeStarts(e, f, n, type)
  BY <1>1, NativeOk
<1>4. /\ EventOk(e) /\ EventOk(f)
      /\ \/ events' = <<e>> \o <<>>
         \/ events' = <<f>> \o (<<e>> \o <<>>)
      /\ started' = started + 1
  BY <1>3 DEF NativeStarts, Starts
<1>5. PICK none : none = <<>>
  OBVIOUS
<1>6. none \in Seq(EventSet) /\ \A j \in DOMAIN none : EventOk(none[j])
  BY <1>5
<1>7. PICK es : es = <<e>> \o none
  OBVIOUS
<1>8. es \in Seq(EventSet) /\ \A j \in DOMAIN es : EventOk(es[j])
  BY <1>4, <1>6, <1>7, PushTyped
<1>9. PICK fs : fs = <<f>> \o es
  OBVIOUS
<1>10. fs \in Seq(EventSet) /\ \A j \in DOMAIN fs : EventOk(fs[j])
  BY <1>4, <1>8, <1>9, PushTyped
<1>11. events' = es \/ events' = fs
  BY <1>4, <1>5, <1>7, <1>9
<1>12. EventsTyped'
  BY <1>8, <1>10, <1>11 DEF EventsTyped
<1>13. started' \in Nat /\ ops' \in Nat
  BY <1>1, <1>2, <1>4
<1> QED
  BY <1>2, <1>12, <1>13, RunQuiet

(***************************************************************************)
(* The beginning                                                           *)
(***************************************************************************)
LEMMA InitTree ==
  ASSUME Init
  PROVE  Tree
<1>1. /\ parent = [n \in Nodes |-> CASE n = Box -> Doc
                                     [] n = FirstItem -> Box
                                     [] OTHER -> NoNode]
      /\ born = {FirstItem}
  BY DEF Init
<1>2. FirstItem \in Items /\ FirstItem # Box /\ FirstItem # Doc /\ FirstItem \in Nodes
  BY DomAssumption, NodesApart
<1>3. parent[Doc] = NoNode /\ parent[Box] = Doc /\ parent[FirstItem] = Box
  BY <1>1, <1>2, NodesApart
<1>4. \A n \in Items : n # FirstItem => parent[n] = NoNode
  BY <1>1, NodesApart
<1>5. parent \in [Nodes -> Nodes \cup {NoNode}]
  BY <1>1, <1>2, <1>3, <1>4, NodesApart
<1>6. PICK rank : rank = [n \in Nodes |-> IF n = Doc THEN 0
                                          ELSE IF n = Box THEN 1 ELSE 2]
  OBVIOUS
<1>7. rank \in [Nodes -> 0..2]
  BY <1>6
<1>8. ASSUME NEW n \in Nodes, parent[n] # NoNode
      PROVE  rank[parent[n]] < rank[n]
  BY <1>2, <1>3, <1>4, <1>6, <1>8, NodesApart
<1>9. Ranked(parent, rank, 2)
  BY <1>5, <1>7, <1>8 DEF Ranked
<1> QED
  BY <1>1, <1>2, <1>3, <1>4, <1>5, <1>9 DEF Tree

(* Nothing is kept.                                                        *)
LEMMA InitStore ==
  ASSUME Init
  PROVE  Store(Now, bound, {}) /\ \A n \in Nodes : ~HasEntry(Now, n)
<1>1. PICK q : q = Now
  OBVIOUS
<1>2. /\ id = [n \in Nodes |-> NoId] /\ cache = <<>> /\ deletedIds = <<>>
      /\ guid = 1 /\ listening = {} /\ attaches = 0 /\ capture = FALSE
  BY DEF Init
<1>3. /\ q.id = [n \in Nodes |-> NoId] /\ q.cache = <<>> /\ q.deletedIds = <<>>
      /\ q.guid = 1 /\ q.listening = {} /\ q.attaches = 0 /\ q.capture = FALSE
  BY <1>1, <1>2, NowIs
<1>4. q \in Jq
  <2>1. id \in [Nodes -> Nat]
    BY <1>2 DEF NoId
  <2>2. cache \in Caches
    <3>1. PICK D : D = {}
      OBVIOUS
    <3>2. D \subseteq Nat /\ cache \in [D -> EntrySet]
      BY <1>2, <3>1
    <3> QED
      BY <3>2, CacheIn
  <2>3. deletedIds \in Seq(Nat) /\ guid \in Nat
    BY <1>2
  <2>4. listening \in SUBSET (Nodes \X Types) /\ attaches \in Nat /\ capture \in BOOLEAN
    BY <1>2
  <2> QED
    BY <1>1, <2>1, <2>2, <2>3, <2>4 DEF Now, Jq
<1>5. \A n \in Nodes : ~HasEntry(q, n)
  BY <1>3 DEF HasEntry
<1>6. \A n \in Nodes : DOMAIN EventsOf(q, n) = {}
  BY <1>5, EmptyEntryIn DEF EventsOf, Entry
<1>7. Ids(q)
  <2>1. \A n \in Nodes : q.id[n] = NoId
    BY <1>3
  <2>2. DOMAIN q.cache = {} /\ DOMAIN q.deletedIds = {}
    BY <1>3
  <2>3. \A n \in Nodes : q.id[n] < q.guid
    BY <1>3, <2>1 DEF NoId
  <2> QED
    BY <2>1, <2>2, <2>3 DEF Ids
<1>8. Lists(q, bound, {})
  BY <1>6 DEF Lists
<1>9. Listens(q)
  <2>1. Focused(q) = {}
    BY <1>6 DEF Focused
  <2>2. Cardinality(Focused(q)) = 0
    BY <2>1, FS_EmptySet
  <2> QED
    BY <1>3, <1>6, <2>2 DEF Listens
<1>10. Store(q, bound, {})
  BY <1>4, <1>7, <1>8, <1>9 DEF Store
<1> QED
  BY <1>1, <1>5, <1>10

(* It all holds at the beginning.                                          *)
LEMMA InitHolds ==
  ASSUME Init
  PROVE  Holds
<1>1. Tree
  BY InitTree
<1>2. Store(Now, bound, {}) /\ \A n \in Nodes : ~HasEntry(Now, n)
  BY InitStore
<1>3. /\ program \in Programs /\ bound = <<>> /\ events = <<>>
      /\ started = 0 /\ ops = 0
  BY DEF Init
<1>4. bound \in BoundSet
  BY <1>3 DEF BoundSet
<1>5. EventsTyped
  BY <1>3 DEF EventsTyped
<1>6. \A n \in Items \ born : ~HasEntry(Now, n)
  BY <1>2, NodesApart
<1>7. Base
  BY <1>1, <1>2, <1>3, <1>4, <1>5, <1>6 DEF Base
<1>8. NoLeak
  BY <1>2 DEF NoLeak
<1> QED
  BY <1>7, <1>8 DEF Holds

(***************************************************************************)
(* What follows                                                            *)
(***************************************************************************)
LEMMA HoldsData ==
  ASSUME Holds
  PROVE  DataHeld
<1>1. Base /\ NoLeak /\ Tree
  BY DEF Holds, Base
<1>2. Store(Now, bound, {}) /\ EventsTyped
  BY <1>1 DEF Base
<1>3. PICK q \in Jq : q = Now
  BY <1>2 DEF Store
<1>4. /\ q.id = id /\ q.cache = cache /\ q.deletedIds = deletedIds
      /\ q.guid = guid /\ q.listening = listening
      /\ q.attaches = attaches /\ q.capture = capture
  BY <1>3, NowIs
<1>5. Ids(q)
  BY <1>2, <1>3 DEF Store
<1>6. /\ id \in [Nodes -> Nat] /\ cache \in [DOMAIN cache -> EntrySet]
      /\ DOMAIN cache \subseteq Nat /\ deletedIds \in Seq(Nat) /\ guid \in Nat
      /\ listening \subseteq Nodes \X Types /\ attaches \in Nat
      /\ capture \in BOOLEAN
  BY <1>4, JqFields
<1>7. /\ \A m, n \in Nodes : id[m] = id[n] /\ id[m] # NoId => m = n
      /\ \A n \in Nodes : id[n] # NoId => id[n] \in DOMAIN cache
      /\ \A i \in DOMAIN cache : i # NoId /\ \E n \in Nodes : id[n] = i
      /\ \A n \in Nodes : id[n] < guid
      /\ \A k \in DOMAIN deletedIds : /\ deletedIds[k] # NoId
                                      /\ deletedIds[k] \notin DOMAIN cache
      /\ \A j, k \in DOMAIN deletedIds : deletedIds[j] = deletedIds[k] => j = k
  BY <1>4, <1>5 DEF Ids
<1>8. id \in [Nodes -> 0..guid]
  <2>1. \A n \in Nodes : id[n] \in 0..guid
    BY <1>6, <1>7
  <2> QED
    BY <1>6, <2>1
<1>9. DOMAIN cache \subseteq 1..guid
  <2>1. ASSUME NEW i \in DOMAIN cache PROVE i \in 1..guid
    BY <1>6, <1>7 DEF NoId
  <2> QED
    BY <2>1
<1>10. \A i \in DOMAIN cache : DOMAIN cache[i].events \subseteq Types
  <2> TAKE i \in DOMAIN cache
  <2>1. cache[i] \in EntrySet
    BY <1>6
  <2>2. cache[i].events \in EventsSet
    BY <2>1 DEF EntrySet
  <2> QED
    BY <2>2, EventsIn
<1>11. Top.k \in {"none", "path", "queue", "called"}
  <2>1. CASE Top.k = "none"
    BY <2>1
  <2>2. CASE Top.k # "none"
    <3>1. EventOk(Top)
      BY <1>2, <2>2, TopIs
    <3> QED
      BY <3>1, EventFields
  <2> QED
    BY <2>1, <2>2
<1>12. TypeOK
  BY <1>1, <1>6, <1>8, <1>9, <1>10, <1>11 DEF TypeOK, Tree
<1>13. IdsApart
  <2>1. IsInjective(deletedIds)
    BY <1>7 DEF IsInjective
  <2>2. \A x : x \in Range(id) => \E n \in Nodes : x = id[n]
    BY <1>6 DEF Range
  <2>3. \A x : x \in Range(deletedIds) =>
          \E k \in DOMAIN deletedIds : x = deletedIds[k]
    BY DEF Range
  <2>4. Range(deletedIds) \cap (Range(id) \cup DOMAIN cache) = {}
    BY <1>7, <2>2, <2>3
  <2>5. DOMAIN cache \subseteq Range(id)
    BY <1>6, <1>7 DEF Range
  <2> QED
    BY <1>7, <2>1, <2>4, <2>5 DEF IdsApart
<1> QED
  BY <1>1, <1>12, <1>13 DEF DataHeld

(* Listeners are where handlers are.                                       *)
LEMMA HoldsHeard ==
  ASSUME Holds
  PROVE  Heard
<1>1. Store(Now, bound, {})
  BY DEF Holds, Base
<1>2. PICK q \in Jq : q = Now
  BY <1>1 DEF Store
<1>3. /\ q.id = id /\ q.cache = cache /\ q.listening = listening
      /\ q.attaches = attaches /\ q.capture = capture
  BY <1>2, NowIs
<1>4. Ids(q) /\ Lists(q, bound, {}) /\ Listens(q)
  BY <1>1, <1>2 DEF Store
<1>5. \A n \in Nodes, t \in Types \ {"focusin"} :
        <<n, t>> \in listening <=> t \in DOMAIN Entry(Now, n).events
  BY <1>2, <1>3, <1>4 DEF Listens, EventsOf
<1>6. capture <=> attaches > 0
  BY <1>3, <1>4 DEF Listens
<1>7. ASSUME NEW n \in Nodes, "focusin" \in DOMAIN Entry(Now, n).events
      PROVE  capture
  <2>1. n \in Focused(q)
    BY <1>2, <1>7 DEF Focused, EventsOf
  <2>2. IsFiniteSet(Focused(q)) /\ Cardinality(Focused(q)) \in Nat
    BY FocusedFinite
  <2>3. Cardinality(Focused(q)) # 0
    BY <2>1, <2>2, FS_EmptySet
  <2>4. attaches \in Nat /\ Cardinality(Focused(q)) <= attaches
    BY <1>3, <1>4, JqFields DEF Listens
  <2> QED
    BY <1>6, <2>2, <2>3, <2>4
<1>8. ASSUME NEW i \in DOMAIN cache, NEW t \in DOMAIN cache[i].events
      PROVE  /\ cache[i].events[t].list # <<>>
             /\ \A k \in DOMAIN cache[i].events[t].list :
                  cache[i].events[t].list[k].delegated
                    <=> k <= cache[i].events[t].delegateCount
  <2>1. PICK n \in Nodes : q.id[n] = i /\ i # NoId
    BY <1>3, <1>4, <1>8 DEF Ids
  <2>2. EventsOf(q, n) = cache[i].events
    BY <1>3, <2>1 DEF EventsOf, Entry, HasEntry
  <2>3. ListOk(bound, {}, n, t, EventsOf(q, n)[t])
    BY <1>4, <1>8, <2>2 DEF Lists
  <2> QED
    BY <2>2, <2>3 DEF ListOk, InOrder
<1> QED
  BY <1>5, <1>6, <1>7, <1>8 DEF Heard

(***************************************************************************)
(* The steps together                                                      *)
(***************************************************************************)
LEMMA NextHolds ==
  ASSUME Holds, [Next]_vars
  PROVE  Holds'
<1>1. ASSUME Runs
      PROVE  Holds'
  BY <1>1, VisitHolds, CallHolds DEF Runs
<1>2. ASSUME Page
      PROVE  Holds'
  <2>1. CASE \E n \in Nodes, b \in program.binds : On(n, b)
    BY <2>1, OnHolds
  <2>2. CASE \E n \in Nodes, o \in Offs : Off(n, o)
    BY <2>2, OffHolds
  <2>3. CASE \E n \in Nodes : SetData(n) \/ AllData(n) \/ RemoveData(n)
    BY <2>3, DataHolds, RemoveDataHolds
  <2>4. CASE \E new \in Items : Html(Box, new)
    BY <2>4, HtmlHolds
  <2>5. CASE \E n \in Items, keepData \in BOOLEAN : RemoveNode(n, keepData)
    BY <2>5, RemoveHolds
  <2>6. CASE \E n \in Items, to \in Nodes : AppendTo(n, to)
    BY <2>6, AppendHolds
  <2>7. CASE \E n \in Items, new \in Items : Clone(n, new)
    BY <2>7, CloneHolds
  <2>8. CASE \E n \in Nodes, t \in {"click", "mouseenter"} : Trigger(n, t)
    BY <2>8, TriggerHolds
  <2> QED
    BY <1>2, <2>1, <2>2, <2>3, <2>4, <2>5, <2>6, <2>7, <2>8 DEF Page
<1>3. ASSUME Browser
      PROVE  Holds'
  BY <1>3, NativeHolds DEF Browser
<1>4. ASSUME UNCHANGED vars
      PROVE  Holds'
  <2>1. UNCHANGED <<program, parent, born, jq, events, bound, kept, started, ops>>
    BY <1>4 DEF vars
  <2>2. EventsTyped' /\ started' \in Nat /\ ops' \in Nat
    BY <2>1, EventsSame DEF Holds, Base
  <2> QED
    BY <2>1, <2>2, RunQuiet
<1> QED
  BY <1>1, <1>2, <1>3, <1>4 DEF Next

(* The inductive invariant.                                                *)
LEMMA AlwaysHolds == Spec => []Holds
<1>1. Init => Holds
  BY InitHolds
<1>2. Holds /\ [Next]_vars => Holds'
  BY NextHolds
<1> QED
  BY <1>1, <1>2, PTL DEF Spec

(* What jQuery keeps for an element is that element's and nobody else's,   *)
(* though ids are used again, and nothing is kept for an element that      *)
(* html() or remove() took out of the page (internalData, cleanData).      *)
THEOREM DataIsHeld == Spec => []DataHeld
<1>1. Holds => DataHeld
  BY HoldsData
<1> QED
  BY <1>1, AlwaysHolds, PTL

(* A node listens natively for a type exactly when handlers of that type   *)
(* are kept for it, the document catches focus while there are handlers of *)
(* focusin, and delegated handlers come first and are counted (add,        *)
(* remove, cleanData).                                                     *)
THEOREM HandlersAreHeard == Spec => []Heard
<1>1. Holds => Heard
  BY HoldsHeard
<1> QED
  BY <1>1, AlwaysHolds, PTL

(***************************************************************************)
(* Events call what was bound when they started: the history goes on       *)
(***************************************************************************)
Grows(bd, bd2) == \A u \in DOMAIN bd : u \in DOMAIN bd2 /\ bd2[u] = bd[u]

(* What is taken off from now on is off for the events to come.            *)
Later ==
  /\ Grows(bound, bound')
  /\ started \in Nat /\ started' \in Nat /\ started <= started'
  /\ \A o \in offs' : o \in offs \/ o[2] = started

(* A handler was bound to a node whatever is bound later.                  *)
LEMMA RegisteredLater ==
  ASSUME NEW bd, NEW bd2, Grows(bd, bd2), NEW n, NEW t, NEW b,
         Registered(bd, n, t, b)
  PROVE  Registered(bd2, n, t, b)
  BY DEF Registered, Grows

(* So the queue of an event stays right.                                   *)
LEMMA QueueLater ==
  ASSUME NEW bd, NEW bd2, Grows(bd, bd2), NEW e, QueueOk(bd, e)
  PROVE  QueueOk(bd2, e)
  BY RegisteredLater DEF QueueOk

(* An event stays right: what is taken off now is off for events that      *)
(* start later.                                                            *)
LEMMA EventLater ==
  ASSUME Later, NEW e, e.n \in Nat, EventRight(e, bound, offs, started)
  PROVE  EventRight(e, bound', offs', started')
<1>1. QueueOk(bound', e)
  BY QueueLater DEF Later, EventRight
<1>2. PathOk(e) /\ e.n <= started
  BY DEF EventRight
<1>3. e.n <= started'
  BY <1>2 DEF Later
<1>4. ASSUME NEW o \in offs', e.n > o[2], NEW elem \in Nodes
      PROVE  ~InQueue(e, elem, o[1])
  <2>1. CASE o \in offs
    BY <1>4, <2>1 DEF EventRight
  <2>2. CASE o[2] = started
    BY <1>2, <1>4, <2>2 DEF Later
  <2> QED
    BY <2>1, <2>2 DEF Later
<1> QED
  BY <1>1, <1>2, <1>3, <1>4 DEF EventRight

(* What was called was bound whatever is bound later.                      *)
LEMMA LogLater ==
  ASSUME Later, NEW l, l.n \in Nat, LogOk(l, bound, started)
  PROVE  LogOk(l, bound', started')
<1>1. Registered(bound', l.at, LogType(l), l.b)
  BY RegisteredLater DEF Later, LogOk
<1>2. l.n <= started'
  BY DEF Later, LogOk
<1> QED
  BY <1>1, <1>2 DEF LogOk

(* The types of what was called.                                           *)
LEMMA LogIn ==
  ASSUME LogHolds, NEW k \in DOMAIN log
  PROVE  /\ log[k].n \in Nat /\ log[k].at \in Nodes /\ log[k].elem \in Nodes
         /\ log[k].b \in HandlerSet
         /\ LogOk(log[k], bound, started)
<1>1. PICK A : A = [n : Nat, at : Nodes, elem : Nodes, b : HandlerSet]
  OBVIOUS
<1>2. log \in Seq(A)
  BY <1>1 DEF LogHolds, LogSet
<1>3. log[k] \in A
  BY <1>2
<1> QED
  BY <1>1, <1>3 DEF LogHolds

(* Nothing is called.                                                      *)
LEMMA CalledLater ==
  ASSUME Later, LogHolds, CalledRight, UNCHANGED log
  PROVE  CalledRight'
<1>1. ASSUME NEW k \in DOMAIN log, NEW o \in offs', o[1] = log[k].b.uid
      PROVE  log[k].n <= o[2]
  <2>1. CASE o \in offs
    BY <1>1, <2>1 DEF CalledRight, OffIsOff
  <2>2. CASE o[2] = started
    BY <2>2, LogIn DEF LogOk
  <2> QED
    BY <2>1, <2>2 DEF Later
<1>2. OffIsOff'
  BY <1>1 DEF OffIsOff
<1>3. \A i \in DOMAIN log : bound'[log[i].b.uid].node = log[i].at
  <2> TAKE i \in DOMAIN log
  <2>1. Registered(bound, log[i].at, LogType(log[i]), log[i].b)
    BY LogIn DEF LogOk
  <2> QED
    BY <2>1, RegisteredLater DEF Registered, Later
<1>4. \A i, j \in DOMAIN log :
        /\ log[i].b.delegated <=> log[i].elem # log[i].at
        /\ i # j => \/ log[i].n # log[j].n
                    \/ log[i].elem # log[j].elem
                    \/ log[i].b.uid # log[j].b.uid
  BY DEF CalledRight, CalledOnce
<1>5. CalledOnce'
  BY <1>3, <1>4 DEF CalledOnce
<1> QED
  BY <1>2, <1>5 DEF CalledRight

(* Nothing happens to the events under way.                                *)
LEMMA QuietLater ==
  ASSUME Later, EventsTyped, EventsHold, LogHolds, CalledRight,
         UNCHANGED <<events, log>>
  PROVE  EventsHold' /\ LogHolds' /\ CalledRight'
<1>1. ASSUME NEW j \in DOMAIN events
      PROVE  EventRight(events[j], bound', offs', started')
  <2>1. events[j].n \in Nat
    BY EventFields DEF EventsTyped
  <2> QED
    BY <2>1, EventLater DEF EventsHold
<1>2. \A j, k \in DOMAIN events :
        events[j].n = events[k].n /\ events[j].type = events[k].type => j = k
  BY DEF EventsHold
<1>3. EventsHold'
  BY <1>1, <1>2 DEF EventsHold
<1>4. ASSUME NEW k \in DOMAIN log
      PROVE  /\ LogOk(log[k], bound', started')
             /\ \A j \in DOMAIN events :
                  OneOf(log[k], events[j]) => Called(log[k], events[j])
  BY LogIn, LogLater DEF LogHolds
<1>5. log \in LogSet
  BY DEF LogHolds
<1>6. LogHolds'
  BY <1>4, <1>5 DEF LogHolds
<1> QED
  BY <1>3, <1>6, CalledLater

(***************************************************************************)
(* The running event goes on                                               *)
(***************************************************************************)
Follows(e) ==
  /\ e \in EventSet
  /\ e.n = Top.n
  /\ e.type = Top.type
  /\ EventRight(e, bound', offs', started')
  /\ \A l : Called(l, Top) => Called(l, e)

(* The running event is replaced by one that follows from it: what was     *)
(* called stays called.                                                    *)
LEMMA EventsReplaced ==
  ASSUME Later, EventsTyped, EventsHold, LogHolds, Top.k # "none",
         NEW e, Follows(e), Replace(e)
  PROVE  /\ EventsHold'
         /\ \A k \in DOMAIN log :
              /\ LogOk(log[k], bound', started')
              /\ \A j \in DOMAIN events' :
                   OneOf(log[k], events'[j]) => Called(log[k], events'[j])
<1>1. Replaced(events, events', e)
  BY ReplaceIs DEF Follows
<1>2. Top = events[1] /\ 1 \in DOMAIN events
  BY TopIs
<1>3. PICK es : es = events'
  OBVIOUS
<1>4. /\ DOMAIN es = DOMAIN events
      /\ es[1] = e
      /\ \A j \in DOMAIN events : j # 1 => es[j] = events[j]
  BY <1>1, <1>3 DEF Replaced
<1>5. ASSUME NEW j \in DOMAIN events
      PROVE  /\ EventRight(es[j], bound', offs', started')
             /\ es[j].n = events[j].n
             /\ es[j].type = events[j].type
             /\ \A l : Called(l, events[j]) => Called(l, es[j])
  <2>1. CASE j = 1
    BY <1>2, <1>4, <2>1 DEF Follows
  <2>2. CASE j # 1
    <3>1. es[j] = events[j]
      BY <1>4, <2>2
    <3>2. events[j].n \in Nat
      BY EventFields DEF EventsTyped
    <3>3. EventRight(events[j], bound', offs', started')
      BY <3>2, EventLater DEF EventsHold
    <3> QED
      BY <3>1, <3>3
  <2> QED
    BY <2>1, <2>2
<1>6. \A j, k \in DOMAIN es :
        es[j].n = es[k].n /\ es[j].type = es[k].type => j = k
  BY <1>4, <1>5 DEF EventsHold
<1>7. EventsHold'
  BY <1>3, <1>4, <1>5, <1>6 DEF EventsHold
<1>8. ASSUME NEW k \in DOMAIN log
      PROVE  LogOk(log[k], bound', started')
  BY LogIn, LogLater
<1>9. ASSUME NEW k \in DOMAIN log, NEW j \in DOMAIN es, OneOf(log[k], es[j])
      PROVE  Called(log[k], es[j])
  <2>1. j \in DOMAIN events /\ OneOf(log[k], events[j])
    BY <1>4, <1>5, <1>9 DEF OneOf
  <2>2. Called(log[k], events[j])
    BY <2>1 DEF LogHolds
  <2> QED
    BY <1>5, <2>1, <2>2
<1> QED
  BY <1>3, <1>7, <1>8, <1>9

(* So the history stays right when nothing is called.                      *)
LEMMA RunLater ==
  ASSUME Later, EventsTyped, EventsHold, LogHolds, CalledRight,
         Top.k # "none", NEW e, Follows(e), Replace(e), UNCHANGED log
  PROVE  EventsHold' /\ LogHolds' /\ CalledRight'
<1>1. /\ EventsHold'
      /\ \A k \in DOMAIN log :
           /\ LogOk(log[k], bound', started')
           /\ \A j \in DOMAIN events' :
                OneOf(log[k], events'[j]) => Called(log[k], events'[j])
  BY EventsReplaced
<1>2. log \in LogSet
  BY DEF LogHolds
<1>3. LogHolds'
  BY <1>1, <1>2 DEF LogHolds
<1> QED
  BY <1>1, <1>3, CalledLater

(* The queue got shorter, or was given up.                                 *)
Shorter(q, q2) ==
  \A elem, u :
    (\E g \in DOMAIN q2 : /\ q2[g].elem = elem
                          /\ \E h \in DOMAIN q2[g].hs : q2[g].hs[h].uid = u)
    => \E g \in DOMAIN q : /\ q[g].elem = elem
                           /\ \E h \in DOMAIN q[g].hs : q[g].hs[h].uid = u

(* What is in the shorter queue was in the longer.                         *)
LEMMA ShorterIn ==
  ASSUME NEW e, NEW e2, Shorter(e.queue, e2.queue)
  PROVE  \A elem, u : InQueue(e2, elem, u) => InQueue(e, elem, u)
  BY DEF Shorter, InQueue

(* What was called stays called while the queue gets shorter, when it is   *)
(* given up and when the next is made.                                     *)
LEMMA CalledOn ==
  ASSUME NEW e, NEW e2, e2.path = e.path, e.i \in Nat, DOMAIN e.path \subseteq Nat,
         \/ e2.i = e.i /\ e2.k # "path" /\ Shorter(e.queue, e2.queue)
         \/ e2.i = e.i + 1
         \/ e2.i = e.i /\ e.k = "path"
  PROVE  \A l : Called(l, e) => Called(l, e2)
<1> TAKE l
<1>1. SUFFICES ASSUME Called(l, e) PROVE Called(l, e2)
  OBVIOUS
<1>2. PICK j \in DOMAIN e.path :
        /\ e.path[j] = l.at
        /\ \/ j < e.i
           \/ j = e.i /\ e.k # "path" /\ ~InQueue(e, l.elem, l.b.uid)
  BY <1>1 DEF Called
<1>3. j \in Nat /\ j \in DOMAIN e2.path /\ e2.path[j] = l.at
  BY <1>2
<1>4. CASE e2.i = e.i /\ e2.k # "path" /\ Shorter(e.queue, e2.queue)
  <2>1. j < e.i => j < e2.i
    BY <1>4
  <2>2. j = e.i /\ ~InQueue(e, l.elem, l.b.uid) =>
          j = e2.i /\ ~InQueue(e2, l.elem, l.b.uid)
    BY <1>4, ShorterIn
  <2> QED
    BY <1>2, <1>3, <1>4, <2>1, <2>2 DEF Called
<1>5. CASE e2.i = e.i + 1
  <2>1. j < e2.i
    BY <1>2, <1>3, <1>5
  <2> QED
    BY <1>3, <2>1 DEF Called
<1>6. CASE e2.i = e.i /\ e.k = "path"
  <2>1. j < e2.i
    BY <1>2, <1>6
  <2> QED
    BY <1>3, <2>1 DEF Called
<1> QED
  BY <1>4, <1>5, <1>6

(***************************************************************************)
(* What was taken off is in no list                                        *)
(***************************************************************************)
Listed(q, u) ==
  \E n \in Nodes : \E t \in DOMAIN EventsOf(q, n) :
    \E k \in DOMAIN EventsOf(q, n)[t].list : EventsOf(q, n)[t].list[k].uid = u

GoesOff(us) ==
  /\ Gone(us)
  /\ us \subseteq DOMAIN bound
  /\ \A u \in us : ~Listed(Now', u)

(* The types of what was bound.                                            *)
LEMMA BoundIn ==
  ASSUME Base
  PROVE  /\ DOMAIN bound \subseteq Nat
         /\ started \in Nat
         /\ \A u \in DOMAIN bound : bound[u].node \in Nodes /\ bound[u].b \in HandlerSet
<1>1. PICK A : A = [node : Nodes, b : HandlerSet]
  OBVIOUS
<1>2. bound \in Seq(A) /\ started \in Nat
  BY <1>1 DEF Base, BoundSet
<1>3. DOMAIN bound \subseteq Nat /\ \A u \in DOMAIN bound : bound[u] \in A
  BY <1>2
<1> QED
  BY <1>1, <1>2, <1>3

(* What is kept, with what was taken off.                                  *)
LEMMA DeadIn ==
  ASSUME Base, OffHeld
  PROVE  /\ Dead \subseteq DOMAIN bound
         /\ Store(Now, bound, Dead)
<1>1. Dead \subseteq DOMAIN bound
  BY DEF Dead, OffHeld
<1>2. Store(Now, bound, Dead)
  BY DEF Base, OffHeld, Store
<1> QED
  BY <1>1, <1>2

(* What is not listed is off.                                              *)
LEMMA ListsLess ==
  ASSUME NEW bd, NEW dead, NEW us, NEW q, Lists(q, bd, dead),
         \A u \in us : ~Listed(q, u)
  PROVE  Lists(q, bd, dead \cup us)
<1> SUFFICES ASSUME NEW n \in Nodes, NEW t \in DOMAIN EventsOf(q, n)
             PROVE  ListOk(bd, dead \cup us, n, t, EventsOf(q, n)[t])
  BY DEF Lists
<1>1. PICK hs : hs = EventsOf(q, n)[t]
  OBVIOUS
<1>2. ListOk(bd, dead, n, t, hs)
  BY <1>1 DEF Lists
<1>3. \A k \in DOMAIN hs.list : hs.list[k].uid \notin us
  BY <1>1 DEF Listed
<1>4. InOrder(bd, dead \cup us, n, t, hs)
  BY <1>2, <1>3 DEF ListOk, InOrder
<1> QED
  BY <1>1, <1>2, <1>4 DEF ListOk

(* The history of what was taken off.                                      *)
LEMMA GoneIs ==
  ASSUME Base, OffHeld, NEW us, us \subseteq DOMAIN bound, Gone(us)
  PROVE  /\ \A o \in offs' : o \in offs \/ (o[1] \in us /\ o[2] = started)
         /\ Dead' = Dead \cup us
<1>1. offs' = offs \cup (us \X {started})
  BY DEF Gone
<1>4. \A o \in offs' : o \in offs \/ (o[1] \in us /\ o[2] = started)
  BY <1>1
<1>5. Dead' \subseteq Dead \cup us
  BY <1>4 DEF Dead
<1>6. ASSUME NEW u \in Dead \cup us
      PROVE  u \in Dead'
  <2>1. CASE u \in Dead
    BY <1>1, <2>1 DEF Dead
  <2>2. CASE u \in us
    <3>1. <<u, started>> \in offs'
      BY <1>1, <2>2
    <3>2. <<u, started>>[1] = u
      OBVIOUS
    <3> QED
      BY <3>1, <3>2 DEF Dead
  <2> QED
    BY <2>1, <2>2
<1> QED
  BY <1>4, <1>5, <1>6

(* A step on what jQuery keeps after which us is off.                      *)
LEMMA OffStep ==
  ASSUME Base, OffHeld, Grows(bound, bound'), UNCHANGED started,
         Store(Now', bound', Dead), NEW us, GoesOff(us)
  PROVE  OffHeld' /\ Later
<1>1. /\ us \subseteq DOMAIN bound /\ Gone(us)
      /\ \A u \in us : ~Listed(Now', u)
  BY DEF GoesOff
<1>2. /\ \A o \in offs' : o \in offs \/ (o[1] \in us /\ o[2] = started)
      /\ Dead' = Dead \cup us
  BY <1>1, GoneIs
<1>3. PICK q, dead : q = Now' /\ dead = Dead
  OBVIOUS
<1>4. Lists(q, bound', dead)
  BY <1>3 DEF Store
<1>5. Lists(q, bound', dead \cup us)
  BY <1>1, <1>3, <1>4, ListsLess
<1>6. Lists(Now, bound, Dead)'
  BY <1>2, <1>3, <1>5
<1>7. \A o \in offs' : o[1] \in DOMAIN bound' /\ o[2] \in Nat
  BY <1>1, <1>2, BoundIn DEF OffHeld, Grows
<1>8. OffHeld'
  BY <1>2, <1>6, <1>7 DEF OffHeld
<1>9. started \in Nat /\ started <= started
  BY BoundIn
<1> QED
  BY <1>2, <1>8, <1>9 DEF Later

(* Nothing is taken off.                                                   *)
LEMMA NoneOff ==
  ASSUME UNCHANGED offs
  PROVE  GoesOff({})
  BY DEF GoesOff, Gone

(* Nothing happens to what jQuery keeps.                                   *)
LEMMA OffQuiet ==
  ASSUME Base, OffHeld, UNCHANGED <<jq, bound, offs>>, started' \in Nat,
         started <= started'
  PROVE  OffHeld' /\ Later
<1>1. Now' = Now
  BY SetSame
<1>2. Dead' = Dead
  BY DEF Dead
<1>3. OffHeld'
  BY <1>1, <1>2 DEF OffHeld
<1>4. Later
  BY BoundIn DEF Later, Grows
<1> QED
  BY <1>3, <1>4

(* on() and one().                                                         *)
LEMMA OnOff ==
  ASSUME Base, OffHeld, NEW n \in Nodes, NEW b \in program.binds, On(n, b)
  PROVE  OffHeld' /\ Later
<1>1. PICK dead : dead = Dead
  OBVIOUS
<1>2. Store(Now, bound, dead) /\ dead \subseteq DOMAIN bound
  BY <1>1, DeadIn
<1>3. Store(Now', bound', Dead) /\ Grows(bound, bound')
  BY <1>1, <1>2, OnStore DEF Grows
<1>4. UNCHANGED <<started, offs>>
  BY DEF On
<1> QED
  BY <1>3, <1>4, NoneOff, OffStep

(* clone(): the copies are new handlers.                                   *)
LEMMA CloneOff ==
  ASSUME Base, OffHeld, NEW n \in Items, NEW new \in Items, Clone(n, new)
  PROVE  OffHeld' /\ Later
<1>1. PICK dead : dead = Dead
  OBVIOUS
<1>2. Store(Now, bound, dead) /\ dead \subseteq DOMAIN bound
  BY <1>1, DeadIn
<1>3. Store(Now', bound', Dead) /\ Grows(bound, bound')
  BY <1>1, <1>2, CloneOk DEF Grows
<1>4. UNCHANGED <<started, offs>>
  BY DEF Clone
<1> QED
  BY <1>3, <1>4, NoneOff, OffStep

(* data() and removeData().                                                *)
LEMMA DataOff ==
  ASSUME Base, OffHeld, NEW n \in Nodes, SetData(n) \/ AllData(n) \/ RemoveData(n)
  PROVE  OffHeld' /\ Later
<1>1. PICK bd, dead : bd = bound /\ dead = Dead
  OBVIOUS
<1>2. Store(Now, bd, dead)
  BY <1>1, DeadIn
<1>3. Store(Now', bd, dead)
  BY <1>2, SetDataOk, RemoveDataOk
<1>4. UNCHANGED <<started, offs, bound>>
  BY DEF SetData, AllData, RemoveData
<1>5. Store(Now', bound', Dead) /\ Grows(bound, bound')
  BY <1>1, <1>3, <1>4 DEF Grows
<1> QED
  BY <1>4, <1>5, NoneOff, OffStep

(* What is listed is listed for the node it was bound to.                  *)
LEMMA ListedIs ==
  ASSUME NEW bd, NEW dead, NEW q, Store(q, bd, dead), NEW u, Listed(q, u)
  PROVE  \E n \in Nodes, t \in Types : \E c \in KeptOf(q, n, t) :
           /\ c.uid = u
           /\ c \in HandlerSet
           /\ Registered(bd, n, t, c)
           /\ HasEntry(q, n)
<1>1. PICK n \in Nodes : \E t \in DOMAIN EventsOf(q, n) :
        \E k \in DOMAIN EventsOf(q, n)[t].list : EventsOf(q, n)[t].list[k].uid = u
  BY DEF Listed
<1>2. PICK t \in DOMAIN EventsOf(q, n) :
        \E k \in DOMAIN EventsOf(q, n)[t].list : EventsOf(q, n)[t].list[k].uid = u
  BY <1>1
<1>3. PICK k \in DOMAIN EventsOf(q, n)[t].list : EventsOf(q, n)[t].list[k].uid = u
  BY <1>2
<1>4. PICK c : c = EventsOf(q, n)[t].list[k]
  OBVIOUS
<1>5. c \in KeptOf(q, n, t)
  BY <1>4, KeptIs
<1>6. c \in HandlerSet /\ Registered(bd, n, t, c)
  BY <1>5, UidsIn
<1>7. t \in Types /\ HasEntry(q, n)
  BY StoreParts
<1> QED
  BY <1>3, <1>4, <1>5, <1>6, <1>7

(* off(): what the history says is off has matched, under the type it is   *)
(* kept under.                                                             *)
LEMMA OffOff ==
  ASSUME Base, OffHeld, NEW n \in Nodes, NEW o \in Offs, Off(n, o),
         o.origType = "focus" => o.selector
  PROVE  OffHeld' /\ Later
<1>1. PICK us : us = {u \in OfNodes({n}) :
                        /\ o.origType \in {"any", bound[u].b.origType}
                        /\ o.handler \in {"any", bound[u].b.handler}
                        /\ o.ns \in {"any", bound[u].b.ns}
                        /\ o.selector => bound[u].b.delegated}
  OBVIOUS
<1>2. Gone(us) /\ Set(EventRemove(Now, n, o)) /\ UNCHANGED <<started, bound>>
  BY <1>1 DEF Off
<1>3. us \subseteq DOMAIN bound
  BY <1>1 DEF OfNodes
<1>4. PICK bd, dead : bd = bound /\ dead = Dead
  OBVIOUS
<1>5. Store(Now, bd, dead)
  BY <1>4, DeadIn
<1>6. /\ o.origType \in OrigTypes \cup {"any"}
      /\ o.selector \in BOOLEAN
  BY OffsIn, DomAssumption
<1>7. PICK q : q = Now'
  OBVIOUS
<1>8. /\ Store(q, bd, dead)
      /\ q = EventRemove(Now, n, o)
  BY <1>2, <1>5, <1>6, <1>7, RemovedOk
<1>9. /\ o.origType # "any"
           => Without(q, n, Mapped(o.origType, o.selector), o)
      /\ o.origType = "any"
           => \A t \in Types : Without(q, n, t, [o EXCEPT !.mapped = TRUE])
  BY <1>5, <1>6, <1>8, EventRemoveOk
<1>10. ASSUME NEW u \in us, Listed(q, u)
       PROVE  FALSE
  <2>1. PICK m \in Nodes, t \in Types : \E c \in KeptOf(q, m, t) :
          /\ c.uid = u
          /\ c \in HandlerSet
          /\ Registered(bd, m, t, c)
    BY <1>8, <1>10, ListedIs
  <2>2. PICK c \in KeptOf(q, m, t) :
          /\ c.uid = u
          /\ c \in HandlerSet
          /\ Registered(bd, m, t, c)
    BY <2>1
  <2>3. m = n
    BY <1>1, <1>4, <2>2 DEF Registered, OfNodes
  <2>4. /\ o.origType \in {"any", c.origType}
        /\ o.handler \in {"any", c.handler}
        /\ o.ns \in {"any", c.ns}
        /\ o.selector => c.delegated
    BY <1>1, <1>4, <2>2 DEF Registered, Same
  <2>5. CASE o.origType = "any"
    <3>1. PICK o2 : o2 = [o EXCEPT !.mapped = TRUE]
      OBVIOUS
    <3>2. o2.mapped /\ o2.handler = o.handler /\ o2.ns = o.ns /\ o2.selector = o.selector
      BY <3>1, DomAssumption
    <3>3. Matches(c, o2)
      BY <2>4, <3>2 DEF Matches
    <3>4. Without(q, n, t, o2)
      BY <1>9, <2>5, <3>1
    <3> QED
      BY <2>2, <2>3, <3>3, <3>4 DEF Without
  <2>6. CASE o.origType # "any"
    <3>1. o.origType = c.origType
      BY <2>4, <2>6
    <3>2. Matches(c, o)
      BY <2>4, <3>1 DEF Matches
    <3>3. t = Mapped(c.origType, c.delegated) /\ c.delegated \in BOOLEAN
      BY <2>2 DEF Registered, HandlerSet
    <3>4. Mapped(o.origType, o.selector) = t
      <4>1. CASE o.selector
        BY <2>4, <3>1, <3>3, <4>1 DEF Mapped
      <4>2. CASE ~o.selector
        <5>1. o.origType # "focus"
          BY <4>2
        <5> QED
          BY <3>1, <3>3, <5>1 DEF Mapped
      <4> QED
        BY <4>1, <4>2
    <3>5. Without(q, n, t, o)
      BY <1>9, <2>6, <3>4
    <3> QED
      BY <2>2, <2>3, <3>2, <3>5 DEF Without
  <2> QED
    BY <2>5, <2>6
<1>11. GoesOff(us)
  BY <1>2, <1>3, <1>7, <1>10 DEF GoesOff
<1>12. Store(Now', bound', Dead) /\ Grows(bound, bound')
  BY <1>2, <1>4, <1>7, <1>8 DEF Grows
<1> QED
  BY <1>2, <1>11, <1>12, OffStep

(* html() and remove() clean the elements of S.                            *)
LEMMA CleanOff ==
  ASSUME Base, OffHeld, NEW S \in SUBSET Nodes, Set(CleanAll(Now, S)),
         Gone(OfNodes(S)), UNCHANGED <<started, bound>>
  PROVE  OffHeld' /\ Later
<1>1. PICK bd, dead : bd = bound /\ dead = Dead
  OBVIOUS
<1>2. Store(Now, bd, dead)
  BY <1>1, DeadIn
<1>3. PICK q : q = Now'
  OBVIOUS
<1>4. Cleaned(Now, q, S, bd, dead)
  BY <1>2, <1>3, CleanedIs
<1>5. Store(q, bd, dead) /\ \A n \in S : ~HasEntry(q, n)
  BY <1>4 DEF Cleaned
<1>6. PICK us : us = OfNodes(S)
  OBVIOUS
<1>7. us \subseteq DOMAIN bound
  BY <1>6 DEF OfNodes
<1>8. ASSUME NEW u \in us, Listed(q, u)
      PROVE  FALSE
  <2>1. PICK m \in Nodes, t \in Types : \E c \in KeptOf(q, m, t) :
          /\ c.uid = u
          /\ Registered(bd, m, t, c)
          /\ HasEntry(q, m)
    BY <1>5, <1>8, ListedIs
  <2>2. HasEntry(q, m) /\ bd[u].node = m
    BY <2>1 DEF Registered
  <2> QED
    BY <1>1, <1>5, <1>6, <2>2 DEF OfNodes
<1>9. GoesOff(us)
  BY <1>3, <1>6, <1>7, <1>8 DEF GoesOff
<1>10. Store(Now', bound', Dead) /\ Grows(bound, bound')
  BY <1>1, <1>3, <1>5 DEF Grows
<1> QED
  BY <1>9, <1>10, OffStep

(* html().                                                                 *)
LEMMA HtmlOff ==
  ASSUME Base, OffHeld, NEW new \in Items, Html(Box, new)
  PROVE  OffHeld' /\ Later
<1>1. PICK S : S = Below(Box)
  OBVIOUS
<1>2. S \in SUBSET Nodes
  BY <1>1 DEF Below, GetAll
<1>3. Set(CleanAll(Now, S)) /\ Gone(OfNodes(S)) /\ UNCHANGED <<started, bound>>
  BY <1>1 DEF Html
<1> QED
  BY <1>2, <1>3, CleanOff

(* remove() and detach().                                                  *)
LEMMA RemoveOff ==
  ASSUME Base, OffHeld, NEW n \in Items, NEW keepData \in BOOLEAN,
         RemoveNode(n, keepData)
  PROVE  OffHeld' /\ Later
<1>1. /\ keepData => Set(Now) /\ Gone({})
      /\ ~keepData => Set(CleanAll(Now, GetAll(n))) /\ Gone(OfNodes(GetAll(n)))
      /\ UNCHANGED <<started, bound>>
  BY DEF RemoveNode
<1>2. CASE keepData
  <2>1. Now \in Jq
    BY DEF Base, Store
  <2>2. Now' = Now
    BY <1>1, <1>2, <2>1, SetIs
  <2>3. GoesOff({})
    BY <1>1, <1>2 DEF GoesOff
  <2>4. Store(Now', bound', Dead) /\ Grows(bound, bound')
    BY <1>1, <2>2, DeadIn DEF Grows
  <2> QED
    BY <1>1, <2>3, <2>4, OffStep
<1>3. CASE ~keepData
  <2>1. PICK S : S = GetAll(n)
    OBVIOUS
  <2>2. S \in SUBSET Nodes
    BY <2>1 DEF GetAll
  <2>3. Set(CleanAll(Now, S)) /\ Gone(OfNodes(S))
    BY <1>1, <1>3, <2>1
  <2> QED
    BY <1>1, <2>2, <2>3, CleanOff
<1> QED
  BY <1>2, <1>3

(***************************************************************************)
(* The queue of the running event                                          *)
(***************************************************************************)
(* q2 is q without its first d groups and some first handlers of each.     *)
Within(q, q2, d) ==
  \A g \in DOMAIN q2 :
    /\ g + d \in DOMAIN q
    /\ q2[g].elem = q[g + d].elem
    /\ \E s \in Nat : \A h \in DOMAIN q2[g].hs :
         /\ h + s \in DOMAIN q[g + d].hs
         /\ q2[g].hs[h] = q[g + d].hs[h + s]

(* The types of a queue.                                                   *)
LEMMA GroupIn ==
  ASSUME NEW q \in Seq(GroupSet)
  PROVE  /\ DOMAIN q \subseteq Nat
         /\ \A g \in DOMAIN q : /\ q[g].elem \in Nodes
                                /\ q[g].hs \in Seq(HandlerSet)
                                /\ DOMAIN q[g].hs \subseteq Nat
<1>1. PICK A : A = GroupSet
  OBVIOUS
<1>2. DOMAIN q \subseteq Nat /\ \A g \in DOMAIN q : q[g] \in A
  BY <1>1
<1>3. \A g \in DOMAIN q : q[g].elem \in Nodes /\ q[g].hs \in Seq(HandlerSet)
  BY <1>1, <1>2 DEF GroupSet
<1>4. \A s \in Seq(HandlerSet) : DOMAIN s \subseteq Nat
  OBVIOUS
<1> QED
  BY <1>2, <1>3, <1>4

(* A queue that is part of another is as right, and shorter.               *)
LEMMA WithinOk ==
  ASSUME NEW bd, NEW e, NEW e2, QueueOk(bd, e),
         e.queue \in Seq(GroupSet), e2.queue \in Seq(GroupSet),
         e2.path = e.path /\ e2.i = e.i /\ e2.type = e.type,
         NEW d \in Nat, Within(e.queue, e2.queue, d)
  PROVE  QueueOk(bd, e2) /\ Shorter(e.queue, e2.queue)
<1>1. PICK q, q2 : q = e.queue /\ q2 = e2.queue
  OBVIOUS
<1>2. \A g \in DOMAIN q2 : g \in Nat /\ DOMAIN q2[g].hs \subseteq Nat
  BY <1>1, GroupIn
<1>3. \A g, h \in DOMAIN q : q[g].elem = q[h].elem => g = h
  BY <1>1 DEF QueueOk
<1>4. ASSUME NEW g \in DOMAIN q2, NEW h \in DOMAIN q2, q2[g].elem = q2[h].elem
      PROVE  g = h
  <2>1. g + d \in DOMAIN q /\ h + d \in DOMAIN q /\ q[g + d].elem = q[h + d].elem
    BY <1>1, <1>4 DEF Within
  <2>2. g + d = h + d
    BY <1>3, <2>1
  <2> QED
    BY <1>2, <2>2
<1>5. ASSUME NEW g \in DOMAIN q2
      PROVE  /\ \A h \in DOMAIN q2[g].hs :
                  LET b == q2[g].hs[h]
                  IN /\ Registered(bd, e2.path[e2.i], e2.type, b)
                     /\ b.delegated <=> q2[g].elem # e2.path[e2.i]
             /\ \A h, j \in DOMAIN q2[g].hs :
                  q2[g].hs[h].uid = q2[g].hs[j].uid => h = j
             /\ \A h \in DOMAIN q2[g].hs : \E f \in DOMAIN q :
                  /\ q[f].elem = q2[g].elem
                  /\ \E j \in DOMAIN q[f].hs : q[f].hs[j].uid = q2[g].hs[h].uid
  <2>1. PICK f \in DOMAIN q, s \in Nat :
          /\ q2[g].elem = q[f].elem
          /\ \A h \in DOMAIN q2[g].hs : /\ h + s \in DOMAIN q[f].hs
                                        /\ q2[g].hs[h] = q[f].hs[h + s]
    BY <1>1 DEF Within
  <2>2. /\ \A h \in DOMAIN q[f].hs :
             /\ Registered(bd, e2.path[e2.i], e2.type, q[f].hs[h])
             /\ q[f].hs[h].delegated <=> q[f].elem # e2.path[e2.i]
        /\ \A h, j \in DOMAIN q[f].hs : q[f].hs[h].uid = q[f].hs[j].uid => h = j
    BY <1>1 DEF QueueOk
  <2>3. \A h \in DOMAIN q2[g].hs :
          /\ Registered(bd, e2.path[e2.i], e2.type, q2[g].hs[h])
          /\ q2[g].hs[h].delegated <=> q2[g].elem # e2.path[e2.i]
    BY <2>1, <2>2
  <2>4. \A h, j \in DOMAIN q2[g].hs : q2[g].hs[h].uid = q2[g].hs[j].uid => h = j
    <3> TAKE h, j \in DOMAIN q2[g].hs
    <3>1. HAVE q2[g].hs[h].uid = q2[g].hs[j].uid
    <3>2. h + s = j + s
      BY <2>1, <2>2, <3>1
    <3> QED
      BY <1>2, <2>1, <3>2
  <2>5. \A h \in DOMAIN q2[g].hs : \E j \in DOMAIN q[f].hs :
          q[f].hs[j].uid = q2[g].hs[h].uid
    BY <2>1
  <2> QED
    BY <2>1, <2>3, <2>4, <2>5
<1>6. QueueOk(bd, e2)
  BY <1>1, <1>4, <1>5 DEF QueueOk
<1>7. Shorter(q, q2)
  BY <1>5 DEF Shorter
<1> QED
  BY <1>1, <1>6, <1>7

(* The queue without its first group.                                      *)
LEMMA TailWithin ==
  ASSUME NEW q \in Seq(GroupSet), q # <<>>
  PROVE  Within(q, Tail(q), 1)
<1>1. PICK t : t = Tail(q)
  OBVIOUS
<1>2. \A g \in DOMAIN t : g + 1 \in DOMAIN q /\ t[g] = q[g + 1]
  BY <1>1, TailIn
<1>3. t \in Seq(GroupSet)
  BY <1>1, TailIn
<1>4. ASSUME NEW g \in DOMAIN t
      PROVE  \A h \in DOMAIN t[g].hs : /\ h + 0 \in DOMAIN q[g + 1].hs
                                       /\ t[g].hs[h] = q[g + 1].hs[h + 0]
  <2>1. \A h \in DOMAIN t[g].hs : h + 0 = h
    BY <1>3, GroupIn
  <2> QED
    BY <1>2, <2>1
<1> QED
  BY <1>1, <1>2, <1>4 DEF Within

(* The handlers but the first.                                             *)
LEMMA TailList ==
  ASSUME NEW s \in Seq(HandlerSet), s # <<>>
  PROVE  /\ 1 \in DOMAIN s /\ Head(s) = s[1]
         /\ \A h \in DOMAIN Tail(s) : /\ h \in Nat /\ h > 0
                                      /\ h + 1 \in DOMAIN s
                                      /\ Tail(s)[h] = s[h + 1]
<1>1. 1 \in DOMAIN s /\ Head(s) = s[1]
  OBVIOUS
<1>2. /\ Tail(s) \in Seq(HandlerSet)
      /\ Len(Tail(s)) = Len(s) - 1
      /\ \A h \in 1..Len(Tail(s)) : Tail(s)[h] = s[h + 1]
  BY HeadTailProperties
<1>3. \A h \in DOMAIN Tail(s) : /\ h \in Nat /\ h > 0
                                /\ h + 1 \in DOMAIN s
                                /\ Tail(s)[h] = s[h + 1]
  BY <1>2
<1> QED
  BY <1>1, <1>3

(* The queue without the first handler of its first group.                 *)
LEMMA PoppedWithin ==
  ASSUME NEW q \in Seq(GroupSet), NEW q2, Popped(q, q2), q[1].hs # <<>>
  PROVE  Within(q, q2, 0)
<1>1. \A g \in DOMAIN q2 : g + 0 = g /\ g \in DOMAIN q /\ q2[g].elem = q[g].elem
  BY GroupIn DEF Popped
<1>2. ASSUME NEW g \in DOMAIN q2
      PROVE  \E s \in Nat : \A h \in DOMAIN q2[g].hs :
               /\ h + s \in DOMAIN q[g].hs
               /\ q2[g].hs[h] = q[g].hs[h + s]
  <2>1. CASE g = 1
    <3>1. q[1].hs \in Seq(HandlerSet) /\ q2[1].hs = Tail(q[1].hs)
      BY GroupIn DEF Popped
    <3>2. \A h \in DOMAIN q2[1].hs : /\ h + 1 \in DOMAIN q[1].hs
                                     /\ q2[1].hs[h] = q[1].hs[h + 1]
      BY <3>1, TailList
    <3> QED
      BY <2>1, <3>2
  <2>2. CASE g # 1
    <3>1. q2[g] = q[g] /\ g \in DOMAIN q
      BY <1>1, <2>2 DEF Popped
    <3>2. \A h \in DOMAIN q[g].hs : h + 0 = h
      BY <3>1, GroupIn
    <3>3. \A h \in DOMAIN q2[g].hs : /\ h + 0 \in DOMAIN q[g].hs
                                     /\ q2[g].hs[h] = q[g].hs[h + 0]
      BY <3>1, <3>2
    <3> QED
      BY <3>3
  <2> QED
    BY <2>1, <2>2
<1> QED
  BY <1>1, <1>2 DEF Within

(* The handler that is called is in the queue, and only there.             *)
CallsFirst(bd, e, e2, b) ==
  /\ Registered(bd, e.path[e.i], e.type, b)
  /\ b.delegated <=> e.queue[1].elem # e.path[e.i]
  /\ InQueue(e, e.queue[1].elem, b.uid)
  /\ ~InQueue(e2, e.queue[1].elem, b.uid)

(* For the groups are of different elements, and a group has a handler     *)
(* once.                                                                   *)
LEMMA FirstOf ==
  ASSUME NEW bd, NEW e, QueueOk(bd, e), e.queue \in Seq(GroupSet),
         NEW q, Popped(e.queue, q), e.queue[1].hs # <<>>,
         NEW e2, e2.queue = q, NEW b, b = Head(e.queue[1].hs)
  PROVE  CallsFirst(bd, e, e2, b)
<1>1. 1 \in DOMAIN e.queue
  BY DEF Popped
<1>2. PICK hs : hs = e.queue[1].hs
  OBVIOUS
<1>3. hs \in Seq(HandlerSet) /\ hs # <<>>
  BY <1>1, <1>2, GroupIn
<1>4. 1 \in DOMAIN hs /\ b = hs[1]
  BY <1>2, <1>3, TailList
<1>5. /\ Registered(bd, e.path[e.i], e.type, b)
      /\ b.delegated <=> e.queue[1].elem # e.path[e.i]
  BY <1>1, <1>2, <1>4 DEF QueueOk
<1>6. InQueue(e, e.queue[1].elem, b.uid)
  BY <1>1, <1>2, <1>4 DEF InQueue
<1>7. ASSUME NEW g \in DOMAIN q, q[g].elem = e.queue[1].elem,
             NEW h \in DOMAIN q[g].hs, q[g].hs[h].uid = b.uid
      PROVE  FALSE
  <2>1. g \in DOMAIN e.queue /\ e.queue[g].elem = e.queue[1].elem
    BY <1>7 DEF Popped
  <2>2. g = 1
    BY <1>1, <2>1 DEF QueueOk
  <2>3. q[g].hs = Tail(hs)
    BY <1>2, <2>2 DEF Popped
  <2>4. h \in Nat /\ h > 0 /\ h + 1 \in DOMAIN hs /\ q[g].hs[h] = hs[h + 1]
    BY <1>3, <1>7, <2>3, TailList
  <2>5. hs[h + 1].uid = hs[1].uid
    BY <1>4, <1>7, <2>4
  <2>6. h + 1 = 1
    BY <1>1, <1>2, <1>4, <2>4, <2>5 DEF QueueOk
  <2> QED
    BY <2>4, <2>6
<1>8. ~InQueue(e2, e.queue[1].elem, b.uid)
  BY <1>7 DEF InQueue
<1> QED
  BY <1>5, <1>6, <1>8 DEF CallsFirst

(***************************************************************************)
(* The event goes on                                                       *)
(***************************************************************************)
LEMMA PathApart ==
  ASSUME NEW par, NEW rank, NEW top, Ranked(par, rank, top)
  PROVE  \A m \in Nodes : IsInjective(Path(par, m))
<1>1. PICK S : S = {m \in Nodes : IsInjective(Path(par, m))}
  OBVIOUS
<1>2. ASSUME NEW m \in Nodes, par[m] = NoNode \/ par[m] \in S
      PROVE  m \in S
  <2>1. PICK p, r : p = Path(par, m) /\ r = Path(par, par[m])
    OBVIOUS
  <2>2. p = <<m>> \o r
    BY <2>1, PathSteps
  <2>3. par[m] \in Nodes \cup {NoNode}
    BY DEF Ranked
  <2>4. r \in Seq(Nodes)
    BY <2>1, <2>3, PathIn
  <2>5. Consed(r, p, m)
    BY <2>2, <2>4, ConsIs
  <2>6. IsInjective(r)
    <3>1. CASE par[m] = NoNode
      <4>1. r = <<>>
        BY <2>1, <3>1, PathSteps
      <4> QED
        BY <4>1 DEF IsInjective
    <3>2. CASE par[m] \in S
      BY <1>1, <2>1, <3>2
    <3> QED
      BY <1>2, <3>1, <3>2
  <2>7. ASSUME NEW i \in DOMAIN r
        PROVE  r[i] # m
    <3>1. par[m] # NoNode
      <4>1. par[m] = NoNode => r = <<>>
        BY <2>1, PathSteps
      <4> QED
        BY <2>7, <4>1
    <3>2. par[m] \in Nodes /\ rank[par[m]] < rank[m]
      BY <2>3, <3>1 DEF Ranked
    <3>3. r[i] \in Above(par, par[m])
      BY <2>1, <2>7 DEF Above, Range
    <3>4. r[i] = par[m] \/ rank[r[i]] < rank[par[m]]
      BY <3>2, <3>3, RankAbove
    <3>5. r[i] \in Nodes
      BY <3>2, <3>3, AboveIs
    <3>6. rank[r[i]] \in Nat /\ rank[par[m]] \in Nat /\ rank[m] \in Nat
      BY <3>2, <3>5 DEF Ranked
    <3>7. rank[r[i]] < rank[m]
      BY <3>2, <3>4, <3>6
    <3> QED
      BY <3>6, <3>7
  <2>8. ASSUME NEW i \in DOMAIN p, NEW j \in DOMAIN p, p[i] = p[j]
        PROVE  i = j
    <3>1. /\ i # 1 => i - 1 \in DOMAIN r /\ p[i] = r[i - 1]
          /\ j # 1 => j - 1 \in DOMAIN r /\ p[j] = r[j - 1]
          /\ p[1] = m
      BY <2>5 DEF Consed
    <3>2. i = 1 <=> j = 1
      BY <2>7, <2>8, <3>1
    <3>3. i # 1 /\ j # 1 => i - 1 = j - 1
      BY <2>6, <2>8, <3>1 DEF IsInjective
    <3>4. i \in Nat /\ j \in Nat
      <4>1. p \in Seq(Nodes)
        BY <2>2, <2>4, ConsIs
      <4> QED
        BY <4>1
    <3> QED
      BY <3>2, <3>3, <3>4
  <2>9. IsInjective(p)
    BY <2>8 DEF IsInjective
  <2> QED
    BY <1>1, <2>1, <2>9
<1>3. Nodes \subseteq S
  BY <1>2, RankInduction
<1> QED
  BY <1>1, <1>3

(* No node is twice on the way up.                                         *)
LEMMA PathUpApart ==
  ASSUME Tree, NEW n \in Nodes
  PROVE  IsInjective(PathUp(n))
<1>1. PICK rank, top : Ranked(parent, rank, top)
  BY TreeRank
<1> QED
  BY <1>1, PathApart, PathUpIs

(* The handlers that an event finds at a node.                             *)
LEMMA FoundRight ==
  ASSUME Base, OffHeld, NEW at \in Nodes, NEW target \in Nodes, NEW type,
         NEW e, e.path[e.i] = at, e.type = type,
         e.queue = Handlers(at, target, type)
  PROVE  QueueOk(bound, e) /\ \A elem, u : InQueue(e, elem, u) => u \notin Dead
<1>1. PICK bd, dead : bd = bound /\ dead = Dead
  OBVIOUS
<1>2. Store(Now, bd, dead) /\ Tree
  BY <1>1, DeadIn DEF Base
<1>3. PICK hs : hs = HandlersOf(Now, at, type)
  OBVIOUS
<1>4. InOrder(bd, dead, at, type, hs)
  BY <1>2, <1>3, HandlersOk
<1>5. PICK m, dl, dr : /\ m = Matching(at, target)
                       /\ m \in Seq(Nodes)
                       /\ SplitOf(hs, dl, dr)
                       /\ QueueFrom(e.queue, m, at, dl, dr)
  BY <1>2, <1>3, HandlersFrom
<1>6. PICK q : q = e.queue
  OBVIOUS
<1>7. PICK c \in Nat :
        /\ c <= Len(m)
        /\ \A g \in DOMAIN q : \/ /\ g \in 1..c
                                  /\ q[g].elem = m[g]
                                  /\ q[g].hs = dl
                               \/ /\ g = c + 1
                                  /\ q[g].elem = at
                                  /\ q[g].hs = dr
  BY <1>5, <1>6 DEF QueueFrom
<1>8. /\ \A i \in DOMAIN m : m[i] # at
      /\ \A i, j \in DOMAIN m : m[i] = m[j] => i = j
  <2>1. IsInjective(PathUp(target))
    BY <1>2, PathUpApart
  <2>2. /\ \A i \in DOMAIN m : Found(m[i], at)
        /\ \A i, j \in DOMAIN m : m[i] = m[j] => i = j
    BY <1>2, <1>5, <2>1, MatchingOk
  <2>3. \A x : Found(x, at) => x # at
    BY NodesApart DEF Found, Below
  <2> QED
    BY <2>2, <2>3
<1>9. \A g \in 1..c : g \in DOMAIN m
  BY <1>5, <1>7
<1>10. \A g, h \in DOMAIN q : q[g].elem = q[h].elem => g = h
  BY <1>7, <1>8, <1>9
<1>11. ASSUME NEW g \in DOMAIN q
       PROVE  /\ \A h \in DOMAIN q[g].hs :
                   /\ Registered(bd, at, type, q[g].hs[h])
                   /\ q[g].hs[h].delegated <=> q[g].elem # at
                   /\ q[g].hs[h].uid \notin dead
              /\ \A h, j \in DOMAIN q[g].hs :
                   q[g].hs[h].uid = q[g].hs[j].uid => h = j
  <2>1. CASE /\ g \in 1..c
             /\ q[g].elem = m[g]
             /\ q[g].hs = dl
    <3>1. \A h \in DOMAIN dl : /\ h \in DOMAIN hs.list
                               /\ h <= hs.delegateCount
                               /\ dl[h] = hs.list[h]
      BY <1>5 DEF SplitOf
    <3>2. \A h \in DOMAIN dl : /\ Registered(bd, at, type, dl[h])
                               /\ dl[h].delegated
                               /\ dl[h].uid \notin dead
      BY <1>4, <3>1 DEF InOrder
    <3>3. \A h, j \in DOMAIN dl : dl[h].uid = dl[j].uid => h = j
      BY <1>4, <3>1 DEF InOrder
    <3>4. q[g].elem # at
      BY <1>8, <1>9, <2>1
    <3> QED
      BY <2>1, <3>2, <3>3, <3>4
  <2>2. CASE /\ g = c + 1
             /\ q[g].elem = at
             /\ q[g].hs = dr
    <3>1. PICK d : d = hs.delegateCount
      OBVIOUS
    <3>2. \A h \in DOMAIN dr : /\ d + h \in DOMAIN hs.list
                               /\ ~(d + h <= hs.delegateCount)
                               /\ dr[h] = hs.list[d + h]
      BY <1>5, <3>1 DEF SplitOf
    <3>3. \A h \in DOMAIN dr : /\ Registered(bd, at, type, dr[h])
                               /\ ~dr[h].delegated
                               /\ dr[h].uid \notin dead
      BY <1>4, <3>2 DEF InOrder
    <3>4. \A h, j \in DOMAIN dr : dr[h].uid = dr[j].uid => d + h = d + j
      BY <1>4, <3>2 DEF InOrder
    <3>5. d \in Nat /\ DOMAIN dr \subseteq Nat
      <4>1. hs \in ListSet /\ dr \in Seq(HandlerSet)
        BY <1>2, <1>3, <1>5, HandlersOk DEF SplitOf
      <4> QED
        BY <3>1, <4>1 DEF ListSet
    <3>6. \A h, j \in DOMAIN dr : dr[h].uid = dr[j].uid => h = j
      BY <3>4, <3>5
    <3> QED
      BY <2>2, <3>3, <3>6
  <2> QED
    BY <1>7, <2>1, <2>2
<1>12. QueueOk(bound, e)
  BY <1>1, <1>6, <1>10, <1>11 DEF QueueOk
<1>13. \A elem, u : InQueue(e, elem, u) => u \notin Dead
  BY <1>1, <1>6, <1>11 DEF InQueue
<1> QED
  BY <1>12, <1>13

(* The running event, and what it is replaced by.                          *)
LEMMA TopRight ==
  ASSUME EventsTyped, EventsHold, Top.k # "none"
  PROVE  /\ EventRight(Top, bound, offs, started)
         /\ Top.n \in Nat /\ Top.i \in Nat
         /\ Top.path \in Seq(Nodes) /\ DOMAIN Top.path \subseteq Nat
         /\ Top.queue \in Seq(GroupSet)
<1>1. Top = events[1] /\ 1 \in DOMAIN events /\ EventOk(Top)
  BY TopIs
<1>2. EventRight(Top, bound, offs, started)
  BY <1>1 DEF EventsHold
<1>3. Top.path \in Seq(Nodes)
  BY <1>1, EventFields
<1>4. DOMAIN Top.path \subseteq Nat
  BY <1>3
<1>5. Top.n \in Nat /\ Top.i \in Nat /\ Top.queue \in Seq(GroupSet)
  BY <1>1, EventFields
<1> QED
  BY <1>2, <1>3, <1>4, <1>5

(* An event that is right and has called what was called follows.          *)
LEMMA FollowsIf ==
  ASSUME EventsTyped, EventsHold, Later, Top.k # "none",
         NEW k, NEW i, NEW q, NEW e, Goes(Top, e, k, i, q),
         EventRight(e, bound, offs, started),
         \A l : Called(l, Top) => Called(l, e)
  PROVE  Follows(e)
<1>1. e \in EventSet /\ e.n = Top.n /\ e.type = Top.type
  BY DEF Goes
<1>2. e.n \in Nat
  BY <1>1, TopRight
<1>3. EventRight(e, bound', offs', started')
  BY <1>2, EventLater
<1> QED
  BY <1>1, <1>3 DEF Follows

(* With a shorter queue the event stays right.                             *)
LEMMA LessRight ==
  ASSUME NEW bd, NEW of, NEW st, NEW e, NEW e2, EventRight(e, bd, of, st),
         e2.n = e.n /\ e2.path = e.path, QueueOk(bd, e2), Shorter(e.queue, e2.queue)
  PROVE  EventRight(e2, bd, of, st)
<1>1. \A elem, u : InQueue(e2, elem, u) => InQueue(e, elem, u)
  BY ShorterIn
<1>2. PathOk(e2) /\ e2.n <= st
  BY DEF EventRight, PathOk
<1>3. \A o \in of : e2.n > o[2] => \A elem \in Nodes : ~InQueue(e2, elem, o[1])
  BY <1>1 DEF EventRight
<1> QED
  BY <1>2, <1>3 DEF EventRight

(* With an empty queue it is right, too.                                   *)
LEMMA EmptyRight ==
  ASSUME NEW bd, NEW of, NEW st, NEW e, PathOk(e), e.n <= st, e.queue = <<>>
  PROVE  EventRight(e, bd, of, st)
<1>1. DOMAIN e.queue = {}
  OBVIOUS
<1>2. QueueOk(bd, e) /\ \A elem, u : ~InQueue(e, elem, u)
  BY <1>1 DEF QueueOk, InQueue
<1> QED
  BY <1>2 DEF EventRight

(* The handlers are looked up: they were bound to the node, and were not   *)
(* taken off.                                                              *)
LEMMA VisitRight ==
  ASSUME Base, OffHeld, EventsHold, LogHolds, CalledRight, Visit
  PROVE  OffHeld' /\ EventsHold' /\ LogHolds' /\ CalledRight'
<1>1. EventsTyped /\ started \in Nat
  BY DEF Base
<1>2. UNCHANGED <<jq, bound, started, offs, log>>
  BY DEF Visit
<1>3. OffHeld' /\ Later
  BY <1>1, <1>2, OffQuiet
<1>4. PICK e : /\ EventOk(e) /\ Replace(e)
               /\ Top.k = "path" /\ Top.i <= Len(Top.path)
               /\ \/ Goes(Top, e, "queue", Top.i,
                          Handlers(At, Top.target, Top.type))
                  \/ Goes(Top, e, "path", Top.i + 1, Top.queue)
  BY VisitOk
<1>5. /\ EventRight(Top, bound, offs, started)
      /\ Top.n \in Nat /\ Top.i \in Nat
      /\ Top.path \in Seq(Nodes) /\ DOMAIN Top.path \subseteq Nat
      /\ Top.queue \in Seq(GroupSet)
  BY <1>1, <1>4, TopRight
<1>6. CASE Goes(Top, e, "queue", Top.i, Handlers(At, Top.target, Top.type))
  <2>1. At \in Nodes
    BY <1>1, <1>4, AtIn
  <2>2. Top.target \in Nodes
    BY <1>1, <1>4, TopIs, EventFields
  <2>3. /\ e.k = "queue" /\ e.i = Top.i /\ e.n = Top.n /\ e.type = Top.type
        /\ e.path = Top.path /\ e.queue = Handlers(At, Top.target, Top.type)
    BY <1>6 DEF Goes
  <2>4. e.path[e.i] = At
    BY <2>3 DEF At
  <2>5. QueueOk(bound, e) /\ \A elem, u : InQueue(e, elem, u) => u \notin Dead
    BY <2>1, <2>2, <2>3, <2>4, FoundRight
  <2>6. \A o \in offs : \A elem \in Nodes : ~InQueue(e, elem, o[1])
    BY <2>5 DEF Dead
  <2>7. EventRight(e, bound, offs, started)
    BY <1>5, <2>3, <2>5, <2>6 DEF EventRight, PathOk
  <2>8. \A l : Called(l, Top) => Called(l, e)
    BY <1>4, <1>5, <2>3, CalledOn
  <2>9. Follows(e)
    BY <1>1, <1>3, <1>4, <1>6, <2>7, <2>8, FollowsIf
  <2> QED
    BY <1>1, <1>2, <1>3, <1>4, <2>9, RunLater
<1>7. CASE Goes(Top, e, "path", Top.i + 1, Top.queue)
  <2>1. /\ e.k = "path" /\ e.i = Top.i + 1 /\ e.n = Top.n
        /\ e.path = Top.path /\ e.queue = Top.queue
    BY <1>7 DEF Goes
  <2>2. e.queue = <<>>
    BY <1>4, <2>1 DEF EventOk
  <2>3. EventRight(e, bound, offs, started)
    BY <1>5, <2>1, <2>2, EmptyRight DEF EventRight, PathOk
  <2>4. \A l : Called(l, Top) => Called(l, e)
    BY <1>5, <2>1, CalledOn
  <2>5. Follows(e)
    BY <1>1, <1>3, <1>4, <1>7, <2>3, <2>4, FollowsIf
  <2> QED
    BY <1>1, <1>2, <1>3, <1>4, <2>5, RunLater
<1> QED
  BY <1>4, <1>6, <1>7

(* The next element, or the next node.                                     *)
LEMMA NextElementRight ==
  ASSUME Base, OffHeld, EventsHold, LogHolds, CalledRight, NextElement
  PROVE  OffHeld' /\ EventsHold' /\ LogHolds' /\ CalledRight'
<1>1. EventsTyped /\ started \in Nat
  BY DEF Base
<1>2. UNCHANGED <<jq, bound, started, offs, log>>
  BY DEF NextElement
<1>3. OffHeld' /\ Later
  BY <1>1, <1>2, OffQuiet
<1>4. PICK e : /\ EventOk(e) /\ Replace(e) /\ Top.k = "queue"
               /\ \/ Goes(Top, e, "path", Top.i + 1, <<>>)
                  \/ /\ Top.queue # <<>>
                     /\ Goes(Top, e, "queue", Top.i, Tail(Top.queue))
  BY <1>1, NextElementOk
<1>5. /\ EventRight(Top, bound, offs, started)
      /\ Top.n \in Nat /\ Top.i \in Nat
      /\ Top.path \in Seq(Nodes) /\ DOMAIN Top.path \subseteq Nat
      /\ Top.queue \in Seq(GroupSet)
  BY <1>1, <1>4, TopRight
<1>6. CASE Goes(Top, e, "path", Top.i + 1, <<>>)
  <2>1. /\ e.k = "path" /\ e.i = Top.i + 1 /\ e.n = Top.n
        /\ e.path = Top.path /\ e.queue = <<>>
    BY <1>6 DEF Goes
  <2>2. EventRight(e, bound, offs, started)
    BY <1>5, <2>1, EmptyRight DEF EventRight, PathOk
  <2>3. \A l : Called(l, Top) => Called(l, e)
    BY <1>5, <2>1, CalledOn
  <2>4. Follows(e)
    BY <1>1, <1>3, <1>4, <1>6, <2>2, <2>3, FollowsIf
  <2> QED
    BY <1>1, <1>2, <1>3, <1>4, <2>4, RunLater
<1>7. CASE Top.queue # <<>> /\ Goes(Top, e, "queue", Top.i, Tail(Top.queue))
  <2>1. /\ e.k = "queue" /\ e.i = Top.i /\ e.n = Top.n /\ e.type = Top.type
        /\ e.path = Top.path /\ e.queue = Tail(Top.queue)
    BY <1>7 DEF Goes
  <2>2. Within(Top.queue, e.queue, 1) /\ e.queue \in Seq(GroupSet)
    BY <1>5, <1>7, <2>1, TailWithin, TailIn
  <2>3. QueueOk(bound, e) /\ Shorter(Top.queue, e.queue)
    <3>1. QueueOk(bound, Top)
      BY <1>5 DEF EventRight
    <3> QED
      BY <1>5, <2>1, <2>2, <3>1, WithinOk
  <2>4. EventRight(e, bound, offs, started)
    BY <1>5, <2>1, <2>3, LessRight
  <2>5. \A l : Called(l, Top) => Called(l, e)
    BY <1>5, <2>1, <2>3, CalledOn
  <2>6. Follows(e)
    BY <1>1, <1>3, <1>4, <1>7, <2>4, <2>5, FollowsIf
  <2> QED
    BY <1>1, <1>2, <1>3, <1>4, <2>6, RunLater
<1> QED
  BY <1>4, <1>6, <1>7

(* A handler returns.                                                      *)
LEMMA ReturnRight ==
  ASSUME Base, OffHeld, EventsHold, LogHolds, CalledRight, NEW how, Return(how)
  PROVE  OffHeld' /\ EventsHold' /\ LogHolds' /\ CalledRight'
<1>1. EventsTyped /\ started \in Nat
  BY DEF Base
<1>2. UNCHANGED <<jq, bound, started, offs, log>>
  BY DEF Return
<1>3. OffHeld' /\ Later
  BY <1>1, <1>2, OffQuiet
<1>4. PICK e : /\ EventOk(e) /\ Replace(e) /\ Top.k = "called"
               /\ Goes(Top, e, "queue", Top.i, Top.queue)
  BY <1>1, ReturnOk
<1>5. /\ EventRight(Top, bound, offs, started)
      /\ Top.n \in Nat /\ Top.i \in Nat
      /\ Top.path \in Seq(Nodes) /\ DOMAIN Top.path \subseteq Nat
      /\ Top.queue \in Seq(GroupSet)
  BY <1>1, <1>4, TopRight
<1>6. /\ e.k = "queue" /\ e.i = Top.i /\ e.n = Top.n /\ e.type = Top.type
      /\ e.path = Top.path /\ e.queue = Top.queue
  BY <1>4 DEF Goes
<1>7. QueueOk(bound, e) /\ Shorter(Top.queue, e.queue)
  BY <1>5, <1>6 DEF EventRight, QueueOk, Shorter
<1>8. EventRight(e, bound, offs, started)
  BY <1>5, <1>6, <1>7, LessRight
<1>9. \A l : Called(l, Top) => Called(l, e)
  BY <1>5, <1>6, <1>7, CalledOn
<1>10. Follows(e)
  BY <1>1, <1>3, <1>4, <1>8, <1>9, FollowsIf
<1> QED
  BY <1>1, <1>2, <1>3, <1>4, <1>10, RunLater

(* The event ends.                                                         *)
LEMMA EndsRight ==
  ASSUME Base, OffHeld, EventsHold, LogHolds, CalledRight, EventEnds
  PROVE  OffHeld' /\ EventsHold' /\ LogHolds' /\ CalledRight'
<1>1. EventsTyped /\ started \in Nat
  BY DEF Base
<1>2. UNCHANGED <<jq, bound, started, offs, log>>
  BY DEF EventEnds
<1>3. OffHeld' /\ Later
  BY <1>1, <1>2, OffQuiet
<1>4. Top.k # "none" /\ events' = Tail(events)
  BY DEF EventEnds
<1>5. PICK es : es = events'
  OBVIOUS
<1>6. /\ es \in Seq(EventSet)
      /\ \A j \in DOMAIN es : j + 1 \in DOMAIN events /\ es[j] = events[j + 1]
  BY <1>1, <1>4, <1>5, TailTyped DEF EventsTyped
<1>7. DOMAIN es \subseteq Nat
  BY <1>6
<1>8. \A j \in DOMAIN es : EventRight(es[j], bound, offs, started)
  BY <1>6 DEF EventsHold
<1>9. ASSUME NEW j \in DOMAIN es, NEW k \in DOMAIN es,
             es[j].n = es[k].n, es[j].type = es[k].type
      PROVE  j = k
  <2>1. j + 1 = k + 1
    BY <1>6, <1>9 DEF EventsHold
  <2> QED
    BY <1>7, <2>1
<1>10. EventsHold'
  BY <1>2, <1>5, <1>8, <1>9 DEF EventsHold
<1>11. \A k \in DOMAIN log : \A j \in DOMAIN es :
         OneOf(log[k], es[j]) => Called(log[k], es[j])
  BY <1>6 DEF LogHolds
<1>12. LogHolds'
  <2>1. log \in LogSet /\ \A k \in DOMAIN log : LogOk(log[k], bound, started)
    BY DEF LogHolds
  <2> QED
    BY <1>2, <1>5, <1>11, <2>1 DEF LogHolds
<1> QED
  BY <1>2, <1>3, <1>10, <1>12, CalledLater

(* A handler is called.                                                    *)
LEMMA CallOff ==
  ASSUME Base, OffHeld, EventsHold, CallHandler
  PROVE  OffHeld' /\ Later
<1>1. EventsTyped /\ started \in Nat
  BY DEF Base
<1>2. PICK e, q, b :
        /\ Top.k = "queue" /\ Popped(Top.queue, q)
        /\ Top.queue[1].hs # <<>> /\ b \in HandlerSet
        /\ b = Head(Top.queue[1].hs)
        /\ \/ UNCHANGED <<jq, offs, log>>
           \/ /\ b.one => RemovesOne(b, At) /\ Gone({b.uid})
              /\ ~b.one => Set(Now) /\ Gone({})
  BY <1>1, CallHandlerOk
<1>3. UNCHANGED <<bound, started>>
  BY DEF CallHandler
<1>4. EventRight(Top, bound, offs, started) /\ Top.queue \in Seq(GroupSet)
  BY <1>1, <1>2, TopRight
<1>5. Registered(bound, At, Top.type, b)
  <2>1. QueueOk(bound, Top)
    BY <1>4 DEF EventRight
  <2>2. PICK e2 : e2 = [queue |-> q]
    OBVIOUS
  <2>3. e2.queue = q
    BY <2>2
  <2>4. CallsFirst(bound, Top, e2, b)
    BY <1>2, <1>4, <2>1, <2>3, FirstOf
  <2> QED
    BY <2>4 DEF At, CallsFirst
<1>6. PICK bd, dead : bd = bound /\ dead = Dead
  OBVIOUS
<1>7. Store(Now, bd, dead)
  BY <1>6, DeadIn
<1>8. At \in Nodes /\ Store(Now', bd, dead)
  BY <1>6, <1>7, CallKeeps
<1>9. Store(Now', bound', Dead) /\ Grows(bound, bound')
  BY <1>3, <1>6, <1>8 DEF Grows
<1>10. CASE UNCHANGED <<jq, offs, log>>
  BY <1>1, <1>3, <1>10, OffQuiet
<1>11. CASE ~b.one /\ Gone({})
  <2>1. GoesOff({})
    BY <1>11 DEF GoesOff
  <2> QED
    BY <1>3, <1>9, <2>1, OffStep
<1>12. CASE b.one /\ RemovesOne(b, At) /\ Gone({b.uid})
  <2>1. PICK off :
          /\ off.origType = b.origType
          /\ off.handler = b.handler
          /\ off.ns = (IF b.ns = "" THEN "any" ELSE b.ns)
          /\ off.selector = b.delegated
          /\ off.mapped = FALSE
          /\ Set(EventRemove(Now, At, off))
    BY <1>12 DEF RemovesOne
  <2>2. off.origType \in OrigTypes /\ off.origType # "any"
    BY <1>2, <2>1 DEF HandlerSet, OrigTypes
  <2>3. PICK q2 : q2 = Now'
    OBVIOUS
  <2>4. /\ Store(q2, bd, dead)
        /\ q2 = EventRemove(Now, At, off)
    BY <1>7, <1>8, <2>1, <2>2, <2>3, RemovedOk
  <2>5. Without(q2, At, Mapped(off.origType, off.selector), off)
    BY <1>7, <1>8, <2>2, <2>4, EventRemoveOk
  <2>6. ASSUME Listed(q2, b.uid)
        PROVE  FALSE
    <3>1. PICK m \in Nodes, t \in Types : \E c \in KeptOf(q2, m, t) :
            /\ c.uid = b.uid
            /\ Registered(bd, m, t, c)
      BY <2>4, <2>6, ListedIs
    <3>2. PICK c \in KeptOf(q2, m, t) :
            /\ c.uid = b.uid
            /\ Registered(bd, m, t, c)
      BY <3>1
    <3>3. m = At /\ Same(c, b)
      BY <1>5, <1>6, <3>2 DEF Registered, Same
    <3>4. Matches(c, off)
      BY <2>1, <3>3 DEF Matches, Same
    <3>5. Mapped(off.origType, off.selector) = t
      <4>1. t = Mapped(c.origType, c.delegated)
        BY <3>2 DEF Registered
      <4>2. c.origType = off.origType /\ c.delegated = off.selector
        BY <2>1, <3>3 DEF Same
      <4> QED
        BY <4>1, <4>2
    <3> QED
      BY <2>5, <3>2, <3>3, <3>4, <3>5 DEF Without
  <2>7. {b.uid} \subseteq DOMAIN bound
    BY <1>5 DEF Registered
  <2>8. GoesOff({b.uid})
    BY <1>12, <2>3, <2>6, <2>7 DEF GoesOff
  <2> QED
    BY <1>3, <1>9, <2>8, OffStep
<1> QED
  BY <1>2, <1>10, <1>11, <1>12

(* What the log says and what is taken off, as it is later.                *)
LEMMA OldLater ==
  ASSUME Later, LogHolds, CalledRight
  PROVE  /\ \A k \in DOMAIN log : \A o \in offs' :
              o[1] = log[k].b.uid => log[k].n <= o[2]
         /\ \A k \in DOMAIN log : bound'[log[k].b.uid].node = log[k].at
<1>1. ASSUME NEW k \in DOMAIN log, NEW o \in offs', o[1] = log[k].b.uid
      PROVE  log[k].n <= o[2]
  <2>1. CASE o \in offs
    BY <1>1, <2>1 DEF CalledRight, OffIsOff
  <2>2. CASE o[2] = started
    BY <2>2, LogIn DEF LogOk
  <2> QED
    BY <2>1, <2>2 DEF Later
<1>2. ASSUME NEW k \in DOMAIN log
      PROVE  bound'[log[k].b.uid].node = log[k].at
  <2>1. Registered(bound, log[k].at, LogType(log[k]), log[k].b)
    BY LogIn DEF LogOk
  <2> QED
    BY <2>1, RegisteredLater DEF Registered, Later
<1> QED
  BY <1>1, <1>2

LogMore(l2, l) ==
  /\ l2 \in LogSet
  /\ DOMAIN l2 = 1..(Len(log) + 1)
  /\ DOMAIN log = 1..Len(log)
  /\ Len(log) \in Nat
  /\ \A k \in DOMAIN log : l2[k] = log[k]
  /\ l2[Len(log) + 1] = l

(* A call is logged.                                                       *)
LEMMA LogAppend ==
  ASSUME log \in LogSet, NEW l \in [n : Nat, at : Nodes, elem : Nodes, b : HandlerSet],
         NEW l2, l2 = Append(log, l)
  PROVE  LogMore(l2, l)
<1>1. PICK A : A = [n : Nat, at : Nodes, elem : Nodes, b : HandlerSet]
  OBVIOUS
<1>2. log \in Seq(A) /\ l \in A
  BY <1>1 DEF LogSet
<1>3. /\ l2 \in Seq(A)
      /\ DOMAIN l2 = 1..(Len(log) + 1)
      /\ DOMAIN log = 1..Len(log)
      /\ Len(log) \in Nat
      /\ \A k \in DOMAIN log : l2[k] = log[k]
      /\ l2[Len(log) + 1] = l
  BY <1>2
<1> QED
  BY <1>1, <1>3 DEF LogMore, LogSet

(* The call of b by e, which was the running event.                        *)
NewCall(l, e) ==
  /\ l.n = Top.n /\ l.at = At /\ l.n \in Nat
  /\ Registered(bound, At, Top.type, l.b)
  /\ l.b.delegated <=> l.elem # At
  /\ InQueue(Top, l.elem, l.b.uid)
  /\ l.elem \in Nodes
  /\ Called(l, e)

(* The call was not made before: else the handler would have left the      *)
(* queue. It was not taken off before the event started: else it had not   *)
(* come in.                                                                *)
LEMMA LoggedRight ==
  ASSUME Base, OffHeld, Later, UNCHANGED started, EventsHold, LogHolds,
         CalledRight, Top.k = "queue", NEW l, NEW e, NewCall(l, e),
         LogMore(log', l)
  PROVE  CalledRight'
<1>1. PICK l2 : l2 = log'
  OBVIOUS
<1>2. /\ DOMAIN l2 = 1..(Len(log) + 1) /\ DOMAIN log = 1..Len(log)
      /\ Len(log) \in Nat
      /\ \A k \in DOMAIN log : l2[k] = log[k]
      /\ l2[Len(log) + 1] = l
  BY <1>1 DEF LogMore
<1>3. \A k \in DOMAIN l2 : \/ k \in DOMAIN log /\ l2[k] = log[k]
                           \/ k = Len(log) + 1 /\ l2[k] = l
  BY <1>2
<1>4. EventRight(Top, bound, offs, started) /\ Top.n \in Nat /\ Top.i \in Nat
  BY TopRight DEF Base
<1>5. ASSUME NEW o \in offs', o[1] = l.b.uid
      PROVE  l.n <= o[2]
  <2>1. CASE o \in offs
    <3>1. o[2] \in Nat
      BY <2>1 DEF OffHeld
    <3>2. ~(Top.n > o[2])
      BY <1>4, <1>5, <2>1 DEF EventRight, NewCall
    <3> QED
      BY <1>4, <3>1, <3>2 DEF NewCall
  <2>2. CASE o[2] = started
    BY <1>4, <2>2 DEF EventRight, NewCall
  <2> QED
    BY <2>1, <2>2 DEF Later
<1>6. \A k \in DOMAIN l2 : \A o \in offs' : o[1] = l2[k].b.uid => l2[k].n <= o[2]
  BY <1>3, <1>5, OldLater
<1>7. OffIsOff'
  BY <1>1, <1>6 DEF OffIsOff
<1>8. bound'[l.b.uid].node = l.at
  BY RegisteredLater DEF NewCall, Registered, Later
<1>9. ASSUME NEW k \in DOMAIN log, log[k].n = l.n, log[k].elem = l.elem,
             log[k].b.uid = l.b.uid
      PROVE  FALSE
  <2>1. Registered(bound, log[k].at, LogType(log[k]), log[k].b)
    BY LogIn DEF LogOk
  <2>2. Registered(bound, At, Top.type, l.b)
    BY DEF NewCall
  <2>3. log[k].at = At
    BY <1>9, <2>1, <2>2 DEF Registered
  <2>4. LogType(log[k]) = Top.type
    <3>1. Same(bound[l.b.uid].b, log[k].b) /\ Same(bound[l.b.uid].b, l.b)
      BY <1>9, <2>1, <2>2 DEF Registered
    <3>2. log[k].b.origType = l.b.origType /\ log[k].b.delegated = l.b.delegated
      BY <3>1 DEF Same
    <3>3. Mapped(l.b.origType, l.b.delegated) = Top.type
      BY <2>2 DEF Registered
    <3> QED
      BY <3>2, <3>3 DEF LogType
  <2>5. 1 \in DOMAIN events /\ Top = events[1]
    BY TopIs DEF Base
  <2>6. OneOf(log[k], events[1])
    BY <1>9, <2>4, <2>5 DEF OneOf, NewCall
  <2>7. Called(log[k], Top)
    BY <2>5, <2>6 DEF LogHolds
  <2>8. PICK j \in DOMAIN Top.path :
          /\ Top.path[j] = At
          /\ \/ j < Top.i
             \/ j = Top.i /\ Top.k # "path" /\ ~InQueue(Top, l.elem, l.b.uid)
    BY <1>9, <2>3, <2>7 DEF Called
  <2>9. j = Top.i
    <3>1. Top.i \in DOMAIN Top.path
      BY TopIs, AtIn DEF EventOk, Base
    <3> QED
      BY <1>4, <2>8, <3>1 DEF EventRight, PathOk, IsInjective, At
  <2>10. ~(j < Top.i)
    BY <1>4, <2>9
  <2> QED
    BY <2>8, <2>10 DEF NewCall
<1>10. \A i, j \in DOMAIN log :
         /\ log[i].b.delegated <=> log[i].elem # log[i].at
         /\ i # j => \/ log[i].n # log[j].n
                     \/ log[i].elem # log[j].elem
                     \/ log[i].b.uid # log[j].b.uid
  BY DEF CalledRight, CalledOnce
<1>11. \A i \in DOMAIN l2 : /\ l2[i].b.delegated <=> l2[i].elem # l2[i].at
                            /\ bound'[l2[i].b.uid].node = l2[i].at
  <2>1. l.b.delegated <=> l.elem # l.at
    BY DEF NewCall
  <2>2. \A i \in DOMAIN log : /\ log[i].b.delegated <=> log[i].elem # log[i].at
                              /\ bound'[log[i].b.uid].node = log[i].at
    BY <1>10, OldLater
  <2> QED
    BY <1>3, <1>8, <2>1, <2>2
<1>12. \A i, j \in DOMAIN l2 :
         i # j => \/ l2[i].n # l2[j].n
                  \/ l2[i].elem # l2[j].elem
                  \/ l2[i].b.uid # l2[j].b.uid
  BY <1>3, <1>9, <1>10
<1>13. CalledOnce'
  BY <1>1, <1>11, <1>12 DEF CalledOnce
<1> QED
  BY <1>7, <1>13 DEF CalledRight

(* A handler is called, and is not in the queue any more.                  *)
LEMMA CallRight ==
  ASSUME Base, OffHeld, EventsHold, LogHolds, CalledRight, CallHandler
  PROVE  OffHeld' /\ EventsHold' /\ LogHolds' /\ CalledRight'
<1>1. EventsTyped /\ started \in Nat
  BY DEF Base
<1>2. OffHeld' /\ Later /\ UNCHANGED <<bound, started>>
  BY CallOff DEF CallHandler
<1>3. PICK e, q, b :
        /\ EventOk(e) /\ Replace(e)
        /\ Top.k = "queue" /\ Popped(Top.queue, q)
        /\ Top.queue[1].hs # <<>> /\ b \in HandlerSet
        /\ b = Head(Top.queue[1].hs)
        /\ \/ Goes(Top, e, "queue", Top.i, q) /\ UNCHANGED <<jq, offs, log>>
           \/ /\ Goes(Top, e, "called", Top.i, q)
              /\ log' = Append(log, [n |-> Top.n, at |-> At,
                                     elem |-> Top.queue[1].elem, b |-> b])
  BY <1>1, CallHandlerOk
<1>4. /\ EventRight(Top, bound, offs, started)
      /\ Top.n \in Nat /\ Top.i \in Nat
      /\ Top.path \in Seq(Nodes) /\ DOMAIN Top.path \subseteq Nat
      /\ Top.queue \in Seq(GroupSet)
  BY <1>1, <1>3, TopRight
<1>5. PICK k : Goes(Top, e, k, Top.i, q) /\ k # "path"
  BY <1>3
<1>6. /\ e.k # "path" /\ e.i = Top.i /\ e.n = Top.n /\ e.type = Top.type
      /\ e.path = Top.path /\ e.queue = q /\ q \in Seq(GroupSet)
  BY <1>3, <1>5 DEF Goes, Popped
<1>7. QueueOk(bound, Top)
  BY <1>4 DEF EventRight
<1>8. QueueOk(bound, e) /\ Shorter(Top.queue, e.queue)
  <2>1. Within(Top.queue, e.queue, 0)
    BY <1>3, <1>4, <1>6, PoppedWithin
  <2> QED
    BY <1>4, <1>6, <1>7, <2>1, WithinOk
<1>9. EventRight(e, bound, offs, started)
  BY <1>4, <1>6, <1>8, LessRight
<1>10. \A l : Called(l, Top) => Called(l, e)
  BY <1>4, <1>6, <1>8, CalledOn
<1>11. Follows(e)
  BY <1>1, <1>2, <1>3, <1>5, <1>9, <1>10, FollowsIf
<1>12. CASE UNCHANGED <<jq, offs, log>>
  BY <1>1, <1>2, <1>3, <1>11, <1>12, RunLater
<1>13. CASE log' = Append(log, [n |-> Top.n, at |-> At,
                                elem |-> Top.queue[1].elem, b |-> b])
  <2>1. PICK l : l = [n |-> Top.n, at |-> At, elem |-> Top.queue[1].elem, b |-> b]
    OBVIOUS
  <2>2. l.n = Top.n /\ l.at = At /\ l.elem = Top.queue[1].elem /\ l.b = b
    BY <2>1
  <2>3. At \in Nodes /\ Top.i \in DOMAIN Top.path
    BY <1>1, <1>3, TopIs, AtIn DEF EventOk
  <2>4. l.elem \in Nodes
    <3>1. 1 \in DOMAIN Top.queue
      BY <1>3 DEF Popped
    <3> QED
      BY <1>4, <2>2, <3>1, GroupIn
  <2>5. l \in [n : Nat, at : Nodes, elem : Nodes, b : HandlerSet]
    BY <1>3, <1>4, <2>1, <2>2, <2>3, <2>4
  <2>6. LogMore(log', l)
    BY <1>13, <2>1, <2>5, LogAppend DEF LogHolds
  <2>7. /\ Registered(bound, At, Top.type, b)
        /\ b.delegated <=> l.elem # At
        /\ InQueue(Top, l.elem, b.uid)
        /\ ~InQueue(e, l.elem, b.uid)
    <3>1. CallsFirst(bound, Top, e, b)
      BY <1>3, <1>4, <1>6, <1>7, FirstOf
    <3> QED
      BY <2>2, <3>1 DEF CallsFirst, At
  <2>8. Called(l, e)
    BY <1>6, <2>2, <2>3, <2>7 DEF Called, At
  <2>9. NewCall(l, e)
    BY <1>4, <2>2, <2>4, <2>7, <2>8 DEF NewCall
  <2>10. CalledRight'
    BY <1>2, <1>3, <2>6, <2>9, LoggedRight
  <2>11. /\ EventsHold'
         /\ \A i \in DOMAIN log :
              /\ LogOk(log[i], bound', started')
              /\ \A j \in DOMAIN events' :
                   OneOf(log[i], events'[j]) => Called(log[i], events'[j])
    BY <1>1, <1>2, <1>3, <1>11, EventsReplaced
  <2>12. LogOk(l, bound', started')
    <3>1. LogType(l) = Top.type
      BY <2>2, <2>7 DEF LogType, Registered
    <3>2. LogOk(l, bound, started)
      BY <1>4, <2>2, <2>7, <3>1 DEF LogOk, EventRight
    <3> QED
      BY <1>2, <3>2
  <2>13. ASSUME NEW j \in DOMAIN events', OneOf(l, events'[j])
         PROVE  Called(l, events'[j])
    <3>1. 1 \in DOMAIN events' /\ events'[1] = e
      <4>1. Replaced(events, events', e)
        BY <1>1, <1>3, <1>11, ReplaceIs DEF Follows
      <4> QED
        BY <4>1 DEF Replaced
    <3>2. LogType(l) = e.type
      BY <1>6, <2>2, <2>7 DEF LogType, Registered
    <3>3. events'[j].n = e.n /\ events'[j].type = e.type
      BY <1>6, <2>2, <2>13, <3>2 DEF OneOf
    <3>4. j = 1
      BY <2>11, <3>1, <3>3 DEF EventsHold
    <3> QED
      BY <2>8, <3>1, <3>4
  <2>14. LogHolds'
    <3>1. PICK l2, es : l2 = log' /\ es = events'
      OBVIOUS
    <3>2. \A i \in DOMAIN l2 : \/ i \in DOMAIN log /\ l2[i] = log[i]
                               \/ l2[i] = l
      BY <2>6, <3>1 DEF LogMore
    <3>3. \A i \in DOMAIN l2 :
            /\ LogOk(l2[i], bound', started')
            /\ \A j \in DOMAIN es : OneOf(l2[i], es[j]) => Called(l2[i], es[j])
      BY <2>11, <2>12, <2>13, <3>1, <3>2
    <3>4. l2 \in LogSet
      BY <2>6, <3>1 DEF LogMore
    <3> QED
      BY <3>1, <3>3, <3>4 DEF LogHolds
  <2> QED
    BY <1>2, <2>10, <2>11, <2>14
<1> QED
  BY <1>3, <1>12, <1>13

(***************************************************************************)
(* Events start                                                            *)
(***************************************************************************)
Apart(es) ==
  \A j, k \in DOMAIN es : es[j].n = es[k].n /\ es[j].type = es[k].type => j = k

(* An event that starts: nothing was called for it yet.                    *)
Fresh(e) ==
  /\ EventOk(e)
  /\ e.n = started + 1
  /\ e.queue = <<>>
  /\ PathOk(e)

Pushed(es, es2, e) ==
  /\ Apart(es2)
  /\ \A j \in DOMAIN es2 : es2[j] = e \/ \E k \in DOMAIN es : es2[j] = es[k]

(* An event on the stack has its own number, or its own type.              *)
LEMMA PushApart ==
  ASSUME NEW es \in Seq(EventSet), Apart(es), NEW e \in EventSet,
         \A j \in DOMAIN es : es[j].n # e.n \/ es[j].type # e.type,
         NEW es2, es2 = <<e>> \o es
  PROVE  Pushed(es, es2, e)
<1>1. Consed(es, es2, e) /\ es2 \in Seq(EventSet)
  BY ConsIs
<1>2. DOMAIN es2 \subseteq Nat
  BY <1>1
<1>3. \A j \in DOMAIN es2 : \/ j = 1 /\ es2[j] = e
                            \/ j # 1 /\ j - 1 \in DOMAIN es /\ es2[j] = es[j - 1]
  BY <1>1 DEF Consed
<1>4. ASSUME NEW j \in DOMAIN es2, NEW k \in DOMAIN es2,
             es2[j].n = es2[k].n, es2[j].type = es2[k].type
      PROVE  j = k
  <2>1. \A i \in DOMAIN es : es[i].n # e.n \/ es[i].type # e.type
    OBVIOUS
  <2>2. j = 1 => k = 1
    BY <1>3, <1>4, <2>1
  <2>3. k = 1 => j = 1
    BY <1>3, <1>4, <2>1
  <2>4. j # 1 /\ k # 1 => j - 1 = k - 1
    BY <1>3, <1>4 DEF Apart
  <2>5. j \in Nat /\ k \in Nat
    BY <1>2
  <2> QED
    BY <2>2, <2>3, <2>4, <2>5
<1>5. Apart(es2)
  BY <1>4 DEF Apart
<1>6. \A j \in DOMAIN es2 : es2[j] = e \/ \E k \in DOMAIN es : es2[j] = es[k]
  BY <1>3
<1> QED
  BY <1>5, <1>6 DEF Pushed

(* Events start: nothing has been called for them.                         *)
LEMMA StartRight ==
  ASSUME Base, OffHeld, EventsHold, LogHolds, CalledRight,
         UNCHANGED <<jq, bound, offs, log>>, started' = started + 1,
         Apart(events'),
         \A j \in DOMAIN events' : \/ Fresh(events'[j])
                                   \/ \E k \in DOMAIN events : events'[j] = events[k]
  PROVE  OffHeld' /\ EventsHold' /\ LogHolds' /\ CalledRight'
<1>1. EventsTyped /\ started \in Nat
  BY DEF Base
<1>2. started' \in Nat /\ started <= started'
  BY <1>1
<1>3. OffHeld' /\ Later
  BY <1>2, OffQuiet
<1>4. PICK es : es = events'
  OBVIOUS
<1>5. ASSUME NEW j \in DOMAIN es
      PROVE  /\ EventRight(es[j], bound', offs', started')
             /\ \A k \in DOMAIN log :
                  OneOf(log[k], es[j]) => Called(log[k], es[j])
  <2>1. CASE Fresh(es[j])
    <3>1. PICK e : e = es[j]
      OBVIOUS
    <3>2. PathOk(e) /\ e.n = started + 1 /\ e.queue = <<>>
      BY <2>1, <3>1 DEF Fresh
    <3>3. e.n <= started'
      BY <1>1, <3>2
    <3>4. EventRight(e, bound', offs', started')
      BY <3>2, <3>3, EmptyRight
    <3>5. ASSUME NEW k \in DOMAIN log
          PROVE  ~OneOf(log[k], e)
      <4>1. log[k].n \in Nat /\ log[k].n <= started
        BY LogIn DEF LogOk
      <4> QED
        BY <1>1, <3>2, <4>1 DEF OneOf
    <3> QED
      BY <3>1, <3>4, <3>5
  <2>2. CASE \E k \in DOMAIN events : es[j] = events[k]
    <3>1. PICK i \in DOMAIN events : es[j] = events[i]
      BY <2>2
    <3>2. events[i].n \in Nat
      BY <1>1, EventFields DEF EventsTyped
    <3>3. EventRight(events[i], bound', offs', started')
      BY <1>3, <3>2, EventLater DEF EventsHold
    <3>4. \A k \in DOMAIN log :
            OneOf(log[k], events[i]) => Called(log[k], events[i])
      BY DEF LogHolds
    <3> QED
      BY <3>1, <3>3, <3>4
  <2> QED
    BY <1>4, <2>1, <2>2
<1>6. EventsHold'
  BY <1>4, <1>5 DEF EventsHold, Apart
<1>7. \A k \in DOMAIN log : LogOk(log[k], bound', started')
  BY <1>3, LogIn, LogLater
<1>8. LogHolds'
  <2>1. log \in LogSet
    BY DEF LogHolds
  <2> QED
    BY <1>4, <1>5, <1>7, <2>1 DEF LogHolds
<1> QED
  BY <1>3, <1>6, <1>8, CalledLater

(* trigger().                                                              *)
LEMMA TriggerRight ==
  ASSUME Base, OffHeld, EventsHold, LogHolds, CalledRight,
         NEW n \in Nodes, NEW t \in {"click", "mouseenter"}, Trigger(n, t)
  PROVE  OffHeld' /\ EventsHold' /\ LogHolds' /\ CalledRight'
<1>1. EventsTyped /\ started \in Nat /\ Tree
  BY DEF Base
<1>2. PICK e : /\ EventOk(e) /\ e.n = started + 1
               /\ e.queue = <<>>
               /\ e.path = PathUp(n)
               /\ events' = <<e>> \o events
               /\ started' = started + 1
  BY TriggerOk
<1>3. Fresh(e) /\ e \in EventSet
  BY <1>1, <1>2, PathUpApart DEF Fresh, PathOk, EventOk
<1>4. \A j \in DOMAIN events : events[j].n # e.n
  <2> TAKE j \in DOMAIN events
  <2>1. events[j].n \in Nat
    BY <1>1, EventFields DEF EventsTyped
  <2>2. events[j].n <= started
    BY DEF EventsHold, EventRight
  <2> QED
    BY <1>1, <1>2, <2>1, <2>2
<1>5. events \in Seq(EventSet) /\ Apart(events)
  BY <1>1 DEF EventsTyped, EventsHold, Apart
<1>6. PICK es : es = events'
  OBVIOUS
<1>7. Pushed(events, es, e)
  BY <1>2, <1>3, <1>4, <1>5, <1>6, PushApart
<1>8. UNCHANGED <<jq, bound, offs, log>>
  BY DEF Trigger
<1>9. \A j \in DOMAIN es : \/ Fresh(es[j])
                           \/ \E k \in DOMAIN events : es[j] = events[k]
  BY <1>3, <1>7 DEF Pushed
<1>10. Apart(es)
  BY <1>7 DEF Pushed
<1> QED
  BY <1>2, <1>6, <1>8, <1>9, <1>10, StartRight

(* The browser's events: focus and focusin have one number and two types.  *)
LEMMA NativeRight ==
  ASSUME Base, OffHeld, EventsHold, LogHolds, CalledRight,
         NEW n \in Nodes, NEW type \in {"click", "mouseover", "focus"},
         NEW related \in Nodes \cup {NoNode}, Native(n, type, related)
  PROVE  OffHeld' /\ EventsHold' /\ LogHolds' /\ CalledRight'
<1>1. Tree
  BY DEF Base
<1>2. PICK e, f : NativeStarts(e, f, n, type)
  BY NativeOk
<1>3. /\ EventOk(e) /\ e.n = started + 1 /\ e.type = type /\ e.queue = <<>>
      /\ e.path = IF type = "focus" THEN <<n>> ELSE PathUp(n)
      /\ EventOk(f) /\ f.n = started + 1 /\ f.type = "focusin"
      /\ f.queue = <<>> /\ f.path = PathUp(n)
      /\ \/ events' = <<e>> \o <<>>
         \/ type = "focus" /\ events' = <<f>> \o (<<e>> \o <<>>)
      /\ started' = started + 1
  BY <1>2 DEF NativeStarts, Starts
<1>4. PathOk(f)
  BY <1>1, <1>3, PathUpApart DEF PathOk
<1>5. PathOk(e)
  <2>1. CASE type = "focus"
    <3>1. e.path = <<n>>
      BY <1>3, <2>1
    <3> QED
      BY <3>1 DEF PathOk, IsInjective
  <2>2. CASE type # "focus"
    BY <1>1, <1>3, <2>2, PathUpApart DEF PathOk
  <2> QED
    BY <2>1, <2>2
<1>6. Fresh(e) /\ Fresh(f) /\ e \in EventSet /\ f \in EventSet
  BY <1>3, <1>4, <1>5 DEF Fresh, EventOk
<1>7. PICK none : none = <<>>
  OBVIOUS
<1>8. none \in Seq(EventSet) /\ DOMAIN none = {} /\ Apart(none)
  BY <1>7 DEF Apart
<1>9. PICK es : es = <<e>> \o none
  OBVIOUS
<1>10. es \in Seq(EventSet)
  BY <1>6, <1>8, <1>9, ConsIs
<1>11. Apart(es) /\ \A j \in DOMAIN es : es[j] = e
  <2>1. \A j \in DOMAIN none : none[j].n # e.n \/ none[j].type # e.type
    BY <1>8
  <2>2. Pushed(none, es, e)
    BY <1>6, <1>8, <1>9, <2>1, PushApart
  <2> QED
    BY <1>8, <2>2 DEF Pushed
<1>12. UNCHANGED <<jq, bound, offs, log>>
  BY DEF Native
<1>13. CASE events' = <<e>> \o <<>>
  <2>1. events' = es
    BY <1>7, <1>9, <1>13
  <2>2. Apart(events') /\ \A j \in DOMAIN events' : Fresh(events'[j])
    BY <1>6, <1>11, <2>1
  <2> QED
    BY <1>3, <1>12, <2>2, StartRight
<1>14. CASE type = "focus" /\ events' = <<f>> \o (<<e>> \o <<>>)
  <2>1. PICK fs : fs = events'
    OBVIOUS
  <2>2. fs = <<f>> \o es
    BY <1>7, <1>9, <1>14, <2>1
  <2>3. \A j \in DOMAIN es : es[j].n # f.n \/ es[j].type # f.type
    BY <1>3, <1>11, <1>14
  <2>4. Pushed(es, fs, f)
    BY <1>6, <1>10, <1>11, <2>2, <2>3, PushApart
  <2>5. Apart(fs) /\ \A j \in DOMAIN fs : Fresh(fs[j])
    BY <1>6, <1>11, <2>4 DEF Pushed
  <2> QED
    BY <1>3, <1>12, <2>1, <2>5, StartRight
<1> QED
  BY <1>3, <1>13, <1>14

(***************************************************************************)
(* What holds always when off() is called with what names the handlers     *)
(***************************************************************************)
(* off( "focus" ) without a selector looks for handlers under "focus",     *)
(* where delegated ones are not kept.                                      *)
OffsNamed == \A o \in Offs : o.origType = "focus" => o.selector

(* What the scripts call.                                                  *)
LEMMA PageRight ==
  ASSUME OffsNamed, AllHolds, Page
  PROVE  OffHeld' /\ EventsHold' /\ LogHolds' /\ CalledRight'
<1>1. /\ Base /\ OffHeld /\ EventsHold /\ LogHolds /\ CalledRight /\ EventsTyped
  BY DEF AllHolds, Holds, Base
<1>2. ASSUME OffHeld', Later, UNCHANGED <<events, log>>
      PROVE  OffHeld' /\ EventsHold' /\ LogHolds' /\ CalledRight'
  BY <1>1, <1>2, QuietLater
<1>3. CASE \E n \in Nodes, b \in program.binds : On(n, b)
  <2>1. PICK n \in Nodes, b \in program.binds : On(n, b)
    BY <1>3
  <2>2. OffHeld' /\ Later
    BY <1>1, <2>1, OnOff
  <2>3. UNCHANGED <<events, log>>
    BY <2>1 DEF On
  <2> QED
    BY <1>2, <2>2, <2>3
<1>4. CASE \E n \in Nodes, o \in Offs : Off(n, o)
  <2>1. PICK n \in Nodes, o \in Offs : Off(n, o)
    BY <1>4
  <2>2. OffHeld' /\ Later
    BY <1>1, <2>1, OffOff DEF OffsNamed
  <2>3. UNCHANGED <<events, log>>
    BY <2>1 DEF Off
  <2> QED
    BY <1>2, <2>2, <2>3
<1>5. CASE \E n \in Nodes : SetData(n) \/ AllData(n) \/ RemoveData(n)
  <2>1. PICK n \in Nodes : SetData(n) \/ AllData(n) \/ RemoveData(n)
    BY <1>5
  <2>2. OffHeld' /\ Later
    BY <1>1, <2>1, DataOff
  <2>3. UNCHANGED <<events, log>>
    BY <2>1 DEF SetData, AllData, RemoveData
  <2> QED
    BY <1>2, <2>2, <2>3
<1>6. CASE \E new \in Items : Html(Box, new)
  <2>1. PICK new \in Items : Html(Box, new)
    BY <1>6
  <2>2. OffHeld' /\ Later
    BY <1>1, <2>1, HtmlOff
  <2>3. UNCHANGED <<events, log>>
    BY <2>1 DEF Html
  <2> QED
    BY <1>2, <2>2, <2>3
<1>7. CASE \E n \in Items, keepData \in BOOLEAN : RemoveNode(n, keepData)
  <2>1. PICK n \in Items, keepData \in BOOLEAN : RemoveNode(n, keepData)
    BY <1>7
  <2>2. OffHeld' /\ Later
    BY <1>1, <2>1, RemoveOff
  <2>3. UNCHANGED <<events, log>>
    BY <2>1 DEF RemoveNode
  <2> QED
    BY <1>2, <2>2, <2>3
<1>8. CASE \E n \in Items, to \in Nodes : AppendTo(n, to)
  <2>1. UNCHANGED <<jq, bound, offs, events, log, started>>
    BY <1>8 DEF AppendTo
  <2>2. OffHeld' /\ Later
    BY <1>1, <2>1, BoundIn, OffQuiet
  <2> QED
    BY <1>2, <2>1, <2>2
<1>9. CASE \E n \in Items, new \in Items : Clone(n, new)
  <2>1. PICK n \in Items, new \in Items : Clone(n, new)
    BY <1>9
  <2>2. OffHeld' /\ Later
    BY <1>1, <2>1, CloneOff
  <2>3. UNCHANGED <<events, log>>
    BY <2>1 DEF Clone
  <2> QED
    BY <1>2, <2>2, <2>3
<1>10. CASE \E n \in Nodes, t \in {"click", "mouseenter"} : Trigger(n, t)
  BY <1>1, <1>10, TriggerRight
<1> QED
  BY <1>3, <1>4, <1>5, <1>6, <1>7, <1>8, <1>9, <1>10 DEF Page

(* Every step.                                                             *)
LEMMA NextRight ==
  ASSUME OffsNamed, AllHolds, [Next]_vars
  PROVE  AllHolds'
<1>1. Holds'
  BY NextHolds DEF AllHolds
<1>2. /\ Base /\ OffHeld /\ EventsHold /\ LogHolds /\ CalledRight /\ EventsTyped
  BY DEF AllHolds, Holds, Base
<1>3. ASSUME Runs
      PROVE  OffHeld' /\ EventsHold' /\ LogHolds' /\ CalledRight'
  BY <1>2, <1>3, VisitRight, EndsRight, NextElementRight, CallRight, ReturnRight
     DEF Runs
<1>4. ASSUME Browser
      PROVE  OffHeld' /\ EventsHold' /\ LogHolds' /\ CalledRight'
  BY <1>2, <1>4, NativeRight DEF Browser
<1>5. ASSUME UNCHANGED vars
      PROVE  OffHeld' /\ EventsHold' /\ LogHolds' /\ CalledRight'
  <2>1. UNCHANGED <<jq, bound, offs, events, log, started>>
    BY <1>5 DEF vars
  <2>2. OffHeld' /\ Later
    BY <1>2, <2>1, BoundIn, OffQuiet
  <2> QED
    BY <1>2, <2>1, <2>2, QuietLater
<1>6. OffHeld' /\ EventsHold' /\ LogHolds' /\ CalledRight'
  BY <1>3, <1>4, <1>5, PageRight DEF Next
<1> QED
  BY <1>1, <1>6 DEF AllHolds

(* It holds at the beginning: nothing was bound, called or taken off.      *)
LEMMA InitRight ==
  ASSUME Init
  PROVE  AllHolds
<1>1. Holds
  BY InitHolds
<1>2. offs = {} /\ events = <<>> /\ log = <<>>
  BY DEF Init
<1>3. DOMAIN events = {} /\ DOMAIN log = {} /\ Dead = {}
  BY <1>2 DEF Dead
<1>4. OffHeld
  BY <1>1, <1>2, <1>3 DEF OffHeld, Holds, Base, Store
<1>5. EventsHold
  BY <1>3 DEF EventsHold
<1>6. LogHolds
  <2>1. log \in LogSet
    BY <1>2 DEF LogSet
  <2> QED
    BY <1>3, <2>1 DEF LogHolds
<1>7. CalledRight
  BY <1>3 DEF CalledRight, OffIsOff, CalledOnce
<1> QED
  BY <1>1, <1>4, <1>5, <1>6, <1>7 DEF AllHolds

(* An event calls the handlers that are bound when it starts, each once    *)
(* for an element: none that was taken off before by off(), by one() or    *)
(* with its element, though the element is triggered still and its number  *)
(* is another's by then (trigger, dispatch, handlers, remove, cleanData).  *)
THEOREM EventsCallRight ==
  ASSUME OffsNamed
  PROVE  Spec => []CalledRight
<1>1. Init => AllHolds
  BY InitRight
<1>2. AllHolds /\ [Next]_vars => AllHolds'
  BY NextRight
<1>3. AllHolds => CalledRight
  BY DEF AllHolds
<1> QED
  BY <1>1, <1>2, <1>3, PTL DEF Spec
=============================================================================
