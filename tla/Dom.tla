-------------------------------- MODULE Dom --------------------------------
(***************************************************************************)
(* The data, the events and the insertion and removal of elements of       *)
(* jquery-1.9.1.js, on which the page's render() and its slider stand:     *)
(* render() replaces what #container holds with html(), and the elements   *)
(* it throws away had tooltips, handlers and data.                         *)
(*                                                                         *)
(* jQuery keeps nothing on an element but a number, the expando; data and  *)
(* handlers are in jQuery.cache under that number, and the number of an    *)
(* element that was cleaned is given to the next one.  A handler may bind, *)
(* unbind, remove, insert, copy and trigger while its own event is under   *)
(* way: events is the stack of those events, the running one first.        *)
(*                                                                         *)
(* The document holds one box and the box holds items.  A selector given   *)
(* to on() matches every item.                                             *)
(***************************************************************************)
EXTENDS Integers, Sequences, FiniteSetsExt, SequencesExt

CONSTANTS
  Items,            \* the elements that are or come to be in the box
  FirstItem,        \* the one the page is loaded with
  Offs,             \* what off() is called with
  Programs,         \* what scripts may call, and on() with what
  MaxOps            \* bound: operations called by the scripts

Doc == "document"
Box == "box"
Nodes == Items \cup {Doc, Box}
NoNode == "none"
NoId == 0

(* Event types as they are written, and the types under which handlers are *)
(* kept: delegateType with a selector, bindType without (:3243, :3413).    *)
OrigTypes == {"click", "mouseenter", "focus", "focusin"}
Types == {"click", "mouseover", "focus", "focusin"}
Mapped(origType, delegated) ==
  CASE origType = "mouseenter" -> "mouseover"
    [] origType = "focus" /\ delegated -> "focusin"
    [] OTHER -> origType
SpecialTypes == {"click", "mouseenter", "focus", "focusin"}

(* What on() and off() are called with; the number uid is given when a     *)
(* handler is bound, mapped by EventRemove.                                *)
ASSUME DomAssumption ==
  /\ IsFiniteSet(Items)
  /\ FirstItem \in Items
  /\ Items \cap {Doc, Box, NoNode} = {}
  /\ \A p \in Programs :
       p.binds \subseteq [origType : OrigTypes, handler : STRING, ns : STRING,
                         delegated : BOOLEAN, one : BOOLEAN, uid : {0}]
  /\ Offs \subseteq [origType : OrigTypes \cup {"any"}, handler : STRING,
                     ns : STRING, selector : BOOLEAN, mapped : {FALSE}]
  /\ MaxOps \in Nat

VARIABLES
  program,
  parent,           \* of each node
  born,             \* the items that have been made
  id,               \* the expando of each node
  cache,            \* jQuery.cache: from ids to entries
  deletedIds, guid, \* core_deletedIds, jQuery.guid
  listening,        \* the native listeners: node and type
  attaches,         \* how many lists of focusin handlers were set up (:3550)
  capture,          \* the document's capturing listener for focusin
  events,           \* the events under way
  bound,            \* history: what was bound, and to which node
  kept,             \* history: nodes off the page that were kept or written
  started,          \* history: how many events have started
  offs,             \* history: the handlers taken off, and `started` then
  log, ops

jq == <<id, cache, deletedIds, guid, listening, attaches, capture>>
vars == <<program, parent, born, jq, events, bound, kept, started, offs, log,
          ops>>

Now ==
  [id |-> id, cache |-> cache, deletedIds |-> deletedIds, guid |-> guid,
   listening |-> listening, attaches |-> attaches, capture |-> capture]

Set(q) ==
  /\ id' = q.id
  /\ cache' = q.cache
  /\ deletedIds' = q.deletedIds
  /\ guid' = q.guid
  /\ listening' = q.listening
  /\ attaches' = q.attaches
  /\ capture' = q.capture

EmptyEntry == [data |-> {}, parsedAttrs |-> FALSE, events |-> <<>>]

Init ==
  /\ program \in Programs
  /\ parent = [n \in Nodes |-> CASE n = Box -> Doc
                                 [] n = FirstItem -> Box
                                 [] OTHER -> NoNode]
  /\ born = {FirstItem}
  /\ id = [n \in Nodes |-> NoId]
  /\ cache = <<>>
  /\ deletedIds = <<>>
  /\ guid = 1
  /\ listening = {}
  /\ attaches = 0
  /\ capture = FALSE
  /\ events = <<>>
  /\ bound = <<>>
  /\ kept = {}
  /\ started = 0
  /\ offs = {}
  /\ log = <<>>
  /\ ops = 0

(* The elements of list at the places in chosen, in their order.           *)
Chosen(list, chosen) ==
  LET upTo[k \in 0..Len(list)] ==
        IF k = 0 THEN <<>>
        ELSE IF k \in chosen THEN Append(upTo[k - 1], list[k])
        ELSE upTo[k - 1]
  IN upTo[Len(list)]

(***************************************************************************)
(* The tree                                                                *)
(***************************************************************************)
Children(n) == {m \in Nodes : parent[m] = n}

(* The nodes from n up to the document or to the root of what is detached. *)
PathUp(n) ==
  LET up[m \in Nodes \cup {NoNode}] ==
        IF m = NoNode THEN <<>> ELSE <<m>> \o up[parent[m]]
  IN up[n]

(* getAll( elem ); getAll( elem, false ) leaves elem out.                  *)
GetAll(n) == {m \in Nodes : n \in Range(PathUp(m))}
Below(n) == GetAll(n) \ {n}

InPage(n) == Doc \in Range(PathUp(n))

(***************************************************************************)
(* Data: internalData, internalRemoveData, cleanData                       *)
(***************************************************************************)
HasEntry(q, n) == q.id[n] # NoId /\ q.id[n] \in DOMAIN q.cache
Entry(q, n) == IF HasEntry(q, n) THEN q.cache[q.id[n]] ELSE EmptyEntry
Put(q, n, entry) ==
  [q EXCEPT !.cache = [i \in DOMAIN q.cache \cup {q.id[n]} |->
                        IF i = q.id[n] THEN entry ELSE q.cache[i]]]

(* The entry of a node, made when there is none, with the last id that was *)
(* given back.                                                             *)
WithEntry(q, n) ==
  IF HasEntry(q, n) THEN q
  ELSE IF q.id[n] # NoId THEN Put(q, n, EmptyEntry)
  ELSE IF q.deletedIds # <<>>
       THEN Put([q EXCEPT !.id[n] = Last(q.deletedIds),
                          !.deletedIds = Front(q.deletedIds)], n, EmptyEntry)
       ELSE Put([q EXCEPT !.id[n] = q.guid, !.guid = @ + 1], n, EmptyEntry)

IsEmptyDataObject(entry) == entry = EmptyEntry

(* What cleanData does once the handlers of the node are gone.             *)
DropEntry(q, n) ==
  [q EXCEPT !.cache = [i \in DOMAIN q.cache \ {q.id[n]} |-> q.cache[i]],
            !.id[n] = NoId,
            !.deletedIds = Append(@, q.id[n])]

(***************************************************************************)
(* Events: add, remove                                                     *)
(***************************************************************************)
NoHandlers == [list |-> <<>>, delegateCount |-> 0]
HandlersOf(q, n, type) ==
  LET evs == Entry(q, n).events
  IN IF type \in DOMAIN evs THEN evs[type] ELSE NoHandlers

WithHandlers(q, n, type, handlers) ==
  Put(q, n, [Entry(q, n) EXCEPT !.events =
               [t \in DOMAIN @ \cup {type} |->
                 IF t = type THEN handlers ELSE @[t]]])

(* The first list of a type: the native listener, or the special setup.    *)
Setup(q, n, type) ==
  IF type = "focusin"
  THEN [q EXCEPT !.attaches = @ + 1, !.capture = @ \/ q.attaches = 0]
  ELSE [q EXCEPT !.listening = @ \cup {<<n, type>>}]

(* Variant: the first to go takes the capturing listener with it.        *)
TeardownFirst(q, n, type) ==
  IF type = "focusin"
  THEN [q EXCEPT !.attaches = @ - 1, !.capture = FALSE]
  ELSE [q EXCEPT !.listening = @ \ {<<n, type>>}]

Teardown(q, n, type) ==
  IF type = "focusin"
  THEN [q EXCEPT !.attaches = @ - 1, !.capture = @ /\ q.attaches # 1]
  ELSE [q EXCEPT !.listening = @ \ {<<n, type>>}]

(* jQuery.event.add: delegates come before the handlers bound directly.    *)
EventAdd(q, n, b) ==
  LET q1 == WithEntry(q, n)
      type == Mapped(b.origType, b.delegated)
      old == HandlersOf(q1, n, type)
      q2 == IF type \in DOMAIN Entry(q1, n).events THEN q1
            ELSE Setup(q1, n, type)
  IN WithHandlers(q2, n, type,
       IF b.delegated
       THEN [list |-> InsertAt(old.list, old.delegateCount + 1, b),
             delegateCount |-> old.delegateCount + 1]
       ELSE [old EXCEPT !.list = Append(@, b)])

(* What a handler must be to be taken off by off(): "any" matches all.     *)
Matches(b, o) ==
  /\ o.mapped \/ o.origType = b.origType
  /\ o.handler \in {"any", b.handler}
  /\ o.ns \in {"any", b.ns}
  /\ o.selector => b.delegated

(* What is left of a list when the handlers at the places in off go.       *)
LeftOf(hs, off) ==
  [list |-> Chosen(hs.list, DOMAIN hs.list \ off),
   delegateCount |-> hs.delegateCount
                       - Cardinality({k \in off : hs.list[k].delegated})]

(* jQuery.event.remove for one kept type: the list without the matches,    *)
(* and the listener with it when the list is left empty.                   *)
RemoveType(q, n, type, o) ==
  LET old == HandlersOf(q, n, type)
      left == LeftOf(old, {k \in DOMAIN old.list : Matches(old.list[k], o)})
      entry == Entry(q, n)
  IN IF old.list = <<>> THEN q
     ELSE IF left.list # <<>> THEN WithHandlers(q, n, type, left)
     ELSE Put(Teardown(q, n, type), n,
              [entry EXCEPT !.events = [t \in DOMAIN @ \ {type} |-> @[t]]])

(* With no type (a namespace only) each kept type is tried; the order does *)
(* not matter, for each has its own list.                                  *)
RemoveTypes(q, n, o) ==
  LET q1 == RemoveType(q, n, "click", o)
      q2 == RemoveType(q1, n, "mouseover", o)
      q3 == RemoveType(q2, n, "focus", o)
  IN RemoveType(q3, n, "focusin", o)

(* The last handler takes "events" from the data, and the entry goes when  *)
(* nothing else is in it.                                                  *)
DropEmpty(q, n) ==
  IF IsEmptyDataObject(Entry(q, n)) THEN DropEntry(q, n) ELSE q

EventRemove(q, n, o) ==
  LET types == DOMAIN Entry(q, n).events
      q1 == IF o.origType = "any"
            THEN RemoveTypes(q, n, [o EXCEPT !.mapped = TRUE])
            ELSE RemoveType(q, n, Mapped(o.origType, o.selector), o)
  IN IF ~HasEntry(q, n) \/ IsEmptyDataObject(Entry(q, n)) \/ types = {} THEN q
     ELSE DropEmpty(q1, n)

OffAll(type) ==
  [origType |-> type, handler |-> "any", ns |-> "any", selector |-> FALSE,
   mapped |-> FALSE]

(* cleanData's step for one type: remove for a special one, removeEvent    *)
(* for the others.                                                         *)
CleanType(q, n, type) ==
  IF type \notin DOMAIN Entry(q, n).events THEN q
  ELSE IF type \in SpecialTypes THEN EventRemove(q, n, OffAll(type))
  ELSE [q EXCEPT !.listening = @ \ {<<n, type>>}]

DropKept(q, n) == IF HasEntry(q, n) THEN DropEntry(q, n) ELSE q

CleanData(q, n) ==
  LET q1 == CleanType(q, n, "click")
      q2 == CleanType(q1, n, "focus")
      q3 == CleanType(q2, n, "focusin")
      q4 == CleanType(q3, n, "mouseover")
  IN DropKept(q4, n)

CleanAll(q, ns) == FoldSet(LAMBDA n, r : CleanData(r, n), q, ns)

(***************************************************************************)
(* dispatch, handlers, trigger                                             *)
(***************************************************************************)
Idle == events = <<>>
NoEvent ==
  [n |-> 0, type |-> "none", target |-> NoNode, path |-> <<>>, i |-> 1,
   queue |-> <<>>, stopped |-> FALSE, immediate |-> FALSE, native |-> FALSE,
   related |-> NoNode, k |-> "none"]
Top == IF Idle THEN NoEvent ELSE Head(events)
Replace(e) == events' = <<e>> \o Tail(events)

NewEvent(n, type, target, path) ==
  [NoEvent EXCEPT !.n = n, !.type = type, !.target = target, !.path = path,
                  !.k = "path"]

At == Top.path[Top.i]
Group == IF Top.queue = <<>> THEN [elem |-> NoNode, hs |-> <<>>]
         ELSE Head(Top.queue)

(* Whether the selector of a delegate at `at` finds m: below an element it *)
(* must be when it is looked for, the document is not asked for.           *)
Found(m, at) == m \in Items /\ (at = Doc \/ m \in Below(at))

Matching(at, target) ==
  LET up == PathUp(target)
  IN Chosen(up, {k \in DOMAIN up : Found(up[k], at)})

(* Variant: every handler is looked for at every element.                *)
HandlersAll(at, target, type) ==
  LET hs == HandlersOf(Now, at, type)
      delegates == SubSeq(hs.list, 1, hs.delegateCount)
      matching == Matching(at, target)
  IN [i \in DOMAIN matching |-> [elem |-> matching[i], hs |-> delegates]]
     \o <<[elem |-> at, hs |-> hs.list]>>

(* The handlers that the event calls at the node: for each element from    *)
(* the target up to it the delegates that match, then those bound to it;   *)
(* a copy, so that what they bind or unbind is not seen by this dispatch.  *)
Handlers(at, target, type) ==
  LET hs == HandlersOf(Now, at, type)
      delegates == SubSeq(hs.list, 1, hs.delegateCount)
      direct == SubSeq(hs.list, hs.delegateCount + 1, Len(hs.list))
      matching == Matching(at, target)
  IN (IF delegates = <<>> THEN <<>>
      ELSE [i \in DOMAIN matching |-> [elem |-> matching[i], hs |-> delegates]])
     \o (IF direct = <<>> THEN <<>> ELSE <<[elem |-> at, hs |-> direct]>>)

(* The next node of the path: its handlers are looked up when the event    *)
(* gets there.                                                             *)
Visit ==
  /\ Top.k = "path"
  /\ ~Top.stopped
  /\ Top.i <= Len(Top.path)
  /\ LET heard == IF Top.native THEN <<At, Top.type>> \in listening
                  ELSE Top.type \in DOMAIN Entry(Now, At).events
     IN Replace(IF heard
                THEN [Top EXCEPT !.k = "queue",
                                 !.queue = Handlers(At, Top.target, Top.type)]
                ELSE [Top EXCEPT !.i = @ + 1])
  /\ UNCHANGED <<program, parent, born, jq, bound, kept, started, offs, log,
                 ops>>

EventEnds ==
  /\ Top.k = "path"
  /\ Top.stopped \/ Top.i > Len(Top.path)
  /\ events' = Tail(events)
  /\ UNCHANGED <<program, parent, born, jq, bound, kept, started, offs, log,
                 ops>>

(* The next element of the queue, unless propagation was stopped.          *)
NextElement ==
  /\ Top.k = "queue"
  /\ Group.hs = <<>> \/ Top.immediate
  /\ Replace(IF Top.stopped \/ Len(Top.queue) <= 1
             THEN [Top EXCEPT !.k = "path", !.i = @ + 1, !.queue = <<>>]
             ELSE [Top EXCEPT !.queue = Tail(@)])
  /\ UNCHANGED <<program, parent, born, jq, bound, kept, started, offs, log,
                 ops>>

(* History: the handlers us (their numbers) are off from now on.           *)
Gone(us) == offs' = offs \cup (us \X {started})
OfNodes(ns) == {u \in DOMAIN bound : bound[u].node \in ns}

(* mouseenter is a mouseover that came from outside the element.           *)
Entered(elem) ==
  Top.related = NoNode \/ (elem \notin Range(PathUp(Top.related)))

(* A handler that one() bound takes itself off before it runs.             *)
CallHandler ==
  /\ Top.k = "queue"
  /\ Group.hs # <<>>
  /\ ~Top.immediate
  /\ LET b == Head(Group.hs)
         e == [Top EXCEPT !.queue[1].hs = Tail(@)]
         off == [origType |-> b.origType, handler |-> b.handler,
                 ns |-> IF b.ns = "" THEN "any" ELSE b.ns,
                 selector |-> b.delegated, mapped |-> FALSE]
     IN IF b.origType = "mouseenter" /\ ~Entered(Group.elem)
        THEN /\ Replace(e)
             /\ UNCHANGED <<jq, offs, log>>
        ELSE /\ Replace([e EXCEPT !.k = "called"])
             /\ Set(IF b.one THEN EventRemove(Now, At, off) ELSE Now)
             /\ Gone(IF b.one THEN {b.uid} ELSE {})
             /\ log' = Append(log, [n |-> Top.n, at |-> At,
                                    elem |-> Group.elem, b |-> b])
  /\ UNCHANGED <<program, parent, born, bound, kept, started, ops>>

(* The handler returns, having stopped the event or not.                   *)
Return(how) ==
  /\ Top.k = "called"
  /\ how # "go" => "stop" \in program.calls
  /\ Replace([Top EXCEPT !.k = "queue",
                         !.stopped = @ \/ how # "go",
                         !.immediate = @ \/ how = "immediate"])
  /\ UNCHANGED <<program, parent, born, jq, bound, kept, started, offs, log,
                 ops>>

(***************************************************************************)
(* What a script or a handler calls                                        *)
(***************************************************************************)
Calls(op) ==
  /\ op \in program.calls
  /\ Idle \/ Top.k = "called"
  /\ ops < MaxOps
  /\ ops' = ops + 1

Exists(n) == n \in born \cup {Doc, Box}
Touched(n) == kept' = IF InPage(n) THEN kept ELSE kept \cup {n}

(* on() and one()                                                          *)
On(n, b) ==
  /\ Calls("on")
  /\ Exists(n)
  /\ Set(EventAdd(Now, n, [b EXCEPT !.uid = Len(bound) + 1]))
  /\ bound' = Append(bound, [node |-> n, b |-> b])
  /\ Touched(n)
  /\ UNCHANGED <<program, parent, born, events, started, offs, log>>

(* off(): of what was bound to n, all that has the type, the handler, the  *)
(* namespace and, when one is given, the selector.                         *)
Off(n, o) ==
  /\ Calls("off")
  /\ Exists(n)
  /\ Set(EventRemove(Now, n, o))
  /\ Gone({u \in OfNodes({n}) : /\ o.origType \in {"any", bound[u].b.origType}
                                /\ o.handler \in {"any", bound[u].b.handler}
                                /\ o.ns \in {"any", bound[u].b.ns}
                                /\ o.selector => bound[u].b.delegated})
  /\ UNCHANGED <<program, parent, born, events, bound, kept, started, log>>

(* data( key, value ), and data(), which reads the data- attributes once.  *)
SetData(n) ==
  /\ Calls("data")
  /\ Exists(n)
  /\ LET q == WithEntry(Now, n)
     IN Set(Put(q, n, [Entry(q, n) EXCEPT !.data = {"key"}]))
  /\ Touched(n)
  /\ UNCHANGED <<program, parent, born, events, bound, started, offs, log>>

AllData(n) ==
  /\ Calls("data")
  /\ Exists(n)
  /\ LET q == WithEntry(Now, n)
     IN Set(Put(q, n, [Entry(q, n) EXCEPT !.parsedAttrs = @ \/ n # Doc]))
  /\ Touched(n)
  /\ UNCHANGED <<program, parent, born, events, bound, started, offs, log>>

RemoveData(n) ==
  /\ Calls("data")
  /\ Exists(n)
  /\ HasEntry(Now, n)
  /\ LET entry == [Entry(Now, n) EXCEPT !.data = {}]
     IN Set(IF IsEmptyDataObject(entry) THEN DropEntry(Now, n)
              ELSE Put(Now, n, entry))
  /\ UNCHANGED <<program, parent, born, events, bound, kept, started, offs,
                 log>>

(* html( value ) of an element: what is in it is cleaned and thrown away,  *)
(* and new elements take its place.                                        *)
Html(n, new) ==
  /\ Calls("html")
  /\ n = Box
  /\ new \in Items \ born
  /\ born' = born \cup {new}
  /\ parent' = [m \in Nodes |-> CASE m = new -> n
                                  [] m \in Children(n) -> NoNode
                                  [] OTHER -> parent[m]]
  /\ Set(CleanAll(Now, Below(n)))
  /\ Gone(OfNodes(Below(n)))
  /\ kept' = kept \ Below(n)
  /\ UNCHANGED <<program, events, bound, started, log>>

(* Variant: what is below the node is not cleaned.                       *)
RemoveNodeOnly(n, keepData) ==
  /\ Calls("remove")
  /\ n \in born
  /\ parent' = [parent EXCEPT ![n] = NoNode]
  /\ Set(IF keepData THEN Now ELSE CleanData(Now, n))
  /\ Gone(IF keepData THEN {} ELSE OfNodes(GetAll(n)))
  /\ kept' = IF keepData THEN kept \cup GetAll(n) ELSE kept \ GetAll(n)
  /\ UNCHANGED <<program, born, events, bound, started, log>>

(* remove(), and detach() when the data is kept.                           *)
RemoveNode(n, keepData) ==
  /\ Calls("remove")
  /\ n \in born
  /\ parent' = [parent EXCEPT ![n] = NoNode]
  /\ Set(IF keepData THEN Now ELSE CleanAll(Now, GetAll(n)))
  /\ Gone(IF keepData THEN {} ELSE OfNodes(GetAll(n)))
  /\ kept' = IF keepData THEN kept \cup GetAll(n) ELSE kept \ GetAll(n)
  /\ UNCHANGED <<program, born, events, bound, started, log>>

AppendTo(n, to) ==
  /\ Calls("append")
  /\ n \in born
  /\ to \in (born \cup {Box}) \ GetAll(n)
  /\ parent[to] # n
  /\ parent' = [parent EXCEPT ![n] = to]
  /\ kept' = IF InPage(to) THEN kept \ GetAll(n)
             ELSE kept \cup {m \in GetAll(n) : InPage(m)}
  /\ UNCHANGED <<program, born, jq, events, bound, started, offs, log>>

(* clone( true ) of an item: data and handlers are copied, each handler    *)
(* through jQuery.event.add.                                               *)
ListOf(n, type) == HandlersOf(Now, n, type).list
CopyAll(q, n, list) == FoldLeft(LAMBDA r, b : EventAdd(r, n, b), q, list)

Clone(n, new) ==
  /\ Calls("clone")
  /\ n \in born
  /\ Children(n) = {}
  /\ new \in Items \ born
  /\ born' = born \cup {new}
  /\ LET entry == Entry(Now, n)
         q0 == WithEntry(Now, new)
         q1 == Put(q0, new, [entry EXCEPT !.events = <<>>])
         copied == ListOf(n, "click") \o ListOf(n, "mouseover")
                     \o ListOf(n, "focus") \o ListOf(n, "focusin")
         fresh == [i \in DOMAIN copied |->
                    [copied[i] EXCEPT !.uid = Len(bound) + i]]
     IN IF IsEmptyDataObject(entry)
        THEN UNCHANGED <<jq, bound>>
        ELSE /\ Set(CopyAll(q1, new, fresh))
             /\ bound' = bound \o [i \in DOMAIN copied |->
                                   [node |-> new, b |-> copied[i]]]
  /\ kept' = kept \cup {new}
  /\ UNCHANGED <<program, parent, events, started, offs, log>>

(* trigger() of a type that has no native method: the path is fixed when   *)
(* it is called.                                                           *)
Trigger(n, origType) ==
  /\ Calls("trigger")
  /\ Exists(n)
  /\ started' = started + 1
  /\ events' = <<NewEvent(started + 1, Mapped(origType, FALSE), n, PathUp(n))>>
                 \o events
  /\ UNCHANGED <<program, parent, born, jq, bound, kept, offs, log>>

(* The browser's events.  A focus is caught by the document's capturing    *)
(* listener, which makes a focusin of it, and does not bubble itself.      *)
Native(n, type, related) ==
  /\ "native" \in program.calls
  /\ Idle
  /\ ops < MaxOps
  /\ ops' = ops + 1
  /\ InPage(n)
  /\ related # NoNode => type = "mouseover" /\ InPage(related)
  /\ started' = started + 1
  /\ events' =
       (IF type = "focus" /\ capture
        THEN <<NewEvent(started + 1, "focusin", n, PathUp(n))>> ELSE <<>>)
       \o <<[NewEvent(started + 1, type, n,
                      IF type = "focus" THEN <<n>> ELSE PathUp(n))
             EXCEPT !.native = TRUE, !.related = related]>>
  /\ UNCHANGED <<program, parent, born, jq, bound, kept, offs, log>>

Runs ==
  Visit \/ EventEnds \/ NextElement \/ CallHandler
    \/ (\E how \in {"go", "stop", "immediate"} : Return(how))

Page ==
  \/ \E n \in Nodes, b \in program.binds : On(n, b)
  \/ \E n \in Nodes, o \in Offs : Off(n, o)
  \/ \E n \in Nodes : SetData(n) \/ AllData(n) \/ RemoveData(n)
  \/ \E new \in Items : Html(Box, new)
  \/ \E n \in Items, keepData \in BOOLEAN : RemoveNode(n, keepData)
  \/ \E n \in Items, to \in Nodes : AppendTo(n, to)
  \/ \E n \in Items, new \in Items : Clone(n, new)
  \/ \E n \in Nodes, t \in {"click", "mouseenter"} : Trigger(n, t)

Browser ==
  \E n \in Nodes, type \in {"click", "mouseover", "focus"},
     related \in Nodes \cup {NoNode} : Native(n, type, related)

Next == Runs \/ Page \/ Browser

Spec == Init /\ [][Next]_vars
FairSpec == Spec /\ WF_vars(Runs)

(***************************************************************************)
(* Properties                                                              *)
(***************************************************************************)
TypeOK ==
  /\ parent \in [Nodes -> Nodes \cup {NoNode}]
  /\ born \subseteq Items
  /\ id \in [Nodes -> 0..guid]
  /\ DOMAIN cache \subseteq 1..guid
  /\ \A i \in DOMAIN cache : DOMAIN cache[i].events \subseteq Types
  /\ attaches \in Nat
  /\ capture \in BOOLEAN
  /\ listening \subseteq Nodes \X Types
  /\ Top.k \in {"none", "path", "queue", "called"}

(* An id is one element's, or was given back, or neither: no element comes *)
(* to see what was kept for another, though ids are used again.            *)
IdsApart ==
  /\ \A m, n \in Nodes : id[m] = id[n] /\ id[m] # NoId => m = n
  /\ IsInjective(deletedIds)
  /\ Range(deletedIds) \cap (Range(id) \cup DOMAIN cache) = {}
  /\ DOMAIN cache \subseteq Range(id)

(* Nothing is kept in jQuery.cache for an element that html() or remove()  *)
(* took out of the page with all that was below it: only for one that was  *)
(* detached or copied, or written to after it was taken out.               *)
NoLeak == \A n \in Nodes : HasEntry(Now, n) => InPage(n) \/ n \in kept

(* What jQuery keeps for an element is that element's, and goes with it    *)
(* (internalData, cleanData): the conjunction of the above.                *)
DataHeld == TypeOK /\ IdsApart /\ NoLeak

(* A node has a native listener of a type exactly when jQuery keeps        *)
(* handlers of that type for it; with handlers of focusin the document     *)
(* catches focus.  Delegated handlers come first and are counted.          *)
Heard ==
  /\ \A n \in Nodes, t \in Types \ {"focusin"} :
       <<n, t>> \in listening <=> t \in DOMAIN Entry(Now, n).events
  /\ (\E n \in Nodes : "focusin" \in DOMAIN Entry(Now, n).events) => capture
  /\ capture <=> attaches > 0
  /\ \A i \in DOMAIN cache : \A t \in DOMAIN cache[i].events :
       LET hs == cache[i].events[t]
       IN /\ hs.list # <<>>
          /\ \A k \in DOMAIN hs.list :
               hs.list[k].delegated <=> k <= hs.delegateCount

(* No event that starts after a handler was taken off calls it: by off(),  *)
(* by one(), or because html() or remove() took its element away, even if  *)
(* the element is still triggered and its id is another's by then.         *)
OffIsOff ==
  \A k \in DOMAIN log :
    \A o \in offs : o[1] = log[k].b.uid => log[k].n <= o[2]

(* An event calls a handler once for an element: the element it was bound  *)
(* to or, if it is a delegate, one below that.                             *)
CalledOnce ==
  \A i, j \in DOMAIN log :
    /\ log[i].b.delegated <=> log[i].elem # log[i].at
    /\ bound[log[i].b.uid].node = log[i].at
    /\ i # j => \/ log[i].n # log[j].n
                \/ log[i].elem # log[j].elem
                \/ log[i].b.uid # log[j].b.uid

(* An event calls the handlers that are bound when it starts, each once    *)
(* (trigger, dispatch, handlers): the conjunction of the two above.        *)
CalledRight == OffIsOff /\ CalledOnce

(* The document stops listening for focus when the last handler of focusin *)
(* is gone.                                                                *)
NotHeardInVain ==
  capture => \E n \in Nodes : "focusin" \in DOMAIN Entry(Now, n).events

(* A handler bound with one() is called once.                              *)
OneIsOnce ==
  \A i, j \in DOMAIN log :
    log[i].b.uid = log[j].b.uid /\ i # j => ~log[i].b.one
=============================================================================
