-------------------------------- MODULE Ajax --------------------------------
(***************************************************************************)
(* The requests of jQuery (jquery-1.9.1.js): jQuery.ajax with its          *)
(* prefilters, transports and conversions, JSONP, load(), and the global   *)
(* events.                                                                 *)
(*                                                                         *)
(* There is one thread.  The page's functions get control at many points   *)
(* of a request, and may abort it, start another or throw there.  frames   *)
(* is the stack of the activations under way, the running one first: the   *)
(* request r and the point "at" whose functions of the page run.           *)
(*   in ajax():  prefilter, ajaxStart, beforeSend, ajaxSend                *)
(*   in done():  outcome (success or error, then statusCode), global       *)
(*               (ajaxSuccess or ajaxError), complete, ajaxComplete,       *)
(*               ajaxStop                                                  *)
(* With no frame the browser may deliver an answer, run a script or fire a *)
(* timer, and the page may start or abort requests.                        *)
(***************************************************************************)
EXTENDS Integers, Sequences, FiniteSets, FiniteSetsExt, SequencesExt

CONSTANTS
  Pages,            \* pages: the settings they use, and how many requests
  Answers,          \* what a server may answer
  Cors,             \* jQuery.support.cors
  MaxRequests       \* bound: requests of any page

(* What the code looks at of the settings of a request.                    *)
Settings ==
  [types : Seq(STRING) \ {<<>>}, jsonp : {"no", "generated", "named"},
   crossDomain : BOOLEAN, async : BOOLEAN, timeout : BOOLEAN,
   global : BOOLEAN, load : BOOLEAN, ifModified : BOOLEAN,
   beforeSend : BOOLEAN]

(* What is told of an answer of a server has its text with it              *)
(* ("responses" of the xhr's callback).                                    *)
ASSUME AjaxAssumption ==
  /\ MaxRequests \in Nat /\ Cors \in BOOLEAN
  /\ \A p \in Pages : /\ p.settings \subseteq Settings
                      /\ p.requests \in 0 .. MaxRequests
  /\ \A a \in Answers :
       /\ a.status \in {"ok", "nocontent", "notmodified", "error"}
       /\ a.good \in BOOLEAN
       /\ a.responses

Ids == 1..MaxRequests
None == 0           \* no request's data, an undefined function or name
Named == MaxRequests + 1
Names == 1..Named   \* callback names: generated ones, and the page's own

VARIABLES
  page,             \* this page
  reqs,             \* the closure of each call of jQuery.ajax
  frames,
  active,           \* jQuery.active
  window,           \* the callbacks: whose function a name is bound to
  oldCallbacks, nonce,
  etag,             \* jQuery.etag has a value for the URL of ifModified
  element,          \* whose answer the last load() has put in an element
  shown,            \* history: an ajaxStart has had no ajaxStop yet
  spoilt            \* history: requests left by an exception of the page, or
                    \* aborted where ajax() does not see it

vars == <<page, reqs, frames, active, window, oldCallbacks, nonce, etag,
          element, shown, spoilt>>
jsonpVars == <<window, oldCallbacks, nonce>>

Init ==
  /\ page \in Pages
  /\ reqs = <<>>
  /\ frames = <<>>
  /\ active = 0
  /\ window = [n \in Names |-> None]
  /\ oldCallbacks = <<>>
  /\ nonce = 1
  /\ etag = FALSE
  /\ element = None
  /\ shown = FALSE
  /\ spoilt = {}

Idle == frames = <<>>
Top == IF Idle THEN [r |-> None, at |-> "none"] ELSE Head(frames)
Below == Tail(frames)
At(point) == ~Idle /\ Top.at = point
Frame(r, at) == [r |-> r, at |-> at]

(* The functions of the page run, or nothing of jQuery does.               *)
InPage ==
  \/ Idle
  \/ /\ Top.at = "ajaxSend" => reqs[Top.r].globals
     /\ Top.at = "beforeSend" => reqs[Top.r].s.beforeSend

(***************************************************************************)
(* Types and conversions                                                   *)
(***************************************************************************)
(* In the order of the properties of s.converters; the one from text to    *)
(* html changes nothing.                                                   *)
Converters(s) ==
  LET always == << <<"*", "text">>, <<"text", "html">>, <<"text", "json">>,
                   <<"text", "xml">>, <<"text", "script">> >>
  IN IF s.jsonp = "no" THEN always ELSE Append(always, <<"script", "json">>)

(* The prefilter of jsonp delegates to script.                             *)
DataTypes(s) == IF s.jsonp = "no" THEN s.types ELSE <<"script", "json">>

(* ajaxHandleResponses, when the response is a text: "*" gives way to the  *)
(* type of the content, and the text is the type to convert from.          *)
HandleResponses(s, type) ==
  LET given == DataTypes(s)
      rest == IF Head(given) = "*" THEN Tail(given) ELSE given
      typed == IF Head(given) = "*" /\ type # "unknown"
               THEN <<type>> \o rest ELSE rest
  IN IF typed # <<>> /\ Head(typed) = "text"
     THEN typed ELSE <<"text">> \o typed

(* The converters from one type to another: one, or the first pair.        *)
Between(cs, from, to) ==
  LET at(f, t) == {i \in DOMAIN cs : cs[i] = <<f, t>>}
      one(t) == IF at(from, t) # {} THEN at(from, t) ELSE at("*", t)
      pairs == {i \in DOMAIN cs : cs[i][2] = to /\ one(cs[i][1]) # {}}
      used == CASE one(to) # {} -> one(to)
                [] one(to) = {} /\ pairs = {} -> {}
                [] OTHER -> {Min(pairs)} \cup one(cs[Min(pairs)][1])
  IN {cs[i] : i \in used}

(* ajaxConvert: the converters applied on the way along the types, until   *)
(* one is missing.                                                         *)
Conversions(cs, types) ==
  LET before(i) == {j \in 1 .. i - 1 : types[j] # "*"}
      prev(i) == types[Max(before(i))]
      steps == {i \in DOMAIN types : /\ types[i] # "*" /\ before(i) # {}
                                     /\ prev(i) # types[i]}
      missing == {i \in steps : Between(cs, prev(i), types[i]) = {}}
      taken == {i \in steps : \A m \in missing : i < m}
  IN [ok |-> missing = {},
      used |-> UNION {Between(cs, prev(i), types[i]) : i \in taken}]

Uses(way, from, to) == <<from, to>> \in way.used

(* A transport for the first type, or for any.                             *)
TransportOf(s) ==
  IF s.crossDomain /\ Head(DataTypes(s)) = "script" THEN "script"
  ELSE IF ~s.crossDomain \/ Cors THEN "xhr" ELSE "undefined"

(* The script of the answer to r calls the function its name is bound to.  *)
ScriptRuns(rs, r) ==
  LET f == IF rs[r].name = None THEN None ELSE window[rs[r].name]
  IN IF f = None THEN rs ELSE [rs EXCEPT ![f].container = r]

(***************************************************************************)
(* done(): the page is told                                                *)
(***************************************************************************)
Tell(rs, r, what) == [rs EXCEPT ![r].told = Append(@, what)]

Aborted == [status |-> "error", type |-> "unknown", good |-> FALSE,
            responses |-> FALSE]
Loaded == [Aborted EXCEPT !.status = "ok", !.good = TRUE]

(* The way from the answer's type to the one asked for; a script on it is  *)
(* run.                                                                    *)
Way(s, answer) ==
  Conversions(Converters(s),
              IF answer.responses THEN HandleResponses(s, answer.type)
              ELSE DataTypes(s))
Evaluates(way, answer) == answer.status = "ok" /\ Uses(way, "text", "script")
Evaluated(rs, r, way, answer) ==
  IF Evaluates(way, answer) /\ answer.good THEN ScriptRuns(rs, r) ELSE rs

(* The requests, r's with its outcome, when done() has the answer.         *)
Outcome(rs, r, answer) ==
  LET way == Way(rs[r].s, answer)
      evaluates == Evaluates(way, answer)
      ran == Evaluated(rs, r, way, answer)
      undefined == evaluates /\ rs[r].name # None /\ window[rs[r].name] = None
      converted ==
        /\ way.ok
        /\ answer.good \/ ~(evaluates \/ Uses(way, "text", "json"))
        /\ ~undefined
        /\ Uses(way, "script", "json") => ran[r].container # None
      success == \/ answer.status \in {"nocontent", "notmodified"}
                 \/ answer.status = "ok" /\ converted
  IN [ran EXCEPT ![r].outcome = IF success THEN "success" ELSE "error",
                 ![r].data = IF ~success \/ answer.status # "ok" THEN None
                             ELSE IF Uses(way, "script", "json")
                                  THEN ran[r].container ELSE r,
                 ![r].told = Append(@, "outcome")]

(* What jsonp has given to always(): it restores the name, keeps a         *)
(* generated one for later and calls the function it had replaced.         *)
CleanUp(rs, r) ==
  LET q == rs[r]
      passed == IF q.container # None /\ q.overwritten # None
                THEN [rs EXCEPT ![q.overwritten].container = q.container]
                ELSE rs
  IN /\ reqs' = [passed EXCEPT ![r].container = None, ![r].overwritten = None]
     /\ window' = IF q.name = None THEN window
                  ELSE [window EXCEPT ![q.name] = q.overwritten]
     /\ oldCallbacks' = IF q.s.jsonp = "generated"
                        THEN Append(oldCallbacks, q.name) ELSE oldCallbacks
     /\ UNCHANGED nonce

(* Variant: answers a request that was answered.                           *)
DoneAgain(rs, r, answer, fs) ==
  LET ended == [rs EXCEPT ![r].state = 2, ![r].timer = FALSE,
                          ![r].transport = "undefined"]
  IN /\ frames' = <<Frame(r, "outcome")>> \o fs
     /\ CleanUp(Outcome(ended, r, answer), r)
     /\ UNCHANGED <<etag, element>>

(* load(): the element gets the answer.                                    *)
LoadDone(rs, r) ==
  element' = IF rs[r].s.load /\ rs[r].outcome = "success" THEN r ELSE element

(* Called once, but for a request that was aborted before it was sent: the *)
(* page knows its outcome, and its answer is converted all the same.       *)
Done(rs, r, answer, fs) ==
  LET ended == [rs EXCEPT ![r].state = 2, ![r].timer = FALSE,
                          ![r].transport = "undefined"]
      settled == Outcome(ended, r, answer)
      again == Evaluated(ended, r, Way(rs[r].s, answer), answer)
  IN IF rs[r].state = 2
     THEN /\ reqs' = rs
          /\ frames' = fs
          /\ UNCHANGED <<jsonpVars, etag, element>>
     ELSE /\ etag' = (etag \/ (rs[r].s.ifModified /\ answer.status = "ok"))
          /\ IF rs[r].outcome = "pending"
             THEN /\ CleanUp(settled, r)
                  /\ LoadDone(settled, r)
                  /\ frames' = <<Frame(r, "outcome")>> \o fs
             ELSE /\ UNCHANGED <<jsonpVars, element>>
                  /\ IF rs[r].globals
                     THEN /\ reqs' = Tell(again, r, "global")
                          /\ frames' = <<Frame(r, "global")>> \o fs
                     ELSE reqs' = again /\ frames' = fs

(* After the functions of the outcome and of the status: the global event. *)
OutcomeReturns ==
  /\ At("outcome")
  /\ IF reqs[Top.r].globals
     THEN /\ frames' = <<Frame(Top.r, "global")>> \o Below
          /\ reqs' = Tell(reqs, Top.r, "global")
     ELSE /\ frames' = <<Frame(Top.r, "complete")>> \o Below
          /\ reqs' = Tell(reqs, Top.r, "complete")
  /\ UNCHANGED <<page, active, jsonpVars, etag, element, shown, spoilt>>

(* completeDeferred is fired once.                                         *)
GlobalReturns ==
  /\ At("global")
  /\ IF Contains(reqs[Top.r].told, "complete")
     THEN /\ frames' = <<Frame(Top.r, "ajaxComplete")>> \o Below
          /\ reqs' = Tell(reqs, Top.r, "ajaxComplete")
     ELSE /\ frames' = <<Frame(Top.r, "complete")>> \o Below
          /\ reqs' = Tell(reqs, Top.r, "complete")
  /\ UNCHANGED <<page, active, jsonpVars, etag, element, shown, spoilt>>

CompleteReturns ==
  /\ At("complete")
  /\ IF reqs[Top.r].globals
     THEN /\ frames' = <<Frame(Top.r, "ajaxComplete")>> \o Below
          /\ reqs' = Tell(reqs, Top.r, "ajaxComplete")
     ELSE frames' = Below /\ UNCHANGED reqs
  /\ UNCHANGED <<page, active, jsonpVars, etag, element, shown, spoilt>>

(* The last of the requests under way ends: ajaxStop.                      *)
AjaxCompleteReturns ==
  /\ At("ajaxComplete")
  /\ active' = active - 1
  /\ IF active = 1
     THEN frames' = <<Frame(Top.r, "ajaxStop")>> \o Below /\ shown' = FALSE
     ELSE frames' = Below /\ UNCHANGED shown
  /\ UNCHANGED <<page, reqs, jsonpVars, etag, element, spoilt>>

AjaxStopReturns ==
  /\ At("ajaxStop")
  /\ frames' = Below
  /\ UNCHANGED <<page, reqs, active, jsonpVars, etag, element, shown, spoilt>>

(***************************************************************************)
(* jQuery.ajax                                                             *)
(***************************************************************************)
NewRequest(s, name) ==
  [s |-> s, state |-> 0, transport |-> "undefined", timer |-> FALSE,
   globals |-> FALSE, name |-> name,
   overwritten |-> IF name = None THEN None ELSE window[name],
   container |-> None, listening |-> FALSE, coming |-> FALSE, asked |-> FALSE,
   silent |-> FALSE,
   outcome |-> "pending", data |-> None, told |-> <<>>]

(* The default jsonpCallback: a name that is free again, or a new one.     *)
Again(s) == s.jsonp = "generated" /\ oldCallbacks # <<>>
NameFor(s) ==
  CASE s.jsonp = "no" -> None
    [] s.jsonp = "named" -> Named
    [] s.jsonp = "generated" ->
         IF Again(s) THEN Last(oldCallbacks) ELSE nonce

(* Up to jQuery's own prefilters: the one of jsonp installs its function.  *)
Ajax(s) ==
  /\ InPage
  /\ s \in page.settings
  /\ Len(reqs) < page.requests
  /\ LET r == Len(reqs) + 1
         name == NameFor(s)
     IN /\ reqs' = Append(reqs, NewRequest(s, name))
        /\ window' = IF name = None THEN window ELSE [window EXCEPT ![name] = r]
        /\ oldCallbacks' = IF Again(s) THEN Front(oldCallbacks)
                           ELSE oldCallbacks
        /\ nonce' = IF name = nonce THEN nonce + 1 ELSE nonce
        /\ frames' = <<Frame(r, "prefilter")>> \o frames
  /\ UNCHANGED <<page, active, etag, element, shown, spoilt>>

(* The prefilter of script: no global events across domains.               *)
Global(s) == s.global /\ ~(s.crossDomain /\ Head(DataTypes(s)) = "script")

(* A request that was aborted by now goes no further.                      *)
PrefilterReturns ==
  /\ At("prefilter")
  /\ LET r == Top.r
         global == Global(reqs[r].s)
     IN IF reqs[r].state = 2
        THEN /\ frames' = Below
             /\ UNCHANGED <<reqs, active, shown>>
        ELSE /\ reqs' = [reqs EXCEPT ![r].globals = global]
             /\ active' = IF global THEN active + 1 ELSE active
             /\ shown' = (shown \/ (global /\ active = 0))
             /\ frames' = <<Frame(r, IF global /\ active = 0 THEN "ajaxStart"
                                     ELSE "beforeSend")>> \o Below
  /\ UNCHANGED <<page, jsonpVars, etag, element, spoilt>>

AjaxStartReturns ==
  /\ At("ajaxStart")
  /\ frames' = <<Frame(Top.r, "beforeSend")>> \o Below
  /\ UNCHANGED <<page, reqs, active, jsonpVars, etag, element, shown, spoilt>>

(* beforeSend returns false, or the request has been aborted.              *)
Cancel ==
  /\ At("beforeSend")
  /\ reqs[Top.r].s.beforeSend
  /\ Done(reqs, Top.r, Aborted, Below)
  /\ UNCHANGED <<page, active, shown, spoilt>>

(* There is a transport, and ajaxSend is triggered.  Without a beforeSend  *)
(* nobody looks whether the request was aborted in ajaxStart.              *)
BeforeSendReturns ==
  /\ At("beforeSend")
  /\ LET r == Top.r
         s == reqs[r].s
         asked == [reqs EXCEPT ![r].asked = s.ifModified /\ etag,
                               ![r].transport = TransportOf(s)]
     IN /\ s.beforeSend => reqs[r].state # 2
        /\ IF TransportOf(s) = "undefined"
           THEN Done(asked, r, Aborted, Below)
           ELSE /\ reqs' = asked
                /\ frames' = <<Frame(r, "ajaxSend")>> \o Below
                /\ UNCHANGED <<jsonpVars, etag, element>>
  /\ UNCHANGED <<page, active, shown, spoilt>>

(* Variant: no timeout across domains.                                     *)
WithTimerHere(rs, r) ==
  [rs EXCEPT ![r].timer = rs[r].s.async /\ rs[r].s.timeout
                            /\ ~rs[r].s.crossDomain,
             ![r].state = 1]

(* The timeout is set before the request is sent.                          *)
WithTimer(rs, r) ==
  [rs EXCEPT ![r].timer = rs[r].s.async /\ rs[r].s.timeout, ![r].state = 1]

(* transport.send() throws, because the browser refuses or because a       *)
(* function of ajaxSend has aborted the request and transport is undefined.*)
SendThrows ==
  /\ At("ajaxSend")
  /\ reqs[Top.r].transport # "script"
  /\ Done(WithTimer(reqs, Top.r), Top.r, Aborted, Below)
  /\ UNCHANGED <<page, active, shown, spoilt>>

Send ==
  /\ At("ajaxSend")
  /\ reqs[Top.r].transport # "undefined"
  /\ reqs[Top.r].s.async \/ reqs[Top.r].transport = "script"
  /\ reqs' = [WithTimer(reqs, Top.r) EXCEPT ![Top.r].listening = TRUE,
                                            ![Top.r].coming = TRUE]
  /\ frames' = Below
  /\ UNCHANGED <<page, active, jsonpVars, etag, element, shown, spoilt>>

Possible(r, answer) == answer.status = "notmodified" => reqs[r].asked

(* A synchronous request is answered within send().                        *)
SendSync(answer) ==
  /\ At("ajaxSend")
  /\ reqs[Top.r].transport = "xhr"
  /\ ~reqs[Top.r].s.async
  /\ Possible(Top.r, answer)
  /\ Done(WithTimer(reqs, Top.r), Top.r, answer, Below)
  /\ UNCHANGED <<page, active, shown, spoilt>>

(***************************************************************************)
(* The browser: the listener of an xhr, a script, a timer                  *)
(***************************************************************************)
Answer(r, answer) ==
  /\ Idle
  /\ reqs[r].listening /\ reqs[r].transport = "xhr"
  /\ Possible(r, answer)
  /\ Done([reqs EXCEPT ![r].listening = FALSE, ![r].coming = FALSE], r, answer,
          <<>>)
  /\ UNCHANGED <<page, active, shown, spoilt>>

(* A script that is under way runs although its tag has been removed; its  *)
(* onload tells done() unless the request was aborted.  What is loaded may *)
(* not be the script asked for, and call no function.                      *)
ScriptLoads(r, calls) ==
  /\ Idle
  /\ reqs[r].coming /\ TransportOf(reqs[r].s) = "script"
  /\ LET ran == IF calls THEN ScriptRuns(reqs, r) ELSE reqs
         here == [ran EXCEPT ![r].listening = FALSE, ![r].coming = FALSE,
                            ![r].silent = ~calls]
     IN IF reqs[r].listening
        THEN Done(here, r, Loaded, <<>>)
        ELSE /\ reqs' = here
             /\ UNCHANGED <<frames, jsonpVars, etag, element>>
  /\ UNCHANGED <<page, active, shown, spoilt>>

(* jqXHR.abort(): the listener goes; a script cannot be called back.       *)
Stopped(r) ==
  [reqs EXCEPT ![r].listening = FALSE,
               ![r].coming = @ /\ TransportOf(reqs[r].s) = "script"]

TimerFires(r) ==
  /\ Idle
  /\ reqs[r].timer
  /\ Done(Stopped(r), r, Aborted, <<>>)
  /\ UNCHANGED <<page, active, shown, spoilt>>

Abort(r) ==
  /\ InPage
  /\ reqs[r].state # 2
  /\ Done(Stopped(r), r, Aborted, frames)
  /\ spoilt' = IF \/ Frame(r, "ajaxSend") \in Range(frames)
                  \/ /\ Frame(r, "ajaxStart") \in Range(frames)
                     /\ ~reqs[r].s.beforeSend
               THEN spoilt \cup {r} ELSE spoilt
  /\ UNCHANGED <<page, active, shown>>

(* An exception of the page leaves every activation.                       *)
Throw ==
  /\ ~Idle
  /\ InPage
  /\ frames' = <<>>
  /\ spoilt' = spoilt \cup {frames[i].r : i \in DOMAIN frames}
  /\ UNCHANGED <<page, reqs, active, jsonpVars, etag, element, shown>>

Runs ==
  \/ PrefilterReturns \/ AjaxStartReturns \/ Cancel \/ BeforeSendReturns
  \/ SendThrows \/ Send \/ (\E a \in Answers : SendSync(a))
  \/ OutcomeReturns \/ GlobalReturns \/ CompleteReturns
  \/ AjaxCompleteReturns \/ AjaxStopReturns

Next ==
  \/ Runs
  \/ \E s \in page.settings : Ajax(s)
  \/ Throw
  \/ \E r \in DOMAIN reqs :
       \/ Abort(r)
       \/ TimerFires(r)
       \/ \E a \in Answers : Answer(r, a)
       \/ \E calls \in BOOLEAN : ScriptLoads(r, calls)

Spec == Init /\ [][Next]_vars

(* Functions return, and the browser runs its timers.  Nothing is assumed  *)
(* of the servers.                                                         *)
FairSpec ==
  /\ Spec
  /\ WF_vars(Runs)
  /\ \A r \in Ids : WF_vars(r \in DOMAIN reqs /\ TimerFires(r))

(***************************************************************************)
(* Properties                                                              *)
(***************************************************************************)
TypeOK ==
  /\ Len(reqs) <= MaxRequests
  /\ \A r \in DOMAIN reqs :
       /\ reqs[r].s \in page.settings
       /\ reqs[r].state \in 0..2
       /\ reqs[r].transport \in {"undefined", "xhr", "script"}
       /\ reqs[r].outcome \in {"pending", "success", "error"}
       /\ {reqs[r].data, reqs[r].container, reqs[r].overwritten}
            \subseteq Ids \cup {None}
       /\ reqs[r].name \in Names \cup {None}
  /\ \A i \in DOMAIN frames : frames[i].r \in DOMAIN reqs
  /\ active \in Int
  /\ window \in [Names -> Ids \cup {None}]
  /\ Range(oldCallbacks) \subseteq Names

(* Requests with global events from their ajaxStart to their ajaxStop.     *)
InAjax == {"ajaxStart", "beforeSend", "ajaxSend"}
InDone == {"outcome", "global", "complete", "ajaxComplete"}
UnderWay(r) ==
  /\ reqs[r].globals
  /\ \/ reqs[r].state = 1
     \/ \E f \in Range(frames) :
          f.r = r /\ (f.at \in InDone \/ (f.at \in InAjax /\ reqs[r].state = 0))

(* jQuery.active is the number of requests under way, and what a page      *)
(* shows between ajaxStart and ajaxStop is shown just when there is one,   *)
(* whatever its functions abort and start where they are called.  (Not     *)
(* after an exception, nor an abort in ajaxStart or ajaxSend:              *)
(* CountedAlways.)                                                         *)
CountedAlways ==
  /\ active = Cardinality({r \in DOMAIN reqs : UnderWay(r)})
  /\ shown = (active > 0)
Counted == spoilt = {} => CountedAlways

(* The page is told of each request once, in one order, and all of it when *)
(* the request is done.                                                    *)
Telling(r) == IF reqs[r].globals
              THEN <<"outcome", "global", "complete", "ajaxComplete">>
              ELSE <<"outcome", "complete">>
ToldOnce ==
  \A r \in DOMAIN reqs \ spoilt :
    /\ IsPrefix(reqs[r].told, Telling(r))
    /\ Idle => reqs[r].told = IF reqs[r].state = 2 THEN Telling(r) ELSE <<>>

(* Requests by JSONP with generated names: a name belongs to one pending   *)
(* request and is free otherwise, and the data a request succeeds with is  *)
(* its own, also when the scripts of aborted requests still run, if its    *)
(* own script calls its function.                                          *)
Generated == {r \in DOMAIN reqs : reqs[r].s.jsonp = "generated"}
OwnAnswer ==
  /\ \A n \in Names \ {Named} :
       {r \in Generated : reqs[r].outcome = "pending" /\ reqs[r].name = n}
         = {window[n]} \ {None}
  /\ \A r \in DOMAIN reqs :
       /\ reqs[r].s.jsonp # "named"
       /\ ~reqs[r].silent
       => reqs[r].data \in {r, None}

(* The conjunction of the above: what jQuery.ajax keeps.                   *)
RequestsKept == TypeOK /\ Counted /\ ToldOnce /\ OwnAnswer

(* Whatever the server does, the page is told the outcome of an            *)
(* asynchronous request with a timeout, also a JSONP request.              *)
RequestsEnd ==
  \A r \in Ids :
    (r \in DOMAIN reqs /\ reqs[r].s.async /\ reqs[r].s.timeout)
      ~> \/ r \in spoilt
         \/ r \in DOMAIN reqs /\ Contains(reqs[r].told, "complete")

(* By hand: the data of any success is the request's own (named functions, *)
(* scripts that call nothing); an element shows the load asked for last;   *)
(* "not modified" is told only to a page that has had the data.            *)
OwnAnswerAlways == \A r \in DOMAIN reqs : reqs[r].data \in {r, None}
LatestShown ==
  \A r \in DOMAIN reqs :
    reqs[r].s.load /\ reqs[r].outcome = "success" => element >= r
NotModifiedSeen ==
  (\E r \in DOMAIN reqs : reqs[r].asked)
    => \E r \in DOMAIN reqs : reqs[r].data = r
=============================================================================
