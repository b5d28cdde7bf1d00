----------------------------- MODULE AjaxProofs -----------------------------
(***************************************************************************)
(* Proofs about Ajax, for any pages, settings, answers and numbers of      *)
(* requests: whatever the functions of a page abort, start or throw where  *)
(* they are called, RequestsKept.                                          *)
(*                                                                         *)
(* The parts of the invariant are operators of the requests R, the         *)
(* activations F and the requests X left by an exception, so that the      *)
(* lemmas can speak of them before and after a step.                       *)
(***************************************************************************)
EXTENDS Ajax, FiniteSetTheorems, SequenceTheorems, TLAPS

Entering == InAjax \cup {"prefilter"}
Points == Entering \cup InDone \cup {"ajaxStop"}

Request(S) ==
  [s : S, state : {0, 1, 2}, transport : {"undefined", "xhr", "script"},
   timer : BOOLEAN, globals : BOOLEAN, name : Names \cup {None},
   overwritten : Ids \cup {None}, container : Ids \cup {None},
   listening : BOOLEAN, coming : BOOLEAN, asked : BOOLEAN, silent : BOOLEAN,
   outcome : {"pending", "success", "error"}, data : Ids \cup {None},
   told : Seq(InDone)]
Activation(n) == [r : 1 .. n, at : Points]

(* The types.                                                              *)
Typed ==
  /\ page \in Pages
  /\ reqs \in Seq(Request(page.settings))
  /\ Len(reqs) <= page.requests
  /\ frames \in Seq(Activation(Len(reqs)))
  /\ active \in Int /\ shown \in BOOLEAN /\ etag \in BOOLEAN
  /\ window \in [Names -> Ids \cup {None}]
  /\ oldCallbacks \in Seq(Ids)
  /\ nonce \in 1 .. Len(reqs) + 1
  /\ spoilt \subseteq 1 .. Len(reqs)

(* A request with JSONP holds its name while it is pending, and a name is  *)
(* bound to the function of the request that holds it.                     *)
Held(R, w, n) ==
  /\ \A r \in 1 .. Len(R) :
       /\ R[r].s.jsonp = "no" => R[r].name = None
       /\ R[r].s.jsonp = "named" => R[r].name = Named
       /\ R[r].s.jsonp = "generated" =>
            /\ R[r].name \in 1 .. n - 1 /\ R[r].overwritten = None
            /\ R[r].outcome = "pending" => w[R[r].name] = r
  /\ \A m \in Ids : w[m] # None =>
       /\ w[m] \in 1 .. Len(R)
       /\ R[w[m]].s.jsonp = "generated" /\ R[w[m]].outcome = "pending"
       /\ R[w[m]].name = m

(* Names kept for later and those not made yet are bound to nothing.       *)
Free(w, old, n) ==
  /\ \A m \in Ids : m >= n => w[m] = None
  /\ \A i \in DOMAIN old : old[i] < n /\ w[old[i]] = None
  /\ \A i, j \in DOMAIN old : old[i] = old[j] => i = j

(* A request that ajax() has not sent yet is not answered.                 *)
Unsent(R, F) ==
  \A i \in DOMAIN F : F[i].at \in Entering =>
    /\ R[F[i].r].outcome # "success"
    /\ ~R[F[i].r].coming /\ ~R[F[i].r].listening

(* The data of a request that succeeds, and of any other.                  *)
Own(R) ==
  \A r \in 1 .. Len(R) :
    /\ R[r].outcome = "success" => ~R[r].coming
    /\ R[r].outcome # "success" => R[r].data = None
    /\ R[r].s.jsonp # "named" /\ ~R[r].silent => R[r].data \in {r, None}

(* A request is in one activation of ajax() and in one of done().          *)
Single(F, X) ==
  \A i, j \in DOMAIN F : F[i].r = F[j].r =>
    /\ F[i].at \in Entering /\ F[j].at \in Entering => i = j
    /\ F[i].at \in InDone /\ F[j].at \in InDone => i = j \/ F[i].r \in X

(* Below the top, beforeSend is a function of the page.                    *)
Covered(R, F) ==
  \A i \in DOMAIN F : i > 1 /\ F[i].at = "beforeSend" => R[F[i].r].s.beforeSend

(* What is known of a request in ajax(): whether it may be aborted by now. *)
Enters(q, at) ==
  /\ q.state \in {0, 2}
  /\ at = "prefilter" => ~q.globals
  /\ at = "ajaxSend" => q.state = 0
  /\ at \in {"ajaxStart", "beforeSend"} /\ ~q.s.beforeSend => q.state = 0

All(q) == IF q.globals
          THEN <<"outcome", "global", "complete", "ajaxComplete">>
          ELSE <<"outcome", "complete">>

(* What is known of a request in done(): what the page has been told.      *)
SoFar(q, at) ==
  CASE at = "outcome" -> <<"outcome">>
    [] at = "global" -> <<"outcome", "global">>
    [] at = "complete" -> IF q.globals THEN <<"outcome", "global", "complete">>
                          ELSE <<"outcome", "complete">>
    [] OTHER -> All(q)
Tells(q, at) ==
  /\ q.state = 2
  /\ at \in {"global", "ajaxComplete"} => q.globals
  /\ q.told = SoFar(q, at)

(* Of every request in some activation that no exception has left.         *)
Where(R, F, X) ==
  \A i \in DOMAIN F : F[i].r \notin X =>
    /\ F[i].at \in Entering => Enters(R[F[i].r], F[i].at)
    /\ F[i].at \in InDone => Tells(R[F[i].r], F[i].at)

IsIn(F, r, points) == \E i \in DOMAIN F : F[i].r = r /\ F[i].at \in points

(* Of every request that no exception has left.                            *)
Known(R, F, X) ==
  \A r \in (1 .. Len(R)) \ X :
    /\ R[r].state = 2 <=> R[r].outcome # "pending"
    /\ R[r].state = 0 => IsIn(F, r, Entering)
    /\ R[r].state # 2 => R[r].told = << >>
    /\ R[r].state = 2 => IsIn(F, r, InDone) \/ R[r].told = All(R[r])

Kept(R, F, X) ==
  Single(F, X) /\ Covered(R, F) /\ Where(R, F, X) /\ Known(R, F, X)

(* A request that counts.                                                  *)
Running(R, F, r) ==
  R[r].globals /\ (R[r].state # 2 \/ IsIn(F, r, InDone))
Counts ==
  spoilt = {} =>
    /\ active = Cardinality({r \in 1 .. Len(reqs) : Running(reqs, frames, r)})
    /\ shown <=> active > 0

(* The inductive invariant.                                                *)
IInv ==
  /\ Typed
  /\ Held(reqs, window, nonce) /\ Free(window, oldCallbacks, nonce)
  /\ Unsent(reqs, frames) /\ Own(reqs)
  /\ Kept(reqs, frames, spoilt) /\ Counts

-----------------------------------------------------------------------------
(* Sequences.                                                              *)
LEMMA Updated ==
  ASSUME NEW S, NEW s \in Seq(S), NEW k \in 1 .. Len(s), NEW v \in S
  PROVE  /\ [s EXCEPT ![k] = v] \in Seq(S)
         /\ Len([s EXCEPT ![k] = v]) = Len(s)
         /\ [s EXCEPT ![k] = v][k] = v
         /\ \A i \in 1 .. Len(s) : i # k => [s EXCEPT ![k] = v][i] = s[i]
OBVIOUS

(* A push, by index.                                                        *)
LEMMA Pushed ==
  ASSUME NEW S, NEW s \in Seq(S), NEW e \in S
  PROVE  /\ <<e>> \o s \in Seq(S)
         /\ Len(<<e>> \o s) = Len(s) + 1
         /\ (<<e>> \o s)[1] = e
         /\ \A i \in 2 .. Len(s) + 1 : (<<e>> \o s)[i] = s[i - 1]
OBVIOUS

(* What Head and Tail return of a stack.                                   *)
LEMMA Popped ==
  ASSUME NEW S, NEW s \in Seq(S), s # << >>
  PROVE  /\ Tail(s) \in Seq(S)
         /\ Len(Tail(s)) = Len(s) - 1
         /\ \A i \in 1 .. Len(s) - 1 : Tail(s)[i] = s[i + 1]
         /\ Head(s) = s[1] /\ 1 \in 1 .. Len(s) /\ Head(s) \in S
OBVIOUS

-----------------------------------------------------------------------------
(* A step about the request r: d activations of r leave the top of F, and  *)
(* e are put there.                                                        *)
Shift(F, G, r, d, e) ==
  /\ Len(G) = Len(F) - d + e
  /\ \A j \in DOMAIN G : j > e => j - e + d \in DOMAIN F /\ G[j] = F[j - e + d]
  /\ \A k \in DOMAIN F : k > d => k - d + e \in DOMAIN G /\ F[k] = G[k - d + e]
  /\ d = 1 => 1 \in DOMAIN F /\ F[1].r = r
  /\ e = 1 => 1 \in DOMAIN G /\ G[1].r = r

Same(p, q) ==
  /\ p.s = q.s /\ p.state = q.state /\ p.globals = q.globals
  /\ p.told = q.told /\ p.outcome = q.outcome

(* What such a step has to keep about r itself.                            *)
Consistent(R, F, G, X, r, d, e) ==
  /\ e = 1 /\ d = 0 /\ F # << >> /\ F[1].at = "beforeSend" =>
       R[F[1].r].s.beforeSend
  /\ \A k \in DOMAIN F : k > d /\ F[k].r = r /\ F[k].at \in Entering =>
       /\ e = 1 => G[1].at \notin Entering
       /\ r \notin X => Enters(R[r], F[k].at)
  /\ \A k \in DOMAIN F :
       k > d /\ F[k].r = r /\ F[k].at \in InDone /\ r \notin X =>
         /\ e = 1 => G[1].at \notin InDone
         /\ Tells(R[r], F[k].at)
  /\ e = 1 /\ r \notin X =>
       /\ G[1].at \in Entering => Enters(R[r], G[1].at)
       /\ G[1].at \in InDone => Tells(R[r], G[1].at)
  /\ r \notin X =>
       /\ R[r].state = 2 <=> R[r].outcome # "pending"
       /\ R[r].state = 0 => IsIn(G, r, Entering)
       /\ R[r].state # 2 => R[r].told = << >>
       /\ R[r].state = 2 => IsIn(G, r, InDone) \/ R[r].told = All(R[r])

(* The activations of the other requests are where they were.              *)
LEMMA Others ==
  ASSUME NEW S, NEW T, NEW n \in Nat,
         NEW F \in Seq(Activation(n)), NEW m \in Nat,
         NEW G \in Seq(Activation(m)), NEW r \in Nat,
         NEW d \in 0 .. 1, NEW e \in 0 .. 1, Shift(F, G, r, d, e),
         NEW q, q # r, NEW points
  PROVE  IsIn(G, q, points) <=> IsIn(F, q, points)
<1>1. ASSUME IsIn(G, q, points) PROVE IsIn(F, q, points)
  <2>1. PICK j \in DOMAIN G : G[j].r = q /\ G[j].at \in points
    BY <1>1 DEF IsIn
  <2>2. j > e
    BY <2>1 DEF Shift
  <2> QED
    BY <2>1, <2>2 DEF Shift, IsIn
<1>2. ASSUME IsIn(F, q, points) PROVE IsIn(G, q, points)
  <2>1. PICK k \in DOMAIN F : F[k].r = q /\ F[k].at \in points
    BY <1>2 DEF IsIn
  <2>2. k > d
    BY <2>1 DEF Shift
  <2> QED
    BY <2>1, <2>2 DEF Shift, IsIn
<1> QED
  BY <1>1, <1>2

(* Such a step keeps what the activations say of all requests, and which   *)
(* of the others count.                                                    *)
LEMMA Moves ==
  ASSUME NEW S, NEW R \in Seq(Request(S)), NEW Q \in Seq(Request(S)),
         NEW F \in Seq(Activation(Len(R))), NEW G \in Seq(Activation(Len(Q))),
         NEW X, NEW Y, X \subseteq Y, NEW r \in 1 .. Len(Q),
         \/ Len(Q) = Len(R)
         \/ Len(Q) = Len(R) + 1 /\ r = Len(Q),
         \A q \in 1 .. Len(R) : q # r => Same(Q[q], R[q]),
         r \in 1 .. Len(R) => Q[r].s = R[r].s,
         NEW d \in 0 .. 1, NEW e \in 0 .. 1, Shift(F, G, r, d, e),
         Kept(R, F, X), Consistent(Q, F, G, Y, r, d, e)
  PROVE  /\ Kept(Q, G, Y)
         /\ \A q \in 1 .. Len(R) :
              q # r => (Running(Q, G, q) <=> Running(R, F, q))
<1>0. /\ \A k \in DOMAIN F : F[k].r \in 1 .. Len(R)
      /\ DOMAIN F = 1 .. Len(F) /\ DOMAIN G = 1 .. Len(G)
      /\ Len(F) \in Nat /\ Len(G) \in Nat /\ Len(R) \in Nat
  <2>1. \A k \in DOMAIN F : F[k] \in Activation(Len(R))
    OBVIOUS
  <2> QED
    BY <2>1 DEF Activation
<1>1. \A j \in DOMAIN G : G[j].r # r => j > e
  BY DEF Shift
<1>2. Single(G, Y)
  <2> SUFFICES ASSUME NEW i \in DOMAIN G, NEW j \in DOMAIN G,
                      G[i].r = G[j].r, i # j, i < j
               PROVE  /\ ~(G[i].at \in Entering /\ G[j].at \in Entering)
                      /\ G[i].at \in InDone /\ G[j].at \in InDone =>
                           G[i].r \in Y
    BY <1>0, SMTT(30) DEF Single
  <2>1. j > e /\ j - e + d \in DOMAIN F /\ G[j] = F[j - e + d]
    BY <1>0 DEF Shift
  <2>2. CASE i > e
    <3>1. i - e + d \in DOMAIN F /\ G[i] = F[i - e + d]
      BY <2>2 DEF Shift
    <3>2. i - e + d # j - e + d
      BY <1>0
    <3> QED
      BY <2>1, <3>1, <3>2 DEF Kept, Single
  <2>3. CASE ~(i > e)
    <3>1. e = 1 /\ i = 1
      BY <1>0, <2>3
    <3>2. G[1].r = r /\ F[j - e + d].r = r /\ j - e + d > d
      BY <1>0, <2>1, <3>1 DEF Shift
    <3> QED
      BY <2>1, <3>1, <3>2 DEF Consistent
  <2> QED
    BY <2>2, <2>3
<1>3. Covered(Q, G)
  <2> SUFFICES ASSUME NEW j \in DOMAIN G, j > 1, G[j].at = "beforeSend"
               PROVE  Q[G[j].r].s.beforeSend
    BY DEF Covered
  <2>1. j > e /\ j - e + d \in DOMAIN F /\ G[j] = F[j - e + d]
    BY <1>0 DEF Shift
  <2>2. Q[F[j - e + d].r].s = R[F[j - e + d].r].s
    BY <1>0, <2>1 DEF Same
  <2>3. CASE j - e + d > 1
    BY <2>1, <2>2, <2>3 DEF Kept, Covered
  <2>4. CASE ~(j - e + d > 1)
    <3>1. e = 1 /\ d = 0 /\ j - e + d = 1
      BY <1>0, <2>1, <2>4
    <3> QED
      BY <2>1, <3>1 DEF Consistent
  <2> QED
    BY <2>3, <2>4
<1>4. Where(Q, G, Y)
  <2> SUFFICES ASSUME NEW j \in DOMAIN G, G[j].r \notin Y
               PROVE  /\ G[j].at \in Entering => Enters(Q[G[j].r], G[j].at)
                      /\ G[j].at \in InDone => Tells(Q[G[j].r], G[j].at)
    BY DEF Where
  <2>1. CASE G[j].r = r
    <3>1. CASE j > e
      <4>1. j - e + d \in DOMAIN F /\ G[j] = F[j - e + d] /\ j - e + d > d
        BY <1>0, <3>1 DEF Shift
      <4> QED
        BY <2>1, <4>1 DEF Consistent
    <3>2. CASE ~(j > e)
      <4>1. e = 1 /\ j = 1
        BY <1>0, <3>2
      <4> QED
        BY <2>1, <4>1 DEF Consistent
    <3> QED
      BY <3>1, <3>2
  <2>2. CASE G[j].r # r
    <3>1. j - e + d \in DOMAIN F /\ G[j] = F[j - e + d]
      BY <1>1, <2>2 DEF Shift
    <3>2. Same(Q[G[j].r], R[G[j].r])
      BY <1>0, <2>2, <3>1
    <3>3. /\ G[j].at \in Entering => Enters(R[G[j].r], G[j].at)
          /\ G[j].at \in InDone => Tells(R[G[j].r], G[j].at)
      BY <3>1 DEF Kept, Where
    <3> QED
      BY <3>2, <3>3 DEF Same, Enters, Tells, SoFar, All
  <2> QED
    BY <2>1, <2>2
<1>5. Known(Q, G, Y)
  <2> SUFFICES ASSUME NEW q \in (1 .. Len(Q)) \ Y
               PROVE  /\ Q[q].state = 2 <=> Q[q].outcome # "pending"
                      /\ Q[q].state = 0 => IsIn(G, q, Entering)
                      /\ Q[q].state # 2 => Q[q].told = << >>
                      /\ Q[q].state = 2 =>
                           IsIn(G, q, InDone) \/ Q[q].told = All(Q[q])
    BY DEF Known
  <2>1. CASE q = r
    BY <2>1 DEF Consistent
  <2>2. CASE q # r
    <3>1. q \in 1 .. Len(R) /\ Same(Q[q], R[q]) /\ q \notin X
      BY <1>0, <2>2
    <3>2. /\ IsIn(G, q, Entering) <=> IsIn(F, q, Entering)
          /\ IsIn(G, q, InDone) <=> IsIn(F, q, InDone)
      BY <2>2, Others
    <3> QED
      BY <3>1, <3>2 DEF Kept, Known, Same, All
  <2> QED
    BY <2>1, <2>2
<1>6. ASSUME NEW q \in 1 .. Len(R), q # r
      PROVE  Running(Q, G, q) <=> Running(R, F, q)
  <2>1. Same(Q[q], R[q]) /\ (IsIn(G, q, InDone) <=> IsIn(F, q, InDone))
    BY <1>6, Others
  <2> QED
    BY <2>1 DEF Same, Running
<1> QED
  BY <1>2, <1>3, <1>4, <1>5, <1>6 DEF Kept

-----------------------------------------------------------------------------
(* What done() does to the requests.                                       *)
Alike(p, q) ==
  /\ Same(p, q) /\ p.name = q.name /\ p.overwritten = q.overwritten
  /\ p.listening = q.listening /\ p.coming = q.coming
  /\ p.silent = q.silent /\ p.data = q.data

(* A script that runs changes at most the data some function has taken.    *)
LEMMA ScriptRan ==
  ASSUME NEW S, NEW rs \in Seq(Request(S)), NEW r \in 1 .. Len(rs), r \in Ids,
         window \in [Names -> Ids \cup {None}]
  PROVE  /\ ScriptRuns(rs, r) \in Seq(Request(S))
         /\ Len(ScriptRuns(rs, r)) = Len(rs)
         /\ \A q \in 1 .. Len(rs) : Alike(ScriptRuns(rs, r)[q], rs[q])
         /\ rs[r].name # None /\ window[rs[r].name] = r =>
              ScriptRuns(rs, r)[r].container = r
         /\ ScriptRuns(rs, r)[r].container \in {rs[r].container, r}
<1> DEFINE f == IF rs[r].name = None THEN None ELSE window[rs[r].name]
           v == [rs[f] EXCEPT !.container = r]
<1>0. \A q \in 1 .. Len(rs) : rs[q] \in Request(S)
  OBVIOUS
<1>1. CASE f \in 1 .. Len(rs)
  <2>1. rs[f] \in Request(S)
    BY <1>0, <1>1, SMTT(30)
  <2>2. v \in Request(S) /\ Alike(v, rs[f]) /\ v.container = r
    BY <2>1, ZenonT(60) DEF Request, Alike, Same
  <2>3. f # None
    BY <1>1 DEF None
  <2>4. ScriptRuns(rs, r) = [rs EXCEPT ![f] = v]
    BY <2>3 DEF ScriptRuns
  <2>5. rs[r].name # None /\ window[rs[r].name] = r => f = r
    OBVIOUS
  <2> HIDE DEF f, v
  <2>6. /\ [rs EXCEPT ![f] = v] \in Seq(Request(S))
        /\ Len([rs EXCEPT ![f] = v]) = Len(rs)
        /\ [rs EXCEPT ![f] = v][f] = v
        /\ \A i \in 1 .. Len(rs) : i # f => [rs EXCEPT ![f] = v][i] = rs[i]
    BY <1>1, <2>2, Updated
  <2> QED
    BY <2>2, <2>4, <2>5, <2>6 DEF Alike, Same
<1>2. CASE f \notin 1 .. Len(rs)
  <2>1. ScriptRuns(rs, r) = rs
    BY <1>2 DEF ScriptRuns
  <2>2. ~(rs[r].name # None /\ window[rs[r].name] = r)
    BY <1>2
  <2> QED
    BY <2>1, <2>2 DEF Alike, Same
<1> QED
  BY <1>1, <1>2

(* So does the conversion of an answer.                                    *)
LEMMA EvaluatedIs ==
  ASSUME NEW S, NEW rs \in Seq(Request(S)), NEW r \in 1 .. Len(rs), r \in Ids,
         window \in [Names -> Ids \cup {None}], NEW way, NEW answer
  PROVE  /\ Evaluated(rs, r, way, answer) \in Seq(Request(S))
         /\ Len(Evaluated(rs, r, way, answer)) = Len(rs)
         /\ \A q \in 1 .. Len(rs) : Alike(Evaluated(rs, r, way, answer)[q], rs[q])
<1>1. CASE Evaluated(rs, r, way, answer) = rs
  BY <1>1 DEF Alike, Same
<1>2. CASE Evaluated(rs, r, way, answer) = ScriptRuns(rs, r)
  BY <1>2, ScriptRan
<1> QED
  BY <1>1, <1>2 DEF Evaluated

(* What the page is told is one of the four events.                        *)
LEMMA Noted ==
  ASSUME NEW told \in Seq(InDone)
  PROVE  /\ Append(told, "outcome") \in Seq(InDone)
         /\ Append(told, "global") \in Seq(InDone)
         /\ Append(told, "complete") \in Seq(InDone)
         /\ Append(told, "ajaxComplete") \in Seq(InDone)
BY DEF InDone

(* A request q after its outcome, p.                                       *)
Settled(p, q, answer) ==
  /\ p.s = q.s /\ p.state = q.state /\ p.globals = q.globals
  /\ p.name = q.name /\ p.overwritten = q.overwritten
  /\ p.listening = q.listening /\ p.coming = q.coming
  /\ p.silent = q.silent
  /\ p.told = Append(q.told, "outcome")
  /\ p.outcome \in {"success", "error"}
  /\ answer.status = "error" => p.outcome = "error"
  /\ p.outcome = "error" => p.data = None

(* Outcome decides success or failure, with no data when it fails, and     *)
(* tells the page once.                                                    *)
LEMMA OutcomeIs ==
  ASSUME NEW S, NEW rs \in Seq(Request(S)), NEW r \in 1 .. Len(rs), r \in Ids,
         NEW answer, window \in [Names -> Ids \cup {None}]
  PROVE  LET o == Outcome(rs, r, answer) IN
         /\ o \in Seq(Request(S)) /\ Len(o) = Len(rs)
         /\ \A q \in 1 .. Len(rs) : q # r => Alike(o[q], rs[q])
         /\ Settled(o[r], rs[r], answer)
<1> DEFINE s == rs[r].s
           types == IF answer.responses THEN HandleResponses(s, answer.type)
                    ELSE DataTypes(s)
           way == Conversions(Converters(s), types)
           evaluates == answer.status = "ok" /\ Uses(way, "text", "script")
           ran == IF evaluates /\ answer.good THEN ScriptRuns(rs, r) ELSE rs
           undefined == /\ evaluates /\ rs[r].name # None
                        /\ window[rs[r].name] = None
           converted ==
             /\ way.ok
             /\ answer.good \/ ~(evaluates \/ Uses(way, "text", "json"))
             /\ ~undefined
             /\ Uses(way, "script", "json") => ran[r].container # None
           success == \/ answer.status \in {"nocontent", "notmodified"}
                      \/ answer.status = "ok" /\ converted
           outcome == IF success THEN "success" ELSE "error"
           data == IF ~success \/ answer.status # "ok" THEN None
                   ELSE IF Uses(way, "script", "json")
                        THEN ran[r].container ELSE r
           v == [ran[r] EXCEPT !.outcome = outcome, !.data = data,
                               !.told = Append(@, "outcome")]
<1>1. Outcome(rs, r, answer) =
        [ran EXCEPT ![r].outcome = outcome, ![r].data = data,
                    ![r].told = Append(@, "outcome")]
  BY DEF Outcome, Evaluated, Evaluates, Way
<1>2. /\ ran \in Seq(Request(S)) /\ Len(ran) = Len(rs)
      /\ \A q \in 1 .. Len(rs) : Alike(ran[q], rs[q])
      /\ ran[r].container \in {rs[r].container, r}
  <2> HIDE DEF evaluates
  <2>1. CASE ran = rs
    BY <2>1 DEF Alike, Same
  <2>2. CASE ran = ScriptRuns(rs, r)
    <3> HIDE DEF ran
    <3> QED
      BY <2>2, ScriptRan
  <2> QED
    BY <2>1, <2>2
<1>3. /\ outcome \in {"success", "error"}
      /\ answer.status = "error" => outcome = "error"
      /\ outcome = "error" => data = None
      /\ data \in {None, r, ran[r].container}
  <2> HIDE DEF ran, way, converted
  <2>1. answer.status = "error" => ~success
    OBVIOUS
  <2> HIDE DEF success
  <2>2. CASE success
    BY <2>1, <2>2
  <2>3. CASE ~success
    <3>1. outcome = "error" /\ data = None
      BY <2>3
    <3> QED
      BY <3>1
  <2> QED
    BY <2>2, <2>3
<1> HIDE DEF ran, outcome, data
<1>4. Outcome(rs, r, answer) = [ran EXCEPT ![r] = v]
  BY <1>1
<1>5. /\ ran[r] \in Request(S) /\ ran[r].container \in Ids \cup {None}
      /\ ran[r].told \in Seq(InDone)
  <2>1. ran[r] \in Request(S)
    BY <1>2
  <2> QED
    BY <2>1 DEF Request
<1>6. v \in Request(S)
  <2>1. outcome \in {"pending", "success", "error"} /\ data \in Ids \cup {None}
    BY <1>3, <1>5
  <2>2. Append(ran[r].told, "outcome") \in Seq(InDone)
    BY <1>5, Noted
  <2> QED
    BY <1>5, <2>1, <2>2 DEF Request
<1>7. /\ v.s = ran[r].s /\ v.state = ran[r].state
      /\ v.globals = ran[r].globals /\ v.name = ran[r].name
      /\ v.listening = ran[r].listening /\ v.coming = ran[r].coming
      /\ v.silent = ran[r].silent /\ v.overwritten = ran[r].overwritten
      /\ v.outcome = outcome /\ v.data = data
      /\ v.told = Append(ran[r].told, "outcome")
  BY <1>5 DEF Request
<1> HIDE DEF v
<1>8. /\ [ran EXCEPT ![r] = v] \in Seq(Request(S))
      /\ Len([ran EXCEPT ![r] = v]) = Len(rs)
      /\ [ran EXCEPT ![r] = v][r] = v
      /\ \A q \in 1 .. Len(rs) : q # r => [ran EXCEPT ![r] = v][q] = ran[q]
  BY <1>2, <1>6, Updated
<1>9. Alike(ran[r], rs[r])
  BY <1>2
<1>10. Settled(v, rs[r], answer)
  BY <1>3, <1>7, <1>9 DEF Alike, Same, Settled
<1> DEFINE o == Outcome(rs, r, answer)
<1>11. /\ o \in Seq(Request(S)) /\ Len(o) = Len(rs) /\ o[r] = v
       /\ \A q \in 1 .. Len(rs) : q # r => o[q] = ran[q]
  BY <1>4, <1>8
<1> HIDE DEF o
<1>12. \A q \in 1 .. Len(rs) : q # r => Alike(o[q], rs[q])
  BY <1>2, <1>11
<1>13. /\ o \in Seq(Request(S)) /\ Len(o) = Len(rs)
       /\ \A q \in 1 .. Len(rs) : q # r => Alike(o[q], rs[q])
       /\ Settled(o[r], rs[r], answer)
  BY <1>10, <1>11, <1>12
<1> QED
  BY <1>13 DEF o

(* Append, by index.                                                       *)
LEMMA AppendedAt ==
  ASSUME NEW S, NEW s \in Seq(S), NEW e \in S
  PROVE  /\ Append(s, e) \in Seq(S) /\ Len(Append(s, e)) = Len(s) + 1
         /\ Append(s, e)[Len(s) + 1] = e
         /\ \A i \in 1 .. Len(s) : Append(s, e)[i] = s[i]
OBVIOUS

(* The converters of a request, as a set.                                  *)
LEMMA ConvertersAre ==
  ASSUME NEW s
  PROVE  LET cs == Converters(s)
             n == IF s.jsonp = "no" THEN 5 ELSE 6
         IN /\ DOMAIN cs = 1 .. n /\ Len(cs) = n
            /\ cs[5] = <<"text", "script">>
            /\ \A i \in 1 .. 4 : /\ cs[i] # <<"text", "script">>
                                /\ cs[i] # <<"script", "json">>
            /\ n = 6 => cs[6] = <<"script", "json">>
<1> DEFINE front == << <<"*", "text">>, <<"text", "html">>, <<"text", "json">>,
                       <<"text", "xml">>, <<"text", "script">> >>
           P == { <<"*", "text">>, <<"text", "html">>, <<"text", "json">>,
                  <<"text", "xml">>, <<"text", "script">>,
                  <<"script", "json">> }
<1>1. /\ front \in Seq(P) /\ Len(front) = 5 /\ front[5] = <<"text", "script">>
      /\ \A i \in 1 .. 4 : /\ front[i] # <<"text", "script">>
                          /\ front[i] # <<"script", "json">>
  OBVIOUS
<1>2. Converters(s) = IF s.jsonp = "no" THEN front
                      ELSE Append(front, <<"script", "json">>)
  BY DEF Converters
<1> DEFINE e == <<"script", "json">>
<1>3. e \in P /\ e # <<"text", "script">>
  OBVIOUS
<1> HIDE DEF front, P
<1>4. CASE s.jsonp = "no"
  BY <1>1, <1>2, <1>4
<1>5. CASE s.jsonp # "no"
  <2>1. Converters(s) = Append(front, e)
    BY <1>2, <1>5
  <2> HIDE DEF e
  <2> DEFINE t == Append(front, e)
  <2>2. front \in Seq(P) /\ e \in P
    BY <1>1, <1>3
  <2>3. /\ t \in Seq(P) /\ Len(t) = Len(front) + 1 /\ t[Len(front) + 1] = e
        /\ \A i \in 1 .. Len(front) : t[i] = front[i]
    BY <2>2, AppendedAt
  <2> HIDE DEF t
  <2>4. Len(front) + 1 = 6
    BY <1>1
  <2>5. /\ Len(t) = 6 /\ DOMAIN t = 1 .. 6 /\ t[6] = e
        /\ \A i \in 1 .. 5 : t[i] = front[i]
    BY <1>1, <2>3, <2>4
  <2> QED
    BY <1>1, <1>5, <2>1, <2>5 DEF e, t
<1> QED
  BY <1>4, <1>5

(* The conversions used, of a record with them.                            *)
LEMMA UsedIs ==
  ASSUME NEW c, NEW b, NEW u, c = [ok |-> b, used |-> u]
  PROVE  c.used = u
OBVIOUS

(* Whether all conversions were found, of a record with it.                *)
LEMMA Complete ==
  ASSUME NEW c, NEW m, NEW u, c = [ok |-> m = {}, used |-> u], c.ok
  PROVE  m = {} /\ c.used = u
BY Zenon

(* The text of an answer to a JSONP request is run on the way to data.     *)
LEMMA Scripted ==
  ASSUME NEW s, s.jsonp # "no",
         Conversions(Converters(s), <<"text", "script", "json">>).ok
  PROVE  Uses(Conversions(Converters(s), <<"text", "script", "json">>),
              "text", "script")
<1> DEFINE cs == Converters(s)
           types == <<"text", "script", "json">>
           before(i) == {j \in 1 .. i - 1 : types[j] # "*"}
           prev(i) == types[Max(before(i))]
           steps == {i \in DOMAIN types : /\ types[i] # "*" /\ before(i) # {}
                                          /\ prev(i) # types[i]}
           missing == {i \in steps : Between(cs, prev(i), types[i]) = {}}
           taken == {i \in steps : \A m \in missing : i < m}
<1>1. /\ DOMAIN cs = 1 .. 6 /\ cs[5] = <<"text", "script">>
      /\ \A i \in 1 .. 4 : cs[i] # <<"text", "script">>
      /\ cs[6] # <<"text", "script">>
  BY ConvertersAre
<1>2. missing = {} /\ Conversions(cs, types).used
        = UNION {Between(cs, prev(i), types[i]) : i \in taken}
  <2>1. Conversions(cs, types) =
          [ok |-> missing = {},
           used |-> UNION {Between(cs, prev(i), types[i]) : i \in taken}]
    BY DEF Conversions
  <2>2. Conversions(cs, types).ok
    OBVIOUS
  <2> HIDE DEF missing, taken, cs, types, prev
  <2> QED
    BY <2>1, <2>2, Complete
<1>3. before(2) = {1} /\ prev(2) = "text"
  <2>1. before(2) = {1}
    OBVIOUS
  <2>2. Max({1}) = 1
    BY DEF Max
  <2> QED
    BY <2>1, <2>2
<1>4. 2 \in taken /\ types[2] = "script"
  <2> HIDE DEF prev, before
  <2>1. 2 \in steps
    BY <1>3
  <2> HIDE DEF steps, missing
  <2> QED
    BY <1>2, <2>1
<1>5. <<"text", "script">> \in Between(cs, "text", "script")
  <2> HIDE DEF cs
  <2>1. {i \in DOMAIN cs : cs[i] = <<"text", "script">>} = {5}
    BY <1>1, SMTT(30)
  <2>2. Between(cs, "text", "script") = {cs[i] : i \in {5}}
    BY <2>1 DEF Between
  <2> QED
    BY <1>1, <2>2
<1> HIDE DEF taken, prev, cs, types
<1> QED
  BY <1>2, <1>3, <1>4, <1>5 DEF Uses, cs, types

(* The least element of a set of indices.                                  *)
LEMMA MinIs ==
  ASSUME NEW s \in SUBSET (1 .. 5), s # {}
  PROVE  Min(s) \in s
<1>1. \E x \in s : \A y \in s : x =< y
  <2>1. CASE 1 \in s
    BY <2>1
  <2>2. CASE 1 \notin s /\ 2 \in s
    BY <2>2
  <2>3. CASE 1 \notin s /\ 2 \notin s /\ 3 \in s
    BY <2>3
  <2>4. CASE 1 \notin s /\ 2 \notin s /\ 3 \notin s /\ 4 \in s
    BY <2>4
  <2>5. CASE 1 \notin s /\ 2 \notin s /\ 3 \notin s /\ 4 \notin s
    <3>1. \A y \in s : y = 5
      BY <2>5
    <3>2. PICK x : x \in s
      OBVIOUS
    <3>3. \A y \in s : x =< y
      BY <3>1, <3>2
    <3> QED
      BY <3>2, <3>3
  <2> QED
    BY <2>1, <2>2, <2>3, <2>4, <2>5
<1> QED
  BY <1>1 DEF Min

(* No other request has a converter from scripts.                          *)
LEMMA Unscripted ==
  ASSUME NEW s, s.jsonp = "no", NEW types
  PROVE  ~Uses(Conversions(Converters(s), types), "script", "json")
<1> DEFINE cs == Converters(s)
           before(i) == {j \in 1 .. i - 1 : types[j] # "*"}
           prev(i) == types[Max(before(i))]
           steps == {i \in DOMAIN types : /\ types[i] # "*" /\ before(i) # {}
                                          /\ prev(i) # types[i]}
           missing == {i \in steps : Between(cs, prev(i), types[i]) = {}}
           taken == {i \in steps : \A m \in missing : i < m}
<1>1. /\ DOMAIN cs = 1 .. 5
      /\ \A i \in 1 .. 5 : cs[i] # <<"script", "json">>
  <2>1. /\ DOMAIN cs = 1 .. 5 /\ cs[5] = <<"text", "script">>
        /\ \A i \in 1 .. 4 : cs[i] # <<"script", "json">>
    BY ConvertersAre
  <2> QED
    BY <2>1
<1> HIDE DEF cs
<1>2. ASSUME NEW from, NEW to
      PROVE  <<"script", "json">> \notin Between(cs, from, to)
  <2> DEFINE at(f, t) == {i \in DOMAIN cs : cs[i] = <<f, t>>}
             one(t) == IF at(from, t) # {} THEN at(from, t) ELSE at("*", t)
             pairs == {i \in DOMAIN cs : cs[i][2] = to /\ one(cs[i][1]) # {}}
             used == CASE one(to) # {} -> one(to)
                       [] one(to) = {} /\ pairs = {} -> {}
                       [] OTHER -> {Min(pairs)} \cup one(cs[Min(pairs)][1])
  <2>1. \A t : one(t) \subseteq 1 .. 5
    BY <1>1
  <2>2. pairs \in SUBSET (1 .. 5)
    BY <1>1
  <2>3. Between(cs, from, to) = {cs[i] : i \in used}
    BY DEF Between
  <2> HIDE DEF one, pairs
  <2>4. CASE one(to) # {}
    BY <1>1, <2>1, <2>3, <2>4
  <2>5. CASE one(to) = {} /\ pairs = {}
    BY <2>3, <2>5
  <2>6. CASE one(to) = {} /\ pairs # {}
    <3>1. Min(pairs) \in 1 .. 5
      BY <2>2, <2>6, MinIs
    <3>2. used = {Min(pairs)} \cup one(cs[Min(pairs)][1])
      BY <2>6
    <3> HIDE DEF used
    <3>3. used \subseteq 1 .. 5
      BY <2>1, <3>1, <3>2
    <3> QED
      BY <1>1, <2>3, <3>3
  <2> QED
    BY <2>4, <2>5, <2>6
<1>3. Conversions(cs, types).used
        = UNION {Between(cs, prev(i), types[i]) : i \in taken}
  <2>1. Conversions(cs, types) =
          [ok |-> missing = {},
           used |-> UNION {Between(cs, prev(i), types[i]) : i \in taken}]
    BY DEF Conversions
  <2> HIDE DEF missing, taken, prev, cs
  <2> QED
    BY <2>1, UsedIs
<1> HIDE DEF taken, prev
<1> QED
  BY <1>2, <1>3 DEF Uses, cs

(* A request with a generated name, or none, has its own data.             *)
LEMMA OwnData ==
  ASSUME NEW S \in SUBSET Settings, NEW rs \in Seq(Request(S)),
         NEW r \in 1 .. Len(rs), r \in Ids,
         NEW answer, window \in [Names -> Ids \cup {None}],
         rs[r].s.jsonp # "named",
         rs[r].s.jsonp = "generated" =>
           /\ rs[r].name # None /\ window[rs[r].name] = r
           /\ \/ answer.responses
              \/ answer.status = "error"
              \/ rs[r].container = r
  PROVE  Outcome(rs, r, answer)[r].data \in {r, None}
<1> DEFINE s == rs[r].s
           types == IF answer.responses THEN HandleResponses(s, answer.type)
                    ELSE DataTypes(s)
           way == Conversions(Converters(s), types)
           evaluates == answer.status = "ok" /\ Uses(way, "text", "script")
           ran == IF evaluates /\ answer.good THEN ScriptRuns(rs, r) ELSE rs
           undefined == /\ evaluates /\ rs[r].name # None
                        /\ window[rs[r].name] = None
           converted ==
             /\ way.ok
             /\ answer.good \/ ~(evaluates \/ Uses(way, "text", "json"))
             /\ ~undefined
             /\ Uses(way, "script", "json") => ran[r].container # None
           success == \/ answer.status \in {"nocontent", "notmodified"}
                      \/ answer.status = "ok" /\ converted
           outcome == IF success THEN "success" ELSE "error"
           data == IF ~success \/ answer.status # "ok" THEN None
                   ELSE IF Uses(way, "script", "json")
                        THEN ran[r].container ELSE r
           v == [ran[r] EXCEPT !.outcome = outcome, !.data = data,
                               !.told = Append(@, "outcome")]
<1>1. /\ ScriptRuns(rs, r) \in Seq(Request(S))
      /\ Len(ScriptRuns(rs, r)) = Len(rs)
      /\ rs[r].name # None /\ window[rs[r].name] = r =>
           ScriptRuns(rs, r)[r].container = r
      /\ ScriptRuns(rs, r)[r].container \in {rs[r].container, r}
  BY ScriptRan
<1>2. ran \in Seq(Request(S)) /\ Len(ran) = Len(rs)
  <2> HIDE DEF evaluates
  <2> QED
    BY <1>1
<1>3. Outcome(rs, r, answer)[r].data = data
  <2>1. Outcome(rs, r, answer) =
          [ran EXCEPT ![r].outcome = outcome, ![r].data = data,
                      ![r].told = Append(@, "outcome")]
    BY DEF Outcome, Evaluated, Evaluates, Way
  <2> HIDE DEF ran, outcome, data
  <2>2. ran[r] \in Request(S)
    BY <1>2
  <2>3. Outcome(rs, r, answer)[r] = v
    <3>1. r \in DOMAIN ran
      BY <1>2
    <3> QED
      BY <2>1, <3>1
  <2>4. v.data = data
    BY <2>2 DEF Request
  <2> QED
    BY <2>3, <2>4
<1>4. s.jsonp \in {"no", "generated"}
  <2>1. rs[r] \in Request(S)
    OBVIOUS
  <2>2. s \in Settings
    BY <2>1 DEF Request
  <2> QED
    BY <2>2 DEF Settings
<1>5. SUFFICES ASSUME success, answer.status = "ok",
                      Uses(way, "script", "json")
               PROVE  ran[r].container = r
  <2> HIDE DEF success, way, ran
  <2> QED
    BY <1>3
<1>6. s.jsonp = "generated"
  BY <1>4, <1>5, Unscripted
<1>7. CASE ~answer.responses
  <2> HIDE DEF evaluates
  <2> QED
    BY <1>1, <1>5, <1>6, <1>7
<1>8. CASE answer.responses
  <2>1. types = <<"text", "script", "json">>
    <3>1. DataTypes(s) = <<"script", "json">>
      BY <1>6 DEF DataTypes
    <3>2. HandleResponses(s, answer.type) = <<"text">> \o <<"script", "json">>
      BY <3>1 DEF HandleResponses
    <3>3. <<"text">> \o <<"script", "json">> = <<"text", "script", "json">>
      <4> DEFINE t == <<"text">> \o <<"script", "json">>
                 P == {"text", "script", "json"}
      <4>1. <<"script", "json">> \in Seq(P) /\ Len(<<"script", "json">>) = 2
        OBVIOUS
      <4>2. /\ t \in Seq(P) /\ Len(t) = 2 + 1 /\ t[1] = "text"
            /\ \A i \in 2 .. 2 + 1 : t[i] = <<"script", "json">>[i - 1]
        BY <4>1, Pushed
      <4> HIDE DEF t
      <4>3. t[2] = "script" /\ t[3] = "json" /\ t[1] = "text" /\ Len(t) = 3
        BY <4>2
      <4> DEFINE u == <<"text", "script", "json">>
      <4>4. /\ u \in Seq(P) /\ Len(u) = 3
            /\ u[1] = "text" /\ u[2] = "script" /\ u[3] = "json"
        OBVIOUS
      <4> HIDE DEF u, P
      <4>5. \A i \in 1 .. Len(t) : t[i] = u[i]
        BY <4>3, <4>4
      <4>6. t = u
        BY <4>2, <4>3, <4>4, <4>5, SeqEqual
      <4> QED
        BY <4>6 DEF t, u
    <3>4. types = HandleResponses(s, answer.type)
      BY <1>8
    <3> HIDE DEF types
    <3> QED
      BY <3>2, <3>3, <3>4
  <2>2. converted
    BY <1>5
  <2>3. way.ok /\ (answer.good \/ ~(evaluates \/ Uses(way, "text", "json")))
    <3> HIDE DEF way, evaluates, undefined, ran
    <3> QED
      BY <2>2
  <2>4. evaluates
    <3> HIDE DEF types
    <3> QED
      BY <1>5, <1>6, <2>1, <2>3, Scripted
  <2> HIDE DEF evaluates
  <2>5. answer.good
    BY <2>3, <2>4
  <2> QED
    BY <1>1, <1>6, <2>4, <2>5
<1> QED
  BY <1>7, <1>8

(* The function that jsonp gives to always() changes no more than the      *)
(* name, its keeping, and what was taken.                                  *)
LEMMA CleanedUp ==
  ASSUME NEW S, NEW rs \in Seq(Request(S)), NEW r \in 1 .. Len(rs),
         CleanUp(rs, r)
  PROVE  /\ reqs' \in Seq(Request(S)) /\ Len(reqs') = Len(rs)
         /\ \A q \in 1 .. Len(rs) : q # r => Alike(reqs'[q], rs[q])
         /\ Same(reqs'[r], rs[r]) /\ reqs'[r].name = rs[r].name
         /\ reqs'[r].listening = rs[r].listening
         /\ reqs'[r].coming = rs[r].coming
         /\ reqs'[r].silent = rs[r].silent /\ reqs'[r].data = rs[r].data
         /\ reqs'[r].overwritten = None
         /\ window' = IF rs[r].name = None THEN window
                      ELSE [window EXCEPT ![rs[r].name] = rs[r].overwritten]
         /\ oldCallbacks' = IF rs[r].s.jsonp = "generated"
                            THEN Append(oldCallbacks, rs[r].name)
                            ELSE oldCallbacks
         /\ nonce' = nonce
<1> DEFINE o == rs[r].overwritten
           u == [rs[o] EXCEPT !.container = rs[r].container]
           passed == IF rs[r].container # None /\ o # None
                     THEN [rs EXCEPT ![o].container = rs[r].container] ELSE rs
           v == [passed[r] EXCEPT !.container = None, !.overwritten = None]
<1>1. reqs' = [passed EXCEPT ![r].container = None, ![r].overwritten = None]
  BY DEF CleanUp
<1>2. /\ passed \in Seq(Request(S)) /\ Len(passed) = Len(rs)
      /\ \A q \in 1 .. Len(rs) : Alike(passed[q], rs[q])
  <2>1. CASE rs[r].container # None /\ o \in 1 .. Len(rs)
    <3>1. /\ rs[o] \in Request(S) /\ rs[r] \in Request(S) /\ o # None
      BY <2>1 DEF None
    <3>2. u \in Request(S) /\ Alike(u, rs[o])
      BY <3>1 DEF Request, Alike, Same
    <3>3. passed = [rs EXCEPT ![o] = u]
      BY <2>1, <3>1
    <3> HIDE DEF o, u, passed
    <3>4. /\ passed \in Seq(Request(S)) /\ Len(passed) = Len(rs)
          /\ passed[o] = u
          /\ \A i \in 1 .. Len(rs) : i # o => passed[i] = rs[i]
      BY <2>1, <3>2, <3>3, Updated
    <3> QED
      BY <3>2, <3>4 DEF Alike, Same
  <2>2. CASE ~(rs[r].container # None /\ o \in 1 .. Len(rs))
    <3>1. passed = rs
      BY <2>2
    <3> QED
      BY <3>1 DEF Alike, Same
  <2> QED
    BY <2>1, <2>2
<1> HIDE DEF passed
<1>3. reqs' = [passed EXCEPT ![r] = v]
  BY <1>1
<1>4. passed[r] \in Request(S)
  BY <1>2
<1>5. v \in Request(S)
  BY <1>4 DEF Request
<1>6. /\ v.name = passed[r].name /\ v.listening = passed[r].listening
      /\ v.coming = passed[r].coming /\ v.silent = passed[r].silent
      /\ v.data = passed[r].data /\ v.overwritten = None
      /\ Same(v, passed[r])
  BY <1>4 DEF Request, Same
<1> HIDE DEF v
<1>7. /\ [passed EXCEPT ![r] = v] \in Seq(Request(S))
      /\ Len([passed EXCEPT ![r] = v]) = Len(rs)
      /\ [passed EXCEPT ![r] = v][r] = v
      /\ \A q \in 1 .. Len(rs) :
           q # r => [passed EXCEPT ![r] = v][q] = passed[q]
  BY <1>2, <1>5, Updated
<1>8. Alike(passed[r], rs[r])
  BY <1>2
<1>9. /\ window' = IF rs[r].name = None THEN window
                   ELSE [window EXCEPT ![rs[r].name] = rs[r].overwritten]
      /\ oldCallbacks' = IF rs[r].s.jsonp = "generated"
                         THEN Append(oldCallbacks, rs[r].name)
                         ELSE oldCallbacks
      /\ nonce' = nonce
  BY DEF CleanUp
<1> QED
  BY <1>2, <1>3, <1>6, <1>7, <1>8, <1>9 DEF Alike, Same

(* A request q as it is, p, after its first answer; and after another one. *)
First(p, q, answer) ==
  /\ p.s = q.s /\ p.globals = q.globals /\ p.name = q.name
  /\ p.listening = q.listening /\ p.coming = q.coming /\ p.silent = q.silent
  /\ p.state = 2 /\ p.told = Append(q.told, "outcome") /\ p.overwritten = None
  /\ p.outcome \in {"success", "error"}
  /\ answer.status = "error" => p.outcome = "error"
  /\ p.outcome = "error" => p.data = None

Later(p, q) ==
  /\ p.s = q.s /\ p.globals = q.globals /\ p.name = q.name
  /\ p.listening = q.listening /\ p.coming = q.coming /\ p.silent = q.silent
  /\ p.overwritten = q.overwritten
  /\ p.outcome = q.outcome /\ p.data = q.data
  /\ p.state = 2 /\ (q.globals => p.told = Append(q.told, "global"))

(* Not answered again, answered, answered although it was already.         *)
Ends(rs, r, answer, fs) ==
  \/ /\ rs[r].state = 2
     /\ reqs' = rs /\ frames' = fs /\ UNCHANGED jsonpVars
  \/ /\ rs[r].state # 2 /\ rs[r].outcome = "pending"
     /\ frames' = <<Frame(r, "outcome")>> \o fs
     /\ First(reqs'[r], rs[r], answer)
     /\ rs[r].s.jsonp # "named" /\
        (rs[r].s.jsonp = "generated" =>
           /\ rs[r].name # None /\ window[rs[r].name] = r
           /\ \/ answer.responses
              \/ answer.status = "error"
              \/ rs[r].container = r)
        => reqs'[r].data \in {r, None}
     /\ window' = IF rs[r].name = None THEN window
                  ELSE [window EXCEPT ![rs[r].name] = rs[r].overwritten]
     /\ oldCallbacks' = IF rs[r].s.jsonp = "generated"
                        THEN Append(oldCallbacks, rs[r].name)
                        ELSE oldCallbacks
     /\ nonce' = nonce
  \/ /\ rs[r].state # 2 /\ rs[r].outcome # "pending"
     /\ frames' = IF rs[r].globals THEN <<Frame(r, "global")>> \o fs
                  ELSE fs
     /\ Later(reqs'[r], rs[r]) /\ UNCHANGED jsonpVars

(* done() does one of three things, by what has become of the request.     *)
LEMMA DoneIs ==
  ASSUME NEW S \in SUBSET Settings, NEW rs \in Seq(Request(S)),
         NEW r \in 1 .. Len(rs), r \in Ids,
         window \in [Names -> Ids \cup {None}], etag \in BOOLEAN,
         NEW answer, NEW fs, Done(rs, r, answer, fs)
  PROVE  /\ reqs' \in Seq(Request(S)) /\ Len(reqs') = Len(rs)
         /\ \A q \in 1 .. Len(rs) : q # r => Alike(reqs'[q], rs[q])
         /\ etag' \in BOOLEAN
         /\ Ends(rs, r, answer, fs)
<1> DEFINE v == [rs[r] EXCEPT !.state = 2, !.timer = FALSE,
                              !.transport = "undefined"]
           ended == [rs EXCEPT ![r].state = 2, ![r].timer = FALSE,
                               ![r].transport = "undefined"]
           settled == Outcome(ended, r, answer)
<1>0. rs[r] \in Request(S)
  OBVIOUS
<1>1. /\ v \in Request(S) /\ v.state = 2
      /\ v.s = rs[r].s /\ v.globals = rs[r].globals /\ v.told = rs[r].told
      /\ v.outcome = rs[r].outcome /\ v.name = rs[r].name
      /\ v.overwritten = rs[r].overwritten /\ v.listening = rs[r].listening
      /\ v.coming = rs[r].coming /\ v.silent = rs[r].silent
      /\ v.data = rs[r].data /\ v.container = rs[r].container
  BY <1>0 DEF Request
<1>2. ended = [rs EXCEPT ![r] = v]
  OBVIOUS
<1> HIDE DEF v, ended
<1>3. /\ ended \in Seq(Request(S)) /\ Len(ended) = Len(rs) /\ ended[r] = v
      /\ \A q \in 1 .. Len(rs) : q # r => ended[q] = rs[q]
  BY <1>1, <1>2, Updated
<1>4. etag' \in BOOLEAN
  <2>1. CASE rs[r].state = 2
    BY <2>1 DEF Done
  <2>2. CASE rs[r].state # 2
    <3>1. etag' = (etag \/ (rs[r].s.ifModified /\ answer.status = "ok"))
      BY <2>2 DEF Done
    <3> QED
      BY <3>1
  <2> QED
    BY <2>1, <2>2
<1>5. CASE rs[r].state = 2
  <2>1. reqs' = rs /\ frames' = fs /\ UNCHANGED jsonpVars
    BY <1>5 DEF Done
  <2> QED
    BY <1>4, <1>5, <2>1 DEF Alike, Same, Ends
<1>6. CASE rs[r].state # 2 /\ rs[r].outcome = "pending"
  <2>1. CleanUp(settled, r) /\ frames' = <<Frame(r, "outcome")>> \o fs
    BY <1>6 DEF Done, ended
  <2>2. /\ settled \in Seq(Request(S)) /\ Len(settled) = Len(rs)
        /\ \A q \in 1 .. Len(rs) : q # r => Alike(settled[q], ended[q])
        /\ settled[r].s = v.s /\ settled[r].state = 2
        /\ settled[r].globals = v.globals /\ settled[r].name = v.name
        /\ settled[r].listening = v.listening /\ settled[r].coming = v.coming
        /\ settled[r].silent = v.silent
        /\ settled[r].overwritten = v.overwritten
        /\ settled[r].told = Append(v.told, "outcome")
        /\ settled[r].outcome \in {"success", "error"}
        /\ answer.status = "error" => settled[r].outcome = "error"
        /\ settled[r].outcome = "error" => settled[r].data = None
    <3>1. r \in 1 .. Len(ended)
      BY <1>3
    <3>2. ended \in Seq(Request(S)) /\ r \in Ids
      BY <1>3
    <3>3. settled \in Seq(Request(S))
      BY <3>1, <3>2, OutcomeIs
    <3>4. Len(settled) = Len(ended)
      BY <3>1, <3>2, OutcomeIs
    <3>5. \A q \in 1 .. Len(ended) : q # r => Alike(settled[q], ended[q])
      BY <3>1, <3>2, OutcomeIs
    <3>6. Settled(settled[r], ended[r], answer)
      BY <3>1, <3>2, OutcomeIs
    <3> HIDE DEF settled
    <3> QED
      BY <1>1, <1>3, <3>3, <3>4, <3>5, <3>6 DEF Settled
  <2>3. rs[r].s.jsonp # "named" /\
        (rs[r].s.jsonp = "generated" =>
           /\ rs[r].name # None /\ window[rs[r].name] = r
           /\ \/ answer.responses
              \/ answer.status = "error"
              \/ rs[r].container = r)
        => settled[r].data \in {r, None}
    <3> SUFFICES ASSUME rs[r].s.jsonp # "named",
                        rs[r].s.jsonp = "generated" =>
                          /\ rs[r].name # None /\ window[rs[r].name] = r
                          /\ \/ answer.responses
                             \/ answer.status = "error"
                             \/ rs[r].container = r
                 PROVE  settled[r].data \in {r, None}
      OBVIOUS
    <3>1. /\ ended[r].s.jsonp # "named"
          /\ ended[r].s.jsonp = "generated" =>
               /\ ended[r].name # None /\ window[ended[r].name] = r
               /\ \/ answer.responses
                  \/ answer.status = "error"
                  \/ ended[r].container = r
      BY <1>1, <1>3
    <3> QED
      BY <1>3, <3>1, OwnData
  <2> HIDE DEF settled
  <2>4. /\ reqs' \in Seq(Request(S)) /\ Len(reqs') = Len(settled)
        /\ \A q \in 1 .. Len(settled) : q # r => Alike(reqs'[q], settled[q])
        /\ Same(reqs'[r], settled[r]) /\ reqs'[r].name = settled[r].name
        /\ reqs'[r].listening = settled[r].listening
        /\ reqs'[r].coming = settled[r].coming
        /\ reqs'[r].silent = settled[r].silent
        /\ reqs'[r].data = settled[r].data
        /\ reqs'[r].overwritten = None
        /\ window' = IF settled[r].name = None THEN window
                     ELSE [window EXCEPT
                             ![settled[r].name] = settled[r].overwritten]
        /\ oldCallbacks' = IF settled[r].s.jsonp = "generated"
                           THEN Append(oldCallbacks, settled[r].name)
                           ELSE oldCallbacks
        /\ nonce' = nonce
    BY <2>1, <2>2, CleanedUp
  <2>5. \A q \in 1 .. Len(rs) : q # r => Alike(reqs'[q], rs[q])
    BY <1>3, <2>2, <2>4 DEF Alike, Same
  <2>6. First(reqs'[r], rs[r], answer)
    BY <1>1, <2>2, <2>4 DEF First, Same
  <2>7. /\ window' = IF rs[r].name = None THEN window
                     ELSE [window EXCEPT ![rs[r].name] = rs[r].overwritten]
        /\ oldCallbacks' = IF rs[r].s.jsonp = "generated"
                           THEN Append(oldCallbacks, rs[r].name)
                           ELSE oldCallbacks
        /\ nonce' = nonce
    BY <1>1, <2>2, <2>4
  <2>8. rs[r].s.jsonp # "named" /\
        (rs[r].s.jsonp = "generated" =>
           /\ rs[r].name # None /\ window[rs[r].name] = r
           /\ \/ answer.responses
              \/ answer.status = "error"
              \/ rs[r].container = r)
        => reqs'[r].data \in {r, None}
    BY <2>3, <2>4
  <2>9. reqs' \in Seq(Request(S)) /\ Len(reqs') = Len(rs)
    BY <2>2, <2>4
  <2> QED
    BY <1>4, <1>6, <2>1, <2>5, <2>6, <2>7, <2>8, <2>9 DEF Ends
<1>7. CASE rs[r].state # 2 /\ rs[r].outcome # "pending"
  <2> DEFINE again == Evaluated(ended, r, Way(rs[r].s, answer), answer)
  <2>1. /\ UNCHANGED jsonpVars
        /\ IF rs[r].globals
           THEN /\ reqs' = Tell(again, r, "global")
                /\ frames' = <<Frame(r, "global")>> \o fs
           ELSE reqs' = again /\ frames' = fs
    BY <1>7 DEF Done, ended
  <2>4. /\ again \in Seq(Request(S)) /\ Len(again) = Len(rs)
        /\ \A q \in 1 .. Len(rs) : Alike(again[q], ended[q])
    BY <1>3, EvaluatedIs
  <2> DEFINE u == again[r]
  <2> HIDE DEF again
  <2>5. /\ u \in Request(S) /\ u.state = 2
        /\ u.s = rs[r].s /\ u.globals = rs[r].globals /\ u.told = rs[r].told
        /\ u.outcome = rs[r].outcome /\ u.name = rs[r].name
        /\ u.overwritten = rs[r].overwritten /\ u.listening = rs[r].listening
        /\ u.coming = rs[r].coming /\ u.silent = rs[r].silent
        /\ u.data = rs[r].data
    <3>1. u \in Request(S)
      BY <2>4
    <3>2. Alike(u, v)
      BY <1>3, <2>4
    <3> QED
      BY <1>1, <3>1, <3>2 DEF Alike, Same
  <2>6. \A q \in 1 .. Len(rs) : q # r => Alike(again[q], rs[q])
    BY <1>3, <2>4
  <2>2. CASE ~rs[r].globals
    <3>1. reqs' = again /\ frames' = fs
      BY <2>1, <2>2
    <3>2. Later(reqs'[r], rs[r])
      BY <2>2, <2>5, <3>1 DEF Later
    <3> QED
      BY <1>4, <1>7, <2>1, <2>2, <2>4, <2>6, <3>1, <3>2 DEF Ends
  <2>3. CASE rs[r].globals
    <3> DEFINE w == [u EXCEPT !.told = Append(@, "global")]
    <3>1. reqs' = [again EXCEPT ![r] = w]
      BY <2>1, <2>3, <2>4 DEF Tell
    <3>2. u.told \in Seq(InDone)
      BY <2>5 DEF Request
    <3>3. Append(u.told, "global") \in Seq(InDone)
      BY <3>2, Noted
    <3>4. /\ w \in Request(S) /\ w.told = Append(u.told, "global")
          /\ w.s = u.s /\ w.globals = u.globals /\ w.name = u.name
          /\ w.listening = u.listening /\ w.coming = u.coming
          /\ w.silent = u.silent /\ w.overwritten = u.overwritten
          /\ w.outcome = u.outcome /\ w.data = u.data /\ w.state = u.state
      BY <2>5, <3>3 DEF Request
    <3> HIDE DEF w, u
    <3>5. /\ reqs' \in Seq(Request(S)) /\ Len(reqs') = Len(rs)
          /\ reqs'[r] = w
          /\ \A q \in 1 .. Len(rs) : q # r => reqs'[q] = again[q]
      BY <2>4, <3>1, <3>4, Updated
    <3>6. Later(reqs'[r], rs[r])
      BY <2>5, <3>4, <3>5 DEF Later
    <3> QED
      BY <1>4, <1>7, <2>1, <2>3, <2>6, <3>5, <3>6 DEF Ends
  <2> QED
    BY <2>2, <2>3
<1> QED
  BY <1>5, <1>6, <1>7

-----------------------------------------------------------------------------
(* The activations after a step.                                           *)
Rest(F, d) == IF d = 1 THEN Tail(F) ELSE F

(* The top activation leaves, or one is put there, or both.                *)
LEMMA Shifts ==
  ASSUME NEW n \in Nat, NEW F \in Seq(Activation(n)), NEW r \in 1 .. n,
         NEW d \in 0 .. 1, d = 1 => F # << >> /\ F[1].r = r, NEW at \in Points
  PROVE  /\ Rest(F, d) \in Seq(Activation(n))
         /\ Shift(F, Rest(F, d), r, d, 0)
         /\ <<Frame(r, at)>> \o Rest(F, d) \in Seq(Activation(n))
         /\ Shift(F, <<Frame(r, at)>> \o Rest(F, d), r, d, 1)
         /\ (<<Frame(r, at)>> \o Rest(F, d))[1] = Frame(r, at)
<1> DEFINE fs == Rest(F, d)
           G == <<Frame(r, at)>> \o fs
<1>1. /\ fs \in Seq(Activation(n)) /\ Len(fs) = Len(F) - d
      /\ \A j \in 1 .. Len(F) - d : fs[j] = F[j + d]
      /\ d = 1 => 1 \in 1 .. Len(F)
  <2>1. CASE d = 1
    <3>1. F # << >>
      BY <2>1
    <3>2. /\ Tail(F) \in Seq(Activation(n)) /\ Len(Tail(F)) = Len(F) - 1
          /\ \A i \in 1 .. Len(F) - 1 : Tail(F)[i] = F[i + 1]
          /\ 1 \in 1 .. Len(F)
      BY <3>1, Popped
    <3> QED
      BY <2>1, <3>2 DEF Rest
  <2>2. CASE d = 0
    BY <2>2 DEF Rest
  <2> QED
    BY <2>1, <2>2
<1>2. Frame(r, at) \in Activation(n) /\ Frame(r, at).r = r
  BY DEF Frame, Activation
<1> HIDE DEF fs
<1>3. /\ G \in Seq(Activation(n)) /\ Len(G) = Len(fs) + 1
      /\ G[1] = Frame(r, at)
      /\ \A i \in 2 .. Len(fs) + 1 : G[i] = fs[i - 1]
  BY <1>1, <1>2, Pushed
<1> HIDE DEF G
<1>4. Len(F) \in Nat /\ DOMAIN F = 1 .. Len(F)
  OBVIOUS
<1>5. Shift(F, fs, r, d, 0)
  BY <1>1, <1>4, SMTT(30) DEF Shift
<1>6. Shift(F, G, r, d, 1)
  <2>1. Len(G) = Len(F) - d + 1 /\ DOMAIN G = 1 .. Len(G)
    BY <1>1, <1>3
  <2>2. ASSUME NEW j \in DOMAIN G, j > 1
        PROVE  j - 1 + d \in DOMAIN F /\ G[j] = F[j - 1 + d]
    <3>1. j \in 2 .. Len(fs) + 1 /\ j - 1 \in 1 .. Len(F) - d
      BY <1>1, <1>4, <2>1, <2>2
    <3>2. G[j] = fs[j - 1] /\ fs[j - 1] = F[j - 1 + d]
      BY <1>1, <1>3, <3>1
    <3> QED
      BY <1>4, <3>1, <3>2
  <2>3. ASSUME NEW k \in DOMAIN F, k > d
        PROVE  k - d + 1 \in DOMAIN G /\ F[k] = G[k - d + 1]
    <3>1. k - d \in 1 .. Len(F) - d /\ k - d + 1 \in 2 .. Len(fs) + 1
      BY <1>1, <1>4, <2>3
    <3>2. G[k - d + 1] = fs[(k - d + 1) - 1] /\ fs[k - d] = F[(k - d) + d]
      BY <1>1, <1>3, <3>1
    <3> QED
      BY <1>4, <2>1, <3>1, <3>2
  <2> QED
    BY <1>1, <1>2, <1>3, <1>4, <2>1, <2>2, <2>3 DEF Shift
<1> QED
  BY <1>1, <1>3, <1>5, <1>6 DEF fs, G

(* What counts is the same.                                                *)
LEMMA CountsKept ==
  ASSUME Counts, UNCHANGED <<active, shown>>, Len(reqs') = Len(reqs),
         spoilt' = {} =>
           /\ spoilt = {}
           /\ \A q \in 1 .. Len(reqs) :
                Running(reqs', frames', q) <=> Running(reqs, frames, q)
  PROVE  Counts'
<1> SUFFICES ASSUME spoilt' = {}
             PROVE  /\ active' = Cardinality({r \in 1 .. Len(reqs') :
                                                Running(reqs', frames', r)})
                    /\ shown' <=> active' > 0
  BY DEF Counts
<1>1. {r \in 1 .. Len(reqs') : Running(reqs', frames', r)}
        = {r \in 1 .. Len(reqs) : Running(reqs, frames, r)}
  OBVIOUS
<1> QED
  BY <1>1 DEF Counts

-----------------------------------------------------------------------------
(* The names of JSONP.                                                     *)
LEMMA HeldKept ==
  ASSUME NEW R, NEW Q, NEW w, NEW n, Held(R, w, n), Len(Q) = Len(R),
         \A q \in 1 .. Len(R) :
           /\ Q[q].s = R[q].s /\ Q[q].name = R[q].name
           /\ Q[q].overwritten = R[q].overwritten
           /\ Q[q].outcome = R[q].outcome
  PROVE  Held(Q, w, n)
BY DEF Held

(* done() gives a name back.                                               *)
GivesBack(R, Q, r, w, old, w2, old2) ==
  /\ R[r].outcome = "pending" /\ Q[r].outcome # "pending"
  /\ Q[r].s = R[r].s /\ Q[r].name = R[r].name /\ Q[r].overwritten = None
  /\ \A q \in 1 .. Len(R) : q # r =>
       /\ Q[q].s = R[q].s /\ Q[q].name = R[q].name
       /\ Q[q].overwritten = R[q].overwritten
       /\ Q[q].outcome = R[q].outcome
  /\ w2 = IF R[r].name = None THEN w
          ELSE [w EXCEPT ![R[r].name] = R[r].overwritten]
  /\ old2 = IF R[r].s.jsonp = "generated" THEN Append(old, R[r].name) ELSE old

(* Then the invariants of the names are kept.                              *)
LEMMA NameFreed ==
  ASSUME NEW S \in SUBSET Settings, NEW R \in Seq(Request(S)),
         NEW Q \in Seq(Request(S)), Len(Q) = Len(R), Len(R) <= MaxRequests,
         NEW w \in [Names -> Ids \cup {None}], NEW n \in 1 .. Len(R) + 1,
         NEW old \in Seq(Ids), Held(R, w, n), Free(w, old, n),
         NEW r \in 1 .. Len(R), NEW w2, NEW old2,
         GivesBack(R, Q, r, w, old, w2, old2)
  PROVE  /\ w2 \in [Names -> Ids \cup {None}] /\ old2 \in Seq(Ids)
         /\ Held(Q, w2, n) /\ Free(w2, old2, n)
<1> USE DEF GivesBack
<1>0. /\ MaxRequests \in Nat /\ Ids = 1 .. MaxRequests
      /\ Names = 1 .. MaxRequests + 1 /\ Named = MaxRequests + 1 /\ None = 0
  BY AjaxAssumption DEF Ids, Names, Named, None
<1>1. /\ R[r].name \in Names \cup {None}
      /\ R[r].overwritten \in Ids \cup {None}
      /\ R[r].s.jsonp \in {"no", "named", "generated"}
  <2>1. R[r] \in Request(S)
    OBVIOUS
  <2>2. R[r].s \in Settings
    BY <2>1 DEF Request
  <2> QED
    BY <2>1, <2>2 DEF Request, Settings
<1>2. w2 \in [Names -> Ids \cup {None}]
  BY <1>1, SMTT(30)
<1>3. CASE R[r].s.jsonp = "generated"
  <2>1. /\ R[r].name \in 1 .. n - 1 /\ R[r].overwritten = None
        /\ w[R[r].name] = r /\ R[r].name \in Ids /\ R[r].name # None
    BY <1>0, <1>3 DEF Held
  <2>2. /\ w2 = [w EXCEPT ![R[r].name] = None]
        /\ old2 = Append(old, R[r].name)
    BY <1>3, <2>1
  <2>3. /\ w2[R[r].name] = None
        /\ \A m \in Names : m # R[r].name => w2[m] = w[m]
    BY <1>0, <2>1, <2>2, SMTT(30)
  <2>4. Held(Q, w2, n)
    <3>1. ASSUME NEW q \in 1 .. Len(Q)
          PROVE  /\ Q[q].s.jsonp = "no" => Q[q].name = None
                 /\ Q[q].s.jsonp = "named" => Q[q].name = Named
                 /\ Q[q].s.jsonp = "generated" =>
                      /\ Q[q].name \in 1 .. n - 1 /\ Q[q].overwritten = None
                      /\ Q[q].outcome = "pending" => w2[Q[q].name] = q
      <4>1. CASE q = r
        BY <1>3, <2>1, <4>1
      <4>2. CASE q # r
        <5>1. /\ R[q].s.jsonp = "no" => R[q].name = None
              /\ R[q].s.jsonp = "named" => R[q].name = Named
              /\ R[q].s.jsonp = "generated" =>
                   /\ R[q].name \in 1 .. n - 1 /\ R[q].overwritten = None
                   /\ R[q].outcome = "pending" => w[R[q].name] = q
          BY DEF Held
        <5>2. /\ Q[q].s = R[q].s /\ Q[q].name = R[q].name
              /\ Q[q].overwritten = R[q].overwritten
              /\ Q[q].outcome = R[q].outcome
          BY <4>2
        <5>3. R[q].s.jsonp = "generated" /\ R[q].outcome = "pending" =>
                R[q].name # R[r].name /\ R[q].name \in Names
          BY <1>0, <2>1, <4>2, <5>1
        <5> QED
          BY <2>3, <5>1, <5>2, <5>3
      <4> QED
        BY <4>1, <4>2
    <3>2. ASSUME NEW m \in Ids, w2[m] # None
          PROVE  /\ w2[m] \in 1 .. Len(Q)
                 /\ Q[w2[m]].s.jsonp = "generated"
                 /\ Q[w2[m]].outcome = "pending" /\ Q[w2[m]].name = m
      <4>1. m # R[r].name /\ w2[m] = w[m]
        BY <1>0, <2>3, <3>2
      <4>2. /\ w[m] \in 1 .. Len(R)
            /\ R[w[m]].s.jsonp = "generated" /\ R[w[m]].outcome = "pending"
            /\ R[w[m]].name = m
        BY <3>2, <4>1 DEF Held
      <4>3. w[m] # r
        BY <4>1, <4>2
      <4> QED
        BY <4>1, <4>2, <4>3
    <3> QED
      BY <3>1, <3>2 DEF Held
  <2>5. /\ old2 \in Seq(Ids) /\ Len(old2) = Len(old) + 1
        /\ old2[Len(old) + 1] = R[r].name
        /\ \A i \in 1 .. Len(old) : old2[i] = old[i]
    BY <2>1, <2>2, AppendedAt
  <2>6. /\ Len(old) \in Nat /\ DOMAIN old = 1 .. Len(old)
        /\ DOMAIN old2 = 1 .. Len(old) + 1
    BY <2>5
  <2>7. \A i \in 1 .. Len(old) :
          /\ old[i] < n /\ w[old[i]] = None /\ old[i] \in Ids
          /\ old[i] # R[r].name
    <3>1. \A i \in 1 .. Len(old) : old[i] < n /\ w[old[i]] = None
      BY <2>6 DEF Free
    <3>2. \A i \in 1 .. Len(old) : old[i] \in Ids
      OBVIOUS
    <3>3. r # None
      BY <1>0
    <3> QED
      BY <2>1, <3>1, <3>2, <3>3
  <2>8. \A i \in DOMAIN old2 : old2[i] < n /\ w2[old2[i]] = None
    <3> SUFFICES ASSUME NEW i \in DOMAIN old2
                 PROVE  old2[i] < n /\ w2[old2[i]] = None
      OBVIOUS
    <3>1. CASE i \in 1 .. Len(old)
      <4>1. /\ old2[i] = old[i] /\ old[i] < n /\ w[old[i]] = None
            /\ old[i] \in Ids /\ old[i] # R[r].name
        BY <2>5, <2>7, <3>1
      <4>2. old[i] \in Names
        BY <1>0, <4>1
      <4> QED
        BY <2>3, <4>1, <4>2
    <3>2. CASE i = Len(old) + 1
      BY <1>0, <2>1, <2>3, <2>5, <3>2
    <3> QED
      BY <2>6, <3>1, <3>2
  <2>9. \A i, j \in DOMAIN old2 : old2[i] = old2[j] => i = j
    <3> SUFFICES ASSUME NEW i \in DOMAIN old2, NEW j \in DOMAIN old2,
                        old2[i] = old2[j]
                 PROVE  i = j
      OBVIOUS
    <3>1. CASE i \in 1 .. Len(old) /\ j \in 1 .. Len(old)
      BY <2>5, <2>6, <3>1 DEF Free
    <3>2. CASE i = Len(old) + 1 \/ j = Len(old) + 1
      BY <2>5, <2>6, <2>7, <3>2
    <3> QED
      BY <2>6, <3>1, <3>2
  <2>10. \A m \in Ids : m >= n => w2[m] = None
    BY <1>0, <2>1, <2>3 DEF Free
  <2> QED
    BY <1>2, <2>4, <2>5, <2>8, <2>9, <2>10 DEF Free
<1>4. CASE R[r].s.jsonp # "generated"
  <2>1. old2 = old /\ \A m \in Ids : w2[m] = w[m]
    <3>1. R[r].name \in {None, Named}
      BY <1>1, <1>4 DEF Held
    <3>2. R[r].name \notin Ids
      BY <1>0, <3>1
    <3> QED
      BY <1>0, <1>4, <3>2
  <2>2. Free(w2, old2, n)
    <3>1. \A i \in DOMAIN old : old[i] \in Ids
      OBVIOUS
    <3> QED
      BY <2>1, <3>1 DEF Free
  <2>3. Held(Q, w2, n)
    <3>1. ASSUME NEW q \in 1 .. Len(Q)
          PROVE  /\ Q[q].s.jsonp = "no" => Q[q].name = None
                 /\ Q[q].s.jsonp = "named" => Q[q].name = Named
                 /\ Q[q].s.jsonp = "generated" =>
                      /\ Q[q].name \in 1 .. n - 1 /\ Q[q].overwritten = None
                      /\ Q[q].outcome = "pending" => w2[Q[q].name] = q
      <4>1. /\ R[q].s.jsonp = "no" => R[q].name = None
            /\ R[q].s.jsonp = "named" => R[q].name = Named
            /\ R[q].s.jsonp = "generated" =>
                 /\ R[q].name \in 1 .. n - 1 /\ R[q].overwritten = None
                 /\ R[q].outcome = "pending" => w[R[q].name] = q
        BY DEF Held
      <4>2. CASE q = r
        BY <1>4, <4>1, <4>2
      <4>3. CASE q # r
        <5>1. /\ Q[q].s = R[q].s /\ Q[q].name = R[q].name
              /\ Q[q].overwritten = R[q].overwritten
              /\ Q[q].outcome = R[q].outcome
          BY <4>3
        <5>2. R[q].s.jsonp = "generated" => R[q].name \in Ids
          BY <1>0, <4>1
        <5> QED
          BY <2>1, <4>1, <5>1, <5>2
      <4> QED
        BY <4>2, <4>3
    <3>2. ASSUME NEW m \in Ids, w2[m] # None
          PROVE  /\ w2[m] \in 1 .. Len(Q)
                 /\ Q[w2[m]].s.jsonp = "generated"
                 /\ Q[w2[m]].outcome = "pending" /\ Q[w2[m]].name = m
      <4>1. /\ w[m] \in 1 .. Len(R) /\ w2[m] = w[m]
            /\ R[w[m]].s.jsonp = "generated" /\ R[w[m]].outcome = "pending"
            /\ R[w[m]].name = m
        BY <2>1, <3>2 DEF Held
      <4>2. w[m] # r
        BY <1>4, <4>1
      <4> QED
        BY <4>1, <4>2
    <3> QED
      BY <3>1, <3>2 DEF Held
  <2> QED
    BY <1>2, <2>1, <2>2, <2>3
<1> QED
  BY <1>3, <1>4

-----------------------------------------------------------------------------
(* The calls of done(): with the requests rs it is given, and with the d   *)
(* activations of ajax() that it leaves.                                   *)
Prepared(p, q) ==
  /\ p.s = q.s /\ p.globals = q.globals /\ p.told = q.told
  /\ p.outcome = q.outcome /\ p.name = q.name
  /\ p.overwritten = q.overwritten /\ p.data = q.data
  /\ p.coming => q.coming
  /\ p.listening => q.listening
  /\ p.silent = q.silent \/ q.outcome # "success"

Answering(rs, r, answer, d, Y) ==
  /\ rs \in Seq(Request(page.settings)) /\ Len(rs) = Len(reqs)
  /\ \A q \in 1 .. Len(reqs) : q # r => Alike(rs[q], reqs[q])
  /\ Prepared(rs[r], reqs[r])
  /\ d = 1 => /\ frames # << >> /\ frames[1].r = r
              /\ frames[1].at \in {"beforeSend", "ajaxSend"}
  /\ rs[r].state # reqs[r].state =>
       d = 1 /\ frames[1].at = "ajaxSend" /\ rs[r].state = 1
  /\ d = 0 /\ frames # << >> /\ frames[1].at = "beforeSend" =>
       reqs[frames[1].r].s.beforeSend
  /\ r \notin Y /\ d = 0 =>
       \A k \in DOMAIN frames : frames[k].r = r =>
         /\ frames[k].at # "ajaxSend"
         /\ frames[k].at \in {"ajaxStart", "beforeSend"} =>
              reqs[r].s.beforeSend
  /\ answer.status = "error" \/ (~rs[r].coming /\ (d = 1 \/ Idle))
  /\ rs[r].s.jsonp = "generated" /\ rs[r].outcome = "pending"
     /\ ~rs[r].silent =>
       answer.responses \/ answer.status = "error" \/ rs[r].container = r
  /\ spoilt \subseteq Y /\ Y \subseteq spoilt \cup {r}

(* What is known where done() is called: only a request that ajax() did    *)
(* not see aborted is answered again.                                      *)
LEMMA WhereAnswered ==
  ASSUME IInv, NEW r \in 1 .. Len(reqs), NEW rs, NEW answer,
         NEW d \in 0 .. 1, NEW Y, Answering(rs, r, answer, d, Y)
  PROVE  /\ d = 1 => \A k \in DOMAIN frames :
              k > d /\ frames[k].r = r => frames[k].at \notin Entering
         /\ r \notin Y => r \notin spoilt
         /\ r \notin Y /\ rs[r].state # 2 =>
              /\ reqs[r].state # 2 /\ reqs[r].outcome = "pending"
              /\ reqs[r].told = << >> /\ ~IsIn(frames, r, InDone)
         /\ rs[r].state = 2 => reqs[r].state = 2
         /\ rs[r].state # 2 /\ rs[r].outcome # "pending" =>
              d = 1 \/ r \in spoilt
<1>1. /\ Single(frames, spoilt) /\ Where(reqs, frames, spoilt)
      /\ Known(reqs, frames, spoilt) /\ DOMAIN frames = 1 .. Len(frames)
      /\ Len(frames) \in Nat
  BY DEF IInv, Typed, Kept
<1>2. ASSUME d = 1, NEW k \in DOMAIN frames, k > d, frames[k].r = r
      PROVE  frames[k].at \notin Entering
  <2>1. /\ 1 \in DOMAIN frames /\ frames[1].r = r
        /\ frames[1].at \in Entering
    BY <1>1, <1>2 DEF Answering, Entering, InAjax
  <2> QED
    BY <1>2, <2>1, <1>1 DEF Single
<1>3. r \notin Y => r \notin spoilt
  BY DEF Answering
<1>4. ASSUME r \notin Y, rs[r].state # 2
      PROVE  reqs[r].state # 2
  <2>1. CASE rs[r].state = reqs[r].state
    BY <1>4, <2>1
  <2>2. CASE rs[r].state # reqs[r].state
    <3>1. /\ frames[1].r = r /\ frames[1].at = "ajaxSend"
          /\ 1 \in DOMAIN frames
      BY <1>1, <2>2 DEF Answering
    <3>2. Enters(reqs[r], "ajaxSend")
      BY <1>1, <1>3, <1>4, <3>1 DEF Where, Entering, InAjax
    <3> QED
      BY <3>2 DEF Enters
  <2> QED
    BY <2>1, <2>2
<1>5. ASSUME r \notin Y, rs[r].state # 2
      PROVE  /\ reqs[r].outcome = "pending" /\ reqs[r].told = << >>
             /\ ~IsIn(frames, r, InDone)
  <2>1. reqs[r].outcome = "pending" /\ reqs[r].told = << >>
    BY <1>1, <1>3, <1>4, <1>5 DEF Known
  <2>2. ASSUME NEW k \in DOMAIN frames, frames[k].r = r,
               frames[k].at \in InDone
        PROVE  FALSE
    BY <1>1, <1>3, <1>4, <1>5, <2>2 DEF Where, Tells
  <2> QED
    BY <2>1, <2>2 DEF IsIn
<1>6. rs[r].state = 2 => reqs[r].state = 2
  BY DEF Answering
<1>7. ASSUME rs[r].state # 2, rs[r].outcome # "pending", d = 0
      PROVE  r \in spoilt
  <2>1. reqs[r].state # 2 /\ reqs[r].outcome # "pending"
    BY <1>7 DEF Answering, Prepared
  <2> QED
    BY <1>1, <2>1 DEF Known
<1> QED
  BY <1>2, <1>3, <1>4, <1>5, <1>6, <1>7

(* Types, and the requests as done() leaves them.                          *)
LEMMA Answered ==
  ASSUME IInv, NEW r \in 1 .. Len(reqs), NEW rs, NEW answer,
         NEW d \in 0 .. 1, NEW Y, Answering(rs, r, answer, d, Y),
         Done(rs, r, answer, Rest(frames, d))
  PROVE  /\ Ends(rs, r, answer, Rest(frames, d))
         /\ page.settings \in SUBSET Settings /\ Len(reqs) <= MaxRequests
         /\ r \in Ids /\ rs[r] \in Request(page.settings)
         /\ reqs' \in Seq(Request(page.settings)) /\ Len(reqs') = Len(reqs)
         /\ frames' \in Seq(Activation(Len(reqs'))) /\ etag' \in BOOLEAN
         /\ \A q \in 1 .. Len(reqs) : q # r => Alike(reqs'[q], reqs[q])
         /\ reqs'[r].s = reqs[r].s
<1>1. /\ page \in Pages /\ reqs \in Seq(Request(page.settings))
      /\ Len(reqs) <= page.requests /\ etag \in BOOLEAN
      /\ frames \in Seq(Activation(Len(reqs)))
      /\ window \in [Names -> Ids \cup {None}]
  BY DEF IInv, Typed
<1>2. /\ page.settings \in SUBSET Settings /\ Len(reqs) <= MaxRequests
      /\ r \in Ids
  <2>1. /\ page.settings \subseteq Settings /\ MaxRequests \in Nat
        /\ page.requests \in 0 .. MaxRequests
    BY <1>1, AjaxAssumption
  <2>2. Len(reqs) \in Nat
    BY <1>1
  <2> QED
    BY <1>1, <2>1, <2>2 DEF Ids
<1>3. /\ rs \in Seq(Request(page.settings)) /\ Len(rs) = Len(reqs)
      /\ \A q \in 1 .. Len(reqs) : q # r => Alike(rs[q], reqs[q])
      /\ rs[r].s = reqs[r].s
      /\ d = 1 => frames # << >> /\ frames[1].r = r
  BY DEF Answering, Prepared
<1>4. rs[r] \in Request(page.settings)
  BY <1>3, SMTT(30)
<1>5. /\ Ends(rs, r, answer, Rest(frames, d))
      /\ reqs' \in Seq(Request(page.settings)) /\ Len(reqs') = Len(rs)
      /\ \A q \in 1 .. Len(rs) : q # r => Alike(reqs'[q], rs[q])
      /\ etag' \in BOOLEAN
      /\ reqs'[r].s = rs[r].s
      /\ \/ frames' = Rest(frames, d)
         \/ frames' = <<Frame(r, "outcome")>> \o Rest(frames, d)
         \/ frames' = <<Frame(r, "global")>> \o Rest(frames, d)
  <2>1. r \in 1 .. Len(rs)
    BY <1>3
  <2>2. /\ reqs' \in Seq(Request(page.settings)) /\ Len(reqs') = Len(rs)
        /\ \A q \in 1 .. Len(rs) : q # r => Alike(reqs'[q], rs[q])
        /\ etag' \in BOOLEAN
    BY <1>1, <1>2, <1>3, <2>1, DoneIs
  <2>3. Ends(rs, r, answer, Rest(frames, d))
    BY <1>1, <1>2, <1>3, <2>1, DoneIs
  <2> QED
    BY <2>2, <2>3 DEF Ends, First, Later
<1>6. /\ Rest(frames, d) \in Seq(Activation(Len(reqs)))
      /\ <<Frame(r, "outcome")>> \o Rest(frames, d)
           \in Seq(Activation(Len(reqs)))
      /\ <<Frame(r, "global")>> \o Rest(frames, d)
           \in Seq(Activation(Len(reqs)))
  <2>1. "outcome" \in Points /\ "global" \in Points /\ Len(reqs) \in Nat
    BY <1>1 DEF Points, InDone
  <2>2. d = 1 => frames # << >> /\ frames[1].r = r
    BY <1>3
  <2> QED
    BY <1>1, <2>1, <2>2, Shifts
<1>7. frames' \in Seq(Activation(Len(reqs')))
  BY <1>3, <1>5, <1>6
<1>8. \A q \in 1 .. Len(reqs) : q # r => Alike(reqs'[q], reqs[q])
  BY <1>3, <1>5 DEF Alike, Same
<1> QED
  BY <1>2, <1>3, <1>4, <1>5, <1>7, <1>8

(* What the activations then say of the requests.                          *)
LEMMA AnsweredKept ==
  ASSUME IInv, NEW r \in 1 .. Len(reqs), NEW rs, NEW answer,
         NEW d \in 0 .. 1, NEW Y, Answering(rs, r, answer, d, Y),
         Done(rs, r, answer, Rest(frames, d))
  PROVE  /\ Kept(reqs', frames', Y)
         /\ \A q \in 1 .. Len(reqs) : q # r =>
              (Running(reqs', frames', q) <=> Running(reqs, frames, q))
<1> DEFINE S == page.settings
           fs == Rest(frames, d)
<1>1. /\ reqs \in Seq(Request(S)) /\ reqs' \in Seq(Request(S))
      /\ Len(reqs') = Len(reqs)
      /\ frames \in Seq(Activation(Len(reqs)))
      /\ frames' \in Seq(Activation(Len(reqs')))
      /\ \A q \in 1 .. Len(reqs) : q # r => Same(reqs'[q], reqs[q])
      /\ reqs'[r].s = reqs[r].s /\ Kept(reqs, frames, spoilt)
      /\ Ends(rs, r, answer, fs)
  BY Answered DEF IInv, Typed, Alike
<1>2. /\ d = 1 => \A k \in DOMAIN frames :
           k > d /\ frames[k].r = r => frames[k].at \notin Entering
      /\ r \notin Y => r \notin spoilt
      /\ r \notin Y /\ rs[r].state # 2 =>
           /\ reqs[r].state # 2 /\ reqs[r].outcome = "pending"
           /\ reqs[r].told = << >> /\ ~IsIn(frames, r, InDone)
      /\ rs[r].state = 2 => reqs[r].state = 2
      /\ rs[r].state # 2 /\ rs[r].outcome # "pending" => d = 1 \/ r \in spoilt
  BY WhereAnswered
<1>3. /\ Prepared(rs[r], reqs[r]) /\ spoilt \subseteq Y
      /\ d = 1 => /\ frames # << >> /\ frames[1].r = r
                  /\ frames[1].at \in {"beforeSend", "ajaxSend"}
      /\ d = 0 /\ frames # << >> /\ frames[1].at = "beforeSend" =>
           reqs[frames[1].r].s.beforeSend
      /\ r \notin Y /\ d = 0 =>
           \A k \in DOMAIN frames : frames[k].r = r =>
             /\ frames[k].at # "ajaxSend"
             /\ frames[k].at \in {"ajaxStart", "beforeSend"} =>
                  reqs[r].s.beforeSend
  BY DEF Answering
<1>4. /\ DOMAIN frames = 1 .. Len(frames) /\ Len(frames) \in Nat
      /\ Len(reqs) \in Nat
      /\ \A k \in DOMAIN frames : frames[k].r \in 1 .. Len(reqs)
  <2>1. \A k \in DOMAIN frames : frames[k] \in Activation(Len(reqs))
    BY <1>1
  <2> QED
    BY <1>1, <2>1 DEF Activation
<1>5. /\ Shift(frames, fs, r, d, 0)
      /\ \A at \in Points :
           /\ Shift(frames, <<Frame(r, at)>> \o fs, r, d, 1)
           /\ (<<Frame(r, at)>> \o fs)[1] = Frame(r, at)
  <2>1. d = 1 => frames # << >> /\ frames[1].r = r
    BY <1>3
  <2>2. "outcome" \in Points
    BY DEF Points, InDone
  <2> QED
    BY <1>1, <1>4, <2>1, <2>2, Shifts
<1>6. Where(reqs, frames, spoilt) /\ Known(reqs, frames, spoilt)
  BY <1>1 DEF Kept
<1>7. ASSUME NEW e \in 0 .. 1, Shift(frames, frames', r, d, e),
             Consistent(reqs', frames, frames', Y, r, d, e)
      PROVE  /\ Kept(reqs', frames', Y)
             /\ \A q \in 1 .. Len(reqs) : q # r =>
                  (Running(reqs', frames', q) <=> Running(reqs, frames, q))
  BY <1>1, <1>3, <1>7, Moves
<1> HIDE DEF fs
<1>8. CASE rs[r].state = 2
  <2>1. reqs' = rs /\ frames' = fs
    BY <1>1, <1>8 DEF Ends
  <2>2. Same(reqs'[r], reqs[r])
    BY <1>2, <1>3, <1>8, <2>1 DEF Prepared, Same
  <2>3. Consistent(reqs', frames, frames', Y, r, d, 0)
    <3>1. ASSUME NEW k \in DOMAIN frames, frames[k].r = r, r \notin Y
          PROVE  /\ frames[k].at \in Entering =>
                      Enters(reqs'[r], frames[k].at)
                 /\ frames[k].at \in InDone => Tells(reqs'[r], frames[k].at)
      <4>1. /\ frames[k].at \in Entering => Enters(reqs[r], frames[k].at)
            /\ frames[k].at \in InDone => Tells(reqs[r], frames[k].at)
        BY <1>2, <1>6, <3>1 DEF Where
      <4> QED
        BY <2>2, <4>1 DEF Same, Enters, Tells, SoFar, All
    <3>2. ASSUME r \notin Y
          PROVE  /\ reqs'[r].state = 2 <=> reqs'[r].outcome # "pending"
                 /\ reqs'[r].state = 2
                 /\ \/ IsIn(frames', r, InDone)
                    \/ reqs'[r].told = All(reqs'[r])
      <4>1. /\ reqs[r].state = 2 <=> reqs[r].outcome # "pending"
            /\ reqs[r].state = 2
            /\ IsIn(frames, r, InDone) \/ reqs[r].told = All(reqs[r])
        BY <1>2, <1>6, <1>8, <3>2 DEF Known
      <4>2. ASSUME IsIn(frames, r, InDone)
            PROVE  IsIn(frames', r, InDone)
        <5>1. PICK k \in DOMAIN frames :
                frames[k].r = r /\ frames[k].at \in InDone
          BY <4>2 DEF IsIn
        <5>2. k > d
          BY <1>3, <1>4, <5>1 DEF InDone
        <5>3. k - d + 0 \in DOMAIN frames' /\ frames[k] = frames'[k - d + 0]
          BY <1>5, <2>1, <5>2 DEF Shift
        <5> QED
          BY <5>1, <5>3 DEF IsIn
      <4> QED
        BY <2>2, <4>1, <4>2 DEF Same, All
    <3> QED
      BY <3>1, <3>2 DEF Consistent
  <2> QED
    BY <1>5, <1>7, <2>1, <2>3
<1>9. CASE rs[r].state # 2 /\ rs[r].outcome = "pending"
  <2>1. /\ frames' = <<Frame(r, "outcome")>> \o fs
        /\ First(reqs'[r], rs[r], answer)
    BY <1>1, <1>9 DEF Ends
  <2>2. /\ Shift(frames, frames', r, d, 1)
        /\ frames'[1].r = r /\ frames'[1].at = "outcome"
    BY <1>5, <2>1 DEF Points, InDone, Frame
  <2>3. /\ reqs'[r].s = reqs[r].s /\ reqs'[r].globals = reqs[r].globals
        /\ reqs'[r].state = 2 /\ reqs'[r].outcome # "pending"
        /\ reqs'[r].told = Append(reqs[r].told, "outcome")
    BY <1>3, <2>1 DEF First, Prepared
  <2>4. d = 0 /\ frames # << >> /\ frames[1].at = "beforeSend" =>
          reqs'[frames[1].r].s.beforeSend
    <3> SUFFICES ASSUME d = 0, frames # << >>, frames[1].at = "beforeSend"
                 PROVE  reqs'[frames[1].r].s.beforeSend
      OBVIOUS
    <3>1. 1 \in DOMAIN frames
      BY <1>1, <1>4
    <3>2. reqs'[frames[1].r].s = reqs[frames[1].r].s
      BY <1>1, <1>4, <3>1 DEF Same
    <3> QED
      BY <1>3, <3>2
  <2>5. ASSUME NEW k \in DOMAIN frames, k > d, frames[k].r = r,
               frames[k].at \in Entering, r \notin Y
        PROVE  Enters(reqs'[r], frames[k].at)
    <3>1. d = 0
      BY <1>2, <2>5
    <3>2. /\ frames[k].at # "ajaxSend"
          /\ frames[k].at \in {"ajaxStart", "beforeSend"} =>
               reqs[r].s.beforeSend
      BY <1>3, <2>5, <3>1
    <3>3. Enters(reqs[r], frames[k].at)
      BY <1>2, <1>6, <2>5 DEF Where
    <3> QED
      BY <2>3, <3>2, <3>3 DEF Enters
  <2>6. ASSUME NEW k \in DOMAIN frames, frames[k].r = r,
               frames[k].at \in InDone, r \notin Y
        PROVE  FALSE
    BY <1>2, <1>9, <2>6 DEF IsIn
  <2>7. r \notin Y => Tells(reqs'[r], "outcome")
    <3> SUFFICES ASSUME r \notin Y
                 PROVE  Tells(reqs'[r], "outcome")
      OBVIOUS
    <3>1. reqs[r].told = << >>
      BY <1>2, <1>9
    <3>2. reqs'[r].told = << "outcome" >>
      BY <2>3, <3>1
    <3> QED
      BY <2>3, <3>2 DEF Tells, SoFar
  <2>8. IsIn(frames', r, InDone)
    <3>1. 1 \in DOMAIN frames'
      BY <2>2 DEF Shift
    <3> QED
      BY <2>2, <3>1 DEF IsIn, InDone
  <2>9. "outcome" \notin Entering /\ "outcome" \in InDone
    BY DEF Entering, InAjax, InDone
  <2>10. Consistent(reqs', frames, frames', Y, r, d, 1)
    BY <2>2, <2>3, <2>4, <2>5, <2>6, <2>7, <2>8, <2>9 DEF Consistent
  <2> QED
    BY <1>7, <2>2, <2>10
<1>10. CASE rs[r].state # 2 /\ rs[r].outcome # "pending"
  <2>1. frames' = IF rs[r].globals THEN <<Frame(r, "global")>> \o fs ELSE fs
    BY <1>1, <1>10 DEF Ends
  <2>2. r \in Y
    BY <1>2, <1>3, <1>10 DEF Prepared
  <2>3. d = 1 => \A k \in DOMAIN frames :
           k > d /\ frames[k].r = r => frames[k].at \notin Entering
    BY <1>2
  <2>4. CASE ~rs[r].globals
    <3>1. Consistent(reqs', frames, frames', Y, r, d, 0)
      BY <2>2 DEF Consistent
    <3> QED
      BY <1>5, <1>7, <2>1, <2>4, <3>1
  <2>5. CASE rs[r].globals
    <3>1. /\ Shift(frames, frames', r, d, 1)
          /\ frames'[1].r = r /\ frames'[1].at = "global"
      BY <1>5, <2>1, <2>5 DEF Points, InDone, Frame
    <3>2. d = 0 /\ frames # << >> /\ frames[1].at = "beforeSend" =>
            reqs'[frames[1].r].s.beforeSend
      <4> SUFFICES ASSUME d = 0, frames # << >>, frames[1].at = "beforeSend"
                   PROVE  reqs'[frames[1].r].s.beforeSend
        OBVIOUS
      <4>1. 1 \in DOMAIN frames
        BY <1>1, <1>4
      <4>2. reqs'[frames[1].r].s = reqs[frames[1].r].s
        BY <1>1, <1>4, <4>1 DEF Same
      <4> QED
        BY <1>3, <4>2
    <3>3. "global" \notin Entering
      BY DEF Entering, InAjax
    <3>4. Consistent(reqs', frames, frames', Y, r, d, 1)
      BY <2>2, <3>1, <3>2, <3>3 DEF Consistent
    <3> QED
      BY <1>7, <3>1, <3>4
  <2> QED
    BY <2>4, <2>5
<1> QED
  BY <1>8, <1>9, <1>10

(* Names, and the data of the request.                                     *)
LEMMA AnsweredNames ==
  ASSUME IInv, NEW r \in 1 .. Len(reqs), NEW rs, NEW answer,
         NEW d \in 0 .. 1, NEW Y, Answering(rs, r, answer, d, Y),
         Done(rs, r, answer, Rest(frames, d))
  PROVE  /\ window' \in [Names -> Ids \cup {None}]
         /\ oldCallbacks' \in Seq(Ids)
         /\ nonce' = nonce
         /\ Held(reqs', window', nonce')
         /\ Free(window', oldCallbacks', nonce')
         /\ Own(reqs')
<1> DEFINE S == page.settings
           fs == Rest(frames, d)
<1>1. /\ reqs \in Seq(Request(S)) /\ reqs' \in Seq(Request(S))
      /\ Len(reqs') = Len(reqs) /\ Len(reqs) <= MaxRequests
      /\ \A q \in 1 .. Len(reqs) : q # r => Alike(reqs'[q], reqs[q])
      /\ Ends(rs, r, answer, fs) /\ S \in SUBSET Settings
      /\ window \in [Names -> Ids \cup {None}] /\ oldCallbacks \in Seq(Ids)
      /\ nonce \in 1 .. Len(reqs) + 1
      /\ Held(reqs, window, nonce) /\ Free(window, oldCallbacks, nonce)
      /\ Own(reqs) /\ Prepared(rs[r], reqs[r])
      /\ answer.status = "error" \/ ~rs[r].coming
      /\ rs[r].s.jsonp = "generated" /\ rs[r].outcome = "pending"
         /\ ~rs[r].silent =>
           answer.responses \/ answer.status = "error" \/ rs[r].container = r
  <2>1. /\ Ends(rs, r, answer, Rest(frames, d)) /\ S \in SUBSET Settings
        /\ Len(reqs) <= MaxRequests
        /\ reqs' \in Seq(Request(S)) /\ Len(reqs') = Len(reqs)
        /\ \A q \in 1 .. Len(reqs) : q # r => Alike(reqs'[q], reqs[q])
    BY Answered
  <2>2. /\ reqs \in Seq(Request(S))
        /\ window \in [Names -> Ids \cup {None}]
        /\ oldCallbacks \in Seq(Ids)
        /\ nonce \in 1 .. Len(reqs) + 1
        /\ Held(reqs, window, nonce) /\ Free(window, oldCallbacks, nonce)
        /\ Own(reqs)
    BY DEF IInv, Typed
  <2>3. /\ Prepared(rs[r], reqs[r])
        /\ answer.status = "error" \/ ~rs[r].coming
        /\ rs[r].s.jsonp = "generated" /\ rs[r].outcome = "pending"
           /\ ~rs[r].silent =>
             answer.responses \/ answer.status = "error" \/ rs[r].container = r
    BY DEF Answering
  <2> QED
    BY <2>1, <2>2, <2>3
<1> HIDE DEF fs
<1>2. \A q \in 1 .. Len(reqs) : q # r =>
        /\ reqs'[q].s = reqs[q].s /\ reqs'[q].name = reqs[q].name
        /\ reqs'[q].overwritten = reqs[q].overwritten
        /\ reqs'[q].outcome = reqs[q].outcome
        /\ reqs'[q].coming = reqs[q].coming
        /\ reqs'[q].silent = reqs[q].silent
        /\ reqs'[q].data = reqs[q].data
  BY <1>1 DEF Alike, Same
<1>3. ASSUME /\ reqs'[r].outcome = "success" => ~reqs'[r].coming
             /\ reqs'[r].outcome # "success" => reqs'[r].data = None
             /\ reqs'[r].s.jsonp # "named" /\ ~reqs'[r].silent =>
                  reqs'[r].data \in {r, None}
      PROVE  Own(reqs')
  BY <1>1, <1>2, <1>3 DEF Own
<1>4. CASE rs[r].state # 2 /\ rs[r].outcome = "pending"
  <2>1. /\ First(reqs'[r], rs[r], answer)
        /\ rs[r].s.jsonp # "named" /\
           (rs[r].s.jsonp = "generated" =>
              /\ rs[r].name # None /\ window[rs[r].name] = r
              /\ \/ answer.responses
                 \/ answer.status = "error"
                 \/ rs[r].container = r)
           => reqs'[r].data \in {r, None}
        /\ window' = IF rs[r].name = None THEN window
                     ELSE [window EXCEPT ![rs[r].name] = rs[r].overwritten]
        /\ oldCallbacks' = IF rs[r].s.jsonp = "generated"
                           THEN Append(oldCallbacks, rs[r].name)
                           ELSE oldCallbacks
        /\ nonce' = nonce
    BY <1>1, <1>4 DEF Ends
  <2>2. /\ rs[r].s = reqs[r].s /\ rs[r].name = reqs[r].name
        /\ rs[r].overwritten = reqs[r].overwritten
        /\ reqs[r].outcome = "pending"
    BY <1>1, <1>4 DEF Prepared
  <2>3. /\ reqs'[r].outcome # "pending" /\ reqs'[r].s = reqs[r].s
        /\ reqs'[r].name = reqs[r].name /\ reqs'[r].overwritten = None
        /\ reqs'[r].coming = rs[r].coming /\ reqs'[r].silent = rs[r].silent
        /\ answer.status = "error" => reqs'[r].outcome = "error"
        /\ reqs'[r].outcome \in {"success", "error"}
        /\ reqs'[r].outcome = "error" => reqs'[r].data = None
    BY <2>1, <2>2 DEF First
  <2>4. /\ window' = IF reqs[r].name = None THEN window
                     ELSE [window EXCEPT ![reqs[r].name] = reqs[r].overwritten]
        /\ oldCallbacks' = IF reqs[r].s.jsonp = "generated"
                           THEN Append(oldCallbacks, reqs[r].name)
                           ELSE oldCallbacks
        /\ nonce' = nonce
    BY <2>1, <2>2
  <2>5. /\ window' \in [Names -> Ids \cup {None}]
        /\ oldCallbacks' \in Seq(Ids)
        /\ Held(reqs', window', nonce)
        /\ Free(window', oldCallbacks', nonce)
    <3>1. GivesBack(reqs, reqs', r, window, oldCallbacks, window',
                    oldCallbacks')
      BY <1>2, <2>2, <2>3, <2>4 DEF GivesBack
    <3> QED
      BY <1>1, <3>1, NameFreed
  <2>6. reqs[r].s.jsonp = "generated" =>
          reqs[r].name # None /\ window[reqs[r].name] = r
    <3>1. reqs[r].s.jsonp = "generated" =>
            reqs[r].name \in 1 .. nonce - 1 /\ window[reqs[r].name] = r
      BY <1>1, <2>2 DEF Held
    <3> QED
      BY <1>1, <3>1 DEF None
  <2>7. Own(reqs')
    <3>1. reqs'[r].outcome = "success" => ~reqs'[r].coming
      BY <1>1, <2>3
    <3>2. reqs'[r].outcome # "success" => reqs'[r].data = None
      BY <2>3
    <3>3. reqs'[r].s.jsonp # "named" /\ ~reqs'[r].silent =>
            reqs'[r].data \in {r, None}
      <4>1. rs[r].outcome = "pending"
        BY <1>4
      <4>2. rs[r].s.jsonp = "generated" /\ ~rs[r].silent =>
              \/ answer.responses
              \/ answer.status = "error"
              \/ rs[r].container = r
        BY <1>1, <4>1
      <4> QED
        BY <2>1, <2>2, <2>3, <2>6, <4>2
    <3> QED
      BY <1>3, <3>1, <3>2, <3>3
  <2> QED
    BY <2>1, <2>5, <2>7
<1>5. CASE ~(rs[r].state # 2 /\ rs[r].outcome = "pending")
  <2>1. /\ UNCHANGED jsonpVars
        /\ reqs'[r] = rs[r] \/ Later(reqs'[r], rs[r])
    BY <1>1, <1>5 DEF Ends
  <2>2. /\ reqs'[r].s = reqs[r].s /\ reqs'[r].name = reqs[r].name
        /\ reqs'[r].overwritten = reqs[r].overwritten
        /\ reqs'[r].outcome = reqs[r].outcome
        /\ reqs'[r].data = reqs[r].data
        /\ reqs'[r].coming => reqs[r].coming
        /\ reqs'[r].silent = reqs[r].silent \/ reqs[r].outcome # "success"
    BY <1>1, <2>1 DEF Prepared, Later
  <2>3. Held(reqs', window, nonce)
    BY <1>1, <1>2, <2>2, HeldKept, SMTT(30)
  <2>4. /\ reqs[r].outcome = "success" => ~reqs[r].coming
        /\ reqs[r].outcome # "success" => reqs[r].data = None
        /\ reqs[r].s.jsonp # "named" /\ ~reqs[r].silent =>
             reqs[r].data \in {r, None}
    BY <1>1 DEF Own
  <2>5. Own(reqs')
    BY <1>3, <2>2, <2>4
  <2> QED
    BY <1>1, <2>1, <2>3, <2>5 DEF jsonpVars
<1> QED
  BY <1>4, <1>5

(* A step that calls done() keeps the invariant.                           *)
LEMMA AnswerKeeps ==
  ASSUME IInv, UNCHANGED <<page, active, shown>>,
         NEW r \in 1 .. Len(reqs), NEW rs, NEW answer,
         NEW d \in 0 .. 1, Answering(rs, r, answer, d, spoilt'),
         Done(rs, r, answer, Rest(frames, d))
  PROVE  IInv'
<1> DEFINE S == page.settings
           fs == Rest(frames, d)
<1>1. /\ reqs \in Seq(Request(S)) /\ reqs' \in Seq(Request(S))
      /\ Len(reqs') = Len(reqs) /\ Len(reqs) \in Nat
      /\ frames \in Seq(Activation(Len(reqs)))
      /\ frames' \in Seq(Activation(Len(reqs'))) /\ etag' \in BOOLEAN
      /\ \A q \in 1 .. Len(reqs) : q # r => Alike(reqs'[q], reqs[q])
      /\ Ends(rs, r, answer, fs)
  BY Answered DEF IInv, Typed
<1>2. /\ Kept(reqs', frames', spoilt')
      /\ \A q \in 1 .. Len(reqs) : q # r =>
           (Running(reqs', frames', q) <=> Running(reqs, frames, q))
  BY AnsweredKept
<1>3. /\ window' \in [Names -> Ids \cup {None}] /\ oldCallbacks' \in Seq(Ids)
      /\ nonce' = nonce
      /\ Held(reqs', window', nonce') /\ Free(window', oldCallbacks', nonce')
      /\ Own(reqs')
  BY AnsweredNames
<1>4. /\ d = 1 => \A k \in DOMAIN frames :
           k > d /\ frames[k].r = r => frames[k].at \notin Entering
      /\ r \notin spoilt' => r \notin spoilt
      /\ r \notin spoilt' /\ rs[r].state # 2 =>
           reqs[r].state # 2 /\ reqs[r].outcome = "pending"
      /\ rs[r].state = 2 => reqs[r].state = 2
  BY WhereAnswered
<1>5. /\ Prepared(rs[r], reqs[r]) /\ spoilt \subseteq spoilt'
      /\ spoilt' \subseteq spoilt \cup {r}
      /\ answer.status = "error" \/ (~rs[r].coming /\ (d = 1 \/ Idle))
      /\ d = 1 => /\ frames # << >> /\ frames[1].r = r
                  /\ frames[1].at \in {"beforeSend", "ajaxSend"}
  BY DEF Answering
<1>6. Shift(frames, fs, r, d, 0) /\ "outcome" \in Points
  <2>1. d = 1 => frames # << >> /\ frames[1].r = r
    BY <1>5
  <2>2. "outcome" \in Points
    BY DEF Points, InDone
  <2> QED
    BY <1>1, <2>1, <2>2, Shifts
<1>7. /\ \/ frames' = fs
         \/ frames' = <<Frame(r, "outcome")>> \o fs
         \/ frames' = <<Frame(r, "global")>> \o fs
      /\ fs \in Seq(Activation(Len(reqs)))
      /\ DOMAIN frames = 1 .. Len(frames)
  <2>1. /\ \/ frames' = fs
           \/ frames' = <<Frame(r, "outcome")>> \o fs
           \/ frames' = <<Frame(r, "global")>> \o fs
    BY <1>1 DEF Ends
  <2>2. fs \in Seq(Activation(Len(reqs)))
    BY <1>1, <1>5, <1>6, Shifts
  <2> QED
    BY <1>1, <2>1, <2>2
<1> HIDE DEF fs
<1>8. \A i \in DOMAIN frames' : frames'[i].at \in Entering =>
        \E k \in DOMAIN frames : k > d /\ frames[k] = frames'[i]
  <2>1. \A j \in DOMAIN fs : \E k \in DOMAIN frames :
          k > d /\ frames[k] = fs[j]
    <3>1. \A j \in DOMAIN fs :
            j - 0 + d \in DOMAIN frames /\ fs[j] = frames[j - 0 + d] /\ j > 0
      BY <1>6, <1>7 DEF Shift
    <3>2. \A j \in DOMAIN fs : j - 0 + d > d
      BY <1>7
    <3> QED
      BY <3>1, <3>2
  <2>2. ASSUME NEW at \in {"outcome", "global"},
               frames' = <<Frame(r, at)>> \o fs,
               NEW i \in DOMAIN frames', frames'[i].at \in Entering
        PROVE  \E k \in DOMAIN frames : k > d /\ frames[k] = frames'[i]
    <3>1. Frame(r, at) \in Activation(Len(reqs)) /\ Frame(r, at).at = at
      BY DEF Frame, Activation, Points, InDone
    <3>2. /\ Len(frames') = Len(fs) + 1 /\ frames'[1] = Frame(r, at)
          /\ \A j \in 2 .. Len(fs) + 1 : frames'[j] = fs[j - 1]
      BY <1>7, <2>2, <3>1, Pushed
    <3>3. i # 1
      BY <2>2, <3>1, <3>2 DEF Entering, InAjax
    <3>4. i - 1 \in DOMAIN fs /\ frames'[i] = fs[i - 1]
      BY <1>1, <1>7, <3>2, <3>3
    <3> QED
      BY <2>1, <3>4
  <2> QED
    BY <1>7, <2>1, <2>2
<1>9. Unsent(reqs', frames')
  <2> SUFFICES ASSUME NEW i \in DOMAIN frames', frames'[i].at \in Entering
               PROVE  /\ reqs'[frames'[i].r].outcome # "success"
                      /\ ~reqs'[frames'[i].r].coming
                      /\ ~reqs'[frames'[i].r].listening
    BY DEF Unsent
  <2>1. PICK k \in DOMAIN frames : k > d /\ frames[k] = frames'[i]
    BY <1>8
  <2>2. /\ reqs[frames[k].r].outcome # "success"
        /\ ~reqs[frames[k].r].coming /\ ~reqs[frames[k].r].listening
    BY <2>1 DEF IInv, Unsent
  <2>3. frames[k].r \in 1 .. Len(reqs)
    <3>1. frames[k] \in Activation(Len(reqs))
      BY <1>1
    <3> QED
      BY <3>1 DEF Activation
  <2>4. CASE frames[k].r # r
    BY <1>1, <2>1, <2>2, <2>3, <2>4 DEF Alike, Same
  <2>5. CASE frames[k].r = r
    <3>1. d = 0 /\ ~Idle
      BY <1>1, <1>4, <2>1, <2>5 DEF Idle
    <3>2. answer.status = "error"
      BY <1>5, <3>1
    <3>3. ~rs[r].coming /\ ~rs[r].listening /\ rs[r].outcome # "success"
      BY <1>5, <2>2, <2>5 DEF Prepared
    <3> QED
      BY <1>1, <2>1, <2>5, <3>2, <3>3 DEF Ends, First, Later
  <2> QED
    BY <2>4, <2>5
<1>10. Counts'
  <2>1. ASSUME spoilt' = {}
        PROVE  Running(reqs', frames', r) <=> Running(reqs, frames, r)
    <3>1. r \notin spoilt'
      BY <2>1
    <3>2. reqs'[r].globals = reqs[r].globals /\ reqs'[r].state = 2
      BY <1>1, <1>5 DEF Ends, First, Later, Prepared
    <3>3. CASE rs[r].state = 2
      <4>1. reqs[r].state = 2 /\ frames' = fs
        BY <1>1, <1>4, <3>3 DEF Ends
      <4>2. ASSUME IsIn(frames', r, InDone)
            PROVE  IsIn(frames, r, InDone)
        <5>1. PICK j \in DOMAIN fs : fs[j].r = r /\ fs[j].at \in InDone
          BY <4>1, <4>2 DEF IsIn
        <5>2. j - 0 + d \in DOMAIN frames /\ fs[j] = frames[j - 0 + d]
          BY <1>6, <1>7 DEF Shift
        <5> QED
          BY <5>1, <5>2 DEF IsIn
      <4>3. ASSUME IsIn(frames, r, InDone)
            PROVE  IsIn(frames', r, InDone)
        <5>1. PICK k \in DOMAIN frames :
                frames[k].r = r /\ frames[k].at \in InDone
          BY <4>3 DEF IsIn
        <5>2. k > d
          BY <1>5, <1>7, <5>1 DEF InDone
        <5>3. k - d + 0 \in DOMAIN fs /\ frames[k] = fs[k - d + 0]
          BY <1>6, <5>2 DEF Shift
        <5> QED
          BY <4>1, <5>1, <5>3 DEF IsIn
      <4> QED
        BY <3>2, <4>1, <4>2, <4>3 DEF Running
    <3>4. CASE rs[r].state # 2
      <4>1. reqs[r].state # 2 /\ rs[r].outcome = "pending"
        BY <1>4, <1>5, <3>1, <3>4 DEF Prepared
      <4>2. frames' = <<Frame(r, "outcome")>> \o fs
        BY <1>1, <3>4, <4>1 DEF Ends
      <4>3. Frame(r, "outcome") \in Activation(Len(reqs))
        BY <1>6 DEF Frame, Activation
      <4>4. frames'[1] = Frame(r, "outcome") /\ Len(frames') = Len(fs) + 1
        BY <1>7, <4>2, <4>3, Pushed
      <4>5. 1 \in DOMAIN frames'
        BY <1>1, <1>7, <4>4
      <4>6. IsIn(frames', r, InDone)
        BY <4>4, <4>5 DEF IsIn, Frame, InDone
      <4> QED
        BY <3>2, <4>1, <4>6 DEF Running
    <3> QED
      BY <3>3, <3>4
  <2> QED
    BY <1>1, <1>2, <1>5, <2>1, CountsKept DEF IInv
<1>11. Typed'
  <2>1. spoilt' \subseteq 1 .. Len(reqs)
    BY <1>5 DEF IInv, Typed
  <2> QED
    BY <1>1, <1>3, <2>1 DEF IInv, Typed
<1> QED
  BY <1>2, <1>3, <1>9, <1>10, <1>11 DEF IInv

-----------------------------------------------------------------------------
(* The steps that end a request.                                           *)
LEMMA Changed ==
  ASSUME NEW S, NEW R \in Seq(Request(S)), NEW r \in 1 .. Len(R),
         NEW v \in Request(S), NEW Q, Q = [R EXCEPT ![r] = v]
  PROVE  /\ Q \in Seq(Request(S)) /\ Len(Q) = Len(R) /\ Q[r] = v
         /\ \A q \in 1 .. Len(R) : q # r => Alike(Q[q], R[q])
<1>1. /\ Q \in Seq(Request(S)) /\ Len(Q) = Len(R) /\ Q[r] = v
      /\ \A q \in 1 .. Len(R) : q # r => Q[q] = R[q]
  BY Updated
<1> QED
  BY <1>1 DEF Alike, Same

(* What the invariant says of the types.                                   *)
LEMMA Typing ==
  ASSUME IInv
  PROVE  /\ reqs \in Seq(Request(page.settings))
         /\ \A r \in 1 .. Len(reqs) :
              reqs[r] \in Request(page.settings) /\ Alike(reqs[r], reqs[r])
         /\ DOMAIN reqs = 1 .. Len(reqs) /\ Len(reqs) \in Nat
         /\ frames \in Seq(Activation(Len(reqs)))
         /\ DOMAIN frames = 1 .. Len(frames) /\ Len(frames) \in Nat
         /\ \A k \in DOMAIN frames :
              /\ frames[k].r \in 1 .. Len(reqs) /\ frames[k].at \in Points
              /\ frames[k] = Frame(frames[k].r, frames[k].at)
         /\ page.settings \in SUBSET Settings
         /\ page.requests \in 0 .. MaxRequests /\ MaxRequests \in Nat
         /\ Len(reqs) <= MaxRequests /\ 1 .. Len(reqs) \subseteq Ids
         /\ window \in [Names -> Ids \cup {None}]
<1>1. /\ reqs \in Seq(Request(page.settings)) /\ page \in Pages
      /\ Len(reqs) <= page.requests
      /\ frames \in Seq(Activation(Len(reqs)))
      /\ window \in [Names -> Ids \cup {None}]
  BY DEF IInv, Typed
<1>2. \A k \in DOMAIN frames : frames[k] \in Activation(Len(reqs))
  BY <1>1
<1>3. \A k \in DOMAIN frames :
        /\ frames[k].r \in 1 .. Len(reqs) /\ frames[k].at \in Points
        /\ frames[k] = Frame(frames[k].r, frames[k].at)
  BY <1>2 DEF Activation, Frame
<1>4. /\ page.settings \in SUBSET Settings
      /\ page.requests \in 0 .. MaxRequests /\ MaxRequests \in Nat
  BY <1>1, AjaxAssumption
<1>5. Len(reqs) \in Nat /\ DOMAIN reqs = 1 .. Len(reqs)
  BY <1>1
<1>6. Len(reqs) <= MaxRequests /\ 1 .. Len(reqs) \subseteq Ids
  BY <1>1, <1>4, <1>5 DEF Ids
<1>7. \A r \in 1 .. Len(reqs) :
        reqs[r] \in Request(page.settings) /\ Alike(reqs[r], reqs[r])
  BY <1>1 DEF Alike, Same
<1> QED
  BY <1>1, <1>3, <1>4, <1>5, <1>6, <1>7

(* The running activation.                                                 *)
LEMMA TopIs ==
  ASSUME IInv, frames # << >>
  PROVE  /\ Top = frames[1] /\ 1 \in DOMAIN frames
         /\ Top.r \in 1 .. Len(reqs) /\ Top.at \in Points
         /\ Below = Rest(frames, 1)
<1>1. /\ frames \in Seq(Activation(Len(reqs)))
      /\ \A k \in DOMAIN frames :
           frames[k].r \in 1 .. Len(reqs) /\ frames[k].at \in Points
  BY Typing
<1>2. Head(frames) = frames[1] /\ 1 \in DOMAIN frames
  BY <1>1
<1> QED
  BY <1>1, <1>2 DEF Top, Idle, Below, Rest

(* beforeSend cancels the request.                                         *)
LEMMA CancelKeeps ==
  ASSUME IInv, Cancel
  PROVE  IInv'
<1> DEFINE r == Top.r
<1>1. /\ frames # << >> /\ Top.at = "beforeSend" /\ reqs[r].s.beforeSend
      /\ Done(reqs, r, Aborted, Below)
      /\ UNCHANGED <<page, active, shown>> /\ spoilt' = spoilt
  BY DEF Cancel, At, Idle
<1>2. /\ Top = frames[1] /\ r \in 1 .. Len(reqs) /\ Below = Rest(frames, 1)
  BY <1>1, TopIs
<1>3. Answering(reqs, r, Aborted, 1, spoilt')
  BY <1>1, <1>2, Typing DEF Answering, Prepared, Aborted
<1> QED
  BY <1>1, <1>2, <1>3, AnswerKeeps

(* transport.send() throws.                                                *)
LEMMA SendThrowsKeeps ==
  ASSUME IInv, SendThrows
  PROVE  IInv'
<1> DEFINE r == Top.r
           rs == WithTimer(reqs, r)
           v == [reqs[r] EXCEPT !.state = 1,
                   !.timer = reqs[r].s.async /\ reqs[r].s.timeout]
<1>1. /\ frames # << >> /\ Top.at = "ajaxSend"
      /\ Done(rs, r, Aborted, Below)
      /\ UNCHANGED <<page, active, shown>> /\ spoilt' = spoilt
  BY DEF SendThrows, At, Idle
<1>2. /\ Top = frames[1] /\ r \in 1 .. Len(reqs) /\ Below = Rest(frames, 1)
  BY <1>1, TopIs
<1>3. /\ reqs \in Seq(Request(page.settings))
      /\ reqs[r] \in Request(page.settings)
  BY <1>2, Typing
<1>4. v \in Request(page.settings) /\ Prepared(v, reqs[r]) /\ v.state = 1
  BY <1>3, ZenonT(60) DEF Request, Prepared
<1>5. rs = [reqs EXCEPT ![r] = v]
  BY DEF WithTimer
<1> HIDE DEF v, rs
<1>6. /\ rs \in Seq(Request(page.settings)) /\ Len(rs) = Len(reqs)
      /\ rs[r] = v
      /\ \A q \in 1 .. Len(reqs) : q # r => Alike(rs[q], reqs[q])
  BY <1>2, <1>3, <1>4, <1>5, Changed
<1>7. Answering(rs, r, Aborted, 1, spoilt')
  BY <1>1, <1>2, <1>4, <1>6 DEF Answering, Aborted
<1> QED
  BY <1>1, <1>2, <1>7, AnswerKeeps

(* The answer is there when send() returns.                                *)
LEMMA SendSyncKeeps ==
  ASSUME IInv, NEW answer \in Answers, SendSync(answer)
  PROVE  IInv'
<1> DEFINE r == Top.r
           rs == WithTimer(reqs, r)
           v == [reqs[r] EXCEPT !.state = 1,
                   !.timer = reqs[r].s.async /\ reqs[r].s.timeout]
<1>1. /\ frames # << >> /\ Top.at = "ajaxSend"
      /\ Done(rs, r, answer, Below)
      /\ UNCHANGED <<page, active, shown>> /\ spoilt' = spoilt
  BY DEF SendSync, At, Idle
<1>2. /\ Top = frames[1] /\ r \in 1 .. Len(reqs) /\ Below = Rest(frames, 1)
      /\ 1 \in DOMAIN frames
  BY <1>1, TopIs
<1>3. /\ reqs \in Seq(Request(page.settings))
      /\ reqs[r] \in Request(page.settings)
  BY <1>2, Typing
<1>4. /\ v \in Request(page.settings) /\ Prepared(v, reqs[r]) /\ v.state = 1
      /\ v.coming = reqs[r].coming
  BY <1>3, ZenonT(60) DEF Request, Prepared
<1>5. rs = [reqs EXCEPT ![r] = v]
  BY DEF WithTimer
<1> HIDE DEF v, rs
<1>6. /\ rs \in Seq(Request(page.settings)) /\ Len(rs) = Len(reqs)
      /\ rs[r] = v
      /\ \A q \in 1 .. Len(reqs) : q # r => Alike(rs[q], reqs[q])
  BY <1>2, <1>3, <1>4, <1>5, Changed
<1>7. ~reqs[r].coming /\ answer.responses
  BY <1>1, <1>2, AjaxAssumption DEF IInv, Unsent, Entering, InAjax
<1>8. Answering(rs, r, answer, 1, spoilt')
  BY <1>1, <1>2, <1>4, <1>6, <1>7 DEF Answering
<1> QED
  BY <1>1, <1>2, <1>8, AnswerKeeps

(* The listener of an xhr.                                                 *)
LEMMA AnswerArrives ==
  ASSUME IInv, NEW r \in 1 .. Len(reqs), NEW answer \in Answers,
         Answer(r, answer)
  PROVE  IInv'
<1> DEFINE v == [reqs[r] EXCEPT !.listening = FALSE, !.coming = FALSE]
           rs == [reqs EXCEPT ![r].listening = FALSE, ![r].coming = FALSE]
<1>1. /\ frames = << >> /\ Done(rs, r, answer, << >>)
      /\ UNCHANGED <<page, active, shown>> /\ spoilt' = spoilt
  BY DEF Answer, Idle
<1>2. /\ reqs \in Seq(Request(page.settings))
      /\ reqs[r] \in Request(page.settings)
  BY Typing
<1>3. /\ v \in Request(page.settings) /\ Prepared(v, reqs[r])
      /\ v.state = reqs[r].state /\ ~v.coming
  BY <1>2, ZenonT(60) DEF Request, Prepared
<1>4. rs = [reqs EXCEPT ![r] = v]
  OBVIOUS
<1> HIDE DEF v, rs
<1>5. /\ rs \in Seq(Request(page.settings)) /\ Len(rs) = Len(reqs)
      /\ rs[r] = v
      /\ \A q \in 1 .. Len(reqs) : q # r => Alike(rs[q], reqs[q])
  BY <1>2, <1>3, <1>4, Changed
<1>6. Rest(frames, 0) = << >> /\ answer.responses
  BY <1>1, AjaxAssumption DEF Rest
<1>7. Answering(rs, r, answer, 0, spoilt')
  BY <1>1, <1>3, <1>5, <1>6 DEF Answering, Idle
<1> QED
  BY <1>1, <1>6, <1>7, AnswerKeeps

(* abort(), by the page or by the timer.                                   *)
LEMMA StoppedIs ==
  ASSUME IInv, NEW r \in 1 .. Len(reqs)
  PROVE  /\ Stopped(r) \in Seq(Request(page.settings))
         /\ Len(Stopped(r)) = Len(reqs)
         /\ \A q \in 1 .. Len(reqs) : q # r => Alike(Stopped(r)[q], reqs[q])
         /\ Prepared(Stopped(r)[r], reqs[r])
         /\ Stopped(r)[r].state = reqs[r].state
<1> DEFINE comes == reqs[r].coming /\ TransportOf(reqs[r].s) = "script"
           v == [reqs[r] EXCEPT !.listening = FALSE, !.coming = comes]
<1>1. /\ reqs \in Seq(Request(page.settings))
      /\ reqs[r] \in Request(page.settings)
  BY Typing
<1>2. comes \in BOOLEAN /\ (comes => reqs[r].coming)
  OBVIOUS
<1>3. Stopped(r) = [reqs EXCEPT ![r] = v]
  BY DEF Stopped
<1> HIDE DEF comes
<1>4. /\ v \in Request(page.settings) /\ Prepared(v, reqs[r])
      /\ v.state = reqs[r].state
  BY <1>1, <1>2, ZenonT(60) DEF Request, Prepared
<1> HIDE DEF v
<1> QED
  BY <1>1, <1>3, <1>4, Changed

(* The timeout aborts.                                                     *)
LEMMA TimerKeeps ==
  ASSUME IInv, NEW r \in 1 .. Len(reqs), TimerFires(r)
  PROVE  IInv'
<1>1. /\ frames = << >> /\ Done(Stopped(r), r, Aborted, << >>)
      /\ UNCHANGED <<page, active, shown>> /\ spoilt' = spoilt
  BY DEF TimerFires, Idle
<1>2. Rest(frames, 0) = << >>
  BY <1>1 DEF Rest
<1>3. Answering(Stopped(r), r, Aborted, 0, spoilt')
  BY <1>1, StoppedIs DEF Answering, Aborted
<1> QED
  BY <1>1, <1>2, <1>3, AnswerKeeps

(* The page aborts, at any point it is called from.                        *)
LEMMA AbortKeeps ==
  ASSUME IInv, NEW r \in 1 .. Len(reqs), Abort(r)
  PROVE  IInv'
<1>1. /\ InPage /\ Done(Stopped(r), r, Aborted, frames)
      /\ UNCHANGED <<page, active, shown>>
      /\ spoilt' = IF \/ Frame(r, "ajaxSend") \in Range(frames)
                      \/ /\ Frame(r, "ajaxStart") \in Range(frames)
                         /\ ~reqs[r].s.beforeSend
                   THEN spoilt \cup {r} ELSE spoilt
  BY DEF Abort
<1>2. Rest(frames, 0) = frames
  BY DEF Rest
<1>3. frames # << >> /\ frames[1].at = "beforeSend" =>
        reqs[frames[1].r].s.beforeSend
  <2>1. frames # << >> => Top = frames[1]
    BY TopIs
  <2> QED
    BY <1>1, <2>1 DEF InPage, Idle
<1>4. ASSUME r \notin spoilt', NEW k \in DOMAIN frames, frames[k].r = r
      PROVE  /\ frames[k].at # "ajaxSend"
             /\ frames[k].at \in {"ajaxStart", "beforeSend"} =>
                  reqs[r].s.beforeSend
  <2>1. frames[k] = Frame(r, frames[k].at) /\ frames[k] \in Range(frames)
    BY <1>4, Typing DEF Range
  <2>2. /\ Frame(r, "ajaxSend") \notin Range(frames)
        /\ Frame(r, "ajaxStart") \in Range(frames) => reqs[r].s.beforeSend
    BY <1>1, <1>4
  <2>3. frames[k].at = "beforeSend" => reqs[r].s.beforeSend
    <3>1. CASE k = 1
      <4>1. frames # << >>
        BY <3>1
      <4> QED
        BY <1>3, <1>4, <3>1, <4>1
    <3>2. CASE k # 1
      <4>1. k > 1
        BY <3>2, Typing
      <4> QED
        BY <1>4, <4>1 DEF IInv, Kept, Covered
    <3> QED
      BY <3>1, <3>2
  <2> QED
    BY <2>1, <2>2, <2>3
<1>5. spoilt \subseteq spoilt' /\ spoilt' \subseteq spoilt \cup {r}
  BY <1>1
<1>6. Answering(Stopped(r), r, Aborted, 0, spoilt')
  BY <1>3, <1>4, <1>5, StoppedIs DEF Answering, Aborted
<1>7. /\ Done(Stopped(r), r, Aborted, Rest(frames, 0))
      /\ UNCHANGED <<page, active, shown>>
  BY <1>1, <1>2
<1> QED
  BY <1>6, <1>7, AnswerKeeps

-----------------------------------------------------------------------------
(* The other steps about a request r: d of its activations leave the top,  *)
(* and e are put there, at the point "at".                                 *)
Continued(p, q) ==
  /\ p.s = q.s /\ p.outcome = q.outcome
  /\ p.name = q.name /\ p.overwritten = q.overwritten /\ p.data = q.data
  /\ p.outcome = "success" => ~p.coming
  /\ p.silent = q.silent \/ q.outcome # "success"

Advancing(r, d, e, at) ==
  /\ reqs' \in Seq(Request(page.settings)) /\ Len(reqs') = Len(reqs)
  /\ \A q \in 1 .. Len(reqs) : q # r => Alike(reqs'[q], reqs[q])
  /\ Continued(reqs'[r], reqs[r])
  /\ d = 1 => frames # << >> /\ frames[1].r = r
  /\ at \in Points
  /\ frames' = IF e = 1 THEN <<Frame(r, at)>> \o Rest(frames, d)
               ELSE Rest(frames, d)
  /\ Consistent(reqs', frames, frames', spoilt, r, d, e)
  /\ \A j \in DOMAIN frames' :
       frames'[j].r = r /\ frames'[j].at \in Entering =>
         /\ reqs'[r].outcome # "success"
         /\ ~reqs'[r].coming /\ ~reqs'[r].listening

(* A step of this kind keeps all of the invariant but the count.           *)
LEMMA Advanced ==
  ASSUME IInv, UNCHANGED <<page, jsonpVars, etag, spoilt>>,
         active' \in Int, shown' \in BOOLEAN,
         NEW r \in 1 .. Len(reqs), NEW d \in 0 .. 1, NEW e \in 0 .. 1, NEW at,
         Advancing(r, d, e, at)
  PROVE  /\ Counts' => IInv'
         /\ \A q \in 1 .. Len(reqs) : q # r =>
              (Running(reqs', frames', q) <=> Running(reqs, frames, q))
<1> DEFINE S == page.settings
<1>1. /\ reqs \in Seq(Request(S)) /\ reqs' \in Seq(Request(S))
      /\ Len(reqs') = Len(reqs) /\ Len(reqs) \in Nat
      /\ frames \in Seq(Activation(Len(reqs)))
      /\ \A q \in 1 .. Len(reqs) : q # r => Alike(reqs'[q], reqs[q])
      /\ Continued(reqs'[r], reqs[r])
      /\ Consistent(reqs', frames, frames', spoilt, r, d, e)
  BY Typing DEF Advancing
<1>2. /\ frames' \in Seq(Activation(Len(reqs')))
      /\ Shift(frames, frames', r, d, e)
  <2>1. /\ d = 1 => frames # << >> /\ frames[1].r = r
        /\ at \in Points
        /\ frames' = IF e = 1 THEN <<Frame(r, at)>> \o Rest(frames, d)
                     ELSE Rest(frames, d)
    BY DEF Advancing
  <2>2. CASE e = 0
    <3>1. frames' = Rest(frames, d)
      BY <2>1, <2>2
    <3> QED
      BY <1>1, <2>1, <2>2, <3>1, Shifts, ZenonT(60)
  <2>3. CASE e = 1
    <3>1. frames' = <<Frame(r, at)>> \o Rest(frames, d)
      BY <2>1, <2>3
    <3> QED
      BY <1>1, <2>1, <2>3, <3>1, Shifts
  <2> QED
    BY <2>2, <2>3
<1>3. /\ Kept(reqs', frames', spoilt)
      /\ \A q \in 1 .. Len(reqs) : q # r =>
           (Running(reqs', frames', q) <=> Running(reqs, frames, q))
  <2>1. /\ \A q \in 1 .. Len(reqs) : q # r => Same(reqs'[q], reqs[q])
        /\ reqs'[r].s = reqs[r].s /\ Kept(reqs, frames, spoilt)
    BY <1>1 DEF Alike, Continued, IInv
  <2>2. spoilt \subseteq spoilt /\ r \in 1 .. Len(reqs')
    BY <1>1
  <2>3. r \in 1 .. Len(reqs) => reqs'[r].s = reqs[r].s
    BY <2>1
  <2> HIDE DEF S
  <2>4. \/ Len(reqs') = Len(reqs)
        \/ Len(reqs') = Len(reqs) + 1 /\ r = Len(reqs')
    BY <1>1
  <2>5. /\ reqs \in Seq(Request(S)) /\ reqs' \in Seq(Request(S))
        /\ frames \in Seq(Activation(Len(reqs)))
        /\ frames' \in Seq(Activation(Len(reqs')))
        /\ Consistent(reqs', frames, frames', spoilt, r, d, e)
        /\ Shift(frames, frames', r, d, e)
    BY <1>1, <1>2
  <2> QED
    BY <2>1, <2>2, <2>3, <2>4, <2>5, Moves
<1>4. Held(reqs', window, nonce) /\ Own(reqs')
  <2>1. \A q \in 1 .. Len(reqs) :
          /\ reqs'[q].s = reqs[q].s /\ reqs'[q].name = reqs[q].name
          /\ reqs'[q].overwritten = reqs[q].overwritten
          /\ reqs'[q].outcome = reqs[q].outcome
          /\ reqs'[q].data = reqs[q].data
    BY <1>1 DEF Alike, Same, Continued
  <2>2. Held(reqs', window, nonce)
    BY <1>1, <2>1, HeldKept DEF IInv
  <2>3. ASSUME NEW q \in 1 .. Len(reqs')
        PROVE  /\ reqs'[q].outcome = "success" => ~reqs'[q].coming
               /\ reqs'[q].outcome # "success" => reqs'[q].data = None
               /\ reqs'[q].s.jsonp # "named" /\ ~reqs'[q].silent =>
                    reqs'[q].data \in {q, None}
    <3>1. /\ reqs[q].outcome = "success" => ~reqs[q].coming
          /\ reqs[q].outcome # "success" => reqs[q].data = None
          /\ reqs[q].s.jsonp # "named" /\ ~reqs[q].silent =>
               reqs[q].data \in {q, None}
      BY <1>1 DEF IInv, Own
    <3>2. CASE q # r
      BY <1>1, <3>1, <3>2 DEF Alike, Same
    <3>3. CASE q = r
      BY <1>1, <3>1, <3>3 DEF Continued
    <3> QED
      BY <3>2, <3>3
  <2> QED
    BY <2>2, <2>3 DEF Own
<1>5. Unsent(reqs', frames')
  <2> SUFFICES ASSUME NEW j \in DOMAIN frames', frames'[j].at \in Entering
               PROVE  /\ reqs'[frames'[j].r].outcome # "success"
                      /\ ~reqs'[frames'[j].r].coming
                      /\ ~reqs'[frames'[j].r].listening
    BY DEF Unsent
  <2>0. DOMAIN frames' = 1 .. Len(frames') /\ Len(frames') \in Nat
    BY <1>2
  <2>1. CASE j > e
    <3>1. j - e + d \in DOMAIN frames /\ frames'[j] = frames[j - e + d]
      BY <1>2, <2>1 DEF Shift
    <3>2. /\ reqs[frames'[j].r].outcome # "success"
          /\ ~reqs[frames'[j].r].coming /\ ~reqs[frames'[j].r].listening
          /\ frames'[j].r \in 1 .. Len(reqs)
      BY <3>1, Typing DEF IInv, Unsent
    <3>3. CASE frames'[j].r # r
      BY <1>1, <3>2, <3>3 DEF Alike, Same
    <3>4. CASE frames'[j].r = r
      BY <1>1, <3>2, <3>4 DEF Advancing, Continued
    <3> QED
      BY <3>3, <3>4
  <2>2. CASE ~(j > e)
    <3>1. e = 1 /\ j = 1
      BY <2>0, <2>2
    <3>2. frames'[1].r = r
      BY <1>2, <3>1 DEF Shift
    <3>3. /\ reqs'[r].outcome # "success"
          /\ ~reqs'[r].coming /\ ~reqs'[r].listening
      BY <3>1, <3>2 DEF Advancing
    <3> QED
      BY <3>1, <3>2, <3>3
  <2> QED
    BY <2>1, <2>2
<1>6. /\ Typed' /\ UNCHANGED jsonpVars
      /\ Held(reqs', window', nonce') /\ Free(window', oldCallbacks', nonce')
  BY <1>1, <1>2, <1>4 DEF IInv, Typed, jsonpVars
<1>7. Counts' => IInv'
  BY <1>3, <1>4, <1>5, <1>6 DEF IInv
<1> QED
  BY <1>3, <1>7

(* The top activation leaves, or is replaced.                              *)
Replaced(r, e, at) == IF e = 1 THEN <<Frame(r, at)>> \o Rest(frames, 1)
                      ELSE Rest(frames, 1)

(* Where r is, but for the top.                                            *)
Stays(F, G, r, e, at) ==
  \A points :
    /\ IsIn(F, r, points) /\ F[1].at \notin points => IsIn(G, r, points)
    /\ IsIn(G, r, points) /\ (e = 1 => at \notin points) =>
         \E k \in DOMAIN F : k > 1 /\ F[k].r = r /\ F[k].at \in points

(* What is known of the activations then.                                  *)
LEMMA ReplacedIs ==
  ASSUME IInv, frames # << >>, NEW r, r = frames[1].r, NEW e \in 0 .. 1,
         NEW at \in Points, frames' = Replaced(r, e, at)
  PROVE  /\ r \in 1 .. Len(reqs) /\ 1 \in DOMAIN frames
         /\ frames' = IF e = 1 THEN <<Frame(r, at)>> \o Rest(frames, 1)
                      ELSE Rest(frames, 1)
         /\ Shift(frames, frames', r, 1, e)
         /\ e = 1 => frames'[1] = Frame(r, at) /\ 1 \in DOMAIN frames'
         /\ Stays(frames, frames', r, e, at)
<1>1. /\ r \in 1 .. Len(reqs) /\ 1 \in DOMAIN frames
      /\ frames \in Seq(Activation(Len(reqs))) /\ Len(reqs) \in Nat
      /\ DOMAIN frames = 1 .. Len(frames) /\ Len(frames) \in Nat
  BY TopIs, Typing
<1>2. /\ frames' = IF e = 1 THEN <<Frame(r, at)>> \o Rest(frames, 1)
                   ELSE Rest(frames, 1)
      /\ Shift(frames, frames', r, 1, e)
      /\ e = 1 => frames'[1] = Frame(r, at)
      /\ frames' \in Seq(Activation(Len(reqs)))
  <2> DEFINE one == 1
  <2>1. one \in 0 .. 1 /\ (one = 1 => frames # << >> /\ frames[1].r = r)
    OBVIOUS
  <2> HIDE DEF one
  <2>2. /\ Rest(frames, one) \in Seq(Activation(Len(reqs)))
        /\ Shift(frames, Rest(frames, one), r, one, 0)
        /\ <<Frame(r, at)>> \o Rest(frames, one) \in Seq(Activation(Len(reqs)))
        /\ Shift(frames, <<Frame(r, at)>> \o Rest(frames, one), r, one, 1)
        /\ (<<Frame(r, at)>> \o Rest(frames, one))[1] = Frame(r, at)
    BY <1>1, <2>1, Shifts
  <2>3. /\ Rest(frames, 1) \in Seq(Activation(Len(reqs)))
        /\ Shift(frames, Rest(frames, 1), r, 1, 0)
        /\ <<Frame(r, at)>> \o Rest(frames, 1) \in Seq(Activation(Len(reqs)))
        /\ Shift(frames, <<Frame(r, at)>> \o Rest(frames, 1), r, 1, 1)
        /\ (<<Frame(r, at)>> \o Rest(frames, 1))[1] = Frame(r, at)
    BY <2>2 DEF one
  <2>4. CASE e = 0
    BY <2>3, <2>4 DEF Replaced
  <2>5. CASE e = 1
    BY <2>3, <2>5 DEF Replaced
  <2> QED
    BY <2>4, <2>5
<1>3. DOMAIN frames' = 1 .. Len(frames') /\ Len(frames') \in Nat
  BY <1>2
<1>4. ASSUME NEW points, IsIn(frames, r, points), frames[1].at \notin points
      PROVE  IsIn(frames', r, points)
  <2>1. PICK k \in DOMAIN frames :
          frames[k].r = r /\ frames[k].at \in points
    BY <1>4 DEF IsIn
  <2>2. k > 1
    BY <1>1, <1>4, <2>1
  <2> QED
    BY <1>2, <2>1, <2>2 DEF Shift, IsIn
<1>5. ASSUME NEW points, IsIn(frames', r, points), e = 1 => at \notin points
      PROVE  \E k \in DOMAIN frames :
               k > 1 /\ frames[k].r = r /\ frames[k].at \in points
  <2>1. PICK j \in DOMAIN frames' :
          frames'[j].r = r /\ frames'[j].at \in points
    BY <1>5 DEF IsIn
  <2>2. j > e
    <3>1. CASE e = 1
      <4>1. frames'[1].at = at
        BY <1>2, <3>1 DEF Frame
      <4> QED
        BY <1>3, <1>5, <2>1, <3>1, <4>1
    <3>2. CASE e = 0
      BY <1>3, <3>2
    <3> QED
      BY <3>1, <3>2
  <2>3. j - e + 1 \in DOMAIN frames /\ frames'[j] = frames[j - e + 1]
    BY <1>2, <2>2 DEF Shift
  <2>4. j - e + 1 > 1
    BY <1>3, <2>2
  <2> QED
    BY <2>1, <2>3, <2>4
<1>6. e = 1 => 1 \in DOMAIN frames'
  BY <1>2 DEF Shift
<1>7. Stays(frames, frames', r, e, at)
  BY <1>4, <1>5 DEF Stays
<1> QED
  BY <1>1, <1>2, <1>6, <1>7

(* The same, of the top that is replaced.                                  *)
LEMMA TopReplaced ==
  ASSUME IInv, frames # << >>, NEW r, r = frames[1].r, NEW at \in Points,
         NEW e \in 0 .. 1, e = 1, frames' = Replaced(r, e, at)
  PROVE  /\ r \in 1 .. Len(reqs) /\ 1 \in DOMAIN frames
         /\ frames' = <<Frame(r, at)>> \o Rest(frames, 1)
         /\ frames'[1] = Frame(r, at) /\ 1 \in DOMAIN frames'
         /\ \A points : IsIn(frames', r, points) /\ at \notin points =>
              \E k \in DOMAIN frames :
                k > 1 /\ frames[k].r = r /\ frames[k].at \in points
<1>1. /\ r \in 1 .. Len(reqs) /\ 1 \in DOMAIN frames
      /\ frames' = IF e = 1 THEN <<Frame(r, at)>> \o Rest(frames, 1)
                   ELSE Rest(frames, 1)
      /\ Stays(frames, frames', r, e, at)
  BY ReplacedIs
<1>2. frames' = <<Frame(r, at)>> \o Rest(frames, 1)
  BY <1>1
<1>3. frames'[1] = Frame(r, at) /\ 1 \in DOMAIN frames'
  <2> DEFINE one == 1
  <2>1. /\ one \in 0 .. 1 /\ frames \in Seq(Activation(Len(reqs)))
        /\ one = 1 => frames # << >> /\ frames[1].r = r
        /\ Len(reqs) \in Nat /\ one = 1
    BY Typing
  <2> HIDE DEF one
  <2>2. /\ <<Frame(r, at)>> \o Rest(frames, one)
              \in Seq(Activation(Len(reqs)))
        /\ Shift(frames, <<Frame(r, at)>> \o Rest(frames, one), r, one, 1)
        /\ (<<Frame(r, at)>> \o Rest(frames, one))[1] = Frame(r, at)
    BY <1>1, <2>1, Shifts
  <2> QED
    BY <1>2, <2>1, <2>2 DEF Shift
<1>4. \A points : IsIn(frames', r, points) /\ at \notin points =>
        \E k \in DOMAIN frames :
          k > 1 /\ frames[k].r = r /\ frames[k].at \in points
  BY <1>1 DEF Stays
<1> QED
  BY <1>1, <1>2, <1>3, <1>4

(* What is known of the request of the running activation.                 *)
LEMMA TopKnown ==
  ASSUME IInv, frames # << >>, NEW r, r = frames[1].r
  PROVE  /\ frames[1].at \in Entering =>
              /\ \A k \in DOMAIN frames : k > 1 /\ frames[k].r = r =>
                   frames[k].at \notin Entering
              /\ reqs[r].outcome # "success"
              /\ ~reqs[r].coming /\ ~reqs[r].listening
         /\ frames[1].at \in InDone /\ r \notin spoilt =>
              \A k \in DOMAIN frames : k > 1 /\ frames[k].r = r =>
                frames[k].at \notin InDone
         /\ r \notin spoilt =>
              /\ \A k \in DOMAIN frames : frames[k].r = r =>
                   /\ frames[k].at \in Entering =>
                        Enters(reqs[r], frames[k].at)
                   /\ frames[k].at \in InDone => Tells(reqs[r], frames[k].at)
              /\ reqs[r].state = 2 <=> reqs[r].outcome # "pending"
              /\ reqs[r].state = 0 => IsIn(frames, r, Entering)
              /\ reqs[r].state # 2 =>
                   reqs[r].told = << >> /\ ~IsIn(frames, r, InDone)
              /\ reqs[r].state = 2 =>
                   IsIn(frames, r, InDone) \/ reqs[r].told = All(reqs[r])
<1>1. /\ 1 \in DOMAIN frames /\ r \in 1 .. Len(reqs)
      /\ DOMAIN frames = 1 .. Len(frames) /\ Len(frames) \in Nat
  BY TopIs, Typing
<1>2. /\ Unsent(reqs, frames) /\ Single(frames, spoilt)
      /\ Where(reqs, frames, spoilt) /\ Known(reqs, frames, spoilt)
  BY DEF IInv, Kept
<1>3. frames[1].at \in Entering =>
        /\ \A k \in DOMAIN frames : k > 1 /\ frames[k].r = r =>
             frames[k].at \notin Entering
        /\ reqs[r].outcome # "success"
        /\ ~reqs[r].coming /\ ~reqs[r].listening
  <2>1. frames[1].at \in Entering =>
          \A k \in DOMAIN frames : k > 1 /\ frames[k].r = r =>
            frames[k].at \notin Entering
    BY <1>1, <1>2 DEF Single
  <2> QED
    BY <1>1, <1>2, <2>1 DEF Unsent
<1>4. frames[1].at \in InDone /\ r \notin spoilt =>
        \A k \in DOMAIN frames : k > 1 /\ frames[k].r = r =>
          frames[k].at \notin InDone
  BY <1>1, <1>2 DEF Single
<1>5. ASSUME r \notin spoilt
      PROVE  /\ \A k \in DOMAIN frames : frames[k].r = r =>
                  /\ frames[k].at \in Entering => Enters(reqs[r], frames[k].at)
                  /\ frames[k].at \in InDone => Tells(reqs[r], frames[k].at)
             /\ reqs[r].state # 2 => ~IsIn(frames, r, InDone)
  <2>1. \A k \in DOMAIN frames : frames[k].r = r =>
          /\ frames[k].at \in Entering => Enters(reqs[r], frames[k].at)
          /\ frames[k].at \in InDone => Tells(reqs[r], frames[k].at)
    BY <1>2, <1>5 DEF Where
  <2> QED
    BY <2>1 DEF IsIn, Tells
<1>6. r \notin spoilt =>
        /\ reqs[r].state = 2 <=> reqs[r].outcome # "pending"
        /\ reqs[r].state = 0 => IsIn(frames, r, Entering)
        /\ reqs[r].state # 2 => reqs[r].told = << >>
        /\ reqs[r].state = 2 =>
             IsIn(frames, r, InDone) \/ reqs[r].told = All(reqs[r])
  BY <1>1, <1>2 DEF Known
<1> QED
  BY <1>3, <1>4, <1>5, <1>6

(* The steps that change nothing the invariant says of requests.           *)
Turning(r, e, at) ==
  /\ frames # << >> /\ r = frames[1].r
  /\ UNCHANGED <<page, jsonpVars, etag, spoilt>>
  /\ reqs' \in Seq(Request(page.settings)) /\ Len(reqs') = Len(reqs)
  /\ \A q \in 1 .. Len(reqs) : Alike(reqs'[q], reqs[q])
  /\ at \in Points /\ frames' = Replaced(r, e, at)
  /\ e = 1 =>
       \/ /\ frames[1].at \in Entering /\ at \in Entering
          /\ r \notin spoilt => Enters(reqs[r], at)
       \/ frames[1].at = "ajaxComplete" /\ at = "ajaxStop"
  /\ frames[1].at \in Entering /\ e = 0 /\ r \notin spoilt => reqs[r].state = 2
  /\ frames[1].at \in InDone /\ r \notin spoilt =>
       reqs[r].told = All(reqs[r])

(* They keep all but the count, and a request that leaves done() no longer *)
(* counts.                                                                 *)
LEMMA Turns ==
  ASSUME IInv, active' \in Int, shown' \in BOOLEAN, NEW r, NEW e \in 0 .. 1,
         NEW at, Turning(r, e, at)
  PROVE  /\ Counts' => IInv'
         /\ r \in 1 .. Len(reqs)
         /\ \A q \in 1 .. Len(reqs) : q # r =>
              (Running(reqs', frames', q) <=> Running(reqs, frames, q))
         /\ frames[1].at \notin InDone =>
              (Running(reqs', frames', r) <=> Running(reqs, frames, r))
         /\ frames[1].at \in InDone /\ r \notin spoilt =>
              ~Running(reqs', frames', r)
<1>1. /\ r \in 1 .. Len(reqs) /\ 1 \in DOMAIN frames
      /\ frames' = IF e = 1 THEN <<Frame(r, at)>> \o Rest(frames, 1)
                   ELSE Rest(frames, 1)
      /\ e = 1 => frames'[1] = Frame(r, at) /\ 1 \in DOMAIN frames'
      /\ \A points :
           /\ IsIn(frames, r, points) /\ frames[1].at \notin points =>
                IsIn(frames', r, points)
           /\ IsIn(frames', r, points) /\ (e = 1 => at \notin points) =>
                \E k \in DOMAIN frames :
                  k > 1 /\ frames[k].r = r /\ frames[k].at \in points
  <2>1. /\ frames # << >> /\ r = frames[1].r
        /\ at \in Points /\ frames' = Replaced(r, e, at)
    BY DEF Turning
  <2>2. /\ r \in 1 .. Len(reqs) /\ 1 \in DOMAIN frames
        /\ frames' = IF e = 1 THEN <<Frame(r, at)>> \o Rest(frames, 1)
                     ELSE Rest(frames, 1)
        /\ Shift(frames, frames', r, 1, e)
        /\ e = 1 => frames'[1] = Frame(r, at) /\ 1 \in DOMAIN frames'
        /\ Stays(frames, frames', r, e, at)
    BY <2>1, ReplacedIs
  <2> QED
    BY <2>2 DEF Stays
<1>2. /\ frames[1].at \in Entering =>
           /\ \A k \in DOMAIN frames : k > 1 /\ frames[k].r = r =>
                frames[k].at \notin Entering
           /\ reqs[r].outcome # "success"
           /\ ~reqs[r].coming /\ ~reqs[r].listening
      /\ frames[1].at \in InDone /\ r \notin spoilt =>
           \A k \in DOMAIN frames : k > 1 /\ frames[k].r = r =>
             frames[k].at \notin InDone
      /\ r \notin spoilt =>
           /\ \A k \in DOMAIN frames : frames[k].r = r =>
                /\ frames[k].at \in Entering => Enters(reqs[r], frames[k].at)
                /\ frames[k].at \in InDone => Tells(reqs[r], frames[k].at)
           /\ reqs[r].state = 2 <=> reqs[r].outcome # "pending"
           /\ reqs[r].state = 0 => IsIn(frames, r, Entering)
           /\ reqs[r].state # 2 =>
                reqs[r].told = << >> /\ ~IsIn(frames, r, InDone)
           /\ reqs[r].state = 2 =>
                IsIn(frames, r, InDone) \/ reqs[r].told = All(reqs[r])
  BY TopKnown DEF Turning
<1>3. /\ Alike(reqs'[r], reqs[r]) /\ Same(reqs'[r], reqs[r])
      /\ e = 1 =>
           \/ /\ frames[1].at \in Entering /\ at \in Entering
              /\ at \notin InDone
              /\ r \notin spoilt => Enters(reqs[r], at)
           \/ /\ frames[1].at \notin Entering /\ at \notin Entering
              /\ at \notin InDone
      /\ frames[1].at \in Entering => frames[1].at \notin InDone
      /\ frames[1].at \in Entering /\ e = 0 /\ r \notin spoilt =>
           reqs[r].state = 2
      /\ frames[1].at \in InDone /\ r \notin spoilt =>
           reqs[r].told = All(reqs[r])
  <2>1. Alike(reqs'[r], reqs[r]) /\ Same(reqs'[r], reqs[r])
    BY <1>1 DEF Turning, Alike
  <2>2. /\ \A point \in Entering : point \notin InDone
        /\ "ajaxStop" \notin Entering /\ "ajaxStop" \notin InDone
        /\ "ajaxComplete" \notin Entering
    BY DEF Entering, InAjax, InDone
  <2>3. e = 1 =>
          \/ /\ frames[1].at \in Entering /\ at \in Entering
             /\ r \notin spoilt => Enters(reqs[r], at)
          \/ frames[1].at = "ajaxComplete" /\ at = "ajaxStop"
    BY DEF Turning
  <2>4. /\ frames[1].at \in Entering /\ e = 0 /\ r \notin spoilt =>
             reqs[r].state = 2
        /\ frames[1].at \in InDone /\ r \notin spoilt =>
             reqs[r].told = All(reqs[r])
    BY DEF Turning
  <2> QED
    BY <2>1, <2>2, <2>3, <2>4
<1>4. e = 1 => frames'[1].r = r /\ frames'[1].at = at
  BY <1>1 DEF Frame
<1>5. ASSUME NEW point
      PROVE  /\ Enters(reqs[r], point) => Enters(reqs'[r], point)
             /\ Tells(reqs[r], point) => Tells(reqs'[r], point)
             /\ All(reqs'[r]) = All(reqs[r])
  BY <1>3 DEF Same, Enters, Tells, SoFar, All
<1>6. Consistent(reqs', frames, frames', spoilt, r, 1, e)
  <2>1. \A k \in DOMAIN frames :
          k > 1 /\ frames[k].r = r /\ frames[k].at \in Entering =>
            /\ e = 1 => frames'[1].at \notin Entering
            /\ r \notin spoilt => Enters(reqs'[r], frames[k].at)
    BY <1>2, <1>3, <1>4, <1>5
  <2>2. \A k \in DOMAIN frames :
          k > 1 /\ frames[k].r = r /\ frames[k].at \in InDone
          /\ r \notin spoilt =>
            /\ e = 1 => frames'[1].at \notin InDone
            /\ Tells(reqs'[r], frames[k].at)
    BY <1>2, <1>3, <1>4, <1>5
  <2>3. e = 1 /\ r \notin spoilt =>
          /\ frames'[1].at \in Entering => Enters(reqs'[r], frames'[1].at)
          /\ frames'[1].at \in InDone => Tells(reqs'[r], frames'[1].at)
    BY <1>3, <1>4, <1>5
  <2>4. ASSUME r \notin spoilt
        PROVE  /\ reqs'[r].state = 2 <=> reqs'[r].outcome # "pending"
               /\ reqs'[r].state = 0 => IsIn(frames', r, Entering)
               /\ reqs'[r].state # 2 => reqs'[r].told = << >>
               /\ reqs'[r].state = 2 =>
                    IsIn(frames', r, InDone) \/ reqs'[r].told = All(reqs'[r])
    <3>1. reqs[r].state = 0 => IsIn(frames', r, Entering)
      <4>1. CASE frames[1].at \in Entering
        <5>1. reqs[r].state = 0 => e = 1 /\ at \in Entering
          BY <1>3, <2>4, <4>1
        <5> QED
          BY <1>1, <1>4, <5>1 DEF IsIn
      <4>2. CASE frames[1].at \notin Entering
        BY <1>1, <1>2, <2>4, <4>2
      <4> QED
        BY <4>1, <4>2
    <3>2. reqs[r].state = 2 =>
            IsIn(frames', r, InDone) \/ reqs[r].told = All(reqs[r])
      BY <1>1, <1>2, <1>3, <2>4
    <3> QED
      BY <1>2, <1>3, <1>5, <2>4, <3>1, <3>2 DEF Same
  <2> QED
    BY <2>1, <2>2, <2>3, <2>4 DEF Consistent
<1>7. ASSUME NEW j \in DOMAIN frames', frames'[j].r = r,
             frames'[j].at \in Entering
      PROVE  /\ reqs'[r].outcome # "success"
             /\ ~reqs'[r].coming /\ ~reqs'[r].listening
  <2>1. IsIn(frames', r, Entering)
    BY <1>7 DEF IsIn
  <2>2. \/ e = 1 /\ at \in Entering
        \/ \E k \in DOMAIN frames :
             k > 1 /\ frames[k].r = r /\ frames[k].at \in Entering
    BY <1>1, <2>1
  <2>3. /\ reqs[r].outcome # "success"
        /\ ~reqs[r].coming /\ ~reqs[r].listening
    <3>1. CASE e = 1 /\ at \in Entering
      BY <1>2, <1>3, <3>1
    <3>2. ASSUME NEW k \in DOMAIN frames, frames[k].r = r,
                 frames[k].at \in Entering
          PROVE  /\ reqs[r].outcome # "success"
                 /\ ~reqs[r].coming /\ ~reqs[r].listening
      BY <3>2 DEF IInv, Unsent
    <3> QED
      BY <2>2, <3>1, <3>2
  <2> QED
    BY <1>3, <2>3 DEF Alike, Same
<1>8. Continued(reqs'[r], reqs[r])
  <2>1. reqs[r].outcome = "success" => ~reqs[r].coming
    BY <1>1 DEF IInv, Own
  <2> QED
    BY <1>3, <2>1 DEF Alike, Same, Continued
<1>9. Advancing(r, 1, e, at)
  BY <1>1, <1>6, <1>7, <1>8 DEF Advancing, Turning
<1>10. /\ Counts' => IInv'
       /\ \A q \in 1 .. Len(reqs) : q # r =>
            (Running(reqs', frames', q) <=> Running(reqs, frames, q))
  <2>1. UNCHANGED <<page, jsonpVars, etag, spoilt>>
    BY DEF Turning
  <2> QED
    BY <1>1, <1>9, <2>1, Advanced
<1>11. frames[1].at \notin InDone =>
         (IsIn(frames', r, InDone) <=> IsIn(frames, r, InDone))
  BY <1>1, <1>3 DEF IsIn
<1>12. frames[1].at \in InDone /\ r \notin spoilt =>
         ~IsIn(frames', r, InDone) /\ reqs[r].state = 2
  <2> SUFFICES ASSUME frames[1].at \in InDone, r \notin spoilt
               PROVE  ~IsIn(frames', r, InDone) /\ reqs[r].state = 2
    OBVIOUS
  <2>1. Tells(reqs[r], frames[1].at)
    BY <1>1, <1>2 DEF Turning
  <2>2. ~IsIn(frames', r, InDone)
    BY <1>1, <1>2, <1>3
  <2> QED
    BY <2>1, <2>2 DEF Tells
<1> QED
  BY <1>1, <1>3, <1>10, <1>11, <1>12 DEF Running, Same

(* They keep the invariant, but for the end of a request with events.      *)
LEMMA TurnKeeps ==
  ASSUME IInv, UNCHANGED <<active, shown>>, NEW r, NEW e \in 0 .. 1, NEW at,
         Turning(r, e, at),
         frames[1].at \notin InDone \/ ~reqs[r].globals
  PROVE  IInv'
<1>1. active' \in Int /\ shown' \in BOOLEAN
  BY DEF IInv, Typed
<1>2. /\ Counts' => IInv'
      /\ r \in 1 .. Len(reqs)
      /\ \A q \in 1 .. Len(reqs) : q # r =>
           (Running(reqs', frames', q) <=> Running(reqs, frames, q))
      /\ frames[1].at \notin InDone =>
           (Running(reqs', frames', r) <=> Running(reqs, frames, r))
  BY <1>1, Turns
<1>3. ~reqs[r].globals =>
        ~Running(reqs', frames', r) /\ ~Running(reqs, frames, r)
  <2>1. reqs'[r].globals = reqs[r].globals
    BY <1>2 DEF Turning, Alike, Same
  <2> QED
    BY <2>1 DEF Running
<1>4. /\ Counts /\ Len(reqs') = Len(reqs)
      /\ spoilt' = {} => spoilt = {}
      /\ \A q \in 1 .. Len(reqs) :
           Running(reqs', frames', q) <=> Running(reqs, frames, q)
  BY <1>2, <1>3 DEF IInv, Turning
<1>5. Counts'
  BY <1>4, CountsKept
<1> QED
  BY <1>2, <1>5

(* ajaxStart returns.                                                      *)
LEMMA AjaxStartKeeps ==
  ASSUME IInv, AjaxStartReturns
  PROVE  IInv'
<1> DEFINE r == Top.r
<1>1. /\ frames # << >> /\ Top.at = "ajaxStart"
      /\ frames' = <<Frame(r, "beforeSend")>> \o Below
      /\ UNCHANGED <<page, reqs, active, jsonpVars, etag, shown, spoilt>>
  BY DEF AjaxStartReturns, At, Idle
<1>2. /\ Top = frames[1] /\ r \in 1 .. Len(reqs) /\ Below = Rest(frames, 1)
      /\ 1 \in DOMAIN frames
  BY <1>1, TopIs
<1>3. r \notin spoilt => Enters(reqs[r], "beforeSend")
  <2>1. r \notin spoilt => Enters(reqs[r], "ajaxStart")
    BY <1>1, <1>2 DEF IInv, Kept, Where, Entering, InAjax
  <2> QED
    BY <2>1 DEF Enters
<1>4. Turning(r, 1, "beforeSend")
  <2>1. frames' = Replaced(r, 1, "beforeSend")
    BY <1>1, <1>2 DEF Replaced
  <2>2. /\ reqs' \in Seq(Request(page.settings)) /\ Len(reqs') = Len(reqs)
        /\ \A q \in 1 .. Len(reqs) : Alike(reqs'[q], reqs[q])
    BY <1>1, Typing
  <2>3. /\ "beforeSend" \in Points /\ "beforeSend" \in Entering
        /\ frames[1].at \in Entering /\ frames[1].at \notin InDone
    BY <1>1, <1>2 DEF Points, Entering, InAjax, InDone
  <2> QED
    BY <1>1, <1>2, <1>3, <2>1, <2>2, <2>3 DEF Turning
<1>5. frames[1].at \notin InDone
  BY <1>1, <1>2 DEF InDone
<1> QED
  BY <1>1, <1>4, <1>5, TurnKeeps

(* ajaxStop returns.                                                       *)
LEMMA AjaxStopKeeps ==
  ASSUME IInv, AjaxStopReturns
  PROVE  IInv'
<1> DEFINE r == Top.r
<1>1. /\ frames # << >> /\ Top.at = "ajaxStop" /\ frames' = Below
      /\ UNCHANGED <<page, reqs, active, jsonpVars, etag, shown, spoilt>>
  BY DEF AjaxStopReturns, At, Idle
<1>2. /\ Top = frames[1] /\ r \in 1 .. Len(reqs) /\ Below = Rest(frames, 1)
  BY <1>1, TopIs
<1>3. Turning(r, 0, "ajaxStop")
  <2>1. frames' = Replaced(r, 0, "ajaxStop")
    BY <1>1, <1>2 DEF Replaced
  <2>2. /\ reqs' \in Seq(Request(page.settings)) /\ Len(reqs') = Len(reqs)
        /\ \A q \in 1 .. Len(reqs) : Alike(reqs'[q], reqs[q])
    BY <1>1, Typing
  <2>3. /\ "ajaxStop" \in Points
        /\ frames[1].at \notin Entering /\ frames[1].at \notin InDone
    BY <1>1, <1>2 DEF Points, Entering, InAjax, InDone
  <2> QED
    BY <1>1, <1>2, <2>1, <2>2, <2>3 DEF Turning
<1>4. frames[1].at \notin InDone
  BY <1>1, <1>2 DEF InDone
<1> QED
  BY <1>1, <1>3, <1>4, TurnKeeps

(* There is a transport, or the request fails.                             *)
LEMMA BeforeSendKeeps ==
  ASSUME IInv, BeforeSendReturns
  PROVE  IInv'
<1> DEFINE r == Top.r
           s == reqs[r].s
           asked == [reqs EXCEPT ![r].asked = s.ifModified /\ etag,
                                 ![r].transport = TransportOf(s)]
           v == [reqs[r] EXCEPT !.asked = s.ifModified /\ etag,
                                !.transport = TransportOf(s)]
<1>1. /\ frames # << >> /\ Top.at = "beforeSend"
      /\ s.beforeSend => reqs[r].state # 2
      /\ IF TransportOf(s) = "undefined"
         THEN Done(asked, r, Aborted, Below)
         ELSE /\ reqs' = asked
              /\ frames' = <<Frame(r, "ajaxSend")>> \o Below
              /\ UNCHANGED <<jsonpVars, etag, element>>
      /\ UNCHANGED <<page, active, shown>> /\ spoilt' = spoilt
  BY DEF BeforeSendReturns, At, Idle
<1>2. /\ Top = frames[1] /\ r \in 1 .. Len(reqs) /\ Below = Rest(frames, 1)
      /\ 1 \in DOMAIN frames
  BY <1>1, TopIs
<1>3. /\ reqs \in Seq(Request(page.settings))
      /\ reqs[r] \in Request(page.settings) /\ etag \in BOOLEAN
      /\ s \in Settings
  <2>1. /\ reqs[r] \in Request(page.settings)
        /\ page.settings \in SUBSET Settings
    BY <1>2, Typing
  <2>2. s \in page.settings
    BY <2>1 DEF Request
  <2> QED
    BY <2>1, <2>2, Typing DEF IInv, Typed
<1>4. /\ TransportOf(s) \in {"undefined", "xhr", "script"}
      /\ (s.ifModified /\ etag) \in BOOLEAN
  BY DEF TransportOf
<1>5. asked = [reqs EXCEPT ![r] = v]
  OBVIOUS
<1>6. /\ v \in Request(page.settings) /\ Prepared(v, reqs[r])
      /\ v.state = reqs[r].state /\ Alike(v, reqs[r])
  <2> DEFINE m == s.ifModified /\ etag
             t == TransportOf(s)
  <2> HIDE DEF m, t
  <2>1. v = [reqs[r] EXCEPT !.asked = m, !.transport = t]
    BY DEF m, t
  <2>2. m \in BOOLEAN /\ t \in {"undefined", "xhr", "script"}
    BY <1>4 DEF m, t
  <2>3. v \in Request(page.settings)
    BY <1>3, <2>1, <2>2, ZenonT(60) DEF Request
  <2>4. /\ v.s = reqs[r].s /\ v.state = reqs[r].state
        /\ v.globals = reqs[r].globals /\ v.told = reqs[r].told
        /\ v.outcome = reqs[r].outcome /\ v.name = reqs[r].name
        /\ v.overwritten = reqs[r].overwritten /\ v.data = reqs[r].data
        /\ v.coming = reqs[r].coming /\ v.listening = reqs[r].listening
        /\ v.silent = reqs[r].silent
    BY <1>3, <2>1 DEF Request
  <2> HIDE DEF v
  <2> QED
    BY <2>3, <2>4 DEF Prepared, Alike, Same
<1> HIDE DEF v, asked
<1>7. /\ asked \in Seq(Request(page.settings)) /\ Len(asked) = Len(reqs)
      /\ asked[r] = v
      /\ \A q \in 1 .. Len(reqs) : q # r => Alike(asked[q], reqs[q])
  BY <1>2, <1>3, <1>5, <1>6, Changed, SMTT(30)
<1>8. CASE TransportOf(s) = "undefined"
  <2>1. Answering(asked, r, Aborted, 1, spoilt')
    BY <1>1, <1>2, <1>6, <1>7 DEF Answering, Aborted
  <2> QED
    BY <1>1, <1>2, <1>8, <2>1, AnswerKeeps
<1>9. CASE TransportOf(s) # "undefined"
  <2>1. /\ reqs' = asked /\ frames' = <<Frame(r, "ajaxSend")>> \o Below
        /\ UNCHANGED <<page, active, shown, jsonpVars, etag, spoilt>>
    BY <1>1, <1>9
  <2>2. r \notin spoilt => Enters(reqs[r], "ajaxSend")
    <3>1. r \notin spoilt => Enters(reqs[r], "beforeSend")
      BY <1>1, <1>2 DEF IInv, Kept, Where, Entering, InAjax
    <3> QED
      BY <1>1, <3>1 DEF Enters
  <2>3. frames' = Replaced(r, 1, "ajaxSend")
    BY <1>2, <2>1 DEF Replaced
  <2>4. /\ "ajaxSend" \in Points /\ "ajaxSend" \in Entering
        /\ frames[1].at \in Entering /\ frames[1].at \notin InDone
    BY <1>1, <1>2 DEF Points, Entering, InAjax, InDone
  <2>5. \A q \in 1 .. Len(reqs) : Alike(reqs'[q], reqs[q])
    BY <1>6, <1>7, <2>1
  <2>6. Turning(r, 1, "ajaxSend")
    <3>1. /\ frames # << >> /\ r = frames[1].r
          /\ reqs' \in Seq(Request(page.settings)) /\ Len(reqs') = Len(reqs)
      BY <1>1, <1>2, <1>7, <2>1
    <3> QED
      BY <2>1, <2>2, <2>3, <2>4, <2>5, <3>1 DEF Turning
  <2>7. UNCHANGED <<active, shown>> /\ frames[1].at \notin InDone
    BY <2>1, <2>4
  <2> QED
    BY <2>6, <2>7, TurnKeeps
<1> QED
  BY <1>8, <1>9

-----------------------------------------------------------------------------
(* What counts, when a request starts and when it ends.                    *)
LEMMA OneMore ==
  ASSUME Counts, Len(reqs) \in Nat, Len(reqs') = Len(reqs),
         NEW r \in 1 .. Len(reqs), spoilt' = spoilt,
         spoilt = {} =>
           /\ ~Running(reqs, frames, r) /\ Running(reqs', frames', r)
           /\ \A q \in 1 .. Len(reqs) : q # r =>
                (Running(reqs', frames', q) <=> Running(reqs, frames, q)),
         shown \in BOOLEAN,
         active' = active + 1, shown' = (shown \/ active = 0)
  PROVE  Counts'
<1> DEFINE A == {q \in 1 .. Len(reqs) : Running(reqs, frames, q)}
           B == {q \in 1 .. Len(reqs') : Running(reqs', frames', q)}
<1> SUFFICES ASSUME spoilt = {}
             PROVE  active' = Cardinality(B) /\ (shown' <=> active' > 0)
  BY DEF Counts
<1>1. B = A \cup {r} /\ r \notin A
  OBVIOUS
<1>2. IsFiniteSet(1 .. Len(reqs))
  BY FS_Interval
<1>3. IsFiniteSet(A)
  BY <1>2, FS_Subset
<1>4. active = Cardinality(A) /\ (shown <=> active > 0)
  BY DEF Counts
<1> HIDE DEF A, B
<1>5. Cardinality(A \cup {r}) = Cardinality(A) + 1 /\ Cardinality(A) \in Nat
  BY <1>1, <1>3, FS_AddElement, FS_CardinalityType
<1>6. active' = Cardinality(B)
  BY <1>1, <1>4, <1>5
<1>7. shown \/ active = 0
  <2>1. active = Cardinality(A) /\ Cardinality(A) \in Nat
    BY <1>4, <1>5
  <2>2. active = 0 \/ active > 0
    BY <2>1
  <2>3. shown <=> active > 0
    BY <1>4
  <2> QED
    BY <2>2, <2>3, Zenon
<1>8. active' > 0
  <2>1. active = Cardinality(A) /\ Cardinality(A) \in Nat
    BY <1>4, <1>5
  <2>2. active' \in Nat /\ active' # 0
    BY <2>1
  <2> QED
    BY <2>2
<1>9. shown' <=> active' > 0
  BY <1>7, <1>8, Zenon
<1> QED
  BY <1>6, <1>9

(* The count when one request fewer is under way.                          *)
LEMMA OneLess ==
  ASSUME Counts, Len(reqs) \in Nat, Len(reqs') = Len(reqs),
         NEW r \in 1 .. Len(reqs), spoilt' = spoilt,
         spoilt = {} =>
           /\ Running(reqs, frames, r) /\ ~Running(reqs', frames', r)
           /\ \A q \in 1 .. Len(reqs) : q # r =>
                (Running(reqs', frames', q) <=> Running(reqs, frames, q)),
         shown \in BOOLEAN, active' = active - 1,
         shown' = IF active = 1 THEN FALSE ELSE shown
  PROVE  Counts'
<1> DEFINE A == {q \in 1 .. Len(reqs) : Running(reqs, frames, q)}
           B == {q \in 1 .. Len(reqs') : Running(reqs', frames', q)}
<1> SUFFICES ASSUME spoilt = {}
             PROVE  active' = Cardinality(B) /\ (shown' <=> active' > 0)
  BY DEF Counts
<1>1. B = A \ {r} /\ r \in A
  OBVIOUS
<1>2. IsFiniteSet(1 .. Len(reqs))
  BY FS_Interval
<1>3. IsFiniteSet(A)
  BY <1>2, FS_Subset
<1>4. active = Cardinality(A) /\ (shown <=> active > 0)
  BY DEF Counts
<1> HIDE DEF A, B
<1>5. IsFiniteSet(A \ {r}) /\ Cardinality(A \ {r}) = Cardinality(A) - 1
  BY <1>1, <1>3, FS_RemoveElement
<1>6. Cardinality(A) \in Nat /\ Cardinality(A \ {r}) \in Nat
  BY <1>3, <1>5, FS_CardinalityType
<1>7. active' = Cardinality(B) /\ active' \in Nat
  BY <1>1, <1>4, <1>5, <1>6
<1>8. CASE active = 1
  <2>1. active' = 0
    BY <1>8
  <2>2. ~(active' > 0)
    BY <2>1
  <2>3. shown' = FALSE
    BY <1>8
  <2>4. shown' <=> active' > 0
    BY <2>2, <2>3, Zenon
  <2> QED
    BY <1>7, <2>4
<1>9. CASE active # 1
  <2>1. active' > 0 /\ active > 0
    BY <1>4, <1>6, <1>7, <1>9
  <2> QED
    BY <1>4, <1>7, <1>9, <2>1
<1> QED
  BY <1>8, <1>9

(* ajaxComplete returns: the request no longer counts.                     *)
LEMMA AjaxCompleteKeeps ==
  ASSUME IInv, AjaxCompleteReturns
  PROVE  IInv'
<1> DEFINE r == Top.r
           e == IF active = 1 THEN 1 ELSE 0
<1>1. /\ frames # << >> /\ Top.at = "ajaxComplete"
      /\ active' = active - 1
      /\ shown' = IF active = 1 THEN FALSE ELSE shown
      /\ frames' = IF active = 1 THEN <<Frame(r, "ajaxStop")>> \o Below
                   ELSE Below
      /\ UNCHANGED <<page, reqs, jsonpVars, etag, spoilt>>
  BY DEF AjaxCompleteReturns, At, Idle
<1>2. /\ Top = frames[1] /\ r \in 1 .. Len(reqs) /\ Below = Rest(frames, 1)
      /\ 1 \in DOMAIN frames
  BY <1>1, TopIs
<1>3. /\ "ajaxStop" \in Points /\ frames[1].at = "ajaxComplete"
      /\ frames[1].at \notin Entering /\ frames[1].at \in InDone
  BY <1>1, <1>2 DEF Points, Entering, InAjax, InDone
<1>4. r \notin spoilt =>
        /\ reqs[r].told = All(reqs[r]) /\ reqs[r].globals
        /\ reqs[r].state = 2
  <2>1. r \notin spoilt => Tells(reqs[r], "ajaxComplete")
    BY <1>2, <1>3 DEF IInv, Kept, Where
  <2>2. SoFar(reqs[r], "ajaxComplete") = All(reqs[r])
    BY DEF SoFar
  <2>3. Tells(reqs[r], "ajaxComplete") =>
          /\ reqs[r].state = 2 /\ reqs[r].globals
          /\ reqs[r].told = SoFar(reqs[r], "ajaxComplete")
    BY DEF Tells
  <2> QED
    BY <2>1, <2>2, <2>3
<1>5. active' \in Int /\ shown' \in BOOLEAN
  <2>1. active \in Int /\ shown \in BOOLEAN
    BY DEF IInv, Typed
  <2>2. active' \in Int
    BY <1>1, <2>1
  <2>3. shown' = FALSE \/ shown' = shown
    BY <1>1
  <2> QED
    BY <2>1, <2>2, <2>3
<1>6. e \in 0 .. 1 /\ frames' = Replaced(r, e, "ajaxStop")
  BY <1>1, <1>2 DEF Replaced
<1> HIDE DEF e
<1>7. Turning(r, e, "ajaxStop")
  <2>1. /\ reqs' \in Seq(Request(page.settings)) /\ Len(reqs') = Len(reqs)
        /\ \A q \in 1 .. Len(reqs) : Alike(reqs'[q], reqs[q])
    BY <1>1, Typing
  <2> QED
    BY <1>1, <1>2, <1>3, <1>4, <1>6, <2>1 DEF Turning
<1>8. /\ Counts' => IInv'
      /\ \A q \in 1 .. Len(reqs) : q # r =>
           (Running(reqs', frames', q) <=> Running(reqs, frames, q))
      /\ r \notin spoilt => ~Running(reqs', frames', r)
  BY <1>3, <1>5, <1>6, <1>7, Turns
<1>9. r \notin spoilt => Running(reqs, frames, r)
  BY <1>2, <1>3, <1>4 DEF Running, IsIn
<1>10. Counts /\ Len(reqs) \in Nat /\ shown \in BOOLEAN
  BY Typing DEF IInv, Typed
<1>11. Counts'
  BY <1>1, <1>2, <1>8, <1>9, <1>10, OneLess
<1> QED
  BY <1>8, <1>11

(* A sequence with one more element.                                       *)
LEMMA AppendIs ==
  ASSUME NEW S, NEW s \in Seq(S), NEW e \in S, NEW u \in Seq(S),
         Len(u) = Len(s) + 1, u[Len(s) + 1] = e,
         \A i \in 1 .. Len(s) : u[i] = s[i]
  PROVE  Append(s, e) = u
<1> DEFINE t == Append(s, e)
<1>1. /\ t \in Seq(S) /\ Len(t) = Len(s) + 1 /\ t[Len(s) + 1] = e
      /\ \A i \in 1 .. Len(s) : t[i] = s[i]
  BY AppendedAt
<1> HIDE DEF t
<1>2. \A i \in 1 .. Len(t) : t[i] = u[i]
  <2> TAKE i \in 1 .. Len(t)
  <2>1. i \in 1 .. Len(s) \/ i = Len(s) + 1
    BY <1>1
  <2> QED
    BY <1>1, <2>1
<1>3. t = u
  BY <1>1, <1>2, SeqEqual
<1> QED
  BY <1>3 DEF t

(* The page is told more of a request that is done.                        *)
LEMMA Sofar ==
  ASSUME NEW q
  PROVE  /\ SoFar(q, "global") = Append(SoFar(q, "outcome"), "global")
         /\ ~q.globals =>
              SoFar(q, "complete") = Append(SoFar(q, "outcome"), "complete")
         /\ q.globals =>
              /\ SoFar(q, "complete") = Append(SoFar(q, "global"), "complete")
              /\ SoFar(q, "ajaxComplete")
                   = Append(SoFar(q, "complete"), "ajaxComplete")
<1>1. /\ SoFar(q, "outcome") = <<"outcome">>
      /\ SoFar(q, "global") = <<"outcome", "global">>
  BY DEF SoFar
<1>2. SoFar(q, "complete")
        = IF q.globals THEN <<"outcome", "global", "complete">>
          ELSE <<"outcome", "complete">>
  BY DEF SoFar
<1>3. SoFar(q, "ajaxComplete") = All(q)
  BY DEF SoFar
<1> DEFINE P == {"outcome", "global", "complete", "ajaxComplete"}
           a == <<"outcome">>
           b == <<"outcome", "global">>
           c == <<"outcome", "complete">>
           d == <<"outcome", "global", "complete">>
           e == <<"outcome", "global", "complete", "ajaxComplete">>
           global == "global"
           complete == "complete"
           last == "ajaxComplete"
<1>4. /\ a \in Seq(P) /\ b \in Seq(P) /\ c \in Seq(P) /\ d \in Seq(P)
      /\ e \in Seq(P) /\ global \in P /\ complete \in P /\ last \in P
  OBVIOUS
<1>5. Len(a) = 1 /\ Len(b) = 2 /\ Len(c) = 2 /\ Len(d) = 3 /\ Len(e) = 4
  OBVIOUS
<1>6. /\ a[1] = b[1] /\ a[1] = c[1] /\ b[2] = global /\ c[2] = complete
      /\ b[1] = d[1] /\ b[2] = d[2] /\ d[3] = complete
      /\ d[1] = e[1] /\ d[2] = e[2] /\ d[3] = e[3] /\ e[4] = last
  OBVIOUS
<1> HIDE DEF P, a, b, c, d, e, global, complete, last
<1>7. Append(a, global) = b
  <2>1. Len(b) = Len(a) + 1 /\ b[Len(a) + 1] = global
    BY <1>5, <1>6
  <2>2. \A i \in 1 .. Len(a) : b[i] = a[i]
    <3>1. Len(a) = 1 /\ b[1] = a[1]
      BY <1>5, <1>6
    <3> QED
      BY <3>1
  <2> QED
    <3>1. a \in Seq(P) /\ b \in Seq(P) /\ global \in P
      BY <1>4
    <3> QED
      BY <2>1, <2>2, <3>1, AppendIs
<1>8. Append(a, complete) = c
  <2>1. Len(c) = Len(a) + 1 /\ c[Len(a) + 1] = complete
    BY <1>5, <1>6
  <2>2. \A i \in 1 .. Len(a) : c[i] = a[i]
    BY <1>5, <1>6
  <2> QED
    BY <1>4, <2>1, <2>2, AppendIs
<1>9. Append(b, complete) = d
  <2>1. Len(d) = Len(b) + 1 /\ d[Len(b) + 1] = complete
    BY <1>5, <1>6
  <2>2. \A i \in 1 .. Len(b) : d[i] = b[i]
    BY <1>5, <1>6
  <2> QED
    BY <1>4, <2>1, <2>2, AppendIs
<1>10. Append(d, last) = e
  <2>1. Len(e) = Len(d) + 1 /\ e[Len(d) + 1] = last
    BY <1>5, <1>6
  <2>2. \A i \in 1 .. Len(d) : e[i] = d[i]
    BY <1>5, <1>6
  <2> QED
    BY <1>4, <2>1, <2>2, AppendIs
<1> QED
  BY <1>1, <1>2, <1>3, <1>7, <1>8, <1>9, <1>10
  DEF All, a, b, c, d, e, global, complete, last

(* The next event of the running request is told to the page.              *)
ToldNext(r, at) ==
  /\ frames # << >> /\ r = frames[1].r /\ frames[1].at \in InDone
  /\ UNCHANGED <<page, active, shown, jsonpVars, etag, spoilt>>
  /\ at \in {"global", "complete", "ajaxComplete"}
  /\ reqs' = Tell(reqs, r, at) /\ frames' = Replaced(r, 1, at)
  /\ r \notin spoilt =>
       /\ SoFar(reqs[r], at) = Append(SoFar(reqs[r], frames[1].at), at)
       /\ at # "complete" => reqs[r].globals

(* The next event keeps the invariant.                                     *)
LEMMA ToldKeeps ==
  ASSUME IInv, NEW r, NEW at, ToldNext(r, at)
  PROVE  IInv'
<1> DEFINE v == [reqs[r] EXCEPT !.told = Append(@, at)]
<1>1. /\ r = frames[1].r /\ frames # << >> /\ at \in Points /\ at \in InDone
      /\ at \notin Entering /\ frames[1].at \in InDone
      /\ frames[1].at \notin Entering
      /\ UNCHANGED <<page, active, shown, jsonpVars, etag, spoilt>>
      /\ frames' = Replaced(r, 1, at)
  BY DEF ToldNext, Points, Entering, InAjax, InDone
<1>2. /\ r \in 1 .. Len(reqs) /\ 1 \in DOMAIN frames
      /\ frames' = <<Frame(r, at)>> \o Rest(frames, 1)
      /\ frames'[1] = Frame(r, at) /\ 1 \in DOMAIN frames'
      /\ \A points : IsIn(frames', r, points) /\ at \notin points =>
           \E k \in DOMAIN frames :
             k > 1 /\ frames[k].r = r /\ frames[k].at \in points
  BY <1>1, TopReplaced
<1>3. /\ frames[1].at \in InDone /\ r \notin spoilt =>
           \A k \in DOMAIN frames : k > 1 /\ frames[k].r = r =>
             frames[k].at \notin InDone
      /\ r \notin spoilt =>
           /\ \A k \in DOMAIN frames : frames[k].r = r =>
                /\ frames[k].at \in Entering => Enters(reqs[r], frames[k].at)
                /\ frames[k].at \in InDone => Tells(reqs[r], frames[k].at)
           /\ reqs[r].state = 2 <=> reqs[r].outcome # "pending"
  BY <1>1, TopKnown
<1>4. /\ reqs \in Seq(Request(page.settings))
      /\ reqs[r] \in Request(page.settings)
  BY <1>2, Typing
<1>5. Append(reqs[r].told, at) \in Seq(InDone)
  <2>1. reqs[r].told \in Seq(InDone)
    BY <1>4 DEF Request
  <2> QED
    BY <2>1, Noted DEF ToldNext
<1>6. /\ v \in Request(page.settings) /\ v.told = Append(reqs[r].told, at)
      /\ v.s = reqs[r].s /\ v.state = reqs[r].state
      /\ v.globals = reqs[r].globals /\ v.outcome = reqs[r].outcome
      /\ v.name = reqs[r].name /\ v.overwritten = reqs[r].overwritten
      /\ v.data = reqs[r].data /\ v.silent = reqs[r].silent
      /\ v.coming = reqs[r].coming /\ v.listening = reqs[r].listening
  BY <1>4, <1>5 DEF Request
<1>7. reqs' = [reqs EXCEPT ![r] = v]
  BY DEF ToldNext, Tell
<1> HIDE DEF v
<1>8. /\ reqs' \in Seq(Request(page.settings)) /\ Len(reqs') = Len(reqs)
      /\ reqs'[r] = v
      /\ \A q \in 1 .. Len(reqs) : q # r => Alike(reqs'[q], reqs[q])
  BY <1>2, <1>4, <1>6, <1>7, Changed
<1>9. \A point : Enters(reqs[r], point) => Enters(reqs'[r], point)
  BY <1>6, <1>8 DEF Enters
<1>10. r \notin spoilt => Tells(reqs'[r], at)
  <2> SUFFICES ASSUME r \notin spoilt
               PROVE  Tells(reqs'[r], at)
    OBVIOUS
  <2>1. /\ reqs[r].state = 2
        /\ reqs[r].told = SoFar(reqs[r], frames[1].at)
    BY <1>1, <1>2, <1>3 DEF Tells
  <2>2. /\ SoFar(reqs[r], at) = Append(SoFar(reqs[r], frames[1].at), at)
        /\ at # "complete" => reqs[r].globals
    BY DEF ToldNext
  <2>3. SoFar(reqs'[r], at) = SoFar(reqs[r], at)
    BY <1>6, <1>8 DEF SoFar, All
  <2> QED
    BY <1>6, <1>8, <2>1, <2>2, <2>3 DEF Tells
<1>11. IsIn(frames', r, InDone) /\ IsIn(frames, r, InDone)
  BY <1>1, <1>2, SMTT(30) DEF IsIn, Frame
<1>12. Consistent(reqs', frames, frames', spoilt, r, 1, 1)
  <2>1. frames'[1].at = at
    BY <1>2 DEF Frame
  <2>2. r \notin spoilt => reqs[r].state = 2
    BY <1>1, <1>2, <1>3 DEF Tells
  <2>3. \A k \in DOMAIN frames :
          k > 1 /\ frames[k].r = r /\ frames[k].at \in Entering =>
            /\ frames'[1].at \notin Entering
            /\ r \notin spoilt => Enters(reqs'[r], frames[k].at)
    BY <1>1, <1>3, <1>9, <2>1
  <2>4. \A k \in DOMAIN frames :
          ~(k > 1 /\ frames[k].r = r /\ frames[k].at \in InDone
              /\ r \notin spoilt)
    BY <1>1, <1>3
  <2>5. r \notin spoilt =>
          /\ frames'[1].at \notin Entering
          /\ Tells(reqs'[r], frames'[1].at)
    BY <1>1, <1>10, <2>1
  <2>6. r \notin spoilt =>
          /\ reqs'[r].state = 2 /\ reqs'[r].outcome # "pending"
          /\ IsIn(frames', r, InDone)
    BY <1>3, <1>6, <1>8, <1>11, <2>2
  <2> QED
    BY <2>3, <2>4, <2>5, <2>6 DEF Consistent
<1>13. ASSUME NEW j \in DOMAIN frames', frames'[j].r = r,
              frames'[j].at \in Entering
       PROVE  /\ reqs'[r].outcome # "success"
              /\ ~reqs'[r].coming /\ ~reqs'[r].listening
  <2>1. IsIn(frames', r, Entering)
    BY <1>13 DEF IsIn
  <2>2. PICK k \in DOMAIN frames :
          frames[k].r = r /\ frames[k].at \in Entering
    BY <1>1, <1>2, <2>1
  <2> QED
    BY <1>6, <1>8, <2>2 DEF IInv, Unsent
<1>14. Continued(reqs'[r], reqs[r])
  <2>1. reqs[r].outcome = "success" => ~reqs[r].coming
    BY <1>2 DEF IInv, Own
  <2> QED
    BY <1>6, <1>8, <2>1 DEF Continued
<1>15. Advancing(r, 1, 1, at)
  BY <1>1, <1>2, <1>8, <1>12, <1>13, <1>14 DEF Advancing
<1>16. /\ Counts' => IInv'
       /\ \A q \in 1 .. Len(reqs) : q # r =>
            (Running(reqs', frames', q) <=> Running(reqs, frames, q))
  <2>1. active' \in Int /\ shown' \in BOOLEAN
    BY <1>1 DEF IInv, Typed
  <2> QED
    BY <1>1, <1>2, <1>15, <2>1, Advanced
<1>17. Running(reqs', frames', r) <=> Running(reqs, frames, r)
  BY <1>6, <1>8, <1>11 DEF Running
<1>18. Counts'
  <2>1. /\ Counts /\ UNCHANGED <<active, shown>> /\ spoilt' = spoilt
        /\ \A q \in 1 .. Len(reqs) :
             Running(reqs', frames', q) <=> Running(reqs, frames, q)
    BY <1>1, <1>16, <1>17 DEF IInv
  <2> QED
    BY <1>8, <2>1, CountsKept
<1> QED
  BY <1>16, <1>18

(* The functions of the outcome return.                                    *)
LEMMA OutcomeKeeps ==
  ASSUME IInv, OutcomeReturns
  PROVE  IInv'
<1> DEFINE r == Top.r
           at == IF reqs[r].globals THEN "global" ELSE "complete"
<1>1. /\ frames # << >> /\ Top.at = "outcome"
      /\ frames' = <<Frame(r, at)>> \o Below /\ reqs' = Tell(reqs, r, at)
      /\ UNCHANGED <<page, active, jsonpVars, etag, shown, spoilt>>
  BY DEF OutcomeReturns, At, Idle
<1>2. Top = frames[1] /\ Below = Rest(frames, 1)
  BY <1>1, TopIs
<1>3. ToldNext(r, at)
  <2>1. frames[1].at = "outcome" /\ frames[1].at \in InDone
    BY <1>1, <1>2 DEF InDone
  <2>2. SoFar(reqs[r], at) = Append(SoFar(reqs[r], "outcome"), at)
    BY Sofar
  <2>3. /\ at \in {"global", "complete", "ajaxComplete"}
        /\ at # "complete" => reqs[r].globals
    OBVIOUS
  <2> HIDE DEF at
  <2>4. frames' = Replaced(r, 1, at)
    BY <1>1, <1>2 DEF Replaced
  <2> QED
    BY <1>1, <1>2, <2>1, <2>2, <2>3, <2>4 DEF ToldNext
<1> QED
  BY <1>3, ToldKeeps

(* ajaxSuccess or ajaxError returns.                                       *)
LEMMA GlobalKeeps ==
  ASSUME IInv, GlobalReturns
  PROVE  IInv'
<1> DEFINE r == Top.r
           again == Contains(reqs[r].told, "complete")
           at == IF again THEN "ajaxComplete" ELSE "complete"
<1>1. /\ frames # << >> /\ Top.at = "global"
      /\ frames' = <<Frame(r, at)>> \o Below /\ reqs' = Tell(reqs, r, at)
      /\ UNCHANGED <<page, active, jsonpVars, etag, shown, spoilt>>
  BY DEF GlobalReturns, At, Idle
<1>2. /\ Top = frames[1] /\ Below = Rest(frames, 1) /\ 1 \in DOMAIN frames
  BY <1>1, TopIs
<1>3. frames[1].at = "global" /\ frames[1].at \in InDone
  BY <1>1, <1>2 DEF InDone
<1>4. ASSUME r \notin spoilt
      PROVE  reqs[r].globals /\ ~again
  <2>1. Tells(reqs[r], "global")
    BY <1>2, <1>3, <1>4 DEF IInv, Kept, Where
  <2>2. reqs[r].globals /\ reqs[r].told = <<"outcome", "global">>
    BY <2>1 DEF Tells, SoFar
  <2> QED
    BY <2>2 DEF Contains
<1> HIDE DEF again
<1>5. ToldNext(r, at)
  <2>1. r \notin spoilt => at = "complete" /\
          SoFar(reqs[r], at) = Append(SoFar(reqs[r], "global"), at)
    BY <1>4, Sofar
  <2>2. at \in {"global", "complete", "ajaxComplete"}
    OBVIOUS
  <2> HIDE DEF at
  <2>3. frames' = Replaced(r, 1, at)
    BY <1>1, <1>2 DEF Replaced
  <2> QED
    BY <1>1, <1>2, <1>3, <2>1, <2>2, <2>3 DEF ToldNext
<1> QED
  BY <1>5, ToldKeeps

(* The functions of complete return.                                       *)
LEMMA CompleteKeeps ==
  ASSUME IInv, CompleteReturns
  PROVE  IInv'
<1> DEFINE r == Top.r
<1>1. /\ frames # << >> /\ Top.at = "complete"
      /\ IF reqs[r].globals
         THEN /\ frames' = <<Frame(r, "ajaxComplete")>> \o Below
              /\ reqs' = Tell(reqs, r, "ajaxComplete")
         ELSE frames' = Below /\ UNCHANGED reqs
      /\ UNCHANGED <<page, active, jsonpVars, etag, shown, spoilt>>
  BY DEF CompleteReturns, At, Idle
<1>2. /\ Top = frames[1] /\ Below = Rest(frames, 1) /\ 1 \in DOMAIN frames
      /\ r \in 1 .. Len(reqs)
  BY <1>1, TopIs
<1>3. /\ frames[1].at = "complete" /\ frames[1].at \in InDone
      /\ frames[1].at \notin Entering /\ frames[1].at \in Points
  BY <1>1, <1>2 DEF Points, Entering, InAjax, InDone
<1>4. CASE reqs[r].globals
  <2>1. frames' = Replaced(r, 1, "ajaxComplete")
    BY <1>1, <1>2, <1>4 DEF Replaced
  <2>2. SoFar(reqs[r], "ajaxComplete")
          = Append(SoFar(reqs[r], "complete"), "ajaxComplete")
    BY <1>4, Sofar
  <2>3. ToldNext(r, "ajaxComplete")
    BY <1>1, <1>2, <1>3, <1>4, <2>1, <2>2 DEF ToldNext
  <2> QED
    BY <2>3, ToldKeeps
<1>5. CASE ~reqs[r].globals
  <2>1. r \notin spoilt => reqs[r].told = All(reqs[r])
    <3>1. r \notin spoilt => Tells(reqs[r], "complete")
      BY <1>2, <1>3 DEF IInv, Kept, Where
    <3> QED
      BY <1>5, <3>1 DEF Tells, SoFar, All
  <2>2. frames' = Replaced(r, 0, "complete")
    BY <1>1, <1>2, <1>5 DEF Replaced
  <2>3. /\ reqs' \in Seq(Request(page.settings)) /\ Len(reqs') = Len(reqs)
        /\ \A q \in 1 .. Len(reqs) : Alike(reqs'[q], reqs[q])
    BY <1>1, <1>5, Typing
  <2>4. Turning(r, 0, "complete")
    BY <1>1, <1>2, <1>3, <2>1, <2>2, <2>3 DEF Turning
  <2>5. UNCHANGED <<active, shown>>
    BY <1>1
  <2> QED
    BY <1>5, <2>4, <2>5, TurnKeeps
<1> QED
  BY <1>4, <1>5

(* A request that is not aborted by its prefilters goes on, and counts if  *)
(* it has global events.                                                   *)
LEMMA PrefilterLives ==
  ASSUME IInv, At("prefilter"), NEW r, r = Top.r, reqs[r].state # 2,
         NEW global \in BOOLEAN, reqs' = [reqs EXCEPT ![r].globals = global],
         NEW at \in {"ajaxStart", "beforeSend"},
         NEW e \in 0 .. 1, e = 1, frames' = Replaced(r, e, at),
         UNCHANGED <<page, jsonpVars, etag, spoilt>>,
         active' \in Int, shown' \in BOOLEAN
  PROVE  /\ Counts' => IInv'
         /\ r \in 1 .. Len(reqs) /\ Len(reqs') = Len(reqs)
         /\ \A q \in 1 .. Len(reqs) : q # r =>
              (Running(reqs', frames', q) <=> Running(reqs, frames, q))
         /\ r \notin spoilt => /\ ~Running(reqs, frames, r)
                               /\ Running(reqs', frames', r) <=> global
<1> DEFINE v == [reqs[r] EXCEPT !.globals = global]
<1>1. /\ frames # << >> /\ r = frames[1].r /\ frames[1].at = "prefilter"
      /\ r \in 1 .. Len(reqs) /\ 1 \in DOMAIN frames
  BY TopIs DEF At, Idle
<1>2. /\ frames[1].at \in Entering /\ at \in Points /\ at \in Entering
      /\ at \notin InDone
  BY <1>1 DEF Points, Entering, InAjax, InDone
<1>3. /\ frames' = <<Frame(r, at)>> \o Rest(frames, 1)
      /\ frames'[1] = Frame(r, at) /\ 1 \in DOMAIN frames'
      /\ \A points : IsIn(frames', r, points) /\ at \notin points =>
           \E k \in DOMAIN frames :
             k > 1 /\ frames[k].r = r /\ frames[k].at \in points
  BY <1>1, <1>2, TopReplaced
<1>4. /\ \A k \in DOMAIN frames : k > 1 /\ frames[k].r = r =>
           frames[k].at \notin Entering
      /\ reqs[r].outcome # "success"
      /\ ~reqs[r].coming /\ ~reqs[r].listening
      /\ r \notin spoilt =>
           /\ Enters(reqs[r], "prefilter")
           /\ reqs[r].state = 2 <=> reqs[r].outcome # "pending"
           /\ reqs[r].told = << >> /\ ~IsIn(frames, r, InDone)
  <2>1. /\ frames[1].at \in Entering =>
             /\ \A k \in DOMAIN frames : k > 1 /\ frames[k].r = r =>
                  frames[k].at \notin Entering
             /\ reqs[r].outcome # "success"
             /\ ~reqs[r].coming /\ ~reqs[r].listening
        /\ r \notin spoilt =>
             /\ \A k \in DOMAIN frames : frames[k].r = r =>
                  /\ frames[k].at \in Entering =>
                       Enters(reqs[r], frames[k].at)
                  /\ frames[k].at \in InDone => Tells(reqs[r], frames[k].at)
             /\ reqs[r].state = 2 <=> reqs[r].outcome # "pending"
             /\ reqs[r].state # 2 =>
                  reqs[r].told = << >> /\ ~IsIn(frames, r, InDone)
    BY <1>1, TopKnown
  <2> QED
    BY <1>1, <1>2, <2>1
<1>5. /\ reqs \in Seq(Request(page.settings))
      /\ reqs[r] \in Request(page.settings)
  BY <1>1, Typing
<1>6. /\ v \in Request(page.settings) /\ v.globals = global
      /\ v.s = reqs[r].s /\ v.state = reqs[r].state
      /\ v.told = reqs[r].told /\ v.outcome = reqs[r].outcome
      /\ v.name = reqs[r].name /\ v.overwritten = reqs[r].overwritten
      /\ v.data = reqs[r].data /\ v.silent = reqs[r].silent
      /\ v.coming = reqs[r].coming /\ v.listening = reqs[r].listening
  BY <1>5, ZenonT(60) DEF Request
<1>7. reqs' = [reqs EXCEPT ![r] = v]
  OBVIOUS
<1> HIDE DEF v
<1>8. /\ reqs' \in Seq(Request(page.settings)) /\ Len(reqs') = Len(reqs)
      /\ reqs'[r] = v
      /\ \A q \in 1 .. Len(reqs) : q # r => Alike(reqs'[q], reqs[q])
  BY <1>1, <1>5, <1>6, <1>7, Changed
<1>9. IsIn(frames', r, Entering)
  BY <1>2, <1>3 DEF IsIn, Frame
<1>10. r \notin spoilt => reqs[r].state = 0 /\ ~reqs[r].globals
  BY <1>4 DEF Enters
<1>11. Consistent(reqs', frames, frames', spoilt, r, 1, 1)
  <2>1. frames'[1].at = at
    BY <1>3 DEF Frame
  <2>2. r \notin spoilt => Enters(reqs'[r], at)
    BY <1>6, <1>8, <1>10 DEF Enters
  <2>3. r \notin spoilt =>
          \A k \in DOMAIN frames :
            frames[k].r = r => frames[k].at \notin InDone
    BY <1>4 DEF IsIn
  <2> QED
    BY <1>2, <1>4, <1>6, <1>8, <1>9, <1>10, <2>1, <2>2, <2>3 DEF Consistent
<1>12. Continued(reqs'[r], reqs[r])
  BY <1>4, <1>6, <1>8, SMTT(30) DEF Continued
<1>13. Advancing(r, 1, 1, at)
  BY <1>1, <1>2, <1>3, <1>4, <1>6, <1>8, <1>11, <1>12 DEF Advancing
<1>14. /\ Counts' => IInv'
       /\ \A q \in 1 .. Len(reqs) : q # r =>
            (Running(reqs', frames', q) <=> Running(reqs, frames, q))
  BY <1>1, <1>13, Advanced
<1>15. r \notin spoilt => /\ ~Running(reqs, frames, r)
                          /\ Running(reqs', frames', r) <=> global
  BY <1>4, <1>6, <1>8, <1>10 DEF Running
<1> QED
  BY <1>1, <1>8, <1>14, <1>15

(* The prefilters return.                                                  *)
LEMMA PrefilterKeeps ==
  ASSUME IInv, PrefilterReturns
  PROVE  IInv'
<1> DEFINE r == Top.r
           global == Global(reqs[r].s)
           at == IF global /\ active = 0 THEN "ajaxStart" ELSE "beforeSend"
<1>1. /\ At("prefilter") /\ frames # << >> /\ Top.at = "prefilter"
      /\ IF reqs[r].state = 2
         THEN /\ frames' = Below
              /\ UNCHANGED <<reqs, active, shown>>
         ELSE /\ reqs' = [reqs EXCEPT ![r].globals = global]
              /\ active' = IF global THEN active + 1 ELSE active
              /\ shown' = (shown \/ (global /\ active = 0))
              /\ frames' = <<Frame(r, at)>> \o Below
      /\ UNCHANGED <<page, jsonpVars, etag, spoilt>>
  BY DEF PrefilterReturns, At, Idle
<1>2. /\ Top = frames[1] /\ r \in 1 .. Len(reqs) /\ Below = Rest(frames, 1)
      /\ 1 \in DOMAIN frames
  BY <1>1, TopIs
<1>3. CASE reqs[r].state = 2
  <2>1. /\ frames[1].at \in Entering /\ frames[1].at \notin InDone
        /\ "prefilter" \in Points
    BY <1>1, <1>2 DEF Points, Entering, InAjax, InDone
  <2>2. frames' = Replaced(r, 0, "prefilter")
    BY <1>1, <1>2, <1>3 DEF Replaced
  <2>3. /\ reqs' \in Seq(Request(page.settings)) /\ Len(reqs') = Len(reqs)
        /\ \A q \in 1 .. Len(reqs) : Alike(reqs'[q], reqs[q])
    BY <1>1, <1>3, Typing
  <2>4. Turning(r, 0, "prefilter")
    BY <1>1, <1>2, <1>3, <2>1, <2>2, <2>3 DEF Turning
  <2>5. UNCHANGED <<active, shown>>
    BY <1>1, <1>3
  <2> QED
    BY <2>1, <2>4, <2>5, TurnKeeps
<1>4. CASE reqs[r].state # 2
  <2>1. global \in BOOLEAN /\ at \in {"ajaxStart", "beforeSend"}
    BY DEF Global
  <2> HIDE DEF global, at
  <2>2. /\ reqs' = [reqs EXCEPT ![r].globals = global]
        /\ active' = IF global THEN active + 1 ELSE active
        /\ shown' = (shown \/ (global /\ active = 0))
        /\ frames' = <<Frame(r, at)>> \o Below
    BY <1>1, <1>4
  <2>3. active' \in Int /\ shown' \in BOOLEAN /\ active \in Int
        /\ shown \in BOOLEAN
    <3>1. active \in Int /\ shown \in BOOLEAN
      BY DEF IInv, Typed
    <3> QED
      BY <2>2, <3>1
  <2>4. PICK e \in 0 .. 1 : e = 1
    OBVIOUS
  <2>5. frames' = Replaced(r, e, at)
    BY <1>2, <2>2, <2>4 DEF Replaced
  <2>6. /\ Counts' => IInv'
        /\ r \in 1 .. Len(reqs) /\ Len(reqs') = Len(reqs)
        /\ \A q \in 1 .. Len(reqs) : q # r =>
             (Running(reqs', frames', q) <=> Running(reqs, frames, q))
        /\ r \notin spoilt => /\ ~Running(reqs, frames, r)
                              /\ Running(reqs', frames', r) <=> global
    BY <1>1, <1>4, <2>1, <2>2, <2>3, <2>4, <2>5, PrefilterLives
  <2>7. Counts /\ Len(reqs) \in Nat /\ spoilt' = spoilt
    BY <1>1, Typing DEF IInv
  <2>8. CASE global
    <3>1. active' = active + 1
      BY <2>2, <2>8
    <3>2. shown' = (shown \/ active = 0)
      BY <2>2, <2>8
    <3>3. Counts'
      BY <2>3, <2>6, <2>7, <2>8, <3>1, <3>2, OneMore
    <3> QED
      BY <2>6, <3>3
  <2>9. CASE ~global
    <3>1. active' = active
      BY <2>2, <2>9
    <3>2. shown' = shown
      BY <2>2, <2>3, <2>9
    <3>3. Counts'
      BY <2>6, <2>7, <2>9, <3>1, <3>2, CountsKept
    <3> QED
      BY <2>6, <3>3
  <2> QED
    BY <2>8, <2>9
<1> QED
  BY <1>3, <1>4

(* The request is sent.                                                    *)
LEMMA SendKeeps ==
  ASSUME IInv, Send
  PROVE  IInv'
<1> DEFINE r == Top.r
           v == [reqs[r] EXCEPT !.state = 1,
                   !.timer = reqs[r].s.async /\ reqs[r].s.timeout,
                   !.listening = TRUE, !.coming = TRUE]
<1>1. /\ frames # << >> /\ Top.at = "ajaxSend"
      /\ reqs' = [WithTimer(reqs, r) EXCEPT ![r].listening = TRUE,
                                            ![r].coming = TRUE]
      /\ frames' = Below
      /\ UNCHANGED <<page, active, jsonpVars, etag, shown, spoilt>>
  BY DEF Send, At, Idle
<1>2. /\ Top = frames[1] /\ r \in 1 .. Len(reqs) /\ Below = Rest(frames, 1)
      /\ 1 \in DOMAIN frames
  BY <1>1, TopIs
<1>3. /\ reqs \in Seq(Request(page.settings))
      /\ reqs[r] \in Request(page.settings)
  BY <1>2, Typing
<1>4. /\ v \in Request(page.settings) /\ v.state = 1
      /\ v.s = reqs[r].s /\ v.globals = reqs[r].globals
      /\ v.told = reqs[r].told /\ v.outcome = reqs[r].outcome
      /\ v.name = reqs[r].name /\ v.overwritten = reqs[r].overwritten
      /\ v.data = reqs[r].data /\ v.silent = reqs[r].silent
  <2> DEFINE m == reqs[r].s.async /\ reqs[r].s.timeout
  <2>1. m \in BOOLEAN
    OBVIOUS
  <2>2. v = [reqs[r] EXCEPT !.state = 1, !.timer = m,
                            !.listening = TRUE, !.coming = TRUE]
    OBVIOUS
  <2> HIDE DEF m, v
  <2> QED
    BY <1>3, <2>1, <2>2, ZenonT(60) DEF Request
<1>5. reqs' = [reqs EXCEPT ![r] = v]
  BY <1>1, <1>2, <1>3, ZenonT(60) DEF WithTimer
<1> HIDE DEF v
<1>6. /\ reqs' \in Seq(Request(page.settings)) /\ Len(reqs') = Len(reqs)
      /\ reqs'[r] = v
      /\ \A q \in 1 .. Len(reqs) : q # r => Alike(reqs'[q], reqs[q])
  BY <1>2, <1>3, <1>4, <1>5, Changed
<1>7. /\ frames[1].at \in Entering /\ "ajaxSend" \in Points
      /\ "ajaxSend" \in Entering
  BY <1>1, <1>2 DEF Points, Entering, InAjax
<1>8. /\ \A k \in DOMAIN frames : k > 1 /\ frames[k].r = r =>
           frames[k].at \notin Entering
      /\ reqs[r].outcome # "success"
      /\ r \notin spoilt =>
           /\ reqs[r].state = 0 /\ reqs[r].outcome = "pending"
           /\ reqs[r].told = << >> /\ ~IsIn(frames, r, InDone)
  <2>1. /\ frames # << >> /\ r = frames[1].r
    BY <1>1, <1>2
  <2>2. /\ frames[1].at \in Entering =>
             /\ \A k \in DOMAIN frames : k > 1 /\ frames[k].r = r =>
                  frames[k].at \notin Entering
             /\ reqs[r].outcome # "success"
             /\ ~reqs[r].coming /\ ~reqs[r].listening
        /\ r \notin spoilt =>
             /\ \A k \in DOMAIN frames : frames[k].r = r =>
                  /\ frames[k].at \in Entering =>
                       Enters(reqs[r], frames[k].at)
                  /\ frames[k].at \in InDone => Tells(reqs[r], frames[k].at)
             /\ reqs[r].state = 2 <=> reqs[r].outcome # "pending"
             /\ reqs[r].state # 2 =>
                  reqs[r].told = << >> /\ ~IsIn(frames, r, InDone)
    BY <2>1, TopKnown
  <2>3. r \notin spoilt => reqs[r].state = 0
    BY <1>1, <1>2, <1>7, <2>2 DEF Enters
  <2> QED
    BY <1>7, <2>2, <2>3
<1>9. r \notin spoilt =>
        \A k \in DOMAIN frames : frames[k].r = r => frames[k].at \notin InDone
  BY <1>8 DEF IsIn
<1>10. PICK e \in 0 .. 1 : e = 0
  OBVIOUS
<1>11. Consistent(reqs', frames, frames', spoilt, r, 1, e)
  BY <1>4, <1>6, <1>8, <1>9, <1>10 DEF Consistent
<1>12. Shift(frames, frames', r, 1, e)
  <2> DEFINE one == 1
  <2>1. /\ one \in 0 .. 1 /\ frames \in Seq(Activation(Len(reqs)))
        /\ one = 1 => frames # << >> /\ frames[1].r = r
        /\ Len(reqs) \in Nat /\ one = 1 /\ "ajaxSend" \in Points
    BY <1>1, <1>2, <1>7, Typing
  <2> HIDE DEF one
  <2>2. Shift(frames, Rest(frames, one), r, one, 0)
    BY <1>2, <2>1, Shifts
  <2> QED
    BY <1>1, <1>2, <1>10, <2>1, <2>2
<1>13. ASSUME NEW j \in DOMAIN frames', frames'[j].r = r
       PROVE  frames'[j].at \notin Entering
  <2>1. frames' \in Seq(Activation(Len(reqs)))
    BY <1>1, Typing, Popped DEF Below
  <2>2. j \in 1 .. Len(frames') /\ Len(frames') \in Nat
    BY <2>1
  <2>3. j - e + 1 \in DOMAIN frames /\ frames'[j] = frames[j - e + 1]
    BY <1>10, <1>12, <2>2 DEF Shift
  <2>4. j - e + 1 > 1
    BY <1>10, <2>2
  <2> QED
    BY <1>8, <1>13, <2>3, <2>4
<1>14. Continued(reqs'[r], reqs[r])
  BY <1>4, <1>6, <1>8, SMTT(30) DEF Continued
<1>15. Advancing(r, 1, e, "ajaxSend")
  BY <1>1, <1>2, <1>6, <1>7, <1>10, <1>11, <1>13, <1>14, SMTT(30) DEF Advancing
<1>16. /\ Counts' => IInv'
       /\ \A q \in 1 .. Len(reqs) : q # r =>
            (Running(reqs', frames', q) <=> Running(reqs, frames, q))
  <2> DEFINE one == 1
             at == "ajaxSend"
  <2>1. one \in 0 .. 1 /\ Advancing(r, one, e, at)
    BY <1>15
  <2>2. active' \in Int /\ shown' \in BOOLEAN
    BY <1>1 DEF IInv, Typed
  <2>3. UNCHANGED <<page, jsonpVars, etag, spoilt>>
    BY <1>1
  <2> HIDE DEF one, at
  <2> QED
    BY <1>2, <2>1, <2>2, <2>3, Advanced
<1>17. r \notin spoilt =>
         (Running(reqs', frames', r) <=> Running(reqs, frames, r))
  BY <1>4, <1>6, <1>8 DEF Running
<1>18. Counts'
  <2>1. /\ Counts /\ UNCHANGED <<active, shown>> /\ spoilt' = spoilt
        /\ spoilt' = {} =>
             \A q \in 1 .. Len(reqs) :
               Running(reqs', frames', q) <=> Running(reqs, frames, q)
    BY <1>1, <1>16, <1>17 DEF IInv
  <2> QED
    BY <1>6, <2>1, CountsKept
<1> QED
  BY <1>16, <1>18

(* A script runs; done() is called if nobody has given it up.              *)
LEMMA ScriptKeeps ==
  ASSUME IInv, NEW r \in 1 .. Len(reqs), NEW calls \in BOOLEAN,
         ScriptLoads(r, calls)
  PROVE  IInv'
<1> DEFINE ran == IF calls THEN ScriptRuns(reqs, r) ELSE reqs
           here == [ran EXCEPT ![r].listening = FALSE, ![r].coming = FALSE,
                               ![r].silent = ~calls]
           v == [ran[r] EXCEPT !.listening = FALSE, !.coming = FALSE,
                               !.silent = ~calls]
<1>1. /\ frames = << >> /\ reqs[r].coming
      /\ IF reqs[r].listening
         THEN Done(here, r, Loaded, << >>)
         ELSE /\ reqs' = here
              /\ UNCHANGED <<frames, jsonpVars, etag, element>>
      /\ UNCHANGED <<page, active, shown>> /\ spoilt' = spoilt
  BY DEF ScriptLoads, Idle
<1>2. /\ reqs \in Seq(Request(page.settings)) /\ r \in Ids
      /\ window \in [Names -> Ids \cup {None}]
      /\ \A q \in 1 .. Len(reqs) : Alike(reqs[q], reqs[q])
  BY Typing
<1>3. /\ ran \in Seq(Request(page.settings)) /\ Len(ran) = Len(reqs)
      /\ \A q \in 1 .. Len(reqs) : Alike(ran[q], reqs[q])
      /\ calls /\ reqs[r].name # None /\ window[reqs[r].name] = r =>
           ran[r].container = r
  <2>1. CASE calls
    <3>1. /\ ScriptRuns(reqs, r) \in Seq(Request(page.settings))
          /\ Len(ScriptRuns(reqs, r)) = Len(reqs)
          /\ \A q \in 1 .. Len(reqs) : Alike(ScriptRuns(reqs, r)[q], reqs[q])
          /\ reqs[r].name # None /\ window[reqs[r].name] = r =>
               ScriptRuns(reqs, r)[r].container = r
      BY <1>2, ScriptRan
    <3> QED
      BY <2>1, <3>1
  <2>2. CASE ~calls
    BY <1>2, <2>2
  <2> QED
    BY <2>1, <2>2
<1>4. here = [ran EXCEPT ![r] = v]
  OBVIOUS
<1> HIDE DEF ran
<1>5. ran[r] \in Request(page.settings) /\ r \in 1 .. Len(ran)
  BY <1>3
<1>6. /\ v \in Request(page.settings) /\ ~v.coming /\ ~v.listening
      /\ v.silent = ~calls /\ v.container = ran[r].container
      /\ v.s = ran[r].s /\ v.state = ran[r].state
      /\ v.globals = ran[r].globals /\ v.told = ran[r].told
      /\ v.outcome = ran[r].outcome /\ v.name = ran[r].name
      /\ v.overwritten = ran[r].overwritten /\ v.data = ran[r].data
  <2> DEFINE silent == ~calls
  <2>1. silent \in BOOLEAN
    OBVIOUS
  <2>2. v = [ran[r] EXCEPT !.listening = FALSE, !.coming = FALSE,
                           !.silent = silent]
    OBVIOUS
  <2> HIDE DEF v, silent
  <2>3. /\ v \in Request(page.settings) /\ ~v.coming /\ ~v.listening
        /\ v.silent = silent /\ v.container = ran[r].container
        /\ v.s = ran[r].s /\ v.state = ran[r].state
        /\ v.globals = ran[r].globals /\ v.told = ran[r].told
        /\ v.outcome = ran[r].outcome /\ v.name = ran[r].name
        /\ v.overwritten = ran[r].overwritten /\ v.data = ran[r].data
    BY <1>5, <2>1, <2>2 DEF Request
  <2> QED
    BY <2>3 DEF silent
<1> HIDE DEF v, here
<1>7. /\ here \in Seq(Request(page.settings)) /\ Len(here) = Len(reqs)
      /\ here[r] = v
      /\ \A q \in 1 .. Len(reqs) : q # r => Alike(here[q], reqs[q])
  <2>1. /\ here \in Seq(Request(page.settings)) /\ Len(here) = Len(ran)
        /\ here[r] = v
        /\ \A q \in 1 .. Len(ran) : q # r => Alike(here[q], ran[q])
    BY <1>3, <1>4, <1>5, <1>6, Changed
  <2> QED
    BY <1>3, <2>1 DEF Alike, Same
<1>8. /\ v.s = reqs[r].s /\ v.state = reqs[r].state
      /\ v.globals = reqs[r].globals /\ v.told = reqs[r].told
      /\ v.outcome = reqs[r].outcome /\ v.name = reqs[r].name
      /\ v.overwritten = reqs[r].overwritten /\ v.data = reqs[r].data
  BY <1>3, <1>6 DEF Alike, Same
<1>9. reqs[r].outcome # "success"
  BY <1>1 DEF IInv, Own
<1>10. CASE reqs[r].listening
  <2>1. Done(here, r, Loaded, << >>) /\ Rest(frames, 0) = << >>
    BY <1>1, <1>10 DEF Rest
  <2>2. Prepared(here[r], reqs[r])
    BY <1>6, <1>7, <1>8, <1>9 DEF Prepared
  <2>3. ASSUME here[r].s.jsonp = "generated", here[r].outcome = "pending",
               ~here[r].silent
        PROVE  here[r].container = r
    <3>1. calls /\ reqs[r].s.jsonp = "generated" /\ reqs[r].outcome = "pending"
      BY <1>6, <1>7, <1>8, <2>3
    <3>2. reqs[r].name \in 1 .. nonce - 1 /\ window[reqs[r].name] = r
      BY <3>1 DEF IInv, Held
    <3>3. reqs[r].name # None
      BY <3>2 DEF None
    <3> QED
      BY <1>3, <1>6, <1>7, <3>1, <3>2, <3>3
  <2>4. Answering(here, r, Loaded, 0, spoilt')
    BY <1>1, <1>6, <1>7, <1>8, <2>2, <2>3 DEF Answering, Idle
  <2> QED
    BY <1>1, <2>1, <2>4, AnswerKeeps
<1>11. CASE ~reqs[r].listening
  <2>1. /\ reqs' = here /\ frames' = frames
        /\ UNCHANGED <<page, active, shown, jsonpVars, etag, spoilt>>
    BY <1>1, <1>11
  <2>2. r \notin spoilt =>
          /\ reqs[r].state = 2 <=> reqs[r].outcome # "pending"
          /\ reqs[r].state = 0 => IsIn(frames, r, Entering)
          /\ reqs[r].state # 2 => reqs[r].told = << >>
          /\ reqs[r].state = 2 =>
               IsIn(frames, r, InDone) \/ reqs[r].told = All(reqs[r])
    BY DEF IInv, Kept, Known
  <2>3. All(here[r]) = All(reqs[r])
    BY <1>7, <1>8 DEF All
  <2>4. PICK none \in 0 .. 1 : none = 0
    OBVIOUS
  <2>5. Consistent(reqs', frames, frames', spoilt, r, none, none)
    BY <1>1, <1>7, <1>8, <2>1, <2>2, <2>3, <2>4 DEF Consistent
  <2>6. Continued(reqs'[r], reqs[r])
    BY <1>6, <1>7, <1>8, <1>9, <2>1 DEF Continued
  <2>7. PICK at \in Points : at = "ajaxStop"
    BY DEF Points
  <2>8. frames' = IF none = 1 THEN <<Frame(r, at)>> \o Rest(frames, none)
                  ELSE Rest(frames, none)
    BY <2>1, <2>4 DEF Rest
  <2>9. Advancing(r, none, none, at)
    BY <1>1, <1>7, <2>1, <2>4, <2>5, <2>6, <2>7, <2>8 DEF Advancing
  <2>10. /\ Counts' => IInv'
         /\ \A q \in 1 .. Len(reqs) : q # r =>
              (Running(reqs', frames', q) <=> Running(reqs, frames, q))
    <3>1. active' \in Int /\ shown' \in BOOLEAN
      BY <2>1 DEF IInv, Typed
    <3>2. UNCHANGED <<page, jsonpVars, etag, spoilt>>
      BY <2>1
    <3> QED
      BY <2>9, <3>1, <3>2, Advanced
  <2>11. Running(reqs', frames', r) <=> Running(reqs, frames, r)
    BY <1>7, <1>8, <2>1 DEF Running
  <2>12. Counts'
    <3>1. /\ Counts /\ UNCHANGED <<active, shown>> /\ spoilt' = spoilt
          /\ Len(reqs') = Len(reqs)
          /\ \A q \in 1 .. Len(reqs) :
               Running(reqs', frames', q) <=> Running(reqs, frames, q)
      BY <1>7, <2>1, <2>10, <2>11 DEF IInv
    <3> QED
      BY <3>1, CountsKept
  <2> QED
    BY <2>10, <2>12
<1> QED
  BY <1>10, <1>11

-----------------------------------------------------------------------------
(* A new request.                                                          *)
LEMMA Pointed ==
  ASSUME NEW S, NEW old \in Seq(S), old # << >>
  PROVE  /\ Front(old) \in Seq(S) /\ Len(Front(old)) = Len(old) - 1
         /\ \A i \in 1 .. Len(old) - 1 : Front(old)[i] = old[i]
         /\ Last(old) = old[Len(old)] /\ Len(old) \in 1 .. Len(old)
         /\ Last(old) \in S
<1> DEFINE n == Len(old) - 1
           m == 1
<1>1. /\ n \in Nat /\ n \in Int /\ m \in Int /\ m = 1
      /\ \A i \in 1 .. Len(old) : old[i] \in S
      /\ Len(old) \in 1 .. Len(old)
  OBVIOUS
<1>2. Front(old) = SubSeq(old, m, n) /\ Last(old) = old[Len(old)]
  BY DEF Front, Last
<1>3. \A i \in m .. n : old[i] \in S
  BY <1>1
<1> HIDE DEF m
<1>4. /\ SubSeq(old, m, n) \in Seq(S)
      /\ Len(SubSeq(old, m, n)) = IF m <= n THEN n - m + 1 ELSE 0
      /\ \A i \in 1 .. n - m + 1 : SubSeq(old, m, n)[i] = old[m + i - 1]
  BY <1>1, <1>3, SubSeqProperties
<1>5. Len(SubSeq(old, m, n)) = n
  <2> HIDE DEF n
  <2>1. m = 1 /\ n \in Nat
    BY <1>1
  <2>2. Len(SubSeq(old, m, n)) = IF m <= n THEN n - m + 1 ELSE 0
    BY <1>4
  <2> QED
    BY <2>1, <2>2
<1>6. \A i \in 1 .. n : SubSeq(old, m, n)[i] = old[i]
  <2> HIDE DEF n
  <2> TAKE i \in 1 .. n
  <2>1. m = 1 /\ m \in Int /\ n \in Nat
    BY <1>1
  <2>2. i \in 1 .. n - m + 1 /\ m + i - 1 = i
    BY <2>1
  <2>3. SubSeq(old, m, n)[i] = old[m + i - 1]
    BY <1>4, <2>2
  <2> QED
    BY <2>2, <2>3
<1> QED
  BY <1>1, <1>2, <1>4, <1>5, <1>6

(* What is kept of the names from the requests R to Q.                     *)
NamesKeep(R, Q, w, old, n, w2, old2, n2) ==
  /\ w2 \in [Names -> Ids \cup {None}] /\ old2 \in Seq(Ids)
  /\ n2 \in 1 .. Len(Q) + 1
  /\ Held(Q, w2, n2) /\ Free(w2, old2, n2)

(* The request Q[r] gets the generated name m, that was bound to nothing.  *)
Naming(Q, r, m, w, n, old, w2, n2, old2) ==
  /\ w[m] = None
  /\ Q[r].s.jsonp = "generated" /\ Q[r].name = m
  /\ Q[r].overwritten = None /\ Q[r].outcome = "pending"
  /\ w2 = [w EXCEPT ![m] = r]
  /\ n2 \in {n, n + 1} /\ m < n2
  /\ old2 \in Seq(Ids)
  /\ \A i \in DOMAIN old2 :
       i \in DOMAIN old /\ old2[i] = old[i] /\ old2[i] # m

(* Such a request keeps the invariants of the names.                       *)
LEMMA NameMade ==
  ASSUME NEW S \in SUBSET Settings, NEW R \in Seq(Request(S)),
         NEW Q \in Seq(Request(S)), Len(Q) = Len(R) + 1,
         Len(Q) <= MaxRequests, \A q \in 1 .. Len(R) : Q[q] = R[q],
         NEW w \in [Names -> Ids \cup {None}], NEW n \in 1 .. Len(R) + 1,
         NEW old \in Seq(Ids), Held(R, w, n), Free(w, old, n),
         NEW m \in Ids, NEW w2, NEW n2, NEW old2,
         Naming(Q, Len(Q), m, w, n, old, w2, n2, old2)
  PROVE  NamesKeep(R, Q, w, old, n, w2, old2, n2)
<1> USE DEF Naming
<1>1. /\ MaxRequests \in Nat /\ Ids = 1 .. MaxRequests
      /\ Names = 1 .. MaxRequests + 1 /\ None = 0 /\ Len(R) \in Nat
  BY AjaxAssumption DEF Ids, Names, Named, None
<1>2. /\ w2[m] = Len(Q) /\ w2 \in [Names -> Ids \cup {None}]
      /\ \A k \in Names : k # m => w2[k] = w[k]
  BY <1>1
<1>3. Held(Q, w2, n2)
  <2>1. ASSUME NEW q \in 1 .. Len(Q)
        PROVE  /\ Q[q].s.jsonp = "no" => Q[q].name = None
               /\ Q[q].s.jsonp = "named" => Q[q].name = Named
               /\ Q[q].s.jsonp = "generated" =>
                    /\ Q[q].name \in 1 .. n2 - 1 /\ Q[q].overwritten = None
                    /\ Q[q].outcome = "pending" => w2[Q[q].name] = q
    <3>1. CASE q = Len(Q)
      BY <1>1, <1>2, <3>1
    <3>2. CASE q # Len(Q)
      <4>1. q \in 1 .. Len(R) /\ Q[q] = R[q]
        BY <1>1, <3>2, SMTT(30)
      <4>2. /\ R[q].s.jsonp = "no" => R[q].name = None
            /\ R[q].s.jsonp = "named" => R[q].name = Named
            /\ R[q].s.jsonp = "generated" =>
                 /\ R[q].name \in 1 .. n - 1 /\ R[q].overwritten = None
                 /\ R[q].outcome = "pending" => w[R[q].name] = q
        BY <4>1 DEF Held
      <4>3. R[q].s.jsonp = "generated" => R[q].name \in Names
        BY <1>1, <4>2
      <4>4. R[q].s.jsonp = "generated" /\ R[q].outcome = "pending" =>
              R[q].name # m
        BY <1>1, <4>1, <4>2
      <4> QED
        BY <1>2, <4>1, <4>2, <4>3, <4>4
    <3> QED
      BY <3>1, <3>2
  <2>2. ASSUME NEW k \in Ids, w2[k] # None
        PROVE  /\ w2[k] \in 1 .. Len(Q) /\ Q[w2[k]].s.jsonp = "generated"
               /\ Q[w2[k]].outcome = "pending" /\ Q[w2[k]].name = k
    <3>1. CASE k = m
      BY <1>1, <1>2, <3>1
    <3>2. CASE k # m
      <4>1. w2[k] = w[k]
        BY <1>1, <1>2, <3>2
      <4>2. /\ w[k] \in 1 .. Len(R) /\ R[w[k]].s.jsonp = "generated"
            /\ R[w[k]].outcome = "pending" /\ R[w[k]].name = k
        BY <2>2, <4>1 DEF Held
      <4> QED
        BY <1>1, <4>1, <4>2, SMTT(30)
    <3> QED
      BY <3>1, <3>2
  <2> QED
    BY <2>1, <2>2 DEF Held
<1>4. Free(w2, old2, n2)
  <2>1. \A k \in Ids : k >= n2 => w2[k] = None
    BY <1>1, <1>2, SMTT(30) DEF Free
  <2>2. ASSUME NEW i \in DOMAIN old2
        PROVE  old2[i] < n2 /\ w2[old2[i]] = None
    <3>1. /\ i \in DOMAIN old /\ old2[i] = old[i] /\ old2[i] # m
          /\ old[i] \in Ids
      OBVIOUS
    <3>2. old[i] < n /\ w[old[i]] = None
      BY <3>1 DEF Free
    <3> QED
      BY <1>1, <1>2, <3>1, <3>2
  <2>3. \A i, j \in DOMAIN old2 : old2[i] = old2[j] => i = j
    BY DEF Free
  <2> QED
    BY <2>1, <2>2, <2>3 DEF Free
<1>5. n2 \in 1 .. Len(Q) + 1
  BY <1>1
<1> QED
  BY <1>2, <1>3, <1>4, <1>5 DEF NamesKeep

(* A request without JSONP, or with a name of the page's.                  *)
LEMMA NameTaken ==
  ASSUME NEW S \in SUBSET Settings, NEW R \in Seq(Request(S)),
         NEW Q \in Seq(Request(S)), Len(Q) = Len(R) + 1,
         Len(Q) <= MaxRequests, \A q \in 1 .. Len(R) : Q[q] = R[q],
         NEW w \in [Names -> Ids \cup {None}], NEW n \in 1 .. Len(R) + 1,
         NEW old \in Seq(Ids), Held(R, w, n), Free(w, old, n),
         \/ Q[Len(Q)].s.jsonp = "no" /\ Q[Len(Q)].name = None
         \/ Q[Len(Q)].s.jsonp = "named" /\ Q[Len(Q)].name = Named,
         NEW w2 \in [Names -> Ids \cup {None}], \A m \in Ids : w2[m] = w[m]
  PROVE  NamesKeep(R, Q, w, old, n, w2, old, n)
<1>1. /\ MaxRequests \in Nat /\ Ids = 1 .. MaxRequests /\ Len(R) \in Nat
  BY AjaxAssumption DEF Ids
<1>2. Held(Q, w2, n)
  <2>1. ASSUME NEW q \in 1 .. Len(Q)
        PROVE  /\ Q[q].s.jsonp = "no" => Q[q].name = None
               /\ Q[q].s.jsonp = "named" => Q[q].name = Named
               /\ Q[q].s.jsonp = "generated" =>
                    /\ Q[q].name \in 1 .. n - 1 /\ Q[q].overwritten = None
                    /\ Q[q].outcome = "pending" => w2[Q[q].name] = q
    <3>1. CASE q = Len(Q)
      BY <3>1
    <3>2. CASE q # Len(Q)
      <4>1. q \in 1 .. Len(R) /\ Q[q] = R[q]
        BY <1>1, <3>2
      <4>2. /\ R[q].s.jsonp = "no" => R[q].name = None
            /\ R[q].s.jsonp = "named" => R[q].name = Named
            /\ R[q].s.jsonp = "generated" =>
                 /\ R[q].name \in 1 .. n - 1 /\ R[q].overwritten = None
                 /\ R[q].outcome = "pending" => w[R[q].name] = q
        BY <4>1 DEF Held
      <4>3. R[q].s.jsonp = "generated" => R[q].name \in Ids
        BY <1>1, <4>2
      <4> QED
        BY <4>1, <4>2, <4>3
    <3> QED
      BY <3>1, <3>2
  <2>2. ASSUME NEW k \in Ids, w2[k] # None
        PROVE  /\ w2[k] \in 1 .. Len(Q) /\ Q[w2[k]].s.jsonp = "generated"
               /\ Q[w2[k]].outcome = "pending" /\ Q[w2[k]].name = k
    <3>1. /\ w2[k] = w[k] /\ w[k] \in 1 .. Len(R)
          /\ R[w[k]].s.jsonp = "generated"
          /\ R[w[k]].outcome = "pending" /\ R[w[k]].name = k
      BY <2>2 DEF Held
    <3> QED
      BY <1>1, <3>1
  <2> QED
    BY <2>1, <2>2 DEF Held
<1>3. Free(w2, old, n)
  <2>1. \A i \in DOMAIN old : old[i] \in Ids
    OBVIOUS
  <2> QED
    BY <2>1 DEF Free
<1>4. n \in 1 .. Len(Q) + 1
  BY <1>1
<1> QED
  BY <1>2, <1>3, <1>4 DEF NamesKeep

(* A generated name is bound to nothing when it is given, also one that    *)
(* had been given before.                                                  *)
LEMMA NameChosen ==
  ASSUME IInv, NEW s \in page.settings, Ajax(s)
  PROVE  /\ s \in Settings /\ s.jsonp \in {"no", "named", "generated"}
         /\ s.jsonp = "no" => NameFor(s) = None
         /\ s.jsonp = "named" => NameFor(s) = Named
         /\ s.jsonp = "generated" =>
              NameFor(s) \in Ids /\ window[NameFor(s)] = None
         /\ NameFor(s) \in Names \cup {None}
         /\ nonce \in Ids /\ Len(reqs) + 1 \in Ids
<1>1. /\ Len(reqs) < page.requests /\ page.requests \in 0 .. MaxRequests
      /\ MaxRequests \in Nat /\ Len(reqs) \in Nat /\ s \in Settings
  BY Typing DEF Ajax
<1>2. /\ nonce \in 1 .. Len(reqs) + 1 /\ oldCallbacks \in Seq(Ids)
      /\ Free(window, oldCallbacks, nonce)
  BY DEF IInv, Typed
<1>3. nonce \in Ids /\ Len(reqs) + 1 \in Ids
  BY <1>1, <1>2 DEF Ids
<1>4. s.jsonp \in {"no", "named", "generated"}
  BY <1>1 DEF Settings
<1>5. /\ s.jsonp = "no" => NameFor(s) = None
      /\ s.jsonp = "named" => NameFor(s) = Named
  BY DEF NameFor
<1>6. ASSUME s.jsonp = "generated"
      PROVE  NameFor(s) \in Ids /\ window[NameFor(s)] = None
  <2>1. CASE oldCallbacks # << >>
    <3>1. NameFor(s) = Last(oldCallbacks)
      BY <1>6, <2>1 DEF NameFor, Again
    <3>2. /\ Last(oldCallbacks) = oldCallbacks[Len(oldCallbacks)]
          /\ Len(oldCallbacks) \in 1 .. Len(oldCallbacks)
          /\ Last(oldCallbacks) \in Ids
      BY <1>2, <2>1, Pointed
    <3>3. Len(oldCallbacks) \in DOMAIN oldCallbacks
      BY <1>2, <3>2
    <3> QED
      BY <1>2, <3>1, <3>2, <3>3 DEF Free
  <2>2. CASE oldCallbacks = << >>
    <3>1. NameFor(s) = nonce
      BY <1>6, <2>2 DEF NameFor, Again
    <3> QED
      BY <1>1, <1>2, <1>3, <3>1 DEF Free, Ids
  <2> QED
    BY <2>1, <2>2
<1>7. NameFor(s) \in Names \cup {None}
  <2>1. Ids \subseteq Names /\ Named \in Names
    BY <1>1 DEF Ids, Names, Named
  <2> QED
    BY <1>4, <1>5, <1>6, <2>1
<1> QED
  BY <1>1, <1>3, <1>4, <1>5, <1>6, <1>7

(* The request that ajax() adds.                                           *)
LEMMA RequestMade ==
  ASSUME IInv, NEW s \in page.settings, Ajax(s),
         NEW r, r = Len(reqs) + 1
  PROVE  /\ reqs' \in Seq(Request(page.settings)) /\ Len(reqs') = r
         /\ \A q \in 1 .. Len(reqs) : reqs'[q] = reqs[q]
         /\ reqs'[r] = NewRequest(s, NameFor(s))
<1> DEFINE name == NameFor(s)
           v == NewRequest(s, name)
<1>1. /\ name \in Names \cup {None} /\ reqs \in Seq(Request(page.settings))
      /\ window \in [Names -> Ids \cup {None}]
  BY NameChosen, Typing
<1> HIDE DEF name
<1>2. v \in Request(page.settings)
  <2> DEFINE over == IF name = None THEN None ELSE window[name]
  <2>1. over \in Ids \cup {None}
    BY <1>1
  <2>2. << >> \in Seq(InDone) /\ None \in Ids \cup {None}
    OBVIOUS
  <2>3. v = [s |-> s, state |-> 0, transport |-> "undefined", timer |-> FALSE,
             globals |-> FALSE, name |-> name, overwritten |-> over,
             container |-> None, listening |-> FALSE, coming |-> FALSE,
             asked |-> FALSE, silent |-> FALSE, outcome |-> "pending",
             data |-> None, told |-> <<>>]
    BY DEF NewRequest
  <2> HIDE DEF v, over
  <2> QED
    BY <1>1, <2>1, <2>2, <2>3 DEF Request
<1>3. reqs' = Append(reqs, v)
  BY DEF Ajax, name
<1> HIDE DEF v
<1>4. /\ Append(reqs, v) \in Seq(Request(page.settings))
      /\ Len(Append(reqs, v)) = Len(reqs) + 1
      /\ Append(reqs, v)[Len(reqs) + 1] = v
      /\ \A i \in 1 .. Len(reqs) : Append(reqs, v)[i] = reqs[i]
  BY <1>1, <1>2, AppendedAt
<1> QED
  BY <1>3, <1>4 DEF v, name

(* ajax() keeps the invariants of the names.                               *)
LEMMA NamesGiven ==
  ASSUME IInv, NEW s \in page.settings, Ajax(s)
  PROVE  NamesKeep(reqs, reqs', window, oldCallbacks, nonce,
                   window', oldCallbacks', nonce')
<1> DEFINE r == Len(reqs) + 1
           name == NameFor(s)
           S == page.settings
<1>1. /\ S \in SUBSET Settings /\ reqs \in Seq(Request(S))
      /\ window \in [Names -> Ids \cup {None}] /\ oldCallbacks \in Seq(Ids)
      /\ nonce \in 1 .. Len(reqs) + 1 /\ Len(reqs) \in Nat
      /\ MaxRequests \in Nat
      /\ Held(reqs, window, nonce) /\ Free(window, oldCallbacks, nonce)
  BY Typing DEF IInv, Typed
<1>2. /\ window' = IF name = None THEN window ELSE [window EXCEPT ![name] = r]
      /\ oldCallbacks' = IF Again(s) THEN Front(oldCallbacks)
                         ELSE oldCallbacks
      /\ nonce' = IF name = nonce THEN nonce + 1 ELSE nonce
  BY DEF Ajax
<1>3. /\ reqs' \in Seq(Request(S)) /\ Len(reqs') = r
      /\ \A q \in 1 .. Len(reqs) : reqs'[q] = reqs[q]
      /\ reqs'[r] = NewRequest(s, name)
  BY RequestMade
<1>4. /\ s \in Settings /\ s.jsonp \in {"no", "named", "generated"}
      /\ s.jsonp = "no" => name = None
      /\ s.jsonp = "named" => name = Named
      /\ s.jsonp = "generated" => name \in Ids /\ window[name] = None
      /\ nonce \in Ids /\ r \in Ids
  BY NameChosen
<1>5. /\ reqs'[r].s = s /\ reqs'[r].name = name
      /\ reqs'[r].outcome = "pending"
      /\ name # None => reqs'[r].overwritten = window[name]
  BY <1>3 DEF NewRequest
<1>6. /\ Len(reqs') = Len(reqs) + 1 /\ Len(reqs') <= MaxRequests
      /\ Ids = 1 .. MaxRequests /\ None = 0 /\ Named = MaxRequests + 1
      /\ Names = 1 .. MaxRequests + 1
  BY <1>1, <1>3, <1>4 DEF Ids, None, Named, Names
<1>7. CASE s.jsonp = "generated"
  <2>1. /\ name \in Ids /\ window[name] = None /\ name # None
        /\ reqs'[Len(reqs')].s.jsonp = "generated"
        /\ reqs'[Len(reqs')].name = name
        /\ reqs'[Len(reqs')].overwritten = None
        /\ reqs'[Len(reqs')].outcome = "pending"
    BY <1>3, <1>4, <1>5, <1>6, <1>7
  <2>2. window' = [window EXCEPT ![name] = Len(reqs')]
    BY <1>2, <1>3, <2>1
  <2>3. /\ nonce' \in {nonce, nonce + 1} /\ name < nonce'
        /\ oldCallbacks' \in Seq(Ids)
        /\ \A i \in DOMAIN oldCallbacks' :
             i \in DOMAIN oldCallbacks /\ oldCallbacks'[i] = oldCallbacks[i]
        /\ \A i \in DOMAIN oldCallbacks' : oldCallbacks'[i] # name
    <3>1. CASE oldCallbacks # << >>
      <4>1. Again(s) /\ name = Last(oldCallbacks)
        BY <1>7, <3>1 DEF NameFor, Again
      <4>2. /\ Front(oldCallbacks) \in Seq(Ids)
            /\ Len(Front(oldCallbacks)) = Len(oldCallbacks) - 1
            /\ \A i \in 1 .. Len(oldCallbacks) - 1 :
                 Front(oldCallbacks)[i] = oldCallbacks[i]
            /\ Last(oldCallbacks) = oldCallbacks[Len(oldCallbacks)]
            /\ Len(oldCallbacks) \in 1 .. Len(oldCallbacks)
        BY <1>1, <3>1, Pointed
      <4>3. oldCallbacks' = Front(oldCallbacks)
        BY <1>2, <4>1
      <4>4. /\ DOMAIN oldCallbacks = 1 .. Len(oldCallbacks)
            /\ DOMAIN oldCallbacks' = 1 .. Len(oldCallbacks) - 1
            /\ Len(oldCallbacks) \in Nat
        BY <1>1, <4>2, <4>3
      <4>5. name < nonce
        BY <1>1, <4>1, <4>2, <4>4 DEF Free
      <4>6. nonce' = nonce
        BY <1>1, <1>2, <1>4, <1>6, <2>1, <4>5
      <4>7. ASSUME NEW i \in DOMAIN oldCallbacks'
            PROVE  /\ i \in DOMAIN oldCallbacks
                   /\ oldCallbacks'[i] = oldCallbacks[i]
                   /\ oldCallbacks'[i] # name
        <5>1. /\ i \in DOMAIN oldCallbacks /\ i # Len(oldCallbacks)
              /\ oldCallbacks'[i] = oldCallbacks[i]
          BY <4>2, <4>3, <4>4
        <5>2. Len(oldCallbacks) \in DOMAIN oldCallbacks
          BY <4>2, <4>4
        <5> QED
          BY <1>1, <4>1, <4>2, <5>1, <5>2 DEF Free
      <4> QED
        BY <4>2, <4>3, <4>5, <4>6, <4>7
    <3>2. CASE oldCallbacks = << >>
      <4>1. ~Again(s) /\ name = nonce
        BY <1>7, <3>2 DEF NameFor, Again
      <4>2. oldCallbacks' = << >> /\ nonce' = nonce + 1
        BY <1>2, <3>2, <4>1
      <4>3. DOMAIN oldCallbacks' = {}
        BY <4>2
      <4>4. name < nonce'
        BY <1>1, <4>1, <4>2
      <4> QED
        BY <1>1, <3>2, <4>2, <4>3, <4>4
    <3> QED
      BY <3>1, <3>2
  <2> HIDE DEF name, r, S
  <2>4. /\ S \in SUBSET Settings /\ reqs \in Seq(Request(S))
        /\ reqs' \in Seq(Request(S)) /\ Len(reqs') = Len(reqs) + 1
        /\ Len(reqs') <= MaxRequests
        /\ \A q \in 1 .. Len(reqs) : reqs'[q] = reqs[q]
        /\ window \in [Names -> Ids \cup {None}]
        /\ nonce \in 1 .. Len(reqs) + 1 /\ oldCallbacks \in Seq(Ids)
        /\ Held(reqs, window, nonce) /\ Free(window, oldCallbacks, nonce)
    BY <1>1, <1>3, <1>6
  <2>5. Naming(reqs', Len(reqs'), name, window, nonce, oldCallbacks,
               window', nonce', oldCallbacks')
    BY <2>1, <2>2, <2>3 DEF Naming
  <2> QED
    BY <2>1, <2>4, <2>5, NameMade
<1>8. CASE s.jsonp # "generated"
  <2>1. name = None \/ name = Named
    BY <1>4, <1>8
  <2>2. /\ name \notin Ids /\ name # nonce /\ r \in Ids
    <3> HIDE DEF name, r
    <3> QED
      BY <1>1, <1>4, <1>6, <2>1
  <2>3. nonce' = nonce /\ oldCallbacks' = oldCallbacks
    BY <1>2, <1>8, <2>2 DEF Again
  <2>4. /\ window' \in [Names -> Ids \cup {None}]
        /\ \A m \in Ids : window'[m] = window[m]
    <3> HIDE DEF name, r
    <3> QED
      BY <1>1, <1>2, <1>6, <2>1, <2>2
  <2>5. \/ reqs'[Len(reqs')].s.jsonp = "no" /\ reqs'[Len(reqs')].name = None
        \/ /\ reqs'[Len(reqs')].s.jsonp = "named"
           /\ reqs'[Len(reqs')].name = Named
    BY <1>3, <1>4, <1>5, <1>8
  <2> HIDE DEF name, r, S
  <2>6. NamesKeep(reqs, reqs', window, oldCallbacks, nonce,
                  window', oldCallbacks, nonce)
    BY <1>1, <1>3, <1>6, <2>4, <2>5, NameTaken
  <2> QED
    BY <2>3, <2>6
<1> QED
  BY <1>7, <1>8

(* Activations of some requests are activations of more.                   *)
LEMMA Deeper ==
  ASSUME NEW n \in Nat, NEW m \in Nat, n <= m, NEW F \in Seq(Activation(n))
  PROVE  F \in Seq(Activation(m))
<1>1. Activation(n) \subseteq Activation(m)
  BY DEF Activation
<1> QED
  BY <1>1

(* A new request keeps the invariant, also when it starts inside others.   *)
LEMMA AjaxKeeps ==
  ASSUME IInv, NEW s \in page.settings, Ajax(s)
  PROVE  IInv'
<1> DEFINE r == Len(reqs) + 1
           v == NewRequest(s, NameFor(s))
           S == page.settings
<1>1. /\ InPage /\ frames' = <<Frame(r, "prefilter")>> \o frames
      /\ Len(reqs) < page.requests
      /\ UNCHANGED <<page, active, etag, shown, spoilt>>
  BY DEF Ajax
<1>2. /\ reqs \in Seq(Request(S)) /\ Len(reqs) \in Nat
      /\ frames \in Seq(Activation(Len(reqs)))
      /\ DOMAIN frames = 1 .. Len(frames) /\ Len(frames) \in Nat
      /\ \A k \in DOMAIN frames : frames[k].r \in 1 .. Len(reqs)
      /\ page.requests \in Int
  BY Typing
<1>3. /\ reqs' \in Seq(Request(S)) /\ Len(reqs') = r
      /\ \A q \in 1 .. Len(reqs) : reqs'[q] = reqs[q]
      /\ reqs'[r] = v
  BY RequestMade
<1>4. NamesKeep(reqs, reqs', window, oldCallbacks, nonce,
                window', oldCallbacks', nonce')
  BY NamesGiven
<1>5. /\ v.s = s /\ v.state = 0 /\ v.globals = FALSE /\ v.coming = FALSE
      /\ v.listening = FALSE /\ v.silent = FALSE /\ v.outcome = "pending"
      /\ v.data = None /\ v.told = << >>
  BY DEF NewRequest
<1>6. r \in Nat /\ r \in 1 .. r /\ r \notin 1 .. Len(reqs) /\ Len(reqs) <= r
  BY <1>2
<1> HIDE DEF v, S, r
<1>7. r \notin spoilt /\ spoilt \subseteq 1 .. Len(reqs)
  BY <1>6 DEF IInv, Typed
<1>8. "prefilter" \in Points /\ "prefilter" \in Entering
      /\ "prefilter" \notin InDone
  BY DEF Points, Entering, InAjax, InDone
<1>9. /\ frames' \in Seq(Activation(Len(reqs')))
      /\ Shift(frames, frames', r, 0, 1)
      /\ frames'[1] = Frame(r, "prefilter")
  <2> DEFINE none == 0
             at == "prefilter"
  <2>1. /\ none \in 0 .. 1 /\ none = 0 /\ at \in Points
        /\ none = 1 => frames # << >> /\ frames[1].r = r
    BY <1>8
  <2>2. frames \in Seq(Activation(r))
    BY <1>2, <1>6, Deeper
  <2>3. frames' = <<Frame(r, at)>> \o Rest(frames, none)
    BY <1>1 DEF Rest, r
  <2> HIDE DEF none, at
  <2>4. /\ <<Frame(r, at)>> \o Rest(frames, none) \in Seq(Activation(r))
        /\ Shift(frames, <<Frame(r, at)>> \o Rest(frames, none), r, none, 1)
        /\ (<<Frame(r, at)>> \o Rest(frames, none))[1] = Frame(r, at)
    BY <1>6, <2>1, <2>2, Shifts
  <2>5. at = "prefilter"
    BY DEF at
  <2> QED
    BY <1>3, <2>1, <2>3, <2>4, <2>5
<1>10. /\ 1 \in DOMAIN frames' /\ frames'[1].r = r
       /\ frames'[1].at = "prefilter" /\ Len(frames') = Len(frames) + 1
       /\ DOMAIN frames' = 1 .. Len(frames')
  <2>1. Len(frames') = Len(frames) - 0 + 1
    BY <1>9 DEF Shift
  <2> QED
    BY <1>2, <1>9, <2>1 DEF Frame
<1>11. IsIn(frames', r, Entering)
  BY <1>8, <1>10 DEF IsIn
<1>12. Consistent(reqs', frames, frames', spoilt, r, 0, 1)
  <2>1. frames # << >> /\ frames[1].at = "beforeSend" =>
          reqs'[frames[1].r].s.beforeSend
    <3> SUFFICES ASSUME frames # << >>, frames[1].at = "beforeSend"
                 PROVE  reqs'[frames[1].r].s.beforeSend
      OBVIOUS
    <3>1. Top = frames[1] /\ Top.r \in 1 .. Len(reqs)
      BY TopIs
    <3>2. reqs[Top.r].s.beforeSend
      BY <1>1, <3>1 DEF InPage, Idle
    <3> QED
      BY <1>3, <3>1, <3>2
  <2>2. \A k \in DOMAIN frames : frames[k].r # r
    BY <1>2, <1>6
  <2>3. Enters(reqs'[r], "prefilter")
    BY <1>3, <1>5 DEF Enters
  <2>4. /\ reqs'[r].state = 0 /\ reqs'[r].outcome = "pending"
        /\ reqs'[r].told = << >>
    BY <1>3, <1>5
  <2> QED
    BY <1>8, <1>10, <1>11, <2>1, <2>2, <2>3, <2>4 DEF Consistent
<1>13. /\ Kept(reqs', frames', spoilt)
       /\ \A q \in 1 .. Len(reqs) :
            Running(reqs', frames', q) <=> Running(reqs, frames, q)
  <2> DEFINE none == 0
             one == 1
  <2>1. none \in 0 .. 1 /\ one \in 0 .. 1
    OBVIOUS
  <2>2. /\ \A q \in 1 .. Len(reqs) : q # r => Same(reqs'[q], reqs[q])
        /\ Kept(reqs, frames, spoilt) /\ spoilt \subseteq spoilt
        /\ r \in 1 .. Len(reqs')
        /\ r \in 1 .. Len(reqs) => reqs'[r].s = reqs[r].s
    BY <1>3, <1>6 DEF IInv, Same
  <2>3. \/ Len(reqs') = Len(reqs)
        \/ Len(reqs') = Len(reqs) + 1 /\ r = Len(reqs')
    BY <1>3 DEF r
  <2>4. /\ Shift(frames, frames', r, none, one)
        /\ Consistent(reqs', frames, frames', spoilt, r, none, one)
    BY <1>9, <1>12
  <2>5. /\ reqs \in Seq(Request(S)) /\ reqs' \in Seq(Request(S))
        /\ frames \in Seq(Activation(Len(reqs)))
        /\ frames' \in Seq(Activation(Len(reqs')))
    BY <1>2, <1>3, <1>9
  <2> HIDE DEF none, one
  <2>6. /\ Kept(reqs', frames', spoilt)
        /\ \A q \in 1 .. Len(reqs) : q # r =>
             (Running(reqs', frames', q) <=> Running(reqs, frames, q))
    BY <2>1, <2>2, <2>3, <2>4, <2>5, Moves
  <2> QED
    BY <1>6, <2>6
<1>14. Unsent(reqs', frames')
  <2> SUFFICES ASSUME NEW j \in DOMAIN frames', frames'[j].at \in Entering
               PROVE  /\ reqs'[frames'[j].r].outcome # "success"
                      /\ ~reqs'[frames'[j].r].coming
                      /\ ~reqs'[frames'[j].r].listening
    BY DEF Unsent
  <2>1. CASE j = 1
    BY <1>3, <1>5, <1>10, <2>1
  <2>2. CASE j # 1
    <3>1. j > 1
      BY <1>2, <1>10, <2>2
    <3>2. j - 1 + 0 \in DOMAIN frames /\ frames'[j] = frames[j - 1 + 0]
      BY <1>9, <3>1 DEF Shift
    <3>3. /\ reqs[frames'[j].r].outcome # "success"
          /\ ~reqs[frames'[j].r].coming /\ ~reqs[frames'[j].r].listening
          /\ frames'[j].r \in 1 .. Len(reqs)
      BY <1>2, <3>2 DEF IInv, Unsent
    <3> QED
      BY <1>3, <3>3
  <2> QED
    BY <2>1, <2>2
<1>15. Own(reqs')
  <2> SUFFICES ASSUME NEW q \in 1 .. Len(reqs')
               PROVE  /\ reqs'[q].outcome = "success" => ~reqs'[q].coming
                      /\ reqs'[q].outcome # "success" => reqs'[q].data = None
                      /\ reqs'[q].s.jsonp # "named" /\ ~reqs'[q].silent =>
                           reqs'[q].data \in {q, None}
    BY DEF Own
  <2>1. CASE q = r
    BY <1>3, <1>5, <2>1
  <2>2. CASE q # r
    <3>1. q \in 1 .. Len(reqs) /\ reqs'[q] = reqs[q]
      BY <1>2, <1>3, <2>2 DEF r
    <3> QED
      BY <3>1 DEF IInv, Own
  <2> QED
    BY <2>1, <2>2
<1>16. Counts'
  <2> SUFFICES ASSUME spoilt' = {}
               PROVE  /\ active' = Cardinality({q \in 1 .. Len(reqs') :
                                                  Running(reqs', frames', q)})
                      /\ shown' <=> active' > 0
    BY DEF Counts
  <2>1. ~Running(reqs', frames', r)
    BY <1>3, <1>5 DEF Running
  <2>2. 1 .. Len(reqs') = (1 .. Len(reqs)) \cup {r}
    BY <1>2, <1>3 DEF r
  <2>3. {q \in 1 .. Len(reqs') : Running(reqs', frames', q)}
          = {q \in 1 .. Len(reqs) : Running(reqs, frames, q)}
    BY <1>13, <2>1, <2>2
  <2>4. spoilt = {} /\ active' = active /\ shown' = shown
    BY <1>1
  <2> QED
    BY <2>3, <2>4 DEF IInv, Counts
<1>17. Typed'
  <2>1. /\ page \in Pages /\ active \in Int /\ shown \in BOOLEAN
        /\ etag \in BOOLEAN
    BY DEF IInv, Typed
  <2>2. Len(reqs') <= page.requests
    BY <1>1, <1>2, <1>3 DEF r
  <2>3. spoilt \subseteq 1 .. Len(reqs')
    BY <1>2, <1>3, <1>7 DEF r
  <2> QED
    BY <1>1, <1>3, <1>4, <1>9, <2>1, <2>2, <2>3 DEF Typed, NamesKeep, S
<1> QED
  BY <1>1, <1>4, <1>13, <1>14, <1>15, <1>16, <1>17 DEF IInv, NamesKeep

(* An exception: what is left of the requests it leaves is not counted.    *)
LEMMA ThrowKeeps ==
  ASSUME IInv, Throw
  PROVE  IInv'
<1>1. /\ frames # << >> /\ frames' = << >>
      /\ spoilt' = spoilt \cup {frames[i].r : i \in DOMAIN frames}
      /\ UNCHANGED <<page, reqs, active, jsonpVars, etag, shown>>
  BY DEF Throw, Idle
<1>2. /\ 1 \in DOMAIN frames
      /\ \A k \in DOMAIN frames : frames[k].r \in 1 .. Len(reqs)
  BY <1>1, TopIs, Typing
<1>3. spoilt' \subseteq 1 .. Len(reqs) /\ spoilt' # {}
  BY <1>1, <1>2, ZenonT(60) DEF IInv, Typed
<1>4. Counts'
  BY <1>3 DEF Counts
<1>5. /\ Single(frames', spoilt') /\ Covered(reqs', frames')
      /\ Where(reqs', frames', spoilt') /\ Unsent(reqs', frames')
  BY <1>1 DEF Single, Covered, Where, Unsent
<1>6. Known(reqs', frames', spoilt')
  <2> SUFFICES ASSUME NEW q \in 1 .. Len(reqs), q \notin spoilt'
               PROVE  /\ reqs[q].state = 2 <=> reqs[q].outcome # "pending"
                      /\ reqs[q].state = 0 => IsIn(frames', q, Entering)
                      /\ reqs[q].state # 2 => reqs[q].told = << >>
                      /\ reqs[q].state = 2 =>
                           \/ IsIn(frames', q, InDone)
                           \/ reqs[q].told = All(reqs[q])
    BY <1>1 DEF Known
  <2>1. q \notin spoilt /\ \A k \in DOMAIN frames : frames[k].r # q
    BY <1>1
  <2>2. ~IsIn(frames, q, Entering) /\ ~IsIn(frames, q, InDone)
    BY <2>1 DEF IsIn
  <2> QED
    BY <2>1, <2>2 DEF IInv, Kept, Known
<1>7. Typed'
  <2>1. frames' \in Seq(Activation(Len(reqs)))
    BY <1>1
  <2> QED
    BY <1>1, <1>3, <2>1 DEF IInv, Typed, jsonpVars
<1> QED
  BY <1>1, <1>4, <1>5, <1>6, <1>7 DEF IInv, Kept, jsonpVars

-----------------------------------------------------------------------------
(* The invariant is one, and RequestsKept follows.                         *)
LEMMA StartKeeps ==
  ASSUME Init
  PROVE  IInv
<1> USE DEF Init
<1>1. Typed
  <2>1. /\ << >> \in Seq(Request(page.settings)) /\ Len(reqs) = 0
        /\ << >> \in Seq(Activation(0)) /\ << >> \in Seq(Ids)
    OBVIOUS
  <2>2. /\ page.requests \in Nat /\ page \in Pages
        /\ window \in [Names -> Ids \cup {None}]
    BY AjaxAssumption
  <2>3. /\ reqs \in Seq(Request(page.settings)) /\ oldCallbacks \in Seq(Ids)
        /\ frames \in Seq(Activation(Len(reqs))) /\ nonce = 1 /\ active = 0
        /\ Len(reqs) = 0
        /\ shown = FALSE /\ etag = FALSE /\ spoilt = {}
    BY <2>1
  <2> HIDE DEF Init
  <2>4. /\ Len(reqs) <= page.requests /\ nonce \in 1 .. Len(reqs) + 1
        /\ active \in Int
    BY <2>2, <2>3
  <2>5. /\ shown \in BOOLEAN /\ etag \in BOOLEAN
        /\ spoilt \subseteq 1 .. Len(reqs)
    BY <2>3
  <2> QED
    BY <2>2, <2>3, <2>4, <2>5 DEF Typed
<1>2. Held(reqs, window, nonce) /\ Free(window, oldCallbacks, nonce)
  <2>1. \A m \in Ids : m \in Names
    BY AjaxAssumption DEF Ids, Names, Named
  <2> QED
    BY <2>1 DEF Held, Free
<1>3. Unsent(reqs, frames) /\ Own(reqs) /\ Kept(reqs, frames, spoilt)
  BY DEF Unsent, Own, Kept, Single, Covered, Where, Known
<1>4. Counts
  <2>1. {r \in 1 .. Len(reqs) : Running(reqs, frames, r)} = {}
    OBVIOUS
  <2>2. Cardinality({}) = 0
    BY FS_EmptySet
  <2> QED
    BY <2>1, <2>2 DEF Counts
<1> QED
  BY <1>1, <1>2, <1>3, <1>4 DEF IInv

(* A step of nothing keeps it.                                             *)
LEMMA StutterKeeps ==
  ASSUME IInv, UNCHANGED vars
  PROVE  IInv'
<1>1. /\ Typed' /\ Held(reqs, window, nonce)'
      /\ Free(window, oldCallbacks, nonce)'
  BY DEF IInv, vars, Typed
<1>2. /\ Unsent(reqs, frames)' /\ Own(reqs)' /\ Kept(reqs, frames, spoilt)'
  BY DEF IInv, vars
<1>3. Counts'
  BY DEF IInv, vars, Counts
<1> QED
  BY <1>1, <1>2, <1>3 DEF IInv

(* Every step keeps it.                                                    *)
LEMMA StepKeeps ==
  ASSUME IInv, [Next]_vars
  PROVE  IInv'
<1>1. CASE Runs
  <2>1. CASE PrefilterReturns
    BY <2>1, PrefilterKeeps
  <2>2. CASE AjaxStartReturns
    BY <2>2, AjaxStartKeeps
  <2>3. CASE Cancel
    BY <2>3, CancelKeeps
  <2>4. CASE BeforeSendReturns
    BY <2>4, BeforeSendKeeps
  <2>5. CASE SendThrows
    BY <2>5, SendThrowsKeeps
  <2>6. CASE Send
    BY <2>6, SendKeeps
  <2>7. CASE \E a \in Answers : SendSync(a)
    BY <2>7, SendSyncKeeps
  <2>8. CASE OutcomeReturns
    BY <2>8, OutcomeKeeps
  <2>9. CASE GlobalReturns
    BY <2>9, GlobalKeeps
  <2>10. CASE CompleteReturns
    BY <2>10, CompleteKeeps
  <2>11. CASE AjaxCompleteReturns
    BY <2>11, AjaxCompleteKeeps
  <2>12. CASE AjaxStopReturns
    BY <2>12, AjaxStopKeeps
  <2> QED
    BY <1>1, <2>1, <2>2, <2>3, <2>4, <2>5, <2>6, <2>7, <2>8, <2>9, <2>10,
       <2>11, <2>12 DEF Runs
<1>2. CASE \E s \in page.settings : Ajax(s)
  BY <1>2, AjaxKeeps
<1>3. CASE Throw
  BY <1>3, ThrowKeeps
<1>4. CASE \E r \in DOMAIN reqs :
             \/ Abort(r)
             \/ TimerFires(r)
             \/ \E a \in Answers : Answer(r, a)
             \/ \E calls \in BOOLEAN : ScriptLoads(r, calls)
  <2>1. PICK r \in 1 .. Len(reqs) :
             \/ Abort(r)
             \/ TimerFires(r)
             \/ \E a \in Answers : Answer(r, a)
             \/ \E calls \in BOOLEAN : ScriptLoads(r, calls)
    BY <1>4, Typing
  <2>2. CASE Abort(r)
    BY <2>2, AbortKeeps
  <2>3. CASE TimerFires(r)
    BY <2>3, TimerKeeps
  <2>4. CASE \E a \in Answers : Answer(r, a)
    BY <2>4, AnswerArrives
  <2>5. CASE \E calls \in BOOLEAN : ScriptLoads(r, calls)
    BY <2>5, ScriptKeeps
  <2> QED
    BY <2>1, <2>2, <2>3, <2>4, <2>5
<1>5. CASE UNCHANGED vars
  BY <1>5, StutterKeeps
<1> QED
  BY <1>1, <1>2, <1>3, <1>4, <1>5 DEF Next

(* A prefix, by index.                                                     *)
LEMMA PrefixIs ==
  ASSUME NEW S, NEW s \in Seq(S), NEW t \in Seq(S), Len(s) <= Len(t),
         \A i \in 1 .. Len(s) : t[i] = s[i]
  PROVE  IsPrefix(s, t)
<1> DEFINE n == Len(s)
           m == 1
           u == SubSeq(t, m, n)
<1>1. /\ n \in Nat /\ n \in Int /\ m \in Int /\ m = 1 /\ n = Len(s)
      /\ n <= Len(t) /\ \A i \in 1 .. Len(t) : t[i] \in S
  OBVIOUS
<1>2. \A i \in m .. n : t[i] \in S
  BY <1>1
<1>3. SubSeq(s, 1, Len(s)) = s
  BY SubSeqFull
<1> HIDE DEF m, n
<1>4. /\ SubSeq(t, m, n) \in Seq(S)
      /\ Len(SubSeq(t, m, n)) = IF m <= n THEN n - m + 1 ELSE 0
      /\ \A i \in 1 .. n - m + 1 : SubSeq(t, m, n)[i] = t[m + i - 1]
  BY <1>1, <1>2, SubSeqProperties
<1>5. u \in Seq(S) /\ Len(u) = n
  <2>1. m = 1 /\ n \in Nat
    BY <1>1
  <2> QED
    BY <1>4, <2>1
<1>6. \A i \in 1 .. n : u[i] = s[i]
  <2> TAKE i \in 1 .. n
  <2>1. m = 1 /\ n \in Nat /\ m \in Int
    BY <1>1
  <2>2. i \in 1 .. n - m + 1 /\ m + i - 1 = i
    BY <2>1
  <2>3. u[i] = t[m + i - 1]
    BY <1>4, <2>2
  <2>4. t[i] = s[i]
    BY <1>1
  <2> QED
    BY <2>2, <2>3, <2>4
<1> HIDE DEF u
<1>7. u = s
  BY <1>1, <1>5, <1>6, SeqEqual
<1>8. SubSeq(t, 1, Len(s)) = s
  BY <1>7 DEF u, m, n
<1> QED
  BY <1>3, <1>8 DEF IsPrefix

(* What the page has been told begins what it is to be told.               *)
LEMMA ToldBegins ==
  ASSUME NEW q, NEW at \in InDone,
         at \in {"global", "ajaxComplete"} => q.globals
  PROVE  IsPrefix(SoFar(q, at), All(q)) /\ IsPrefix(<< >>, All(q))
<1> DEFINE P == {"outcome", "global", "complete", "ajaxComplete"}
           o == << >>
           a == <<"outcome">>
           b == <<"outcome", "global">>
           c == <<"outcome", "complete">>
           d == <<"outcome", "global", "complete">>
           e == <<"outcome", "global", "complete", "ajaxComplete">>
<1>1. /\ o \in Seq(P) /\ a \in Seq(P) /\ b \in Seq(P) /\ c \in Seq(P)
      /\ d \in Seq(P) /\ e \in Seq(P)
  OBVIOUS
<1>2. /\ Len(o) = 0 /\ Len(a) = 1 /\ Len(b) = 2 /\ Len(c) = 2 /\ Len(d) = 3
      /\ Len(e) = 4
  OBVIOUS
<1>3. /\ e[1] = a[1] /\ e[1] = b[1] /\ e[2] = b[2]
      /\ e[1] = d[1] /\ e[2] = d[2] /\ e[3] = d[3] /\ c[1] = a[1]
  OBVIOUS
<1>4. SoFar(q, at) = CASE at = "outcome" -> a
                       [] at = "global" -> b
                       [] at = "complete" -> IF q.globals THEN d ELSE c
                       [] OTHER -> All(q)
  BY DEF SoFar
<1>5. All(q) = IF q.globals THEN e ELSE c
  BY DEF All
<1>6. at \in {"outcome", "global", "complete", "ajaxComplete"}
  BY DEF InDone
<1> HIDE DEF P, o, a, b, c, d, e
<1>7. IsPrefix(a, e) /\ IsPrefix(a, c)
  <2>1. Len(a) <= Len(e) /\ \A i \in 1 .. Len(a) : e[i] = a[i]
    <3>1. Len(a) = 1 /\ Len(e) = 4 /\ e[1] = a[1]
      BY <1>2, <1>3
    <3> QED
      BY <3>1
  <2>2. Len(a) <= Len(c) /\ \A i \in 1 .. Len(a) : c[i] = a[i]
    <3>1. Len(a) = 1 /\ Len(c) = 2 /\ c[1] = a[1]
      BY <1>2, <1>3
    <3> QED
      BY <3>1
  <2>3. IsPrefix(a, e)
    BY <1>1, <2>1, PrefixIs
  <2>4. IsPrefix(a, c)
    BY <1>1, <2>2, PrefixIs
  <2> QED
    BY <2>3, <2>4
<1>8. IsPrefix(b, e)
  <2>1. Len(b) <= Len(e) /\ \A i \in 1 .. Len(b) : e[i] = b[i]
    <3>1. Len(b) = 2 /\ Len(e) = 4 /\ e[1] = b[1] /\ e[2] = b[2]
      BY <1>2, <1>3
    <3> QED
      BY <3>1
  <2> QED
    BY <1>1, <2>1, PrefixIs
<1>9. IsPrefix(d, e)
  <2>1. Len(d) <= Len(e) /\ \A i \in 1 .. Len(d) : e[i] = d[i]
    BY <1>2, <1>3
  <2> QED
    BY <1>1, <2>1, PrefixIs
<1>10. IsPrefix(c, c) /\ IsPrefix(e, e)
  BY <1>1, PrefixIs
<1>11. IsPrefix(o, e) /\ IsPrefix(o, c)
  <2>1. Len(o) <= Len(e) /\ \A i \in 1 .. Len(o) : e[i] = o[i]
    BY <1>2
  <2>2. Len(o) <= Len(c) /\ \A i \in 1 .. Len(o) : c[i] = o[i]
    BY <1>2
  <2>3. IsPrefix(o, e)
    BY <1>1, <2>1, PrefixIs
  <2>4. IsPrefix(o, c)
    BY <1>1, <2>2, PrefixIs
  <2> QED
    BY <2>3, <2>4
<1>12. IsPrefix(o, All(q))
  BY <1>5, <1>11
<1>13. IsPrefix(SoFar(q, at), All(q))
  <2>1. CASE at = "outcome"
    BY <1>4, <1>5, <1>7, <2>1
  <2>2. CASE at = "global"
    BY <1>4, <1>5, <1>8, <2>2
  <2>3. CASE at = "complete"
    BY <1>4, <1>5, <1>9, <1>10, <2>3
  <2>4. CASE at = "ajaxComplete"
    BY <1>4, <1>5, <1>10, <2>4
  <2> QED
    BY <1>6, <2>1, <2>2, <2>3, <2>4
<1> QED
  BY <1>12, <1>13 DEF o

(* TypeOK follows: the types.                                              *)
LEMMA TypeFollows ==
  ASSUME IInv
  PROVE  TypeOK
<1>1. ASSUME NEW r \in DOMAIN reqs
      PROVE  /\ reqs[r].s \in page.settings
             /\ reqs[r].state \in 0..2
             /\ reqs[r].transport \in {"undefined", "xhr", "script"}
             /\ reqs[r].outcome \in {"pending", "success", "error"}
             /\ {reqs[r].data, reqs[r].container, reqs[r].overwritten}
                  \subseteq Ids \cup {None}
             /\ reqs[r].name \in Names \cup {None}
  <2>1. reqs[r] \in Request(page.settings)
    BY Typing
  <2> QED
    BY <2>1 DEF Request
<1>2. \A i \in DOMAIN frames : frames[i].r \in DOMAIN reqs
  BY Typing
<1>3. Range(oldCallbacks) \subseteq Names
  <2>1. oldCallbacks \in Seq(Ids) /\ Ids \subseteq Names
    BY AjaxAssumption DEF IInv, Typed, Ids, Names, Named
  <2>2. \A i \in DOMAIN oldCallbacks : oldCallbacks[i] \in Ids
    BY <2>1
  <2> QED
    BY <2>1, <2>2 DEF Range
<1>4. /\ Len(reqs) <= MaxRequests /\ active \in Int
      /\ window \in [Names -> Ids \cup {None}]
  BY Typing DEF IInv, Typed
<1> QED
  BY <1>1, <1>2, <1>3, <1>4 DEF TypeOK

(* jQuery.active is the number of requests under way.                      *)
LEMMA CountedFollows ==
  ASSUME IInv
  PROVE  Counted
<1> SUFFICES ASSUME spoilt = {}
             PROVE  CountedAlways
  BY DEF Counted
<1>1. /\ DOMAIN reqs = 1 .. Len(reqs)
      /\ \A r \in 1 .. Len(reqs) : reqs[r].state \in {0, 1, 2}
  <2>1. \A r \in 1 .. Len(reqs) : reqs[r] \in Request(page.settings)
    BY Typing
  <2> QED
    BY <2>1, Typing DEF Request
<1>0. \A f : f \in Range(frames) <=> \E k \in DOMAIN frames : f = frames[k]
  BY Typing DEF Range
<1>2. ASSUME NEW r \in 1 .. Len(reqs), UnderWay(r)
      PROVE  Running(reqs, frames, r)
  <2>1. CASE reqs[r].state = 1
    BY <1>2, <2>1 DEF UnderWay, Running
  <2>2. CASE reqs[r].state # 1
    <3>1. PICK k \in DOMAIN frames :
            /\ frames[k].r = r
            /\ \/ frames[k].at \in InDone
               \/ frames[k].at \in InAjax /\ reqs[r].state = 0
      BY <1>0, <1>2, <2>2 DEF UnderWay
    <3> QED
      BY <1>2, <3>1 DEF UnderWay, Running, IsIn
  <2> QED
    BY <2>1, <2>2
<1>3. ASSUME NEW r \in 1 .. Len(reqs), Running(reqs, frames, r)
      PROVE  UnderWay(r)
  <2>1. /\ reqs[r].globals
        /\ \A k \in DOMAIN frames : frames[k] \in Range(frames)
    BY <1>0, <1>3 DEF Running
  <2>2. CASE IsIn(frames, r, InDone)
    BY <2>1, <2>2 DEF IsIn, UnderWay
  <2>3. CASE reqs[r].state = 0
    <3>1. PICK k \in DOMAIN frames :
            frames[k].r = r /\ frames[k].at \in Entering
      BY <2>3 DEF IInv, Kept, Known, IsIn
    <3>2. Enters(reqs[r], frames[k].at)
      BY <3>1 DEF IInv, Kept, Where
    <3>3. frames[k].at \in InAjax
      BY <2>1, <3>1, <3>2 DEF Enters, Entering
    <3> QED
      BY <2>1, <2>3, <3>1, <3>3 DEF UnderWay
  <2>4. CASE reqs[r].state = 1
    BY <2>1, <2>4 DEF UnderWay
  <2> QED
    BY <1>1, <1>3, <2>2, <2>3, <2>4 DEF Running
<1>4. {r \in DOMAIN reqs : UnderWay(r)}
        = {r \in 1 .. Len(reqs) : Running(reqs, frames, r)}
  BY <1>1, <1>2, <1>3
<1>5. active = Cardinality({r \in DOMAIN reqs : UnderWay(r)})
  BY <1>4 DEF IInv, Counts
<1>6. shown = (active > 0)
  <2>1. shown \in BOOLEAN /\ (shown <=> active > 0)
    BY DEF IInv, Typed, Counts
  <2> QED
    BY <2>1
<1> QED
  BY <1>5, <1>6 DEF CountedAlways

(* The page is told once, in order, and all of it.                         *)
LEMMA ToldFollows ==
  ASSUME IInv
  PROVE  ToldOnce
<1> SUFFICES ASSUME NEW r \in DOMAIN reqs \ spoilt
             PROVE  /\ IsPrefix(reqs[r].told, Telling(r))
                    /\ Idle => reqs[r].told = IF reqs[r].state = 2
                                              THEN Telling(r) ELSE <<>>
  BY DEF ToldOnce
<1>1. /\ r \in 1 .. Len(reqs) /\ r \notin spoilt
      /\ reqs[r].state = 0 => IsIn(frames, r, Entering)
      /\ reqs[r].state # 2 => reqs[r].told = << >>
      /\ reqs[r].state = 2 =>
           IsIn(frames, r, InDone) \/ reqs[r].told = All(reqs[r])
  BY Typing DEF IInv, Kept, Known
<1>2. Telling(r) = All(reqs[r])
  BY DEF Telling, All
<1>3. IsPrefix(reqs[r].told, All(reqs[r]))
  <2>1. CASE reqs[r].state # 2
    <3>1. "outcome" \in InDone
      BY DEF InDone
    <3> QED
      BY <1>1, <2>1, <3>1, ToldBegins
  <2>2. CASE reqs[r].told = All(reqs[r])
    <3>1. SoFar(reqs[r], "ajaxComplete") = All(reqs[r])
      BY DEF SoFar
    <3>2. SoFar(reqs[r], "complete") = All(reqs[r]) \/ reqs[r].globals
      BY DEF SoFar, All
    <3>3. "ajaxComplete" \in InDone /\ "complete" \in InDone
      BY DEF InDone
    <3> QED
      BY <2>2, <3>1, <3>2, <3>3, ToldBegins
  <2>3. CASE IsIn(frames, r, InDone)
    <3>1. PICK k \in DOMAIN frames : frames[k].r = r /\ frames[k].at \in InDone
      BY <2>3 DEF IsIn
    <3>2. Tells(reqs[r], frames[k].at)
      BY <1>1, <3>1 DEF IInv, Kept, Where
    <3>3. /\ reqs[r].told = SoFar(reqs[r], frames[k].at)
          /\ frames[k].at \in {"global", "ajaxComplete"} => reqs[r].globals
      BY <3>2 DEF Tells
    <3> QED
      BY <3>1, <3>3, ToldBegins
  <2> QED
    BY <1>1, <2>1, <2>2, <2>3
<1>4. Idle => ~IsIn(frames, r, InDone)
  BY DEF Idle, IsIn
<1> QED
  BY <1>1, <1>2, <1>3, <1>4

(* Names belong to one pending request, and data is the request's own.     *)
LEMMA OwnFollows ==
  ASSUME IInv
  PROVE  OwnAnswer
<1>1. /\ Held(reqs, window, nonce) /\ Own(reqs)
      /\ DOMAIN reqs = 1 .. Len(reqs)
  BY Typing DEF IInv
<1>2. Names \ {Named} = Ids /\ None = 0
  BY AjaxAssumption DEF Names, Named, Ids, None
<1>3. ASSUME NEW n \in Ids
      PROVE  {r \in Generated :
                reqs[r].outcome = "pending" /\ reqs[r].name = n}
               = {window[n]} \ {None}
  <2>1. ASSUME NEW r \in Generated, reqs[r].outcome = "pending",
               reqs[r].name = n
        PROVE  window[n] = r /\ r # None
    BY <1>1, <1>2, <2>1 DEF Held, Generated
  <2>2. ASSUME window[n] # None
        PROVE  /\ window[n] \in Generated
               /\ reqs[window[n]].outcome = "pending"
               /\ reqs[window[n]].name = n
    BY <1>1, <2>2 DEF Held, Generated
  <2> QED
    BY <2>1, <2>2
<1>4. \A r \in DOMAIN reqs :
        reqs[r].s.jsonp # "named" /\ ~reqs[r].silent =>
          reqs[r].data \in {r, None}
  BY <1>1 DEF Own
<1> QED
  BY <1>2, <1>3, <1>4 DEF OwnAnswer

(* Whatever the functions of a page abort, start or throw where jQuery     *)
(* calls them, and whatever servers answer, and when: jQuery.active counts *)
(* the requests under way, the page is told of each once and in order, and *)
(* gets the data of its own request (jQuery.ajax, done, the prefilter of   *)
(* jsonp, jqXHR.abort).                                                    *)
THEOREM AlwaysKept == Spec => []RequestsKept
<1>1. Init => IInv
  BY StartKeeps
<1>2. IInv /\ [Next]_vars => IInv'
  BY StepKeeps
<1>3. IInv => RequestsKept
  BY TypeFollows, CountedFollows, ToldFollows, OwnFollows DEF RequestsKept
<1> QED
  BY <1>1, <1>2, <1>3, PTL DEF Spec
=============================================================================
