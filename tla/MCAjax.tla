------------------------------- MODULE MCAjax -------------------------------
EXTENDS Ajax

Setting ==
  [types |-> <<"*">>, jsonp |-> "no", crossDomain |-> FALSE, async |-> TRUE,
   timeout |-> FALSE, global |-> TRUE, load |-> FALSE, ifModified |-> FALSE,
   beforeSend |-> FALSE]
Timed == [Setting EXCEPT !.timeout = TRUE, !.beforeSend = TRUE]
Sync == [Setting EXCEPT !.async = FALSE, !.types = <<"html", "json">>]
Foreign == [Setting EXCEPT !.crossDomain = TRUE]
Load == [Setting EXCEPT !.types = <<"html">>, !.load = TRUE]
Cached == [Setting EXCEPT !.ifModified = TRUE]
Jsonp == [Timed EXCEPT !.jsonp = "generated", !.crossDomain = TRUE]
JsonpHere == [Setting EXCEPT !.jsonp = "generated"]
JsonpNamed == [Jsonp EXCEPT !.jsonp = "named"]

MCPages ==
  {[settings |-> {Timed, Sync}, requests |-> 2],
   [settings |-> {Foreign, Load, Cached}, requests |-> 2],
   [settings |-> {Jsonp, JsonpHere}, requests |-> 2],
   [settings |-> {[JsonpHere EXCEPT !.global = FALSE]}, requests |-> 3]}

(* Pages for the runs by hand.                                             *)
NamedPages == {[settings |-> {JsonpNamed}, requests |-> 2]}
CachedPages == {[settings |-> {Cached}, requests |-> 2]}
LoadPages == {[settings |-> {Load}, requests |-> 2]}

MCAnswers ==
  {[status |-> "ok", type |-> "json", good |-> TRUE, responses |-> TRUE],
   [status |-> "ok", type |-> "json", good |-> FALSE, responses |-> TRUE],
   [status |-> "notmodified", type |-> "unknown", good |-> TRUE,
    responses |-> TRUE]}
=============================================================================
