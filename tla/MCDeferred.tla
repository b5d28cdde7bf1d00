----------------------------- MODULE MCDeferred -----------------------------
EXTENDS Deferred

(* One program for each part: a promise and its functions, then(), when(), *)
(* ready(), a list.                                                        *)
MCPrograms ==
  {{"add", "done", "fail", "progress", "throw"},
   {"then", "add", "done", "fail"},
   {"when", "add", "done", "fail", "progress"},
   {"ready", "hold", "throw"},
   {"fire", "add", "remove", "lock"},
   {"fire", "add", "empty", "disable"}}

MCListOptions ==
  {[once |-> FALSE, memory |-> FALSE, unique |-> FALSE, stopOnFalse |-> FALSE],
   [once |-> FALSE, memory |-> TRUE, unique |-> TRUE, stopOnFalse |-> TRUE],
   [once |-> TRUE, memory |-> FALSE, unique |-> FALSE, stopOnFalse |-> FALSE]}

MCData == 1..(MaxOps + 1)

MCEntry ==
  [k : {"user"}, f : Fns, l : {NoList}]
    \cup [k : {"setState", "disable", "lock", "forward", "update", "thenFn"},
          f : {NoFn}, l : ListIds \cup {NoList}]
=============================================================================
