------------------------------- MODULE MCDom -------------------------------
EXTENDS Dom

Bound(origType, handler, ns, delegated, one) ==
  [origType |-> origType, handler |-> handler, ns |-> ns,
   delegated |-> delegated, one |-> one, uid |-> 0]

Click == Bound("click", "f", "", FALSE, FALSE)
ClickOnce == Bound("click", "f", "", FALSE, TRUE)
ClickBelow == Bound("click", "g", "ns", TRUE, FALSE)
Enter == Bound("mouseenter", "g", "ns", FALSE, FALSE)
FocusIn == Bound("focusin", "f", "", FALSE, FALSE)
FocusBelow == Bound("focus", "g", "", TRUE, FALSE)

Without(origType, handler, ns, selector) ==
  [origType |-> origType, handler |-> handler, ns |-> ns,
   selector |-> selector, mapped |-> FALSE]

MCOffs ==
  {Without("click", "any", "any", FALSE),
   Without("click", "f", "any", FALSE),
   Without("any", "any", "ns", FALSE),
   Without("focus", "any", "any", TRUE)}

(* The life of data and listeners; events that handlers answer by binding  *)
(* and unbinding; events while elements come and go.                       *)
MCPrograms ==
  {[calls |-> {"on", "off", "data", "html", "remove", "append", "clone"},
    binds |-> {Click, ClickBelow, Enter, FocusIn, FocusBelow}],
   [calls |-> {"on", "off", "trigger", "native", "stop"},
    binds |-> {Click, ClickOnce, Enter}],
   [calls |-> {"on", "html", "remove", "trigger", "native"},
    binds |-> {ClickBelow, FocusIn}]}
=============================================================================
