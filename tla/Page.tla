--------------------------------- MODULE Page ---------------------------------
(***************************************************************************)
(* The page of the visualizer (visualize.js): a percentile, typed or set   *)
(* with the slider, and a zoom, typed or set with two buttons, from which  *)
(* the streams of the programs are drawn.  Slides reach the page through   *)
(* throttle, which holds some of them back until a timer fires.            *)
(*                                                                         *)
(* What is drawn for a percentile is Visualizer's matter; here it is the   *)
(* pair it was drawn for.  Handlers run one at a time.  A zoom is kept as  *)
(* an exponent of 1.1.                                                     *)
(*                                                                         *)
(* External: a timer of the browser fires once its time has come, and not  *)
(* before.                                                                 *)
(***************************************************************************)
EXTENDS Slider

CONSTANTS
  Initial,      \* the percentile and the value of the slider at first
  Typed,        \* percentiles that are typed
  Zooms,        \* scales that are typed, and the bounds of the scale
  NaN,          \* what Number makes of a text that is none
  Threshold     \* of throttle

ASSUME PageAssumption ==
  /\ Typed \subseteq Int \cup {NaN} /\ Zooms \subseteq Int \cup {NaN}
  /\ NaN \notin Int /\ Initial \in Min .. Max
  /\ Threshold \in Nat \ {0}

VARIABLES
  percentile, scale, \* the global variables so named
  perc, zoom,   \* what the two input fields hold, as numbers
  key,          \* the field a key is down in
  drawn,        \* what the streams and the legend were drawn from
  since,        \* time since throttle's last, up to Threshold
  deferTimer,   \* time until the timer fires, or NoTimer
  args,         \* the value that the deferred slide has
  unapplied,    \* history: the newest slide has not been handled yet
  late          \* history: what was handled last is an older slide

page == <<percentile, scale, perc, zoom, key, drawn>>
throttled == <<since, deferTimer, args>>
history == <<unapplied, late>>

vars == <<slider, page, throttled, history>>

NoTimer == -1

(* The page after receive_data has drawn it and bound the handlers.        *)
Init ==
  /\ SliderInit(Initial)
  /\ percentile = Initial /\ scale = 0
  /\ perc = Initial /\ zoom = 0 /\ key = "none"
  /\ drawn = <<Initial, 0>>
  /\ since = Threshold /\ deferTimer = NoTimer /\ args = Initial
  /\ unapplied = FALSE /\ late = FALSE

(* render.                                                                 *)
Render == drawn' = <<percentile', scale'>>

(* The listener of slide.  (Its test, !isNaN(num && percentile !== num),   *)
(* passes every number, and hack is never set while it runs.)              *)
Slide(v) ==
  /\ percentile' = v
  /\ perc' = v
  /\ UNCHANGED <<scale, zoom, key>>
  /\ Render

(* Variant: holds nothing back, and drops instead.                         *)
ThrottleDropping(v, n) ==
  \/ /\ since = Threshold
     /\ since' = 0
     /\ Slide(v)
     /\ unapplied' = FALSE /\ late' = FALSE
     /\ UNCHANGED <<deferTimer, args>>
  \/ /\ since < Threshold
     /\ unapplied' = TRUE /\ late' = FALSE
     /\ UNCHANGED <<since, deferTimer, args, page>>

(* The function that throttle returns, called n times in a row: a call     *)
(* within the threshold replaces the one held back; one after it runs at   *)
(* once, and leaves the one held back where it is.                         *)
Throttle(v, n) ==
  /\ IF since = Threshold
     THEN since' = 0 /\ Slide(v) /\ unapplied' = FALSE
     ELSE unapplied' = TRUE /\ UNCHANGED <<since, page>>
  /\ IF since < Threshold \/ n > 1
     THEN deferTimer' = Threshold /\ args' = v
     ELSE UNCHANGED <<deferTimer, args>>
  /\ late' = FALSE

(* Its timer fires.  last becomes the time of the call, which is at least  *)
(* a threshold ago.                                                        *)
TimerFires ==
  /\ deferTimer = 0
  /\ deferTimer' = NoTimer
  /\ since' = Threshold
  /\ Slide(args)
  /\ late' = (~unapplied /\ (late \/ args # percentile))
  /\ unapplied' = FALSE
  /\ UNCHANGED <<slider, args>>

-----------------------------------------------------------------------------
(* The mouse.                                                              *)
Press(x) == MouseDown(x) /\ Throttle(value', 1)
Move(x) == MouseMove(x) /\ Throttle(value', handlers)
Release == MouseUp /\ UNCHANGED <<page, throttled, history>>

Hover ==
  /\ ShowTooltip \/ HideTooltip \/ MouseUpUnseen
  /\ UNCHANGED <<page, throttled, history>>

(* The keyboard: the text changes, and the handler runs when the key is    *)
(* released, on whatever the field then holds.                             *)
Type ==
  /\ key = "none"
  /\ \/ key' = "perc" /\ perc' \in Typed /\ UNCHANGED zoom
     \/ key' = "zoom" /\ zoom' \in Zooms /\ UNCHANGED perc
  /\ UNCHANGED <<slider, percentile, scale, drawn, throttled, history>>

(* Variant: lets the slider where it is.                                   *)
KeyupPercAlone ==
  /\ key = "perc"
  /\ key' = "none"
  /\ percentile' = IF perc = NaN THEN percentile ELSE perc
  /\ unapplied' = FALSE /\ late' = FALSE
  /\ UNCHANGED <<slider, scale, perc, zoom, throttled>>
  /\ Render

(* setValue triggers no slide.                                             *)
KeyupPerc ==
  /\ key = "perc"
  /\ key' = "none"
  /\ UNCHANGED <<scale, perc, zoom, throttled>>
  /\ \/ /\ perc # NaN /\ percentile # perc
        /\ percentile' = perc
        /\ SetValue(perc)
        /\ Render
        /\ unapplied' = FALSE /\ late' = FALSE
     \/ /\ perc = NaN \/ percentile = perc
        /\ UNCHANGED <<slider, percentile, drawn, history>>

KeyupZoom ==
  /\ key = "zoom"
  /\ key' = "none"
  /\ scale' = IF zoom = NaN THEN scale ELSE zoom
  /\ UNCHANGED <<slider, percentile, perc, zoom, throttled, history>>
  /\ Render

(* The buttons zoomin and zoomout.                                         *)
Zoom(step) ==
  /\ scale + step \in Zooms
  /\ scale' = scale + step
  /\ zoom' = scale + step
  /\ UNCHANGED <<slider, percentile, perc, key, throttled, history>>
  /\ Render

Tick ==
  /\ since < Threshold \/ deferTimer > 0
  /\ since' = Least(since + 1, Threshold)
  /\ deferTimer' = IF deferTimer > 0 THEN deferTimer - 1 ELSE deferTimer
  /\ UNCHANGED <<slider, page, args, history>>

Next ==
  \/ \E x \in Positions : Press(x) \/ Move(x)
  \/ Release \/ Hover
  \/ Type \/ KeyupPerc \/ KeyupZoom
  \/ Zoom(1) \/ Zoom(-1)
  \/ TimerFires
  \/ Tick

Spec == Init /\ [][Next]_vars

(* Time passes, and timers fire.                                           *)
FairSpec == Spec /\ WF_vars(Tick) /\ WF_vars(TimerFires)

-----------------------------------------------------------------------------
TypeOK ==
  /\ SliderTypeOK
  /\ percentile \in Int /\ scale \in Int
  /\ perc \in Int \cup {NaN} /\ zoom \in Int \cup {NaN}
  /\ key \in {"none", "perc", "zoom"}
  /\ since \in 0 .. Threshold /\ deferTimer \in NoTimer .. Threshold
  /\ args \in Min .. Max
  /\ unapplied \in BOOLEAN /\ late \in BOOLEAN

(* The drawing is the one for the percentile and the scale there are, and  *)
(* the fields show these unless they hold no number or a key is down.      *)
Current ==
  /\ drawn = <<percentile, scale>>
  /\ perc = percentile \/ perc = NaN \/ key = "perc"
  /\ zoom = scale \/ zoom = NaN \/ key = "zoom"

Attached ==
  /\ tooltip <=> over \/ inDrag
  /\ inDrag <=> handlers > 0

(* The slider stands at x, if need be between its steps.                   *)
StandsAt(x) == value \in {Clamp(x), CalculateValue(Clamp(x) - Min)}

(* Whatever was typed, slid, clicked, held back or released unseen, and in *)
(* which order: drawing and fields are current, the tooltip is shown and   *)
(* the document listened to exactly when they should, and the slider       *)
(* stands where the percentile is, to a step and within its ends, as soon  *)
(* as the newest slide is handled and until an older one is (render and    *)
(* receive_data's handlers; mousedown, mouseup, hideTooltip; throttle,     *)
(* "hold on to it").                                                       *)
Agree ==
  /\ TypeOK
  /\ Current
  /\ Attached
  /\ ~unapplied /\ ~late => StandsAt(percentile)

(* The same, once no slide is held back.                                   *)
AgreeAlways == deferTimer = NoTimer => StandsAt(percentile)

(* The newest slide takes effect, however the slides are spaced, unless a  *)
(* number is typed before it does (throttle).                              *)
SlideApplied == unapplied ~> ~unapplied
=============================================================================
