-------------------------------- MODULE Slider --------------------------------
(***************************************************************************)
(* The slider of the visualizer's page (bootstrap-slider.js), with one     *)
(* handle, horizontal, moved with the mouse.  Page composes it with the    *)
(* page that listens to its slide events.                                  *)
(*                                                                         *)
(* Numbers are multiples of a half step, so that a typed value can lie     *)
(* between two steps.  A percentage of the track is kept as the distance   *)
(* from the minimum that it stands for.                                    *)
(***************************************************************************)
EXTENDS Integers

CONSTANTS
  Min, Max, Step, \* this.min, this.max, this.step
  Positions,    \* of the mouse, as distances from the left end of the track
  MaxHandlers   \* bound: presses whose release was not seen

ASSUME SliderAssumption ==
  /\ Step \in Nat \ {0} /\ Min \in Int /\ Max \in Int /\ Min < Max
  /\ (Max - Min) % Step = 0
  /\ Positions \subseteq Int /\ MaxHandlers \in Nat \ {0}

Diff == Max - Min

Least(a, b) == IF a <= b THEN a ELSE b
Greatest(a, b) == IF a >= b THEN a ELSE b

VARIABLES
  value,        \* this.value[0]
  percentage,   \* this.percentage[0]
  inDrag, over, \* the flags so named
  tooltip,      \* whether the tooltip has the class "in"
  handlers,     \* mousemove (and mouseup) handlers bound to the document
  button        \* the mouse button is down

slider == <<value, percentage, inDrag, over, tooltip, handlers, button>>

Clamp(x) == Greatest(Min, Least(Max, x))

(* Math.round, to a whole number of steps.                                 *)
Round(x) == Step * ((2 * x + Step) \div (2 * Step))

(* The constructor.                                                        *)
SliderInit(initial) ==
  /\ value = Clamp(initial)
  /\ percentage = Clamp(initial) - Min
  /\ inDrag = FALSE /\ over = FALSE /\ tooltip = FALSE
  /\ handlers = 0 /\ button = FALSE

GetPercentage(x) == Greatest(0, Least(Diff, Round(x)))

CalculateValue(p) == Min + Round(p)

(* showTooltip and hideTooltip, when the mouse enters and leaves.          *)
ShowTooltip ==
  /\ ~over
  /\ over' = TRUE /\ tooltip' = TRUE
  /\ UNCHANGED <<value, percentage, inDrag, handlers, button>>

HideTooltip ==
  /\ over
  /\ over' = FALSE
  /\ tooltip' = (tooltip /\ inDrag)
  /\ UNCHANGED <<value, percentage, inDrag, handlers, button>>

(* The handle jumps to the mouse, and the document is listened to.         *)
MouseDown(x) ==
  /\ over /\ ~button /\ handlers < MaxHandlers
  /\ button' = TRUE
  /\ percentage' = GetPercentage(x)
  /\ handlers' = handlers + 1
  /\ inDrag' = TRUE
  /\ value' = CalculateValue(GetPercentage(x))
  /\ UNCHANGED <<over, tooltip>>

MouseMove(x) ==
  /\ handlers > 0
  /\ percentage' = GetPercentage(x)
  /\ value' = CalculateValue(GetPercentage(x))
  /\ UNCHANGED <<inDrag, over, tooltip, handlers, button>>

(* off removes the handlers of all presses: their proxies share the guid   *)
(* of the function; a press elsewhere may precede.  slideStop has no       *)
(* listener, and slide is not triggered.                                   *)
MouseUp ==
  /\ handlers > 0
  /\ button' = FALSE
  /\ handlers' = 0
  /\ inDrag' = FALSE
  /\ tooltip' = (tooltip /\ over)
  /\ value' = CalculateValue(percentage)
  /\ UNCHANGED <<percentage, over>>

(* The button is released where the document does not see it.              *)
MouseUpUnseen ==
  /\ button
  /\ button' = FALSE
  /\ UNCHANGED <<value, percentage, inDrag, over, tooltip, handlers>>

SetValue(x) ==
  /\ value' = Clamp(x)
  /\ percentage' = Clamp(x) - Min
  /\ UNCHANGED <<inDrag, over, tooltip, handlers, button>>

SliderTypeOK ==
  /\ value \in Min .. Max /\ percentage \in 0 .. Diff
  /\ inDrag \in BOOLEAN /\ over \in BOOLEAN /\ tooltip \in BOOLEAN
  /\ button \in BOOLEAN
  /\ handlers \in 0 .. MaxHandlers
=============================================================================
