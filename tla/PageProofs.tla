------------------------------ MODULE PageProofs ------------------------------
(***************************************************************************)
(* Proofs about Page: for any slider, any positions of the mouse, any      *)
(* numbers typed and any threshold, Agree.  Agree is not inductive: that   *)
(* the slider stands where the percentile is, once the newest slide is     *)
(* handled, follows from where it stood when that slide was held back.     *)
(***************************************************************************)
EXTENDS Page, TLAPS

(* Value and percentage are those of x.                                    *)
Fits(x) == percentage = Clamp(x) - Min /\ StandsAt(x)

(* The newest slide is held back, or the percentile is the newest, or it   *)
(* is known to be late.                                                    *)
Newest ==
  /\ unapplied => ~late /\ deferTimer # NoTimer /\ Fits(args)
  /\ ~unapplied /\ ~late => Fits(percentile)

IInv == TypeOK /\ Current /\ Attached /\ Newest

-----------------------------------------------------------------------------
(* Rounding to steps.                                                      *)
LEMMA Quotient ==
  ASSUME NEW y \in Int, NEW d \in Nat \ {0}, NEW k \in Int,
         d * k <= y, y < d * k + d
  PROVE  y \div d = k
<1>1. /\ y \div d \in Int
      /\ d * (y \div d) <= y /\ y < d * (y \div d) + d
  OBVIOUS
<1>2. \A m \in Int, n \in Int : m < n => d * m + d <= d * n
  OBVIOUS
<1> QED
  BY <1>1, <1>2

(* A whole number of steps stays as it is.                                 *)
LEMMA RoundExact ==
  ASSUME NEW k \in Int
  PROVE  Round(Step * k) = Step * k
<1>1. Step \in Nat \ {0}
  BY SliderAssumption
<1> DEFINE y == 2 * (Step * k) + Step
<1>2. Step * k \in Int /\ y \in Int /\ 2 * Step \in Nat \ {0}
  BY <1>1
<1>3. (2 * Step) * k = 2 * (Step * k)
  BY <1>1
<1>4. (2 * Step) * k <= y /\ y < (2 * Step) * k + 2 * Step
  BY <1>1, <1>2, <1>3
<1> HIDE DEF y
<1>5. y \div (2 * Step) = k
  BY <1>2, <1>4, Quotient
<1> QED
  BY <1>5 DEF Round, y

LEMMA RoundInt ==
  ASSUME NEW x \in Int
  PROVE  \E k \in Int : Round(x) = Step * k
<1>1. Step \in Nat \ {0}
  BY SliderAssumption
<1>2. (2 * x + Step) \div (2 * Step) \in Int
  BY <1>1
<1> QED
  BY <1>2 DEF Round

(* The track is a whole number of steps long.                              *)
LEMMA Track == Diff \in Nat /\ \E k \in Int : Diff = Step * k
<1>1. Step \in Nat \ {0} /\ Max - Min \in Nat /\ (Max - Min) % Step = 0
  BY SliderAssumption
<1>2. /\ (Max - Min) \div Step \in Int
      /\ Max - Min = Step * ((Max - Min) \div Step) + ((Max - Min) % Step)
  BY <1>1
<1>3. Diff = Step * ((Max - Min) \div Step)
  BY <1>1, <1>2 DEF Diff
<1> QED
  BY <1>1, <1>2, <1>3 DEF Diff

(* Rounding keeps what is on the track on it.                              *)
LEMMA RoundOnTrack ==
  ASSUME NEW x \in 0 .. Diff
  PROVE  Round(x) \in 0 .. Diff
<1>1. Step \in Nat \ {0} /\ Diff \in Nat
  BY SliderAssumption, Track
<1>2. PICK n \in Int : Diff = Step * n
  BY Track
<1> DEFINE k == (2 * x + Step) \div (2 * Step)
<1>3. /\ k \in Int
      /\ (2 * Step) * k <= 2 * x + Step
      /\ 2 * x + Step < (2 * Step) * k + 2 * Step
  BY <1>1
<1>4. (2 * Step) * k = 2 * (Step * k) /\ Step * k \in Int
  BY <1>1, <1>3
<1> HIDE DEF k
<1>5. \A i \in Int, j \in Int : i < j => Step * i + Step <= Step * j
  BY <1>1
<1>6. 0 <= Step * k
  <2>1. k < 0 => Step * k + Step <= Step * 0
    BY <1>3, <1>5
  <2>2. Step * 0 = 0
    BY <1>1
  <2>3. k >= 0
    BY <1>1, <1>3, <1>4, <2>1, <2>2
  <2>4. \A j \in Nat : Step * j >= 0
    BY <1>1
  <2> QED
    BY <1>3, <2>3, <2>4
<1>7. Step * k <= Diff
  <2>1. n < k => Step * n + Step <= Step * k
    BY <1>3, <1>5
  <2>2. k < n => Step * k + Step <= Step * n
    BY <1>3, <1>5
  <2>3. 2 * (Step * k) <= 2 * Diff + Step
    BY <1>1, <1>3, <1>4
  <2>4. k <= n
    BY <1>1, <1>2, <1>3, <1>4, <2>1, <2>3
  <2> QED
    BY <1>1, <1>2, <1>3, <1>4, <2>2, <2>4
<1>8. Round(x) = Step * k
  BY DEF Round, k
<1> QED
  BY <1>1, <1>4, <1>6, <1>7, <1>8

(* Where the mouse puts the handle is a place on the track that rounding   *)
(* keeps.                                                                  *)
LEMMA Handle ==
  ASSUME NEW x \in Positions
  PROVE  /\ GetPercentage(x) \in 0 .. Diff
         /\ Round(GetPercentage(x)) = GetPercentage(x)
<1>1. x \in Int /\ Step \in Nat \ {0} /\ Diff \in Nat
  BY SliderAssumption, Track
<1>2. PICK k \in Int : Round(x) = Step * k
  BY <1>1, RoundInt
<1>3. PICK n \in Int : Diff = Step * n
  BY Track
<1>4. Step * 0 = 0 /\ Step * k \in Int
  BY <1>1
<1>5. GetPercentage(x) \in {Step * 0, Step * n, Step * k} \cap (0 .. Diff)
  BY <1>1, <1>2, <1>3, <1>4 DEF GetPercentage, Greatest, Least
<1> QED
  BY <1>5, RoundExact

LEMMA ClampRange ==
  ASSUME NEW x \in Int
  PROVE  /\ Clamp(x) \in Min .. Max
         /\ x \in Min .. Max => Clamp(x) = x
BY SliderAssumption DEF Clamp, Greatest, Least

(* A slide puts the slider where its value says.                           *)
LEMMA SlideFits ==
  ASSUME NEW x \in Positions,
         percentage' = GetPercentage(x),
         value' = CalculateValue(GetPercentage(x))
  PROVE  /\ value' \in Min .. Max /\ percentage' \in 0 .. Diff
         /\ percentage' = Clamp(value') - Min
         /\ value' \in {Clamp(value'), CalculateValue(Clamp(value') - Min)}
<1>1. Min \in Int /\ Max \in Int /\ Diff = Max - Min
  BY SliderAssumption DEF Diff
<1>2. percentage' \in 0 .. Diff /\ value' = Min + percentage'
  BY Handle DEF CalculateValue
<1>3. value' \in Min .. Max
  BY <1>1, <1>2
<1>4. Clamp(value') = value'
  BY <1>1, <1>3, ClampRange
<1> QED
  BY <1>1, <1>2, <1>3, <1>4

-----------------------------------------------------------------------------
LEMMA Ranges ==
  /\ Min \in Int /\ Max \in Int /\ Diff \in Nat /\ Diff = Max - Min
  /\ MaxHandlers \in Nat \ {0} /\ Threshold \in Nat \ {0}
  /\ Typed \subseteq Int \cup {NaN} /\ Zooms \subseteq Int \cup {NaN}
  /\ NaN \notin Int
BY SliderAssumption, PageAssumption, Track DEF Diff

LEMMA InitInvariant == Init => IInv
<1> SUFFICES ASSUME Init
             PROVE  IInv
  OBVIOUS
<1> USE DEF Init, SliderInit
<1>1. Initial \in Min .. Max /\ Initial \in Int /\ Clamp(Initial) = Initial
  BY Ranges, PageAssumption, ClampRange
<1>2. TypeOK
  <2>1. value \in Min .. Max /\ percentage \in 0 .. Diff
    BY <1>1, Ranges
  <2>2. /\ inDrag \in BOOLEAN /\ over \in BOOLEAN /\ tooltip \in BOOLEAN
        /\ button \in BOOLEAN /\ unapplied \in BOOLEAN /\ late \in BOOLEAN
    OBVIOUS
  <2>3. /\ handlers \in 0 .. MaxHandlers
        /\ since \in 0 .. Threshold /\ deferTimer \in NoTimer .. Threshold
        /\ key \in {"none", "perc", "zoom"}
    BY Ranges DEF NoTimer
  <2> QED
    BY <1>1, <2>1, <2>2, <2>3 DEF TypeOK, SliderTypeOK
<1>3. Current /\ Attached
  BY DEF Current, Attached
<1>4. Newest
  BY <1>1 DEF Newest, Fits, StandsAt
<1> QED
  BY <1>2, <1>3, <1>4 DEF IInv

(* What a slide of the mouse changes, whether it presses or moves.         *)
LEMMA ThrottleKeeps ==
  ASSUME IInv, NEW x \in Positions, NEW n \in Nat \ {0},
         percentage' = GetPercentage(x),
         value' = CalculateValue(GetPercentage(x)),
         Throttle(value', n)
  PROVE  /\ percentile' \in Int /\ scale' \in Int
         /\ perc' \in Int \cup {NaN} /\ zoom' \in Int \cup {NaN}
         /\ key' \in {"none", "perc", "zoom"}
         /\ since' \in 0 .. Threshold /\ deferTimer' \in NoTimer .. Threshold
         /\ args' \in Min .. Max /\ unapplied' \in BOOLEAN /\ late' \in BOOLEAN
         /\ Current' /\ Newest'
<1>1. /\ value' \in Min .. Max /\ value' \in Int
      /\ Fits(value)'
  BY SlideFits, Ranges DEF Fits, StandsAt
<1>2. /\ percentile' \in Int /\ scale' \in Int
      /\ perc' \in Int \cup {NaN} /\ zoom' \in Int \cup {NaN}
      /\ key' \in {"none", "perc", "zoom"}
      /\ Current'
  BY <1>1 DEF IInv, TypeOK, Current, Throttle, Slide, Render, page
<1>3. CASE since = Threshold
  <2>1. /\ percentile' = value' /\ since' = 0
        /\ unapplied' = FALSE /\ late' = FALSE
    BY <1>3 DEF Throttle, Slide
  <2>2. \/ deferTimer' = Threshold /\ args' = value'
        \/ deferTimer' = deferTimer /\ args' = args
    BY DEF Throttle
  <2>3. /\ deferTimer' \in NoTimer .. Threshold /\ args' \in Min .. Max
        /\ since' \in 0 .. Threshold
    BY <1>1, <2>1, <2>2, Ranges DEF IInv, TypeOK, NoTimer
  <2>4. Newest'
    BY <1>1, <2>1 DEF Newest
  <2> QED
    BY <1>2, <2>1, <2>3, <2>4
<1>4. CASE since # Threshold
  <2>1. since < Threshold
    BY <1>4, Ranges DEF IInv, TypeOK
  <2>2. /\ unapplied' = TRUE /\ since' = since
        /\ late' = FALSE /\ deferTimer' = Threshold /\ args' = value'
    BY <1>4, <2>1 DEF Throttle
  <2>3. /\ deferTimer' \in NoTimer .. Threshold /\ args' \in Min .. Max
        /\ since' \in 0 .. Threshold /\ deferTimer' # NoTimer
    BY <1>1, <2>2, Ranges DEF IInv, TypeOK, NoTimer
  <2>4. Newest'
    BY <1>1, <2>2, <2>3 DEF Newest
  <2> QED
    BY <1>2, <2>2, <2>3, <2>4
<1> QED
  BY <1>3, <1>4

LEMMA PressKeeps ==
  ASSUME IInv, NEW x \in Positions, Press(x)
  PROVE  IInv'
<1> USE DEF Press, MouseDown
<1>1. value' \in Min .. Max /\ percentage' \in 0 .. Diff
  BY SlideFits
<1>2. TypeOK'
  BY <1>1, ThrottleKeeps, Ranges DEF IInv, TypeOK, SliderTypeOK
<1>3. Attached'
  BY Ranges DEF IInv, TypeOK, SliderTypeOK, Attached
<1>4. Current' /\ Newest'
  BY ThrottleKeeps
<1> QED
  BY <1>2, <1>3, <1>4 DEF IInv

LEMMA MoveKeeps ==
  ASSUME IInv, NEW x \in Positions, Move(x)
  PROVE  IInv'
<1> USE DEF Move, MouseMove
<1>1. value' \in Min .. Max /\ percentage' \in 0 .. Diff
  BY SlideFits
<1>2. handlers \in Nat \ {0}
  BY Ranges DEF IInv, TypeOK, SliderTypeOK
<1>3. TypeOK'
  BY <1>1, <1>2, ThrottleKeeps, Ranges DEF IInv, TypeOK, SliderTypeOK
<1>4. Attached'
  BY DEF IInv, Attached
<1>5. Current' /\ Newest'
  BY <1>2, ThrottleKeeps
<1> QED
  BY <1>3, <1>4, <1>5 DEF IInv

(* Releasing the button rounds the value, and listens no longer.           *)
LEMMA ReleaseKeeps ==
  ASSUME IInv, Release
  PROVE  IInv'
<1> USE DEF Release, MouseUp, page, throttled, history
<1>1. value' \in Min .. Max
  <2>1. percentage \in 0 .. Diff
    BY DEF IInv, TypeOK, SliderTypeOK
  <2>2. Round(percentage) \in 0 .. Diff
    BY <2>1, RoundOnTrack
  <2> QED
    BY <2>2, Ranges DEF CalculateValue
<1>2. TypeOK'
  <2>1. tooltip' \in BOOLEAN /\ inDrag' \in BOOLEAN /\ button' \in BOOLEAN
    BY DEF IInv, TypeOK, SliderTypeOK
  <2> QED
    BY <1>1, <2>1, Ranges DEF IInv, TypeOK, SliderTypeOK
<1>3. Current'
  BY DEF IInv, Current
<1>4. Attached'
  BY DEF IInv, TypeOK, SliderTypeOK, Attached
<1>5. \A v : Fits(v) => Fits(v)'
  BY DEF Fits, StandsAt
<1>6. Fits(args) => Fits(args)'
  BY DEF Fits, StandsAt
<1>7. Fits(percentile) => Fits(percentile)'
  BY DEF Fits, StandsAt
<1>8. Newest'
  BY <1>6, <1>7 DEF IInv, Newest
<1> QED
  BY <1>2, <1>3, <1>4, <1>8 DEF IInv

(* Where the mouse is changes the tooltip only.                            *)
LEMMA HoverKeeps ==
  ASSUME IInv, Hover
  PROVE  IInv'
<1> USE DEF Hover, page, throttled, history
<1>1. /\ UNCHANGED <<value, percentage, handlers, inDrag>>
      /\ UNCHANGED <<percentile, scale, perc, zoom, key, drawn>>
      /\ UNCHANGED <<since, deferTimer, args, unapplied, late>>
  BY DEF ShowTooltip, HideTooltip, MouseUpUnseen
<1>2. /\ tooltip' \in BOOLEAN /\ over' \in BOOLEAN /\ button' \in BOOLEAN
      /\ Attached'
  <2>1. CASE ShowTooltip
    BY <2>1 DEF ShowTooltip, IInv, TypeOK, SliderTypeOK, Attached
  <2>2. CASE HideTooltip
    BY <2>2 DEF HideTooltip, IInv, TypeOK, SliderTypeOK, Attached
  <2>3. CASE MouseUpUnseen
    BY <2>3 DEF MouseUpUnseen, IInv, TypeOK, SliderTypeOK, Attached
  <2> QED
    BY <2>1, <2>2, <2>3
<1>3. TypeOK'
  BY <1>1, <1>2 DEF IInv, TypeOK, SliderTypeOK
<1>4. Current' /\ Newest'
  BY <1>1 DEF IInv, Current, Newest, Fits, StandsAt
<1> QED
  BY <1>2, <1>3, <1>4 DEF IInv

(* Typing and zooming leave the slider and what throttle keeps alone.      *)
LEMMA TypeKeeps ==
  ASSUME IInv, Type
  PROVE  IInv'
<1> USE DEF Type, slider, throttled, history
<1>1. TypeOK'
  BY Ranges DEF IInv, TypeOK, SliderTypeOK
<1>2. Current'
  BY DEF IInv, Current
<1>3. Attached' /\ Newest'
  BY DEF IInv, Attached, Newest, Fits, StandsAt
<1> QED
  BY <1>1, <1>2, <1>3 DEF IInv

LEMMA KeyupZoomKeeps ==
  ASSUME IInv, KeyupZoom
  PROVE  IInv'
<1> USE DEF KeyupZoom, Render, slider, throttled, history
<1>1. TypeOK'
  BY Ranges DEF IInv, TypeOK, SliderTypeOK
<1>2. Current'
  BY DEF IInv, TypeOK, Current
<1>3. Attached' /\ Newest'
  BY DEF IInv, Attached, Newest, Fits, StandsAt
<1> QED
  BY <1>1, <1>2, <1>3 DEF IInv

LEMMA ZoomKeeps ==
  ASSUME IInv, NEW step \in {1, -1}, Zoom(step)
  PROVE  IInv'
<1> USE DEF Zoom, Render, slider, throttled, history
<1>1. TypeOK'
  BY Ranges DEF IInv, TypeOK, SliderTypeOK
<1>2. Current'
  BY DEF IInv, TypeOK, Current
<1>3. Attached' /\ Newest'
  BY DEF IInv, Attached, Newest, Fits, StandsAt
<1> QED
  BY <1>1, <1>2, <1>3 DEF IInv

(* A number typed puts the slider where the percentile then is.            *)
LEMMA KeyupPercKeeps ==
  ASSUME IInv, KeyupPerc
  PROVE  IInv'
<1> USE DEF KeyupPerc
<1>1. CASE perc # NaN /\ percentile # perc
  <2>1. /\ percentile' = perc /\ SetValue(perc) /\ Render
        /\ unapplied' = FALSE /\ late' = FALSE
    BY <1>1
  <2>2. perc \in Int
    BY <1>1 DEF IInv, TypeOK
  <2>3. value' \in Min .. Max /\ percentage' \in 0 .. Diff
    BY <2>1, <2>2, ClampRange, Ranges DEF SetValue
  <2>4. TypeOK'
    BY <2>1, <2>2, <2>3, Ranges
    DEF IInv, TypeOK, SliderTypeOK, SetValue, throttled
  <2>5. Current'
    BY <2>1 DEF IInv, Current, Render
  <2>6. Attached'
    BY <2>1 DEF IInv, Attached, SetValue
  <2>7. Newest'
    BY <2>1 DEF Newest, Fits, StandsAt, SetValue
  <2> QED
    BY <2>4, <2>5, <2>6, <2>7 DEF IInv
<1>2. CASE perc = NaN \/ percentile = perc
  <2>1. UNCHANGED <<slider, percentile, drawn, history, throttled>>
    BY <1>2
  <2>2. TypeOK'
    BY <2>1 DEF IInv, TypeOK, SliderTypeOK, slider, history, throttled
  <2>3. Current'
    BY <1>2, <2>1 DEF IInv, Current
  <2>4. Attached' /\ Newest'
    BY <2>1
    DEF IInv, Attached, Newest, Fits, StandsAt, slider, history, throttled
  <2> QED
    BY <2>2, <2>3, <2>4 DEF IInv
<1> QED
  BY <1>1, <1>2

(* The slide held back is the newest, or the percentile stays, or it comes *)
(* late.                                                                   *)
LEMMA TimerFiresKeeps ==
  ASSUME IInv, TimerFires
  PROVE  IInv'
<1> USE DEF TimerFires, Slide, Render, slider
<1>1. args \in Int /\ percentile' = args
  BY Ranges DEF IInv, TypeOK
<1>2. late' \in BOOLEAN
  OBVIOUS
<1>3. TypeOK'
  <2>1. /\ UNCHANGED <<slider, args, scale, zoom, key>>
        /\ percentile' = args /\ perc' = args /\ unapplied' = FALSE
        /\ since' = Threshold /\ deferTimer' = NoTimer
    OBVIOUS
  <2>2. since' \in 0 .. Threshold /\ deferTimer' \in NoTimer .. Threshold
    BY <2>1, Ranges DEF NoTimer
  <2> HIDE DEF TimerFires
  <2> QED
    BY <1>1, <1>2, <2>1, <2>2 DEF IInv, TypeOK, SliderTypeOK
<1>4. Current'
  BY DEF IInv, Current
<1>5. Attached'
  BY DEF IInv, Attached
<1>6. Newest'
  <2> SUFFICES ASSUME ~late'
               PROVE  Fits(args)
    BY <1>1 DEF Newest, Fits, StandsAt
  <2>1. CASE unapplied
    BY <2>1 DEF IInv, Newest
  <2>2. CASE ~unapplied
    <3>1. ~late /\ args = percentile
      BY <2>2
    <3> QED
      BY <2>2, <3>1 DEF IInv, Newest
  <2> QED
    BY <2>1, <2>2
<1> QED
  BY <1>3, <1>4, <1>5, <1>6 DEF IInv

LEMMA TickKeeps ==
  ASSUME IInv, Tick
  PROVE  IInv'
<1> USE DEF Tick, slider, page, history
<1>1. /\ since' \in 0 .. Threshold
      /\ deferTimer' \in NoTimer .. Threshold
      /\ deferTimer # NoTimer => deferTimer' # NoTimer
  BY Ranges DEF IInv, TypeOK, Least, NoTimer
<1>2. TypeOK'
  BY <1>1 DEF IInv, TypeOK, SliderTypeOK
<1>3. Current' /\ Attached'
  BY DEF IInv, Current, Attached
<1>4. Newest'
  BY <1>1 DEF IInv, Newest, Fits, StandsAt
<1> QED
  BY <1>2, <1>3, <1>4 DEF IInv

LEMMA NextInvariant == IInv /\ [Next]_vars => IInv'
<1> SUFFICES ASSUME IInv, [Next]_vars
             PROVE  IInv'
  OBVIOUS
<1>1. CASE UNCHANGED vars
  BY <1>1 DEF IInv, TypeOK, SliderTypeOK, Current, Attached, Newest, Fits,
  StandsAt, vars, slider, page, throttled, history
<1>2. CASE Next
  BY <1>2, PressKeeps, MoveKeeps, ReleaseKeeps, HoverKeeps, TypeKeeps,
  KeyupPercKeeps, KeyupZoomKeeps, ZoomKeeps, TimerFiresKeeps, TickKeeps
  DEF Next
<1> QED
  BY <1>1, <1>2

(* Drawing, fields, tooltip and listeners are right after every handler,   *)
(* and the slider stands where the percentile is unless a slide is held    *)
(* back or was handled late (visualize.js, bootstrap-slider.js), for any   *)
(* slider, mouse, numbers and threshold.                                   *)
THEOREM AlwaysAgrees == Spec => []Agree
<1>1. IInv => Agree
  BY DEF IInv, Agree, Newest, Fits
<1> QED
  BY <1>1, InitInvariant, NextInvariant, PTL DEF Spec
=============================================================================
