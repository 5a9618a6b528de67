--------------------------- MODULE PictureGeometry ---------------------------
(***************************************************************************)
(* What is computed from one picture: the detected black border            *)
(* (BlackBorderDetector.h), the pixels a grabber keeps of it               *)
(* (ImageResampler.cpp, DispmanxFrameGrabber.cpp), and the leds of the     *)
(* layout.  A behaviour looks at one case.                                 *)
(***************************************************************************)
EXTENDS LedLayout

CONSTANTS Widths, Heights,      \* of the pictures
          Blurs,                \* blurRemoveCnt
          Decimations, Cuts,    \* crops at the sides
          Frac,                 \* ends of leds, in units of 1/Unit
          Levels, Percents,     \* of colors and of brightness
          NoCase

ASSUME CasesAssumption ==
  /\ Widths \cup Heights \cup Blurs \cup Cuts \subseteq Nat /\ Decimations \subseteq Nat \ {0}
  /\ Frac \subseteq 0 .. Unit /\ Levels \subseteq 0 .. 255 /\ Percents \subseteq 0 .. 100

VARIABLE case

(* a picture is black but for the rectangle x[1] .. x[2], y[1] .. y[2]     *)
Lit(p, x, y) == p.x[1] =< x /\ x =< p.x[2] /\ p.y[1] =< y /\ y =< p.y[2]

FirstOf(S) == IF S = {} THEN -1 ELSE Min(S)

(* how far each mode searches *)
Third(size) == 0 .. size \div 3 - 1

(* process(): two lines from the left and the top, one from the other side *)
DetectDefault(p) ==
  [x |-> FirstOf({x \in Third(p.w) : \/ Lit(p, p.w - 1 - x, p.h \div 2)
                                     \/ Lit(p, x, p.h \div 3) \/ Lit(p, x, 2 * (p.h \div 3))}),
   y |-> FirstOf({y \in Third(p.h) : \/ Lit(p, p.w \div 2, p.h - 1 - y)
                                     \/ Lit(p, p.w \div 3, y) \/ Lit(p, 2 * (p.w \div 3), y)})]

(* process_classic(): along a diagonal, then to the left and up *)
DetectClassic(p) ==
  LET w == p.w \div 3  h == p.h \div 3
      onDiagonal == {i \in 0 .. Max({w, h}) - 1 : Lit(p, Min({i, w}), Min({i, h}))}
      i == Min(onDiagonal)
      leftOf(x, y) == {e \in 0 .. x : \A k \in e .. x : Lit(p, k, y)}
      above(x, y) == {e \in 0 .. y : \A k \in e .. y : Lit(p, x, k)}
      x0 == Min(leftOf(Min({i, w}), Min({i, h})))
  IN IF onDiagonal = {} THEN [x |-> -1, y |-> -1]
     ELSE [x |-> x0, y |-> Min(above(x0, Min({i, h})))]

(* process_osd(): the top and the bottom at the column that was found *)
DetectOsd(p) ==
  LET x == FirstOf({k \in Third(p.w) : \/ Lit(p, p.w - 1 - k, p.h \div 2)
                                       \/ Lit(p, k, p.h \div 3) \/ Lit(p, k, 2 * (p.h \div 3))})
      at == IF x < 0 THEN p.w \div 3 ELSE x
  IN [x |-> x,
      y |-> FirstOf({y \in Third(p.h) : \E k \in {at, p.w - 1 - at}, l \in {y, p.h - 1 - y} : Lit(p, k, l)})]

Detected(mode, p) ==
  CASE mode = "default" -> DetectDefault(p)
    [] mode = "classic" -> DetectClassic(p)
    [] mode = "osd"     -> DetectOsd(p)

(* BlackBorderProcessor::process(): a border is widened by the blur *)
Blurred(b, blur) == [x |-> IF b.x > 0 THEN b.x + blur ELSE b.x, y |-> IF b.y > 0 THEN b.y + blur ELSE b.y]

-----------------------------------------------------------------------------

(* ImageResampler::processImage(), along one axis *)
OutputSize(size, low, high, decimation) ==
  (size - low - high - decimation \div 2 + decimation - 1) \div decimation

SourceAt(k, low, decimation) == low + decimation \div 2 + k * decimation

(* the far half of a 3D picture replaces the far crop *)
FarCrop(size, high, halved) == IF halved THEN size \div 2 ELSE high

(* DispmanxFrameGrabber: first line or column and number of those kept *)
Kept(size, low, high, halved) ==
  IF halved THEN <<low \div 2, (size - low - high) \div 2>> ELSE <<low, size - low - high>>

-----------------------------------------------------------------------------
Pair(S) == {s \in S \X S : s[1] =< s[2]}

BorderCases ==
  UNION {{[kind |-> "border", mode |-> m, w |-> w, h |-> h, x |-> x, y |-> y] :
            m \in {"default", "classic", "osd"}, x \in Pair(0 .. w - 1), y \in Pair(0 .. h - 1)} :
         w \in Widths, h \in Heights}
SampleCases ==
  {[kind |-> "sample", size |-> s, low |-> l, high |-> h, by |-> d, halved |-> v] :
     s \in Widths \cup Heights, l \in Cuts, h \in Cuts, d \in Decimations, v \in BOOLEAN}
LedCases ==
  {[kind |-> "led", size |-> s, border |-> b, x |-> x, next |-> n] :
     s \in Widths \cup Heights, b \in Cuts, x \in Pair(Frac), n \in Frac}
ColorCases ==
  {[kind |-> "color", c |-> c, brightness |-> b, compensation |-> p] :
     c \in [1 .. 3 -> Levels], b \in Percents, p \in Percents}

GeometryInit == case = NoCase

Choose ==
  /\ case = NoCase
  /\ case' \in BorderCases \cup SampleCases \cup LedCases \cup ColorCases

GeometryNext == Choose
-----------------------------------------------------------------------------
(* A letterbox is found as it is, by every mode, and a border leaves the   *)
(* middle of the picture, also when it is widened by the blur, as          *)
(* ImageToLedsMap requires of it: as long as a third of the picture and    *)
(* the blur do.                                                            *)
BordersFound ==
  case # NoCase /\ case.kind = "border" =>
    LET b == Detected(case.mode, case)
        known == b.x >= 0 /\ b.y >= 0
        narrow(size, blur) == 2 * (size \div 3 + blur) < size
        letterbox == case.x[1] + case.x[2] = case.w - 1 /\ case.y[1] + case.y[2] = case.h - 1
    IN /\ known => \A blur \in Blurs :
            /\ narrow(case.w, blur) => 2 * Blurred(b, blur).x < case.w
            /\ narrow(case.h, blur) => 2 * Blurred(b, blur).y < case.h
       /\ letterbox /\ case.x[1] \in Third(case.w) /\ case.y[1] \in Third(case.h)
            => b = [x |-> case.x[1], y |-> case.y[1]]

(* Every sample lies in the part that was kept, and none is left out       *)
(* (processImage(), grabFrame()).                                          *)
SamplesInside ==
  case # NoCase /\ case.kind = "sample" =>
    LET far == FarCrop(case.size, case.high, case.halved)
        n == OutputSize(case.size, case.low, far, case.by)
    IN case.low + case.high < case.size =>
         /\ case.low + far < case.size =>
              /\ n > 0 => SourceAt(n - 1, case.low, case.by) < case.size - far
              /\ SourceAt(n, case.low, case.by) >= case.size - far
         /\ LET kept == Kept(case.size, case.low, case.high, case.halved)
            IN kept[1] + kept[2] =< case.size

(* A led has a pixel at least, inside the border, and two leds that meet   *)
(* leave no pixel between them (ImageToLedsMap()).                         *)
LedsMeet ==
  case # NoCase /\ case.kind = "led" /\ 2 * case.border < case.size =>
    LET span(from, to) == Span(<<from, to>>, case.size, case.border)
    IN /\ span(case.x[1], case.x[2]) # {}
       /\ span(case.x[1], case.x[2]) \subseteq case.border .. case.size - 1 - case.border
       /\ case.x[2] =< case.next =>
            span(case.x[1], case.next) \subseteq span(case.x[1], case.x[2]) \cup span(case.x[2], case.next)

(* An adjusted color never overflows its byte, and pure colors become the  *)
(* color that is configured for them (applyAdjustment()).                  *)
ColorsFit ==
  case # NoCase /\ case.kind = "color" =>
    LET corner == [name \in DOMAIN Cube |-> [k \in 1 .. 3 |-> IF Cube[name][k] = 1 THEN 255 ELSE case.c[4 - k]]]
        adjusted == ApplyAdjustment(case.c, case.brightness, case.compensation, corner)
    IN /\ \A k \in 1 .. 3 : adjusted[k] \in 0 .. 255
       /\ BrightnessComponents(case.brightness, case.compensation) = <<255, 255, 255>> =>
            \A name \in DOMAIN Cube :
              (\A k \in 1 .. 3 : case.c[k] = 255 * Cube[name][k]) => adjusted = corner[name]
=============================================================================
