------------------------------ MODULE LedLayout ------------------------------
(***************************************************************************)
(* The led layout and what is computed from it: the string of leds, its    *)
(* clones, the grid, the pixels of a led (hyperion.h, ImageToLedsMap.cpp), *)
(* the adjustments of the leds (MultiColorAdjustment.cpp) and the color    *)
(* they get (RgbTransform.cpp, RgbChannelAdjustment.cpp).  Fractions of    *)
(* the picture are whole multiples of 1/Unit.                              *)
(***************************************************************************)
EXTENDS Integers, FiniteSetsExt, SequencesExt

CONSTANT Unit
ASSUME LayoutAssumption == Unit \in Nat \ {0}

(* a led of the configuration: index, clone (-1: none), x and y from its   *)
(* minimum to its maximum, and the order of its bytes                      *)

\* a clone of a led that is not there is ignored
CloneOf(led, leds) == IF led.clone < Len(leds) THEN led.clone ELSE -1

(* std::sort() by the index, which no two leds share *)
ByIndex(set) ==
  [k \in 1 .. Cardinality(set) |-> CHOOSE l \in set : Cardinality({m \in set : m.index < l.index}) = k - 1]

(* createLedString() and createLedStringClone() *)
LedString(leds) == ByIndex({l \in Range(leds) : CloneOf(l, leds) < 0})
LedStringClone(leds) == ByIndex({l \in Range(leds) : CloneOf(l, leds) >= 0})

InsertBefore(s, i, e) == SubSeq(s, 1, i) \o <<e>> \o SubSeq(s, i + 1, Len(s))

(* _ledStringColorOrder *)
ColorOrders(leds) ==
  FoldLeft(LAMBDA s, l : InsertBefore(s, l.index, l.order),
           [i \in DOMAIN LedString(leds) |-> LedString(leds)[i].order], LedStringClone(leds))

(* which of red, green and blue goes first, second and third *)
Reordered(order, c) ==
  CASE order = "rgb" -> c
    [] order = "bgr" -> <<c[3], c[2], c[1]>>
    [] order = "rbg" -> <<c[1], c[3], c[2]>>
    [] order = "grb" -> <<c[2], c[1], c[3]>>
    [] order = "gbr" -> <<c[2], c[3], c[1]>>
    [] order = "brg" -> <<c[3], c[1], c[2]>>

(* getLedLayoutGridSize(): middles, to a thousandth *)
GridSize(leds) ==
  LET mids(axis) == {(1000 * (l[axis][1] + l[axis][2])) \div (2 * Unit) : l \in Range(LedString(leds))}
  IN <<Cardinality(mids("x")), Cardinality(mids("y"))>>

-----------------------------------------------------------------------------
(* ImageToLedsMap()                                                        *)
QRound(n) == (2 * n + Unit) \div (2 * Unit)

(* pixels of a led along one axis, at least one *)
Span(range, size, border) ==
  LET actual == size - 2 * border
      first == Min({border + QRound(actual * range[1]), border + actual - 1})
      past == border + QRound(actual * range[2])
  IN first .. Min({IF past = first THEN first + 1 ELSE past, border + actual}) - 1

Area(led, width, height, xBorder, yBorder) ==
  IF led.x[1] = led.x[2] \/ led.y[1] = led.y[2] THEN {}
  ELSE Span(led.x, width, xBorder) \X Span(led.y, height, yBorder)

-----------------------------------------------------------------------------
(* createLedColorsAdjustment(): ranges of leds in the order of the         *)
(* adjustments, <<0, n - 1>> for "*".  A range of one led is refused.      *)
SetAdjustmentForLed(map, range, id) ==
  LET last == IF range[2] > Cardinality(DOMAIN map) THEN Cardinality(DOMAIN map) ELSE range[2]
  IN IF range[1] >= range[2] THEN map
     ELSE [led \in DOMAIN map |-> IF range[1] =< led /\ led =< last THEN id ELSE map[led]]

Adjustments(n, ranges) ==
  FoldLeft(LAMBDA map, r : SetAdjustmentForLed(map, r.range, r.id), [led \in 0 .. n - 1 |-> "none"], ranges)

(* the assignment goes one past the leds *)
WritesPast(n, ranges) == \E r \in Range(ranges) : r.range[1] < r.range[2] /\ r.range[2] >= n

(* RgbTransform: brightness of primary, of mixed colors and of white, in   *)
(* percent of full brightness of the configuration                         *)
Ceil(p, q) == (p + q - 1) \div q
BrightnessComponents(brightness, compensation) ==
  LET (* B_in times 100 *)
      bIn == IF brightness < 50 THEN 750 - 9 * brightness ELSE 500 - 4 * brightness
      of(share) == Min({255, Ceil(255 * 100 * 100, bIn * share)})
  IN IF brightness = 0 THEN <<0, 0, 0>>
     ELSE <<of(100), of(100 + compensation), of(100 + 2 * compensation)>>

(* RgbChannelAdjustment::apply() *)
ApplyChannel(input, brightness, adjust) ==
  [k \in 1 .. 3 |-> Min({(brightness * input * adjust[k]) \div 65025, 255})]

(* the corners of the color cube *)
Cube == [black |-> <<0, 0, 0>>, red |-> <<1, 0, 0>>, green |-> <<0, 1, 0>>, blue |-> <<0, 0, 1>>,
         cyan |-> <<0, 1, 1>>, magenta |-> <<1, 0, 1>>, yellow |-> <<1, 1, 0>>, white |-> <<1, 1, 1>>]

(* the share of a corner in color c *)
Share(c, at) ==
  LET part(k) == IF at[k] = 1 THEN c[k] ELSE 255 - c[k]
  IN (part(1) * part(2) * part(3)) \div 65025

(* applyAdjustment(), after gamma: the channels before they are cut to a   *)
(* byte.  corner gives the configured color of each corner.                *)
ApplyAdjustment(c, brightness, compensation, corner) ==
  LET b == BrightnessComponents(brightness, compensation)
      level(at) == LET on == at[1] + at[2] + at[3] IN IF on = 0 THEN 255 ELSE b[on]
      of(name) == ApplyChannel(Share(c, Cube[name]), level(Cube[name]), corner[name])
  IN [k \in 1 .. 3 |-> of("black")[k] + of("red")[k] + of("green")[k] + of("blue")[k]
                       + of("cyan")[k] + of("magenta")[k] + of("yellow")[k] + of("white")[k]]
=============================================================================
