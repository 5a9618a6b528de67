------------------------------ MODULE ImagePath ------------------------------
(***************************************************************************)
(* From the picture of the visible priority to the frame of the device:    *)
(* Hyperion::update() and handleSettingsUpdate(), ImageProcessor and       *)
(* BlackBorderProcessor.  An entry of the frame says which led it shows,   *)
(* of which picture, cut by which border, how often it was adjusted and    *)
(* where its bytes went.                                                   *)
(***************************************************************************)
EXTENDS LedLayout

CONSTANTS Layouts,          \* led layouts of the settings, led orders "" are the device's
          Devices,          \* device settings: [order, hardware], hardware 0 when absent
          Images,           \* [size, border, pic]: border is what the detector finds
          Pictures,         \* colors, one for all leds
          Lengths,          \* leds a client or an effect sends colors for
          UnknownFrameCnt, BorderFrameCnt, MaxInconsistentCnt,
          UNKNOWN, BLACK, NoMap, NoImage

ASSUME CountsAssumption ==
  {UnknownFrameCnt, BorderFrameCnt, MaxInconsistentCnt} \subseteq Nat /\ Lengths \subseteq Nat

(* the leds are numbered 0, 1, ..., and a clone names an ordinary led      *)
(* before it; one that names no led, which is ignored, is none here        *)
ASSUME LayoutsAssumption ==
  /\ \A dev \in Devices : dev.hardware \in Nat
  /\ \A layout \in Layouts :
       /\ layout \in Seq([index : Nat, clone : Int, order : STRING, x : Seq(0 .. Unit), y : Seq(0 .. Unit)])
       /\ {l.index : l \in Range(layout)} = 0 .. Len(layout) - 1
       /\ \A i, j \in DOMAIN layout : layout[i].index = layout[j].index => i = j
       /\ \A l \in Range(layout) :
            l.clone >= 0 => \E m \in Range(layout) : m.index = l.clone /\ m.clone < 0 /\ m.index < l.index

VARIABLES device, leds,     \* settings
          ledString, ledStringClone, ledStringColorOrder, hwLedCount,
          ledBuffer, shown, prevCompId, backlight,
          map,              \* _imageToLeds
          mapping,          \* [type, user, hard]
          bb,               \* BlackBorderProcessor
          since,            \* frames since a border was adopted, to BorderFrameCnt
          crashed

layoutVars == <<device, leds, ledString, ledStringClone, ledStringColorOrder, hwLedCount>>
imageVars == <<layoutVars, ledBuffer, shown, prevCompId, backlight, map, mapping, bb, since, crashed>>

Comps == {"COLOR", "EFFECT", "GRABBER"}

Ordered(layout, dev) ==
  [i \in DOMAIN layout |-> [layout[i] EXCEPT !.order = IF @ = "" THEN dev.order ELSE @]]

HwLedCount(dev, string) == Max({dev.hardware, Len(string)})

Resize(s, n, e) == [i \in 1 .. n |-> IF i =< Len(s) THEN s[i] ELSE e]

Entry(area, pic, border) == [area |-> area, pic |-> pic, border |-> border, adjusted |-> 0, bytes |-> <<1, 2, 3>>]

-----------------------------------------------------------------------------
(* BlackBorderProcessor                                                    *)
Cap(n, limit) == Min({n, limit})

(* mutant: a new border inherits the count of the previous one *)
UpdateBorder_Inherits(b, border) ==
  LET same == border = b.previous
      patient == ~same /\ b.inconsistent + 1 =< MaxInconsistentCnt
      counted ==
        IF same THEN [b EXCEPT !.consistent = Cap(@ + 1, UnknownFrameCnt + BorderFrameCnt), !.inconsistent = 0]
        ELSE [b EXCEPT !.inconsistent = Cap(@ + 1, MaxInconsistentCnt + 1), !.previous = IF patient THEN @ ELSE border]
      stable == IF border = UNKNOWN THEN counted.consistent = UnknownFrameCnt
                ELSE counted.current = UNKNOWN \/ counted.consistent = BorderFrameCnt
  IN IF patient THEN counted
     ELSE IF counted.current = border THEN [counted EXCEPT !.inconsistent = 0]
     ELSE [counted EXCEPT !.current = IF stable THEN border ELSE @]

(* updateBorder(): the counters stop above the last value that matters *)
UpdateBorder(b, border) ==
  LET same == border = b.previous
      patient == ~same /\ b.inconsistent + 1 =< MaxInconsistentCnt
      counted ==
        IF same THEN [b EXCEPT !.consistent = Cap(@ + 1, UnknownFrameCnt + BorderFrameCnt), !.inconsistent = 0]
        ELSE IF patient THEN [b EXCEPT !.inconsistent = @ + 1]
        ELSE [b EXCEPT !.inconsistent = Cap(@ + 1, MaxInconsistentCnt + 1), !.previous = border, !.consistent = 0]
      stable == IF border = UNKNOWN THEN counted.consistent = UnknownFrameCnt
                ELSE counted.current = UNKNOWN \/ counted.consistent = BorderFrameCnt
  IN IF patient THEN counted
     ELSE IF counted.current = border THEN [counted EXCEPT !.inconsistent = 0]
     ELSE [counted EXCEPT !.current = IF stable THEN border ELSE @]

SetHardDisable(b, disable) == [b EXCEPT !.hard = disable, !.enabled = ~disable /\ (b.user \/ @)]

(* process() *)
ProcessBorder(b, image) == IF b.enabled THEN UpdateBorder(b, image.border) ELSE [b EXCEPT !.current = UNKNOWN]

-----------------------------------------------------------------------------
(* ImageProcessor                                                          *)
NewMap(size, border, string) == [size |-> size, border |-> border, leds |-> string]

SetSize(m, image, string) ==
  IF m # NoMap /\ m.size = image.size THEN m ELSE NewMap(image.size, 0, string)

SetHardLedMappingType(t, type) == [t EXCEPT !.hard = type, !.type = IF type = "user" THEN t.user ELSE type]
SetLedMappingType(t, type) == [t EXCEPT !.user = type, !.type = IF t.hard = "user" THEN type ELSE @]

(* verifyBorder(): the map it leaves *)
VerifyBorder(b, m, image, string) ==
  LET found == ProcessBorder(b, image)
  IN IF b.enabled /\ found.current # b.current
     THEN NewMap(image.size, IF found.current = UNKNOWN THEN 0 ELSE found.current, string)
     ELSE IF ~b.enabled /\ m.border # 0 THEN NewMap(image.size, 0, string) ELSE m

(* and the detector's state: asked when enabled, or to forget its border *)
VerifiedBorder(b, m, image) ==
  IF b.enabled \/ m.border # 0 THEN ProcessBorder(b, image) ELSE b

(* getMeanLedColor(), getUniLedColor(): a buffer of another length stays *)
LedColors(m, type, image, buffer) ==
  IF Len(m.leds) # Len(buffer) THEN buffer
  ELSE [i \in DOMAIN buffer |->
         IF type = "uni" THEN Entry({l.index : l \in Range(m.leds)}, image.pic, 0)
         ELSE Entry({m.leds[i].index}, image.pic, m.border)]

-----------------------------------------------------------------------------
(* Hyperion::update()                                                      *)
Adjusted(buffer, n) ==
  [i \in DOMAIN buffer |-> IF i =< n THEN [buffer[i] EXCEPT !.adjusted = Cap(@ + 1, 2)] ELSE buffer[i]]

(* mutant: clones are added behind the leds *)
WithClones_Append(buffer, clones) == FoldLeft(LAMBDA s, c : Append(s, s[c.clone + 1]), buffer, clones)

WithClones(buffer, clones) ==
  LET with[k \in 0 .. Len(clones)] ==
        IF k = 0 THEN buffer
        ELSE InsertBefore(with[k - 1], clones[k].index, with[k - 1][clones[k].clone + 1])
  IN with[Len(clones)]

InOrder(buffer, orders) ==
  [i \in DOMAIN buffer |-> [buffer[i] EXCEPT !.bytes = Reordered(orders[i], @)]]

(* a vector of n colors, the first for the first led                       *)
ClientColors(string, n, pic) ==
  [i \in 1 .. n |-> Entry(IF i =< Len(string) THEN {string[i].index} ELSE {}, pic, 0)]

(* PriorityMuxer::updateLedColorsLength() of the visible priority          *)
WithLength(source, n) == [source EXCEPT !.len = IF @ = 0 THEN 0 ELSE n]

(* the buffer after the picture and its adjustment, and what it becomes.   *)
(* at() throws past the end of the buffer or of the orders, and a clone is *)
(* not to be inserted behind the end                                       *)
Finished(buffer, n, clones, orders, hw) ==
  LET cloned == InOrder(WithClones(Adjusted(buffer, n), clones), orders)
  IN Resize(cloned, Max({hw, Len(cloned)}), Entry({}, BLACK, 0))

AtThrows(buffer, clones, orders) ==
  \/ \E k \in DOMAIN clones : clones[k].clone >= Len(buffer) + k - 1 \/ clones[k].index > Len(buffer) + k - 1
  \/ Len(buffer) + Len(clones) > Len(orders)

Reverted(buffer, n, hw) == IF hw > Len(buffer) THEN Resize(buffer, n, Entry({}, BLACK, 0)) ELSE buffer

(* source: [comp, image, pic, len], NoImage for len colors of a client.    *)
(* m and b: map and detector                                               *)
Update(source, buffer, m, b, t, bl) ==
  LET compChanged == source.comp # prevCompId
      isImage == source.image # NoImage
      hard == source.comp = "EFFECT"
      b1 == IF isImage /\ compChanged THEN SetHardDisable(b, hard) ELSE b
      t1 == IF isImage /\ compChanged THEN SetHardLedMappingType(t, IF hard THEN "multi" ELSE "user") ELSE t
      sized == SetSize(m, source.image, ledString')
      raw == IF ~isImage THEN ClientColors(ledString', source.len, source.pic)
             ELSE LedColors(VerifyBorder(b1, sized, source.image, ledString'), t1.type, source.image,
                            Reverted(buffer, Len(ledString'), hwLedCount'))
  IN /\ shown' = source
     /\ prevCompId' = source.comp
     /\ backlight' = IF compChanged THEN source.comp \notin {"COLOR", "EFFECT"} ELSE bl
     /\ mapping' = t1
     /\ map' = IF isImage THEN VerifyBorder(b1, sized, source.image, ledString') ELSE m
     /\ bb' = IF isImage THEN VerifiedBorder(b1, sized, source.image) ELSE b1
     /\ crashed' = AtThrows(raw, ledStringClone', ledStringColorOrder')
     /\ ledBuffer' = IF crashed' THEN raw
                     ELSE Finished(raw, Len(ledString'), ledStringClone', ledStringColorOrder', hwLedCount')
     /\ since' = IF bb'.current # bb.current THEN 0 ELSE IF isImage THEN Cap(since + 1, BorderFrameCnt) ELSE since

-----------------------------------------------------------------------------
(* colors come in the length their sender knows: that of the layout when a *)
(* boblight client connected or an effect was started, that of a datagram  *)
Sources == {[comp |-> c, image |-> i, pic |-> i.pic, len |-> 0] : c \in Comps \ {"COLOR"}, i \in Images}
             \cup {[comp |-> c, image |-> NoImage, pic |-> p, len |-> n] :
                     c \in {"COLOR", "EFFECT"}, p \in Pictures, n \in Lengths}

ImageInit ==
  \E layout \in Layouts, dev \in Devices :
    LET string == LedString(Ordered(layout, dev))
    IN /\ device = dev /\ leds = layout
       /\ ledString = string
       /\ ledStringClone = LedStringClone(Ordered(layout, dev))
       /\ ledStringColorOrder = ColorOrders(Ordered(layout, dev))
       /\ hwLedCount = HwLedCount(dev, string)
       /\ ledBuffer = Finished(ClientColors(string, Len(string), BLACK),
                               Len(string), ledStringClone, ledStringColorOrder, hwLedCount)
       /\ shown = [comp |-> "COLOR", image |-> NoImage, pic |-> BLACK, len |-> Len(string)]
       /\ prevCompId = "COLOR" /\ backlight = FALSE
       /\ map = NoMap
       /\ mapping = [type |-> "multi", user |-> "multi", hard |-> "multi"]
       /\ bb = [enabled |-> TRUE, user |-> TRUE, hard |-> FALSE, current |-> UNKNOWN, previous |-> UNKNOWN,
                consistent |-> 0, inconsistent |-> Cap(10, MaxInconsistentCnt + 1)]
       /\ since = 0 /\ crashed = FALSE

(* a picture of the visible priority *)
Show(source) ==
  /\ ~crashed
  /\ UNCHANGED layoutVars
  /\ Update(source, ledBuffer, map, bb, mapping, backlight)

(* handleSettingsUpdate(LEDS): the map is asked for its size *)
ChangeLeds(layout) ==
  LET new == Ordered(layout, device)
  IN /\ ~crashed /\ layout # leds
     /\ leds' = layout /\ ledString' = LedString(new) /\ ledStringClone' = LedStringClone(new)
     /\ ledStringColorOrder' = ColorOrders(new) /\ hwLedCount' = HwLedCount(device, LedString(new))
     /\ UNCHANGED device
     /\ IF map = NoMap
        THEN crashed' = TRUE /\ UNCHANGED <<ledBuffer, shown, prevCompId, backlight, map, mapping, bb, since>>
        ELSE Update(WithLength(shown, Len(ledString')), [i \in DOMAIN ledString' |-> Entry({}, BLACK, 0)],
                    NewMap(map.size, 0, ledString'), bb, mapping, TRUE)

(* handleSettingsUpdate(DEVICE): the orders of the bytes are not renewed *)
ChangeDevice(dev) ==
  LET new == Ordered(leds, dev)
      reordered == dev.order # device.order
  IN /\ ~crashed /\ dev # device
     /\ device' = dev /\ hwLedCount' = HwLedCount(dev, ledString)
     /\ ledString' = (IF reordered THEN LedString(new) ELSE ledString)
     /\ ledStringClone' = (IF reordered THEN LedStringClone(new) ELSE ledStringClone)
     /\ UNCHANGED <<leds, ledStringColorOrder>>
     /\ IF reordered /\ map = NoMap
        THEN crashed' = TRUE /\ UNCHANGED <<ledBuffer, shown, prevCompId, backlight, map, mapping, bb, since>>
        ELSE Update(shown, ledBuffer, IF reordered THEN NewMap(map.size, 0, ledString') ELSE map,
                    bb, mapping, backlight)

(* COLOR settings: a new adjustment and the type of the mapping *)
ChangeColor(type) ==
  /\ ~crashed
  /\ UNCHANGED layoutVars
  /\ Update(shown, ledBuffer, map, bb, IF mapping.user # type THEN SetLedMappingType(mapping, type) ELSE mapping, TRUE)

(* "imageToLedMappingType" of a client *)
RequestMapping(type) ==
  /\ ~crashed
  /\ mapping' = SetLedMappingType(mapping, type)
  /\ UNCHANGED <<layoutVars, ledBuffer, shown, prevCompId, backlight, map, bb, since, crashed>>

(* componentStateChanged(COMP_BLACKBORDER), of a client or of the settings *)
EnableBlackBorder(enable) ==
  /\ ~crashed
  /\ bb' = [bb EXCEPT !.user = enable, !.enabled = IF enable /\ bb.hard THEN @ ELSE enable]
  /\ UNCHANGED <<layoutVars, ledBuffer, shown, prevCompId, backlight, map, mapping, since, crashed>>

ImageNext ==
  \/ \E source \in Sources : Show(source)
  \/ \E layout \in Layouts : ChangeLeds(layout)
  \/ \E dev \in Devices : ChangeDevice(dev)
  \/ \E type \in {"multi", "uni"} : ChangeColor(type) \/ RequestMapping(type)
  \/ \E enable \in BOOLEAN : EnableBlackBorder(enable)

-----------------------------------------------------------------------------
(* the led a position of the output shows: a clone shows its source        *)
Shows(l) == IF l.clone < 0 THEN l.index ELSE l.clone

(* leds there are colors for: a vector may be shorter than the layout      *)
HasColor(l) == shown.image # NoImage \/ l.index < shown.len + Len(ledStringClone)

(* Every led shows its own part of the visible picture or its own color,   *)
(* adjusted once, its bytes in the order kept for it; clones show their    *)
(* source; leds behind the last color are black, and none shows another's; *)
(* across changes of the layout and of the device, whatever length of      *)
(* colors a sender keeps to (update()).  Left out are vectors on which     *)
(* update() throws, and pictures on a buffer that has grown: PicturesMove. *)
FrameRight ==
  ~crashed /\ (shown.image = NoImage \/ Len(ledBuffer) = Len(ledString)) =>
    \A k \in DOMAIN leds :
      LET l == leds[k]
          e == ledBuffer[l.index + 1]
      IN IF HasColor(l)
         THEN /\ Shows(l) \in e.area
              /\ e.pic = shown.pic /\ e.adjusted = 1
              /\ e.bytes = Reordered(ledStringColorOrder[l.index + 1], <<1, 2, 3>>)
         ELSE l.index < Len(ledBuffer) => e = Entry({}, BLACK, 0)

(* The map that reads pictures belongs to the current layout, and cuts no  *)
(* border but the detected one (setLedString(), verifyBorder()).           *)
MapCurrent == map = NoMap \/ (map.leds = ledString /\ map.border \in {0, bb.current})

(* One border replaces another only after it was steady: never sooner than *)
(* borderFrameCnt pictures after the last change (updateBorder()).         *)
NoFlicker ==
  [][bb'.current = bb.current \/ UNKNOWN \in {bb.current, bb'.current} \/ since >= BorderFrameCnt]_imageVars

(* "the ledbuffer resize for hwledcount needs to be reverted"              *)
(* (Hyperion.cpp:609): every picture reaches the leds.                     *)
PicturesMove ==
  shown.image # NoImage => \A i \in DOMAIN ledString : ledBuffer[i].pic = shown.pic
=============================================================================
