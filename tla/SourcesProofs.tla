---------------------------- MODULE SourcesProofs ----------------------------
(***************************************************************************)
(* Proofs about where pictures come from and how leds take their colours   *)
(* from them: the V4L2 grabber, the screen grabbers, the canvas of an      *)
(* effect, the map of leds with the border it belongs to, the geometry of  *)
(* one picture, and the frame that is made of it with all clones in their  *)
(* places; for every set of devices, settings, layouts, pictures and       *)
(* sizes, and without a bound on strokes, images or frames.                *)
(* The parts share no state: each has an inductive invariant of its own,   *)
(* which the steps of the others leave alone.                              *)
(***************************************************************************)
EXTENDS MCSources, SequenceTheorems, FiniteSetTheorems, WellFoundedInduction, TLAPS

(* V4L2Grabber: a device that was opened has a notifier, one that was not  *)
(* has no buffers and cannot be gone                                       *)
V4lType ==
  /\ present \subseteq Nodes
  /\ fd \in Nodes \cup {NoNode}
  /\ initialized \in BOOLEAN /\ gone \in BOOLEAN
  /\ notifier \in {"none", "off", "on"}
  /\ mapped \in Int

V4lInv ==
  /\ V4lType
  /\ handles = [n \in Nodes |-> IF n = fd THEN 1 ELSE 0]
  /\ BuffersReturn
  /\ fd \in Nodes => initialized
  /\ fd = NoNode <=> notifier = "none"
  /\ fd = NoNode => ~gone

LEMMA NodesApart ==
  AUTO \notin Nodes /\ UNKNOWN_DEVICE \notin Nodes /\ NoNode \notin Nodes /\ Buffers \in Nat
BY NodesAssumption

LEMMA V4lInitInv == V4lInit => V4lInv
<1> SUFFICES ASSUME V4lInit PROVE V4lInv
  OBVIOUS
<1>1. initialized \in BOOLEAN /\ gone \in BOOLEAN
  BY DEF V4lInit
<1>2. handles = [n \in Nodes |-> IF n = fd THEN 1 ELSE 0]
  BY NodesApart DEF V4lInit
<1> QED
  BY <1>1, <1>2, NodesApart DEF V4lInit, V4lType, V4lInv, BuffersReturn

(* uninit() leaves no descriptor behind, whatever device there was *)
LEMMA UninitCloses == V4lInv => Uninit = [n \in Nodes |-> 0]
BY NodesApart DEF V4lInv, V4lType, Uninit

LEMMA SetDeviceInv ==
  ASSUME V4lInv, NEW name \in Nodes \cup {AUTO}, NEW std, SetDevice(name, std)
  PROVE  V4lInv'
<1> DEFINE node == Resolved(name, v4lDevices \cup present)
<1>1. /\ initialized' = (node # UNKNOWN_DEVICE) /\ fd' = OpenDevice(node) /\ gone' = FALSE
      /\ notifier' = (IF node \in present THEN "on" ELSE "none")
      /\ mapped' = InitDevice(node) /\ queued' = StartCapturing(mapped', FALSE)
      /\ handles' = [n \in Nodes |-> IF n = OpenDevice(node) THEN Uninit[n] + 1 ELSE Uninit[n]]
      /\ present' = present
  BY DEF SetDevice
<1> HIDE DEF node
<1>2. handles' = [n \in Nodes |-> IF n = fd' THEN 1 ELSE 0]
  BY <1>1, UninitCloses
<1>3. present \subseteq Nodes /\ (node \in present => node # UNKNOWN_DEVICE /\ node # NoNode)
  BY NodesApart DEF V4lInv, V4lType
<1>4. V4lType'
  <2>1. fd' \in Nodes \cup {NoNode} /\ mapped' \in Int
    BY <1>1, <1>3, NodesApart DEF OpenDevice, InitDevice
  <2>2. initialized' \in BOOLEAN /\ gone' \in BOOLEAN
    BY <1>1
  <2> QED
    BY <1>1, <1>3, <2>1, <2>2 DEF V4lType
<1>5. BuffersReturn'
  BY <1>1, NodesApart DEF BuffersReturn, InitDevice, StartCapturing
<1> QED
  BY <1>1, <1>2, <1>3, <1>4, <1>5, NodesApart DEF V4lInv, OpenDevice

LEMMA V4lNextInv == V4lInv /\ [V4lNext]_v4lVars => V4lInv'
<1> SUFFICES ASSUME V4lInv, [V4lNext]_v4lVars PROVE V4lInv'
  OBVIOUS
<1> USE DEF V4lInv, V4lType, BuffersReturn
<1>1. ASSUME NEW name \in Nodes \cup {AUTO}, NEW std, SetDevice(name, std) PROVE V4lInv'
  BY <1>1, SetDeviceInv
<1>2. CASE Stop
  BY <1>2 DEF Stop
<1>3. CASE Start
  BY <1>3, NodesApart DEF Start, StartCapturing
<1>4. CASE ReadFrame
  BY <1>4 DEF ReadFrame, Requeued
<1>5. CASE ReadFails
  BY <1>5 DEF ReadFails, deviceVars
<1>6. CASE Unlock
  BY <1>6 DEF Unlock, deviceVars
<1>7. ASSUME NEW enable \in BOOLEAN, SetSignalDetectionEnable(enable) PROVE V4lInv'
  BY <1>7 DEF SetSignalDetectionEnable, deviceVars
<1>8. ASSUME NEW kind, Capture(kind) PROVE V4lInv'
  BY <1>8 DEF Capture, deviceVars
<1>9. ASSUME NEW n \in Nodes, Unplug(n) PROVE V4lInv'
  BY <1>9, NodesApart DEF Unplug
<1>10. ASSUME NEW n \in Nodes, Plug(n) PROVE V4lInv'
  BY <1>10 DEF Plug, deviceVars
<1>11. CASE UNCHANGED v4lVars
  BY <1>11 DEF v4lVars, deviceVars
<1> HIDE DEF V4lInv
<1> QED
  BY <1>1, <1>2, <1>3, <1>4, <1>5, <1>6, <1>7, <1>8, <1>9, <1>10, <1>11 DEF V4lNext

-----------------------------------------------------------------------------
(* The screen grabbers: what a grabber other than X11's crops is less than *)
(* the width it asks for, the resources of X11 are those of one screen     *)
Fits(g) ==
  /\ g \in [mode : Modes \cup {"2D"}, width : Nat \ {0}, crop : Nat, running : BOOLEAN]
  /\ g.crop < g.width

ScreenInv ==
  /\ grabbers = [t \in Types |-> grabbers[t]]
  /\ \A t \in Types \ {"x11"} : Created(t) => Fits(grabbers[t])
  /\ screen \in Screens /\ screenWidth \in Screens \cup {0}
  /\ HeldOnce
  /\ DevicesClosed

LEMMA NewGrabberFits ==
  ASSUME NEW c \in Configs, c.type # "x11" PROVE Fits(NewGrabber(c))
<1> DEFINE least == IF c.type = "amlogic" /\ c.width < MinWidth THEN MinWidth ELSE c.width
           g == [mode |-> "2D", width |-> least, crop |-> 0, running |-> TRUE]
<1>1. NewGrabber(c) = SetCropping(g, c.crop)
  BY DEF NewGrabber
<1>2. g \in [mode : Modes \cup {"2D"}, width : Nat \ {0}, crop : Nat, running : BOOLEAN] /\ g.crop = 0
  BY ConfigsAssumption, ScreensAssumption
<1> HIDE DEF g
<1> QED
  BY <1>1, <1>2, ConfigsAssumption DEF SetCropping, Fits

LEMMA ConfiguredFits ==
  ASSUME NEW c \in Configs, NEW t \in Types \ {"x11"}, NEW g, Fits(g) PROVE Fits(Configured(g, c, t))
<1> DEFINE sized == SetWidthHeight(g, c.width)
<1>1. Fits(sized)
  BY ConfigsAssumption DEF SetWidthHeight, Fits
<1>2. Configured(g, c, t) = SetCropping(sized, c.crop)
  BY DEF Configured
<1> HIDE DEF sized
<1> QED
  BY <1>1, <1>2, ConfigsAssumption DEF SetCropping, Fits

(* updateScreenDimensions(): what was there is freed before it is made anew *)
LEMMA UpdateScreenHolds ==
  ASSUME ScreenInv, NEW force \in BOOLEAN, UpdateScreen(force)
  PROVE  HeldOnce' /\ screenWidth' \in Screens \cup {0}
BY ScreensAssumption DEF ScreenInv, UpdateScreen, Resources, HeldOnce

LEMMA ScreenInitInv == ScreenInit => ScreenInv
<1> SUFFICES ASSUME NEW c \in Configs, 
                    grabbers = [t \in Types |-> IF t = c.type THEN NewGrabber(c) ELSE NONE],
                    screen \in Screens, screenWidth = 0, shared = 0, devices = {}
             PROVE  ScreenInv
  BY DEF ScreenInit
<1> QED
  BY NewGrabberFits DEF ScreenInv, Created, HeldOnce, DevicesClosed

LEMMA ScreenNextInv == ScreenInv /\ [ScreenNext]_screenVars => ScreenInv'
<1> SUFFICES ASSUME ScreenInv, [ScreenNext]_screenVars PROVE ScreenInv'
  OBVIOUS
<1>1. ASSUME NEW mode \in Modes, ChangeVideoMode(mode) PROVE ScreenInv'
  <2>1. \A t \in Types \ {"x11"} : Created(t)' => Fits(grabbers[t])'
    BY <1>1 DEF ScreenInv, ChangeVideoMode, SetVideoMode, Created, Fits
  <2>2. HeldOnce' /\ screenWidth' \in Screens \cup {0}
    BY <1>1, UpdateScreenHolds, TRUE \in BOOLEAN DEF ChangeVideoMode, ScreenInv, HeldOnce
  <2> QED
    BY <1>1, <2>1, <2>2 DEF ScreenInv, ChangeVideoMode, DevicesClosed, amlVars
<1>2. ASSUME NEW c \in Configs, ChangeConfig(c) PROVE ScreenInv'
  <2>1. \A t \in Types \ {"x11"} : Created(t)' => Fits(grabbers[t])'
    BY <1>2, ConfiguredFits, NewGrabberFits DEF ScreenInv, ChangeConfig, Created
  <2>2. HeldOnce' /\ screenWidth' \in Screens \cup {0}
    BY <1>2, UpdateScreenHolds, TRUE \in BOOLEAN DEF ChangeConfig, ScreenInv, HeldOnce
  <2> QED
    BY <1>2, <2>1, <2>2 DEF ScreenInv, ChangeConfig, DevicesClosed, amlVars
<1>3. ASSUME NEW o \in Outcomes, NEW found \in BOOLEAN, TickAmlogic(o, found) PROVE ScreenInv'
  <2>1. Opened(o) \subseteq ClosedAfter(o)
    BY DEF Outcomes, Opened, ClosedAfter
  <2> QED
    BY <1>3, <2>1 DEF TickAmlogic, ScreenInv, Created, HeldOnce, DevicesClosed, xVars
<1>4. ASSUME NEW found \in BOOLEAN, TickFramebuffer(found) PROVE ScreenInv'
  BY <1>4 DEF TickFramebuffer, ScreenInv, Created, HeldOnce, DevicesClosed, xVars, amlVars
<1>5. ASSUME NEW s \in Screens, ChangeScreen(s) PROVE ScreenInv'
  BY <1>5 DEF ChangeScreen, ScreenInv, Created, HeldOnce, DevicesClosed, xVars, amlVars
<1>6. CASE TickX11
  <2>1. \A t \in Types \ {"x11"} : grabbers'[t] = grabbers[t]
    BY <1>6 DEF ScreenInv, TickX11
  <2>2. grabbers' = [t \in Types |-> grabbers'[t]]
    BY <1>6 DEF ScreenInv, TickX11
  <2>3. HeldOnce' /\ screenWidth' \in Screens \cup {0}
    BY <1>6, UpdateScreenHolds DEF TickX11, ScreenInv, HeldOnce
  <2> QED
    BY <1>6, <2>1, <2>2, <2>3 DEF ScreenInv, TickX11, Created, DevicesClosed, amlVars
<1>7. CASE UNCHANGED screenVars
  BY <1>7 DEF screenVars, ScreenInv, Created, HeldOnce, DevicesClosed, xVars, amlVars
<1> QED
  BY <1>1, <1>2, <1>3, <1>4, <1>5, <1>6, <1>7 DEF ScreenNext

-----------------------------------------------------------------------------
(* The canvas of an effect: the image painted on is none of those saved,   *)
(* and the painter's coordinates are the script's unless it has lost them  *)
Shapes == {"fill", "line", "area", "rect", "filled rect", "pixel"}
Strokes == Seq([shape : Shapes, moved : BOOLEAN])
Sizes == (Nat \ {0}) \X (Nat \ {0})

CanvasType ==
  /\ images \in Seq([size : Sizes, strokes : Strokes])
  /\ image \in 1 .. Len(images)
  /\ painter \in [on : Int, brush : BOOLEAN, moved : BOOLEAN]
  /\ imageStack \in Seq(1 .. Len(images))
  /\ asked \in [strokes : Strokes, moved : BOOLEAN, lost : BOOLEAN]
  /\ savedAsked \in Seq(Strokes)
  /\ minimum \in Int \X Int

CanvasInv ==
  /\ CanvasType
  /\ painter.on = image
  /\ \A i \in DOMAIN imageStack : imageStack[i] # image
  /\ Len(savedAsked) = Len(imageStack)
  /\ ~asked.lost => asked.moved = painter.moved
  /\ ShownAsDrawn
  /\ MinimumMet

LEMMA MaxOfTwo ==
  ASSUME NEW a \in Int, NEW b \in Int
  PROVE  Max({a, b}) = IF a >= b THEN a ELSE b
<1>1. \E m \in {a, b} : \A y \in {a, b} : m >= y
  BY a >= b \/ b >= a
<1>2. Max({a, b}) \in {a, b} /\ \A y \in {a, b} : Max({a, b}) >= y
  BY <1>1 DEF Max
<1> QED
  BY <1>2

(* What is less than w after a division is less than w * d before it, and   *)
(* what is at least w * d before it is at least w after it                  *)
LEMMA DivBounds ==
  ASSUME NEW x \in Nat, NEW d \in Nat \ {0}, NEW w \in Nat
  PROVE  /\ x \div d \in Nat
         /\ x \div d < w => x < w * d
         /\ x >= w * d => x \div d >= w
<1> DEFINE q == x \div d
<1>1. q \in Int /\ d * q =< x /\ x < d * q + d
  OBVIOUS
<1> HIDE DEF q
<1>2. q >= 0
  BY <1>1
<1>3. ASSUME q < w PROVE x < w * d
  <2>1. PICK e \in Nat : w = q + 1 + e
    BY <1>2, <1>1, <1>3
  <2>2. w * d = d * q + d + e * d /\ e * d >= 0
    BY <2>1, <1>1
  <2> QED
    BY <2>2, <1>1
<1>4. ASSUME x >= w * d, q < w PROVE FALSE
  BY <1>3, <1>4
<1> QED
  BY <1>1, <1>2, <1>3, <1>4 DEF q

(* QSize::scaled() by expanding is as large as what it is given *)
LEMMA ExpandedCovers ==
  ASSUME NEW size \in Sizes, NEW to \in Sizes
  PROVE  /\ Expanded(size, to) \in Sizes
         /\ Expanded(size, to)[1] >= to[1] /\ Expanded(size, to)[2] >= to[2]
<1> DEFINE a == size[1]  b == size[2]  w == to[1]  h == to[2]  width == (h * a) \div b  height == (w * b) \div a
<1>1. a \in Nat \ {0} /\ b \in Nat \ {0} /\ w \in Nat \ {0} /\ h \in Nat \ {0}
  BY DEF Sizes
<1>2. Expanded(size, to) = IF width >= w THEN <<width, h>> ELSE <<w, height>>
  BY DEF Expanded
<1>3. h * a \in Nat /\ w * b \in Nat
  BY <1>1
<1> HIDE DEF a, b, w, h
<1>4. width \in Nat /\ (width < w => h * a < w * b)
  BY <1>1, <1>3, DivBounds
<1>5. height \in Nat /\ (w * b >= h * a => height >= h)
  BY <1>1, <1>3, DivBounds
<1> HIDE DEF width, height
<1>6. CASE width >= w
  BY <1>1, <1>2, <1>4, <1>6 DEF Sizes, w, h
<1>7. CASE ~(width >= w)
  <2>1. height >= h
    BY <1>1, <1>3, <1>4, <1>5, <1>7
  <2> QED
    BY <1>1, <1>2, <1>5, <1>7, <2>1 DEF Sizes, w, h
<1> QED
  BY <1>6, <1>7

LEMMA Replaced ==
  ASSUME NEW S, NEW s \in Seq(S), NEW k \in 1 .. Len(s), NEW e \in S, NEW r, r = [s EXCEPT ![k] = e]
  PROVE  r \in Seq(S) /\ Len(r) = Len(s) /\ \A j \in 1 .. Len(s) : r[j] = IF j = k THEN e ELSE s[j]
BY ExceptSeq

LEMMA CanvasInitInv == CanvasInit => CanvasInv
<1> SUFFICES ASSUME CanvasInit PROVE CanvasInv
  OBVIOUS
<1>1. PICK size \in GridSizes :
         /\ images = <<[size |-> size, strokes |-> <<>>]>>
         /\ image = 1 /\ painter = NewPainter(1) /\ imageStack = <<>> /\ shownStrokes = <<>>
         /\ asked = [strokes |-> <<>>, moved |-> FALSE, lost |-> FALSE] /\ savedAsked = <<>> /\ shownAsked = <<>>
         /\ minimum = size
  BY DEF CanvasInit
<1>2. size \in Sizes
  BY SizesAssumption DEF Sizes
<1>3. CanvasType
  BY <1>1, <1>2 DEF CanvasType, NewPainter, Strokes, Sizes
<1> QED
  BY <1>1, <1>2, <1>3 DEF CanvasInv, NewPainter, ShownAsDrawn, MinimumMet, Sizes

(* A stroke on the current image, by the painter or past it *)
Struck(shape, moved, brush) ==
  /\ images' = [images EXCEPT ![image].strokes = Append(@, Stroke(shape, moved))]
  /\ asked' = [asked EXCEPT !.strokes = Append(@, Stroke(shape, moved))]
  /\ painter' = [painter EXCEPT !.brush = brush]
  /\ UNCHANGED <<image, imageStack, shownStrokes, savedAsked, shownAsked, minimum>>

LEMMA StrokeInv ==
  ASSUME CanvasInv,
         NEW shape \in Shapes, NEW moved \in BOOLEAN, NEW brush \in BOOLEAN, Struck(shape, moved, brush)
  PROVE  CanvasInv'
<1> DEFINE s == Stroke(shape, moved)
<1>0. /\ images' = [images EXCEPT ![image].strokes = Append(@, s)]
      /\ asked' = [asked EXCEPT !.strokes = Append(@, s)]
      /\ painter' = [painter EXCEPT !.brush = brush]
      /\ UNCHANGED <<image, imageStack, shownStrokes, savedAsked, shownAsked, minimum>>
  BY DEF Struck
<1>1. s \in [shape : Shapes, moved : BOOLEAN]
  BY DEF Stroke
<1>2. image \in 1 .. Len(images) /\ images[image] \in [size : Sizes, strokes : Strokes] /\ asked.strokes \in Strokes
  <2>1. images \in Seq([size : Sizes, strokes : Strokes]) /\ image \in 1 .. Len(images)
    BY DEF CanvasInv, CanvasType
  <2>2. images[image] \in [size : Sizes, strokes : Strokes]
    BY <2>1, ElementOfSeq
  <2>3. asked.strokes \in Strokes
    BY DEF CanvasInv, CanvasType
  <2> QED
    BY <2>1, <2>2, <2>3
<1>3. Append(images[image].strokes, s) \in Strokes /\ Append(asked.strokes, s) \in Strokes
  BY <1>1, <1>2, AppendProperties DEF Strokes
<1> DEFINE data == [images[image] EXCEPT !.strokes = Append(@, s)]
<1>4. data \in [size : Sizes, strokes : Strokes] /\ data.size = images[image].size
      /\ data.strokes = Append(images[image].strokes, s)
  BY <1>2, <1>3
<1>5. images' = [images EXCEPT ![image] = data]
  BY <1>0
<1> HIDE DEF s, data
<1>6. /\ images' \in Seq([size : Sizes, strokes : Strokes]) /\ Len(images') = Len(images)
      /\ \A k \in 1 .. Len(images) : images'[k] = IF k = image THEN data ELSE images[k]
  <2> DEFINE Data == [size : Sizes, strokes : Strokes]
  <2>1. images \in Seq(Data) /\ data \in Data /\ image \in 1 .. Len(images)
    BY <1>2, <1>4 DEF CanvasInv, CanvasType
  <2> HIDE DEF Data
  <2>2. images' \in Seq(Data) /\ Len(images') = Len(images)
        /\ \A k \in 1 .. Len(images) : images'[k] = IF k = image THEN data ELSE images[k]
    BY ONLY <1>5, <2>1, Replaced
  <2> QED
    BY <2>2 DEF Data
<1>7. /\ asked' \in [strokes : Strokes, moved : BOOLEAN, lost : BOOLEAN]
      /\ asked'.strokes = Append(asked.strokes, s) /\ asked'.moved = asked.moved /\ asked'.lost = asked.lost
  BY <1>0, <1>3 DEF CanvasInv, CanvasType
<1>8. /\ painter' \in [on : Int, brush : BOOLEAN, moved : BOOLEAN]
      /\ painter'.on = painter.on /\ painter'.moved = painter.moved
  BY <1>0 DEF CanvasInv, CanvasType
<1>9. CanvasType'
  BY <1>0, <1>6, <1>7, <1>8 DEF CanvasInv, CanvasType
<1>10. \A i \in DOMAIN imageStack : imageStack[i] \in 1 .. Len(images) /\ imageStack[i] # image
  BY DEF CanvasInv, CanvasType
<1>11. ShownAsDrawn'
  BY <1>0, <1>2, <1>4, <1>6, <1>7, <1>10 DEF CanvasInv, ShownAsDrawn
<1>12. MinimumMet'
  BY <1>0, <1>2, <1>4, <1>6 DEF CanvasInv, MinimumMet
<1> QED
  BY <1>0, <1>7, <1>8, <1>9, <1>11, <1>12 DEF CanvasInv

LEMMA DrawnInv ==
  CanvasInv => \A shape \in Shapes, brush \in BOOLEAN : Drawn(shape, brush) => CanvasInv'
<1> SUFFICES ASSUME CanvasInv, NEW shape \in Shapes, NEW brush \in BOOLEAN, Drawn(shape, brush) PROVE CanvasInv'
  OBVIOUS
<1>1. painter.on = image /\ painter.moved \in BOOLEAN
      /\ (IF asked.lost THEN painter.moved ELSE asked.moved) = painter.moved
  BY DEF CanvasInv, CanvasType
<1>2. Struck(shape, painter.moved, brush)
  BY <1>1 DEF Drawn, Struck
<1> QED
  BY <1>1, <1>2, StrokeInv

LEMMA ImageSetPixelInv == ASSUME CanvasInv, ImageSetPixel PROVE CanvasInv'
<1>1. painter = [painter EXCEPT !.brush = painter.brush] /\ painter.brush \in BOOLEAN
  BY DEF CanvasInv, CanvasType
<1>2. painter' = [painter EXCEPT !.brush = painter.brush]
  BY <1>1 DEF ImageSetPixel
<1>3. Struck("pixel", FALSE, painter.brush)
  BY <1>2 DEF ImageSetPixel, Struck
<1>4. \A moved \in BOOLEAN : Struck("pixel", moved, painter.brush) => CanvasInv'
  BY <1>1, StrokeInv DEF Shapes
<1> QED
  BY <1>3, <1>4, FALSE \in BOOLEAN, Zenon

(* An image behind those there are leaves them, and what counts them, alone *)
LEMMA Appended ==
  ASSUME NEW S, NEW s \in Seq(S), NEW e \in S, NEW r, r = Append(s, e)
  PROVE  /\ r \in Seq(S) /\ Len(r) = Len(s) + 1
         /\ \A k \in 1 .. Len(s) : r[k] = s[k]
         /\ r[Len(s) + 1] = e
BY AppendProperties

LEMMA StackGrows ==
  ASSUME CanvasType, NEW n, n = Len(images) + 1
  PROVE  /\ n \in Nat /\ image \in 1 .. n /\ imageStack \in Seq(1 .. n)
         /\ \A i \in DOMAIN imageStack : imageStack[i] \in 1 .. Len(images)
<1>1. Len(images) \in Nat /\ image \in 1 .. Len(images) /\ imageStack \in Seq(1 .. Len(images))
  BY DEF CanvasType
<1>2. \A i \in 1 .. Len(imageStack) : imageStack[i] \in 1 .. Len(images)
  BY <1>1, ElementOfSeq
<1>3. DOMAIN imageStack = 1 .. Len(imageStack) /\ Len(imageStack) \in Nat
  BY <1>1
<1>4. imageStack = [i \in 1 .. Len(imageStack) |-> imageStack[i]]
  BY <1>1
<1>5. imageStack \in Seq(1 .. n)
  BY <1>1, <1>2, <1>3, <1>4, IsASeq
<1> QED
  BY <1>1, <1>2, <1>3, <1>5

LEMMA ImageSaveInv == ASSUME CanvasInv, ImageSave PROVE CanvasInv'
<1> DEFINE n == Len(images) + 1
<1>1. /\ images' = Append(images, images[image]) /\ imageStack' = Append(imageStack, n)
      /\ savedAsked' = Append(savedAsked, asked.strokes)
      /\ UNCHANGED <<image, painter, shownStrokes, asked, shownAsked, minimum>>
  BY DEF ImageSave, Copied
<1>2. /\ images \in Seq([size : Sizes, strokes : Strokes]) /\ image \in 1 .. Len(images)
      /\ savedAsked \in Seq(Strokes) /\ asked.strokes \in Strokes /\ Len(savedAsked) = Len(imageStack)
      /\ images[image].strokes = asked.strokes
  BY DEF CanvasInv, CanvasType, ShownAsDrawn
<1>3. n \in Nat /\ n # image /\ image \in 1 .. n /\ imageStack \in Seq(1 .. n) /\ n \in 1 .. n
      /\ \A i \in DOMAIN imageStack : imageStack[i] \in 1 .. Len(images)
  BY <1>2, StackGrows DEF CanvasInv
<1> HIDE DEF n
<1>4. /\ images' \in Seq([size : Sizes, strokes : Strokes]) /\ Len(images') = n
      /\ (\A k \in 1 .. Len(images) : images'[k] = images[k]) /\ images'[n] = images[image]
  <2> DEFINE Data == [size : Sizes, strokes : Strokes]
  <2>1. images \in Seq(Data) /\ images[image] \in Data
    BY <1>2, ElementOfSeq
  <2> HIDE DEF Data
  <2>2. /\ images' \in Seq(Data) /\ Len(images') = n
        /\ (\A k \in 1 .. Len(images) : images'[k] = images[k]) /\ images'[n] = images[image]
    BY <1>1, <2>1, Appended DEF n
  <2> QED
    BY <2>2 DEF Data
<1>5. /\ imageStack' \in Seq(1 .. n) /\ Len(imageStack') = Len(imageStack) + 1
      /\ (\A i \in 1 .. Len(imageStack) : imageStack'[i] = imageStack[i]) /\ imageStack'[Len(imageStack) + 1] = n
  BY <1>1, <1>3, Appended
<1>6. /\ savedAsked' \in Seq(Strokes) /\ Len(savedAsked') = Len(savedAsked) + 1
      /\ (\A i \in 1 .. Len(savedAsked) : savedAsked'[i] = savedAsked[i])
      /\ savedAsked'[Len(savedAsked) + 1] = asked.strokes
  BY <1>1, <1>2, Appended
<1>7. DOMAIN imageStack = 1 .. Len(imageStack) /\ DOMAIN imageStack' = 1 .. Len(imageStack) + 1
      /\ Len(imageStack) \in Nat
  BY <1>3, <1>5
<1>8. CanvasType'
  BY <1>1, <1>3, <1>4, <1>5, <1>6 DEF CanvasInv, CanvasType
<1>9. \A i \in DOMAIN imageStack' : imageStack'[i] # image'
  BY <1>1, <1>3, <1>5, <1>7 DEF CanvasInv
<1>10. ShownAsDrawn'
  <2>1. shownStrokes' = shownAsked' /\ images'[image'].strokes = asked'.strokes
    BY <1>1, <1>2, <1>4 DEF CanvasInv, ShownAsDrawn
  <2>2. ASSUME NEW i \in 1 .. Len(imageStack) PROVE images'[imageStack'[i]].strokes = savedAsked'[i]
    <3>1. imageStack'[i] = imageStack[i] /\ savedAsked'[i] = savedAsked[i] /\ i \in DOMAIN imageStack
      BY <1>2, <1>5, <1>6, <1>7
    <3>2. images'[imageStack[i]] = images[imageStack[i]]
      BY <1>3, <1>4, <3>1
    <3>3. images[imageStack[i]].strokes = savedAsked[i]
      BY <3>1 DEF CanvasInv, ShownAsDrawn
    <3> QED
      BY <3>1, <3>2, <3>3
  <2>3. images'[imageStack'[Len(imageStack) + 1]].strokes = savedAsked'[Len(imageStack) + 1]
    BY <1>2, <1>4, <1>5, <1>6
  <2> QED
    BY <1>7, <2>1, <2>2, <2>3 DEF ShownAsDrawn
<1>11. MinimumMet'
  BY <1>1, <1>2, <1>4 DEF CanvasInv, MinimumMet
<1> QED
  BY <1>1, <1>2, <1>5, <1>6, <1>8, <1>9, <1>10, <1>11 DEF CanvasInv

LEMMA ImageMinSizeInv ==
  ASSUME CanvasInv, NEW w \in Int, NEW h \in Int, ImageMinSize(w, h) PROVE CanvasInv'
<1> DEFINE size == images[image].size
           to == <<Max({size[1], w}), Max({size[2], h})>>
           larger == Expanded(size, to)
           data == [images[image] EXCEPT !.size = larger]
           n == Len(images) + 1
<1>1. /\ images \in Seq([size : Sizes, strokes : Strokes]) /\ image \in 1 .. Len(images)
      /\ asked \in [strokes : Strokes, moved : BOOLEAN, lost : BOOLEAN]
      /\ minimum \in Int \X Int /\ size[1] >= minimum[1] /\ size[2] >= minimum[2]
  BY DEF CanvasInv, CanvasType, MinimumMet
<1>2. images[image] \in [size : Sizes, strokes : Strokes]
  BY <1>1, ElementOfSeq
<1>3. size \in Sizes /\ size[1] \in Nat \ {0} /\ size[2] \in Nat \ {0}
  BY <1>2 DEF Sizes
<1> HIDE DEF size
<1>4. to \in Sizes /\ to[1] >= size[1] /\ to[1] >= w /\ to[2] >= size[2] /\ to[2] >= h
  BY <1>3, MaxOfTwo DEF Sizes
<1>5. /\ minimum' \in Int \X Int
      /\ minimum'[1] = (IF minimum[1] >= w THEN minimum[1] ELSE w)
      /\ minimum'[2] = (IF minimum[2] >= h THEN minimum[2] ELSE h)
  <2>1. minimum' = <<Max({minimum[1], w}), Max({minimum[2], h})>>
    BY DEF ImageMinSize
  <2> QED
    BY <1>1, <2>1, MaxOfTwo
<1>6. CASE size[1] < w \/ size[2] < h
  <2>1. /\ images' = Append(images, data) /\ image' = Len(images') /\ painter' = NewPainter(image')
        /\ asked' = [asked EXCEPT !.lost = TRUE]
        /\ UNCHANGED <<imageStack, shownStrokes, savedAsked, shownAsked>>
    BY <1>6 DEF ImageMinSize, size
  <2> HIDE DEF to
  <2>2. larger \in Sizes /\ larger[1] >= to[1] /\ larger[2] >= to[2]
    BY <1>3, <1>4, ExpandedCovers
  <2> HIDE DEF larger
  <2>3. data \in [size : Sizes, strokes : Strokes] /\ data.size = larger /\ data.strokes = images[image].strokes
    BY <1>2, <2>2
  <2> HIDE DEF data
  <2>4. /\ images' \in Seq([size : Sizes, strokes : Strokes]) /\ Len(images') = n
        /\ (\A k \in 1 .. Len(images) : images'[k] = images[k]) /\ images'[n] = data
    BY <1>1, <2>1, <2>3, Appended
  <2>5. n \in Nat /\ n \in 1 .. n /\ imageStack \in Seq(1 .. n)
        /\ \A i \in DOMAIN imageStack : imageStack[i] \in 1 .. Len(images) /\ imageStack[i] # n
    BY <1>1, StackGrows DEF CanvasInv
  <2> HIDE DEF n
  <2>6. image' = n /\ painter' = NewPainter(n)
    BY <2>1, <2>4
  <2>7. /\ asked' \in [strokes : Strokes, moved : BOOLEAN, lost : BOOLEAN]
        /\ asked'.strokes = asked.strokes /\ asked'.lost
    BY <1>1, <2>1
  <2>8. painter' \in [on : Int, brush : BOOLEAN, moved : BOOLEAN] /\ painter'.on = n
    BY <2>5, <2>6 DEF NewPainter
  <2>9. CanvasType'
    BY <1>5, <2>1, <2>4, <2>5, <2>6, <2>7, <2>8 DEF CanvasInv, CanvasType
  <2>10. ShownAsDrawn'
    BY <2>1, <2>3, <2>4, <2>5, <2>6, <2>7 DEF CanvasInv, ShownAsDrawn
  <2>11. MinimumMet'
    <3>1. images'[image'].size = larger
      BY <2>3, <2>4, <2>6
    <3>2. larger[1] \in Int /\ larger[2] \in Int /\ to[1] \in Int /\ to[2] \in Int
      BY <1>4, <2>2 DEF Sizes
    <3>3. larger[1] >= minimum'[1] /\ larger[2] >= minimum'[2]
      <4>1. minimum[1] \in Int /\ minimum[2] \in Int
        BY <1>1
      <4>2. /\ size[1] \in Int /\ size[1] >= minimum[1] /\ to[1] >= size[1] /\ to[1] >= w
            /\ size[2] \in Int /\ size[2] >= minimum[2] /\ to[2] >= size[2] /\ to[2] >= h
        BY <1>1, <1>3, <1>4
      <4>3. /\ minimum'[1] = (IF minimum[1] >= w THEN minimum[1] ELSE w)
            /\ minimum'[2] = (IF minimum[2] >= h THEN minimum[2] ELSE h)
        BY <1>5
      <4> HIDE DEF to
      <4>4. to[1] >= minimum'[1]
        BY <3>2, <4>1, <4>2, <4>3
      <4>5. to[2] >= minimum'[2]
        BY <3>2, <4>1, <4>2, <4>3
      <4>6. minimum'[1] \in Int /\ minimum'[2] \in Int
        BY <1>5
      <4> QED
        BY <2>2, <3>2, <4>4, <4>5, <4>6
    <3> QED
      BY <3>1, <3>3 DEF MinimumMet
  <2>12. painter'.on = image' /\ \A i \in DOMAIN imageStack' : imageStack'[i] # image'
    <3>1. imageStack' = imageStack /\ image' = n /\ painter'.on = n
      BY <2>1, <2>6, <2>8
    <3> QED
      BY <2>5, <3>1
  <2>13. Len(savedAsked') = Len(imageStack')
    BY <2>1 DEF CanvasInv
  <2> HIDE DEF n
  <2> QED
    BY <2>7, <2>9, <2>10, <2>11, <2>12, <2>13 DEF CanvasInv
<1>7. CASE ~(size[1] < w \/ size[2] < h)
  <2>1. UNCHANGED <<images, image, painter, asked, imageStack, shownStrokes, savedAsked, shownAsked>>
    BY <1>7 DEF ImageMinSize, size
  <2>2. MinimumMet'
    <3>1. images'[image'].size = size
      BY <2>1 DEF size
    <3>2. minimum[1] \in Int /\ size[1] >= minimum[1] /\ size[1] >= w
      BY <1>1, <1>3, <1>7
    <3>3. minimum[2] \in Int /\ size[2] >= minimum[2] /\ size[2] >= h
      BY <1>1, <1>3, <1>7
    <3>4. size[1] >= minimum'[1]
      BY <1>5, <3>2
    <3>5. size[2] >= minimum'[2]
      BY <1>5, <3>3
    <3> QED
      BY <3>1, <3>4, <3>5 DEF MinimumMet
  <2>3. CanvasType' /\ ShownAsDrawn'
    BY <1>5, <2>1 DEF CanvasInv, CanvasType, ShownAsDrawn
  <2> QED
    BY <2>1, <2>2, <2>3 DEF CanvasInv
<1> QED
  BY <1>6, <1>7

LEMMA CanvasNextInv == CanvasInv /\ [CanvasNext]_canvasVars => CanvasInv'
<1> SUFFICES ASSUME CanvasInv, [CanvasNext]_canvasVars PROVE CanvasInv'
  OBVIOUS
<1>1. painter.brush \in BOOLEAN
  BY DEF CanvasInv, CanvasType
<1>a. \A shape \in Shapes, brush \in BOOLEAN : Drawn(shape, brush) => CanvasInv'
  BY DrawnInv
<1>b. "fill" \in Shapes /\ "line" \in Shapes /\ "area" \in Shapes /\ "rect" \in Shapes /\ "filled rect" \in Shapes
  BY DEF Shapes
<1>2. CASE ImageSolidFill \/ ImageLinearGradient \/ ImageConicalGradient \/ ImageRadialGradient
  BY <1>1, <1>a, <1>b, <1>2, Zenon DEF ImageSolidFill, ImageLinearGradient, ImageConicalGradient, ImageRadialGradient
<1>3. CASE ImageDrawLine \/ ImageDrawPoint \/ ImageDrawRect
  <2>1. CASE ImageDrawLine \/ ImageDrawPoint
    BY <1>1, <1>a, <1>b, <2>1, Zenon DEF ImageDrawLine, ImageDrawPoint
  <2>2. CASE ImageDrawRect
    BY <1>1, <1>a, <1>b, <2>2 DEF ImageDrawRect
  <2> QED
    BY <1>3, <2>1, <2>2
<1>4. CASE ImageDrawPolygon \/ ImageDrawPie
  BY <1>a, <1>b, <1>4, TRUE \in BOOLEAN, Zenon DEF ImageDrawPolygon, ImageDrawPie
<1>5. CASE ImageDrawPieGradient
  <2>1. UNCHANGED <<images, image, imageStack, shownStrokes, asked, savedAsked, shownAsked, minimum>>
    BY <1>5 DEF ImageDrawPieGradient
  <2>2. /\ painter' \in [on : Int, brush : BOOLEAN, moved : BOOLEAN]
        /\ painter'.on = painter.on /\ painter'.moved = painter.moved
    BY <1>5 DEF ImageDrawPieGradient, CanvasInv, CanvasType
  <2> QED
    BY <2>1, <2>2 DEF CanvasInv, CanvasType, ShownAsDrawn, MinimumMet
<1>6. CASE ImageSetPixel
  BY <1>6, ImageSetPixelInv
<1>7. CASE ImageSave
  BY <1>7, ImageSaveInv
<1>8. ASSUME NEW b \in BOOLEAN, NEW lost \in BOOLEAN, ~lost \/ asked.lost,
             painter' = [painter EXCEPT !.moved = b], asked'.moved = b, asked'.lost = lost,
             asked' \in [strokes : Strokes, moved : BOOLEAN, lost : BOOLEAN], asked'.strokes = asked.strokes,
             UNCHANGED <<images, image, imageStack, shownStrokes, savedAsked, shownAsked, minimum>>
      PROVE  CanvasInv'
  <2>1. /\ painter' \in [on : Int, brush : BOOLEAN, moved : BOOLEAN]
        /\ painter'.on = painter.on /\ painter'.moved = b
    BY <1>8 DEF CanvasInv, CanvasType
  <2> QED
    BY <1>8, <2>1 DEF CanvasInv, CanvasType, ShownAsDrawn, MinimumMet
<1>9. CASE ImageTransform
  <2>1. /\ asked' \in [strokes : Strokes, moved : BOOLEAN, lost : BOOLEAN]
        /\ asked'.strokes = asked.strokes /\ asked'.moved = TRUE /\ asked'.lost = asked.lost
    BY <1>9 DEF ImageTransform, CanvasInv, CanvasType
  <2>2. asked.lost \in BOOLEAN
    BY DEF CanvasInv, CanvasType
  <2> QED
    BY <1>8, <1>9, <2>1, <2>2, TRUE \in BOOLEAN DEF ImageTransform
<1>10. CASE ImageResetT
  <2>1. /\ asked' \in [strokes : Strokes, moved : BOOLEAN, lost : BOOLEAN]
        /\ asked'.strokes = asked.strokes /\ asked'.moved = FALSE /\ asked'.lost = FALSE
    BY <1>10 DEF ImageResetT, CanvasInv, CanvasType
  <2> QED
    BY <1>8, <1>10, <2>1, FALSE \in BOOLEAN DEF ImageResetT
<1>11. ASSUME NEW size \in MinSizes, ImageMinSize(size[1], size[2]) PROVE CanvasInv'
  BY <1>11, ImageMinSizeInv, SizesAssumption
<1>12. ASSUME NEW imgId \in 0 .. MaxImages, ImageShow(imgId) PROVE CanvasInv'
  <2>1. UNCHANGED <<images, image, painter, imageStack, asked, savedAsked, minimum>>
    BY <1>12 DEF ImageShow
  <2>2. imageStack \in Seq(1 .. Len(images))
    BY DEF CanvasInv, CanvasType
  <2>3. imgId = 0 \/ imgId \in DOMAIN imageStack
    BY <1>12, <2>2 DEF ImageShow
  <2>4. shownStrokes' = shownAsked'
    BY <1>12, <2>3 DEF ImageShow, CanvasInv, ShownAsDrawn
  <2> QED
    BY <2>1, <2>4 DEF CanvasInv, CanvasType, ShownAsDrawn, MinimumMet
<1>13. CASE UNCHANGED canvasVars
  BY <1>13 DEF canvasVars, CanvasInv, CanvasType, ShownAsDrawn, MinimumMet
<1> QED
  BY <1>2, <1>3, <1>4, <1>5, <1>6, <1>7, <1>9, <1>10, <1>11, <1>12, <1>13 DEF CanvasNext

(* However often a script saves, enlarges and turns its canvas, what it     *)
(* shows is what it has drawn on that image, and the canvas is as large as  *)
(* every size it asked for (EffectModule's image functions).                *)
THEOREM CanvasIsRight == Spec => []CanvasRight
<1>1. Init => CanvasInv
  BY CanvasInitInv DEF Init
<1>2. CanvasInv /\ [Next]_vars => CanvasInv'
  BY CanvasNextInv DEF Next, vars
<1>3. CanvasInv => CanvasRight
  BY DEF CanvasInv, CanvasRight
<1> QED
  BY <1>1, <1>2, <1>3, PTL DEF Spec

-----------------------------------------------------------------------------
GrabInv == V4lInv /\ ScreenInv

LEMMA GrabInitInv == Init => GrabInv
BY V4lInitInv, ScreenInitInv DEF Init, GrabInv

LEMMA GrabNextInv == GrabInv /\ [Next]_vars => GrabInv'
BY V4lNextInv, ScreenNextInv DEF GrabInv, Next, vars

(* Whatever devices come and go, whatever settings and modes change and    *)
(* whichever step of a grab fails: the V4L2 grabber has one descriptor and *)
(* its driver all buffers, the crop leaves something of what dispmanx and  *)
(* amvideocap deliver, X11's resources are held once and Amlogic's devices *)
(* closed (V4L2Grabber::uninit(), read_frame(), Grabber::setCropping(),    *)
(* Grabber::setWidthHeight(), X11Grabber, AmlogicGrabber).                 *)
THEOREM GrabbersAreSound == Spec => []GrabbersSound
<1>1. GrabInv => GrabbersSound
  <2>1. GrabInv => CropFits
    BY DEF GrabInv, ScreenInv, CropFits, Fits, Types
  <2> QED
    BY <2>1 DEF GrabInv, V4lInv, ScreenInv, GrabbersSound, OneHandle
<1> QED
  BY <1>1, GrabInitInv, GrabNextInv, PTL DEF Spec

-----------------------------------------------------------------------------
(* The detector of borders and the map of leds                             *)
LEMMA MinOfTwo ==
  ASSUME NEW a \in Int, NEW b \in Int
  PROVE  Min({a, b}) = IF a =< b THEN a ELSE b
<1> DEFINE m == IF a =< b THEN a ELSE b
<1>1. m \in {a, b} /\ \A y \in {a, b} : m =< y
  OBVIOUS
<1>2. \A x \in {a, b} : (\A y \in {a, b} : x =< y) => x = m
  OBVIOUS
<1> HIDE DEF m
<1>3. (CHOOSE x \in {a, b} : \A y \in {a, b} : x =< y) = m
  BY <1>1, <1>2
<1> QED
  BY <1>3 DEF Min, m

LEMMA CapFacts ==
  ASSUME NEW n \in Nat, NEW limit \in Nat
  PROVE  Cap(n, limit) = IF n =< limit THEN n ELSE limit
BY MinOfTwo DEF Cap

BbType(b) ==
  /\ DOMAIN b = {"enabled", "user", "hard", "current", "previous", "consistent", "inconsistent"}
  /\ b.consistent \in Nat /\ b.inconsistent \in Nat

(* While a border waits to replace the current one it was seen in one       *)
(* picture less than there were since the current one was adopted.          *)
Patient(b, n) ==
  b.current # UNKNOWN /\ b.previous # b.current =>
    n >= BorderFrameCnt \/ n > b.consistent

(* what updateBorder() makes of b, seen n pictures after the last change   *)
BorderMoves(b, n, c) ==
  /\ BbType(c)
  /\ c.current = b.current => Patient(c, Cap(n + 1, BorderFrameCnt))
  /\ c.current # b.current =>
       /\ Patient(c, 0)
       /\ UNKNOWN \in {b.current, c.current} \/ n >= BorderFrameCnt

LEMMA UpdateBorderMoves ==
  ASSUME NEW b, BbType(b), NEW n \in Nat, Patient(b, n), NEW border
  PROVE  BorderMoves(b, n, UpdateBorder(b, border))
<1> DEFINE top == UnknownFrameCnt + BorderFrameCnt
           same == border = b.previous
           patient == ~same /\ b.inconsistent + 1 =< MaxInconsistentCnt
           counted ==
             IF same THEN [b EXCEPT !.consistent = Cap(@ + 1, top), !.inconsistent = 0]
             ELSE IF patient THEN [b EXCEPT !.inconsistent = @ + 1]
             ELSE [b EXCEPT !.inconsistent = Cap(@ + 1, MaxInconsistentCnt + 1), !.previous = border, !.consistent = 0]
           stable == IF border = UNKNOWN THEN counted.consistent = UnknownFrameCnt
                     ELSE counted.current = UNKNOWN \/ counted.consistent = BorderFrameCnt
           after == UpdateBorder(b, border)
<1>1. UnknownFrameCnt \in Nat /\ BorderFrameCnt \in Nat /\ MaxInconsistentCnt \in Nat /\ top \in Nat
  BY CountsAssumption
<1>2. /\ Cap(b.consistent + 1, top) = IF b.consistent + 1 =< top THEN b.consistent + 1 ELSE top
      /\ Cap(b.inconsistent + 1, MaxInconsistentCnt + 1) \in Nat
      /\ Cap(n + 1, BorderFrameCnt) = IF n + 1 =< BorderFrameCnt THEN n + 1 ELSE BorderFrameCnt
  BY <1>1, CapFacts DEF BbType
<1>3. after = IF patient THEN counted
              ELSE IF counted.current = border THEN [counted EXCEPT !.inconsistent = 0]
              ELSE [counted EXCEPT !.current = IF stable THEN border ELSE @]
  BY DEF UpdateBorder
<1>4. SUFFICES ASSUME NEW c, c = after PROVE BorderMoves(b, n, c)
  OBVIOUS
<1>5. CASE same
  <2>1. /\ BbType(counted) /\ counted.current = b.current /\ counted.previous = border
        /\ counted.consistent = IF b.consistent + 1 =< top THEN b.consistent + 1 ELSE top
    BY <1>1, <1>2, <1>5 DEF BbType
  <2>2. /\ BbType(c) /\ c.previous = border /\ c.consistent = counted.consistent
        /\ c.current = IF counted.current # border /\ stable THEN border ELSE b.current
    <3> HIDE DEF counted, stable, after
    <3> QED
      BY <1>3, <1>4, <1>5, <2>1 DEF BbType
  <2>3. stable /\ border # UNKNOWN /\ b.current # UNKNOWN => counted.consistent = BorderFrameCnt
    BY <2>1
  <2>4. border = b.previous /\ b.consistent \in Nat
    BY <1>5 DEF BbType
  <2> HIDE DEF after, counted, top, stable, same, patient
  <2> QED
    BY <1>1, <1>2, <2>1, <2>2, <2>3, <2>4 DEF BorderMoves, Patient, top
<1>6. CASE patient
  <2>1. /\ BbType(counted) /\ counted.current = b.current /\ counted.previous = b.previous
        /\ counted.consistent = b.consistent
    BY <1>6 DEF BbType
  <2>2. c = counted
    BY <1>3, <1>4, <1>6
  <2>3. b.consistent \in Nat
    BY DEF BbType
  <2> HIDE DEF after, counted, same, patient, stable
  <2> QED
    BY <1>1, <1>2, <2>1, <2>2, <2>3 DEF BorderMoves, Patient
<1>7. CASE ~same /\ ~patient
  <2>1. /\ BbType(counted) /\ counted.current = b.current /\ counted.previous = border
        /\ counted.consistent = 0
    BY <1>2, <1>7 DEF BbType
  <2>2. /\ BbType(c) /\ c.previous = border /\ c.consistent = 0
        /\ c.current = IF counted.current # border /\ stable THEN border ELSE b.current
    <3> HIDE DEF counted, stable, after
    <3> QED
      BY <1>3, <1>4, <1>7, <2>1 DEF BbType
  <2>3. stable /\ border # UNKNOWN /\ b.current # UNKNOWN => BorderFrameCnt = 0
    BY <2>1
  <2> HIDE DEF after, counted, same, patient, stable
  <2> QED
    BY <1>1, <1>2, <2>1, <2>2, <2>3 DEF BorderMoves, Patient
<1> QED
  BY <1>5, <1>6, <1>7

LEMMA HardDisableKeeps ==
  ASSUME NEW b, BbType(b), NEW disable
  PROVE  LET c == SetHardDisable(b, disable)
         IN BbType(c) /\ c.current = b.current /\ c.previous = b.previous /\ c.consistent = b.consistent
BY DEF SetHardDisable, BbType

(* A detector that was not asked, and one that is off and forgets. *)
LEMMA VerifiedMoves ==
  ASSUME NEW b, BbType(b), NEW n \in Nat, Patient(b, n), NEW m, NEW pic
  PROVE  BorderMoves(b, n, VerifiedBorder(b, m, pic))
<1>1. BorderMoves(b, n, b)
  <2>1. BorderFrameCnt \in Nat /\ b.consistent \in Nat
    BY CountsAssumption DEF BbType
  <2>2. Cap(n + 1, BorderFrameCnt) = IF n + 1 =< BorderFrameCnt THEN n + 1 ELSE BorderFrameCnt
    BY <2>1, CapFacts
  <2> QED
    BY <2>1, <2>2 DEF BorderMoves, Patient
<1>2. CASE b.enabled
  <2>1. VerifiedBorder(b, m, pic) = UpdateBorder(b, pic.border)
    BY <1>2 DEF VerifiedBorder, ProcessBorder
  <2> QED
    BY <2>1, UpdateBorderMoves
<1>3. CASE ~b.enabled
  <2> DEFINE c == [b EXCEPT !.current = UNKNOWN]
  <2>1. BbType(c) /\ c.current = UNKNOWN
    BY DEF BbType
  <2>2. VerifiedBorder(b, m, pic) \in {b, c}
    BY <1>3 DEF VerifiedBorder, ProcessBorder
  <2> HIDE DEF c
  <2>3. BorderMoves(b, n, c)
    BY <2>1 DEF BorderMoves, Patient
  <2> QED
    BY <1>1, <2>2, <2>3
<1> QED
  BY <1>2, <1>3

(* The map that is left belongs to the border that is left. *)
LEMMA VerifiedMap ==
  ASSUME NEW b, NEW m, NEW pic, NEW string,
         m.leds = string, m.border \in {0, b.current}
  PROVE  LET v == VerifyBorder(b, m, pic, string)
         IN v.leds = string /\ v.border \in {0, VerifiedBorder(b, m, pic).current}
<1> DEFINE found == ProcessBorder(b, pic)
<1>1. CASE b.enabled
  <2>1. VerifiedBorder(b, m, pic) = found
    BY <1>1 DEF VerifiedBorder
  <2>2. CASE found.current # b.current
    <3>1. VerifyBorder(b, m, pic, string)
            = NewMap(pic.size, IF found.current = UNKNOWN THEN 0 ELSE found.current, string)
      BY <1>1, <2>2 DEF VerifyBorder
    <3> HIDE DEF found
    <3> QED
      BY <2>1, <3>1 DEF NewMap
  <2>3. CASE found.current = b.current
    <3>1. VerifyBorder(b, m, pic, string) = m
      BY <1>1, <2>3 DEF VerifyBorder
    <3> HIDE DEF found
    <3> QED
      BY <2>1, <2>3, <3>1
  <2> QED
    BY <2>2, <2>3
<1>2. CASE ~b.enabled /\ m.border # 0
  <2>1. VerifyBorder(b, m, pic, string) = NewMap(pic.size, 0, string)
    BY <1>2 DEF VerifyBorder
  <2> QED
    BY <2>1 DEF NewMap
<1>3. CASE ~b.enabled /\ m.border = 0
  <2>1. VerifyBorder(b, m, pic, string) = m
    BY <1>3 DEF VerifyBorder
  <2> QED
    BY <1>3, <2>1
<1> QED
  BY <1>1, <1>2, <1>3

ImageInv == MapCurrent /\ BbType(bb) /\ since \in Nat /\ Patient(bb, since)

Steady == bb'.current = bb.current \/ UNKNOWN \in {bb.current, bb'.current} \/ since >= BorderFrameCnt

(* The map given to update() is none, or belongs to the layout of then. *)
LEMMA UpdateInv ==
  ASSUME ImageInv, NEW source, NEW buffer, NEW m, NEW t, NEW bl,
         m = NoMap \/ (m.leds = ledString' /\ m.border \in {0, bb.current}),
         Update(source, buffer, m, bb, t, bl)
  PROVE  ImageInv' /\ Steady
<1> DEFINE isImage == source.image # NoImage
           b1 == IF isImage /\ source.comp # prevCompId THEN SetHardDisable(bb, source.comp = "EFFECT") ELSE bb
           sized == SetSize(m, source.image, ledString')
<1>1. /\ map' = IF isImage THEN VerifyBorder(b1, sized, source.image, ledString') ELSE m
      /\ bb' = IF isImage THEN VerifiedBorder(b1, sized, source.image) ELSE b1
      /\ since' = IF bb'.current # bb.current THEN 0 ELSE IF isImage THEN Cap(since + 1, BorderFrameCnt) ELSE since
  BY DEF Update
<1>2. BbType(b1) /\ b1.current = bb.current /\ Patient(b1, since)
  BY HardDisableKeeps DEF ImageInv, Patient
<1>3. BorderFrameCnt \in Nat /\ since \in Nat
  BY CountsAssumption DEF ImageInv
<1>4. Cap(since + 1, BorderFrameCnt) \in Nat
  BY <1>3, CapFacts
<1>5. CASE isImage
  <2>1. sized.leds = ledString' /\ sized.border \in {0, b1.current}
    BY <1>2 DEF SetSize, NewMap
  <2> HIDE DEF b1, sized
  <2>2. BorderMoves(b1, since, bb')
    BY <1>1, <1>2, <1>3, <1>5, VerifiedMoves
  <2>3. map'.leds = ledString' /\ map'.border \in {0, bb'.current}
    BY <1>1, <1>5, <2>1, VerifiedMap
  <2>4. MapCurrent'
    BY <2>3 DEF MapCurrent
  <2>5. BbType(bb') /\ Patient(bb', since') /\ since' \in Nat /\ Steady
    BY <1>1, <1>2, <1>4, <1>5, <2>2 DEF BorderMoves, Steady
  <2>6. BbType(bb)' /\ Patient(bb, since)'
    BY <2>5 DEF BbType, Patient
  <2> QED
    BY <2>4, <2>5, <2>6 DEF ImageInv
<1>6. CASE ~isImage
  <2>1. map' = m /\ bb' = b1 /\ since' = since
    BY <1>1, <1>2, <1>6
  <2> HIDE DEF b1
  <2>2. MapCurrent' /\ Steady
    BY <1>2, <2>1 DEF MapCurrent, Steady
  <2>3. BbType(bb)' /\ Patient(bb, since)'
    BY <1>2, <2>1 DEF BbType, Patient
  <2> QED
    BY <1>3, <2>1, <2>2, <2>3 DEF ImageInv
<1> QED
  BY <1>5, <1>6

LEMMA ImageInitInv == ImageInit => ImageInv
<1> SUFFICES ASSUME ImageInit PROVE ImageInv
  OBVIOUS
<1>1. /\ map = NoMap /\ since = 0
      /\ bb = [enabled |-> TRUE, user |-> TRUE, hard |-> FALSE, current |-> UNKNOWN, previous |-> UNKNOWN,
               consistent |-> 0, inconsistent |-> Cap(10, MaxInconsistentCnt + 1)]
  BY DEF ImageInit
<1>2. Cap(10, MaxInconsistentCnt + 1) \in Nat
  BY CountsAssumption, CapFacts
<1> QED
  BY <1>1, <1>2 DEF ImageInv, MapCurrent, BbType, Patient

LEMMA ImageNextInv == ImageInv /\ [ImageNext]_imageVars => ImageInv' /\ [Steady]_imageVars
<1> SUFFICES ASSUME ImageInv, [ImageNext]_imageVars PROVE ImageInv' /\ Steady
  OBVIOUS
<1>1. ASSUME NEW source, Show(source) PROVE ImageInv' /\ Steady
  <2>1. ledString' = ledString /\ Update(source, ledBuffer, map, bb, mapping, backlight)
    BY <1>1 DEF Show, layoutVars
  <2>2. map = NoMap \/ (map.leds = ledString' /\ map.border \in {0, bb.current})
    BY <2>1 DEF ImageInv, MapCurrent
  <2> QED
    BY <2>1, <2>2, UpdateInv
<1>2. ASSUME UNCHANGED <<map, bb, since>>, ledString' = ledString \/ map = NoMap PROVE ImageInv' /\ Steady
  BY <1>2 DEF ImageInv, MapCurrent, BbType, Patient, Steady
<1>3. ASSUME NEW layout, ChangeLeds(layout) PROVE ImageInv' /\ Steady
  <2>1. CASE map = NoMap
    BY <1>2, <1>3, <2>1 DEF ChangeLeds
  <2>2. CASE map # NoMap
    <3> DEFINE fresh == NewMap(map.size, 0, ledString')
               blank == [i \in DOMAIN ledString' |-> Entry({}, BLACK, 0)]
               source == WithLength(shown, Len(ledString'))
    <3>1. Update(source, blank, fresh, bb, mapping, TRUE)
      BY <1>3, <2>2 DEF ChangeLeds
    <3>2. fresh.leds = ledString' /\ fresh.border = 0
      BY DEF NewMap
    <3> HIDE DEF fresh, blank, source
    <3> QED
      BY <3>1, <3>2, UpdateInv
  <2> QED
    BY <2>1, <2>2
<1>4. ASSUME NEW dev, ChangeDevice(dev) PROVE ImageInv' /\ Steady
  <2> DEFINE reordered == dev.order # device.order
             m == IF reordered THEN NewMap(map.size, 0, ledString') ELSE map
  <2>1. ledString' = IF reordered THEN LedString(Ordered(leds, dev)) ELSE ledString
    BY <1>4 DEF ChangeDevice
  <2>2. CASE reordered /\ map = NoMap
    BY <1>2, <1>4, <2>2 DEF ChangeDevice
  <2>3. CASE ~(reordered /\ map = NoMap)
    <3>1. Update(shown, ledBuffer, m, bb, mapping, backlight)
      BY <1>4, <2>3 DEF ChangeDevice
    <3>2. m = NoMap \/ (m.leds = ledString' /\ m.border \in {0, bb.current})
      BY <2>1 DEF NewMap, ImageInv, MapCurrent
    <3> HIDE DEF m
    <3> QED
      BY <3>1, <3>2, UpdateInv
  <2> QED
    BY <2>2, <2>3
<1>5. ASSUME NEW type, ChangeColor(type) PROVE ImageInv' /\ Steady
  <2> DEFINE t == IF mapping.user # type THEN SetLedMappingType(mapping, type) ELSE mapping
  <2>1. ledString' = ledString /\ Update(shown, ledBuffer, map, bb, t, TRUE)
    BY <1>5 DEF ChangeColor, layoutVars
  <2>2. map = NoMap \/ (map.leds = ledString' /\ map.border \in {0, bb.current})
    BY <2>1 DEF ImageInv, MapCurrent
  <2> HIDE DEF t
  <2> QED
    BY <2>1, <2>2, UpdateInv
<1>6. ASSUME NEW type, RequestMapping(type) PROVE ImageInv' /\ Steady
  BY <1>2, <1>6 DEF RequestMapping, layoutVars
<1>7. ASSUME NEW enable, EnableBlackBorder(enable) PROVE ImageInv' /\ Steady
  <2>1. /\ bb' = [bb EXCEPT !.user = enable, !.enabled = IF enable /\ bb.hard THEN @ ELSE enable]
        /\ UNCHANGED <<map, since, ledString>>
    BY <1>7 DEF EnableBlackBorder, layoutVars
  <2>2. BbType(bb') /\ bb'.current = bb.current /\ bb'.previous = bb.previous /\ bb'.consistent = bb.consistent
    BY <2>1 DEF ImageInv, BbType
  <2>3. BbType(bb)' /\ Patient(bb, since)' /\ MapCurrent' /\ since' \in Nat
    BY <2>1, <2>2 DEF ImageInv, BbType, Patient, MapCurrent
  <2> QED
    BY <2>2, <2>3 DEF ImageInv, Steady
<1>8. CASE UNCHANGED imageVars
  BY <1>2, <1>8 DEF imageVars, layoutVars
<1> QED
  BY <1>1, <1>3, <1>4, <1>5, <1>6, <1>7, <1>8 DEF ImageNext

-----------------------------------------------------------------------------
(* One picture: the samples of a grabber, and the pixels of a led          *)
LEMMA Divided ==
  ASSUME NEW n \in Int, NEW d \in Nat \ {0}
  PROVE  n \div d \in Int /\ (n \div d) * d =< n /\ n < (n \div d) * d + d
OBVIOUS

LEMMA SamplesCovered ==
  ASSUME NEW size \in Nat, NEW low \in Nat, NEW far \in Nat, NEW by \in Nat \ {0}, low + far < size
  PROVE  LET n == OutputSize(size, low, far, by)
         IN /\ n > 0 => SourceAt(n - 1, low, by) < size - far
            /\ SourceAt(n, low, by) >= size - far
<1> DEFINE half == by \div 2
           a == size - low - far - half + by - 1
           n == a \div by
<1>1. half \in Int /\ a \in Int
  OBVIOUS
<1> HIDE DEF a, half
<1>2. n \in Int /\ n * by =< a /\ a < n * by + by
  BY <1>1, Divided
<1> HIDE DEF n
<1> DEFINE k == n * by
<1>3. k \in Int /\ k =< a /\ a < k + by
  BY <1>2
<1>4. (n - 1) * by = k - by
  BY <1>2
<1>5. OutputSize(size, low, far, by) = n
  BY DEF OutputSize, n, a, half
<1> HIDE DEF k
<1>6. low + half + (k - by) < size - far /\ low + half + k >= size - far
  BY <1>1, <1>3 DEF a
<1>7. SourceAt(n - 1, low, by) = low + half + (k - by) /\ SourceAt(n, low, by) = low + half + k
  BY <1>4 DEF SourceAt, k, half
<1> QED
  BY <1>5, <1>6, <1>7

LEMMA TimesOrder ==
  ASSUME NEW a \in Nat, NEW x \in Nat, NEW y \in Nat, x =< y
  PROVE  a * x \in Nat /\ a * y \in Nat /\ a * x =< a * y
<1> DEFINE d == y - x
<1>1. d \in Nat /\ y = x + d
  OBVIOUS
<1> HIDE DEF d
<1>2. a * (x + d) = a * x + a * d
  BY <1>1
<1>3. a * x \in Nat /\ a * d \in Nat
  BY <1>1
<1> QED
  BY <1>1, <1>2, <1>3

LEMMA DividedOrder ==
  ASSUME NEW m \in Nat, NEW n \in Nat, m =< n, NEW d \in Nat \ {0}
  PROVE  m \div d \in Nat /\ n \div d \in Nat /\ m \div d =< n \div d
<1> DEFINE p == m \div d
           q == n \div d
<1>1. p \in Nat /\ q \in Nat /\ p * d =< m /\ n < q * d + d
  BY Divided
<1> HIDE DEF p, q
<1>2. SUFFICES ASSUME q < p PROVE FALSE
  BY <1>1 DEF p, q
<1>3. q + 1 \in Nat /\ q + 1 =< p
  BY <1>1, <1>2
<1>4. d * (q + 1) =< d * p
  BY <1>1, <1>3, TimesOrder
<1>5. d * (q + 1) = q * d + d /\ d * p = p * d /\ q * d \in Int /\ p * d \in Int
  BY <1>1
<1> QED
  BY <1>1, <1>4, <1>5

(* A led that ends at the side of the picture ends with its last pixel. *)
LEMMA RoundFacts ==
  ASSUME NEW actual \in Nat, NEW r \in 0 .. Unit, NEW s \in 0 .. Unit, r =< s
  PROVE  /\ QRound(actual * r) \in Nat /\ QRound(actual * s) \in Nat
         /\ QRound(actual * r) =< QRound(actual * s) /\ QRound(actual * s) =< actual
<1>1. Unit \in Nat \ {0} /\ 2 * Unit \in Nat \ {0}
  BY LayoutAssumption
<1>2. ASSUME NEW x \in 0 .. Unit, NEW y \in 0 .. Unit, x =< y
      PROVE  /\ QRound(actual * x) \in Nat /\ QRound(actual * y) \in Nat
             /\ QRound(actual * x) =< QRound(actual * y)
  <2>1. actual * x \in Nat /\ actual * y \in Nat /\ actual * x =< actual * y
    BY <1>1, <1>2, TimesOrder
  <2> DEFINE m == 2 * (actual * x) + Unit
             n == 2 * (actual * y) + Unit
  <2>2. m \in Nat /\ n \in Nat /\ m =< n
    BY <1>1, <2>1
  <2>3. QRound(actual * x) = m \div (2 * Unit) /\ QRound(actual * y) = n \div (2 * Unit)
    BY DEF QRound
  <2> HIDE DEF m, n
  <2> QED
    BY <1>1, <2>2, <2>3, DividedOrder
<1>3. QRound(actual * Unit) = actual
  <2> DEFINE a == 2 * (actual * Unit) + Unit
             d == 2 * Unit
             q == a \div d
             p == actual * Unit
  <2>1. a \in Int /\ d \in Nat \ {0} /\ p \in Nat
    BY <1>1
  <2>2. q \in Int /\ q * d =< a /\ a < q * d + d
    <3> HIDE DEF a, d
    <3> QED
      BY <2>1, Divided
  <2>3. actual * d = 2 * p
    BY <1>1
  <2>4. a = actual * d + Unit /\ d = Unit + Unit
    BY <1>1, <2>3
  <2>5. q = actual
    <3> HIDE DEF a, d, q, p
    <3>1. CASE q < actual
      <4>1. q + 1 =< actual
        BY <2>2, <3>1
      <4>2. (actual - q) * d >= d
        BY <2>1, <2>2, <3>1
      <4>3. (actual - q) * d = actual * d - q * d
        BY <2>1, <2>2
      <4> QED
        BY <1>1, <2>1, <2>2, <2>4, <4>2, <4>3
    <3>2. CASE q > actual
      <4>1. (q - actual) * d >= d
        BY <2>1, <2>2, <3>2
      <4>2. (q - actual) * d = q * d - actual * d
        BY <2>1, <2>2
      <4> QED
        BY <1>1, <2>1, <2>2, <2>4, <4>1, <4>2
    <3> QED
      BY <2>2, <3>1, <3>2
  <2> QED
    BY <2>5 DEF QRound
<1>4. QRound(actual * s) =< QRound(actual * Unit)
  <2>1. Unit \in 0 .. Unit /\ s =< Unit
    BY <1>1
  <2> QED
    BY <1>2, <2>1
<1> QED
  BY <1>2, <1>3, <1>4

(* the pixels of a led are those from its first to the one before past *)
LEMMA SpanFacts ==
  ASSUME NEW size \in Nat, NEW border \in Nat, 2 * border < size,
         NEW r \in 0 .. Unit, NEW s \in 0 .. Unit, r =< s
  PROVE  LET last  == size - border - 1
             from  == border + QRound((size - 2 * border) * r)
             past  == border + QRound((size - 2 * border) * s)
             first == IF from =< last THEN from ELSE last
             end   == IF past = first THEN first + 1 ELSE past
         IN Span(<<r, s>>, size, border) = first .. (IF end =< last + 1 THEN end ELSE last + 1) - 1
<1> DEFINE actual == size - 2 * border
           from == border + QRound(actual * r)
           past == border + QRound(actual * s)
           last == size - border - 1
           first == IF from =< last THEN from ELSE last
           end == IF past = first THEN first + 1 ELSE past
<1>1. actual \in Nat /\ border + actual - 1 = last /\ border + actual = last + 1 /\ last \in Int
  OBVIOUS
<1> HIDE DEF actual
<1>2. from \in Int /\ past \in Int
  <2>1. QRound(actual * r) \in Nat /\ QRound(actual * s) \in Nat
    BY <1>1, RoundFacts
  <2> QED
    BY <2>1
<1> DEFINE f == Min({from, border + actual - 1})
<1>3. Span(<<r, s>>, size, border) = f .. Min({IF past = f THEN f + 1 ELSE past, border + actual}) - 1
  BY DEF Span, actual
<1> HIDE DEF from, past, last, f
<1>4. f = first
  BY <1>1, <1>2, MinOfTwo DEF f
<1>5. end \in Int /\ first \in Int
  BY <1>1, <1>2
<1>6. Span(<<r, s>>, size, border) = first .. Min({end, border + actual}) - 1
  BY <1>3, <1>4
<1> HIDE DEF end, first
<1>7. Min({end, border + actual}) = IF end =< last + 1 THEN end ELSE last + 1
  BY <1>1, <1>5, MinOfTwo
<1> QED
  BY <1>6, <1>7 DEF end, first, from, past, last, actual

LEMMA SpansMeet ==
  ASSUME NEW size \in Nat, NEW border \in Nat, 2 * border < size,
         NEW p \in 0 .. Unit, NEW q \in 0 .. Unit, NEW r \in 0 .. Unit, p =< q
  PROVE  /\ Span(<<p, q>>, size, border) # {}
         /\ Span(<<p, q>>, size, border) \subseteq border .. size - 1 - border
         /\ q =< r => Span(<<p, r>>, size, border)
                        \subseteq Span(<<p, q>>, size, border) \cup Span(<<q, r>>, size, border)
<1> DEFINE actual == size - 2 * border
           at(x) == border + QRound(actual * x)
           last == size - border - 1
           first(x) == IF at(x) =< last THEN at(x) ELSE last
           end(x, y) == IF at(y) = first(x) THEN first(x) + 1 ELSE at(y)
           past(x, y) == IF end(x, y) =< last + 1 THEN end(x, y) ELSE last + 1
<1>1. actual \in Nat /\ last \in Int /\ border =< last /\ actual + border = last + 1
      /\ size - 1 - border = last
  OBVIOUS
<1>2. ASSUME NEW x \in 0 .. Unit, NEW y \in 0 .. Unit, x =< y
      PROVE  Span(<<x, y>>, size, border) = first(x) .. past(x, y) - 1
  BY <1>2, SpanFacts
<1> HIDE DEF actual
<1>3. ASSUME NEW x \in 0 .. Unit, NEW y \in 0 .. Unit, x =< y
      PROVE  /\ at(x) \in Int /\ at(y) \in Int /\ border =< at(x) /\ at(x) =< at(y)
             /\ at(y) =< last + 1
  <2>1. /\ QRound(actual * x) \in Nat /\ QRound(actual * y) \in Nat
        /\ QRound(actual * x) =< QRound(actual * y) /\ QRound(actual * y) =< actual
    BY <1>1, <1>3, RoundFacts
  <2> HIDE DEF last
  <2> QED
    BY <1>1, <2>1
<1> HIDE DEF at, last
<1>4. Span(<<p, q>>, size, border) = first(p) .. past(p, q) - 1
  BY <1>2
<1>5. /\ at(p) \in Int /\ at(q) \in Int /\ border =< at(p) /\ at(p) =< at(q) /\ at(q) =< last + 1
  BY <1>3
<1>6. first(p) \in Int /\ past(p, q) \in Int /\ border =< first(p) /\ first(p) < past(p, q)
      /\ past(p, q) =< last + 1
  BY <1>1, <1>5
<1>7. /\ Span(<<p, q>>, size, border) # {}
      /\ Span(<<p, q>>, size, border) \subseteq border .. size - 1 - border
  <2> HIDE DEF first, past
  <2>1. first(p) \in first(p) .. past(p, q) - 1
    BY <1>6
  <2>2. first(p) .. past(p, q) - 1 \subseteq border .. last
    BY <1>1, <1>6
  <2> QED
    BY <1>1, <1>4, <2>1, <2>2
<1>8. ASSUME q =< r
      PROVE  Span(<<p, r>>, size, border) \subseteq Span(<<p, q>>, size, border) \cup Span(<<q, r>>, size, border)
  <2>1. p =< r
    BY <1>8, LayoutAssumption
  <2>2. /\ Span(<<p, r>>, size, border) = first(p) .. past(p, r) - 1
        /\ Span(<<q, r>>, size, border) = first(q) .. past(q, r) - 1
    BY <1>2, <1>8, <2>1
  <2>3. at(r) \in Int /\ at(q) =< at(r) /\ at(r) =< last + 1
    BY <1>3, <1>8
  <2>4. past(p, r) \in Int /\ past(p, q) \in Int /\ first(p) \in Int /\ past(q, r) \in Int /\ first(q) \in Int
    BY <1>1, <1>5, <2>3
  <2>5. /\ first(p) = (IF at(p) =< last THEN at(p) ELSE last)
        /\ first(q) = (IF at(q) =< last THEN at(q) ELSE last)
        /\ past(p, q) = IF end(p, q) =< last + 1 THEN end(p, q) ELSE last + 1
        /\ past(p, r) = IF end(p, r) =< last + 1 THEN end(p, r) ELSE last + 1
        /\ past(q, r) = IF end(q, r) =< last + 1 THEN end(q, r) ELSE last + 1
        /\ end(p, q) = IF at(q) = first(p) THEN first(p) + 1 ELSE at(q)
        /\ end(p, r) = IF at(r) = first(p) THEN first(p) + 1 ELSE at(r)
        /\ end(q, r) = IF at(r) = first(q) THEN first(q) + 1 ELSE at(r)
    OBVIOUS
  <2> HIDE DEF first, past, end
  <2>6. ASSUME NEW k \in first(p) .. past(p, r) - 1, k \notin first(p) .. past(p, q) - 1
        PROVE  k \in first(q) .. past(q, r) - 1
    <3>1. k \in Int /\ first(p) =< k /\ k < past(p, r) /\ ~(k < past(p, q))
      BY <2>4, <2>6
    <3>2. first(q) =< k /\ k < past(q, r)
      BY <1>1, <1>5, <2>3, <2>5, <3>1
    <3> QED
      BY <2>4, <3>1, <3>2
  <2> QED
    BY <1>4, <2>2, <2>6
<1> QED
  BY <1>7, <1>8

-----------------------------------------------------------------------------
(* The border of a picture                                                 *)
Pictured(p) == p.w \in Nat /\ p.h \in Nat /\ p.x \in Pair(0 .. p.w - 1) /\ p.y \in Pair(0 .. p.h - 1)

Letterbox(p) ==
  /\ p.x[1] + p.x[2] = p.w - 1 /\ p.y[1] + p.y[2] = p.h - 1
  /\ p.x[1] \in Third(p.w) /\ p.y[1] \in Third(p.h)

LEMMA LeastOf ==
  ASSUME NEW S \in SUBSET Nat, S # {}
  PROVE  Min(S) \in S /\ \A y \in S : Min(S) =< y
<1>1. \E n \in S : \A k \in S : ~(<<k, n>> \in OpToRel(<, Nat))
  BY NatLessThanWellFounded, WFMin
<1>2. PICK n \in S : \A k \in S : ~(k < n)
  BY <1>1 DEF OpToRel
<1>3. \A k \in S : n =< k
  BY <1>2
<1> QED
  BY <1>2, <1>3 DEF Min

LEMMA LeastIs ==
  ASSUME NEW S \in SUBSET Int, NEW m \in S, \A y \in S : m =< y
  PROVE  Min(S) = m
<1>1. \A x \in S : (\A y \in S : x =< y) => x = m
  OBVIOUS
<1> QED
  BY <1>1 DEF Min

LEMMA FirstIn ==
  ASSUME NEW size \in Nat, NEW S \in SUBSET Third(size)
  PROVE  FirstOf(S) \in Int /\ (FirstOf(S) >= 0 => FirstOf(S) \in S)
<1>1. S \subseteq Nat
  BY DEF Third
<1>2. CASE S = {}
  <2>1. FirstOf(S) = -1
    BY <1>2 DEF FirstOf
  <2> QED
    BY <2>1
<1>3. CASE S # {}
  <2>1. Min(S) \in S
    BY <1>1, <1>3, LeastOf
  <2>2. FirstOf(S) = Min(S)
    BY <1>3 DEF FirstOf
  <2>3. Min(S) \in Nat
    BY <1>1, <2>1
  <2> QED
    BY <2>1, <2>2, <2>3
<1> QED
  BY <1>2, <1>3

LEMMA FirstAt ==
  ASSUME NEW size \in Nat, NEW m \in Third(size)
  PROVE  FirstOf({k \in Third(size) : k >= m}) = m
<1> DEFINE S == {k \in Third(size) : k >= m}
<1>1. S \in SUBSET Int /\ m \in S /\ \A y \in S : m =< y
  BY DEF Third
<1>2. Min(S) = m
  BY <1>1, LeastIs
<1> QED
  BY <1>1, <1>2 DEF FirstOf

(* what is known of a border is less than the third that is searched, or,  *)
(* along the diagonal, its end                                             *)
LEMMA FoundInThird ==
  ASSUME NEW p, Pictured(p), NEW mode \in {"default", "classic", "osd"},
         Detected(mode, p).x >= 0, Detected(mode, p).y >= 0
  PROVE  Detected(mode, p).x \in 0 .. p.w \div 3 /\ Detected(mode, p).y \in 0 .. p.h \div 3
<1>1. p.w \div 3 \in Nat /\ p.h \div 3 \in Nat
  BY DEF Pictured
<1>2. CASE mode = "default"
  <2>1. DetectDefault(p).x \in Third(p.w) /\ DetectDefault(p).y \in Third(p.h)
    BY <1>2, FirstIn DEF Detected, DetectDefault, Pictured
  <2> QED
    BY <1>1, <1>2, <2>1 DEF Detected, Third
<1>3. CASE mode = "osd"
  <2>1. DetectOsd(p).x \in Third(p.w) /\ DetectOsd(p).y \in Third(p.h)
    BY <1>3, FirstIn DEF Detected, DetectOsd, Pictured
  <2> QED
    BY <1>1, <1>3, <2>1 DEF Detected, Third
<1>4. CASE mode = "classic"
  <2> DEFINE w == p.w \div 3
             h == p.h \div 3
             onDiagonal == {i \in 0 .. Max({w, h}) - 1 : Lit(p, Min({i, w}), Min({i, h}))}
             i == Min(onDiagonal)
             leftOf(x, y) == {e \in 0 .. x : \A k \in e .. x : Lit(p, k, y)}
             above(x, y) == {e \in 0 .. y : \A k \in e .. y : Lit(p, x, k)}
             x0 == Min(leftOf(Min({i, w}), Min({i, h})))
             y0 == Min(above(x0, Min({i, h})))
  <2>1. onDiagonal # {} /\ DetectClassic(p) = [x |-> x0, y |-> y0]
    <3>1. DetectClassic(p) = IF onDiagonal = {} THEN [x |-> -1, y |-> -1] ELSE [x |-> x0, y |-> y0]
      BY DEF DetectClassic
    <3>2. DetectClassic(p).x >= 0
      BY <1>4 DEF Detected
    <3> HIDE DEF onDiagonal, x0, y0
    <3> QED
      BY <3>1, <3>2
  <2>2. onDiagonal \in SUBSET Nat
    OBVIOUS
  <2>3. i \in onDiagonal
    BY <2>1, <2>2, LeastOf
  <2> HIDE DEF w, h
  <2>4. i \in Nat /\ Lit(p, Min({i, w}), Min({i, h}))
    BY <2>3
  <2> HIDE DEF onDiagonal, i
  <2>5. w \in Nat /\ h \in Nat
    BY <1>1 DEF w, h
  <2>6. Min({i, w}) \in 0 .. w /\ Min({i, h}) \in 0 .. h
    BY <2>4, <2>5, MinOfTwo
  <2> DEFINE x == Min({i, w})
             y == Min({i, h})
  <2> HIDE DEF x, y
  <2>7. x \in 0 .. w /\ y \in 0 .. h /\ Lit(p, x, y)
    BY <2>4, <2>6 DEF x, y
  <2>8. leftOf(x, y) \in SUBSET Nat /\ x \in leftOf(x, y)
    BY <2>7, <2>5
  <2>9. Min(leftOf(x, y)) \in leftOf(x, y)
    BY <2>8, LeastOf
  <2>10. x0 \in 0 .. x /\ \A k \in x0 .. x : Lit(p, k, y)
    BY <2>9 DEF x, y
  <2> HIDE DEF x0
  <2>11. Lit(p, x0, y)
    BY <2>10, <2>7, <2>5
  <2>12. above(x0, y) \in SUBSET Nat /\ y \in above(x0, y)
    BY <2>7, <2>5, <2>11
  <2>13. Min(above(x0, y)) \in above(x0, y)
    BY <2>12, LeastOf
  <2>14. y0 \in 0 .. y
    BY <2>13 DEF y
  <2> HIDE DEF y0
  <2>15. x0 \in 0 .. w /\ y0 \in 0 .. h
    BY <2>5, <2>7, <2>10, <2>14
  <2> QED
    BY <1>4, <2>1, <2>15 DEF Detected, w, h
<1> QED
  BY <1>2, <1>3, <1>4

(* where a letterbox is lit *)
LEMMA LetterboxLit ==
  ASSUME NEW p, Pictured(p), Letterbox(p)
  PROVE  /\ p.x[1] \in Third(p.w) /\ p.y[1] \in Third(p.h)
         /\ \A x \in Third(p.w) : /\ Lit(p, p.w - 1 - x, p.h \div 2) <=> x >= p.x[1]
                                  /\ Lit(p, x, p.h \div 3) <=> x >= p.x[1]
                                  /\ Lit(p, x, 2 * (p.h \div 3)) <=> x >= p.x[1]
         /\ \A y \in Third(p.h) : /\ Lit(p, p.w \div 2, p.h - 1 - y) <=> y >= p.y[1]
                                  /\ Lit(p, p.w \div 3, y) <=> y >= p.y[1]
                                  /\ Lit(p, 2 * (p.w \div 3), y) <=> y >= p.y[1]
                                  /\ \A k \in {p.x[1], p.w - 1 - p.x[1]}, l \in {y, p.h - 1 - y} :
                                       Lit(p, k, l) <=> y >= p.y[1]
         /\ \A x \in 0 .. p.w \div 3, y \in 0 .. p.h \div 3 : Lit(p, x, y) <=> x >= p.x[1] /\ y >= p.y[1]
<1> DEFINE x1 == p.x[1]
           x2 == p.x[2]
           y1 == p.y[1]
           y2 == p.y[2]
           w == p.w
           h == p.h
<1>1. /\ w \in Nat /\ h \in Nat
      /\ x1 \in 0 .. w \div 3 - 1 /\ y1 \in 0 .. h \div 3 - 1
      /\ x2 = w - 1 - x1 /\ y2 = h - 1 - y1
  BY DEF Pictured, Letterbox, Pair, Third
<1>2. \A a, b : Lit(p, a, b) <=> x1 =< a /\ a =< x2 /\ y1 =< b /\ b =< y2
  BY DEF Lit
<1> HIDE DEF x1, x2, y1, y2, w, h
<1>3. \A x \in 0 .. w \div 3 - 1 : /\ Lit(p, w - 1 - x, h \div 2) <=> x >= x1
                                   /\ Lit(p, x, h \div 3) <=> x >= x1
                                   /\ Lit(p, x, 2 * (h \div 3)) <=> x >= x1
  BY <1>1, <1>2
<1>4. \A y \in 0 .. h \div 3 - 1 : /\ Lit(p, w \div 2, h - 1 - y) <=> y >= y1
                                   /\ Lit(p, w \div 3, y) <=> y >= y1
                                   /\ Lit(p, 2 * (w \div 3), y) <=> y >= y1
  BY <1>1, <1>2
<1>5. \A y \in 0 .. h \div 3 - 1 : \A k \in {x1, w - 1 - x1}, l \in {y, h - 1 - y} : Lit(p, k, l) <=> y >= y1
  BY <1>1, <1>2
<1>6. \A x \in 0 .. w \div 3, y \in 0 .. h \div 3 : Lit(p, x, y) <=> x >= x1 /\ y >= y1
  BY <1>1, <1>2
<1>7. x1 \in Third(w) /\ y1 \in Third(h)
  BY <1>1 DEF Third
<1> QED
  BY <1>3, <1>4, <1>5, <1>6, <1>7 DEF Third, x1, x2, y1, y2, w, h

LEMMA LetterboxFound ==
  ASSUME NEW p, Pictured(p), Letterbox(p), NEW mode \in {"default", "classic", "osd"}
  PROVE  Detected(mode, p) = [x |-> p.x[1], y |-> p.y[1]]
<1>1. p.w \in Nat /\ p.h \in Nat
  BY DEF Pictured
<1>2. /\ FirstOf({x \in Third(p.w) : x >= p.x[1]}) = p.x[1]
      /\ FirstOf({y \in Third(p.h) : y >= p.y[1]}) = p.y[1]
  BY <1>1, LetterboxLit, FirstAt
<1>3. CASE mode = "default"
  <2>1. {x \in Third(p.w) : \/ Lit(p, p.w - 1 - x, p.h \div 2)
                            \/ Lit(p, x, p.h \div 3) \/ Lit(p, x, 2 * (p.h \div 3))}
        = {x \in Third(p.w) : x >= p.x[1]}
    BY LetterboxLit
  <2>2. {y \in Third(p.h) : \/ Lit(p, p.w \div 2, p.h - 1 - y)
                            \/ Lit(p, p.w \div 3, y) \/ Lit(p, 2 * (p.w \div 3), y)}
        = {y \in Third(p.h) : y >= p.y[1]}
    BY LetterboxLit
  <2> QED
    BY <1>2, <1>3, <2>1, <2>2 DEF Detected, DetectDefault
<1>4. CASE mode = "osd"
  <2>1. {k \in Third(p.w) : \/ Lit(p, p.w - 1 - k, p.h \div 2)
                            \/ Lit(p, k, p.h \div 3) \/ Lit(p, k, 2 * (p.h \div 3))}
        = {x \in Third(p.w) : x >= p.x[1]}
    BY LetterboxLit
  <2>2. {y \in Third(p.h) : \E k \in {p.x[1], p.w - 1 - p.x[1]}, l \in {y, p.h - 1 - y} : Lit(p, k, l)}
        = {y \in Third(p.h) : y >= p.y[1]}
    BY LetterboxLit
  <2>3. ~(p.x[1] < 0)
    BY DEF Letterbox, Third
  <2> DEFINE x == FirstOf({k \in Third(p.w) : \/ Lit(p, p.w - 1 - k, p.h \div 2)
                                              \/ Lit(p, k, p.h \div 3) \/ Lit(p, k, 2 * (p.h \div 3))})
             at == IF x < 0 THEN p.w \div 3 ELSE x
  <2>4. x = p.x[1] /\ at = p.x[1]
    BY <1>2, <2>1, <2>3
  <2>5. Detected(mode, p) =
          [x |-> x, y |-> FirstOf({y \in Third(p.h) : \E k \in {at, p.w - 1 - at}, l \in {y, p.h - 1 - y} : Lit(p, k, l)})]
    BY <1>4 DEF Detected, DetectOsd
  <2> HIDE DEF x, at
  <2> QED
    BY <1>2, <2>2, <2>4, <2>5
<1>5. CASE mode = "classic"
  <2> DEFINE w == p.w \div 3
             h == p.h \div 3
             onDiagonal == {i \in 0 .. Max({w, h}) - 1 : Lit(p, Min({i, w}), Min({i, h}))}
             i == Min(onDiagonal)
             leftOf(x, y) == {e \in 0 .. x : \A k \in e .. x : Lit(p, k, y)}
             above(x, y) == {e \in 0 .. y : \A k \in e .. y : Lit(p, x, k)}
             x0 == Min(leftOf(Min({i, w}), Min({i, h})))
             y0 == Min(above(x0, Min({i, h})))
             x1 == p.x[1]
             y1 == p.y[1]
             m == IF x1 >= y1 THEN x1 ELSE y1
  <2>1. Detected(mode, p) = IF onDiagonal = {} THEN [x |-> -1, y |-> -1] ELSE [x |-> x0, y |-> y0]
    BY <1>5 DEF Detected, DetectClassic
  <2>2. w \in Nat /\ h \in Nat /\ x1 \in 0 .. w - 1 /\ y1 \in 0 .. h - 1
    BY <1>1, LetterboxLit DEF Third
  <2>3. \A x \in 0 .. w, y \in 0 .. h : Lit(p, x, y) <=> x >= x1 /\ y >= y1
    BY LetterboxLit
  <2> HIDE DEF w, h, x1, y1
  <2>4. Max({w, h}) = IF w >= h THEN w ELSE h
    BY <2>2, MaxOfTwo
  <2>5. \A k \in Nat : /\ Min({k, w}) = IF k =< w THEN k ELSE w
                       /\ Min({k, h}) = IF k =< h THEN k ELSE h
    BY <2>2, MinOfTwo
  <2>6. \A k \in 0 .. Max({w, h}) - 1 : Lit(p, Min({k, w}), Min({k, h})) <=> k >= m
    <3> TAKE k \in 0 .. Max({w, h}) - 1
    <3>1. k \in Nat
      BY <2>2, <2>4
    <3>2. Min({k, w}) \in 0 .. w /\ Min({k, h}) \in 0 .. h
      BY <2>2, <2>5, <3>1
    <3>3. Lit(p, Min({k, w}), Min({k, h})) <=> Min({k, w}) >= x1 /\ Min({k, h}) >= y1
      BY <2>3, <3>2
    <3> QED
      BY <2>2, <2>5, <3>1, <3>3
  <2>7. m \in 0 .. Max({w, h}) - 1
    BY <2>2, <2>4
  <2>8. onDiagonal = {k \in 0 .. Max({w, h}) - 1 : k >= m}
    BY <2>6
  <2>9. onDiagonal \in SUBSET Int /\ m \in onDiagonal /\ \A y \in onDiagonal : m =< y
    <3> HIDE DEF onDiagonal, m
    <3> QED
      BY <2>7, <2>8
  <2>10. i = m
    <3> HIDE DEF onDiagonal, m
    <3> QED
      BY <2>9, LeastIs
  <2>11. onDiagonal # {}
    BY <2>9
  <2> DEFINE x == Min({i, w})
             y == Min({i, h})
  <2>12. x = (IF m =< w THEN m ELSE w) /\ y = (IF m =< h THEN m ELSE h)
    <3>1. m \in Nat
      BY <2>2
    <3> HIDE DEF m, i
    <3> QED
      BY <2>5, <2>10, <3>1
  <2> HIDE DEF onDiagonal, i, x, y
  <2>13. x \in x1 .. w /\ y \in y1 .. h
    BY <2>2, <2>12
  <2> HIDE DEF m
  <2>14. leftOf(x, y) \in SUBSET Int /\ x1 \in leftOf(x, y) /\ \A e \in leftOf(x, y) : x1 =< e
    <3>1. \A e \in 0 .. x : (\A k \in e .. x : Lit(p, k, y)) <=> e >= x1
      <4> TAKE e \in 0 .. x
      <4>1. \A k \in e .. x : Lit(p, k, y) <=> k >= x1
        BY <2>2, <2>3, <2>13
      <4> QED
        BY <4>1, <2>2, <2>13
    <3> QED
      BY <3>1, <2>2, <2>13
  <2>15. Min(leftOf(x, y)) = x1
    <3> HIDE DEF leftOf
    <3> QED
      BY <2>14, LeastIs
  <2>16. x0 = x1
    BY <2>15 DEF x, y
  <2> HIDE DEF x0
  <2>17. above(x0, y) \in SUBSET Int /\ y1 \in above(x0, y) /\ \A e \in above(x0, y) : y1 =< e
    <3>1. \A e \in 0 .. y : (\A k \in e .. y : Lit(p, x0, k)) <=> e >= y1
      <4> TAKE e \in 0 .. y
      <4>1. \A k \in e .. y : Lit(p, x0, k) <=> k >= y1
        BY <2>2, <2>3, <2>13, <2>16
      <4> QED
        BY <4>1, <2>2, <2>13
    <3> QED
      BY <3>1, <2>2, <2>13
  <2>18. Min(above(x0, y)) = y1
    <3> HIDE DEF above
    <3> QED
      BY <2>17, LeastIs
  <2>19. y0 = y1
    BY <2>18 DEF y
  <2> HIDE DEF y0
  <2> QED
    BY <2>1, <2>11, <2>16, <2>19 DEF x1, y1
<1> QED
  BY <1>3, <1>4, <1>5

LEMMA BordersAreFound ==
  ASSUME case # NoCase, case.kind = "border", case \in BorderCases
  PROVE  BordersFound
<1>1. Pictured(case) /\ case.mode \in {"default", "classic", "osd"}
  BY CasesAssumption DEF BorderCases, Pictured
<1> DEFINE b == Detected(case.mode, case)
<1>2. ASSUME b.x >= 0, b.y >= 0, NEW blur \in Blurs
      PROVE  /\ 2 * (case.w \div 3 + blur) < case.w => 2 * Blurred(b, blur).x < case.w
             /\ 2 * (case.h \div 3 + blur) < case.h => 2 * Blurred(b, blur).y < case.h
  <2>1. b.x \in 0 .. case.w \div 3 /\ b.y \in 0 .. case.h \div 3
    BY <1>1, <1>2, FoundInThird
  <2>2. case.w \in Nat /\ case.h \in Nat /\ blur \in Nat
    BY <1>1, CasesAssumption DEF Pictured
  <2>3. case.w \div 3 \in Nat /\ case.h \div 3 \in Nat
    BY <2>2
  <2> HIDE DEF b
  <2> QED
    BY <2>1, <2>2, <2>3 DEF Blurred
<1>3. Letterbox(case) => b = [x |-> case.x[1], y |-> case.y[1]]
  BY <1>1, LetterboxFound
<1> QED
  BY <1>2, <1>3 DEF BordersFound, Letterbox

-----------------------------------------------------------------------------
(* The adjusted color                                                      *)
Byte == 0 .. 255
Colour == [1 .. 3 -> Byte]
Names == {"black", "red", "green", "blue", "cyan", "magenta", "yellow", "white"}

LEMMA CubeFacts ==
  /\ DOMAIN Cube = Names
  /\ Cube["black"] = <<0, 0, 0>> /\ Cube["red"] = <<1, 0, 0>> /\ Cube["green"] = <<0, 1, 0>>
  /\ Cube["blue"] = <<0, 0, 1>> /\ Cube["cyan"] = <<0, 1, 1>> /\ Cube["magenta"] = <<1, 0, 1>>
  /\ Cube["yellow"] = <<1, 1, 0>> /\ Cube["white"] = <<1, 1, 1>>
BY DEF Cube, Names

LEMMA BrightnessFits ==
  ASSUME NEW brightness \in 0 .. 100, NEW compensation \in 0 .. 100
  PROVE  LET b == BrightnessComponents(brightness, compensation)
         IN b[1] \in Byte /\ b[2] \in Byte /\ b[3] \in Byte
<1> DEFINE bIn == IF brightness < 50 THEN 750 - 9 * brightness ELSE 500 - 4 * brightness
           of(share) == Min({255, Ceil(255 * 100 * 100, bIn * share)})
<1>1. bIn \in Nat \ {0}
  OBVIOUS
<1> HIDE DEF bIn
<1>2. ASSUME NEW share \in Nat \ {0} PROVE of(share) \in Byte
  <2> DEFINE q == bIn * share
  <2>1. q \in Nat \ {0}
    BY <1>1, <1>2
  <2> HIDE DEF q
  <2>2. (2550000 + q - 1) \div q \in Nat
    <3>1. 2550000 + q - 1 \in Nat
      BY <2>1
    <3> QED
      BY <3>1, <2>1, DividedOrder
  <2>3. Ceil(255 * 100 * 100, q) \in Nat
    BY <2>2 DEF Ceil
  <2> DEFINE v == Ceil(255 * 100 * 100, q)
  <2> HIDE DEF v
  <2>4. Min({255, v}) = IF 255 =< v THEN 255 ELSE v
    BY <2>3, MinOfTwo DEF v
  <2>5. Min({255, v}) \in Byte
    BY <2>3, <2>4 DEF Byte, v
  <2> QED
    BY <2>5 DEF v, q
<1>3. of(100) \in Byte /\ of(100 + compensation) \in Byte /\ of(100 + 2 * compensation) \in Byte
  BY <1>2
<1> HIDE DEF of
<1>4. BrightnessComponents(brightness, compensation) =
        IF brightness = 0 THEN <<0, 0, 0>> ELSE <<of(100), of(100 + compensation), of(100 + 2 * compensation)>>
  BY DEF BrightnessComponents, of, bIn
<1> QED
  BY <1>3, <1>4 DEF Byte

LEMMA Turned ==
  ASSUME NEW x \in Int, NEW y \in Int, NEW z \in Int
  PROVE  x * y * z = y * (x * z)
OBVIOUS

(* a channel of a corner is not more than the corner's share *)
LEMMA ChannelFits ==
  ASSUME NEW input \in Byte, NEW brightness \in Byte, NEW adjust \in Colour, NEW k \in 1 .. 3
  PROVE  ApplyChannel(input, brightness, adjust)[k] \in 0 .. input
<1> DEFINE a == adjust[k]
           p == brightness * a
           n == brightness * input * a
           q == n \div 65025
<1>1. a \in Byte
  BY DEF Colour
<1>2. p \in Nat /\ p =< 65025
  <2>1. brightness * a =< brightness * 255 /\ brightness * a \in Nat
    BY <1>1, TimesOrder DEF Byte
  <2> QED
    BY <2>1 DEF Byte
<1>3. n = input * p
  <2>1. brightness \in Int /\ input \in Int /\ a \in Int
    BY <1>1 DEF Byte
  <2> HIDE DEF a
  <2> QED
    BY <2>1, Turned
<1> HIDE DEF p, n
<1>4. n \in Nat /\ n =< input * 65025
  BY <1>2, <1>3, TimesOrder DEF Byte
<1>5. q \in Nat /\ q * 65025 =< n
  BY <1>4, DividedOrder, Divided
<1> HIDE DEF q
<1>6. q =< input
  BY <1>4, <1>5 DEF Byte
<1>7. ApplyChannel(input, brightness, adjust)[k] = Min({q, 255})
  BY DEF ApplyChannel, q, n, a
<1> QED
  BY <1>5, <1>6, <1>7, MinOfTwo DEF Byte

LEMMA FourParts ==
  ASSUME NEW x \in Int, NEW e \in Int, NEW f \in Int,
         NEW m \in Int, NEW n \in Int, NEW o \in Int, NEW p \in Int,
         m + n = 255 * e, o + p = 255 * f, e + f = 255 * x
  PROVE  m + n + o + p = 65025 * x
OBVIOUS

(* the shares of all corners are not more than the whole *)
LEMMA SharesFit ==
  ASSUME NEW c \in Colour
  PROVE  /\ \A name \in Names : Share(c, Cube[name]) \in Byte
         /\ Share(c, Cube["black"]) + Share(c, Cube["red"]) + Share(c, Cube["green"]) + Share(c, Cube["blue"])
            + Share(c, Cube["cyan"]) + Share(c, Cube["magenta"]) + Share(c, Cube["yellow"]) + Share(c, Cube["white"])
            =< 255
<1> DEFINE r == c[1]
           g == c[2]
           b == c[3]
           nr == 255 - r
           ng == 255 - g
           nb == 255 - b
           s(n) == n \div 65025
<1>1. r \in Byte /\ g \in Byte /\ b \in Byte
  BY DEF Colour
<1>2. nr \in Byte /\ ng \in Byte /\ nb \in Byte
  BY <1>1 DEF Byte
<1>3. /\ Share(c, Cube["black"]) = s(nr * ng * nb) /\ Share(c, Cube["red"]) = s(r * ng * nb)
      /\ Share(c, Cube["green"]) = s(nr * g * nb) /\ Share(c, Cube["blue"]) = s(nr * ng * b)
      /\ Share(c, Cube["cyan"]) = s(nr * g * b) /\ Share(c, Cube["magenta"]) = s(r * ng * b)
      /\ Share(c, Cube["yellow"]) = s(r * g * nb) /\ Share(c, Cube["white"]) = s(r * g * b)
  BY CubeFacts DEF Share
<1> HIDE DEF r, g, b
<1>4. ASSUME NEW x \in Byte, NEW y \in Byte, NEW z \in Byte
      PROVE  x * y * z \in Nat /\ s(x * y * z) \in Nat /\ 65025 * s(x * y * z) =< x * y * z
  <2>1. x * y * z \in Nat
    <3>1. x * y \in Nat
      BY <1>4 DEF Byte
    <3> QED
      BY <3>1, <1>4 DEF Byte
  <2> DEFINE n == x * y * z
  <2> HIDE DEF n
  <2>2. n \div 65025 \in Nat /\ (n \div 65025) * 65025 =< n
    BY <2>1, DividedOrder, Divided DEF n
  <2> QED
    BY <2>1, <2>2 DEF n
<1>5. nr * ng * nb + r * ng * nb + nr * g * nb + nr * ng * b + nr * g * b + r * ng * b + r * g * nb + r * g * b
      = 65025 * 255
  <2>1. ASSUME NEW x \in Byte
        PROVE nr * ng * x + r * ng * x + nr * g * x + r * g * x = 65025 * x
    <3>1. nr * ng * x + r * ng * x = 255 * (ng * x)
      BY <1>1, <1>2, <2>1 DEF Byte, nr
    <3>2. nr * g * x + r * g * x = 255 * (g * x)
      BY <1>1, <1>2, <2>1 DEF Byte, nr
    <3>3. ng * x + g * x = 255 * x
      BY <1>1, <1>2, <2>1 DEF Byte, ng
    <3>4. /\ nr * ng * x \in Int /\ r * ng * x \in Int /\ nr * g * x \in Int /\ r * g * x \in Int
          /\ ng * x \in Int /\ g * x \in Int
      BY <1>1, <1>2, <2>1 DEF Byte
    <3> QED
      BY <3>1, <3>2, <3>3, <3>4, <2>1, FourParts DEF Byte
  <2>2. /\ nr * ng * nb + r * ng * nb + nr * g * nb + r * g * nb = 65025 * nb
        /\ nr * ng * b + r * ng * b + nr * g * b + r * g * b = 65025 * b
    BY <1>1, <1>2, <2>1
  <2>3. nb = 255 - b /\ b \in Int
    BY <1>1 DEF Byte
  <2> HIDE DEF nr, ng, nb
  <2>4. /\ nr * ng * nb \in Nat /\ r * ng * nb \in Nat /\ nr * g * nb \in Nat /\ r * g * nb \in Nat
        /\ nr * ng * b \in Nat /\ r * ng * b \in Nat /\ nr * g * b \in Nat /\ r * g * b \in Nat
    BY <1>1, <1>2, <1>4
  <2> QED
    BY <2>2, <2>3, <2>4
<1> HIDE DEF nr, ng, nb, s
<1>6. /\ nr * ng * nb \in Nat /\ s(nr * ng * nb) \in Nat /\ 65025 * s(nr * ng * nb) =< nr * ng * nb
      /\ r * ng * nb \in Nat /\ s(r * ng * nb) \in Nat /\ 65025 * s(r * ng * nb) =< r * ng * nb
      /\ nr * g * nb \in Nat /\ s(nr * g * nb) \in Nat /\ 65025 * s(nr * g * nb) =< nr * g * nb
      /\ nr * ng * b \in Nat /\ s(nr * ng * b) \in Nat /\ 65025 * s(nr * ng * b) =< nr * ng * b
      /\ nr * g * b \in Nat /\ s(nr * g * b) \in Nat /\ 65025 * s(nr * g * b) =< nr * g * b
      /\ r * ng * b \in Nat /\ s(r * ng * b) \in Nat /\ 65025 * s(r * ng * b) =< r * ng * b
      /\ r * g * nb \in Nat /\ s(r * g * nb) \in Nat /\ 65025 * s(r * g * nb) =< r * g * nb
      /\ r * g * b \in Nat /\ s(r * g * b) \in Nat /\ 65025 * s(r * g * b) =< r * g * b
  BY <1>1, <1>2, <1>4
<1>7. s(nr * ng * nb) + s(r * ng * nb) + s(nr * g * nb) + s(nr * ng * b)
      + s(nr * g * b) + s(r * ng * b) + s(r * g * nb) + s(r * g * b) =< 255
  BY <1>5, <1>6
<1>8. /\ s(nr * ng * nb) \in Byte /\ s(r * ng * nb) \in Byte /\ s(nr * g * nb) \in Byte /\ s(nr * ng * b) \in Byte
      /\ s(nr * g * b) \in Byte /\ s(r * ng * b) \in Byte /\ s(r * g * nb) \in Byte /\ s(r * g * b) \in Byte
  <2>1. /\ s(nr * ng * nb) \in Nat /\ s(r * ng * nb) \in Nat /\ s(nr * g * nb) \in Nat /\ s(nr * ng * b) \in Nat
        /\ s(nr * g * b) \in Nat /\ s(r * ng * b) \in Nat /\ s(r * g * nb) \in Nat /\ s(r * g * b) \in Nat
    BY <1>6
  <2> DEFINE t1 == s(nr * ng * nb)
             t2 == s(r * ng * nb)
             t3 == s(nr * g * nb)
             t4 == s(nr * ng * b)
             t5 == s(nr * g * b)
             t6 == s(r * ng * b)
             t7 == s(r * g * nb)
             t8 == s(r * g * b)
  <2>2. /\ t1 \in Nat /\ t2 \in Nat /\ t3 \in Nat /\ t4 \in Nat
        /\ t5 \in Nat /\ t6 \in Nat /\ t7 \in Nat /\ t8 \in Nat
        /\ t1 + t2 + t3 + t4 + t5 + t6 + t7 + t8 =< 255
    BY <2>1, <1>7
  <2> HIDE DEF t1, t2, t3, t4, t5, t6, t7, t8
  <2>3. /\ t1 \in Byte /\ t2 \in Byte /\ t3 \in Byte /\ t4 \in Byte
        /\ t5 \in Byte /\ t6 \in Byte /\ t7 \in Byte /\ t8 \in Byte
    BY <2>2 DEF Byte
  <2> QED
    BY <2>3 DEF t1, t2, t3, t4, t5, t6, t7, t8
<1> QED
  BY <1>3, <1>7, <1>8 DEF Names

(* the level of brightness of a corner *)
Level(b, at) == LET on == at[1] + at[2] + at[3] IN IF on = 0 THEN 255 ELSE b[on]
Of(c, b, corner, name) == ApplyChannel(Share(c, Cube[name]), Level(b, Cube[name]), corner[name])

LEMMA AdjustedParts ==
  ASSUME NEW c \in Colour, NEW brightness, NEW compensation, NEW corner, NEW k \in 1 .. 3
  PROVE  LET b == BrightnessComponents(brightness, compensation)
             of(name) == Of(c, b, corner, name)[k]
         IN ApplyAdjustment(c, brightness, compensation, corner)[k] =
              of("black") + of("red") + of("green") + of("blue") + of("cyan") + of("magenta") + of("yellow") + of("white")
BY DEF ApplyAdjustment, Of, Level

LEMMA AdjustedFits ==
  ASSUME NEW c \in Colour, NEW brightness \in 0 .. 100, NEW compensation \in 0 .. 100,
         NEW corner \in [Names -> Colour], NEW k \in 1 .. 3
  PROVE  ApplyAdjustment(c, brightness, compensation, corner)[k] \in Byte
<1> DEFINE b == BrightnessComponents(brightness, compensation)
           of(name) == Of(c, b, corner, name)[k]
           share(name) == Share(c, Cube[name])
<1>1. \A name \in Names : Level(b, Cube[name]) \in Byte
  <2>1. b[1] \in Byte /\ b[2] \in Byte /\ b[3] \in Byte
    BY BrightnessFits
  <2> HIDE DEF b
  <2>2. \A on \in 0 .. 3 : (IF on = 0 THEN 255 ELSE b[on]) \in Byte
    BY <2>1 DEF Byte
  <2>3. \A name \in Names : Cube[name][1] + Cube[name][2] + Cube[name][3] \in 0 .. 3
    BY CubeFacts DEF Names
  <2> QED
    BY <2>2, <2>3 DEF Level
<1> HIDE DEF b
<1>2. \A name \in Names : share(name) \in Byte
  BY SharesFit
<1>3. \A name \in Names : of(name) \in 0 .. share(name)
  BY <1>1, <1>2, ChannelFits DEF Of
<1>4. share("black") + share("red") + share("green") + share("blue")
      + share("cyan") + share("magenta") + share("yellow") + share("white") =< 255
  BY SharesFit
<1> HIDE DEF share, of
<1>5. of("black") + of("red") + of("green") + of("blue") + of("cyan") + of("magenta") + of("yellow") + of("white") \in Byte
  <2>1. \A name \in Names : of(name) \in Nat /\ share(name) \in Nat /\ of(name) =< share(name)
    BY <1>2, <1>3 DEF Byte
  <2>2. /\ of("black") \in Nat /\ share("black") \in Nat /\ of("black") =< share("black")
        /\ of("red") \in Nat /\ share("red") \in Nat /\ of("red") =< share("red")
        /\ of("green") \in Nat /\ share("green") \in Nat /\ of("green") =< share("green")
        /\ of("blue") \in Nat /\ share("blue") \in Nat /\ of("blue") =< share("blue")
        /\ of("cyan") \in Nat /\ share("cyan") \in Nat /\ of("cyan") =< share("cyan")
        /\ of("magenta") \in Nat /\ share("magenta") \in Nat /\ of("magenta") =< share("magenta")
        /\ of("yellow") \in Nat /\ share("yellow") \in Nat /\ of("yellow") =< share("yellow")
        /\ of("white") \in Nat /\ share("white") \in Nat /\ of("white") =< share("white")
    BY <2>1 DEF Names
  <2>3. of("black") + of("red") + of("green") + of("blue") + of("cyan") + of("magenta") + of("yellow") + of("white") =< 255
    BY <2>2, <1>4
  <2> DEFINE sum == of("black") + of("red") + of("green") + of("blue") + of("cyan") + of("magenta") + of("yellow") + of("white")
  <2>4. sum \in Nat
    BY <2>2
  <2> QED
    BY <2>3, <2>4 DEF Byte
<1> QED
  BY <1>5, AdjustedParts DEF of, b

AtCorner(c, name) == \A k \in 1 .. 3 : c[k] = 255 * Cube[name][k]

(* a corner has all of itself and nothing of the others *)
LEMMA CornerShares ==
  ASSUME NEW c \in Colour, NEW name \in Names, AtCorner(c, name),
         NEW other \in Names
  PROVE  Share(c, Cube[other]) = IF other = name THEN 255 ELSE 0
<1>1. /\ c[1] = 255 * Cube[name][1] /\ c[2] = 255 * Cube[name][2] /\ c[3] = 255 * Cube[name][3]
  BY DEF AtCorner
<1> QED
  BY <1>1, CubeFacts DEF Share, Names

LEMMA ChannelAll ==
  ASSUME NEW adjust \in Colour
  PROVE  /\ ApplyChannel(255, 255, adjust) = adjust
         /\ \A b \in Byte, k \in 1 .. 3 : ApplyChannel(0, b, adjust)[k] = 0
<1>1. \A k \in 1 .. 3 : ApplyChannel(255, 255, adjust)[k] = adjust[k]
  <2> TAKE k \in 1 .. 3
  <2> DEFINE a == adjust[k]
  <2>1. a \in Byte
    BY DEF Colour
  <2> HIDE DEF a
  <2> DEFINE n == (255 * 255 * a) \div 65025
  <2>2. n = a
    BY <2>1 DEF Byte
  <2>3. ApplyChannel(255, 255, adjust)[k] = Min({n, 255})
    BY DEF ApplyChannel, a
  <2> HIDE DEF n
  <2>4. Min({a, 255}) = IF a =< 255 THEN a ELSE 255
    BY <2>1, MinOfTwo DEF Byte
  <2>5. Min({a, 255}) = a
    BY <2>1, <2>4 DEF Byte
  <2> QED
    BY <2>2, <2>3, <2>5 DEF a
<1>2. ApplyChannel(255, 255, adjust) = adjust
  <2>1. ApplyChannel(255, 255, adjust) = [k \in 1 .. 3 |-> ApplyChannel(255, 255, adjust)[k]]
    BY DEF ApplyChannel
  <2>2. adjust = [k \in 1 .. 3 |-> adjust[k]]
    BY DEF Colour
  <2> QED
    BY <1>1, <2>1, <2>2
<1>3. ASSUME NEW b \in Byte, NEW k \in 1 .. 3 PROVE ApplyChannel(0, b, adjust)[k] = 0
  <2>1. 0 \in Byte
    BY DEF Byte
  <2>2. ApplyChannel(0, b, adjust)[k] \in 0 .. 0
    BY <1>3, <2>1, ChannelFits
  <2> QED
    BY <2>2
<1> QED
  BY <1>2, <1>3

LEMMA PureColours ==
  ASSUME NEW c \in Colour, NEW brightness \in 0 .. 100, NEW compensation \in 0 .. 100,
         NEW corner \in [Names -> Colour],
         BrightnessComponents(brightness, compensation) = <<255, 255, 255>>,
         NEW name \in Names, AtCorner(c, name)
  PROVE  ApplyAdjustment(c, brightness, compensation, corner) = corner[name]
<1> DEFINE b == BrightnessComponents(brightness, compensation)
<1>1. \A other \in Names : Level(b, Cube[other]) = 255
  BY CubeFacts DEF Level, Names
<1> HIDE DEF b
<1>2. ASSUME NEW k \in 1 .. 3
      PROVE  ApplyAdjustment(c, brightness, compensation, corner)[k] = corner[name][k]
  <2> DEFINE of(n) == Of(c, b, corner, n)[k]
  <2>1. \A other \in Names : of(other) = IF other = name THEN corner[name][k] ELSE 0
    <3> TAKE other \in Names
    <3>1. Share(c, Cube[other]) = IF other = name THEN 255 ELSE 0
      BY CornerShares
    <3>2. of(other) = ApplyChannel(Share(c, Cube[other]), 255, corner[other])[k]
      BY <1>1 DEF Of
    <3>3. corner[other] \in Colour /\ 255 \in Byte
      BY DEF Byte
    <3> HIDE DEF of
    <3>4. CASE other = name
      BY <3>1, <3>2, <3>3, <3>4, ChannelAll
    <3>5. CASE other # name
      BY <3>1, <3>2, <3>3, <3>5, ChannelAll
    <3> QED
      BY <3>4, <3>5
  <2>2. corner[name][k] \in Int
    <3>1. corner[name] \in Colour
      OBVIOUS
    <3> QED
      BY <3>1 DEF Colour, Byte
  <2> HIDE DEF of
  <2>3. of("black") + of("red") + of("green") + of("blue") + of("cyan") + of("magenta") + of("yellow") + of("white")
        = corner[name][k]
    BY <2>1, <2>2 DEF Names
  <2> QED
    BY <2>3, AdjustedParts DEF of, b
<1>3. ApplyAdjustment(c, brightness, compensation, corner)
        = [k \in 1 .. 3 |-> ApplyAdjustment(c, brightness, compensation, corner)[k]]
  BY DEF ApplyAdjustment
<1>4. corner[name] = [k \in 1 .. 3 |-> corner[name][k]]
  BY DEF Colour
<1> QED
  BY <1>2, <1>3, <1>4

LEMMA ColorsAreFit ==
  ASSUME case # NoCase, case.kind = "color", case \in ColorCases
  PROVE  ColorsFit
<1>1. PICK c \in [1 .. 3 -> Levels], b \in Percents, p \in Percents :
        case = [kind |-> "color", c |-> c, brightness |-> b, compensation |-> p]
  BY DEF ColorCases
<1> DEFINE corner == [name \in DOMAIN Cube |-> [k \in 1 .. 3 |-> IF Cube[name][k] = 1 THEN 255 ELSE c[4 - k]]]
<1>2. c \in Colour /\ b \in 0 .. 100 /\ p \in 0 .. 100
  <2>1. Levels \subseteq Byte /\ Percents \subseteq 0 .. 100
    BY CasesAssumption DEF Byte
  <2> QED
    BY <2>1 DEF Colour
<1>3. corner \in [Names -> Colour]
  <2>1. \A k \in 1 .. 3 : 4 - k \in 1 .. 3
    OBVIOUS
  <2>2. \A k \in 1 .. 3 : c[4 - k] \in Byte /\ 255 \in Byte
    BY <1>2, <2>1 DEF Colour, Byte
  <2> QED
    BY <2>2, CubeFacts DEF Colour
<1> HIDE DEF corner
<1>4. \A k \in 1 .. 3 : ApplyAdjustment(c, b, p, corner)[k] \in Byte
  BY <1>2, <1>3, AdjustedFits
<1>5. ASSUME BrightnessComponents(b, p) = <<255, 255, 255>>,
             NEW name \in DOMAIN Cube, AtCorner(c, name)
      PROVE  ApplyAdjustment(c, b, p, corner) = corner[name]
  <2>1. name \in Names
    BY <1>5, CubeFacts
  <2> QED
    BY <1>2, <1>3, <1>5, <2>1, PureColours
<1>6. case.c = c /\ case.brightness = b /\ case.compensation = p
  BY <1>1
<1>7. corner = [name \in DOMAIN Cube |-> [k \in 1 .. 3 |-> IF Cube[name][k] = 1 THEN 255 ELSE case.c[4 - k]]]
  BY <1>6 DEF corner
<1>8. /\ \A k \in 1 .. 3 : ApplyAdjustment(case.c, case.brightness, case.compensation, corner)[k] \in Byte
      /\ BrightnessComponents(case.brightness, case.compensation) = <<255, 255, 255>> =>
           \A name \in DOMAIN Cube : AtCorner(case.c, name) =>
             ApplyAdjustment(case.c, case.brightness, case.compensation, corner) = corner[name]
  BY <1>4, <1>5, <1>6
<1> QED
  BY <1>7, <1>8 DEF ColorsFit, AtCorner, Byte

-----------------------------------------------------------------------------
CaseInv == case = NoCase \/ case \in BorderCases \cup SampleCases \cup LedCases \cup ColorCases

LEMMA CaseSplit ==
  ASSUME CaseInv, case # NoCase
  PROVE  /\ case.kind = "sample" => case \in SampleCases
         /\ case.kind = "led" => case \in LedCases
         /\ case.kind = "border" => case \in BorderCases
         /\ case.kind = "color" => case \in ColorCases
<1>1. case \in BorderCases => case.kind = "border"
  BY DEF BorderCases
<1>2. case \in SampleCases => case.kind = "sample"
  BY DEF SampleCases
<1>3. case \in LedCases => case.kind = "led"
  BY DEF LedCases
<1>4. case \in ColorCases => case.kind = "color"
  BY DEF ColorCases
<1> QED
  BY <1>1, <1>2, <1>3, <1>4 DEF CaseInv

LEMMA CasesRight == CaseInv => BordersFound /\ SamplesInside /\ LedsMeet /\ ColorsFit
<1>1. ASSUME CaseInv, case # NoCase, case.kind = "sample", case.low + case.high < case.size
      PROVE  LET far == FarCrop(case.size, case.high, case.halved)
                 n == OutputSize(case.size, case.low, far, case.by)
                 kept == Kept(case.size, case.low, case.high, case.halved)
             IN /\ case.low + far < case.size =>
                     /\ n > 0 => SourceAt(n - 1, case.low, case.by) < case.size - far
                     /\ SourceAt(n, case.low, case.by) >= case.size - far
                /\ kept[1] + kept[2] =< case.size
  <2>1. case \in SampleCases
    BY <1>1, CaseSplit
  <2>2. /\ case.size \in Nat /\ case.low \in Nat /\ case.high \in Nat /\ case.by \in Nat \ {0}
        /\ case.halved \in BOOLEAN
    <3>1. Widths \cup Heights \subseteq Nat /\ Cuts \subseteq Nat /\ Decimations \subseteq Nat \ {0}
      BY CasesAssumption
    <3> QED
      BY <2>1, <3>1 DEF SampleCases
  <2> DEFINE far == FarCrop(case.size, case.high, case.halved)
  <2>3. far \in Nat
    BY <2>2 DEF FarCrop
  <2>4. LET kept == Kept(case.size, case.low, case.high, case.halved)
        IN kept[1] + kept[2] =< case.size
    BY <1>1, <2>2 DEF Kept
  <2> HIDE DEF far
  <2>5. case.low + far < case.size =>
          LET n == OutputSize(case.size, case.low, far, case.by)
          IN /\ n > 0 => SourceAt(n - 1, case.low, case.by) < case.size - far
             /\ SourceAt(n, case.low, case.by) >= case.size - far
    BY <2>2, <2>3, SamplesCovered
  <2> QED
    BY <2>4, <2>5 DEF far
<1>2. ASSUME CaseInv, case # NoCase, case.kind = "led", 2 * case.border < case.size
      PROVE  LET span(from, to) == Span(<<from, to>>, case.size, case.border)
             IN /\ span(case.x[1], case.x[2]) # {}
                /\ span(case.x[1], case.x[2]) \subseteq case.border .. case.size - 1 - case.border
                /\ case.x[2] =< case.next =>
                     span(case.x[1], case.next) \subseteq span(case.x[1], case.x[2]) \cup span(case.x[2], case.next)
  <2>1. case \in LedCases
    BY <1>2, CaseSplit
  <2>2. case.size \in Nat /\ case.border \in Nat /\ case.x \in Pair(Frac) /\ case.next \in 0 .. Unit
    BY <2>1, CasesAssumption DEF LedCases
  <2>3. case.x[1] \in 0 .. Unit /\ case.x[2] \in 0 .. Unit /\ case.x[1] =< case.x[2]
    BY <2>2, CasesAssumption DEF Pair
  <2> QED
    BY <1>2, <2>2, <2>3, SpansMeet
<1>3. CaseInv => BordersFound
  BY CaseSplit, BordersAreFound DEF BordersFound
<1>4. CaseInv => ColorsFit
  BY CaseSplit, ColorsAreFit DEF ColorsFit
<1> QED
  BY <1>1, <1>2, <1>3, <1>4 DEF SamplesInside, LedsMeet

-----------------------------------------------------------------------------
PixelInv == ImageInv /\ CaseInv

LEMMA PixelNextInv == PixelInv /\ [Next]_vars => PixelInv' /\ [Steady]_imageVars
<1> SUFFICES ASSUME PixelInv, [Next]_vars PROVE PixelInv' /\ [Steady]_imageVars
  OBVIOUS
<1>1. [ImageNext]_imageVars
  BY DEF Next, vars
<1>2. ImageInv' /\ [Steady]_imageVars
  BY <1>1, ImageNextInv DEF PixelInv
<1>3. GeometryNext \/ UNCHANGED case
  BY DEF Next, vars
<1>4. CaseInv'
  BY <1>3 DEF PixelInv, CaseInv, GeometryNext, Choose
<1> QED
  BY <1>2, <1>4 DEF PixelInv

(* Whatever pictures come and however layout, device, mapping and detection *)
(* change, the map of leds is that of the layout and of the border of the   *)
(* moment, and no border replaces another before it was steady; a letterbox *)
(* is found as it is by every mode; every sample of a grabber lies in what  *)
(* was kept of the picture; the leds of a layout have pixels, inside of the *)
(* border and without a gap; and no adjustment overflows a byte or misses a *)
(* pure color (Hyperion::handleSettingsUpdate(), ImageProcessor,            *)
(* updateBorder(), process(), processImage(), ImageToLedsMap(),             *)
(* applyAdjustment()).                                                      *)
THEOREM PixelsAreRight == Spec => PixelsRight
<1>1. Init => PixelInv
  BY ImageInitInv DEF Init, PixelInv, GeometryInit, CaseInv
<1>2. PixelInv => MapCurrent /\ BordersFound /\ SamplesInside /\ LedsMeet /\ ColorsFit
  BY CasesRight DEF PixelInv, ImageInv
<1>3. Steady => bb'.current = bb.current \/ UNKNOWN \in {bb.current, bb'.current} \/ since >= BorderFrameCnt
  BY DEF Steady
<1> QED
  BY <1>1, <1>2, <1>3, PixelNextInv, PTL DEF Spec, PixelsRight, NoFlicker

-----------------------------------------------------------------------------
(* A layout by the positions of its leds                                   *)
Numbered(L) ==
  /\ Len(L) \in Nat /\ DOMAIN L = 1 .. Len(L)
  /\ \A i \in 1 .. Len(L) : L[i].index \in 0 .. Len(L) - 1 /\ L[i].clone \in Int
  /\ \A i, j \in 1 .. Len(L) : L[i].index = L[j].index => i = j
  /\ \A n \in 0 .. Len(L) - 1 : \E i \in 1 .. Len(L) : L[i].index = n
  /\ \A i \in 1 .. Len(L) : L[i].clone >= 0 =>
       \E j \in 1 .. Len(L) : L[j].index = L[i].clone /\ L[j].clone < 0 /\ L[j].index < L[i].index

LEMMA LayoutsNumbered ==
  ASSUME NEW layout \in Layouts
  PROVE  Numbered(layout)
<1> DEFINE Leds == [index : Nat, clone : Int, order : STRING, x : Seq(0 .. Unit), y : Seq(0 .. Unit)]
<1>1. /\ layout \in Seq(Leds)
      /\ {l.index : l \in Range(layout)} = 0 .. Len(layout) - 1
      /\ \A i, j \in DOMAIN layout : layout[i].index = layout[j].index => i = j
      /\ \A l \in Range(layout) :
            l.clone >= 0 => \E m \in Range(layout) : m.index = l.clone /\ m.clone < 0 /\ m.index < l.index
  BY LayoutsAssumption
<1>2. /\ Len(layout) \in Nat /\ DOMAIN layout = 1 .. Len(layout)
      /\ \A i \in 1 .. Len(layout) : layout[i] \in Leds
  BY <1>1, LenProperties, ElementOfSeq
<1> HIDE DEF Leds
<1>3. Range(layout) = {layout[i] : i \in 1 .. Len(layout)}
  BY <1>2 DEF Range
<1>4. \A i \in 1 .. Len(layout) : layout[i].index \in 0 .. Len(layout) - 1 /\ layout[i].clone \in Int
  BY <1>1, <1>2, <1>3 DEF Leds
<1>5. \A n \in 0 .. Len(layout) - 1 : \E i \in 1 .. Len(layout) : layout[i].index = n
  BY <1>1, <1>3
<1>6. \A i \in 1 .. Len(layout) : layout[i].clone >= 0 =>
        \E j \in 1 .. Len(layout) :
          layout[j].index = layout[i].clone /\ layout[j].clone < 0 /\ layout[j].index < layout[i].index
  BY <1>1, <1>3
<1> QED
  BY <1>1, <1>2, <1>4, <1>5, <1>6 DEF Numbered

LEMMA OrderedNumbered ==
  ASSUME NEW layout \in Layouts, NEW dev
  PROVE  LET L == Ordered(layout, dev)
         IN /\ Numbered(L) /\ Len(L) = Len(layout)
            /\ \A i \in 1 .. Len(L) : L[i].index = layout[i].index /\ L[i].clone = layout[i].clone
<1> DEFINE L == Ordered(layout, dev)
           Leds == [index : Nat, clone : Int, order : STRING, x : Seq(0 .. Unit), y : Seq(0 .. Unit)]
<1>1. layout \in Seq(Leds)
  BY LayoutsAssumption
<1>2. /\ Len(layout) \in Nat /\ DOMAIN layout = 1 .. Len(layout)
      /\ \A i \in 1 .. Len(layout) : layout[i] \in Leds
  BY <1>1, LenProperties, ElementOfSeq
<1>3. L = [i \in 1 .. Len(layout) |-> [layout[i] EXCEPT !.order = IF @ = "" THEN dev.order ELSE @]]
  BY <1>2 DEF Ordered
<1>4. Len(L) = Len(layout) /\ DOMAIN L = 1 .. Len(layout)
  <2>1. L = [i \in 1 .. Len(layout) |-> L[i]]
    BY <1>3
  <2> HIDE DEF L, Leds
  <2> QED
    BY <1>2, <2>1
<1>5. \A i \in 1 .. Len(layout) : L[i].index = layout[i].index /\ L[i].clone = layout[i].clone
  <2>1. ASSUME NEW l \in Leds, NEW order
        PROVE  [l EXCEPT !.order = order].index = l.index /\ [l EXCEPT !.order = order].clone = l.clone
    OBVIOUS
  <2> HIDE DEF L, Leds
  <2>2. ASSUME NEW i \in 1 .. Len(layout) PROVE L[i].index = layout[i].index /\ L[i].clone = layout[i].clone
    <3>1. \E order : L[i] = [layout[i] EXCEPT !.order = order]
      BY <1>3
    <3> QED
      BY <1>2, <2>1, <3>1
  <2> QED
    BY <2>2
<1> HIDE DEF L, Leds
<1>6. Numbered(layout)
  BY LayoutsNumbered
<1>7. Numbered(L)
  BY <1>4, <1>5, <1>6 DEF Numbered
<1> QED
  BY <1>4, <1>5, <1>7 DEF L

\* the leds L are those of the layout: only the order of a led's colors is filled in
SameLeds(layout, L) ==
  /\ Numbered(L) /\ DOMAIN layout = 1 .. Len(L)
  /\ \A i \in 1 .. Len(L) : layout[i].index = L[i].index /\ layout[i].clone = L[i].clone

LEMMA OrderedLeds ==
  ASSUME NEW layout \in Layouts, NEW dev, NEW L, L = Ordered(layout, dev)
  PROVE  SameLeds(layout, L)
<1>1. Numbered(L) /\ Len(L) = Len(layout)
  BY OrderedNumbered
<1>2. \A i \in 1 .. Len(L) : L[i].index = layout[i].index /\ L[i].clone = layout[i].clone
  BY OrderedNumbered
<1>3. DOMAIN layout = 1 .. Len(layout)
  BY LayoutsNumbered DEF Numbered
<1> QED
  BY <1>1, <1>2, <1>3 DEF SameLeds

-----------------------------------------------------------------------------
(* Sets of leds whose indices differ, and how many come before one         *)
Distinct(A) ==
  /\ IsFiniteSet(A)
  /\ \A a \in A : a.index \in Nat
  /\ \A a, b \in A : a.index = b.index => a = b

Below(A, n) == {a \in A : a.index < n}
Rank(A, n) == Cardinality(Below(A, n))

LEMMA RankFacts ==
  ASSUME NEW A, Distinct(A)
  PROVE  /\ Cardinality(A) \in Nat
         /\ \A n \in Nat : Rank(A, n) \in Nat /\ Rank(A, n) <= Cardinality(A)
         /\ \A n \in Nat : \A m \in Nat : n <= m => Rank(A, n) <= Rank(A, m)
         /\ \A a \in A : \A n \in Nat : a.index < n => Rank(A, a.index) < Rank(A, n)
         /\ \A a \in A : Rank(A, a.index) < Cardinality(A)
<1>1. IsFiniteSet(A) /\ Cardinality(A) \in Nat
  BY FS_CardinalityType DEF Distinct
<1>2. ASSUME NEW n \in Nat
      PROVE  IsFiniteSet(Below(A, n)) /\ Rank(A, n) \in Nat /\ Rank(A, n) <= Cardinality(A)
  <2>1. Below(A, n) \in SUBSET A
    BY DEF Below
  <2>2. IsFiniteSet(Below(A, n)) /\ Cardinality(Below(A, n)) <= Cardinality(A)
    BY <1>1, <2>1, FS_Subset
  <2> QED
    BY <2>2, FS_CardinalityType DEF Rank
<1>3. ASSUME NEW n \in Nat, NEW m \in Nat, n <= m
      PROVE  Rank(A, n) <= Rank(A, m)
  <2>1. Below(A, n) \in SUBSET Below(A, m)
    BY <1>3 DEF Below, Distinct
  <2> QED
    BY <1>2, <2>1, FS_Subset DEF Rank
<1>4. ASSUME NEW a \in A, NEW n \in Nat, a.index < n
      PROVE  Rank(A, a.index) < Rank(A, n)
  <2>0. a.index \in Nat
    BY DEF Distinct
  <2>1. Below(A, a.index) \in SUBSET Below(A, n)
    BY <1>4, <2>0 DEF Below, Distinct
  <2>2. a \in Below(A, n) /\ a \notin Below(A, a.index)
    BY <1>4, <2>0 DEF Below
  <2>3. Cardinality(Below(A, n)) # Cardinality(Below(A, a.index))
    BY <1>2, <2>1, <2>2, FS_Subset
  <2> QED
    BY <1>2, <1>3, <1>4, <2>0, <2>3 DEF Rank
<1>5. ASSUME NEW a \in A
      PROVE  Rank(A, a.index) < Cardinality(A)
  <2>0. a.index \in Nat
    BY DEF Distinct
  <2>1. Below(A, a.index) \in SUBSET A
    BY DEF Below
  <2>2. a \notin Below(A, a.index)
    BY <2>0 DEF Below
  <2>3. Cardinality(A) # Cardinality(Below(A, a.index))
    BY <1>1, <2>1, <2>2, FS_Subset
  <2> QED
    BY <1>1, <1>2, <2>0, <2>3 DEF Rank
<1> QED
  BY <1>1, <1>2, <1>3, <1>4, <1>5

(* Sorting: each led stands behind those with a lower index. *)
LEMMA ByIndexFacts ==
  ASSUME NEW A, Distinct(A)
  PROVE  /\ Len(ByIndex(A)) = Cardinality(A) /\ DOMAIN ByIndex(A) = 1 .. Cardinality(A)
         /\ \A a \in A : Rank(A, a.index) + 1 \in 1 .. Cardinality(A) /\ ByIndex(A)[Rank(A, a.index) + 1] = a
         /\ \A k \in 1 .. Cardinality(A) : ByIndex(A)[k] \in A /\ Rank(A, ByIndex(A)[k].index) = k - 1
<1> DEFINE N == Cardinality(A)
<1>1. /\ N \in Nat
      /\ \A a \in A : Rank(A, a.index) \in 0 .. N - 1
      /\ \A a, b \in A : Rank(A, a.index) = Rank(A, b.index) => a = b
  <2>1. \A a \in A : a.index \in Nat
    BY DEF Distinct
  <2>2. ASSUME NEW a \in A, NEW b \in A, Rank(A, a.index) = Rank(A, b.index)
        PROVE  a.index = b.index
    <3>1. Rank(A, a.index) \in Nat /\ a.index \in Nat /\ b.index \in Nat
      BY <2>1, RankFacts
    <3>2. ~(a.index < b.index)
      BY <2>1, <2>2, <3>1, RankFacts
    <3>3. ~(b.index < a.index)
      BY <2>1, <2>2, <3>1, RankFacts
    <3> QED
      BY <3>1, <3>2, <3>3
  <2> QED
    BY <2>1, <2>2, RankFacts DEF Distinct
<1>2. ByIndex(A) = [k \in 1 .. N |-> CHOOSE l \in A : Rank(A, l.index) = k - 1]
  BY DEF ByIndex, Rank, Below
<1> HIDE DEF N
<1>3. Len(ByIndex(A)) = N /\ DOMAIN ByIndex(A) = 1 .. N
  BY <1>1, <1>2
<1>4. ASSUME NEW a \in A
      PROVE  Rank(A, a.index) + 1 \in 1 .. N /\ ByIndex(A)[Rank(A, a.index) + 1] = a
  <2> DEFINE k == Rank(A, a.index) + 1
  <2>1. k \in 1 .. N /\ k - 1 = Rank(A, a.index)
    BY <1>1
  <2>2. ByIndex(A)[k] = CHOOSE l \in A : Rank(A, l.index) = k - 1
    BY <1>2, <2>1
  <2>3. \A l \in A : Rank(A, l.index) = k - 1 => l = a
    BY <1>1, <2>1
  <2> HIDE DEF k
  <2>4. (CHOOSE l \in A : Rank(A, l.index) = k - 1) = a
    BY <2>1, <2>3
  <2> QED
    BY <2>1, <2>2, <2>4 DEF k
<1>5. ASSUME NEW k \in 1 .. N
      PROVE  ByIndex(A)[k] \in A /\ Rank(A, ByIndex(A)[k].index) = k - 1
  <2> DEFINE f == [a \in A |-> Rank(A, a.index) + 1]
             T == 1 .. N
  <2>1. f \in Injection(A, T)
    <3>1. f \in [A -> T]
      BY <1>1
    <3>2. \A a, b \in A : f[a] = f[b] => a = b
      BY <1>1
    <3> QED
      BY <3>1, <3>2 DEF Injection, IsInjective
  <2>2. IsFiniteSet(T) /\ Cardinality(T) = N
    BY <1>1, FS_Interval
  <2>3. f \in Surjection(A, T)
    <3> HIDE DEF f, T
    <3> QED
      BY <2>1, <2>2, FS_Injection DEF N
  <2>4. \E a \in A : f[a] = k
    BY <2>3 DEF Surjection
  <2>5. PICK a \in A : Rank(A, a.index) + 1 = k
    BY <2>4
  <2>6. ByIndex(A)[k] = a /\ Rank(A, a.index) = k - 1
    BY <1>1, <1>4, <2>5
  <2> QED
    BY <2>6
<1> QED
  BY <1>3, <1>4, <1>5 DEF N

-----------------------------------------------------------------------------
(* Ordinary leds and clones: of n leds before a place, each is one of them. *)
Plain(L)  == {l \in Range(L) : CloneOf(l, L) < 0}
Cloned(L) == {l \in Range(L) : CloneOf(l, L) >= 0}

LEMMA PartsFacts ==
  ASSUME NEW L, Numbered(L)
  PROVE  /\ Distinct(Plain(L)) /\ Distinct(Cloned(L))
         /\ \A i \in 1 .. Len(L) : L[i] \in Plain(L) <=> L[i].clone < 0
         /\ \A i \in 1 .. Len(L) : L[i] \in Cloned(L) <=> L[i].clone >= 0
         /\ \A l \in Plain(L) \cup Cloned(L) : \E i \in 1 .. Len(L) : l = L[i]
         /\ \A n \in 0 .. Len(L) : Rank(Plain(L), n) + Rank(Cloned(L), n) = n
         /\ Cardinality(Plain(L)) + Cardinality(Cloned(L)) = Len(L)
<1> DEFINE R == Range(L)
<1>1. /\ Len(L) \in Nat /\ R = {L[i] : i \in 1 .. Len(L)}
      /\ \A l \in R : l.index \in 0 .. Len(L) - 1 /\ l.index \in Nat
      /\ \A l, m \in R : l.index = m.index => l = m
      /\ \A n \in 0 .. Len(L) - 1 : \E l \in R : l.index = n
  <2>1. Len(L) \in Nat /\ R = {L[i] : i \in 1 .. Len(L)}
    BY DEF Numbered, Range
  <2> HIDE DEF R
  <2>2. \A i \in 1 .. Len(L) : L[i].index \in 0 .. Len(L) - 1 /\ L[i].index \in Nat
    BY <2>1 DEF Numbered
  <2>3. \A i, j \in 1 .. Len(L) : L[i].index = L[j].index => i = j
    BY DEF Numbered
  <2>4. \A n \in 0 .. Len(L) - 1 : \E i \in 1 .. Len(L) : L[i].index = n
    BY DEF Numbered
  <2>5. ASSUME NEW l \in R, NEW m \in R, l.index = m.index PROVE l = m
    <3>1. PICK i \in 1 .. Len(L), j \in 1 .. Len(L) : l = L[i] /\ m = L[j]
      BY <2>1
    <3> QED
      BY <2>3, <2>5, <3>1
  <2>6. \A l \in R : l.index \in 0 .. Len(L) - 1 /\ l.index \in Nat
    BY <2>1, <2>2
  <2>7. \A n \in 0 .. Len(L) - 1 : \E l \in R : l.index = n
    BY <2>1, <2>4
  <2> QED
    BY <2>1, <2>5, <2>6, <2>7
<1>2. \A i \in 1 .. Len(L) : CloneOf(L[i], L) = L[i].clone /\ L[i].clone \in Int
  <2>1. ASSUME NEW i \in 1 .. Len(L) PROVE L[i].clone \in Int /\ L[i].clone < Len(L)
    BY DEF Numbered
  <2> QED
    BY <2>1 DEF CloneOf
<1> HIDE DEF R
<1>3. /\ \A i \in 1 .. Len(L) : L[i] \in Plain(L) <=> L[i].clone < 0
      /\ \A i \in 1 .. Len(L) : L[i] \in Cloned(L) <=> L[i].clone >= 0
  BY <1>1, <1>2 DEF Plain, Cloned, R
<1>4. Plain(L) \cup Cloned(L) = R /\ Plain(L) \cap Cloned(L) = {}
  BY <1>1, <1>2 DEF Plain, Cloned, R
<1>5. ASSUME NEW n \in 0 .. Len(L) PROVE IsFiniteSet(Below(R, n)) /\ Rank(R, n) = n
  <2> DEFINE S == 0 .. n - 1
             T == Below(R, n)
             g == [k \in S |-> CHOOSE l \in R : l.index = k]
  <2>0. n \in Nat /\ n - 1 \in Int /\ \A k \in S : \E l \in R : l.index = k
    BY <1>1
  <2>1. IsFiniteSet(S) /\ Cardinality(S) = n
    BY <2>0, FS_Interval
  <2>2. \A k \in S : g[k] \in R /\ g[k].index = k
    BY <2>0
  <2>3. g \in [S -> T]
    BY <2>2 DEF Below
  <2>4. \A k, m \in S : g[k] = g[m] => k = m
    BY <2>2
  <2>5. ASSUME NEW l \in T PROVE \E k \in S : g[k] = l
    <3>1. l \in R /\ l.index \in S
      BY <1>1 DEF Below
    <3>2. g[l.index] = l
      BY <1>1, <2>2, <3>1
    <3> QED
      BY <3>1, <3>2
  <2>6. g \in Bijection(S, T)
    <3> HIDE DEF g, S, T
    <3> QED
      BY <2>3, <2>4, <2>5 DEF Bijection, Injection, IsInjective, Surjection
  <2> HIDE DEF g, S, T
  <2>7. ExistsBijection(S, T)
    BY <2>6 DEF ExistsBijection
  <2>8. IsFiniteSet(T) /\ Cardinality(T) = n
    BY <2>1, <2>7, FS_Bijection
  <2> QED
    BY <2>8 DEF T, Rank
<1>6. IsFiniteSet(R) /\ Cardinality(R) = Len(L)
  <2>1. Below(R, Len(L)) = R
    BY <1>1 DEF Below
  <2>2. Len(L) \in 0 .. Len(L)
    BY <1>1
  <2>3. IsFiniteSet(Below(R, Len(L))) /\ Rank(R, Len(L)) = Len(L)
    BY <1>5, <2>2
  <2> QED
    BY <2>1, <2>3 DEF Rank
<1>7. IsFiniteSet(Plain(L)) /\ IsFiniteSet(Cloned(L))
  <2>1. Plain(L) \in SUBSET R /\ Cloned(L) \in SUBSET R
    BY <1>4
  <2> QED
    BY <1>6, <2>1, FS_Subset
<1>8. Cardinality(Plain(L)) + Cardinality(Cloned(L)) = Len(L)
  <2>1. Cardinality(R) = Cardinality(Plain(L)) + Cardinality(Cloned(L)) - Cardinality(Plain(L) \cap Cloned(L))
    BY <1>4, <1>7, FS_Union
  <2>2. Cardinality(Plain(L) \cap Cloned(L)) = 0
    BY <1>4, FS_EmptySet
  <2>3. Cardinality(Plain(L)) \in Nat /\ Cardinality(Cloned(L)) \in Nat
    BY <1>7, FS_CardinalityType
  <2> QED
    BY <1>6, <2>1, <2>2, <2>3
<1>9. ASSUME NEW n \in 0 .. Len(L) PROVE Rank(Plain(L), n) + Rank(Cloned(L), n) = n
  <2> DEFINE P == Below(Plain(L), n)
             C == Below(Cloned(L), n)
  <2>1. P \cup C = Below(R, n) /\ P \cap C = {} /\ P \in SUBSET Plain(L) /\ C \in SUBSET Cloned(L)
    BY <1>4 DEF Below
  <2> HIDE DEF P, C
  <2>2. IsFiniteSet(P) /\ IsFiniteSet(C)
    BY <1>7, <2>1, FS_Subset
  <2>3. Cardinality(P \cup C) = Cardinality(P) + Cardinality(C) - Cardinality(P \cap C)
    BY <2>2, FS_Union
  <2>4. Cardinality(P \cap C) = 0
    BY <2>1, FS_EmptySet
  <2>5. Cardinality(P) \in Nat /\ Cardinality(C) \in Nat
    BY <2>2, FS_CardinalityType
  <2>6. Cardinality(P \cup C) = n
    BY <1>5, <2>1 DEF Rank
  <2> QED
    BY <2>3, <2>4, <2>5, <2>6 DEF P, C, Rank
<1>10. Distinct(Plain(L)) /\ Distinct(Cloned(L))
  BY <1>1, <1>4, <1>7 DEF Distinct
<1>11. \A l \in Plain(L) \cup Cloned(L) : \E i \in 1 .. Len(L) : l = L[i]
  BY <1>1, <1>4
<1> QED
  BY <1>3, <1>8, <1>9, <1>10, <1>11

-----------------------------------------------------------------------------
(* One clone after the other                                               *)
IsInserted(r, T, s, i, e) ==
  /\ r \in Seq(T) /\ Len(r) = Len(s) + 1
  /\ \A j \in 1 .. i : r[j] = s[j]
  /\ r[i + 1] = e
  /\ \A j \in i + 1 .. Len(s) : r[j + 1] = s[j]

LEMMA Inserted ==
  ASSUME NEW T, NEW s \in Seq(T), NEW i \in 0 .. Len(s), NEW e \in T
  PROVE  IsInserted(InsertBefore(s, i, e), T, s, i, e)
<1> DEFINE a == SubSeq(s, 1, i)
           o == << e >>
           b == SubSeq(s, i + 1, Len(s))
           ao == a \o o
           r == ao \o b
<1>0. Len(s) \in Nat /\ i \in Int
  BY LenProperties
<1>1. a \in Seq(T) /\ Len(a) = i /\ \A j \in 1 .. i : a[j] = s[j]
  BY <1>0, SubSeqProperties
<1>2. b \in Seq(T) /\ Len(b) = Len(s) - i /\ \A j \in 1 .. Len(s) - i : b[j] = s[j + i]
  <2>1. \A x \in (i + 1) .. Len(s) : s[x] \in T
    BY <1>0, ElementOfSeq
  <2> QED
    BY <1>0, <2>1, SubSeqProperties
<1>3. o \in Seq(T) /\ Len(o) = 1 /\ o[1] = e
  OBVIOUS
<1> HIDE DEF a, b, o
<1>4. ao \in Seq(T) /\ Len(ao) = i + 1 /\ \A j \in 1 .. i + 1 : ao[j] = IF j <= i THEN a[j] ELSE o[j - i]
  <2>1. /\ ao \in Seq(T) /\ Len(ao) = Len(a) + Len(o)
        /\ \A j \in 1 .. Len(a) + Len(o) : ao[j] = IF j <= Len(a) THEN a[j] ELSE o[j - Len(a)]
    BY <1>1, <1>3, ConcatProperties
  <2> QED
    BY <1>1, <1>3, <2>1
<1> HIDE DEF ao
<1>5. /\ r \in Seq(T) /\ Len(r) = (i + 1) + (Len(s) - i)
      /\ \A j \in 1 .. (i + 1) + (Len(s) - i) : r[j] = IF j <= i + 1 THEN ao[j] ELSE b[j - (i + 1)]
  <2>1. /\ r \in Seq(T) /\ Len(r) = Len(ao) + Len(b)
        /\ \A j \in 1 .. Len(ao) + Len(b) : r[j] = IF j <= Len(ao) THEN ao[j] ELSE b[j - Len(ao)]
    BY <1>2, <1>4, ConcatProperties
  <2> HIDE DEF r
  <2> QED
    BY <1>2, <1>4, <2>1
<1> HIDE DEF r
<1>6. Len(r) = Len(s) + 1
  BY <1>0, <1>5
<1>7. \A j \in 1 .. i : r[j] = s[j]
  <2>1. \A j \in 1 .. i : ao[j] = s[j]
    BY <1>0, <1>1, <1>4
  <2>2. \A j \in 1 .. i : r[j] = ao[j]
    BY <1>0, <1>5
  <2> QED
    BY <2>1, <2>2
<1>8. r[i + 1] = e
  <2>1. ao[i + 1] = o[1]
    BY <1>0, <1>4
  <2>2. r[i + 1] = ao[i + 1]
    BY <1>0, <1>5
  <2> QED
    BY <1>3, <2>1, <2>2
<1>9. ASSUME NEW j \in i + 1 .. Len(s) PROVE r[j + 1] = s[j]
  <2>1. j - i \in 1 .. Len(s) - i /\ j + 1 \in 1 .. (i + 1) + (Len(s) - i) /\ ~(j + 1 <= i + 1) /\ (j + 1) - (i + 1) = j - i
    BY <1>0
  <2>2. r[j + 1] = b[j - i] /\ (j - i) + i = j
    BY <1>0, <1>5, <2>1
  <2> QED
    BY <1>2, <2>1, <2>2
<1>10. InsertBefore(s, i, e) = r
  BY DEF InsertBefore, r, ao, a, o, b
<1>11. IsInserted(r, T, s, i, e)
  BY <1>5, <1>6, <1>7, <1>8, <1>9 DEF IsInserted
<1> QED
  BY <1>10, <1>11

(* what one clone makes of the buffer, and f is what k of them make of it   *)
Taken(s, c) == InsertBefore(s, c.index, s[c.clone + 1])
Inserting(f, n, buffer, clones) == f = [k \in 0 .. n |-> IF k = 0 THEN buffer ELSE Taken(f[k - 1], clones[k])]

LEMMA InsertingExists ==
  ASSUME NEW n \in Nat, NEW buffer, NEW clones
  PROVE  \E f : Inserting(f, n, buffer, clones)
<1> DEFINE Bad == {m \in Nat : ~\E f : Inserting(f, m, buffer, clones)}
<1>1. ASSUME Bad # {} PROVE FALSE
  <2>1. Bad \in SUBSET Nat
    OBVIOUS
  <2>2. PICK m \in Bad : \A y \in Bad : m =< y
    BY <1>1, <2>1, LeastOf
  <2>3. m \in Nat /\ ~\E f : Inserting(f, m, buffer, clones)
    BY <2>2
  <2>4. m # 0
    <3> DEFINE f == [k \in 0 .. 0 |-> buffer]
    <3>1. Inserting(f, 0, buffer, clones)
      BY DEF Inserting
    <3> QED
      BY <2>3, <3>1
  <2>5. m - 1 \in Nat /\ m - 1 \notin Bad
    BY <2>2, <2>3, <2>4
  <2>6. PICK f : Inserting(f, m - 1, buffer, clones)
    BY <2>5
  <2> DEFINE g == [k \in 0 .. m |-> IF k < m THEN f[k] ELSE Taken(f[m - 1], clones[m])]
  <2>7. \A k \in 0 .. m - 1 : f[k] = IF k = 0 THEN buffer ELSE Taken(f[k - 1], clones[k])
    BY <2>6 DEF Inserting
  <2>8. \A k \in 0 .. m : g[k] = IF k = 0 THEN buffer ELSE Taken(g[k - 1], clones[k])
    <3>1. ASSUME NEW k \in 0 .. m, k < m PROVE g[k] = IF k = 0 THEN buffer ELSE Taken(g[k - 1], clones[k])
      <4>1. g[k] = f[k] /\ (k # 0 => g[k - 1] = f[k - 1])
        BY <2>3, <3>1
      <4> HIDE DEF g
      <4> QED
        BY <2>3, <2>7, <3>1, <4>1
    <3>2. g[m] = Taken(g[m - 1], clones[m])
      BY <2>3, <2>5
    <3> HIDE DEF g
    <3> QED
      BY <2>3, <2>4, <3>1, <3>2
  <2>9. Inserting(g, m, buffer, clones)
    <3>1. g = [k \in 0 .. m |-> g[k]]
      OBVIOUS
    <3> HIDE DEF g
    <3> QED
      BY <2>8, <3>1 DEF Inserting
  <2> QED
    BY <2>3, <2>9
<1> QED
  BY <1>1

CloneByClone(f, buffer, clones) ==
  /\ WithClones(buffer, clones) = f[Len(clones)] /\ f[0] = buffer
  /\ \A k \in 1 .. Len(clones) : f[k] = Taken(f[k - 1], clones[k])

LEMMA WithClonesSteps ==
  ASSUME NEW buffer, NEW clones, Len(clones) \in Nat
  PROVE  \E f : CloneByClone(f, buffer, clones)
<1> DEFINE n == Len(clones)
           w == CHOOSE f : Inserting(f, n, buffer, clones)
<1>1. Inserting(w, n, buffer, clones)
  BY InsertingExists
<1>2. WithClones(buffer, clones) = w[n]
  BY DEF WithClones, Inserting, Taken
<1> HIDE DEF w, n
<1>3. n \in Nat
  BY DEF n
<1>4. \A k \in 0 .. n : w[k] = IF k = 0 THEN buffer ELSE Taken(w[k - 1], clones[k])
  BY <1>1 DEF Inserting
<1>5. w[0] = buffer /\ \A k \in 1 .. n : w[k] = Taken(w[k - 1], clones[k])
  BY <1>3, <1>4
<1> QED
  BY <1>2, <1>5 DEF n, CloneByClone

-----------------------------------------------------------------------------
(* where an ordinary led stands when k clones were inserted, and what the   *)
(* buffer holds then                                                       *)
Place(L, n, k) == Rank(Plain(L), n) + (IF Rank(Cloned(L), n) < k THEN Rank(Cloned(L), n) ELSE k) + 1

InPlace(L, T, buffer, s, k) ==
  /\ s \in Seq(T) /\ Len(s) = Len(buffer) + k
  /\ \A l \in Plain(L) : s[Place(L, l.index, k)] = buffer[Rank(Plain(L), l.index) + 1]
  /\ \A l \in Cloned(L) : Rank(Cloned(L), l.index) < k =>
       s[l.index + 1] = buffer[Rank(Plain(L), l.clone) + 1]

LEMMA SourceFacts ==
  ASSUME NEW L, Numbered(L), NEW l \in Cloned(L)
  PROVE  /\ l.clone \in Nat /\ l.index \in Nat /\ l.clone < l.index /\ Shows(l) = l.clone
         /\ \E m \in Plain(L) : m.index = l.clone
<1>1. PICK i \in 1 .. Len(L) : l = L[i]
  BY PartsFacts
<1>2. l.clone \in Int /\ l.clone >= 0 /\ l.index \in Nat
  <2>1. l.clone \in Int /\ l.index \in 0 .. Len(L) - 1 /\ Len(L) \in Nat
    BY <1>1 DEF Numbered
  <2>2. l.clone >= 0
    BY <1>1, PartsFacts
  <2> QED
    BY <2>1, <2>2
<1>3. PICK j \in 1 .. Len(L) : L[j].index = l.clone /\ L[j].clone < 0 /\ L[j].index < l.index
  BY <1>1, <1>2 DEF Numbered
<1>4. L[j] \in Plain(L)
  BY <1>3, PartsFacts
<1> QED
  BY <1>2, <1>3, <1>4 DEF Shows

LEMMA CloneTaken ==
  ASSUME NEW L, Numbered(L), NEW T, NEW buffer \in Seq(T), Len(buffer) >= Cardinality(Plain(L)),
         NEW k \in 1 .. Cardinality(Cloned(L)), NEW s, InPlace(L, T, buffer, s, k - 1)
  PROVE  InPlace(L, T, buffer, Taken(s, ByIndex(Cloned(L))[k]), k)
<1> DEFINE P == Plain(L)
           C == Cloned(L)
           c == ByIndex(C)[k]
           r == Taken(s, c)
<1>1. Distinct(P) /\ Distinct(C)
  BY PartsFacts
<1>2. c \in C /\ Rank(C, c.index) = k - 1
  BY <1>1, ByIndexFacts
<1>3. \A l \in P \cup C : l.index \in Nat /\ Rank(P, l.index) \in Nat /\ Rank(C, l.index) \in Nat
  BY <1>1, RankFacts DEF Distinct
<1>4. \A l \in P \cup C : Rank(P, l.index) + Rank(C, l.index) = l.index
  <2>1. ASSUME NEW l \in P \cup C PROVE l.index \in 0 .. Len(L)
    <3>1. PICK i \in 1 .. Len(L) : l = L[i]
      BY PartsFacts
    <3>2. l.index \in 0 .. Len(L) - 1 /\ Len(L) \in Nat
      BY <3>1 DEF Numbered
    <3> QED
      BY <3>2
  <2> QED
    BY <2>1, PartsFacts
<1>0. /\ \A a, b \in P \cup C : a.index <= b.index =>
              Rank(P, a.index) <= Rank(P, b.index) /\ Rank(C, a.index) <= Rank(C, b.index)
      /\ \A a \in C, b \in P \cup C : a.index < b.index => Rank(C, a.index) < Rank(C, b.index)
  <2>1. \A n, m \in Nat : n <= m => Rank(P, n) <= Rank(P, m) /\ Rank(C, n) <= Rank(C, m)
    BY <1>1, RankFacts
  <2>2. \A a \in C : \A n \in Nat : a.index < n => Rank(C, a.index) < Rank(C, n)
    BY <1>1, RankFacts
  <2> QED
    BY <1>3, <2>1, <2>2
<1>5. Cardinality(P) \in Nat /\ Cardinality(C) \in Nat /\ Len(buffer) \in Nat /\ k \in Int
  BY <1>1, RankFacts, LenProperties
<1>6. PICK m \in P : m.index = c.clone
  BY <1>2, SourceFacts
<1>7. c.clone \in Nat /\ c.clone < c.index
  BY <1>2, SourceFacts
<1> HIDE DEF c
<1>8. Rank(P, c.index) <= Cardinality(P)
  BY <1>1, <1>2, <1>3, RankFacts
<1>9. s \in Seq(T) /\ Len(s) = Len(buffer) + (k - 1)
  BY DEF InPlace
<1>10. c.index = Rank(P, c.index) + (k - 1) /\ c.index \in 0 .. Len(s)
  <2>1. c.index = Rank(P, c.index) + (k - 1)
    BY <1>2, <1>4
  <2> QED
    BY <1>2, <1>3, <1>5, <1>8, <1>9, <2>1
<1>11. c.clone + 1 \in 1 .. Len(s) /\ s[c.clone + 1] \in T
  <2>1. c.clone + 1 \in 1 .. Len(s)
    BY <1>5, <1>7, <1>9, <1>10
  <2> QED
    BY <1>9, <2>1, ElementOfSeq
<1>12. /\ r \in Seq(T) /\ Len(r) = Len(s) + 1
       /\ \A j \in 1 .. c.index : r[j] = s[j]
       /\ r[c.index + 1] = s[c.clone + 1]
       /\ \A j \in c.index + 1 .. Len(s) : r[j + 1] = s[j]
  <2>1. r = InsertBefore(s, c.index, s[c.clone + 1])
    BY DEF Taken
  <2>2. IsInserted(r, T, s, c.index, s[c.clone + 1])
    BY <1>9, <1>10, <1>11, <2>1, Inserted
  <2> QED
    BY <2>2 DEF IsInserted
<1> HIDE DEF r
<1>13. \A l \in P : s[Place(L, l.index, k - 1)] = buffer[Rank(P, l.index) + 1]
  BY DEF InPlace
<1>14. ASSUME NEW l \in P, l.index < c.index
       PROVE  /\ Place(L, l.index, k) = l.index + 1 /\ Place(L, l.index, k - 1) = l.index + 1
  <2>1. Rank(C, l.index) <= Rank(C, c.index)
    <3>1. l.index \in Nat /\ c.index \in Nat /\ l.index <= c.index
      BY <1>2, <1>3, <1>14
    <3> QED
      BY <1>0, <1>2, <3>1
  <2>2. Rank(C, l.index) <= k - 1 /\ Rank(C, l.index) \in Nat /\ Rank(P, l.index) \in Nat
    BY <1>2, <1>3, <2>1
  <2> QED
    BY <1>4, <1>5, <2>2 DEF Place
<1>15. ASSUME NEW l \in P
       PROVE  r[Place(L, l.index, k)] = buffer[Rank(P, l.index) + 1]
  <2>0. l.index \in Nat /\ c.index \in Nat /\ Rank(P, l.index) \in Nat /\ Rank(C, l.index) \in Nat
    BY <1>2, <1>3
  <2>1. CASE l.index < c.index
    <3>1. l.index + 1 \in 1 .. c.index
      BY <2>0, <2>1
    <3> QED
      BY <1>12, <1>13, <1>14, <2>1, <3>1
  <2>2. CASE c.index < l.index
    <3>1. Rank(C, c.index) < Rank(C, l.index) /\ Rank(P, c.index) <= Rank(P, l.index)
      BY <1>0, <1>2, <2>0, <2>2
    <3>2. Rank(P, l.index) < Cardinality(P)
      BY <1>1, RankFacts
    <3>3. Place(L, l.index, k) = Rank(P, l.index) + k + 1 /\ Place(L, l.index, k - 1) = Rank(P, l.index) + k
      BY <1>2, <1>5, <2>0, <3>1 DEF Place
    <3>4. Rank(P, l.index) + k \in c.index + 1 .. Len(s)
      <4>1. Rank(P, c.index) \in Nat /\ c.index = Rank(P, c.index) + (k - 1)
        BY <1>2, <1>3, <1>10
      <4>2. ASSUME NEW a \in Nat, NEW b \in Nat, NEW p \in Nat, NEW n \in Nat, a <= b, b < p, p <= n
            PROVE  b + k \in (a + (k - 1)) + 1 .. n + (k - 1)
        BY <1>5, <4>2
      <4>3. Rank(P, l.index) + k \in (Rank(P, c.index) + (k - 1)) + 1 .. Len(buffer) + (k - 1)
        BY <1>5, <2>0, <3>1, <3>2, <4>1, <4>2
      <4> QED
        BY <1>9, <4>1, <4>3
    <3>5. r[(Rank(P, l.index) + k) + 1] = s[Rank(P, l.index) + k]
      BY <1>12, <3>4
    <3> QED
      BY <1>13, <3>3, <3>5
  <2>3. CASE l.index = c.index
    <3>1. Rank(C, l.index) = k - 1
      BY <1>2, <2>3
    <3>2. l # c
      <4>1. PICK i \in 1 .. Len(L) : l = L[i]
        BY PartsFacts
      <4>2. L[i].clone \in Int
        BY DEF Numbered
      <4>3. L[i].clone < 0
        BY <4>1, PartsFacts
      <4>4. l \notin C
        <5>1. L[i] \in Cloned(L) <=> L[i].clone >= 0
          BY PartsFacts
        <5> QED
          BY <4>1, <4>2, <4>3, <5>1
      <4> QED
        BY <1>2, <4>4
    <3>3. \A a, b \in P \cup C : a.index = b.index => a = b
      <4>1. ASSUME NEW a \in P \cup C, NEW b \in P \cup C, a.index = b.index PROVE a = b
        <5>1. PICK i \in 1 .. Len(L), j \in 1 .. Len(L) : a = L[i] /\ b = L[j]
          BY PartsFacts
        <5> QED
          BY <4>1, <5>1 DEF Numbered
      <4> QED
        BY <4>1
    <3> QED
      BY <1>2, <2>3, <3>2, <3>3
  <2> QED
    BY <2>0, <2>1, <2>2, <2>3
<1>16. ASSUME NEW l \in C, Rank(C, l.index) < k
       PROVE  r[l.index + 1] = buffer[Rank(P, l.clone) + 1]
  <2>0. l.index \in Nat /\ c.index \in Nat /\ Rank(C, l.index) \in Nat
    BY <1>2, <1>3
  <2>1. CASE l = c
    <3>1. Place(L, m.index, k - 1) = c.clone + 1
      BY <1>6, <1>7, <1>14
    <3>2. s[c.clone + 1] = buffer[Rank(P, c.clone) + 1]
      BY <1>6, <1>13, <3>1
    <3> QED
      BY <1>12, <2>1, <3>2
  <2>2. CASE l # c
    <3>1. l.index # c.index
      BY <1>1, <1>2, <2>2 DEF Distinct
    <3>2. ~(c.index < l.index)
      <4>1. c.index < l.index => Rank(C, c.index) < Rank(C, l.index)
        BY <1>1, <1>2, <2>0, RankFacts
      <4> QED
        BY <1>2, <1>5, <1>16, <2>0, <4>1
    <3>3. l.index < c.index /\ l.index + 1 \in 1 .. c.index
      BY <2>0, <3>1, <3>2
    <3>4. Rank(C, l.index) < k - 1
      BY <1>1, <1>2, <2>0, <3>3, RankFacts
    <3>5. s[l.index + 1] = buffer[Rank(P, l.clone) + 1]
      BY <3>4 DEF InPlace
    <3> QED
      BY <1>12, <3>3, <3>5
  <2> QED
    BY <2>1, <2>2
<1>17. Len(r) = Len(buffer) + k
  BY <1>5, <1>9, <1>12
<1>18. InPlace(L, T, buffer, r, k)
  BY <1>12, <1>15, <1>16, <1>17 DEF InPlace
<1> QED
  BY <1>18 DEF r, c

IsCloned(w, L, T, buffer) ==
  /\ w \in Seq(T) /\ Len(w) = Len(buffer) + Len(LedStringClone(L))
  /\ Len(LedString(L)) \in Nat /\ Len(LedStringClone(L)) \in Nat
  /\ Len(LedString(L)) + Len(LedStringClone(L)) = Len(L)
  /\ \A i \in 1 .. Len(L) : \E k \in 1 .. Len(LedString(L)) :
       LedString(L)[k].index = Shows(L[i]) /\ w[L[i].index + 1] = buffer[k]

LEMMA ClonesInPlace ==
  ASSUME NEW L, Numbered(L), NEW T, NEW buffer \in Seq(T), Len(buffer) >= Len(LedString(L))
  PROVE  IsCloned(WithClones(buffer, LedStringClone(L)), L, T, buffer)
<1> DEFINE P == Plain(L)
           C == Cloned(L)
           n == Cardinality(C)
           w == WithClones(buffer, LedStringClone(L))
<1>1. LedString(L) = ByIndex(P) /\ LedStringClone(L) = ByIndex(C)
  BY DEF LedString, LedStringClone, Plain, Cloned
<1>2. Distinct(P) /\ Distinct(C)
  BY PartsFacts
<1>3. /\ Len(LedString(L)) = Cardinality(P)
      /\ Len(LedStringClone(L)) = n
      /\ Cardinality(P) \in Nat /\ n \in Nat /\ Cardinality(P) + n = Len(L)
  BY <1>1, <1>2, ByIndexFacts, RankFacts, PartsFacts
<1>4. PICK f : /\ w = f[n] /\ f[0] = buffer
               /\ \A k \in 1 .. n : f[k] = Taken(f[k - 1], ByIndex(C)[k])
  <2> DEFINE clones == ByIndex(C)
  <2>1. Len(clones) = n /\ w = WithClones(buffer, clones)
    BY <1>1, <1>3
  <2> HIDE DEF clones, w, n
  <2>2. Len(clones) \in Nat
    BY <1>3, <2>1
  <2>3. PICK f : CloneByClone(f, buffer, clones)
    BY <2>2, WithClonesSteps
  <2>4. /\ w = f[n] /\ f[0] = buffer
        /\ \A k \in 1 .. n : f[k] = Taken(f[k - 1], clones[k])
    BY <2>1, <2>3 DEF CloneByClone
  <2> QED
    BY <2>4 DEF clones
<1>5. InPlace(L, T, buffer, f[0], 0)
  <2>1. \A l \in P \cup C : l.index \in Nat /\ Rank(P, l.index) \in Nat /\ Rank(C, l.index) \in Nat
    BY <1>2, RankFacts DEF Distinct
  <2>2. \A l \in P : Place(L, l.index, 0) = Rank(P, l.index) + 1
    BY <2>1 DEF Place
  <2>3. \A l \in C : ~(Rank(C, l.index) < 0)
    BY <2>1
  <2>4. Len(buffer) = Len(buffer) + 0
    BY LenProperties
  <2> QED
    BY <1>4, <2>2, <2>3, <2>4 DEF InPlace
<1>6. ASSUME NEW k \in 1 .. n, InPlace(L, T, buffer, f[k - 1], k - 1) PROVE InPlace(L, T, buffer, f[k], k)
  <2>1. InPlace(L, T, buffer, Taken(f[k - 1], ByIndex(C)[k]), k)
    BY <1>3, <1>6, CloneTaken
  <2> QED
    BY <1>4, <2>1
<1>7. InPlace(L, T, buffer, f[n], n)
  <2> DEFINE Bad == {k \in 0 .. n : ~InPlace(L, T, buffer, f[k], k)}
  <2>1. ASSUME Bad # {} PROVE FALSE
    <3>1. Bad \in SUBSET Nat
      BY <1>3
    <3>2. PICK k \in Bad : \A y \in Bad : k =< y
      BY <2>1, <3>1, LeastOf
    <3>3. k \in 0 .. n /\ ~InPlace(L, T, buffer, f[k], k)
      BY <3>2
    <3>4. k # 0
      BY <1>5, <3>3
    <3>5. k \in 1 .. n /\ k - 1 \in 0 .. n /\ ~(k =< k - 1)
      BY <1>3, <3>3, <3>4
    <3>6. InPlace(L, T, buffer, f[k - 1], k - 1)
      BY <3>2, <3>5
    <3> QED
      BY <1>6, <3>3, <3>5, <3>6
  <2>2. n \in 0 .. n
    BY <1>3
  <2> QED
    BY <2>1, <2>2
<1>8. ASSUME NEW i \in 1 .. Len(L)
      PROVE  \E k \in 1 .. Cardinality(P) :
               ByIndex(P)[k].index = Shows(L[i]) /\ w[L[i].index + 1] = buffer[k]
  <2>1. CASE L[i].clone < 0
    <3>1. L[i] \in P
      BY <2>1, PartsFacts
    <3> DEFINE x == L[i].index
    <3>2. x \in 0 .. Len(L) /\ x \in Nat
      BY DEF Numbered
    <3>3. Rank(P, x) \in Nat /\ Rank(C, x) \in Nat /\ Rank(C, x) <= n /\ Rank(P, x) + Rank(C, x) = x
      BY <1>2, <3>2, RankFacts, PartsFacts
    <3>4. Place(L, x, n) = x + 1
      BY <1>3, <3>3 DEF Place
    <3>5. w[x + 1] = buffer[Rank(P, x) + 1]
      BY <1>4, <1>7, <3>1, <3>4 DEF InPlace
    <3>6. Rank(P, x) + 1 \in 1 .. Cardinality(P) /\ ByIndex(P)[Rank(P, x) + 1] = L[i]
      BY <1>2, <3>1, ByIndexFacts
    <3>7. Shows(L[i]) = x
      BY <2>1 DEF Shows
    <3> QED
      BY <3>5, <3>6, <3>7
  <2>2. CASE L[i].clone >= 0
    <3>1. L[i] \in C
      BY <2>2, PartsFacts
    <3>2. Rank(C, L[i].index) < n
      BY <1>2, <3>1, RankFacts
    <3>3. w[L[i].index + 1] = buffer[Rank(P, L[i].clone) + 1]
      BY <1>4, <1>7, <3>1, <3>2 DEF InPlace
    <3>4. PICK m \in P : m.index = L[i].clone
      BY <3>1, SourceFacts
    <3>5. Rank(P, m.index) + 1 \in 1 .. Cardinality(P) /\ ByIndex(P)[Rank(P, m.index) + 1] = m
      BY <1>2, ByIndexFacts
    <3>6. Shows(L[i]) = L[i].clone
      BY <3>1, SourceFacts
    <3> QED
      BY <3>3, <3>4, <3>5, <3>6
  <2>3. L[i].clone \in Int
    BY DEF Numbered
  <2> QED
    BY <2>1, <2>2, <2>3
<1>9. w \in Seq(T) /\ Len(w) = Len(buffer) + n
  BY <1>4, <1>7 DEF InPlace
<1> HIDE DEF w, n
<1>10. IsCloned(w, L, T, buffer)
  BY <1>1, <1>3, <1>8, <1>9 DEF IsCloned
<1> QED
  BY <1>10 DEF w

-----------------------------------------------------------------------------
(* The frame: what update() makes of a buffer                              *)
IsBuffer(s) == Len(s) \in Nat /\ s = [i \in 1 .. Len(s) |-> s[i]]

(* entry e, adjusted and in the order of the led at place i                *)
Done(e, orders, i) ==
  [[e EXCEPT !.adjusted = Cap(@ + 1, 2)] EXCEPT !.bytes = Reordered(orders[i], @)]

IsFinished(r, L, buffer, orders, hw) ==
  LET n == Len(buffer) + Len(LedStringClone(L))
  IN /\ IsBuffer(r) /\ n \in Nat /\ Len(r) = IF hw >= n THEN hw ELSE n
     /\ \A i \in 1 .. Len(L) : \E k \in 1 .. Len(LedString(L)) :
          LedString(L)[k].index = Shows(L[i]) /\ r[L[i].index + 1] = Done(buffer[k], orders, L[i].index + 1)

(* the clones inserted, the bytes are brought in order and the rest is     *)
(* filled up to the leds of the hardware                                   *)
Delivered(w, orders, hw) ==
  Resize(InOrder(w, orders), Max({hw, Len(InOrder(w, orders))}), Entry({}, BLACK, 0))

IsDelivered(r, w, orders, hw) ==
  /\ IsBuffer(r) /\ Len(w) \in Nat /\ Len(r) = IF hw >= Len(w) THEN hw ELSE Len(w)
  /\ \A i \in 1 .. Len(w) : r[i] = [w[i] EXCEPT !.bytes = Reordered(orders[i], @)]
  /\ \A i \in Len(w) + 1 .. Len(r) : r[i] = Entry({}, BLACK, 0)

LEMMA DeliveredFacts ==
  ASSUME NEW T, NEW w \in Seq(T), NEW orders, NEW hw \in Nat
  PROVE  IsDelivered(Delivered(w, orders, hw), w, orders, hw)
<1> DEFINE n == Len(w)
           o == InOrder(w, orders)
           r == Delivered(w, orders, hw)
<1>1. n \in Nat /\ DOMAIN w = 1 .. n
  BY LenProperties
<1>2. o = [i \in 1 .. n |-> [w[i] EXCEPT !.bytes = Reordered(orders[i], @)]]
  BY <1>1 DEF InOrder
<1>3. /\ Len(o) = n
      /\ \A i \in 1 .. n : o[i] = [w[i] EXCEPT !.bytes = Reordered(orders[i], @)]
  <2>1. o = [i \in 1 .. n |-> o[i]]
    BY <1>2
  <2>2. \A i \in 1 .. n : o[i] = [w[i] EXCEPT !.bytes = Reordered(orders[i], @)]
    BY <1>2
  <2> HIDE DEF o, n
  <2> QED
    BY <1>1, <2>1, <2>2
<1>4. r = Resize(o, Max({hw, Len(o)}), Entry({}, BLACK, 0))
  BY DEF Delivered
<1> HIDE DEF o, r
<1> DEFINE N == IF hw >= n THEN hw ELSE n
<1>5. Max({hw, Len(o)}) = N /\ N \in Nat /\ n <= N
  <2>1. Max({hw, Len(o)}) = IF hw >= Len(o) THEN hw ELSE Len(o)
    BY <1>1, <1>3, MaxOfTwo
  <2> QED
    BY <1>1, <1>3, <2>1
<1> HIDE DEF N
<1>6. r = [i \in 1 .. N |-> IF i =< n THEN o[i] ELSE Entry({}, BLACK, 0)]
  BY <1>3, <1>4, <1>5 DEF Resize
<1>7. /\ IsBuffer(r) /\ Len(r) = N
      /\ \A i \in 1 .. n : r[i] = o[i]
      /\ \A i \in n + 1 .. N : r[i] = Entry({}, BLACK, 0)
  <2>1. /\ r = [i \in 1 .. N |-> r[i]] 
        /\ \A i \in 1 .. n : r[i] = o[i]
        /\ \A i \in n + 1 .. N : r[i] = Entry({}, BLACK, 0)
    <3> HIDE DEF n
    <3> QED
      BY <1>1, <1>5, <1>6
  <2>2. Len(r) = N
    BY <1>5, <2>1
  <2> QED
    BY <1>5, <2>1, <2>2 DEF IsBuffer
<1>8. IsDelivered(r, w, orders, hw)
  BY <1>1, <1>3, <1>7 DEF N, n, IsDelivered
<1> QED
  BY <1>8 DEF r

LEMMA FinishedFacts ==
  ASSUME NEW L, Numbered(L), NEW buffer, IsBuffer(buffer), NEW orders, NEW hw \in Nat,
         Len(buffer) >= Len(LedString(L))
  PROVE  IsFinished(Finished(buffer, Len(LedString(L)), LedStringClone(L), orders, hw), L, buffer, orders, hw)
<1> DEFINE string == LedString(L)
           clones == LedStringClone(L)
           size == Len(string)
           a == Adjusted(buffer, size)
           w == WithClones(a, clones)
           n == Len(buffer) + Len(clones)
           r == Finished(buffer, size, clones, orders, hw)
           T == {a[j] : j \in 1 .. Len(buffer)}
<1>1. /\ a = [i \in 1 .. Len(buffer) |-> IF i =< size THEN [buffer[i] EXCEPT !.adjusted = Cap(@ + 1, 2)] ELSE buffer[i]]
      /\ Len(buffer) \in Nat
  BY DEF IsBuffer, Adjusted
<1>2. a = [i \in 1 .. Len(buffer) |-> a[i]] /\ \A k \in 1 .. Len(buffer) :
        k =< size => a[k] = [buffer[k] EXCEPT !.adjusted = Cap(@ + 1, 2)]
  BY <1>1
<1> HIDE DEF a
<1>3. a \in Seq(T) /\ Len(a) = Len(buffer)
  BY <1>1, <1>2
<1> HIDE DEF T
<1>4. /\ w \in Seq(T) /\ Len(w) = Len(a) + Len(clones)
      /\ size \in Nat /\ Len(clones) \in Nat /\ size + Len(clones) = Len(L)
      /\ \A i \in 1 .. Len(L) : \E k \in 1 .. size :
           string[k].index = Shows(L[i]) /\ w[L[i].index + 1] = a[k]
  <2>1. Len(a) >= Len(LedString(L))
    BY <1>3
  <2>2. IsCloned(w, L, T, a)
    BY <1>3, <2>1, ClonesInPlace
  <2> QED
    BY <2>2 DEF IsCloned
<1> HIDE DEF w
<1>5. n \in Nat /\ Len(w) = n
  BY <1>1, <1>3, <1>4, LenProperties
<1>6. r = Delivered(w, orders, hw)
  BY DEF Finished, Delivered, w, a
<1> HIDE DEF n, r
<1>7. IsDelivered(r, w, orders, hw)
  BY <1>4, <1>6, DeliveredFacts
<1>8. /\ IsBuffer(r) /\ Len(r) = IF hw >= n THEN hw ELSE n
      /\ \A i \in 1 .. n : r[i] = [w[i] EXCEPT !.bytes = Reordered(orders[i], @)]
  BY <1>5, <1>7 DEF IsDelivered
<1>9. ASSUME NEW i \in 1 .. Len(L)
       PROVE  \E k \in 1 .. size :
                string[k].index = Shows(L[i]) /\ r[L[i].index + 1] = Done(buffer[k], orders, L[i].index + 1)
  <2>1. PICK k \in 1 .. size : string[k].index = Shows(L[i]) /\ w[L[i].index + 1] = a[k]
    BY <1>4
  <2>2. k \in 1 .. Len(buffer) /\ k =< size
    BY <1>1, <1>4
  <2>3. L[i].index + 1 \in 1 .. n
    <3>1. L[i].index \in 0 .. Len(L) - 1 /\ Len(L) \in Nat
      BY DEF Numbered
    <3>2. Len(L) <= n
      BY <1>1, <1>4 DEF n
    <3> QED
      BY <1>5, <3>1, <3>2
  <2>4. r[L[i].index + 1] = [a[k] EXCEPT !.bytes = Reordered(orders[L[i].index + 1], @)]
    BY <1>8, <2>1, <2>3
  <2>5. a[k] = [buffer[k] EXCEPT !.adjusted = Cap(@ + 1, 2)]
    BY <1>2, <2>2
  <2> QED
    BY <2>1, <2>4, <2>5 DEF Done
<1>10. IsFinished(r, L, buffer, orders, hw)
  BY <1>5, <1>8, <1>9 DEF n, IsFinished
<1> QED
  BY <1>10 DEF r

-----------------------------------------------------------------------------
(* A vector shorter than the leds: as long as no clone stands behind its    *)
(* end or repeats what is there, what is made of it begins like what is     *)
(* made of a whole one                                                      *)
Begins(T, s, t, d, e) ==
  /\ s \in Seq(T) /\ t \in Seq(T) /\ Len(s) = d /\ Len(t) = e
  /\ \A j \in 1 .. d : s[j] = t[j]

LEMMA TakenBegins ==
  ASSUME NEW T, NEW s, NEW t, NEW d \in Nat, NEW e \in Nat, d =< e, Begins(T, s, t, d, e),
         NEW c, c.index \in Nat, c.clone \in Nat, c.index =< d, c.clone < d
  PROVE  Begins(T, Taken(s, c), Taken(t, c), d + 1, e + 1)
<1> DEFINE x == c.index
           u == Taken(s, c)
           v == Taken(t, c)
<1>1. s \in Seq(T) /\ t \in Seq(T) /\ Len(s) = d /\ Len(t) = e /\ \A j \in 1 .. d : s[j] = t[j]
  BY DEF Begins
<1>2. c.clone + 1 \in 1 .. d /\ c.clone + 1 \in 1 .. e /\ x \in 0 .. d /\ x \in 0 .. e
  OBVIOUS
<1>3. s[c.clone + 1] \in T /\ t[c.clone + 1] \in T /\ s[c.clone + 1] = t[c.clone + 1]
  BY <1>1, <1>2, ElementOfSeq
<1>4. u = InsertBefore(s, x, s[c.clone + 1]) /\ v = InsertBefore(t, x, t[c.clone + 1])
  BY DEF Taken
<1> HIDE DEF u, v
<1>5. IsInserted(u, T, s, x, s[c.clone + 1])
  BY <1>1, <1>2, <1>3, <1>4, Inserted
<1>6. IsInserted(v, T, t, x, t[c.clone + 1])
  BY <1>1, <1>2, <1>3, <1>4, Inserted
<1> HIDE DEF x
<1>7. /\ u \in Seq(T) /\ Len(u) = d + 1 /\ u[x + 1] = s[c.clone + 1]
      /\ \A j \in 1 .. x : u[j] = s[j]
      /\ \A j \in x + 1 .. d : u[j + 1] = s[j]
  BY <1>1, <1>5 DEF IsInserted
<1>8. /\ v \in Seq(T) /\ Len(v) = e + 1 /\ v[x + 1] = t[c.clone + 1]
      /\ \A j \in 1 .. x : v[j] = t[j]
      /\ \A j \in x + 1 .. e : v[j + 1] = t[j]
  BY <1>1, <1>6 DEF IsInserted
<1>9. ASSUME NEW j \in 1 .. d + 1 PROVE u[j] = v[j]
  <2>1. CASE j =< x
    <3>1. j \in 1 .. x /\ j \in 1 .. d
      BY <1>2, <2>1
    <3> QED
      BY <1>1, <1>7, <1>8, <3>1
  <2>2. CASE j = x + 1
    BY <1>3, <1>7, <1>8, <2>2
  <2>3. CASE j > x + 1
    <3>1. j - 1 \in x + 1 .. d /\ j - 1 \in x + 1 .. e /\ j - 1 \in 1 .. d /\ (j - 1) + 1 = j
      BY <1>2, <2>3
    <3>2. u[(j - 1) + 1] = s[j - 1] /\ v[(j - 1) + 1] = t[j - 1]
      BY <1>7, <1>8, <3>1
    <3> QED
      BY <1>1, <3>1, <3>2
  <2> QED
    BY <1>2, <2>1, <2>2, <2>3
<1>10. Begins(T, u, v, d + 1, e + 1)
  BY <1>7, <1>8, <1>9 DEF Begins
<1> QED
  BY <1>10 DEF u, v

LEMMA ClonesBegin ==
  ASSUME NEW T, NEW s, NEW t, NEW d \in Nat, NEW e \in Nat, d =< e, Begins(T, s, t, d, e),
         NEW clones, Len(clones) \in Nat,
         \A k \in 1 .. Len(clones) : /\ clones[k].index \in Nat /\ clones[k].clone \in Nat
                                     /\ clones[k].index =< d + k - 1 /\ clones[k].clone < d + k - 1
  PROVE  Begins(T, WithClones(s, clones), WithClones(t, clones), d + Len(clones), e + Len(clones))
<1>1. PICK f : CloneByClone(f, s, clones)
  BY WithClonesSteps
<1>2. PICK g : CloneByClone(g, t, clones)
  BY WithClonesSteps
<1> DEFINE n == Len(clones)
<1>0. /\ WithClones(s, clones) = f[n] /\ f[0] = s
      /\ WithClones(t, clones) = g[n] /\ g[0] = t
      /\ \A k \in 1 .. n : f[k] = Taken(f[k - 1], clones[k]) /\ g[k] = Taken(g[k - 1], clones[k])
  BY <1>1, <1>2 DEF CloneByClone
<1>3. /\ n \in Nat
      /\ \A k \in 1 .. n : /\ clones[k].index \in Nat /\ clones[k].clone \in Nat
                           /\ clones[k].index =< d + k - 1 /\ clones[k].clone < d + k - 1
  OBVIOUS
<1> HIDE DEF n
<1> DEFINE Bad == {k \in 0 .. n : ~Begins(T, f[k], g[k], d + k, e + k)}
<1>4. ASSUME Bad # {} PROVE FALSE
  <2>1. Bad \in SUBSET Nat
    BY <1>3
  <2>2. PICK k \in Bad : \A y \in Bad : k =< y
    BY <1>4, <2>1, LeastOf
  <2>3. k \in 0 .. n /\ ~Begins(T, f[k], g[k], d + k, e + k)
    BY <2>2
  <2>4. k # 0
    BY <1>0, <2>3
  <2>5. k \in 1 .. n /\ k - 1 \in 0 .. n /\ ~(k =< k - 1)
    BY <1>3, <2>3, <2>4
  <2>6. Begins(T, f[k - 1], g[k - 1], d + (k - 1), e + (k - 1))
    BY <2>2, <2>5
  <2> DEFINE a == d + (k - 1)
             b == e + (k - 1)
  <2>7. a \in Nat /\ b \in Nat /\ a =< b /\ d + k - 1 = a /\ a + 1 = d + k /\ b + 1 = e + k
    BY <1>3, <2>5
  <2>8. /\ clones[k].index \in Nat /\ clones[k].clone \in Nat
        /\ clones[k].index =< a /\ clones[k].clone < a
    BY <1>3, <2>5, <2>7
  <2>9. Begins(T, f[k - 1], g[k - 1], a, b)
    BY <2>6
  <2> HIDE DEF a, b
  <2>10. Begins(T, Taken(f[k - 1], clones[k]), Taken(g[k - 1], clones[k]), a + 1, b + 1)
    BY <2>7, <2>8, <2>9, TakenBegins
  <2> QED
    BY <1>0, <2>3, <2>5, <2>7, <2>10
<1>5. n \in 0 .. n
  BY <1>3
<1> HIDE DEF Bad
<1>6. Begins(T, f[n], g[n], d + n, e + n)
  BY <1>4, <1>5 DEF Bad
<1> QED
  BY <1>0, <1>6 DEF n

LEMMA StringFacts ==
  ASSUME NEW L, Numbered(L)
  PROVE  /\ Len(LedString(L)) \in Nat /\ DOMAIN LedString(L) = 1 .. Len(LedString(L))
         /\ Len(LedStringClone(L)) \in Nat /\ DOMAIN LedStringClone(L) = 1 .. Len(LedStringClone(L))
<1>1. LedString(L) = ByIndex(Plain(L)) /\ LedStringClone(L) = ByIndex(Cloned(L))
  BY DEF LedString, LedStringClone, Plain, Cloned
<1> QED
  BY <1>1, PartsFacts, ByIndexFacts, RankFacts

LEMMA PartLengths ==
  ASSUME NEW L, Numbered(L)
  PROVE  Len(LedString(L)) + Len(LedStringClone(L)) = Len(L)
<1>1. LedString(L) = ByIndex(Plain(L)) /\ LedStringClone(L) = ByIndex(Cloned(L))
  BY DEF LedString, LedStringClone, Plain, Cloned
<1>2. Distinct(Plain(L)) /\ Distinct(Cloned(L))
  BY PartsFacts
<1>3. Len(LedString(L)) = Cardinality(Plain(L)) /\ Len(LedStringClone(L)) = Cardinality(Cloned(L))
  BY <1>1, <1>2, ByIndexFacts
<1> QED
  BY <1>3, PartsFacts

IsShort(r, p, n) ==
  /\ IsBuffer(r) /\ n \in Nat
  /\ \A j \in 1 .. n : r[j] = p[j]
  /\ \A j \in n + 1 .. Len(r) : r[j] = Entry({}, BLACK, 0)

LEMMA ShortFacts ==
  ASSUME NEW L, Numbered(L), NEW raw, IsBuffer(raw), NEW whole, IsBuffer(whole), Len(raw) =< Len(whole),
         \A j \in 1 .. Len(raw) : raw[j] = whole[j],
         NEW size, NEW orders, NEW hw \in Nat, ~AtThrows(raw, LedStringClone(L), orders)
  PROVE  IsShort(Finished(raw, size, LedStringClone(L), orders, hw),
                 Finished(whole, size, LedStringClone(L), orders, hw), Len(raw) + Len(LedStringClone(L)))
<1> DEFINE d == Len(raw)
           e == Len(whole)
           clones == LedStringClone(L)
           n == Len(clones)
           a == Adjusted(raw, size)
           b == Adjusted(whole, size)
           u == WithClones(a, clones)
           v == WithClones(b, clones)
           T == {b[j] : j \in 1 .. e}
           r == Finished(raw, size, clones, orders, hw)
           p == Finished(whole, size, clones, orders, hw)
<1>1. d \in Nat /\ e \in Nat /\ d =< e /\ raw = [i \in 1 .. d |-> raw[i]] /\ whole = [i \in 1 .. e |-> whole[i]]
  BY DEF IsBuffer
<1>2. /\ a = [i \in 1 .. d |-> IF i =< size THEN [raw[i] EXCEPT !.adjusted = Cap(@ + 1, 2)] ELSE raw[i]]
      /\ b = [i \in 1 .. e |-> IF i =< size THEN [whole[i] EXCEPT !.adjusted = Cap(@ + 1, 2)] ELSE whole[i]]
  BY <1>1 DEF Adjusted
<1>3. \A j \in 1 .. d : a[j] = b[j]
  <2>1. ASSUME NEW j \in 1 .. d PROVE a[j] = b[j]
    <3>1. j \in 1 .. e /\ raw[j] = whole[j]
      BY <1>1
    <3> QED
      BY <1>2, <3>1
  <2> QED
    BY <2>1
<1>4. a = [i \in 1 .. d |-> a[i]] /\ b = [i \in 1 .. e |-> b[i]]
  BY <1>2
<1> HIDE DEF a, b
<1>5. a \in Seq(T) /\ b \in Seq(T) /\ Len(a) = d /\ Len(b) = e
  <2>1. (\A j \in 1 .. e : b[j] \in T) /\ \A j \in 1 .. d : a[j] \in T
    BY <1>1, <1>3
  <2>2. d \in Nat /\ e \in Nat
    BY <1>1
  <2> HIDE DEF T, d, e
  <2>3. ASSUME NEW k \in Nat, NEW s, s = [i \in 1 .. k |-> s[i]], \A j \in 1 .. k : s[j] \in T
        PROVE  s \in Seq(T) /\ Len(s) = k
    BY <2>3
  <2> QED
    BY <1>4, <2>1, <2>2, <2>3
<1> HIDE DEF T
<1>6. Begins(T, a, b, d, e)
  BY <1>3, <1>5 DEF Begins
<1>7. /\ n \in Nat
      /\ \A k \in 1 .. n : clones[k] \in Cloned(L)
  <2>1. clones = ByIndex(Cloned(L))
    BY DEF LedStringClone, Cloned
  <2>2. Distinct(Cloned(L))
    BY PartsFacts
  <2> HIDE DEF clones
  <2> QED
    BY <2>1, <2>2, ByIndexFacts, RankFacts
<1>8. ASSUME NEW k \in 1 .. n
      PROVE  /\ clones[k].index \in Nat /\ clones[k].clone \in Nat
             /\ clones[k].index =< d + k - 1 /\ clones[k].clone < d + k - 1
  <2>1. clones[k].index \in Nat /\ clones[k].clone \in Nat
    BY <1>7, SourceFacts
  <2>2. ~(clones[k].clone >= d + k - 1) /\ ~(clones[k].index > d + k - 1)
    <3>1. DOMAIN clones = 1 .. n
      BY StringFacts
    <3> QED
      BY <3>1 DEF AtThrows
  <2> HIDE DEF clones, n, d
  <2> QED
    BY <1>1, <1>7, <2>1, <2>2
<1> HIDE DEF clones
<1>9. Begins(T, u, v, d + n, e + n)
  <2> HIDE DEF d, e
  <2> QED
    BY <1>1, <1>6, <1>7, <1>8, ClonesBegin
<1>10. r = Delivered(u, orders, hw) /\ p = Delivered(v, orders, hw)
  BY DEF Finished, Delivered, a, b, u, v
<1> HIDE DEF u, v, r, p
<1>11. u \in Seq(T) /\ v \in Seq(T) /\ Len(u) = d + n /\ Len(v) = e + n /\ \A j \in 1 .. d + n : u[j] = v[j]
  BY <1>9 DEF Begins
<1>12. IsDelivered(r, u, orders, hw) /\ IsDelivered(p, v, orders, hw)
  BY <1>10, <1>11, DeliveredFacts
<1> HIDE DEF d, e, n
<1>13. ASSUME NEW j \in 1 .. d + n PROVE r[j] = p[j]
  <2>1. j \in 1 .. e + n
    BY <1>1, <1>7
  <2>2. r[j] = [u[j] EXCEPT !.bytes = Reordered(orders[j], @)]
    BY <1>11, <1>12 DEF IsDelivered
  <2>3. p[j] = [v[j] EXCEPT !.bytes = Reordered(orders[j], @)]
    BY <1>11, <1>12, <2>1 DEF IsDelivered
  <2> QED
    BY <1>11, <2>2, <2>3
<1>14. IsShort(r, p, d + n)
  BY <1>1, <1>7, <1>11, <1>12, <1>13 DEF IsDelivered, IsShort
<1> QED
  BY <1>14 DEF r, p, d, n, clones

LEMMA DoneEntry ==
  ASSUME NEW area, NEW pic, NEW border, NEW orders, NEW i
  PROVE  LET e == Done(Entry(area, pic, border), orders, i)
         IN e.area = area /\ e.pic = pic /\ e.adjusted = 1 /\ e.bytes = Reordered(orders[i], <<1, 2, 3>>)
<1>1. Cap(0 + 1, 2) = 1
  <2>1. Cap(1, 2) = 1
    BY MinOfTwo DEF Cap
  <2> QED
    BY <2>1
<1> QED
  BY <1>1 DEF Done, Entry

LEMMA VerifiedLeds ==
  ASSUME NEW b, NEW m, NEW img, NEW string, m = NoMap \/ m.leds = string
  PROVE  VerifyBorder(b, SetSize(m, img, string), img, string).leds = string
<1>1. SetSize(m, img, string).leds = string
  BY DEF SetSize, NewMap
<1> QED
  BY <1>1 DEF VerifyBorder, NewMap

(* every led has a color of its own part; the colors of a picture           *)
OwnColors(raw, string, pic) ==
  \A k \in 1 .. Len(string) :
    \E area, border : raw[k] = Entry(area, pic, border) /\ string[k].index \in area

IsPicture(raw, string, pic) ==
  /\ IsBuffer(raw) /\ Len(raw) >= Len(string)
  /\ Len(raw) = Len(string) => OwnColors(raw, string, pic)

LEMMA RevertedFacts ==
  ASSUME NEW buffer, IsBuffer(buffer), NEW n \in Nat, NEW hw \in Nat, hw >= n
  PROVE  IsBuffer(Reverted(buffer, n, hw)) /\ Len(Reverted(buffer, n, hw)) >= n
<1> DEFINE r == Reverted(buffer, n, hw)
<1>1. CASE hw > Len(buffer)
  <2>1. r = [i \in 1 .. n |-> r[i]]
    BY <1>1 DEF Reverted, Resize
  <2> HIDE DEF r
  <2>2. Len(r) = n
    BY <2>1
  <2>3. IsBuffer(r) /\ Len(r) >= n
    BY <2>1, <2>2 DEF IsBuffer
  <2> QED
    BY <2>3 DEF r
<1>2. CASE ~(hw > Len(buffer))
  BY <1>2 DEF Reverted, IsBuffer
<1> QED
  BY <1>1, <1>2

LEMMA LedColorsFacts ==
  ASSUME NEW string, Len(string) \in Nat, DOMAIN string = 1 .. Len(string),
         NEW m, m.leds = string, NEW type, NEW img, NEW buffer, IsBuffer(buffer), Len(buffer) >= Len(string)
  PROVE  IsPicture(LedColors(m, type, img, buffer), string, img.pic)
<1> DEFINE raw == LedColors(m, type, img, buffer)
           n == Len(string)
<1>1. CASE n # Len(buffer)
  BY <1>1 DEF LedColors, IsPicture
<1>2. CASE n = Len(buffer)
  <2> DEFINE all == {l.index : l \in Range(string)}
  <2>1. DOMAIN buffer = 1 .. n
    BY <1>2 DEF IsBuffer
  <2>2. raw = [i \in 1 .. n |->
                 IF type = "uni" THEN Entry(all, img.pic, 0) ELSE Entry({string[i].index}, img.pic, m.border)]
    BY <1>2, <2>1 DEF LedColors
  <2>3. \A k \in 1 .. n : string[k].index \in all
    BY DEF Range
  <2> HIDE DEF all
  <2>4. \A k \in 1 .. n : \E area, border : raw[k] = Entry(area, img.pic, border) /\ string[k].index \in area
    <3>1. ASSUME NEW k \in 1 .. n
          PROVE  \E area, border : raw[k] = Entry(area, img.pic, border) /\ string[k].index \in area
      <4>1. CASE type = "uni"
        BY <2>2, <2>3, <4>1
      <4>2. CASE type # "uni"
        BY <2>2, <4>2
      <4> QED
        BY <4>1, <4>2
    <3> QED
      BY <3>1
  <2>5. raw = [i \in 1 .. n |-> raw[i]]
    BY <2>2
  <2> HIDE DEF raw
  <2>6. Len(raw) = n
    BY <2>5
  <2>7. IsPicture(raw, string, img.pic)
    BY <2>4, <2>5, <2>6 DEF IsPicture, OwnColors, IsBuffer
  <2> QED
    BY <2>7 DEF raw
<1> QED
  BY <1>1, <1>2

LEMMA ColorsFacts ==
  ASSUME NEW string, Len(string) \in Nat, NEW n \in Nat, NEW pic
  PROVE  LET raw == ClientColors(string, n, pic)
         IN /\ IsBuffer(raw) /\ Len(raw) = n
            /\ n >= Len(string) => OwnColors(raw, string, pic)
            /\ \A j \in 1 .. n : j =< Len(string) => raw[j] = Entry({string[j].index}, pic, 0)
<1> DEFINE raw == ClientColors(string, n, pic)
<1>1. raw = [i \in 1 .. n |-> raw[i]] /\ \A j \in 1 .. n : j =< Len(string) => raw[j] = Entry({string[j].index}, pic, 0)
  BY DEF ClientColors
<1> HIDE DEF raw
<1>2. Len(raw) = n
  BY <1>1
<1>3. IsBuffer(raw)
  BY <1>1, <1>2 DEF IsBuffer
<1>4. ASSUME n >= Len(string), NEW k \in 1 .. Len(string)
      PROVE  \E area, border : raw[k] = Entry(area, pic, border) /\ string[k].index \in area
  <2>1. k \in 1 .. n /\ k =< Len(string)
    BY <1>4
  <2>2. raw[k] = Entry({string[k].index}, pic, 0)
    BY <1>1, <2>1
  <2> QED
    BY <2>2
<1> QED
  BY <1>1, <1>2, <1>3, <1>4 DEF OwnColors, raw

(* what FrameRight says of one led of the layout *)
Shown(r, l, pic, orders) ==
  LET e == r[l.index + 1]
  IN /\ Shows(l) \in e.area
     /\ e.pic = pic /\ e.adjusted = 1
     /\ e.bytes = Reordered(orders[l.index + 1], <<1, 2, 3>>)

LEMMA LedShown ==
  ASSUME NEW L, NEW r, NEW raw, NEW orders, NEW hw, IsFinished(r, L, raw, orders, hw),
         NEW pic, OwnColors(raw, LedString(L), pic),
         NEW i \in 1 .. Len(L), NEW l, l.index = L[i].index, l.clone = L[i].clone
  PROVE  Shown(r, l, pic, orders)
<1>1. PICK k \in 1 .. Len(LedString(L)) :
        LedString(L)[k].index = Shows(L[i]) /\ r[L[i].index + 1] = Done(raw[k], orders, L[i].index + 1)
  BY DEF IsFinished
<1>2. PICK area, border : raw[k] = Entry(area, pic, border) /\ LedString(L)[k].index \in area
  BY DEF OwnColors
<1>3. Shows(l) = Shows(L[i])
  BY DEF Shows
<1> DEFINE e == r[L[i].index + 1]
<1>4. e.area = area /\ e.pic = pic /\ e.adjusted = 1 /\ e.bytes = Reordered(orders[L[i].index + 1], <<1, 2, 3>>)
  BY <1>1, <1>2, DoneEntry
<1> QED
  BY <1>1, <1>2, <1>3, <1>4 DEF Shown

(* the leds of a frame made of a vector of colors, whatever its length      *)
LEMMA ColorsShown ==
  ASSUME NEW L, Numbered(L), NEW n \in Nat, NEW pic, NEW orders, NEW hw \in Nat,
         ~AtThrows(ClientColors(LedString(L), n, pic), LedStringClone(L), orders),
         NEW r, r = Finished(ClientColors(LedString(L), n, pic), Len(LedString(L)), LedStringClone(L), orders, hw)
  PROVE  /\ IsBuffer(r)
         /\ \A i \in 1 .. Len(L) : \A l : l.index = L[i].index /\ l.clone = L[i].clone =>
              IF l.index < n + Len(LedStringClone(L)) THEN Shown(r, l, pic, orders)
              ELSE l.index < Len(r) => r[l.index + 1] = Entry({}, BLACK, 0)
<1> DEFINE string == LedString(L)
           clones == LedStringClone(L)
           size == Len(string)
           raw == ClientColors(string, n, pic)
           whole == ClientColors(string, size, pic)
           p == Finished(whole, size, clones, orders, hw)
           m == Len(clones)
<1>1. size \in Nat /\ m \in Nat /\ size + m = Len(L) /\ \A i \in 1 .. Len(L) : L[i].index \in 0 .. Len(L) - 1
  BY StringFacts, PartLengths DEF Numbered
<1>2. /\ IsBuffer(raw) /\ Len(raw) = n
      /\ n >= size => OwnColors(raw, string, pic)
      /\ \A j \in 1 .. n : j =< size => raw[j] = Entry({string[j].index}, pic, 0)
  BY <1>1, ColorsFacts
<1>3. /\ IsBuffer(whole) /\ Len(whole) = size /\ OwnColors(whole, string, pic)
      /\ \A j \in 1 .. size : whole[j] = Entry({string[j].index}, pic, 0)
  BY <1>1, ColorsFacts
<1>4. r = Finished(raw, size, clones, orders, hw) /\ ~AtThrows(raw, clones, orders)
  OBVIOUS
<1> HIDE DEF raw, whole
<1>5. CASE n >= size
  <2>1. IsFinished(r, L, raw, orders, hw)
    <3>1. Len(raw) >= Len(LedString(L))
      BY <1>2, <1>5
    <3> QED
      BY <1>2, <1>4, <3>1, FinishedFacts
  <2>2. ASSUME NEW i \in 1 .. Len(L), NEW l, l.index = L[i].index, l.clone = L[i].clone
        PROVE  l.index < n + m /\ Shown(r, l, pic, orders)
    <3>1. OwnColors(raw, LedString(L), pic)
      BY <1>2, <1>5
    <3>2. Shown(r, l, pic, orders)
      BY <2>1, <2>2, <3>1, LedShown
    <3>3. L[i].index \in 0 .. Len(L) - 1
      BY <1>1
    <3> HIDE DEF size, m
    <3> QED
      BY <1>1, <1>5, <2>2, <3>2, <3>3
  <2> QED
    BY <2>1, <2>2 DEF IsFinished
<1>6. CASE n < size
  <2>1. IsShort(r, p, n + m)
    <3>1. \A j \in 1 .. Len(raw) : raw[j] = whole[j]
      <4>1. ASSUME NEW j \in 1 .. n PROVE raw[j] = whole[j]
        <5>1. size \in Nat /\ n < size
          BY <1>1, <1>6
        <5> HIDE DEF size
        <5>2. j \in 1 .. size /\ j =< size
          BY <5>1
        <5> QED
          BY <1>2, <1>3, <5>2
      <4> QED
        BY <1>2, <4>1
    <3>2. Len(raw) =< Len(whole)
      BY <1>1, <1>2, <1>3, <1>6
    <3>3. IsShort(Finished(raw, size, LedStringClone(L), orders, hw),
                  Finished(whole, size, LedStringClone(L), orders, hw), Len(raw) + Len(LedStringClone(L)))
      <4> HIDE DEF size
      <4> QED
        BY <1>2, <1>3, <1>4, <3>1, <3>2, ShortFacts
    <3> QED
      BY <1>2, <1>4, <3>3
  <2>2. IsFinished(p, L, whole, orders, hw)
    <3>1. Len(whole) >= Len(LedString(L))
      BY <1>1, <1>3
    <3> QED
      BY <1>3, <3>1, FinishedFacts
  <2> HIDE DEF p, m
  <2>3. ASSUME NEW i \in 1 .. Len(L), NEW l, l.index = L[i].index, l.clone = L[i].clone, l.index < n + m
        PROVE  Shown(r, l, pic, orders)
    <3>1. Shown(p, l, pic, orders)
      BY <1>3, <2>2, <2>3, LedShown
    <3>2. l.index + 1 \in 1 .. n + m
      BY <1>1, <2>3
    <3>3. r[l.index + 1] = p[l.index + 1]
      BY <2>1, <3>2 DEF IsShort
    <3> QED
      BY <3>1, <3>3 DEF Shown
  <2>4. ASSUME NEW i \in 1 .. Len(L), NEW l, l.index = L[i].index, ~(l.index < n + m), l.index < Len(r)
        PROVE  r[l.index + 1] = Entry({}, BLACK, 0)
    <3>1. l.index + 1 \in n + m + 1 .. Len(r)
      <4>1. l.index \in Nat /\ n + m \in Nat /\ Len(r) \in Nat
        BY <1>1, <2>1, <2>4 DEF IsShort, IsBuffer
      <4> QED
        BY <2>4, <4>1
    <3> QED
      BY <2>1, <3>1 DEF IsShort
  <2>5. IsBuffer(r)
    BY <2>1 DEF IsShort
  <2> HIDE DEF string, clones
  <2> QED
    BY <2>3, <2>4, <2>5 DEF m, clones
<1> HIDE DEF string, clones, size, m
<1> QED
  BY <1>1, <1>5, <1>6

LEMMA UpdateFrame ==
  ASSUME NEW L, Numbered(L), ledString' = LedString(L), ledStringClone' = LedStringClone(L),
         hwLedCount' \in Nat, hwLedCount' >= Len(LedString(L)),
         DOMAIN leds' = 1 .. Len(L),
         \A i \in 1 .. Len(L) : leds'[i].index = L[i].index /\ leds'[i].clone = L[i].clone,
         NEW source, source.len \in Nat, source.image # NoImage => source.pic = source.image.pic,
         NEW buffer, IsBuffer(buffer), NEW m, m = NoMap \/ m.leds = LedString(L),
         NEW b, NEW t, NEW bl, Update(source, buffer, m, b, t, bl)
  PROVE  shown' = source /\ (~crashed' => IsBuffer(ledBuffer')) /\ FrameRight'
<1> DEFINE string == LedString(L)
           clones == LedStringClone(L)
           isImage == source.image # NoImage
           colors == ClientColors(string, source.len, source.pic)
           rev == Reverted(buffer, Len(string), hwLedCount')
           b1 == IF isImage /\ source.comp # prevCompId THEN SetHardDisable(b, source.comp = "EFFECT") ELSE b
           v == VerifyBorder(b1, SetSize(m, source.image, string), source.image, string)
           t1 == IF isImage /\ source.comp # prevCompId
                 THEN SetHardLedMappingType(t, IF source.comp = "EFFECT" THEN "multi" ELSE "user") ELSE t
           raw == IF ~isImage THEN colors ELSE LedColors(v, t1.type, source.image, rev)
<1>1. /\ shown' = source
      /\ crashed' = AtThrows(raw, clones, ledStringColorOrder')
      /\ ~crashed' => ledBuffer' = Finished(raw, Len(string), clones, ledStringColorOrder', hwLedCount')
  BY DEF Update
<1>2. Len(string) \in Nat /\ DOMAIN string = 1 .. Len(string) /\ Len(clones) \in Nat
  BY StringFacts
<1>3. ASSUME ~crashed', ~isImage
      PROVE  IsBuffer(ledBuffer') /\ FrameRight'
  <2>1. /\ ~AtThrows(ClientColors(LedString(L), source.len, source.pic), LedStringClone(L), ledStringColorOrder')
        /\ ledBuffer' = Finished(ClientColors(LedString(L), source.len, source.pic), Len(LedString(L)),
                                 LedStringClone(L), ledStringColorOrder', hwLedCount')
    BY <1>1, <1>3
  <2>2. /\ IsBuffer(ledBuffer')
        /\ \A i \in 1 .. Len(L) : \A l : l.index = L[i].index /\ l.clone = L[i].clone =>
              IF l.index < source.len + Len(LedStringClone(L))
              THEN Shown(ledBuffer', l, source.pic, ledStringColorOrder')
              ELSE l.index < Len(ledBuffer') => ledBuffer'[l.index + 1] = Entry({}, BLACK, 0)
    <3> HIDE DEF string, clones, colors, raw
    <3> QED
      BY <2>1, ColorsShown
  <2>3. ASSUME NEW i \in 1 .. Len(L)
        PROVE  IF leds'[i].index < source.len + Len(LedStringClone(L))
               THEN Shown(ledBuffer', leds'[i], source.pic, ledStringColorOrder')
               ELSE leds'[i].index < Len(ledBuffer') => ledBuffer'[leds'[i].index + 1] = Entry({}, BLACK, 0)
    BY <2>2
  <2> QED
    BY <1>1, <1>3, <2>2, <2>3 DEF FrameRight, Shown, HasColor
<1>4. ASSUME ~crashed', isImage
      PROVE  IsBuffer(ledBuffer') /\ FrameRight'
  <2>1. raw = LedColors(v, t1.type, source.image, rev) /\ source.pic = source.image.pic
    BY <1>4
  <2>2. IsPicture(raw, string, source.pic)
    <3>1. IsBuffer(rev) /\ Len(rev) >= Len(string)
      BY <1>2, RevertedFacts
    <3>2. v.leds = string
      BY VerifiedLeds
    <3> HIDE DEF string, v, t1, rev, raw
    <3> QED
      BY <1>2, <2>1, <3>1, <3>2, LedColorsFacts
  <2> HIDE DEF raw
  <2> DEFINE n == Len(raw) + Len(clones)
  <2>3. IsBuffer(raw) /\ Len(raw) >= Len(LedString(L))
    BY <2>2 DEF IsPicture
  <2>4. IsFinished(ledBuffer', L, raw, ledStringColorOrder', hwLedCount')
    BY <1>1, <1>4, <2>3, FinishedFacts
  <2>5. IsBuffer(ledBuffer') /\ n \in Nat /\ Len(ledBuffer') = IF hwLedCount' >= n THEN hwLedCount' ELSE n
    BY <2>4 DEF IsFinished
  <2>6. ASSUME Len(ledBuffer') = Len(string), NEW i \in 1 .. Len(L)
        PROVE  Shown(ledBuffer', leds'[i], source.pic, ledStringColorOrder')
    <3>1. Len(raw) = Len(string)
      <4>1. n <= Len(ledBuffer') /\ Len(raw) \in Nat
        BY <2>3, <2>5 DEF IsBuffer
      <4> QED
        BY <1>2, <2>3, <2>6, <4>1
    <3>2. OwnColors(raw, LedString(L), source.pic)
      BY <2>2, <3>1 DEF IsPicture
    <3> QED
      BY <2>4, <3>2, LedShown
  <2> QED
    BY <1>1, <1>4, <2>5, <2>6 DEF FrameRight, Shown, HasColor
<1>5. crashed' => FrameRight'
  BY DEF FrameRight
<1> QED
  BY <1>1, <1>3, <1>4, <1>5

-----------------------------------------------------------------------------
IsSource(s) ==
  /\ s = [comp |-> s.comp, image |-> s.image, pic |-> s.pic, len |-> s.len] /\ s.len \in Nat
  /\ s.image # NoImage => s.pic = s.image.pic

FrameInv ==
  /\ leds \in Layouts /\ device \in Devices
  /\ ledString = LedString(Ordered(leds, device)) /\ ledStringClone = LedStringClone(Ordered(leds, device))
  /\ hwLedCount \in Nat /\ hwLedCount >= Len(ledString)
  /\ ~crashed => IsBuffer(ledBuffer)
  /\ IsSource(shown)
  /\ FrameRight

(* the length of a vector of colors follows the layout, and nothing else   *)
LEMMA LengthFacts ==
  ASSUME NEW source, IsSource(source), NEW n \in Nat PROVE IsSource(WithLength(source, n))
BY DEF IsSource, WithLength

LEMMA SourcesAre ==
  ASSUME NEW source \in Sources PROVE IsSource(source)
BY CountsAssumption DEF Sources, IsSource

(* Another order of the bytes leaves as many ordinary leds. *)
LEMMA PlainCount ==
  ASSUME NEW L, Numbered(L)
  PROVE  Cardinality(Plain(L)) = Cardinality({i \in 1 .. Len(L) : L[i].clone < 0})
<1> DEFINE S == {i \in 1 .. Len(L) : L[i].clone < 0}
           P == Plain(L)
           f == [i \in S |-> L[i]]
<1>1. IsFiniteSet(S)
  <2>1. IsFiniteSet(1 .. Len(L))
    BY FS_Interval DEF Numbered
  <2>2. S \in SUBSET (1 .. Len(L))
    OBVIOUS
  <2> QED
    BY <2>1, <2>2, FS_Subset
<1>2. f \in [S -> P]
  BY PartsFacts
<1>3. \A i, j \in S : f[i] = f[j] => i = j
  BY DEF Numbered
<1>4. \A a \in P : \E i \in S : f[i] = a
  <2>1. ASSUME NEW a \in P PROVE \E i \in S : f[i] = a
    <3>1. PICK i \in 1 .. Len(L) : a = L[i]
      BY PartsFacts
    <3>2. i \in S
      BY <3>1, PartsFacts
    <3> QED
      BY <3>1, <3>2
  <2> QED
    BY <2>1
<1> HIDE DEF f, S, P
<1>5. f \in Bijection(S, P)
  BY <1>2, <1>3, <1>4 DEF Bijection, Injection, IsInjective, Surjection
<1>6. ExistsBijection(S, P)
  BY <1>5 DEF ExistsBijection
<1>7. Cardinality(P) = Cardinality(S)
  BY <1>1, <1>6, FS_Bijection
<1> QED
  BY <1>7 DEF S, P

LEMMA SameStrings ==
  ASSUME NEW layout \in Layouts, NEW dev, NEW other
  PROVE  Len(LedString(Ordered(layout, dev))) = Len(LedString(Ordered(layout, other)))
<1> DEFINE L == Ordered(layout, dev)
           M == Ordered(layout, other)
<1>1. Numbered(L) /\ Numbered(M) /\ Len(L) = Len(M) /\ \A i \in 1 .. Len(L) : L[i].clone = M[i].clone
  BY OrderedNumbered
<1> HIDE DEF L, M
<1>2. {i \in 1 .. Len(L) : L[i].clone < 0} = {i \in 1 .. Len(M) : M[i].clone < 0}
  BY <1>1
<1>3. Cardinality(Plain(L)) = Cardinality(Plain(M))
  BY <1>1, <1>2, PlainCount
<1>4. Distinct(Plain(L)) /\ Distinct(Plain(M))
  BY <1>1, PartsFacts
<1>5. LedString(L) = ByIndex(Plain(L)) /\ LedString(M) = ByIndex(Plain(M))
  BY DEF LedString, Plain
<1>6. Len(LedString(L)) = Len(LedString(M))
  BY <1>3, <1>4, <1>5, ByIndexFacts
<1> QED
  BY <1>6 DEF L, M

LEMMA HwCount ==
  ASSUME NEW dev \in Devices, NEW string, Len(string) \in Nat
  PROVE  HwLedCount(dev, string) \in Nat /\ HwLedCount(dev, string) >= Len(string)
<1>1. dev.hardware \in Nat
  BY LayoutsAssumption
<1> QED
  BY <1>1, MaxOfTwo DEF HwLedCount

LEMMA FrameInitInv == ImageInit => FrameInv
<1> SUFFICES ASSUME ImageInit PROVE FrameInv
  OBVIOUS
<1>1. leds \in Layouts /\ device \in Devices
  BY DEF ImageInit
<1> DEFINE L == Ordered(leds, device)
           string == LedString(L)
           colors == ClientColors(string, Len(string), BLACK)
<1>2. /\ ledString = string /\ ledStringClone = LedStringClone(L)
      /\ hwLedCount = HwLedCount(device, string)
      /\ ledBuffer = Finished(colors, Len(string), LedStringClone(L), ledStringColorOrder, hwLedCount)
      /\ shown = [comp |-> "COLOR", image |-> NoImage, pic |-> BLACK, len |-> Len(string)]
  BY DEF ImageInit
<1>3. Numbered(L) /\ DOMAIN leds = 1 .. Len(L)
      /\ \A i \in 1 .. Len(L) : leds[i].index = L[i].index /\ leds[i].clone = L[i].clone
  BY <1>1, OrderedLeds DEF SameLeds
<1> HIDE DEF L
<1>4. Len(string) \in Nat /\ DOMAIN string = 1 .. Len(string)
  BY <1>3, StringFacts
<1>5. IsBuffer(colors) /\ Len(colors) = Len(string) /\ OwnColors(colors, string, BLACK)
  BY <1>4, ColorsFacts
<1>6. hwLedCount \in Nat /\ hwLedCount >= Len(string)
  BY <1>1, <1>2, <1>4, HwCount
<1> HIDE DEF colors
<1>7. IsFinished(ledBuffer, L, colors, ledStringColorOrder, hwLedCount)
  <2>1. IsBuffer(colors) /\ Len(colors) >= Len(LedString(L))
    BY <1>4, <1>5
  <2> QED
    BY <1>2, <1>3, <1>6, <2>1, FinishedFacts
<1>8. \A i \in 1 .. Len(L) : Shown(ledBuffer, leds[i], BLACK, ledStringColorOrder)
  BY <1>3, <1>5, <1>7, LedShown
<1>9. \A i \in 1 .. Len(L) : HasColor(leds[i])
  <2>1. ASSUME NEW i \in 1 .. Len(L) PROVE leds[i].index < Len(string) + Len(LedStringClone(L))
    <3>1. leds[i].index \in 0 .. Len(L) - 1 /\ Len(L) \in Nat
      BY <1>3 DEF Numbered
    <3>2. Len(string) + Len(LedStringClone(L)) = Len(L)
      BY <1>3, PartLengths
    <3> HIDE DEF string
    <3> QED
      BY <1>4, <3>1, <3>2
  <2>2. shown.len = Len(string) /\ ledStringClone = LedStringClone(L)
    BY <1>2
  <2> QED
    BY <2>1, <2>2 DEF HasColor
<1>10. FrameRight
  BY <1>2, <1>3, <1>8, <1>9 DEF FrameRight, Shown
<1>11. IsSource(shown)
  BY <1>2, <1>4 DEF IsSource
<1> QED
  BY <1>1, <1>2, <1>6, <1>7, <1>10, <1>11 DEF FrameInv, IsFinished, L

LEMMA FrameNextInv == FrameInv /\ MapCurrent /\ [ImageNext]_imageVars => FrameInv'
<1> SUFFICES ASSUME FrameInv, MapCurrent, [ImageNext]_imageVars PROVE FrameInv'
  OBVIOUS
<1>0. \A dev : SameLeds(leds, Ordered(leds, dev))
  BY OrderedLeds DEF FrameInv
<1>1. ASSUME UNCHANGED layoutVars, NEW source, IsSource(source),
             NEW t, NEW bl, ~crashed, Update(source, ledBuffer, map, bb, t, bl)
      PROVE  FrameInv'
  <2> DEFINE L == Ordered(leds, device)
  <2>1. /\ Numbered(L) /\ DOMAIN leds' = 1 .. Len(L)
        /\ \A i \in 1 .. Len(L) : leds'[i].index = L[i].index /\ leds'[i].clone = L[i].clone
    BY <1>0, <1>1 DEF layoutVars, SameLeds
  <2>2. /\ ledString' = LedString(L) /\ ledStringClone' = LedStringClone(L)
        /\ hwLedCount' \in Nat /\ hwLedCount' >= Len(LedString(L)) /\ IsBuffer(ledBuffer)
        /\ leds' \in Layouts /\ device' \in Devices /\ leds' = leds /\ device' = device
    BY <1>1 DEF FrameInv, layoutVars
  <2>3. map = NoMap \/ map.leds = LedString(L)
    BY DEF MapCurrent, FrameInv
  <2> HIDE DEF L
  <2>4. shown' = source /\ (~crashed' => IsBuffer(ledBuffer')) /\ FrameRight'
    BY <1>1, <2>1, <2>2, <2>3, UpdateFrame DEF IsSource
  <2> QED
    BY <1>1, <2>2, <2>4 DEF FrameInv, IsBuffer, IsSource, L
<1>2. ASSUME NEW source \in Sources, Show(source) PROVE FrameInv'
  <2>1. IsSource(source)
    BY SourcesAre
  <2> QED
    BY <1>1, <1>2, <2>1 DEF Show
<1>3. ASSUME NEW layout \in Layouts, ChangeLeds(layout) PROVE FrameInv'
  <2> DEFINE L == Ordered(layout, device)
             string == LedString(L)
             blank == [i \in DOMAIN string |-> Entry({}, BLACK, 0)]
  <2>1. /\ leds' = layout /\ ledString' = string /\ ledStringClone' = LedStringClone(L)
        /\ hwLedCount' = HwLedCount(device, string) /\ device' = device /\ device \in Devices
    BY <1>3 DEF ChangeLeds, FrameInv
  <2>2. /\ Numbered(L) /\ DOMAIN layout = 1 .. Len(L)
        /\ \A i \in 1 .. Len(L) : layout[i].index = L[i].index /\ layout[i].clone = L[i].clone
    BY OrderedLeds DEF SameLeds
  <2> HIDE DEF L
  <2>3. Len(string) \in Nat /\ DOMAIN string = 1 .. Len(string)
    BY <2>2, StringFacts
  <2>4. hwLedCount' \in Nat /\ hwLedCount' >= Len(string)
    BY <2>1, <2>3, HwCount
  <2>5. IsSource(shown)
    BY DEF FrameInv
  <2>6. CASE map = NoMap
    <3>1. crashed' /\ shown' = shown
      BY <1>3, <2>6 DEF ChangeLeds
    <3> QED
      BY <2>1, <2>4, <2>5, <3>1 DEF FrameInv, FrameRight, IsSource, L
  <2>7. CASE map # NoMap
    <3> DEFINE m == NewMap(map.size, 0, string)
               source == WithLength(shown, Len(string))
    <3>0. IsSource(source)
      BY <2>3, <2>5, LengthFacts
    <3>1. Update(source, blank, m, bb, mapping, TRUE)
      BY <1>3, <2>1, <2>7 DEF ChangeLeds
    <3>2. m.leds = string
      BY DEF NewMap
    <3>3. IsBuffer(blank)
      <4>1. blank = [i \in 1 .. Len(string) |-> blank[i]]
        BY <2>3
      <4> HIDE DEF blank, string
      <4>2. Len(blank) = Len(string)
        BY <2>3, <4>1
      <4> QED
        BY <2>3, <4>1, <4>2 DEF IsBuffer
    <3> HIDE DEF m, blank, source
    <3>4. shown' = source /\ (~crashed' => IsBuffer(ledBuffer')) /\ FrameRight'
      BY <2>1, <2>2, <2>4, <3>0, <3>1, <3>2, <3>3, UpdateFrame DEF IsSource
    <3> QED
      BY <2>1, <2>4, <3>0, <3>4 DEF FrameInv, IsBuffer, IsSource, L
  <2> QED
    BY <2>6, <2>7
<1>4. ASSUME NEW dev \in Devices, ChangeDevice(dev) PROVE FrameInv'
  <2> DEFINE L == Ordered(leds, dev)
             reordered == dev.order # device.order
             m == IF reordered THEN NewMap(map.size, 0, ledString') ELSE map
  <2>0. ~reordered => L = Ordered(leds, device)
    BY DEF Ordered
  <2>1. /\ leds' = leds /\ leds \in Layouts /\ device' = dev /\ hwLedCount' = HwLedCount(dev, ledString)
        /\ ledString' = LedString(L) /\ ledStringClone' = LedStringClone(L)
    BY <1>4, <2>0 DEF ChangeDevice, FrameInv
  <2>2. /\ Numbered(L) /\ DOMAIN leds = 1 .. Len(L)
        /\ \A i \in 1 .. Len(L) : leds[i].index = L[i].index /\ leds[i].clone = L[i].clone
    BY <1>0 DEF SameLeds
  <2>3. Len(ledString) = Len(LedString(L)) /\ Len(LedString(L)) \in Nat
    BY <2>1, <2>2, SameStrings, StringFacts DEF FrameInv
  <2>4. hwLedCount' \in Nat /\ hwLedCount' >= Len(LedString(L))
    BY <2>1, <2>3, HwCount
  <2>5. IsSource(shown)
    BY DEF FrameInv
  <2>6. CASE reordered /\ map = NoMap
    <3>1. crashed' /\ shown' = shown
      BY <1>4, <2>6 DEF ChangeDevice
    <3> QED
      BY <2>1, <2>4, <2>5, <3>1 DEF FrameInv, FrameRight, IsSource
  <2>7. CASE ~(reordered /\ map = NoMap)
    <3>1. Update(shown, ledBuffer, m, bb, mapping, backlight)
      BY <1>4, <2>7 DEF ChangeDevice
    <3>2. m = NoMap \/ m.leds = LedString(L)
      BY <2>0, <2>1 DEF NewMap, MapCurrent, FrameInv
    <3>3. IsBuffer(ledBuffer)
      BY <1>4 DEF ChangeDevice, FrameInv
    <3> HIDE DEF m, L
    <3>4. shown' = shown /\ (~crashed' => IsBuffer(ledBuffer')) /\ FrameRight'
      BY <2>1, <2>2, <2>4, <2>5, <3>1, <3>2, <3>3, UpdateFrame DEF IsSource
    <3> QED
      BY <2>1, <2>4, <2>5, <3>4 DEF FrameInv, IsBuffer, IsSource, L
  <2> QED
    BY <2>6, <2>7
<1>5. ASSUME NEW type, ChangeColor(type) PROVE FrameInv'
  <2> DEFINE t == IF mapping.user # type THEN SetLedMappingType(mapping, type) ELSE mapping
  <2>1. ~crashed /\ UNCHANGED layoutVars /\ Update(shown, ledBuffer, map, bb, t, TRUE)
    BY <1>5 DEF ChangeColor
  <2>2. IsSource(shown)
    BY DEF FrameInv
  <2> HIDE DEF t
  <2> QED
    BY <1>1, <2>1, <2>2
<1>6. ASSUME UNCHANGED <<layoutVars, ledBuffer, shown, crashed>> PROVE FrameInv'
  BY <1>6 DEF FrameInv, FrameRight, HasColor, IsBuffer, IsSource, layoutVars
<1>7. ASSUME NEW type, RequestMapping(type) PROVE FrameInv'
  BY <1>6, <1>7 DEF RequestMapping
<1>8. ASSUME NEW enable, EnableBlackBorder(enable) PROVE FrameInv'
  BY <1>6, <1>8 DEF EnableBlackBorder
<1>9. CASE UNCHANGED imageVars
  BY <1>6, <1>9 DEF imageVars
<1> QED
  BY <1>2, <1>3, <1>4, <1>5, <1>7, <1>8, <1>9 DEF ImageNext

-----------------------------------------------------------------------------
FramePartInv == ImageInv /\ FrameInv

LEMMA FramePartNext == FramePartInv /\ [Next]_vars => FramePartInv'
<1> SUFFICES ASSUME FramePartInv, [Next]_vars PROVE FramePartInv'
  OBVIOUS
<1>1. [ImageNext]_imageVars
  BY DEF Next, vars
<1>2. ImageInv' /\ MapCurrent
  BY <1>1, ImageNextInv DEF FramePartInv, ImageInv
<1>3. FrameInv'
  BY <1>1, <1>2, FrameNextInv DEF FramePartInv
<1> QED
  BY <1>2, <1>3 DEF FramePartInv

(* However layout, device, mapping and sources change, and whatever length *)
(* the vectors of colors keep that clients and effects send: as long as no *)
(* update() threw, every led of the layout that there is a color for has   *)
(* it in the last frame, of its part of the source, adjusted once, a clone *)
(* that of the led it repeats, each at its own place and in its own order  *)
(* of colors, and a led behind the last color is black.  Pictures on a     *)
(* buffer that has grown are left out, see PicturesMove                    *)
(* (createLedString(), createLedStringClone(), Hyperion::update(),         *)
(* Hyperion::handleSettingsUpdate(), PriorityMuxer::                       *)
(* updateLedColorsLength()).                                               *)
THEOREM FramesAreRight == Spec => []FrameRight
<1>1. Init => FramePartInv
  BY ImageInitInv, FrameInitInv DEF Init, FramePartInv
<1>2. FramePartInv => FrameRight
  BY DEF FramePartInv, FrameInv
<1> QED
  BY <1>1, <1>2, FramePartNext, PTL DEF Spec
=============================================================================
