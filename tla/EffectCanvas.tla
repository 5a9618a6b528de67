---------------------------- MODULE EffectCanvas -----------------------------
(***************************************************************************)
(* The picture an effect's script draws (EffectModule's image functions):  *)
(* QImages with the strokes on them, the one QPainter with its brush and   *)
(* coordinate system, the saved images, and what imageShow() sent.  A call *)
(* with wrong arguments raises a python error and changes nothing.         *)
(***************************************************************************)
EXTENDS Integers, Sequences, FiniteSetsExt

CONSTANTS GridSizes,      \* <<width, height>> of the led layout
          MinSizes,       \* those a script asks for
          MaxStrokes, MaxImages

(* schema-leds.json: there is a led, taken to be no clone; a script may ask *)
(* for any integers                                                         *)
ASSUME SizesAssumption ==
  /\ GridSizes \subseteq (Nat \ {0}) \X (Nat \ {0})
  /\ MinSizes \subseteq Int \X Int

VARIABLES images,         \* QImage data: number -> [size, strokes]
          image,          \* _image, the number of its data
          painter,        \* [on, brush, moved]
          imageStack,     \* _imageStack: numbers
          shownStrokes,   \* strokes of the last imageShow(), <<>> at first
          asked,          \* what the script has drawn, in its own eyes
          savedAsked,     \* the same of each saved image
          shownAsked,     \* and of the one it has shown
          minimum,        \* the largest sides it has asked for
          broken          \* memory was overwritten

canvasVars == <<images, image, painter, imageStack, shownStrokes, asked, savedAsked, shownAsked, minimum, broken>>

NewPainter(on) == [on |-> on, brush |-> FALSE, moved |-> FALSE]

(* Effect::Effect() *)
CanvasInit ==
  \E size \in GridSizes :
    /\ images = <<[size |-> size, strokes |-> <<>>]>>
    /\ image = 1 /\ painter = NewPainter(1)
    /\ imageStack = <<>>
    /\ shownStrokes = <<>>
    /\ asked = [strokes |-> <<>>, moved |-> FALSE, lost |-> FALSE] /\ savedAsked = <<>> /\ shownAsked = <<>>
    /\ minimum = size
    /\ broken = FALSE

Stroke(shape, moved) == [shape |-> shape, moved |-> moved]

(* what the painter leaves on its image, and what the script means by it:  *)
(* its coordinates, unless the painter has lost them                       *)
Drawn(shape, brush) ==
  /\ ~broken /\ Len(asked.strokes) < MaxStrokes
  /\ images' = [images EXCEPT ![painter.on].strokes = Append(@, Stroke(shape, painter.moved))]
  /\ painter' = [painter EXCEPT !.brush = brush]
  /\ asked' = [asked EXCEPT !.strokes =
                 Append(@, Stroke(shape, IF asked.lost THEN painter.moved ELSE asked.moved))]
  /\ UNCHANGED <<image, imageStack, shownStrokes, savedAsked, shownAsked, minimum, broken>>

(* fillRect() with a color or a gradient, in the painter's coordinates *)
ImageSolidFill == Drawn("fill", painter.brush)
ImageLinearGradient == Drawn("fill", painter.brush)
ImageConicalGradient == Drawn("fill", painter.brush)
ImageRadialGradient == Drawn("fill", painter.brush)

(* the pen is set for the stroke and restored, the brush stays *)
ImageDrawLine == Drawn("line", painter.brush)
ImageDrawPoint == Drawn("line", painter.brush)
ImageDrawPolygon == Drawn("area", TRUE)
ImageDrawPie == Drawn("area", TRUE)

(* a rectangle is filled with the brush a polygon or a pie has left *)
ImageDrawRect == Drawn(IF painter.brush THEN "filled rect" ELSE "rect", painter.brush)

(* with a gradient "s" parses into a QString: undefined; when it goes well *)
(* a brush is set and nothing is drawn                                     *)
ImageDrawPieGradient ==
  /\ ~broken
  /\ \/ broken' = TRUE /\ UNCHANGED painter
     \/ broken' = FALSE /\ painter' = [painter EXCEPT !.brush = TRUE]
  /\ UNCHANGED <<images, image, imageStack, shownStrokes, asked, savedAsked, shownAsked, minimum>>

(* setPixel() knows no coordinate system *)
ImageSetPixel ==
  /\ ~broken /\ Len(asked.strokes) < MaxStrokes
  /\ images' = [images EXCEPT ![image].strokes = Append(@, Stroke("pixel", FALSE))]
  /\ asked' = [asked EXCEPT !.strokes = Append(@, Stroke("pixel", FALSE))]
  /\ UNCHANGED <<image, painter, imageStack, shownStrokes, savedAsked, shownAsked, minimum, broken>>

(* mutant: the saved image shares its data with the one painted on *)
Copied_Shared(data) == [images |-> images, number |-> image]

(* copy(): data of its own *)
Copied(data) == [images |-> Append(images, data), number |-> Len(images) + 1]

ImageSave ==
  /\ ~broken /\ Len(images) < MaxImages
  /\ images' = Copied(images[image]).images
  /\ imageStack' = Append(imageStack, Copied(images[image]).number)
  /\ savedAsked' = Append(savedAsked, asked.strokes)
  /\ UNCHANGED <<image, painter, shownStrokes, asked, shownAsked, minimum, broken>>

(* QSize::scaled(KeepAspectRatioByExpanding) *)
Expanded(size, to) ==
  LET width == (to[2] * size[1]) \div size[2]
  IN IF width >= to[1] THEN <<width, to[2]>> ELSE <<to[1], (to[1] * size[2]) \div size[1]>>

(* the painter of the larger image starts without brush and coordinates *)
ImageMinSize(w, h) ==
  LET size == images[image].size
      larger == Expanded(size, <<Max({size[1], w}), Max({size[2], h})>>)
  IN /\ ~broken
     /\ minimum' = <<Max({minimum[1], w}), Max({minimum[2], h})>>
     /\ IF size[1] < w \/ size[2] < h
        THEN /\ Len(images) < MaxImages
             /\ images' = Append(images, [images[image] EXCEPT !.size = larger])
             /\ image' = Len(images')
             /\ painter' = NewPainter(image')
             /\ asked' = [asked EXCEPT !.lost = TRUE]
        ELSE UNCHANGED <<images, image, painter, asked>>
     /\ UNCHANGED <<imageStack, shownStrokes, savedAsked, shownAsked, broken>>

(* imageCRotate(), imageCOffset(), imageCShear() *)
ImageTransform ==
  /\ ~broken
  /\ painter' = [painter EXCEPT !.moved = TRUE]
  /\ asked' = [asked EXCEPT !.moved = TRUE]
  /\ UNCHANGED <<images, image, imageStack, shownStrokes, savedAsked, shownAsked, minimum, broken>>

ImageResetT ==
  /\ ~broken
  /\ painter' = [painter EXCEPT !.moved = FALSE]
  /\ asked' = [asked EXCEPT !.moved = FALSE, !.lost = FALSE]
  /\ UNCHANGED <<images, image, imageStack, shownStrokes, savedAsked, shownAsked, minimum, broken>>

(* imageShow(): the current image, or a saved one *)
ImageShow(imgId) ==
  /\ ~broken /\ imgId =< Len(imageStack)
  /\ shownStrokes' = images[IF imgId = 0 THEN image ELSE imageStack[imgId]].strokes
  /\ shownAsked' = (IF imgId = 0 THEN asked.strokes ELSE savedAsked[imgId])
  /\ UNCHANGED <<images, image, painter, imageStack, asked, savedAsked, minimum, broken>>

CanvasNext ==
  \/ ImageSolidFill \/ ImageLinearGradient \/ ImageConicalGradient \/ ImageRadialGradient
  \/ ImageDrawLine \/ ImageDrawPoint \/ ImageDrawPolygon \/ ImageDrawPie \/ ImageDrawPieGradient \/ ImageDrawRect
  \/ ImageSetPixel \/ ImageSave \/ ImageTransform \/ ImageResetT
  \/ \E size \in MinSizes : ImageMinSize(size[1], size[2])
  \/ \E imgId \in 0 .. MaxImages : ImageShow(imgId)
-----------------------------------------------------------------------------
(* What is shown is what the script has drawn on that image: no stroke is  *)
(* lost when the canvas grows, later strokes stay off the saved images     *)
(* (imageSave(), imageMinSize(), imageShow()), and coordinates are the     *)
(* script's, except between an imageMinSize() that forgets them and the    *)
(* next imageResetT().                                                     *)
ShownAsDrawn ==
  /\ shownStrokes = shownAsked
  /\ images[image].strokes = asked.strokes
  /\ \A i \in DOMAIN imageStack : images[imageStack[i]].strokes = savedAsked[i]

(* The canvas has at least the width and the height of every minimum that  *)
(* was asked for, whatever the ratio of its sides (imageMinSize()).        *)
MinimumMet == images[image].size[1] >= minimum[1] /\ images[image].size[2] >= minimum[2]
=============================================================================
