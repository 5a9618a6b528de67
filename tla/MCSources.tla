------------------------------ MODULE MCSources ------------------------------
(***************************************************************************)
(* From the picture to the frame: the grabbers, the canvas of an effect,   *)
(* what is computed from one picture, and the way of pictures to the       *)
(* device.  The parts share no state: a behaviour runs one of them.        *)
(***************************************************************************)
EXTENDS ImagePath, PictureGeometry, V4l2Capture, ScreenCapture, EffectCanvas

CONSTANTS s1, s2, red, pic1, pic2

VARIABLE part

vars == <<part, imageVars, case, v4lVars, screenVars, canvasVars>>

Led(i, c, o) == [index |-> i, clone |-> c, order |-> o, x |-> <<0, 1>>, y |-> <<0, 1>>]
MCPlain == <<Led(0, -1, ""), Led(1, -1, "brg")>>
MCClones == <<Led(4, -1, ""), Led(3, 2, "grb"), Led(0, -1, ""), Led(1, 0, ""), Led(2, -1, "gbr")>>
MCLayouts == {MCPlain, MCClones}
MCPlainLayout == {MCPlain}
MCDeviceSet == {[order |-> "rgb", hardware |-> 0], [order |-> "bgr", hardware |-> 3]}
MCImages == {[size |-> s1, border |-> 0, pic |-> pic1], [size |-> s1, border |-> 1, pic |-> pic2],
             [size |-> s1, border |-> UNKNOWN, pic |-> pic1], [size |-> s2, border |-> 1, pic |-> pic1]}

MCConfigs ==
  {c \in [type : {"x11", "amlogic", "framebuffer", "dispmanx"}, width : {4, 8}, crop : {3, 5}, decimation : {1, 2}] :
     /\ IF c.type = "x11" THEN c.width = 8 ELSE c.decimation = 1
     /\ c.crop = 5 => c.type \in {"amlogic", "dispmanx"}}

MCGrids == {<<3, 2>>}
MCMins == {<<4, 4>>, <<2, 9>>}

Init ==
  /\ part \in {"image", "geometry", "v4l", "screen", "canvas"}
  /\ ImageInit /\ GeometryInit /\ V4lInit /\ ScreenInit /\ CanvasInit
  /\ part = "image"  \/ (leds = MCPlain /\ device.hardware = 0)
  /\ part = "v4l"    \/ present = {}
  /\ part = "screen" \/ (config.type = "dispmanx" /\ config.crop = 3 /\ config.width = 4 /\ screen = Min(Screens))

Next ==
  \/ part = "image"    /\ ImageNext    /\ UNCHANGED <<part, case, v4lVars, screenVars, canvasVars>>
  \/ part = "geometry" /\ GeometryNext /\ UNCHANGED <<part, imageVars, v4lVars, screenVars, canvasVars>>
  \/ part = "v4l"      /\ V4lNext      /\ UNCHANGED <<part, imageVars, case, screenVars, canvasVars>>
  \/ part = "screen"   /\ ScreenNext   /\ UNCHANGED <<part, imageVars, case, v4lVars, canvasVars>>
  \/ part = "canvas"   /\ CanvasNext   /\ UNCHANGED <<part, imageVars, case, v4lVars, screenVars>>

Spec == Init /\ [][Next]_vars /\ (part = "v4l" => V4lFairness)

-----------------------------------------------------------------------------
(* Each led takes its colour from the pixels that are its own: the map is   *)
(* that of the layout and of the border of the moment, a border is found    *)
(* as it is and stays until another was steady, samples lie in what was     *)
(* kept of the picture, the leds leave nothing out, and what is made of a   *)
(* color is a color (ImageProcessor, BlackBorderDetector and -Processor,    *)
(* ImageResampler, ImageToLedsMap, RgbTransform, RgbChannelAdjustment).     *)
PixelsRight == [](MapCurrent /\ BordersFound /\ SamplesInside /\ LedsMeet /\ ColorsFit) /\ NoFlicker

(* Grabbers keep one handle to a device and give back what they held, and   *)
(* the crop of dispmanx and amvideocap leaves something of their picture    *)
(* (V4L2Grabber, the screen grabbers).                                      *)
GrabbersSound == OneHandle /\ BuffersReturn /\ CropFits /\ HeldOnce /\ DevicesClosed

(* An effect sees its drawing as it was when it saved it, on a canvas as    *)
(* large as it asked (EffectModule).                                        *)
CanvasRight == ShownAsDrawn /\ MinimumMet
=============================================================================
