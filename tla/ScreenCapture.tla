---------------------------- MODULE ScreenCapture ----------------------------
(***************************************************************************)
(* The system capture: HyperionDaemon creates a grabber of the configured  *)
(* type and hands it the settings and the 3D mode, GrabberWrapper has it   *)
(* grab on every tick.  Widths stand for both sides of a picture, a crop   *)
(* for both of its cuts.  Dispmanx and amvideocap deliver a picture of the *)
(* width they are asked for; Framebuffer crops the screen as it is, ge2d   *)
(* of Amlogic the video.  X11 and Amlogic hold resources between ticks.    *)
(***************************************************************************)
EXTENDS Integers, FiniteSets

CONSTANTS Configs,     \* SYSTEMCAPTURE settings: [type, width, crop, decimation]
          Modes,       \* 3D modes
          Screens,     \* widths of the screen
          MinWidth,    \* least width AmlogicGrabber starts with
          NONE

(* schema-framegrabber.json: a width is 10 at least, a crop not negative *)
ASSUME ConfigsAssumption == \A c \in Configs : c.width \in Nat \ {0} /\ c.crop \in Nat

ASSUME ScreensAssumption == Screens \subseteq Nat \ {0} /\ MinWidth \in Nat

VARIABLES config, videoMode,
          grabbers,    \* of each type: NONE or [mode, width, crop, running]
          decimation,  \* of the X11 grabber
          display,     \* its display is open
          screen,      \* the width the screen has
          screenWidth, \* and the one the resources were made for, 0 when none
          shared,      \* shared memory segments and pixmaps in use
          ge2dAvailable, devices,   \* Amlogic: devices that are open,
          ionBuffer,   \* the width its buffer was made for, 0 when none
          fbWidth,     \* and the width of the framebuffer grabber it has
          grabberCrashed

xVars == <<decimation, display, screenWidth, shared>>
amlVars == <<ge2dAvailable, devices, ionBuffer, fbWidth>>
screenVars == <<config, videoMode, grabbers, xVars, screen, amlVars, grabberCrashed>>

Types == {"x11", "amlogic", "framebuffer", "dispmanx", "osx"}
Created(t) == grabbers[t] # NONE

-----------------------------------------------------------------------------

(* Grabber *)
SetWidthHeight(g, width) == [g EXCEPT !.width = IF width > 0 /\ g.crop < width THEN width ELSE @]
SetCropping(g, crop) == [g EXCEPT !.crop = IF g.width > 0 /\ crop >= g.width THEN @ ELSE crop]
SetVideoMode(g, mode) == [g EXCEPT !.mode = mode]

(* X11Grabber::updateScreenDimensions(): the width in 2D and 3D, XRender   *)
(* being there to scale                                                    *)
XWidth(g, by) ==
  LET width == (IF screen > g.crop THEN screen - g.crop ELSE screen) \div by
  IN [g EXCEPT !.width = IF g.mode = "3DSBS" THEN width \div 2 ELSE width]

(* freeResources() when there were some, and setupResources() *)
Resources == (IF screenWidth # 0 THEN shared - 1 ELSE shared) + 1

UpdateScreen(force) ==
  IF force \/ screenWidth # screen
  THEN screenWidth' = screen /\ shared' = Resources
  ELSE UNCHANGED <<screenWidth, shared>>

NewGrabber(c) ==
  LET least == IF c.type = "amlogic" /\ c.width < MinWidth THEN MinWidth ELSE c.width
      g == [mode |-> "2D", width |-> IF c.type = "x11" THEN 0 ELSE least, crop |-> 0, running |-> TRUE]
  IN SetCropping(g, c.crop)

(* AmlogicGrabber makes its framebuffer grabber when it is made            *)
OwnWidth(c) == IF c.type = "amlogic" THEN c.width ELSE 0

ScreenInit ==
  \E c \in Configs :
    /\ config = c /\ videoMode = "2D"
    /\ grabbers = [t \in Types |-> IF t = c.type THEN NewGrabber(c) ELSE NONE]
    /\ decimation = c.decimation /\ display = FALSE
    /\ screen \in Screens /\ screenWidth = 0 /\ shared = 0
    /\ ge2dAvailable = TRUE /\ devices = {} /\ ionBuffer = 0 /\ fbWidth = OwnWidth(c)
    /\ grabberCrashed = FALSE

(* setVideoMode() of the daemon and of every grabber there is.  Without a  *)
(* display updateScreenDimensions() does not return                        *)
ChangeVideoMode(mode) ==
  LET x == SetVideoMode(grabbers["x11"], mode)
  IN /\ ~grabberCrashed /\ mode # videoMode /\ videoMode' = mode
     /\ grabberCrashed' = (Created("x11") /\ ~display)
     /\ grabbers' = [t \in Types |-> IF ~Created(t) THEN NONE
                                     ELSE IF t = "x11" /\ display THEN XWidth(x, decimation)
                                     ELSE SetVideoMode(grabbers[t], mode)]
     /\ IF display THEN UpdateScreen(TRUE) ELSE UNCHANGED <<screenWidth, shared>>
     /\ UNCHANGED <<config, decimation, display, screen, amlVars>>

(* GrabberWrapper::handleSettingsUpdate() *)
Configured(g, c, t) ==
  LET sized == SetWidthHeight(g, c.width)
      scaled == IF t = "x11" /\ display /\ c.decimation # decimation THEN XWidth(sized, c.decimation) ELSE sized
      cropped == SetCropping(scaled, c.crop)
  IN IF t = "x11" /\ display THEN XWidth(cropped, c.decimation) ELSE cropped

(* settings: a grabber of another type is created beside those there are   *)
ChangeConfig(c) ==
  /\ ~grabberCrashed /\ c # config /\ config' = c
  /\ grabberCrashed' = (Created("x11") /\ ~display /\ c.decimation # decimation)
  /\ grabbers' = [t \in Types |-> IF Created(t) THEN Configured(grabbers[t], c, t)
                                  ELSE IF t = c.type THEN NewGrabber(c) ELSE NONE]
  /\ decimation' = IF Created("x11") \/ c.type = "x11" THEN c.decimation ELSE decimation
  /\ IF display THEN UpdateScreen(TRUE) ELSE UNCHANGED <<screenWidth, shared>>
  /\ fbWidth' = IF Created("amlogic") THEN fbWidth ELSE OwnWidth(c)
  /\ UNCHANGED <<videoMode, display, screen, ge2dAvailable, devices, ionBuffer>>

(* X11Wrapper::action(): the first tick opens the display, and goes on     *)
(* when that fails                                                         *)
TickX11 ==
  /\ ~grabberCrashed /\ Created("x11") /\ grabbers["x11"].running
  /\ display' \in IF display THEN {TRUE} ELSE BOOLEAN
  /\ IF display'
     THEN /\ UpdateScreen(~display)
          /\ grabbers' = [grabbers EXCEPT !["x11"] = IF screenWidth = screen /\ display THEN @ ELSE XWidth(@, decimation)]
          /\ UNCHANGED grabberCrashed
     ELSE /\ grabberCrashed' = TRUE
          /\ grabbers' = [grabbers EXCEPT !["x11"].running = FALSE]
          /\ UNCHANGED <<screenWidth, shared>>
  /\ UNCHANGED <<config, videoMode, decimation, screen, amlVars>>

-----------------------------------------------------------------------------
(* ImageResampler::processImage(): in 3D the half to the right is cut, and *)
(* the crop to the left with it.  What a crop that leaves nothing makes of *)
(* the size of the image is undefined                                      *)
Leaves(picture, g) ==
  g.crop < IF g.mode = "3DSBS" THEN picture - picture \div 2 ELSE picture

(* FramebufferFrameGrabber::grabFrame(): nobody asks whether the device    *)
(* was opened: what is read of its size and mapped from it is undefined.   *)
(* A screen narrower than the width asked for is decimated by 0            *)
GrabFramebuffer(found, g) ==
  grabberCrashed' \in IF found /\ g.width =< screen /\ Leaves(screen, g) THEN {FALSE} ELSE BOOLEAN

TickFramebuffer(found) ==
  /\ ~grabberCrashed /\ Created("framebuffer")
  /\ GrabFramebuffer(found, grabbers["framebuffer"])
  /\ UNCHANGED <<config, videoMode, grabbers, xVars, screen, amlVars>>

(* what a tick of AmlogicGrabber meets: no video, a frame by ge2d or by    *)
(* amvideocap, or the step that fails                                      *)
Outcomes == {"paused", "video ioctl", "no ge2d", "ge2d open", "ge2d ioctl", "ge2d", "capture open",
             "capture ioctl", "capture read", "capture"}

(* devices a tick opens, and those it closes on its way *)
Opened(o) ==
  CASE o \in {"paused", "video ioctl", "no ge2d", "ge2d open"} -> {"video"}
    [] o \in {"ge2d ioctl", "ge2d"}            -> {"video", "ge2d"}
    [] o = "capture open"                      -> {"video"}
    [] OTHER                                   -> {"video", "capture"}

ClosedAfter(o) ==
  {"video"} \cup (IF o \in {"no ge2d", "ge2d open", "ge2d ioctl", "ge2d"} THEN {"ge2d"} ELSE {})
            \cup (IF o \in {"capture ioctl", "capture read", "capture"} THEN {"capture"} ELSE {})

(* ge2d is given up for good when it fails once.  Its buffer is made once, *)
(* for the width of that time.  Without a video the screen is grabbed, by  *)
(* a grabber that no settings and no mode ever reach                       *)
TickAmlogic(o, found) ==
  LET g == grabbers["amlogic"]
      buffer == IF ionBuffer = 0 THEN g.width ELSE ionBuffer
  IN /\ ~grabberCrashed /\ Created("amlogic")
     /\ o \in {"no ge2d", "ge2d open", "ge2d ioctl", "ge2d"} => ge2dAvailable
     /\ o \in {"capture open", "capture ioctl", "capture read", "capture"} => ~ge2dAvailable
     /\ devices' = (devices \cup Opened(o)) \ ClosedAfter(o)
     /\ ge2dAvailable' = (ge2dAvailable /\ o \notin {"no ge2d", "ge2d open", "ge2d ioctl"})
     /\ ionBuffer' = IF o \in {"ge2d ioctl", "ge2d"} THEN buffer ELSE ionBuffer
     /\ CASE o \in {"paused", "video ioctl"} ->
               GrabFramebuffer(found, [mode |-> "2D", width |-> fbWidth, crop |-> 0])
          [] o = "ge2d" -> grabberCrashed' \in IF g.width =< buffer /\ Leaves(g.width, g) THEN {FALSE} ELSE BOOLEAN
          [] o = "capture" -> grabberCrashed' \in IF Leaves(g.width, g) THEN {FALSE} ELSE BOOLEAN
          [] OTHER -> UNCHANGED grabberCrashed
     /\ UNCHANGED <<config, videoMode, grabbers, xVars, screen, fbWidth>>

(* the resolution of the screen changes *)
ChangeScreen(s) ==
  /\ ~grabberCrashed /\ s # screen /\ screen' = s
  /\ UNCHANGED <<config, videoMode, grabbers, xVars, amlVars, grabberCrashed>>

ScreenNext ==
  \/ \E mode \in Modes : ChangeVideoMode(mode)
  \/ \E c \in Configs : ChangeConfig(c)
  \/ \E o \in Outcomes, found \in BOOLEAN : TickAmlogic(o, found)
  \/ \E found \in BOOLEAN : TickFramebuffer(found)
  \/ \E s \in Screens : ChangeScreen(s)
  \/ TickX11
-----------------------------------------------------------------------------
(* Whatever sizes and crops the settings give in turn, and whichever of    *)
(* them are refused: of the pictures that dispmanx and amvideocap deliver, *)
(* which are as wide as they are asked to be, the crop leaves something    *)
(* (setWidthHeight(), setCropping(); a 3D mode halves what is left).       *)
CropFits == \A t \in {"dispmanx", "amlogic"} : Created(t) => grabbers[t].crop < grabbers[t].width

(* The shared memory, image and pixmap of X11 are held once, whatever      *)
(* changes of screen, mode, size or crop come (updateScreenDimensions()).  *)
HeldOnce == shared = IF screenWidth = 0 THEN 0 ELSE 1

(* Between two ticks the Amlogic devices are closed, whichever step of a   *)
(* grab failed (grabFrame()).                                              *)
DevicesClosed == devices = {}

=============================================================================
