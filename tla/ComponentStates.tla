--------------------------- MODULE ComponentStates ---------------------------
(***************************************************************************)
(* Who is switched on: the ComponentRegister, the components it keeps the  *)
(* books of, and the capture component (libsrc/hyperion/CaptureCont.cpp),  *)
(* which owns a channel of the muxer per kind of capture.  Everything runs *)
(* on the main thread, one handler at a time.                              *)
(*   mux      the muxer (MuxerOps); its timeouts are left to PriorityMuxer *)
(*   ticking  the muxer's _updateTimer is active                           *)
(*   states   ComponentRegister::_componentStates, "ALL" for COMP_ALL      *)
(*   prev     ComponentRegister::_prevComponentStates                      *)
(*   on       the components' own flags: LedDevice::_enabled of the device *)
(*            and of the smoothing, _systemCaptEnabled, _v4lCaptEnabled    *)
(*   prio     _systemCaptPrio and _v4lCaptPrio                             *)
(*   v4lInactiveTimer  _v4lInactiveTimer is active                         *)
(* Of the components SMOOTHING stands for those that just keep a flag.     *)
(***************************************************************************)
EXTENDS MuxerOps

CONSTANTS V4lFrame, SystemFrame, ClientFrame

ASSUME CaptureFramesAssumption ==
  /\ {V4lFrame, SystemFrame, ClientFrame} \subseteq Frames \ {NoFrame}
  /\ V4lFrame \notin {SystemFrame, ClientFrame}
ASSUME CaptureComponentsAssumption == {"GRABBER", "V4L"} \subseteq Components

(* schema-instCapture.json: 100 .. 253 *)
ASSUME CapturePrioritiesAssumption == Priorities \subseteq 0 .. LOWEST_PRIORITY - 1

VARIABLES mux, ticking, states, prev, on, prio, v4lInactiveTimer

vars == <<mux, ticking, states, prev, on, prio, v4lInactiveTimer>>

Capture == {"GRABBER", "V4L"}
Comps   == Capture \union {"SMOOTHING", "LEDDEVICE"}

Nothing == [c \in {} |-> FALSE]

-----------------------------------------------------------------------------
(* Operators on h = [mux, states, on, timer] *)

Here == [mux |-> mux, states |-> states, on |-> on, timer |-> v4lInactiveTimer]

Become(h) ==
  /\ mux' = [h.mux EXCEPT !.blocked = FALSE, !.pending = FALSE, !.listed = Listing(h.mux)]
  /\ states' = h.states
  /\ on' = h.on
  /\ v4lInactiveTimer' = h.timer

ComponentStateChanged(h, c, state) == [h EXCEPT !.states[c] = state]

(* mutant: leaves the register to the next change *)
Switched_Silent(h, c, state) == [h EXCEPT !.on[c] = state]

(* a component takes its new state and tells the register *)
Switched(h, c, state) == ComponentStateChanged([h EXCEPT !.on[c] = state], c, state)

(* setSystemCaptureEnable() and setV4LCaptureEnable() with the priorities at *)
SetCaptureEnable(h, at, c, enable) ==
  CASE h.on[c] = enable -> h
    [] enable /\ ~h.on[c] -> Switched([h EXCEPT !.mux = RegisterInput(@, at[c], c)], c, TRUE)
    [] ~enable /\ h.on[c] -> Switched([h EXCEPT !.mux   = ClearInput(@, at[c], 0),
                                               !.timer = @ /\ c # "V4L"], c, FALSE)

(* Hyperion::setComponentState() and the slot it reaches *)
SetComponentState(h, c, state) ==
  IF c \in Capture THEN SetCaptureEnable(h, prio, c, state) ELSE Switched(h, c, state)

(* mutant: switches them all *)
SetAll_Every(h, saved, state) ==
  LET Set(g, c) == SetComponentState(g, c, state)
  IN  Set(Set(Set(Set(h, "SMOOTHING"), "GRABBER"), "V4L"), "LEDDEVICE")

(* setComponentState(c, state) for each c of which saved says it was on, in *)
(* the order of std::map<Components, bool>                                  *)
SetAll(h, saved, state) ==
  LET Set(g, c) == IF saved[c] THEN SetComponentState(g, c, state) ELSE g
  IN  Set(Set(Set(Set(h, "SMOOTHING"), "GRABBER"), "V4L"), "LEDDEVICE")

-----------------------------------------------------------------------------
(* After the constructors, with everything switched on *)
Init ==
  /\ prio \in [Capture -> Priorities]
  /\ on = [c \in Comps |-> TRUE]
  /\ states = [c \in Comps \union {"ALL"} |-> TRUE]
  /\ mux = LET m == RegisterInput(RegisterInput(NewMuxer, prio["V4L"], "V4L"),
                                 prio["GRABBER"], "GRABBER")
           IN  [m EXCEPT !.listed = Listing(m)]
  /\ ticking = TRUE
  /\ prev = Nothing
  /\ v4lInactiveTimer = FALSE

(* JSON componentstate of one component *)
ComponentState(c, state) ==
  /\ Become(SetComponentState(Here, c, state))
  /\ UNCHANGED <<ticking, prev, prio>>

(* setHyperionEnable() *)
DisableHyperion ==
  /\ prev = Nothing
  /\ prev' = states
  /\ Become(ComponentStateChanged(SetAll(Here, states, FALSE), "ALL", FALSE))
  /\ ticking' = FALSE
  /\ UNCHANGED prio

EnableHyperion ==
  /\ prev # Nothing
  /\ Become(ComponentStateChanged(SetAll(Here, prev, TRUE), "ALL", TRUE))
  /\ ticking' = TRUE
  /\ prev' = Nothing
  /\ UNCHANGED prio

(* mutant: takes the new priorities first *)
InstCapture_First(at, enable) ==
  LET Leave(h, c) == IF prio[c] # at[c] THEN SetCaptureEnable(h, at, c, FALSE) ELSE h
      left        == Leave(Leave(Here, "V4L"), "GRABBER")
      v4l         == SetCaptureEnable(left, at, "V4L", enable["V4L"])
  IN  /\ Become(SetCaptureEnable(v4l, at, "GRABBER", enable["GRABBER"]))
      /\ prio' = at
      /\ UNCHANGED <<ticking, prev>>

(* handleSettingsUpdate(INSTCAPTURE): at are the new priorities *)
InstCapture(at, enable) ==
  LET Leave(h, c) == IF prio[c] # at[c] THEN SetCaptureEnable(h, prio, c, FALSE) ELSE h
      left        == Leave(Leave(Here, "V4L"), "GRABBER")
      v4l         == SetCaptureEnable(left, at, "V4L", enable["V4L"])
  IN  /\ Become(SetCaptureEnable(v4l, at, "GRABBER", enable["GRABBER"]))
      /\ prio' = at
      /\ UNCHANGED <<ticking, prev>>

(* handleSettingsUpdate(DEVICE), (SMOOTHING) *)
DeviceSettings ==
  /\ Become(Switched(Here, "LEDDEVICE", TRUE))
  /\ UNCHANGED <<ticking, prev, prio>>

SmoothingSettings(enable) ==
  /\ Become(Switched(Here, "SMOOTHING", enable))
  /\ UNCHANGED <<ticking, prev, prio>>

-----------------------------------------------------------------------------
OnlyMux(m) ==
  /\ Become([Here EXCEPT !.mux = m])
  /\ UNCHANGED <<ticking, prev, prio>>

(* images of the grabbers, connected while the capture is on *)
SystemImage ==
  /\ on["GRABBER"]
  /\ OnlyMux(SetInputImage(mux, prio["GRABBER"], SystemFrame, ENDLESS, 0))

V4lImage ==
  /\ on["V4L"]
  /\ Become([Here EXCEPT !.mux   = SetInputImage(@, prio["V4L"], V4lFrame, ENDLESS, 0),
                         !.timer = TRUE])
  /\ UNCHANGED <<ticking, prev, prio>>

(* no image for a second *)
SetV4lInactive ==
  /\ v4lInactiveTimer
  /\ Become([Here EXCEPT !.mux   = SetInputInactive(@, prio["V4L"], 0),
                         !.timer = FALSE])
  /\ UNCHANGED <<ticking, prev, prio>>

(* clients on the channels of the captures *)
ClientColor(p) ==
  OnlyMux(SetInput(RegisterInput(mux, p, "COLOR"), p, ClientFrame, ENDLESS, 0))

ClientClear(p) == OnlyMux(ClearInput(mux, p, 0))

UpdateTimeout == ticking /\ OnlyMux(SetCurrentTime(mux, 0))

Next ==
  \/ \E c \in Comps, state \in BOOLEAN : ComponentState(c, state)
  \/ DisableHyperion
  \/ EnableHyperion
  \/ \E at \in [Capture -> Priorities], enable \in [Capture -> BOOLEAN] : InstCapture(at, enable)
  \/ DeviceSettings
  \/ \E enable \in BOOLEAN : SmoothingSettings(enable)
  \/ SystemImage
  \/ V4lImage
  \/ SetV4lInactive
  \/ \E p \in Priorities : ClientColor(p) \/ ClientClear(p)
  \/ UpdateTimeout

Spec == Init /\ [][Next]_vars

-----------------------------------------------------------------------------
TypeOK ==
  /\ MuxerType(mux)
  /\ ticking \in BOOLEAN /\ v4lInactiveTimer \in BOOLEAN
  /\ states \in [Comps \union {"ALL"} -> BOOLEAN]
  /\ prev = Nothing \/ prev \in [Comps \union {"ALL"} -> BOOLEAN]
  /\ on \in [Comps -> BOOLEAN]
  /\ prio \in [Capture -> Priorities]

(* The register, which every client sees and setHyperionEnable() saves,     *)
(* says of each component what the component itself says, whoever switched  *)
(* it; and of Hyperion that it is off exactly while states are saved and    *)
(* the muxer's updates are stopped.                                         *)
RegisterTruthful ==
  /\ \A c \in Comps : states[c] = on[c]
  /\ states["ALL"] = (prev = Nothing)
  /\ states["ALL"] = ticking

(* A capture that was switched off or moved to another priority leaves no   *)
(* channel behind that nobody feeds or clears.                              *)
NoOrphanChannel ==
  \A p \in DOMAIN mux.inputs : \A c \in Capture :
    mux.inputs[p].comp = c => on[c] /\ p = prio[c]

(* A picture of the v4l device does not outlive the device's signal: while  *)
(* it is in a channel, the timer that takes it out runs.                    *)
V4lPictureWatched ==
  \A p \in DOMAIN mux.inputs :
    mux.inputs[p].image = V4lFrame => v4lInactiveTimer /\ p = prio["V4L"]

(* The captures' channels exist only while their capture is on, and a v4l   *)
(* picture that is shown has its inactive timer running (CaptureCont).      *)
CapturesTidy == NoOrphanChannel /\ V4lPictureWatched

(* Switching Hyperion off and on again, whatever happened in between,       *)
(* switches off nothing, and on exactly what was on before.                 *)
EnableRestores ==
  [][EnableHyperion => \A c \in Comps : on'[c] = (on[c] \/ prev[c])]_vars
=============================================================================
