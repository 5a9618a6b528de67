------------------------------ MODULE MCDevices ------------------------------
(***************************************************************************)
(* Led devices: a serial port, the frames on the wire, usb devices and     *)
(* Hue lamps.  The parts share no state: a behaviour runs one of them.     *)
(***************************************************************************)
EXTENDS SerialPort, LedFrames, UsbDevices, HueLights

CONSTANTS p1, p2

VARIABLE part

vars == <<part, serialVars, frameVars, usbVars, hueVars>>

MCColors == {<<0, 64, 255>>, <<200, 7, 129>>}
MCSpecs == <<[id |-> 161, size |-> 6], [id |-> 162, size |-> 12]>>
MCGpioMap == [g \in {4, 7, 8} |-> [led |-> IF g = 7 THEN 1 ELSE 0, color |-> (g + 3) % 4]]
MCGamut == [red |-> p1, black |-> DARK]
MCUser == [LightIds -> [power : {"on", "off"}, color : {p2}]]

Init ==
  /\ part \in {"serial", "frames", "usb", "hue"}
  /\ SerialInit /\ FrameInit /\ UsbInit /\ HueInit
  /\ part = "serial" \/ (present /\ ~busy)
  /\ part = "frames" \/ (device = "plain" /\ count = 1)
  /\ part = "hue"    \/ before = [l \in LightIds |-> [power |-> "on", color |-> p2]]
  /\ part = "usb"    \/ (bus = <<>> /\ ~hid.present /\ serial = [p \in Packs |-> 0])

Next ==
  \/ part = "serial" /\ SerialNext /\ UNCHANGED <<part, frameVars, usbVars, hueVars>>
  \/ part = "frames" /\ FrameNext  /\ UNCHANGED <<part, serialVars, usbVars, hueVars>>
  \/ part = "usb"    /\ UsbNext    /\ UNCHANGED <<part, serialVars, frameVars, hueVars>>
  \/ part = "hue"    /\ HueNext    /\ UNCHANGED <<part, serialVars, frameVars, usbVars>>

Spec == Init /\ [][Next]_vars /\ (part = "serial" => SerialFairness) /\ (part = "usb" => UsbFairness)

(* a bound: LampsRight says nothing of what follows a PUT that was lost or   *)
(* overtaken, and TLC goes no further there                                  *)
Followed == inTurn

-----------------------------------------------------------------------------

(* A serial or hid device that was lost is written to again in the end when *)
(* it is back (tryOpen(), ProviderHID::writeBytes()).                        *)
DevicesHeal == PortReopens /\ HidReturns
=============================================================================
