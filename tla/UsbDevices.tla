----------------------------- MODULE UsbDevices -----------------------------
(***************************************************************************)
(* Led devices on the usb bus: the Lightpacks a MultiLightpack device      *)
(* opens one by one (LedDeviceLightpack.cpp, LedDeviceMultiLightpack.cpp;  *)
(* LedDeviceHyperionUsbasp.cpp opens its device in the same way), and the  *)
(* hidapi devices (ProviderHID.cpp).                                       *)
(*   bus         libusb_get_device_list(): packs in the order found        *)
(*   serial      per pack the serial number in its descriptor              *)
(*   handles     per pack the handles that are open                        *)
(*   driver      per pack whether the kernel's driver is attached          *)
(*   claimed     packs whose interface is claimed                          *)
(*   serialList  serials open() has still to open                          *)
(*   candidates  rest of the device list of the Lightpack being opened     *)
(*   lightpacks  _lightpacks: packs that were opened                       *)
(*   hid         of a hid device: _deviceHandle, which is lost once the     *)
(*               device was unplugged, _blockedForDelay, and whether it is *)
(*               plugged in                                                *)
(***************************************************************************)
EXTENDS Naturals, SequencesExt

CONSTANTS
  Packs,
  Serials,     \* in their order; 0 is the empty one
  HidDelay     \* _delayAfterConnect_ms > 0

ASSUME UsbAssumption == Packs # {} /\ Serials \subseteq Nat /\ HidDelay \in BOOLEAN

VARIABLES bus, serial, handles, driver, claimed, serialList, candidates, lightpacks, hid

packVars == <<bus, serial, handles, driver, claimed, serialList, candidates, lightpacks>>
usbVars == <<packVars, hid>>

UsbInit ==
  /\ bus \in {s \in UNION {[1 .. n -> Packs] : n \in 0 .. 2} : \A i, j \in DOMAIN s : s[i] = s[j] => i = j}
  /\ serial \in [Packs -> Serials]
  /\ handles = [p \in Packs |-> 0] /\ driver = [p \in Packs |-> TRUE] /\ claimed = {}
  /\ serialList = <<>> /\ candidates = <<>> /\ lightpacks = <<>>
  /\ hid \in [handle : {"none"}, blocked : {FALSE}, present : BOOLEAN]

Opening == serialList # <<>>

(* LedDeviceMultiLightpack::open(): the serials that can be read.  What is *)
(* sorted before this loop is still empty.                                 *)
GetLightpackSerials(readable) ==
  /\ ~Opening /\ lightpacks = <<>> /\ bus # <<>>
  /\ LET found == SelectSeq(bus, LAMBDA p : p \in readable)
     IN serialList' = [i \in DOMAIN found |-> serial[found[i]]]
  /\ candidates' = bus
  /\ UNCHANGED <<bus, serial, handles, driver, claimed, lightpacks, hid>>

(* the Lightpack being opened is done with: on to the next serial *)
NextSerial ==
  /\ serialList' = Tail(serialList)
  /\ candidates' = bus

(* testAndOpen() of a pack that is not the one, or cannot be asked *)
PassOver ==
  /\ Opening /\ candidates # <<>>
  /\ candidates' = Tail(candidates)
  /\ UNCHANGED <<bus, serial, handles, driver, claimed, serialList, lightpacks, hid>>

(* no pack has the serial: the Lightpack is deleted *)
GiveUp ==
  /\ Opening /\ candidates = <<>>
  /\ NextSerial
  /\ UNCHANGED <<bus, serial, handles, driver, claimed, lightpacks, hid>>

(* testAndOpen(): an unreadable serial counts as empty *)
IsRequested(p, read) ==
  Head(serialList) \in {0, IF read THEN serial[p] ELSE 0}

(* mutant: closed without giving the device back to the driver *)
ClaimFails_Detached(p) ==
  /\ driver' = [driver EXCEPT ![p] = FALSE]
  /\ UNCHANGED handles

(* openDevice(): detached by then, so attach and close *)
ClaimFails(p) ==
  /\ driver' = [driver EXCEPT ![p] = (p \notin claimed)]
  /\ UNCHANGED handles

(* openDevice(): open, detach the driver, claim *)
OpenDevice(p) ==
  /\ Opening /\ candidates # <<>> /\ p = Head(candidates)
  /\ \E read \in BOOLEAN : IsRequested(p, read)
  /\ \/ /\ UNCHANGED <<handles, driver>>                        \* libusb_open() or detaching fails
        /\ candidates' = Tail(candidates)
        /\ UNCHANGED <<claimed, serialList, lightpacks>>
     \/ /\ ClaimFails(p)
        /\ candidates' = Tail(candidates)
        /\ UNCHANGED <<claimed, serialList, lightpacks>>
     \/ /\ p \notin claimed                                     \* libusb lets one handle claim it
        /\ handles' = [handles EXCEPT ![p] = @ + 1]
        /\ driver' = [driver EXCEPT ![p] = FALSE]
        /\ claimed' = claimed \union {p}
        /\ lightpacks' = Append(lightpacks, p)
        /\ NextSerial
  /\ UNCHANGED <<bus, serial, hid>>

(* the destructors: release, attach, close *)
CloseDevices ==
  /\ ~Opening /\ lightpacks # <<>>
  /\ handles' = [p \in Packs |-> handles[p] - Cardinality({i \in DOMAIN lightpacks : lightpacks[i] = p})]
  /\ driver' = [p \in Packs |-> driver[p] \/ \E i \in DOMAIN lightpacks : lightpacks[i] = p]
  /\ claimed' = claimed \ Range(lightpacks)
  /\ lightpacks' = <<>>
  /\ UNCHANGED <<bus, serial, serialList, candidates, hid>>

(* packs are found in another order after they were plugged in again *)
Replug(order) ==
  /\ ~Opening /\ lightpacks = <<>>
  /\ bus' = order
  /\ UNCHANGED <<serial, handles, driver, claimed, serialList, candidates, lightpacks, hid>>

-----------------------------------------------------------------------------
(* ProviderHID::open(), and the retry after three seconds *)
HidOpen ==
  IF hid.present THEN [hid EXCEPT !.handle = "good", !.blocked = HidDelay]
  ELSE [hid EXCEPT !.blocked = TRUE]

(* mutant: the handle is kept when the second try fails too *)
HidFailed_Keeps == [hid EXCEPT !.blocked = TRUE]

HidFailed == [hid EXCEPT !.handle = "none"]

(* ProviderHID::writeBytes() *)
HidWrite ==
  /\ ~hid.blocked
  /\ hid' = CASE hid.handle = "none" -> HidOpen
             [] hid.handle = "lost" -> HidFailed
             [] OTHER -> hid
  /\ UNCHANGED packVars

HidUnblock ==
  /\ hid.blocked
  /\ hid' = [hid EXCEPT !.blocked = FALSE]
  /\ UNCHANGED packVars

HidPlug ==
  /\ hid' = [hid EXCEPT !.present = ~@, !.handle = IF @ = "good" THEN "lost" ELSE @]
  /\ UNCHANGED packVars

UsbNext ==
  \/ \E readable \in SUBSET Packs : GetLightpackSerials(readable)
  \/ PassOver \/ GiveUp \/ CloseDevices
  \/ \E p \in Packs : OpenDevice(p)
  \/ \E order \in {s \in [DOMAIN bus -> Range(bus)] : Range(s) = Range(bus)} : Replug(order)
  \/ HidWrite \/ HidUnblock \/ HidPlug

UsbFairness == WF_usbVars(HidWrite) /\ WF_usbVars(HidUnblock)

UsbSpec == UsbInit /\ [][UsbNext]_usbVars /\ UsbFairness

-----------------------------------------------------------------------------
(* Whatever call to libusb failed on the way, a pack that a Lightpack has  *)
(* opened is claimed by it alone through its one handle, and every other   *)
(* pack is closed and back with the kernel's driver.                       *)
PacksReleased ==
  \A p \in Packs :
    LET n == Cardinality({i \in DOMAIN lightpacks : lightpacks[i] = p})
    IN n =< 1 /\ handles[p] = n /\ (p \in claimed <=> n = 1) /\ (driver[p] <=> n = 0)

(* A hid device that was unplugged is open again some time after it is     *)
(* back, if leds are set.                                                  *)
HidReturns == hid.present ~> hid.handle = "good" \/ ~hid.present
=============================================================================
