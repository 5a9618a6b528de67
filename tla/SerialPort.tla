----------------------------- MODULE SerialPort -----------------------------
(***************************************************************************)
(* The serial port behind Adalight, Atmo, DMX, Sedu and TPM2 devices       *)
(* (ProviderRs232.cpp) under LedDevice::setLedValues() and rewriteLeds().  *)
(* Time is counted in ticks; a timer that is due fires before the next     *)
(* tick.                                                                   *)
(*   present      the device file exists                                   *)
(*   busy         another process has it open                              *)
(*   open         _rs232Port.isOpen()                                      *)
(*   ready        _deviceReady                                             *)
(*   enabled      LedDevice::_enabled                                      *)
(*   blocked      _blockedForDelay                                         *)
(*   shots        single shots of unblockAfterDelay(): ticks left          *)
(*   preOpen      ticks left of _preOpenDelayTimeOut                       *)
(*   outgoing       bytes QSerialPort has yet to write                       *)
(*   toWrite      _bytesToWrite                                            *)
(*   written      _bytesWritten, never reset; counted up to one frame      *)
(*   lastError    _lastError                                               *)
(*   refreshing   _refresh_timer is active                                 *)
(*   settling     ticks left of the delay promised when the port opened    *)
(***************************************************************************)
EXTENDS Naturals, FiniteSets

CONSTANTS
  FailDelay, WriteDelay, ReopenDelay,   \* 500 ms, 5000 ms and 5000 ms of writeBytes()
  ConnectDelay, PreOpenDelay,           \* delayAfterConnect, delayBeforeConnect
  FrameSize,                            \* bytes of a frame
  MaxOutgoing                             \* bound on outgoing

ASSUME SerialAssumption ==
  /\ {FailDelay, WriteDelay, ReopenDelay, FrameSize} \subseteq Nat \ {0}
  /\ {ConnectDelay, PreOpenDelay} \subseteq Nat /\ MaxOutgoing \in Nat \ 0 .. FrameSize - 1

VARIABLES present, busy, open, ready, enabled, blocked, shots, preOpen, outgoing, toWrite, written,
          lastError, refreshing, settling

serialVars == <<present, busy, open, ready, enabled, blocked, shots, preOpen, outgoing, toWrite, written,
                lastError, refreshing, settling>>

Delays == {FailDelay, WriteDelay, ReopenDelay, ConnectDelay}
Errors == {"PermissionError", "ResourceError", "WriteError"}
Disabling == {"PermissionError"}

Down(n) == IF n = 0 THEN 0 ELSE n - 1

Block(delay) ==
  /\ blocked' = TRUE
  /\ shots' = shots \union {delay}

(* error(): only an error that differs from the last one closes the port;  *)
(* the frame stays blocked                                                 *)
Fails(e) ==
  /\ lastError' = e
  /\ IF e = lastError THEN UNCHANGED <<open, ready, outgoing>>
     ELSE open' = FALSE /\ ready' = (ready /\ e \notin Disabling) /\ outgoing' = 0

(* tryOpen() of a port that is closed *)
TryOpen(delay) ==
  \/ /\ ~present
     /\ preOpen' = PreOpenDelay
     /\ UNCHANGED <<open, ready, blocked, shots, outgoing, lastError, settling>>
  \/ /\ present /\ preOpen > 0
     /\ UNCHANGED <<open, ready, blocked, shots, preOpen, outgoing, lastError, settling>>
  \/ /\ present /\ preOpen = 0 /\ busy
     /\ Fails("PermissionError")
     /\ UNCHANGED <<blocked, shots, preOpen, settling>>
  \/ /\ present /\ preOpen = 0 /\ ~busy
     /\ open' = TRUE /\ preOpen' = 0 /\ settling' = delay
     /\ IF delay > 0 THEN Block(delay) ELSE UNCHANGED <<blocked, shots>>
     /\ UNCHANGED <<ready, outgoing, lastError>>

(* open() of the device that LedDeviceFactory::construct() made *)
SerialInit ==
  /\ present \in BOOLEAN /\ busy \in BOOLEAN
  /\ open = (present /\ ~busy)
  /\ ready = ~(present /\ busy)
  /\ lastError = IF present /\ busy THEN "PermissionError" ELSE "NoError"
  /\ preOpen = IF present THEN 0 ELSE PreOpenDelay
  /\ blocked = (open /\ ConnectDelay > 0)
  /\ shots = IF blocked THEN {ConnectDelay} ELSE {}
  /\ settling = IF open THEN ConnectDelay ELSE 0
  /\ enabled = TRUE /\ outgoing = 0 /\ toWrite = 0 /\ written = 0 /\ refreshing = FALSE

-----------------------------------------------------------------------------
(* writeBytes(); QSerialPort::write() takes all of the frame or nothing *)
WriteBytes ==
  \/ blocked /\ UNCHANGED <<open, ready, blocked, shots, preOpen, outgoing, toWrite, lastError, settling>>
  \/ ~blocked /\ ~open /\ TryOpen(ReopenDelay) /\ UNCHANGED toWrite
  \/ /\ ~blocked /\ open /\ outgoing + FrameSize =< MaxOutgoing
     /\ toWrite' = FrameSize /\ outgoing' = outgoing + FrameSize
     /\ Block(WriteDelay)
     /\ UNCHANGED <<open, ready, preOpen, lastError, settling>>
  \/ /\ ~blocked /\ open
     /\ toWrite' = FrameSize
     /\ Block(FailDelay)
     /\ UNCHANGED <<open, ready, preOpen, outgoing, lastError, settling>>

(* LedDevice::setLedValues() *)
PortSetLedValues ==
  /\ enabled
  /\ IF ready THEN WriteBytes /\ refreshing' = TRUE
     ELSE UNCHANGED <<open, ready, blocked, shots, preOpen, outgoing, toWrite, lastError, settling, refreshing>>
  /\ UNCHANGED <<present, busy, enabled, written>>

(* LedDevice::rewriteLeds(), which does not ask whether the device is ready *)
PortRewriteLeds ==
  /\ refreshing /\ enabled
  /\ WriteBytes
  /\ UNCHANGED <<present, busy, enabled, written, refreshing>>

(* LedDevice::setEnable(); switching off writes black *)
PortSetEnable ==
  /\ enabled' = ~enabled
  /\ IF enabled /\ ready THEN WriteBytes
     ELSE UNCHANGED <<open, ready, blocked, shots, preOpen, outgoing, toWrite, lastError, settling>>
  /\ UNCHANGED <<present, busy, written, refreshing>>

(* bytesWritten(): a chunk of the outgoing has gone out *)
BytesWritten(n) ==
  /\ open /\ present /\ n \in 1 .. outgoing
  /\ outgoing' = outgoing - n
  /\ written' = IF written + n > FrameSize THEN FrameSize ELSE written + n
  /\ IF written' >= toWrite THEN toWrite' = 0 /\ blocked' = FALSE ELSE UNCHANGED <<toWrite, blocked>>
  /\ UNCHANGED <<present, busy, open, ready, enabled, shots, preOpen, lastError, refreshing, settling>>

PortError(e) ==
  /\ open /\ (e = "ResourceError" => ~present) /\ e # "PermissionError"
  /\ Fails(e)
  /\ UNCHANGED <<present, busy, enabled, blocked, shots, preOpen, toWrite, written, refreshing, settling>>

UnblockAfterDelay ==
  /\ 0 \in shots
  /\ shots' = shots \ {0} /\ blocked' = FALSE
  /\ UNCHANGED <<present, busy, open, ready, enabled, preOpen, outgoing, toWrite, written, lastError, refreshing, settling>>

SerialTick ==
  /\ 0 \notin shots /\ (shots # {} \/ preOpen > 0 \/ settling > 0)
  /\ shots' = {Down(s) : s \in shots} /\ preOpen' = Down(preOpen) /\ settling' = Down(settling)
  /\ UNCHANGED <<present, busy, open, ready, enabled, blocked, outgoing, toWrite, written, lastError, refreshing>>

Plug ==
  /\ present' = ~present
  /\ UNCHANGED <<busy, open, ready, enabled, blocked, shots, preOpen, outgoing, toWrite, written, lastError, refreshing, settling>>

OtherProcess ==
  /\ ~open /\ busy' = ~busy
  /\ UNCHANGED <<present, open, ready, enabled, blocked, shots, preOpen, outgoing, toWrite, written, lastError, refreshing, settling>>

SerialNext ==
  \/ PortSetLedValues \/ PortRewriteLeds \/ PortSetEnable
  \/ UnblockAfterDelay \/ SerialTick \/ Plug \/ OtherProcess
  \/ \E n \in 1 .. MaxOutgoing : BytesWritten(n)
  \/ \E e \in Errors : PortError(e)

(* timers run, and leds keep being set *)
SerialFairness ==
  WF_serialVars(SerialTick) /\ WF_serialVars(UnblockAfterDelay) /\ WF_serialVars(PortSetLedValues)

SerialSpec == SerialInit /\ [][SerialNext]_serialVars /\ SerialFairness

-----------------------------------------------------------------------------
SerialTypeOK ==
  /\ {present, busy, open, ready, enabled, blocked, refreshing} \subseteq BOOLEAN
  /\ shots \subseteq 0 .. WriteDelay + ReopenDelay + ConnectDelay + FailDelay
  /\ preOpen \in 0 .. PreOpenDelay /\ settling \in Nat
  /\ outgoing \in 0 .. MaxOutgoing /\ toWrite \in {0, FrameSize} /\ written \in 0 .. FrameSize
  /\ lastError \in Errors \union {"NoError"}

(* A device that drops frames because it is blocked has a timer running    *)
(* that unblocks it, whatever errors, closes and reopenings came between.  *)
BlockEnds == blocked => shots # {}

(* A port that was closed is opened again as long as the device is there,  *)
(* nobody else has it and leds are set: neither the delay before opening   *)
(* nor the block of a frame that was never written keeps it shut.          *)
PortReopens ==
  ~open /\ ready ~> open \/ ~present \/ busy \/ ~ready \/ ~enabled

=============================================================================
