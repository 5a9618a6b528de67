----------------------------- MODULE V4l2Capture -----------------------------
(***************************************************************************)
(* V4L2Grabber: finding and opening the device, memory mapped buffers, the *)
(* reading of frames at no more than 10 Hz and the loss of the signal.     *)
(* Its throw_exception() only writes to the log: what follows a failed     *)
(* step is still done, and readError() is never emitted.                   *)
(***************************************************************************)
EXTENDS Integers, FiniteSets

CONSTANTS Nodes,            \* device files; First is the first of them by name
          First,
          Captures,         \* nodes that capture in a supported format
          Buffers,          \* buffers the driver grants
          SignalThreshold,  \* _noSignalCounterThreshold
          AUTO, UNKNOWN_DEVICE, NoNode

ASSUME NodesAssumption == Nodes \cap {AUTO, UNKNOWN_DEVICE, NoNode} = {} /\ Buffers \in Nat

VARIABLES present,          \* nodes that exist
          v4lDevices,       \* nodes ever seen
          deviceName, standard, initialized,
          fd,               \* the node behind _fileDescriptor
          gone,             \* that node was unplugged since
          notifier,         \* "none", "off" or "on"
          mapped,           \* size of _buffers
          handles,          \* kernel: open descriptors of a node
          queued,           \* driver: buffers it may fill, 0 when not streaming
          readFrame, frame, \* the frame that is ready, "none" or its kind
          noSignalCounter, signalDetection,
          sent              \* the last frame that was sent on

deviceVars == <<deviceName, standard, initialized, fd, gone, notifier, mapped, handles, queued>>
signalVars == <<noSignalCounter, signalDetection, sent>>
v4lVars == <<present, v4lDevices, deviceVars, readFrame, frame, signalVars>>

V4lInit ==
  /\ present \in SUBSET Nodes /\ v4lDevices = {}
  /\ deviceName = UNKNOWN_DEVICE /\ standard = "no-change" /\ initialized = FALSE
  /\ fd = NoNode /\ gone = FALSE /\ notifier = "none" /\ mapped = 0
  /\ handles = [n \in Nodes |-> 0] /\ queued = 0
  /\ readFrame = FALSE /\ frame = "none"
  /\ noSignalCounter = 0 /\ signalDetection = TRUE /\ sent = "none"

-----------------------------------------------------------------------------
(* mutant: the device is stopped and unmapped, and stays open *)
Uninit_Open == handles

(* uninit(): what is open after it *)
Uninit == [n \in Nodes |-> IF initialized /\ n = fd THEN handles[n] - 1 ELSE handles[n]]

(* init(): the first device ever seen is the automatic one, since init()   *)
(* succeeds whatever open_device() and init_device() write to the log      *)
Resolved(name, seen) ==
  IF name # AUTO THEN name
  ELSE IF seen = {} THEN UNKNOWN_DEVICE
  ELSE IF First \in seen THEN First ELSE CHOOSE n \in seen : TRUE

(* open_device(), init_device() with its buffers, start_capturing() *)
OpenDevice(node) == IF node \in present THEN node ELSE NoNode
InitDevice(node) == IF node \in present \cap Captures THEN Buffers ELSE 0
StartCapturing(buffers, lost) == IF lost THEN 0 ELSE buffers

(* setDeviceVideoStandard() on changed settings: uninit(), init(), start() *)
SetDevice(name, std) ==
  LET seen == v4lDevices \cup present
      node == Resolved(name, seen)
  IN /\ deviceName # name \/ standard # std
     /\ v4lDevices' = seen /\ deviceName' = node /\ standard' = std
     /\ initialized' = (node # UNKNOWN_DEVICE)
     /\ fd' = OpenDevice(node)
     /\ gone' = FALSE
     /\ notifier' = IF node \in present THEN "on" ELSE "none"
     /\ mapped' = InitDevice(node)
     /\ handles' = [n \in Nodes |-> IF n = OpenDevice(node) THEN Uninit[n] + 1 ELSE Uninit[n]]
     /\ queued' = StartCapturing(mapped', FALSE)
     /\ frame' = "none"
     /\ UNCHANGED <<present, readFrame, signalVars>>

(* stop() and start() of the wrapper: the driver gives the buffers back *)
Stop ==
  /\ notifier = "on"
  /\ notifier' = "off" /\ queued' = 0 /\ frame' = "none"
  /\ UNCHANGED <<present, v4lDevices, deviceName, standard, initialized, fd, gone, mapped, handles, readFrame, signalVars>>

Start ==
  /\ initialized /\ notifier = "off"
  /\ notifier' = "on" /\ queued' = StartCapturing(mapped, gone)
  /\ UNCHANGED <<present, v4lDevices, deviceName, standard, initialized, fd, gone, mapped, handles,
                 readFrame, frame, signalVars>>

-----------------------------------------------------------------------------
(* process_image(): too small, dark, or with a signal *)
ProcessImage(f) ==
  LET dark == IF f = "light" THEN 0
              ELSE IF noSignalCounter > SignalThreshold THEN noSignalCounter ELSE noSignalCounter + 1
      counter == IF signalDetection /\ f # "short" THEN dark ELSE noSignalCounter
  IN /\ noSignalCounter' = counter
     /\ sent' = IF f = "short" \/ (signalDetection /\ counter >= SignalThreshold) THEN sent ELSE f
     /\ UNCHANGED signalDetection

(* buffers queued after VIDIOC_DQBUF and VIDIOC_QBUF *)
Requeued(f) == queued - 1 + 1

(* read_frame() while the lock is open *)
ReadFrame ==
  /\ notifier = "on" /\ frame # "none" /\ readFrame
  /\ readFrame' = FALSE /\ frame' = "none"
  /\ queued' = Requeued(frame)
  /\ ProcessImage(frame)
  /\ UNCHANGED <<present, v4lDevices, deviceName, standard, initialized, fd, gone, notifier, mapped, handles>>

(* on a device that is gone VIDIOC_DQBUF fails *)
ReadFails ==
  /\ notifier = "on" /\ gone /\ readFrame
  /\ readFrame' = FALSE
  /\ UNCHANGED <<present, v4lDevices, deviceVars, frame, signalVars>>

(* mutant: the timer opens the lock for the next frame only *)
UnlockReadFrame_Idle == initialized /\ frame = "none"

(* the adapt timer runs while the grabber is initialized *)
UnlockReadFrame == initialized

Unlock ==
  /\ UnlockReadFrame /\ ~readFrame
  /\ readFrame' = TRUE
  /\ UNCHANGED <<present, v4lDevices, deviceVars, frame, signalVars>>

SetSignalDetectionEnable(enable) ==
  /\ signalDetection # enable /\ signalDetection' = enable
  /\ UNCHANGED <<present, v4lDevices, deviceVars, readFrame, frame, noSignalCounter, sent>>

-----------------------------------------------------------------------------
(* the driver fills a buffer *)
Capture(kind) ==
  /\ queued > 0 /\ frame = "none" /\ notifier = "on" /\ frame' = kind
  /\ UNCHANGED <<present, v4lDevices, deviceVars, readFrame, signalVars>>

Unplug(n) ==
  /\ n \in present /\ present' = present \ {n}
  /\ IF fd = n THEN gone' = TRUE /\ queued' = 0 /\ frame' = "none" ELSE UNCHANGED <<gone, queued, frame>>
  /\ UNCHANGED <<v4lDevices, deviceName, standard, initialized, fd, notifier, mapped, handles, readFrame, signalVars>>

Plug(n) ==
  /\ n \notin present /\ present' = present \cup {n}
  /\ UNCHANGED <<v4lDevices, deviceVars, readFrame, frame, signalVars>>

V4lNext ==
  \/ \E name \in Nodes \cup {AUTO}, std \in {"pal", "no-change"} : SetDevice(name, std)
  \/ Stop \/ Start \/ ReadFrame \/ ReadFails \/ Unlock
  \/ \E enable \in BOOLEAN : SetSignalDetectionEnable(enable)
  \/ \E kind \in {"light", "dark", "short"} : Capture(kind)
  \/ \E n \in Nodes : Unplug(n) \/ Plug(n)

(* the notifier and the timer of the running event loop *)
V4lFairness == WF_v4lVars(ReadFrame) /\ WF_v4lVars(Unlock)
-----------------------------------------------------------------------------
(* Across changes of the device, unplugging and failed openings, the       *)
(* grabber holds one descriptor, that of its device (uninit(), init()).    *)
OneHandle == \A n \in Nodes : handles[n] = IF n = fd THEN 1 ELSE 0

(* Between two frames the driver has all buffers of a running stream, so   *)
(* that it never runs out of them (read_frame()).                          *)
BuffersReturn == queued = IF notifier = "on" /\ ~gone THEN mapped ELSE 0

(* A frame that is ready is read, or the stream ends, however often        *)
(* frames come (unlockReadFrame()).                                        *)
FramesRead == frame # "none" ~> frame = "none"
=============================================================================
