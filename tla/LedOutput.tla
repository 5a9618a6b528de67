------------------------------ MODULE LedOutput ------------------------------
(***************************************************************************)
(* From Hyperion::update() to the leds: the device (libsrc/leddevice/      *)
(* LedDevice.cpp) and the smoothing in front of it (libsrc/hyperion/       *)
(* LinearColorSmoothing.cpp), which is a LedDevice itself and writes to    *)
(* the real one from a timer.  All of it runs on the main thread.          *)
(*   view   the frame and smooth_cfg of the visible source                 *)
(*   sm     the LinearColorSmoothing:                                      *)
(*            on        LedDevice::_enabled                                *)
(*            cfg, interval, delay, short  the selected cfg                *)
(*            settings  what the settings say of cfg 0                     *)
(*            timer     _timer is active                                   *)
(*            prev, target  _previousValues (NoFrame: empty), _targetValues *)
(*            phase     of _targetTime: "new" target, "ticked" (_timer has  *)
(*                      fired since), "due" (it is over), "zero" (no time) *)
(*            write     _writeToLedsEnable                                 *)
(*            queue     _outputQueue                                       *)
(*            overrun   history: write() copied a frame into a shorter      *)
(*                      target, which is undefined behaviour               *)
(*   dev    the LedDevice: on, _ledValues, whether it has a latch time and  *)
(*          whether that runs, whether _refresh_timer does, and what the    *)
(*          leds are lit with                                              *)
(*   held   sm._ledDevice points to dev.  It does not always after dev was *)
(*          deleted and built again.                                       *)
(*   late   a startTimerDelayed() is pending                               *)
(*   want   ghost: the frame of the last update(), NoFrame once the device *)
(*          or the smoothing was switched by hand after it                 *)
(* A frame is abstract; values between two frames are all Between.  How    *)
(* many leds it is for depends on the layout, hardwareLedCount and, with    *)
(* cloned leds, its source; of that the model keeps what matters, whether   *)
(* it is longer than the vectors of the smoothing.  Pause mode is left out: *)
(* it is cfg 1, which no source asks for (EffectEngine.cpp:139 replaces     *)
(* SMOOTHING_MODE_PAUSE).                                                   *)
(***************************************************************************)
EXTENDS Integers, Sequences

CONSTANTS
  Pictures,  \* the frames of sources
  Settings,  \* the settings of the smoothing, see SettingsType
  Customs,   \* the cfgs that effects added, a sequence
  Latches    \* whether devices have a latch time

NoFrame == 0   \* an empty vector
Black   == -1
Between == -2

ASSUME PicturesAssumption == Pictures \subseteq Nat \ {NoFrame}

MaxDelay == 2048   \* of updateDelay in schema-smoothing.json

(* short: the settling time is below the update interval *)
SettingsType == [interval : Nat \ {0}, delay : 0 .. MaxDelay, short : BOOLEAN,
                 continuous : BOOLEAN]

ASSUME SettingsAssumption == Settings # {} /\ Settings \subseteq SettingsType
ASSUME CustomsAssumption ==
  Customs \in Seq([interval : Nat \ {0}, delay : {0}, short : BOOLEAN])
ASSUME LatchesAssumption == Latches # {} /\ Latches \subseteq BOOLEAN

VARIABLES view, sm, dev, held, late, want

vars == <<view, sm, dev, held, late, want>>

Values == Pictures \union {NoFrame, Black, Between}

-----------------------------------------------------------------------------
(* LedDevice *)

(* a frame that comes within the latch time after another is dropped *)
NewDevice(latch) == [on |-> TRUE, values |-> NoFrame, latch |-> latch, latched |-> latch,
                     refresh |-> FALSE, lit |-> NoFrame]

SetLedValues(d, frame) ==
  IF ~d.on THEN d
  ELSE IF d.latched THEN [d EXCEPT !.refresh = TRUE]
  ELSE [d EXCEPT !.refresh = TRUE, !.values = frame, !.lit = frame, !.latched = d.latch]

(* switching the device off writes black; switching it on writes nothing *)
SetDeviceEnable(d, enable) ==
  [d EXCEPT !.on = enable, !.lit = IF d.on /\ ~enable THEN Black ELSE @]

-----------------------------------------------------------------------------
(* LinearColorSmoothing *)

CfgIds == {0} \union DOMAIN Customs

Cfg(s, id) == IF id = 0 THEN s.settings ELSE Customs[id]

(* mutant: a running timer is stopped and left so *)
SelectConfig_Stops(s, id, force) ==
  LET c == Cfg(s, id)
  IN  IF s.cfg = id /\ ~force THEN s
      ELSE [s EXCEPT !.cfg = id, !.delay = c.delay, !.short = c.short,
                     !.interval = c.interval, !.timer = @ /\ c.interval = s.interval]

(* A new interval starts the timer, whether or not it was running. *)
SelectConfig(s, id, force) ==
  LET c == Cfg(s, id)
  IN  IF s.cfg = id /\ ~force THEN s
      ELSE [s EXCEPT !.cfg = id, !.delay = c.delay, !.short = c.short,
                     !.interval = c.interval, !.timer = @ \/ c.interval # s.interval]

(* setLedValues() and write() of the smoothing: the first frame is assigned. *)
(* Others are copied over the target with memcpy(), which leaves it as long   *)
(* as it was: behind a shorter frame it keeps its values, and a longer one is *)
(* written past its end.                                                      *)
Feed(s, frame, longer) ==
  CASE ~s.on -> s
    [] s.on /\ s.prev = NoFrame ->
         [s EXCEPT !.target = frame, !.phase = "new", !.prev = frame, !.timer = TRUE]
    [] OTHER -> [s EXCEPT !.target = frame, !.phase = "new", !.overrun = @ \/ longer]

BlackOf(frame) == IF frame = NoFrame THEN NoFrame ELSE Black

SwitchOff(s) ==
  [s EXCEPT !.target = BlackOf(@), !.phase = "zero",
            !.queue = [i \in DOMAIN s.queue |-> BlackOf(s.target)]]

SetEnable(s, enable) ==
  IF enable
    THEN [s EXCEPT !.on = TRUE]
    ELSE [(IF s.on THEN SwitchOff(s) ELSE s) EXCEPT !.on = FALSE, !.timer = FALSE,
                                                    !.prev = NoFrame]

(* handleSettingsUpdate(SMOOTHING) *)
ApplySettings(s, new, enable) ==
  LET t == [s EXCEPT !.settings = new]
      u == IF s.cfg = 0 THEN SelectConfig(t, 0, TRUE) ELSE t
  IN  IF u.on # enable THEN SetEnable(u, enable) ELSE u

(* queueColors(): what goes to the device, and the queue after it *)
Queued(s) == IF s.write THEN Append(s.queue, s.prev) ELSE s.queue

(* mutant: stops when no frame comes *)
Pops_NoDrain(s) == Queued(s) # <<>> /\ Len(Queued(s)) > s.delay

Pops(s) == Queued(s) # <<>> /\ (Len(Queued(s)) > s.delay \/ ~s.write)

Writes(s) == IF s.delay = 0 THEN s.write ELSE Pops(s)

(* of updateLeds() with a settling time that is over, or not *)
QueueColors(s, over) ==
  /\ sm' = [s EXCEPT
       !.queue = CASE s.delay = 0               -> s.queue
                   [] s.delay # 0 /\ Pops(s)    -> Tail(Queued(s))
                   [] s.delay # 0 /\ ~Pops(s)   -> Queued(s),
       !.write = IF over THEN s.settings.continuous ELSE @]
  /\ dev' = IF Writes(s) /\ held
              THEN SetLedValues(dev, IF s.delay = 0 THEN s.prev ELSE Head(Queued(s)))
              ELSE dev

-----------------------------------------------------------------------------
(* The end of Hyperion::update(), on a smoothing s and a device d; longer: the *)
(* frame is, than those the smoothing has                                      *)

Updated(s, d, v, longer) ==
  LET fed == Feed(SelectConfig(s, v.cfg, FALSE), v.frame, longer)
  IN  IF d.on
        THEN [sm |-> fed, dev |-> IF fed.on THEN d ELSE SetLedValues(d, v.frame)]
        ELSE [sm |-> s, dev |-> d]

Update(s, d, v) ==
  /\ \E longer \in BOOLEAN :
       LET r == Updated(s, d, v, longer)
       IN  sm' = r.sm /\ dev' = r.dev
  /\ want' = IF d.on THEN v.frame ELSE NoFrame

-----------------------------------------------------------------------------
(* The constructors: the smoothing applies its settings, the core ends with *)
(* an update().                                                             *)
NewSmoothing(new) ==
  [on |-> TRUE, cfg |-> 0, settings |-> new,
   interval |-> new.interval, delay |-> new.delay, short |-> new.short, timer |-> TRUE,
   prev |-> NoFrame, target |-> NoFrame, phase |-> "zero",
   write |-> TRUE, queue |-> <<>>, overrun |-> FALSE]

Init ==
  /\ view = [frame |-> Black, cfg |-> 0]
  /\ \E new \in Settings, enable \in BOOLEAN, latch \in Latches :
       LET r == Updated(ApplySettings(NewSmoothing(new), new, enable), NewDevice(latch), view,
                        FALSE)
       IN  sm = r.sm /\ dev = r.dev
  /\ held = TRUE
  /\ late = FALSE
  /\ want = Black

(* A frame of the visible source, or another source becomes visible. *)
Show(frame, cfg) ==
  /\ view' = [frame |-> frame, cfg |-> cfg]
  /\ Update(sm, dev, view')
  /\ UNCHANGED <<held, late>>

(* Settings: each handler's update() sees the new state. *)
SmoothingSettings(new, enable) ==
  /\ Update(ApplySettings(sm, new, enable), dev, view)
  /\ UNCHANGED <<view, held, late>>

(* The device is deleted and built anew; sm._ledDevice is not told.  What    *)
(* it points to then is the new device only if it got the same address.      *)
DeviceSettings(latch) ==
  /\ late' = (late \/ sm.on)
  /\ held' \in BOOLEAN
  /\ Update([sm EXCEPT !.timer = FALSE], NewDevice(latch), view)
  /\ UNCHANGED view

(* componentStateChanged: no update() follows. *)
ToggleSmoothing(enable) ==
  /\ sm' = SetEnable(sm, enable)
  /\ want' = NoFrame
  /\ UNCHANGED <<view, dev, held, late>>

ToggleDevice(enable) ==
  /\ dev' = SetDeviceEnable(dev, enable)
  /\ want' = NoFrame
  /\ UNCHANGED <<view, sm, held, late>>

-----------------------------------------------------------------------------
(* Timers *)

(* updateLeds(): before the settling time is over each value moves towards  *)
(* its target by at least one.                                              *)
Arrived(s) == IF s.prev = NoFrame THEN NoFrame ELSE s.target

Ticked(s) == IF s.phase = "new" THEN "ticked" ELSE s.phase

(* _targetTime - now is cut to 32 bits: with no _targetTime its sign depends *)
(* on the date                                                              *)
IsOver(s) == CASE s.phase = "due"  -> {TRUE}
               [] s.phase = "zero" -> BOOLEAN
               [] OTHER            -> {FALSE}

Arrive ==
  /\ sm.timer
  /\ \E over \in IsOver(sm) :
       QueueColors([sm EXCEPT !.prev = Arrived(sm), !.phase = Ticked(sm),
                              !.write = @ \/ ~over], over)
  /\ UNCHANGED <<view, held, late, want>>

Approach ==
  /\ sm.timer /\ FALSE \in IsOver(sm)
  /\ sm.prev \notin {NoFrame, sm.target}
  /\ QueueColors([sm EXCEPT !.prev = Between, !.phase = Ticked(sm), !.write = TRUE], FALSE)
  /\ UNCHANGED <<view, held, late, want>>

(* The settling time is over. *)
Settle ==
  /\ sm.phase = "ticked" \/ (sm.phase = "new" /\ sm.short)
  /\ sm' = [sm EXCEPT !.phase = "due"]
  /\ UNCHANGED <<view, dev, held, late, want>>

DelayStartTimer ==
  /\ late
  /\ late' = FALSE
  /\ sm' = [sm EXCEPT !.timer = TRUE]
  /\ UNCHANGED <<view, dev, held, want>>

LatchOver ==
  /\ dev.latched
  /\ dev' = [dev EXCEPT !.latched = FALSE]
  /\ UNCHANGED <<view, sm, held, late, want>>

RewriteLeds ==
  /\ dev.refresh /\ dev.on
  /\ dev' = [dev EXCEPT !.lit = dev.values]
  /\ UNCHANGED <<view, sm, held, late, want>>

-----------------------------------------------------------------------------
Step ==
  \/ \E frame \in Pictures \union {Black}, cfg \in CfgIds : Show(frame, cfg)
  \/ \E new \in Settings, enable \in BOOLEAN : SmoothingSettings(new, enable)
  \/ \E latch \in Latches : DeviceSettings(latch)
  \/ \E enable \in BOOLEAN : ToggleSmoothing(enable) \/ ToggleDevice(enable)
  \/ Arrive
  \/ Approach
  \/ Settle
  \/ DelayStartTimer
  \/ LatchOver
  \/ RewriteLeds

(* A program that wrote past the end of a vector may do anything; nothing is *)
(* said of it.                                                               *)
Next ==
  \/ ~sm.overrun /\ Step
  \/ sm.overrun /\ UNCHANGED vars

Spec == Init /\ [][Next]_vars

(* The event loop serves the timers, and time passes.  Arrive is due after   *)
(* at most 255 ticks, though new frames may come between them.  A write that *)
(* the latch time refuses does not extend it.                                *)
Fairness ==
  /\ SF_vars(Arrive /\ ~dev.latched /\ ~sm.overrun)
  /\ WF_vars(LatchOver /\ ~sm.overrun)
  /\ WF_vars(Settle /\ ~sm.overrun)
  /\ WF_vars(DelayStartTimer /\ ~sm.overrun)

FairSpec == Spec /\ Fairness

-----------------------------------------------------------------------------
Longest == CHOOSE n \in {c.delay : c \in Settings} : \A c \in Settings : c.delay <= n

TypeOK ==
  /\ view \in [frame : Pictures \union {Black}, cfg : CfgIds]
  /\ sm \in [on : BOOLEAN, cfg : CfgIds, settings : Settings,
             interval : Nat, delay : Nat, short : BOOLEAN, timer : BOOLEAN,
             prev : Values, target : Values, phase : {"new", "ticked", "due", "zero"},
             write : BOOLEAN, queue : Seq(Values), overrun : BOOLEAN]
  /\ dev \in [on : BOOLEAN, values : Values, latch : Latches, latched : BOOLEAN,
              refresh : BOOLEAN, lit : Values]
  /\ held \in BOOLEAN /\ late \in BOOLEAN
  /\ want \in Values

(* The output queue holds at most the longest delay that was configured. *)
QueueBounded == Len(sm.queue) <= Longest

(* A smoothing that took a frame gets to write it: nothing but its timer    *)
(* does, and stopTimer(), selectConfig() and setEnable() all touch that.     *)
FedSmoothingRuns ==
  sm.on /\ sm.prev # NoFrame => sm.timer \/ late

(* The smoothing neither hoards frames nor stops with one in hand           *)
(* (queueColors(), selectConfig()).                                         *)
SmoothingSound == QueueBounded /\ FedSmoothingRuns

(* A frame may be dropped for good: by the latch time when nothing repeats   *)
(* it, and by a smoothing that settles before its timer fires and is not     *)
(* continuous.  A timer that runs without a frame overwrites the leds.       *)
Drops ==
  IF sm.on THEN ~sm.settings.continuous /\ (sm.short \/ dev.latch)
                          ELSE dev.latch

Idle == sm.timer /\ sm.prev = NoFrame

(* In all other cases a frame of update() reaches the leds, through smoothing, *)
(* delay and changes of the settings, unless a newer one takes its place, the  *)
(* device is built anew over and over, or write() ran past its target.         *)
DeviceStays == <>[][~ \E latch \in Latches : DeviceSettings(latch)]_vars

Shown ==
  DeviceStays =>
    \A frame \in Pictures \union {Black} :
      (want = frame /\ held)
        ~> (dev.lit = frame \/ want # frame \/ ~held \/ Drops \/ Idle \/ sm.overrun)

=============================================================================
