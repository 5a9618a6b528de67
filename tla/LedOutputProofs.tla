---------------------------- MODULE LedOutputProofs ----------------------------
(***************************************************************************)
(* Proofs about the way out of the program.  The smoothing never hoards    *)
(* frames and never stops with one in hand, for every set of settings,     *)
(* cfgs and pictures.  SmoothingSound is not inductive: the queue is       *)
(* popped against the delay of the selected cfg, so that one has to be     *)
(* among those that were configured, and a smoothing that was switched off *)
(* with a frame would wake up with it.  Behind it the devices: every pack  *)
(* on the bus has one owner or none, for every set of packs, a serial port *)
(* is never blocked for ever, and Hue lamps show the last frame or what    *)
(* their user had.                                                         *)
(***************************************************************************)
EXTENDS LedOutput, SerialPort, UsbDevices, HueLights, FiniteSetTheorems, SequenceTheorems, WellFoundedInduction, TLAPS

Phases == {"new", "ticked", "due", "zero"}

SmType(s) ==
  s \in [on : BOOLEAN, cfg : CfgIds, settings : Settings, interval : Nat, delay : Nat,
         short : BOOLEAN, timer : BOOLEAN, prev : Values, target : Values, phase : Phases,
         write : BOOLEAN, queue : Seq(Values), overrun : BOOLEAN]

(* lt: a startTimerDelayed() is pending *)
SmSound(s, lt) ==
  /\ SmType(s)
  /\ s.delay <= Longest
  /\ Len(s.queue) <= Longest
  /\ ~s.on => s.prev = NoFrame
  /\ s.on /\ s.prev # NoFrame => s.timer \/ lt

OutInv ==
  /\ SmSound(sm, late)
  /\ view \in [frame : Pictures \union {Black}, cfg : CfgIds]
  /\ late \in BOOLEAN

-----------------------------------------------------------------------------
(* There is a longest delay: the settings bound it.  The bounds of all     *)
(* delays are numbers, so there is a least one, and that is a delay.       *)
LEMMA LongestFacts ==
  /\ Longest \in Nat
  /\ \A c \in Settings : c.delay <= Longest
<1> DEFINE Given == {c.delay : c \in Settings}
           Bounds == {n \in Nat : \A d \in Given : d <= n}
<1>1. Given # {} /\ Given \subseteq 0 .. MaxDelay
  BY SettingsAssumption DEF SettingsType
<1>2. /\ MaxDelay \in Nat
      /\ \A d \in Given : d \in Nat /\ d <= MaxDelay
  <2>1. \A d \in 0 .. MaxDelay : d \in Nat /\ d <= MaxDelay
    BY DEF MaxDelay
  <2> HIDE DEF Given
  <2> QED
    BY <1>1, <2>1 DEF MaxDelay
<1> HIDE DEF Given
<1>3. PICK n \in Bounds : \A k \in Bounds : ~(k < n)
  <2>1. IsWellFoundedOn(OpToRel(<, Nat), Nat)
    BY NatLessThanWellFounded
  <2>2. Bounds \subseteq Nat /\ MaxDelay \in Bounds
    BY <1>2
  <2> HIDE DEF Bounds
  <2>3. \E n \in Bounds : \A k \in Bounds : ~(<<k, n>> \in OpToRel(<, Nat))
    BY <2>1, <2>2, WFMin
  <2> QED
    BY <2>2, <2>3 DEF OpToRel
<1>4. n \in Given
  <2>1. SUFFICES ASSUME n \notin Given PROVE FALSE
    OBVIOUS
  <2>2. n \in Nat /\ \A d \in Given : d \in Nat /\ d <= n /\ d # n
    BY <1>2, <2>1
  <2>3. \A d \in Given : d <= n - 1
    BY <2>2
  <2>4. n > 0
    <3>1. PICK d \in Given : TRUE
      BY <1>1
    <3> QED
      BY <2>2
  <2>5. n - 1 \in Bounds
    BY <2>2, <2>3, <2>4
  <2> QED
    BY <1>3, <2>2, <2>5
<1>5. \E m \in Given : \A c \in Settings : c.delay <= m
  BY <1>4 DEF Given
<1>6. Longest \in Given /\ \A c \in Settings : c.delay <= Longest
  BY <1>5 DEF Longest, Given
<1>7. Longest \in Nat
  BY <1>2, <1>6
<1> QED
  BY <1>6, <1>7

LEMMA ValuesFacts ==
  /\ NoFrame \in Values /\ Black \in Values /\ Between \in Values
  /\ Pictures \union {Black} \subseteq Values
BY DEF Values

LEMMA CfgFacts ==
  ASSUME NEW s, SmType(s), NEW id \in CfgIds
  PROVE  LET c == Cfg(s, id)
         IN  c.delay \in Nat /\ c.delay <= Longest /\ c.interval \in Nat /\ c.short \in BOOLEAN
<1>1. CASE id = 0
  <2>1. Cfg(s, id) = s.settings /\ s.settings \in Settings
    BY <1>1 DEF Cfg, SmType
  <2>2. s.settings \in SettingsType
    BY <2>1, SettingsAssumption
  <2>3. /\ s.settings.delay \in 0 .. MaxDelay /\ s.settings.interval \in Nat
        /\ s.settings.short \in BOOLEAN
    BY <2>2 DEF SettingsType
  <2>4. 0 .. MaxDelay \subseteq Nat
    BY DEF MaxDelay
  <2> QED
    BY <2>1, <2>3, <2>4, LongestFacts
<1>2. CASE id # 0
  <2>1. id \in DOMAIN Customs /\ Cfg(s, id) = Customs[id]
    BY <1>2 DEF CfgIds, Cfg
  <2> DEFINE C == [interval : Nat \ {0}, delay : {0}, short : BOOLEAN]
  <2>2. Customs \in Seq(C)
    BY CustomsAssumption
  <2>3. \A c \in C : c.interval \in Nat /\ c.delay = 0 /\ c.short \in BOOLEAN
    OBVIOUS
  <2> HIDE DEF C
  <2>4. Customs[id] \in C
    BY <2>1, <2>2
  <2> DEFINE c == Cfg(s, id)
  <2>5. c \in C
    BY <2>1, <2>4
  <2> HIDE DEF c
  <2>6. c.interval \in Nat /\ c.delay = 0 /\ c.short \in BOOLEAN
    BY <2>3, <2>5
  <2>7. c.delay \in Nat /\ c.delay <= Longest
    BY <2>6, LongestFacts
  <2> QED
    BY <2>6, <2>7 DEF c
<1> QED
  BY <1>1, <1>2

-----------------------------------------------------------------------------
(* The operators keep a smoothing sound. *)
LEMMA SelectConfigSound ==
  ASSUME NEW s, NEW lt, SmSound(s, lt), NEW id \in CfgIds, NEW force \in BOOLEAN
  PROVE  SmSound(SelectConfig(s, id, force), lt)
<1>1. CASE s.cfg = id /\ ~force
  BY <1>1 DEF SelectConfig
<1>2. CASE ~(s.cfg = id /\ ~force)
  <2> DEFINE c == Cfg(s, id)
             timer == s.timer \/ c.interval # s.interval
             r == [s EXCEPT !.cfg = id, !.delay = c.delay, !.short = c.short,
                            !.interval = c.interval, !.timer = timer]
  <2>1. /\ c.delay \in Nat /\ c.delay <= Longest /\ c.interval \in Nat /\ c.short \in BOOLEAN
        /\ timer \in BOOLEAN
    BY CfgFacts DEF SmSound
  <2>2. SelectConfig(s, id, force) = r
    BY <1>2 DEF SelectConfig
  <2> HIDE DEF c
  <2>3. s.timer => timer
    OBVIOUS
  <2> HIDE DEF timer
  <2>4. SmType(r) /\ r.delay = c.delay /\ r.queue = s.queue /\ r.on = s.on
        /\ r.prev = s.prev /\ r.timer = timer
    BY <2>1 DEF SmSound, SmType
  <2> HIDE DEF r
  <2> QED
    BY <2>1, <2>2, <2>3, <2>4 DEF SmSound
<1> QED
  BY <1>1, <1>2

LEMMA FeedSound ==
  ASSUME NEW s, NEW lt, SmSound(s, lt), NEW frame \in Values, NEW longer \in BOOLEAN
  PROVE  SmSound(Feed(s, frame, longer), lt)
<1>1. CASE ~s.on
  BY <1>1 DEF Feed
<1>2. CASE s.on /\ s.prev = NoFrame
  <2> DEFINE r == [s EXCEPT !.target = frame, !.phase = "new", !.prev = frame, !.timer = TRUE]
  <2>1. SmType(r) /\ r.delay = s.delay /\ r.queue = s.queue /\ r.on = s.on /\ r.timer
    BY DEF SmSound, SmType, Phases
  <2>2. Feed(s, frame, longer) = r
    BY <1>2 DEF Feed
  <2> HIDE DEF r
  <2> QED
    BY <1>2, <2>1, <2>2 DEF SmSound
<1>3. CASE s.on /\ s.prev # NoFrame
  <2> DEFINE overrun == s.overrun \/ longer
             r == [s EXCEPT !.target = frame, !.phase = "new", !.overrun = overrun]
  <2>0. overrun \in BOOLEAN
    BY DEF SmSound, SmType
  <2>2. Feed(s, frame, longer) = r
    BY <1>3 DEF Feed
  <2> HIDE DEF overrun
  <2>1. /\ SmType(r) /\ r.delay = s.delay /\ r.queue = s.queue /\ r.on = s.on
        /\ r.timer = s.timer /\ r.prev = s.prev
    BY <2>0 DEF SmSound, SmType, Phases
  <2> HIDE DEF r
  <2> QED
    BY <2>1, <2>2 DEF SmSound
<1> QED
  BY <1>1, <1>2, <1>3

LEMMA SetEnableSound ==
  ASSUME NEW s, NEW lt, SmSound(s, lt), NEW enable \in BOOLEAN
  PROVE  SmSound(SetEnable(s, enable), lt)
<1>1. CASE enable
  <2> DEFINE r == [s EXCEPT !.on = TRUE]
  <2>1. /\ SmType(r) /\ r.delay = s.delay /\ r.queue = s.queue /\ r.on
        /\ r.timer = s.timer /\ r.prev = s.prev
    BY DEF SmSound, SmType
  <2>2. SetEnable(s, enable) = r
    BY <1>1 DEF SetEnable
  <2> HIDE DEF r
  <2> QED
    BY <2>1, <2>2 DEF SmSound, SmType
<1>2. CASE ~enable
  <2> DEFINE black == [i \in DOMAIN s.queue |-> BlackOf(s.target)]
             off == [s EXCEPT !.target = BlackOf(@), !.phase = "zero", !.queue = black]
             u == IF s.on THEN off ELSE s
             r == [u EXCEPT !.on = FALSE, !.timer = FALSE, !.prev = NoFrame]
  <2>1. BlackOf(s.target) \in Values
    BY ValuesFacts DEF BlackOf
  <2>2. black \in Seq(Values) /\ Len(black) = Len(s.queue)
    BY <2>1 DEF SmSound, SmType
  <2> HIDE DEF black
  <2>3. SmType(off) /\ off.delay = s.delay /\ off.queue = black
    BY <2>1, <2>2 DEF SmSound, SmType, Phases
  <2>4. SetEnable(s, enable) = r
    BY <1>2 DEF SetEnable, SwitchOff, off, black
  <2> HIDE DEF off
  <2>5. SmType(u) /\ u.delay = s.delay /\ Len(u.queue) = Len(s.queue)
    BY <2>2, <2>3 DEF SmSound
  <2> HIDE DEF u
  <2>6. SmType(r) /\ r.delay = u.delay /\ r.queue = u.queue /\ ~r.on /\ r.prev = NoFrame
    BY <2>5, ValuesFacts DEF SmType
  <2> HIDE DEF r
  <2> QED
    BY <2>4, <2>5, <2>6 DEF SmSound
<1> QED
  BY <1>1, <1>2

LEMMA ApplySettingsSound ==
  ASSUME NEW s, NEW lt, SmSound(s, lt), NEW new \in Settings, NEW enable \in BOOLEAN
  PROVE  SmSound(ApplySettings(s, new, enable), lt)
<1> DEFINE t == [s EXCEPT !.settings = new]
           u == IF s.cfg = 0 THEN SelectConfig(t, 0, TRUE) ELSE t
<1>1. /\ SmType(t) /\ t.delay = s.delay /\ t.queue = s.queue /\ t.on = s.on
      /\ t.timer = s.timer /\ t.prev = s.prev
  BY DEF SmSound, SmType
<1>2. ApplySettings(s, new, enable) = IF u.on # enable THEN SetEnable(u, enable) ELSE u
  BY DEF ApplySettings
<1> HIDE DEF t
<1>3. SmSound(t, lt)
  BY <1>1 DEF SmSound
<1>4. SmSound(SelectConfig(t, 0, TRUE), lt)
  BY <1>3, SelectConfigSound DEF CfgIds
<1>5. SmSound(u, lt)
  BY <1>3, <1>4
<1> HIDE DEF u
<1> QED
  BY <1>2, <1>5, SetEnableSound

LEMMA UpdatedSound ==
  ASSUME NEW s, NEW lt, SmSound(s, lt), NEW d, NEW longer \in BOOLEAN,
         NEW v \in [frame : Pictures \union {Black}, cfg : CfgIds]
  PROVE  SmSound(Updated(s, d, v, longer).sm, lt)
<1> DEFINE g == SelectConfig(s, v.cfg, FALSE)
           fed == Feed(g, v.frame, longer)
<1>1. SmSound(g, lt)
  BY SelectConfigSound
<1>2. v.frame \in Values
  BY ValuesFacts
<1> HIDE DEF g
<1>3. SmSound(fed, lt)
  BY <1>1, <1>2, FeedSound
<1>4. Updated(s, d, v, longer).sm = IF d.on THEN fed ELSE s
  BY DEF Updated, g
<1> QED
  BY <1>3, <1>4

(* A tick appends at most one frame and, with the queue full, takes one out. *)
LEMMA QueueColorsSound ==
  ASSUME NEW s, NEW lt, SmSound(s, lt), NEW over \in BOOLEAN, QueueColors(s, over)
  PROVE  SmSound(sm', lt)
<1> DEFINE Q == Queued(s)
           queue == CASE s.delay = 0               -> s.queue
                      [] s.delay # 0 /\ Pops(s)    -> Tail(Q)
                      [] s.delay # 0 /\ ~Pops(s)   -> Q
           write == IF over THEN s.settings.continuous ELSE s.write
<1>1. sm' = [s EXCEPT !.queue = queue, !.write = write]
  BY DEF QueueColors
<1>2. s.queue \in Seq(Values) /\ s.prev \in Values /\ s.write \in BOOLEAN /\ s.delay \in Nat
  BY DEF SmSound, SmType
<1>3. /\ Q \in Seq(Values)
      /\ Len(Q) <= Len(s.queue) + 1
      /\ ~s.write => Q = s.queue
  BY <1>2 DEF Queued
<1>4. Pops(s) <=> Q # <<>> /\ (Len(Q) > s.delay \/ ~s.write)
  BY DEF Pops
<1>5. /\ s.delay = 0 => queue = s.queue
      /\ s.delay # 0 /\ Pops(s) => queue = Tail(Q)
      /\ s.delay # 0 /\ ~Pops(s) => queue = Q
  OBVIOUS
<1> HIDE DEF queue, Q
<1>6. queue \in Seq(Values) /\ Len(queue) <= Longest
  <2>1. /\ s.delay <= Longest /\ Len(s.queue) <= Longest /\ Longest \in Nat
        /\ Len(Q) \in Nat /\ Len(s.queue) \in Nat
    BY <1>2, <1>3, LongestFacts DEF SmSound
  <2>2. CASE s.delay = 0
    BY <1>2, <1>5, <2>1, <2>2
  <2>3. CASE s.delay # 0 /\ Pops(s)
    <3>1. Q # <<>> /\ queue = Tail(Q)
      BY <1>4, <1>5, <2>3
    <3>2. Tail(Q) \in Seq(Values) /\ Len(Tail(Q)) = Len(Q) - 1
      BY <1>3, <3>1
    <3> QED
      BY <1>3, <2>1, <3>1, <3>2
  <2>4. CASE s.delay # 0 /\ ~Pops(s)
    <3>1. queue = Q
      BY <1>5, <2>4
    <3>2. Q = <<>> \/ ~(Len(Q) > s.delay)
      BY <1>4, <2>4
    <3>3. Len(Q) <= Longest
      BY <1>2, <2>1, <3>2
    <3> QED
      BY <1>3, <3>1, <3>3
  <2> QED
    BY <2>2, <2>3, <2>4
<1>7. write \in BOOLEAN
  <2>1. s.settings \in SettingsType
    BY SettingsAssumption DEF SmSound, SmType
  <2> QED
    BY <1>2, <2>1 DEF SettingsType
<1> HIDE DEF write
<1>8. /\ SmType(sm') /\ sm'.delay = s.delay /\ sm'.queue = queue /\ sm'.on = s.on
      /\ sm'.timer = s.timer /\ sm'.prev = s.prev
  BY <1>1, <1>6, <1>7 DEF SmSound, SmType
<1> QED
  BY <1>6, <1>8 DEF SmSound

-----------------------------------------------------------------------------
LEMMA OutInitInv == Init => OutInv
<1> SUFFICES ASSUME Init PROVE OutInv
  OBVIOUS
<1>1. PICK new \in Settings, enable \in BOOLEAN, latch \in Latches :
        sm = Updated(ApplySettings(NewSmoothing(new), new, enable), NewDevice(latch), view,
                     FALSE).sm
  BY DEF Init
<1>2. view \in [frame : Pictures \union {Black}, cfg : CfgIds] /\ late = FALSE
  BY DEF Init, CfgIds
<1> DEFINE s == NewSmoothing(new)
<1>3. SmSound(s, late)
  <2>1. new \in SettingsType /\ 0 .. MaxDelay \subseteq Nat
    BY SettingsAssumption DEF MaxDelay
  <2>2. new.interval \in Nat /\ new.delay \in Nat /\ new.short \in BOOLEAN
    BY <2>1 DEF SettingsType
  <2>3. <<>> \in Seq(Values) /\ Len(<<>>) = 0
    OBVIOUS
  <2>4. SmType(s) /\ s.delay = new.delay /\ s.queue = <<>> /\ s.on /\ s.timer
    BY <2>2, <2>3, ValuesFacts DEF SmType, NewSmoothing, CfgIds, Phases
  <2> HIDE DEF s
  <2> QED
    BY <2>3, <2>4, LongestFacts DEF SmSound
<1> HIDE DEF s
<1>4. SmSound(ApplySettings(s, new, enable), late)
  BY <1>3, ApplySettingsSound
<1>5. SmSound(sm, late)
  BY <1>1, <1>2, <1>4, UpdatedSound DEF s
<1> QED
  BY <1>2, <1>5 DEF OutInv

(* The timers and the switches touch one field or two. *)
LEMMA TimersInv ==
  ASSUME OutInv, Settle \/ DelayStartTimer \/ LatchOver \/ RewriteLeds
  PROVE  OutInv'
<1>1. CASE Settle
  <2>1. SmType(sm') /\ sm'.delay = sm.delay /\ sm'.queue = sm.queue /\ sm'.on = sm.on
        /\ sm'.timer = sm.timer /\ sm'.prev = sm.prev
    BY <1>1 DEF Settle, OutInv, SmSound, SmType, Phases
  <2> QED
    BY <1>1, <2>1 DEF Settle, OutInv, SmSound
<1>2. CASE DelayStartTimer
  <2>1. SmType(sm') /\ sm'.delay = sm.delay /\ sm'.queue = sm.queue /\ sm'.on = sm.on
        /\ sm'.timer /\ sm'.prev = sm.prev
    BY <1>2 DEF DelayStartTimer, OutInv, SmSound, SmType
  <2> QED
    BY <1>2, <2>1 DEF DelayStartTimer, OutInv, SmSound
<1>3. CASE LatchOver \/ RewriteLeds
  BY <1>3 DEF LatchOver, RewriteLeds, OutInv
<1> QED
  BY <1>1, <1>2, <1>3

LEMMA DeviceSettingsInv ==
  ASSUME OutInv, NEW latch, DeviceSettings(latch) PROVE OutInv'
<1> DEFINE s == [sm EXCEPT !.timer = FALSE]
<1>1. SmType(s) /\ s.delay = sm.delay /\ s.queue = sm.queue /\ s.on = sm.on /\ s.prev = sm.prev
  BY DEF OutInv, SmSound, SmType
<1>2. PICK longer \in BOOLEAN :
        /\ late' = (late \/ sm.on) /\ view' = view
        /\ sm' = Updated(s, NewDevice(latch), view, longer).sm
  BY DEF DeviceSettings, Update
<1> HIDE DEF s
<1>3. SmSound(s, late')
  BY <1>1, <1>2 DEF OutInv, SmSound
<1>4. SmSound(sm', late')
  BY <1>2, <1>3, UpdatedSound DEF OutInv
<1>5. late' \in BOOLEAN
  BY <1>2 DEF OutInv, SmSound, SmType
<1> QED
  BY <1>2, <1>4, <1>5 DEF OutInv

(* A tick of a running timer, whatever value it comes to. *)
LEMMA TickInv ==
  ASSUME OutInv, Arrive \/ Approach PROVE OutInv'
<1>1. PICK prev \in Values, write \in BOOLEAN, over \in BOOLEAN :
        /\ sm.timer /\ (sm.prev = NoFrame => prev = NoFrame)
        /\ QueueColors([sm EXCEPT !.prev = prev, !.phase = Ticked(sm), !.write = write], over)
        /\ UNCHANGED <<view, late>>
  <2>1. CASE Arrive
    <3>1. PICK over \in IsOver(sm) :
            QueueColors([sm EXCEPT !.prev = Arrived(sm), !.phase = Ticked(sm),
                                   !.write = sm.write \/ ~over], over)
      BY <2>1 DEF Arrive
    <3>2. over \in BOOLEAN
      BY DEF IsOver, OutInv, SmSound, SmType, Phases
    <3>3. Arrived(sm) \in Values /\ (sm.prev = NoFrame => Arrived(sm) = NoFrame)
      BY ValuesFacts DEF Arrived, OutInv, SmSound, SmType
    <3>4. (sm.write \/ ~over) \in BOOLEAN
      OBVIOUS
    <3> QED
      BY <2>1, <3>1, <3>2, <3>3, <3>4 DEF Arrive
  <2>2. CASE Approach
    BY <2>2, ValuesFacts DEF Approach
  <2> QED
    BY <2>1, <2>2
<1> DEFINE s == [sm EXCEPT !.prev = prev, !.phase = Ticked(sm), !.write = write]
<1>2. Ticked(sm) \in Phases
  BY DEF Ticked, Phases, OutInv, SmSound, SmType
<1>3. /\ SmType(s) /\ s.delay = sm.delay /\ s.queue = sm.queue /\ s.on = sm.on
      /\ s.timer = sm.timer /\ s.prev = prev
  BY <1>2 DEF OutInv, SmSound, SmType
<1> HIDE DEF s
<1>4. SmSound(s, late)
  BY <1>1, <1>3 DEF OutInv, SmSound
<1>5. SmSound(sm', late)
  BY <1>1, <1>4, QueueColorsSound DEF s
<1> QED
  BY <1>1, <1>5 DEF OutInv

LEMMA OutNextInv == OutInv /\ [Next]_vars => OutInv'
<1> SUFFICES ASSUME OutInv, [Next]_vars PROVE OutInv'
  OBVIOUS
<1> USE DEF OutInv
<1>1. ASSUME NEW frame \in Pictures \union {Black}, NEW cfg \in CfgIds, Show(frame, cfg)
      PROVE  OutInv'
  <2>1. PICK longer \in BOOLEAN :
          /\ view' = [frame |-> frame, cfg |-> cfg] /\ late' = late
          /\ sm' = Updated(sm, dev, view', longer).sm
    BY <1>1 DEF Show, Update
  <2> QED
    BY <2>1, UpdatedSound
<1>2. ASSUME NEW new \in Settings, NEW enable \in BOOLEAN, SmoothingSettings(new, enable)
      PROVE  OutInv'
  <2>1. PICK longer \in BOOLEAN :
          /\ sm' = Updated(ApplySettings(sm, new, enable), dev, view, longer).sm
          /\ view' = view /\ late' = late
    BY <1>2 DEF SmoothingSettings, Update
  <2>2. SmSound(ApplySettings(sm, new, enable), late)
    BY ApplySettingsSound
  <2> QED
    BY <2>1, <2>2, UpdatedSound
<1>3. ASSUME NEW latch \in Latches, DeviceSettings(latch) PROVE OutInv'
  BY <1>3, DeviceSettingsInv
<1>4. ASSUME NEW enable \in BOOLEAN, ToggleSmoothing(enable) PROVE OutInv'
  BY <1>4, SetEnableSound DEF ToggleSmoothing
<1>5. ASSUME NEW enable \in BOOLEAN, ToggleDevice(enable) PROVE OutInv'
  BY <1>5 DEF ToggleDevice
<1>6. CASE Arrive \/ Approach
  BY <1>6, TickInv
<1>7. CASE Settle \/ DelayStartTimer \/ LatchOver \/ RewriteLeds
  BY <1>7, TimersInv
<1>8. CASE UNCHANGED vars
  BY <1>8 DEF vars
<1> QED
  BY <1>1, <1>2, <1>3, <1>4, <1>5, <1>6, <1>7, <1>8 DEF Next, Step

(* The output queue is bounded by the longest configured delay, and        *)
(* selectConfig(), stopTimer() and setEnable() leave no smoothing that     *)
(* took a frame without a timer to write it.                               *)
THEOREM SmoothingIsSound == Spec => []SmoothingSound
<1>1. OutInv => SmoothingSound
  BY DEF OutInv, SmSound, SmoothingSound, QueueBounded, FedSmoothingRuns
<1> QED
  BY <1>1, OutInitInv, OutNextInv, PTL DEF Spec

-----------------------------------------------------------------------------
(* Lightpacks: those that were opened are all different, and of each pack  *)
(* handle, driver and claim say whether it is among them.  While devices   *)
(* are opened the rest of the list to try is of packs.                     *)
PackInv ==
  /\ lightpacks \in Seq(Packs) /\ bus \in Seq(Packs) /\ candidates \in Seq(Packs)
  /\ \A i, j \in DOMAIN lightpacks : lightpacks[i] = lightpacks[j] => i = j
  /\ claimed = Range(lightpacks)
  /\ handles \in [Packs -> {0, 1}] /\ driver \in [Packs -> BOOLEAN]
  /\ \A p \in Packs : (handles[p] = 1 <=> p \in claimed) /\ (driver[p] <=> p \notin claimed)

(* how often a pack was opened *)
Opened(p) == Cardinality({i \in DOMAIN lightpacks : lightpacks[i] = p})

LEMMA OpenedOnce ==
  ASSUME PackInv, NEW p \in Packs
  PROVE  /\ p \in claimed => Opened(p) = 1
         /\ p \notin claimed => Opened(p) = 0
<1>1. ASSUME p \in claimed PROVE Opened(p) = 1
  <2>1. PICK i \in DOMAIN lightpacks : lightpacks[i] = p
    BY <1>1 DEF PackInv, Range
  <2>2. {k \in DOMAIN lightpacks : lightpacks[k] = p} = {i}
    BY <2>1 DEF PackInv
  <2> QED
    BY <2>2, FS_Singleton DEF Opened
<1>2. ASSUME p \notin claimed PROVE Opened(p) = 0
  <2>1. {k \in DOMAIN lightpacks : lightpacks[k] = p} = {}
    BY <1>2 DEF PackInv, Range
  <2> QED
    BY <2>1, FS_EmptySet DEF Opened
<1> QED
  BY <1>1, <1>2

LEMMA PackInitInv == UsbInit => PackInv
<1> SUFFICES ASSUME UsbInit PROVE PackInv
  OBVIOUS
<1>1. bus \in Seq(Packs)
  BY DEF UsbInit
<1>2. lightpacks = <<>> /\ candidates = <<>> /\ Range(lightpacks) = {}
  BY DEF UsbInit, Range
<1>3. <<>> \in Seq(Packs) /\ claimed = {}
  BY DEF UsbInit
<1>4. handles = [p \in Packs |-> 0] /\ driver = [p \in Packs |-> TRUE]
  BY DEF UsbInit
<1> QED
  BY <1>1, <1>2, <1>3, <1>4 DEF PackInv

(* openDevice(): nothing is left open when it fails, and one that succeeds *)
(* is of a pack that nobody has.                                           *)
LEMMA OpenDeviceInv == ASSUME PackInv, NEW p \in Packs, OpenDevice(p) PROVE PackInv'
<1>1. bus' = bus /\ candidates # <<>> /\ Tail(candidates) \in Seq(Packs)
  BY DEF OpenDevice, PackInv
<1>2. CASE UNCHANGED <<handles, driver, claimed, lightpacks>> /\ candidates' = Tail(candidates)
  BY <1>1, <1>2 DEF PackInv
<1>3. CASE ClaimFails(p) /\ candidates' = Tail(candidates) /\ UNCHANGED <<claimed, lightpacks>>
  <2>1. driver' = [driver EXCEPT ![p] = (p \notin claimed)] /\ handles' = handles
    BY <1>3 DEF ClaimFails
  <2>2. driver' \in [Packs -> BOOLEAN] /\ \A q \in Packs : driver'[q] <=> q \notin claimed
    BY <2>1 DEF PackInv
  <2> QED
    BY <1>1, <1>3, <2>1, <2>2 DEF PackInv
<1>4. CASE /\ p \notin claimed
           /\ handles' = [handles EXCEPT ![p] = @ + 1]
           /\ driver' = [driver EXCEPT ![p] = FALSE]
           /\ claimed' = claimed \union {p}
           /\ lightpacks' = Append(lightpacks, p)
           /\ NextSerial
  <2>1. /\ lightpacks' \in Seq(Packs) /\ Len(lightpacks') = Len(lightpacks) + 1
        /\ \A i \in 1 .. Len(lightpacks) : lightpacks'[i] = lightpacks[i]
        /\ lightpacks'[Len(lightpacks) + 1] = p
    BY <1>4 DEF PackInv
  <2>2. DOMAIN lightpacks' = DOMAIN lightpacks \union {Len(lightpacks) + 1}
    BY <2>1 DEF PackInv
  <2>3. \A i \in DOMAIN lightpacks : lightpacks[i] \in claimed
    BY DEF PackInv, Range
  <2>4. \A i, j \in DOMAIN lightpacks' : lightpacks'[i] = lightpacks'[j] => i = j
    BY <1>4, <2>1, <2>2, <2>3 DEF PackInv
  <2>5. Range(lightpacks') = claimed \union {p}
    <3>1. \A i \in DOMAIN lightpacks : lightpacks'[i] = lightpacks[i]
      <4>1. DOMAIN lightpacks = 1 .. Len(lightpacks)
        BY DEF PackInv
      <4> QED
        BY <2>1, <4>1
    <3>2. Range(lightpacks') \subseteq Range(lightpacks) \union {p}
      <4>1. ASSUME NEW k \in DOMAIN lightpacks'
            PROVE  lightpacks'[k] \in Range(lightpacks) \union {p}
        <5>1. CASE k \in DOMAIN lightpacks
          BY <3>1, <5>1 DEF Range
        <5>2. CASE k = Len(lightpacks) + 1
          BY <2>1, <5>2
        <5> QED
          BY <2>2, <5>1, <5>2
      <4> QED
        BY <4>1 DEF Range
    <3>3. Range(lightpacks) \subseteq Range(lightpacks')
      BY <2>2, <3>1 DEF Range
    <3>4. p \in Range(lightpacks')
      BY <2>1, <2>2 DEF Range
    <3> QED
      BY <3>2, <3>3, <3>4 DEF PackInv
  <2>6. handles' \in [Packs -> {0, 1}] /\ \A q \in Packs : handles'[q] = 1 <=> q \in claimed'
    <3>1. handles[p] = 0
      BY <1>4 DEF PackInv
    <3> QED
      BY <1>4, <3>1 DEF PackInv
  <2>7. driver' \in [Packs -> BOOLEAN] /\ \A q \in Packs : driver'[q] <=> q \notin claimed'
    BY <1>4 DEF PackInv
  <2> QED
    BY <1>1, <1>4, <2>1, <2>4, <2>5, <2>6, <2>7 DEF PackInv, NextSerial
<1> QED
  BY <1>2, <1>3, <1>4 DEF OpenDevice

(* the destructors give back exactly what was taken *)
LEMMA CloseDevicesInv == ASSUME PackInv, CloseDevices PROVE PackInv'
<1>1. lightpacks' = <<>> /\ Range(lightpacks') = {} /\ claimed' = {}
  BY DEF CloseDevices, PackInv, Range
<1>2. ASSUME NEW p \in Packs PROVE handles[p] - Opened(p) = 0
  <2>1. handles[p] \in {0, 1} /\ (handles[p] = 1 <=> p \in claimed)
    BY DEF PackInv
  <2> QED
    BY <2>1, OpenedOnce
<1>3. handles' = [p \in Packs |-> handles[p] - Opened(p)]
  BY DEF CloseDevices, Opened
<1>4. handles' = [p \in Packs |-> 0]
  BY <1>2, <1>3
<1>5. ASSUME NEW p \in Packs PROVE driver[p] \/ \E i \in DOMAIN lightpacks : lightpacks[i] = p
  BY <1>5 DEF PackInv, Range
<1>6. driver' = [p \in Packs |-> TRUE]
  BY <1>5 DEF CloseDevices
<1>7. bus' = bus /\ candidates' = candidates /\ <<>> \in Seq(Packs)
  BY DEF CloseDevices
<1> QED
  BY <1>1, <1>4, <1>6, <1>7 DEF PackInv

LEMMA PackNextInv == PackInv /\ [UsbNext]_usbVars => PackInv'
<1> SUFFICES ASSUME PackInv, [UsbNext]_usbVars PROVE PackInv'
  OBVIOUS
<1>1. ASSUME NEW readable \in SUBSET Packs, GetLightpackSerials(readable) PROVE PackInv'
  BY <1>1 DEF GetLightpackSerials, PackInv
<1>2. CASE PassOver
  BY <1>2 DEF PassOver, PackInv
<1>3. CASE GiveUp
  BY <1>3 DEF GiveUp, NextSerial, PackInv
<1>4. CASE CloseDevices
  BY <1>4, CloseDevicesInv
<1>5. ASSUME NEW p \in Packs, OpenDevice(p) PROVE PackInv'
  BY <1>5, OpenDeviceInv
<1>6. ASSUME NEW order \in [DOMAIN bus -> Range(bus)], Replug(order) PROVE PackInv'
  <2>1. Range(bus) \subseteq Packs /\ DOMAIN bus = 1 .. Len(bus) /\ Len(bus) \in Nat
    BY DEF PackInv, Range
  <2>2. order \in Seq(Packs)
    BY <2>1
  <2> QED
    BY <1>6, <2>2 DEF Replug, PackInv
<1>7. CASE HidWrite \/ HidUnblock \/ HidPlug \/ UNCHANGED usbVars
  BY <1>7 DEF HidWrite, HidUnblock, HidPlug, usbVars, packVars, PackInv
<1> QED
  BY <1>1, <1>2, <1>3, <1>4, <1>5, <1>6, <1>7 DEF UsbNext

(* Whatever call to libusb failed while a device was opened, a pack has    *)
(* one owner with one handle, or is closed and with the kernel's driver    *)
(* (LedDeviceLightpack::openDevice(), its destructor, and                  *)
(* LedDeviceMultiLightpack::open()).                                       *)
THEOREM PacksAreReleased == UsbSpec => []PacksReleased
<1>1. PackInv => PacksReleased
  <2> SUFFICES ASSUME PackInv, NEW p \in Packs
               PROVE  /\ Opened(p) =< 1 /\ handles[p] = Opened(p)
                      /\ (p \in claimed <=> Opened(p) = 1) /\ (driver[p] <=> Opened(p) = 0)
    BY DEF PacksReleased, Opened
  <2>1. /\ handles[p] \in {0, 1} /\ (handles[p] = 1 <=> p \in claimed)
        /\ driver[p] <=> p \notin claimed
    BY DEF PackInv
  <2> QED
    BY <2>1, OpenedOnce
<1> QED
  BY <1>1, PackInitInv, PackNextInv, PTL DEF UsbSpec

-----------------------------------------------------------------------------
(* A port is blocked only with a shot: single shots are never cancelled,   *)
(* the ones that end unblock, and time leaves none of them out.            *)
LEMMA BlockNextInv == BlockEnds /\ [SerialNext]_serialVars => BlockEnds'
<1> SUFFICES ASSUME BlockEnds, [SerialNext]_serialVars PROVE BlockEnds'
  OBVIOUS
<1>1. CASE PortSetLedValues \/ PortRewriteLeds \/ PortSetEnable
  <2>1. (blocked' => shots' # {}) \/ WriteBytes \/ UNCHANGED <<blocked, shots>>
    BY <1>1 DEF PortSetLedValues, PortRewriteLeds, PortSetEnable
  <2>2. ASSUME NEW delay, Block(delay) PROVE shots' # {}
    BY <2>2 DEF Block
  <2>3. ASSUME WriteBytes PROVE BlockEnds'
    BY <2>2, <2>3 DEF WriteBytes, TryOpen, BlockEnds
  <2> QED
    BY <2>1, <2>3 DEF BlockEnds
<1>2. CASE UnblockAfterDelay
  BY <1>2 DEF UnblockAfterDelay, BlockEnds
<1>3. CASE SerialTick
  <2>1. shots' = {Down(s) : s \in shots} /\ blocked' = blocked
    BY <1>3 DEF SerialTick
  <2> QED
    BY <2>1 DEF BlockEnds
<1>4. CASE Plug \/ OtherProcess
  BY <1>4 DEF Plug, OtherProcess, BlockEnds
<1>5. ASSUME NEW n \in 1 .. MaxOutgoing, BytesWritten(n) PROVE BlockEnds'
  BY <1>5 DEF BytesWritten, BlockEnds
<1>6. ASSUME NEW e \in Errors, PortError(e) PROVE BlockEnds'
  BY <1>6 DEF PortError, BlockEnds
<1>7. CASE UNCHANGED serialVars
  BY <1>7 DEF serialVars, BlockEnds
<1> QED
  BY <1>1, <1>2, <1>3, <1>4, <1>5, <1>6, <1>7 DEF SerialNext

(* A device that drops frames because it is blocked has a timer running    *)
(* that unblocks it, whatever errors, closes and openings came between     *)
(* (writeBytes(), tryOpen(), unblockAfterDelay()).                         *)
THEOREM BlocksEnd == SerialSpec => []BlockEnds
<1>1. SerialInit => BlockEnds
  BY DEF SerialInit, BlockEnds
<1> QED
  BY <1>1, BlockNextInv, PTL DEF SerialSpec

-----------------------------------------------------------------------------
(***************************************************************************)
(* Hue lamps.  What will be when the requests under way are done is told   *)
(* by a trail of states, one after each request.  At its end the lamps are *)
(* as the lights of the device say, or as the user had them while there    *)
(* are none; and wherever the bridge is asked for its lamps the trail is   *)
(* at a state of the user.                                                 *)
(***************************************************************************)

HueRequests == [get : BOOLEAN, puts : PutStates]
Lights ==
  [LightIds -> [power : {"on", "off"}, color : Points, original : [power : {"on", "off"}, color : Points \union {KEEP}]]]

HueType ==
  /\ before \in UserStates /\ lamps \in Lamps
  /\ requests \in Seq(HueRequests)
  /\ replies \in Seq(Lamps \union {NoLights})
  /\ lights \in Lights \union {NoLights}
  /\ colorsSet \in [LightIds -> DOMAIN Gamut] \union {NoLights}
  /\ hueEnabled \in BOOLEAN /\ askedInUse \in BOOLEAN /\ inTurn \in BOOLEAN

(* the user's state, as far as it is restored *)
UserLike(s) ==
  \A l \in LightIds : s[l].power = before[l].power /\ (s[l].power = "on" => s[l].color = before[l].color)

(* t is the trail of the requests q from state s *)
Trail(t, s, q) ==
  /\ t \in Seq(Lamps) /\ Len(t) = Len(q) + 1 /\ t[1] = s
  /\ \A i \in 1 .. Len(q) : t[i + 1] = Applied(t[i], q[i].puts) /\ (q[i].get => UserLike(t[i]))

(* what the device makes of state s, in which the requests leave the lamps *)
Driven(s) ==
  IF lights = NoLights THEN UserLike(s) /\ colorsSet = NoLights
  ELSE /\ \A l \in LightIds : /\ lights[l].original = OriginalState(before[l])
                              /\ s[l].power = lights[l].power
                              /\ before[l].power = "on" /\ s[l].power = "on" => s[l].color = lights[l].color
       /\ colorsSet = NoLights => UserLike(s)
       /\ colorsSet # NoLights => \A l \in LightIds :
            LET c == CiColor(colorsSet[l])
            IN lights[l].color = c /\ lights[l].power = IF c = DARK THEN "off" ELSE "on"

HueInv ==
  /\ HueType
  /\ ~hueEnabled => colorsSet = NoLights
  /\ ~askedInUse /\ inTurn =>
       /\ \A i \in 1 .. Len(replies) : replies[i] = NoLights \/ UserLike(replies[i])
       /\ \E t \in Seq(Lamps) : Trail(t, lamps, requests) /\ Driven(t[Len(t)])

LEMMA AppliedFacts ==
  ASSUME NEW s \in Lamps, NEW p \in PutStates
  PROVE  Applied(s, p) \in Lamps
<1>1. ASSUME NEW l \in LightIds
      PROVE  Applied(s, p)[l] \in [power : {"on", "off"}, color : Points]
  <2>1. /\ s[l] \in [power : {"on", "off"}, color : Points]
        /\ p[l] \in [power : {"on", "off", "keep"}, color : Points \union {KEEP}]
    BY DEF Lamps, PutStates
  <2> QED
    BY <2>1 DEF Applied
<1> QED
  BY <1>1 DEF Applied, Lamps

LEMMA NothingFacts == Nothing \in PutStates /\ GET \in HueRequests /\ \A s \in Lamps : Applied(s, Nothing) = s
<1>1. Nothing \in PutStates
  BY DEF Nothing, PutStates
<1>2. GET \in HueRequests
  BY <1>1, Zenon DEF GET, HueRequests
<1>3. ASSUME NEW s \in Lamps PROVE Applied(s, Nothing) = s
  <2>1. ASSUME NEW l \in LightIds PROVE Applied(s, Nothing)[l] = s[l]
    <3>1. s[l] \in [power : {"on", "off"}, color : Points]
      BY DEF Lamps
    <3> QED
      BY <3>1 DEF Applied, Nothing
  <2> QED
    BY <2>1 DEF Applied, Lamps
<1> QED
  BY <1>1, <1>2, <1>3

(* one more request *)
LEMMA TrailGrows ==
  ASSUME NEW s \in Lamps, NEW q \in Seq(HueRequests), NEW t \in Seq(Lamps), Trail(t, s, q),
         NEW r \in HueRequests, r.get => UserLike(t[Len(t)])
  PROVE  \E u \in Seq(Lamps) : Trail(u, s, q \o <<r>>) /\ u[Len(u)] = Applied(t[Len(t)], r.puts)
<1> DEFINE one == <<r>>
           a == Applied(t[Len(t)], r.puts)
           last == <<a>>
           q2 == q \o one
           u == t \o last
<1>1. Len(q) \in Nat /\ Len(t) = Len(q) + 1 /\ t[1] = s
      /\ \A i \in 1 .. Len(q) : t[i + 1] = Applied(t[i], q[i].puts) /\ (q[i].get => UserLike(t[i]))
  BY DEF Trail
<1>2. a \in Lamps
  <2>1. t[Len(t)] \in Lamps
    BY <1>1, ElementOfSeq
  <2>2. r.puts \in PutStates
    BY DEF HueRequests
  <2> QED
    BY <2>1, <2>2, AppliedFacts
<1> HIDE DEF a
<1>3. /\ one \in Seq(HueRequests) /\ Len(one) = 1 /\ one[1] = r
      /\ last \in Seq(Lamps) /\ Len(last) = 1 /\ last[1] = a
  BY <1>2
<1> HIDE DEF one, last
<1>4. /\ q2 \in Seq(HueRequests) /\ Len(q2) = Len(q) + 1
      /\ \A i \in 1 .. Len(q) + 1 : q2[i] = IF i <= Len(q) THEN q[i] ELSE one[i - Len(q)]
  BY <1>3, ConcatProperties
<1>5. /\ u \in Seq(Lamps) /\ Len(u) = Len(t) + 1
      /\ \A i \in 1 .. Len(t) + 1 : u[i] = IF i <= Len(t) THEN t[i] ELSE last[i - Len(t)]
  <2>1. last \in Seq(Lamps) /\ t \in Seq(Lamps)
    BY <1>3
  <2>2. /\ t \o last \in Seq(Lamps) /\ Len(t \o last) = Len(t) + Len(last)
        /\ \A i \in 1 .. Len(t) + Len(last) : (t \o last)[i] = IF i <= Len(t) THEN t[i] ELSE last[i - Len(t)]
    BY <2>1, ConcatProperties
  <2> QED
    BY <1>3, <2>2
<1> HIDE DEF q2, u
<1>6. u[1] = s /\ u[Len(u)] = a /\ Len(u) = Len(q2) + 1
  <2>1. 1 \in 1 .. Len(t) + 1 /\ 1 <= Len(t) /\ Len(u) \in 1 .. Len(t) + 1 /\ ~(Len(u) <= Len(t)) /\ Len(u) - Len(t) = 1
    BY <1>1, <1>5
  <2> QED
    BY <1>1, <1>3, <1>4, <1>5, <2>1
<1>7. ASSUME NEW i \in 1 .. Len(q2)
      PROVE  u[i + 1] = Applied(u[i], q2[i].puts) /\ (q2[i].get => UserLike(u[i]))
  <2>1. CASE i <= Len(q)
    <3>1. i \in 1 .. Len(q) /\ i \in 1 .. Len(q) + 1 /\ i \in 1 .. Len(t) + 1 /\ i <= Len(t)
          /\ i + 1 \in 1 .. Len(t) + 1 /\ i + 1 <= Len(t)
      BY <1>1, <1>4, <2>1
    <3>2. q2[i] = q[i] /\ u[i] = t[i] /\ u[i + 1] = t[i + 1]
      BY <1>4, <1>5, <2>1, <3>1
    <3> QED
      BY <1>1, <3>1, <3>2
  <2>2. CASE ~(i <= Len(q))
    <3>1. i = Len(q) + 1 /\ i = Len(t) /\ i \in 1 .. Len(q) + 1 /\ i \in 1 .. Len(t) + 1 /\ i <= Len(t)
          /\ i - Len(q) = 1 /\ i + 1 = Len(u)
      BY <1>1, <1>4, <1>5, <2>2
    <3>2. q2[i] = r /\ u[i] = t[Len(t)] /\ u[i + 1] = a
      BY <1>3, <1>4, <1>5, <1>6, <2>2, <3>1
    <3> QED
      BY <3>2 DEF a
  <2> QED
    BY <2>1, <2>2
<1>8. Trail(u, s, q2)
  BY <1>5, <1>6, <1>7 DEF Trail
<1> QED
  BY <1>5, <1>6, <1>8 DEF q2, one, a

(* the puts of one call more *)
LEMMA TrailPuts ==
  ASSUME NEW s \in Lamps, NEW q \in Seq(HueRequests), NEW t \in Seq(Lamps), Trail(t, s, q), NEW p \in PutStates
  PROVE  /\ Puts(p) \in Seq(HueRequests) /\ q \o Puts(p) \in Seq(HueRequests)
         /\ \E u \in Seq(Lamps) : Trail(u, s, q \o Puts(p)) /\ u[Len(u)] = Applied(t[Len(t)], p)
<1>1. CASE p = Nothing
  <2>1. Puts(p) = <<>>
    BY <1>1 DEF Puts
  <2>2. q \o <<>> = q /\ <<>> \in Seq(HueRequests)
    BY ConcatEmptySeq, EmptySeq
  <2>3. t[Len(t)] \in Lamps
    BY ElementOfSeq, LenProperties DEF Trail
  <2>4. Applied(t[Len(t)], p) = t[Len(t)]
    BY <1>1, <2>3, NothingFacts
  <2> QED
    BY <2>1, <2>2, <2>4
<1>2. CASE p # Nothing
  <2> DEFINE r == [get |-> FALSE, puts |-> p]
  <2>1. r \in HueRequests /\ ~r.get /\ r.puts = p
    BY Zenon DEF HueRequests
  <2>2. Puts(p) = <<r>>
    BY <1>2 DEF Puts
  <2> HIDE DEF r
  <2>3. <<r>> \in Seq(HueRequests)
    BY <2>1
  <2>4. q \o <<r>> \in Seq(HueRequests)
    BY <2>3, ConcatProperties
  <2>5. \E u \in Seq(Lamps) : Trail(u, s, q \o <<r>>) /\ u[Len(u)] = Applied(t[Len(t)], r.puts)
    BY <2>1, TrailGrows
  <2> QED
    BY <2>1, <2>2, <2>3, <2>4, <2>5
<1> QED
  BY <1>1, <1>2

(* the bridge takes the first request *)
LEMMA TrailTaken ==
  ASSUME NEW s \in Lamps, NEW q \in Seq(HueRequests), q # <<>>, NEW t \in Seq(Lamps), Trail(t, s, q)
  PROVE  /\ Head(q) \in HueRequests /\ Tail(q) \in Seq(HueRequests)
         /\ Head(q).get => UserLike(s)
         /\ \E u \in Seq(Lamps) : /\ Trail(u, Applied(s, Head(q).puts), Tail(q))
                                  /\ u[Len(u)] = t[Len(t)]
<1> DEFINE u == Tail(t)
           q2 == Tail(q)
<1>1. /\ Len(q) \in Nat \ {0} /\ Len(t) = Len(q) + 1 /\ t[1] = s
      /\ \A i \in 1 .. Len(q) : t[i + 1] = Applied(t[i], q[i].puts) /\ (q[i].get => UserLike(t[i]))
  BY EmptySeq DEF Trail
<1>2. t # <<>>
  BY <1>1, EmptySeq
<1>3. u \in Seq(Lamps) /\ Len(u) = Len(t) - 1 /\ \A i \in 1 .. Len(u) : u[i] = t[i + 1]
  BY <1>2, HeadTailProperties
<1>4. /\ q2 \in Seq(HueRequests) /\ Len(q2) = Len(q) - 1 /\ \A i \in 1 .. Len(q2) : q2[i] = q[i + 1]
      /\ Head(q) \in HueRequests /\ Head(q) = q[1]
  BY HeadTailProperties
<1> HIDE DEF u, q2
<1>5. 1 \in 1 .. Len(q) /\ 1 + 1 = 2 /\ 1 \in 1 .. Len(u)
  BY <1>1, <1>3
<1>6. u[1] = Applied(s, Head(q).puts) /\ (Head(q).get => UserLike(s))
  BY <1>1, <1>3, <1>4, <1>5
<1>7. ASSUME NEW i \in 1 .. Len(q2)
      PROVE  u[i + 1] = Applied(u[i], q2[i].puts) /\ (q2[i].get => UserLike(u[i]))
  <2>1. i + 1 \in 1 .. Len(q) /\ i \in 1 .. Len(u) /\ i + 1 \in 1 .. Len(u)
    BY <1>1, <1>3, <1>4
  <2>2. u[i] = t[i + 1] /\ u[i + 1] = t[(i + 1) + 1] /\ q2[i] = q[i + 1]
    BY <1>3, <1>4, <2>1
  <2> QED
    BY <1>1, <2>1, <2>2
<1>8. u[Len(u)] = t[Len(t)] /\ Len(u) = Len(q2) + 1
  <2>1. Len(u) \in 1 .. Len(u) /\ Len(u) + 1 = Len(t)
    BY <1>1, <1>3
  <2> QED
    BY <1>1, <1>3, <1>4, <2>1
<1>9. Trail(u, Applied(s, Head(q).puts), q2)
  BY <1>3, <1>6, <1>7, <1>8 DEF Trail
<1> QED
  BY <1>3, <1>4, <1>6, <1>8, <1>9 DEF q2

LEMMA PutsType == ASSUME NEW p \in PutStates PROVE Puts(p) \in Seq(HueRequests)
<1> DEFINE r == [get |-> FALSE, puts |-> p]
<1>1. r \in HueRequests
  BY Zenon DEF HueRequests
<1>2. Puts(p) = <<>> \/ Puts(p) = <<r>>
  BY DEF Puts
<1> HIDE DEF r
<1>3. <<r>> \in Seq(HueRequests)
  BY <1>1
<1>4. <<>> \in Seq(HueRequests)
  BY EmptySeq
<1> QED
  BY <1>2, <1>3, <1>4

LEMMA OriginalFacts ==
  ASSUME NEW s \in Lamps, NEW l \in LightIds
  PROVE  /\ s[l].power \in {"on", "off"} /\ s[l].color \in Points
         /\ OriginalState(s[l]) \in [power : {"on", "off"}, color : Points \union {KEEP}]
<1>1. s[l] \in [power : {"on", "off"}, color : Points]
  BY DEF Lamps
<1> QED
  BY <1>1 DEF OriginalState

(* lights that keep what the user had make the lamps the user's as they go *)
LEMMA RestoreFacts ==
  ASSUME before \in Lamps, NEW ls \in Lights \union {NoLights}, NEW s \in Lamps
  PROVE  \E p \in PutStates :
           /\ Restore(ls) = Puts(p)
           /\ \/ ls = NoLights /\ UserLike(s)
              \/ ls # NoLights /\ \A l \in LightIds : ls[l].original = OriginalState(before[l])
              => UserLike(Applied(s, p))
<1>1. CASE ls = NoLights
  <2>1. Restore(ls) = Puts(Nothing)
    BY <1>1 DEF Restore
  <2>2. Nothing \in PutStates /\ Applied(s, Nothing) = s
    BY NothingFacts
  <2> QED
    BY <1>1, <2>1, <2>2
<1>2. CASE ls # NoLights
  <2> DEFINE p == [l \in LightIds |-> ls[l].original]
  <2>1. ls \in Lights
    BY <1>2
  <2>2. p \in PutStates
    <3>1. ASSUME NEW l \in LightIds
          PROVE  ls[l].original \in [power : {"on", "off", "keep"}, color : Points \union {KEEP}]
      BY <2>1 DEF Lights
    <3> QED
      BY <3>1 DEF PutStates
  <2>3. Restore(ls) = Puts(p)
    BY <1>2 DEF Restore
  <2>4. ASSUME \A l \in LightIds : ls[l].original = OriginalState(before[l]), NEW l \in LightIds
        PROVE  /\ Applied(s, p)[l].power = before[l].power
               /\ Applied(s, p)[l].power = "on" => Applied(s, p)[l].color = before[l].color
    <3>1. p[l] = OriginalState(before[l])
      BY <2>4
    <3>2. before[l].power \in {"on", "off"} /\ before[l].color # KEEP
      BY OriginalFacts, HueAssumption
    <3> HIDE DEF p
    <3> QED
      BY <3>1, <3>2 DEF Applied, OriginalState
  <2>5. (\A l \in LightIds : ls[l].original = OriginalState(before[l])) => UserLike(Applied(s, p))
    BY <2>4 DEF UserLike
  <2> QED
    BY <1>2, <2>2, <2>3, <2>5
<1> QED
  BY <1>1, <1>2

LEMMA SomeLight ==
  ASSUME NEW f, NEW g, f = [l \in LightIds |-> f[l]], g = [l \in LightIds |-> g[l]], f # NoLights PROVE g # NoLights
<1> SUFFICES ASSUME g = NoLights PROVE FALSE
  OBVIOUS
<1>1. LightIds = {}
  BY DEF NoLights
<1> QED
  BY <1>1 DEF NoLights

(* the invariant after a step *)
LEMMA HueStep ==
  ASSUME UNCHANGED before, HueType', ~hueEnabled' => colorsSet' = NoLights,
         ~askedInUse' /\ inTurn' =>
           /\ \A i \in 1 .. Len(replies') : replies'[i] = NoLights \/ UserLike(replies'[i])
           /\ \E t \in Seq(Lamps) : Trail(t, lamps', requests') /\ Driven(t[Len(t)])'
  PROVE  HueInv'
BY DEF HueInv, Trail, UserLike

(* the trail there is, and where it ends *)
LEMMA TrailEnds ==
  ASSUME NEW s, NEW q \in Seq(HueRequests), NEW t \in Seq(Lamps), Trail(t, s, q)
  PROVE  t[Len(t)] \in Lamps
BY ElementOfSeq, LenProperties DEF Trail

LEMMA HueInitInv == HueInit => HueInv
<1> SUFFICES ASSUME HueInit PROVE HueInv
  OBVIOUS
<1> DEFINE none == <<>>
           t == <<before>>
<1>1. before \in UserStates /\ before \in Lamps /\ lamps = before /\ requests = <<GET>> /\ replies = <<>>
  BY HueAssumption DEF HueInit, BConnect
<1>2. none \in Seq(HueRequests) /\ Len(none) = 0 /\ <<>> \in Seq(Lamps \union {NoLights})
  BY EmptySeq
<1>3. t \in Seq(Lamps) /\ Len(t) = 1 /\ t[1] = before
  BY <1>1
<1>4. GET \in HueRequests /\ GET.puts = Nothing /\ Applied(before, Nothing) = before
  BY <1>1, NothingFacts DEF GET
<1>5. none \o <<GET>> = <<GET>> /\ <<GET>> \in Seq(HueRequests)
  <2>1. <<GET>> \in Seq(HueRequests)
    BY <1>4
  <2> QED
    BY <2>1, ConcatEmptySeq
<1>6. UserLike(before)
  BY DEF UserLike
<1> HIDE DEF none, t
<1>7. Trail(t, before, none)
  BY <1>2, <1>3 DEF Trail
<1>8. PICK u \in Seq(Lamps) : Trail(u, before, <<GET>>) /\ u[Len(u)] = before
  <2>1. t[Len(t)] = before /\ UserLike(t[Len(t)])
    BY <1>3, <1>6
  <2>2. \E u \in Seq(Lamps) : Trail(u, before, none \o <<GET>>) /\ u[Len(u)] = Applied(t[Len(t)], GET.puts)
    BY <1>1, <1>2, <1>3, <1>4, <1>7, <2>1, TrailGrows
  <2> QED
    BY <1>4, <1>5, <2>1, <2>2
<1>9. lights = NoLights /\ colorsSet = NoLights
  BY DEF HueInit
<1>10. Driven(u[Len(u)])
  BY <1>6, <1>8, <1>9 DEF Driven
<1>11. HueType
  <2>1. hueEnabled \in BOOLEAN /\ askedInUse \in BOOLEAN /\ inTurn \in BOOLEAN
    BY Zenon DEF HueInit
  <2> QED
    BY <1>1, <1>2, <1>5, <1>9, <2>1 DEF HueType
<1> QED
  BY <1>1, <1>2, <1>8, <1>9, <1>10, <1>11 DEF HueInv

(* the bridge is asked; while no lights are in use that is at a state of the user *)
LEMMA AskInv ==
  ASSUME HueInv, Send(BConnect), askedInUse' = (askedInUse \/ lights # NoLights),
         hueEnabled' \in BOOLEAN, ~hueEnabled' => colorsSet = NoLights,
         UNCHANGED <<before, lamps, replies, lights, colorsSet, inTurn>>
  PROVE  HueInv'
<1>1. requests' = requests \o <<GET>> /\ requests \in Seq(HueRequests) /\ lamps \in Lamps
  BY DEF Send, BConnect, HueInv, HueType
<1>2. GET \in HueRequests /\ GET.puts = Nothing
  BY NothingFacts DEF GET
<1>3. <<GET>> \in Seq(HueRequests)
  BY <1>2
<1>4. requests' \in Seq(HueRequests)
  BY <1>1, <1>3, ConcatProperties
<1>5. HueType'
  <2>1. askedInUse' \in BOOLEAN
    BY Zenon
  <2> QED
    BY <1>4, <2>1 DEF HueInv, HueType
<1>6. ASSUME ~askedInUse', inTurn'
      PROVE  /\ \A i \in 1 .. Len(replies') : replies'[i] = NoLights \/ UserLike(replies'[i])
             /\ \E u \in Seq(Lamps) : Trail(u, lamps', requests') /\ Driven(u[Len(u)])'
  <2>1. ~askedInUse /\ inTurn /\ lights = NoLights
    BY <1>6
  <2>2. PICK t \in Seq(Lamps) : Trail(t, lamps, requests) /\ Driven(t[Len(t)])
    BY <2>1 DEF HueInv
  <2>3. UserLike(t[Len(t)]) /\ colorsSet = NoLights
    BY <2>1, <2>2 DEF Driven
  <2>4. PICK u \in Seq(Lamps) : Trail(u, lamps, requests \o <<GET>>) /\ u[Len(u)] = Applied(t[Len(t)], GET.puts)
    BY <1>1, <1>2, <2>2, <2>3, TrailGrows
  <2>5. u[Len(u)] = t[Len(t)]
    <3>1. t[Len(t)] \in Lamps
      BY <1>1, <2>2, TrailEnds
    <3> QED
      BY <1>2, <2>4, <3>1, NothingFacts
  <2>6. Driven(u[Len(u)])'
    BY <2>1, <2>3, <2>5 DEF Driven, UserLike
  <2> QED
    BY <1>1, <2>1, <2>4, <2>6 DEF HueInv
<1> QED
  BY <1>5, <1>6, HueStep

LEMMA HueWriteInv == ASSUME HueInv, UNCHANGED before, NEW values \in [LightIds -> DOMAIN Gamut], HueWrite(values) PROVE HueInv'
<1> DEFINE c(l) == CiColor(values[l])
           power(l) == IF c(l) = DARK THEN "off" ELSE "on"
           p == [l \in LightIds |-> [power |-> SetOn(l, power(l)), color |-> SetColor(l, c(l))]]
<1>1. /\ hueEnabled /\ lights # NoLights /\ requests' = requests \o Puts(p)
      /\ lights' = [l \in LightIds |-> [lights[l] EXCEPT !.power = power(l), !.color = c(l)]]
      /\ colorsSet' = values /\ UNCHANGED <<before, lamps, replies, hueEnabled, askedInUse, inTurn>>
  BY DEF HueWrite, Send
<1>2. /\ lights \in Lights /\ lamps \in Lamps /\ requests \in Seq(HueRequests) /\ before \in Lamps
  BY <1>1, HueAssumption DEF HueInv, HueType
<1>3. ASSUME NEW l \in LightIds
      PROVE  /\ c(l) \in Points /\ c(l) # KEEP /\ power(l) \in {"on", "off"}
             /\ lights[l].power \in {"on", "off"} /\ lights[l].color \in Points
             /\ lights[l].original \in [power : {"on", "off"}, color : Points \union {KEEP}]
             /\ p[l] \in [power : {"on", "off", "keep"}, color : Points \union {KEEP}]
             /\ p[l].power = IF lights[l].power # power(l) THEN power(l) ELSE "keep"
             /\ p[l].color = IF lights[l].color # c(l) THEN c(l) ELSE KEEP
             /\ power(l) = IF c(l) = DARK THEN "off" ELSE "on"
             /\ lights'[l] \in [power : {"on", "off"}, color : Points, original : [power : {"on", "off"}, color : Points \union {KEEP}]]
             /\ lights'[l].power = power(l) /\ lights'[l].color = c(l) /\ lights'[l].original = lights[l].original
  <2>1. c(l) \in Points /\ c(l) # KEEP
    BY HueAssumption DEF CiColor
  <2>2. lights[l] \in [power : {"on", "off"}, color : Points, original : [power : {"on", "off"}, color : Points \union {KEEP}]]
    BY <1>2 DEF Lights
  <2> HIDE DEF c
  <2>3. p[l] = [power |-> SetOn(l, power(l)), color |-> SetColor(l, c(l))]
    OBVIOUS
  <2>4. lights'[l] = [lights[l] EXCEPT !.power = power(l), !.color = c(l)]
    BY <1>1
  <2>5. power(l) \in {"on", "off"} /\ power(l) = IF c(l) = DARK THEN "off" ELSE "on"
    OBVIOUS
  <2> HIDE DEF p, power
  <2>6. lights[l].power \in {"on", "off"} /\ lights[l].color \in Points
        /\ lights[l].original \in [power : {"on", "off"}, color : Points \union {KEEP}]
    BY <2>2
  <2>7. /\ p[l].power = IF lights[l].power # power(l) THEN power(l) ELSE "keep"
        /\ p[l].color = IF lights[l].color # c(l) THEN c(l) ELSE KEEP
    BY <2>3 DEF SetOn, SetColor
  <2>8. p[l] \in [power : {"on", "off", "keep"}, color : Points \union {KEEP}]
    BY <2>1, <2>3, <2>5 DEF SetOn, SetColor
  <2>9. /\ lights'[l] \in [power : {"on", "off"}, color : Points, original : [power : {"on", "off"}, color : Points \union {KEEP}]]
        /\ lights'[l].power = power(l) /\ lights'[l].color = c(l) /\ lights'[l].original = lights[l].original
    BY <2>1, <2>2, <2>4, <2>5
  <2> QED
    BY <2>1, <2>5, <2>6, <2>7, <2>8, <2>9
<1> HIDE DEF p, c, power
<1>4. p \in PutStates
  <2>1. p = [l \in LightIds |-> p[l]]
    BY DEF p
  <2> QED
    BY <1>3, <2>1 DEF PutStates
<1>5. lights' \in Lights
  <2>1. lights' = [l \in LightIds |-> lights'[l]]
    BY <1>1
  <2>2. ASSUME NEW l \in LightIds
        PROVE  lights'[l] \in [power : {"on", "off"}, color : Points, original : [power : {"on", "off"}, color : Points \union {KEEP}]]
    BY <1>3
  <2> QED
    BY <2>1, <2>2 DEF Lights
<1>6. lights' # NoLights /\ colorsSet' # NoLights
  <2>1. lights = [l \in LightIds |-> lights[l]] /\ lights' = [l \in LightIds |-> lights'[l]]
    BY <1>2, <1>5 DEF Lights
  <2>2. colorsSet' = [l \in LightIds |-> colorsSet'[l]]
    BY <1>1
  <2> QED
    BY <1>1, <2>1, <2>2, SomeLight
<1>7. requests' \in Seq(HueRequests)
  <2>1. Puts(p) \in Seq(HueRequests)
    BY <1>4, PutsType
  <2> QED
    BY <1>1, <1>2, <2>1, ConcatProperties
<1>8. HueType'
  BY <1>1, <1>5, <1>7 DEF HueInv, HueType
<1>9. ASSUME ~askedInUse', inTurn'
      PROVE  /\ \A i \in 1 .. Len(replies') : replies'[i] = NoLights \/ UserLike(replies'[i])
             /\ \E u \in Seq(Lamps) : Trail(u, lamps', requests') /\ Driven(u[Len(u)])'
  <2>1. ~askedInUse /\ inTurn
    BY <1>1, <1>9
  <2>2. PICK t \in Seq(Lamps) : Trail(t, lamps, requests) /\ Driven(t[Len(t)])
    BY <2>1 DEF HueInv
  <2>3. PICK u \in Seq(Lamps) : Trail(u, lamps, requests \o Puts(p)) /\ u[Len(u)] = Applied(t[Len(t)], p)
    BY <1>2, <1>4, <2>2, TrailPuts
  <2>4. PICK s \in Lamps : s = t[Len(t)]
    BY <1>2, <2>2, TrailEnds
  <2>5. Driven(s)
    BY <2>2, <2>4
  <2>6. ASSUME NEW l \in LightIds
        PROVE  /\ lights'[l].original = OriginalState(before[l])
               /\ Applied(s, p)[l].power = lights'[l].power
               /\ before[l].power = "on" /\ Applied(s, p)[l].power = "on" => Applied(s, p)[l].color = lights'[l].color
               /\ lights'[l].color = c(l) /\ lights'[l].power = power(l)
    <3>1. /\ lights[l].original = OriginalState(before[l]) /\ s[l].power = lights[l].power
          /\ before[l].power = "on" /\ s[l].power = "on" => s[l].color = lights[l].color
          /\ colorsSet = NoLights => s[l].power = before[l].power
          /\ colorsSet # NoLights => lights[l].power = IF lights[l].color = DARK THEN "off" ELSE "on"
      BY <1>1, <2>5 DEF Driven, UserLike
    <3>2. /\ lights'[l].original = lights[l].original /\ lights'[l].color = c(l) /\ lights'[l].power = power(l)
          /\ c(l) # KEEP /\ power(l) = IF c(l) = DARK THEN "off" ELSE "on"
          /\ p[l].power = IF lights[l].power # power(l) THEN power(l) ELSE "keep"
          /\ p[l].color = IF lights[l].color # c(l) THEN c(l) ELSE KEEP
      BY <1>3
    <3>3. /\ s[l].power \in {"on", "off"}
          /\ Applied(s, p)[l].power = IF p[l].power = "keep" THEN s[l].power ELSE p[l].power
          /\ Applied(s, p)[l].color =
               IF Applied(s, p)[l].power = "off" \/ p[l].color = KEEP THEN s[l].color ELSE p[l].color
      BY OriginalFacts DEF Applied
    <3>4. Applied(s, p)[l].power = power(l)
      BY <3>1, <3>2, <3>3
    <3>5. before[l].power = "on" /\ power(l) = "on" => Applied(s, p)[l].color = c(l)
      BY <3>1, <3>2, <3>3, <3>4
    <3> QED
      BY <3>1, <3>2, <3>4, <3>5
  <2>7. Driven(u[Len(u)])'
    <3>1. \A l \in LightIds : CiColor(colorsSet[l])' = c(l) /\ power(l) = IF c(l) = DARK THEN "off" ELSE "on"
      BY <1>1, <1>3 DEF CiColor, c
    <3>2. u[Len(u)] = Applied(s, p)
      BY <2>3, <2>4
    <3>3. \A l \in LightIds : OriginalState(before[l])' = OriginalState(before[l]) /\ before'[l] = before[l]
      BY <1>1 DEF OriginalState
    <3> QED
      BY <1>6, <2>6, <3>1, <3>2, <3>3 DEF Driven
  <2> QED
    BY <1>1, <2>1, <2>3, <2>7 DEF HueInv
<1> QED
  BY <1>1, <1>8, <1>9, HueStep

(* the requests, their trail and the lights that were restored *)
LEMMA RestoreInv ==
  ASSUME HueInv, NEW ls \in Lights \union {NoLights}, NEW q \in Seq(HueRequests)
  PROVE  /\ q \o Restore(ls) \in Seq(HueRequests) /\ Restore(ls) \in Seq(HueRequests)
         /\ \A t \in Seq(Lamps) :
              /\ Trail(t, lamps, q)
              /\ \/ ls = NoLights /\ UserLike(t[Len(t)])
                 \/ ls # NoLights /\ \A l \in LightIds : ls[l].original = OriginalState(before[l])
              => \E u \in Seq(Lamps) : Trail(u, lamps, q \o Restore(ls)) /\ UserLike(u[Len(u)])
<1>1. lamps \in Lamps /\ before \in Lamps
  BY HueAssumption DEF HueInv, HueType
<1>2. Restore(ls) \in Seq(HueRequests)
  <2>1. PICK p \in PutStates : Restore(ls) = Puts(p)
    BY <1>1, RestoreFacts
  <2> QED
    BY <2>1, PutsType
<1>3. q \o Restore(ls) \in Seq(HueRequests)
  BY <1>2, ConcatProperties
<1>4. ASSUME NEW t \in Seq(Lamps), Trail(t, lamps, q),
             \/ ls = NoLights /\ UserLike(t[Len(t)])
             \/ ls # NoLights /\ \A l \in LightIds : ls[l].original = OriginalState(before[l])
      PROVE  \E u \in Seq(Lamps) : Trail(u, lamps, q \o Restore(ls)) /\ UserLike(u[Len(u)])
  <2>1. PICK s \in Lamps : s = t[Len(t)]
    BY <1>1, <1>4, TrailEnds
  <2>2. PICK p \in PutStates :
          /\ Restore(ls) = Puts(p)
          /\ \/ ls = NoLights /\ UserLike(s)
             \/ ls # NoLights /\ \A l \in LightIds : ls[l].original = OriginalState(before[l])
             => UserLike(Applied(s, p))
    BY <1>1, RestoreFacts
  <2>3. PICK u \in Seq(Lamps) : Trail(u, lamps, q \o Puts(p)) /\ u[Len(u)] = Applied(t[Len(t)], p)
    BY <1>1, <1>4, TrailPuts
  <2> QED
    BY <1>4, <2>1, <2>2, <2>3
<1> QED
  BY <1>2, <1>3, <1>4

LEMMA StateChangedInv == ASSUME HueInv, UNCHANGED before, StateChanged PROVE HueInv'
<1>1. hueEnabled' = ~hueEnabled /\ UNCHANGED <<lamps, replies, bTimer, inTurn>> /\ hueEnabled' \in BOOLEAN
  BY Zenon DEF StateChanged
<1>2. CASE ~hueEnabled
  <2>1. Send(BConnect) /\ askedInUse' = (askedInUse \/ lights # NoLights) /\ UNCHANGED <<lights, colorsSet>>
    BY <1>2 DEF StateChanged
  <2>2. ~hueEnabled' => colorsSet = NoLights
    BY <1>1, <1>2
  <2> QED
    BY <1>1, <2>1, <2>2, AskInv
<1>3. CASE hueEnabled
  <2>1. requests' = requests \o Restore(lights) /\ lights' = NoLights /\ colorsSet' = NoLights /\ askedInUse' = askedInUse
    BY <1>3 DEF StateChanged, Released, Send
  <2>2. lights \in Lights \union {NoLights} /\ requests \in Seq(HueRequests)
    BY DEF HueInv, HueType
  <2>3. HueType'
    <3>1. requests' \in Seq(HueRequests)
      BY <2>1, <2>2, RestoreInv
    <3> QED
      BY <1>1, <2>1, <3>1 DEF HueInv, HueType
  <2>4. ASSUME ~askedInUse', inTurn'
        PROVE  /\ \A i \in 1 .. Len(replies') : replies'[i] = NoLights \/ UserLike(replies'[i])
               /\ \E u \in Seq(Lamps) : Trail(u, lamps', requests') /\ Driven(u[Len(u)])'
    <3>1. ~askedInUse /\ inTurn
      BY <1>1, <2>1, <2>4, Zenon
    <3>2. PICK t \in Seq(Lamps) : Trail(t, lamps, requests) /\ Driven(t[Len(t)])
      BY <3>1 DEF HueInv
    <3>3. \/ lights = NoLights /\ UserLike(t[Len(t)])
          \/ lights # NoLights /\ \A l \in LightIds : lights[l].original = OriginalState(before[l])
      BY <3>2 DEF Driven
    <3>4. PICK u \in Seq(Lamps) : Trail(u, lamps, requests \o Restore(lights)) /\ UserLike(u[Len(u)])
      BY <2>2, <3>2, <3>3, RestoreInv
    <3>5. Driven(u[Len(u)])'
      BY <2>1, <3>4 DEF Driven, UserLike
    <3> QED
      BY <1>1, <2>1, <3>1, <3>4, <3>5 DEF HueInv
  <2> QED
    BY <1>1, <2>1, <2>3, <2>4, HueStep
<1> QED
  BY <1>2, <1>3

(* a request or reply that is removed; the first one *)
LEMMA RemovedType ==
  ASSUME NEW S, NEW s \in Seq(S), NEW k \in 1 .. Len(s)
  PROVE  RemoveAt(s, k) \in Seq(S) /\ s[k] \in S
<1>1. s[k] \in S /\ \A i \in 1 .. Len(s) : s[i] \in S
  BY ElementOfSeq
<1>2. k - 1 \in Int /\ k + 1 \in Int /\ Len(s) \in Int /\ 1 .. k - 1 \subseteq 1 .. Len(s) /\ k + 1 .. Len(s) \subseteq 1 .. Len(s)
  BY LenProperties
<1>3. SubSeq(s, 1, k - 1) \in Seq(S)
  BY <1>1, <1>2, SubSeqProperties
<1>4. SubSeq(s, k + 1, Len(s)) \in Seq(S)
  BY <1>1, <1>2, SubSeqProperties
<1> QED
  BY <1>1, <1>3, <1>4, ConcatProperties DEF RemoveAt

LEMMA RemovedFirst ==
  ASSUME NEW S, NEW s \in Seq(S), s # <<>>
  PROVE  RemoveAt(s, 1) = Tail(s)
<1>1. SubSeq(s, 1, 0) = <<>>
  BY SubSeqEmpty
<1>2. Tail(s) = SubSeq(s, 2, Len(s)) /\ Tail(s) \in Seq(S)
  BY TailIsSubSeq, HeadTailProperties
<1>3. <<>> \o Tail(s) = Tail(s)
  BY <1>2, ConcatEmptySeq
<1>4. 1 - 1 = 0 /\ 1 + 1 = 2
  OBVIOUS
<1> QED
  BY <1>1, <1>2, <1>3, <1>4 DEF RemoveAt

LEMMA ResolveReplyInv == ASSUME HueInv, UNCHANGED before, ResolveReply PROVE HueInv'
<1>0. PICK k \in DOMAIN replies :
        /\ replies' = RemoveAt(replies, k) /\ inTurn' = (inTurn /\ k = 1)
        /\ IF replies[k] = NoLights
           THEN bTimer' \in {TRUE, bTimer} /\ UNCHANGED <<requests, lights, colorsSet>>
           ELSE NewLights(replies[k]) /\ UNCHANGED bTimer
  BY DEF ResolveReply
<1>1. UNCHANGED <<lamps, hueEnabled, askedInUse>> /\ inTurn' \in BOOLEAN /\ (inTurn' => inTurn /\ k = 1)
  <2>1. UNCHANGED <<lamps, hueEnabled, askedInUse>>
    BY DEF ResolveReply
  <2>2. inTurn' = (inTurn /\ k = 1)
    BY <1>0
  <2> QED
    BY <2>1, <2>2, Zenon
<1>2. PICK rs : rs = replies /\ rs \in Seq(Lamps \union {NoLights})
  BY DEF HueInv, HueType
<1>3. /\ replies' \in Seq(Lamps \union {NoLights}) /\ replies[k] \in Lamps \union {NoLights}
      /\ k = 1 => \A i \in 1 .. Len(replies') : replies'[i] = replies[i + 1] /\ i + 1 \in 1 .. Len(replies)
      /\ k \in 1 .. Len(replies)
  <2>1. k \in 1 .. Len(rs) /\ rs \in Seq(Lamps \union {NoLights})
    BY <1>0, <1>2
  <2>2. RemoveAt(rs, k) \in Seq(Lamps \union {NoLights}) /\ rs[k] \in Lamps \union {NoLights}
    BY <2>1, RemovedType
  <2>3. ASSUME k = 1
        PROVE  \A i \in 1 .. Len(RemoveAt(rs, k)) : RemoveAt(rs, k)[i] = rs[i + 1] /\ i + 1 \in 1 .. Len(rs)
    <3>1. rs # <<>> /\ Len(rs) \in Nat
      BY <2>1, EmptySeq, LenProperties
    <3>2. RemoveAt(rs, 1) = Tail(rs)
      BY <2>1, <3>1, RemovedFirst
    <3>3. Len(Tail(rs)) = Len(rs) - 1 /\ \A i \in 1 .. Len(Tail(rs)) : Tail(rs)[i] = rs[i + 1]
      BY <2>1, <3>1, HeadTailProperties
    <3> QED
      BY <2>3, <3>1, <3>2, <3>3
  <2> QED
    BY <1>0, <1>2, <2>1, <2>2, <2>3
<1>4. ASSUME ~askedInUse, inTurn'
      PROVE  /\ inTurn
             /\ \A i \in 1 .. Len(replies') : replies'[i] = NoLights \/ UserLike(replies'[i])
             /\ replies[k] = NoLights \/ UserLike(replies[k])
  BY <1>1, <1>3, <1>4 DEF HueInv
<1>5. CASE replies[k] = NoLights
  <2>1. UNCHANGED <<requests, lights, colorsSet>>
    BY <1>0, <1>5
  <2>2. HueType' /\ (~hueEnabled' => colorsSet' = NoLights)
    BY <1>1, <1>3, <2>1 DEF HueInv, HueType
  <2>3. ASSUME ~askedInUse', inTurn'
        PROVE  \E u \in Seq(Lamps) : Trail(u, lamps', requests') /\ Driven(u[Len(u)])'
    <3>1. PICK t \in Seq(Lamps) : Trail(t, lamps, requests) /\ Driven(t[Len(t)])
      BY <1>1, <2>3 DEF HueInv
    <3>2. Driven(t[Len(t)])'
      BY <2>1, <3>1 DEF Driven, UserLike, OriginalState, CiColor
    <3> QED
      BY <1>1, <2>1, <3>1, <3>2
  <2> QED
    BY <1>1, <1>4, <2>2, <2>3, HueStep
<1>6. CASE replies[k] # NoLights
  <2>1. PICK map \in Lamps : map = replies[k]
    BY <1>3, <1>6
  <2>2. PICK any \in [LightIds -> Points] :
          lights' = [l \in LightIds |-> [power |-> map[l].power, original |-> OriginalState(map[l]),
                                        color |-> IF map[l].power = "on" THEN map[l].color ELSE any[l]]]
    BY <1>0, <1>6, <2>1 DEF NewLights
  <2>3. requests' = requests \o (Restore(lights) \o Restore(lights')) /\ colorsSet' = NoLights
    BY <1>0, <1>6 DEF NewLights, Send
  <2>4. ASSUME NEW l \in LightIds
        PROVE  /\ lights'[l] \in [power : {"on", "off"}, color : Points, original : [power : {"on", "off"}, color : Points \union {KEEP}]]
               /\ lights'[l].power = map[l].power /\ lights'[l].original = OriginalState(map[l])
               /\ map[l].power = "on" => lights'[l].color = map[l].color
    <3>1. /\ map[l].power \in {"on", "off"} /\ map[l].color \in Points /\ any[l] \in Points
          /\ OriginalState(map[l]) \in [power : {"on", "off"}, color : Points \union {KEEP}]
      BY OriginalFacts
    <3>2. lights'[l] = [power |-> map[l].power, original |-> OriginalState(map[l]),
                       color |-> IF map[l].power = "on" THEN map[l].color ELSE any[l]]
      BY <2>2
    <3> QED
      BY <3>1, <3>2
  <2>5. PICK new \in Lights : new = lights'
    <3>1. lights' = [l \in LightIds |-> lights'[l]]
      BY <2>2
    <3> QED
      BY <2>4, <3>1 DEF Lights
  <2>6. PICK old \in Lights \union {NoLights} : old = lights
    BY DEF HueInv, HueType
  <2>7. PICK q \in Seq(HueRequests) : q = requests
    BY DEF HueInv, HueType
  <2>8. /\ Restore(old) \in Seq(HueRequests) /\ Restore(new) \in Seq(HueRequests)
        /\ q \o Restore(old) \in Seq(HueRequests) /\ (q \o Restore(old)) \o Restore(new) \in Seq(HueRequests)
    <3>1. Restore(old) \in Seq(HueRequests) /\ q \o Restore(old) \in Seq(HueRequests)
      BY RestoreInv
    <3>2. Restore(new) \in Seq(HueRequests) /\ (q \o Restore(old)) \o Restore(new) \in Seq(HueRequests)
      BY <3>1, RestoreInv
    <3> QED
      BY <3>1, <3>2
  <2>9. requests' = (q \o Restore(old)) \o Restore(new)
    <3>1. q \in Seq(HueRequests) /\ Restore(old) \in Seq(HueRequests) /\ Restore(new) \in Seq(HueRequests)
      BY <2>8
    <3>2. (q \o Restore(old)) \o Restore(new) = q \o (Restore(old) \o Restore(new))
      BY <3>1, ConcatAssociative
    <3> QED
      BY <2>3, <2>5, <2>6, <2>7, <3>2
  <2>10. HueType' /\ (~hueEnabled' => colorsSet' = NoLights)
    BY <1>1, <1>3, <2>3, <2>5, <2>8, <2>9 DEF HueInv, HueType
  <2>11. ASSUME ~askedInUse', inTurn'
         PROVE  \E u \in Seq(Lamps) : Trail(u, lamps', requests') /\ Driven(u[Len(u)])'
    <3>1. ~askedInUse /\ inTurn /\ UserLike(map)
      BY <1>1, <1>4, <1>6, <2>1, <2>11
    <3>2. PICK t \in Seq(Lamps) : Trail(t, lamps, q) /\ Driven(t[Len(t)])
      BY <2>7, <3>1 DEF HueInv
    <3>3. \/ old = NoLights /\ UserLike(t[Len(t)])
          \/ old # NoLights /\ \A l \in LightIds : old[l].original = OriginalState(before[l])
      BY <2>6, <3>2 DEF Driven
    <3>4. PICK v \in Seq(Lamps) : Trail(v, lamps, q \o Restore(old)) /\ UserLike(v[Len(v)])
      BY <3>2, <3>3, RestoreInv
    <3>5. ASSUME NEW l \in LightIds
          PROVE  /\ new[l].original = OriginalState(before[l]) /\ new[l].power = before[l].power
                 /\ new[l].power = "on" => new[l].color = before[l].color
      <4>1. map[l].power = before[l].power /\ (map[l].power = "on" => map[l].color = before[l].color)
        BY <3>1 DEF UserLike
      <4> QED
        BY <2>4, <2>5, <4>1 DEF OriginalState
    <3>6. PICK u \in Seq(Lamps) : Trail(u, lamps, (q \o Restore(old)) \o Restore(new)) /\ UserLike(u[Len(u)])
      BY <2>8, <3>4, <3>5, RestoreInv
    <3>7. Driven(u[Len(u)])'
      <4>1. \A l \in LightIds : OriginalState(before[l])' = OriginalState(before[l]) /\ before'[l] = before[l]
        BY DEF OriginalState
      <4>2. UserLike(u[Len(u)])'
        BY <3>6 DEF UserLike
      <4>3. \A l \in LightIds :
              /\ u[Len(u)][l].power = before[l].power
              /\ u[Len(u)][l].power = "on" => u[Len(u)][l].color = before[l].color
        BY <3>6 DEF UserLike
      <4> QED
        BY <2>3, <2>5, <3>5, <4>1, <4>2, <4>3 DEF Driven
    <3> QED
      BY <1>1, <2>9, <3>6, <3>7
  <2> QED
    BY <1>1, <1>4, <2>10, <2>11, HueStep
<1> QED
  BY <1>5, <1>6

(* all of the PUTs of a call leave none *)
LEMMA PartFacts ==
  ASSUME NEW p \in PutStates, NEW done \in Parts(p)
  PROVE  /\ done \in PutStates /\ Others(p, done) \in PutStates
         /\ done = p => Others(p, done) = Nothing
<1>1. done \in PutStates
  BY DEF Parts
<1>2. ASSUME NEW l \in LightIds
      PROVE  Others(p, done)[l] \in [power : {"on", "off", "keep"}, color : Points \union {KEEP}]
  <2>1. p[l] \in [power : {"on", "off", "keep"}, color : Points \union {KEEP}]
    BY DEF PutStates
  <2> QED
    BY <2>1 DEF Others
<1>3. Others(p, done) \in PutStates
  BY <1>2 DEF PutStates, Others
<1>4. done = p => Others(p, done) = Nothing
  BY DEF Others, Nothing
<1> QED
  BY <1>1, <1>3, <1>4

(* the bridge meets a request, whichever and in part *)
LEMMA BridgeType ==
  ASSUME HueInv, NEW i \in DOMAIN requests, NEW done \in Parts(requests[i].puts),
         NEW left \in {Nothing, Others(requests[i].puts, done)},
         requests' = IF left = Nothing THEN RemoveAt(requests, i)
                     ELSE [requests EXCEPT ![i] = [get |-> FALSE, puts |-> left]],
         lamps' = Applied(lamps, done)
  PROVE  /\ requests' \in Seq(HueRequests) /\ lamps' \in Lamps
         /\ done = requests[i].puts => left = Nothing
<1>1. PICK q \in Seq(HueRequests) : q = requests
  BY DEF HueInv, HueType
<1>2. i \in 1 .. Len(q) /\ lamps \in Lamps
  BY <1>1 DEF HueInv, HueType
<1>3. RemoveAt(q, i) \in Seq(HueRequests) /\ q[i] \in HueRequests
  BY <1>2, RemovedType
<1>4. q[i].puts \in PutStates
  BY <1>3 DEF HueRequests
<1>5. done \in PutStates /\ left \in PutStates /\ (done = q[i].puts => left = Nothing)
  BY <1>1, <1>4, PartFacts, NothingFacts
<1>6. lamps' \in Lamps
  BY <1>2, <1>5, AppliedFacts
<1>7. [get |-> FALSE, puts |-> left] \in HueRequests
  BY <1>5, Zenon DEF HueRequests
<1>8. [q EXCEPT ![i] = [get |-> FALSE, puts |-> left]] \in Seq(HueRequests)
  BY <1>2, <1>7, ExceptSeq
<1> QED
  BY <1>1, <1>3, <1>5, <1>6, <1>8

LEMMA BridgeInv == ASSUME HueInv, UNCHANGED before, Bridge PROVE HueInv'
<1>1. PICK k \in DOMAIN requests : \E done \in Parts(requests[k].puts) : \E left \in {Nothing, Others(requests[k].puts, done)} :
        /\ requests' = IF left = Nothing THEN RemoveAt(requests, k)
                       ELSE [requests EXCEPT ![k] = [get |-> FALSE, puts |-> left]]
        /\ lamps' = Applied(lamps, done)
        /\ inTurn' = (inTurn /\ k = 1 /\ done = requests[k].puts)
        /\ IF requests[k].get THEN \E answer \in {lamps, NoLights} : replies' = Append(replies, answer)
           ELSE replies' = replies
  BY DEF Bridge
<1>2. PICK done \in Parts(requests[k].puts) : \E left \in {Nothing, Others(requests[k].puts, done)} :
        /\ requests' = IF left = Nothing THEN RemoveAt(requests, k)
                       ELSE [requests EXCEPT ![k] = [get |-> FALSE, puts |-> left]]
        /\ lamps' = Applied(lamps, done)
        /\ inTurn' = (inTurn /\ k = 1 /\ done = requests[k].puts)
        /\ IF requests[k].get THEN \E answer \in {lamps, NoLights} : replies' = Append(replies, answer)
           ELSE replies' = replies
  BY <1>1
<1>3. /\ requests' \in Seq(HueRequests) /\ lamps' \in Lamps
      /\ inTurn' \in BOOLEAN
      /\ inTurn' => /\ inTurn /\ k = 1 /\ done = requests[1].puts
                    /\ requests' = RemoveAt(requests, 1) /\ lamps' = Applied(lamps, requests[1].puts)
  <2>1. PICK left \in {Nothing, Others(requests[k].puts, done)} :
          /\ requests' = IF left = Nothing THEN RemoveAt(requests, k)
                         ELSE [requests EXCEPT ![k] = [get |-> FALSE, puts |-> left]]
          /\ lamps' = Applied(lamps, done)
          /\ inTurn' = (inTurn /\ k = 1 /\ done = requests[k].puts)
    BY <1>2
  <2>2. /\ requests' \in Seq(HueRequests) /\ lamps' \in Lamps
        /\ done = requests[k].puts => left = Nothing
    BY <2>1, BridgeType
  <2>3. inTurn' \in BOOLEAN /\ (inTurn' => inTurn /\ k = 1 /\ done = requests[k].puts)
    BY <2>1, Zenon
  <2> QED
    BY <2>1, <2>2, <2>3
<1>4. UNCHANGED <<lights, hueEnabled, bTimer, colorsSet, askedInUse>>
  BY DEF Bridge
<1>5. \/ requests[k].get /\ \E answer \in {lamps, NoLights} : replies' = Append(replies, answer)
      \/ ~requests[k].get /\ replies' = replies
  BY <1>2
<1>6. PICK rs \in Seq(Lamps \union {NoLights}) : rs = replies
  BY DEF HueInv, HueType
<1>7. ASSUME NEW answer \in {lamps, NoLights}, replies' = Append(replies, answer)
      PROVE  /\ replies' \in Seq(Lamps \union {NoLights}) /\ Len(replies') = Len(replies) + 1 /\ Len(replies) \in Nat
             /\ \A i \in 1 .. Len(replies') : replies'[i] = IF i <= Len(replies) THEN replies[i] ELSE answer
  <2>1. answer \in Lamps \union {NoLights}
    BY DEF HueInv, HueType
  <2>2. /\ Append(rs, answer) \in Seq(Lamps \union {NoLights}) /\ Len(Append(rs, answer)) = Len(rs) + 1 /\ Len(rs) \in Nat
        /\ \A i \in 1 .. Len(rs) + 1 : Append(rs, answer)[i] = IF i <= Len(rs) THEN rs[i] ELSE answer
    BY <2>1
  <2> QED
    BY <1>6, <1>7, <2>2
<1>8. replies' \in Seq(Lamps \union {NoLights})
  BY <1>5, <1>6, <1>7
<1>9. HueType' /\ (~hueEnabled' => colorsSet' = NoLights)
  BY <1>3, <1>4, <1>8 DEF HueInv, HueType
<1>10. ASSUME ~askedInUse', inTurn'
       PROVE  /\ \A i \in 1 .. Len(replies') : replies'[i] = NoLights \/ UserLike(replies'[i])
              /\ \E u \in Seq(Lamps) : Trail(u, lamps', requests') /\ Driven(u[Len(u)])'
  <2>1. ~askedInUse /\ inTurn /\ k = 1
    BY <1>3, <1>4, <1>10
  <2>2. PICK q \in Seq(HueRequests) : q = requests
    BY DEF HueInv, HueType
  <2>3. q # <<>> /\ Head(q) = q[1]
    <3>1. 1 \in 1 .. Len(q)
      BY <2>1, <2>2
    <3> QED
      BY <3>1, EmptySeq
  <2>4. requests' = Tail(q) /\ lamps' = Applied(lamps, Head(q).puts) /\ requests[k] = Head(q)
    <3>1. RemoveAt(q, 1) = Tail(q)
      BY <2>3, RemovedFirst
    <3> QED
      BY <1>3, <1>10, <2>1, <2>2, <2>3, <3>1
  <2>5. lamps \in Lamps
    BY DEF HueInv, HueType
  <2>6. PICK t \in Seq(Lamps) : Trail(t, lamps, q) /\ Driven(t[Len(t)])
    BY <2>1, <2>2 DEF HueInv
  <2>7. PICK u \in Seq(Lamps) : Trail(u, Applied(lamps, Head(q).puts), Tail(q)) /\ u[Len(u)] = t[Len(t)]
    BY <2>3, <2>5, <2>6, TrailTaken
  <2>8. Head(q).get => UserLike(lamps)
    BY <2>3, <2>5, <2>6, TrailTaken
  <2>9. Driven(u[Len(u)])'
    <3>1. Driven(u[Len(u)])
      BY <2>6, <2>7
    <3> QED
      BY <1>4, <3>1 DEF Driven, UserLike, OriginalState, CiColor
  <2>10. \A i \in 1 .. Len(replies) : replies[i] = NoLights \/ UserLike(replies[i])
    BY <2>1 DEF HueInv
  <2>11. \A i \in 1 .. Len(replies') : replies'[i] = NoLights \/ UserLike(replies'[i])
    <3>1. CASE ~Head(q).get
      BY <1>5, <2>4, <2>10, <3>1
    <3>2. CASE Head(q).get
      <4>1. PICK answer \in {lamps, NoLights} : replies' = Append(replies, answer)
        BY <1>5, <2>4, <3>2
      <4>2. ASSUME NEW i \in 1 .. Len(replies') PROVE replies'[i] = answer \/ (i \in 1 .. Len(replies) /\ replies'[i] = replies[i])
        BY <1>7, <4>1
      <4>3. answer = NoLights \/ UserLike(answer)
        BY <2>8, <3>2
      <4> QED
        BY <2>10, <4>2, <4>3
    <3> QED
      BY <3>1, <3>2
  <2> QED
    BY <2>4, <2>7, <2>9, <2>11
<1> QED
  BY <1>9, <1>10, HueStep

LEMMA HueNextInv == HueInv /\ [HueNext]_hueVars => HueInv'
<1> SUFFICES ASSUME HueInv, [HueNext]_hueVars PROVE HueInv'
  OBVIOUS
<1>1. ASSUME NEW values \in [LightIds -> DOMAIN Gamut], HueWrite(values), UNCHANGED before PROVE HueInv'
  BY <1>1, HueWriteInv
<1>2. CASE ResolveReply /\ UNCHANGED before
  BY <1>2, ResolveReplyInv
<1>3. CASE Reconnect /\ UNCHANGED before
  <2>1. hueEnabled' \in BOOLEAN /\ (~hueEnabled' => colorsSet = NoLights)
    BY <1>3 DEF Reconnect, HueInv, HueType
  <2> QED
    BY <1>3, <2>1, AskInv DEF Reconnect
<1>4. CASE StateChanged /\ UNCHANGED before
  BY <1>4, StateChangedInv
<1>5. CASE Bridge /\ UNCHANGED before
  BY <1>5, BridgeInv
<1>6. CASE UNCHANGED hueVars
  BY <1>6 DEF hueVars, HueInv, HueType, Trail, Driven, UserLike, OriginalState, CiColor
<1> QED
  BY <1>1, <1>2, <1>3, <1>4, <1>5, <1>6 DEF HueNext

(* The lamps show the last frame once all requests are done, and the       *)
(* user's state after the device was switched off, unless the bridge was   *)
(* asked for them in use (write(), newLights(), ~PhilipsHueLight()).       *)
THEOREM LampsAreRight == HueSpec => []LampsRight
<1>1. HueInv => LampsRight
  <2> SUFFICES ASSUME HueInv, Settled, ~askedInUse, inTurn
               PROVE  /\ ~hueEnabled => \A l \in LightIds : /\ lamps[l].power = before[l].power
                                                            /\ lamps[l].power = "on" => lamps[l] = before[l]
                      /\ hueEnabled /\ colorsSet # NoLights => \A l \in LightIds :
                           LET c == CiColor(colorsSet[l])
                           IN /\ lamps[l].power = IF c = DARK THEN "off" ELSE "on"
                              /\ c # DARK /\ before[l].power = "on" => lamps[l].color = c
    BY DEF LampsRight, LampsRestored, LampsShow
  <2>1. PICK t \in Seq(Lamps) : Trail(t, lamps, requests) /\ Driven(t[Len(t)])
    BY DEF HueInv
  <2>2. Driven(lamps)
    <3>1. Len(requests) = 0
      BY EmptySeq DEF Settled
    <3>2. Len(t) = 1 /\ t[1] = lamps
      BY <2>1, <3>1 DEF Trail
    <3> QED
      BY <2>1, <3>2
  <2>3. ASSUME ~hueEnabled, NEW l \in LightIds
        PROVE  /\ lamps[l].power = before[l].power
               /\ lamps[l].power = "on" => lamps[l] = before[l]
    <3>1. UserLike(lamps)
      BY <2>2, <2>3 DEF HueInv, Driven
    <3>2. lamps[l] \in [power : {"on", "off"}, color : Points] /\ before[l] \in [power : {"on", "off"}, color : Points]
      BY HueAssumption DEF HueInv, HueType, Lamps
    <3> QED
      BY <3>1, <3>2 DEF UserLike
  <2>4. ASSUME colorsSet # NoLights, NEW l \in LightIds
        PROVE  /\ lamps[l].power = IF CiColor(colorsSet[l]) = DARK THEN "off" ELSE "on"
               /\ CiColor(colorsSet[l]) # DARK /\ before[l].power = "on" => lamps[l].color = CiColor(colorsSet[l])
    BY <2>2, <2>4 DEF Driven
  <2> QED
    BY <2>3, <2>4
<1> QED
  BY <1>1, HueInitInv, HueNextInv, PTL DEF HueSpec
=============================================================================
