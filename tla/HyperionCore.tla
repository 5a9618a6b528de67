----------------------------- MODULE HyperionCore -----------------------------
(***************************************************************************)
(* Hyperion (libsrc/hyperion/Hyperion.cpp), its PriorityMuxer, its         *)
(* EffectEngine and the effects, each a QThread that runs a python script. *)
(* Clients and effects share the priority channels of the muxer.           *)
(*                                                                         *)
(* The main thread runs one handler at a time.  An effect thread reaches   *)
(* it only through queued signals (setInput, setInputImage, finished),     *)
(* which the event queue delivers in order and later; the main thread      *)
(* reaches an effect only through its flag _interupt.                      *)
(*   mux      the muxer (MuxerOps)                                         *)
(*   now      QDateTime::currentMSecsSinceEpoch()                          *)
(*   effects  EffectEngine::_activeEffects, in order                       *)
(*   events   the signals of effect threads that wait for the main thread  *)
(*   leds     whose frame Hyperion::update() last wrote                    *)
(* The priority listing and its timers (_timer, _blockTimer) are left to   *)
(* PriorityMuxer.tla.                                                      *)
(***************************************************************************)
EXTENDS MuxerOps, SequencesExt

CONSTANTS
  Ids,          \* effect objects; an id is free again after deleteLater()
  ClientFrame,  \* the colours and images of clients; those of an effect are its id
  MaxTime,      \* bound on now
  MaxEvents     \* bound on the frames that wait in events

ASSUME IdsAssumption    == Ids \subseteq Nat /\ Ids \subseteq Frames \ {NoFrame, ClientFrame}
ASSUME ClientAssumption == ClientFrame \in Frames \ {NoFrame}
ASSUME BoundsAssumption == MaxTime \in Nat /\ MaxEvents \in Nat
ASSUME KindsAssumption  == {"EFFECT", "OTHER"} \subseteq Components

VARIABLES mux, now, effects, events, leds

vars == <<mux, now, effects, events, leds>>

-----------------------------------------------------------------------------
(* EffectEngine *)

Effect(id, p, timeout) ==
  [id |-> id, chan |-> p, timeout |-> timeout, end |-> -1,
   interrupted |-> FALSE, phase |-> "starting", out |-> <<>>]

IdsOf(S) == {S[i].id : i \in DOMAIN S}

EndsOn(S, P(_)) ==
  [i \in DOMAIN S |-> IF P(S[i]) THEN [S[i] EXCEPT !.interrupted = TRUE] ELSE S[i]]

ChannelCleared(S, p) == EndsOn(S, LAMBDA e : e.chan = p)

AllChannelsCleared(S) == EndsOn(S, LAMBDA e : e.chan # BG_PRIORITY)

AllInterrupted(S) == EndsOn(S, LAMBDA e : TRUE)

(* Operators on c = [mux, effects], all that the main thread changes *)

(* mutants: leaves a running effect alone; drops its object at once *)
RunEffectScript_Keep(c, p, timeout) ==
  [mux     |-> RegisterInput(c.mux, p, "EFFECT"),
   effects |-> Append(c.effects, Effect(Least(Ids \ IdsOf(c.effects)), p, timeout))]

RunEffectScript_Drop(c, p, timeout) ==
  [mux     |-> RegisterInput(c.mux, p, "EFFECT"),
   effects |-> Append(SelectSeq(c.effects, LAMBDA e : e.chan # p),
                      Effect(Least(Ids \ IdsOf(c.effects)), p, timeout))]

RunEffectScript(c, p, timeout) ==
  [mux     |-> RegisterInput(c.mux, p, "EFFECT"),
   effects |-> Append(ChannelCleared(c.effects, p),
                      Effect(Least(Ids \ IdsOf(c.effects)), p, timeout))]

(* cacheRunningEffects(), then startCachedEffects(): every effect in        *)
(* _activeEffects, also one that was interrupted and has not finished yet,  *)
(* is told to stop and started again, in order; a later one on the same     *)
(* channel stops an earlier one at once.  fresh names the new objects.      *)
Successors(S, fresh) ==
  [i \in DOMAIN S |->
     [Effect(fresh[i], S[i].chan, S[i].timeout) EXCEPT
        !.interrupted = \E j \in DOMAIN S : j > i /\ S[j].chan = S[i].chan]]

RegisterAll(m, chans) ==
  [m EXCEPT !.inputs =
     [p \in DOMAIN m.inputs \union chans |->
        IF p \in chans THEN RegisterInput(m, p, "EFFECT").inputs[p] ELSE m.inputs[p]]]

RestartEffects(c, fresh) ==
  [mux     |-> RegisterAll(c.mux, {c.effects[i].chan : i \in DOMAIN c.effects}),
   effects |-> AllInterrupted(c.effects) \o Successors(c.effects, fresh)]

(* Hyperion *)

(* mutant: registers the priority of a frame that has none *)
HyperionSetInput_Registers(c, kind, p, frame, timeout, clearEffect) ==
  LET m == IF Has(c.mux, p) THEN c.mux ELSE RegisterInput(c.mux, p, "EFFECT")
  IN  [mux     |-> IF kind = "image" THEN SetInputImage(m, p, frame, timeout, now)
                                     ELSE SetInput(m, p, frame, timeout, now),
       effects |-> IF clearEffect THEN ChannelCleared(c.effects, p) ELSE c.effects]

HyperionSetInput(c, kind, p, frame, timeout, clearEffect) ==
  IF Has(c.mux, p)
    THEN [mux     |-> IF kind = "image" THEN SetInputImage(c.mux, p, frame, timeout, now)
                                        ELSE SetInput(c.mux, p, frame, timeout, now),
          effects |-> IF clearEffect THEN ChannelCleared(c.effects, p) ELSE c.effects]
    ELSE c

HyperionClear(c, p) ==
  [mux |-> ClearInput(c.mux, p, now), effects |-> ChannelCleared(c.effects, p)]

(* clearAll(false): clearInput() for each clearable key.  A selection that  *)
(* one clearInput() makes lasts until the next; what the last one leaves    *)
(* does not depend on the others.                                           *)
MuxerClearAll(m) ==
  LET keys    == {key \in DOMAIN m.inputs : Clearable(m, key)}
      cleared == {ToUint8(key) : key \in keys} \intersect (DOMAIN m.inputs \ {LOWEST_PRIORITY})
  IN  IF cleared = {} THEN m ELSE PrioritiesChanged(SetCurrentTime(Without(m, cleared), now))

(* update(): the image of the visible input if it has one, else its colours *)
Content(m) ==
  LET input == GetInputInfo(m, m.current)
  IN  IF input.image # NoFrame THEN input.image ELSE input.colors

(* What the muxer's other listeners heard is left to PriorityMuxer.tla. *)
Unheard(m) == [m EXCEPT !.blocked = FALSE, !.pending = FALSE,
                        !.listed = Listing(m)]

(* A handler ends with c.  It has written the leds if visiblePriorityChanged *)
(* made it, or if it calls update() itself.                                  *)
Handled(c, updates) ==
  /\ mux' = Unheard(c.mux)
  /\ effects' = c.effects
  /\ leds' = IF updates \/ c.mux.current # mux.current THEN Content(c.mux) ELSE leds
  /\ now' = now

Core == [mux |-> mux, effects |-> effects]

OnlyMuxer(m) == Handled([Core EXCEPT !.mux = m], FALSE) /\ events' = events

-----------------------------------------------------------------------------
Init ==
  /\ mux = NewMuxer
  /\ now = 0
  /\ effects = <<>>
  /\ events = <<>>
  /\ leds = NoFrame

(* Requests of clients, handled on the main thread.  One that registers and  *)
(* sends data in one handler (JSON image) is two steps in a row here; a      *)
(* proto, boblight or capture source does it in two handlers.                *)
SetEffect(p, timeout) ==
  /\ Ids \ IdsOf(effects) # {}
  /\ Handled(RunEffectScript(Core, p, timeout), FALSE)
  /\ UNCHANGED events

SetColor(p, timeout) ==
  LET cleared == [Core EXCEPT !.effects = ChannelCleared(effects, p),
                              !.mux     = RegisterInput(mux, p, "COLOR")]
      c       == HyperionSetInput(cleared, "colors", p, ClientFrame, timeout, TRUE)
  IN  Handled(c, c.mux.current = p) /\ UNCHANGED events

ClientRegister(p) == OnlyMuxer(RegisterInput(mux, p, "OTHER"))

ClientInput(kind, p, timeout) ==
  LET c == HyperionSetInput(Core, kind, p, ClientFrame, timeout, TRUE)
  IN  Handled(c, Has(mux, p) /\ c.mux.current = p) /\ UNCHANGED events

ClientInactive(p) == OnlyMuxer(SetInputInactive(mux, p, now))

Clear(p) == Handled(HyperionClear(Core, p), FALSE) /\ UNCHANGED events

ClearAll ==
  /\ Handled([mux |-> MuxerClearAll(mux), effects |-> AllChannelsCleared(effects)], FALSE)
  /\ UNCHANGED events

SetCurrentSourcePriority(p) == OnlyMuxer(SetPriority(mux, p, now))

AutoSelect(enable) ==
  /\ Handled([Core EXCEPT !.mux = SetSourceAutoSelectEnabled(mux, enable, now)],
             AutoSelectSucceeds(mux, enable))
  /\ UNCHANGED events

(* handleSettingsUpdate(LEDS): the led layout changed *)
LayoutChanged ==
  /\ \E fresh \in Injection(DOMAIN effects, Ids \ IdsOf(effects)) :
       Handled(RestartEffects(Core, fresh), TRUE)
  /\ UNCHANGED events

UpdateTimeout == OnlyMuxer(SetCurrentTime(mux, now))

Tick == now < MaxTime /\ now' = now + 1 /\ UNCHANGED <<mux, effects, events, leds>>

-----------------------------------------------------------------------------
(* The event loop delivers the next signal of an effect thread. *)

(* mutant: leaves drawing to visiblePriorityChanged *)
DeliverFrame_NotDrawn ==
  /\ events # <<>>
  /\ Head(events).kind # "finished"
  /\ LET ev == Head(events)
     IN  Handled(HyperionSetInput(Core, ev.kind, ev.chan, ev.id, ev.timeout, FALSE), FALSE)
  /\ events' = Tail(events)

DeliverFrame ==
  /\ events # <<>>
  /\ Head(events).kind # "finished"
  /\ LET ev == Head(events)
         c  == HyperionSetInput(Core, ev.kind, ev.chan, ev.id, ev.timeout, FALSE)
     IN  Handled(c, Has(mux, ev.chan) /\ c.mux.current = ev.chan)
  /\ events' = Tail(events)

Sender == CHOOSE i \in DOMAIN effects : effects[i].id = Head(events).id

(* mutants: clears the channel of an interrupted effect too; does nothing *)
(* for it                                                                 *)
DeliverFinished_Always ==
  /\ events # <<>>
  /\ Head(events).kind = "finished"
  /\ LET c == HyperionClear(Core, effects[Sender].chan)
     IN  Handled([c EXCEPT !.effects = RemoveAt(c.effects, Sender)], FALSE)
  /\ events' = Tail(events)

DeliverFinished_Leaks ==
  /\ events # <<>>
  /\ Head(events).kind = "finished"
  /\ LET c == HyperionClear(Core, effects[Sender].chan)
     IN  Handled(IF effects[Sender].interrupted THEN Core
                   ELSE [c EXCEPT !.effects = RemoveAt(c.effects, Sender)], FALSE)
  /\ events' = Tail(events)

(* effectFinished(): an effect that was not interrupted clears its channel *)
DeliverFinished ==
  /\ events # <<>>
  /\ Head(events).kind = "finished"
  /\ LET e == effects[Sender]
         c == IF e.interrupted THEN Core ELSE HyperionClear(Core, e.chan)
     IN  Handled([c EXCEPT !.effects = RemoveAt(c.effects, Sender)], FALSE)
  /\ events' = Tail(events)

-----------------------------------------------------------------------------
(* Steps of the thread of effects[i].  Each call of the script is split     *)
(* where the main thread can come between: after the checks of wrapSetColor *)
(* and wrapImageShow, before the signal is queued.                          *)

Thread(i, e) == effects' = [effects EXCEPT ![i] = e] /\ UNCHANGED <<mux, now, leds>>

(* run(): sets _endTime, then runs the script *)
ScriptStart(i) ==
  /\ effects[i].phase = "starting"
  /\ Thread(i, [effects[i] EXCEPT !.phase = "running",
                                  !.end   = IF effects[i].timeout > 0
                                              THEN now + effects[i].timeout ELSE -1])
  /\ UNCHANGED events

Remaining(e) == IF e.timeout > 0 THEN e.end - now ELSE e.timeout

CanSend(e) ==
  /\ e.phase = "running"
  /\ e.out = <<>>
  /\ e.timeout > 0 => Remaining(e) > 0

Compose(i, kind) ==
  /\ CanSend(effects[i])
  /\ Thread(i, [effects[i] EXCEPT !.out =
                  <<[kind |-> kind, id |-> effects[i].id, chan |-> effects[i].chan,
                     timeout |-> Remaining(effects[i])]>>])
  /\ UNCHANGED events

(* hyperion.setColor() and hyperion.setImage() check the flag, *)
(* hyperion.imageShow() does not                               *)
WrapSet(i, kind) == ~effects[i].interrupted /\ Compose(i, kind)
WrapImageShow(i) == Compose(i, "image")

Post(i) ==
  /\ effects[i].out # <<>>
  /\ Len(events) < MaxEvents
  /\ events' = events \o effects[i].out
  /\ Thread(i, [effects[i] EXCEPT !.out = <<>>])

(* hyperion.abort() *)
WrapAbort(i) ==
  /\ effects[i].phase = "running"
  /\ effects[i].out = <<>>
  /\ effects[i].timeout > 0 /\ now > effects[i].end
  /\ Thread(i, [effects[i] EXCEPT !.interrupted = TRUE])
  /\ UNCHANGED events

(* The script returns or raises.  QThread emits finished, once. *)
ScriptEnd(i) ==
  /\ effects[i].phase = "running"
  /\ effects[i].out = <<>>
  /\ events' = Append(events, [kind |-> "finished", id |-> effects[i].id,
                               chan |-> effects[i].chan, timeout |-> 0])
  /\ Thread(i, [effects[i] EXCEPT !.phase = "done"])

-----------------------------------------------------------------------------
Request(p) ==
  \/ \E timeout \in Timeouts \ {INACTIVE} :
       \/ SetEffect(p, timeout)
       \/ SetColor(p, timeout)
       \/ \E kind \in {"colors", "image"} : ClientInput(kind, p, timeout)
  \/ ClientRegister(p)
  \/ ClientInactive(p)
  \/ Clear(p)
  \/ SetCurrentSourcePriority(p)

EffectThread(i) ==
  \/ ScriptStart(i)
  \/ \E kind \in {"colors", "image"} : WrapSet(i, kind)
  \/ WrapImageShow(i)
  \/ Post(i)
  \/ WrapAbort(i)
  \/ ScriptEnd(i)

Next ==
  \/ \E p \in Priorities : Request(p)
  \/ ClearAll
  \/ \E enable \in BOOLEAN : AutoSelect(enable)
  \/ LayoutChanged
  \/ UpdateTimeout
  \/ Tick
  \/ DeliverFrame
  \/ DeliverFinished
  \/ \E i \in DOMAIN effects : EffectThread(i)

Spec == Init /\ [][Next]_vars

(* The event loop keeps delivering, and a thread that was told to stop gets  *)
(* to run: the scripts in effects/ loop while not hyperion.abort().  Strong  *)
(* fairness stands in for a queue that, unlike events, is never full.        *)
OfEffect(id, Step(_)) == \E i \in DOMAIN effects : effects[i].id = id /\ Step(i)

StopsWhenTold(i) == effects[i].interrupted /\ ScriptEnd(i)

Fairness ==
  /\ WF_vars(DeliverFrame \/ DeliverFinished)
  /\ \A id \in Ids : /\ WF_vars(OfEffect(id, ScriptStart))
                     /\ SF_vars(OfEffect(id, Post))
                     /\ SF_vars(OfEffect(id, StopsWhenTold))

FairSpec == Spec /\ Fairness

-----------------------------------------------------------------------------
(* Invariants *)

Signal == [kind : {"colors", "image", "finished"}, id : Ids, chan : Priorities, timeout : Int]

TypeOK ==
  /\ MuxerType(mux)
  /\ now \in 0..MaxTime
  /\ leds \in Frames
  /\ \A i \in DOMAIN effects : effects[i] \in
       [id : Ids, chan : Priorities, timeout : Int, end : Int, interrupted : BOOLEAN,
        phase : {"starting", "running", "done"},
        out : Seq(Signal)]
  /\ events \in Seq(Signal)

(* The leds show the visible input.  An input that goes inactive while it   *)
(* is selected by hand stays visible and is not drawn again.                *)
LedsFollow ==
  leds = Content(mux) \/ ~IsActive(GetInputInfo(mux, mux.current))

(* However requests, restarts and dying threads interleave, at most one     *)
(* effect per channel believes it owns it.                                  *)
OneEffectPerChannel ==
  \A i, j \in DOMAIN effects :
    i # j /\ effects[i].chan = effects[j].chan
      => effects[i].interrupted \/ effects[j].interrupted

(* effectFinished() deletes the sender: no signal of a deleted effect is    *)
(* still queued, and a finished effect has nothing left to say.             *)
SenderAlive ==
  \A k \in DOMAIN events : \E i \in DOMAIN effects :
    /\ effects[i].id = events[k].id
    /\ events[k].kind = "finished" => effects[i].phase = "done"

-----------------------------------------------------------------------------
(* Action properties *)

(* A frame that arrives late never brings a channel back to life. *)
NoResurrection ==
  [][DeliverFrame \/ DeliverFinished \/ UpdateTimeout
       => DOMAIN mux'.inputs \subseteq DOMAIN mux.inputs]_vars

(* An effect that ends clears its own channel, not what took its place: a   *)
(* colour, or the effect that was started there after it.                   *)
FinishedClearsOwn ==
  [][DeliverFinished =>
       \A p \in DOMAIN mux.inputs \ DOMAIN mux'.inputs :
         \/ Expired(mux.inputs[p], now)
         \/ /\ p = Head(events).chan
            /\ mux.inputs[p].comp # "COLOR"
            /\ \A i \in DOMAIN effects :
                 effects[i].chan = p /\ ~effects[i].interrupted
                   => effects[i].id = Head(events).id]_vars

-----------------------------------------------------------------------------
(* Liveness *)

(* An interrupted effect is gone in the end: its thread leaves the script,  *)
(* the finished signal gets through the queue, the object is deleted.       *)
InterruptedGone ==
  \A id \in Ids :
    (\E i \in DOMAIN effects : effects[i].id = id /\ effects[i].interrupted)
      ~> ~(\E i \in DOMAIN effects : effects[i].id = id /\ effects[i].interrupted)

=============================================================================
