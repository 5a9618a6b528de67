------------------------------- MODULE MuxerOps -------------------------------
(***************************************************************************)
(* The methods of the class PriorityMuxer (libsrc/hyperion/               *)
(* PriorityMuxer.cpp) as operators from a muxer value to a muxer value.    *)
(* PriorityMuxer.tla is the state machine of one muxer on its own; the     *)
(* modules that model the rest of Hyperion compose the same operators.     *)
(*                                                                         *)
(* A muxer value m is a record:                                            *)
(*   inputs   _activeInputs: priority -> [timeout, comp, colors, image]    *)
(*   current  _currentPriority, the visible source                         *)
(*   manual   _manualSelectedPriority                                      *)
(*   auto     _sourceAutoSelectEnabled                                     *)
(*   blocked  _blockTimer is active                                        *)
(*   pending  _timer is active                                             *)
(* and what the listeners of its signals were last told:                   *)
(*   shown    the argument of the last visiblePriorityChanged              *)
(*   listed   the priority list JsonCB read at the last prioritiesChanged  *)
(*            or autoSelectChanged                                         *)
(* origin, owner and smooth_cfg of an input are left out.                  *)
(***************************************************************************)
EXTENDS Integers, FiniteSets

CONSTANTS
  Priorities,   \* the priorities callers use: C++ ints, not only 1..253
  Components,   \* the component kinds they register
  Timeouts,     \* the timeout_ms values callers pass
  Frames,       \* led colours and images, told apart only by who wrote them
  NoFrame       \* no colours yet; an image of size() <= 3

IntMin == -2147483647 - 1
IntMax == 2147483647
Int32  == IntMin .. IntMax

ASSUME PrioritiesAssumption == Priorities \subseteq Int32
ASSUME ComponentsAssumption == Components \subseteq {"COLOR", "EFFECT", "GRABBER", "V4L", "OTHER"}
ASSUME TimeoutsAssumption   == Timeouts \subseteq Int
ASSUME FramesAssumption     == NoFrame \in Frames

LOWEST_PRIORITY == 255     \* std::numeric_limits<uint8_t>::max()
NO_MANUAL       == 256     \* initial _manualSelectedPriority
BG_PRIORITY     == 254     \* LOWEST_PRIORITY-1, the background effect's
INACTIVE        == -100    \* timeoutTime_ms of an input awaiting data
ENDLESS         == -1

Channels == Priorities \union {LOWEST_PRIORITY}

Input == [timeout : Int, comp : Components \union {"COLOR"}, colors : Frames, image : Frames]

ToUint8(p) == p % 256      \* the conversion of an int argument to uint8_t

Least(S) == CHOOSE x \in S : \A y \in S : x <= y

LowestPriorityInfo ==
  [timeout |-> ENDLESS, comp |-> "COLOR", colors |-> NoFrame, image |-> NoFrame]

Has(m, p) == p \in DOMAIN m.inputs

(* getInputInfo(): an unknown priority reads as the lowest one *)
GetInputInfo(m, p) ==
  CASE Has(m, p)                           -> m.inputs[p]
    [] ~Has(m, p) /\ Has(m, LOWEST_PRIORITY) -> m.inputs[LOWEST_PRIORITY]
    [] OTHER                               -> LowestPriorityInfo

(* an input takes part in auto selection, and is listed as active *)
IsActive(input) == input.timeout >= ENDLESS

Expired(input, now) == input.timeout > 0 /\ input.timeout <= now

(* the source auto selection picks: LOWEST_PRIORITY also when it is not a key *)
Best(inputs) ==
  Least({p \in DOMAIN inputs : IsActive(inputs[p])} \union {LOWEST_PRIORITY})

-----------------------------------------------------------------------------
(* Signals.  A JSON client that subscribed to priorities-update holds what *)
(* JsonCB::handlePriorityUpdate sent it, on prioritiesChanged and on        *)
(* autoSelectChanged alike.                                                *)

Listing(m) ==
  [active  |-> [p \in DOMAIN m.inputs \ {LOWEST_PRIORITY} |-> IsActive(m.inputs[p])],
   visible |-> m.current,
   auto    |-> m.auto]

PrioritiesChanged(m) == [m EXCEPT !.listed = Listing(m)]

(* mutant: announces the selected source instead of the visible one *)
VisiblePriorityChanged_Manual(m) == [m EXCEPT !.shown = m.manual]

VisiblePriorityChanged(m) == [m EXCEPT !.shown = ToUint8(m.current)]

(* The inputs whose remaining time clients are shown once per second. *)
Counting(inputs) ==
  {p \in DOMAIN inputs : /\ p < BG_PRIORITY
                         /\ inputs[p].timeout > -1
                         /\ inputs[p].comp \in {"EFFECT", "COLOR"}}

(* timeTrigger() called n times in a row: the first call on an inactive    *)
(* _blockTimer emits timeRunner and starts it, every other starts _timer.  *)
TimeTrigger(m, n) ==
  CASE n = 0              -> m
    [] n # 0 /\ m.blocked -> [m EXCEPT !.pending = TRUE]
    [] OTHER -> PrioritiesChanged([m EXCEPT !.blocked = TRUE, !.pending = @ \/ n # 1])

-----------------------------------------------------------------------------
(* setCurrentTime(): drop the expired inputs, select the visible one.      *)
(* Every signal emitted while the map is walked is followed, when anything *)
(* else changes, by another, so the listing the last one carries is that   *)
(* of the result.                                                          *)
(* mutant: the manually selected source does not time out *)
Kept_Manual(m, now) ==
  [p \in {q \in DOMAIN m.inputs : (~m.auto /\ q = m.manual) \/ ~Expired(m.inputs[q], now)}
     |-> m.inputs[p]]

Kept(m, now) == [p \in {q \in DOMAIN m.inputs : ~Expired(m.inputs[q], now)} |-> m.inputs[p]]

Holds(m, kept) == ~m.auto /\ m.manual \in DOMAIN kept

(* mutant: the selected source has to beat the others *)
Selected_Min(m, kept) ==
  IF Holds(m, kept) THEN Least({m.manual, Best(kept)}) ELSE Best(kept)

Selected(m, kept) == IF Holds(m, kept) THEN m.manual ELSE Best(kept)

SetCurrentTime(m, now) ==
  LET kept    == Kept(m, now)
      dropped == ~m.auto /\ ~Holds(m, kept)
      swept   == [m EXCEPT !.inputs  = kept,
                           !.auto    = m.auto \/ dropped,
                           !.current = Selected(m, kept)]
      told    == IF swept.current # m.current
                   THEN VisiblePriorityChanged(swept) ELSE swept
      heard   == IF \/ dropped
                    \/ DOMAIN kept # DOMAIN m.inputs
                    \/ swept.current # m.current
                   THEN PrioritiesChanged(told) ELSE told
  IN  TimeTrigger(heard, Cardinality(Counting(kept)))

(* setSourceAutoSelectEnabled(enable, update = true).  The signal is       *)
(* emitted after setCurrentTime(), whatever that did to the mode.          *)
AutoSelectSucceeds(m, enable) ==
  m.auto # enable /\ (enable \/ Has(m, m.manual))

SetSourceAutoSelectEnabled(m, enable, now) ==
  IF AutoSelectSucceeds(m, enable)
    THEN PrioritiesChanged(SetCurrentTime([m EXCEPT !.auto = enable], now))
    ELSE m

(* mutant: selects without setCurrentTime() *)
SetPriority_Direct(m, p, now) ==
  IF Has(m, ToUint8(p))
    THEN PrioritiesChanged([m EXCEPT !.manual = ToUint8(p), !.auto = FALSE,
                                     !.current = ToUint8(p)])
    ELSE m

(* setPriority(): the result of setSourceAutoSelectEnabled() is ignored *)
SetPriority(m, p, now) ==
  IF Has(m, ToUint8(p))
    THEN SetSourceAutoSelectEnabled([m EXCEPT !.manual = ToUint8(p)], FALSE, now)
    ELSE m

(* registerInput(): a known priority keeps its timeout and its data *)
RegisterInput(m, p, comp) ==
  IF Has(m, p)
    THEN [m EXCEPT !.inputs[p].comp = comp]
    ELSE PrioritiesChanged(
           [m EXCEPT !.inputs =
              [q \in DOMAIN m.inputs \union {p} |->
                 IF q = p THEN [timeout |-> INACTIVE, comp |-> comp,
                                colors |-> NoFrame, image |-> NoFrame]
                          ELSE m.inputs[q]]])

(* setInput() and setInputImage() share this; input is the new content.    *)
(* Only a change from or to INACTIVE selects the visible source again.     *)
FinalTimeout(timeout, now) == IF timeout > 0 THEN now + timeout ELSE timeout

(* mutants: the first data of an input, or its last, does not reselect *)
ReplaceInput_NotOnStart(m, p, input, now) ==
  LET updated == [m EXCEPT !.inputs[p] = input]
  IN  IF m.inputs[p].timeout # INACTIVE /\ input.timeout = INACTIVE
        THEN SetCurrentTime(updated, now) ELSE updated

ReplaceInput_NotOnStop(m, p, input, now) ==
  LET updated == [m EXCEPT !.inputs[p] = input]
  IN  IF m.inputs[p].timeout = INACTIVE /\ input.timeout # INACTIVE
        THEN SetCurrentTime(updated, now) ELSE updated

ReplaceInput(m, p, input, now) ==
  LET updated == [m EXCEPT !.inputs[p] = input]
  IN  IF (m.inputs[p].timeout = INACTIVE) # (input.timeout = INACTIVE)
        THEN SetCurrentTime(updated, now)
        ELSE updated

SetInput(m, p, frame, timeout, now) ==
  IF Has(m, p)
    THEN ReplaceInput(m, p, [m.inputs[p] EXCEPT !.colors  = frame,
                                                !.timeout = FinalTimeout(timeout, now)], now)
    ELSE m

SetInputImage(m, p, frame, timeout, now) ==
  IF Has(m, p)
    THEN ReplaceInput(m, p, [m.inputs[p] EXCEPT !.image   = frame,
                                                !.timeout = FinalTimeout(timeout, now)], now)
    ELSE m

SetInputInactive(m, p, now) == SetInputImage(m, ToUint8(p), NoFrame, INACTIVE, now)

Without(m, S) ==
  [m EXCEPT !.inputs = [q \in DOMAIN m.inputs \ S |-> m.inputs[q]]]

(* clearInput(const uint8_t priority) *)
Clears(m, p) == ToUint8(p) < LOWEST_PRIORITY /\ Has(m, ToUint8(p))

(* mutant: leaves the selection to the next update *)
ClearInput_NoReselect(m, p, now) ==
  IF Clears(m, p) THEN PrioritiesChanged(Without(m, {ToUint8(p)})) ELSE m

ClearInput(m, p, now) ==
  IF Clears(m, p)
    THEN PrioritiesChanged(SetCurrentTime(Without(m, {ToUint8(p)}), now))
    ELSE m

(* clearAll(false) calls clearInput() for each of these keys in turn, lowest *)
(* first; whether a key qualifies is decided when its turn comes.            *)
(* mutant: an off-by-one spares LOWEST_PRIORITY only *)
Clearable_BG(m, key) == /\ GetInputInfo(m, key).comp \in {"COLOR", "EFFECT"}
                        /\ key < LOWEST_PRIORITY

Clearable(m, key) == /\ GetInputInfo(m, key).comp \in {"COLOR", "EFFECT"}
                     /\ key < BG_PRIORITY

(* clearAll(true) emits nothing and leaves the selection mode as it is *)
ClearAllForced(m) ==
  [m EXCEPT !.inputs  = [p \in {LOWEST_PRIORITY} |-> LowestPriorityInfo],
            !.current = LOWEST_PRIORITY]

(* the constructor *)
NewMuxer ==
  LET inputs == [p \in {LOWEST_PRIORITY} |-> LowestPriorityInfo]
  IN  [inputs |-> inputs, current |-> LOWEST_PRIORITY, manual |-> NO_MANUAL,
       auto |-> TRUE, blocked |-> FALSE, pending |-> FALSE,
       shown |-> LOWEST_PRIORITY,
       listed |-> [active |-> [p \in {} |-> FALSE],
                   visible |-> LOWEST_PRIORITY, auto |-> TRUE]]

-----------------------------------------------------------------------------
MuxerType(m) ==
  /\ m \in [inputs : {m.inputs}, current : Channels, manual : 0..NO_MANUAL,
            auto : BOOLEAN, blocked : BOOLEAN, pending : BOOLEAN,
            shown : 0..255, listed : {m.listed}]
  /\ DOMAIN m.inputs \subseteq Channels
  /\ m.inputs \in [DOMAIN m.inputs -> Input]

(* the listeners of visiblePriorityChanged and of prioritiesChanged know *)
Announced(m) == m.shown = ToUint8(m.current)

Complete(m) ==
  /\ DOMAIN m.listed.active = DOMAIN m.inputs \ {LOWEST_PRIORITY}
  /\ m.listed.visible = m.current
  /\ m.listed.auto = m.auto

(* History.  The schemas of the JSON requests take any integer as a         *)
(* duration.  With one below ENDLESS that is not INACTIVE an input is mute:  *)
(* it counts as inactive, yet setInput() makes no update when an input falls *)
(* mute or gets its voice back, as that crosses no INACTIVE.  unheeded is    *)
(* the set of the inputs whose activity changed so since the last update.    *)
Mute(timeout) == timeout < ENDLESS /\ timeout # INACTIVE

UnheededAfter(m, unheeded, p, timeout) ==
  LET old == m.inputs[p].timeout
  IN  CASE ~Has(m, p) -> unheeded
        [] Has(m, p) /\ (old = INACTIVE) # (timeout = INACTIVE) -> {}
        [] OTHER -> IF Mute(old) # Mute(timeout)
                      THEN (unheeded \ {p}) \union ({p} \ unheeded)
                      ELSE unheeded

(* the inputs that count for auto selection until the next update: those   *)
(* that are active, but for what setInput() leaves unheeded                *)
Counted(m, unheeded) ==
  {p \in DOMAIN m.inputs : IsActive(m.inputs[p]) <=> p \notin unheeded}

BestCounted(m, unheeded) == Least(Counted(m, unheeded) \union {LOWEST_PRIORITY})

(* auto selection shows the best source that counts; a pinned source       *)
(* exists; so does the visible one                                         *)
AutoBest(m, unheeded) == m.auto => m.current = BestCounted(m, unheeded)

Pinned(m)  == ~m.auto => Has(m, m.manual)
Visible(m) == m.current \in DOMAIN m.inputs \union {LOWEST_PRIORITY}
=============================================================================
