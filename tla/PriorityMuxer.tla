---------------------------- MODULE PriorityMuxer ----------------------------
(***************************************************************************)
(* One PriorityMuxer on the main thread: its public methods, called by     *)
(* Hyperion in any order, and the timers that drive it.                    *)
(*   mux      the muxer (MuxerOps)                                         *)
(*   now      QDateTime::currentMSecsSinceEpoch(), in units of the 250 ms  *)
(*            update interval                                              *)
(*   ticking  _updateTimer is active                                       *)
(*   todo     the keys clearAll(false) has still to visit; nothing else    *)
(*            runs on the main thread until it is empty                    *)
(*   quitting clearAll(true) was called: HyperionDaemon::freeObjects() and *)
(*            Hyperion::freeObjects() do so when the program ends          *)
(*   unheeded a history variable that only properties read (MuxerOps)      *)
(***************************************************************************)
EXTENDS MuxerOps

CONSTANT MaxTime      \* bound on now

ASSUME MaxTimeAssumption == MaxTime \in Nat

VARIABLES mux, now, ticking, todo, quitting, unheeded

vars == <<mux, now, ticking, todo, quitting, unheeded>>

Init ==
  /\ mux = NewMuxer
  /\ now = 0
  /\ ticking = TRUE
  /\ todo = {}
  /\ quitting = FALSE
  /\ unheeded = {}

(* A call that runs to completion on the main thread, and whether it makes *)
(* an update: setCurrentTime() heeds every input.                          *)
Call(m, updates) ==
  /\ todo = {}
  /\ mux' = m
  /\ unheeded' = IF updates THEN {} ELSE unheeded
  /\ UNCHANGED <<now, ticking, todo, quitting>>

-----------------------------------------------------------------------------
Register(p, comp) == Call(RegisterInput(mux, p, comp), FALSE)

(* setInput(), setInputImage() with the duration the caller passes *)
Set(m, p, timeout) ==
  /\ todo = {}
  /\ mux' = m
  /\ unheeded' = UnheededAfter(mux, unheeded, p, timeout)
  /\ UNCHANGED <<now, ticking, todo, quitting>>

Colors(p, f, timeout)  == Set(SetInput(mux, p, f, timeout, now), p, timeout)
Picture(p, f, timeout) == Set(SetInputImage(mux, p, f, timeout, now), p, timeout)
Deactivate(p)          == Set(SetInputInactive(mux, p, now), ToUint8(p), INACTIVE)

Clear(p) == Call(ClearInput(mux, p, now), Clears(mux, p))

Select(p) ==
  Call(SetPriority(mux, p, now),
       /\ Has(mux, ToUint8(p))
       /\ AutoSelectSucceeds([mux EXCEPT !.manual = ToUint8(p)], FALSE))

AutoSelect(enable) ==
  Call(SetSourceAutoSelectEnabled(mux, enable, now), AutoSelectSucceeds(mux, enable))

SetEnable(enable) ==
  /\ todo = {}
  /\ ticking' = enable
  /\ UNCHANGED <<mux, now, todo, quitting, unheeded>>

ClearAll ==
  /\ todo = {}
  /\ todo' = DOMAIN mux.inputs
  /\ UNCHANGED <<mux, now, ticking, quitting, unheeded>>

ClearNext ==
  /\ todo # {}
  /\ LET key == Least(todo)
     IN  /\ todo' = todo \ {key}
         /\ mux' = IF Clearable(mux, key) THEN ClearInput(mux, key, now) ELSE mux
         /\ unheeded' = IF Clearable(mux, key) /\ Clears(mux, key) THEN {} ELSE unheeded
  /\ UNCHANGED <<now, ticking, quitting>>

ForceClearAll ==
  /\ todo = {}
  /\ mux' = ClearAllForced(mux)
  /\ quitting' = TRUE
  /\ unheeded' = {}
  /\ UNCHANGED <<now, ticking, todo>>

-----------------------------------------------------------------------------
(* The timers: _updateTimer (interval 250 ms), _timer and _blockTimer       *)
(* (single shot).                                                           *)
UpdateTimeout == ticking /\ Call(SetCurrentTime(mux, now), TRUE)

TimerTimeout == mux.pending /\ Call(TimeTrigger([mux EXCEPT !.pending = FALSE], 1), FALSE)

BlockTimeout == mux.blocked /\ Call([mux EXCEPT !.blocked = FALSE], FALSE)

Tick ==
  /\ now < MaxTime
  /\ now' = now + 1
  /\ UNCHANGED <<mux, ticking, todo, quitting, unheeded>>

-----------------------------------------------------------------------------
CallPriority(p) ==
  \/ \E comp \in Components : Register(p, comp)
  \/ \E f \in Frames, timeout \in Timeouts : Colors(p, f, timeout) \/ Picture(p, f, timeout)
  \/ Deactivate(p)
  \/ Clear(p)

Next ==
  \/ \E p \in Priorities : CallPriority(p)
  \/ \E p \in Channels : Select(p)
  \/ \E enable \in BOOLEAN : AutoSelect(enable) \/ SetEnable(enable)
  \/ ClearAll
  \/ ClearNext
  \/ ForceClearAll
  \/ UpdateTimeout
  \/ TimerTimeout
  \/ BlockTimeout
  \/ Tick

Spec == Init /\ [][Next]_vars

(* A handler on the main thread runs to its end, and between two handlers  *)
(* the event loop serves a timer that is due: calls that keep coming cannot *)
(* starve it (strong fairness, as UpdateTimeout waits for todo = {}).       *)
Fairness == SF_vars(UpdateTimeout) /\ WF_vars(ClearNext)

FairSpec == Spec /\ Fairness

-----------------------------------------------------------------------------
TypeOK ==
  /\ MuxerType(mux)
  /\ now \in Nat
  /\ ticking \in BOOLEAN
  /\ quitting \in BOOLEAN
  /\ todo \subseteq Channels
  /\ unheeded \subseteq DOMAIN mux.inputs

-----------------------------------------------------------------------------
(* Invariants *)

(* In auto mode the visible source is the lowest-numbered active one, in   *)
(* every state and not only after an update: setInput() skips              *)
(* setCurrentTime() unless the input changes from or to INACTIVE.  A        *)
(* duration below -1 slips through that test; an input it made mute, or    *)
(* gave its voice back, counts as it did before until the next update.     *)
AutoShowsBest == AutoBest(mux, unheeded)

(* Manual selection is never left pointing at a source that was cleared or *)
(* timed out: whoever removes it switches back to auto selection.          *)
PinnedPresent == ~quitting => Pinned(mux)

(* The visible source exists, also in manual mode while a second           *)
(* setPriority() waits for the next update.                                *)
VisiblePresent == Visible(mux)

(* Plugins and the led output follow visiblePriorityChanged: the last one  *)
(* they got names the visible source.                                      *)
VisibleAnnounced == ~quitting => Announced(mux)

(* A subscriber of priorities-update knows the registered sources, the     *)
(* visible one and the selection mode without asking again.                *)
ListingComplete == ~quitting => Complete(mux)

(* Both modes point at what is there: the visible source and a pinned one.  *)
SelectionPresent == PinnedPresent /\ VisiblePresent

(* Whoever listens to the signals (PriorityMuxer.h) or subscribes for       *)
(* priorities-update (JsonCB) knows what is selected and what there is.     *)
ListenersKnow == VisibleAnnounced /\ ListingComplete

-----------------------------------------------------------------------------
(* Action properties *)

(* While a manually selected source is visible no other source takes over: *)
(* not a better one that registers, and not the timer.                     *)
ManualSticks ==
  [][~mux.auto /\ ~mux'.auto /\ mux'.manual = mux.manual /\ mux.current = mux.manual
       => mux'.current = mux.current \/ ForceClearAll]_vars

(* Manual selection ends only by request, or in the very step in which the *)
(* selected source is found missing.                                       *)
ManualEndsForCause ==
  [][~mux.auto /\ mux'.auto => AutoSelect(TRUE) \/ ~Has(mux', mux.manual)]_vars

(* Manual selection stays put, and ends for a cause (setCurrentTime()).     *)
ManualMode == ManualSticks /\ ManualEndsForCause

(* A source disappears only when it is cleared or its time is over; an     *)
(* update, a registration or a new frame never drops a live one.           *)
LostForCause ==
  [][\A p \in DOMAIN mux.inputs \ DOMAIN mux'.inputs :
       \/ Expired(mux.inputs[p], now)
       \/ Clear(p)
       \/ ClearNext /\ p = Least(todo) /\ p < BG_PRIORITY
                    /\ mux.inputs[p].comp # "OTHER"
       \/ ForceClearAll]_vars

(* The abstract specification, and how a muxer is read as one.             *)
Selection == INSTANCE SourceSelection WITH
  Sources    <- Channels,
  Default    <- LOWEST_PRIORITY,
  None       <- NO_MANUAL,
  registered <- DOMAIN mux.inputs,
  live       <- Counted(mux, unheeded),
  pinned     <- IF ~mux.auto /\ Has(mux, mux.manual) THEN mux.manual ELSE NO_MANUAL,
  visible    <- mux.current

(* Timeouts, signals and the shortcuts of setInput() add up to plain source *)
(* selection: every call and every timer maps to a step of SourceSelection. *)
ImplementsSelection == Selection!Spec

-----------------------------------------------------------------------------
(* Liveness: _updateTimer repairs what the calls left behind. *)

(* A timed out source is dropped, or given new life, unless updates stop. *)
ExpiredRemoved ==
  \A p \in Channels :
    (Has(mux, p) /\ Expired(mux.inputs[p], now))
      ~> (~ticking \/ ~Has(mux, p) \/ ~Expired(mux.inputs[p], now))

(* A source selected while another was selected becomes visible in the end. *)
ManualShown ==
  (~mux.auto /\ mux.current # mux.manual)
     ~> (~ticking \/ mux.auto \/ mux.current = mux.manual)

(* What calls and clocks leave behind is settled by the updates             *)
(* (_updateTimer, setCurrentTime()).                                        *)
SelectionSettles == ExpiredRemoved /\ ManualShown
=============================================================================
