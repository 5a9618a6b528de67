------------------------- MODULE PriorityMuxerProofs -------------------------
(***************************************************************************)
(* The invariants of PriorityMuxer, for every set of priorities, frames    *)
(* and times.  IInv is inductive: each clause of Sound and Informed is     *)
(* preserved by every method (MuxerLemmas), and the listeners' clauses     *)
(* hold until clearAll(true), which emits nothing.                         *)
(***************************************************************************)
EXTENDS PriorityMuxer, MuxerLemmas

IInv ==
  /\ Sound(mux, unheeded)
  /\ ~quitting => Informed(mux)
  /\ now \in Nat
  /\ ticking \in BOOLEAN
  /\ quitting \in BOOLEAN
  /\ todo \subseteq Channels

LEMMA InitIInv == Init => IInv
<1> SUFFICES ASSUME Init PROVE IInv
  OBVIOUS
<1> DEFINE inputs == [p \in {LOWEST_PRIORITY} |-> LowestPriorityInfo]
<1>1. LowestPriorityInfo \in Input /\ IsActive(LowestPriorityInfo)
  BY FramesAssumption DEF LowestPriorityInfo, Input, IsActive, ENDLESS
<1>2. LOWEST_PRIORITY \in Channels
  BY DEF Channels
<1>3. MuxerType(mux)
  BY <1>1, <1>2 DEF Init, NewMuxer, MuxerType, LOWEST_PRIORITY, NO_MANUAL
<1>4. /\ mux.inputs = inputs /\ mux.current = LOWEST_PRIORITY /\ mux.auto = TRUE
      /\ mux.shown = LOWEST_PRIORITY
      /\ mux.listed = [active |-> [p \in {} |-> FALSE],
                       visible |-> LOWEST_PRIORITY, auto |-> TRUE]
  BY DEF Init, NewMuxer
<1>5. BestCounted(mux, unheeded) = LOWEST_PRIORITY
  BY <1>3, <1>4, BestFacts, HeedAll DEF Init, MuxerType
<1>6. Sound(mux, unheeded)
  BY <1>3, <1>4, <1>5 DEF Init, Sound, AutoBest, Visible
<1>7. Informed(mux)
  <2>1. ToUint8(LOWEST_PRIORITY) = LOWEST_PRIORITY
    BY SMT DEF ToUint8, LOWEST_PRIORITY
  <2>2. DOMAIN mux.inputs \ {LOWEST_PRIORITY} = {}
    BY <1>4
  <2>3. DOMAIN mux.listed.active = {}
    BY <1>4
  <2>4. mux.listed.visible = LOWEST_PRIORITY /\ mux.listed.auto = TRUE
    BY <1>4
  <2>5. mux.listed.visible = mux.current /\ mux.listed.auto = mux.auto
    BY <1>4, <2>4
  <2> QED
    BY <1>4, <2>1, <2>2, <2>3, <2>5 DEF Informed, Pinned, Announced, Complete
<1> QED
  BY <1>6, <1>7 DEF Init, IInv

(* A completed call preserves the invariant if its operator does. *)
LEMMA CallIInv ==
  ASSUME IInv, NEW m, NEW updates, Call(m, updates),
         Preserves(mux, m, IF updates THEN {} ELSE unheeded)
  PROVE  IInv'
BY DEF IInv, Call, Preserves

LEMMA SetIInv ==
  ASSUME IInv, NEW m, NEW p, NEW t, Set(m, p, t),
         Preserves(mux, m, UnheededAfter(mux, unheeded, p, t))
  PROVE  IInv'
BY DEF IInv, Set, Preserves

LEMMA NextIInv == ASSUME IInv, [Next]_vars PROVE IInv'
<1> USE DEF IInv
<1>1. ASSUME NEW p \in Priorities, CallPriority(p) PROVE IInv'
  <2>1. ASSUME NEW comp \in Components, Register(p, comp) PROVE IInv'
    BY <2>1, CallIInv, RegisterInputPreserves DEF Register
  <2>2. ASSUME NEW f \in Frames, NEW t \in Timeouts, Colors(p, f, t) PROVE IInv'
    BY <2>2, TimeoutsAssumption, SetIInv, SetInputPreserves DEF Colors
  <2>3. ASSUME NEW f \in Frames, NEW t \in Timeouts, Picture(p, f, t) PROVE IInv'
    BY <2>3, TimeoutsAssumption, SetIInv, SetInputPreserves DEF Picture
  <2>4. CASE Deactivate(p)
    BY <2>4, SetIInv, SetInputInactivePreserves DEF Deactivate
  <2>5. CASE Clear(p)
    BY <2>5, CallIInv, ClearInputPreserves DEF Clear
  <2> QED
    BY <1>1, <2>1, <2>2, <2>3, <2>4, <2>5 DEF CallPriority
<1>2. ASSUME NEW p \in Channels, Select(p) PROVE IInv'
  <2>1. Preserves(mux, SetPriority(mux, p, now), HeedOnSelect(mux, unheeded, p))
    BY SelectPreserves, ChannelsAreInts
  <2> QED
    BY <1>2, <2>1, CallIInv DEF Select, HeedOnSelect
<1>3. ASSUME NEW enable \in BOOLEAN, AutoSelect(enable) PROVE IInv'
  BY <1>3, CallIInv, SelectPreserves DEF AutoSelect
<1>4. ASSUME NEW enable \in BOOLEAN, SetEnable(enable) PROVE IInv'
  BY <1>4 DEF SetEnable
<1>5. CASE ClearAll
  BY <1>5 DEF ClearAll, Sound, MuxerType
<1>6. CASE ClearNext
  <2> DEFINE k == Least(todo)
  <2>1. Preserves(mux, ClearInput(mux, k, now), IF Clears(mux, k) THEN {} ELSE unheeded)
    BY ClearInputPreserves
  <2>2. /\ mux' = IF Clearable(mux, k) THEN ClearInput(mux, k, now) ELSE mux
        /\ unheeded' = IF Clearable(mux, k) /\ Clears(mux, k) THEN {} ELSE unheeded
        /\ todo' \subseteq todo /\ UNCHANGED <<now, ticking, quitting>>
    BY <1>6 DEF ClearNext
  <2> HIDE DEF k
  <2> QED
    BY <2>1, <2>2 DEF Preserves
<1>7. CASE ForceClearAll
  <2>1. LowestPriorityInfo \in Input /\ IsActive(LowestPriorityInfo)
    BY FramesAssumption DEF LowestPriorityInfo, Input, IsActive, ENDLESS
  <2>2. /\ mux'.inputs = [p \in {LOWEST_PRIORITY} |-> LowestPriorityInfo]
        /\ mux'.current = LOWEST_PRIORITY
    BY <1>7 DEF ForceClearAll, ClearAllForced, Sound, MuxerType
  <2>3. MuxerType(mux')
    BY <1>7, <2>1 DEF ForceClearAll, ClearAllForced, Sound, MuxerType, Channels
  <2>4. unheeded' = {} /\ BestCounted(mux', {}) = LOWEST_PRIORITY
    BY <1>7, <2>2, <2>3, BestFacts, HeedAll DEF ForceClearAll, MuxerType
  <2>5. Sound(mux', unheeded')
    BY <2>2, <2>3, <2>4 DEF Sound, AutoBest, Visible
  <2> QED
    BY <1>7, <2>5 DEF ForceClearAll
<1>8. CASE UpdateTimeout
  <2>1. Preserves(mux, SetCurrentTime(mux, now), {})
    BY UpdateSound DEF Sound, Preserves, Informed
  <2> QED
    BY <1>8, <2>1, CallIInv DEF UpdateTimeout
<1>9. CASE TimerTimeout
  <2> DEFINE x == [mux EXCEPT !.pending = FALSE]
  <2>1. MuxerType(x) /\ SameSelection(mux, x) /\ x.shown = mux.shown
        /\ x.listed = mux.listed
    BY DEF Sound, MuxerType, SameSelection
  <2> HIDE DEF x
  <2>2. Sound(x, unheeded) /\ (Informed(mux) => Informed(x))
    BY <2>1, SignalPreserves DEF Informed, Complete, SameSelection
  <2>3. /\ MuxerType(TimeTrigger(x, 1)) /\ SameSelection(x, TimeTrigger(x, 1))
        /\ TimeTrigger(x, 1).shown = x.shown
        /\ Complete(x) => Complete(TimeTrigger(x, 1))
    BY <2>1, TimeTriggerFacts
  <2>4. Preserves(mux, TimeTrigger(x, 1), unheeded)
    BY <2>2, <2>3, SignalPreserves DEF Preserves, Informed
  <2> QED
    BY <1>9, <2>4, CallIInv DEF TimerTimeout, x
<1>10. CASE BlockTimeout
  <2> DEFINE x == [mux EXCEPT !.blocked = FALSE]
  <2>1. MuxerType(x) /\ SameSelection(mux, x) /\ x.shown = mux.shown
        /\ x.listed = mux.listed
    BY DEF Sound, MuxerType, SameSelection
  <2> HIDE DEF x
  <2>2. Preserves(mux, x, unheeded)
    BY <2>1, SignalPreserves DEF Preserves, Informed, Complete, SameSelection
  <2> QED
    BY <1>10, <2>2, CallIInv DEF BlockTimeout, x
<1>11. CASE Tick
  BY <1>11 DEF Tick
<1>12. CASE UNCHANGED vars
  BY <1>12 DEF vars
<1> QED
  BY <1>1, <1>2, <1>3, <1>4, <1>5, <1>6, <1>7, <1>8, <1>9, <1>10, <1>11, <1>12
     DEF Next

LEMMA Inductive == Spec => []IInv
<1>1. Init => IInv
  BY InitIInv
<1>2. IInv /\ [Next]_vars => IInv'
  BY NextIInv
<1> QED
  BY <1>1, <1>2, PTL DEF Spec

-----------------------------------------------------------------------------
(* Every variable keeps its type: no call, timer or conversion to uint8_t  *)
(* takes the muxer out of the values MuxerType describes.                  *)
THEOREM TypeCorrect == Spec => []TypeOK
<1>1. IInv => TypeOK
  BY DEF IInv, Sound, TypeOK
<1> QED
  BY <1>1, Inductive, PTL

(* In auto mode the lowest-numbered active source is visible in every      *)
(* state, however calls, timeouts and updates interleave and whatever      *)
(* durations callers pass.  Inputs that a duration below -1 made mute, or  *)
(* gave their voice back, count as before until the next update: that is   *)
(* how far setInput() and setInputImage() themselves go.                   *)
THEOREM AutoSelectionShowsBest == Spec => []AutoShowsBest
<1>1. IInv => AutoShowsBest
  BY DEF IInv, Sound, AutoShowsBest
<1> QED
  BY <1>1, Inductive, PTL

(* Manual selection never points at a source that is gone, and the source  *)
(* the leds are driven by exists: whoever removes a source selects anew.   *)
THEOREM SelectionIsPresent == Spec => []SelectionPresent
<1>1. IInv => SelectionPresent
  BY DEF IInv, Informed, Sound, SelectionPresent, PinnedPresent, VisiblePresent
<1> QED
  BY <1>1, Inductive, PTL

(* Plugins, the led output and JSON subscribers are never behind on which  *)
(* sources exist, which one is visible and how it is selected.             *)
THEOREM ListenersInformed == Spec => []ListenersKnow
<1>1. IInv => ListenersKnow
  BY DEF IInv, Informed, ListenersKnow, VisibleAnnounced, ListingComplete
<1> QED
  BY <1>1, Inductive, PTL

-----------------------------------------------------------------------------
(* What a step may do to the selection, whichever call or timer it is.     *)
(* Settled is the part of the inductive invariant the refinement adds: the *)
(* best source is visible also when manual selection has lost its source.  *)
Manners ==
  /\ Settled(mux', unheeded')
  /\ ~mux'.auto => mux'.current \in {mux.current, mux'.manual} \/ ForceClearAll
  /\ ~Free(mux') => mux'.current \in {mux.current, mux'.manual}
  /\ ~mux.auto /\ mux'.auto => AutoSelect(TRUE) \/ ~Has(mux', mux.manual)

LEMMA MovesManners == ASSUME Moves(mux, mux', unheeded') PROVE Manners
  BY DEF Moves, Manners, Free

LEMMA NextManners ==
  ASSUME IInv, Settled(mux, unheeded), [Next]_vars
  PROVE  Manners
<1>0. MuxerType(mux) /\ unheeded \subseteq DOMAIN mux.inputs /\ now \in Nat
  BY DEF IInv, Sound
<1>1. ASSUME NEW p \in Priorities, CallPriority(p) PROVE Manners
  <2>1. ASSUME NEW comp \in Components, Register(p, comp) PROVE Manners
    BY <1>0, <2>1, RegisterInputMoves, MovesManners DEF Register, Call
  <2>2. ASSUME NEW f \in Frames, NEW t \in Timeouts, Colors(p, f, t) \/ Picture(p, f, t)
        PROVE  Manners
    <3>1. t \in Int
      BY TimeoutsAssumption
    <3> DEFINE v == UnheededAfter(mux, unheeded, p, t)
    <3>2. /\ Moves(mux, SetInput(mux, p, f, t, now), v)
          /\ Moves(mux, SetInputImage(mux, p, f, t, now), v)
      BY <1>0, <3>1, SetInputMoves
    <3> QED
      BY <2>2, <3>2, MovesManners DEF Colors, Picture, Set
  <2>3. CASE Deactivate(p)
    <3>1. INACTIVE \in Int /\ NoFrame \in Frames
      BY FramesAssumption DEF INACTIVE
    <3>2. Moves(mux, SetInputImage(mux, ToUint8(p), NoFrame, INACTIVE, now),
                UnheededAfter(mux, unheeded, ToUint8(p), INACTIVE))
      BY <1>0, <3>1, SetInputMoves
    <3> QED
      BY <2>3, <3>2, MovesManners DEF Deactivate, SetInputInactive, Set
  <2>4. CASE Clear(p)
    BY <1>0, <2>4, ClearInputMoves, MovesManners DEF Clear, Call
  <2> QED
    BY <1>1, <2>1, <2>2, <2>3, <2>4 DEF CallPriority
<1>2. ASSUME NEW p \in Channels, Select(p) PROVE Manners
  <2>1. Moves(mux, SetPriority(mux, p, now), HeedOnSelect(mux, unheeded, p))
    BY <1>0, ChannelsAreInts, SetPriorityMoves
  <2> QED
    BY <1>2, <2>1, MovesManners DEF Select, HeedOnSelect, Call
<1>3. ASSUME NEW enable \in BOOLEAN, AutoSelect(enable) PROVE Manners
  <2> DEFINE r == SetSourceAutoSelectEnabled(mux, enable, now)
             v == IF AutoSelectSucceeds(mux, enable) THEN {} ELSE unheeded
  <2>1. /\ Settled(r, v)
        /\ ~r.auto => r.current \in {mux.current, r.manual}
        /\ ~enable => Moves(mux, r, v)
    BY <1>0, AutoSelectMoves
  <2>2. mux' = r /\ unheeded' = v
    BY <1>3 DEF AutoSelect, Call
  <2> HIDE DEF r, v
  <2>3. CASE enable = TRUE
    BY <1>3, <2>1, <2>2, <2>3 DEF Manners, Free
  <2>4. CASE enable = FALSE
    BY <2>1, <2>2, <2>4, MovesManners
  <2> QED
    BY <2>3, <2>4
<1>4. CASE mux' = mux /\ unheeded' = unheeded
  BY <1>4 DEF Manners, Free
<1>5. CASE ClearNext
  <2> DEFINE k == Least(todo)
  <2>1. Moves(mux, ClearInput(mux, k, now), IF Clears(mux, k) THEN {} ELSE unheeded)
    BY <1>0, ClearInputMoves
  <2>2. /\ mux' = IF Clearable(mux, k) THEN ClearInput(mux, k, now) ELSE mux
        /\ unheeded' = IF Clearable(mux, k) /\ Clears(mux, k) THEN {} ELSE unheeded
    BY <1>5 DEF ClearNext
  <2> HIDE DEF k
  <2> QED
    BY <1>4, <2>1, <2>2, MovesManners
<1>6. CASE ForceClearAll
  <2>1. /\ mux'.inputs = [p \in {LOWEST_PRIORITY} |-> LowestPriorityInfo]
        /\ mux'.current = LOWEST_PRIORITY /\ mux'.auto = mux.auto
        /\ mux'.manual = mux.manual /\ unheeded' = {}
    BY <1>0, <1>6 DEF ForceClearAll, ClearAllForced, MuxerType
  <2>2. BestCounted(mux', unheeded') = LOWEST_PRIORITY
    BY <2>1, BestFacts, HeedAll DEF Channels
  <2> QED
    BY <1>6, <2>1, <2>2 DEF Manners, Settled, Free, Has
<1>7. CASE UpdateTimeout
  BY <1>0, <1>7, UpdateMoves, MovesManners DEF UpdateTimeout, Call
<1>8. CASE TimerTimeout \/ BlockTimeout
  <2> DEFINE x == [mux EXCEPT !.pending = FALSE]
             y == [mux EXCEPT !.blocked = FALSE]
  <2>1. MuxerType(x) /\ SameSelection(mux, x) /\ SameSelection(mux, y)
    BY <1>0 DEF MuxerType, SameSelection
  <2>2. (mux' = TimeTrigger(x, 1) \/ mux' = y) /\ unheeded' = unheeded
    BY <1>8 DEF TimerTimeout, BlockTimeout, Call
  <2> HIDE DEF x, y
  <2>3. SameSelection(x, TimeTrigger(x, 1))
    BY <2>1, TimeTriggerFacts
  <2>4. SameSelection(mux, mux')
    BY <2>1, <2>2, <2>3 DEF SameSelection
  <2> QED
    BY <2>2, <2>4, SameMoves, MovesManners
<1>9. CASE Tick \/ ClearAll \/ (\E enable \in BOOLEAN : SetEnable(enable)) \/ UNCHANGED vars
  BY <1>4, <1>9 DEF Tick, ClearAll, SetEnable, vars
<1> QED
  BY <1>1, <1>2, <1>3, <1>5, <1>6, <1>7, <1>8, <1>9 DEF Next

LEMMA Mannered == Spec => [](IInv /\ Settled(mux, unheeded)) /\ [][Manners]_vars
<1>1. Init => Settled(mux, unheeded)
  <2>1. Init => mux.auto /\ AutoBest(mux, unheeded)
    BY InitIInv DEF Init, NewMuxer, IInv, Sound
  <2> QED
    BY <2>1 DEF Settled, AutoBest
<1>2. IInv /\ Settled(mux, unheeded) /\ [Next]_vars => Settled(mux, unheeded)'
  BY NextManners DEF Manners
<1>3. IInv /\ Settled(mux, unheeded) /\ [Next]_vars => [Manners]_vars
  BY NextManners
<1> QED
  BY <1>1, <1>2, <1>3, Inductive, PTL DEF Spec

(* While a manually selected source is visible nothing takes over from it, *)
(* and manual selection ends by request or because its source is gone.     *)
THEOREM ManualModeIsKept == Spec => ManualMode
<1>1. [Manners]_vars
        => [~mux.auto /\ ~mux'.auto /\ mux'.manual = mux.manual /\ mux.current = mux.manual
              => mux'.current = mux.current \/ ForceClearAll]_vars
  BY DEF Manners
<1>2. [Manners]_vars
        => [~mux.auto /\ mux'.auto => AutoSelect(TRUE) \/ ~Has(mux', mux.manual)]_vars
  BY DEF Manners
<1> QED
  BY <1>1, <1>2, Mannered, PTL DEF ManualMode, ManualSticks, ManualEndsForCause

(* Every call and every timer of the muxer is a step of SourceSelection:   *)
(* in auto mode the favourite among the live sources is visible, in manual *)
(* mode nothing but the pinned one becomes so.                             *)
THEOREM ImplementsSourceSelection == Spec => ImplementsSelection
<1>1. Init => Selection!Init
  <2> SUFFICES ASSUME Init PROVE Selection!Init
    OBVIOUS
  <2>1. /\ mux.inputs = [p \in {LOWEST_PRIORITY} |-> LowestPriorityInfo]
        /\ mux.current = LOWEST_PRIORITY /\ mux.auto = TRUE
    BY DEF Init, NewMuxer
  <2>2. IsActive(LowestPriorityInfo) /\ unheeded = {}
    BY DEF Init, LowestPriorityInfo, IsActive, ENDLESS
  <2>3. Counted(mux, unheeded) = {LOWEST_PRIORITY}
    BY <2>1, <2>2 DEF Counted
  <2> QED
    BY <2>1, <2>3 DEF Selection!Init
<1>2. IInv' /\ Manners => Selection!Next
  <2> SUFFICES ASSUME IInv', Manners PROVE Selection!Next
    OBVIOUS
  <2> DEFINE Live == Counted(mux', unheeded')
  <2>1. MuxerType(mux') /\ Visible(mux')
    BY DEF IInv, Sound
  <2>2. DOMAIN mux'.inputs \subseteq Channels /\ Live \subseteq DOMAIN mux'.inputs
    BY <2>1 DEF MuxerType, Counted
  <2>3. Selection!Environment
    BY <2>2 DEF Selection!Environment
  <2>4. CASE Free(mux')
    <3>1. mux'.current = BestCounted(mux', unheeded')
      BY <2>4 DEF Manners, Settled
    <3>2. BestCounted(mux', unheeded') = Selection!Favourite(Live)
      BY DEF BestCounted, Least, Selection!Favourite
    <3>3. Selection!Follow
      BY <2>4, <3>1, <3>2 DEF Free, Selection!Follow
    <3> QED
      BY <2>3, <3>3 DEF Selection!Next
  <2>5. CASE ~Free(mux')
    <3>1. mux'.current \in {mux.current, mux'.manual}
      BY <2>5 DEF Manners
    <3>2. ~mux'.auto /\ Has(mux', mux'.manual)
      BY <2>5 DEF Free
    <3>3. Selection!Hold
      BY <2>1, <3>1, <3>2 DEF Visible, Has, Selection!Hold
    <3> QED
      BY <2>3, <3>3 DEF Selection!Next
  <2> QED
    BY <2>4, <2>5
<1>3. UNCHANGED vars => UNCHANGED Selection!selection
  BY DEF vars, Selection!selection, Has, Counted
<1>4. IInv' /\ [Manners]_vars => [Selection!Next]_Selection!selection
  BY <1>2, <1>3
<1> QED
  BY <1>1, <1>4, Mannered, PTL DEF ImplementsSelection, Selection!Spec, Spec

-----------------------------------------------------------------------------
(* Sources are removed for a cause.  clearAll(false) hands its keys to      *)
(* clearInput(uint8_t), so a negative key would clear another channel: the  *)
(* priorities callers use are not negative.                                 *)
OrdinaryPriorities == \A p \in Priorities : p >= 0

Caused(p) ==
  \/ Expired(mux.inputs[p], now)
  \/ Clear(p)
  \/ ClearNext /\ p = Least(todo) /\ p < BG_PRIORITY /\ mux.inputs[p].comp # "OTHER"
  \/ ForceClearAll

(* The channel a clear names is the one it removes. *)
LEMMA ChannelOfClear ==
  /\ \A p \in Int : ToUint8(p) \in Int /\ ToUint8(ToUint8(p)) = ToUint8(p)
  /\ \A p \in Int : 0 <= p /\ p < BG_PRIORITY => ToUint8(p) = p
BY SMT DEF ToUint8, BG_PRIORITY

LEMMA NextCaused ==
  ASSUME OrdinaryPriorities, IInv, Settled(mux, unheeded), [Next]_vars,
         NEW q \in DOMAIN mux.inputs \ DOMAIN mux'.inputs
  PROVE  Caused(q)
<1>0. MuxerType(mux) /\ unheeded \subseteq DOMAIN mux.inputs /\ now \in Nat
  BY DEF IInv, Sound
<1>1. ASSUME Removes(mux, mux', now, {}) PROVE Caused(q)
  BY <1>1 DEF Removes, Caused
<1>2. ASSUME NEW p \in Priorities, CallPriority(p) PROVE Caused(q)
  <2>1. ASSUME NEW comp \in Components, Register(p, comp) PROVE Caused(q)
    BY <1>0, <1>1, <2>1, RegisterInputMoves DEF Register, Call
  <2>2. ASSUME NEW f \in Frames, NEW t \in Timeouts, Colors(p, f, t) \/ Picture(p, f, t)
        PROVE  Caused(q)
    <3>1. t \in Int
      BY TimeoutsAssumption
    <3>2. /\ Removes(mux, SetInput(mux, p, f, t, now), now, {})
          /\ Removes(mux, SetInputImage(mux, p, f, t, now), now, {})
      BY <1>0, <3>1, SetInputMoves
    <3> QED
      BY <1>1, <2>2, <3>2 DEF Colors, Picture, Set
  <2>3. CASE Deactivate(p)
    <3>1. INACTIVE \in Int /\ NoFrame \in Frames
      BY FramesAssumption DEF INACTIVE
    <3>2. Removes(mux, SetInputImage(mux, ToUint8(p), NoFrame, INACTIVE, now), now, {})
      BY <1>0, <3>1, SetInputMoves
    <3> QED
      BY <1>1, <2>3, <3>2 DEF Deactivate, SetInputInactive, Set
  <2>4. CASE Clear(p)
    <3>1. p \in Int
      BY ChannelsAreInts DEF Channels
    <3>2. Removes(mux, mux', now, IF Clears(mux, p) THEN {ToUint8(p)} ELSE {})
      BY <1>0, <2>4, ClearInputMoves DEF Clear, Call
    <3>3. CASE q = ToUint8(p)
      <4>1. ToUint8(q) = ToUint8(p)
        BY <3>1, <3>3, ChannelOfClear
      <4>2. /\ ClearInput(mux, q, now) = ClearInput(mux, p, now)
            /\ Clears(mux, q) = Clears(mux, p)
        BY <4>1 DEF ClearInput, Clears
      <4> QED
        BY <2>4, <4>2 DEF Clear, Caused
    <3> QED
      BY <3>2, <3>3 DEF Removes, Caused
  <2> QED
    BY <1>2, <2>1, <2>2, <2>3, <2>4 DEF CallPriority
<1>3. ASSUME NEW p \in Channels, Select(p) PROVE Caused(q)
  BY <1>0, <1>1, <1>3, ChannelsAreInts, SetPriorityMoves DEF Select, Call
<1>4. ASSUME NEW enable \in BOOLEAN, AutoSelect(enable) PROVE Caused(q)
  BY <1>0, <1>1, <1>4, AutoSelectMoves DEF AutoSelect, Call
<1>5. CASE ClearNext
  <2> DEFINE k == Least(todo)
  <2>1. PICK S \in {{k}, {}} : Removes(mux, mux', now, S) /\ (S = {k} => Clearable(mux, k) /\ Has(mux, k))
    <3>1. k \in Channels /\ k \in Int
      <4>1. todo \subseteq Int32 /\ todo # {}
        BY <1>5, ChannelsAreInt32 DEF IInv, ClearNext
      <4>2. k \in todo
        BY <4>1, LeastInt32
      <4> QED
        BY <4>2, ChannelsAreInts DEF IInv
    <3>2. k >= 0
      BY <3>1 DEF OrdinaryPriorities, Channels, LOWEST_PRIORITY
    <3> HIDE DEF k
    <3>3. CASE Clearable(mux, k)
      <4>1. ToUint8(k) = k
        BY <3>1, <3>2, <3>3, ChannelOfClear DEF Clearable
      <4>2. mux' = ClearInput(mux, k, now)
        BY <1>5, <3>3 DEF ClearNext, k
      <4>3. Removes(mux, mux', now, IF Clears(mux, k) THEN {k} ELSE {})
        BY <1>0, <4>1, <4>2, ClearInputMoves
      <4> QED
        BY <3>3, <4>1, <4>3 DEF Clears
    <3>4. CASE ~Clearable(mux, k)
      <4>1. mux' = mux
        BY <1>5, <3>4 DEF ClearNext, k
      <4> QED
        BY <4>1 DEF Removes
    <3> QED
      BY <3>3, <3>4
  <2> HIDE DEF k
  <2>2. CASE q = k /\ S = {k}
    <3>1. Clearable(mux, k) /\ Has(mux, k)
      BY <2>1, <2>2
    <3>2. k < BG_PRIORITY /\ mux.inputs[k].comp # "OTHER"
      BY <3>1 DEF Clearable, GetInputInfo
    <3> QED
      BY <1>5, <2>2, <3>2 DEF Caused, k
  <2> QED
    BY <2>1, <2>2 DEF Removes, Caused
<1>6. CASE ForceClearAll
  BY <1>6 DEF Caused
<1>7. CASE UpdateTimeout
  BY <1>0, <1>1, <1>7, UpdateMoves DEF UpdateTimeout, Call
<1>8. CASE TimerTimeout \/ BlockTimeout
  <2> DEFINE x == [mux EXCEPT !.pending = FALSE]
             y == [mux EXCEPT !.blocked = FALSE]
  <2>1. MuxerType(x) /\ SameSelection(mux, x) /\ SameSelection(mux, y)
    BY <1>0 DEF MuxerType, SameSelection
  <2>2. mux' = TimeTrigger(x, 1) \/ mux' = y
    BY <1>8 DEF TimerTimeout, BlockTimeout, Call
  <2> HIDE DEF x, y
  <2>3. SameSelection(x, TimeTrigger(x, 1))
    BY <2>1, TimeTriggerFacts
  <2>4. mux'.inputs = mux.inputs
    BY <2>1, <2>2, <2>3 DEF SameSelection
  <2> QED
    BY <2>4
<1>9. CASE Tick \/ ClearAll \/ (\E enable \in BOOLEAN : SetEnable(enable)) \/ UNCHANGED vars
  <2>1. mux' = mux
    BY <1>9 DEF Tick, ClearAll, SetEnable, vars
  <2> QED
    BY <2>1
<1> QED
  BY <1>2, <1>3, <1>4, <1>5, <1>6, <1>7, <1>8, <1>9 DEF Next

(* A source disappears only because its time is over or it was cleared: no *)
(* update, registration or new frame drops a live one.                     *)
THEOREM SourcesLostForCause ==
  ASSUME OrdinaryPriorities PROVE Spec => LostForCause
<1>1. IInv /\ Settled(mux, unheeded) /\ [Next]_vars
        => [\A p \in DOMAIN mux.inputs \ DOMAIN mux'.inputs : Caused(p)]_vars
  BY NextCaused
<1> QED
  BY <1>1, Mannered, PTL DEF LostForCause, Caused, Spec
=============================================================================
