----------------------------- MODULE MuxerLemmas -----------------------------
(***************************************************************************)
(* Facts about the operators of MuxerOps, for every muxer value and every  *)
(* choice of the constants.                                                *)
(***************************************************************************)
EXTENDS MuxerOps, WellFoundedInduction, TLAPS

(* Every nonempty set of C++ ints has a least element, so "the lowest      *)
(* priority" is defined for whatever callers register.                     *)
LEMMA LeastInt32 ==
  ASSUME NEW S, S \subseteq Int32, S # {}
  PROVE  /\ Least(S) \in S
         /\ \A y \in S : Least(S) <= y
<1> DEFINE up(x) == x - IntMin
           T == {up(x) : x \in S}
<1>0. IntMin \in Int /\ IntMax \in Int
  BY SMT DEF IntMin, IntMax
<1>1. \A x \in S : x \in Int /\ up(x) \in Nat
  BY <1>0 DEF Int32
<1>2. T \subseteq Nat /\ T # {}
  BY <1>1
<1>3. PICK t \in T : \A u \in T : ~(<<u, t>> \in OpToRel(<, Nat))
  BY <1>2, NatLessThanWellFounded, WFMin
<1>4. PICK x \in S : t = up(x)
  OBVIOUS
<1>5. \A y \in S : x <= y
  <2> SUFFICES ASSUME NEW y \in S PROVE x <= y
    OBVIOUS
  <2>1. ~(up(y) < up(x))
    BY <1>1, <1>3, <1>4 DEF OpToRel
  <2> QED
    BY <1>0, <1>1, <2>1
<1> QED
  BY <1>5 DEF Least

(* Everything that can be a key of the map is a C++ int. *)
LEMMA ChannelsAreInt32 == Channels \subseteq Int32
<1>1. /\ IntMin \in Int /\ IntMax \in Int /\ LOWEST_PRIORITY \in Int
      /\ IntMin <= LOWEST_PRIORITY /\ LOWEST_PRIORITY <= IntMax
  BY SMT DEF IntMin, IntMax, LOWEST_PRIORITY
<1> QED
  BY <1>1, PrioritiesAssumption DEF Channels, Int32

LEMMA ChannelsAreInts == Channels \subseteq Int
<1>1. IntMin \in Int /\ IntMax \in Int
  BY SMT DEF IntMin, IntMax
<1> QED
  BY <1>1, ChannelsAreInt32 DEF Int32

(* Best() is the lowest-numbered active source, or LOWEST_PRIORITY. *)
LEMMA BestFacts ==
  ASSUME NEW inputs, DOMAIN inputs \subseteq Channels
  PROVE  /\ Best(inputs) \in Channels
         /\ Best(inputs) \in DOMAIN inputs \union {LOWEST_PRIORITY}
         /\ Best(inputs) # LOWEST_PRIORITY => IsActive(inputs[Best(inputs)])
         /\ Best(inputs) <= LOWEST_PRIORITY
         /\ \A p \in DOMAIN inputs : IsActive(inputs[p]) => Best(inputs) <= p
<1> DEFINE S == {p \in DOMAIN inputs : IsActive(inputs[p])} \union {LOWEST_PRIORITY}
<1>2. S \subseteq Int32
  BY ChannelsAreInt32 DEF Channels
<1>3. Least(S) \in S /\ \A y \in S : Least(S) <= y
  <2> HIDE DEF S
  <2>1. S # {}
    BY DEF S
  <2> QED
    BY <1>2, <2>1, LeastInt32
<1>4. Best(inputs) = Least(S)
  BY DEF Best
<1> HIDE DEF Best
<1>5. LOWEST_PRIORITY \in S
  OBVIOUS
<1> QED
  BY <1>3, <1>4, <1>5 DEF Channels

(* What an operator leaves alone when it only talks to listeners. *)
SameSelection(m, r) ==
  /\ r.inputs = m.inputs
  /\ r.current = m.current
  /\ r.manual = m.manual
  /\ r.auto = m.auto

LEMMA SignalFacts ==
  ASSUME NEW m, MuxerType(m)
  PROVE  /\ MuxerType(PrioritiesChanged(m))
         /\ SameSelection(m, PrioritiesChanged(m))
         /\ PrioritiesChanged(m).shown = m.shown
         /\ Complete(PrioritiesChanged(m))
BY DEF MuxerType, PrioritiesChanged, SameSelection, Complete, Listing

LEMMA TimeTriggerFacts ==
  ASSUME NEW m, MuxerType(m), NEW n
  PROVE  /\ MuxerType(TimeTrigger(m, n))
         /\ SameSelection(m, TimeTrigger(m, n))
         /\ TimeTrigger(m, n).shown = m.shown
         /\ Complete(m) => Complete(TimeTrigger(m, n))
<1>1. CASE n = 0
  BY <1>1 DEF TimeTrigger, SameSelection
<1>2. CASE n # 0 /\ m.blocked
  BY <1>2 DEF TimeTrigger, SameSelection, MuxerType, Complete
<1>3. CASE n # 0 /\ ~m.blocked
  <2> DEFINE x == [m EXCEPT !.blocked = TRUE, !.pending = @ \/ n # 1]
  <2>1. MuxerType(x) /\ SameSelection(m, x) /\ x.shown = m.shown
    BY DEF MuxerType, SameSelection
  <2>2. TimeTrigger(m, n) = PrioritiesChanged(x)
    BY <1>3 DEF TimeTrigger
  <2> HIDE DEF x
  <2>3. /\ MuxerType(PrioritiesChanged(x)) /\ SameSelection(x, PrioritiesChanged(x))
        /\ PrioritiesChanged(x).shown = x.shown /\ Complete(PrioritiesChanged(x))
    BY <2>1, SignalFacts
  <2> QED
    BY <2>1, <2>2, <2>3 DEF SameSelection
<1> QED
  BY <1>1, <1>2, <1>3

LEMMA ToUint8Type == \A p \in Int : ToUint8(p) \in 0..255
  BY DEF ToUint8

(* What an update does: it keeps exactly the unexpired inputs, unchanged,  *)
(* shows the pinned source if there is one and the best one otherwise, and *)
(* tells the listeners.                                                    *)
LEMMA SetCurrentTimeFacts ==
  ASSUME NEW m, MuxerType(m), NEW now
  PROVE  LET r == SetCurrentTime(m, now)
         IN  /\ MuxerType(r)
             /\ DOMAIN r.inputs = {q \in DOMAIN m.inputs : ~Expired(m.inputs[q], now)}
             /\ \A q \in DOMAIN r.inputs : r.inputs[q] = m.inputs[q]
             /\ r.manual = m.manual
             /\ r.auto = (m.auto \/ m.manual \notin DOMAIN r.inputs)
             /\ r.auto => r.current = Best(r.inputs)
             /\ ~r.auto => r.current = r.manual
             /\ Announced(m) => Announced(r)
             /\ Complete(m) => Complete(r)
<1> DEFINE kept    == Kept(m, now)
           held    == Holds(m, kept)
           dropped == ~m.auto /\ ~held
           swept   == [m EXCEPT !.inputs  = kept,
                                !.auto    = m.auto \/ dropped,
                                !.current = Selected(m, kept)]
           told    == IF swept.current # m.current
                        THEN VisiblePriorityChanged(swept) ELSE swept
           heard   == IF \/ dropped
                         \/ DOMAIN kept # DOMAIN m.inputs
                         \/ swept.current # m.current
                        THEN PrioritiesChanged(told) ELSE told
           r       == SetCurrentTime(m, now)
<1>1. r = TimeTrigger(heard, Cardinality(Counting(kept)))
  BY DEF SetCurrentTime
<1>2. /\ DOMAIN kept = {q \in DOMAIN m.inputs : ~Expired(m.inputs[q], now)}
      /\ kept \in [DOMAIN kept -> Input]
      /\ DOMAIN kept \subseteq Channels
      /\ \A q \in DOMAIN kept : kept[q] = m.inputs[q]
  BY DEF MuxerType, Kept
<1>3. Best(kept) \in Channels
  BY <1>2, BestFacts
<1>4. /\ swept.inputs = kept
      /\ swept.manual = m.manual
      /\ swept.auto = (m.auto \/ m.manual \notin DOMAIN kept)
      /\ swept.current = IF ~m.auto /\ m.manual \in DOMAIN kept
                         THEN m.manual ELSE Best(kept)
      /\ dropped <=> ~m.auto /\ m.manual \notin DOMAIN kept
      /\ swept.shown = m.shown
      /\ swept.listed = m.listed
  BY DEF MuxerType, Holds, Selected
<1>5. MuxerType(swept)
  <2> HIDE DEF kept
  <2>1. held => m.manual \in Channels
    BY <1>2 DEF Holds
  <2> DEFINE auto == m.auto \/ dropped
             chosen == Selected(m, kept)
  <2>2. chosen \in Channels /\ auto \in BOOLEAN
    BY <1>3, <2>1 DEF Selected
  <2>3. swept = [m EXCEPT !.inputs = kept, !.auto = auto, !.current = chosen]
    OBVIOUS
  <2> HIDE DEF auto, chosen, swept
  <2>4. swept = [inputs |-> kept, current |-> chosen, manual |-> m.manual, auto |-> auto,
                 blocked |-> m.blocked, pending |-> m.pending, shown |-> m.shown,
                 listed |-> m.listed]
    BY <2>3 DEF MuxerType
  <2> QED
    BY <1>2, <2>2, <2>4 DEF MuxerType
<1> HIDE DEF kept, swept
<1>6. /\ MuxerType(told)
      /\ SameSelection(swept, told)
      /\ told.listed = swept.listed
      /\ Announced(m) => Announced(told)
  <2>1. CASE swept.current # m.current
    <3>1. ToUint8(swept.current) \in 0..255
      BY <1>5, ChannelsAreInts, ToUint8Type DEF MuxerType
    <3> QED
      BY <1>5, <2>1, <3>1 DEF MuxerType, VisiblePriorityChanged, SameSelection, Announced
  <2>2. CASE swept.current = m.current
    BY <1>4, <1>5, <2>2 DEF SameSelection, Announced
  <2> QED
    BY <2>1, <2>2
<1> HIDE DEF told
<1>7. /\ MuxerType(heard)
      /\ SameSelection(told, heard)
      /\ heard.shown = told.shown
      /\ Complete(m) => Complete(heard)
  <2> DEFINE changed == \/ dropped
                        \/ DOMAIN kept # DOMAIN m.inputs
                        \/ swept.current # m.current
  <2>1. CASE changed
    BY <1>6, <2>1, SignalFacts
  <2>2. CASE ~changed
    <3>1. heard = told
      BY <2>2
    <3>2. Complete(m) => Complete(told)
      BY <1>4, <1>6, <2>2 DEF Complete, SameSelection, MuxerType
    <3> QED
      BY <1>6, <3>1, <3>2 DEF SameSelection
  <2> QED
    BY <2>1, <2>2
<1> HIDE DEF heard
<1>8. /\ MuxerType(r)
      /\ SameSelection(heard, r)
      /\ r.shown = heard.shown
      /\ Complete(heard) => Complete(r)
  BY <1>1, <1>7, TimeTriggerFacts
<1> HIDE DEF r
<1>9. SameSelection(swept, r) /\ r.shown = told.shown
  BY <1>6, <1>7, <1>8 DEF SameSelection
<1>10. Announced(m) => Announced(r)
  BY <1>6, <1>9 DEF Announced, SameSelection
<1>11. /\ DOMAIN r.inputs = {q \in DOMAIN m.inputs : ~Expired(m.inputs[q], now)}
       /\ \A q \in DOMAIN r.inputs : r.inputs[q] = m.inputs[q]
       /\ r.manual = m.manual
       /\ r.auto = (m.auto \/ m.manual \notin DOMAIN r.inputs)
  BY <1>2, <1>4, <1>9 DEF SameSelection
<1>12. /\ r.auto => r.current = Best(r.inputs)
       /\ ~r.auto => r.current = r.manual
  BY <1>4, <1>9 DEF SameSelection
<1> QED
  BY <1>7, <1>8, <1>10, <1>11, <1>12 DEF r
-----------------------------------------------------------------------------
(* The invariants of a muxer that every method preserves: what holds       *)
(* whoever calls what, and what the listeners may rely on until            *)
(* clearAll(true).                                                         *)
Sound(m, u) ==
  MuxerType(m) /\ u \subseteq DOMAIN m.inputs /\ AutoBest(m, u) /\ Visible(m)

Informed(m) == Pinned(m) /\ Announced(m) /\ Complete(m)

Preserves(m, r, u) == Sound(r, u) /\ (Informed(m) => Informed(r))

(* Right after an update every active input counts, and nothing else. *)
LEMMA HeedAll == \A m : BestCounted(m, {}) = Best(m.inputs)
<1>1. ASSUME NEW m
      PROVE  Counted(m, {}) = {p \in DOMAIN m.inputs : IsActive(m.inputs[p])}
  BY DEF Counted
<1> QED
  BY <1>1 DEF BestCounted, Best

(* An input that is not active yet does not count. *)
LEMMA NoNewCounted ==
  ASSUME NEW m, NEW x, NEW u, NEW p, p \notin DOMAIN m.inputs, p \notin u,
         DOMAIN x.inputs = DOMAIN m.inputs \union {p}, ~IsActive(x.inputs[p]),
         \A q \in DOMAIN m.inputs : x.inputs[q] = m.inputs[q]
  PROVE  Counted(m, u) = Counted(x, u)
BY DEF Counted

(* The best source depends on which inputs count and on nothing else. *)
LEMMA BestOfCounted ==
  ASSUME NEW m, NEW u, NEW r, NEW v, Counted(m, u) = Counted(r, v)
  PROVE  BestCounted(m, u) = BestCounted(r, v)
BY DEF BestCounted

(* Signals preserve everything, and prioritiesChanged completes the list. *)
LEMMA SignalPreserves ==
  ASSUME NEW m, NEW r, NEW u, Sound(m, u), MuxerType(r), SameSelection(m, r), r.shown = m.shown
  PROVE  /\ Sound(r, u)
         /\ Pinned(m) => Pinned(r)
         /\ Announced(m) => Announced(r)
<1>1. Counted(m, u) = Counted(r, u)
  BY DEF Counted, SameSelection
<1>2. BestCounted(m, u) = BestCounted(r, u)
  BY <1>1, BestOfCounted
<1> QED
  BY <1>2 DEF Sound, AutoBest, Visible, Pinned, Announced, SameSelection, Has

LEMMA UpdateSound ==
  ASSUME NEW m, MuxerType(m), NEW now
  PROVE  LET r == SetCurrentTime(m, now)
         IN  /\ Sound(r, {})
             /\ Pinned(r)
             /\ Announced(m) => Announced(r)
             /\ Complete(m) => Complete(r)
<1> DEFINE r == SetCurrentTime(m, now)
<1>1. /\ MuxerType(r)
      /\ DOMAIN r.inputs \subseteq DOMAIN m.inputs
      /\ \A q \in DOMAIN r.inputs : r.inputs[q] = m.inputs[q]
      /\ r.auto = (m.auto \/ r.manual \notin DOMAIN r.inputs)
      /\ r.auto => r.current = Best(r.inputs)
      /\ ~r.auto => r.current = r.manual
      /\ Announced(m) => Announced(r)
      /\ Complete(m) => Complete(r)
  BY SetCurrentTimeFacts
<1> HIDE DEF r
<1>2. Pinned(r)
  BY <1>1 DEF Pinned, Has
<1>3. AutoBest(r, {})
  BY <1>1, HeedAll DEF AutoBest
<1>4. Visible(r)
  <2>1. CASE r.auto
    BY <1>1, <2>1, BestFacts DEF Visible, MuxerType
  <2>2. CASE ~r.auto
    BY <1>1, <1>2, <2>2 DEF Visible, Pinned, Has
  <2> QED
    BY <2>1, <2>2
<1> QED
  BY <1>1, <1>2, <1>3, <1>4 DEF Sound, r

LEMMA RegisterInputPreserves ==
  ASSUME NEW m, NEW u, Sound(m, u), NEW p \in Priorities, NEW comp \in Components
  PROVE  Preserves(m, RegisterInput(m, p, comp), u)
<1>1. p \in Channels
  BY DEF Channels
<1>2. CASE Has(m, p)
  <2> DEFINE r == [m EXCEPT !.inputs[p].comp = comp]
  <2>1. /\ DOMAIN r.inputs = DOMAIN m.inputs
        /\ \A q \in DOMAIN r.inputs : /\ r.inputs[q].timeout = m.inputs[q].timeout
                                      /\ r.inputs[q] \in Input
        /\ r.current = m.current /\ r.manual = m.manual /\ r.auto = m.auto
        /\ r.shown = m.shown /\ r.listed = m.listed
    BY <1>2 DEF Sound, MuxerType, Has, Input
  <2>2. MuxerType(r)
    BY <1>2, <2>1 DEF Sound, MuxerType, Has
  <2> HIDE DEF r
  <2>3. Counted(r, u) = Counted(m, u)
    BY <2>1 DEF Counted, IsActive
  <2>4. Sound(r, u)
    BY <2>1, <2>2, <2>3, BestOfCounted DEF Sound, AutoBest, Visible
  <2>5. Informed(m) => Informed(r)
    BY <2>1 DEF Informed, Pinned, Announced, Complete, Has
  <2> QED
    BY <1>2, <2>4, <2>5 DEF Preserves, RegisterInput, r
<1>3. CASE ~Has(m, p)
  <2> DEFINE new == [timeout |-> INACTIVE, comp |-> comp,
                     colors |-> NoFrame, image |-> NoFrame]
             x == [m EXCEPT !.inputs = [q \in DOMAIN m.inputs \union {p} |->
                                          IF q = p THEN new ELSE m.inputs[q]]]
  <2>1. new \in Input /\ ~IsActive(new)
    BY FramesAssumption DEF Input, INACTIVE, IsActive, ENDLESS
  <2> HIDE DEF new
  <2>2. /\ DOMAIN x.inputs = DOMAIN m.inputs \union {p}
        /\ x.inputs[p] = new
        /\ \A q \in DOMAIN m.inputs : x.inputs[q] = m.inputs[q]
        /\ x.current = m.current /\ x.manual = m.manual /\ x.auto = m.auto
        /\ x.shown = m.shown
    BY <1>3 DEF Sound, MuxerType, Has
  <2>3. MuxerType(x)
    BY <1>1, <2>1 DEF Sound, MuxerType
  <2> HIDE DEF x
  <2>5. Counted(x, u) = Counted(m, u)
    <3>1. p \notin u
      BY <1>3 DEF Sound, Has
    <3> QED
      BY <1>3, <2>1, <2>2, <3>1, NoNewCounted DEF Has
  <2>6. Sound(x, u)
    BY <2>2, <2>3, <2>5, BestOfCounted DEF Sound, AutoBest, Visible
  <2>7. (Pinned(m) => Pinned(x)) /\ (Announced(m) => Announced(x))
    BY <2>2 DEF Pinned, Has, Announced
  <2>8. RegisterInput(m, p, comp) = PrioritiesChanged(x)
    BY <1>3 DEF RegisterInput, x, new
  <2> QED
    BY <2>3, <2>6, <2>7, <2>8, SignalFacts, SignalPreserves DEF Preserves, Informed
<1> QED
  BY <1>2, <1>3
(* What a caller's timeout becomes is of the same kind. *)
LEMMA FinalTimeoutFacts ==
  ASSUME NEW t \in Int, NEW now \in Nat
  PROVE  /\ FinalTimeout(t, now) \in Int
         /\ \A m, u, p : UnheededAfter(m, u, p, FinalTimeout(t, now)) = UnheededAfter(m, u, p, t)
<1> DEFINE f == FinalTimeout(t, now)
<1>1. f \in Int /\ (f = INACTIVE <=> t = INACTIVE) /\ (Mute(f) <=> Mute(t))
  BY DEF FinalTimeout, INACTIVE, ENDLESS, Mute
<1> HIDE DEF f
<1> SUFFICES ASSUME NEW m, NEW u, NEW p
             PROVE  UnheededAfter(m, u, p, f) = UnheededAfter(m, u, p, t)
  BY <1>1 DEF f
<1>2. (f = INACTIVE) = (t = INACTIVE) /\ Mute(f) = Mute(t)
  BY <1>1 DEF Mute
<1> QED
  BY <1>2 DEF UnheededAfter

(* Replacing the content of an input: when that crosses no INACTIVE the     *)
(* set of inputs that count is unchanged, so that skipping the update is    *)
(* right but for what is then unheeded.                                     *)
LEMMA SameCounted ==
  ASSUME NEW m, MuxerType(m), NEW u, u \subseteq DOMAIN m.inputs,
         NEW p, Has(m, p), NEW input \in Input,
         ~((m.inputs[p].timeout = INACTIVE) # (input.timeout = INACTIVE)),
         NEW x, DOMAIN x.inputs = DOMAIN m.inputs, x.inputs[p] = input,
         \A q \in DOMAIN m.inputs : q # p => x.inputs[q] = m.inputs[q]
  PROVE  /\ Counted(x, UnheededAfter(m, u, p, input.timeout)) = Counted(m, u)
         /\ UnheededAfter(m, u, p, input.timeout) \subseteq DOMAIN m.inputs
<1> DEFINE old == m.inputs[p]
           v == UnheededAfter(m, u, p, input.timeout)
<1>1. old.timeout \in Int /\ input.timeout \in Int
  BY DEF MuxerType, Has, Input
<1>2. v = IF Mute(old.timeout) # Mute(input.timeout)
            THEN (u \ {p}) \union ({p} \ u) ELSE u
  BY DEF UnheededAfter
<1>3. (Mute(old.timeout) # Mute(input.timeout)) <=> (IsActive(old) # IsActive(input))
  BY <1>1 DEF Mute, IsActive, INACTIVE, ENDLESS
<1> HIDE DEF v, old
<1>4. v \subseteq DOMAIN m.inputs
  BY <1>2 DEF Has
<1>5. ASSUME NEW q \in DOMAIN m.inputs
      PROVE  (IsActive(x.inputs[q]) <=> q \notin v) <=> (IsActive(m.inputs[q]) <=> q \notin u)
  <2>1. CASE q # p
    BY <1>2, <2>1
  <2>2. CASE q = p
    <3>1. (q \in v) <=> (IF IsActive(old) # IsActive(input) THEN q \notin u ELSE q \in u)
      BY <1>2, <1>3, <2>2
    <3> QED
      BY <2>2, <3>1 DEF old, IsActive
  <2> QED
    BY <2>1, <2>2
<1> QED
  BY <1>4, <1>5 DEF Counted, v

LEMMA ReplaceInputPreserves ==
  ASSUME NEW m, NEW u, Sound(m, u), NEW p, Has(m, p), NEW input \in Input, NEW now
  PROVE  Preserves(m, ReplaceInput(m, p, input, now), UnheededAfter(m, u, p, input.timeout))
<1> DEFINE x == [m EXCEPT !.inputs[p] = input]
           v == UnheededAfter(m, u, p, input.timeout)
<1>1. /\ DOMAIN x.inputs = DOMAIN m.inputs
      /\ x.inputs[p] = input
      /\ \A q \in DOMAIN m.inputs : q # p => x.inputs[q] = m.inputs[q]
      /\ x.current = m.current /\ x.manual = m.manual /\ x.auto = m.auto
      /\ x.shown = m.shown /\ x.listed = m.listed
  BY DEF Sound, MuxerType, Has
<1>2. MuxerType(x)
  BY DEF Sound, MuxerType, Has
<1> HIDE DEF x
<1>4. /\ Announced(m) => Announced(x)
      /\ Complete(m) => Complete(x)
      /\ Pinned(m) => Pinned(x)
  BY <1>1 DEF Announced, Complete, Pinned, Has
<1>5. CASE (m.inputs[p].timeout = INACTIVE) # (input.timeout = INACTIVE)
  <2>1. ReplaceInput(m, p, input, now) = SetCurrentTime(x, now) /\ v = {}
    BY <1>5 DEF ReplaceInput, UnheededAfter, x
  <2> QED
    BY <1>2, <1>4, <2>1, UpdateSound DEF Preserves, Informed
<1>6. CASE ~((m.inputs[p].timeout = INACTIVE) # (input.timeout = INACTIVE))
  <2>1. ReplaceInput(m, p, input, now) = x
    BY <1>6 DEF ReplaceInput, x
  <2>2. Counted(x, v) = Counted(m, u) /\ v \subseteq DOMAIN m.inputs
    BY <1>1, <1>6, SameCounted DEF Sound
  <2> HIDE DEF v
  <2>3. BestCounted(x, v) = BestCounted(m, u)
    BY <2>2, BestOfCounted
  <2>4. Sound(x, v)
    BY <1>1, <1>2, <2>2, <2>3 DEF Sound, AutoBest, Visible
  <2> QED
    BY <1>4, <2>1, <2>4 DEF Preserves, Informed, v
<1> QED
  BY <1>5, <1>6

LEMMA SetInputPreserves ==
  ASSUME NEW m, NEW u, Sound(m, u), NEW p, NEW f \in Frames,
         NEW t \in Int, NEW now \in Nat
  PROVE  /\ Preserves(m, SetInput(m, p, f, t, now), UnheededAfter(m, u, p, t))
         /\ Preserves(m, SetInputImage(m, p, f, t, now), UnheededAfter(m, u, p, t))
<1>1. CASE Has(m, p)
  <2> DEFINE final == FinalTimeout(t, now)
             i1 == [m.inputs[p] EXCEPT !.colors = f, !.timeout = final]
             i2 == [m.inputs[p] EXCEPT !.image = f, !.timeout = final]
  <2>1. /\ m.inputs[p] \in Input /\ final \in Int
        /\ UnheededAfter(m, u, p, final) = UnheededAfter(m, u, p, t)
    BY <1>1, FinalTimeoutFacts DEF Sound, MuxerType, Has
  <2>2. /\ SetInput(m, p, f, t, now) = ReplaceInput(m, p, i1, now)
        /\ SetInputImage(m, p, f, t, now) = ReplaceInput(m, p, i2, now)
    BY <1>1 DEF SetInput, SetInputImage
  <2> HIDE DEF final
  <2>3. /\ i1 \in Input /\ i1.timeout = final
        /\ i2 \in Input /\ i2.timeout = final
    BY <2>1 DEF Input
  <2> HIDE DEF i1, i2
  <2>4. /\ Preserves(m, ReplaceInput(m, p, i1, now), UnheededAfter(m, u, p, final))
        /\ Preserves(m, ReplaceInput(m, p, i2, now), UnheededAfter(m, u, p, final))
    BY <1>1, <2>3, ReplaceInputPreserves
  <2> QED
    BY <2>1, <2>2, <2>4
<1>2. CASE ~Has(m, p)
  BY <1>2 DEF SetInput, SetInputImage, Preserves, UnheededAfter
<1> QED
  BY <1>1, <1>2

LEMMA SetInputInactivePreserves ==
  ASSUME NEW m, NEW u, Sound(m, u), NEW p, NEW now \in Nat
  PROVE  Preserves(m, SetInputInactive(m, p, now), UnheededAfter(m, u, ToUint8(p), INACTIVE))
<1>1. NoFrame \in Frames /\ INACTIVE \in Int
  BY FramesAssumption DEF INACTIVE
<1> QED
  BY <1>1, SetInputPreserves DEF SetInputInactive

(* Removing an input and updating: whoever removes the pinned source ends  *)
(* manual selection.                                                       *)
LEMMA ClearInputPreserves ==
  ASSUME NEW m, NEW u, Sound(m, u), NEW p, NEW now
  PROVE  Preserves(m, ClearInput(m, p, now), IF Clears(m, p) THEN {} ELSE u)
<1> DEFINE x == Without(m, {ToUint8(p)})
           r == SetCurrentTime(x, now)
<1>1. CASE Clears(m, p)
  <2>1. /\ DOMAIN x.inputs = DOMAIN m.inputs \ {ToUint8(p)}
        /\ \A q \in DOMAIN x.inputs : x.inputs[q] = m.inputs[q]
        /\ x.current = m.current /\ x.shown = m.shown
    BY DEF Sound, MuxerType, Without
  <2>2. MuxerType(x)
    BY DEF Sound, MuxerType, Without
  <2> HIDE DEF x
  <2>3. Announced(m) => Announced(x)
    BY <2>1 DEF Announced
  <2>4. Sound(r, {}) /\ Pinned(r) /\ (Announced(x) => Announced(r))
    BY <2>2, <2>3, UpdateSound
  <2>5. ClearInput(m, p, now) = PrioritiesChanged(r)
    BY <1>1 DEF ClearInput, x
  <2> HIDE DEF r
  <2>6. MuxerType(r)
    BY <2>4 DEF Sound
  <2>7. /\ MuxerType(PrioritiesChanged(r))
        /\ SameSelection(r, PrioritiesChanged(r))
        /\ PrioritiesChanged(r).shown = r.shown
        /\ Complete(PrioritiesChanged(r))
    BY <2>6, SignalFacts
  <2>8. /\ Sound(PrioritiesChanged(r), {}) /\ Pinned(PrioritiesChanged(r))
        /\ Announced(r) => Announced(PrioritiesChanged(r))
    BY <2>4, <2>7, SignalPreserves
  <2> QED
    BY <1>1, <2>3, <2>4, <2>5, <2>7, <2>8 DEF Preserves, Informed
<1>2. CASE ~Clears(m, p)
  BY <1>2 DEF ClearInput, Preserves
<1> QED
  BY <1>1, <1>2

(* What setPriority() leaves unheeded. *)
HeedOnSelect(m, u, p) ==
  IF /\ Has(m, ToUint8(p))
     /\ AutoSelectSucceeds([m EXCEPT !.manual = ToUint8(p)], FALSE)
  THEN {} ELSE u

LEMMA SelectPreserves ==
  ASSUME NEW m, NEW u, Sound(m, u), NEW now
  PROVE  /\ \A enable \in BOOLEAN :
              Preserves(m, SetSourceAutoSelectEnabled(m, enable, now),
                        IF AutoSelectSucceeds(m, enable) THEN {} ELSE u)
         /\ \A p \in Int : Preserves(m, SetPriority(m, p, now), HeedOnSelect(m, u, p))
<1>1. ASSUME NEW x, Sound(x, u), NEW enable \in BOOLEAN
      PROVE  /\ Sound(SetSourceAutoSelectEnabled(x, enable, now),
                      IF AutoSelectSucceeds(x, enable) THEN {} ELSE u)
             /\ Informed(x) => Informed(SetSourceAutoSelectEnabled(x, enable, now))
  <2> DEFINE y == [x EXCEPT !.auto = enable]
             r == SetCurrentTime(y, now)
  <2>1. CASE AutoSelectSucceeds(x, enable)
    <3>1. y.inputs = x.inputs /\ y.current = x.current /\ y.shown = x.shown
      BY <1>1 DEF Sound, MuxerType
    <3>2. MuxerType(y)
      BY <1>1 DEF Sound, MuxerType
    <3> HIDE DEF y
    <3>3. Announced(x) => Announced(y)
      BY <3>1 DEF Announced
    <3>4. Sound(r, {}) /\ Pinned(r) /\ (Announced(y) => Announced(r))
      BY <3>2, <3>3, UpdateSound
    <3>5. SetSourceAutoSelectEnabled(x, enable, now) = PrioritiesChanged(r)
      BY <2>1 DEF SetSourceAutoSelectEnabled, y
    <3> HIDE DEF r
    <3>6. /\ MuxerType(PrioritiesChanged(r))
          /\ SameSelection(r, PrioritiesChanged(r))
          /\ PrioritiesChanged(r).shown = r.shown
          /\ Complete(PrioritiesChanged(r))
      BY <3>4, SignalFacts DEF Sound
    <3>7. /\ Sound(PrioritiesChanged(r), {})
          /\ Pinned(PrioritiesChanged(r))
          /\ Announced(r) => Announced(PrioritiesChanged(r))
      BY <3>4, <3>6, SignalPreserves
    <3> QED
      BY <2>1, <3>3, <3>4, <3>5, <3>6, <3>7 DEF Informed
  <2>2. CASE ~AutoSelectSucceeds(x, enable)
    BY <1>1, <2>2 DEF SetSourceAutoSelectEnabled
  <2> QED
    BY <2>1, <2>2
<1>2. \A enable \in BOOLEAN :
        Preserves(m, SetSourceAutoSelectEnabled(m, enable, now),
                  IF AutoSelectSucceeds(m, enable) THEN {} ELSE u)
  BY <1>1 DEF Preserves
<1>3. ASSUME NEW p \in Int 
      PROVE  Preserves(m, SetPriority(m, p, now), HeedOnSelect(m, u, p))
  <2> DEFINE k == ToUint8(p)
             x == [m EXCEPT !.manual = k]
  <2>1. k \in 0..255
    BY ToUint8Type
  <2> HIDE DEF k
  <2>2. CASE Has(m, k)
    <3>1. /\ x.inputs = m.inputs /\ x.current = m.current /\ x.auto = m.auto
          /\ x.shown = m.shown /\ x.listed = m.listed /\ x.manual = k
      BY DEF Sound, MuxerType
    <3>2. k \in 0..NO_MANUAL
      BY <2>1 DEF NO_MANUAL
    <3>3. MuxerType(x)
      BY <3>2 DEF Sound, MuxerType
    <3> HIDE DEF x
    <3>4. Sound(x, u)
      <4>1. Counted(x, u) = Counted(m, u)
        BY <3>1 DEF Counted
      <4> QED
        BY <3>1, <3>3, <4>1, BestOfCounted DEF Sound, AutoBest, Visible
    <3>5. Informed(m) => Informed(x)
      BY <2>2, <3>1 DEF Informed, Pinned, Announced, Complete, Has
    <3> QED
      BY <1>1, <2>2, <3>4, <3>5 DEF Preserves, SetPriority, HeedOnSelect, x, k
  <2>3. CASE ~Has(m, k)
    BY <2>3 DEF SetPriority, Preserves, HeedOnSelect, k
  <2> QED
    BY <2>2, <2>3
<1> QED
  BY <1>2, <1>3

-----------------------------------------------------------------------------
(* Whose turn it is.  Nothing pinned: the best source is shown.  A step    *)
(* from m to r in manual mode shows what was shown before or what is       *)
(* pinned, and leaves the mode only when the pinned source is gone.        *)
Free(m)    == m.auto \/ ~Has(m, m.manual)
Settled(m, u) == Free(m) => m.current = BestCounted(m, u)

Moves(m, r, u) ==
  /\ Settled(r, u)
  /\ ~r.auto => r.current \in {m.current, r.manual}
  /\ ~m.auto /\ r.auto => ~Has(r, m.manual)

(* The sources a step removes are expired ones or members of S. *)
Removes(m, r, now, S) ==
  \A q \in DOMAIN m.inputs \ DOMAIN r.inputs : q \in S \/ Expired(m.inputs[q], now)

(* A signal after a step, or a step that only talks, moves nothing. *)
LEMMA SameMoves ==
  ASSUME NEW m, NEW r, NEW s, NEW u, NEW now, NEW S, SameSelection(r, s)
  PROVE  /\ Moves(m, r, u) => Moves(m, s, u)
         /\ Removes(m, r, now, S) => Removes(m, s, now, S)
         /\ Settled(r, u) => Moves(r, s, u) /\ Removes(r, s, now, S)
<1>1. BestCounted(r, u) = BestCounted(s, u)
  BY DEF BestCounted, Counted, SameSelection
<1> QED
  BY <1>1 DEF SameSelection, Moves, Removes, Settled, Free, Has

LEMMA UpdateMoves ==
  ASSUME NEW m, MuxerType(m), NEW now
  PROVE  LET r == SetCurrentTime(m, now)
         IN  /\ MuxerType(r)
             /\ Moves(m, r, {})
             /\ Removes(m, r, now, {})
<1> DEFINE r == SetCurrentTime(m, now)
<1>1. /\ MuxerType(r)
      /\ DOMAIN r.inputs = {q \in DOMAIN m.inputs : ~Expired(m.inputs[q], now)}
      /\ r.manual = m.manual
      /\ r.auto = (m.auto \/ m.manual \notin DOMAIN r.inputs)
      /\ r.auto => r.current = Best(r.inputs)
      /\ ~r.auto => r.current = r.manual
  BY SetCurrentTimeFacts
<1> HIDE DEF r
<1> QED
  BY <1>1, HeedAll DEF Moves, Removes, Settled, Free, Has, r

(* Inputs that are replaced without any of them counting differently. *)
LEMMA SameCountedMoves ==
  ASSUME NEW m, NEW u, Settled(m, u), NEW r, NEW v, NEW now, NEW S,
         DOMAIN m.inputs \subseteq DOMAIN r.inputs, Counted(m, u) = Counted(r, v),
         r.current = m.current, r.manual = m.manual, r.auto = m.auto
  PROVE  Moves(m, r, v) /\ Removes(m, r, now, S)
<1>1. BestCounted(r, v) = BestCounted(m, u)
  BY BestOfCounted
<1> QED
  BY <1>1 DEF Moves, Removes, Settled, Free, Has

LEMMA RegisterInputMoves ==
  ASSUME NEW m, MuxerType(m), NEW u, u \subseteq DOMAIN m.inputs, Settled(m, u),
         NEW p \in Priorities, NEW comp \in Components, NEW now
  PROVE  LET r == RegisterInput(m, p, comp)
         IN  Moves(m, r, u) /\ Removes(m, r, now, {})
<1>1. CASE Has(m, p)
  <2> DEFINE r == [m EXCEPT !.inputs[p].comp = comp]
  <2>1. /\ DOMAIN r.inputs = DOMAIN m.inputs
        /\ \A q \in DOMAIN r.inputs : r.inputs[q].timeout = m.inputs[q].timeout
        /\ r.current = m.current /\ r.manual = m.manual /\ r.auto = m.auto
    BY <1>1 DEF MuxerType, Has, Input
  <2>2. RegisterInput(m, p, comp) = r
    BY <1>1 DEF RegisterInput
  <2> HIDE DEF r
  <2>3. Counted(m, u) = Counted(r, u)
    BY <2>1 DEF Counted, IsActive
  <2> QED
    BY <2>1, <2>2, <2>3, SameCountedMoves
<1>2. CASE ~Has(m, p)
  <2> DEFINE new == [timeout |-> INACTIVE, comp |-> comp,
                     colors |-> NoFrame, image |-> NoFrame]
             x == [m EXCEPT !.inputs = [q \in DOMAIN m.inputs \union {p} |->
                                          IF q = p THEN new ELSE m.inputs[q]]]
  <2>1. new \in Input /\ ~IsActive(new) /\ p \in Channels
    BY FramesAssumption DEF Input, INACTIVE, IsActive, ENDLESS, Channels
  <2> HIDE DEF new
  <2>2. /\ DOMAIN x.inputs = DOMAIN m.inputs \union {p}
        /\ x.inputs[p] = new
        /\ \A q \in DOMAIN m.inputs : x.inputs[q] = m.inputs[q]
        /\ x.current = m.current /\ x.manual = m.manual /\ x.auto = m.auto
    BY <1>2 DEF MuxerType, Has
  <2>3. MuxerType(x)
    BY <2>1 DEF MuxerType
  <2>4. RegisterInput(m, p, comp) = PrioritiesChanged(x)
    BY <1>2 DEF RegisterInput, new
  <2> HIDE DEF x
  <2>5. Counted(m, u) = Counted(x, u)
    <3>1. p \notin u
      BY <1>2 DEF Has
    <3> QED
      BY <1>2, <2>1, <2>2, <3>1, NoNewCounted DEF Has
  <2>6. Moves(m, x, u) /\ Removes(m, x, now, {})
    BY <2>2, <2>5, SameCountedMoves
  <2>7. SameSelection(x, PrioritiesChanged(x))
    BY <2>3, SignalFacts
  <2> QED
    BY <2>4, <2>6, <2>7, SameMoves
<1> QED
  BY <1>1, <1>2

LEMMA ReplaceInputMoves ==
  ASSUME NEW m, MuxerType(m), NEW u, u \subseteq DOMAIN m.inputs, Settled(m, u),
         NEW p, Has(m, p), NEW input \in Input, NEW now, ~Expired(input, now)
  PROVE  LET r == ReplaceInput(m, p, input, now)
         IN  Moves(m, r, UnheededAfter(m, u, p, input.timeout)) /\ Removes(m, r, now, {})
<1> DEFINE x == [m EXCEPT !.inputs[p] = input]
           r == SetCurrentTime(x, now)
           v == UnheededAfter(m, u, p, input.timeout)
<1>1. /\ DOMAIN x.inputs = DOMAIN m.inputs
      /\ x.inputs[p] = input
      /\ \A q \in DOMAIN m.inputs : q # p => x.inputs[q] = m.inputs[q]
      /\ x.current = m.current /\ x.manual = m.manual /\ x.auto = m.auto
  BY DEF MuxerType, Has
<1>2. MuxerType(x)
  BY DEF MuxerType, Has
<1>3. ReplaceInput(m, p, input, now)
        = IF (m.inputs[p].timeout = INACTIVE) # (input.timeout = INACTIVE) THEN r ELSE x
  BY DEF ReplaceInput
<1> HIDE DEF x
<1>4. CASE (m.inputs[p].timeout = INACTIVE) # (input.timeout = INACTIVE)
  <2>0. v = {}
    BY <1>4 DEF UnheededAfter
  <2>1. Moves(x, r, {}) /\ Removes(x, r, now, {})
    BY <1>2, UpdateMoves
  <2> HIDE DEF r, v
  <2>2. Moves(m, r, v)
    BY <1>1, <2>0, <2>1 DEF Moves
  <2>3. Removes(m, r, now, {})
    BY <1>1, <2>1 DEF Removes
  <2> QED
    BY <1>3, <1>4, <2>2, <2>3 DEF v
<1>5. CASE ~((m.inputs[p].timeout = INACTIVE) # (input.timeout = INACTIVE))
  <2>1. Counted(x, v) = Counted(m, u)
    BY <1>1, <1>5, SameCounted
  <2> HIDE DEF v
  <2>2. Moves(m, x, v) /\ Removes(m, x, now, {})
    BY <1>1, <2>1, SameCountedMoves
  <2> QED
    BY <1>3, <1>5, <2>2 DEF v
<1> QED
  BY <1>4, <1>5

(* New data never expires in the step that delivers it. *)
LEMMA SetInputMoves ==
  ASSUME NEW m, MuxerType(m), NEW u, u \subseteq DOMAIN m.inputs, Settled(m, u),
         NEW p, NEW f \in Frames, NEW now \in Nat, NEW t \in Int
  PROVE  LET v == UnheededAfter(m, u, p, t)
             r == SetInput(m, p, f, t, now)
             s == SetInputImage(m, p, f, t, now)
         IN  /\ Moves(m, r, v) /\ Removes(m, r, now, {})
             /\ Moves(m, s, v) /\ Removes(m, s, now, {})
<1>1. CASE Has(m, p)
  <2> DEFINE final == FinalTimeout(t, now)
             i1 == [m.inputs[p] EXCEPT !.colors = f, !.timeout = final]
             i2 == [m.inputs[p] EXCEPT !.image = f, !.timeout = final]
  <2>1. /\ final \in Int
        /\ ~(final > 0 /\ final <= now)
        /\ UnheededAfter(m, u, p, final) = UnheededAfter(m, u, p, t)
    <3>1. ~(final > 0 /\ final <= now)
      BY DEF FinalTimeout
    <3> QED
      BY <3>1, FinalTimeoutFacts
  <2> HIDE DEF final
  <2>2. m.inputs[p] \in Input
    BY <1>1 DEF MuxerType, Has
  <2>3. /\ i1 \in Input /\ i1.timeout = final
        /\ i2 \in Input /\ i2.timeout = final
    BY <2>1, <2>2 DEF Input
  <2>4. /\ SetInput(m, p, f, t, now) = ReplaceInput(m, p, i1, now)
        /\ SetInputImage(m, p, f, t, now) = ReplaceInput(m, p, i2, now)
    BY <1>1 DEF SetInput, SetInputImage, final
  <2> HIDE DEF i1, i2
  <2>5. ~Expired(i1, now) /\ ~Expired(i2, now)
    BY <2>1, <2>3 DEF Expired
  <2>6. LET r == ReplaceInput(m, p, i1, now)
        IN  Moves(m, r, UnheededAfter(m, u, p, final)) /\ Removes(m, r, now, {})
    BY <1>1, <2>3, <2>5, ReplaceInputMoves
  <2>7. LET s == ReplaceInput(m, p, i2, now)
        IN  Moves(m, s, UnheededAfter(m, u, p, final)) /\ Removes(m, s, now, {})
    BY <1>1, <2>3, <2>5, ReplaceInputMoves
  <2> QED
    BY <2>1, <2>4, <2>6, <2>7
<1>2. CASE ~Has(m, p)
  BY <1>2 DEF SetInput, SetInputImage, UnheededAfter, Moves, Removes
<1> QED
  BY <1>1, <1>2

LEMMA ClearInputMoves ==
  ASSUME NEW m, MuxerType(m), NEW u, Settled(m, u), NEW p, NEW now
  PROVE  LET r == ClearInput(m, p, now)
         IN  /\ Moves(m, r, IF Clears(m, p) THEN {} ELSE u)
             /\ Removes(m, r, now, IF Clears(m, p) THEN {ToUint8(p)} ELSE {})
<1> DEFINE x == Without(m, {ToUint8(p)})
           r == SetCurrentTime(x, now)
<1>1. CASE Clears(m, p)
  <2>1. /\ DOMAIN x.inputs = DOMAIN m.inputs \ {ToUint8(p)}
        /\ \A q \in DOMAIN x.inputs : x.inputs[q] = m.inputs[q]
        /\ x.current = m.current /\ x.manual = m.manual /\ x.auto = m.auto
    BY DEF MuxerType, Without
  <2>2. MuxerType(x)
    BY DEF MuxerType, Without
  <2>3. ClearInput(m, p, now) = PrioritiesChanged(r)
    BY <1>1 DEF ClearInput
  <2> HIDE DEF x
  <2>4. MuxerType(r) /\ Moves(x, r, {}) /\ Removes(x, r, now, {})
    BY <2>2, UpdateMoves
  <2> HIDE DEF r
  <2>5. Moves(m, r, {})
    BY <2>1, <2>4 DEF Moves
  <2>6. Removes(m, r, now, {ToUint8(p)})
    BY <2>1, <2>4 DEF Removes
  <2>7. SameSelection(r, PrioritiesChanged(r))
    BY <2>4, SignalFacts
  <2> QED
    BY <1>1, <2>3, <2>5, <2>6, <2>7, SameMoves
<1>2. CASE ~Clears(m, p)
  BY <1>2 DEF ClearInput, Moves, Removes
<1> QED
  BY <1>1, <1>2

(* Asking for auto selection is the other way out of manual mode. *)
LEMMA AutoSelectMoves ==
  ASSUME NEW m, MuxerType(m), NEW u, Settled(m, u), NEW enable \in BOOLEAN, NEW now
  PROVE  LET r == SetSourceAutoSelectEnabled(m, enable, now)
             v == IF AutoSelectSucceeds(m, enable) THEN {} ELSE u
         IN  /\ Settled(r, v)
             /\ ~r.auto => r.current \in {m.current, r.manual}
             /\ ~enable => Moves(m, r, v) /\ (~m.auto => ~r.auto)
             /\ Removes(m, r, now, {})
<1> DEFINE x == [m EXCEPT !.auto = enable]
           r == SetCurrentTime(x, now)
<1>1. CASE AutoSelectSucceeds(m, enable)
  <2>1. /\ x.inputs = m.inputs /\ x.current = m.current /\ x.manual = m.manual
        /\ x.auto = enable /\ MuxerType(x)
    BY DEF MuxerType
  <2>2. SetSourceAutoSelectEnabled(m, enable, now) = PrioritiesChanged(r)
    BY <1>1 DEF SetSourceAutoSelectEnabled
  <2>3. ~enable => m.auto
    BY <1>1 DEF AutoSelectSucceeds, MuxerType
  <2> HIDE DEF x
  <2>4. MuxerType(r) /\ Moves(x, r, {}) /\ Removes(x, r, now, {})
    BY <2>1, UpdateMoves
  <2> HIDE DEF r
  <2>5. SameSelection(r, PrioritiesChanged(r))
    BY <2>4, SignalFacts
  <2>6. LET s == PrioritiesChanged(r)
        IN  Moves(x, s, {}) /\ Removes(x, s, now, {})
    BY <2>4, <2>5, SameMoves
  <2> QED
    BY <1>1, <2>1, <2>2, <2>3, <2>6 DEF Moves, Removes
<1>2. CASE ~AutoSelectSucceeds(m, enable)
  BY <1>2 DEF SetSourceAutoSelectEnabled, Moves, Removes
<1> QED
  BY <1>1, <1>2

LEMMA SetPriorityMoves ==
  ASSUME NEW m, MuxerType(m), NEW u, Settled(m, u), NEW p \in Int, NEW now
  PROVE  LET r == SetPriority(m, p, now)
         IN  Moves(m, r, HeedOnSelect(m, u, p)) /\ Removes(m, r, now, {})
<1> DEFINE k == ToUint8(p)
           x == [m EXCEPT !.manual = k]
           v == HeedOnSelect(m, u, p)
<1>1. k \in 0..NO_MANUAL
  BY ToUint8Type DEF NO_MANUAL
<1>2. /\ SetPriority(m, p, now)
           = IF Has(m, k) THEN SetSourceAutoSelectEnabled(x, FALSE, now) ELSE m
      /\ v = IF Has(m, k) /\ AutoSelectSucceeds(x, FALSE) THEN {} ELSE u
  BY DEF SetPriority, HeedOnSelect
<1> HIDE DEF k, v
<1>3. CASE Has(m, k)
  <2>1. /\ x.inputs = m.inputs /\ x.current = m.current /\ x.auto = m.auto
        /\ x.manual = k /\ MuxerType(x)
    BY <1>1 DEF MuxerType
  <2>2. v = IF AutoSelectSucceeds(x, FALSE) THEN {} ELSE u
    BY <1>2, <1>3
  <2> HIDE DEF x
  <2>3. Settled(x, u)
    <3>1. BestCounted(x, u) = BestCounted(m, u)
      BY <2>1 DEF BestCounted, Counted
    <3> QED
      BY <1>3, <2>1, <3>1 DEF Settled, Free, Has
  <2> DEFINE r == SetSourceAutoSelectEnabled(x, FALSE, now)
  <2>4. /\ Moves(x, r, v)
        /\ ~x.auto => ~r.auto
        /\ Removes(x, r, now, {})
    BY <2>1, <2>2, <2>3, AutoSelectMoves
  <2> HIDE DEF r
  <2>5. Moves(m, r, v) /\ Removes(m, r, now, {})
    BY <2>1, <2>4 DEF Moves, Removes
  <2> QED
    BY <1>2, <1>3, <2>5 DEF r, v
<1>4. CASE ~Has(m, k)
  BY <1>2, <1>4 DEF Moves, Removes, v
<1> QED
  BY <1>3, <1>4

-----------------------------------------------------------------------------
(* What the methods do to the map of inputs, for callers who own channels. *)

(* What registerInput() leaves of the map of m. *)
WithChannel(m, r, p, comp) ==
  /\ MuxerType(r)
  /\ DOMAIN r.inputs = DOMAIN m.inputs \union {p}
  /\ \A q \in DOMAIN m.inputs : q # p => r.inputs[q] = m.inputs[q]
  /\ r.inputs[p].comp = comp
  /\ r.inputs[p].image = IF Has(m, p) THEN m.inputs[p].image ELSE NoFrame
  /\ r.inputs[p].colors = IF Has(m, p) THEN m.inputs[p].colors ELSE NoFrame
  /\ r.inputs[p].timeout = IF Has(m, p) THEN m.inputs[p].timeout ELSE INACTIVE
  /\ r.current = m.current

LEMMA RegisterInputFacts ==
  ASSUME NEW m, MuxerType(m), NEW p \in Priorities, NEW comp \in Components \union {"COLOR"}
  PROVE  WithChannel(m, RegisterInput(m, p, comp), p, comp)
<1>1. p \in Channels
  BY DEF Channels
<1>2. CASE Has(m, p)
  <2> DEFINE x == [m.inputs[p] EXCEPT !.comp = comp]
             r == [m EXCEPT !.inputs[p] = x]
  <2>1. /\ m.inputs[p] \in Input
        /\ RegisterInput(m, p, comp) = r
    BY <1>2 DEF MuxerType, Has, RegisterInput
  <2>2. /\ x \in Input /\ x.comp = comp /\ x.image = m.inputs[p].image
        /\ x.colors = m.inputs[p].colors /\ x.timeout = m.inputs[p].timeout
    BY <2>1 DEF Input
  <2> HIDE DEF x
  <2>3. /\ MuxerType(r)
        /\ DOMAIN r.inputs = DOMAIN m.inputs
        /\ \A q \in DOMAIN m.inputs : q # p => r.inputs[q] = m.inputs[q]
        /\ r.inputs[p] = x
        /\ r.current = m.current
    BY <1>2, <2>2 DEF MuxerType, Has
  <2> QED
    BY <1>2, <2>1, <2>2, <2>3 DEF Has, WithChannel
<1>3. CASE ~Has(m, p)
  <2> DEFINE new == [timeout |-> INACTIVE, comp |-> comp,
                     colors |-> NoFrame, image |-> NoFrame]
             x == [m EXCEPT !.inputs = [q \in DOMAIN m.inputs \union {p} |->
                                          IF q = p THEN new ELSE m.inputs[q]]]
  <2>1. /\ new \in Input /\ new.comp = comp /\ new.image = NoFrame
        /\ new.colors = NoFrame /\ new.timeout = INACTIVE
    BY FramesAssumption DEF Input, INACTIVE
  <2>2. RegisterInput(m, p, comp) = PrioritiesChanged(x)
    BY <1>3 DEF RegisterInput
  <2> HIDE DEF new
  <2>3. /\ DOMAIN x.inputs = DOMAIN m.inputs \union {p}
        /\ x.inputs[p] = new
        /\ \A q \in DOMAIN m.inputs : x.inputs[q] = m.inputs[q]
        /\ x.current = m.current
    BY <1>3 DEF MuxerType, Has
  <2>4. MuxerType(x)
    BY <1>1, <2>1 DEF MuxerType
  <2> HIDE DEF x
  <2>5. MuxerType(PrioritiesChanged(x)) /\ SameSelection(x, PrioritiesChanged(x))
    BY <2>4, SignalFacts
  <2> QED
    BY <1>3, <2>1, <2>2, <2>3, <2>5 DEF SameSelection, WithChannel
<1> QED
  BY <1>2, <1>3

(* Replacing the content of an input may drop expired ones, but touches no *)
(* other.                                                                  *)
LEMMA ReplaceInputFacts ==
  ASSUME NEW m, MuxerType(m), NEW p, Has(m, p), NEW input \in Input, NEW now
  PROVE  LET r == ReplaceInput(m, p, input, now)
         IN  /\ MuxerType(r)
             /\ DOMAIN r.inputs \subseteq DOMAIN m.inputs
             /\ \A q \in DOMAIN r.inputs : r.inputs[q] = IF q = p THEN input ELSE m.inputs[q]
<1> DEFINE x == [m EXCEPT !.inputs[p] = input]
           s == SetCurrentTime(x, now)
<1>1. /\ DOMAIN x.inputs = DOMAIN m.inputs
      /\ x.inputs[p] = input
      /\ \A q \in DOMAIN m.inputs : q # p => x.inputs[q] = m.inputs[q]
      /\ MuxerType(x)
  BY DEF MuxerType, Has
<1>2. ReplaceInput(m, p, input, now) \in {s, x}
  BY DEF ReplaceInput
<1> HIDE DEF x
<1>3. /\ MuxerType(s) /\ DOMAIN s.inputs \subseteq DOMAIN x.inputs
      /\ \A q \in DOMAIN s.inputs : s.inputs[q] = x.inputs[q]
  BY <1>1, SetCurrentTimeFacts
<1> HIDE DEF s
<1> QED
  BY <1>1, <1>2, <1>3

LEMMA FinalTimeoutType ==
  /\ \A t \in Int, now \in Nat : FinalTimeout(t, now) \in Int
  /\ \A now : FinalTimeout(ENDLESS, now) \in Int /\ FinalTimeout(INACTIVE, now) \in Int
BY DEF FinalTimeout, ENDLESS, INACTIVE

(* What SetInputImage() and SetInput() leave of the map of m. *)
NewImage(m, r, p, f) ==
  /\ MuxerType(r)
  /\ DOMAIN r.inputs \subseteq DOMAIN m.inputs
  /\ \A q \in DOMAIN r.inputs : /\ r.inputs[q].comp = m.inputs[q].comp
                                /\ q # p => r.inputs[q] = m.inputs[q]
                                /\ q = p => r.inputs[q].image = f

NewColors(m, r, p, f) ==
  /\ MuxerType(r)
  /\ DOMAIN r.inputs \subseteq DOMAIN m.inputs
  /\ \A q \in DOMAIN r.inputs : /\ r.inputs[q].comp = m.inputs[q].comp
                                /\ r.inputs[q].image = m.inputs[q].image
                                /\ q # p => r.inputs[q] = m.inputs[q]
                                /\ q = p => r.inputs[q].colors = f

LEMMA SetInputImageFacts ==
  ASSUME NEW m, MuxerType(m), NEW p, NEW f \in Frames, NEW t, NEW now,
         FinalTimeout(t, now) \in Int
  PROVE  NewImage(m, SetInputImage(m, p, f, t, now), p, f)
<1>1. CASE Has(m, p)
  <2> DEFINE final == FinalTimeout(t, now)
             i == [m.inputs[p] EXCEPT !.image = f, !.timeout = final]
  <2>1. final \in Int /\ m.inputs[p] \in Input
    BY <1>1 DEF MuxerType, Has
  <2>2. SetInputImage(m, p, f, t, now) = ReplaceInput(m, p, i, now)
    BY <1>1 DEF SetInputImage
  <2> HIDE DEF final
  <2>3. i \in Input /\ i.comp = m.inputs[p].comp /\ i.image = f
    BY <2>1 DEF Input
  <2> HIDE DEF i
  <2> QED
    BY <1>1, <2>2, <2>3, ReplaceInputFacts DEF NewImage
<1>2. CASE ~Has(m, p)
  BY <1>2 DEF SetInputImage, Has, NewImage
<1> QED
  BY <1>1, <1>2

LEMMA SetInputFacts ==
  ASSUME NEW m, MuxerType(m), NEW p, NEW f \in Frames, NEW t, NEW now,
         FinalTimeout(t, now) \in Int
  PROVE  NewColors(m, SetInput(m, p, f, t, now), p, f)
<1>1. CASE Has(m, p)
  <2> DEFINE final == FinalTimeout(t, now)
             i == [m.inputs[p] EXCEPT !.colors = f, !.timeout = final]
  <2>1. final \in Int /\ m.inputs[p] \in Input
    BY <1>1 DEF MuxerType, Has
  <2>2. SetInput(m, p, f, t, now) = ReplaceInput(m, p, i, now)
    BY <1>1 DEF SetInput
  <2> HIDE DEF final
  <2>3. i \in Input /\ i.comp = m.inputs[p].comp /\ i.image = m.inputs[p].image /\ i.colors = f
    BY <2>1 DEF Input
  <2> HIDE DEF i
  <2> QED
    BY <1>1, <2>2, <2>3, ReplaceInputFacts DEF NewColors
<1>2. CASE ~Has(m, p)
  BY <1>2 DEF SetInput, Has, NewColors
<1> QED
  BY <1>1, <1>2

LEMMA ClearInputFacts ==
  ASSUME NEW m, MuxerType(m), NEW p, NEW now
  PROVE  LET r == ClearInput(m, p, now)
         IN  /\ MuxerType(r)
             /\ DOMAIN r.inputs \subseteq DOMAIN m.inputs
             /\ \A q \in DOMAIN r.inputs : r.inputs[q] = m.inputs[q]
             /\ Clears(m, p) => ToUint8(p) \notin DOMAIN r.inputs
<1> DEFINE x == Without(m, {ToUint8(p)})
           r == SetCurrentTime(x, now)
<1>1. CASE Clears(m, p)
  <2>1. /\ DOMAIN x.inputs = DOMAIN m.inputs \ {ToUint8(p)}
        /\ \A q \in DOMAIN x.inputs : x.inputs[q] = m.inputs[q]
        /\ MuxerType(x)
    BY DEF MuxerType, Without
  <2>2. ClearInput(m, p, now) = PrioritiesChanged(r)
    BY <1>1 DEF ClearInput
  <2> HIDE DEF x
  <2>3. /\ MuxerType(r) /\ DOMAIN r.inputs \subseteq DOMAIN x.inputs
        /\ \A q \in DOMAIN r.inputs : r.inputs[q] = x.inputs[q]
    BY <2>1, SetCurrentTimeFacts
  <2> HIDE DEF r
  <2>4. MuxerType(PrioritiesChanged(r)) /\ SameSelection(r, PrioritiesChanged(r))
    BY <2>3, SignalFacts
  <2> QED
    BY <2>1, <2>2, <2>3, <2>4 DEF SameSelection
<1>2. CASE ~Clears(m, p)
  BY <1>2 DEF ClearInput
<1> QED
  BY <1>1, <1>2
=============================================================================
