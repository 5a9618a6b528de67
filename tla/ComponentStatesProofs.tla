------------------------- MODULE ComponentStatesProofs -------------------------
(***************************************************************************)
(* The register and the captures, for every set of priorities and frames.  *)
(* CapturesTidy is not inductive: a v4l picture could come back with a     *)
(* capture that was switched off with it in a channel.  The invariant says *)
(* that such a picture only exists while the capture is on.  It is stated  *)
(* for a value h of the handlers and for the priorities at, since          *)
(* InstCapture leaves the old priorities before it takes the new ones.     *)
(***************************************************************************)
EXTENDS ComponentStates, MuxerLemmas

CaptureType(h) ==
  /\ h = [mux |-> h.mux, states |-> h.states, on |-> h.on, timer |-> h.timer]
  /\ MuxerType(h.mux)
  /\ h.states \in [Comps \union {"ALL"} -> BOOLEAN]
  /\ h.on \in [Comps -> BOOLEAN]
  /\ h.timer \in BOOLEAN

Registered(h) == \A c \in Comps : h.states[c] = h.on[c]

Tended(h, at) ==
  \A p \in DOMAIN h.mux.inputs :
    /\ \A c \in Capture : h.mux.inputs[p].comp = c => h.on[c] /\ p = at[c]
    /\ h.mux.inputs[p].image = V4lFrame => h.on["V4L"] /\ h.timer /\ p = at["V4L"]

Proper(h, at) == CaptureType(h) /\ Registered(h) /\ Tended(h, at)

CompInv ==
  /\ Proper(Here, prio)
  /\ ticking \in BOOLEAN
  /\ prev = Nothing \/ prev \in [Comps \union {"ALL"} -> BOOLEAN]
  /\ prio \in [Capture -> Priorities]
  /\ states["ALL"] = (prev = Nothing)
  /\ states["ALL"] = ticking

-----------------------------------------------------------------------------
(* The priorities are bytes, and clearInput() takes each of them. *)
LEMMA OwnChannels ==
  \A p \in Priorities : p \in Int /\ ToUint8(p) = p /\ p < LOWEST_PRIORITY
BY CapturePrioritiesAssumption DEF ToUint8, LOWEST_PRIORITY

LEMMA ConstantFacts ==
  /\ Comps = {"GRABBER", "V4L", "SMOOTHING", "LEDDEVICE"} /\ Capture = {"GRABBER", "V4L"}
  /\ "ALL" \notin Comps
  /\ V4lFrame # NoFrame /\ V4lFrame # SystemFrame /\ V4lFrame # ClientFrame
  /\ {V4lFrame, SystemFrame, ClientFrame, NoFrame} \subseteq Frames
BY CaptureFramesAssumption, FramesAssumption DEF Comps, Capture

(* A component that changes its flag tells the register. *)
LEMMA SwitchedFacts ==
  ASSUME NEW h, CaptureType(h), NEW c \in Comps, NEW state \in BOOLEAN
  PROVE  LET r == Switched(h, c, state)
         IN  /\ CaptureType(r)
             /\ r.mux = h.mux /\ r.timer = h.timer
             /\ r.on = [h.on EXCEPT ![c] = state]
             /\ r.states = [h.states EXCEPT ![c] = state]
<1> DEFINE s == [h.states EXCEPT ![c] = state]
           o == [h.on EXCEPT ![c] = state]
           g == [h EXCEPT !.on = o]
<1>1. s \in [Comps \union {"ALL"} -> BOOLEAN] /\ o \in [Comps -> BOOLEAN]
  BY DEF CaptureType
<1>2. Switched(h, c, state) = [g EXCEPT !.states = [g.states EXCEPT ![c] = state]]
  BY DEF Switched, ComponentStateChanged
<1> HIDE DEF o
<1>3. g = [mux |-> h.mux, states |-> h.states, on |-> o, timer |-> h.timer]
  BY DEF CaptureType
<1> HIDE DEF g
<1>4. g.states = h.states
  BY <1>3
<1> HIDE DEF s
<1>5. [g EXCEPT !.states = s] = [mux |-> h.mux, states |-> s, on |-> o, timer |-> h.timer]
  BY <1>3
<1>6. Switched(h, c, state) = [mux |-> h.mux, states |-> s, on |-> o, timer |-> h.timer]
  BY <1>2, <1>4, <1>5 DEF s
<1>7. CaptureType(Switched(h, c, state))
  BY <1>1, <1>6 DEF CaptureType
<1> QED
  BY <1>6, <1>7 DEF s, o

(* What a switch leaves of the other components. *)
Switches(h, r, c, state) ==
  /\ r.on = [h.on EXCEPT ![c] = state]
  /\ r.states["ALL"] = h.states["ALL"]

LEMMA FlagSwitched ==
  ASSUME NEW h, NEW at, Proper(h, at), NEW c \in Comps \ Capture, NEW state \in BOOLEAN
  PROVE  LET r == Switched(h, c, state) IN Proper(r, at) /\ Switches(h, r, c, state)
<1> DEFINE r == Switched(h, c, state)
<1>1. /\ CaptureType(r)
      /\ r.mux = h.mux /\ r.timer = h.timer
      /\ r.on = [h.on EXCEPT ![c] = state]
      /\ r.states = [h.states EXCEPT ![c] = state]
  BY SwitchedFacts DEF Proper
<1> HIDE DEF r
<1>2. Registered(r)
  BY <1>1 DEF Proper, CaptureType, Registered
<1>3. Tended(r, at)
  BY <1>1, ConstantFacts DEF Proper, CaptureType, Tended
<1>4. Switches(h, r, c, state)
  BY <1>1, ConstantFacts DEF Switches, Proper, CaptureType
<1> QED
  BY <1>1, <1>2, <1>3, <1>4 DEF Proper, r

LEMMA CaptureOn ==
  ASSUME NEW h, NEW at \in [Capture -> Priorities], Proper(h, at), NEW c \in Capture,
         NEW enable \in BOOLEAN, enable, ~h.on[c]
  PROVE  LET r == SetCaptureEnable(h, at, c, enable) IN Proper(r, at) /\ Switches(h, r, c, enable)
<1> DEFINE m == RegisterInput(h.mux, at[c], c)
           g == [h EXCEPT !.mux = m]
           r == Switched(g, c, enable)
<1>1. at[c] \in Priorities /\ c \in Components /\ c \in Comps /\ MuxerType(h.mux)
  BY CaptureComponentsAssumption DEF Capture, Comps, Proper, CaptureType
<1>2. WithChannel(h.mux, m, at[c], c)
  BY <1>1, RegisterInputFacts
<1>3. SetCaptureEnable(h, at, c, enable) = r
  BY DEF SetCaptureEnable, Proper, CaptureType
<1> HIDE DEF m
<1>4. CaptureType(g) /\ g.mux = m /\ g.on = h.on /\ g.states = h.states /\ g.timer = h.timer
  BY <1>2 DEF Proper, CaptureType, WithChannel
<1> HIDE DEF g
<1>5. /\ CaptureType(r)
      /\ r.mux = m /\ r.timer = h.timer
      /\ r.on = [h.on EXCEPT ![c] = enable]
      /\ r.states = [h.states EXCEPT ![c] = enable]
  <2>1. /\ CaptureType(r)
        /\ r.mux = g.mux /\ r.timer = g.timer
        /\ r.on = [g.on EXCEPT ![c] = enable]
        /\ r.states = [g.states EXCEPT ![c] = enable]
    BY <1>1, <1>4, SwitchedFacts
  <2> HIDE DEF r
  <2> QED
    BY <1>4, <2>1
<1> HIDE DEF r
<1>6. Registered(r)
  BY <1>1, <1>5 DEF Proper, CaptureType, Registered
<1>7. /\ \A d \in Capture : h.on[d] => r.on[d]
      /\ r.on[c]
  BY <1>1, <1>5, ConstantFacts DEF Proper, CaptureType
<1>8. ASSUME NEW p \in DOMAIN r.mux.inputs
      PROVE  /\ \A d \in Capture : r.mux.inputs[p].comp = d => r.on[d] /\ p = at[d]
             /\ r.mux.inputs[p].image = V4lFrame => r.on["V4L"] /\ r.timer /\ p = at["V4L"]
  <2>1. CASE p # at[c]
    <3>1. p \in DOMAIN h.mux.inputs /\ r.mux.inputs[p] = h.mux.inputs[p]
      BY <1>2, <1>5, <1>8, <2>1 DEF WithChannel
    <3> QED
      BY <1>5, <1>7, <3>1, ConstantFacts DEF Proper, Tended
  <2>2. CASE p = at[c]
    <3>1. r.mux.inputs[p].comp = c
      BY <1>2, <1>5, <2>2 DEF WithChannel
    <3>2. r.mux.inputs[p].image = V4lFrame
            => p \in DOMAIN h.mux.inputs /\ h.mux.inputs[p].image = V4lFrame
      BY <1>2, <1>5, <2>2, ConstantFacts DEF Has, WithChannel
    <3>3. r.mux.inputs[p].image = V4lFrame => r.on["V4L"] /\ r.timer /\ p = at["V4L"]
      BY <1>5, <1>7, <3>2, ConstantFacts DEF Proper, Tended
    <3> QED
      BY <1>7, <2>2, <3>1, <3>3
  <2> QED
    BY <2>1, <2>2
<1>9. Tended(r, at)
  BY <1>8 DEF Tended
<1>10. Switches(h, r, c, enable)
  BY <1>1, <1>5, ConstantFacts DEF Switches, Proper, CaptureType
<1> QED
  BY <1>3, <1>5, <1>6, <1>9, <1>10 DEF Proper

(* The capture's own channel goes, and with it the picture. *)
LEMMA CaptureOff ==
  ASSUME NEW h, NEW at \in [Capture -> Priorities], Proper(h, at), NEW c \in Capture,
         NEW enable \in BOOLEAN, ~enable, h.on[c]
  PROVE  LET r == SetCaptureEnable(h, at, c, enable) IN Proper(r, at) /\ Switches(h, r, c, enable)
<1> DEFINE m == ClearInput(h.mux, at[c], 0)
           timer == h.timer /\ c # "V4L"
           g == [h EXCEPT !.mux = m, !.timer = timer]
           r == Switched(g, c, enable)
<1>1. at[c] \in Priorities /\ c \in Comps /\ MuxerType(h.mux) /\ timer \in BOOLEAN
  BY DEF Capture, Comps, Proper, CaptureType
<1>2. /\ MuxerType(m)
      /\ DOMAIN m.inputs \subseteq DOMAIN h.mux.inputs
      /\ \A q \in DOMAIN m.inputs : m.inputs[q] = h.mux.inputs[q]
      /\ Clears(h.mux, at[c]) => ToUint8(at[c]) \notin DOMAIN m.inputs
  BY <1>1, ClearInputFacts
<1>3. at[c] \notin DOMAIN m.inputs
  <2>1. ToUint8(at[c]) = at[c] /\ at[c] < LOWEST_PRIORITY
    BY <1>1, OwnChannels
  <2> QED
    BY <1>2, <2>1 DEF Clears, Has
<1>4. SetCaptureEnable(h, at, c, enable) = r
  BY DEF SetCaptureEnable, Proper, CaptureType
<1> HIDE DEF m
<1>5. /\ CaptureType(g) /\ g.mux = m /\ g.on = h.on /\ g.states = h.states
      /\ g.timer = timer
  <2>1. h = [mux |-> h.mux, states |-> h.states, on |-> h.on, timer |-> h.timer]
    BY DEF Proper, CaptureType
  <2> HIDE DEF timer
  <2> DEFINE f == [h EXCEPT !.mux = m]
  <2>2. f = [mux |-> m, states |-> h.states, on |-> h.on, timer |-> h.timer]
    BY <2>1
  <2>3. g = [f EXCEPT !.timer = timer]
    OBVIOUS
  <2> HIDE DEF f, g
  <2>4. g = [mux |-> m, states |-> h.states, on |-> h.on, timer |-> timer]
    BY <2>2, <2>3
  <2> QED
    BY <1>1, <1>2, <2>4 DEF Proper, CaptureType
<1> HIDE DEF g
<1>6. /\ CaptureType(r)
      /\ r.mux = m /\ r.timer = timer
      /\ r.on = [h.on EXCEPT ![c] = enable]
      /\ r.states = [h.states EXCEPT ![c] = enable]
  BY <1>1, <1>5, SwitchedFacts
<1> HIDE DEF r
<1>7. Registered(r)
  BY <1>1, <1>6 DEF Proper, CaptureType, Registered
<1>8. \A d \in Capture : d # c => r.on[d] = h.on[d]
  BY <1>1, <1>6, ConstantFacts DEF Proper, CaptureType
<1>9. ASSUME NEW p \in DOMAIN r.mux.inputs
      PROVE  /\ \A d \in Capture : r.mux.inputs[p].comp = d => r.on[d] /\ p = at[d]
             /\ r.mux.inputs[p].image = V4lFrame => r.on["V4L"] /\ r.timer /\ p = at["V4L"]
  <2>1. p \in DOMAIN h.mux.inputs /\ r.mux.inputs[p] = h.mux.inputs[p] /\ p # at[c]
    BY <1>2, <1>3, <1>6, <1>9
  <2>2. /\ \A d \in Capture : h.mux.inputs[p].comp = d => h.on[d] /\ p = at[d]
        /\ h.mux.inputs[p].image = V4lFrame => h.on["V4L"] /\ h.timer /\ p = at["V4L"]
    BY <2>1 DEF Proper, Tended
  <2>3. ASSUME NEW d \in Capture, r.mux.inputs[p].comp = d PROVE r.on[d] /\ p = at[d]
    BY <1>8, <2>1, <2>2, <2>3
  <2>4. ASSUME r.mux.inputs[p].image = V4lFrame PROVE r.on["V4L"] /\ r.timer /\ p = at["V4L"]
    <3>1. h.on["V4L"] /\ h.timer /\ p = at["V4L"]
      BY <2>1, <2>2, <2>4
    <3>2. c # "V4L"
      BY <2>1, <3>1
    <3> QED
      BY <1>6, <1>8, <3>1, <3>2, ConstantFacts
  <2> QED
    BY <2>3, <2>4
<1>10. Tended(r, at)
  BY <1>9 DEF Tended
<1>11. Switches(h, r, c, enable)
  BY <1>1, <1>6, ConstantFacts DEF Switches, Proper, CaptureType
<1> QED
  BY <1>4, <1>6, <1>7, <1>10, <1>11 DEF Proper

LEMMA CaptureEnabled ==
  ASSUME NEW h, NEW at \in [Capture -> Priorities], Proper(h, at), NEW c \in Capture,
         NEW enable \in BOOLEAN
  PROVE  LET r == SetCaptureEnable(h, at, c, enable)
         IN  Proper(r, at) /\ Switches(h, r, c, enable)
<1>1. h.on \in [Comps -> BOOLEAN] /\ c \in Comps
  BY DEF Proper, CaptureType, Capture, Comps
<1>2. CASE h.on[c] = enable
  BY <1>1, <1>2 DEF SetCaptureEnable, Switches
<1>3. CASE enable /\ ~h.on[c]
  BY <1>3, CaptureOn
<1>4. CASE ~enable /\ h.on[c]
  BY <1>4, CaptureOff
<1> QED
  BY <1>1, <1>2, <1>3, <1>4

LEMMA ComponentSet ==
  ASSUME prio \in [Capture -> Priorities], NEW h, Proper(h, prio), NEW c \in Comps,
         NEW state \in BOOLEAN
  PROVE  LET r == SetComponentState(h, c, state)
         IN  Proper(r, prio) /\ Switches(h, r, c, state)
<1>1. CASE c \in Capture
  BY <1>1, CaptureEnabled DEF SetComponentState
<1>2. CASE c \notin Capture
  BY <1>2, FlagSwitched DEF SetComponentState
<1> QED
  BY <1>1, <1>2

LEMMA AllSet ==
  ASSUME prio \in [Capture -> Priorities], NEW h, Proper(h, prio),
         NEW saved \in [Comps \union {"ALL"} -> BOOLEAN], NEW state \in BOOLEAN
  PROVE  LET r == SetAll(h, saved, state)
         IN  /\ Proper(r, prio)
             /\ r.states["ALL"] = h.states["ALL"]
             /\ \A c \in Comps : r.on[c] = IF saved[c] THEN state ELSE h.on[c]
<1> DEFINE Set(g, c) == IF saved[c] THEN SetComponentState(g, c, state) ELSE g
           h1 == Set(h, "SMOOTHING")
           h2 == Set(h1, "GRABBER")
           h3 == Set(h2, "V4L")
           h4 == Set(h3, "LEDDEVICE")
<1>1. ASSUME NEW g, Proper(g, prio), NEW c \in Comps
      PROVE  /\ Proper(Set(g, c), prio)
             /\ Set(g, c).states["ALL"] = g.states["ALL"]
             /\ \A d \in Comps : Set(g, c).on[d] = IF d = c /\ saved[c] THEN state ELSE g.on[d]
  <2>1. g.on \in [Comps -> BOOLEAN]
    BY <1>1 DEF Proper, CaptureType
  <2>2. CASE saved[c]
    <3>1. Set(g, c) = SetComponentState(g, c, state)
      BY <2>2
    <3>2. Proper(Set(g, c), prio) /\ Switches(g, Set(g, c), c, state)
      BY <1>1, <3>1, ComponentSet
    <3> HIDE DEF Set
    <3> QED
      BY <2>1, <2>2, <3>2 DEF Switches
  <2>3. CASE ~saved[c]
    BY <1>1, <2>3
  <2> QED
    BY <2>2, <2>3
<1>2. SetAll(h, saved, state) = h4
  BY DEF SetAll
<1> HIDE DEF Set
<1>3. {"SMOOTHING", "GRABBER", "V4L", "LEDDEVICE"} = Comps
  BY ConstantFacts
<1>4. /\ Proper(h1, prio)
      /\ h1.states["ALL"] = h.states["ALL"]
      /\ \A d \in Comps : h1.on[d] = IF d = "SMOOTHING" /\ saved[d] THEN state ELSE h.on[d]
  BY <1>1, <1>3
<1> HIDE DEF h1
<1>5. /\ Proper(h2, prio)
      /\ h2.states["ALL"] = h1.states["ALL"]
      /\ \A d \in Comps : h2.on[d] = IF d = "GRABBER" /\ saved[d] THEN state ELSE h1.on[d]
  BY <1>1, <1>3, <1>4
<1> HIDE DEF h2
<1>6. /\ Proper(h3, prio)
      /\ h3.states["ALL"] = h2.states["ALL"]
      /\ \A d \in Comps : h3.on[d] = IF d = "V4L" /\ saved[d] THEN state ELSE h2.on[d]
  BY <1>1, <1>3, <1>5
<1> HIDE DEF h3
<1>7. /\ Proper(h4, prio)
      /\ h4.states["ALL"] = h3.states["ALL"]
      /\ \A d \in Comps : h4.on[d] = IF d = "LEDDEVICE" /\ saved[d] THEN state ELSE h3.on[d]
  BY <1>1, <1>3, <1>6
<1> HIDE DEF h4
<1>8. ASSUME NEW c \in Comps PROVE h4.on[c] = IF saved[c] THEN state ELSE h.on[c]
  BY <1>3, <1>4, <1>5, <1>6, <1>7
<1> QED
  BY <1>2, <1>4, <1>5, <1>6, <1>7, <1>8

LEMMA AllChanged ==
  ASSUME NEW h, NEW at, Proper(h, at), NEW state \in BOOLEAN
  PROVE  LET r == ComponentStateChanged(h, "ALL", state)
         IN  Proper(r, at) /\ r.on = h.on /\ r.states["ALL"] = state
<1> DEFINE s == [h.states EXCEPT !["ALL"] = state]
           r == [h EXCEPT !.states = s]
<1>1. /\ s \in [Comps \union {"ALL"} -> BOOLEAN] /\ s["ALL"] = state
      /\ \A c \in Comps : s[c] = h.states[c]
  BY ConstantFacts DEF Proper, CaptureType
<1>2. ComponentStateChanged(h, "ALL", state) = r
  BY DEF ComponentStateChanged
<1> HIDE DEF s
<1>3. r = [mux |-> h.mux, states |-> s, on |-> h.on, timer |-> h.timer]
  BY DEF Proper, CaptureType
<1> HIDE DEF r
<1>4. CaptureType(r)
  BY <1>1, <1>3 DEF Proper, CaptureType
<1>5. Registered(r) /\ Tended(r, at)
  BY <1>1, <1>3 DEF Proper, Registered, Tended
<1> QED
  BY <1>1, <1>2, <1>3, <1>4, <1>5 DEF Proper

-----------------------------------------------------------------------------
(* A handler that comes to h leaves the state there. *)
LEMMA BecomeFacts ==
  ASSUME NEW h, NEW at, Proper(h, at), Become(h)
  PROVE  /\ Proper(Here, at)'
         /\ on' = h.on /\ states' = h.states
<1> DEFINE m == [h.mux EXCEPT !.blocked = FALSE, !.pending = FALSE, !.listed = Listing(h.mux)]
<1>1. MuxerType(m) /\ m.inputs = h.mux.inputs
  BY DEF Proper, CaptureType, MuxerType
<1>2. mux' = m /\ states' = h.states /\ on' = h.on /\ v4lInactiveTimer' = h.timer
  BY DEF Become
<1> HIDE DEF m
<1>3. /\ Here' = [mux |-> m, states |-> h.states, on |-> h.on, timer |-> h.timer]
  BY <1>2 DEF Here
<1>4. CaptureType(Here')
  BY <1>1, <1>3 DEF Proper, CaptureType
<1>5. Registered(Here')
  BY <1>3 DEF Proper, Registered
<1>6. Tended(Here', at)
  BY <1>1, <1>3 DEF Proper, Tended
<1> QED
  BY <1>2, <1>4, <1>5, <1>6 DEF Proper

LEMMA HereFields ==
  /\ Here.mux = mux /\ Here.states = states /\ Here.on = on
  /\ Here.timer = v4lInactiveTimer
BY DEF Here

LEMMA OnlyMuxInv ==
  ASSUME CompInv, NEW m, OnlyMux(m), MuxerType(m),
         DOMAIN m.inputs \subseteq DOMAIN mux.inputs \union Priorities,
         \A p \in DOMAIN m.inputs :
           /\ \A c \in Capture : m.inputs[p].comp = c => Has(mux, p) /\ mux.inputs[p].comp = c
           /\ m.inputs[p].image = V4lFrame => Has(mux, p) /\ mux.inputs[p].image = V4lFrame
  PROVE  CompInv'
<1> DEFINE h == [Here EXCEPT !.mux = m]
<1>1. h = [mux |-> m, states |-> states, on |-> on, timer |-> v4lInactiveTimer]
  BY DEF Here
<1>2. Become(h) /\ UNCHANGED <<ticking, prev, prio>>
  BY DEF OnlyMux
<1> HIDE DEF h
<1>3. CaptureType(h) /\ Registered(h)
  BY <1>1 DEF CompInv, Proper, CaptureType, Registered, Here
<1>4. Tended(h, prio)
  BY <1>1 DEF CompInv, Proper, Tended, Here, Has
<1>5. Proper(Here, prio)' /\ states' = states
  <2>1. Proper(h, prio)
    BY <1>3, <1>4 DEF Proper
  <2>2. Proper(Here', prio) /\ states' = states
    BY <1>1, <1>2, <2>1, BecomeFacts
  <2> QED
    BY <1>2, <2>2
<1> QED
  BY <1>2, <1>5 DEF CompInv

LEMMA ComponentStateInv ==
  ASSUME CompInv, NEW c \in Comps, NEW state \in BOOLEAN, ComponentState(c, state)
  PROVE  CompInv'
<1> DEFINE h == SetComponentState(Here, c, state)
<1>1. Become(h) /\ UNCHANGED <<ticking, prev, prio>>
  BY DEF ComponentState
<1>2. Proper(h, prio) /\ h.states["ALL"] = states["ALL"]
  <2>1. Proper(Here, prio) /\ prio \in [Capture -> Priorities]
    BY DEF CompInv
  <2>2. Proper(h, prio) /\ Switches(Here, h, c, state)
    BY <2>1, ComponentSet
  <2> HIDE DEF h
  <2> QED
    BY <2>2, HereFields DEF Switches
<1> HIDE DEF h
<1>3. Proper(Here', prio) /\ states' = h.states
  BY <1>1, <1>2, BecomeFacts
<1> QED
  BY <1>1, <1>2, <1>3 DEF CompInv

LEMMA NothingSaved ==
  ASSUME NEW s \in [Comps \union {"ALL"} -> BOOLEAN] PROVE s # Nothing
<1>1. "ALL" \in DOMAIN s /\ DOMAIN Nothing = {}
  BY DEF Nothing
<1> QED
  BY <1>1

LEMMA DisableInv ==
  ASSUME CompInv, DisableHyperion PROVE CompInv'
<1> DEFINE g == SetAll(Here, states, FALSE)
           h == ComponentStateChanged(g, "ALL", FALSE)
<1>1. Become(h) /\ prev' = states /\ ticking' = FALSE /\ prio' = prio
  BY DEF DisableHyperion
<1>2. states \in [Comps \union {"ALL"} -> BOOLEAN]
  BY DEF CompInv, Proper, CaptureType, Here
<1>3. Proper(g, prio)
  BY <1>2, AllSet DEF CompInv
<1> HIDE DEF g
<1>4. Proper(h, prio) /\ h.states["ALL"] = FALSE
  BY <1>3, AllChanged
<1> HIDE DEF h
<1>5. Proper(Here', prio) /\ states' = h.states
  BY <1>1, <1>4, BecomeFacts
<1> QED
  BY <1>1, <1>2, <1>4, <1>5, NothingSaved DEF CompInv

LEMMA EnableInv ==
  ASSUME CompInv, EnableHyperion
  PROVE  /\ CompInv'
         /\ \A c \in Comps : on'[c] = (on[c] \/ prev[c])
<1> DEFINE g == SetAll(Here, prev, TRUE)
           h == ComponentStateChanged(g, "ALL", TRUE)
<1>1. Become(h) /\ prev' = Nothing /\ ticking' = TRUE /\ prio' = prio
  BY DEF EnableHyperion
<1>2. /\ prev \in [Comps \union {"ALL"} -> BOOLEAN]
      /\ on \in [Comps -> BOOLEAN]
  BY DEF EnableHyperion, CompInv, Proper, CaptureType, Here
<1>3. /\ Proper(g, prio)
      /\ \A c \in Comps : g.on[c] = IF prev[c] THEN TRUE ELSE on[c]
  <2>1. Proper(Here, prio) /\ prio \in [Capture -> Priorities] /\ TRUE \in BOOLEAN
    BY DEF CompInv
  <2>2. /\ Proper(g, prio)
        /\ \A c \in Comps : g.on[c] = IF prev[c] THEN TRUE ELSE Here.on[c]
    BY <1>2, <2>1, AllSet, Zenon
  <2> HIDE DEF g
  <2> QED
    BY <2>2, HereFields
<1> HIDE DEF g
<1>4. Proper(h, prio) /\ h.states["ALL"] = TRUE /\ h.on = g.on
  BY <1>3, AllChanged
<1> HIDE DEF h
<1>5. Proper(Here', prio) /\ states' = h.states /\ on' = h.on
  BY <1>1, <1>4, BecomeFacts
<1>6. CompInv'
  BY <1>1, <1>4, <1>5 DEF CompInv
<1> QED
  BY <1>2, <1>3, <1>4, <1>5, <1>6

(* First both captures that move leave their old channels; then each is at *)
(* its new priority or off.                                                *)
LEMMA InstCaptureInv ==
  ASSUME CompInv, NEW at \in [Capture -> Priorities], NEW enable \in [Capture -> BOOLEAN],
         InstCapture(at, enable)
  PROVE  CompInv'
<1> DEFINE Leave(h, c) == IF prio[c] # at[c] THEN SetCaptureEnable(h, prio, c, FALSE) ELSE h
           h1 == Leave(Here, "V4L")
           h2 == Leave(h1, "GRABBER")
           h3 == SetCaptureEnable(h2, at, "V4L", enable["V4L"])
           h4 == SetCaptureEnable(h3, at, "GRABBER", enable["GRABBER"])
<1>1. Become(h4) /\ prio' = at /\ UNCHANGED <<ticking, prev>>
  BY DEF InstCapture
<1>2. /\ prio \in [Capture -> Priorities] /\ Proper(Here, prio)
      /\ Capture = {"GRABBER", "V4L"} /\ Capture \subseteq Comps
      /\ enable["V4L"] \in BOOLEAN /\ enable["GRABBER"] \in BOOLEAN
  BY ConstantFacts DEF CompInv
<1>3. ASSUME NEW h, Proper(h, prio), NEW c \in Capture
      PROVE  /\ Proper(Leave(h, c), prio)
             /\ Leave(h, c).states["ALL"] = h.states["ALL"]
             /\ prio[c] # at[c] => ~Leave(h, c).on[c]
             /\ \A d \in Capture : d # c => Leave(h, c).on[d] = h.on[d]
  <2>1. h.on \in [Comps -> BOOLEAN]
    BY <1>3 DEF Proper, CaptureType
  <2>2. CASE prio[c] # at[c]
    <3>1. Leave(h, c) = SetCaptureEnable(h, prio, c, FALSE)
      BY <2>2
    <3>2. Proper(Leave(h, c), prio) /\ Switches(h, Leave(h, c), c, FALSE)
      BY <1>2, <1>3, <3>1, CaptureEnabled
    <3> HIDE DEF Leave
    <3> QED
      BY <1>2, <2>1, <3>2 DEF Switches
  <2>3. CASE prio[c] = at[c]
    BY <1>3, <2>3
  <2> QED
    BY <2>2, <2>3
<1> HIDE DEF Leave
<1>4. /\ Proper(h1, prio) /\ h1.states["ALL"] = states["ALL"]
      /\ prio["V4L"] # at["V4L"] => ~h1.on["V4L"]
  BY <1>2, <1>3 DEF Here
<1> HIDE DEF h1
<1>5. /\ Proper(h2, prio) /\ h2.states["ALL"] = states["ALL"]
      /\ prio["V4L"] # at["V4L"] => ~h2.on["V4L"]
      /\ prio["GRABBER"] # at["GRABBER"] => ~h2.on["GRABBER"]
  BY <1>2, <1>3, <1>4
<1> HIDE DEF h2
<1>6. Proper(h2, at)
  BY <1>2, <1>5 DEF Proper, Tended
<1>7. Proper(h3, at) /\ h3.states["ALL"] = states["ALL"]
  <2>1. Proper(h3, at) /\ Switches(h2, h3, "V4L", enable["V4L"])
    BY <1>2, <1>6, CaptureEnabled
  <2> HIDE DEF h3
  <2> QED
    BY <1>5, <2>1 DEF Switches
<1> HIDE DEF h3
<1>8. Proper(h4, at) /\ h4.states["ALL"] = states["ALL"]
  <2>1. Proper(h4, at) /\ Switches(h3, h4, "GRABBER", enable["GRABBER"])
    BY <1>2, <1>7, CaptureEnabled
  <2> HIDE DEF h4
  <2> QED
    BY <1>7, <2>1 DEF Switches
<1> HIDE DEF h4
<1>9. Proper(Here', at) /\ states' = h4.states
  BY <1>1, <1>8, BecomeFacts
<1> QED
  BY <1>1, <1>8, <1>9 DEF CompInv

LEMMA FlagInv ==
  ASSUME CompInv, NEW c \in Comps \ Capture, NEW state \in BOOLEAN,
         Become(Switched(Here, c, state)), UNCHANGED <<ticking, prev, prio>>
  PROVE  CompInv'
<1> DEFINE h == Switched(Here, c, state)
<1>1. Proper(h, prio) /\ h.states["ALL"] = states["ALL"]
  <2>1. Proper(Here, prio)
    BY DEF CompInv
  <2>2. Proper(h, prio) /\ Switches(Here, h, c, state)
    BY <2>1, FlagSwitched
  <2> HIDE DEF h
  <2> QED
    BY <2>2, HereFields DEF Switches
<1> HIDE DEF h
<1>2. Proper(Here', prio) /\ states' = h.states
  BY <1>1, BecomeFacts DEF h
<1> QED
  BY <1>1, <1>2 DEF CompInv

LEMMA V4lImageInv ==
  ASSUME CompInv, V4lImage PROVE CompInv'
<1> DEFINE m == SetInputImage(mux, prio["V4L"], V4lFrame, ENDLESS, 0)
           h == [Here EXCEPT !.mux = m, !.timer = TRUE]
<1>1. Become(h) /\ UNCHANGED <<ticking, prev, prio>> /\ on["V4L"]
  BY DEF V4lImage, Here
<1>2. NewImage(mux, m, prio["V4L"], V4lFrame)
  <2>1. MuxerType(mux) /\ V4lFrame \in Frames
    BY ConstantFacts, HereFields DEF CompInv, Proper, CaptureType
  <2> QED
    BY <2>1, FinalTimeoutType, SetInputImageFacts
<1> HIDE DEF m
<1>3. h = [mux |-> m, states |-> states, on |-> on, timer |-> TRUE]
  <2> DEFINE f == [Here EXCEPT !.mux = m]
  <2>1. f = [mux |-> m, states |-> states, on |-> on, timer |-> v4lInactiveTimer]
    BY DEF Here
  <2>2. h = [f EXCEPT !.timer = TRUE]
    OBVIOUS
  <2> HIDE DEF f, h
  <2> QED
    BY <2>1, <2>2
<1> HIDE DEF h
<1>4. CaptureType(h) /\ Registered(h)
  BY <1>2, <1>3, HereFields DEF NewImage, CompInv, Proper, CaptureType, Registered
<1>5. ASSUME NEW p \in DOMAIN m.inputs
      PROVE  /\ \A c \in Capture : m.inputs[p].comp = c => on[c] /\ p = prio[c]
             /\ m.inputs[p].image = V4lFrame => p = prio["V4L"]
  BY <1>2, <1>5, HereFields DEF NewImage, CompInv, Proper, Tended
<1>6. Tended(h, prio)
  BY <1>1, <1>3, <1>5 DEF Tended
<1>7. Proper(Here', prio) /\ states' = h.states
  BY <1>1, <1>4, <1>6, BecomeFacts DEF Proper
<1> QED
  BY <1>1, <1>3, <1>7 DEF CompInv

(* The only channel a v4l picture can be in loses it. *)
LEMMA V4lInactiveInv ==
  ASSUME CompInv, SetV4lInactive PROVE CompInv'
<1> DEFINE m == SetInputInactive(mux, prio["V4L"], 0)
           h == [Here EXCEPT !.mux = m, !.timer = FALSE]
<1>1. Become(h) /\ UNCHANGED <<ticking, prev, prio>>
  BY DEF SetV4lInactive, Here
<1>2. NewImage(mux, m, prio["V4L"], NoFrame)
  <2>1. MuxerType(mux) /\ NoFrame \in Frames
    BY ConstantFacts, HereFields DEF CompInv, Proper, CaptureType
  <2>2. prio["V4L"] \in Priorities
    BY DEF CompInv, Capture
  <2>3. m = SetInputImage(mux, prio["V4L"], NoFrame, INACTIVE, 0)
    BY <2>2, OwnChannels DEF SetInputInactive
  <2> QED
    BY <2>1, <2>3, FinalTimeoutType, SetInputImageFacts
<1> HIDE DEF m
<1>3. h = [mux |-> m, states |-> states, on |-> on, timer |-> FALSE]
  <2> DEFINE f == [Here EXCEPT !.mux = m]
  <2>1. f = [mux |-> m, states |-> states, on |-> on, timer |-> v4lInactiveTimer]
    BY DEF Here
  <2>2. h = [f EXCEPT !.timer = FALSE]
    OBVIOUS
  <2> HIDE DEF f, h
  <2> QED
    BY <2>1, <2>2
<1> HIDE DEF h
<1>4. CaptureType(h) /\ Registered(h)
  BY <1>2, <1>3, HereFields DEF NewImage, CompInv, Proper, CaptureType, Registered
<1>5. ASSUME NEW p \in DOMAIN m.inputs
      PROVE  /\ \A c \in Capture : m.inputs[p].comp = c => on[c] /\ p = prio[c]
             /\ m.inputs[p].image # V4lFrame
  BY <1>2, <1>5, HereFields, ConstantFacts DEF NewImage, CompInv, Proper, Tended
<1>6. Tended(h, prio)
  BY <1>3, <1>5 DEF Tended
<1>7. Proper(Here', prio) /\ states' = h.states
  BY <1>1, <1>4, <1>6, BecomeFacts DEF Proper
<1> QED
  BY <1>1, <1>3, <1>7 DEF CompInv

LEMMA MuxInv ==
  ASSUME CompInv, \/ SystemImage
                  \/ \E p \in Priorities : ClientColor(p) \/ ClientClear(p)
                  \/ UpdateTimeout
  PROVE  CompInv'
<1>1. MuxerType(mux)
  BY HereFields DEF CompInv, Proper, CaptureType
<1>2. CASE SystemImage
  <2> DEFINE m == SetInputImage(mux, prio["GRABBER"], SystemFrame, ENDLESS, 0)
  <2>1. NewImage(mux, m, prio["GRABBER"], SystemFrame)
    BY <1>1, ConstantFacts, FinalTimeoutType, SetInputImageFacts
  <2>2. OnlyMux(m)
    BY <1>2 DEF SystemImage
  <2> HIDE DEF m
  <2> QED
    BY <2>1, <2>2, ConstantFacts, OnlyMuxInv DEF Has, NewImage
<1>3. ASSUME NEW p \in Priorities, ClientColor(p) PROVE CompInv'
  <2> DEFINE r == RegisterInput(mux, p, "COLOR")
             m == SetInput(r, p, ClientFrame, ENDLESS, 0)
  <2>1. OnlyMux(m)
    BY <1>3 DEF ClientColor
  <2>2. WithChannel(mux, r, p, "COLOR")
    BY <1>1, RegisterInputFacts
  <2> HIDE DEF r
  <2>3. NewColors(r, m, p, ClientFrame)
    BY <1>1, <2>2, ConstantFacts, FinalTimeoutType, SetInputFacts DEF WithChannel
  <2> HIDE DEF m
  <2>4. ASSUME NEW q \in DOMAIN m.inputs
        PROVE  /\ \A c \in Capture : m.inputs[q].comp = c => Has(mux, q) /\ mux.inputs[q].comp = c
               /\ m.inputs[q].image = V4lFrame => Has(mux, q) /\ mux.inputs[q].image = V4lFrame
    <3>1. "COLOR" \notin Capture
      BY ConstantFacts
    <3> QED
      BY <2>2, <2>3, <2>4, <3>1, ConstantFacts DEF Has, NewColors, WithChannel
  <2> QED
    BY <2>1, <2>2, <2>3, <2>4, OnlyMuxInv DEF NewColors, WithChannel
<1>4. ASSUME NEW p \in Priorities, ClientClear(p) PROVE CompInv'
  <2> DEFINE m == ClearInput(mux, p, 0)
  <2>1. /\ MuxerType(m)
        /\ DOMAIN m.inputs \subseteq DOMAIN mux.inputs
        /\ \A q \in DOMAIN m.inputs : m.inputs[q] = mux.inputs[q]
    BY <1>1, ClearInputFacts
  <2>2. OnlyMux(m)
    BY <1>4 DEF ClientClear
  <2> HIDE DEF m
  <2> QED
    BY <2>1, <2>2, OnlyMuxInv DEF Has
<1>5. CASE UpdateTimeout
  <2> DEFINE m == SetCurrentTime(mux, 0)
  <2>1. /\ MuxerType(m)
        /\ DOMAIN m.inputs \subseteq DOMAIN mux.inputs
        /\ \A q \in DOMAIN m.inputs : m.inputs[q] = mux.inputs[q]
    BY <1>1, SetCurrentTimeFacts
  <2>2. OnlyMux(m)
    BY <1>5 DEF UpdateTimeout
  <2> HIDE DEF m
  <2> QED
    BY <2>1, <2>2, OnlyMuxInv DEF Has
<1> QED
  BY <1>2, <1>3, <1>4, <1>5

-----------------------------------------------------------------------------
LEMMA NewMuxerFacts ==
  MuxerType(NewMuxer) /\ NewMuxer.inputs = [p \in {LOWEST_PRIORITY} |-> LowestPriorityInfo]
<1>1. LowestPriorityInfo \in Input /\ LOWEST_PRIORITY \in Channels
  BY FramesAssumption DEF LowestPriorityInfo, Input, ENDLESS, Channels
<1> QED
  BY <1>1 DEF NewMuxer, MuxerType, LOWEST_PRIORITY, NO_MANUAL

LEMMA CompInitInv == Init => CompInv
<1> SUFFICES ASSUME Init PROVE CompInv
  OBVIOUS
<1> DEFINE m1 == RegisterInput(NewMuxer, prio["V4L"], "V4L")
           m2 == RegisterInput(m1, prio["GRABBER"], "GRABBER")
           m == [m2 EXCEPT !.listed = Listing(m2)]
<1>1. /\ prio \in [Capture -> Priorities] /\ on = [c \in Comps |-> TRUE]
      /\ states = [c \in Comps \union {"ALL"} |-> TRUE]
      /\ mux = m /\ ticking = TRUE /\ prev = Nothing /\ v4lInactiveTimer = FALSE
  BY DEF Init
<1>2. /\ prio["V4L"] \in Priorities /\ prio["GRABBER"] \in Priorities
      /\ "V4L" \in Components /\ "GRABBER" \in Components
  BY <1>1, CaptureComponentsAssumption DEF Capture
<1>3. /\ MuxerType(m1)
      /\ DOMAIN m1.inputs = {LOWEST_PRIORITY} \union {prio["V4L"]}
      /\ LOWEST_PRIORITY # prio["V4L"] => m1.inputs[LOWEST_PRIORITY] = LowestPriorityInfo
      /\ m1.inputs[prio["V4L"]].comp = "V4L"
      /\ m1.inputs[prio["V4L"]].image = NoFrame
  <2>1. WithChannel(NewMuxer, m1, prio["V4L"], "V4L")
    BY <1>2, NewMuxerFacts, RegisterInputFacts
  <2>2. ~Has(NewMuxer, prio["V4L"])
    BY <1>2, NewMuxerFacts, OwnChannels DEF Has, LOWEST_PRIORITY
  <2> QED
    BY <2>1, <2>2, NewMuxerFacts DEF WithChannel
<1> HIDE DEF m1
<1>4. WithChannel(m1, m2, prio["GRABBER"], "GRABBER")
  BY <1>2, <1>3, RegisterInputFacts
<1> HIDE DEF m2
<1>5. MuxerType(m) /\ m.inputs = m2.inputs
  BY <1>4 DEF MuxerType, WithChannel
<1> HIDE DEF m
<1>6. Here = [mux |-> m, states |-> states, on |-> on, timer |-> FALSE]
  BY <1>1 DEF Here
<1>7. CaptureType(Here) /\ Registered(Here)
  BY <1>1, <1>5, <1>6 DEF CaptureType, Registered
<1>8. ASSUME NEW p \in DOMAIN m.inputs
      PROVE  /\ \A c \in Capture : m.inputs[p].comp = c => p = prio[c]
             /\ m.inputs[p].image = NoFrame
  <2>1. LowestPriorityInfo.comp \notin Capture /\ LowestPriorityInfo.image = NoFrame
    BY ConstantFacts DEF LowestPriorityInfo
  <2>2. CASE p = prio["GRABBER"]
    <3>1. m1.inputs[LOWEST_PRIORITY].image = NoFrame \/ LOWEST_PRIORITY = prio["V4L"]
      BY <1>3, <2>1
    <3> QED
      BY <1>3, <1>4, <1>5, <2>2, <3>1, ConstantFacts DEF Has, WithChannel
  <2>3. CASE p # prio["GRABBER"]
    <3>1. p \in DOMAIN m1.inputs /\ m.inputs[p] = m1.inputs[p]
      BY <1>4, <1>5, <1>8, <2>3 DEF WithChannel
    <3>2. CASE p = prio["V4L"]
      BY <1>3, <3>1, <3>2, ConstantFacts
    <3>3. CASE p # prio["V4L"]
      BY <1>3, <2>1, <3>1, <3>3
    <3> QED
      BY <3>2, <3>3
  <2> QED
    BY <2>2, <2>3
<1>9. Tended(Here, prio)
  BY <1>1, <1>6, <1>8, ConstantFacts DEF Tended
<1> QED
  BY <1>1, <1>7, <1>9 DEF CompInv, Proper

LEMMA CompNextInv == CompInv /\ [Next]_vars => CompInv'
<1> SUFFICES ASSUME CompInv, [Next]_vars PROVE CompInv'
  OBVIOUS
<1>1. ASSUME NEW c \in Comps, NEW state \in BOOLEAN, ComponentState(c, state) PROVE CompInv'
  BY <1>1, ComponentStateInv
<1>2. CASE DisableHyperion
  BY <1>2, DisableInv
<1>3. CASE EnableHyperion
  BY <1>3, EnableInv
<1>4. ASSUME NEW at \in [Capture -> Priorities], NEW enable \in [Capture -> BOOLEAN],
             InstCapture(at, enable)
      PROVE  CompInv'
  BY <1>4, InstCaptureInv
<1>5. CASE DeviceSettings
  <2>1. "LEDDEVICE" \in Comps \ Capture /\ TRUE \in BOOLEAN
    BY ConstantFacts
  <2>2. Become(Switched(Here, "LEDDEVICE", TRUE)) /\ UNCHANGED <<ticking, prev, prio>>
    BY <1>5 DEF DeviceSettings
  <2> QED
    BY <2>1, <2>2, FlagInv, Zenon
<1>6. ASSUME NEW enable \in BOOLEAN, SmoothingSettings(enable) PROVE CompInv'
  BY <1>6, FlagInv, ConstantFacts DEF SmoothingSettings
<1>7. CASE V4lImage
  BY <1>7, V4lImageInv
<1>8. CASE SetV4lInactive
  BY <1>8, V4lInactiveInv
<1>9. CASE \/ SystemImage
           \/ \E p \in Priorities : ClientColor(p) \/ ClientClear(p)
           \/ UpdateTimeout
  BY <1>9, MuxInv
<1>10. CASE UNCHANGED vars
  BY <1>10 DEF vars, CompInv, Here
<1> QED
  BY <1>1, <1>2, <1>3, <1>4, <1>5, <1>6, <1>7, <1>8, <1>9, <1>10 DEF Next

LEMMA CompInductive == Spec => []CompInv
BY CompInitInv, CompNextInv, PTL DEF Spec

(* What the register says of a component is what the component says of    *)
(* itself, in every state between two handlers.                           *)
THEOREM RegisterIsTruthful == Spec => []RegisterTruthful
<1>1. CompInv => RegisterTruthful
  BY HereFields DEF CompInv, Proper, Registered, RegisterTruthful
<1> QED
  BY <1>1, CompInductive, PTL

(* A capture that is off or has moved leaves neither a channel nor a       *)
(* picture behind.                                                         *)
THEOREM CapturesLeaveNothing == Spec => []CapturesTidy
<1>1. CompInv => CapturesTidy
  BY HereFields DEF CompInv, Proper, Tended, CapturesTidy, NoOrphanChannel, V4lPictureWatched
<1> QED
  BY <1>1, CompInductive, PTL

(* setHyperionEnable(true) switches on what was on, and nothing off.       *)
THEOREM HyperionComesBack == Spec => EnableRestores
<1>1. CompInv /\ [Next]_vars
        => [EnableHyperion => \A c \in Comps : on'[c] = (on[c] \/ prev[c])]_vars
  BY EnableInv
<1> QED
  BY <1>1, CompInductive, PTL DEF Spec, EnableRestores
=============================================================================
