--------------------------- MODULE SourceSelection ---------------------------
(***************************************************************************)
(* What the priority muxer promises the rest of Hyperion, without time,    *)
(* timeouts, signals or data: which of the registered sources drives the   *)
(* leds.  PriorityMuxer implements it (PriorityMuxer!ImplementsSelection). *)
(***************************************************************************)
EXTENDS Integers

CONSTANTS
  Sources,   \* everything that can be registered, identified by its priority
  Default,   \* the source shown when there is no other
  None       \* no source is pinned

VARIABLES
  registered,  \* the sources that exist now
  live,        \* those of them that count as delivering data
  pinned,      \* the source selected by hand, or None
  visible      \* the source that drives the leds

selection == <<registered, live, pinned, visible>>

(* the most important live source: the lowest number wins *)
Favourite(L) == CHOOSE x \in L \union {Default} : \A y \in L \union {Default} : x <= y

Init ==
  /\ registered = {Default}
  /\ live = {Default}
  /\ pinned = None
  /\ visible = Default

(* Sources come, go, start and stop on their own. *)
Environment == registered' \subseteq Sources /\ live' \subseteq registered'

(* The visible source follows them at once as long as none is pinned. *)
Follow ==
  /\ pinned' = None
  /\ visible' = Favourite(live')

(* A pinned source is registered.  It becomes visible, now or later, and   *)
(* until then nothing else does.                                           *)
Hold ==
  /\ pinned' \in registered'
  /\ visible' \in {visible, pinned'}
  /\ visible' \in registered' \union {Default}

Next == Environment /\ (Follow \/ Hold)

Spec == Init /\ [][Next]_selection

=============================================================================
