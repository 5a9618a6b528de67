------------------------------ MODULE HueLights ------------------------------
(***************************************************************************)
(* Philips Hue lamps as leds (LedDevicePhilipsHue.cpp).  The lamps are     *)
(* learnt from the bridge, together with the state that is to be restored; *)
(* every setting is a PUT that nobody waits for.                           *)
(*   before      the state of the lamps before Hyperion                    *)
(*   lamps       per lamp, on the bridge: its power, and its point of color*)
(*   requests    HTTP requests under way, as they were sent: a GET, or the *)
(*               PUTs of one call, between which no other request is sent. *)
(*               A call sets the power of a lamp before its color          *)
(*   replies     replies to GET requests under way                         *)
(*   lights      lights of the device: on (power), color, originalState    *)
(*   hueEnabled  LedDevice::_enabled                                       *)
(*   bTimer      PhilipsHueBridge::bTimer is active                        *)
(*   colorsSet   the colors of the last frame, or none                     *)
(*   askedInUse  the bridge was asked for its lamps while they were in use *)
(*   inTurn      every PUT reached the bridge and every reply came back, in *)
(*               the order they were sent: the network access manager      *)
(*               promises neither, and the device does not look            *)
(***************************************************************************)
EXTENDS Naturals, SequencesExt

CONSTANTS
  LightIds,          \* "lightIds", all of them known to the bridge
  Points,            \* points of color a lamp can have
  DARK,              \* the point of brightness 0, in Points
  KEEP,              \* a PUT without a color
  Gamut,             \* color of a led -> nearest point
  UserStates,        \* states of the lamps before Hyperion
  MaxRequests        \* bound on requests and replies

Lamps == [LightIds -> [power : {"on", "off"}, color : Points]]

ASSUME HueAssumption ==
  /\ DARK \in Points /\ KEEP \notin Points /\ Gamut \in [DOMAIN Gamut -> Points]
  /\ UserStates \subseteq Lamps

VARIABLES before, lamps, requests, replies, lights, hueEnabled, bTimer, colorsSet, askedInUse, inTurn

hueVars == <<before, lamps, requests, replies, lights, hueEnabled, bTimer, colorsSet, askedInUse, inTurn>>

NoLights == [l \in {} |-> 0]

PutStates == [LightIds -> [power : {"on", "off", "keep"}, color : Points \union {KEEP}]]

(* what one call sends to each lamp; nothing is sent that changes nothing *)
Nothing == [l \in LightIds |-> [power |-> "keep", color |-> KEEP]]
Puts(puts) == IF puts = Nothing THEN <<>> ELSE <<[get |-> FALSE, puts |-> puts]>>
GET == [get |-> TRUE, puts |-> Nothing]

(* CiColor::rgbToCiColor() *)
CiColor(c) == Gamut[c]

(* mutant: the color is not asked for *)
OriginalState_Power(lamp) == [power |-> lamp.power, color |-> KEEP]

(* what PhilipsHueLight() keeps to restore: only "on" of a lamp that is off *)
OriginalState(lamp) == [power |-> lamp.power, color |-> IF lamp.power = "on" THEN lamp.color ELSE KEEP]

(* ~PhilipsHueLight() of all lights *)
Restore(ls) == Puts(IF ls = NoLights THEN Nothing ELSE [l \in LightIds |-> ls[l].original])

(* PhilipsHueBridge::bConnect() *)
BConnect == <<GET>>
Send(out) == Len(requests) + Len(out) =< MaxRequests /\ requests' = requests \o out

(* the constructor: init() asks the bridge *)
HueInit ==
  /\ before \in UserStates /\ lamps = before /\ requests = BConnect /\ replies = <<>>
  /\ lights = NoLights /\ hueEnabled = TRUE /\ bTimer = FALSE
  /\ colorsSet = NoLights /\ askedInUse = FALSE /\ inTurn = TRUE

-----------------------------------------------------------------------------
(* setOn() *)
SetOn(l, power) == IF lights[l].power # power THEN power ELSE "keep"

(* setColor() *)
SetColor(l, c) == IF lights[l].color # c THEN c ELSE KEEP

(* write(), with switchOffOnBlack *)
HueWrite(values) ==
  /\ hueEnabled /\ lights # NoLights
  /\ LET c(l) == CiColor(values[l])
         power(l) == IF c(l) = DARK THEN "off" ELSE "on"
     IN /\ Send(Puts([l \in LightIds |-> [power |-> SetOn(l, power(l)), color |-> SetColor(l, c(l))]]))
        /\ lights' = [l \in LightIds |-> [lights[l] EXCEPT !.power = power(l), !.color = c(l)]]
  /\ colorsSet' = values
  /\ UNCHANGED <<lamps, replies, hueEnabled, bTimer, askedInUse, inTurn>>

(* newLights(): the old lights are restored as they go, the new ones by the *)
(* temporaries of push_back(); the color of a lamp that is off is not       *)
(* initialized                                                              *)
NewLights(map) ==
  /\ \E any \in [LightIds -> Points] :
       lights' = [l \in LightIds |-> [power |-> map[l].power, original |-> OriginalState(map[l]),
                                     color |-> IF map[l].power = "on" THEN map[l].color ELSE any[l]]]
  /\ Send(Restore(lights) \o Restore(lights'))
  /\ colorsSet' = NoLights

(* resolveReply() of a GET: a network error starts the timer, an answer     *)
(* without lamps does not                                                   *)
ResolveReply ==
  /\ \E i \in DOMAIN replies :
       /\ replies' = RemoveAt(replies, i) /\ inTurn' = (inTurn /\ i = 1)
       /\ IF replies[i] = NoLights
          THEN bTimer' \in {TRUE, bTimer} /\ UNCHANGED <<requests, lights, colorsSet>>
          ELSE NewLights(replies[i]) /\ UNCHANGED bTimer
  /\ UNCHANGED <<lamps, hueEnabled, askedInUse>>

Reconnect ==
  /\ bTimer /\ bTimer' = FALSE
  /\ Send(BConnect) /\ askedInUse' = (askedInUse \/ lights # NoLights)
  /\ UNCHANGED <<lamps, replies, lights, hueEnabled, colorsSet, inTurn>>

Released == Send(Restore(lights)) /\ lights' = NoLights /\ colorsSet' = NoLights

(* stateChanged(); the black frame that follows finds no lights *)
StateChanged ==
  /\ hueEnabled' = ~hueEnabled
  /\ IF hueEnabled THEN Released /\ UNCHANGED askedInUse
     ELSE /\ Send(BConnect) /\ askedInUse' = (askedInUse \/ lights # NoLights)
          /\ UNCHANGED <<lights, colorsSet>>
  /\ UNCHANGED <<lamps, replies, bTimer, inTurn>>

-----------------------------------------------------------------------------
(* The bridge, external: a lamp that is off refuses a color               *)
Applied(state, puts) ==
  [l \in LightIds |->
     LET power == IF puts[l].power = "keep" THEN state[l].power ELSE puts[l].power
     IN [power |-> power, color |-> IF power = "off" \/ puts[l].color = KEEP THEN state[l].color ELSE puts[l].color]]

(* the PUTs of a call of which some reach the bridge, and the others *)
Parts(puts) ==
  {p \in PutStates : \A l \in LightIds : p[l].power \in {"keep", puts[l].power} /\ p[l].color \in {KEEP, puts[l].color}}
Others(puts, part) ==
  [l \in LightIds |-> [power |-> IF part[l].power = puts[l].power THEN "keep" ELSE puts[l].power,
                       color |-> IF part[l].color = puts[l].color THEN KEEP ELSE puts[l].color]]

(* what the requests meet at the bridge: they go over several connections,  *)
(* so that any of them may be the next, and a PUT that fails is not noticed *)
Bridge ==
  /\ \E i \in DOMAIN requests :
       \E done \in Parts(requests[i].puts) : \E left \in {Nothing, Others(requests[i].puts, done)} :
         /\ requests[i].get \/ left # requests[i].puts
         /\ requests' = IF left = Nothing THEN RemoveAt(requests, i)
                        ELSE [requests EXCEPT ![i] = [get |-> FALSE, puts |-> left]]
         /\ lamps' = Applied(lamps, done)
         /\ inTurn' = (inTurn /\ i = 1 /\ done = requests[i].puts)
         /\ IF requests[i].get
            THEN \E answer \in {lamps, NoLights} :
                   Len(replies) < MaxRequests /\ replies' = Append(replies, answer)
            ELSE UNCHANGED replies
  /\ UNCHANGED <<lights, hueEnabled, bTimer, colorsSet, askedInUse>>

HueNext ==
  /\ \/ \E values \in [LightIds -> DOMAIN Gamut] : HueWrite(values)
     \/ ResolveReply \/ Reconnect \/ StateChanged \/ Bridge
  /\ UNCHANGED before

HueSpec == HueInit /\ [][HueNext]_hueVars

-----------------------------------------------------------------------------
Settled == requests = <<>> /\ replies = <<>>

(* A device that was switched off leaves the lamps as the user had them,   *)
(* unless the bridge was asked for them while Hyperion used them, or the   *)
(* network lost a PUT or changed the order.                                *)
LampsRestored == Settled /\ ~hueEnabled /\ ~askedInUse /\ inTurn =>
  \A l \in LightIds : /\ lamps[l].power = before[l].power
                      /\ lamps[l].power = "on" => lamps[l] = before[l]

(* When all requests are done the lamps show the last frame, although only *)
(* what changed was sent, a lamp that is off takes no color, and the       *)
(* lights were learnt anew in between.  A lamp that was off before goes on *)
(* with the frame; its color may be the one it had.  A PUT that was lost or *)
(* overtaken is not made up for.                                           *)
LampsShow ==
  Settled /\ hueEnabled /\ colorsSet # NoLights /\ ~askedInUse /\ inTurn =>
    \A l \in LightIds :
      LET c == CiColor(colorsSet[l])
      IN /\ lamps[l].power = IF c = DARK THEN "off" ELSE "on"
         /\ c # DARK /\ before[l].power = "on" => lamps[l].color = c

(* Lamps show Hyperion's frame while it uses them, and the user's state     *)
(* afterwards, as long as the network keeps the order and loses no PUT      *)
(* (LedDevicePhilipsHue.cpp).                                               *)
LampsRight == LampsRestored /\ LampsShow
=============================================================================
