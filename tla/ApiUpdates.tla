----------------------------- MODULE ApiUpdates -----------------------------
(***************************************************************************)
(* What a JSON client knows: serverinfo tells it the state, subscriptions  *)
(* (libsrc/api/JsonCB.cpp) tell it the changes.  A session reads a signal  *)
(* of Hyperion per topic; nothing is ever asked again, so a change without *)
(* its signal leaves the client with old data for good.  Priorities, the   *)
(* ninth topic, are ListingComplete of PriorityMuxer.                      *)
(*   world       per topic the state of the server, one bit of it          *)
(*   known       per subscribed topic what the client was told last        *)
(*   subscribed  JsonCB::_subscribedCommands                               *)
(*   hasAuth     JsonAPI::_authorized                                      *)
(*   silent      history: the topics of which the last change sent no      *)
(*               signal of their own                                       *)
(* A component stands for all of them; it is COMP_ALL for setconfig.       *)
(***************************************************************************)
EXTENDS Integers, FiniteSets

CONSTANT MaxSubscriptions  \* topics that are subscribed one by one

ASSUME SubscriptionsAssumption == MaxSubscriptions \in Nat

VARIABLES world, known, subscribed, hasAuth, silent

updVars == <<world, known, subscribed, hasAuth, silent>>

Topics  == {"components", "plugins", "sessions", "imageToLedMapping",
            "adjustment", "videomode", "effects", "settings"}
Unknown == 2

(* topics that serverinfo reports *)
Reported == Topics \ {"settings"}

UpdInit ==
  /\ world = [t \in Topics |-> 0]
  /\ known = [t \in Topics |-> Unknown]
  /\ subscribed = {} /\ silent = {}
  /\ hasAuth = FALSE

-----------------------------------------------------------------------------
(* a change of the topics of v with the signals of the topics in sent: the  *)
(* slots of JsonCB send what is then the state                              *)
Changed(v, sent) ==
  /\ world'  = v
  /\ known'  = [t \in Topics |-> IF t \in sent \intersect subscribed THEN v[t] ELSE known[t]]
  /\ silent' = (silent \union {t \in Topics : v[t] # world[t]}) \ sent
  /\ UNCHANGED <<subscribed, hasAuth>>

Only(t, v) == Changed([world EXCEPT ![t] = v], {t})

(* register, Hyperion and daemon signal when the new value is another one *)
ComponentStateUpdate(v) == world["components"] # v /\ Only("components", v)

SetLedMappingType(v) == world["imageToLedMapping"] # v /\ Only("imageToLedMapping", v)

SetVideoMode(v) == world["videomode"] # v /\ Only("videomode", v)

(* handleAdjustmentCommand() ends with adjustmentsUpdated(), changed or not *)
AdjustmentsUpdated(v) == Only("adjustment", v)

(* create-effect and delete-effect reload the list from the disk *)
ReloadEffects(v) == Only("effects", v)

(* the mutant's handlePluginAction() has no case for P_REMOVED *)
PluginAction_Installed(v) ==
  Changed([world EXCEPT !["plugins"] = v], IF v = 1 THEN {"plugins"} ELSE {})

(* P_INSTALLED and P_REMOVED of a service. plugin, with success *)
PluginAction(v) == Only("plugins", v)

(* Bonjour lists the sessions anew, all unresolved, and resolves them later *)
BonjourRecordsChanged == Changed([world EXCEPT !["sessions"] = 0], {})
BonjourRecordResolved == Only("sessions", 1)

(* config setconfig with other COLOR settings.  They make new adjustments   *)
(* and the image processor takes its type from them, both without a signal. *)
SaveColorSettings(v) ==
  /\ world["components"] = 1
  /\ v # world["settings"]
  /\ Changed([world EXCEPT !["settings"] = v, !["adjustment"] = v, !["imageToLedMapping"] = v],
             {"settings"})

-----------------------------------------------------------------------------
(* the settings are for authorized clients *)
Granted(topics) == {t \in topics : t = "settings" => hasAuth}

(* serverinfo: the reply, and then the subscriptions *)
ServerInfo(topics) ==
  LET now == subscribed \union Granted(topics)
  IN  /\ known' = [t \in Topics |-> IF t \in Reported \intersect now THEN world[t] ELSE known[t]]
      /\ subscribed' = now
      /\ UNCHANGED <<world, hasAuth, silent>>

(* one topic, or the keyword all *)
Subscribe ==
  \/ \E t \in Topics : Cardinality(subscribed) < MaxSubscriptions /\ ServerInfo({t})
  \/ ServerInfo(Topics)

(* authorize login and logout; a logout keeps the subscriptions *)
Authorize(a) ==
  /\ hasAuth' = a
  /\ UNCHANGED <<world, known, subscribed, silent>>

UpdNext ==
  \/ \E v \in 0 .. 1 :
       \/ ComponentStateUpdate(v) \/ SetLedMappingType(v) \/ SetVideoMode(v)
       \/ AdjustmentsUpdated(v) \/ ReloadEffects(v) \/ PluginAction(v)
       \/ SaveColorSettings(v)
  \/ BonjourRecordsChanged
  \/ BonjourRecordResolved
  \/ Subscribe
  \/ \E a \in BOOLEAN : Authorize(a)

UpdSpec == UpdInit /\ [][UpdNext]_updVars

-----------------------------------------------------------------------------
(* A subscriber knows the state of its topics, but for the changes that     *)
(* send no signal of their own: the adjustments and the mapping type that   *)
(* COLOR settings bring, and Bonjour sessions not yet resolved.  Of the     *)
(* settings it knows what was saved since it subscribed (JsonCB.cpp,        *)
(* subscribeFor()).                                                         *)
SubscribersInformed ==
  /\ silent \subseteq {"adjustment", "imageToLedMapping", "sessions"}
  /\ \A t \in subscribed \ silent :
       known[t] = world[t] \/ (t = "settings" /\ known[t] = Unknown)
=============================================================================
