---------------------------- MODULE ChannelClients ----------------------------
(***************************************************************************)
(* Who feeds and who clears the channels of Hyperion: connections of the   *)
(* proto server (ProtoClientConnection.cpp) and of the boblight server     *)
(* (BoblightServer.cpp, BoblightClientConnection.cpp), requests of the JSON*)
(* API, which belong to nobody afterwards, and the background effect       *)
(* (BGEffectHandler.h).  All handlers run on the main thread.              *)
(*   channels   priority -> the component it is registered for and by, who *)
(*              registered it or wrote to it last                          *)
(*   proto      per proto connection: open, its _priority, and whether it  *)
(*              registered a second priority without clearing the first    *)
(*   bob        per boblight connection: open and _priority                *)
(*   server     BoblightServer: listening, _priority                       *)
(*   bgOn       the background effect is enabled                           *)
(* Selection among the channels is the matter of PriorityMuxer; what the   *)
(* effect of a channel does that of HyperionCore.                          *)
(***************************************************************************)
EXTENDS Integers, Functions

CONSTANTS
  ProtoConns, BobConns,   \* connections; a new one may use the name of an old one
  ClientPriorities,       \* int32 priorities that clients name
  BobPriorities           \* priorities in the settings of the boblight server

ASSUME ConnsAssumption ==
  /\ ProtoConns \intersect BobConns = {}
  /\ {"json", "bg"} \intersect (ProtoConns \union BobConns) = {}
ASSUME ClientPrioritiesAssumption == ClientPriorities \subseteq Int /\ BobPriorities \subseteq Int

VARIABLES channels, proto, bob, server, bgOn

chanVars == <<channels, proto, bob, server, bgOn>>

NONE     == -1      \* _priority of a proto connection that is not registered
OFF      == 255     \* _priority of a boblight connection that has no channel
BG       == 254
Byte(p)  == p % 256 \* PriorityMuxer::clearInput(const uint8_t)

ProtoClosed == [open |-> FALSE, priority |-> NONE, moved |-> FALSE]
BobClosed   == [open |-> FALSE, priority |-> OFF]

ChanInit ==
  /\ channels = [p \in {} |-> BG]
  /\ proto = [c \in ProtoConns |-> ProtoClosed]
  /\ bob = [c \in BobConns |-> BobClosed]
  /\ \E p \in BobPriorities, up \in BOOLEAN : server = [listening |-> up, priority |-> p]
  /\ bgOn = FALSE

-----------------------------------------------------------------------------
(* The calls of Hyperion, on the map of channels. *)
Registered(chans, p, comp, who) ==
  [q \in DOMAIN chans \union {p} |-> IF q = p THEN [comp |-> comp, by |-> who] ELSE chans[q]]

(* a priority nobody has registered is refused *)
Written(chans, p, who) == IF p \in DOMAIN chans THEN [chans EXCEPT ![p].by = who] ELSE chans

Cleared(chans, ps) ==
  Restrict(chans, DOMAIN chans \ {Byte(p) : p \in {q \in ps : Byte(q) < 255}})

ClearedAll(chans) ==
  Cleared(chans, {p \in DOMAIN chans : p < BG /\ chans[p].comp \in {"COLOR", "EFFECT"}})

-----------------------------------------------------------------------------
(* JSON requests: color and image register and write at once; schemas allow 1..253 *)
JsonSet(p, comp) ==
  /\ p \in 1 .. 253
  /\ channels' = Registered(channels, p, comp, "json")
  /\ UNCHANGED <<proto, bob, server, bgOn>>

JsonClear(p) ==
  /\ p \in 1 .. 253
  /\ channels' = Cleared(channels, {p})
  /\ UNCHANGED <<proto, bob, server, bgOn>>

JsonClearAll ==
  /\ channels' = ClearedAll(channels)
  /\ UNCHANGED <<proto, bob, server, bgOn>>

(* BGEffectHandler::handleSettingsUpdate() *)
BackgroundSettings(enable, comp) ==
  LET cleared == Cleared(channels, {BG})
  IN  /\ bgOn' = enable
      /\ channels' = IF enable THEN Registered(cleared, BG, comp, "bg") ELSE cleared
      /\ UNCHANGED <<proto, bob, server>>

-----------------------------------------------------------------------------
(* proto server *)
ProtoConnect(c) ==
  /\ ~proto[c].open
  /\ proto' = [proto EXCEPT ![c].open = TRUE, ![c].priority = NONE]
  /\ UNCHANGED <<channels, bob, server, bgOn>>

ProtoRegister(c, p) ==
  /\ proto[c].open
  /\ proto' = [proto EXCEPT ![c].priority = p,
                            ![c].moved = @ \/ proto[c].priority \notin {NONE, p}]
  /\ channels' = Registered(channels, p, "PROTO", c)
  /\ UNCHANGED <<bob, server, bgOn>>

(* Hyperion::setColor() registers the channel, -1 included *)
ProtoColor(c) ==
  /\ proto[c].open
  /\ channels' = Registered(channels, proto[c].priority, "COLOR", c)
  /\ UNCHANGED <<proto, bob, server, bgOn>>

ProtoImage(c) ==
  /\ proto[c].open
  /\ channels' = Written(channels, proto[c].priority, c)
  /\ UNCHANGED <<proto, bob, server, bgOn>>

ProtoClear(c, p) ==
  /\ proto[c].open
  /\ proto' = [proto EXCEPT ![c].priority = IF p # NONE /\ @ = p THEN NONE ELSE @]
  /\ channels' = IF p = NONE THEN ClearedAll(channels) ELSE Cleared(channels, {p})
  /\ UNCHANGED <<bob, server, bgOn>>

ProtoDisconnect(c) ==
  /\ proto[c].open
  /\ channels' = Cleared(channels, {proto[c].priority})
  /\ proto' = [proto EXCEPT ![c].open = FALSE]
  /\ UNCHANGED <<bob, server, bgOn>>

-----------------------------------------------------------------------------
(* boblight server: each connection starts on the server's priority *)
BobConnect(c) ==
  /\ server.listening /\ ~bob[c].open
  /\ channels' = Registered(channels, server.priority, "BOBLIGHT", c)
  /\ bob' = [bob EXCEPT ![c] = [open |-> TRUE, priority |-> server.priority]]
  /\ UNCHANGED <<proto, server, bgOn>>

HasChannel(c) == bob[c].open /\ bob[c].priority < OFF

(* "sync", and "set light" of the last led *)
BobLight(c) ==
  /\ HasChannel(c)
  /\ channels' = Written(channels, bob[c].priority, c)
  /\ UNCHANGED <<proto, bob, server, bgOn>>

(* "set priority": the new one is not registered *)
BobPriority(c, p) ==
  /\ bob[c].open /\ bob[c].priority # p
  /\ channels' = IF HasChannel(c) THEN Cleared(channels, {bob[c].priority}) ELSE channels
  /\ bob' = [bob EXCEPT ![c].priority = p]
  /\ UNCHANGED <<proto, server, bgOn>>

BobDrop(cs) ==
  /\ channels' = Cleared(channels, {bob[c].priority : c \in {d \in cs : HasChannel(d)}})
  /\ bob' = [c \in BobConns |-> IF c \in cs THEN BobClosed ELSE bob[c]]

BobDisconnect(c) ==
  /\ bob[c].open
  /\ BobDrop({c})
  /\ UNCHANGED <<proto, server, bgOn>>

(* stop() and start() when the component is switched; the port may be in use *)
BobSwitch(enable) ==
  /\ server.listening # enable
  /\ BobDrop(IF enable THEN {} ELSE BobConns)
  /\ server' \in [listening : IF enable THEN BOOLEAN ELSE {FALSE}, priority : {server.priority}]
  /\ UNCHANGED <<proto, bgOn>>

(* mutant: clears the new priority instead of what the connections had *)
BobSettings_Keeps(enable, p) ==
  /\ server' \in [listening : IF enable THEN BOOLEAN ELSE {FALSE}, priority : {p}]
  /\ channels' = Cleared(channels, {p})
  /\ bob' = [c \in BobConns |-> BobClosed]
  /\ UNCHANGED <<proto, bgOn>>

(* handleSettingsUpdate(): always stops, the connections clear what they had *)
BobSettings(enable, p) ==
  /\ server' \in [listening : IF enable THEN BOOLEAN ELSE {FALSE}, priority : {p}]
  /\ BobDrop(BobConns)
  /\ UNCHANGED <<proto, bgOn>>

ChanNext ==
  \/ \E p \in ClientPriorities : JsonClear(p) \/ \E k \in {"COLOR", "IMAGE", "EFFECT"} : JsonSet(p, k)
  \/ JsonClearAll
  \/ \E on \in BOOLEAN, k \in {"COLOR", "EFFECT"} : BackgroundSettings(on, k)
  \/ \E c \in ProtoConns :
       \/ ProtoConnect(c) \/ ProtoColor(c) \/ ProtoImage(c) \/ ProtoDisconnect(c)
       \/ \E p \in ClientPriorities \union {NONE} : ProtoRegister(c, p) \/ ProtoClear(c, p)
  \/ \E c \in BobConns :
       \/ BobConnect(c) \/ BobLight(c) \/ BobDisconnect(c)
       \/ \E p \in ClientPriorities : BobPriority(c, p)
  \/ \E on \in BOOLEAN : BobSwitch(on) \/ \E p \in BobPriorities : BobSettings(on, p)

ChanSpec == ChanInit /\ [][ChanNext]_chanVars

-----------------------------------------------------------------------------
ClosedConns == {c \in ProtoConns : ~proto[c].open /\ ~proto[c].moved} \union {c \in BobConns : ~bob[c].open}

(* Types; boblight connections exist only while their server listens, each  *)
(* on the priority of the server until it asks for another one              *)
(* (BoblightServer.cpp, stop()).                                            *)
ChanTypeOK ==
  /\ \A p \in DOMAIN channels : channels[p].by \in ProtoConns \union BobConns \union {"json", "bg"}
  /\ \A c \in ProtoConns : proto[c].priority \in ClientPriorities \union {NONE}
  /\ \A c \in BobConns : /\ bob[c].priority \in ClientPriorities \union BobPriorities \union {OFF}
                         /\ bob[c].open => server.listening

(* A connection leaves nothing behind: when it is closed, by its client, by *)
(* a switch of the server or by new settings, no channel shows what it      *)
(* wrote, and the background shows only while it is enabled.  Not so for    *)
(* priorities that are no byte, -1 of a proto client that never registered  *)
(* among them, nor for a proto client that registered twice                 *)
(* (socketClosed(), ~BoblightClientConnection()).                           *)
NoGhosts ==
  \A p \in DOMAIN channels :
    p \in 0 .. BG => /\ channels[p].by \notin ClosedConns
                    /\ (channels[p].by = "bg" => bgOn)
=============================================================================
