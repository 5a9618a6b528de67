--------------------------- MODULE NetworkProofs ----------------------------
(***************************************************************************)
(* The modules about clients of the network, each for every value of its   *)
(* constants.  They share no state, so each keeps an invariant of its own. *)
(***************************************************************************)
EXTENDS ChannelClients, MCNetwork, SequenceTheorems, TLAPS

-----------------------------------------------------------------------------
(***************************************************************************)
(* Nobody leaves a channel behind, for every number of connections and     *)
(* every priority.  NoGhosts only speaks of closed connections; the        *)
(* invariant says of every one that what it wrote is on its own priority,  *)
(* so that the clear of its end reaches it.                                *)
(***************************************************************************)

(* The channel p is where its last writer will clear it. *)
Fed(p) ==
  /\ \A c \in ProtoConns : channels[p].by = c => proto[c].moved \/ (proto[c].open /\ proto[c].priority = p)
  /\ \A c \in BobConns : channels[p].by = c => bob[c].open /\ bob[c].priority = p
  /\ channels[p].by = "bg" => p = BG /\ bgOn

ChanType ==
  /\ proto \in [ProtoConns -> [open : BOOLEAN, priority : Int, moved : BOOLEAN]]
  /\ bob \in [BobConns -> [open : BOOLEAN, priority : Int]]
  /\ server \in [listening : BOOLEAN, priority : Int]

ChanInv == ChanType /\ \A p \in DOMAIN channels : p \in 0 .. BG => Fed(p)

-----------------------------------------------------------------------------
LEMMA BytesStay == \A p \in 0 .. BG : Byte(p) = p /\ Byte(p) < 255
<1> TAKE p \in 0 .. BG
<1>1. p \in Int /\ 0 =< p /\ p < 255
  BY DEF BG
<1> QED
  BY <1>1, SMT DEF Byte

LEMMA RegisteredFacts ==
  ASSUME NEW chans, NEW p, NEW comp, NEW who
  PROVE  \A q \in DOMAIN Registered(chans, p, comp, who) :
           \/ q \in DOMAIN chans /\ q # p /\ Registered(chans, p, comp, who)[q] = chans[q]
           \/ q = p /\ Registered(chans, p, comp, who)[q].by = who
<1> DEFINE new == Registered(chans, p, comp, who)
<1>1. new = [q \in DOMAIN chans \union {p} |-> IF q = p THEN [comp |-> comp, by |-> who] ELSE chans[q]]
  BY DEF Registered
<1> HIDE DEF new
<1>2. \A q \in DOMAIN new : \/ q \in DOMAIN chans /\ q # p /\ new[q] = chans[q]
                            \/ q = p /\ new[q].by = who
  BY <1>1
<1> QED
  BY <1>2 DEF new

(* A frame changes at most who wrote to the channel.                        *)
LEMMA WrittenFacts ==
  ASSUME NEW p, NEW who
  PROVE  /\ DOMAIN Written(channels, p, who) = DOMAIN channels
         /\ \A q \in DOMAIN channels : \/ Written(channels, p, who)[q].by = channels[q].by
                                       \/ q = p /\ Written(channels, p, who)[q].by \in {who, channels[q].by}
<1>1. CASE p \in DOMAIN channels
  <2>1. Written(channels, p, who) = [channels EXCEPT ![p].by = who]
    BY <1>1 DEF Written
  <2>2. \A q \in DOMAIN channels : q # p => [channels EXCEPT ![p].by = who][q] = channels[q]
    OBVIOUS
  <2>3. [channels EXCEPT ![p].by = who][p] = [channels[p] EXCEPT !.by = who]
    BY <1>1
  <2>4. [channels[p] EXCEPT !.by = who].by \in {who, channels[p].by}
    OBVIOUS
  <2> QED
    BY <2>1, <2>2, <2>3, <2>4
<1>2. CASE p \notin DOMAIN channels
  BY <1>2 DEF Written
<1> QED
  BY <1>1, <1>2

(* A clear takes the priorities it names, if they are bytes, and no other   *)
(* channel changes.                                                         *)
LEMMA ClearedFacts ==
  ASSUME NEW chans, NEW ps
  PROVE  /\ DOMAIN Cleared(chans, ps) \subseteq DOMAIN chans
         /\ \A q \in DOMAIN Cleared(chans, ps) : Cleared(chans, ps)[q] = chans[q]
         /\ \A q \in ps : q \in 0 .. BG => q \notin DOMAIN Cleared(chans, ps)
<1> DEFINE gone == {Byte(p) : p \in {q \in ps : Byte(q) < 255}}
<1>1. Cleared(chans, ps) = [q \in DOMAIN chans \ gone |-> chans[q]]
  BY DEF Cleared, Restrict
<1>2. \A q \in ps : q \in 0 .. BG => q \in gone
  BY BytesStay
<1> HIDE DEF gone
<1> QED
  BY <1>1, <1>2

LEMMA ChanInitInv == ChanInit => ChanInv
BY ClientPrioritiesAssumption DEF ChanInit, ChanInv, ChanType, ProtoClosed, BobClosed, NONE, OFF

(* Losing channels disturbs nothing.                                        *)
LEMMA FewerChannels ==
  ASSUME ChanInv, NEW ps, channels' = Cleared(channels, ps), UNCHANGED <<proto, bob, server, bgOn>>
  PROVE  ChanInv'
BY ClearedFacts DEF ChanInv, ChanType, Fed

-----------------------------------------------------------------------------
LEMMA Strangers ==
  /\ \A c \in ProtoConns : c \notin BobConns /\ c # "json" /\ c # "bg"
  /\ \A c \in BobConns : c # "json" /\ c # "bg"
BY ConnsAssumption

(* A writer that keeps to its own priority disturbs nobody else.            *)
LEMMA OwnPriority ==
  ASSUME ChanInv, NEW p, NEW who, UNCHANGED <<proto, bob, server, bgOn>>,
         \A q \in DOMAIN channels' : \/ q \in DOMAIN channels /\ channels'[q].by = channels[q].by
                                     \/ q = p /\ channels'[q].by = who,
         \/ who = "json"
         \/ who \in ProtoConns /\ proto[who].open /\ proto[who].priority = p
         \/ who \in BobConns /\ bob[who].open /\ bob[who].priority = p
  PROVE  ChanInv'
<1>1. ASSUME NEW q \in DOMAIN channels', q \in 0 .. BG PROVE Fed(q)'
  <2>1. CASE q \in DOMAIN channels /\ channels'[q].by = channels[q].by
    <3>1. Fed(q)
      BY <1>1, <2>1 DEF ChanInv
    <3> QED
      BY <2>1, <3>1 DEF Fed
  <2>2. CASE q = p /\ channels'[q].by = who
    BY <2>2, Strangers DEF Fed
  <2> QED
    BY <2>1, <2>2
<1> QED
  BY <1>1 DEF ChanInv, ChanType

LEMMA JsonSetInv ==
  ASSUME ChanInv, NEW p, NEW comp, JsonSet(p, comp) PROVE ChanInv'
<1>1. /\ channels' = Registered(channels, p, comp, "json")
      /\ UNCHANGED <<proto, bob, server, bgOn>>
  BY DEF JsonSet
<1>2. \A q \in DOMAIN channels' : \/ q \in DOMAIN channels /\ channels'[q].by = channels[q].by
                                  \/ q = p /\ channels'[q].by = "json"
  BY <1>1, RegisteredFacts
<1> QED
  BY <1>1, <1>2, OwnPriority

LEMMA BackgroundInv ==
  ASSUME ChanInv, NEW enable \in BOOLEAN, NEW comp, BackgroundSettings(enable, comp) PROVE ChanInv'
<1> DEFINE cleared == Cleared(channels, {BG})
<1>1. /\ bgOn' = enable /\ UNCHANGED <<proto, bob, server>>
      /\ channels' = IF enable THEN Registered(cleared, BG, comp, "bg") ELSE cleared
  BY DEF BackgroundSettings
<1>2. /\ DOMAIN cleared \subseteq DOMAIN channels /\ BG \notin DOMAIN cleared
      /\ \A q \in DOMAIN cleared : cleared[q] = channels[q]
  BY ClearedFacts DEF BG
<1> HIDE DEF cleared
<1>3. \A q \in DOMAIN channels' : \/ q \in DOMAIN channels /\ channels'[q] = channels[q] /\ q # BG
                                  \/ q = BG /\ channels'[q].by = "bg" /\ bgOn'
  BY <1>1, <1>2, RegisteredFacts
<1>4. ASSUME NEW q \in DOMAIN channels', q \in 0 .. BG PROVE Fed(q)'
  <2>1. CASE q \in DOMAIN channels /\ channels'[q] = channels[q] /\ q # BG
    <3>1. Fed(q)
      BY <1>4, <2>1 DEF ChanInv
    <3> QED
      BY <1>1, <2>1, <3>1 DEF Fed
  <2>2. CASE q = BG /\ channels'[q].by = "bg" /\ bgOn'
    BY <2>2, Strangers DEF Fed
  <2> QED
    BY <1>3, <2>1, <2>2
<1> QED
  BY <1>1, <1>4 DEF ChanInv, ChanType

(* What the proto connection c does with its own priority. *)
LEMMA ProtoInv ==
  ASSUME ChanInv, NEW c \in ProtoConns,
         ProtoConnect(c) \/ ProtoColor(c) \/ ProtoImage(c) \/ ProtoDisconnect(c)
  PROVE  ChanInv'
<1>1. CASE ProtoConnect(c)
  <2>1. /\ ~proto[c].open /\ UNCHANGED <<channels, bob, server, bgOn>>
        /\ proto' = [proto EXCEPT ![c].open = TRUE, ![c].priority = NONE]
    BY <1>1 DEF ProtoConnect
  <2>2. /\ \A d \in ProtoConns : d # c => proto'[d] = proto[d]
        /\ proto'[c] = [open |-> TRUE, priority |-> NONE, moved |-> proto[c].moved]
        /\ proto[c].moved => proto'[c].moved
    BY <2>1 DEF ChanInv, ChanType
  <2>3. proto' \in [ProtoConns -> [open : BOOLEAN, priority : Int, moved : BOOLEAN]]
    <3>1. NONE \in Int /\ proto[c].moved \in BOOLEAN
      BY DEF NONE, ChanInv, ChanType
    <3>2. proto'[c] \in [open : BOOLEAN, priority : Int, moved : BOOLEAN]
      BY <2>2, <3>1
    <3> QED
      BY <2>1, <2>2, <3>2 DEF ChanInv, ChanType
  <2>4. ASSUME NEW q \in DOMAIN channels', q \in 0 .. BG PROVE Fed(q)'
    <3>1. Fed(q)
      BY <2>1, <2>4 DEF ChanInv
    <3> QED
      BY <2>1, <2>2, <3>1 DEF Fed
  <2> QED
    BY <2>1, <2>3, <2>4 DEF ChanInv, ChanType
<1>2. CASE ProtoColor(c)
  <2>1. /\ proto[c].open /\ UNCHANGED <<proto, bob, server, bgOn>>
        /\ channels' = Registered(channels, proto[c].priority, "COLOR", c)
    BY <1>2 DEF ProtoColor
  <2>2. \A q \in DOMAIN channels' : \/ q \in DOMAIN channels /\ channels'[q].by = channels[q].by
                                    \/ q = proto[c].priority /\ channels'[q].by = c
    BY <2>1, RegisteredFacts
  <2> QED
    BY <2>1, <2>2, OwnPriority
<1>3. CASE ProtoImage(c)
  <2>1. /\ proto[c].open /\ UNCHANGED <<proto, bob, server, bgOn>>
        /\ channels' = Written(channels, proto[c].priority, c)
    BY <1>3 DEF ProtoImage
  <2>2. \A q \in DOMAIN channels' : \/ q \in DOMAIN channels /\ channels'[q].by = channels[q].by
                                    \/ q = proto[c].priority /\ channels'[q].by = c
    BY <2>1, WrittenFacts
  <2> QED
    BY <2>1, <2>2, OwnPriority
<1>4. CASE ProtoDisconnect(c)
  <2>1. /\ channels' = Cleared(channels, {proto[c].priority})
        /\ proto' = [proto EXCEPT ![c].open = FALSE] /\ UNCHANGED <<bob, server, bgOn>>
    BY <1>4 DEF ProtoDisconnect
  <2>2. /\ DOMAIN channels' \subseteq DOMAIN channels
        /\ \A q \in DOMAIN channels' : channels'[q] = channels[q]
        /\ \A q \in DOMAIN channels' : q \in 0 .. BG => q # proto[c].priority
    BY <2>1, ClearedFacts
  <2>3. /\ \A d \in ProtoConns : /\ d # c => proto'[d] = proto[d]
                                 /\ proto'[d].moved = proto[d].moved
        /\ proto' \in [ProtoConns -> [open : BOOLEAN, priority : Int, moved : BOOLEAN]]
    BY <2>1 DEF ChanInv, ChanType
  <2>4. ASSUME NEW q \in DOMAIN channels', q \in 0 .. BG PROVE Fed(q)'
    <3>1. Fed(q) /\ channels'[q] = channels[q] /\ q # proto[c].priority
      BY <2>2, <2>4 DEF ChanInv
    <3>2. ASSUME NEW d \in ProtoConns, channels[q].by = d
          PROVE  proto'[d].moved \/ (proto'[d].open /\ proto'[d].priority = q)
      <4>1. proto[d].moved \/ (proto[d].open /\ proto[d].priority = q)
        BY <3>1, <3>2 DEF Fed
      <4> QED
        BY <2>3, <3>1, <4>1
    <3> QED
      BY <2>1, <3>1, <3>2 DEF Fed
  <2> QED
    BY <2>1, <2>3, <2>4 DEF ChanInv, ChanType
<1> QED
  BY <1>1, <1>2, <1>3, <1>4

LEMMA ProtoRegisterInv ==
  ASSUME ChanInv, NEW c \in ProtoConns, NEW p \in Int, ProtoRegister(c, p) PROVE ChanInv'
<1>1. /\ proto' = [proto EXCEPT ![c].priority = p,
                                ![c].moved = @ \/ proto[c].priority \notin {NONE, p}]
      /\ channels' = Registered(channels, p, "PROTO", c)
      /\ proto[c].open /\ UNCHANGED <<bob, server, bgOn>>
  BY DEF ProtoRegister
<1>2. \A q \in DOMAIN channels' : \/ q \in DOMAIN channels /\ channels'[q] = channels[q]
                                  \/ q = p /\ channels'[q].by = c
  BY <1>1, RegisteredFacts
<1>3. /\ proto'[c].open /\ proto'[c].priority = p
      /\ proto'[c].moved = (proto[c].moved \/ proto[c].priority \notin {NONE, p})
      /\ \A d \in ProtoConns : d # c => proto'[d] = proto[d]
  BY <1>1 DEF ChanInv, ChanType
<1>4. proto' \in [ProtoConns -> [open : BOOLEAN, priority : Int, moved : BOOLEAN]]
  <2> DEFINE Record == [open : BOOLEAN, priority : Int, moved : BOOLEAN]
             m == proto[c].moved \/ proto[c].priority \notin {NONE, p}
             r == [open |-> proto[c].open, priority |-> p, moved |-> m]
  <2>1. proto[c] \in Record /\ \A d \in ProtoConns : proto[d] \in Record
    BY DEF ChanInv, ChanType
  <2>2. m \in BOOLEAN
    OBVIOUS
  <2>3. DOMAIN proto' = ProtoConns /\ proto' = [d \in ProtoConns |-> proto'[d]]
    BY <1>1 DEF ChanInv, ChanType
  <2>4. proto'[c] = r
    <3>1. DOMAIN proto = ProtoConns /\ proto[c] = [open |-> proto[c].open,
             priority |-> proto[c].priority, moved |-> proto[c].moved]
      BY <2>1 DEF ChanInv, ChanType
    <3> QED
      BY <1>1, <3>1
  <2> HIDE DEF m
  <2>5. r \in Record
    BY <2>1, <2>2
  <2>6. \A d \in ProtoConns : proto'[d] \in Record
    BY <1>3, <2>1, <2>4, <2>5
  <2> QED
    BY <2>3, <2>6
<1>5. ASSUME NEW q \in DOMAIN channels', q \in 0 .. BG PROVE Fed(q)'
  <2>1. CASE q = p /\ channels'[q].by = c
    BY <1>1, <1>3, <2>1, Strangers DEF Fed
  <2>2. CASE q \in DOMAIN channels /\ channels'[q] = channels[q]
    <3>1. Fed(q) /\ q # NONE
      BY <1>5, <2>2 DEF ChanInv, NONE
    <3> QED
      BY <1>1, <1>3, <2>2, <3>1 DEF Fed
  <2> QED
    BY <1>2, <2>1, <2>2
<1> QED
  BY <1>1, <1>4, <1>5 DEF ChanInv, ChanType

LEMMA ProtoClearInv ==
  ASSUME ChanInv, NEW c \in ProtoConns, NEW p \in Int, ProtoClear(c, p) PROVE ChanInv'
<1>1. /\ proto' = [proto EXCEPT ![c].priority = IF p # NONE /\ @ = p THEN NONE ELSE @]
      /\ UNCHANGED <<bob, server, bgOn>>
      /\ channels' = IF p = NONE THEN ClearedAll(channels) ELSE Cleared(channels, {p})
  BY DEF ProtoClear
<1>2. /\ DOMAIN channels' \subseteq DOMAIN channels
      /\ \A q \in DOMAIN channels' : channels'[q] = channels[q]
      /\ p # NONE => \A q \in DOMAIN channels' : q \in 0 .. BG => q # p
  BY <1>1, ClearedFacts DEF ClearedAll
<1>3. /\ proto'[c].open = proto[c].open /\ proto'[c].moved = proto[c].moved
      /\ proto'[c].priority # proto[c].priority => p # NONE /\ proto[c].priority = p
      /\ \A d \in ProtoConns : d # c => proto'[d] = proto[d]
      /\ proto' \in [ProtoConns -> [open : BOOLEAN, priority : Int, moved : BOOLEAN]]
  BY <1>1 DEF ChanInv, ChanType, NONE
<1>4. ASSUME NEW q \in DOMAIN channels', q \in 0 .. BG PROVE Fed(q)'
  <2>1. Fed(q) /\ channels'[q] = channels[q] /\ (p # NONE => q # p)
    BY <1>2, <1>4 DEF ChanInv
  <2>2. bob' = bob /\ bgOn' = bgOn
    BY <1>1
  <2>3. \A d \in ProtoConns : channels'[q].by = d => proto'[d].moved \/ (proto'[d].open /\ proto'[d].priority = q)
    <3>1. ASSUME NEW d \in ProtoConns, channels'[q].by = d, d # c
          PROVE  proto'[d].moved \/ (proto'[d].open /\ proto'[d].priority = q)
      BY <1>3, <2>1, <3>1 DEF Fed
    <3>2. ASSUME channels'[q].by = c
          PROVE  proto'[c].moved \/ (proto'[c].open /\ proto'[c].priority = q)
      BY <1>3, <2>1, <3>2 DEF Fed
    <3> QED
      BY <3>1, <3>2
  <2> QED
    BY <2>1, <2>2, <2>3 DEF Fed
<1> QED
  BY <1>1, <1>3, <1>4 DEF ChanInv, ChanType

-----------------------------------------------------------------------------
(* Connections that are dropped together clear what each of them had.       *)
LEMMA BobDropInv ==
  ASSUME ChanInv, NEW cs, BobDrop(cs), server' \in [listening : BOOLEAN, priority : Int],
         UNCHANGED <<proto, bgOn>>
  PROVE  ChanInv'
<1> DEFINE ps == {bob[c].priority : c \in {d \in cs : HasChannel(d)}}
<1>1. channels' = Cleared(channels, ps) /\ bob' = [c \in BobConns |-> IF c \in cs THEN BobClosed ELSE bob[c]]
  BY DEF BobDrop
<1>2. /\ DOMAIN channels' \subseteq DOMAIN channels
      /\ \A q \in DOMAIN channels' : channels'[q] = channels[q]
      /\ \A q \in DOMAIN channels' : q \in 0 .. BG => q \notin ps
  BY <1>1, ClearedFacts
<1>3. ASSUME NEW q \in DOMAIN channels', q \in 0 .. BG PROVE Fed(q)'
  <2>1. Fed(q) /\ q \in DOMAIN channels /\ channels'[q] = channels[q] /\ q \notin ps
    BY <1>2, <1>3 DEF ChanInv
  <2>2. ASSUME NEW c \in BobConns, channels[q].by = c PROVE c \notin cs
    <3>1. bob[c].open /\ bob[c].priority = q
      BY <2>1, <2>2 DEF Fed
    <3>2. HasChannel(c)
      BY <1>3, <3>1 DEF HasChannel, OFF, BG
    <3> QED
      BY <2>1, <3>1, <3>2
  <2> QED
    BY <1>1, <2>1, <2>2 DEF Fed
<1>4. bob' \in [BobConns -> [open : BOOLEAN, priority : Int]]
  BY <1>1 DEF ChanInv, ChanType, BobClosed, OFF
<1> QED
  BY <1>3, <1>4 DEF ChanInv, ChanType

LEMMA BobInv ==
  ASSUME ChanInv, NEW c \in BobConns, BobConnect(c) \/ BobLight(c) \/ BobDisconnect(c)
  PROVE  ChanInv'
<1>1. CASE BobConnect(c)
  <2>1. /\ ~bob[c].open /\ UNCHANGED <<proto, server, bgOn>>
        /\ channels' = Registered(channels, server.priority, "BOBLIGHT", c)
        /\ bob' = [bob EXCEPT ![c] = [open |-> TRUE, priority |-> server.priority]]
    BY <1>1 DEF BobConnect
  <2>2. \A q \in DOMAIN channels' : \/ q \in DOMAIN channels /\ channels'[q] = channels[q]
                                    \/ q = server.priority /\ channels'[q].by = c
    BY <2>1, RegisteredFacts
  <2>3. /\ bob'[c].open /\ bob'[c].priority = server.priority
        /\ \A d \in BobConns : d # c => bob'[d] = bob[d]
        /\ bob' \in [BobConns -> [open : BOOLEAN, priority : Int]]
    BY <2>1 DEF ChanInv, ChanType
  <2>4. ASSUME NEW q \in DOMAIN channels', q \in 0 .. BG PROVE Fed(q)'
    <3>1. CASE q \in DOMAIN channels /\ channels'[q] = channels[q]
      <4>1. Fed(q)
        BY <2>4, <3>1 DEF ChanInv
      <4> QED
        BY <2>1, <2>3, <3>1, <4>1 DEF Fed
    <3>2. CASE q = server.priority /\ channels'[q].by = c
      BY <2>3, <3>2, Strangers DEF Fed
    <3> QED
      BY <2>2, <3>1, <3>2
  <2> QED
    BY <2>1, <2>3, <2>4 DEF ChanInv, ChanType
<1>2. CASE BobLight(c)
  <2>1. /\ HasChannel(c) /\ UNCHANGED <<proto, bob, server, bgOn>>
        /\ channels' = Written(channels, bob[c].priority, c)
    BY <1>2 DEF BobLight
  <2>2. \A q \in DOMAIN channels' : \/ q \in DOMAIN channels /\ channels'[q].by = channels[q].by
                                    \/ q = bob[c].priority /\ channels'[q].by = c
    BY <2>1, WrittenFacts
  <2> QED
    BY <2>1, <2>2, OwnPriority DEF HasChannel
<1>3. CASE BobDisconnect(c)
  BY <1>3, BobDropInv DEF BobDisconnect, ChanInv, ChanType
<1> QED
  BY <1>1, <1>2, <1>3

LEMMA BobPriorityInv ==
  ASSUME ChanInv, NEW c \in BobConns, NEW p \in Int, BobPriority(c, p) PROVE ChanInv'
<1>1. /\ channels' = IF HasChannel(c) THEN Cleared(channels, {bob[c].priority}) ELSE channels
      /\ bob[c].open /\ bob' = [bob EXCEPT ![c].priority = p] /\ UNCHANGED <<proto, server, bgOn>>
  BY DEF BobPriority
<1>2. /\ DOMAIN channels' \subseteq DOMAIN channels
      /\ \A q \in DOMAIN channels' : channels'[q] = channels[q]
      /\ HasChannel(c) => \A q \in DOMAIN channels' : q \in 0 .. BG => q # bob[c].priority
  BY <1>1, ClearedFacts
<1>3. /\ \A d \in BobConns : d # c => bob'[d] = bob[d]
      /\ bob' \in [BobConns -> [open : BOOLEAN, priority : Int]]
  BY <1>1 DEF ChanInv, ChanType
<1>4. ASSUME NEW q \in DOMAIN channels', q \in 0 .. BG PROVE Fed(q)'
  <2>1. Fed(q) /\ channels'[q] = channels[q]
    BY <1>2, <1>4 DEF ChanInv
  <2>2. bob[c].priority = q => HasChannel(c)
    BY <1>1, <1>4 DEF HasChannel, OFF, BG
  <2>3. channels[q].by # c
    BY <1>2, <1>4, <2>1, <2>2 DEF Fed
  <2>4. \A d \in BobConns : channels'[q].by = d => bob'[d].open /\ bob'[d].priority = q
    BY <1>3, <2>1, <2>3 DEF Fed
  <2> QED
    BY <1>1, <2>1, <2>4 DEF Fed
<1> QED
  BY <1>1, <1>3, <1>4 DEF ChanInv, ChanType

-----------------------------------------------------------------------------
LEMMA ChanNextInv == ChanInv /\ [ChanNext]_chanVars => ChanInv'
<1> SUFFICES ASSUME ChanInv, [ChanNext]_chanVars PROVE ChanInv'
  OBVIOUS
<1>1. ASSUME NEW p \in ClientPriorities, JsonClear(p) PROVE ChanInv'
  BY <1>1, FewerChannels DEF JsonClear
<1>2. ASSUME NEW p \in ClientPriorities, NEW k, JsonSet(p, k) PROVE ChanInv'
  BY <1>2, JsonSetInv
<1>3. CASE JsonClearAll
  BY <1>3, FewerChannels DEF JsonClearAll, ClearedAll
<1>4. ASSUME NEW on \in BOOLEAN, NEW k, BackgroundSettings(on, k) PROVE ChanInv'
  BY <1>4, BackgroundInv
<1>5. ASSUME NEW c \in ProtoConns,
             ProtoConnect(c) \/ ProtoColor(c) \/ ProtoImage(c) \/ ProtoDisconnect(c)
      PROVE  ChanInv'
  BY <1>5, ProtoInv
<1>6. ASSUME NEW c \in ProtoConns, NEW p \in ClientPriorities \union {NONE},
             ProtoRegister(c, p) \/ ProtoClear(c, p)
      PROVE  ChanInv'
  BY <1>6, ProtoRegisterInv, ProtoClearInv, ClientPrioritiesAssumption DEF NONE
<1>7. ASSUME NEW c \in BobConns, BobConnect(c) \/ BobLight(c) \/ BobDisconnect(c) PROVE ChanInv'
  BY <1>7, BobInv
<1>8. ASSUME NEW c \in BobConns, NEW p \in ClientPriorities, BobPriority(c, p) PROVE ChanInv'
  BY <1>8, BobPriorityInv, ClientPrioritiesAssumption
<1>9. ASSUME NEW on \in BOOLEAN, BobSwitch(on) PROVE ChanInv'
  <2>1. server' \in [listening : BOOLEAN, priority : Int]
    BY <1>9 DEF BobSwitch, ChanInv, ChanType
  <2> QED
    BY <1>9, <2>1, BobDropInv DEF BobSwitch
<1>10. ASSUME NEW on \in BOOLEAN, NEW p \in BobPriorities, BobSettings(on, p) PROVE ChanInv'
  <2>1. server' \in [listening : BOOLEAN, priority : Int]
    BY <1>10, ClientPrioritiesAssumption DEF BobSettings
  <2> QED
    BY <1>10, <2>1, BobDropInv DEF BobSettings
<1>11. CASE UNCHANGED chanVars
  BY <1>11 DEF chanVars, ChanInv, ChanType, Fed
<1> QED
  BY <1>1, <1>2, <1>3, <1>4, <1>5, <1>6, <1>7, <1>8, <1>9, <1>10, <1>11 DEF ChanNext

(* Whoever closes a connection, switches the server off or saves new        *)
(* settings leaves no channel of a client behind, whatever the clients do   *)
(* to each other's priorities (~ProtoClientConnection(), BoblightServer).   *)
THEOREM NoGhostsStay == ChanSpec => []NoGhosts
<1>1. ChanInv => NoGhosts
  BY DEF ChanInv, Fed, NoGhosts, ClosedConns
<1> QED
  BY <1>1, ChanInitInv, ChanNextInv, PTL DEF ChanSpec

-----------------------------------------------------------------------------
(***************************************************************************)
(* Token requests for every number of sessions, ids and every length of    *)
(* the two times.  What is pending and who waits can only be related while *)
(* no tick and no timer changes the caller of a request, so the invariant  *)
(* carries the types of pending and waiting; the timer needs that it is    *)
(* started with a time in Nat.                                             *)
(***************************************************************************)

AuthInv ==
  /\ pending \in [DOMAIN pending -> [caller : Sessions, left : Nat]]
  /\ waiting \in [Sessions -> SUBSET RequestIds]
  /\ authTimer \in Nat \union {-1}
  /\ RequestsKept

(* An answer to the requests ids leaves nobody waiting for them, and takes  *)
(* nothing from anybody else (tokenResponse).                               *)
LEMMA AnswersKeep ==
  ASSUME AuthInv, NEW ids, TokenResponse(ids), Take(ids)
  PROVE  /\ pending' \in [DOMAIN pending' -> [caller : Sessions, left : Nat]]
         /\ waiting' \in [Sessions -> SUBSET RequestIds]
         /\ AskerRemembered'
         /\ DOMAIN pending' = DOMAIN pending \ ids
<1>1. /\ DOMAIN pending' = DOMAIN pending \ ids
      /\ \A i \in DOMAIN pending' : pending'[i] = pending[i]
      /\ pending' = [i \in DOMAIN pending' |-> pending'[i]]
  BY DEF Take, Restrict
<1>2. \A i \in DOMAIN pending' : pending'[i] \in [caller : Sessions, left : Nat]
  BY <1>1 DEF AuthInv
<1>3. \A s \in Sessions : waiting'[s] = waiting[s] \ {i \in ids : pending[i].caller = s}
  BY DEF TokenResponse
<1>4. waiting' \in [Sessions -> SUBSET RequestIds]
  BY DEF TokenResponse, AuthInv
<1>5. AskerRemembered'
  BY <1>1, <1>3 DEF AuthInv, RequestsKept, AskerRemembered
<1> QED
  BY <1>1, <1>2, <1>4, <1>5

LEMMA AuthInitInv == AuthInit => AuthInv
BY DEF AuthInit, AuthInv, RequestsKept, AskerRemembered, RequestsWatched

LEMMA AuthNextInv == AuthInv /\ [AuthNext]_authVars => AuthInv'
<1> SUFFICES ASSUME AuthInv, [AuthNext]_authVars PROVE AuthInv'
  OBVIOUS
<1> USE AuthTimesAssumption
<1>1. ASSUME NEW s \in Sessions,
             Connect(s) \/ LoginUser(s) \/ LoginToken(s) \/ Logout(s)
      PROVE  AuthInv'
  BY <1>1 DEF Connect, LoginUser, LoginToken, Logout, AuthInv, RequestsKept, AskerRemembered, RequestsWatched
<1>2. ASSUME NEW s \in Sessions, Disconnect(s) PROVE AuthInv'
  BY <1>2 DEF Disconnect, AuthInv, RequestsKept, AskerRemembered, RequestsWatched
<1>3. ASSUME NEW s \in Sessions, NEW i \in RequestIds, RequestToken(s, i) PROVE AuthInv'
  <2>1. /\ i \notin DOMAIN pending
        /\ pending' = [j \in DOMAIN pending \union {i} |-> IF j = i THEN Request(s) ELSE pending[j]]
        /\ authTimer' = AuthInterval
        /\ waiting' = [waiting EXCEPT ![s] = @ \union {i}]
    BY <1>3 DEF RequestToken, SetNewTokenRequest
  <2>2. Request(s) \in [caller : Sessions, left : Nat] /\ Request(s).caller = s
    BY DEF Request
  <2>3. pending' \in [DOMAIN pending' -> [caller : Sessions, left : Nat]]
    BY <2>1, <2>2 DEF AuthInv
  <2>4. AskerRemembered'
    BY <2>1, <2>2 DEF AuthInv, RequestsKept, AskerRemembered
  <2> QED
    BY <2>1, <2>3, <2>4 DEF AuthInv, RequestsKept, RequestsWatched
<1>4. ASSUME NEW i \in RequestIds, AcceptTokenRequest(i) \/ DenyTokenRequest(i) PROVE AuthInv'
  BY <1>4, AnswersKeep DEF AcceptTokenRequest, DenyTokenRequest, AuthInv, RequestsKept, RequestsWatched
<1>5. CASE CreateToken
  BY <1>5 DEF CreateToken, AuthInv, RequestsKept, AskerRemembered, RequestsWatched
<1>6. ASSUME NEW i, DeleteToken(i) PROVE AuthInv'
  BY <1>6 DEF DeleteToken, AuthInv, RequestsKept, AskerRemembered, RequestsWatched
<1>7. CASE CheckTimeout
  <2>1. TokenResponse(Due) /\ Take(Due)
    BY <1>7 DEF CheckTimeout
  <2>2. authTimer' = IF DOMAIN pending = Due THEN -1 ELSE AuthInterval
    BY <1>7 DEF CheckTimeout
  <2>3. DOMAIN pending = Due => DOMAIN pending' = {}
    BY <2>1, AnswersKeep
  <2>4. authTimer' \in Nat \union {-1} /\ RequestsWatched'
    BY <2>2, <2>3 DEF RequestsWatched
  <2>5. AskerRemembered' /\ waiting' \in [Sessions -> SUBSET RequestIds]
        /\ pending' \in [DOMAIN pending' -> [caller : Sessions, left : Nat]]
    BY <2>1, AnswersKeep
  <2> QED
    BY <2>4, <2>5 DEF AuthInv, RequestsKept
<1>8. CASE AuthTick
  <2>1. /\ pending' = [i \in DOMAIN pending |->
                         [pending[i] EXCEPT !.left = IF @ > 0 THEN @ - 1 ELSE 0]]
        /\ authTimer' = IF authTimer > 0 THEN authTimer - 1 ELSE authTimer
        /\ waiting' = waiting
    BY <1>8 DEF AuthTick
  <2>2. \A i \in DOMAIN pending : /\ pending'[i] \in [caller : Sessions, left : Nat]
                                  /\ pending'[i].caller = pending[i].caller
    BY <2>1 DEF AuthInv
  <2>3. pending' \in [DOMAIN pending' -> [caller : Sessions, left : Nat]]
    BY <2>1, <2>2
  <2>4. authTimer' \in Nat \union {-1} /\ (authTimer # -1 => authTimer' # -1)
    BY <2>1 DEF AuthInv
  <2> QED
    BY <2>1, <2>2, <2>3, <2>4 DEF AuthInv, RequestsKept, AskerRemembered, RequestsWatched
<1>9. CASE UNCHANGED authVars
  BY <1>9 DEF authVars, AuthInv, RequestsKept, AskerRemembered, RequestsWatched
<1> QED
  BY <1>1, <1>2, <1>3, <1>4, <1>5, <1>6, <1>7, <1>8, <1>9 DEF AuthNext

(* Nobody who asked for a token is forgotten, whatever sessions come, go    *)
(* and ask in between, and however long a request and the interval of the  *)
(* timer are (AuthManager::setNewTokenRequest(), checkTimeout()).           *)
THEOREM RequestsAreKept == AuthSpec => []RequestsKept
<1>1. AuthInv => RequestsKept
  BY DEF AuthInv
<1> QED
  BY <1>1, AuthInitInv, AuthNextInv, PTL DEF AuthSpec

-----------------------------------------------------------------------------
(***************************************************************************)
(* Ports and locations, for every set of ports and addresses.  The         *)
(* property is inductive once the domains of the functions are known; it   *)
(* does not depend on which port portAvailable() picks.                    *)
(***************************************************************************)

PortsInv ==
  /\ listening = [s \in Services |-> listening[s]]
  /\ registered = [s \in Services |-> registered[s]]
  /\ FoundWhereServed

LEMMA PortsInitInv == PortsInit => PortsInv
BY DEF PortsInit, PortsInv, FoundWhereServed

(* A service that listens on p has made its registration anew, and one that *)
(* has just closed needs none (start(), stop()).                            *)
LEMMA Rebound ==
  ASSUME PortsInv, NEW s \in Services, NEW p,
         \/ listening' = [listening EXCEPT ![s] = 0] /\ UNCHANGED registered
         \/ listening' = [listening EXCEPT ![s] = p] /\ RegisterService(s, p)
  PROVE  /\ listening' = [t \in Services |-> listening'[t]]
         /\ registered' = [t \in Services |-> registered'[t]]
         /\ \A t \in Services : listening'[t] # 0 => registered'[t] = listening'[t]
BY DEF PortsInv, FoundWhereServed, RegisterService

LEMMA WebSettingsInv ==
  ASSUME PortsInv, NEW p \in Ports, NEW stolen \in BOOLEAN, NEW arrives \in BOOLEAN,
         WebSettings(p, stolen, arrives)
  PROVE  PortsInv'
<1> DEFINE before == IF p # port["web"] THEN [listening EXCEPT !["web"] = 0] ELSE listening
           q == PortAvailable(p, taken \union Bound(before))
<1>1. /\ stolen => before["web"] = 0
      /\ listening' = [before EXCEPT !["web"] = IF stolen THEN 0 ELSE IF before["web"] = 0 THEN q ELSE @]
      /\ \/ /\ before["web"] = 0 /\ ~stolen
            /\ RegisterService("web", q) /\ StateChange(q, arrives)
         \/ /\ ~(before["web"] = 0 /\ ~stolen)
            /\ UNCHANGED registered
            /\ UNCHANGED ssdpVars \/ Stopped(arrives)
  BY DEF WebSettings
<1> HIDE DEF q
<1>2. "web" \in Services
  BY DEF Services
<1>3. before = listening \/ before = [listening EXCEPT !["web"] = 0]
  OBVIOUS
<1>4. before["web"] = 0 => before = [listening EXCEPT !["web"] = 0]
  BY <1>2, <1>3 DEF PortsInv
<1>5. CASE before["web"] = 0 /\ ~stolen
  <2>1. listening' = [listening EXCEPT !["web"] = q]
    BY <1>1, <1>2, <1>4, <1>5 DEF PortsInv
  <2> QED
    BY <1>1, <1>2, <1>5, <2>1, Rebound DEF PortsInv, FoundWhereServed, StateChange
<1>6. CASE ~(before["web"] = 0 /\ ~stolen)
  <2>1. served' # NoLocation => served' = descAddress'
    BY <1>1, <1>6 DEF PortsInv, FoundWhereServed, ssdpVars, Stopped
  <2>2. CASE before["web"] = 0
    <3>1. listening' = [listening EXCEPT !["web"] = 0]
      BY <1>1, <1>2, <1>4, <1>6, <2>2 DEF PortsInv
    <3> QED
      BY <1>1, <1>2, <1>6, <2>1, <3>1, Rebound DEF PortsInv, FoundWhereServed
  <2>3. CASE before["web"] # 0
    <3>1. before = listening
      BY <1>2, <1>3, <2>3 DEF PortsInv
    <3>2. listening' = listening
      BY <1>1, <2>3, <3>1 DEF PortsInv
    <3> QED
      BY <1>1, <1>6, <2>1, <3>2 DEF PortsInv, FoundWhereServed
  <2> QED
    BY <2>2, <2>3
<1> QED
  BY <1>5, <1>6

LEMMA PortsNextInv == PortsInv /\ [PortsNext]_portVars => PortsInv'
<1> SUFFICES ASSUME PortsInv, [PortsNext]_portVars PROVE PortsInv'
  OBVIOUS
<1>1. ASSUME NEW p \in Ports, NEW stolen \in BOOLEAN, NEW arrives \in BOOLEAN,
             WebSettings(p, stolen, arrives)
      PROVE  PortsInv'
  BY <1>1, WebSettingsInv
<1>2. ASSUME NEW p \in Ports, OtherProgram(p) PROVE PortsInv'
  BY <1>2 DEF OtherProgram, PortsInv, FoundWhereServed, ssdpVars
<1>3. ASSUME NEW p \in Ports, NEW s \in TcpServers, ServerSettings(s, p) PROVE PortsInv'
  <2>1. s \in Services
    BY DEF Services
  <2>2. /\ served' = served /\ descAddress' = descAddress
        /\ \/ UNCHANGED <<listening, registered>>
           \/ listening' = [listening EXCEPT ![s] = 0] /\ UNCHANGED registered
           \/ listening' = [listening EXCEPT ![s] = p] /\ RegisterService(s, p)
    BY <1>3 DEF ServerSettings, ssdpVars
  <2>3. CASE UNCHANGED <<listening, registered>>
    BY <2>2, <2>3 DEF PortsInv, FoundWhereServed
  <2> QED
    BY <2>1, <2>2, <2>3, Rebound DEF PortsInv, FoundWhereServed
<1>4. ASSUME NEW p \in Ports, NEW enable \in BOOLEAN, UdpSettings(p, enable) PROVE PortsInv'
  <2>1. "udp" \in Services
    BY DEF Services
  <2>2. /\ served' = served /\ descAddress' = descAddress
        /\ \/ listening' = [listening EXCEPT !["udp"] = 0] /\ UNCHANGED registered
           \/ listening' = [listening EXCEPT !["udp"] = p] /\ RegisterService("udp", p)
    BY <1>4 DEF UdpSettings, ssdpVars
  <2> QED
    BY <2>1, <2>2, Rebound DEF PortsInv, FoundWhereServed
<1>5. ASSUME NEW a, AddressChanges(a) PROVE PortsInv'
  BY <1>5 DEF AddressChanges, PortsInv, FoundWhereServed, ssdpVars
<1>6. ASSUME NEW arrives \in BOOLEAN, NetworkConfigurationChanged(arrives) PROVE PortsInv'
  BY <1>6 DEF NetworkConfigurationChanged, NewLocation, PortsInv, FoundWhereServed
<1>7. ASSUME NEW arrives \in BOOLEAN, AliveTimerTrigger(arrives) PROVE PortsInv'
  BY <1>7 DEF AliveTimerTrigger, PortsInv, FoundWhereServed
<1>8. CASE UNCHANGED portVars
  BY <1>8 DEF portVars, PortsInv, FoundWhereServed
<1> QED
  BY <1>1, <1>2, <1>3, <1>4, <1>5, <1>6, <1>7, <1>8 DEF PortsNext

(* Whatever is saved, taken by other programs or changed in the network,    *)
(* what listens is registered at its port, and the description served is    *)
(* the one announced (WebServer, SSDPHandler, BonjourServiceRegister).      *)
THEOREM ServicesAreFound == PortsSpec => []FoundWhereServed
<1>1. PortsInv => FoundWhereServed
  BY DEF PortsInv
<1> QED
  BY <1>1, PortsInitInv, PortsNextInv, PTL DEF PortsSpec

-----------------------------------------------------------------------------
(***************************************************************************)
(* The exit of hyperion-remote, for every number of foreign lines.  While  *)
(* there was none, server and client take turns: Turn says for each step   *)
(* of main() what is under way and what the server has done.  Rights       *)
(* follow from the password whatever else is said in the session.          *)
(***************************************************************************)

Turn ==
  /\ step \in {"connect", "login"} => toServer = <<>> /\ toClient = <<>> /\ ~carriedOut
  /\ step = "login sent" =>
       /\ ~carriedOut
       /\ \/ toServer = <<"login">> /\ toClient = <<>>
          \/ toServer = <<>> /\ toClient = <<Reply(password)>> /\ (password => authorized)
  /\ step = "command" => toServer = <<>> /\ toClient = <<>> /\ ~carriedOut /\ authorized
  /\ step = "command sent" =>
       /\ authorized
       /\ \/ toServer = <<"command">> /\ toClient = <<>> /\ ~carriedOut
          \/ toServer = <<>> /\ toClient = <<>>
          \/ /\ toServer = <<>> /\ toClient = <<Reply(command.result = "success")>>
             /\ carriedOut <=> command.changes
  /\ exit = "success" =>
       step = "done" /\ toServer = <<>> /\ command.result = "success" /\ (carriedOut <=> command.changes)
  /\ exit = "refused" => step = "done" /\ toServer = <<>> /\ ~carriedOut

Steps == {"connect", "login", "login sent", "command", "command sent", "done"}

RemoteInv ==
  /\ command \in Commands /\ password \in BOOLEAN /\ authorized \in BOOLEAN /\ carriedOut \in BOOLEAN
  /\ step \in Steps /\ (step # "done" => exit = "none")
  /\ events \in Nat
  /\ authorized => password
  /\ carriedOut /\ AuthRequired => password
  /\ events = 0 => Turn

LEMMA OneMessage ==
  ASSUME NEW m
  PROVE /\ Append(<<>>, m) = <<m>> /\ <<>> \o <<m>> = <<m>>
        /\ Head(<<m>>) = m /\ Tail(<<m>>) = <<>> /\ Len(<<m>>) = 1 /\ <<m>> # <<>>
        /\ SubSeq(<<m>>, 2, 1) = <<>>
OBVIOUS

LEMMA OneRead ==
  ASSUME NEW m, NEW s, s = <<m>>, NEW n \in 1 .. Len(s)
  PROVE n = 1 /\ Head(s) = m /\ SubSeq(s, n + 1, Len(s)) = <<>>
<1>1. Len(s) = 1 /\ Head(s) = m
  BY OneMessage
<1>2. n = 1
  BY <1>1
<1> QED
  BY <1>1, <1>2, OneMessage

LEMMA ReplySays == \A b \in BOOLEAN : Reply(b).success <=> b
BY DEF Reply

LEMMA NoReply == <<>> \o <<>> = <<>>
OBVIOUS

LEMMA CommandFacts ==
  \A c \in Commands : c.changes \in BOOLEAN /\ (c.changes => c.result = "success")
BY DEF Commands, InputCommands, EffectCommands, InfoCommands, SourceCommands, ConfigCommands,
       AdjustmentCommands, ProcessingCommands, Changing, Refused, Reading, NotSent, Unanswered

LEMMA RemoteInitInv == RemoteInit => RemoteInv
<1> SUFFICES ASSUME RemoteInit PROVE RemoteInv
  OBVIOUS
<1>1. /\ command \in Commands /\ password \in BOOLEAN /\ step = "connect"
      /\ toServer = <<>> /\ toClient = <<>> /\ authorized = FALSE /\ carriedOut = FALSE
      /\ exit = "none" /\ events = 0
  BY DEF RemoteInit
<1>2. Turn
  BY <1>1 DEF Turn
<1> QED
  BY <1>1, <1>2 DEF RemoteInv, Steps

(* The client's steps. *)
LEMMA ConnectInv ==
  ASSUME RemoteInv, NEW ok \in BOOLEAN, ConnectToServer(ok) PROVE RemoteInv'
<1>1. /\ step = "connect" /\ UNCHANGED <<command, password, toServer, toClient, authorized, carriedOut, events>>
      /\ \/ step' = "login" /\ exit' = exit
         \/ step' = "done" /\ exit' = "error"
  BY DEF ConnectToServer, Exit
<1>2. exit = "none" /\ (events = 0 => toServer = <<>> /\ toClient = <<>> /\ ~carriedOut)
  BY <1>1 DEF RemoteInv, Turn
<1>3. events = 0 => Turn'
  BY <1>1, <1>2 DEF Turn
<1> QED
  BY <1>1, <1>2, <1>3 DEF RemoteInv, Steps

LEMMA SendLoginInv == ASSUME RemoteInv, SendLogin PROVE RemoteInv'
<1>1. /\ step = "login" /\ step' = "login sent" /\ toServer' = Append(toServer, "login")
      /\ UNCHANGED <<command, password, toClient, authorized, carriedOut, exit, events>>
  BY DEF SendLogin
<1>2. exit = "none" /\ (events = 0 => toServer = <<>> /\ toClient = <<>> /\ ~carriedOut)
  BY <1>1 DEF RemoteInv, Turn
<1>3. events = 0 => toServer' = <<"login">>
  BY <1>1, <1>2, OneMessage
<1>4. events = 0 => Turn'
  BY <1>1, <1>2, <1>3 DEF Turn
<1> QED
  BY <1>1, <1>2, <1>4 DEF RemoteInv, Steps

LEMMA SendCommandInv == ASSUME RemoteInv, SendCommand PROVE RemoteInv'
<1>1. /\ step = "command"
      /\ UNCHANGED <<command, password, toClient, authorized, carriedOut, events>>
      /\ \/ step' = "done" /\ exit' = "error" /\ UNCHANGED toServer
         \/ step' = "command sent" /\ toServer' = Append(toServer, "command") /\ UNCHANGED exit
  BY DEF SendCommand, Exit
<1>2. exit = "none" /\ (events = 0 => toServer = <<>> /\ toClient = <<>> /\ ~carriedOut /\ authorized)
  BY <1>1 DEF RemoteInv, Turn
<1>3. events = 0 /\ step' = "command sent" => toServer' = <<"command">>
  BY <1>1, <1>2, OneMessage
<1>4. events = 0 => Turn'
  BY <1>1, <1>2, <1>3 DEF Turn
<1> QED
  BY <1>1, <1>2, <1>4 DEF RemoteInv, Steps

LEMMA ReadTimeoutInv == ASSUME RemoteInv, ReadTimeout PROVE RemoteInv'
<1>1. /\ step' = "done" /\ exit' = "error"
      /\ UNCHANGED <<command, password, toServer, toClient, authorized, carriedOut, events>>
  BY DEF ReadTimeout, Exit
<1>2. Turn'
  BY <1>1 DEF Turn
<1> QED
  BY <1>1, <1>2 DEF RemoteInv, Steps

(* A line that is read ends the wait; if nobody else has spoken it is the   *)
(* reply of the server to what was sent.                                    *)
LEMMA ReadReplyInv ==
  ASSUME RemoteInv, NEW n \in 1 .. 2 + MaxEvents, ReadReply(n) PROVE RemoteInv'
<1> USE RemoteAssumption
<1>1. /\ step \in {"login sent", "command sent"} /\ n \in 1 .. Len(toClient)
      /\ toClient' = SubSeq(toClient, n + 1, Len(toClient))
      /\ UNCHANGED <<command, password, toServer, authorized, carriedOut, events>>
  BY DEF ReadReply, Waiting
<1>2. \/ n > 1 /\ step' = "done" /\ exit' = "error"
      \/ n = 1 /\ ~Head(toClient).success /\ step' = "done" /\ exit' = "refused"
      \/ n = 1 /\ Head(toClient).success /\ step = "login sent" /\ step' = "command" /\ exit' = exit
      \/ n = 1 /\ Head(toClient).success /\ step = "command sent" /\ step' = "done" /\ exit' = "success"
  BY <1>1 DEF ReadReply, Exit, Indicates
<1>3. exit = "none"
  BY <1>1 DEF RemoteInv
<1>4. ASSUME events = 0 PROVE Turn'
  <2>1. Turn /\ toClient # <<>>
    <3>1. ASSUME toClient = <<>> PROVE FALSE
      <4>1. n \in 1 .. Len(toClient)
        BY <1>1
      <4> QED
        BY <3>1, <4>1
    <3> QED
      BY <1>4, <3>1 DEF RemoteInv
  <2>2. CASE step = "login sent"
    <3>1. ~carriedOut /\ toServer = <<>> /\ toClient = <<Reply(password)>> /\ (password => authorized)
      BY <2>1, <2>2 DEF Turn
    <3>2. n = 1 /\ (Head(toClient).success <=> password) /\ toClient' = <<>>
      <4>1. n \in 1 .. Len(toClient) /\ toClient' = SubSeq(toClient, n + 1, Len(toClient))
        BY <1>1
      <4>2. n = 1 /\ Head(toClient) = Reply(password) /\ toClient' = <<>>
        BY <3>1, <4>1, OneRead
      <4>3. Reply(password).success <=> password
        BY ReplySays DEF RemoteInv
      <4> QED
        BY <4>2, <4>3
    <3> QED
      BY <1>1, <1>2, <1>3, <2>2, <3>1, <3>2 DEF Turn
  <2>3. CASE step = "command sent"
    <3>1. toServer = <<>> /\ toClient = <<Reply(command.result = "success")>> /\ (carriedOut <=> command.changes)
      BY <2>1, <2>3 DEF Turn
    <3>2. n = 1 /\ (Head(toClient).success <=> command.result = "success") /\ toClient' = <<>>
      <4>1. n \in 1 .. Len(toClient) /\ toClient' = SubSeq(toClient, n + 1, Len(toClient))
        BY <1>1
      <4>2. n = 1 /\ Head(toClient) = Reply(command.result = "success") /\ toClient' = <<>>
        BY <3>1, <4>1, OneRead
      <4>3. Reply(command.result = "success").success <=> command.result = "success"
        BY ReplySays DEF RemoteInv
      <4> QED
        BY <4>2, <4>3
    <3>3. command.changes => command.result = "success"
      BY CommandFacts DEF RemoteInv
    <3> QED
      BY <1>1, <1>2, <1>3, <2>3, <3>1, <3>2, <3>3 DEF Turn
  <2> QED
    BY <1>1, <2>2, <2>3
<1> QED
  BY <1>1, <1>2, <1>3, <1>4 DEF RemoteInv, Steps

(* The server's steps: it answers what it was sent, and acts on commands    *)
(* only.                                                                    *)
LEMMA HandleLoginInv == ASSUME RemoteInv, HandleLogin PROVE RemoteInv'
<1>1. /\ toServer # <<>> /\ Head(toServer) = "login" /\ toServer' = Tail(toServer)
      /\ authorized' = password /\ (carriedOut' <=> carriedOut) /\ carriedOut' \in BOOLEAN
      /\ toClient' = toClient \o <<Reply(password)>>
      /\ UNCHANGED <<command, password, step, exit, events>>
  BY DEF HandleLogin, Handle, RemoteInv
<1>2. ASSUME events = 0 PROVE Turn'
  <2>1. Turn
    BY <1>2 DEF RemoteInv
  <2>2. CASE step = "login sent"
    <3>1. toServer = <<"login">> /\ toClient = <<>> /\ ~carriedOut
      BY <1>1, <2>1, <2>2 DEF Turn
    <3>2. toServer' = <<>> /\ toClient' = <<Reply(password)>>
      BY <1>1, <3>1, OneMessage
    <3> QED
      BY <1>1, <2>1, <2>2, <3>1, <3>2 DEF Turn, RemoteInv
  <2>3. CASE step # "login sent"
    <3>1. step = "done" /\ exit \notin {"success", "refused"}
      BY <1>1, <2>1, <2>3, OneMessage DEF Turn, RemoteInv, Steps
    <3> QED
      BY <1>1, <3>1 DEF Turn
  <2> QED
    BY <2>2, <2>3
<1> QED
  BY <1>1, <1>2 DEF RemoteInv

LEMMA HandleCommandInv == ASSUME RemoteInv, HandleRefused \/ HandleMessage PROVE RemoteInv'
<1>1. /\ toServer # <<>> /\ Head(toServer) = "command" /\ toServer' = Tail(toServer)
      /\ authorized' = authorized
      /\ UNCHANGED <<command, password, step, exit, events>>
  BY DEF HandleRefused, HandleMessage, Handle
<1>2. command.changes \in BOOLEAN /\ (command.changes => command.result = "success")
  BY CommandFacts DEF RemoteInv
<1>3. \/ /\ ~authorized /\ AuthRequired /\ (carriedOut' <=> carriedOut)
      \/ /\ authorized \/ ~AuthRequired
         /\ carriedOut' <=> (carriedOut \/ command.changes)
         /\ \/ command.result = "none" /\ toClient' = toClient \o <<>>
            \/ toClient' = toClient \o <<Reply(command.result = "success")>>
  BY DEF HandleRefused, HandleMessage, Handle, Gated
<1>4. carriedOut' \in BOOLEAN
  BY DEF HandleRefused, HandleMessage, Handle
<1>5. carriedOut' /\ AuthRequired => password
  BY <1>3 DEF RemoteInv
<1>6. ASSUME events = 0 PROVE Turn'
  <2>1. Turn
    BY <1>6 DEF RemoteInv
  <2>2. CASE step = "command sent"
    <3>1. toServer = <<"command">> /\ toClient = <<>> /\ ~carriedOut /\ authorized
      BY <1>1, <2>1, <2>2 DEF Turn
    <3>2. toServer' = <<>>
      BY <1>1, <3>1, OneMessage
    <3>3. CASE command.result = "none" /\ toClient' = toClient \o <<>>
      <4>1. toClient' = <<>>
        BY <3>1, <3>3, NoReply
      <4> QED
        BY <1>1, <2>1, <2>2, <3>1, <3>2, <4>1 DEF Turn, RemoteInv
    <3>4. CASE toClient' = toClient \o <<Reply(command.result = "success")>>
      <4>1. toClient' = <<Reply(command.result = "success")>>
        BY <3>1, <3>4, OneMessage
      <4>2. carriedOut' <=> command.changes
        BY <1>3, <3>1
      <4> QED
        BY <1>1, <2>1, <2>2, <3>1, <3>2, <4>1, <4>2 DEF Turn, RemoteInv
    <3> QED
      BY <1>3, <3>1, <3>3, <3>4
  <2>3. CASE step # "command sent"
    <3>1. step = "done" /\ exit \notin {"success", "refused"}
      BY <1>1, <2>1, <2>3, OneMessage DEF Turn, RemoteInv, Steps
    <3> QED
      BY <1>1, <3>1 DEF Turn
  <2> QED
    BY <2>2, <2>3
<1> QED
  BY <1>1, <1>4, <1>5, <1>6 DEF RemoteInv

LEMMA ToldInv == ASSUME RemoteInv, DoPluginAction \/ PendingTokenRequest PROVE RemoteInv'
<1>1. /\ events' = events + 1
      /\ UNCHANGED <<command, password, step, toServer, authorized, carriedOut, exit>>
  BY DEF DoPluginAction, PendingTokenRequest, Told
<1>2. events' \in Nat /\ events' # 0
  BY <1>1 DEF RemoteInv
<1> QED
  BY <1>1, <1>2 DEF RemoteInv

LEMMA RemoteNextInv == RemoteInv /\ [RemoteNext]_remoteVars => RemoteInv'
<1> SUFFICES ASSUME RemoteInv, [RemoteNext]_remoteVars PROVE RemoteInv'
  OBVIOUS
<1>1. CASE UNCHANGED remoteVars
  BY <1>1 DEF remoteVars, RemoteInv, Turn
<1>2. CASE RemoteNext
  BY <1>2, ConnectInv, SendLoginInv, SendCommandInv, ReadTimeoutInv, ReadReplyInv, HandleLoginInv,
     HandleCommandInv, ToldInv DEF RemoteNext
<1> QED
  BY <1>1, <1>2

(* While nobody else speaks the exit tells what happened, and without the   *)
(* password nothing is executed (sendMessage(), parseReply(),               *)
(* handleMessage()).                                                        *)
THEOREM ExitIsTrue == RemoteSpec => []ExitTells
<1>1. RemoteInv => ExitTells
  BY CommandFacts DEF RemoteInv, Turn, ExitTells
<1> QED
  BY <1>1, RemoteInitInv, RemoteNextInv, PTL DEF RemoteSpec

-----------------------------------------------------------------------------
(***************************************************************************)
(* Who subscribed or reads the log misses nothing, for every size of the   *)
(* buffer and every number of messages and subscriptions.                  *)
(***************************************************************************)

(* The settings come only to who subscribed: before, nothing is known of   *)
(* them.                                                                   *)
UpdInv ==
  /\ world \in [Topics -> 0 .. 1] /\ known \in [Topics -> 0 .. Unknown]
  /\ subscribed \subseteq Topics /\ silent \subseteq Topics
  /\ "settings" \notin subscribed => known["settings"] = Unknown
  /\ SubscribersInformed

Unsent == {"adjustment", "imageToLedMapping", "sessions"}

LEMMA UpdInitInv == UpdInit => UpdInv
BY DEF UpdInit, UpdInv, Unknown, Topics, SubscribersInformed

LEMMA ChangedInv ==
  ASSUME UpdInv, NEW v \in [Topics -> 0 .. 1], NEW told \in SUBSET Topics, Changed(v, told),
         \A t \in Topics : v[t] # world[t] => t \in told \cup Unsent
  PROVE  UpdInv'
<1>1. known' \in [Topics -> 0 .. Unknown]
  BY DEF UpdInv, Changed, Unknown
<1>2. silent' \subseteq Topics /\ silent' \subseteq Unsent
  BY DEF UpdInv, SubscribersInformed, Changed, Unsent
<1>3. ASSUME NEW t \in subscribed' \ silent'
      PROVE  known'[t] = world'[t] \/ (t = "settings" /\ known'[t] = Unknown)
  <2>1. t \in Topics /\ t \in subscribed /\ world' = v
    BY <1>3 DEF UpdInv, Changed
  <2>2. CASE t \in told
    BY <2>1, <2>2 DEF Changed
  <2>3. CASE t \notin told
    <3>1. known'[t] = known[t] /\ v[t] = world[t] /\ t \notin silent
      BY <1>3, <2>1, <2>3 DEF Changed
    <3> QED
      BY <2>1, <3>1 DEF UpdInv, SubscribersInformed
  <2> QED
    BY <2>2, <2>3
<1> QED
  BY <1>1, <1>2, <1>3 DEF UpdInv, Changed, SubscribersInformed, Unsent, Topics

LEMMA OnlyInv == ASSUME UpdInv, NEW t \in Topics, NEW v \in 0 .. 1, Only(t, v) PROVE UpdInv'
<1> DEFINE w == [world EXCEPT ![t] = v]
<1>1. w \in [Topics -> 0 .. 1] /\ \A s \in Topics : w[s] # world[s] => s \in {t} \cup Unsent
  BY DEF UpdInv
<1>2. Changed(w, {t})
  BY DEF Only
<1> HIDE DEF w
<1> QED
  BY <1>1, <1>2, ChangedInv

LEMMA UpdNextInv == UpdInv /\ [UpdNext]_updVars => UpdInv'
<1> SUFFICES ASSUME UpdInv, [UpdNext]_updVars PROVE UpdInv'
  OBVIOUS
<1> USE DEF Topics
<1>1. ASSUME NEW v \in 0 .. 1,
             \/ ComponentStateUpdate(v) \/ SetLedMappingType(v) \/ SetVideoMode(v)
             \/ AdjustmentsUpdated(v) \/ ReloadEffects(v) \/ PluginAction(v)
      PROVE  UpdInv'
  BY <1>1, OnlyInv
     DEF ComponentStateUpdate, SetLedMappingType, SetVideoMode, AdjustmentsUpdated, ReloadEffects, PluginAction
<1>2. ASSUME NEW v \in 0 .. 1, SaveColorSettings(v) PROVE UpdInv'
  <2> DEFINE w == [world EXCEPT !["settings"] = v, !["adjustment"] = v, !["imageToLedMapping"] = v]
  <2>1. w \in [Topics -> 0 .. 1] /\ \A s \in Topics : w[s] # world[s] => s \in {"settings"} \cup Unsent
    BY <1>2 DEF UpdInv, Unsent
  <2>2. Changed(w, {"settings"})
    BY <1>2 DEF SaveColorSettings
  <2> HIDE DEF w
  <2> QED
    BY <2>1, <2>2, ChangedInv
<1>3. CASE BonjourRecordsChanged
  <2> DEFINE w == [world EXCEPT !["sessions"] = 0]
  <2>1. w \in [Topics -> 0 .. 1] /\ \A s \in Topics : w[s] # world[s] => s \in {} \cup Unsent
    BY <1>3 DEF UpdInv, Unsent
  <2>2. Changed(w, {})
    BY <1>3 DEF BonjourRecordsChanged
  <2> HIDE DEF w
  <2> QED
    BY <2>1, <2>2, ChangedInv
<1>4. CASE BonjourRecordResolved
  BY <1>4, OnlyInv DEF BonjourRecordResolved
<1>5. ASSUME NEW topics \in SUBSET Topics, ServerInfo(topics) PROVE UpdInv'
  <2>1. Granted(topics) \subseteq Topics
    BY <1>5 DEF Granted
  <2>2. known' \in [Topics -> 0 .. Unknown]
    BY <1>5 DEF UpdInv, ServerInfo, Unknown
  <2>3. ASSUME NEW t \in subscribed' \ silent'
        PROVE  known'[t] = world'[t] \/ (t = "settings" /\ known'[t] = Unknown)
    BY <1>5, <2>1, <2>3 DEF UpdInv, ServerInfo, Reported, SubscribersInformed
  <2>4. "settings" \notin subscribed' => known'["settings"] = Unknown
    BY <1>5 DEF UpdInv, ServerInfo, Reported
  <2> QED
    BY <1>5, <2>1, <2>2, <2>3, <2>4 DEF UpdInv, ServerInfo, SubscribersInformed
<1>6. CASE Subscribe
  BY <1>5, <1>6 DEF Subscribe
<1>7. ASSUME NEW a \in BOOLEAN, Authorize(a) PROVE UpdInv'
  BY <1>7 DEF Authorize, UpdInv, SubscribersInformed
<1>8. CASE UNCHANGED updVars
  BY <1>8 DEF updVars, UpdInv, SubscribersInformed
<1> QED
  BY <1>1, <1>2, <1>3, <1>4, <1>6, <1>7, <1>8 DEF UpdNext

-----------------------------------------------------------------------------
(* s holds the messages up to the n-th, one after the other *)
UpTo(s, n) == s \in Seq(Nat) /\ \A i \in DOMAIN s : s[i] = n - Len(s) + i

(* The buffer ends with the last message; one connection streams on from   *)
(* it, and while nothing streams nothing was sent.                         *)
LogInv ==
  /\ logDebug \in BOOLEAN /\ logActive \in BOOLEAN
  /\ logCount \in Nat /\ logSlots \in 0 .. 2
  /\ UpTo(logBuffer, logCount)
  /\ logGot \in Seq(Nat)
  /\ IF logActive THEN logSlots > 0 /\ logGot # <<>> ELSE logGot = <<>>
  /\ logSlots = 1 => UpTo(logGot, logCount)
  /\ logDebug => logSlots = IF logActive THEN 1 ELSE 0

LEMMA Extended ==
  ASSUME NEW n \in Nat, NEW s, UpTo(s, n), NEW r, r = Append(s, n + 1)
  PROVE  UpTo(r, n + 1) /\ r # <<>> /\ Len(r) = Len(s) + 1
<1>1. /\ r \in Seq(Nat) /\ Len(r) = Len(s) + 1 /\ Len(s) \in Nat
      /\ \A i \in 1 .. Len(s) : r[i] = s[i]
      /\ r[Len(s) + 1] = n + 1
  BY AppendProperties DEF UpTo
<1>2. DOMAIN r = 1 .. Len(s) + 1 /\ DOMAIN s = 1 .. Len(s)
  BY <1>1 DEF UpTo
<1>3. ASSUME NEW i \in 1 .. Len(s) + 1 PROVE r[i] = n + 1 - Len(r) + i
  <2>1. CASE i \in 1 .. Len(s)
    <3>1. r[i] = s[i] /\ s[i] = n - Len(s) + i
      BY <1>1, <1>2, <2>1 DEF UpTo
    <3>2. n + 1 - Len(r) + i = n - Len(s) + i
      BY <1>1, <2>1
    <3> QED
      BY <3>1, <3>2
  <2>2. CASE i = Len(s) + 1
    <3>1. r[i] = n + 1 /\ i = Len(r) /\ Len(r) \in Int
      BY <1>1, <2>2
    <3>2. n + 1 - Len(r) + Len(r) = n + 1
      BY <3>1
    <3> QED
      BY <3>1, <3>2
  <2> QED
    BY <1>1, <2>1, <2>2
<1> QED
  BY <1>1, <1>2, <1>3 DEF UpTo

LEMMA Shortened ==
  ASSUME NEW n \in Nat, NEW s, UpTo(s, n), s # <<>>, NEW r, r = Tail(s)
  PROVE  UpTo(r, n)
<1>1. /\ r \in Seq(Nat) /\ Len(r) = Len(s) - 1 /\ Len(s) \in Nat \ {0}
      /\ \A i \in 1 .. Len(r) : r[i] = s[i + 1]
  BY HeadTailProperties DEF UpTo
<1>2. DOMAIN r = 1 .. Len(r) /\ DOMAIN s = 1 .. Len(s)
  BY <1>1 DEF UpTo
<1>3. ASSUME NEW i \in 1 .. Len(r) PROVE r[i] = n - Len(r) + i
  <2>1. i + 1 \in 1 .. Len(s) /\ r[i] = s[i + 1]
    BY <1>1
  <2>2. s[i + 1] = n - Len(s) + (i + 1)
    BY <1>2, <2>1 DEF UpTo
  <2> QED
    BY <1>1, <2>1, <2>2
<1> QED
  BY <1>1, <1>2, <1>3 DEF UpTo

LEMMA BufferedUpTo ==
  ASSUME NEW n \in Nat, n = logCount, UpTo(logBuffer, n)
  PROVE  UpTo(Buffered(n + 1), n + 1) /\ Buffered(n + 1) # <<>>
<1> DEFINE b == Append(logBuffer, n + 1)
<1>2. Buffered(n + 1) = (IF Len(b) > LogBufferSize THEN Tail(b) ELSE b) /\ b = Append(logBuffer, n + 1)
  BY DEF Buffered
<1> HIDE DEF b
<1>0. UpTo(b, n + 1) /\ b # <<>>
  BY <1>2, Extended
<1>1. UpTo(b, n + 1) /\ b # <<>> /\ b \in Seq(Nat) /\ Len(b) \in Nat
  BY <1>0 DEF UpTo
<1>3. CASE Len(b) > LogBufferSize
  <2> DEFINE t == Tail(b)
  <2>0. t = Tail(b)
    OBVIOUS
  <2>1. Len(t) = Len(b) - 1
    BY <1>1
  <2> HIDE DEF t
  <2>2. UpTo(t, n + 1)
    BY <1>1, <2>0, Shortened, n + 1 \in Nat
  <2>3. t # <<>>
    BY <1>1, <1>3, <2>1, LogAssumption
  <2> QED
    BY <1>2, <1>3, <2>0, <2>2, <2>3
<1>4. CASE ~(Len(b) > LogBufferSize)
  BY <1>1, <1>2, <1>4
<1> QED
  BY <1>3, <1>4

(* The two ways a step may leave the stream *)
LEMMA Idle ==
  ASSUME logDebug' \in BOOLEAN, logCount' \in Nat, UpTo(logBuffer', logCount'), logSlots' \in 0 .. 2,
         ~logActive', logActive' \in BOOLEAN, logGot' = <<>>, logDebug' => logSlots' = 0
  PROVE  LogInv'
<1>1. logGot' \in Seq(Nat) /\ UpTo(logGot', logCount')
  BY DEF UpTo
<1>2. IF logActive' THEN logSlots' > 0 /\ logGot' # <<>> ELSE logGot' = <<>>
  OBVIOUS
<1>3. logDebug' => logSlots' = IF logActive' THEN 1 ELSE 0
  OBVIOUS
<1> QED
  BY <1>1, <1>2, <1>3 DEF LogInv

LEMMA Streaming ==
  ASSUME logDebug' \in BOOLEAN, logCount' \in Nat, UpTo(logBuffer', logCount'), logSlots' \in 1 .. 2,
         logActive', logActive' \in BOOLEAN, logGot' \in Seq(Nat), logGot' # <<>>,
         logSlots' = 1 => UpTo(logGot', logCount'), logDebug' => logSlots' = 1
  PROVE  LogInv'
<1>1. logSlots' \in 0 .. 2 /\ logSlots' > 0
  OBVIOUS
<1>2. IF logActive' THEN logSlots' > 0 /\ logGot' # <<>> ELSE logGot' = <<>>
  BY <1>1
<1>3. logDebug' => logSlots' = IF logActive' THEN 1 ELSE 0
  OBVIOUS
<1> QED
  BY <1>1, <1>2, <1>3 DEF LogInv

(* A message that passes the level, while the stream is as given *)
Ready(active, slots, got) ==
  /\ slots \in 0 .. 2 /\ got \in Seq(Nat)
  /\ (active /\ slots > 0 /\ got # <<>>) \/ (~active /\ got = <<>>)
  /\ slots = 1 => UpTo(got, logCount)
  /\ logDebug => slots < 2

LEMMA EmitInv ==
  ASSUME LogInv, UNCHANGED logDebug
  PROVE  \A active \in BOOLEAN : \A slots, got :
           Ready(active, slots, got) /\ Emit(active, slots, got) => LogInv'
<1> SUFFICES ASSUME NEW active \in BOOLEAN, NEW slots, NEW got, Ready(active, slots, got), Emit(active, slots, got)
             PROVE  LogInv'
  OBVIOUS
<1>0. /\ slots \in 0 .. 2 /\ got \in Seq(Nat)
      /\ (active /\ slots > 0 /\ got # <<>>) \/ (~active /\ got = <<>>)
      /\ slots = 1 => UpTo(got, logCount)
      /\ logDebug => slots < 2
  BY DEF Ready
<1> DEFINE msg == logCount + 1
<1>1. /\ logCount' = msg /\ logBuffer' = Buffered(msg) /\ logGot' = got \o Incoming(active, slots, msg)
      /\ logSlots' = slots /\ logActive' = (active \/ slots > 0)
  BY DEF Emit
<1>2. logCount \in Nat /\ msg \in Nat /\ logDebug' \in BOOLEAN /\ logCount' \in Nat
  BY DEF LogInv, Emit
<1>3. UpTo(Buffered(msg), msg) /\ Buffered(msg) # <<>> /\ Buffered(msg) \in Seq(Nat)
  BY <1>2, BufferedUpTo DEF LogInv, UpTo
<1>4. UpTo(logBuffer', logCount')
  BY <1>1, <1>3
<1>5. CASE slots = 0
  <2>1. got = <<>> /\ Incoming(active, slots, msg) = <<>> /\ ~active
    BY <1>0, <1>5 DEF Incoming
  <2>2. logGot' = <<>>
    BY <1>1, <2>1
  <2>a. ~(slots > 0)
    BY <1>5
  <2>3. ~logActive' /\ logActive' \in BOOLEAN
    BY <1>1, <2>1, <2>a
  <2>4. logSlots' \in 0 .. 2 /\ logSlots' = 0
    BY <1>1, <1>5
  <2> QED
    BY <1>2, <1>4, <2>2, <2>3, <2>4, Idle
<1>6. CASE slots > 0
  <2>1. logActive' = TRUE
    BY <1>1, <1>6
  <2>2. logSlots' \in 1 .. 2
    BY <1>0, <1>1, <1>6
  <2>3. logDebug' => logSlots' = 1
    BY <1>0, <1>1, <1>6
  <2>4. CASE slots = 1 /\ active
    <3>1. Incoming(active, slots, msg) = [k \in 1 .. 1 |-> msg]
      BY <2>4 DEF Incoming
    <3>2. got \o [k \in 1 .. 1 |-> msg] = Append(got, msg)
      BY <1>0, <1>2
    <3>3. logGot' = Append(got, logCount + 1)
      BY <1>1, <3>1, <3>2
    <3>4. UpTo(logGot', logCount + 1) /\ logGot' # <<>>
      BY <1>0, <1>2, <2>4, <3>3, Extended
    <3> QED
      BY <1>1, <1>2, <1>4, <2>1, <2>2, <2>3, <3>4, Streaming DEF UpTo
  <2>5. CASE slots = 1 /\ ~active
    <3>0. slots # 0 /\ slots - 1 = 0
      BY <2>5
    <3>a. Incoming(active, slots, msg) = Buffered(msg) \o [k \in 1 .. slots - 1 |-> msg]
      BY <2>5, <3>0, Zenon DEF Incoming
    <3>1. Incoming(active, slots, msg) = Buffered(msg) \o [k \in 1 .. 0 |-> msg]
      BY <3>0, <3>a
    <3>b. [k \in 1 .. 0 |-> msg] = <<>>
      OBVIOUS
    <3>2. Buffered(msg) \o [k \in 1 .. 0 |-> msg] = Buffered(msg)
      BY <1>3, <3>b, ConcatEmptySeq
    <3>3. logGot' = Buffered(msg)
      <4>1. logGot' = <<>> \o Buffered(msg)
        BY <1>0, <1>1, <2>5, <3>1, <3>2
      <4> QED
        BY <1>3, <4>1, ConcatEmptySeq
    <3> QED
      BY <1>1, <1>2, <1>3, <1>4, <2>1, <2>2, <2>3, <3>3, Streaming
  <2>6. CASE slots = 2
    <3>1. Incoming(active, slots, msg) \in Seq(Nat) /\ Incoming(active, slots, msg) # <<>>
      BY <1>2, <1>3, <2>6 DEF Incoming
    <3>2. logGot' \in Seq(Nat) /\ logGot' # <<>> /\ logSlots' # 1
      BY <1>0, <1>1, <2>6, <3>1
    <3> QED
      BY <1>2, <1>4, <2>1, <2>2, <2>3, <3>2, Streaming
  <2> QED
    BY <1>0, <1>6, <2>4, <2>5, <2>6
<1> QED
  BY <1>0, <1>5, <1>6

LEMMA LogInitInv == LogInit => LogInv
<1> SUFFICES ASSUME LogInit PROVE LogInv
  OBVIOUS
<1>1. UpTo(<<>>, logCount) /\ <<>> \in Seq(Nat)
  BY DEF UpTo
<1>2. logActive \in BOOLEAN /\ ~logActive /\ logGot = <<>> /\ logBuffer = <<>> /\ logSlots = 0 /\ logCount = 0
  BY DEF LogInit
<1>3. logDebug => logSlots = IF logActive THEN 1 ELSE 0
  BY <1>2
<1> QED
  BY <1>1, <1>2, <1>3 DEF LogInit, LogInv

LEMMA LogNextInv == LogInv /\ [LogNext]_logVars => LogInv'
<1> SUFFICES ASSUME LogInv, [LogNext]_logVars PROVE LogInv'
  OBVIOUS
<1>0. UpTo(<<>>, logCount) /\ <<>> \in Seq(Nat)
  BY DEF UpTo
<1>1. CASE Message
  <2>1. Ready(logActive, logSlots, logGot)
    <3>1. logDebug => logSlots < 2
      BY DEF LogInv
    <3> QED
      BY <3>1 DEF Ready, LogInv
  <2>2. Emit(logActive, logSlots, logGot) /\ UNCHANGED logDebug /\ logActive \in BOOLEAN
    BY <1>1 DEF Message, LogInv
  <2> QED
    BY <2>1, <2>2, EmitInv, Zenon
<1>2. CASE StartLogging
  <2>1. CASE logDebug
    <3>1. logSlots = 0
      BY <1>2, <2>1 DEF StartLogging, LogInv
    <3>2. Emit(FALSE, logSlots + 1, <<>>) /\ UNCHANGED logDebug
      BY <1>2, <2>1 DEF StartLogging
    <3>3. Ready(FALSE, logSlots + 1, <<>>)
      BY <1>0, <3>1 DEF Ready
    <3> QED
      BY <3>2, <3>3, EmitInv, FALSE \in BOOLEAN, Zenon
  <2>2. CASE ~logDebug
    <3>1. /\ logSlots' = logSlots + 1 /\ logGot' = <<>> /\ logSlots < 2 /\ ~logActive
          /\ UNCHANGED <<logDebug, logBuffer, logCount, logActive>>
      BY <1>2, <2>2 DEF StartLogging
    <3>2. logSlots' \in 0 .. 2 /\ logActive' \in BOOLEAN /\ ~logActive' /\ logDebug' \in BOOLEAN /\ ~logDebug'
      BY <2>2, <3>1 DEF LogInv
    <3> QED
      BY <3>1, <3>2, Idle DEF LogInv
  <2> QED
    BY <2>1, <2>2
<1>3. CASE StopLogging
  <2>1. CASE logDebug
    <3>1. Emit(FALSE, 0, <<>>) /\ UNCHANGED logDebug
      BY <1>3, <2>1 DEF StopLogging
    <3>2. Ready(FALSE, 0, <<>>)
      BY <1>0 DEF Ready
    <3> QED
      BY <3>1, <3>2, EmitInv, FALSE \in BOOLEAN, Zenon
  <2>2. CASE ~logDebug
    <3>1. /\ logSlots' = 0 /\ logGot' = <<>> /\ logActive' = FALSE
          /\ UNCHANGED <<logDebug, logBuffer, logCount>>
      BY <1>3, <2>2 DEF StopLogging
    <3>a. logSlots' \in 0 .. 2 /\ logDebug' \in BOOLEAN /\ ~logDebug'
      BY <2>2, <3>1 DEF LogInv
    <3>2. logSlots' \in 0 .. 2 /\ logActive' \in BOOLEAN /\ ~logActive' /\ logDebug' \in BOOLEAN /\ ~logDebug'
      BY <3>1, <3>a
    <3> QED
      BY <3>1, <3>2, Idle DEF LogInv
  <2> QED
    BY <2>1, <2>2
<1>4. CASE UNCHANGED logVars
  <2>1. /\ logDebug' = logDebug /\ logBuffer' = logBuffer /\ logCount' = logCount
        /\ logSlots' = logSlots /\ logActive' = logActive /\ logGot' = logGot
    BY <1>4 DEF logVars
  <2> QED
    BY <2>1, Zenon DEF LogInv
<1> QED
  BY <1>1, <1>2, <1>3, <1>4 DEF LogNext

(* Whatever changes, and however clients subscribe, log in and out, start   *)
(* and stop the stream, a subscriber knows its topics but for what sends no *)
(* signal, and a streaming client has every message once and in order       *)
(* (JsonCB, LoggerManager, JsonAPI::incommingLogMessage()).                 *)
THEOREM ClientsAreInformed == Spec => []ClientsInformed
<1> DEFINE Inv == UpdInv /\ LogInv
<1>1. Init => Inv
  BY UpdInitInv, LogInitInv DEF Init, ApiIdle
<1>2. Inv /\ [Next]_vars => Inv'
  BY UpdNextInv, LogNextInv DEF Next, vars, apiVars
<1>3. LogInv => StreamComplete
  BY DEF LogInv, UpTo, StreamComplete
<1>4. Inv => ClientsInformed
  BY <1>3 DEF UpdInv, ClientsInformed
<1> QED
  BY <1>1, <1>2, <1>4, PTL DEF Spec

-----------------------------------------------------------------------------
(* What is left of a sequence, and what is taken from it *)
LEMMA Dropped ==
  ASSUME NEW S, NEW s \in Seq(S), NEW k \in 0 .. Len(s)
  PROVE  /\ SubSeq(s, k + 1, Len(s)) \in Seq(S)
         /\ Len(SubSeq(s, k + 1, Len(s))) = Len(s) - k
         /\ \A i \in 1 .. Len(s) - k : SubSeq(s, k + 1, Len(s))[i] = s[i + k]
<1> DEFINE r == SubSeq(s, k + 1, Len(s))
<1>1. Len(s) \in Nat /\ k \in Int /\ k + 1 \in Int
  BY LenProperties
<1>2. \A i \in k + 1 .. Len(s) : s[i] \in S
  BY <1>1, ElementOfSeq
<1>3. /\ r \in Seq(S)
      /\ Len(r) = IF k + 1 <= Len(s) THEN Len(s) - (k + 1) + 1 ELSE 0
      /\ \A i \in 1 .. Len(s) - (k + 1) + 1 : r[i] = s[(k + 1) + i - 1]
  BY <1>1, <1>2, SubSeqProperties
<1> HIDE DEF r
<1>4. \A i \in 1 .. Len(s) - k : r[i] = s[i + k]
  <2> TAKE i \in 1 .. Len(s) - k
  <2>1. (k + 1) + i - 1 = i + k /\ i \in 1 .. Len(s) - (k + 1) + 1
    BY <1>1
  <2> QED
    BY <1>3, <2>1
<1>5. Len(r) = Len(s) - k
  <2>1. CASE k + 1 <= Len(s)
    BY <1>1, <1>3, <2>1
  <2>2. CASE k = Len(s)
    BY <1>1, <1>3, <2>2
  <2> QED
    BY <1>1, <2>1, <2>2
<1> QED
  BY <1>3, <1>4, <1>5 DEF r

LEMMA Taken ==
  ASSUME NEW S, NEW s \in Seq(S), NEW n \in 0 .. Len(s)
  PROVE  /\ SubSeq(s, 1, n) \in Seq(S) /\ Len(SubSeq(s, 1, n)) = n
         /\ \A i \in 1 .. n : SubSeq(s, 1, n)[i] = s[i]
         /\ SubSeq(s, 1, n) \o SubSeq(s, n + 1, Len(s)) = s
<1>1. Len(s) \in Nat /\ n \in Int /\ n - 1 + 1 = n
  BY LenProperties
<1>2. \A i \in 1 .. n : s[i] \in S
  BY <1>1, ElementOfSeq
<1>3. /\ SubSeq(s, 1, n) \in Seq(S)
      /\ Len(SubSeq(s, 1, n)) = IF 1 <= n THEN n - 1 + 1 ELSE 0
      /\ \A i \in 1 .. n - 1 + 1 : SubSeq(s, 1, n)[i] = s[1 + i - 1]
  BY <1>1, <1>2, SubSeqProperties
<1>4. Len(SubSeq(s, 1, n)) = n
  BY <1>1, <1>3
<1>5. \A i \in 1 .. n : 1 + i - 1 = i
  BY <1>1
<1>6. SubSeq(s, 1, n) \o SubSeq(s, n + 1, Len(s)) = SubSeq(s, 1, Len(s))
  <2>1. 1 \in 1 .. Len(s) + 1 /\ n \in 1 - 1 .. Len(s) /\ Len(s) \in n .. Len(s)
    BY <1>1
  <2> QED
    BY <2>1, ConcatAdjacentSubSeq
<1> QED
  BY <1>1, <1>3, <1>4, <1>5, <1>6, SubSeqFull

(* what is dropped from a sequence is dropped from its extensions *)
LEMMA DroppedFirst ==
  ASSUME NEW S, NEW s \in Seq(S), NEW t \in Seq(S), NEW k \in 0 .. Len(s)
  PROVE  SubSeq(s, k + 1, Len(s)) \o t = SubSeq(s \o t, k + 1, Len(s \o t))
<1> DEFINE d == SubSeq(s, k + 1, Len(s))
           u == s \o t
           v == SubSeq(u, k + 1, Len(u))
<1>1. Len(s) \in Nat /\ Len(t) \in Nat /\ k \in Int
  BY LenProperties
<1>2. d \in Seq(S) /\ Len(d) = Len(s) - k /\ \A i \in 1 .. Len(s) - k : d[i] = s[i + k]
  BY Dropped
<1>3. u \in Seq(S) /\ Len(u) = Len(s) + Len(t)
      /\ \A i \in 1 .. Len(s) + Len(t) : u[i] = IF i <= Len(s) THEN s[i] ELSE t[i - Len(s)]
  BY ConcatProperties
<1>4. v \in Seq(S) /\ Len(v) = Len(u) - k /\ \A i \in 1 .. Len(u) - k : v[i] = u[i + k]
  <2>1. k \in 0 .. Len(u)
    BY <1>1, <1>3
  <2> HIDE DEF u
  <2> QED
    BY <1>3, <2>1, Dropped
<1>5. d \o t \in Seq(S) /\ Len(d \o t) = Len(d) + Len(t)
      /\ \A i \in 1 .. Len(d) + Len(t) : (d \o t)[i] = IF i <= Len(d) THEN d[i] ELSE t[i - Len(d)]
  <2> HIDE DEF d
  <2> QED
    BY <1>2, ConcatProperties
<1> HIDE DEF d, u, v
<1>6. Len(d \o t) = Len(v)
  BY <1>1, <1>2, <1>3, <1>4, <1>5
<1>7. ASSUME NEW i \in 1 .. Len(d \o t) PROVE (d \o t)[i] = v[i]
  <2>1. i \in Int /\ 1 <= i /\ i <= Len(s) - k + Len(t)
    BY <1>1, <1>2, <1>5
  <2>2. v[i] = u[i + k] /\ i + k \in 1 .. Len(s) + Len(t)
    BY <1>1, <1>3, <1>4, <2>1
  <2>3. CASE i <= Len(s) - k
    <3>1. (d \o t)[i] = d[i] /\ d[i] = s[i + k]
      BY <1>1, <1>2, <1>5, <2>1, <2>3
    <3>2. u[i + k] = s[i + k]
      BY <1>1, <1>3, <2>1, <2>2, <2>3
    <3> QED
      BY <2>2, <3>1, <3>2
  <2>4. CASE ~(i <= Len(s) - k)
    <3>1. (d \o t)[i] = t[i - (Len(s) - k)]
      BY <1>1, <1>2, <1>5, <2>1, <2>4
    <3>2. u[i + k] = t[i + k - Len(s)] /\ i - (Len(s) - k) = i + k - Len(s)
      BY <1>1, <1>3, <2>1, <2>2, <2>4
    <3> QED
      BY <2>2, <3>1, <3>2
  <2> QED
    BY <2>3, <2>4
<1>8. d \o t = v
  BY <1>4, <1>5, <1>6, <1>7, SeqEqual
<1> QED
  BY <1>8 DEF d, u, v

-----------------------------------------------------------------------------
(***************************************************************************)
(* Web requests, for every plan of a client.  A line that can still begin  *)
(* a request names one that was neither read nor answered nor handed on,   *)
(* and these lines come in the order of their requests; of the request     *)
(* that is read, nothing was handed on before its last line.               *)
(***************************************************************************)

Lines == [k : {"start", "end", "body", "part", "rest"}, r : 1 .. Len(plan)]

HttpType ==
  /\ plan \in Seq({"GET", "LAST", "RPC", "QUIET", "UPGRADE"})
  /\ requested \in 0 .. Len(plan)
  /\ wire \in Seq(Lines) /\ inbox \in Seq(Lines)
  /\ parsing \in {"AwaitingRequest", "AwaitingHeaders", "AwaitingContent", "RequestParsed"}
  /\ request \in 0 .. Len(plan)
  /\ unlocked \in BOOLEAN /\ connected \in BOOLEAN
  /\ executed \in [DOMAIN plan -> Nat]
  /\ replies \in Seq(0 .. Len(plan))

(* a line of a request's first line *)
Early(l) == l.k \in {"start", "part", "rest"}

(* nothing was done yet for the request of line l *)
Unheard(l) ==
  /\ request < l.r /\ l.r <= requested
  /\ \A n \in 1 .. Len(replies) : replies[n] < l.r
  /\ \A r \in 1 .. Len(plan) : l.r <= r => executed[r] = 0

Fresh(s) == \A i \in 1 .. Len(s) : Early(s[i]) => Unheard(s[i])

Before(l, m) == l.r < m.r \/ (l.k = "part" /\ m.k = "rest" /\ l.r = m.r)

Ordered(s) == \A i, j \in 1 .. Len(s) : i < j /\ Early(s[i]) /\ Early(s[j]) => Before(s[i], s[j])
Precedes(s, t) == \A i \in 1 .. Len(s), j \in 1 .. Len(t) : Early(s[i]) /\ Early(t[j]) => Before(s[i], t[j])

Kept(s, t) == Fresh(s) /\ Fresh(t) /\ Ordered(s) /\ Ordered(t) /\ Precedes(s, t)

(* what lies behind the last request that was sent or read *)
Bounded ==
  /\ request <= requested
  /\ \A n \in 1 .. Len(replies) : replies[n] <= requested
  /\ \A r \in 1 .. Len(plan) : requested < r => executed[r] = 0

NotReplied == \A n \in 1 .. Len(replies) : replies[n] < request

CurrentKept ==
  /\ parsing = "AwaitingRequest" <=> request = 0
  /\ parsing \in {"AwaitingHeaders", "AwaitingContent"} => executed[request] = 0 /\ NotReplied
  /\ parsing = "RequestParsed" => \/ plan[request] = "QUIET" /\ NotReplied
                                  \/ plan[request] = "UPGRADE" /\ executed[request] = 1
  /\ unlocked => parsing = "RequestParsed" /\ plan[request] = "QUIET"

Sorted == \A i, j \in 1 .. Len(replies) : i < j /\ replies[j] # Bad => replies[i] < replies[j]
Once   == \A r \in 1 .. Len(plan) : executed[r] > 1 => plan[r] = "QUIET"

HttpInv == HttpType /\ Kept(inbox, wire) /\ Bounded /\ CurrentKept /\ Sorted /\ Once

LEMMA LineTypes ==
  ASSUME HttpType
  PROVE  /\ Len(plan) \in Nat /\ DOMAIN plan = 1 .. Len(plan)
         /\ Len(inbox) \in Nat /\ Len(wire) \in Nat /\ Len(replies) \in Nat
         /\ \A i \in 1 .. Len(inbox) : inbox[i] \in Lines
         /\ \A i \in 1 .. Len(wire) : wire[i] \in Lines
         /\ \A n \in 1 .. Len(replies) : replies[n] \in 0 .. Len(plan)
         /\ requested \in Nat /\ request \in Nat
         /\ \A l \in Lines : l.r \in 1 .. Len(plan) /\ l.r \in Nat
<1>1. Len(plan) \in Nat /\ DOMAIN plan = 1 .. Len(plan)
  BY LenProperties DEF HttpType
<1>2. Len(inbox) \in Nat /\ \A i \in 1 .. Len(inbox) : inbox[i] \in Lines
  BY LenProperties, ElementOfSeq DEF HttpType
<1>3. Len(wire) \in Nat /\ \A i \in 1 .. Len(wire) : wire[i] \in Lines
  BY LenProperties, ElementOfSeq DEF HttpType
<1>4. Len(replies) \in Nat /\ \A n \in 1 .. Len(replies) : replies[n] \in 0 .. Len(plan)
  BY LenProperties, ElementOfSeq DEF HttpType
<1>5. requested \in Nat /\ request \in Nat
  BY <1>1 DEF HttpType
<1>6. \A l \in Lines : l.r \in 1 .. Len(plan) /\ l.r \in Nat
  BY <1>1 DEF Lines
<1> QED
  BY <1>1, <1>2, <1>3, <1>4, <1>5, <1>6

(* lines that stay, or of which the first or all are read *)
LEMMA LinesRead ==
  ASSUME HttpType, Kept(inbox, wire), inbox # <<>>, UNCHANGED <<plan, wire>>, inbox' \in {Tail(inbox), <<>>},
         \A l \in Lines : Early(l) /\ Unheard(l) /\ (Early(inbox[1]) => Before(inbox[1], l)) => Unheard(l)'
  PROVE  Kept(inbox, wire)' /\ inbox' \in Seq(Lines)
<1>1. /\ Len(inbox) \in Nat /\ Len(wire) \in Nat /\ inbox \in Seq(Lines)
      /\ \A i \in 1 .. Len(inbox) : inbox[i] \in Lines
      /\ \A i \in 1 .. Len(wire) : wire[i] \in Lines
  BY LineTypes DEF HttpType
<1>2. Len(inbox) >= 1
  BY <1>1, EmptySeq
<1>3. /\ inbox' \in Seq(Lines) /\ Len(inbox') \in Nat /\ Len(inbox') <= Len(inbox) - 1
      /\ \A i \in 1 .. Len(inbox') : inbox'[i] = inbox[i + 1]
  <2>1. CASE inbox' = Tail(inbox)
    BY <1>1, <2>1, HeadTailProperties, LenProperties
  <2>2. CASE inbox' = <<>>
    BY <1>1, <1>2, <2>2, EmptySeq
  <2> QED
    BY <2>1, <2>2
<1>4. Fresh(inbox)'
  <2>1. ASSUME NEW i \in 1 .. Len(inbox'), Early(inbox'[i]) PROVE \E l \in Lines : inbox'[i] = l /\ Unheard(l)'
    <3>1. i + 1 \in 1 .. Len(inbox) /\ 1 \in 1 .. Len(inbox) /\ 1 < i + 1 /\ inbox'[i] = inbox[i + 1]
      BY <1>1, <1>2, <1>3
    <3>2. PICK l \in Lines : l = inbox[i + 1]
      BY <1>1, <3>1
    <3>3. Early(l) /\ Unheard(l)
      BY <2>1, <3>1, <3>2 DEF Kept, Fresh
    <3>4. Early(inbox[1]) => Before(inbox[1], l)
      BY <3>1, <3>2, <3>3 DEF Kept, Ordered
    <3>5. Unheard(l)'
      BY <3>3, <3>4
    <3> QED
      BY <3>1, <3>2, <3>5
  <2> QED
    BY <2>1 DEF Fresh, Unheard
<1>5. Fresh(wire)'
  <2>1. ASSUME NEW i \in 1 .. Len(wire), Early(wire[i]) PROVE \E l \in Lines : wire[i] = l /\ Unheard(l)'
    <3>1. PICK l \in Lines : l = wire[i]
      BY <1>1
    <3>2. 1 \in 1 .. Len(inbox)
      BY <1>1, <1>2
    <3>3. Early(l) /\ Unheard(l)
      BY <2>1, <3>1 DEF Kept, Fresh
    <3>4. Early(inbox[1]) => Before(inbox[1], l)
      BY <3>1, <3>2, <3>3 DEF Kept, Precedes
    <3>5. Unheard(l)'
      BY <3>3, <3>4
    <3> QED
      BY <3>1, <3>5
  <2> QED
    BY <2>1 DEF Fresh, Unheard, Early
<1>6. Ordered(inbox)'
  <2>1. ASSUME NEW i \in 1 .. Len(inbox'), NEW j \in 1 .. Len(inbox'), i < j, Early(inbox'[i]), Early(inbox'[j])
        PROVE  Before(inbox'[i], inbox'[j])
    <3>1. /\ i + 1 \in 1 .. Len(inbox) /\ j + 1 \in 1 .. Len(inbox) /\ i + 1 < j + 1
          /\ inbox'[i] = inbox[i + 1] /\ inbox'[j] = inbox[j + 1]
      BY <1>1, <1>3, <2>1
    <3> QED
      BY <2>1, <3>1 DEF Kept, Ordered
  <2> QED
    BY <2>1 DEF Ordered, Early, Before
<1>7. Precedes(inbox, wire)'
  <2>1. ASSUME NEW i \in 1 .. Len(inbox'), NEW j \in 1 .. Len(wire), Early(inbox'[i]), Early(wire[j])
        PROVE  Before(inbox'[i], wire[j])
    <3>1. i + 1 \in 1 .. Len(inbox) /\ inbox'[i] = inbox[i + 1]
      BY <1>1, <1>3
    <3> QED
      BY <2>1, <3>1 DEF Kept, Precedes
  <2> QED
    BY <2>1 DEF Precedes, Early, Before
<1>8. Ordered(wire)'
  BY DEF Kept, Ordered, Early, Before
<1> QED
  BY <1>3, <1>4, <1>5, <1>6, <1>7, <1>8 DEF Kept

LEMMA LinesStay ==
  ASSUME HttpType, Kept(inbox, wire), UNCHANGED <<plan, wire, inbox>>,
         \A l \in Lines : Early(l) /\ Unheard(l) => Unheard(l)'
  PROVE  Kept(inbox, wire)'
<1>1. /\ \A i \in 1 .. Len(inbox) : inbox[i] \in Lines
      /\ \A i \in 1 .. Len(wire) : wire[i] \in Lines
  BY LineTypes
<1>2. Fresh(inbox)'
  <2>1. ASSUME NEW i \in 1 .. Len(inbox), Early(inbox[i]) PROVE \E l \in Lines : inbox[i] = l /\ Unheard(l)'
    <3>1. PICK l \in Lines : l = inbox[i]
      BY <1>1
    <3>2. Early(l) /\ Unheard(l)
      BY <2>1, <3>1 DEF Kept, Fresh
    <3>3. Unheard(l)'
      BY <3>2
    <3> QED
      BY <3>1, <3>3
  <2> QED
    BY <2>1 DEF Fresh, Unheard, Early
<1>3. Fresh(wire)'
  <2>1. ASSUME NEW i \in 1 .. Len(wire), Early(wire[i]) PROVE \E l \in Lines : wire[i] = l /\ Unheard(l)'
    <3>1. PICK l \in Lines : l = wire[i]
      BY <1>1
    <3>2. Early(l) /\ Unheard(l)
      BY <2>1, <3>1 DEF Kept, Fresh
    <3>3. Unheard(l)'
      BY <3>2
    <3> QED
      BY <3>1, <3>3
  <2> QED
    BY <2>1 DEF Fresh, Unheard, Early
<1>4. (Ordered(inbox) /\ Ordered(wire) /\ Precedes(inbox, wire))'
  BY DEF Kept, Ordered, Precedes, Early, Before
<1> QED
  BY <1>2, <1>3, <1>4 DEF Kept

(* line l arrives behind s and before t *)
LEMMA LineArrives ==
  ASSUME NEW s \in Seq(Lines), NEW t \in Seq(Lines), NEW l \in Lines, Kept(s, t),
         Early(l) => Unheard(l),
         \A i \in 1 .. Len(s) : Early(s[i]) /\ Early(l) => Before(s[i], l),
         \A j \in 1 .. Len(t) : Early(l) /\ Early(t[j]) => Before(l, t[j])
  PROVE  Kept(Append(s, l), t)
<1> DEFINE u == Append(s, l)
<1>1. /\ Len(s) \in Nat /\ Len(u) = Len(s) + 1 /\ u[Len(s) + 1] = l
      /\ \A i \in 1 .. Len(s) : u[i] = s[i]
  BY LenProperties, AppendProperties
<1> HIDE DEF u
<1>2. \A i \in 1 .. Len(u) : i \in 1 .. Len(s) \/ i = Len(s) + 1
  BY <1>1
<1>3. Fresh(u)
  BY <1>1, <1>2 DEF Kept, Fresh
<1>4. Ordered(u)
  <2> SUFFICES ASSUME NEW i \in 1 .. Len(u), NEW j \in 1 .. Len(u), i < j, Early(u[i]), Early(u[j])
               PROVE  Before(u[i], u[j])
    BY DEF Ordered
  <2>1. i \in 1 .. Len(s) /\ u[i] = s[i]
    BY <1>1, <1>2
  <2>2. CASE j \in 1 .. Len(s)
    BY <1>1, <2>1, <2>2 DEF Kept, Ordered
  <2>3. CASE j = Len(s) + 1
    BY <1>1, <2>1, <2>3
  <2> QED
    BY <1>2, <2>2, <2>3
<1>5. Precedes(u, t)
  BY <1>1, <1>2 DEF Kept, Precedes
<1>6. Kept(u, t)
  BY <1>3, <1>4, <1>5 DEF Kept
<1> QED
  BY <1>6 DEF u

(* of the request that is read, before and at its last line *)
LEMMA InHand ==
  ASSUME HttpInv, parsing # "AwaitingRequest"
  PROVE  /\ request \in 1 .. Len(plan) /\ request <= requested
         /\ parsing \in {"AwaitingHeaders", "AwaitingContent"} => executed[request] = 0 /\ NotReplied
         /\ parsing = "RequestParsed" => \/ plan[request] = "QUIET" /\ NotReplied
                                         \/ plan[request] = "UPGRADE" /\ executed[request] = 1
         /\ unlocked => parsing = "RequestParsed" /\ plan[request] = "QUIET"
<1>1. request \in 0 .. Len(plan) /\ Len(plan) \in Nat
  BY LineTypes DEF HttpInv, HttpType
<1>2. request # 0
  BY DEF HttpInv, CurrentKept
<1>3. request \in 1 .. Len(plan)
  BY <1>1, <1>2
<1> QED
  BY <1>3 DEF HttpInv, CurrentKept, Bounded

(* a reply more *)
LEMMA OneMoreReply ==
  ASSUME HttpInv, NEW x \in 0 .. Len(plan), UNCHANGED <<plan, requested>>, replies' = Append(replies, x),
         x # Bad => x <= requested /\ \A n \in 1 .. Len(replies) : replies[n] < x
  PROVE  /\ replies' \in Seq(0 .. Len(plan)) /\ Sorted'
         /\ \A n \in 1 .. Len(replies') : replies'[n] <= requested
         /\ \A r \in Nat : x < r /\ (\A n \in 1 .. Len(replies) : replies[n] < r)
                             => \A n \in 1 .. Len(replies') : replies'[n] < r
<1>1. /\ Len(replies) \in Nat /\ replies \in Seq(0 .. Len(plan)) /\ requested \in Nat
      /\ \A n \in 1 .. Len(replies) : replies[n] \in Nat
  BY LineTypes DEF HttpInv, HttpType
<1>2. /\ replies' \in Seq(0 .. Len(plan)) /\ Len(replies') = Len(replies) + 1 /\ replies'[Len(replies) + 1] = x
      /\ \A n \in 1 .. Len(replies) : replies'[n] = replies[n]
  BY <1>1, AppendProperties
<1>3. \A n \in 1 .. Len(replies') : n \in 1 .. Len(replies) \/ n = Len(replies) + 1
  BY <1>1, <1>2
<1>4. x \in Nat /\ x <= requested
  BY <1>1, LineTypes DEF HttpInv, Bad
<1>5. \A n \in 1 .. Len(replies') : replies'[n] <= requested
  BY <1>2, <1>3, <1>4 DEF HttpInv, Bounded
<1>6. Sorted'
  <2>1. ASSUME NEW i \in 1 .. Len(replies'), NEW j \in 1 .. Len(replies'), i < j, replies'[j] # Bad
        PROVE  replies'[i] < replies'[j]
    <3>1. i \in 1 .. Len(replies) /\ replies'[i] = replies[i]
      BY <1>1, <1>2, <1>3, <2>1
    <3>2. CASE j \in 1 .. Len(replies)
      BY <1>2, <2>1, <3>1, <3>2 DEF HttpInv, Sorted
    <3>3. CASE j = Len(replies) + 1
      BY <1>2, <2>1, <3>1, <3>3
    <3> QED
      BY <1>3, <3>2, <3>3
  <2> QED
    BY <2>1 DEF Sorted, Bad
<1>7. \A r \in Nat : x < r /\ (\A n \in 1 .. Len(replies) : replies[n] < r)
                             => \A n \in 1 .. Len(replies') : replies'[n] < r
  BY <1>2, <1>3
<1> QED
  BY <1>2, <1>5, <1>6, <1>7

(* the current request is handed on, or nothing is *)
LEMMA HandedOn ==
  ASSUME HttpInv, plan' = plan,
         \/ executed' = executed
         \/ /\ request \in 1 .. Len(plan) /\ executed' = [executed EXCEPT ![request] = @ + 1]
            /\ executed[request] = 0 \/ plan[request] = "QUIET"
  PROVE  /\ executed' \in [DOMAIN plan -> Nat] /\ Once'
         /\ \A r \in 1 .. Len(plan) : r # request => executed'[r] = executed[r]
<1>1. executed \in [1 .. Len(plan) -> Nat] /\ DOMAIN plan = 1 .. Len(plan)
  BY LineTypes DEF HttpInv, HttpType
<1>2. CASE executed' = executed
  BY <1>1, <1>2 DEF HttpInv, Once
<1>3. CASE /\ request \in 1 .. Len(plan) /\ executed' = [executed EXCEPT ![request] = @ + 1]
           /\ executed[request] = 0 \/ plan[request] = "QUIET"
  <2>1. executed' \in [1 .. Len(plan) -> Nat]
    BY <1>1, <1>3
  <2>2. \A r \in 1 .. Len(plan) : executed'[r] = IF r = request THEN executed[request] + 1 ELSE executed[r]
    BY <1>1, <1>3
  <2>3. ASSUME NEW r \in 1 .. Len(plan), executed'[r] > 1 PROVE plan[r] = "QUIET"
    <3>1. CASE r = request
      BY <1>1, <1>3, <2>2, <2>3, <3>1
    <3>2. CASE r # request
      BY <2>2, <2>3, <3>2 DEF HttpInv, Once
    <3> QED
      BY <3>1, <3>2
  <2>4. Once'
    BY <2>3 DEF Once
  <2> QED
    BY <1>1, <2>1, <2>2, <2>4
<1> QED
  BY <1>2, <1>3

(* sendReplyToClient() with x, Bad or the current request, that was handed on or not *)
LEMMA ReplyInv ==
  ASSUME HttpInv, UNCHANGED <<plan, requested, wire>>,
         NEW x, x \in {Bad, request}, SendReplyToClient(x), x # Bad => NotReplied, unlocked' = FALSE,
         \/ executed' = executed
         \/ /\ request \in 1 .. Len(plan) /\ executed' = [executed EXCEPT ![request] = @ + 1]
            /\ executed[request] = 0 \/ plan[request] = "QUIET"
  PROVE  /\ Bounded' /\ CurrentKept' /\ Sorted' /\ Once'
         /\ inbox' \in Seq(Lines) => HttpType'
         /\ \A l \in Lines : Unheard(l) => Unheard(l)'
<1>1. /\ parsing' = "AwaitingRequest" /\ request' = 0 /\ replies' = Append(replies, x) /\ connected' \in BOOLEAN
  BY DEF SendReplyToClient
<1>2. /\ Len(plan) \in Nat /\ requested \in Nat /\ request \in Nat /\ request \in 0 .. Len(plan) /\ request <= requested
      /\ DOMAIN plan = 1 .. Len(plan)
  BY LineTypes DEF HttpInv, HttpType, Bounded
<1>3. x \in 0 .. Len(plan) /\ (x # Bad => x <= requested /\ \A n \in 1 .. Len(replies) : replies[n] < x)
  BY <1>2 DEF Bad, NotReplied
<1>4. /\ replies' \in Seq(0 .. Len(plan)) /\ Sorted'
      /\ \A n \in 1 .. Len(replies') : replies'[n] <= requested
      /\ \A r \in Nat : x < r /\ (\A n \in 1 .. Len(replies) : replies[n] < r)
                          => \A n \in 1 .. Len(replies') : replies'[n] < r
  BY <1>1, <1>3, OneMoreReply
<1>5. /\ executed' \in [DOMAIN plan -> Nat] /\ Once'
      /\ \A r \in 1 .. Len(plan) : r # request => executed'[r] = executed[r]
  BY HandedOn
<1>6. Bounded'
  <2>1. \A r \in 1 .. Len(plan) : requested < r => executed'[r] = 0
    BY <1>2, <1>5 DEF HttpInv, Bounded
  <2> QED
    BY <1>1, <1>2, <1>4, <2>1 DEF Bounded
<1>7. CurrentKept'
  BY <1>1 DEF CurrentKept
<1>8. ASSUME NEW l \in Lines, Unheard(l) PROVE Unheard(l)'
  <2>1. l.r \in Nat /\ request < l.r /\ x < l.r /\ 0 < l.r
    BY <1>2, <1>8, LineTypes DEF HttpInv, Unheard, Bad
  <2>2. \A n \in 1 .. Len(replies') : replies'[n] < l.r
    BY <1>4, <1>8, <2>1 DEF Unheard
  <2>3. \A r \in 1 .. Len(plan) : l.r <= r => executed'[r] = 0
    BY <1>2, <1>5, <1>8, <2>1 DEF Unheard
  <2> QED
    BY <1>1, <1>8, <2>1, <2>2, <2>3 DEF Unheard
<1>9. ASSUME inbox' \in Seq(Lines) PROVE HttpType'
  <2>1. Lines' = Lines
    BY DEF Lines
  <2>2. wire \in Seq(Lines) /\ plan \in Seq({"GET", "LAST", "RPC", "QUIET", "UPGRADE"}) /\ requested \in 0 .. Len(plan)
    BY DEF HttpInv, HttpType
  <2>3. wire' \in Seq(Lines') /\ inbox' \in Seq(Lines')
    BY <1>9, <2>1, <2>2, Zenon
  <2>4. request' \in 0 .. Len(plan')
    <3>1. 0 \in 0 .. Len(plan)
      BY <1>2
    <3> QED
      BY <1>1, <3>1
  <2>6. unlocked' \in BOOLEAN /\ connected' \in BOOLEAN
    BY <1>1, Zenon
  <2>5. replies' \in Seq(0 .. Len(plan')) /\ executed' \in [DOMAIN plan' -> Nat]
    BY <1>4, <1>5, Zenon
  <2> QED
    BY <1>1, <2>2, <2>3, <2>4, <2>5, <2>6 DEF HttpType
<1> QED
  BY <1>4, <1>5, <1>6, <1>7, <1>8, <1>9

LEMMA ReadStartInv == ASSUME HttpInv, inbox # <<>>, ReadStart, UNCHANGED <<plan, requested, wire>> PROVE HttpInv'
<1> DEFINE l == inbox[1]
<1>1. /\ Parsed(l) \in {"AwaitingHeaders", "AwaitingContent"} /\ inbox' = Tail(inbox) /\ parsing' = Parsed(l)
      /\ request' = IF parsing = "AwaitingRequest" THEN l.r ELSE request
      /\ UNCHANGED <<unlocked, executed, replies, connected>>
  BY DEF ReadStart
<1>2. /\ Len(plan) \in Nat /\ requested \in Nat /\ request \in Nat /\ l \in Lines /\ l.r \in 1 .. Len(plan) /\ 1 \in 1 .. Len(inbox)
  <2>1. 1 \in 1 .. Len(inbox)
    BY LineTypes, EmptySeq DEF HttpInv, HttpType
  <2> QED
    BY <2>1, LineTypes DEF HttpInv
<1> HIDE DEF l
<1>a. parsing \in {"AwaitingRequest", "AwaitingHeaders", "AwaitingContent", "RequestParsed"}
  BY DEF HttpInv, HttpType
<1>3. CASE parsing = "AwaitingRequest"
  <2>1. l.k = "start" /\ parsing' = "AwaitingHeaders"
    BY <1>1, <1>3 DEF Parsed
  <2>2. Early(l) /\ Unheard(l)
    BY <1>2, <2>1 DEF HttpInv, Kept, Fresh, Early, l
  <2>3. request' = l.r /\ l.r <= requested /\ executed[l.r] = 0 /\ \A n \in 1 .. Len(replies) : replies[n] < l.r
    BY <1>1, <1>2, <1>3, <2>2 DEF Unheard
  <2>4. ASSUME NEW m \in Lines, Unheard(m), Before(l, m) PROVE Unheard(m)'
    <3>1. l.r < m.r
      BY <2>1, <2>4 DEF Before
    <3> QED
      BY <1>1, <2>3, <2>4, <3>1 DEF Unheard
  <2>5. Kept(inbox, wire)' /\ inbox' \in Seq(Lines)
    BY <1>1, <2>2, <2>4, LinesRead DEF HttpInv, l
  <2>6. HttpType'
    <3>1. Lines' = Lines
      BY DEF Lines
    <3>2. wire' \in Seq(Lines') /\ inbox' \in Seq(Lines')
      BY <2>5, <3>1 DEF HttpInv, HttpType
    <3> QED
      BY <1>1, <1>2, <2>1, <2>3, <3>2 DEF HttpInv, HttpType
  <2>7. Bounded'
    BY <1>1, <2>3 DEF HttpInv, Bounded
  <2>8. CurrentKept'
    <3>1. ~unlocked
      BY <1>3 DEF HttpInv, CurrentKept
    <3>2. request' # 0 /\ NotReplied'
      BY <1>1, <1>2, <2>3 DEF NotReplied
    <3> QED
      BY <1>1, <2>1, <2>3, <3>1, <3>2 DEF CurrentKept
  <2>9. Sorted' /\ Once'
    BY <1>1 DEF HttpInv, Sorted, Once
  <2> QED
    BY <2>5, <2>6, <2>7, <2>8, <2>9 DEF HttpInv
<1>4. CASE parsing # "AwaitingRequest"
  <2>1. parsing = "AwaitingHeaders" /\ request' = request
    BY <1>1, <1>4, <1>a DEF Parsed
  <2>2. \A m \in Lines : Unheard(m) => Unheard(m)'
    BY <1>1, <2>1 DEF Unheard
  <2>3. Kept(inbox, wire)' /\ inbox' \in Seq(Lines)
    BY <1>1, <2>2, LinesRead DEF HttpInv, l
  <2>4. HttpType'
    <3>1. Lines' = Lines
      BY DEF Lines
    <3>2. wire' \in Seq(Lines') /\ inbox' \in Seq(Lines')
      BY <2>3, <3>1 DEF HttpInv, HttpType
    <3> QED
      BY <1>1, <2>1, <3>2 DEF HttpInv, HttpType
  <2>5. Bounded'
    BY <1>1, <2>1 DEF HttpInv, Bounded
  <2>6. CurrentKept'
    <3>1. ~unlocked /\ executed[request] = 0 /\ NotReplied /\ request # 0
      BY <1>4, <2>1 DEF HttpInv, CurrentKept
    <3>2. NotReplied'
      BY <1>1, <2>1, <3>1 DEF NotReplied
    <3> QED
      BY <1>1, <2>1, <3>1, <3>2 DEF CurrentKept
  <2>7. Sorted' /\ Once'
    BY <1>1 DEF HttpInv, Sorted, Once
  <2> QED
    BY <2>3, <2>4, <2>5, <2>6, <2>7 DEF HttpInv
<1> QED
  BY <1>3, <1>4

(* the last line of a request is never the first *)
LEMMA LastLine ==
  ASSUME HttpInv, NEW l, Parsed(l) = "RequestParsed"
  PROVE  parsing \in {"AwaitingHeaders", "AwaitingContent", "RequestParsed"}
<1>1. parsing \in {"AwaitingRequest", "AwaitingHeaders", "AwaitingContent", "RequestParsed"}
  BY DEF HttpInv, HttpType
<1>2. parsing # "AwaitingRequest"
  BY DEF Parsed
<1> QED
  BY <1>1, <1>2

LEMMA ReadErrorInv == ASSUME HttpInv, inbox # <<>>, ReadError, UNCHANGED <<plan, requested, wire>> PROVE HttpInv'
<1>1. /\ inbox' = <<>> /\ SendReplyToClient(Bad) /\ UNCHANGED <<unlocked, executed>>
      /\ parsing # "RequestParsed"
  BY DEF ReadError, Parsed
<1>2. unlocked' = FALSE
  BY <1>1 DEF HttpInv, HttpType, CurrentKept
<1>3. /\ Bounded' /\ CurrentKept' /\ Sorted' /\ Once'
      /\ inbox' \in Seq(Lines) => HttpType'
      /\ \A l \in Lines : Unheard(l) => Unheard(l)'
  BY <1>1, <1>2, ReplyInv
<1>4. Kept(inbox, wire)' /\ inbox' \in Seq(Lines)
  BY <1>1, <1>3, LinesRead DEF HttpInv
<1> QED
  BY <1>3, <1>4 DEF HttpInv

LEMMA ReadFileInv == ASSUME HttpInv, inbox # <<>>, ReadFile, UNCHANGED <<plan, requested, wire>> PROVE HttpInv'
<1>1. /\ plan[request] \in {"GET", "LAST"} /\ inbox' = Tail(inbox)
      /\ executed' = [executed EXCEPT ![request] = @ + 1] /\ SendReplyToClient(request) /\ UNCHANGED unlocked
      /\ Parsed(Head(inbox)) = "RequestParsed"
  BY DEF ReadFile
<1>2. /\ request \in 1 .. Len(plan) /\ executed[request] = 0 /\ NotReplied /\ unlocked' = FALSE
  <2>1. parsing \in {"AwaitingHeaders", "AwaitingContent", "RequestParsed"} /\ unlocked \in BOOLEAN
    BY <1>1, LastLine DEF HttpInv, HttpType
  <2> QED
    BY <1>1, <2>1, InHand
<1>3. /\ Bounded' /\ CurrentKept' /\ Sorted' /\ Once'
      /\ inbox' \in Seq(Lines) => HttpType'
      /\ \A l \in Lines : Unheard(l) => Unheard(l)'
  BY <1>1, <1>2, ReplyInv
<1>4. Kept(inbox, wire)' /\ inbox' \in Seq(Lines)
  BY <1>1, <1>3, LinesRead DEF HttpInv
<1> QED
  BY <1>3, <1>4 DEF HttpInv

LEMMA HandleCallbackInv == ASSUME HttpInv, HandleCallback PROVE HttpInv'
<1>1. /\ unlocked /\ unlocked' = FALSE /\ SendReplyToClient(request) /\ UNCHANGED <<plan, requested, wire, inbox, executed>>
  BY DEF HandleCallback
<1>2. NotReplied
  <2>1. parsing = "RequestParsed" /\ plan[request] = "QUIET"
    BY <1>1 DEF HttpInv, CurrentKept
  <2> QED
    BY <2>1 DEF HttpInv, CurrentKept
<1>3. /\ Bounded' /\ CurrentKept' /\ Sorted' /\ Once'
      /\ inbox' \in Seq(Lines) => HttpType'
      /\ \A l \in Lines : Unheard(l) => Unheard(l)'
  BY <1>1, <1>2, ReplyInv
<1>4. Kept(inbox, wire)' /\ inbox' \in Seq(Lines)
  BY <1>1, <1>3, LinesStay DEF HttpInv, HttpType
<1> QED
  BY <1>3, <1>4 DEF HttpInv

LEMMA ReadRpcInv == ASSUME HttpInv, inbox # <<>>, ReadRpc, UNCHANGED <<plan, requested, wire>> PROVE HttpInv'
<1>1. /\ inbox' = Tail(inbox) /\ executed' = [executed EXCEPT ![request] = @ + 1]
      /\ \/ plan[request] = "RPC" /\ unlocked' = FALSE /\ SendReplyToClient(request)
         \/ /\ plan[request] = "QUIET" /\ unlocked' = TRUE /\ parsing' = "RequestParsed"
            /\ UNCHANGED <<request, replies, connected>>
      /\ Parsed(Head(inbox)) = "RequestParsed"
  BY DEF ReadRpc
<1>2. parsing \in {"AwaitingHeaders", "AwaitingContent", "RequestParsed"}
  BY <1>1, LastLine
<1>3. CASE plan[request] = "RPC"
  <2>1. /\ request \in 1 .. Len(plan) /\ executed[request] = 0 /\ NotReplied
    BY <1>2, <1>3, InHand
  <2>2. unlocked' = FALSE /\ SendReplyToClient(request)
    BY <1>1, <1>3
  <2>3. /\ Bounded' /\ CurrentKept' /\ Sorted' /\ Once'
        /\ inbox' \in Seq(Lines) => HttpType'
        /\ \A l \in Lines : Unheard(l) => Unheard(l)'
    BY <1>1, <2>1, <2>2, ReplyInv
  <2>4. Kept(inbox, wire)' /\ inbox' \in Seq(Lines)
    BY <1>1, <2>3, LinesRead DEF HttpInv
  <2> QED
    BY <2>3, <2>4 DEF HttpInv
<1>4. CASE plan[request] = "QUIET"
  <2>1. /\ unlocked' = TRUE /\ parsing' = "RequestParsed" /\ UNCHANGED <<request, replies, connected>>
    BY <1>1, <1>4
  <2>2. request \in 1 .. Len(plan) /\ NotReplied /\ request <= requested /\ requested \in Nat /\ Len(plan) \in Nat
    BY <1>2, <1>4, InHand, LineTypes DEF HttpInv
  <2>3. /\ executed' \in [DOMAIN plan -> Nat] /\ Once'
        /\ \A r \in 1 .. Len(plan) : r # request => executed'[r] = executed[r]
    BY <1>1, <1>4, <2>2, HandedOn
  <2>4. ASSUME NEW l \in Lines, Unheard(l) PROVE Unheard(l)'
    <3>1. \A r \in 1 .. Len(plan) : l.r <= r => r # request /\ executed[r] = 0
      BY <2>2, <2>4, LineTypes DEF HttpInv, Unheard
    <3> QED
      BY <2>1, <2>3, <2>4, <3>1 DEF Unheard
  <2>5. Kept(inbox, wire)' /\ inbox' \in Seq(Lines)
    BY <1>1, <2>4, LinesRead DEF HttpInv
  <2>6. HttpType'
    <3>1. Lines' = Lines
      BY DEF Lines
    <3>2. wire' \in Seq(Lines') /\ inbox' \in Seq(Lines')
      BY <2>5, <3>1 DEF HttpInv, HttpType
    <3> QED
      BY <2>1, <2>3, <3>2 DEF HttpInv, HttpType
  <2>7. Bounded'
    <3>1. \A r \in 1 .. Len(plan) : requested < r => executed'[r] = 0
      BY <2>2, <2>3 DEF HttpInv, Bounded
    <3> QED
      BY <2>1, <3>1 DEF HttpInv, Bounded
  <2>8. CurrentKept'
    <3>1. request' # 0 /\ plan'[request'] = "QUIET" /\ NotReplied'
      BY <1>4, <2>1, <2>2 DEF NotReplied
    <3> QED
      BY <2>1, <3>1 DEF CurrentKept
  <2>9. Sorted'
    BY <2>1 DEF HttpInv, Sorted
  <2> QED
    BY <2>3, <2>5, <2>6, <2>7, <2>8, <2>9 DEF HttpInv
<1> QED
  BY <1>1, <1>3, <1>4

LEMMA ReadUpgradeInv == ASSUME HttpInv, inbox # <<>>, ReadUpgrade, UNCHANGED <<plan, requested, wire>> PROVE HttpInv'
<1>1. /\ plan[request] = "UPGRADE" /\ executed[request] = 0 /\ inbox' = Tail(inbox)
      /\ executed' = [executed EXCEPT ![request] = 1] /\ replies' = Append(replies, request)
      /\ parsing' = "RequestParsed" /\ UNCHANGED <<request, unlocked, connected>>
      /\ Parsed(Head(inbox)) = "RequestParsed"
  BY DEF ReadUpgrade
<1>2. parsing \in {"AwaitingHeaders", "AwaitingContent", "RequestParsed"}
  BY <1>1, LastLine
<1>3. request \in 1 .. Len(plan) /\ NotReplied /\ request <= requested /\ ~unlocked
  BY <1>1, <1>2, InHand
<1>4. requested \in Nat /\ Len(plan) \in Nat /\ DOMAIN plan = 1 .. Len(plan) /\ executed \in [DOMAIN plan -> Nat]
  BY LineTypes DEF HttpInv, HttpType
<1>5. /\ replies' \in Seq(0 .. Len(plan)) /\ Sorted'
      /\ \A n \in 1 .. Len(replies') : replies'[n] <= requested
      /\ \A r \in Nat : request < r /\ (\A n \in 1 .. Len(replies) : replies[n] < r)
                          => \A n \in 1 .. Len(replies') : replies'[n] < r
  <2>1. request \in 0 .. Len(plan)
    BY <1>3, <1>4
  <2> QED
    BY <1>1, <1>3, <2>1, OneMoreReply DEF NotReplied
<1>6. /\ executed' \in [DOMAIN plan -> Nat] /\ executed'[request] = 1
      /\ \A r \in 1 .. Len(plan) : r # request => executed'[r] = executed[r]
  BY <1>1, <1>3, <1>4
<1>7. Once'
  <2>1. ASSUME NEW r \in 1 .. Len(plan), executed'[r] > 1 PROVE plan[r] = "QUIET"
    <3>1. r # request
      BY <1>6, <2>1
    <3> QED
      BY <1>6, <2>1, <3>1 DEF HttpInv, Once
  <2> QED
    BY <2>1 DEF Once
<1>8. ASSUME NEW l \in Lines, Unheard(l) PROVE Unheard(l)'
  <2>1. \A r \in 1 .. Len(plan) : l.r <= r => r # request /\ executed[r] = 0
    BY <1>3, <1>8, LineTypes DEF HttpInv, Unheard
  <2>2. \A n \in 1 .. Len(replies') : replies'[n] < l.r
    BY <1>5, <1>8, LineTypes DEF HttpInv, Unheard
  <2> QED
    BY <1>1, <1>6, <1>8, <2>1, <2>2 DEF Unheard
<1>9. Kept(inbox, wire)' /\ inbox' \in Seq(Lines)
  BY <1>1, <1>8, LinesRead DEF HttpInv
<1>a. HttpType'
  <2>1. Lines' = Lines
    BY DEF Lines
  <2>2. wire' \in Seq(Lines') /\ inbox' \in Seq(Lines')
    BY <1>9, <2>1 DEF HttpInv, HttpType
  <2>3. replies' \in Seq(0 .. Len(plan')) /\ executed' \in [DOMAIN plan' -> Nat]
    BY <1>5, <1>6, Zenon
  <2> QED
    BY <1>1, <2>2, <2>3 DEF HttpInv, HttpType
<1>b. Bounded'
  <2>1. \A r \in 1 .. Len(plan) : requested < r => executed'[r] = 0
    BY <1>3, <1>4, <1>6 DEF HttpInv, Bounded
  <2> QED
    BY <1>1, <1>5, <2>1 DEF HttpInv, Bounded
<1>c. CurrentKept'
  BY <1>1, <1>3, <1>6 DEF CurrentKept
<1> QED
  BY <1>5, <1>7, <1>9, <1>a, <1>b, <1>c DEF HttpInv

(* the lines of a request *)
LEMMA TwoAndOne ==
  ASSUME NEW S, NEW a \in S, NEW b \in S, NEW c \in S
  PROVE  LET s == <<a, b>> \o <<c>>
         IN  s \in Seq(S) /\ Len(s) = 3 /\ s[1] = a /\ s[2] = b /\ s[3] = c
<1> DEFINE t == <<a, b>>
           u == <<c>>
           s == t \o u
<1>1. t \in Seq(S) /\ Len(t) = 2 /\ t[1] = a /\ t[2] = b
  OBVIOUS
<1>2. u \in Seq(S) /\ Len(u) = 1 /\ u[1] = c
  OBVIOUS
<1> HIDE DEF t, u
<1>3. /\ s \in Seq(S) /\ Len(s) = Len(t) + Len(u)
      /\ \A i \in 1 .. Len(t) + Len(u) : s[i] = IF i <= Len(t) THEN t[i] ELSE u[i - Len(t)]
  BY <1>1, <1>2, ConcatProperties
<1> HIDE DEF s
<1>4. Len(s) = 3 /\ s[1] = t[1] /\ s[2] = t[2] /\ s[3] = u[1]
  BY <1>1, <1>2, <1>3
<1> QED
  BY <1>1, <1>2, <1>3, <1>4 DEF s, t, u

LEMMA LinesOfFacts ==
  ASSUME NEW kind, NEW r \in 1 .. Len(plan)
  PROVE  /\ LinesOf(kind, r) \in Seq(Lines) /\ Len(LinesOf(kind, r)) \in Nat /\ Len(LinesOf(kind, r)) >= 1
         /\ LinesOf(kind, r)[1] = Line("start", r)
         /\ \A i \in 1 .. Len(LinesOf(kind, r)) : Early(LinesOf(kind, r)[i]) => i = 1
<1> DEFINE s == LinesOf(kind, r)
           a == Line("start", r)
           b == Line("end", r)
           c == Line("body", r)
<1>1. a \in Lines /\ b \in Lines /\ c \in Lines /\ ~Early(b) /\ ~Early(c)
  BY DEF Line, Lines, Early
<1>2. s = <<a, b>> \o (IF kind \in HasBody THEN <<c>> ELSE <<>>)
  BY DEF LinesOf
<1> HIDE DEF s, a, b, c
<1>3. CASE kind \in HasBody
  <2>1. s = <<a, b>> \o <<c>>
    BY <1>2, <1>3
  <2>2. s \in Seq(Lines) /\ Len(s) = 3 /\ s[1] = a /\ s[2] = b /\ s[3] = c
    BY <1>1, <2>1, TwoAndOne
  <2>3. \A i \in 1 .. 3 : i = 1 \/ i = 2 \/ i = 3
    OBVIOUS
  <2>4. Len(s) \in Nat /\ Len(s) >= 1 /\ \A i \in 1 .. Len(s) : Early(s[i]) => i = 1
    BY <1>1, <2>2, <2>3
  <2> QED
    BY <2>2, <2>4 DEF s, a
<1>4. CASE kind \notin HasBody
  <2>1. <<a, b>> \in Seq(Lines)
    BY <1>1
  <2>2. s = <<a, b>>
    BY <1>2, <1>4, <2>1, ConcatEmptySeq
  <2>3. s \in Seq(Lines) /\ Len(s) = 2 /\ s[1] = a /\ s[2] = b
    BY <1>1, <2>2
  <2>4. \A i \in 1 .. 2 : i = 1 \/ i = 2
    OBVIOUS
  <2>5. Len(s) \in Nat /\ Len(s) >= 1 /\ \A i \in 1 .. Len(s) : Early(s[i]) => i = 1
    BY <1>1, <2>3, <2>4
  <2> QED
    BY <2>3, <2>5 DEF s, a
<1> QED
  BY <1>3, <1>4

LEMMA SendRequestInv == ASSUME HttpInv, SendRequest PROVE HttpInv'
<1> DEFINE q == requested + 1
           s == LinesOf(plan[q], q)
<1>1. /\ wire = <<>> /\ requested < Len(plan) /\ requested' = q
      /\ UNCHANGED <<plan, inbox, parsing, request, unlocked, executed, replies, connected>>
      /\ requested \in Nat /\ Len(plan) \in Nat /\ q \in 1 .. Len(plan)
  BY LineTypes DEF SendRequest, HttpInv
<1>2. wire' = s
  BY <1>1 DEF SendRequest
<1>3. /\ s \in Seq(Lines) /\ Len(s) \in Nat /\ Len(s) >= 1 /\ s[1] = Line("start", q)
      /\ \A i \in 1 .. Len(s) : Early(s[i]) => i = 1
  BY <1>1, LinesOfFacts
<1> HIDE DEF s
<1>4. Line("start", q).r = q /\ Line("start", q).k = "start"
  BY DEF Line
<1>5. ASSUME NEW l \in Lines, Unheard(l) PROVE Unheard(l)' /\ l.r < q
  BY <1>1, <1>5, LineTypes DEF HttpInv, Unheard
<1>6. \A l \in Lines : l.r = q => Unheard(l)'
  BY <1>1, LineTypes DEF HttpInv, Bounded, Unheard
<1>7. /\ \A i \in 1 .. Len(inbox) : inbox[i] \in Lines
      /\ \A i \in 1 .. Len(s) : s[i] \in Lines
  BY <1>3, LineTypes, ElementOfSeq DEF HttpInv
<1>8. Fresh(inbox)'
  <2>1. ASSUME NEW i \in 1 .. Len(inbox), Early(inbox[i]) PROVE \E l \in Lines : inbox[i] = l /\ Unheard(l)'
    BY <1>5, <1>7, <2>1 DEF HttpInv, Kept, Fresh
  <2> QED
    BY <1>1, <2>1 DEF Fresh, Unheard, Early
<1>9. Fresh(wire)'
  <2>1. ASSUME NEW i \in 1 .. Len(s), Early(s[i]) PROVE \E l \in Lines : s[i] = l /\ Unheard(l)'
    <3>1. s[i] \in Lines /\ s[i].r = q
      BY <1>3, <1>4, <1>7, <2>1
    <3> QED
      BY <1>6, <3>1
  <2> QED
    BY <1>2, <2>1 DEF Fresh, Unheard, Early
<1>a. Ordered(inbox)' /\ Ordered(wire)'
  BY <1>1, <1>2, <1>3 DEF HttpInv, Kept, Ordered, Early, Before
<1>b. Precedes(inbox, wire)'
  <2>1. ASSUME NEW i \in 1 .. Len(inbox), NEW j \in 1 .. Len(s), Early(inbox[i]), Early(s[j])
        PROVE  Before(inbox[i], s[j])
    <3>1. s[j].r = q
      BY <1>3, <1>4, <2>1
    <3>2. inbox[i].r < q
      BY <1>5, <1>7, <2>1 DEF HttpInv, Kept, Fresh
    <3> QED
      BY <3>1, <3>2 DEF Before
  <2> QED
    BY <1>1, <1>2, <2>1 DEF Precedes, Early, Before
<1>c. HttpType'
  <2>1. Lines' = Lines
    BY <1>1 DEF Lines
  <2>2. wire' \in Seq(Lines') /\ inbox' \in Seq(Lines')
    BY <1>1, <1>2, <1>3, <2>1 DEF HttpInv, HttpType
  <2>3. requested' \in 0 .. Len(plan)
    BY <1>1
  <2> QED
    BY <1>1, <2>2, <2>3 DEF HttpInv, HttpType
<1>d. Bounded'
  <2>1. request <= q /\ \A n \in 1 .. Len(replies) : replies[n] <= q
    BY <1>1, LineTypes DEF HttpInv, Bounded
  <2> QED
    BY <1>1, <2>1 DEF HttpInv, Bounded
<1>e. CurrentKept' /\ Sorted' /\ Once'
  BY <1>1 DEF HttpInv, CurrentKept, NotReplied, Sorted, Once
<1> QED
  BY <1>8, <1>9, <1>a, <1>b, <1>c, <1>d, <1>e DEF HttpInv, Kept

(* what is kept of a sequence's ends *)
LEMMA KeptTail ==
  ASSUME NEW s \in Seq(Lines), NEW t \in Seq(Lines), t # <<>>, Kept(s, t)
  PROVE  /\ Kept(s, Tail(t)) /\ Tail(t) \in Seq(Lines)
         /\ \A j \in 1 .. Len(Tail(t)) : Early(t[1]) /\ Early(Tail(t)[j]) => Before(t[1], Tail(t)[j])
         /\ Early(t[1]) => Unheard(t[1])
         /\ \A i \in 1 .. Len(s) : Early(s[i]) /\ Early(t[1]) => Before(s[i], t[1])
<1> DEFINE u == Tail(t)
<1>1. /\ Len(t) \in Nat /\ u \in Seq(Lines) /\ Len(u) = Len(t) - 1 /\ Len(u) \in Nat /\ Len(s) \in Nat
      /\ \A i \in 1 .. Len(u) : u[i] = t[i + 1]
  BY LenProperties, HeadTailProperties
<1> HIDE DEF u
<1>2. 1 \in 1 .. Len(t) /\ \A i \in 1 .. Len(u) : i + 1 \in 1 .. Len(t) /\ 1 < i + 1
  BY <1>1
<1>3. Fresh(u) /\ Precedes(s, u)
  BY <1>1, <1>2 DEF Kept, Fresh, Precedes
<1>4. Ordered(u)
  <2> SUFFICES ASSUME NEW i \in 1 .. Len(u), NEW j \in 1 .. Len(u), i < j, Early(u[i]), Early(u[j])
               PROVE  Before(u[i], u[j])
    BY DEF Ordered
  <2>1. i + 1 < j + 1 /\ u[i] = t[i + 1] /\ u[j] = t[j + 1]
    BY <1>1
  <2> QED
    BY <1>2, <2>1 DEF Kept, Ordered
<1>5. Kept(s, u)
  BY <1>3, <1>4 DEF Kept
<1>6. \A j \in 1 .. Len(u) : Early(t[1]) /\ Early(u[j]) => Before(t[1], u[j])
  BY <1>1, <1>2 DEF Kept, Ordered
<1>7. Early(t[1]) => Unheard(t[1])
  BY <1>2 DEF Kept, Fresh
<1>8. \A i \in 1 .. Len(s) : Early(s[i]) /\ Early(t[1]) => Before(s[i], t[1])
  BY <1>2 DEF Kept, Precedes
<1> QED
  BY <1>1, <1>5, <1>6, <1>7, <1>8 DEF u

LEMMA KeptFront ==
  ASSUME NEW s \in Seq(Lines), NEW t \in Seq(Lines), s # <<>>, Kept(s, t)
  PROVE  /\ Kept(Front(s), t) /\ Front(s) \in Seq(Lines) /\ Last(s) \in Lines
         /\ \A i \in 1 .. Len(Front(s)) : Early(Front(s)[i]) /\ Early(Last(s)) => Before(Front(s)[i], Last(s))
         /\ \A j \in 1 .. Len(t) : Early(Last(s)) /\ Early(t[j]) => Before(Last(s), t[j])
<1> DEFINE u == Front(s)
           n == Len(s)
<1>1. n \in Nat /\ Len(t) \in Nat /\ n >= 1 /\ Last(s) = s[n] /\ n \in 1 .. Len(s) /\ s[n] \in Lines
  BY LenProperties, EmptySeq, ElementOfSeq DEF Last
<1>2. u \in Seq(Lines) /\ Len(u) = n - 1 /\ \A i \in 1 .. n - 1 : u[i] = s[i]
  <2>1. n - 1 \in 0 .. Len(s)
    BY <1>1
  <2> QED
    BY <2>1, Taken DEF Front
<1> HIDE DEF u, n
<1>3. \A i \in 1 .. Len(u) : i \in 1 .. Len(s) /\ i < n /\ u[i] = s[i]
  BY <1>1, <1>2 DEF n
<1>4. Fresh(u) /\ Ordered(u) /\ Precedes(u, t)
  BY <1>3 DEF Kept, Fresh, Ordered, Precedes
<1>5. Kept(u, t)
  BY <1>4 DEF Kept
<1>6. \A i \in 1 .. Len(u) : Early(u[i]) /\ Early(s[n]) => Before(u[i], s[n])
  BY <1>1, <1>3 DEF Kept, Ordered
<1>7. \A j \in 1 .. Len(t) : Early(s[n]) /\ Early(t[j]) => Before(s[n], t[j])
  BY <1>1 DEF Kept, Precedes
<1> QED
  BY <1>1, <1>2, <1>5, <1>6, <1>7 DEF u

(* line l lies before t and behind s *)
LEMMA LineStays ==
  ASSUME NEW s \in Seq(Lines), NEW t \in Seq(Lines), NEW l \in Lines, Kept(s, t),
         Early(l) => Unheard(l),
         \A i \in 1 .. Len(s) : Early(s[i]) /\ Early(l) => Before(s[i], l),
         \A j \in 1 .. Len(t) : Early(l) /\ Early(t[j]) => Before(l, t[j])
  PROVE  Kept(s, <<l>> \o t) /\ <<l>> \o t \in Seq(Lines)
<1> DEFINE one == <<l>>
           u == one \o t
<1>1. one \in Seq(Lines) /\ Len(one) = 1 /\ one[1] = l
  OBVIOUS
<1> HIDE DEF one
<1>2. /\ Len(t) \in Nat /\ u \in Seq(Lines) /\ Len(u) = Len(one) + Len(t)
      /\ \A i \in 1 .. Len(one) + Len(t) : u[i] = IF i <= Len(one) THEN one[i] ELSE t[i - Len(one)]
  BY <1>1, LenProperties, ConcatProperties
<1> HIDE DEF u
<1>3. \A i \in 1 .. Len(u) : (i = 1 /\ u[i] = l) \/ (i > 1 /\ i - 1 \in 1 .. Len(t) /\ u[i] = t[i - 1])
  BY <1>1, <1>2
<1>4. Fresh(u) /\ Precedes(s, u)
  BY <1>3 DEF Kept, Fresh, Precedes
<1>5. Ordered(u)
  <2> SUFFICES ASSUME NEW i \in 1 .. Len(u), NEW j \in 1 .. Len(u), i < j, Early(u[i]), Early(u[j])
               PROVE  Before(u[i], u[j])
    BY DEF Ordered
  <2>1. i \in Int /\ j \in Int
    BY <1>2
  <2>2. j > 1 /\ j - 1 \in 1 .. Len(t) /\ u[j] = t[j - 1]
    BY <1>3, <2>1
  <2>3. CASE i = 1
    BY <1>3, <2>2, <2>3
  <2>4. CASE i > 1
    <3>1. i - 1 \in 1 .. Len(t) /\ u[i] = t[i - 1] /\ i - 1 < j - 1
      BY <1>3, <2>1, <2>4
    <3> QED
      BY <2>2, <3>1 DEF Kept, Ordered
  <2> QED
    BY <1>3, <2>3, <2>4
<1>6. Kept(s, u)
  BY <1>4, <1>5 DEF Kept
<1> QED
  BY <1>2, <1>6 DEF u, one

LEMMA ArriveKept == ASSUME HttpInv, Arrive PROVE Kept(inbox, wire)' /\ HttpType'
<1> DEFINE l == wire[1]
           u == Tail(wire)
<1>1. /\ inbox \in Seq(Lines) /\ wire \in Seq(Lines) /\ wire # <<>> /\ l \in Lines /\ Kept(inbox, wire)
      /\ UNCHANGED <<plan, requested, parsing, request, unlocked, executed, replies, connected>>
  <2>1. wire # <<>> /\ UNCHANGED <<plan, requested, parsing, request, unlocked, executed, replies, connected>>
    BY DEF Arrive
  <2>2. inbox \in Seq(Lines) /\ wire \in Seq(Lines) /\ Kept(inbox, wire)
    BY DEF HttpInv, HttpType
  <2>3. 1 \in 1 .. Len(wire)
    BY <2>1, <2>2, LenProperties, EmptySeq
  <2> QED
    BY <2>1, <2>2, <2>3, ElementOfSeq
<1>2. /\ Kept(inbox, u) /\ u \in Seq(Lines)
      /\ \A j \in 1 .. Len(u) : Early(l) /\ Early(u[j]) => Before(l, u[j])
      /\ Early(l) => Unheard(l)
      /\ \A i \in 1 .. Len(inbox) : Early(inbox[i]) /\ Early(l) => Before(inbox[i], l)
  BY <1>1, KeptTail
<1>3. l.r \in 1 .. Len(plan) /\ l.r \in Nat
  BY <1>1, LineTypes DEF HttpInv
<1>4. /\ \A i \in 1 .. Len(inbox) : inbox[i] \in Lines /\ inbox[i].r \in Nat
      /\ \A j \in 1 .. Len(u) : u[j] \in Lines /\ u[j].r \in Nat
  BY <1>1, <1>2, LineTypes, ElementOfSeq DEF HttpInv
<1>5. \/ wire' = u /\ inbox' = Append(inbox, l)
      \/ /\ l.k = "rest" /\ inbox # <<>> /\ Last(inbox).k = "part"
         /\ wire' = u /\ inbox' = Append(Front(inbox), Line("start", l.r))
      \/ /\ l.k = "start" /\ wire' = <<Line("rest", l.r)>> \o u
         /\ inbox' = Append(inbox, Line("part", l.r))
  BY DEF Arrive
<1> HIDE DEF l, u
<1> SUFFICES Kept(inbox', wire') /\ inbox' \in Seq(Lines) /\ wire' \in Seq(Lines)
  <2>1. ASSUME Kept(inbox', wire') PROVE Kept(inbox, wire)'
    BY <1>1, <2>1 DEF Kept, Fresh, Unheard, Ordered, Precedes, Early, Before
  <2>2. ASSUME inbox' \in Seq(Lines), wire' \in Seq(Lines) PROVE HttpType'
    <3>1. Lines' = Lines
      BY <1>1 DEF Lines
    <3>2. inbox' \in Seq(Lines') /\ wire' \in Seq(Lines')
      BY <2>2, <3>1, Zenon
    <3> QED
      BY <1>1, <3>2 DEF HttpInv, HttpType
  <2> QED
    BY <2>1, <2>2
<1>6. CASE wire' = u /\ inbox' = Append(inbox, l)
  <2>1. Kept(Append(inbox, l), u)
    BY <1>1, <1>2, LineArrives
  <2>2. Append(inbox, l) \in Seq(Lines)
    BY <1>1, AppendProperties
  <2> QED
    BY <1>2, <1>6, <2>1, <2>2
<1>7. CASE /\ l.k = "rest" /\ inbox # <<>> /\ Last(inbox).k = "part"
           /\ wire' = u /\ inbox' = Append(Front(inbox), Line("start", l.r))
  <2> DEFINE f == Front(inbox)
             m == Last(inbox)
             n == Line("start", l.r)
  <2>1. /\ Kept(f, u) /\ f \in Seq(Lines) /\ m \in Lines
        /\ \A i \in 1 .. Len(f) : Early(f[i]) /\ Early(m) => Before(f[i], m)
    BY <1>1, <1>2, <1>7, KeptFront
  <2>2. /\ Kept(f, wire)
        /\ \A j \in 1 .. Len(wire) : Early(m) /\ Early(wire[j]) => Before(m, wire[j])
    BY <1>1, <1>7, KeptFront
  <2>3. n \in Lines /\ n.r = l.r /\ Early(l) /\ Early(m) /\ m.k = "part" /\ m.r \in Nat
    BY <1>3, <1>7, <2>1, LineTypes DEF Line, Lines, Early, HttpInv
  <2> HIDE DEF f, m, n
  <2>4. Unheard(n)
    BY <1>2, <2>3 DEF Unheard
  <2>5. m.r <= l.r
    <3>1. 1 \in 1 .. Len(wire)
      BY <1>1, LenProperties, EmptySeq
    <3>2. Before(m, l)
      BY <2>2, <2>3, <3>1 DEF l
    <3> QED
      BY <1>3, <2>3, <3>2 DEF Before
  <2>6. \A i \in 1 .. Len(f) : Early(f[i]) => Before(f[i], n)
    <3>1. ASSUME NEW i \in 1 .. Len(f), Early(f[i]) PROVE Before(f[i], n)
      <4>1. f[i] \in Lines /\ f[i].r \in Nat
        BY <2>1, LineTypes, ElementOfSeq DEF HttpInv
      <4>2. f[i].r < m.r
        BY <2>1, <2>3, <3>1 DEF Before
      <4> QED
        BY <1>3, <2>3, <2>5, <4>1, <4>2 DEF Before
    <3> QED
      BY <3>1
  <2>7. \A j \in 1 .. Len(u) : Early(u[j]) => Before(n, u[j])
    BY <1>2, <1>7, <2>3 DEF Before
  <2>8. Kept(Append(f, n), u) /\ Append(f, n) \in Seq(Lines)
    BY <1>2, <2>1, <2>3, <2>4, <2>6, <2>7, LineArrives, AppendProperties
  <2> QED
    BY <1>2, <1>7, <2>8 DEF f, n
<1>8. CASE /\ l.k = "start" /\ wire' = <<Line("rest", l.r)>> \o u
           /\ inbox' = Append(inbox, Line("part", l.r))
  <2> DEFINE p == Line("part", l.r)
             r == Line("rest", l.r)
             v == <<r>> \o u
  <2>1. /\ p \in Lines /\ r \in Lines /\ p.r = l.r /\ r.r = l.r /\ p.k = "part" /\ r.k = "rest" /\ Early(l)
    BY <1>3, <1>8 DEF Line, Lines, Early
  <2> HIDE DEF p, r
  <2>2. Unheard(p) /\ Unheard(r)
    BY <1>2, <2>1 DEF Unheard
  <2>3. \A i \in 1 .. Len(inbox) : Early(inbox[i]) => inbox[i].r < l.r
    BY <1>2, <1>8, <2>1 DEF Before
  <2>4. \A j \in 1 .. Len(u) : Early(u[j]) => l.r < u[j].r
    BY <1>2, <1>8, <2>1 DEF Before
  <2>5. Kept(inbox, v) /\ v \in Seq(Lines)
    <3>1. /\ \A i \in 1 .. Len(inbox) : Early(inbox[i]) => Before(inbox[i], r)
          /\ \A j \in 1 .. Len(u) : Early(u[j]) => Before(r, u[j])
      BY <2>1, <2>3, <2>4 DEF Before
    <3> QED
      BY <1>1, <1>2, <2>1, <2>2, <3>1, LineStays
  <2>6. /\ \A i \in 1 .. Len(inbox) : Early(inbox[i]) => Before(inbox[i], p)
        /\ \A j \in 1 .. Len(v) : Early(v[j]) => Before(p, v[j])
    <3> DEFINE one == <<r>>
    <3>1. one \in Seq(Lines) /\ Len(one) = 1 /\ one[1] = r
      BY <2>1
    <3> HIDE DEF one
    <3>2. /\ Len(u) \in Nat /\ Len(one \o u) = Len(one) + Len(u)
          /\ \A i \in 1 .. Len(one) + Len(u) : (one \o u)[i] = IF i <= Len(one) THEN one[i] ELSE u[i - Len(one)]
      BY <1>2, <3>1, LenProperties, ConcatProperties
    <3>3. \A i \in 1 .. Len(v) : v[i] = r \/ (i - 1 \in 1 .. Len(u) /\ v[i] = u[i - 1])
      BY <3>1, <3>2 DEF one
    <3> QED
      BY <2>1, <2>3, <2>4, <3>3 DEF Before
  <2> HIDE DEF v
  <2>7. Kept(Append(inbox, p), v) /\ Append(inbox, p) \in Seq(Lines)
    BY <1>1, <2>1, <2>2, <2>5, <2>6, LineArrives, AppendProperties
  <2> QED
    BY <1>8, <2>5, <2>7 DEF v, p, r
<1> QED
  BY <1>5, <1>6, <1>7, <1>8

LEMMA ArriveInv == ASSUME HttpInv, Arrive PROVE HttpInv'
<1>1. Kept(inbox, wire)' /\ HttpType'
  BY ArriveKept
<1>2. UNCHANGED <<plan, requested, parsing, request, unlocked, executed, replies, connected>>
  BY DEF Arrive
<1>3. Bounded' /\ CurrentKept' /\ Sorted' /\ Once'
  BY <1>2 DEF HttpInv, Bounded, CurrentKept, NotReplied, Sorted, Once
<1> QED
  BY <1>1, <1>3 DEF HttpInv

LEMMA HttpInitInv == HttpInit => HttpInv
<1> SUFFICES ASSUME HttpInit PROVE HttpInv
  OBVIOUS
<1>1. /\ plan \in Seq({"GET", "LAST", "RPC", "QUIET", "UPGRADE"}) /\ requested = 0 /\ wire = <<>>
      /\ inbox = <<>> /\ replies = <<>> /\ parsing = "AwaitingRequest" /\ request = 0 /\ unlocked = FALSE
      /\ executed = [r \in DOMAIN plan |-> 0] /\ connected = TRUE
  BY PlansAssumption DEF HttpInit
<1>2. Len(plan) \in Nat /\ DOMAIN plan = 1 .. Len(plan)
  BY <1>1, LenProperties
<1>3. Len(inbox) = 0 /\ Len(wire) = 0 /\ Len(replies) = 0
  BY <1>1, EmptySeq
<1>4. inbox \in Seq(Lines) /\ wire \in Seq(Lines) /\ replies \in Seq(0 .. Len(plan))
  BY <1>1, EmptySeq
<1>5. HttpType
  <2>1. unlocked \in BOOLEAN /\ connected \in BOOLEAN
    BY <1>1, Zenon
  <2>2. 0 \in 0 .. Len(plan) /\ executed \in [DOMAIN plan -> Nat]
    BY <1>1, <1>2
  <2> QED
    BY <1>1, <1>4, <2>1, <2>2 DEF HttpType
<1>6. Kept(inbox, wire)
  BY <1>3 DEF Kept, Fresh, Ordered, Precedes
<1>7. Bounded /\ CurrentKept /\ Sorted /\ Once
  BY <1>1, <1>2, <1>3 DEF Bounded, CurrentKept, Sorted, Once
<1> QED
  BY <1>5, <1>6, <1>7 DEF HttpInv

LEMMA HttpNextInv == HttpInv /\ (HttpNext \/ UNCHANGED httpVars) => HttpInv'
<1>1. ASSUME HttpInv, LosePlace \/ UNCHANGED httpVars PROVE HttpInv'
  <2>1. UNCHANGED <<plan, requested, wire, inbox, parsing, request, unlocked, executed, replies, connected>>
    BY <1>1 DEF LosePlace, httpVars
  <2> QED
    BY <1>1, <2>1 DEF HttpInv, HttpType, Lines, Kept, Fresh, Ordered, Precedes, Early, Unheard, Before,
                      Bounded, CurrentKept, NotReplied, Sorted, Once
<1>2. ASSUME HttpInv, ReadLine PROVE HttpInv'
  <2>1. inbox # <<>> /\ UNCHANGED <<plan, requested, wire>>
    BY <1>2 DEF ReadLine
  <2>2. ReadStart \/ ReadError \/ ReadRpc \/ ReadFile \/ ReadUpgrade
    BY <1>2 DEF ReadLine
  <2> QED
    BY <1>2, <2>1, <2>2, ReadStartInv, ReadErrorInv, ReadRpcInv, ReadFileInv, ReadUpgradeInv
<1> QED
  BY <1>1, <1>2, SendRequestInv, ArriveInv, HandleCallbackInv DEF HttpNext

LEMMA HttpInOrder == HttpInv => RepliesOnce
<1> SUFFICES ASSUME HttpInv PROVE RepliesOnce
  OBVIOUS
<1>1. DOMAIN replies = 1 .. Len(replies) /\ DOMAIN plan = 1 .. Len(plan)
  BY LenProperties DEF HttpInv, HttpType
<1> QED
  BY <1>1 DEF HttpInv, RepliesOnce, Sorted, Once

-----------------------------------------------------------------------------
(***************************************************************************)
(* WebSocket messages, for every plan of a client.  What is to be read,    *)
(* the header that waits for its payload included, begins between two      *)
(* frames, each piece is followed by the one that its sender sent next, and*)
(* the fragments so far are those of the message it begins in.             *)
(***************************************************************************)

WsKinds == {"TEXT", "BINARY", "PING", "CLOSE", "split", "pinged"}

Pieces == [op : {"TEXT", "BINARY", "CONTINUATION", "PING", "CLOSE", "none"}, fin : BOOLEAN, msg : Nat,
           part : 0 .. 2, payload : BOOLEAN]

HandedOnMessages == [op : {"TEXT", "BINARY", "CONTINUATION"}, msg : Nat, parts : {<<1>>, <<1, 2>>}]

WsType ==
  /\ wsPlan \in Seq(WsKinds) /\ wsSent \in 0 .. Len(wsPlan)
  /\ wsWire \in Seq(Pieces) /\ wsInbox \in Seq(Pieces) /\ wsHeader \in Pieces
  /\ handled \in Seq(HandedOnMessages)
  /\ notEnough \in BOOLEAN /\ onCont \in BOOLEAN /\ wsOpen \in BOOLEAN

(* the pieces that messages are made of *)
OfMessage(p) ==
  LET m == p.msg
      kind == wsPlan[m]
  IN  \E half \in BOOLEAN :
        \/ kind \in {"split", "pinged"} /\ p = WsFrame("TEXT", FALSE, m, 1, half)
        \/ kind \in {"split", "pinged"} /\ p = WsFrame("CONTINUATION", TRUE, m, 2, half)
        \/ kind = "pinged" /\ p = WsFrame("PING", TRUE, m, 0, FALSE)
        \/ kind \in Control /\ p = WsFrame(kind, TRUE, m, 0, FALSE)
        \/ kind \in {"TEXT", "BINARY"} /\ p = WsFrame(kind, TRUE, m, 1, half)

IsPiece(p) == p.msg \in 1 .. wsSent /\ OfMessage(p)

(* p begins its message, ends it, or goes on after its first fragment *)
Begins(p) == ~p.payload /\ (p.part = 1 \/ wsPlan[p.msg] \in Control)
Ends(p)   == p.fin /\ (p.payload \/ wsPlan[p.msg] \in Control)
GoesOn(p) == wsPlan[p.msg] \in {"split", "pinged"} /\ ~p.payload /\ p.part # 1

(* q is the piece that follows p *)
Follows(p, q) ==
  \/ Ends(p) /\ q.msg = p.msg + 1 /\ Begins(q)
  \/ /\ q.msg = p.msg
     /\ \/ ~p.payload /\ p.part # 0 /\ q.payload /\ q.part = p.part
        \/ p.payload /\ p.part = 1 /\ GoesOn(q) /\ (wsPlan[p.msg] = "pinged" => q.part = 0)
        \/ p.part = 0 /\ q.part = 2 /\ GoesOn(q) /\ GoesOn(p)

Coming == (IF notEnough THEN <<wsHeader>> ELSE <<>>) \o (wsInbox \o wsWire)

Stream(s) ==
  /\ \A i \in 1 .. Len(s) : IsPiece(s[i])
  /\ \A i \in 1 .. Len(s) - 1 : Follows(s[i], s[i + 1])
  /\ s # <<>> => Ends(s[Len(s)]) /\ s[Len(s)].msg = wsSent

(* the messages up to n are handed on, and no other *)
HandledUpTo(n) ==
  /\ \A m \in 1 .. n : wsPlan[m] \notin Control => \E i \in 1 .. Len(handled) : handled[i].msg = m
  /\ \A i \in 1 .. Len(handled) : handled[i].msg <= n

(* between two frames *)
Between(s) ==
  IF s = <<>> THEN ~onCont /\ wsBuffer = <<>> /\ HandledUpTo(wsSent)
  ELSE /\ HandledUpTo(s[1].msg - 1)
       /\ \/ Begins(s[1]) /\ ~onCont /\ wsBuffer = <<>>
          \/ GoesOn(s[1]) /\ onCont /\ wsBuffer = <<1>>

HandledAt(i) ==
  LET h == handled[i]
      kind == wsPlan[h.msg]
  IN  /\ h.msg \in 1 .. wsSent /\ kind \notin Control
      /\ \A j \in 1 .. i - 1 : handled[j].msg < h.msg
      /\ \A m \in 1 .. h.msg : wsPlan[m] \notin Control => \E j \in 1 .. Len(handled) : handled[j].msg = m
      /\ h.parts = IF kind \in {"split", "pinged"} THEN <<1, 2>> ELSE <<1>>
      /\ kind \in {"TEXT", "BINARY"} => h.op = kind

HandledRight == \A i \in 1 .. Len(handled) : HandledAt(i)

WsInv ==
  /\ WsType
  /\ notEnough => wsInbox = <<>>
  /\ wsOpen => Stream(Coming) /\ Between(Coming)
  /\ HandledRight
  /\ ~wsOpen => \E m \in 1 .. Len(wsPlan) : wsPlan[m] = "CLOSE"

(* a sequence with one piece in front *)
LEMMA InFront ==
  ASSUME NEW S, NEW h \in S, NEW t \in Seq(S)
  PROVE  /\ <<h>> \o t \in Seq(S) /\ Len(<<h>> \o t) = Len(t) + 1 /\ Len(t) \in Nat /\ <<h>> \o t # <<>>
         /\ (<<h>> \o t)[1] = h
         /\ \A i \in 1 .. Len(t) : (<<h>> \o t)[i + 1] = t[i]
<1> DEFINE one == <<h>>
           u == one \o t
<1>1. one \in Seq(S) /\ Len(one) = 1 /\ one[1] = h
  OBVIOUS
<1> HIDE DEF one
<1>2. /\ Len(t) \in Nat /\ u \in Seq(S) /\ Len(u) = Len(one) + Len(t)
      /\ \A i \in 1 .. Len(one) + Len(t) : u[i] = IF i <= Len(one) THEN one[i] ELSE t[i - Len(one)]
  BY <1>1, LenProperties, ConcatProperties
<1> HIDE DEF u
<1>3. Len(u) = Len(t) + 1 /\ u[1] = h
  BY <1>1, <1>2
<1>4. ASSUME NEW i \in 1 .. Len(t) PROVE u[i + 1] = t[i]
  <2>1. i + 1 \in 1 .. Len(one) + Len(t) /\ ~(i + 1 <= Len(one)) /\ (i + 1) - Len(one) = i
    BY <1>1, <1>2
  <2> QED
    BY <1>2, <2>1
<1>5. u # <<>>
  BY <1>2, <1>3, EmptySeq
<1> QED
  BY <1>2, <1>3, <1>4, <1>5 DEF u, one

(* what a nonempty sequence is made of *)
LEMMA FirstAndRest ==
  ASSUME NEW S, NEW s \in Seq(S), s # <<>>
  PROVE  /\ Head(s) \in S /\ Head(s) = s[1] /\ Tail(s) \in Seq(S)
         /\ s = <<Head(s)>> \o Tail(s)
<1>1. /\ Len(s) \in Nat /\ Tail(s) \in Seq(S) /\ Len(Tail(s)) = Len(s) - 1
      /\ \A i \in 1 .. Len(Tail(s)) : Tail(s)[i] = s[i + 1]
      /\ Head(s) = s[1]
  BY LenProperties, HeadTailProperties
<1>2. Len(s) >= 1
  BY <1>1, EmptySeq
<1>3. Head(s) \in S
  <2>1. 1 \in 1 .. Len(s)
    BY <1>1, <1>2
  <2> QED
    BY <1>1, <2>1, ElementOfSeq
<1> DEFINE t == Tail(s)
           h == Head(s)
           u == <<h>> \o t
<1>4. /\ u \in Seq(S) /\ Len(u) = Len(t) + 1 /\ u[1] = h
      /\ \A i \in 1 .. Len(t) : u[i + 1] = t[i]
  BY <1>1, <1>3, InFront
<1>e. t \in Seq(S) /\ Len(t) = Len(s) - 1 /\ h = s[1] /\ \A i \in 1 .. Len(t) : t[i] = s[i + 1]
  BY <1>1
<1> HIDE DEF u, t, h
<1>5. Len(u) = Len(s)
  BY <1>1, <1>4, <1>e
<1>6. ASSUME NEW i \in 1 .. Len(s) PROVE u[i] = s[i]
  <2>1. CASE i = 1
    BY <1>4, <1>e, <2>1
  <2>2. CASE i # 1
    <3>1. i - 1 \in 1 .. Len(t) /\ (i - 1) + 1 = i
      BY <1>1, <1>e, <2>2
    <3>2. u[(i - 1) + 1] = t[i - 1] /\ t[i - 1] = s[(i - 1) + 1]
      BY <1>4, <1>e, <3>1
    <3> QED
      BY <3>1, <3>2
  <2> QED
    BY <2>1, <2>2
<1>7. u = s
  BY <1>4, <1>5, <1>6, SeqEqual
<1> QED
  BY <1>1, <1>3, <1>7 DEF u, t, h

LEMMA FrameTypes ==
  \A op \in {"TEXT", "BINARY", "CONTINUATION", "PING", "CLOSE"}, fin \in BOOLEAN, m \in Nat, k \in 0 .. 2,
     half \in BOOLEAN : [op |-> op, fin |-> fin, msg |-> m, part |-> k, payload |-> half] \in Pieces
  BY DEF Pieces

(* the pieces, one by one *)
LEMMA PieceFacts ==
  ASSUME NEW p, IsPiece(p), WsType
  PROVE  /\ p \in Pieces /\ p.msg \in 1 .. wsSent /\ p.msg \in 1 .. Len(wsPlan) /\ p.payload \in BOOLEAN
         /\ \/ wsPlan[p.msg] \in {"split", "pinged"} /\ p.op = "TEXT" /\ ~p.fin /\ p.part = 1
            \/ wsPlan[p.msg] \in {"split", "pinged"} /\ p.op = "CONTINUATION" /\ p.fin /\ p.part = 2
            \/ wsPlan[p.msg] = "pinged" /\ p.op = "PING" /\ p.fin /\ p.part = 0 /\ ~p.payload
            \/ wsPlan[p.msg] \in {"PING", "CLOSE"} /\ p.op = wsPlan[p.msg] /\ p.fin /\ p.part = 0 /\ ~p.payload
            \/ wsPlan[p.msg] \in {"TEXT", "BINARY"} /\ p.op = wsPlan[p.msg] /\ p.fin /\ p.part = 1
<1> DEFINE m == p.msg
           kind == wsPlan[p.msg]
<1>1. m \in 1 .. wsSent /\ Len(wsPlan) \in Nat /\ wsSent \in 0 .. Len(wsPlan)
  BY LenProperties DEF WsType, IsPiece
<1>2. m \in Nat /\ m \in 1 .. Len(wsPlan)
  BY <1>1
<1>3. PICK half \in BOOLEAN :
           \/ kind \in {"split", "pinged"} /\ p = WsFrame("TEXT", FALSE, m, 1, half)
           \/ kind \in {"split", "pinged"} /\ p = WsFrame("CONTINUATION", TRUE, m, 2, half)
           \/ kind = "pinged" /\ p = WsFrame("PING", TRUE, m, 0, FALSE)
           \/ kind \in Control /\ p = WsFrame(kind, TRUE, m, 0, FALSE)
           \/ kind \in {"TEXT", "BINARY"} /\ p = WsFrame(kind, TRUE, m, 1, half)
  BY DEF IsPiece, OfMessage
<1> HIDE DEF m, kind
<1>4. CASE kind \in {"split", "pinged"} /\ p = WsFrame("TEXT", FALSE, m, 1, half)
  <2>1. p = [op |-> "TEXT", fin |-> FALSE, msg |-> m, part |-> 1, payload |-> half]
    BY <1>4 DEF WsFrame
  <2>2. p.op = "TEXT" /\ p.fin = FALSE /\ p.part = 1 /\ p.payload = half
    BY <2>1
  <2>3. p \in Pieces
    <3>1. "TEXT" \in {"TEXT", "BINARY", "CONTINUATION", "PING", "CLOSE"} /\ 1 \in 0 .. 2
      BY <1>4
    <3> QED
      BY <1>2, <2>1, <3>1, FrameTypes, Zenon
  <2>4. p.payload \in BOOLEAN
    BY <2>2, Zenon
  <2> QED
    BY <1>1, <1>2, <1>4, <2>2, <2>3, <2>4 DEF m, kind
<1>5. CASE kind \in {"split", "pinged"} /\ p = WsFrame("CONTINUATION", TRUE, m, 2, half)
  <2>1. p = [op |-> "CONTINUATION", fin |-> TRUE, msg |-> m, part |-> 2, payload |-> half]
    BY <1>5 DEF WsFrame
  <2>2. p.op = "CONTINUATION" /\ p.fin = TRUE /\ p.part = 2 /\ p.payload = half
    BY <2>1
  <2>3. p \in Pieces
    <3>1. "CONTINUATION" \in {"TEXT", "BINARY", "CONTINUATION", "PING", "CLOSE"} /\ 2 \in 0 .. 2
      BY <1>5
    <3> QED
      BY <1>2, <2>1, <3>1, FrameTypes, Zenon
  <2>4. p.payload \in BOOLEAN
    BY <2>2, Zenon
  <2> QED
    BY <1>1, <1>2, <1>5, <2>2, <2>3, <2>4 DEF m, kind
<1>6. CASE kind = "pinged" /\ p = WsFrame("PING", TRUE, m, 0, FALSE)
  <2>1. p = [op |-> "PING", fin |-> TRUE, msg |-> m, part |-> 0, payload |-> FALSE]
    BY <1>6 DEF WsFrame
  <2>2. p.op = "PING" /\ p.fin = TRUE /\ p.part = 0 /\ p.payload = FALSE
    BY <2>1
  <2>3. p \in Pieces
    <3>1. "PING" \in {"TEXT", "BINARY", "CONTINUATION", "PING", "CLOSE"} /\ 0 \in 0 .. 2
      BY <1>6
    <3> QED
      BY <1>2, <2>1, <3>1, FrameTypes, Zenon
  <2>4. p.payload \in BOOLEAN
    BY <2>2, Zenon
  <2> QED
    BY <1>1, <1>2, <1>6, <2>2, <2>3, <2>4 DEF m, kind
<1>7. CASE kind \in Control /\ p = WsFrame(kind, TRUE, m, 0, FALSE)
  <2>1. p = [op |-> kind, fin |-> TRUE, msg |-> m, part |-> 0, payload |-> FALSE]
    BY <1>7 DEF WsFrame
  <2>2. p.op = kind /\ p.fin = TRUE /\ p.part = 0 /\ p.payload = FALSE
    BY <2>1
  <2>3. p \in Pieces
    <3>1. kind \in {"TEXT", "BINARY", "CONTINUATION", "PING", "CLOSE"} /\ 0 \in 0 .. 2
      BY <1>7 DEF Control
    <3> QED
      BY <1>2, <2>1, <3>1, FrameTypes, Zenon
  <2>4. p.payload \in BOOLEAN
    BY <2>2, Zenon
  <2> QED
    BY <1>1, <1>2, <1>7, <2>2, <2>3, <2>4 DEF Control, m, kind
<1>8. CASE kind \in {"TEXT", "BINARY"} /\ p = WsFrame(kind, TRUE, m, 1, half)
  <2>1. p = [op |-> kind, fin |-> TRUE, msg |-> m, part |-> 1, payload |-> half]
    BY <1>8 DEF WsFrame
  <2>2. p.op = kind /\ p.fin = TRUE /\ p.part = 1 /\ p.payload = half
    BY <2>1
  <2>3. p \in Pieces
    <3>1. kind \in {"TEXT", "BINARY", "CONTINUATION", "PING", "CLOSE"} /\ 1 \in 0 .. 2
      BY <1>8
    <3> QED
      BY <1>2, <2>1, <3>1, FrameTypes, Zenon
  <2>4. p.payload \in BOOLEAN
    BY <2>2, Zenon
  <2> QED
    BY <1>1, <1>2, <1>8, <2>2, <2>3, <2>4 DEF m, kind
<1> QED
  BY <1>3, <1>4, <1>5, <1>6, <1>7, <1>8

(* the first of a stream, and what comes after it *)
LEMMA StreamFirst ==
  ASSUME NEW h \in Pieces, NEW t \in Seq(Pieces), Stream(<<h>> \o t)
  PROVE  /\ IsPiece(h) /\ Stream(t)
         /\ t # <<>> => Follows(h, t[1])
         /\ t = <<>> => Ends(h) /\ h.msg = wsSent
<1> DEFINE u == <<h>> \o t
<1>1. /\ Len(u) = Len(t) + 1 /\ Len(t) \in Nat /\ u # <<>> /\ u[1] = h
      /\ \A i \in 1 .. Len(t) : u[i + 1] = t[i]
  BY InFront
<1>2. /\ \A i \in 1 .. Len(u) : IsPiece(u[i])
      /\ \A i \in 1 .. Len(u) - 1 : Follows(u[i], u[i + 1])
      /\ Ends(u[Len(u)]) /\ u[Len(u)].msg = wsSent
  BY <1>1 DEF Stream
<1> HIDE DEF u
<1>3. IsPiece(h)
  <2>1. 1 \in 1 .. Len(u)
    BY <1>1
  <2> QED
    BY <1>1, <1>2, <2>1
<1>4. t # <<>> => Len(t) >= 1
  BY <1>1, EmptySeq
<1>5. t # <<>> => Follows(h, t[1])
  <2>1. ASSUME t # <<>> PROVE Follows(h, t[1])
    <3>1. 1 \in 1 .. Len(u) - 1 /\ 1 \in 1 .. Len(t)
      BY <1>1, <1>4, <2>1
    <3>2. Follows(u[1], u[1 + 1]) /\ u[1 + 1] = t[1]
      BY <1>1, <1>2, <3>1
    <3> QED
      BY <1>1, <3>2
  <2> QED
    BY <2>1
<1>6. t = <<>> => Ends(h) /\ h.msg = wsSent
  <2>1. ASSUME t = <<>> PROVE Len(u) = 1
    BY <1>1, <2>1, EmptySeq
  <2> QED
    BY <1>1, <1>2, <2>1
<1>7. Stream(t)
  <2>1. \A i \in 1 .. Len(t) : IsPiece(t[i])
    <3>1. ASSUME NEW i \in 1 .. Len(t) PROVE IsPiece(t[i])
      <4>1. i + 1 \in 1 .. Len(u) /\ u[i + 1] = t[i]
        BY <1>1
      <4>2. IsPiece(u[i + 1])
        BY <1>2, <4>1
      <4> QED
        BY <4>1, <4>2
    <3> QED
      BY <3>1
  <2>2. \A i \in 1 .. Len(t) - 1 : Follows(t[i], t[i + 1])
    <3>1. ASSUME NEW i \in 1 .. Len(t) - 1 PROVE Follows(t[i], t[i + 1])
      <4>1. /\ i + 1 \in 1 .. Len(u) - 1 /\ i \in 1 .. Len(t) /\ i + 1 \in 1 .. Len(t)
        BY <1>1
      <4>2. u[i + 1] = t[i] /\ u[(i + 1) + 1] = t[i + 1]
        BY <1>1, <4>1
      <4>3. Follows(u[i + 1], u[(i + 1) + 1])
        BY <1>2, <4>1
      <4> QED
        BY <4>2, <4>3
    <3> QED
      BY <3>1
  <2>3. t # <<>> => Ends(t[Len(t)]) /\ t[Len(t)].msg = wsSent
    <3>1. ASSUME t # <<>> PROVE u[Len(u)] = t[Len(t)]
      <4>1. Len(t) \in 1 .. Len(t) /\ Len(u) = Len(t) + 1
        BY <1>1, <1>4, <3>1
      <4> QED
        BY <1>1, <4>1
    <3> QED
      BY <1>2, <3>1
  <2> QED
    BY <2>1, <2>2, <2>3 DEF Stream
<1> QED
  BY <1>3, <1>5, <1>6, <1>7

(* the pieces of a message in fragments, and of others *)
Fragments(m, a, b, c, d, g) ==
  /\ a \in Pieces /\ b \in Pieces /\ c \in Pieces /\ d \in Pieces /\ g \in Pieces
  /\ a.msg = m /\ b.msg = m /\ c.msg = m /\ d.msg = m /\ g.msg = m
  /\ OfMessage(a) /\ OfMessage(b) /\ OfMessage(c) /\ OfMessage(d)
  /\ wsPlan[m] = "pinged" => OfMessage(g) /\ Follows(b, g) /\ Follows(g, c)
  /\ wsPlan[m] = "split" => Follows(b, c)
  /\ Begins(a) /\ Follows(a, b) /\ Follows(c, d) /\ Ends(d)

LEMMA FragmentsFollow ==
  ASSUME NEW m \in Nat, wsPlan[m] \in {"split", "pinged"}
  PROVE  Fragments(m, WsFrame("TEXT", FALSE, m, 1, FALSE), WsFrame("TEXT", FALSE, m, 1, TRUE),
                   WsFrame("CONTINUATION", TRUE, m, 2, FALSE), WsFrame("CONTINUATION", TRUE, m, 2, TRUE),
                   WsFrame("PING", TRUE, m, 0, FALSE))
<1> DEFINE a == WsFrame("TEXT", FALSE, m, 1, FALSE)
           b == WsFrame("TEXT", FALSE, m, 1, TRUE)
           c == WsFrame("CONTINUATION", TRUE, m, 2, FALSE)
           d == WsFrame("CONTINUATION", TRUE, m, 2, TRUE)
           g == WsFrame("PING", TRUE, m, 0, FALSE)
<1>e. /\ a = WsFrame("TEXT", FALSE, m, 1, FALSE) /\ b = WsFrame("TEXT", FALSE, m, 1, TRUE)
      /\ c = WsFrame("CONTINUATION", TRUE, m, 2, FALSE) /\ d = WsFrame("CONTINUATION", TRUE, m, 2, TRUE)
      /\ g = WsFrame("PING", TRUE, m, 0, FALSE)
  OBVIOUS
<1>1. /\ a = [op |-> "TEXT", fin |-> FALSE, msg |-> m, part |-> 1, payload |-> FALSE]
      /\ b = [op |-> "TEXT", fin |-> FALSE, msg |-> m, part |-> 1, payload |-> TRUE]
      /\ c = [op |-> "CONTINUATION", fin |-> TRUE, msg |-> m, part |-> 2, payload |-> FALSE]
      /\ d = [op |-> "CONTINUATION", fin |-> TRUE, msg |-> m, part |-> 2, payload |-> TRUE]
      /\ g = [op |-> "PING", fin |-> TRUE, msg |-> m, part |-> 0, payload |-> FALSE]
  BY DEF WsFrame
<1> HIDE DEF a, b, c, d, g
<1>2. a \in Pieces /\ b \in Pieces /\ c \in Pieces /\ d \in Pieces /\ g \in Pieces
  <2>1. 0 \in 0 .. 2 /\ 1 \in 0 .. 2 /\ 2 \in 0 .. 2 /\ TRUE \in BOOLEAN /\ FALSE \in BOOLEAN
    OBVIOUS
  <2> QED
    BY <1>1, <2>1, FrameTypes, Zenon
<1>3. a.msg = m /\ b.msg = m /\ c.msg = m /\ d.msg = m /\ g.msg = m
  BY <1>1
<1>4. OfMessage(a) /\ OfMessage(b) /\ OfMessage(c) /\ OfMessage(d)
  <2>1. FALSE \in BOOLEAN /\ TRUE \in BOOLEAN
    OBVIOUS
  <2> QED
    BY <1>3, <1>e, <2>1, Zenon DEF OfMessage
<1>5. wsPlan[m] = "pinged" => OfMessage(g)
  <2>1. FALSE \in BOOLEAN
    OBVIOUS
  <2> QED
    BY <1>3, <1>e, <2>1, Zenon DEF OfMessage
<1>6. /\ a.part = 1 /\ ~a.payload /\ b.part = 1 /\ b.payload /\ c.part = 2 /\ ~c.payload
      /\ d.part = 2 /\ d.payload /\ d.fin /\ g.part = 0 /\ ~g.payload
  BY <1>1
<1>7. Begins(a) /\ Ends(d) /\ GoesOn(c) /\ GoesOn(g)
  BY <1>3, <1>6 DEF Begins, Ends, GoesOn
<1>8. Follows(a, b) /\ Follows(c, d) /\ Follows(g, c)
  BY <1>3, <1>6, <1>7 DEF Follows
<1>9. /\ wsPlan[m] = "pinged" => Follows(b, g)
      /\ wsPlan[m] = "split" => Follows(b, c)
  BY <1>3, <1>6, <1>7 DEF Follows
<1> QED
  BY <1>2, <1>3, <1>4, <1>5, <1>7, <1>8, <1>9 DEF Fragments, a, b, c, d, g

LEMMA WholeFollows ==
  ASSUME NEW m \in Nat, wsPlan[m] \in {"TEXT", "BINARY"},
         NEW a, a = WsFrame(wsPlan[m], TRUE, m, 1, FALSE), NEW b, b = WsFrame(wsPlan[m], TRUE, m, 1, TRUE)
  PROVE  /\ a \in Pieces /\ b \in Pieces /\ a.msg = m /\ b.msg = m /\ OfMessage(a) /\ OfMessage(b)
         /\ Begins(a) /\ Follows(a, b) /\ Ends(b)
<1>1. /\ a = [op |-> wsPlan[m], fin |-> TRUE, msg |-> m, part |-> 1, payload |-> FALSE]
      /\ b = [op |-> wsPlan[m], fin |-> TRUE, msg |-> m, part |-> 1, payload |-> TRUE]
  BY DEF WsFrame
<1>2. a \in Pieces /\ b \in Pieces
  <2>1. /\ 1 \in 0 .. 2 /\ TRUE \in BOOLEAN /\ FALSE \in BOOLEAN
        /\ wsPlan[m] \in {"TEXT", "BINARY", "CONTINUATION", "PING", "CLOSE"}
    OBVIOUS
  <2> QED
    BY <1>1, <2>1, FrameTypes, Zenon
<1>3. a.msg = m /\ b.msg = m
  BY <1>1 DEF WsFrame
<1>4. OfMessage(a) /\ OfMessage(b)
  <2>1. FALSE \in BOOLEAN /\ TRUE \in BOOLEAN
    OBVIOUS
  <2> QED
    BY <1>3, <2>1, Zenon DEF OfMessage
<1>5. a.part = 1 /\ ~a.payload /\ b.part = 1 /\ b.payload /\ b.fin
  BY <1>1 DEF WsFrame
<1>6. Begins(a) /\ Follows(a, b) /\ Ends(b)
  BY <1>3, <1>5 DEF Begins, Follows, Ends, WsFrame
<1> QED
  BY <1>2, <1>3, <1>4, <1>6 DEF WsFrame

LEMMA ControlStands ==
  ASSUME NEW m \in Nat, wsPlan[m] \in Control, NEW a, a = WsFrame(wsPlan[m], TRUE, m, 0, FALSE)
  PROVE  a \in Pieces /\ a.msg = m /\ OfMessage(a) /\ Begins(a) /\ Ends(a)
<1>1. a = [op |-> wsPlan[m], fin |-> TRUE, msg |-> m, part |-> 0, payload |-> FALSE]
  BY DEF WsFrame
<1>2. a \in Pieces
  <2>1. /\ 0 \in 0 .. 2 /\ TRUE \in BOOLEAN /\ FALSE \in BOOLEAN
        /\ wsPlan[m] \in {"TEXT", "BINARY", "CONTINUATION", "PING", "CLOSE"}
    BY DEF Control
  <2> QED
    BY <1>1, <2>1, FrameTypes, Zenon
<1>3. a.msg = m
  BY <1>1 DEF WsFrame
<1>4. OfMessage(a)
  <2>1. FALSE \in BOOLEAN
    OBVIOUS
  <2> QED
    BY <1>3, <2>1, Zenon DEF OfMessage
<1>5. ~a.payload /\ a.fin
  BY <1>1 DEF WsFrame
<1> QED
  BY <1>2, <1>3, <1>4, <1>5 DEF Begins, Ends, WsFrame

(* all that is sent of message m *)
WholeMessage(s, m) ==
  /\ s \in Seq(Pieces) /\ Len(s) >= 1
  /\ \A i \in 1 .. Len(s) : s[i].msg = m /\ OfMessage(s[i])
  /\ \A i \in 1 .. Len(s) - 1 : Follows(s[i], s[i + 1])
  /\ Begins(s[1]) /\ Ends(s[Len(s)])

LEMMA PiecesOfMessage ==
  ASSUME NEW m \in 1 .. Len(wsPlan), WsType
  PROVE  WholeMessage(PiecesOf(wsPlan[m], m), m)
<1> DEFINE kind == wsPlan[m]
           s == PiecesOf(kind, m)
           a == WsFrame("TEXT", FALSE, m, 1, FALSE)
           b == WsFrame("TEXT", FALSE, m, 1, TRUE)
           c == WsFrame("CONTINUATION", TRUE, m, 2, FALSE)
           d == WsFrame("CONTINUATION", TRUE, m, 2, TRUE)
           g == WsFrame("PING", TRUE, m, 0, FALSE)
<1>1. m \in Nat /\ kind \in WsKinds
  BY LenProperties, ElementOfSeq DEF WsType
<1>2. CASE kind = "split"
  <2>1. s = <<a, b, c, d>>
    BY <1>2 DEF PiecesOf, WsFrame, Control
  <2>2. /\ a \in Pieces /\ b \in Pieces /\ c \in Pieces /\ d \in Pieces
        /\ a.msg = m /\ b.msg = m /\ c.msg = m /\ d.msg = m
        /\ OfMessage(a) /\ OfMessage(b) /\ OfMessage(c) /\ OfMessage(d)
        /\ Begins(a) /\ Follows(a, b) /\ Follows(b, c) /\ Follows(c, d) /\ Ends(d)
    BY <1>1, <1>2, FragmentsFollow DEF Fragments
  <2> HIDE DEF s, a, b, c, d
  <2>3. s \in Seq(Pieces) /\ Len(s) = 4 /\ s[1] = a /\ s[2] = b /\ s[3] = c /\ s[4] = d
    BY <2>1, <2>2
  <2>4. (\A i \in 1 .. 4 : i = 1 \/ i = 2 \/ i = 3 \/ i = 4) /\ (\A i \in 1 .. 4 - 1 : i = 1 \/ i = 2 \/ i = 3)
    OBVIOUS
  <2>5. \A i \in 1 .. Len(s) : s[i].msg = m /\ OfMessage(s[i])
    BY <2>2, <2>3, <2>4
  <2>6. \A i \in 1 .. Len(s) - 1 : Follows(s[i], s[i + 1])
    BY <2>2, <2>3, <2>4
  <2> QED
    BY <2>2, <2>3, <2>5, <2>6 DEF WholeMessage, s
<1>3. CASE kind = "pinged"
  <2>1. s = <<a, b, g, c, d>>
    BY <1>3 DEF PiecesOf, WsFrame, Control
  <2>2. /\ a \in Pieces /\ b \in Pieces /\ c \in Pieces /\ d \in Pieces /\ g \in Pieces
        /\ a.msg = m /\ b.msg = m /\ c.msg = m /\ d.msg = m /\ g.msg = m
        /\ OfMessage(a) /\ OfMessage(b) /\ OfMessage(c) /\ OfMessage(d) /\ OfMessage(g)
        /\ Begins(a) /\ Follows(a, b) /\ Follows(b, g) /\ Follows(g, c) /\ Follows(c, d) /\ Ends(d)
    BY <1>1, <1>3, FragmentsFollow DEF Fragments
  <2> HIDE DEF s, a, b, c, d, g
  <2>3. s \in Seq(Pieces) /\ Len(s) = 5 /\ s[1] = a /\ s[2] = b /\ s[3] = g /\ s[4] = c /\ s[5] = d
    BY <2>1, <2>2
  <2>4. /\ \A i \in 1 .. 5 : i = 1 \/ i = 2 \/ i = 3 \/ i = 4 \/ i = 5
        /\ \A i \in 1 .. 5 - 1 : i = 1 \/ i = 2 \/ i = 3 \/ i = 4
    OBVIOUS
  <2>5. \A i \in 1 .. Len(s) : s[i].msg = m /\ OfMessage(s[i])
    BY <2>2, <2>3, <2>4
  <2>6. \A i \in 1 .. Len(s) - 1 : Follows(s[i], s[i + 1])
    BY <2>2, <2>3, <2>4
  <2> QED
    BY <2>2, <2>3, <2>5, <2>6 DEF WholeMessage, s
<1>4. CASE kind \in Control
  <2> DEFINE x == WsFrame(kind, TRUE, m, 0, FALSE)
  <2>1. s = <<x>>
    BY <1>4 DEF PiecesOf, WsFrame, Control
  <2>2. x \in Pieces /\ x.msg = m /\ OfMessage(x) /\ Begins(x) /\ Ends(x)
    BY <1>1, <1>4, ControlStands
  <2> HIDE DEF s, x
  <2>3. s \in Seq(Pieces) /\ Len(s) = 1 /\ s[1] = x
    BY <2>1, <2>2
  <2>4. (\A i \in 1 .. 1 : i = 1) /\ 1 .. Len(s) - 1 = {}
    BY <2>3
  <2> QED
    BY <2>2, <2>3, <2>4 DEF WholeMessage, s
<1>5. CASE kind \in {"TEXT", "BINARY"}
  <2> DEFINE x == WsFrame(kind, TRUE, m, 1, FALSE)
             y == WsFrame(kind, TRUE, m, 1, TRUE)
  <2>1. s = <<x, y>>
    BY <1>5 DEF PiecesOf, WsFrame, Control
  <2>2. /\ x \in Pieces /\ y \in Pieces /\ x.msg = m /\ y.msg = m /\ OfMessage(x) /\ OfMessage(y)
        /\ Begins(x) /\ Follows(x, y) /\ Ends(y)
    BY <1>1, <1>5, WholeFollows
  <2> HIDE DEF s, x, y
  <2>3. s \in Seq(Pieces) /\ Len(s) = 2 /\ s[1] = x /\ s[2] = y
    BY <2>1, <2>2
  <2>4. (\A i \in 1 .. 2 : i = 1 \/ i = 2) /\ (\A i \in 1 .. 2 - 1 : i = 1)
    OBVIOUS
  <2>5. \A i \in 1 .. Len(s) : s[i].msg = m /\ OfMessage(s[i])
    BY <2>2, <2>3, <2>4
  <2>6. \A i \in 1 .. Len(s) - 1 : Follows(s[i], s[i + 1])
    BY <2>2, <2>3, <2>4
  <2> QED
    BY <2>2, <2>3, <2>5, <2>6 DEF WholeMessage, s
<1> QED
  BY <1>1, <1>2, <1>3, <1>4, <1>5 DEF WsKinds, Control

LEMMA WsTypes ==
  ASSUME WsType
  PROVE  /\ Len(wsPlan) \in Nat /\ wsSent \in Nat /\ DOMAIN wsPlan = 1 .. Len(wsPlan)
         /\ \A m \in 1 .. wsSent : m \in 1 .. Len(wsPlan)
         /\ Len(handled) \in Nat /\ DOMAIN handled = 1 .. Len(handled)
         /\ \A i \in 1 .. Len(handled) : handled[i] \in HandedOnMessages /\ handled[i].msg \in Nat
         /\ Len(wsWire) \in Nat
<1>1. Len(wsPlan) \in Nat /\ wsSent \in Nat /\ DOMAIN wsPlan = 1 .. Len(wsPlan) /\ Len(wsWire) \in Nat
  BY LenProperties DEF WsType
<1>2. \A m \in 1 .. wsSent : m \in 1 .. Len(wsPlan)
  BY <1>1 DEF WsType
<1>3. Len(handled) \in Nat /\ DOMAIN handled = 1 .. Len(handled)
  BY LenProperties DEF WsType
<1>4. \A i \in 1 .. Len(handled) : handled[i] \in HandedOnMessages
  BY ElementOfSeq DEF WsType
<1>5. \A h \in HandedOnMessages : h.msg \in Nat
  BY DEF HandedOnMessages
<1> QED
  BY <1>1, <1>2, <1>3, <1>4, <1>5

(* what is coming: the frame that is read, what of it and after it has arrived, and what has not *)
LEMMA FrameRead ==
  ASSUME WsInv, NEW n \in 0 .. Len(wsWire), n > 0 \/ wsInbox # <<>>
  PROVE  LET pieces == wsInbox \o SubSeq(wsWire, 1, n)
             left   == SubSeq(wsWire, n + 1, Len(wsWire))
             h      == IF notEnough THEN wsHeader ELSE Head(pieces)
             rest   == IF notEnough THEN pieces ELSE Tail(pieces)
         IN  /\ h \in Pieces /\ rest \in Seq(Pieces) /\ left \in Seq(Pieces)
             /\ Coming = <<h>> \o (rest \o left)
<1> DEFINE now    == SubSeq(wsWire, 1, n)
           pieces == wsInbox \o now
           left   == SubSeq(wsWire, n + 1, Len(wsWire))
<1>1. wsInbox \in Seq(Pieces) /\ wsWire \in Seq(Pieces) /\ wsHeader \in Pieces /\ notEnough \in BOOLEAN
  BY DEF WsInv, WsType
<1>2. Len(wsWire) \in Nat /\ n \in 0 .. Len(wsWire) /\ n \in Nat
  BY <1>1, LenProperties
<1>3. now \in Seq(Pieces) /\ Len(now) = n /\ now \o left = wsWire
  BY <1>1, <1>2, Taken
<1>4. left \in Seq(Pieces)
  BY <1>1, <1>2, Dropped
<1> HIDE DEF now, left
<1>5. pieces \in Seq(Pieces) /\ pieces # <<>>
  <2>1. n > 0 => now # <<>>
    BY <1>2, <1>3, EmptySeq
  <2>2. now # <<>> \/ wsInbox # <<>>
    BY <1>2, <2>1
  <2> QED
    BY <1>1, <1>3, <2>2, ConcatProperties, ConcatEqualIffEmpty, ConcatSimplifications
<1>6. wsInbox \o wsWire = pieces \o left
  <2>1. (wsInbox \o now) \o left = wsInbox \o (now \o left)
    <3>1. wsInbox \in Seq(Pieces) /\ now \in Seq(Pieces) /\ left \in Seq(Pieces)
      BY <1>1, <1>3, <1>4
    <3> QED
      BY <3>1, ConcatAssociative
  <2> QED
    BY <1>3, <2>1
<1>7. wsInbox \o wsWire \in Seq(Pieces)
  BY <1>1, ConcatProperties
<1> HIDE DEF pieces
<1>8. CASE notEnough
  <2>1. Coming = <<wsHeader>> \o (pieces \o left)
    BY <1>6, <1>8 DEF Coming
  <2> QED
    BY <1>1, <1>4, <1>5, <1>8, <2>1 DEF pieces, left, now
<1>9. CASE ~notEnough
  <2> DEFINE h == Head(pieces)
             rest == Tail(pieces)
  <2>1. h \in Pieces /\ rest \in Seq(Pieces) /\ pieces = <<h>> \o rest
    BY <1>5, FirstAndRest
  <2>2. Coming = wsInbox \o wsWire
    BY <1>7, <1>9, ConcatEmptySeq DEF Coming
  <2> HIDE DEF h, rest
  <2>3. (<<h>> \o rest) \o left = <<h>> \o (rest \o left)
    <3> DEFINE one == <<h>>
    <3>1. one \in Seq(Pieces)
      BY <2>1
    <3> HIDE DEF one
    <3>2. (one \o rest) \o left = one \o (rest \o left)
      BY <1>4, <2>1, <3>1, ConcatAssociative
    <3> QED
      BY <3>2 DEF one
  <2>4. Coming = <<h>> \o (rest \o left)
    BY <1>6, <2>1, <2>2, <2>3
  <2> QED
    BY <1>4, <1>9, <2>1, <2>4 DEF pieces, left, now, h, rest
<1> QED
  BY <1>8, <1>9

(* a message more is handed on *)
LEMMA HandedOnNext ==
  ASSUME WsInv, NEW h \in HandedOnMessages, handled' = Append(handled, h), UNCHANGED <<wsPlan, wsSent>>,
         HandledUpTo(h.msg - 1), h.msg \in 1 .. wsSent, wsPlan[h.msg] \notin Control,
         h.parts = IF wsPlan[h.msg] \in {"split", "pinged"} THEN <<1, 2>> ELSE << 1 >>,
         wsPlan[h.msg] \in {"TEXT", "BINARY"} => h.op = wsPlan[h.msg]
  PROVE  handled' \in Seq(HandedOnMessages) /\ HandledRight' /\ HandledUpTo(h.msg)'
<1> DEFINE n == Len(handled) + 1
<1>1. /\ Len(handled) \in Nat /\ \A i \in 1 .. Len(handled) : handled[i].msg \in Nat
      /\ wsSent \in Nat /\ handled \in Seq(HandedOnMessages) /\ h.msg \in Nat
  BY WsTypes DEF WsInv, WsType, HandedOnMessages
<1>2. /\ handled' \in Seq(HandedOnMessages) /\ Len(handled') = n /\ handled'[n] = h
      /\ \A i \in 1 .. Len(handled) : handled'[i] = handled[i]
  BY <1>1, AppendProperties
<1>3. \A i \in 1 .. n : i \in 1 .. Len(handled) \/ i = n
  BY <1>1
<1>4. \A i \in 1 .. Len(handled) : i \in 1 .. n
  BY <1>1
<1>n. n \in 1 .. n /\ n - 1 = Len(handled) /\ n \in Nat
  BY <1>1
<1> HIDE DEF n
<1>5. \A i \in 1 .. Len(handled) : handled[i].msg < h.msg
  BY <1>1 DEF HandledUpTo
<1>6. \A m \in 1 .. h.msg : wsPlan[m] \notin Control => \E j \in 1 .. n : handled'[j].msg = m
  <2> TAKE m \in 1 .. h.msg
  <2> HAVE wsPlan[m] \notin Control
  <2>1. CASE m = h.msg
    BY <1>2, <1>n, <2>1
  <2>2. CASE m # h.msg
    <3>1. m \in 1 .. h.msg - 1
      BY <1>1, <2>2
    <3>2. PICK j \in 1 .. Len(handled) : handled[j].msg = m
      BY <3>1 DEF HandledUpTo
    <3> QED
      BY <1>2, <1>4, <3>2
  <2> QED
    BY <2>1, <2>2
<1>7. HandledUpTo(h.msg)'
  <2>1. \A i \in 1 .. n : handled'[i].msg <= h.msg
    BY <1>1, <1>2, <1>3, <1>5
  <2> QED
    BY <1>2, <1>6, <2>1 DEF HandledUpTo, Control
<1>8. HandledRight'
  <2>1. ASSUME NEW i \in 1 .. n
        PROVE  /\ handled'[i].msg \in 1 .. wsSent /\ wsPlan[handled'[i].msg] \notin Control
               /\ \A j \in 1 .. i - 1 : handled'[j].msg < handled'[i].msg
               /\ \A m \in 1 .. handled'[i].msg : wsPlan[m] \notin Control => \E j \in 1 .. n : handled'[j].msg = m
               /\ handled'[i].parts = IF wsPlan[handled'[i].msg] \in {"split", "pinged"} THEN <<1, 2>> ELSE <<1>>
               /\ wsPlan[handled'[i].msg] \in {"TEXT", "BINARY"} => handled'[i].op = wsPlan[handled'[i].msg]
    <3>1. CASE i = n
      <4>1. \A j \in 1 .. i - 1 : handled'[j].msg < h.msg
        BY <1>2, <1>5, <1>n, <3>1
      <4> QED
        BY <1>2, <1>6, <3>1, <4>1
    <3>2. CASE i \in 1 .. Len(handled)
      <4>1. /\ handled[i].msg \in 1 .. wsSent /\ wsPlan[handled[i].msg] \notin Control
            /\ \A j \in 1 .. i - 1 : handled[j].msg < handled[i].msg
            /\ \A m \in 1 .. handled[i].msg : wsPlan[m] \notin Control => \E j \in 1 .. Len(handled) : handled[j].msg = m
            /\ handled[i].parts = IF wsPlan[handled[i].msg] \in {"split", "pinged"} THEN <<1, 2>> ELSE <<1>>
            /\ wsPlan[handled[i].msg] \in {"TEXT", "BINARY"} => handled[i].op = wsPlan[handled[i].msg]
        BY <3>2 DEF WsInv, HandledRight, HandledAt
      <4>2. \A j \in 1 .. i - 1 : j \in 1 .. Len(handled)
        BY <1>1, <3>2
      <4>3. \A j \in 1 .. i - 1 : handled'[j].msg < handled[i].msg
        BY <1>2, <4>1, <4>2
      <4>4. \A m \in 1 .. handled[i].msg : wsPlan[m] \notin Control => \E j \in 1 .. n : handled'[j].msg = m
        BY <1>2, <1>4, <4>1
      <4>5. handled'[i] = handled[i]
        BY <1>2, <3>2
      <4> QED
        BY <4>1, <4>3, <4>4, <4>5
    <3> QED
      BY <1>3, <3>1, <3>2
  <2> QED
    <3>1. wsPlan' = wsPlan /\ wsSent' = wsSent
      OBVIOUS
    <3>2. Len(handled') = n
      BY <1>2
    <3>3. Control' = Control
      BY DEF Control
    <3>4. ASSUME NEW i \in 1 .. n PROVE HandledAt(i)'
      BY <2>1, <3>1, <3>2, <3>3 DEF HandledAt
    <3> QED
      BY <3>2, <3>4 DEF HandledRight
<1> QED
  BY <1>2, <1>7, <1>8

(* the payload of a data frame, and what comes after it *)
LEMMA PayloadFollows ==
  ASSUME WsType, NEW h, NEW q, IsPiece(h), IsPiece(q), Follows(h, q), ~h.payload, h.part # 0
  PROVE  /\ q.msg = h.msg /\ q.payload /\ q.part = h.part /\ (q.fin <=> h.fin)
<1>1. /\ \/ wsPlan[h.msg] \in {"split", "pinged"} /\ ~h.fin /\ h.part = 1
         \/ wsPlan[h.msg] \in {"split", "pinged"} /\ h.fin /\ h.part = 2
         \/ wsPlan[h.msg] \in {"TEXT", "BINARY"} /\ h.fin /\ h.part = 1
  BY PieceFacts
<1>2. /\ \/ wsPlan[q.msg] \in {"split", "pinged"} /\ ~q.fin /\ q.part = 1
         \/ wsPlan[q.msg] \in {"split", "pinged"} /\ q.fin /\ q.part = 2
         \/ q.part = 0
         \/ wsPlan[q.msg] \in {"TEXT", "BINARY"} /\ q.fin /\ q.part = 1
  BY PieceFacts
<1>3. ~Ends(h)
  BY <1>1 DEF Ends, Control
<1>4. q.msg = h.msg /\ q.payload /\ q.part = h.part
  BY <1>3 DEF Follows
<1> QED
  BY <1>1, <1>2, <1>4

LEMMA AfterPayload ==
  ASSUME WsType, NEW q \in Pieces, NEW t \in Seq(Pieces), Stream(<<q>> \o t), q.payload
  PROVE  /\ Stream(t)
         /\ q.fin => /\ t = <<>> => q.msg = wsSent
                     /\ t # <<>> => t[1].msg = q.msg + 1 /\ Begins(t[1])
         /\ ~q.fin => t # <<>> /\ t[1].msg = q.msg /\ GoesOn(t[1])
<1>1. IsPiece(q) /\ Stream(t) /\ (t # <<>> => Follows(q, t[1])) /\ (t = <<>> => Ends(q) /\ q.msg = wsSent)
  BY StreamFirst
<1>2. \/ wsPlan[q.msg] \in {"split", "pinged"} /\ ~q.fin /\ q.part = 1
      \/ wsPlan[q.msg] \in {"split", "pinged"} /\ q.fin /\ q.part = 2
      \/ wsPlan[q.msg] \in {"TEXT", "BINARY"} /\ q.fin /\ q.part = 1
  BY <1>1, PieceFacts
<1>3. ~GoesOn(q) /\ q.part # 0
  BY <1>2 DEF GoesOn
<1>4. ASSUME t # <<>> PROVE \/ Ends(q) /\ t[1].msg = q.msg + 1 /\ Begins(t[1])
                            \/ t[1].msg = q.msg /\ q.part = 1 /\ GoesOn(t[1])
  BY <1>1, <1>3, <1>4 DEF Follows
<1>5. ASSUME q.fin, t # <<>> PROVE t[1].msg = q.msg + 1 /\ Begins(t[1])
  <2>1. ~(t[1].msg = q.msg /\ q.part = 1 /\ GoesOn(t[1]))
    BY <1>2, <1>5 DEF GoesOn
  <2> QED
    BY <1>4, <1>5, <2>1
<1>6. ASSUME ~q.fin PROVE t # <<>> /\ t[1].msg = q.msg /\ GoesOn(t[1])
  <2>1. ~Ends(q)
    BY <1>6 DEF Ends
  <2> QED
    BY <1>1, <1>4, <2>1
<1> QED
  BY <1>1, <1>5, <1>6

(* a ping alone, or between two fragments *)
LEMMA PingRead ==
  ASSUME WsInv, wsOpen, NEW h \in Pieces, NEW t \in Seq(Pieces), Coming = <<h>> \o t, h.op = "PING"
  PROVE  Stream(t) /\ Between(t)
<1> DEFINE s == <<h>> \o t
<1>1. s # <<>> /\ s[1] = h
  BY InFront
<1>2. Stream(s) /\ Between(s) /\ WsType
  BY DEF WsInv
<1>3. IsPiece(h) /\ Stream(t) /\ (t # <<>> => Follows(h, t[1])) /\ (t = <<>> => Ends(h) /\ h.msg = wsSent)
  BY <1>2, StreamFirst
<1> HIDE DEF s
<1>4. /\ HandledUpTo(h.msg - 1)
      /\ \/ Begins(h) /\ ~onCont /\ wsBuffer = <<>>
         \/ GoesOn(h) /\ onCont /\ wsBuffer = <<1>>
  BY <1>1, <1>2 DEF Between
<1>5. /\ h.part = 0 /\ h.fin /\ ~h.payload /\ wsPlan[h.msg] \in {"pinged", "PING"} /\ h.msg \in 1 .. wsSent
  BY <1>2, <1>3, PieceFacts
<1>6. wsSent \in Nat /\ h.msg \in Nat
  BY <1>2, <1>5, WsTypes
<1>7. CASE wsPlan[h.msg] = "PING"
  <2>1. ~onCont /\ wsBuffer = <<>>
    BY <1>4, <1>7 DEF GoesOn
  <2>2. HandledUpTo(h.msg)
    <3>1. \A m \in 1 .. h.msg : m \in 1 .. h.msg - 1 \/ m = h.msg
      BY <1>6
    <3>2. \A m \in 1 .. h.msg : wsPlan[m] \notin Control => \E i \in 1 .. Len(handled) : handled[i].msg = m
      BY <1>4, <1>7, <3>1 DEF HandledUpTo, Control
    <3>3. \A i \in 1 .. Len(handled) : handled[i].msg <= h.msg
      <4>1. \A i \in 1 .. Len(handled) : handled[i].msg \in Nat
        BY <1>2, WsTypes
      <4>2. \A i \in 1 .. Len(handled) : handled[i].msg <= h.msg - 1
        BY <1>4 DEF HandledUpTo
      <4> QED
        BY <1>6, <4>1, <4>2
    <3> QED
      BY <3>2, <3>3 DEF HandledUpTo
  <2>3. ASSUME t # <<>> PROVE t[1].msg = h.msg + 1 /\ Begins(t[1])
    BY <1>3, <1>5, <1>7, <2>3 DEF Follows, GoesOn
  <2>4. CASE t = <<>>
    BY <1>3, <2>1, <2>2, <2>4 DEF Between
  <2>5. CASE t # <<>>
    <3>1. t[1].msg - 1 = h.msg
      <4>1. t[1].msg = h.msg + 1
        BY <2>3, <2>5
      <4> QED
        BY <1>6, <4>1
    <3> QED
      BY <1>3, <2>1, <2>2, <2>3, <2>5, <3>1 DEF Between
  <2> QED
    BY <1>3, <2>4, <2>5
<1>8. CASE wsPlan[h.msg] = "pinged"
  <2>1. ~Begins(h) /\ ~Ends(h)
    BY <1>5, <1>8 DEF Begins, Ends, Control
  <2>2. t # <<>> /\ t[1].msg = h.msg /\ GoesOn(t[1])
    BY <1>3, <1>5, <2>1 DEF Follows
  <2> QED
    BY <1>3, <1>4, <2>1, <2>2 DEF Between
<1> QED
  BY <1>5, <1>7, <1>8

LEMMA BothFragments == Append(<<1>>, 2) = <<1, 2>>
<1> DEFINE one == <<1>>
           both == <<1, 2>>
           x == Append(one, 2)
<1>1. one \in Seq(Nat) /\ Len(one) = 1 /\ one[1] = 1
  OBVIOUS
<1>2. both \in Seq(Nat) /\ Len(both) = 2 /\ both[1] = 1 /\ both[2] = 2
  OBVIOUS
<1> HIDE DEF one, both
<1>3. x \in Seq(Nat) /\ Len(x) = Len(one) + 1 /\ (\A i \in 1 .. Len(one) : x[i] = one[i]) /\ x[Len(one) + 1] = 2
  <2>1. one \in Seq(Nat) /\ 2 \in Nat
    BY <1>1
  <2> QED
    BY <2>1, AppendProperties
<1> HIDE DEF x
<1>4. Len(x) = 2 /\ x[1] = 1 /\ x[2] = 2
  BY <1>1, <1>3
<1>5. \A i \in 1 .. 2 : i = 1 \/ i = 2
  OBVIOUS
<1>6. \A i \in 1 .. Len(x) : x[i] = both[i]
  BY <1>2, <1>4, <1>5
<1>7. x = both
  BY <1>2, <1>3, <1>4, <1>6, SeqEqual
<1> QED
  BY <1>7 DEF x, one, both

(* a data frame, whose payload q has arrived *)
LEMMA DataRead ==
  ASSUME WsInv, wsOpen, NEW h \in Pieces, NEW q \in Pieces, NEW t \in Seq(Pieces), Coming = <<h>> \o (<<q>> \o t),
         h.op \in {"CONTINUATION", "BINARY", "TEXT"}, DataFrame(h), UNCHANGED <<wsPlan, wsSent>>
  PROVE  /\ wsOpen' = wsOpen /\ handled' \in Seq(HandedOnMessages) /\ onCont' \in BOOLEAN /\ HandledRight'
         /\ Stream(t) /\ Between(t)'
<1> DEFINE u == <<q>> \o t
           s == <<h>> \o u
<1>1. u \in Seq(Pieces) /\ u # <<>> /\ u[1] = q
  BY InFront
<1> HIDE DEF u
<1>2. s # <<>> /\ s[1] = h
  BY <1>1, InFront
<1>3. Coming = s
  BY DEF u
<1>4. Stream(s) /\ Between(s) /\ WsType
  BY <1>3 DEF WsInv
<1>5. IsPiece(h) /\ Stream(u) /\ Follows(h, q)
  BY <1>1, <1>4, StreamFirst
<1> HIDE DEF s
<1>6. /\ HandledUpTo(h.msg - 1)
      /\ \/ Begins(h) /\ ~onCont /\ wsBuffer = <<>>
         \/ GoesOn(h) /\ onCont /\ wsBuffer = <<1>>
  BY <1>2, <1>4 DEF Between
<1>7. ~h.payload
  BY <1>6 DEF Begins, GoesOn
<1>8. /\ \/ wsPlan[h.msg] \in {"split", "pinged"} /\ h.op = "TEXT" /\ ~h.fin /\ h.part = 1
         \/ wsPlan[h.msg] \in {"split", "pinged"} /\ h.op = "CONTINUATION" /\ h.fin /\ h.part = 2
         \/ wsPlan[h.msg] \in {"TEXT", "BINARY"} /\ h.op = wsPlan[h.msg] /\ h.fin /\ h.part = 1
      /\ h.msg \in 1 .. wsSent
  BY <1>4, <1>5, PieceFacts
<1>9. IsPiece(q)
  BY <1>5, StreamFirst DEF u
<1>a. q.msg = h.msg /\ q.payload /\ q.part = h.part /\ (q.fin <=> h.fin)
  BY <1>4, <1>5, <1>7, <1>8, <1>9, PayloadFollows
<1>b. /\ Stream(t)
      /\ q.fin => /\ t = <<>> => q.msg = wsSent
                  /\ t # <<>> => t[1].msg = q.msg + 1 /\ Begins(t[1])
      /\ ~q.fin => t # <<>> /\ t[1].msg = q.msg /\ GoesOn(t[1])
  <2>1. Stream(<<q>> \o t)
    BY <1>5 DEF u
  <2> QED
    BY <1>4, <1>a, <2>1, AfterPayload
<1>c. wsSent \in Nat /\ h.msg \in Nat
  BY <1>4, <1>8, WsTypes
<1>d. CASE wsPlan[h.msg] \in {"split", "pinged"} /\ h.op = "TEXT" /\ ~h.fin /\ h.part = 1
  <2>1. ~onCont /\ wsBuffer = <<>>
    BY <1>6, <1>d DEF GoesOn
  <2>2. onCont' /\ onCont' \in BOOLEAN /\ wsBuffer' = <<1>> /\ handled' = handled /\ wsOpen' = wsOpen
    <3>1. ~h.fin /\ ~(onCont /\ h.op # "CONTINUATION") /\ h.part = 1
      BY <1>d, <2>1
    <3>2. onCont' = ~h.fin /\ wsBuffer' = Append(wsBuffer, h.part) /\ handled' = handled /\ wsOpen' = wsOpen
      BY <3>1, Zenon DEF DataFrame
    <3>3. onCont' /\ onCont' \in BOOLEAN
      BY <3>1, <3>2, Zenon
    <3>4. wsBuffer' = <<1>>
      BY <2>1, <3>1, <3>2
    <3> QED
      BY <3>2, <3>3, <3>4
  <2>3. t # <<>> /\ t[1].msg = h.msg /\ GoesOn(t[1])
    BY <1>a, <1>b, <1>d
  <2>4. HandledUpTo(h.msg - 1)'
    BY <1>6, <2>2 DEF HandledUpTo, Control
  <2>5. GoesOn(t[1])'
    BY <2>3 DEF GoesOn
  <2>6. Between(t)'
    BY <2>2, <2>3, <2>4, <2>5 DEF Between
  <2>7. HandledRight'
    BY <2>2 DEF WsInv, HandledRight, HandledAt, Control
  <2> QED
    BY <1>4, <1>b, <2>2, <2>6, <2>7 DEF WsType
<1>e. CASE h.fin
  <2> DEFINE parts == IF h.op = "CONTINUATION" THEN <<1, 2>> ELSE <<1>>
             m == [op |-> h.op, msg |-> h.msg, parts |-> parts]
  <2>1. /\ ~onCont' /\ onCont' \in BOOLEAN /\ wsBuffer' = <<>> /\ wsOpen' = wsOpen /\ handled' = Append(handled, m)
    <3>1. CASE h.op = "CONTINUATION" /\ h.part = 2
      <4>1. onCont /\ wsBuffer = <<1>>
        BY <1>6, <1>8, <3>1 DEF Begins, Control
      <4> QED
        <5>1. ~(onCont /\ h.op # "CONTINUATION") /\ h.fin /\ ~(h.fin /\ h.op # "CONTINUATION")
          BY <1>e, <3>1
        <5>2. /\ onCont' = ~h.fin /\ wsBuffer' = <<>> /\ wsOpen' = wsOpen
              /\ handled' = Append(handled, [op |-> h.op, msg |-> h.msg, parts |-> Append(wsBuffer, h.part)])
          BY <5>1, Zenon DEF DataFrame
        <5>3. ~onCont' /\ onCont' \in BOOLEAN
          BY <5>1, <5>2, Zenon
        <5>4. Append(wsBuffer, h.part) = parts
          BY <3>1, <4>1, BothFragments
        <5> QED
          BY <5>2, <5>3, <5>4
    <3>2. CASE h.op # "CONTINUATION" /\ h.part = 1
      <4>1. ~onCont
        BY <1>6, <1>8, <3>2 DEF GoesOn
      <4> QED
        <5>1. ~(onCont /\ h.op # "CONTINUATION") /\ h.fin /\ h.op # "CONTINUATION"
          BY <1>e, <3>2, <4>1
        <5>2. /\ onCont' = ~h.fin /\ wsBuffer' = <<>> /\ wsOpen' = wsOpen
              /\ handled' = Append(handled, [op |-> h.op, msg |-> h.msg, parts |-> Append(<<>>, h.part)])
          BY <5>1, Zenon DEF DataFrame
        <5>3. ~onCont' /\ onCont' \in BOOLEAN
          BY <5>1, <5>2, Zenon
        <5>4. Append(<<>>, h.part) = parts
          BY <3>2
        <5> QED
          BY <5>2, <5>3, <5>4
    <3> QED
      BY <1>8, <1>e, <3>1, <3>2
  <2>2. m \in HandedOnMessages /\ m.msg = h.msg /\ m.op = h.op /\ m.parts = parts
    BY <1>c DEF HandedOnMessages
  <2>3. /\ parts = IF wsPlan[h.msg] \in {"split", "pinged"} THEN <<1, 2>> ELSE <<1>>
        /\ wsPlan[h.msg] \in {"TEXT", "BINARY"} => h.op = wsPlan[h.msg]
        /\ wsPlan[h.msg] \notin Control
    BY <1>8, <1>e DEF Control
  <2> HIDE DEF m, parts
  <2>4. handled' \in Seq(HandedOnMessages) /\ HandledRight' /\ HandledUpTo(h.msg)'
    BY <1>6, <1>8, <2>1, <2>2, <2>3, HandedOnNext
  <2>5. Between(t)'
    <3>1. CASE t = <<>>
      <4>1. h.msg = wsSent'
        BY <1>a, <1>b, <1>e, <3>1
      <4>2. HandledUpTo(wsSent)'
        BY <2>4, <4>1
      <4> QED
        BY <2>1, <3>1, <4>2 DEF Between
    <3>2. CASE t # <<>>
      <4>1. t[1].msg - 1 = h.msg /\ Begins(t[1])
        BY <1>a, <1>b, <1>c, <1>e, <3>2
      <4>2. Begins(t[1])'
        BY <4>1 DEF Begins, Control
      <4>3. HandledUpTo(t[1].msg - 1)'
        BY <2>4, <4>1
      <4> QED
        BY <2>1, <3>2, <4>2, <4>3 DEF Between
    <3> QED
      BY <3>1, <3>2
  <2> QED
    BY <1>b, <2>1, <2>4, <2>5
<1> QED
  BY <1>8, <1>d, <1>e

(* what a piece is depends on the plan and on what was sent *)
LEMMA StreamKept == ASSUME UNCHANGED <<wsPlan, wsSent>>, NEW s, Stream(s) PROVE Stream(s)'
<1>1. wsPlan' = wsPlan /\ wsSent' = wsSent
  OBVIOUS
<1>2. ASSUME NEW p, OfMessage(p) PROVE OfMessage(p)'
  BY <1>1, <1>2, Zenon DEF OfMessage, WsFrame, Control
<1>3. ASSUME NEW p PROVE (Begins(p) <=> Begins(p)') /\ (Ends(p) <=> Ends(p)') /\ (GoesOn(p) <=> GoesOn(p)')
  BY <1>1, Zenon DEF Begins, Ends, GoesOn, Control
<1>4. ASSUME NEW p, NEW q, Follows(p, q) PROVE Follows(p, q)'
  BY <1>1, <1>3, <1>4 DEF Follows
<1>5. ASSUME NEW i \in 1 .. Len(s) PROVE IsPiece(s[i])'
  <2>1. s[i].msg \in 1 .. wsSent /\ OfMessage(s[i])
    BY DEF Stream, IsPiece
  <2> QED
    BY <1>1, <1>2, <2>1 DEF IsPiece
<1>6. ASSUME NEW i \in 1 .. Len(s) - 1 PROVE Follows(s[i], s[i + 1])'
  BY <1>4 DEF Stream
<1>7. s # <<>> => Ends(s[Len(s)])' /\ s[Len(s)].msg = wsSent'
  BY <1>1, <1>3 DEF Stream
<1> QED
  BY <1>5, <1>6, <1>7 DEF Stream

LEMMA ReadyReadInv == ASSUME WsInv, NEW n \in 0 .. Len(wsWire), ReadyRead(n) PROVE WsInv'
<1> DEFINE pieces == wsInbox \o SubSeq(wsWire, 1, n)
<1>1. /\ wsOpen /\ HandleWebSocketFrame(pieces) /\ wsWire' = SubSeq(wsWire, n + 1, Len(wsWire))
      /\ UNCHANGED <<wsPlan, wsSent>> /\ (n > 0 \/ wsInbox # <<>>)
  BY DEF ReadyRead
<1>2. PICK h, rest, left :
        /\ h = IF notEnough THEN wsHeader ELSE Head(pieces)
        /\ rest = IF notEnough THEN pieces ELSE Tail(pieces)
        /\ left = SubSeq(wsWire, n + 1, Len(wsWire))
        /\ h \in Pieces /\ rest \in Seq(Pieces) /\ left \in Seq(Pieces)
        /\ Coming = <<h>> \o (rest \o left)
  BY <1>1, FrameRead
<1>3. /\ wsHeader' = h
      /\ IF h.op \notin Control /\ rest = <<>>
         THEN /\ notEnough' = TRUE
              /\ wsInbox' = rest
              /\ UNCHANGED <<onCont, wsBuffer, handled, wsOpen>>
         ELSE /\ notEnough' = FALSE
              /\ wsInbox' = IF h.op \in Control THEN rest ELSE Tail(rest)
              /\ HandleFrame(h)
  BY <1>1, <1>2 DEF HandleWebSocketFrame
<1> HIDE DEF pieces
<1>4. /\ wsWire' = left /\ wsWire' \in Seq(Pieces) /\ wsHeader' \in Pieces
      /\ WsType /\ Stream(Coming) /\ Between(Coming)
  BY <1>1, <1>2, <1>3 DEF WsInv
<1>5. IsPiece(h)
  <2>1. rest \o left \in Seq(Pieces)
    BY <1>2, ConcatProperties
  <2> QED
    BY <1>2, <1>4, <2>1, StreamFirst
<1>6. ASSUME NEW s, Stream(s) PROVE Stream(s)'
  BY <1>1, <1>6, StreamKept
<1>7. ASSUME wsInbox' \in Seq(Pieces), notEnough' \in BOOLEAN, onCont' \in BOOLEAN, wsOpen' \in BOOLEAN,
             handled' \in Seq(HandedOnMessages)
      PROVE  WsType'
  BY <1>1, <1>4, <1>7 DEF WsType
<1>8. CASE h.op \notin Control /\ rest = <<>>
  <2>1. notEnough' = TRUE /\ wsInbox' = <<>> /\ UNCHANGED <<onCont, wsBuffer, handled, wsOpen>>
    BY <1>3, <1>8
  <2>2. Coming' = Coming
    BY <1>2, <1>3, <1>4, <1>8, <2>1 DEF Coming
  <2>3. WsType'
    <3>1. notEnough' \in BOOLEAN
      BY <2>1, Zenon
    <3>2. wsInbox' \in Seq(Pieces)
      BY <1>2, <1>8, <2>1
    <3>3. onCont' \in BOOLEAN /\ wsOpen' \in BOOLEAN /\ handled' \in Seq(HandedOnMessages)
      BY <1>4, <2>1 DEF WsType
    <3> QED
      BY <1>7, <3>1, <3>2, <3>3
  <2>4. Stream(Coming)'
    <3>1. PICK s : s = Coming
      OBVIOUS
    <3>2. Stream(s)'
      BY <1>4, <1>6, <3>1
    <3> QED
      BY <2>2, <3>1, <3>2
  <2>5. Between(Coming)'
    BY <1>1, <1>4, <2>1, <2>2 DEF Between, HandledUpTo, Begins, GoesOn, Control
  <2>6. HandledRight'
    BY <1>1, <2>1 DEF WsInv, HandledRight, HandledAt, Control
  <2> QED
    BY <1>1, <2>1, <2>3, <2>4, <2>5, <2>6 DEF WsInv
<1>9. CASE h.op = "PING"
  <2>1. notEnough' = FALSE /\ wsInbox' = rest /\ UNCHANGED <<onCont, wsBuffer, handled, wsOpen>>
    BY <1>3, <1>9 DEF Control, HandleFrame
  <2>2. PICK t : t = rest \o left /\ t \in Seq(Pieces)
    BY <1>2, ConcatProperties
  <2>3. Coming' = t
    BY <1>4, <2>1, <2>2, ConcatEmptySeq DEF Coming
  <2>4. Stream(t) /\ Between(t)
    BY <1>1, <1>2, <1>9, <2>2, PingRead
  <2>5. WsType'
    <3>1. notEnough' \in BOOLEAN
      BY <2>1, Zenon
    <3>2. onCont' \in BOOLEAN /\ wsOpen' \in BOOLEAN /\ handled' \in Seq(HandedOnMessages)
      BY <1>4, <2>1 DEF WsType
    <3> QED
      BY <1>2, <1>7, <2>1, <3>1, <3>2
  <2>6. Stream(t)'
    BY <1>6, <2>4
  <2>7. Between(t)'
    BY <1>1, <2>1, <2>4 DEF Between, HandledUpTo, Begins, GoesOn, Control
  <2>8. HandledRight'
    BY <1>1, <2>1 DEF WsInv, HandledRight, HandledAt, Control
  <2> QED
    BY <1>1, <2>1, <2>3, <2>5, <2>6, <2>7, <2>8 DEF WsInv, Stream, Between
<1>a. CASE h.op = "CLOSE"
  <2>1. notEnough' = FALSE /\ wsInbox' = rest /\ wsOpen' = FALSE /\ UNCHANGED <<onCont, wsBuffer, handled>>
    BY <1>3, <1>a DEF Control, HandleFrame
  <2>2. WsType'
    <3>1. notEnough' \in BOOLEAN /\ wsOpen' \in BOOLEAN
      BY <2>1, Zenon
    <3>2. onCont' \in BOOLEAN /\ handled' \in Seq(HandedOnMessages)
      BY <1>4, <2>1 DEF WsType
    <3> QED
      BY <1>2, <1>7, <2>1, <3>1, <3>2
  <2>3. h.msg \in 1 .. Len(wsPlan) /\ wsPlan[h.msg] = "CLOSE"
    BY <1>4, <1>5, <1>a, PieceFacts
  <2>4. HandledRight'
    BY <1>1, <2>1 DEF WsInv, HandledRight, HandledAt, Control
  <2> QED
    BY <1>1, <2>1, <2>2, <2>3, <2>4 DEF WsInv
<1>b. CASE h.op \in {"CONTINUATION", "BINARY", "TEXT"} /\ rest # <<>>
  <2>1. notEnough' = FALSE /\ wsInbox' = Tail(rest) /\ DataFrame(h)
    BY <1>3, <1>b DEF Control, HandleFrame
  <2>2. PICK q, more : q \in Pieces /\ more = Tail(rest) /\ more \in Seq(Pieces) /\ rest = <<q>> \o more
    BY <1>2, <1>b, FirstAndRest
  <2>3. PICK t : t = more \o left /\ t \in Seq(Pieces)
    BY <1>2, <2>2, ConcatProperties
  <2>4. Coming = <<h>> \o (<<q>> \o t)
    <3> DEFINE one == <<q>>
    <3>1. one \in Seq(Pieces) /\ more \in Seq(Pieces) /\ left \in Seq(Pieces)
      BY <1>2, <2>2
    <3> HIDE DEF one
    <3>2. (one \o more) \o left = one \o (more \o left)
      BY <3>1, ConcatAssociative
    <3>3. rest \o left = one \o t
      BY <2>2, <2>3, <3>2 DEF one
    <3>4. Coming = <<h>> \o (rest \o left)
      BY <1>2
    <3> QED
      BY <3>3, <3>4 DEF one
  <2>5. /\ wsOpen' = wsOpen /\ handled' \in Seq(HandedOnMessages) /\ onCont' \in BOOLEAN /\ HandledRight'
        /\ Stream(t) /\ Between(t)'
    BY <1>1, <1>2, <1>b, <2>1, <2>2, <2>3, <2>4, DataRead
  <2>6. Coming' = t
    BY <1>4, <2>1, <2>2, <2>3, ConcatEmptySeq DEF Coming
  <2>7. WsType'
    <3>1. notEnough' \in BOOLEAN
      BY <2>1, Zenon
    <3>2. wsOpen' \in BOOLEAN
      BY <1>4, <2>5 DEF WsType
    <3> QED
      BY <1>7, <2>1, <2>2, <2>5, <3>1, <3>2
  <2>8. Stream(t)'
    BY <1>6, <2>5
  <2> QED
    BY <1>1, <2>1, <2>5, <2>6, <2>7, <2>8 DEF WsInv, Stream, Between
<1> QED
  <2>1. h.op \in {"TEXT", "BINARY", "CONTINUATION", "PING", "CLOSE"}
    BY <1>4, <1>5, PieceFacts
  <2> QED
    BY <1>8, <1>9, <1>a, <1>b, <2>1 DEF Control

(* a message follows what is coming *)
LEMMA StreamExtended ==
  ASSUME WsType, NEW s \in Seq(Pieces), NEW p \in Seq(Pieces), Stream(s), wsSent \in Nat, WholeMessage(p, wsSent + 1)
  PROVE  LET u == s \o p
         IN  /\ u \in Seq(Pieces) /\ u # <<>>
             /\ u[1] = IF s = <<>> THEN p[1] ELSE s[1]
             /\ \A i \in 1 .. Len(u) : u[i].msg \in 1 .. wsSent + 1 /\ OfMessage(u[i])
             /\ \A i \in 1 .. Len(u) - 1 : Follows(u[i], u[i + 1])
             /\ Ends(u[Len(u)]) /\ u[Len(u)].msg = wsSent + 1
<1> DEFINE u == s \o p
           m == wsSent + 1
<1>1. /\ Len(s) \in Nat /\ Len(p) \in Nat /\ u \in Seq(Pieces) /\ Len(u) = Len(s) + Len(p)
      /\ \A i \in 1 .. Len(s) + Len(p) : u[i] = IF i <= Len(s) THEN s[i] ELSE p[i - Len(s)]
  BY LenProperties, ConcatProperties
<1> HIDE DEF u
<1>2. /\ Len(p) >= 1 /\ \A i \in 1 .. Len(p) : p[i].msg = m /\ OfMessage(p[i])
      /\ \A i \in 1 .. Len(p) - 1 : Follows(p[i], p[i + 1])
      /\ Begins(p[1]) /\ Ends(p[Len(p)])
  BY DEF WholeMessage
<1>3. /\ \A i \in 1 .. Len(s) : s[i].msg \in 1 .. wsSent /\ OfMessage(s[i])
      /\ \A i \in 1 .. Len(s) - 1 : Follows(s[i], s[i + 1])
      /\ s # <<>> => Ends(s[Len(s)]) /\ s[Len(s)].msg = wsSent
  BY DEF Stream, IsPiece
<1>4. \A n \in 1 .. wsSent : n \in 1 .. m
  OBVIOUS
<1>5. s = <<>> <=> Len(s) = 0
  BY <1>1, EmptySeq
<1>m. m \in Nat /\ m >= 1
  OBVIOUS
<1> HIDE DEF m
<1>6. ASSUME NEW i \in 1 .. Len(u) PROVE u[i].msg \in 1 .. m /\ OfMessage(u[i])
  <2>1. CASE i <= Len(s)
    <3>1. i \in 1 .. Len(s) /\ u[i] = s[i]
      BY <1>1, <2>1
    <3> QED
      BY <1>3, <1>4, <3>1
  <2>2. CASE ~(i <= Len(s))
    <3>1. i - Len(s) \in 1 .. Len(p) /\ u[i] = p[i - Len(s)]
      BY <1>1, <2>2
    <3>2. u[i].msg = m /\ OfMessage(u[i])
      BY <1>2, <3>1
    <3> QED
      BY <1>m, <3>2
  <2> QED
    BY <2>1, <2>2
<1>7. ASSUME NEW i \in 1 .. Len(u) - 1 PROVE Follows(u[i], u[i + 1])
  <2>1. CASE i + 1 <= Len(s)
    <3>1. i \in 1 .. Len(s) - 1 /\ u[i] = s[i] /\ u[i + 1] = s[i + 1]
      BY <1>1, <2>1
    <3> QED
      BY <1>3, <3>1
  <2>2. CASE i = Len(s)
    <3>1. u[i] = s[Len(s)] /\ u[i + 1] = p[1] /\ s # <<>>
      <4>1. /\ i \in 1 .. Len(s) + Len(p) /\ i <= Len(s) /\ Len(s) # 0
            /\ i + 1 \in 1 .. Len(s) + Len(p) /\ ~(i + 1 <= Len(s)) /\ (i + 1) - Len(s) = 1
        BY <1>1, <1>2, <2>2
      <4>2. u[i] = s[i] /\ u[i + 1] = p[(i + 1) - Len(s)]
        BY <1>1, <4>1
      <4> QED
        BY <1>5, <2>2, <4>1, <4>2
    <3>2. p[1].msg = m
      BY <1>1, <1>2
    <3>3. p[1].msg = s[Len(s)].msg + 1
      BY <1>3, <3>1, <3>2 DEF m
    <3> QED
      BY <1>2, <1>3, <3>1, <3>3 DEF Follows
  <2>3. CASE i > Len(s)
    <3>1. /\ i - Len(s) \in 1 .. Len(p) - 1 /\ u[i] = p[i - Len(s)]
          /\ u[i + 1] = p[(i + 1) - Len(s)] /\ (i + 1) - Len(s) = (i - Len(s)) + 1
      BY <1>1, <2>3
    <3>2. Follows(p[i - Len(s)], p[(i - Len(s)) + 1])
      BY <1>2, <3>1
    <3> QED
      BY <3>1, <3>2
  <2> QED
    BY <1>1, <2>1, <2>2, <2>3
<1>8. Ends(u[Len(u)]) /\ u[Len(u)].msg = m
  <2>1. u[Len(u)] = p[Len(p)] /\ Len(p) \in 1 .. Len(p)
    BY <1>1, <1>2
  <2> QED
    BY <1>2, <2>1
<1>9. u # <<>> /\ u[1] = IF s = <<>> THEN p[1] ELSE s[1]
  <2>1. u # <<>>
    BY <1>1, <1>2, EmptySeq
  <2>2. CASE Len(s) = 0
    <3>1. u[1] = p[1]
      BY <1>1, <1>2, <2>2
    <3> QED
      BY <1>5, <2>1, <2>2, <3>1
  <2>3. CASE Len(s) # 0
    <3>1. u[1] = s[1]
      BY <1>1, <1>2, <2>3
    <3> QED
      BY <1>5, <2>1, <2>3, <3>1
  <2> QED
    BY <2>2, <2>3
<1> QED
  BY <1>1, <1>6, <1>7, <1>8, <1>9 DEF u, m

LEMMA WsSendInv == ASSUME WsInv, WsSend PROVE WsInv'
<1> DEFINE m == wsSent + 1
<1>1. /\ wsOpen /\ wsSent < Len(wsPlan) /\ wsSent' = m
      /\ UNCHANGED <<wsPlan, wsInbox, wsHeader, notEnough, onCont, wsBuffer, handled, wsOpen>>
      /\ WsType /\ Stream(Coming) /\ Between(Coming)
  BY DEF WsSend, WsInv
<1>2. /\ wsSent \in Nat /\ Len(wsPlan) \in Nat /\ m \in 1 .. Len(wsPlan)
      /\ m - 1 = wsSent /\ wsSent' \in 0 .. Len(wsPlan)
  BY <1>1, WsTypes
<1>3. PICK p : p = PiecesOf(wsPlan[m], m) /\ WholeMessage(p, m)
  BY <1>1, <1>2, PiecesOfMessage
<1>4. wsWire' = wsWire \o p
  BY <1>1, <1>3 DEF WsSend
<1>5. p \in Seq(Pieces) /\ Len(p) >= 1 /\ Begins(p[1]) /\ p[1].msg = m
  <2>1. p \in Seq(Pieces) /\ Len(p) >= 1 /\ Begins(p[1]) /\ \A i \in 1 .. Len(p) : p[i].msg = m
    BY <1>3 DEF WholeMessage
  <2>2. 1 \in 1 .. Len(p)
    BY <2>1, LenProperties
  <2> QED
    BY <2>1, <2>2
<1>6. PICK first : first = (IF notEnough THEN <<wsHeader>> ELSE <<>>) /\ first \in Seq(Pieces)
  <2>1. <<wsHeader>> \in Seq(Pieces)
    BY <1>1 DEF WsType
  <2>2. <<>> \in Seq(Pieces)
    BY EmptySeq
  <2> QED
    BY <2>1, <2>2
<1>7. PICK s : s = Coming /\ s \in Seq(Pieces)
  <2>1. wsInbox \o wsWire \in Seq(Pieces)
    BY <1>1, ConcatProperties DEF WsType
  <2>2. first \o (wsInbox \o wsWire) \in Seq(Pieces)
    BY <1>6, <2>1, ConcatProperties
  <2> QED
    BY <1>6, <2>2 DEF Coming
<1>8. wsWire' \in Seq(Pieces)
  BY <1>1, <1>4, <1>5, ConcatProperties DEF WsType
<1>9. Coming' = s \o p
  <2>1. wsInbox \in Seq(Pieces) /\ wsWire \in Seq(Pieces)
    BY <1>1 DEF WsType
  <2>2. wsInbox \o (wsWire \o p) = (wsInbox \o wsWire) \o p
    <3>1. wsInbox \in Seq(Pieces) /\ wsWire \in Seq(Pieces) /\ p \in Seq(Pieces)
      BY <1>5, <2>1
    <3>2. (wsInbox \o wsWire) \o p = wsInbox \o (wsWire \o p)
      BY <3>1, ConcatAssociative
    <3> QED
      BY <3>2
  <2>3. PICK w : w = wsInbox \o wsWire /\ w \in Seq(Pieces)
    BY <2>1, ConcatProperties
  <2>4. first \o (w \o p) = (first \o w) \o p
    <3>1. p \in Seq(Pieces) /\ w \in Seq(Pieces) /\ first \in Seq(Pieces)
      BY <1>5, <1>6, <2>3
    <3> QED
      BY <3>1, ConcatAssociative
  <2>5. Coming' = first \o (wsInbox \o (wsWire \o p))
    BY <1>1, <1>4, <1>6 DEF Coming
  <2>6. s = first \o w
    BY <1>6, <1>7, <2>3 DEF Coming
  <2> QED
    BY <2>2, <2>3, <2>4, <2>5, <2>6
<1>a. PICK u :
        /\ u = s \o p /\ u \in Seq(Pieces) /\ u # <<>>
        /\ u[1] = IF s = <<>> THEN p[1] ELSE s[1]
        /\ \A i \in 1 .. Len(u) : u[i].msg \in 1 .. m /\ OfMessage(u[i])
        /\ \A i \in 1 .. Len(u) - 1 : Follows(u[i], u[i + 1])
        /\ Ends(u[Len(u)]) /\ u[Len(u)].msg = m
  <2> DEFINE v == s \o p
  <2>1. Stream(s)
    BY <1>1, <1>7
  <2>2. /\ v \in Seq(Pieces) /\ v # <<>>
        /\ v[1] = IF s = <<>> THEN p[1] ELSE s[1]
        /\ \A i \in 1 .. Len(v) : v[i].msg \in 1 .. m /\ OfMessage(v[i])
        /\ \A i \in 1 .. Len(v) - 1 : Follows(v[i], v[i + 1])
        /\ Ends(v[Len(v)]) /\ v[Len(v)].msg = m
    BY <1>1, <1>2, <1>3, <1>5, <1>7, <2>1, StreamExtended
  <2> HIDE DEF m
  <2>3. v = s \o p
    OBVIOUS
  <2> HIDE DEF v
  <2> QED
    BY <2>2, <2>3
<1>b. Stream(u)'
  <2>1. wsPlan' = wsPlan /\ wsSent' = m
    BY <1>1
  <2>2. ASSUME NEW x, OfMessage(x) PROVE OfMessage(x)'
    BY <2>1, <2>2, Zenon DEF OfMessage, WsFrame, Control
  <2>3. ASSUME NEW x PROVE (Begins(x) <=> Begins(x)') /\ (Ends(x) <=> Ends(x)') /\ (GoesOn(x) <=> GoesOn(x)')
    BY <2>1, Zenon DEF Begins, Ends, GoesOn, Control
  <2>4. ASSUME NEW x, NEW y, Follows(x, y) PROVE Follows(x, y)'
    BY <2>1, <2>3, <2>4 DEF Follows
  <2>5. ASSUME NEW i \in 1 .. Len(u) PROVE IsPiece(u[i])'
    <3>1. u[i].msg \in 1 .. m /\ OfMessage(u[i])
      BY <1>a
    <3> QED
      BY <2>1, <2>2, <3>1 DEF IsPiece
  <2>6. ASSUME NEW i \in 1 .. Len(u) - 1 PROVE Follows(u[i], u[i + 1])'
    BY <1>a, <2>4
  <2>7. Ends(u[Len(u)])' /\ u[Len(u)].msg = wsSent'
    BY <1>a, <2>1, <2>3
  <2> QED
    BY <2>5, <2>6, <2>7 DEF Stream
<1>c. Between(u)'
  <2>1. wsPlan' = wsPlan /\ handled' = handled /\ onCont' = onCont /\ wsBuffer' = wsBuffer
    BY <1>1
  <2>2. Between(s)
    BY <1>1, <1>7
  <2>3. CASE s = <<>>
    <3>1. u[1] = p[1] /\ HandledUpTo(u[1].msg - 1) /\ Begins(u[1]) /\ ~onCont /\ wsBuffer = <<>>
      BY <1>2, <1>5, <1>a, <2>2, <2>3 DEF Between
    <3> QED
      BY <1>a, <2>1, <3>1 DEF Between, HandledUpTo, Begins, Control
  <2>4. CASE s # <<>>
    <3>1. /\ u[1] = s[1] /\ HandledUpTo(u[1].msg - 1)
          /\ \/ Begins(u[1]) /\ ~onCont /\ wsBuffer = <<>>
             \/ GoesOn(u[1]) /\ onCont /\ wsBuffer = <<1>>
      BY <1>a, <2>2, <2>4 DEF Between
    <3> QED
      BY <1>a, <2>1, <3>1 DEF Between, HandledUpTo, Begins, GoesOn, Control
  <2> QED
    BY <2>3, <2>4
<1>d. HandledRight'
  <2>1. wsPlan' = wsPlan /\ handled' = handled /\ wsSent' = m
    BY <1>1
  <2>2. \A n \in 1 .. wsSent : n \in 1 .. m
    BY <1>2
  <2> QED
    BY <2>1, <2>2 DEF WsInv, HandledRight, HandledAt, Control
<1>e. WsType'
  BY <1>1, <1>2, <1>8 DEF WsType
<1> QED
  BY <1>1, <1>9, <1>a, <1>b, <1>c, <1>d, <1>e DEF WsInv, Stream, Between

LEMMA WsInitInv == WsInit => WsInv
<1> SUFFICES ASSUME WsInit PROVE WsInv
  OBVIOUS
<1>1. /\ wsPlan \in Seq(WsKinds) /\ wsSent = 0 /\ wsWire = <<>> /\ wsInbox = <<>> /\ wsBuffer = <<>> /\ handled = <<>>
  BY WsPlansAssumption DEF WsInit, WsKinds
<1>2. ~notEnough /\ ~onCont /\ wsOpen
  BY DEF WsInit
<1>3. notEnough \in BOOLEAN /\ onCont \in BOOLEAN /\ wsOpen \in BOOLEAN
  BY Zenon DEF WsInit
<1>4. wsHeader \in Pieces
  BY DEF WsInit, WsFrame, Pieces
<1>5. WsType
  <2>1. Len(wsPlan) \in Nat
    BY <1>1, LenProperties
  <2>2. wsSent \in 0 .. Len(wsPlan)
    BY <1>1, <2>1
  <2>3. wsWire \in Seq(Pieces) /\ wsInbox \in Seq(Pieces) /\ handled \in Seq(HandedOnMessages)
    BY <1>1, EmptySeq
  <2> QED
    BY <1>1, <1>3, <1>4, <2>2, <2>3 DEF WsType
<1>6. Coming = <<>>
  <2>1. wsInbox \in Seq(Pieces) /\ wsWire \in Seq(Pieces)
    BY <1>1, EmptySeq
  <2> QED
    BY <1>1, <1>2, <2>1, ConcatEmptySeq DEF Coming
<1>7. Len(handled) = 0 /\ Len(<<>>) = 0
  BY <1>1, EmptySeq
<1>8. HandledUpTo(0) /\ HandledRight
  BY <1>7 DEF HandledUpTo, HandledRight, HandledAt
<1>9. Stream(<<>>) /\ Between(<<>>)
  BY <1>1, <1>2, <1>7, <1>8 DEF Stream, Between
<1> QED
  BY <1>1, <1>2, <1>5, <1>6, <1>8, <1>9 DEF WsInv

LEMMA WsNextInv == WsInv /\ (WsNext \/ UNCHANGED wsVars) => WsInv'
<1>1. ASSUME WsInv, ReadHeaderInParts \/ UNCHANGED wsVars PROVE WsInv'
  <2>1. UNCHANGED <<wsPlan, wsSent, wsWire, wsInbox, wsHeader, notEnough, onCont, wsBuffer, handled, wsOpen>>
    BY <1>1 DEF ReadHeaderInParts, wsVars
  <2>2. Coming' = Coming
    BY <2>1 DEF Coming
  <2>3. Stream(Coming) => Stream(Coming)'
    <3>1. PICK s : s = Coming
      OBVIOUS
    <3> QED
      BY <2>1, <2>2, <3>1, StreamKept DEF Stream
  <2>4. Between(Coming) => Between(Coming)'
    BY <2>1, <2>2 DEF Between, HandledUpTo, Begins, GoesOn, Control
  <2>5. WsType'
    BY <1>1, <2>1 DEF WsInv, WsType
  <2>6. HandledRight'
    BY <1>1, <2>1 DEF WsInv, HandledRight, HandledAt, Control
  <2> QED
    BY <1>1, <2>1, <2>3, <2>4, <2>5, <2>6 DEF WsInv
<1> QED
  BY <1>1, WsSendInv, ReadyReadInv DEF WsNext

LEMMA WsInOrder == WsInv => MessagesWhole
<1> SUFFICES ASSUME WsInv PROVE MessagesWhole
  OBVIOUS
<1> DEFINE data == {m \in 1 .. wsSent : wsPlan[m] \notin Control}
           done == {handled[i].msg : i \in 1 .. Len(handled)}
<1>1. WsType /\ DOMAIN handled = 1 .. Len(handled) /\ DOMAIN wsPlan = 1 .. Len(wsPlan)
      /\ wsSent \in Nat /\ \A i \in 1 .. Len(handled) : handled[i].msg \in Nat
  BY WsTypes DEF WsInv
<1>2. done \subseteq data
  BY DEF WsInv, HandledRight, HandledAt
<1>3. ASSUME NEW i \in 1 .. Len(handled)
      PROVE  /\ \A j \in 1 .. i - 1 : handled[j].msg < handled[i].msg
             /\ \A m \in data : m < handled[i].msg => m \in done
             /\ LET kind == wsPlan[handled[i].msg]
                IN  /\ handled[i].parts = IF kind \in {"split", "pinged"} THEN <<1, 2>> ELSE <<1>>
                    /\ kind \in {"TEXT", "BINARY"} => handled[i].op = kind
  <2>1. ASSUME NEW m \in data, m < handled[i].msg PROVE m \in done
    <3>1. m \in 1 .. handled[i].msg /\ wsPlan[m] \notin Control
      BY <1>1, <2>1
    <3> QED
      BY <3>1 DEF WsInv, HandledRight, HandledAt
  <2> QED
    BY <2>1 DEF WsInv, HandledRight, HandledAt
<1>4. ASSUME wsOpen, wsWire = <<>>, wsInbox = <<>>, ~notEnough PROVE done = data
  <2>1. Coming = <<>>
    <3>1. wsInbox \in Seq(Pieces) /\ wsWire \in Seq(Pieces)
      BY <1>1 DEF WsType
    <3> QED
      BY <1>4, <3>1, ConcatEmptySeq DEF Coming
  <2>2. HandledUpTo(wsSent)
    BY <1>4, <2>1 DEF WsInv, Between
  <2>3. data \subseteq done
    BY <2>2 DEF HandledUpTo
  <2> QED
    BY <1>2, <2>3
<1>5. ~wsOpen => \E m \in 1 .. Len(wsPlan) : wsPlan[m] = "CLOSE"
  BY DEF WsInv
<1> QED
  BY <1>1, <1>2, <1>3, <1>4, <1>5 DEF MessagesWhole

-----------------------------------------------------------------------------
(***************************************************************************)
(* The stream of a proto client, for every plan.  What was not read begins *)
(* with the first piece of the next message to answer, or its body while   *)
(* readData() waits for that; each piece is followed by the one sent next, *)
(* and the last one, while the client lives, ends what was sent.           *)
(***************************************************************************)

StreamPieces == [kind : {"length", "first", "second", "body"}, msg : Nat]

StreamType ==
  /\ streamPlan \in Seq(BOOLEAN) /\ sent \in 0 .. Len(streamPlan)
  /\ streamWire \in Seq(StreamPieces) /\ streamInbox \in Seq(StreamPieces)
  /\ answers \in Seq(1 .. Len(streamPlan))
  /\ link \in {"off", "connecting", "up", "gone"} /\ (sent > 0 => link \in {"up", "gone"})
  /\ reader \in {"idle", "reading", "body", "stuck"}

NextPiece(p, q) ==
  \/ p.kind = "first" /\ q.kind = "second" /\ q.msg = p.msg
  \/ p.kind \in {"length", "second"} /\ q.kind = "body" /\ q.msg = p.msg
  \/ p.kind = "body" /\ q.kind \in {"length", "first"} /\ q.msg = p.msg + 1

(* pieces of the first n messages, one after the other *)
Chained(u, n) ==
  /\ \A i \in 1 .. Len(u) : u[i].msg \in 1 .. n
  /\ \A i \in 1 .. Len(u) - 1 : NextPiece(u[i], u[i + 1])

Unread == streamInbox \o streamWire

(* the first unread piece, and the last *)
FirstRight(u) == u[1].msg = Len(answers) + 1 /\ u[1].kind \in IF reader = "body" THEN {"body"} ELSE {"length", "first"}
LastRight(u)  == u[Len(u)].kind = "body" /\ u[Len(u)].msg = sent

UnreadRight(u) ==
  /\ Chained(u, sent)
  /\ u # <<>> /\ link # "gone" => LastRight(u)
  /\ u # <<>> /\ reader # "stuck" => FirstRight(u)
  /\ u = <<>> /\ link # "gone" => Len(answers) = sent /\ reader # "body"

ReaderRight ==
  /\ reader = "body" => streamInbox = <<>>
  /\ reader = "idle" /\ streamInbox # <<>> => answers # <<>> /\ ~streamPlan[Len(answers)]

StreamInv == StreamType /\ UnreadRight(Unread) /\ ReaderRight /\ \A i \in 1 .. Len(answers) : answers[i] = i

LEMMA ChainDropped ==
  ASSUME NEW u \in Seq(StreamPieces), NEW n \in Nat, Chained(u, n), NEW k \in 0 .. Len(u)
  PROVE  Chained(SubSeq(u, k + 1, Len(u)), n)
<1> DEFINE v == SubSeq(u, k + 1, Len(u))
<1>1. Len(u) \in Nat /\ k \in Int
  BY LenProperties
<1>2. Len(v) = Len(u) - k /\ \A i \in 1 .. Len(u) - k : v[i] = u[i + k]
  BY Dropped
<1> HIDE DEF v
<1>3. ASSUME NEW i \in 1 .. Len(v) PROVE v[i].msg \in 1 .. n
  <2>1. i + k \in 1 .. Len(u) /\ v[i] = u[i + k]
    BY <1>1, <1>2
  <2> QED
    BY <2>1 DEF Chained
<1>4. ASSUME NEW i \in 1 .. Len(v) - 1 PROVE NextPiece(v[i], v[i + 1])
  <2>0. /\ i \in 1 .. Len(u) - k /\ i + 1 \in 1 .. Len(u) - k /\ i + k \in 1 .. Len(u) - 1
        /\ (i + 1) + k = (i + k) + 1
    BY <1>1, <1>2
  <2>1. i + k \in 1 .. Len(u) - 1 /\ v[i] = u[i + k] /\ v[i + 1] = u[(i + 1) + k] /\ (i + 1) + k = (i + k) + 1
    BY <1>2, <2>0
  <2>2. NextPiece(u[i + k], u[(i + k) + 1])
    BY <2>1 DEF Chained
  <2> QED
    BY <2>1, <2>2
<1>5. Chained(v, n)
  BY <1>3, <1>4 DEF Chained
<1> QED
  BY <1>5 DEF v

LEMMA ChainTaken ==
  ASSUME NEW u \in Seq(StreamPieces), NEW v \in Seq(StreamPieces), NEW n \in Nat, Chained(u \o v, n)
  PROVE  Chained(u, n)
<1> DEFINE w == u \o v
<1>1. Len(u) \in Nat /\ Len(v) \in Nat
  BY LenProperties
<1>2. Len(w) = Len(u) + Len(v) /\ \A i \in 1 .. Len(u) + Len(v) : w[i] = IF i <= Len(u) THEN u[i] ELSE v[i - Len(u)]
  BY ConcatProperties
<1>c. Chained(w, n)
  OBVIOUS
<1> HIDE DEF w
<1>3. ASSUME NEW i \in 1 .. Len(u) PROVE u[i].msg \in 1 .. n
  <2>1. i \in 1 .. Len(w) /\ w[i] = u[i]
    BY <1>1, <1>2
  <2> QED
    BY <1>c, <2>1 DEF Chained
<1>4. ASSUME NEW i \in 1 .. Len(u) - 1 PROVE NextPiece(u[i], u[i + 1])
  <2>1. i \in 1 .. Len(w) - 1 /\ w[i] = u[i] /\ w[i + 1] = u[i + 1]
    BY <1>1, <1>2
  <2>2. NextPiece(w[i], w[i + 1])
    BY <1>c, <2>1 DEF Chained
  <2> QED
    BY <2>1, <2>2
<1> QED
  BY <1>3, <1>4 DEF Chained

LEMMA ChainExtended ==
  ASSUME NEW u \in Seq(StreamPieces), NEW v \in Seq(StreamPieces), NEW n \in Nat,
         Chained(u, n), Chained(v, n + 1), u # <<>> /\ v # <<>> => NextPiece(u[Len(u)], v[1])
  PROVE  Chained(u \o v, n + 1)
<1> DEFINE w == u \o v
<1>1. Len(u) \in Nat /\ Len(v) \in Nat
  BY LenProperties
<1>2. Len(w) = Len(u) + Len(v) /\ \A i \in 1 .. Len(u) + Len(v) : w[i] = IF i <= Len(u) THEN u[i] ELSE v[i - Len(u)]
  BY ConcatProperties
<1> HIDE DEF w
<1>3. ASSUME NEW i \in 1 .. Len(w) PROVE w[i].msg \in 1 .. n + 1
  <2>1. CASE i <= Len(u)
    <3>1. i \in 1 .. Len(u) /\ w[i] = u[i]
      BY <1>1, <1>2, <2>1
    <3>2. u[i].msg \in 1 .. n
      BY <3>1 DEF Chained
    <3> QED
      BY <3>1, <3>2
  <2>2. CASE ~(i <= Len(u))
    <3>1. i - Len(u) \in 1 .. Len(v) /\ w[i] = v[i - Len(u)]
      BY <1>1, <1>2, <2>2
    <3> QED
      BY <3>1 DEF Chained
  <2> QED
    BY <2>1, <2>2
<1>4. ASSUME NEW i \in 1 .. Len(w) - 1 PROVE NextPiece(w[i], w[i + 1])
  <2>1. CASE i < Len(u)
    <3>1. i \in 1 .. Len(u) - 1 /\ w[i] = u[i] /\ w[i + 1] = u[i + 1]
      BY <1>1, <1>2, <2>1
    <3>2. NextPiece(u[i], u[i + 1])
      BY <3>1 DEF Chained
    <3> QED
      BY <3>1, <3>2
  <2>2. CASE i = Len(u)
    <3>1. w[i] = u[Len(u)] /\ w[i + 1] = v[1] /\ Len(u) # 0 /\ Len(v) # 0
      <4>1. w[i] = u[i] /\ w[i + 1] = v[(i + 1) - Len(u)] /\ (i + 1) - Len(u) = 1 /\ Len(u) # 0 /\ Len(v) # 0
        BY <1>1, <1>2, <2>2
      <4> QED
        BY <2>2, <4>1
    <3>2. u # <<>> /\ v # <<>>
      BY <3>1
    <3> QED
      BY <3>1, <3>2
  <2>3. CASE i > Len(u)
    <3>1. /\ i - Len(u) \in 1 .. Len(v) - 1 /\ w[i] = v[i - Len(u)]
          /\ w[i + 1] = v[(i + 1) - Len(u)] /\ (i + 1) - Len(u) = (i - Len(u)) + 1
      BY <1>1, <1>2, <2>3
    <3>2. NextPiece(v[i - Len(u)], v[(i - Len(u)) + 1])
      BY <3>1 DEF Chained
    <3> QED
      BY <3>1, <3>2
  <2> QED
    BY <1>1, <1>2, <2>1, <2>2, <2>3
<1>5. Chained(w, n + 1)
  BY <1>3, <1>4 DEF Chained
<1> QED
  BY <1>5 DEF w

(* the pieces of one message *)
LEMMA PiecesChained ==
  ASSUME NEW n \in Nat, NEW s \in {Whole(n + 1), Cut(n + 1)}
  PROVE  /\ s \in Seq(StreamPieces) /\ s # <<>> /\ Chained(s, n + 1)
         /\ s[1].kind \in {"length", "first"} /\ s[1].msg = n + 1
         /\ s[Len(s)].kind = "body" /\ s[Len(s)].msg = n + 1
<1> DEFINE m == n + 1
<1>0. m \in Nat /\ m \in 1 .. m
  OBVIOUS
<1>a. s \in {Whole(m), Cut(m)}
  OBVIOUS
<1> HIDE DEF m
<1>b. /\ s \in Seq(StreamPieces) /\ s # <<>> /\ Chained(s, m)
      /\ s[1].kind \in {"length", "first"} /\ s[1].msg = m
      /\ s[Len(s)].kind = "body" /\ s[Len(s)].msg = m
  <2>0. s = Whole(m) \/ s = Cut(m)
    BY <1>a
  <2>1. CASE s = Whole(m)
    <3>1. s = <<Piece("length", m), Piece("body", m)>>
      BY <2>1 DEF Whole
    <3>2. /\ Piece("length", m) \in StreamPieces /\ Piece("body", m) \in StreamPieces
          /\ Piece("length", m).kind = "length" /\ Piece("body", m).kind = "body"
          /\ Piece("length", m).msg = m /\ Piece("body", m).msg = m
      BY <1>0 DEF Piece, StreamPieces
    <3>3. s \in Seq(StreamPieces) /\ Len(s) = 2 /\ s[1] = Piece("length", m) /\ s[2] = Piece("body", m)
      BY <3>1, <3>2
    <3>4. \A i \in 1 .. Len(s) : s[i].msg \in 1 .. m
      BY <1>0, <3>2, <3>3
    <3>5. \A i \in 1 .. Len(s) - 1 : NextPiece(s[i], s[i + 1])
      <4> TAKE i \in 1 .. Len(s) - 1
      <4>1. i = 1 /\ i + 1 = 2
        BY <3>3
      <4> QED
        BY <3>2, <3>3, <4>1 DEF NextPiece
    <3>6. Chained(s, m)
      BY <3>4, <3>5 DEF Chained
    <3>7. s # <<>> /\ s[Len(s)] = Piece("body", m)
      BY <3>3
    <3> QED
      BY <3>2, <3>3, <3>6, <3>7
  <2>2. CASE s = Cut(m)
    <3>1. s = <<Piece("first", m), Piece("second", m), Piece("body", m)>>
      BY <2>2 DEF Cut
    <3>2. /\ Piece("first", m) \in StreamPieces /\ Piece("second", m) \in StreamPieces /\ Piece("body", m) \in StreamPieces
          /\ Piece("first", m).kind = "first" /\ Piece("second", m).kind = "second" /\ Piece("body", m).kind = "body"
          /\ Piece("first", m).msg = m /\ Piece("second", m).msg = m /\ Piece("body", m).msg = m
      BY <1>0 DEF Piece, StreamPieces
    <3>3. s \in Seq(StreamPieces) /\ Len(s) = 3 /\ s[1] = Piece("first", m) /\ s[2] = Piece("second", m) /\ s[3] = Piece("body", m)
      BY <3>1, <3>2
    <3>4. \A i \in 1 .. Len(s) : s[i].msg \in 1 .. m
      BY <1>0, <3>2, <3>3
    <3>5. \A i \in 1 .. Len(s) - 1 : NextPiece(s[i], s[i + 1])
      <4> TAKE i \in 1 .. Len(s) - 1
      <4>1. (i = 1 /\ i + 1 = 2) \/ (i = 2 /\ i + 1 = 3)
        BY <3>3
      <4> QED
        BY <3>2, <3>3, <4>1 DEF NextPiece
    <3>6. Chained(s, m)
      BY <3>4, <3>5 DEF Chained
    <3>7. s # <<>> /\ s[Len(s)] = Piece("body", m)
      BY <3>3
    <3> QED
      BY <3>2, <3>3, <3>6, <3>7
  <2> QED
    BY <2>0, <2>1, <2>2
<1> QED
  BY <1>b DEF m

LEMMA UnreadFacts ==
  ASSUME StreamType
  PROVE  /\ Unread \in Seq(StreamPieces) /\ Len(Unread) \in Nat
         /\ Len(Unread) = Len(streamInbox) + Len(streamWire)
         /\ Len(streamInbox) \in Nat /\ Len(streamWire) \in Nat
         /\ \A i \in 1 .. Len(streamInbox) : Unread[i] = streamInbox[i]
         /\ streamInbox # <<>> => Unread # <<>>
<1>1. streamInbox \in Seq(StreamPieces) /\ streamWire \in Seq(StreamPieces)
  BY DEF StreamType
<1>2. Len(streamInbox) \in Nat /\ Len(streamWire) \in Nat
  BY <1>1, LenProperties
<1>3. /\ Unread \in Seq(StreamPieces) /\ Len(Unread) = Len(streamInbox) + Len(streamWire)
      /\ \A i \in 1 .. Len(streamInbox) + Len(streamWire) :
           Unread[i] = IF i <= Len(streamInbox) THEN streamInbox[i] ELSE streamWire[i - Len(streamInbox)]
  BY <1>1, ConcatProperties DEF Unread
<1>4. \A i \in 1 .. Len(streamInbox) : Unread[i] = streamInbox[i]
  BY <1>2, <1>3
<1>5. ASSUME streamInbox # <<>> PROVE Unread # <<>>
  <2>1. Len(streamInbox) # 0
    BY <1>1, <1>5, EmptySeq
  <2> QED
    BY <1>2, <1>3, <2>1
<1> QED
  BY <1>2, <1>3, <1>4, <1>5

(* a body is answered and what precedes it was read *)
LEMMA AnsweredInv ==
  ASSUME StreamInv, StreamType', NEW k \in 1 .. Len(Unread), reader \in {"reading", "body"},
         Unread[k].kind = "body", Unread[k].msg = Len(answers) + 1,
         Unread' = SubSeq(Unread, k + 1, Len(Unread)), StreamHandle(Unread[k]),
         UNCHANGED <<link, sent, streamPlan>>
  PROVE  StreamInv'
<1> DEFINE u == Unread
           v == SubSeq(u, k + 1, Len(u))
           n == Len(answers) + 1
<1>1. /\ u \in Seq(StreamPieces) /\ Len(u) \in Nat /\ k \in 0 .. Len(u) /\ sent \in Nat
      /\ Chained(u, sent) /\ UnreadRight(u)
  BY UnreadFacts DEF StreamInv, StreamType, UnreadRight
<1>2. v \in Seq(StreamPieces) /\ Len(v) = Len(u) - k /\ \A i \in 1 .. Len(u) - k : v[i] = u[i + k]
  BY <1>1, Dropped
<1>3. Chained(v, sent)
  BY <1>1, ChainDropped
<1>4. /\ answers' = Append(answers, n) /\ reader' = IF streamPlan[n] THEN "reading" ELSE "idle"
      /\ answers \in Seq(1 .. Len(streamPlan)) /\ Len(answers) \in Nat
  BY DEF StreamHandle, StreamInv, StreamType
<1>5. /\ answers' # <<>> /\ Len(answers') = n /\ answers'[n] = n
      /\ \A i \in 1 .. Len(answers) : answers'[i] = answers[i]
  <2>1. answers \in Seq(Nat) /\ n \in Nat
    BY <1>4, SeqMonotonic, 1 .. Len(streamPlan) \subseteq Nat
  <2> QED
    BY <1>4, <2>1, AppendProperties
<1> HIDE DEF u, v
<1>6. Unread' = v /\ u[k].kind = "body" /\ u[k].msg = n
  BY DEF u, v
<1>l. v # <<>> => Len(u) - k # 0
  <2>1. v \in Seq(StreamPieces) /\ Len(v) = Len(u) - k
    BY <1>2
  <2> QED
    BY <2>1, EmptySeq
<1>7. ASSUME v # <<>> PROVE v[1].msg = n + 1 /\ v[1].kind \in {"length", "first"}
  <2>1. Len(u) - k # 0
    BY <1>7, <1>l
  <2>2. k \in 1 .. Len(u) - 1 /\ v[1] = u[k + 1]
    BY <1>1, <1>2, <2>1
  <2>3. NextPiece(u[k], u[k + 1])
    BY <1>1, <2>2 DEF Chained
  <2> QED
    BY <1>6, <2>2, <2>3 DEF NextPiece
<1>8. ASSUME v # <<>>, link # "gone" PROVE v[Len(v)] = u[Len(u)] /\ u # <<>>
  <2>1. Len(u) - k # 0
    BY <1>8, <1>l
  <2>2. Len(v) \in 1 .. Len(u) - k /\ Len(v) + k = Len(u) /\ u # <<>>
    BY <1>1, <1>2, <2>1
  <2> QED
    BY <1>2, <2>2
<1>9. ASSUME v = <<>>, link # "gone" PROVE n = sent
  <2>1. k = Len(u)
    BY <1>1, <1>2, <1>9
  <2>2. u # <<>>
    BY <1>1, <2>1
  <2>3. u[Len(u)].msg = sent
    BY <1>1, <1>9, <2>2 DEF UnreadRight, LastRight
  <2> QED
    BY <1>6, <2>1, <2>3
<1>a. reader' # "body" /\ (reader' = "idle" => ~streamPlan[n])
  BY <1>4
<1>b. UnreadRight(Unread)'
  <2>1. Chained(Unread', sent')
    BY <1>3, <1>6
  <2>2. ASSUME Unread' # <<>>, link' # "gone" PROVE LastRight(Unread)'
    <3>1. v # <<>> /\ link # "gone"
      BY <1>6, <2>2
    <3>2. LastRight(u)
      BY <1>1, <1>8, <3>1 DEF UnreadRight
    <3> QED
      BY <1>6, <1>8, <3>1, <3>2 DEF LastRight
  <2>3. ASSUME Unread' # <<>> PROVE FirstRight(Unread)'
    BY <1>5, <1>6, <1>7, <1>a, <2>3 DEF FirstRight
  <2>4. ASSUME Unread' = <<>>, link' # "gone" PROVE Len(answers') = sent' /\ reader' # "body"
    BY <1>5, <1>6, <1>9, <1>a, <2>4
  <2> QED
    BY <2>1, <2>2, <2>3, <2>4 DEF UnreadRight
<1>c. ReaderRight'
  <2>1. streamPlan[n] = (streamPlan')[Len(answers')]
    BY <1>5
  <2> QED
    BY <1>5, <1>a, <2>1 DEF ReaderRight
<1>d. ASSUME NEW i \in 1 .. Len(answers') PROVE answers'[i] = i
  <2>1. i \in 1 .. Len(answers) \/ i = n
    BY <1>4, <1>5
  <2>2. \A j \in 1 .. Len(answers) : answers[j] = j
    BY DEF StreamInv
  <2> QED
    BY <1>5, <2>1, <2>2
<1> QED
  BY <1>b, <1>c, <1>d DEF StreamInv

(* the length that begins what was not read *)
LEMMA LengthFacts ==
  ASSUME StreamInv, reader = "reading", Length(streamInbox)
  PROVE  \E a \in 1 .. Len(streamInbox) :
           /\ AfterLength(streamInbox) = SubSeq(streamInbox, a + 1, Len(streamInbox))
           /\ Unread[a].kind \in {"length", "second"} /\ Unread[a].msg = Len(answers) + 1
           /\ \A b \in {a + 1} : b <= Len(Unread) => Unread[b].kind = "body" /\ Unread[b].msg = Len(answers) + 1
<1> DEFINE u == Unread
           n == Len(answers) + 1
<1>1. /\ u \in Seq(StreamPieces) /\ Len(u) \in Nat /\ Len(streamInbox) \in Nat
      /\ Len(streamInbox) <= Len(u) /\ \A i \in 1 .. Len(streamInbox) : u[i] = streamInbox[i]
      /\ streamInbox \in Seq(StreamPieces) /\ streamInbox # <<>> /\ u # <<>>
  BY UnreadFacts DEF StreamInv, StreamType, Length
<1>2. Len(streamInbox) >= 1
  BY <1>1, EmptySeq
<1>3. u[1] = streamInbox[1] /\ u[1].msg = n /\ Chained(u, sent)
  BY <1>1, <1>2 DEF StreamInv, UnreadRight, FirstRight
<1>a. \A i \in 1 .. Len(u) - 1 : NextPiece(u[i], u[i + 1])
  BY <1>3 DEF Chained
<1> HIDE DEF u, n
<1>4. CASE u[1].kind = "length"
  <2>1. AfterLength(streamInbox) = SubSeq(streamInbox, 1 + 1, Len(streamInbox))
    BY <1>1, <1>3, <1>4, TailIsSubSeq DEF AfterLength
  <2>2. ASSUME 1 + 1 <= Len(u) PROVE u[1 + 1].kind = "body" /\ u[1 + 1].msg = n
    <3>1. NextPiece(u[1], u[1 + 1])
      BY <1>1, <1>a, <2>2
    <3> QED
      BY <1>3, <1>4, <3>1 DEF NextPiece
  <2>3. 1 \in 1 .. Len(streamInbox)
    BY <1>1, <1>2
  <2> QED
    BY <1>3, <1>4, <2>1, <2>2, <2>3 DEF u, n
<1>5. CASE u[1].kind # "length"
  <2>1. streamInbox[1].kind = "first" /\ Len(streamInbox) >= 2
    BY <1>1, <1>3, <1>5 DEF Length, Halves
  <2>2. AfterLength(streamInbox) = SubSeq(streamInbox, 2 + 1, Len(streamInbox))
    BY <2>1 DEF AfterLength
  <2>3. u[2].kind = "second" /\ u[2].msg = n
    <3>1. NextPiece(u[1], u[1 + 1])
      BY <1>1, <1>a, <2>1
    <3> QED
      BY <1>3, <2>1, <3>1 DEF NextPiece
  <2>4. ASSUME 2 + 1 <= Len(u) PROVE u[2 + 1].kind = "body" /\ u[2 + 1].msg = n
    <3>1. NextPiece(u[2], u[2 + 1])
      BY <1>1, <1>a, <2>4
    <3> QED
      BY <2>3, <3>1 DEF NextPiece
  <2>5. 2 \in 1 .. Len(streamInbox)
    BY <1>1, <2>1
  <2> QED
    BY <2>2, <2>3, <2>4, <2>5 DEF u, n
<1> QED
  BY <1>4, <1>5

LEMMA ReadDataInv == ASSUME StreamInv, ReadData PROVE StreamInv'
<1>1. /\ reader = "reading"
      /\ UNCHANGED <<link, reachable, streamPlan, sent, streamWire>>
      /\ streamInbox \in Seq(StreamPieces) /\ streamWire \in Seq(StreamPieces)
  BY DEF ReadData, StreamInv, StreamType
<1>2. CASE streamInbox = <<>> \/ ~Length(streamInbox)
  <2>1. /\ UNCHANGED <<streamInbox, answers>>
        /\ reader' \in {"idle", "stuck"} /\ (reader' = "idle" => streamInbox = <<>>)
    BY <1>2 DEF ReadData, Length
  <2>2. Unread' = Unread
    BY <1>1, <2>1 DEF Unread
  <2>3. StreamType'
    BY <1>1, <2>1 DEF StreamInv, StreamType
  <2>4. UnreadRight(Unread)'
    BY <1>1, <2>1, <2>2 DEF StreamInv, UnreadRight, LastRight, FirstRight
  <2> QED
    BY <1>1, <2>1, <2>3, <2>4 DEF StreamInv, ReaderRight
<1>3. CASE Length(streamInbox)
  <2>1. PICK a \in 1 .. Len(streamInbox) :
           /\ AfterLength(streamInbox) = SubSeq(streamInbox, a + 1, Len(streamInbox))
           /\ Unread[a].kind \in {"length", "second"} /\ Unread[a].msg = Len(answers) + 1
           /\ \A b \in {a + 1} : b <= Len(Unread) => Unread[b].kind = "body" /\ Unread[b].msg = Len(answers) + 1
    BY <1>1, <1>3, LengthFacts
  <2> DEFINE rest == AfterLength(streamInbox)
  <2>2. /\ Len(streamInbox) \in Nat /\ a \in 0 .. Len(streamInbox) /\ Len(Unread) = Len(streamInbox) + Len(streamWire)
        /\ Unread \in Seq(StreamPieces) /\ Len(Unread) \in Nat /\ Len(streamWire) \in Nat
        /\ \A i \in 1 .. Len(streamInbox) : Unread[i] = streamInbox[i]
    BY UnreadFacts DEF StreamInv
  <2>3. /\ rest \in Seq(StreamPieces) /\ Len(rest) = Len(streamInbox) - a
        /\ \A i \in 1 .. Len(streamInbox) - a : rest[i] = streamInbox[i + a]
    BY <1>1, <2>1, <2>2, Dropped
  <2> HIDE DEF rest
  <2>4. CASE rest = <<>>
    <3>1. streamInbox' = <<>> /\ reader' = "body" /\ UNCHANGED answers
      BY <1>3, <2>4 DEF ReadData, rest, Length
    <3>2. a = Len(streamInbox)
      BY <2>2, <2>3, <2>4
    <3>3. Unread' = SubSeq(Unread, a + 1, Len(Unread))
      <4>1. SubSeq(streamInbox, a + 1, Len(streamInbox)) \o streamWire = SubSeq(Unread, a + 1, Len(Unread))
        BY <1>1, <2>2, DroppedFirst DEF Unread
      <4> QED
        BY <1>1, <2>1, <2>4, <3>1, <4>1 DEF rest, Unread
    <3>4. /\ Chained(Unread, sent) /\ UnreadRight(Unread) /\ sent \in Nat
      BY DEF StreamInv, StreamType, UnreadRight
    <3>b. a \in 0 .. Len(Unread)
      BY <2>2
    <3>c. Chained(SubSeq(Unread, a + 1, Len(Unread)), sent)
      BY <2>2, <3>4, <3>b, ChainDropped
    <3>5. Chained(Unread', sent) /\ a \in 0 .. Len(Unread)
      BY <3>3, <3>b, <3>c
    <3>6. Len(Unread') = Len(Unread) - a /\ \A i \in 1 .. Len(Unread) - a : (Unread')[i] = Unread[i + a]
      BY <2>2, <3>3, <3>5, Dropped
    <3>7. ASSUME Unread' # <<>> PROVE FirstRight(Unread)'
      <4>1. Len(Unread) - a # 0
        BY <2>2, <3>3, <3>5, <3>6, <3>7, Dropped, EmptySeq
      <4>2. (Unread')[1] = Unread[a + 1] /\ a + 1 <= Len(Unread)
        <5>1. 1 \in 1 .. Len(Unread) - a /\ 1 + a = a + 1
          BY <2>2, <3>5, <4>1
        <5> QED
          BY <2>2, <3>6, <5>1
      <4>3. (Unread')[1].kind = "body" /\ (Unread')[1].msg = Len(answers) + 1
        BY <2>1, <4>2
      <4> QED
        BY <3>1, <4>3 DEF FirstRight
    <3>8. ASSUME link # "gone" PROVE Unread' # <<>> /\ LastRight(Unread)'
      <4>1. Unread # <<>> /\ Len(Unread) >= 1
        BY <2>2
      <4>2. Unread[Len(Unread)].kind = "body" /\ Unread[Len(Unread)].msg = sent
        BY <3>4, <3>8, <4>1 DEF UnreadRight, LastRight
      <4>3. a # Len(Unread)
        BY <2>1, <4>2
      <4>4. Len(Unread') \in 1 .. Len(Unread) - a /\ Len(Unread') + a = Len(Unread)
        BY <2>2, <3>5, <3>6, <4>3
      <4>5. (Unread')[Len(Unread')] = Unread[Len(Unread)] /\ Unread' # <<>>
        BY <3>6, <4>4
      <4> QED
        BY <1>1, <4>2, <4>5 DEF LastRight
    <3>9. UnreadRight(Unread)'
      BY <1>1, <3>5, <3>7, <3>8 DEF UnreadRight
    <3>a. StreamType'
      BY <1>1, <3>1 DEF StreamInv, StreamType
    <3> QED
      BY <1>1, <3>1, <3>9, <3>a DEF StreamInv, ReaderRight
  <2>5. CASE rest # <<>>
    <3>1. streamInbox' = Tail(rest) /\ StreamHandle(Head(rest))
      BY <1>3, <2>5 DEF ReadData, rest, Length
    <3>2. Len(rest) >= 1 /\ a + 1 \in 1 .. Len(streamInbox) /\ Head(rest) = Unread[a + 1]
      <4>1. Len(rest) >= 1
        BY <2>3, <2>5, EmptySeq
      <4>2. a + 1 \in 1 .. Len(streamInbox) /\ 1 \in 1 .. Len(streamInbox) - a /\ 1 + a = a + 1
        BY <2>2, <2>3, <4>1
      <4>3. rest[1] = streamInbox[a + 1] /\ Head(rest) = rest[1]
        BY <2>3, <4>2, <4>1
      <4> QED
        BY <2>2, <4>1, <4>2, <4>3
    <3>3. a + 1 \in 1 .. Len(Unread) /\ Unread[a + 1].kind = "body" /\ Unread[a + 1].msg = Len(answers) + 1
      BY <2>1, <2>2, <3>2
    <3>4. Tail(rest) = SubSeq(streamInbox, (a + 1) + 1, Len(streamInbox))
      <4>1. a + 1 \in 1 .. Len(streamInbox) /\ Len(streamInbox) \in a + 1 .. Len(streamInbox)
        BY <2>2, <3>2
      <4> QED
        BY <1>1, <2>1, <4>1, HeadTailOfSubSeq DEF rest
    <3>5. Unread' = SubSeq(Unread, (a + 1) + 1, Len(Unread))
      <4>1. a + 1 \in 0 .. Len(streamInbox)
        BY <3>2
      <4>2. SubSeq(streamInbox, (a + 1) + 1, Len(streamInbox)) \o streamWire = SubSeq(Unread, (a + 1) + 1, Len(Unread))
        BY <1>1, <4>1, DroppedFirst DEF Unread
      <4> QED
        BY <1>1, <3>1, <3>4, <4>2 DEF Unread
    <3>6. StreamType'
      <4>1. streamInbox' \in Seq(StreamPieces)
        BY <2>3, <2>5, <3>1, HeadTailProperties
      <4>2. answers' \in Seq(1 .. Len(streamPlan)) /\ reader' \in {"idle", "reading"}
        <5>1. Unread[a + 1].msg \in 1 .. sent /\ sent \in 0 .. Len(streamPlan) /\ Len(streamPlan) \in Nat
          BY <3>3 DEF StreamInv, StreamType, UnreadRight, Chained
        <5>2. Unread[a + 1].msg \in 1 .. Len(streamPlan)
          BY <5>1
        <5> QED
          BY <3>1, <3>2, <5>2, AppendProperties DEF StreamHandle, StreamInv, StreamType
      <4> QED
        BY <1>1, <4>1, <4>2 DEF StreamInv, StreamType
    <3> QED
      BY <1>1, <3>1, <3>2, <3>3, <3>5, <3>6, AnsweredInv
  <2> QED
    BY <2>4, <2>5
<1> QED
  BY <1>2, <1>3

LEMMA StreamReadyReadInv == ASSUME StreamInv, NEW n \in 1 .. 6, StreamReadyRead(n) PROVE StreamInv'
<1>1. /\ reader = "idle" /\ reader' = "reading" /\ streamWire # <<>> /\ n <= Len(streamWire)
      /\ streamWire' = SubSeq(streamWire, n + 1, Len(streamWire))
      /\ streamInbox' = streamInbox \o SubSeq(streamWire, 1, n)
      /\ UNCHANGED <<link, streamPlan, sent, answers>>
      /\ streamWire \in Seq(StreamPieces) /\ streamInbox \in Seq(StreamPieces)
  BY DEF StreamReadyRead, StreamInv, StreamType
<1>2. n \in 0 .. Len(streamWire)
  BY <1>1, LenProperties
<1>3. /\ SubSeq(streamWire, 1, n) \in Seq(StreamPieces)
      /\ SubSeq(streamWire, 1, n) \o SubSeq(streamWire, n + 1, Len(streamWire)) = streamWire
      /\ SubSeq(streamWire, n + 1, Len(streamWire)) \in Seq(StreamPieces)
  BY <1>1, <1>2, Taken, Dropped
<1>4. Unread' = Unread
  <2> DEFINE come == SubSeq(streamWire, 1, n)
             stay == SubSeq(streamWire, n + 1, Len(streamWire))
  <2>0. come \o stay = streamWire
    BY <1>3
  <2>1. come \in Seq(StreamPieces) /\ stay \in Seq(StreamPieces) /\ streamInbox \in Seq(StreamPieces)
    BY <1>1, <1>3
  <2>2. streamInbox' = streamInbox \o come /\ streamWire' = stay
    BY <1>1
  <2> HIDE DEF come, stay
  <2>3. (streamInbox \o come) \o stay = streamInbox \o (come \o stay)
    BY <2>1, ConcatAssociative
  <2> QED
    BY <2>0, <2>2, <2>3 DEF Unread
<1>5. StreamType'
  <2>1. streamInbox' \in Seq(StreamPieces)
    BY <1>1, <1>3, ConcatProperties
  <2> QED
    BY <1>1, <1>3, <2>1 DEF StreamInv, StreamType
<1>6. UnreadRight(Unread)'
  BY <1>1, <1>4 DEF StreamInv, UnreadRight, LastRight, FirstRight
<1> QED
  BY <1>1, <1>5, <1>6 DEF StreamInv, ReaderRight

LEMMA WaitForReadyReadInv == ASSUME StreamInv, NEW n \in 1 .. 6, WaitForReadyRead(n) PROVE StreamInv'
<1>1. /\ reader = "body" /\ streamWire # <<>> /\ n <= Len(streamWire)
      /\ streamWire' = SubSeq(streamWire, n + 1, Len(streamWire))
      /\ streamInbox' = SubSeq(streamWire, 2, n)
      /\ StreamHandle(Head(streamWire))
      /\ UNCHANGED <<link, reachable, streamPlan, sent>>
      /\ streamWire \in Seq(StreamPieces) /\ streamInbox = <<>>
  BY DEF WaitForReadyRead, StreamInv, StreamType, ReaderRight
<1>2. Len(streamWire) \in Nat /\ 1 \in 1 .. Len(streamWire) /\ n \in 0 .. Len(streamWire)
  BY <1>1, LenProperties
<1>3. Unread = streamWire
  BY <1>1, ConcatEmptySeq DEF Unread
<1>4. Unread' = SubSeq(Unread, 1 + 1, Len(Unread))
  <2>1. 2 \in 1 .. Len(streamWire) + 1 /\ n \in 2 - 1 .. Len(streamWire) /\ Len(streamWire) \in n .. Len(streamWire)
    BY <1>2
  <2>2. SubSeq(streamWire, 2, n) \o SubSeq(streamWire, n + 1, Len(streamWire)) = SubSeq(streamWire, 2, Len(streamWire))
    BY <1>1, <2>1, ConcatAdjacentSubSeq
  <2>3. streamInbox' = SubSeq(streamWire, 2, n) /\ streamWire' = SubSeq(streamWire, n + 1, Len(streamWire))
    BY <1>1
  <2>4. Unread' = SubSeq(streamWire, 2, Len(streamWire))
    BY <2>2, <2>3, Zenon DEF Unread
  <2>5. 1 + 1 = 2
    OBVIOUS
  <2> QED
    BY <1>3, <2>4, <2>5
<1>5. Unread[1].kind = "body" /\ Unread[1].msg = Len(answers) + 1 /\ Head(streamWire) = Unread[1]
  <2>1. Unread # <<>> /\ FirstRight(Unread)
    BY <1>1, <1>3 DEF StreamInv, UnreadRight
  <2> QED
    BY <1>1, <1>3, <2>1 DEF FirstRight
<1>6. StreamType'
  <2>1. streamWire' \in Seq(StreamPieces)
    BY <1>1, <1>2, Dropped
  <2>2. streamInbox' \in Seq(StreamPieces)
    <3>1. \A i \in 2 .. n : streamWire[i] \in StreamPieces
      BY <1>1, <1>2, ElementOfSeq
    <3> QED
      BY <1>1, <3>1, SubSeqProperties
  <2>3. answers' \in Seq(1 .. Len(streamPlan)) /\ reader' \in {"idle", "reading"}
    <3>1. Unread[1].msg \in 1 .. sent /\ sent \in 0 .. Len(streamPlan) /\ Len(streamPlan) \in Nat
      BY <1>2, <1>3 DEF StreamInv, StreamType, UnreadRight, Chained
    <3>2. Unread[1].msg \in 1 .. Len(streamPlan)
      BY <3>1
    <3> QED
      BY <1>1, <1>5, <3>2, AppendProperties DEF StreamHandle, StreamInv, StreamType
  <2> QED
    BY <1>1, <2>1, <2>2, <2>3 DEF StreamInv, StreamType
<1>7. 1 \in 1 .. Len(Unread)
  BY <1>2, <1>3
<1> QED
  BY <1>1, <1>4, <1>5, <1>6, <1>7, AnsweredInv

LEMMA SendMessageInv == ASSUME StreamInv, SendMessage PROVE StreamInv'
<1> DEFINE u == Unread
<1>0. /\ link = "up" /\ sent < Len(streamPlan) /\ sent' = sent + 1
      /\ UNCHANGED <<link, reachable, streamPlan, streamInbox, reader, answers>>
  BY DEF SendMessage
<1>z. streamWire \in Seq(StreamPieces) /\ streamInbox \in Seq(StreamPieces) /\ sent \in Nat
  BY DEF StreamInv, StreamType
<1>1. /\ link = "up" /\ sent < Len(streamPlan) /\ sent' = sent + 1
      /\ UNCHANGED <<link, reachable, streamPlan, streamInbox, reader, answers>>
      /\ streamWire \in Seq(StreamPieces) /\ streamInbox \in Seq(StreamPieces) /\ sent \in Nat
  BY <1>0, <1>z
<1>y. PICK s \in {Whole(sent'), Cut(sent')} : streamWire' = streamWire \o s
  BY Zenon DEF SendMessage
<1>2. s \in {Whole(sent + 1), Cut(sent + 1)} /\ streamWire' = streamWire \o s
  BY <1>0, <1>y
<1>3. /\ s \in Seq(StreamPieces) /\ s # <<>> /\ Chained(s, sent + 1) /\ Len(s) >= 1 /\ Len(s) \in Nat
      /\ s[1].kind \in {"length", "first"} /\ s[1].msg = sent + 1
      /\ s[Len(s)].kind = "body" /\ s[Len(s)].msg = sent + 1
  <2>1. /\ s \in Seq(StreamPieces) /\ s # <<>> /\ Chained(s, sent + 1)
        /\ s[1].kind \in {"length", "first"} /\ s[1].msg = sent + 1
        /\ s[Len(s)].kind = "body" /\ s[Len(s)].msg = sent + 1
    BY <1>1, <1>2, PiecesChained
  <2> QED
    BY <2>1, EmptySeq, LenProperties
<1>4. /\ u \in Seq(StreamPieces) /\ Len(u) \in Nat /\ Chained(u, sent) /\ UnreadRight(u)
  BY UnreadFacts DEF StreamInv, UnreadRight
<1>5. Unread' = u \o s
  <2>0. streamWire \in Seq(StreamPieces) /\ streamInbox \in Seq(StreamPieces) /\ s \in Seq(StreamPieces)
    BY <1>1, <1>3
  <2>1. (streamInbox \o streamWire) \o s = streamInbox \o (streamWire \o s)
    BY <2>0, ConcatAssociative
  <2> QED
    BY <1>1, <1>2, <2>1 DEF Unread
<1> HIDE DEF u
<1>6. ASSUME u # <<>> PROVE NextPiece(u[Len(u)], s[1])
  <2>1. LastRight(u)
    BY <1>1, <1>4, <1>6 DEF UnreadRight
  <2> QED
    BY <1>3, <2>1 DEF LastRight, NextPiece
<1>7. Chained(u \o s, sent + 1)
  BY <1>1, <1>3, <1>4, <1>6, ChainExtended
<1>8. Len(u \o s) = Len(u) + Len(s)
      /\ \A i \in 1 .. Len(u) + Len(s) : (u \o s)[i] = IF i <= Len(u) THEN u[i] ELSE s[i - Len(u)]
  BY <1>3, <1>4, ConcatProperties
<1>9. LastRight(Unread)' /\ Unread' # <<>>
  <2>1. Len(u \o s) \in 1 .. Len(u) + Len(s) /\ ~(Len(u \o s) <= Len(u)) /\ Len(u \o s) - Len(u) = Len(s)
    BY <1>3, <1>4, <1>8
  <2>2. (u \o s)[Len(u \o s)] = s[Len(s)] /\ u \o s # <<>>
    BY <1>8, <2>1
  <2> QED
    BY <1>1, <1>3, <1>5, <2>2 DEF LastRight
<1>a. ASSUME reader # "stuck" PROVE FirstRight(Unread)'
  <2>1. CASE u = <<>>
    <3>1. u \o s = s
      BY <1>3, <2>1, ConcatEmptySeq
    <3>2. Len(answers) = sent /\ reader # "body"
      BY <1>1, <1>4, <2>1 DEF UnreadRight
    <3> QED
      BY <1>1, <1>3, <1>5, <3>1, <3>2 DEF FirstRight
  <2>2. CASE u # <<>>
    <3>1. 1 \in 1 .. Len(u) + Len(s) /\ 1 <= Len(u)
      BY <1>3, <1>4, <2>2, EmptySeq
    <3>2. (u \o s)[1] = u[1]
      BY <1>8, <3>1
    <3>3. FirstRight(u)
      BY <1>4, <1>a, <2>2 DEF UnreadRight
    <3> QED
      BY <1>1, <1>5, <3>2, <3>3 DEF FirstRight
  <2> QED
    BY <2>1, <2>2
<1>b. UnreadRight(Unread)'
  BY <1>1, <1>5, <1>7, <1>9, <1>a DEF UnreadRight
<1>c. StreamType'
  <2>1. streamWire' \in Seq(StreamPieces)
    BY <1>1, <1>2, <1>3, ConcatProperties
  <2>2. sent' \in 0 .. Len(streamPlan)
    BY <1>1 DEF StreamInv, StreamType
  <2> QED
    BY <1>1, <2>1, <2>2 DEF StreamInv, StreamType
<1> QED
  BY <1>1, <1>b, <1>c DEF StreamInv, ReaderRight

LEMMA ClientQuitsInv == ASSUME StreamInv, ClientQuits PROVE StreamInv'
<1>1. /\ link' = "gone" /\ streamWire' = <<>>
      /\ UNCHANGED <<reachable, streamPlan, sent, streamInbox, reader, answers>>
      /\ streamWire \in Seq(StreamPieces) /\ streamInbox \in Seq(StreamPieces) /\ sent \in Nat
  BY DEF ClientQuits, StreamInv, StreamType
<1>2. Unread' = streamInbox
  BY <1>1, ConcatEmptySeq DEF Unread
<1>3. Chained(streamInbox, sent)
  BY <1>1, ChainTaken DEF StreamInv, UnreadRight, Unread
<1>4. ASSUME streamInbox # <<>>, reader # "stuck" PROVE FirstRight(Unread)'
  <2>1. Unread # <<>> /\ Unread[1] = streamInbox[1]
    <3>1. Len(streamInbox) \in Nat \ {0}
      BY <1>1, <1>4, EmptySeq
    <3>2. 1 \in 1 .. Len(streamInbox)
      BY <3>1
    <3> QED
      BY <1>4, <3>2, UnreadFacts DEF StreamInv
  <2>2. FirstRight(Unread)
    BY <1>4, <2>1 DEF StreamInv, UnreadRight
  <2> QED
    BY <1>1, <1>2, <2>1, <2>2 DEF FirstRight
<1>5. UnreadRight(Unread)'
  BY <1>1, <1>2, <1>3, <1>4 DEF UnreadRight
<1>6. StreamType'
  BY <1>1, EmptySeq DEF StreamInv, StreamType
<1> QED
  BY <1>1, <1>5, <1>6 DEF StreamInv, ReaderRight

(* the connection changes, or readData() is stuck *)
LEMMA LinkInv ==
  ASSUME StreamInv, link' \in {"off", "connecting", "up"}, sent > 0 => link' = "up", link # "gone",
         UNCHANGED <<streamPlan, sent, streamWire, streamInbox, reader, answers>>
  PROVE  StreamInv'
<1>1. Unread' = Unread
  BY DEF Unread
<1>2. StreamType'
  BY DEF StreamInv, StreamType
<1>3. UnreadRight(Unread)'
  BY <1>1 DEF StreamInv, UnreadRight, LastRight, FirstRight
<1> QED
  BY <1>2, <1>3 DEF StreamInv, ReaderRight

LEMMA StreamInitInv == StreamInit => StreamInv
<1> SUFFICES ASSUME StreamInit PROVE StreamInv
  OBVIOUS
<1>1. /\ link = "connecting" /\ streamPlan \in Seq(BOOLEAN) /\ sent = 0 /\ reader = "idle"
      /\ streamWire = <<>> /\ streamInbox = <<>> /\ answers = <<>>
  BY StreamPlansAssumption DEF StreamInit
<1>2. Unread = <<>> /\ Len(Unread) = 0 /\ Len(answers) = 0
  BY <1>1 DEF Unread
<1>3. StreamType
  BY <1>1, LenProperties, EmptySeq DEF StreamType
<1>4. UnreadRight(Unread)
  BY <1>1, <1>2 DEF UnreadRight, Chained
<1> QED
  BY <1>1, <1>2, <1>3, <1>4 DEF StreamInv, ReaderRight

LEMMA StreamNextInv == StreamInv /\ [StreamNext]_streamVars => StreamInv'
<1> SUFFICES ASSUME StreamInv, [StreamNext]_streamVars PROVE StreamInv'
  OBVIOUS
<1>1. CASE ConnectToHost \/ Connected
  <2>1. /\ link \in {"off", "connecting"} /\ link' \in {"off", "connecting", "up"} /\ link # "gone"
        /\ UNCHANGED <<streamPlan, sent, streamWire, streamInbox, reader, answers>>
    BY <1>1 DEF ConnectToHost, Connected
  <2>2. ~(sent > 0)
    BY <2>1 DEF StreamInv, StreamType
  <2> QED
    BY <2>1, <2>2, LinkInv
<1>2. CASE LinkLost
  <2>1. /\ link = "up" /\ link' = "off" /\ sent = 0
        /\ UNCHANGED <<streamPlan, sent, streamWire, streamInbox, reader, answers>>
    BY <1>2 DEF LinkLost
  <2> QED
    BY <2>1, LinkInv
<1>3. CASE SendMessage
  BY <1>3, SendMessageInv
<1>4. CASE ClientQuits
  BY <1>4, ClientQuitsInv
<1>5. CASE \E n \in 1 .. 6 : StreamReadyRead(n) \/ WaitForReadyRead(n)
  BY <1>5, StreamReadyReadInv, WaitForReadyReadInv
<1>6. CASE ReadData
  BY <1>6, ReadDataInv
<1>7. CASE ServerStarts \/ UNCHANGED streamVars
  <2>1. UNCHANGED <<link, streamPlan, sent, streamWire, streamInbox, reader, answers>>
    BY <1>7 DEF ServerStarts, streamVars
  <2>2. Unread' = Unread
    BY <2>1 DEF Unread
  <2>3. StreamType' /\ ReaderRight'
    BY <2>1 DEF StreamInv, StreamType, ReaderRight
  <2>4. UnreadRight(Unread)'
    BY <2>1, <2>2 DEF StreamInv, UnreadRight, LastRight, FirstRight
  <2> QED
    BY <2>1, <2>3, <2>4 DEF StreamInv
<1>8. CASE BodyNeverComes
  <2>1. /\ reader = "body" /\ reader' = "stuck" /\ link = "gone"
        /\ UNCHANGED <<link, streamPlan, sent, streamWire, streamInbox, answers>>
    BY <1>8 DEF BodyNeverComes
  <2>2. Unread' = Unread
    BY <2>1 DEF Unread
  <2>3. StreamType'
    BY <2>1 DEF StreamInv, StreamType
  <2>4. UnreadRight(Unread)'
    BY <2>1, <2>2 DEF StreamInv, UnreadRight
  <2> QED
    BY <2>1, <2>3, <2>4 DEF StreamInv, ReaderRight
<1> QED
  BY <1>1, <1>2, <1>3, <1>4, <1>5, <1>6, <1>7, <1>8 DEF StreamNext

LEMMA StreamInOrder == StreamInv => AnsweredInOrder
<1> SUFFICES ASSUME StreamInv PROVE AnsweredInOrder
  OBVIOUS
<1>1. \A i \in DOMAIN answers : answers[i] = i
  BY LenProperties DEF StreamInv, StreamType
<1>2. ASSUME reader = "idle", streamInbox # <<>> PROVE answers # <<>> /\ ~streamPlan[Len(answers)]
  BY <1>2 DEF StreamInv, ReaderRight
<1>3. ASSUME reader = "idle", streamInbox = <<>>, streamWire = <<>>, link # "gone" PROVE Len(answers) = sent
  <2>1. Unread = <<>>
    BY <1>3 DEF Unread
  <2> QED
    BY <1>3, <2>1 DEF StreamInv, UnreadRight
<1> QED
  BY <1>1, <1>2, <1>3 DEF AnsweredInOrder

-----------------------------------------------------------------------------
(* HandledOnce (QtHttpClientWrapper, WebSocketClient, ProtoClientConnection):*)
(* whatever the clients send, requests are replied to, messages handled and *)
(* proto messages answered once, whole and in order, as long as the readers *)
(* keep their place: until the headers of a request or the header of a      *)
(* frame are read in parts, or a body together with the request behind it.  *)
THEOREM ClientsAreHandledOnce == Spec => []HandledOnce
<1> DEFINE Inv == HttpInv /\ WsInv /\ StreamInv
<1>1. Init => Inv
  BY HttpInitInv, WsInitInv, StreamInitInv DEF Init, ApiIdle, StreamIdle
<1>2. Inv /\ [Next]_vars => Inv'
  BY HttpNextInv, WsNextInv, StreamNextInv DEF Next, vars, apiVars, netVars
<1>3. Inv => HandledOnce
  BY HttpInOrder, WsInOrder, StreamInOrder DEF HandledOnce
<1> QED
  BY <1>1, <1>2, <1>3, PTL DEF Spec
=============================================================================
