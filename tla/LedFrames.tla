----------------------------- MODULE LedFrames ------------------------------
(***************************************************************************)
(* What the led devices put on the wire (libsrc/leddevice): the buffer     *)
(* that init() makes for the number of leds of that moment, the bytes      *)
(* write() puts into it, and the packets the network devices cut.          *)
(*   device      the type of the device                                    *)
(*   count       the leds init() knew of: _ledCount then, which for a      *)
(*               FadeCandy was never set and may be any number             *)
(*   ledCount    the leds of a frame: _ledCount, which a change of the     *)
(*               layout sets later                                         *)
(*   buffer      _ledBuffer, or what stands for it                         *)
(*   sequence    _e131_seq, _artnet_seq                                    *)
(*   wire        the packets of the last frame                             *)
(*   colors      the colors of that frame                                  *)
(*   undefined   a frame read or wrote outside of its memory               *)
(***************************************************************************)
EXTENDS Integers, Bitwise, SequencesExt

CONSTANTS
  Counts,            \* numbers of leds
  Colors,            \* triples of bytes
  DmxMax,            \* DMX_MAX: slots of a universe
  DmxLeds,           \* leds of a DMX line
  MaxPacket,         \* _tpm2_max: bytes of a TPM2.net packet
  MaxSettable,       \* MAX_NUM_LEDS_SETTABLE
  FrameSpecs,        \* Sedu: sequence of [id, size]
  Fixture,           \* _artnet_channelsPerFixture
  SeqSize,           \* 2^8: values of a sequence number
  SubtractMinimum,   \* white_algorithm is "subtract_minimum", else "white_off"
  GpioMap,           \* _gpio_to_led and _gpio_to_color of PiBlaster: gpio -> [led, color]
  OrbIds,            \* _orbIds of AtmoOrb
  SmoothingDiff      \* _skipSmoothingDiff; orb smoothing is on

ASSUME FramesAssumption ==
  /\ Counts \subseteq Nat \ {0} /\ \A c \in Colors : c \in [1 .. 3 -> 0 .. 255]
  /\ {DmxMax, DmxLeds, MaxPacket, MaxSettable, SeqSize} \subseteq Nat \ {0}
  /\ Fixture \in Nat \ 0 .. 2 /\ DmxMax > Fixture
  /\ SubtractMinimum \in BOOLEAN /\ OrbIds \subseteq Nat /\ SmoothingDiff \in Nat
  /\ GpioMap \in [DOMAIN GpioMap -> [led : Nat, color : 0 .. 3]]

VARIABLES device, count, ledCount, buffer, sequence, wire, colors, undefined

frameVars == <<device, count, ledCount, buffer, sequence, wire, colors, undefined>>

Buffered == {"adalight", "adalight_apa102", "atmo", "dmx_raw", "dmx_mccrypt", "sedu", "tpm2",
             "apa102", "lpd6803", "lpd8806", "p9813", "sk6822", "ws2812",
             "sk6812", "fadecandy", "rawhid", "paintpack"}
Streamed == {"plain", "e131", "artnet", "tpm2net", "tinkerforge", "ws281x", "h801", "piblaster", "atmoorb"}

Hi(n) == (n \div 256) % 256
Lo(n) == n % 256
Bytes(n, b) == [k \in 1 .. n |-> b]
At(s, k) == IF k \in DOMAIN s THEN s[k] ELSE 0
AtLeast(a, b) == IF a > b THEN a ELSE b
AtMost(a, b) == IF a < b THEN a ELSE b

-----------------------------------------------------------------------------
(* Buffers: per device the header and the trailer for n leds, and the      *)
(* bytes of a led of color c between them                                  *)
Format(header, led, trailer) == [header |-> header, led |-> led, trailer |-> trailer]

AdalightHeader(n) == <<65, 100, 97, Hi(n), Lo(n), (Hi(n) ^^ Lo(n)) ^^ 85>>
EndFrame(n) == AtLeast((n + 15) \div 16, 4)

(* Lightberry's mode has the frame of an APA102 behind the header *)
Adalight(n, c) == Format(AdalightHeader(n - 1), c, <<>>)
AdalightApa102(n, c) == Format(AdalightHeader(n) \o Bytes(4, 0), <<255>> \o c, Bytes(EndFrame(n), 0))
Atmo(n, c) == Format(<<255, 0, 0, 15>>, c, <<>>)
DmxRaw(n, c) == Format(<<0>>, c, <<>>)
DmxMcCrypt(n, c) == Format(<<0>>, c \o <<255>>, <<>>)
Tpm2(n, c) == Format(<<201, 218, Hi(3 * n), Lo(3 * n)>>, c, <<54>>)

(* the first frame that is large enough *)
Sedu(n, c) ==
  LET spec == FrameSpecs[SelectInSeq(FrameSpecs, LAMBDA f : 3 * n =< f.size)]
  IN Format(<<90, spec.id>>, c, Bytes(spec.size - 3 * n, 0) \o <<165>>)

Apa102(n, c) == Format(Bytes(4, 0), <<255>> \o c, Bytes(EndFrame(n), 255))

(* five bits and seven bits per color *)
Lpd6803(n, c) ==
  Format(Bytes(4, 0),
         <<(128 | ((c[1] & 248) \div 2)) | (c[2] \div 64), ((c[2] & 56) * 4) | (c[3] \div 8)>>,
         Bytes(n \div 8 + 1, 0))
Lpd8806(n, c) == Format(<<>>, [k \in 1 .. 3 |-> 128 | (c[k] \div 2)], Bytes(n \div 32 + 1, 0))

(* a checksum of the inverted upper bits, and blue first *)
P9813(n, c) ==
  Format(<<>>, <<192 + (3 - c[3] \div 64) * 16 + (3 - c[2] \div 64) * 4 + (3 - c[1] \div 64), c[3], c[2], c[1]>>, Bytes(8, 0))

(* bitpair_to_byte: two bits as two groups of four spi bits *)
Pairs(table, c) == [k \in 1 .. 4 * Len(c) |-> table[((c[(k + 3) \div 4] \div 4 ^ ((-k) % 4)) % 4) + 1]]

(* Rgb_to_Rgbw() *)
Rgbw(c) ==
  LET white == IF SubtractMinimum THEN Min({c[1], c[2], c[3]}) ELSE 0
  IN <<c[1] - white, c[2] - white, c[3] - white, white>>

Sk6812(n, c) == Format(<<>>, Pairs(<<136, 140, 200, 204>>, Rgbw(c)), Bytes(3, 0))
Ws2812(n, c) == Format(<<>>, Pairs(<<136, 140, 200, 204>>, c), Bytes(116, 0))
Sk6822(n, c) == Format(<<>>, Pairs(<<136, 142, 232, 238>>, c) \o Bytes(3, 0), Bytes(13, 0))

FadeCandy(n, c) == Format(<<0, 0, Hi(3 * n), Lo(3 * n)>>, c, <<>>)
RawHID(n, c) == Format(<<>>, c, <<>>)
Paintpack(n, c) == Format(<<3, 0>>, c, <<>>)

FormatOf(d, n, c) ==
  CASE d = "adalight"    -> Adalight(n, c)
    [] d = "adalight_apa102" -> AdalightApa102(n, c)
    [] d = "atmo"        -> Atmo(n, c)
    [] d = "dmx_raw"     -> DmxRaw(n, c)
    [] d = "dmx_mccrypt" -> DmxMcCrypt(n, c)
    [] d = "sedu"        -> Sedu(n, c)
    [] d = "tpm2"        -> Tpm2(n, c)
    [] d = "apa102"      -> Apa102(n, c)
    [] d = "lpd6803"     -> Lpd6803(n, c)
    [] d = "lpd8806"     -> Lpd8806(n, c)
    [] d = "p9813"       -> P9813(n, c)
    [] d = "sk6822"      -> Sk6822(n, c)
    [] d = "ws2812"      -> Ws2812(n, c)
    [] d = "sk6812"      -> Sk6812(n, c)
    [] d = "fadecandy"   -> FadeCandy(n, c)
    [] d = "rawhid"      -> RawHID(n, c)
    [] d = "paintpack"   -> Paintpack(n, c)

Header(d, n) == FormatOf(d, n, <<0, 0, 0>>).header
LedBytes(d, c) == FormatOf(d, 1, c).led
Unit(d) == Len(LedBytes(d, <<0, 0, 0>>))

(* leds a device takes; others are not ready *)
Possible(d, n) ==
  /\ d = "atmo" => n = 5
  /\ d = "sedu" => \E k \in DOMAIN FrameSpecs : 3 * n =< FrameSpecs[k].size

(* leds of the buffer: a DMX line has no more *)
Room(d, n) == IF d \in {"dmx_raw", "dmx_mccrypt"} THEN AtMost(n, DmxLeds) ELSE n

(* what init() leaves: white markers on an APA102 *)
Fresh(d, n) ==
  Header(d, n) \o Bytes(Unit(d) * Room(d, n), IF d = "apa102" THEN 255 ELSE 0) \o FormatOf(d, n, <<0, 0, 0>>).trailer

(* leds that are put into the buffer of a frame for m; _opc_data of a FadeCandy *)
(* is a QByteArray, which grows when it is written behind its end              *)
Taken(d, m) == IF d = "fadecandy" THEN m ELSE AtMost(m, Room(d, count))

(* the buffer with the colors of the leds put in *)
Filled(b, d, v) ==
  LET first == Len(Header(d, count))
      i(k)  == (k - first - 1) \div Unit(d) + 1
      size  == IF d = "fadecandy" THEN AtLeast(Len(b), first + 3 * Len(v)) ELSE Len(b)
  IN [k \in 1 .. size |->
        IF k > first /\ i(k) =< Taken(d, Len(v))
        THEN LedBytes(d, v[i(k)])[((k - first - 1) % Unit(d)) + 1]
        ELSE b[k]]

(* DMX and Atmo copy a fixed number of leds, the others as many as there are *)
OutOfBounds(d, n, m) ==
  \/ d \in {"dmx_raw", "dmx_mccrypt"} /\ m < Room(d, n)
  \/ d \in Buffered \ {"dmx_raw", "dmx_mccrypt", "fadecandy"} /\ Len(Header(d, n)) + Unit(d) * m > Len(Fresh(d, n))
  \/ d = "tpm2net" /\ m < n
  \/ d = "tinkerforge" /\ m > n

-----------------------------------------------------------------------------
(* Packets                                                                 *)
Raw(v) == [k \in 1 .. 3 * Len(v) |-> v[(k - 1) \div 3 + 1][((k - 1) % 3) + 1]]

(* cut as E1.31 and TPM2.net do *)
Cut(raw, max) ==
  LET total == Len(raw)
      size(from) == IF total - from < max THEN total % max ELSE max
  IN [p \in 1 .. (total + max - 1) \div max |->
        [size |-> size((p - 1) * max),
         data |-> [k \in 1 .. size((p - 1) * max) |-> At(raw, (p - 1) * max + k)]]]

E131(v) ==
  LET packets == Cut(Raw(v), DmxMax)
  IN [p \in DOMAIN packets |-> [universe |-> p, sequence |-> sequence'] @@ packets[p]]

(* the number of packets is worked out once, by init() *)
Tpm2net(v) ==
  LET packets == Cut(SubSeq(Raw(v), 1, 3 * count), MaxPacket)
  IN [p \in DOMAIN packets |-> [number |-> p, packets |-> 1 + (3 * count) \div MaxPacket] @@ packets[p]]


(* after the third byte the channels of the fixture Hyperion does not set *)
Skipped(k) == IF k % 3 = 0 THEN Fixture - 3 ELSE 0

(* the slots of a universe fill up until there is no room *)
ArtNet(v) ==
  LET raw == Raw(v)
      slot == FoldLeft(LAMBDA s, k :
                LET idx == s[2] + 1 + Skipped(k)
                    full == k = Len(raw) \/ idx >= DmxMax
                    u == [universe |-> s[1], sequence |-> sequence', length |-> idx + (idx % 2),
                          data |-> [j \in 1 .. AtMost(idx, DmxMax) |-> IF j = s[2] + 1 THEN raw[k] ELSE At(s[3], j)]]
                IN IF full THEN <<s[1] + 1, 0, <<>>, Append(s[4], u)>>
                   ELSE <<s[1], idx, u.data, s[4]>>,
              <<1, 0, <<>>, <<>>>>, [k \in DOMAIN raw |-> k])
  IN slot[4]

(* transferLedData(): all of the channels, which keep what they had *)
Tinkerforge(channels) ==
  LET length == Len(channels)
  IN [p \in 1 .. (length + MaxSettable - 1) \div MaxSettable |->
        LET i == (p - 1) * MaxSettable
            copy == IF i + MaxSettable > length THEN length - i ELSE MaxSettable
        IN [index |-> i, data |-> SubSeq(channels, i + 1, i + copy)]]

(* the strip has leds of its own number; there are some for all of them *)
Ws281x(v) == <<[data |-> [i \in 1 .. count |-> IF i =< Len(v) THEN Rgbw(v[i]) ELSE <<0, 0, 0, 0>>]]>>

(* one color for all lamps *)
H801(v) == <<[data |-> v[1]]>>

(* a line for each gpio that has a led, in the order of the gpios; white is *)
(* the mean                                                                 *)
PiBlaster(v) ==
  LET gpios == SetToSortSeq({g \in DOMAIN GpioMap : GpioMap[g].led < ledCount}, LAMBDA a, b : a < b)
      level(c, k) == IF k = 0 THEN c[1] + c[2] + c[3] ELSE 3 * c[k]
  IN [i \in DOMAIN gpios |-> [gpio |-> gpios[i], level |-> level(v[GpioMap[gpios[i]].led + 1], GpioMap[gpios[i]].color)]]

(* an orb that changes a lot is not smoothed (command 4 in place of 2) *)
AtmoOrb(last, v) ==
  LET was(i) == IF i \in DOMAIN last THEN last[i] ELSE <<0, 0, 0>>
      apart(a, b) == a - b >= SmoothingDiff \/ b - a >= SmoothingDiff
      far(i) == SmoothingDiff # 0 /\ \E k \in 1 .. 3 : apart(v[i][k], was(i)[k])
      orbs == SelectSeq([i \in DOMAIN v |-> i], LAMBDA i : i \in OrbIds)
  IN [j \in DOMAIN orbs |-> [orb |-> orbs[j], command |-> IF far(orbs[j]) THEN 4 ELSE 2, color |-> v[orbs[j]]]]

-----------------------------------------------------------------------------
(* init() *)
FrameInit ==
  /\ device \in Buffered \union Streamed /\ count \in Counts /\ Possible(device, count)
  /\ ledCount \in IF device = "fadecandy" THEN Counts ELSE {count}
  /\ buffer = CASE device \in Buffered -> Fresh(device, count)
                [] device \in {"tinkerforge", "atmoorb"} -> [i \in 1 .. count |-> <<0, 0, 0>>]
                [] OTHER -> <<>>
  /\ sequence = IF device = "artnet" THEN 1 ELSE 0
  /\ wire = <<>> /\ colors = <<>> /\ undefined = FALSE

NextSequence ==
  CASE device = "e131"   -> (sequence + 1) % SeqSize
    [] device = "artnet" -> IF sequence = 0 THEN 1 ELSE (sequence + 1) % SeqSize
    [] OTHER             -> sequence

(* write() *)
WriteFrame(v) ==
  /\ ~undefined
  /\ colors' = v /\ undefined' = OutOfBounds(device, count, ledCount)
  /\ sequence' = NextSequence
  /\ buffer' = IF undefined' THEN buffer
               ELSE CASE device \in Buffered      -> Filled(buffer, device, v)
                      [] device \in {"tinkerforge", "atmoorb"} -> v \o SubSeq(buffer, Len(v) + 1, Len(buffer))
                      [] OTHER                    -> buffer
  /\ wire' = IF undefined' THEN <<>>
             ELSE CASE device \in Buffered     -> <<[data |-> buffer']>>
                  [] device = "e131"         -> E131(v)
                  [] device = "artnet"       -> ArtNet(v)
                  [] device = "tpm2net"      -> Tpm2net(v)
                  [] device = "tinkerforge"  -> Tinkerforge(buffer')
                  [] device = "ws281x"       -> Ws281x(v)
                  [] device = "h801"         -> H801(v)
                  [] device = "piblaster"    -> PiBlaster(v)
                  [] device = "atmoorb"      -> AtmoOrb(buffer, v)
                  [] OTHER                   -> <<[data |-> Raw(v)]>>
  /\ UNCHANGED <<device, count, ledCount>>

(* setLedCount(), by a change of the layout: the buffer stays as it is *)
SetLedCount(m) ==
  /\ ledCount' = m
  /\ UNCHANGED <<device, count, buffer, sequence, wire, colors, undefined>>

FrameNext ==
  \/ \E v \in [1 .. ledCount -> Colors] : WriteFrame(v)
  \/ \E m \in Counts : SetLedCount(m)

-----------------------------------------------------------------------------
(* What the other end understands *)

(* how far into the stream a chip or a controller looks for the first led *)
Start == [adalight |-> 6, adalight_apa102 |-> 10, atmo |-> 4, dmx_raw |-> 1, dmx_mccrypt |-> 1, sedu |-> 2,
          tpm2 |-> 4, apa102 |-> 4, lpd6803 |-> 4, lpd8806 |-> 0, p9813 |-> 0, sk6822 |-> 0, ws2812 |-> 0,
          sk6812 |-> 0, fadecandy |-> 4, rawhid |-> 0, paintpack |-> 2]

(* a bit is one when its pulse is longer than half of its time *)
PulseBits(d, b) ==
  LET bit(nibble) == IF nibble >= (IF d = "sk6822" THEN 14 ELSE 12) THEN 1 ELSE 0
  IN 2 * bit(b \div 16) + bit(b % 16)
Pulses(d, s, k) == FoldLeft(LAMBDA a, j : 4 * a + PulseBits(d, s[k + j]), 0, <<0, 1, 2, 3>>)

ReadLed(d, s, k) ==
  CASE d \in {"adalight_apa102", "apa102"} -> <<s[k + 1], s[k + 2], s[k + 3]>>
    [] d = "lpd6803" -> LET w == 256 * s[k] + s[k + 1] IN <<(w \div 1024) % 32, (w \div 32) % 32, w % 32>>
    [] d = "lpd8806" -> <<s[k] - 128, s[k + 1] - 128, s[k + 2] - 128>>
    [] d = "p9813" -> <<s[k + 3], s[k + 2], s[k + 1]>>
    [] d \in {"sk6822", "ws2812"} -> <<Pulses(d, s, k), Pulses(d, s, k + 4), Pulses(d, s, k + 8)>>
    [] d = "sk6812" -> [j \in 1 .. 3 |-> Pulses(d, s, k + 4 * (j - 1)) + Pulses(d, s, k + 12)]
    [] OTHER -> <<s[k], s[k + 1], s[k + 2]>>

(* the bits of a color a chip has *)
Resolution(d, c) ==
  CASE d = "lpd6803" -> [k \in 1 .. 3 |-> c[k] \div 8]
    [] d = "lpd8806" -> [k \in 1 .. 3 |-> c[k] \div 2]
    [] OTHER -> c

(* leds the header announces, and whether what follows the leds makes them *)
(* take their colors; what a FadeCandy announces was never set             *)
Announced(d, s) ==
  CASE d = "adalight" -> 256 * s[4] + s[5] + 1 = count /\ s[6] = ((s[4] ^^ s[5]) ^^ 85)
    [] d = "atmo" -> s[4] = 3 * count
    [] d = "tpm2" -> 256 * s[3] + s[4] = 3 * count /\ Len(s) = 4 + 3 * count + 1 /\ Last(s) = 54
    [] d = "sedu" -> Last(s) = 165 /\ \E k \in DOMAIN FrameSpecs : FrameSpecs[k] = [id |-> s[2], size |-> Len(s) - 3]
    [] d \in {"apa102", "adalight_apa102"} -> 16 * (Len(s) - Start[d] - 4 * count) >= count
    [] d = "lpd8806" -> 32 * (Len(s) - 3 * count) >= count
    [] OTHER -> TRUE

Joined(packets) == FoldLeft(LAMBDA a, p : a \o p.data, <<>>, packets)

(* Whatever was sent before, the receiver of a frame finds the color of    *)
(* every led in its place, as far as its chips resolve it, and a header    *)
(* and trailer that fit, FadeCandy's header excepted: in one buffer, or    *)
(* over packets and universes that split a led (write()).                  *)
FrameDecodes ==
  wire # <<>> =>
    CASE device \in Buffered ->
           LET s == wire[1].data
           IN /\ Announced(device, s)
              /\ \A i \in 1 .. Taken(device, ledCount) :
                   i \in DOMAIN colors =>
                     ReadLed(device, s, Start[device] + 1 + (i - 1) * Unit(device)) = Resolution(device, colors[i])
      [] device \in {"e131", "tpm2net"} ->
           /\ Joined(wire) = SubSeq(Raw(colors), 1, IF device = "e131" THEN Len(Raw(colors)) ELSE 3 * count)
           /\ \A p \in DOMAIN wire : wire[p].size = Len(wire[p].data)
      [] device = "artnet" ->
           LET s == Joined(wire) IN \A i \in DOMAIN colors : \A c \in 1 .. 3 : s[(i - 1) * Fixture + c] = colors[i][c]
      [] device = "plain" -> wire[1].data = Raw(colors)
      [] device = "ws281x" ->
           \A i \in DOMAIN colors \cap 1 .. count : LET w == wire[1].data[i] IN [j \in 1 .. 3 |-> w[j] + w[4]] = colors[i]
      [] device = "h801" -> wire[1].data = colors[1]
      [] device = "piblaster" ->
           \A g \in DOMAIN GpioMap : LET led == GpioMap[g].led + 1 IN
             led \in DOMAIN colors /\ GpioMap[g].color # 0 =>
               \E p \in DOMAIN wire : wire[p] = [gpio |-> g, level |-> 3 * colors[led][GpioMap[g].color]]
      [] device = "atmoorb" -> \A i \in DOMAIN colors \cap OrbIds : \E p \in DOMAIN wire : wire[p].orb = i /\ wire[p].color = colors[i]
      [] OTHER ->
           \A i \in DOMAIN colors : \E p \in DOMAIN wire :
             i - wire[p].index \in DOMAIN wire[p].data /\ wire[p].data[i - wire[p].index] = colors[i]

=============================================================================
