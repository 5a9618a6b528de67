------------------------------ MODULE WebSocket ------------------------------
(***************************************************************************)
(* WebSocketClient (libsrc/webserver/WebSocketClient.cpp) reads frames: at *)
(* most one for each readyRead, however many have arrived, and a payload   *)
(* that is not complete keeps the header for the next readyRead.  Fragments*)
(* of a message may have a ping in between.                                *)
(*   wsSent     how many messages of wsPlan the client has sent            *)
(*   wsWire     pieces, the header or the payload of a frame, still to come*)
(*   wsInbox    pieces that have arrived and were not read                 *)
(*   wsHeader   _wsh                                                       *)
(*   notEnough  _notEnoughData                                             *)
(*   onCont     _onContinuation                                            *)
(*   wsBuffer   _wsReceiveBuffer, the fragments in it                      *)
(*   handled    history: the messages handed on, with the opcode that chose*)
(*              the JSON API (TEXT) or the image format                    *)
(*   wsOpen     the socket is open                                         *)
(*   misread    history: a header was read before all of it had arrived    *)
(***************************************************************************)
EXTENDS Integers, SequencesExt

CONSTANT WsPlans  \* sequences of messages a client sends

ASSUME WsPlansAssumption ==
  \A p \in WsPlans : p \in Seq({"TEXT", "BINARY", "PING", "CLOSE", "split", "pinged"})

VARIABLES wsPlan, wsSent, wsWire, wsInbox, wsHeader, notEnough, onCont, wsBuffer, handled, wsOpen,
          misread

wsVars == <<wsPlan, wsSent, wsWire, wsInbox, wsHeader, notEnough, onCont, wsBuffer, handled, wsOpen,
            misread>>

(* control frames are sent without a payload *)
Control == {"PING", "CLOSE"}

(* a piece of fragment part of message msg; 0 is a control frame *)
WsFrame(op, fin, msg, part, payload) ==
  [op |-> op, fin |-> fin, msg |-> msg, part |-> part, payload |-> payload]

(* the pieces of a message; "split" is a text in two fragments, "pinged" has a ping in between *)
PiecesOf(kind, m) ==
  LET first(half) == WsFrame("TEXT", FALSE, m, 1, half)
      rest(half)  == WsFrame("CONTINUATION", TRUE, m, 2, half)
      whole(half) == WsFrame(kind, TRUE, m, 1, half)
      ping        == WsFrame("PING", TRUE, m, 0, FALSE)
  IN  CASE kind = "split"    -> <<first(FALSE), first(TRUE), rest(FALSE), rest(TRUE)>>
        [] kind = "pinged"   -> <<first(FALSE), first(TRUE), ping, rest(FALSE), rest(TRUE)>>
        [] kind \in Control -> <<WsFrame(kind, TRUE, m, 0, FALSE)>>
        [] OTHER             -> <<whole(FALSE), whole(TRUE)>>

WsInit ==
  /\ wsPlan \in WsPlans
  /\ wsSent = 0 /\ wsWire = <<>> /\ wsInbox = <<>> /\ wsBuffer = <<>> /\ handled = <<>>
  /\ wsHeader = WsFrame("none", TRUE, 0, 0, FALSE)
  /\ notEnough = FALSE /\ onCont = FALSE
  /\ wsOpen = TRUE
  /\ misread = FALSE

-----------------------------------------------------------------------------
(* the client sends its next message *)
WsSend ==
  /\ wsOpen /\ wsSent < Len(wsPlan)
  /\ wsSent' = wsSent + 1
  /\ wsWire' = wsWire \o PiecesOf(wsPlan[wsSent'], wsSent')
  /\ UNCHANGED <<wsPlan, wsInbox, wsHeader, notEnough, onCont, wsBuffer, handled, wsOpen, misread>>

(* a frame of data: text in fragments ends with the opcode CONTINUATION *)
DataFrame(f) ==
  LET isContinuation == f.op = "CONTINUATION"
      parts          == Append(IF f.fin /\ ~isContinuation THEN <<>> ELSE wsBuffer, f.part)
  IN  IF onCont /\ ~isContinuation
      THEN wsOpen' = FALSE /\ UNCHANGED <<onCont, wsBuffer, handled>>
      ELSE /\ onCont' = ~f.fin
           /\ wsBuffer' = IF f.fin THEN <<>> ELSE parts
           /\ handled' = IF f.fin THEN Append(handled, [op |-> f.op, msg |-> f.msg, parts |-> parts])
                         ELSE handled
           /\ UNCHANGED wsOpen

(* the switch over the opcode *)
HandleFrame(f) ==
  CASE f.op \in {"CONTINUATION", "BINARY", "TEXT"} -> DataFrame(f)
    [] f.op = "CLOSE" -> wsOpen' = FALSE /\ UNCHANGED <<onCont, wsBuffer, handled>>
    [] f.op = "PING"  -> UNCHANGED <<onCont, wsBuffer, handled, wsOpen>>

(* mutant: reads the header of the next frame where the payload follows *)
HandleWebSocketFrame_Forgets(pieces) ==
  LET h    == Head(pieces)
      rest == Tail(pieces)
  IN  /\ wsHeader' = h
      /\ notEnough' = FALSE
      /\ wsInbox' = IF h.op \notin Control /\ rest # <<>> THEN Tail(rest) ELSE rest
      /\ HandleFrame(h)

(* handleWebSocketFrame() on what has arrived *)
HandleWebSocketFrame(pieces) ==
  LET h    == IF notEnough THEN wsHeader ELSE Head(pieces)
      rest == IF notEnough THEN pieces ELSE Tail(pieces)
  IN  /\ wsHeader' = h
      /\ IF h.op \notin Control /\ rest = <<>>
         THEN /\ notEnough' = TRUE
              /\ wsInbox' = rest
              /\ UNCHANGED <<onCont, wsBuffer, handled, wsOpen>>
         ELSE /\ notEnough' = FALSE
              /\ wsInbox' = IF h.op \in Control THEN rest ELSE Tail(rest)
              /\ HandleFrame(h)

(* n pieces arrive at once, or a part of one while frames wait to be read *)
ReadyRead(n) ==
  /\ wsOpen /\ ~misread
  /\ wsWire # <<>> /\ n <= Len(wsWire)
  /\ n > 0 \/ wsInbox # <<>>
  /\ wsWire' = SubSeq(wsWire, n + 1, Len(wsWire))
  /\ HandleWebSocketFrame(wsInbox \o SubSeq(wsWire, 1, n))
  /\ UNCHANGED <<wsPlan, wsSent, misread>>

(* A header arrives in two parts: getWsFrameHeader() takes what is there for  *)
(* all of it and reads the rest as payload.  Nothing is said of the           *)
(* connection from there on.                                                  *)
ReadHeaderInParts ==
  /\ wsOpen /\ ~misread
  /\ wsWire # <<>> /\ wsInbox = <<>> /\ ~notEnough
  /\ misread' = TRUE
  /\ UNCHANGED <<wsPlan, wsSent, wsWire, wsInbox, wsHeader, notEnough, onCont, wsBuffer, handled, wsOpen>>

WsNext == WsSend \/ ReadHeaderInParts \/ \E n \in 0 .. Len(wsWire) : ReadyRead(n)

-----------------------------------------------------------------------------
(* However the frames arrive, cut anywhere but within a header: messages    *)
(* are handed on in order, each with all its fragments and nothing else,    *)
(* and none is dropped; a frame that waits for the next readyRead is late,  *)
(* not lost.  A client that keeps to the protocol is not disconnected       *)
(* (WebSocketClient.cpp, handleWebSocketFrame()).                           *)
MessagesWhole ==
  ~misread =>
  LET data == {m \in 1 .. wsSent : wsPlan[m] \notin Control}
      done == {handled[i].msg : i \in DOMAIN handled}
  IN  /\ done \subseteq data
      /\ \A i \in DOMAIN handled :
           /\ \A j \in 1 .. i - 1 : handled[j].msg < handled[i].msg
           /\ \A m \in data : m < handled[i].msg => m \in done
           /\ LET kind == wsPlan[handled[i].msg]
              IN  /\ handled[i].parts = IF kind \in {"split", "pinged"} THEN <<1, 2>> ELSE <<1>>
                  /\ kind \in {"TEXT", "BINARY"} => handled[i].op = kind
      /\ wsOpen /\ wsWire = <<>> /\ wsInbox = <<>> /\ ~notEnough => done = data
      /\ ~wsOpen => \E m \in DOMAIN wsPlan : wsPlan[m] = "CLOSE"
=============================================================================
