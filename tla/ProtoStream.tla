----------------------------- MODULE ProtoStream -----------------------------
(***************************************************************************)
(* A ProtoConnection (libsrc/protoserver/ProtoConnection.cpp), as the      *)
(* standalone grabbers use it, and the ProtoClientConnection that reads it *)
(* on the main thread of hyperiond.  A message is a length of four bytes   *)
(* and a body; TCP may cut the length in two.                              *)
(*   link       the client's socket: "off", "connecting" or "up"           *)
(*   reachable  somebody listens at the address                            *)
(*   streamPlan the messages to send, TRUE when they verify, and sent, the *)
(*              number of those that were written since the link is up     *)
(*   streamWire   pieces on the way                                        *)
(*   streamInbox  pieces in the server's socket that were not read         *)
(*   reader     what readData() is doing: "idle" between two calls,        *)
(*              "reading" in its loop, "body" while it waits for the rest  *)
(*              of a message, "stuck" in a loop that never ends            *)
(*   answers    history: what the server replied to, in order              *)
(***************************************************************************)
EXTENDS Integers, SequencesExt

CONSTANT StreamPlans   \* sequences of BOOLEAN, whether the verifier accepts the message

ASSUME StreamPlansAssumption == \A p \in StreamPlans : p \in Seq(BOOLEAN)

VARIABLES link, reachable, streamPlan, sent, streamWire, streamInbox, reader, answers

streamVars == <<link, reachable, streamPlan, sent, streamWire, streamInbox, reader, answers>>

(* the pieces of message n; the length comes whole or in two parts *)
Piece(kind, n) == [kind |-> kind, msg |-> n]
Whole(n) == <<Piece("length", n), Piece("body", n)>>
Cut(n)   == <<Piece("first", n), Piece("second", n), Piece("body", n)>>

StreamInit ==
  /\ link = "connecting" /\ reachable \in BOOLEAN
  /\ streamPlan \in StreamPlans
  /\ sent = 0 /\ streamWire = <<>> /\ streamInbox = <<>> /\ answers = <<>>
  /\ reader = "idle"

-----------------------------------------------------------------------------

(* connectToHost(), every 5 s *)
(* The client. *)
ConnectToHost ==
  /\ link = "off"
  /\ link' = "connecting"
  /\ UNCHANGED <<reachable, streamPlan, sent, streamWire, streamInbox, reader, answers>>

(* the socket connects, or fails: an external event *)
Connected ==
  /\ link = "connecting"
  /\ link' = IF reachable THEN "up" ELSE "off"
  /\ UNCHANGED <<reachable, streamPlan, sent, streamWire, streamInbox, reader, answers>>

(* sendMessage(): dropped unless the socket is connected *)
SendMessage ==
  /\ link = "up" /\ sent < Len(streamPlan)
  /\ sent' = sent + 1
  /\ \E pieces \in {Whole(sent'), Cut(sent')} : streamWire' = streamWire \o pieces
  /\ UNCHANGED <<link, reachable, streamPlan, streamInbox, reader, answers>>

(* hyperiond is started, once; the connection is lost before anything was sent *)
ServerStarts ==
  /\ ~reachable
  /\ reachable' = TRUE
  /\ UNCHANGED <<link, streamPlan, sent, streamWire, streamInbox, reader, answers>>

LinkLost ==
  /\ link = "up" /\ sent = 0
  /\ link' = "off"
  /\ UNCHANGED <<reachable, streamPlan, sent, streamWire, streamInbox, reader, answers>>

(* the client goes away in the middle *)
ClientQuits ==
  /\ link = "up" /\ sent > 0
  /\ link' = "gone" /\ streamWire' = <<>>
  /\ UNCHANGED <<reachable, streamPlan, sent, streamInbox, reader, answers>>

-----------------------------------------------------------------------------
(* The server.  Its loop runs on the main thread and takes nothing from the *)
(* wire until it ends or waits; the client goes on meanwhile.               *)
Halves(s)  == Len(s) >= 2 /\ s[1].kind = "first"
Length(s)  == s # <<>> /\ (s[1].kind = "length" \/ Halves(s))
AfterLength(s) == IF s[1].kind = "first" THEN SubSeq(s, 3, Len(s)) ELSE Tail(s)

(* the message whose body is b; one that does not verify ends readData() *)
StreamHandle(b) ==
  /\ answers' = Append(answers, b.msg)
  /\ reader' = IF streamPlan[b.msg] THEN "reading" ELSE "idle"

(* readyRead: the first n pieces arrive at once *)
StreamReadyRead(n) ==
  /\ reader = "idle" /\ streamWire # <<>> /\ n <= Len(streamWire)
  /\ streamWire' = SubSeq(streamWire, n + 1, Len(streamWire))
  /\ streamInbox' = streamInbox \o SubSeq(streamWire, 1, n)
  /\ reader' = "reading"
  /\ UNCHANGED <<link, reachable, streamPlan, sent, answers>>

(* one turn of the loop of readData() *)
ReadData ==
  /\ reader = "reading"
  /\ LET rest == AfterLength(streamInbox)
     IN  \/ /\ streamInbox = <<>>
            /\ reader' = "idle"
            /\ UNCHANGED <<streamInbox, answers>>
         \/ /\ streamInbox # <<>> /\ ~Length(streamInbox)
            /\ reader' = "stuck"
            /\ UNCHANGED <<streamInbox, answers>>
         \/ /\ Length(streamInbox) /\ rest = <<>>
            /\ reader' = "body"
            /\ streamInbox' = <<>>
            /\ UNCHANGED answers
         \/ /\ Length(streamInbox) /\ rest # <<>>
            /\ streamInbox' = Tail(rest)
            /\ StreamHandle(Head(rest))
  /\ UNCHANGED <<link, reachable, streamPlan, sent, streamWire>>

(* waitForReadyRead() brings the body, or the client is gone and the loop spins *)
WaitForReadyRead(n) ==
  /\ reader = "body" /\ streamWire # <<>> /\ n <= Len(streamWire)
  /\ streamWire' = SubSeq(streamWire, n + 1, Len(streamWire))
  /\ streamInbox' = SubSeq(streamWire, 2, n)
  /\ StreamHandle(Head(streamWire))
  /\ UNCHANGED <<link, reachable, streamPlan, sent>>

BodyNeverComes ==
  /\ reader = "body" /\ link = "gone"
  /\ reader' = "stuck"
  /\ UNCHANGED <<link, reachable, streamPlan, sent, streamWire, streamInbox, answers>>

StreamNext ==
  \/ ConnectToHost \/ Connected \/ SendMessage
  \/ ServerStarts \/ LinkLost \/ ClientQuits
  \/ \E n \in 1 .. 6 : StreamReadyRead(n) \/ WaitForReadyRead(n)
  \/ ReadData \/ BodyNeverComes

StreamFairness ==
  /\ WF_streamVars(ConnectToHost) /\ WF_streamVars(Connected) /\ WF_streamVars(SendMessage)
  /\ WF_streamVars(ReadData \/ \E n \in 1 .. 6 : StreamReadyRead(n) \/ WaitForReadyRead(n))

StreamSpec == StreamInit /\ [][StreamNext]_streamVars /\ StreamFairness

-----------------------------------------------------------------------------
(* However TCP cuts the stream, the server answers each message once and in *)
(* the order they were sent; and it has answered all it has read unless one *)
(* that does not verify made it stop early (readData()).                    *)
AnsweredInOrder ==
  /\ \A i \in DOMAIN answers : answers[i] = i
  /\ reader = "idle" /\ streamInbox # <<>> => answers # <<>> /\ ~streamPlan[Len(answers)]
  /\ reader = "idle" /\ streamInbox = <<>> /\ streamWire = <<>> /\ link # "gone" => Len(answers) = sent

(* The timer of the client brings the connection up once the server runs,   *)
(* whenever it starts and however often the connection was lost before      *)
(* (connectToHost()).                                                       *)
Reconnects == reachable ~> link \in {"up", "gone"}

=============================================================================
