--------------------------- MODULE HttpConnection ---------------------------
(***************************************************************************)
(* One connection of the web server: QtHttpClientWrapper reads requests    *)
(* line by line, whatever part of a line has arrived, and hands them to    *)
(* the static files, to the JSON API (WebJsonRpc, answered by a callback)  *)
(* or, after an upgrade, to WebSocketClient (libsrc/webserver).            *)
(*   requested  how many requests of plan the client has sent              *)
(*   wire       the lines of them that have not arrived                    *)
(*   inbox      lines that have arrived and were not read                  *)
(*   parsing    m_parsingStatus                                            *)
(*   request    m_currentRequest, 0 for none                               *)
(*   unlocked   WebJsonRpc::_unlocked                                      *)
(*   executed   history: how often each request was handed on              *)
(*   replies    history: the replies, Bad for 400                          *)
(*   connected  the socket is open                                         *)
(*   skewed     history: the lines that are read are no longer the client's*)
(* The client sends the requests of plan, of the kinds                     *)
(*   GET, LAST (with Connection: close), RPC (POST json-rpc), UPGRADE, and *)
(*   QUIET: RPC of a command that sends no reply, as an adjustment of an   *)
(*   unknown id or setconfig without a config.                             *)
(***************************************************************************)
EXTENDS Integers, SequencesExt

CONSTANT Plans  \* sequences of kinds that clients send, UPGRADE at most at the end

ASSUME PlansAssumption == \A p \in Plans : p \in Seq({"GET", "LAST", "RPC", "QUIET", "UPGRADE"})

VARIABLES plan, requested, wire, inbox, parsing, request, unlocked, executed, replies, connected,
          skewed

httpVars == <<plan, requested, wire, inbox, parsing, request, unlocked, executed, replies, connected,
              skewed>>

Bad     == 0
HasBody == {"RPC", "QUIET"}

Line(k, r) == [k |-> k, r |-> r]

LinesOf(kind, r) ==
  <<Line("start", r), Line("end", r)>> \o IF kind \in HasBody THEN <<Line("body", r)>> ELSE <<>>

HttpInit ==
  /\ plan \in Plans
  /\ requested = 0 /\ wire = <<>>
  /\ inbox = <<>> /\ replies = <<>>
  /\ parsing = "AwaitingRequest"
  /\ request = 0
  /\ unlocked = FALSE
  /\ executed = [r \in DOMAIN plan |-> 0]
  /\ connected = TRUE
  /\ skewed = FALSE

KeepsPlace == connected /\ ~skewed

-----------------------------------------------------------------------------
(* the client sends its next request; an earlier one would only add to wire *)
SendRequest ==
  /\ KeepsPlace /\ wire = <<>> /\ requested < Len(plan)
  /\ requested' = requested + 1
  /\ wire' = LinesOf(plan[requested'], requested')
  /\ UNCHANGED <<plan, inbox, parsing, request, unlocked, executed, replies, connected, skewed>>

(* a line arrives, as a whole, or the first part of a request line first *)
Arrive ==
  /\ KeepsPlace /\ wire # <<>>
  /\ LET l == Head(wire)
         joins == l.k = "rest" /\ inbox # <<>> /\ Last(inbox).k = "part"
     IN  \/ /\ wire' = Tail(wire)
            /\ inbox' = IF joins THEN Append(Front(inbox), Line("start", l.r)) ELSE Append(inbox, l)
         \/ /\ l.k = "start"
            /\ wire' = <<Line("rest", l.r)>> \o Tail(wire)
            /\ inbox' = Append(inbox, Line("part", l.r))
  /\ UNCHANGED <<plan, requested, parsing, request, unlocked, executed, replies, connected, skewed>>

(* The reader loses its place in two ways.  Headers that arrive in parts are  *)
(* read as if each part were a line, and the end of one as the empty line:    *)
(* what comes of that is left open.  And content that ends without a newline  *)
(* is read together with the line behind it when that has arrived: it is too  *)
(* long then, and the reader waits for its end for ever, with no reply.       *)
LosePlace ==
  /\ KeepsPlace
  /\ \/ parsing = "AwaitingHeaders" /\ inbox = <<>> /\ wire # <<>>
     \/ parsing = "AwaitingContent" /\ Len(inbox) > 1
  /\ skewed' = TRUE
  /\ UNCHANGED <<plan, requested, wire, inbox, parsing, request, unlocked, executed, replies, connected>>

(* mutant: takes what follows the headers for content, whatever the length *)
Parsed_NoBody(l) ==
  CASE parsing = "AwaitingRequest" -> IF l.k = "start" THEN "AwaitingHeaders" ELSE "ParsingError"
    [] parsing = "AwaitingHeaders" -> IF l.k # "end" THEN "ParsingError" ELSE "AwaitingContent"
    [] parsing = "AwaitingContent" -> IF l.k = "body" THEN "RequestParsed" ELSE "AwaitingContent"
    [] parsing = "RequestParsed"   -> "RequestParsed"

(* the first switch: the status after line l *)
Parsed(l) ==
  CASE parsing = "AwaitingRequest" -> IF l.k = "start" THEN "AwaitingHeaders" ELSE "ParsingError"
    [] parsing = "AwaitingHeaders" -> IF l.k # "end" THEN "ParsingError"
                                      ELSE IF plan[l.r] \in HasBody THEN "AwaitingContent"
                                      ELSE "RequestParsed"
    [] parsing = "AwaitingContent" -> "RequestParsed"
    [] parsing = "RequestParsed"   -> "RequestParsed"

(* sendReplyToClient(): the end of the current request, and maybe of the connection *)
SendReplyToClient(r) ==
  /\ replies' = Append(replies, r)
  /\ connected' = (request = 0 \/ plan[request] # "LAST")
  /\ request' = 0
  /\ parsing' = "AwaitingRequest"

(* one turn of the loop of onClientDataReceived(), up to the second switch *)
ReadStart ==
  /\ Parsed(Head(inbox)) \in {"AwaitingHeaders", "AwaitingContent"}
  /\ inbox' = Tail(inbox)
  /\ parsing' = Parsed(Head(inbox))
  /\ request' = IF parsing = "AwaitingRequest" THEN Head(inbox).r ELSE request
  /\ UNCHANGED <<unlocked, executed, replies, connected>>

(* ParsingError: what else has arrived is dropped *)
ReadError ==
  /\ Parsed(Head(inbox)) = "ParsingError"
  /\ inbox' = <<>>
  /\ SendReplyToClient(Bad)
  /\ UNCHANGED <<unlocked, executed>>

(* RequestParsed: json-rpc is handled until a callback answers it *)
ReadRpc ==
  /\ Parsed(Head(inbox)) = "RequestParsed"
  /\ plan[request] \in HasBody
  /\ inbox' = Tail(inbox)
  /\ executed' = [executed EXCEPT ![request] = @ + 1]
  /\ \/ /\ plan[request] = "RPC"
        /\ unlocked' = FALSE
        /\ SendReplyToClient(request)
     \/ /\ plan[request] = "QUIET"
        /\ unlocked' = TRUE
        /\ parsing' = "RequestParsed"
        /\ UNCHANGED <<request, replies, connected>>

(* RequestParsed: StaticFileServing::onRequestNeedsReply() *)
ReadFile ==
  /\ Parsed(Head(inbox)) = "RequestParsed"
  /\ plan[request] \in {"GET", "LAST"}
  /\ inbox' = Tail(inbox)
  /\ executed' = [executed EXCEPT ![request] = @ + 1]
  /\ SendReplyToClient(request)
  /\ UNCHANGED unlocked

(* RequestParsed: a WebSocketClient takes the socket; WebSocket.tla goes on *)
ReadUpgrade ==
  /\ Parsed(Head(inbox)) = "RequestParsed"
  /\ plan[request] = "UPGRADE" /\ executed[request] = 0
  /\ inbox' = Tail(inbox)
  /\ executed' = [executed EXCEPT ![request] = 1]
  /\ replies' = Append(replies, request)
  /\ parsing' = "RequestParsed"
  /\ UNCHANGED <<request, unlocked, connected>>

ReadLine ==
  /\ KeepsPlace /\ inbox # <<>>
  /\ ReadStart \/ ReadError \/ ReadRpc \/ ReadFile \/ ReadUpgrade
  /\ UNCHANGED <<plan, requested, wire, skewed>>

(* a message of the JSON API for all its clients, while a reply is due *)
HandleCallback ==
  /\ KeepsPlace /\ unlocked
  /\ unlocked' = FALSE
  /\ SendReplyToClient(request)
  /\ UNCHANGED <<plan, requested, wire, inbox, executed, skewed>>

HttpNext == SendRequest \/ Arrive \/ LosePlace \/ ReadLine \/ HandleCallback

HttpFairness == WF_httpVars(Arrive) /\ WF_httpVars(ReadLine)

-----------------------------------------------------------------------------
(* However lines arrive: replies come in the order of the requests and not  *)
(* twice, and a request is handed on once, unless it waits for a reply that *)
(* its command does not send.  It is said of connections whose reader keeps *)
(* its place (QtHttpClientWrapper.cpp, onClientDataReceived();              *)
(* WebJsonRpc.cpp, handleCallback()).                                       *)
RepliesOnce ==
  ~skewed =>
  /\ \A i, j \in DOMAIN replies : i < j /\ replies[j] # Bad => replies[i] < replies[j]
  /\ \A r \in DOMAIN plan : executed[r] > 1 => plan[r] = "QUIET"

(* Requests that are sent are all answered, if only with an error, up to one*)
(* that asks to close the connection, that its command leaves without a     *)
(* reply or where the reader loses its place (QtHttpClientWrapper.cpp,      *)
(* onClientDataReceived()).                                                 *)
RequestsAnswered ==
  \A n \in 1 .. 3 :
    (n <= requested /\ (\A r \in 1 .. n : plan[r] # "QUIET") /\ (\A r \in 1 .. n - 1 : plan[r] # "LAST"))
      ~> (\E i \in DOMAIN replies : replies[i] \in {n, Bad}) \/ skewed
=============================================================================
