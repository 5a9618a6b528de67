------------------------------ MODULE MCNetwork ------------------------------
(***************************************************************************)
(* What the network sees of Hyperion: the JSON API and its transports, the *)
(* stream of a proto client, the services' ports and their discovery, and  *)
(* the command line client.  These parts share no state, so a behaviour    *)
(* runs one of them, part, and the others stay in their initial states:    *)
(* their states add up instead of multiplying.                             *)
(***************************************************************************)
EXTENDS TokenRequests, ApiUpdates, LogStream, HttpConnection, WebSocket,
        ProtoStream, ServicePorts, ServiceBrowser, RemoteCommand

VARIABLE part

apiVars == <<authVars, updVars, logVars, httpVars, wsVars>>
netVars == <<streamVars, portVars, browseVars, remoteVars>>
vars == <<part, apiVars, netVars>>

(* up to three requests, an upgrade only as the last one *)
MCPlans ==
  {p \in UNION {[1 .. n -> {"GET", "LAST", "RPC", "QUIET", "UPGRADE"}] : n \in 0 .. 3} :
     \A i \in DOMAIN p : p[i] = "UPGRADE" => i = Len(p)}

MCWsPlans ==
  UNION {[1 .. n -> {"TEXT", "BINARY", "PING", "CLOSE", "split", "pinged"}] : n \in 0 .. 3}

MCStreamPlans == UNION {[1 .. n -> BOOLEAN] : n \in 1 .. 3}

(* the parts that do not run start from one state *)
ApiIdle == AuthInit /\ UpdInit /\ LogInit /\ logDebug /\ HttpInit /\ plan = <<>> /\ WsInit /\ wsPlan = <<>>
StreamIdle == StreamInit /\ streamPlan = <<TRUE>> /\ ~reachable
PortsIdle == PortsInit /\ address = NoAddress /\ heard = NoLocation
RemoteIdle == RemoteInit /\ command = [op |-> "sysinfo", result |-> "success", changes |-> FALSE] /\ password

Init ==
  /\ BrowseInit
  /\ \/ /\ part \in {"tokens", "updates", "browser"}
        /\ ApiIdle /\ StreamIdle /\ PortsIdle /\ RemoteIdle
     \/ /\ part \in {"log", "http", "websocket"}
        /\ StreamIdle /\ PortsIdle /\ RemoteIdle
        /\ AuthInit /\ UpdInit
        /\ LogInit /\ (part = "log" \/ logDebug)
        /\ HttpInit /\ (part = "http" \/ plan = <<>>)
        /\ WsInit /\ (part = "websocket" \/ wsPlan = <<>>)
     \/ part = "stream"   /\ ApiIdle /\ PortsIdle /\ RemoteIdle /\ StreamInit
     \/ part = "ports"    /\ ApiIdle /\ StreamIdle /\ RemoteIdle /\ PortsInit
     \/ part = "remote"   /\ ApiIdle /\ StreamIdle /\ PortsIdle /\ RemoteInit

Next ==
  \/ part = "tokens"    /\ AuthNext   /\ UNCHANGED <<part, netVars, updVars, logVars, httpVars, wsVars>>
  \/ part = "updates"   /\ UpdNext    /\ UNCHANGED <<part, netVars, authVars, logVars, httpVars, wsVars>>
  \/ part = "log"       /\ LogNext    /\ UNCHANGED <<part, netVars, authVars, updVars, httpVars, wsVars>>
  \/ part = "http"      /\ HttpNext   /\ UNCHANGED <<part, netVars, authVars, updVars, logVars, wsVars>>
  \/ part = "websocket" /\ WsNext     /\ UNCHANGED <<part, netVars, authVars, updVars, logVars, httpVars>>
  \/ part = "stream"    /\ StreamNext /\ UNCHANGED <<part, apiVars, portVars, browseVars, remoteVars>>
  \/ part = "ports"     /\ PortsNext  /\ UNCHANGED <<part, apiVars, streamVars, browseVars, remoteVars>>
  \/ part = "browser"   /\ BrowseNext /\ UNCHANGED <<part, apiVars, streamVars, portVars, remoteVars>>
  \/ part = "remote"    /\ RemoteNext /\ UNCHANGED <<part, apiVars, streamVars, portVars, browseVars>>

(* nothing fair is enabled in the parts that do not run, but connecting *)
Fairness ==
  /\ AuthFairness /\ HttpFairness /\ PortsFairness /\ BrowseFairness
  /\ part = "stream" => StreamFairness

Spec == Init /\ [][Next]_vars /\ Fairness

-----------------------------------------------------------------------------
(* Who subscribed for updates or reads the log misses nothing (JsonCB,      *)
(* LoggerManager).                                                          *)
ClientsInformed == SubscribersInformed /\ StreamComplete

(* A http request is replied to once, a websocket message handled once, and *)
(* a proto message answered once: in order and whole, however they arrive,  *)
(* as long as the readers of the first two keep their place                 *)
(* (QtHttpClientWrapper, WebSocketClient, ProtoClientConnection).           *)
HandledOnce == RepliesOnce /\ MessagesWhole /\ AnsweredInOrder

(* What is asked for comes in the end: every token request is settled once  *)
(* no new ones come, every http request that is read is answered, a         *)
(* proto client connects again when its server is back; and once the        *)
(* network has settled the control points know the location announced, and  *)
(* every session found is resolved, whatever was lost or came late          *)
(* (AuthManager::checkTimeout(), onClientDataReceived(), connectToHost(),   *)
(* SSDPServer, BonjourBrowserWrapper).                                      *)
Served == RequestSettled /\ RequestsAnswered /\ Reconnects /\ LocationHeals /\ SessionsResolve
=============================================================================
