---------------------------- MODULE ServicePorts ----------------------------
(***************************************************************************)
(* The ports of the services and how others find them: WebServer, the TCP  *)
(* and UDP servers, their Bonjour registrations, and the web server's SSDP *)
(* announcements (SSDPHandler), which the network may lose.  A location is *)
(* [address, port]; what the control points of the network hold is heard.  *)
(***************************************************************************)
EXTENDS Integers

CONSTANTS Ports,          \* 1 .. n
          Addresses,      \* IPv4 addresses the host may have
          NoAddress, NoLocation,
          MaxSaves        \* bound on saved settings and changes of the network

ASSUME PortsAssumption ==
  Ports \subseteq Nat \ {0} /\ NoAddress \notin Addresses /\ MaxSaves \in Nat

TcpServers == {"json", "proto"}
Services == TcpServers \cup {"web", "udp"}

VARIABLES taken,          \* ports that other programs listen on
          port,           \* _port of each service
          listening,      \* 0 or the port the socket is bound to
          registered,     \* 0 or the port of the Bonjour registration
          address,        \* of the host
          localAddress,   \* what SSDPHandler knows of it
          served,         \* description.xml: the base address, or NoLocation
          descAddress,    \* what the announcements name
          running,        \* SSDPServer::_running
          heard, saves

portVars == <<taken, port, listening, registered, address, localAddress, served, descAddress, running, heard, saves>>
ssdpVars == <<localAddress, served, descAddress, running, heard>>

Location(a, p) == [address |-> a, port |-> p]

Bound(l) == {l[s] : s \in {"web"} \cup TcpServers} \ {0}

(* NetUtils::portAvailable(): the next port nobody listens on *)
PortAvailable(p, inUse) ==
  CHOOSE q \in Ports : q >= p /\ q \notin inUse /\ \A r \in Ports : p <= r /\ r < q => r \in inUse

(* a datagram gets out when the host has an address, and may be lost *)
Sent(message, arrives) == IF arrives /\ address # NoAddress THEN message ELSE heard

(* mutant: a service keeps the registration it has made first *)
RegisterService_Once(s, p) ==
  registered' = [registered EXCEPT ![s] = IF registered[s] = 0 THEN p ELSE registered[s]]

(* start(): the registration is made anew when the port is another one, and *)
(* stays when the service stops                                             *)
RegisterService(s, p) == registered' = [registered EXCEPT ![s] = p]

PortsInit ==
  /\ taken = {}
  /\ address \in Addresses \cup {NoAddress}
  /\ localAddress = address
  /\ port = [s \in Services |-> CASE s = "web" -> 1 [] s = "json" -> 2 [] s = "proto" -> 3 [] OTHER -> 1]
  /\ listening = port /\ registered = port
  /\ running = (address # NoAddress)
  /\ served = IF running THEN Location(address, 1) ELSE NoLocation
  /\ descAddress = served
  /\ heard \in {NoLocation, served}
  /\ saves = 0

Count == saves < MaxSaves /\ saves' = saves + 1

-----------------------------------------------------------------------------

(* the alive timer of start() sends *)
Start == running

(* handleWebServerStateChange(): byebye with the old port, then the new one *)
StateChange(p, arrives) ==
  /\ served' = Location(localAddress, p)
  /\ descAddress' = Location(localAddress, p)
  /\ running' = TRUE
  /\ heard' \in IF arrives /\ address # NoAddress THEN {Location(localAddress, p)}
                 ELSE {heard} \cup IF running THEN {Sent(NoLocation, TRUE)} ELSE {}
  /\ UNCHANGED localAddress

Stopped(arrives) ==
  /\ served' = NoLocation
  /\ running' = FALSE
  /\ heard' = IF running THEN Sent(NoLocation, arrives) ELSE heard
  /\ UNCHANGED <<localAddress, descAddress>>

(* WebServer::handleSettingsUpdate() with port p: a port that is its own    *)
(* already counts as in use.  stolen: another program takes the port        *)
(* between the test and the listen                                          *)
WebSettings(p, stolen, arrives) ==
  /\ Count
  /\ LET before == IF p # port["web"] THEN [listening EXCEPT !["web"] = 0] ELSE listening
         q == PortAvailable(p, taken \cup Bound(before))
         starts == before["web"] = 0
     IN /\ \E r \in Ports : r >= p /\ r \notin taken \cup Bound(before)
        /\ port' = [port EXCEPT !["web"] = q]
        /\ stolen => starts
        /\ taken' = IF stolen THEN taken \cup {q} ELSE taken
        /\ listening' = [before EXCEPT !["web"] = IF stolen THEN 0 ELSE IF starts THEN q ELSE @]
        /\ IF starts /\ ~stolen
           THEN RegisterService("web", q) /\ StateChange(q, arrives)
           ELSE /\ UNCHANGED registered
                /\ IF before = listening THEN UNCHANGED ssdpVars ELSE Stopped(arrives)
  /\ UNCHANGED address

(* JsonServer and ProtoServer: only another port makes them listen anew, and *)
(* one that is in use leaves them closed                                     *)
ServerSettings(s, p) ==
  /\ Count
  /\ IF p = port[s] THEN UNCHANGED <<port, listening, registered>>
     ELSE LET free == p \notin taken \cup Bound([listening EXCEPT ![s] = 0])
          IN /\ port' = [port EXCEPT ![s] = p]
             /\ listening' = [listening EXCEPT ![s] = IF free THEN p ELSE 0]
             /\ IF free THEN RegisterService(s, p) ELSE UNCHANGED registered
  /\ UNCHANGED <<taken, address, ssdpVars>>

(* UDPListener closes its socket with every save, and opens it if enabled  *)
(* and if it can be bound                                                  *)
UdpSettings(p, enable) ==
  /\ Count
  /\ port' = [port EXCEPT !["udp"] = p]
  /\ listening' = [listening EXCEPT !["udp"] = IF enable THEN p ELSE 0]
  /\ IF enable THEN RegisterService("udp", p) ELSE UNCHANGED registered
  /\ UNCHANGED <<taken, address, ssdpVars>>

(* the interface gets another address or loses it *)
AddressChanges(a) == Count /\ a # address /\ address' = a /\ UNCHANGED <<taken, port, listening, registered, ssdpVars>>

NewLocation(l) == descAddress' = l /\ served' = l

(* handleNetworkConfigurationChanged(), some time after; it sends whether   *)
(* SSDP runs or not, and starts nothing                                     *)
NetworkConfigurationChanged(arrives) ==
  LET l == Location(address, port["web"])
  IN /\ address \notin {NoAddress, localAddress}
     /\ localAddress' = address
     /\ NewLocation(l)
     /\ heard' = Sent(l, arrives)
     /\ UNCHANGED <<taken, port, listening, registered, address, running, saves>>

(* handleAliveTimerTrigger() *)
AliveTimerTrigger(arrives) ==
  /\ Start
  /\ heard' = Sent(descAddress, arrives)
  /\ UNCHANGED <<taken, port, listening, registered, address, localAddress, served, descAddress, running, saves>>

(* other programs come and go *)
OtherProgram(p) ==
  /\ Count
  /\ p \notin Bound(listening)
  /\ taken' = IF p \in taken THEN taken \ {p} ELSE taken \cup {p}
  /\ UNCHANGED <<port, listening, registered, address, ssdpVars>>

PortsNext ==
  \/ \E p \in Ports, stolen \in BOOLEAN, arrives \in BOOLEAN : WebSettings(p, stolen, arrives)
  \/ \E p \in Ports : OtherProgram(p) \/ \E s \in TcpServers : ServerSettings(s, p)
  \/ \E p \in Ports, enable \in BOOLEAN : UdpSettings(p, enable)
  \/ \E a \in Addresses \cup {NoAddress} : AddressChanges(a)
  \/ \E arrives \in BOOLEAN : NetworkConfigurationChanged(arrives) \/ AliveTimerTrigger(arrives)

(* the timers run, the network reports its changes, and it does not lose   *)
(* every announcement                                                      *)
PortsFairness ==
  /\ WF_portVars(\E arrives \in BOOLEAN : NetworkConfigurationChanged(arrives))
  /\ SF_portVars(AliveTimerTrigger(TRUE))

PortsSpec == PortsInit /\ [][PortsNext]_portVars

-----------------------------------------------------------------------------
(* A service that listens is registered with Bonjour at the port it listens *)
(* on, and the description served is that of the location that is announced,*)
(* whatever ports and addresses changed in between (start() of the servers, *)
(* SSDPHandler).                                                            *)
FoundWhereServed ==
  /\ \A s \in Services : listening[s] # 0 => registered[s] = listening[s]
  /\ served # NoLocation => served = descAddress

(* Once the network has settled, the control points get to know the         *)
(* location that is announced, whatever was lost: the alive timer           *)
(* (SSDPServer::start()).                                                   *)
LocationHeals ==
  <>[](running /\ address # NoAddress) => []<>(heard = descAddress /\ localAddress = address)

=============================================================================
