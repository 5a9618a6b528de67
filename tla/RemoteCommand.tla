--------------------------- MODULE RemoteCommand ---------------------------
(***************************************************************************)
(* A run of hyperion-remote: it connects to the JSON server, logs in,      *)
(* sends one command and takes the first line it gets for the reply.  Other*)
(* lines may come first: plugins tell every session what they do, and the  *)
(* sessions of users hear of token requests, without a subscription.       *)
(* A command is [op, result, changes]: what the server replies ("none":    *)
(* nothing, "client": it is refused before it is sent) and whether it      *)
(* changes the server then.                                                *)
(***************************************************************************)
EXTENDS Integers, Sequences

CONSTANTS AuthRequired,   \* _apiAuthRequired
          MaxEvents       \* bound on lines that are no replies

ASSUME RemoteAssumption == AuthRequired \in BOOLEAN /\ MaxEvents \in Nat

VARIABLES command,        \* what the command line asks for
          password,       \* it is the right one
          step,           \* where main() is
          toServer, toClient,
          authorized,     \* JsonAPI::_authorized, _userAuthorized
          carriedOut,     \* the command has changed the server
          exit,           \* how main() ended
          events

remoteVars == <<command, password, step, toServer, toClient, authorized, carriedOut, exit, events>>

Changing(ops) == [op : ops, result : {"success"}, changes : {TRUE}]
Refused(ops)  == [op : ops, result : {"error"}, changes : {FALSE}]
Reading(ops)  == [op : ops, result : {"success"}, changes : {FALSE}]
NotSent(ops)  == [op : ops, result : {"client"}, changes : {FALSE}]
Unanswered(ops) == [op : ops, result : {"none"}, changes : {FALSE}]

(* setColor(), setImage(), setEffect(): an effect that does not exist is    *)
(* acknowledged too, arguments that are no JSON are not sent               *)
InputCommands == Changing({"color", "image", "effect"}) \cup Reading({"effect"}) \cup NotSent({"effect"})

(* createEffect() parses the name of the script in the place of the         *)
(* arguments; without arguments the server refuses                         *)
EffectCommands == NotSent({"create-effect"}) \cup Refused({"create-effect", "delete-effect"}) \cup Changing({"delete-effect"})

InfoCommands == Reading({"serverinfo", "sysinfo"})

(* clear(), clearAll(), setComponentState(), setSource(), setSourceAutoSelect() *)
SourceCommands ==
  Changing({"clear", "componentstate", "sourceselect"}) \cup Refused({"clear", "componentstate", "sourceselect"})

(* setConfig() without a configuration gets no answer; while Hyperion is    *)
(* disabled nothing is saved                                               *)
ConfigCommands ==
  Reading({"getconfig", "getschema"}) \cup Changing({"setconfig"}) \cup Refused({"setconfig"})
    \cup NotSent({"setconfig"}) \cup Unanswered({"setconfig"})

(* setAdjustment(): an unknown id gets no answer *)
AdjustmentCommands == Changing({"adjustment"}) \cup Unanswered({"adjustment"})

(* setLedMapping() and setVideoMode(): a value the schema does not list is refused *)
ProcessingCommands == Changing({"processing", "videomode"}) \cup Refused({"processing", "videomode"})

Commands == InputCommands \cup EffectCommands \cup InfoCommands \cup SourceCommands \cup ConfigCommands
              \cup AdjustmentCommands \cup ProcessingCommands

Waiting == step \in {"login sent", "command sent"}
Event(success) == [reply |-> FALSE, success |-> success]
Reply(success) == [reply |-> TRUE, success |-> success]

RemoteInit ==
  /\ command \in Commands /\ password \in BOOLEAN
  /\ step = "connect" /\ toServer = <<>> /\ toClient = <<>>
  /\ authorized = FALSE /\ carriedOut = FALSE
  /\ exit = "none" /\ events = 0

Exit(how) == exit' = how /\ step' = "done"

-----------------------------------------------------------------------------
(* the address, and waitForConnected() *)
ConnectToServer(ok) ==
  /\ step = "connect"
  /\ IF ok THEN step' = "login" /\ UNCHANGED exit ELSE Exit("error")
  /\ UNCHANGED <<command, password, toServer, toClient, authorized, carriedOut, events>>

(* login() *)
SendLogin ==
  /\ step = "login" /\ step' = "login sent"
  /\ toServer' = Append(toServer, "login")
  /\ UNCHANGED <<command, password, toClient, authorized, carriedOut, exit, events>>

(* the command, if its arguments can be parsed *)
SendCommand ==
  /\ step = "command"
  /\ IF command.result = "client" THEN Exit("error") /\ UNCHANGED toServer
     ELSE step' = "command sent" /\ toServer' = Append(toServer, "command") /\ UNCHANGED exit
  /\ UNCHANGED <<command, password, toClient, authorized, carriedOut, events>>

(* parseReply() *)
Indicates(line) == line.success

(* sendMessage() reads what has come, until there is a line; more than one *)
(* line is no valid JSON                                                   *)
ReadReply(n) ==
  /\ Waiting /\ n \in 1 .. Len(toClient)
  /\ toClient' = SubSeq(toClient, n + 1, Len(toClient))
  /\ \/ n > 1 /\ Exit("error")
     \/ n = 1 /\ ~Indicates(Head(toClient)) /\ Exit("refused")
     \/ n = 1 /\ Indicates(Head(toClient)) /\ step = "login sent" /\ step' = "command" /\ UNCHANGED exit
     \/ n = 1 /\ Indicates(Head(toClient)) /\ step = "command sent" /\ Exit("success")
  /\ UNCHANGED <<command, password, toServer, authorized, carriedOut, events>>

(* waitForReadyRead(): nothing for 30 s *)
ReadTimeout ==
  /\ Waiting /\ toClient = <<>>
  /\ Exit("error")
  /\ UNCHANGED <<command, password, toServer, toClient, authorized, carriedOut, events>>

(* JsonClientConnection::readRequest(); what was sent before the client     *)
(* closed is still handled                                                 *)
Handle(message, rights, changes, replies) ==
  /\ toServer # <<>> /\ Head(toServer) = message
  /\ toServer' = Tail(toServer)
  /\ authorized' = rights
  /\ carriedOut' = (carriedOut \/ changes)
  /\ toClient' = toClient \o replies
  /\ UNCHANGED <<command, password, step, exit, events>>

HandleLogin == Handle("login", password, FALSE, <<Reply(password)>>)

(* mutant: only the commands that need rights of their own are refused *)
Gated_Config == ~authorized /\ AuthRequired /\ command.op \in {"setconfig", "getconfig"}

(* handleMessage(): "No Authorization" *)
Gated == ~authorized /\ AuthRequired

HandleRefused == Gated /\ Handle("command", authorized, FALSE, <<Reply(FALSE)>>)

HandleMessage ==
  /\ ~Gated
  /\ Handle("command", authorized, command.changes,
            IF command.result = "none" THEN <<>> ELSE <<Reply(command.result = "success")>>)

Told(line) ==
  /\ step \notin {"connect", "done"} /\ events < MaxEvents
  /\ toClient' = Append(toClient, line)
  /\ events' = events + 1
  /\ UNCHANGED <<command, password, step, toServer, authorized, carriedOut, exit>>

(* doPluginAction(): P_STARTED, P_STOPPED and P_ERROR, to everybody *)
DoPluginAction == Told(Event(TRUE))

(* handlePendingTokenRequest() *)
PendingTokenRequest == authorized /\ Told(Event(FALSE))

RemoteNext ==
  \/ \E ok \in BOOLEAN : ConnectToServer(ok)
  \/ SendLogin \/ SendCommand \/ ReadTimeout
  \/ \E n \in 1 .. 2 + MaxEvents : ReadReply(n)
  \/ HandleLogin \/ HandleRefused \/ HandleMessage
  \/ DoPluginAction \/ PendingTokenRequest

RemoteSpec == RemoteInit /\ [][RemoteNext]_remoteVars

-----------------------------------------------------------------------------
(* While nobody else has a say in the session the exit of hyperion-remote  *)
(* tells what happened: success means that the command was executed as it  *)
(* can be, and a refusal that it never is, also when the server works late *)
(* (sendMessage(), parseReply()).  Without rights nothing is executed,     *)
(* whatever the client takes for the answer to its login (handleMessage()).*)
ExitTells ==
  /\ exit = "success" /\ events = 0 => command.result = "success" /\ (carriedOut <=> command.changes)
  /\ exit = "refused" /\ events = 0 => ~carriedOut
  /\ carriedOut /\ AuthRequired => password

=============================================================================
