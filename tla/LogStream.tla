------------------------------ MODULE LogStream ------------------------------
(***************************************************************************)
(* Streaming the log to a JSON client: Logger::Message() and the           *)
(* LoggerManager with its buffer (libsrc/utils/Logger.cpp), and the        *)
(* logging command (libsrc/api/JsonAPI.cpp).  The stream counts as active  *)
(* only when its first message arrives, which start provokes with a        *)
(* message of the level debug.                                             *)
(*   logDebug   the level lets debug messages pass                         *)
(*   logBuffer  LoggerManager::_logMessageBuffer, messages by number       *)
(*   logCount   messages so far                                            *)
(*   logSlots   connections of newLogMessage to incommingLogMessage()      *)
(*   logActive  _streaming_logging_activated                               *)
(*   logGot     what the client was sent since it last started the stream  *)
(***************************************************************************)
EXTENDS Integers, SequencesExt

CONSTANTS
  LogBufferSize,  \* _loggerMaxMsgBufferSize, 200
  MaxMessages     \* bound on logCount

ASSUME LogAssumption == LogBufferSize \in Nat \ {0} /\ MaxMessages \in Nat

VARIABLES logDebug, logBuffer, logCount, logSlots, logActive, logGot

logVars == <<logDebug, logBuffer, logCount, logSlots, logActive, logGot>>

LogInit ==
  /\ logDebug \in BOOLEAN
  /\ logBuffer = <<>> /\ logGot = <<>>
  /\ logCount = 0 /\ logSlots = 0
  /\ logActive = FALSE

-----------------------------------------------------------------------------
(* handleNewLogMessage(): the buffer with the message *)
Buffered(msg) ==
  LET b == Append(logBuffer, msg)
  IN  IF Len(b) > LogBufferSize THEN Tail(b) ELSE b

(* incommingLogMessage() of each connection: the first one sends the buffer *)
Incoming(active, slots, msg) ==
  IF slots = 0 THEN <<>>
  ELSE IF active THEN [i \in 1 .. slots |-> msg]
  ELSE Buffered(msg) \o [i \in 1 .. slots - 1 |-> msg]

(* Message() that passes the level, while the stream is as given *)
Emit(active, slots, got) ==
  LET msg == logCount + 1
  IN  /\ logCount < MaxMessages
      /\ logCount' = msg
      /\ logBuffer' = Buffered(msg)
      /\ logGot' = got \o Incoming(active, slots, msg)
      /\ logSlots' = slots
      /\ logActive' = (active \/ slots > 0)

(* a message of the program *)
Message ==
  /\ Emit(logActive, logSlots, logGot)
  /\ UNCHANGED logDebug

(* logging start (logSlots < 2 is a bound) *)
StartLogging ==
  /\ ~logActive
  /\ logSlots < 2
  /\ IF logDebug THEN Emit(FALSE, logSlots + 1, <<>>)
     ELSE /\ logSlots' = logSlots + 1 /\ logGot' = <<>>
          /\ UNCHANGED <<logBuffer, logCount, logActive>>
  /\ UNCHANGED logDebug

(* logging stop *)
StopLogging ==
  /\ logActive
  /\ IF logDebug THEN Emit(FALSE, 0, <<>>)
     ELSE /\ logSlots' = 0 /\ logGot' = <<>> /\ logActive' = FALSE
          /\ UNCHANGED <<logBuffer, logCount>>
  /\ UNCHANGED logDebug

LogNext == Message \/ StartLogging \/ StopLogging

-----------------------------------------------------------------------------
(* With debug messages on, a streaming client gets the buffer and then each *)
(* message once and in order, none missing; without them this is so only if *)
(* it starts once before the first message (JsonAPI.cpp,                    *)
(* handleLoggingCommand() and incommingLogMessage()).                       *)
StreamComplete ==
  /\ logActive /\ (logDebug \/ logSlots = 1) =>
       \A i \in DOMAIN logGot : logGot[i] = logCount - Len(logGot) + i
  /\ logActive => logGot # <<>>
  /\ logDebug => logSlots = IF logActive THEN 1 ELSE 0
=============================================================================
