--------------------------- MODULE ServiceBrowser ---------------------------
(***************************************************************************)
(* Other instances on the network: BonjourServiceBrowser lists them,       *)
(* BonjourBrowserWrapper keeps them as sessions and has them resolved by   *)
(* BonjourServiceResolver, one after another.  A service is a number, in   *)
(* the order of the names; its host and its port are its number too.       *)
(***************************************************************************)
EXTENDS Integers, Sequences, FiniteSets

CONSTANTS Instances,      \* 1 .. n
          MaxBrowses,     \* bound on replies to the browse request
          MaxRepeats      \* bound on repeated answers: an interface each may answer

ASSUME BrowserAssumption == Instances \subseteq Nat \ {0} /\ MaxBrowses \in Nat /\ MaxRepeats \in Nat

NoService == 0
UNRESOLVED == [host |-> NoService, port |-> -1]

VARIABLES records,        \* bonjourRecords
          hyperionSessions, \* _hyperionSessions: name -> [host, port]
          current,        \* _bonjourCurrentServiceToResolve
          question,       \* what dnssref asks for, or NoService
          bonjourPort,    \* of the resolver
          lookups,        \* host names being looked up, in order
          cleanup,        \* a call of cleanupResolve() is queued: it runs before
                          \* the next timer or socket
          browses, answered, repeats

browseVars == <<records, hyperionSessions, current, question, bonjourPort, lookups, cleanup, browses, answered, repeats>>
resolverVars == <<question, bonjourPort, lookups, cleanup, answered, repeats>>

Unresolved == {n \in DOMAIN hyperionSessions : hyperionSessions[n].port < 0}
Least(S) == CHOOSE n \in S : \A m \in S : n <= m

BrowseInit ==
  /\ records = {} /\ hyperionSessions = <<>>
  /\ current = NoService /\ question = NoService /\ bonjourPort = -1
  /\ lookups = <<>> /\ cleanup = FALSE
  /\ browses = 0 /\ answered = FALSE /\ repeats = 0

(* bonjourBrowseReply(): the list is passed on with the last of a series,  *)
(* and currentBonjourRecordsChanged() lists it anew                        *)
BrowseReply(n, add, moreComing) ==
  /\ ~cleanup /\ browses < MaxBrowses /\ browses' = browses + 1
  /\ records' = IF add THEN records \cup {n} ELSE records \ {n}
  /\ hyperionSessions' = IF moreComing THEN hyperionSessions ELSE [m \in records' |-> UNRESOLVED]
  /\ UNCHANGED <<current, resolverVars>>

(* bonjourResolve(), each second.  The resolver refuses a second question, *)
(* but current is another one by then                                      *)
ResolveTimer ==
  /\ ~cleanup /\ Unresolved # {}
  /\ current' = Least(Unresolved)
  /\ question' = IF question = NoService THEN current' ELSE question
  /\ answered' = (question # NoService /\ answered)
  /\ UNCHANGED <<records, hyperionSessions, bonjourPort, lookups, cleanup, browses, repeats>>

(* bonjourResolveReply(), once per interface *)
ResolveReply ==
  /\ ~cleanup /\ question # NoService /\ answered' = TRUE
  /\ repeats' = IF answered THEN repeats + 1 ELSE repeats
  /\ repeats' <= MaxRepeats
  /\ bonjourPort' = question
  /\ lookups' = Append(lookups, question)
  /\ UNCHANGED <<records, hyperionSessions, current, question, cleanup, browses>>

(* finishConnect() and bonjourRecordResolved() *)
FinishConnect ==
  /\ lookups # <<>>
  /\ hyperionSessions' = IF current \in DOMAIN hyperionSessions THEN [hyperionSessions EXCEPT ![current] = [host |-> Head(lookups), port |-> bonjourPort]] ELSE hyperionSessions
  /\ lookups' = Tail(lookups)
  /\ cleanup' = TRUE
  /\ UNCHANGED <<records, current, question, bonjourPort, browses, answered, repeats>>

Released == NoService

(* cleanupResolve(), queued *)
CleanupResolve ==
  /\ cleanup /\ cleanup' = FALSE
  /\ question' = Released
  /\ bonjourPort' = IF question = NoService THEN bonjourPort ELSE -1
  /\ UNCHANGED <<records, hyperionSessions, current, lookups, browses, answered, repeats>>

BrowseNext ==
  \/ \E n \in Instances, add \in BOOLEAN, more \in BOOLEAN : BrowseReply(n, add, more)
  \/ ResolveTimer \/ ResolveReply \/ FinishConnect \/ CleanupResolve

(* the timer runs, the event loop too, and each question is answered *)
BrowseFairness ==
  /\ WF_browseVars(ResolveTimer) /\ WF_browseVars(FinishConnect) /\ WF_browseVars(CleanupResolve)
  /\ SF_browseVars(~answered /\ ResolveReply)
-----------------------------------------------------------------------------
(* Every session of the network is resolved in the end, one after another, *)
(* with late answers and with names that come and go (bonjourResolve()).   *)
SessionsResolve == []<>(Unresolved = {})
=============================================================================
