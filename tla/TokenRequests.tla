---------------------------- MODULE TokenRequests ----------------------------
(***************************************************************************)
(* The AuthManager (libsrc/hyperion/AuthManager.cpp, include/db/           *)
(* AuthTable.h) and the JSON sessions that use it: a client asks for a     *)
(* token and waits, a session of a user accepts or denies, or the request  *)
(* runs out.  One handler at a time, all on the main thread.               *)
(*   sessions   per address of a JsonAPI object: its rights                *)
(*   pending    AuthManager::_pendingRequests; left is the time until      *)
(*              timeoutTime                                                *)
(*   authTimer  time until AuthManager::_timer fires, -1 when it is off    *)
(*   tokens     the ids of the token records of the auth table             *)
(*   waiting    history: what a session asked for and was not answered     *)
(***************************************************************************)
EXTENDS Integers, FiniteSets, Functions

CONSTANTS
  Sessions,     \* addresses of JsonAPI objects; a new one may get an old address
  RequestIds,   \* ids that clients choose
  RandomIds,    \* ids that createToken() draws, taken to be fresh
  RequestTime,  \* the 60 s of a request, in ticks
  AuthInterval  \* the 1 s of the timer, in ticks

ASSUME AuthTimesAssumption == RequestTime \in Nat /\ AuthInterval \in Nat
ASSUME AuthIdsAssumption   == RequestIds \intersect RandomIds = {}

VARIABLES sessions, pending, authTimer, tokens, waiting

authVars == <<sessions, pending, authTimer, tokens, waiting>>

Closed  == [up |-> FALSE, authorized |-> FALSE, user |-> FALSE]
Users   == {s \in Sessions : sessions[s].user}
Open(s) == sessions[s].up

(* callers are addresses; the request stays when its caller is deleted *)
Request(s) == [caller |-> s, left |-> RequestTime]

AuthInit ==
  /\ sessions  = [s \in Sessions |-> Closed]
  /\ pending   = [i \in {} |-> Request(i)]
  /\ authTimer = -1
  /\ tokens    = {}
  /\ waiting   = [s \in Sessions |-> {}]

-----------------------------------------------------------------------------
(* tokenResponse for the requests ids: each JsonAPI that is the caller of one sends it *)
TokenResponse(ids) ==
  waiting' = [s \in Sessions |-> waiting[s] \ {i \in ids : pending[i].caller = s}]

Take(ids) == pending' = Restrict(pending, DOMAIN pending \ ids)

(* AuthTable::createToken(): an id that exists is replaced *)
StoreToken(id) ==
  \E new \in IF id \in tokens THEN RandomIds \ tokens ELSE {id} : tokens' = tokens \union {new}

-----------------------------------------------------------------------------
Connect(s) ==
  /\ ~Open(s)
  /\ sessions' = [sessions EXCEPT ![s].up = TRUE]
  /\ UNCHANGED <<pending, authTimer, tokens, waiting>>

Disconnect(s) ==
  /\ Open(s)
  /\ sessions' = [sessions EXCEPT ![s] = Closed]
  /\ waiting' = [waiting EXCEPT ![s] = {}]
  /\ UNCHANGED <<pending, authTimer, tokens>>

(* login with the password of the user; any other password changes nothing *)
LoginUser(s) ==
  /\ Open(s)
  /\ sessions' = [sessions EXCEPT ![s].authorized = TRUE, ![s].user = TRUE]
  /\ UNCHANGED <<pending, authTimer, tokens, waiting>>

LoginToken(s) ==
  /\ Open(s) /\ tokens # {}
  /\ sessions' = [sessions EXCEPT ![s].authorized = TRUE]
  /\ UNCHANGED <<pending, authTimer, tokens, waiting>>

Logout(s) ==
  /\ Open(s)
  /\ sessions' = [sessions EXCEPT ![s].authorized = FALSE, ![s].user = FALSE]
  /\ UNCHANGED <<pending, authTimer, tokens, waiting>>

(* mutant: the last to ask gets the answer *)
SetNewTokenRequest_Last(s, i) ==
  /\ pending' = [j \in DOMAIN pending \union {i} |-> IF j = i THEN Request(s) ELSE pending[j]]
  /\ authTimer' = AuthInterval
  /\ waiting' = [waiting EXCEPT ![s] = @ \union {i}]

(* setNewTokenRequest(): every new id starts the timer again *)
SetNewTokenRequest(s, i) ==
  /\ i \notin DOMAIN pending
  /\ pending' = [j \in DOMAIN pending \union {i} |-> IF j = i THEN Request(s) ELSE pending[j]]
  /\ authTimer' = AuthInterval
  /\ waiting' = [waiting EXCEPT ![s] = @ \union {i}]

(* authorize requestToken; an id that is pending already is ignored, without an answer *)
RequestToken(s, i) ==
  /\ Open(s)
  /\ SetNewTokenRequest(s, i)
  /\ UNCHANGED <<sessions, tokens>>

(* authorize answerRequest and acceptRequest of a session of a user *)
AcceptTokenRequest(i) ==
  /\ Users # {}
  /\ i \in DOMAIN pending
  /\ StoreToken(i)
  /\ TokenResponse({i}) /\ Take({i})
  /\ UNCHANGED <<sessions, authTimer>>

DenyTokenRequest(i) ==
  /\ Users # {}
  /\ i \in DOMAIN pending
  /\ TokenResponse({i}) /\ Take({i})
  /\ UNCHANGED <<sessions, authTimer, tokens>>

CreateToken ==
  /\ Users # {}
  /\ \E i \in RandomIds \ tokens : StoreToken(i)
  /\ UNCHANGED <<sessions, pending, authTimer, waiting>>

DeleteToken(i) ==
  /\ Users # {}
  /\ i \in tokens
  /\ tokens' = tokens \ {i}
  /\ UNCHANGED <<sessions, pending, authTimer, waiting>>

-----------------------------------------------------------------------------
Due == {i \in DOMAIN pending : pending[i].left = 0}

(* checkTimeout() *)
CheckTimeout ==
  /\ authTimer = 0
  /\ TokenResponse(Due) /\ Take(Due)
  /\ authTimer' = IF DOMAIN pending = Due THEN -1 ELSE AuthInterval
  /\ UNCHANGED <<sessions, tokens>>

(* time passes; checkTimeout() may come late *)
AuthTick ==
  /\ authTimer > 0 \/ \E i \in DOMAIN pending : pending[i].left > 0
  /\ pending' = [i \in DOMAIN pending |->
                   [pending[i] EXCEPT !.left = IF @ > 0 THEN @ - 1 ELSE 0]]
  /\ authTimer' = IF authTimer > 0 THEN authTimer - 1 ELSE authTimer
  /\ UNCHANGED <<sessions, tokens, waiting>>

AuthNext ==
  \/ \E s \in Sessions : \/ Connect(s) \/ Disconnect(s)
                         \/ LoginUser(s) \/ LoginToken(s) \/ Logout(s)
                         \/ \E i \in RequestIds : RequestToken(s, i)
  \/ \E i \in RequestIds : AcceptTokenRequest(i) \/ DenyTokenRequest(i)
  \/ CreateToken
  \/ \E i \in RequestIds \union RandomIds : DeleteToken(i)
  \/ CheckTimeout
  \/ AuthTick

AuthFairness == WF_authVars(CheckTimeout) /\ WF_authVars(AuthTick)

AuthSpec == AuthInit /\ [][AuthNext]_authVars

-----------------------------------------------------------------------------
(* Type of the state; the rights of a user include those of a token, and a  *)
(* session that is closed has none (JsonAPI.cpp, login and logout).         *)
AuthTypeOK ==
  /\ sessions \in [Sessions -> [up : BOOLEAN, authorized : BOOLEAN, user : BOOLEAN]]
  /\ \A s \in Sessions : /\ sessions[s].user => sessions[s].authorized
                         /\ sessions[s].authorized => sessions[s].up
  /\ DOMAIN pending \subseteq RequestIds
  /\ \A i \in DOMAIN pending : pending[i] \in [caller : Sessions, left : 0 .. RequestTime]
  /\ authTimer \in -1 .. AuthInterval
  /\ tokens \subseteq RequestIds \union RandomIds
  /\ waiting \in [Sessions -> SUBSET RequestIds]

(* A session that asked and is still there is the caller of a request that  *)
(* is pending: nothing takes a request away, or hands it to another caller, *)
(* without the answer for which the client waits (setNewTokenRequest(),     *)
(* tokenResponse).                                                          *)
AskerRemembered ==
  \A s \in Sessions : \A i \in waiting[s] : i \in DOMAIN pending /\ pending[i].caller = s

(* While a request is pending the timer runs that will find it over:        *)
(* checkTimeout() stops it only when it leaves nothing behind.              *)
RequestsWatched == DOMAIN pending # {} => authTimer # -1

(* Nobody who waits is forgotten: the asker is known as long as its request *)
(* is pending, and the timer that ends it runs (AuthManager.cpp).           *)
RequestsKept == AskerRemembered /\ RequestsWatched

(* Every request is settled, by a user or by its timeout, once clients stop *)
(* to send new ones; each new one starts the interval of the timer again.   *)
RequestSettled ==
  <>[][\A s \in Sessions, i \in RequestIds : ~RequestToken(s, i)]_authVars
    => \A i \in RequestIds : i \in DOMAIN pending ~> i \notin DOMAIN pending
=============================================================================
