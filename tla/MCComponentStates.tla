-------------------------- MODULE MCComponentStates --------------------------
(***************************************************************************)
(* Who keeps which channel of the muxer: the components and the captures,  *)
(* and the clients of the servers.  A behaviour runs one of the two, part, *)
(* and the other stays in an initial state.                                *)
(***************************************************************************)
EXTENDS ComponentStates, ChannelClients

VARIABLE part

MCVars == <<part, vars, chanVars>>

(* v4lPriority and systemPriority, which settings may swap or make equal *)
MCPriorities == {240, 250}
MCComponents == {"COLOR", "GRABBER", "V4L"}
MCTimeouts == {-1}

(* of the clients: -254 is 2 as a byte *)
MCClientPriorities == {1, -254}

MCInit ==
  \/ part = "components" /\ Init /\ ChanInit /\ server = [listening |-> TRUE, priority |-> 1]
  \/ part = "clients"    /\ Init /\ ChanInit /\ prio["V4L"] = 240 /\ prio["GRABBER"] = 250

MCNext ==
  \/ part = "components" /\ Next     /\ UNCHANGED <<part, chanVars>>
  \/ part = "clients"    /\ ChanNext /\ UNCHANGED <<part, vars>>

MCSpec == MCInit /\ [][MCNext]_MCVars
=============================================================================
