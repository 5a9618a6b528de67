--------------------------- MODULE MCPriorityMuxer ---------------------------
(* Values for the constants of PriorityMuxer.tla (see the .cfg files). *)
EXTENDS PriorityMuxer

(* an ordinary source and the background effect *)
MCPriorities == {7, 254}

(* inactive, below -1 (mute), endless, timed *)
MCTimeouts == {-100, -5, -1, 1}

(* one of each kind that an update treats differently, with 0 (endless, but *)
(* counted down for clients) as the endless one                            *)
MCFewTimeouts == {-100, 0, 1}
=============================================================================
