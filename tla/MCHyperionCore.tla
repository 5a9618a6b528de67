---------------------------- MODULE MCHyperionCore ----------------------------
(* Values for the constants of HyperionCore.tla (see the .cfg files). *)
EXTENDS HyperionCore

(* frames: 0 none, 1..4 of the effect with that id, 9 of a client *)
MCFrames == {0, 1, 2, 3, 4, 9}

MCEndless == {-1}
MCTimed == {1}
MCTimeouts == {-1, 1}
=============================================================================
