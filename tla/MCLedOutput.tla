----------------------------- MODULE MCLedOutput -----------------------------
(* Values for the constants of LedOutput.tla (see the .cfg files). *)
EXTENDS LedOutput

(* one frame besides black *)
MCPictures == {1}

(* a delay, and a smoothing that settles between two updates *)
MCSettings ==
  {[interval |-> 40, delay |-> 1, short |-> FALSE, continuous |-> FALSE],
   [interval |-> 50, delay |-> 0, short |-> TRUE,  continuous |-> TRUE]}

(* continuous output is off; the interval differs from that of MCCustoms or not *)
MCSameInterval == {[interval |-> 40, delay |-> 0, short |-> FALSE, continuous |-> FALSE]}
MCOneSetting == {[interval |-> 50, delay |-> 0, short |-> FALSE, continuous |-> FALSE]}

(* what addSmoothingConfig(true) makes: 1 ms at 25 Hz *)
MCCustoms == <<[interval |-> 40, delay |-> 0, short |-> TRUE]>>

MCEither == {TRUE, FALSE}
MCNever == {FALSE}
=============================================================================
