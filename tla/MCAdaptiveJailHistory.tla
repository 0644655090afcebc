----------------------- MODULE MCAdaptiveJailHistory -----------------------
(* AdaptiveJailHistory with the definitions of MCAdaptiveJail for its       *)
(* constants.                                                               *)
EXTENDS AdaptiveJailHistory, MCAdaptiveJail
=============================================================================
