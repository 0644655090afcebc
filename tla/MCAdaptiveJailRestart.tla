----------------------- MODULE MCAdaptiveJailRestart -----------------------
(* AdaptiveJailRestart with the definitions of MCAdaptiveJail for its       *)
(* constants.                                                               *)
EXTENDS AdaptiveJailRestart, MCAdaptiveJail
=============================================================================
