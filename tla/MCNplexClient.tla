---------------------------- MODULE MCNplexClient ----------------------------
(***************************************************************************)
(* Instances of NplexClient for TLC.                                       *)
(***************************************************************************)
EXTENDS NplexClient

CONSTANTS A, B

OneServerOnly == <<A>>
TwoServers == <<A, B>>
=============================================================================
