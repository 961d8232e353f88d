------------------------ MODULE MCProviderConnection ------------------------
(* Two handlers, two authorizations, for each provider in turn.              *)
EXTENDS ProviderConnection

CONSTANTS h1, h2
=============================================================================
