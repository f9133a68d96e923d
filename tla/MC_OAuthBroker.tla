--------------------------- MODULE MC_OAuthBroker ---------------------------
(* OAuthBroker for TLC.                                                     *)
EXTENDS OAuthBroker
=============================================================================
