------------------------- MODULE MCProviderManager -------------------------
(* An instance of ProviderManager for TLC. *)
EXTENDS ProviderManager
=============================================================================
