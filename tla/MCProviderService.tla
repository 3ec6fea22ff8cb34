-------------------------- MODULE MCProviderService --------------------------
(* ProviderService with model values.                                      *)
EXTENDS ProviderService
=============================================================================
