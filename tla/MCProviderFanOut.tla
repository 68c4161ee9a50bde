-------------------------- MODULE MCProviderFanOut --------------------------
(***************************************************************************)
(* Instances of ProviderFanOut for TLC.                                    *)
(***************************************************************************)
EXTENDS ProviderFanOut

TwoKinds == <<"artist", "release">>
=============================================================================
