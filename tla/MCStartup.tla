----------------------------- MODULE MCStartup ------------------------------
(***************************************************************************)
(* Startup with two registries.                                             *)
(***************************************************************************)
EXTENDS Startup

TwoRegistries == <<"registry1", "registry2">>
=============================================================================
