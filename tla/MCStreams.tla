----------------------------- MODULE MCStreams ------------------------------
(***************************************************************************)
(* Streams with headers of two bytes and payloads of two.                   *)
(***************************************************************************)
EXTENDS Streams
=============================================================================
