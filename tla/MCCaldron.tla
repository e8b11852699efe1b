----------------------------- MODULE MCCaldron -----------------------------
(***************************************************************************)
(* Caldron on the instance of its configuration.                           *)
(***************************************************************************)
EXTENDS Caldron
=============================================================================
