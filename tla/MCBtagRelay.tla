---------------------------- MODULE MCBtagRelay ----------------------------
(* TLC instances of BtagRelay. *)
EXTENDS BtagRelay
=============================================================================
