--------------------------- MODULE MCBtagProgram ---------------------------
(* TLC instances of BtagProgram. *)
EXTENDS BtagProgram

(* Two vehicles whose bridges hear each other.  The bridge of vehicle 10,  *)
(* the last on the list of the routers, hears tag 1; tag 2 is out of reach *)
(* of both.                                                                *)
TwoBridges == [v \in Vehicle |->
  IF v = 10 THEN {1, BridgeId(9)} ELSE {BridgeId(10)}]
TwoRoutes == [m \in Mote |-> Mote \ {m}]
=============================================================================
