----------------------------- MODULE MCTagBuffer -----------------------------
(* TLC instance of TagBuffer: the ring is scaled down to 3 or 4 cells.  No  *)
(* handler looks at the size except through After, and both ways the       *)
(* indices can meet (ring empty, ring full) occur from 2 cells on.         *)
EXTENDS TagBuffer
=============================================================================
