--------------------------- MODULE MCRootElection ---------------------------
(* TLC instances of RootElection. *)
EXTENDS RootElection

(* Everybody hears everybody. *)
Clique == [m \in Mote |-> Mote \ {m}]

(* 1 - 2 - 3: the motes at the ends do not hear each other. *)
Line == [m \in Mote |-> {n \in Mote : n = m + 1 \/ m = n + 1}]
=============================================================================
