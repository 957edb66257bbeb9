--------------------------- MODULE MCSinkElection ---------------------------
(* TLC instances of SinkElection. *)
EXTENDS SinkElection

ShortTable == << [valid |-> TRUE, node |-> 1] >>

(* An entry that is no longer valid sits between two that are. *)
LongTable == << [valid |-> TRUE, node |-> 1], [valid |-> FALSE, node |-> 1],
                [valid |-> TRUE, node |-> 3] >>

(* How many elections each mote runs before it restarts. *)
Once == [m \in Mote |-> 1]
Thrice == [m \in Mote |-> 3]
TwiceMote3 == << 1, 0, 2 >>
=============================================================================
