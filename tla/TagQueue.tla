------------------------------- MODULE TagQueue -------------------------------
(***************************************************************************)
(* What the record buffer of a building tag (BuildingTagC.nc) promises to  *)
(* its users: a queue of at most Capacity records that are sent in the     *)
(* order they were stored, each at most once.  A queue that is overrun     *)
(* does not lose one record: it forgets everything it holds.  TagBuffer    *)
(* implements this specification.                                          *)
(***************************************************************************)
EXTENDS Naturals, Sequences

CONSTANTS
  Capacity,    \* the number of records the buffer has room for
  Record,      \* the records a mote generates or collects
  Destination, \* who a record is sent to
  NoDatagram   \* nothing has been sent yet

VARIABLES
  queue,       \* the records still to send, oldest first
  wire         \* the datagram sent last

vars == <<queue, wire>>

Init ==
  /\ queue = <<>>
  /\ wire = NoDatagram

(* A record is stored in a queue that has room for it. *)
Store(r) ==
  /\ Len(queue) < Capacity
  /\ queue' = Append(queue, r)
  /\ UNCHANGED wire

(* The record that fills an idle queue empties it; the record that comes   *)
(* after a full queue replaces all it held.                                *)
Overrun(r) ==
  /\ \/ Len(queue) = Capacity - 1 /\ queue' = <<>>
     \/ Len(queue) = Capacity /\ queue' = <<r>>
  /\ UNCHANGED wire

(* The oldest record leaves the queue for good. *)
Send(d) ==
  /\ queue # <<>>
  /\ wire' = [to |-> d, rec |-> Head(queue)]
  /\ queue' = Tail(queue)

Next ==
  \/ \E r \in Record : Store(r) \/ Overrun(r)
  \/ \E d \in Destination : Send(d)

Spec == Init /\ [][Next]_vars
=============================================================================
