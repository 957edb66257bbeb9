------------------------------ MODULE TagBuffer ------------------------------
(***************************************************************************)
(* The record buffer of one building tag mote, BuildingTagC.nc: the ring   *)
(* btagloc_table with its two indices, the timers that fill and drain it   *)
(* and the messages that touch it.  Every handler runs as one TinyOS task, *)
(* so a handler is one atomic action.                                      *)
(*                                                                         *)
(* The counters the same handlers keep for the sink election (beacons,     *)
(* cars, score) are in SinkElection; here the outcome of that election is  *)
(* the flag is_sink (sink_id == TOS_NODE_ID), which may flip at any time.  *)
(***************************************************************************)
EXTENDS Naturals, Sequences

CONSTANTS
  MAX_BUFFER,   \* number of cells of btagloc_table (10 in the code)
  Record,       \* the contents of a btagloc_t
  NoRecord,     \* a cell that was never written
  NoDatagram    \* nothing sent yet

ASSUME MaxBufferAssumption == MAX_BUFFER \in Nat /\ MAX_BUFFER >= 2
ASSUME NoRecordAssumption == NoRecord \notin Record

VARIABLES
  btagloc_table,   \* the cells
  btag_table_in,   \* the cell the next record is written to
  btag_table_out,  \* the cell the next record is sent from
  send_timer,      \* SendTimer is running
  is_sink,         \* sink_id == TOS_NODE_ID
  datagram,        \* the datagram handed to BtagDataUDP.sendto last
  unsent,          \* history: cells whose record has not been sent
  handled          \* history: the handler that ran last

buffervars == <<btagloc_table, btag_table_in, btag_table_out, send_timer,
                is_sink, datagram, unsent, handled>>

Cell == 0 .. MAX_BUFFER - 1
Destination == {"vehicle", "sink"}
Datagram == [to : Destination, rec : Record \cup {NoRecord}]
Handler == {"boot", "data", "recv", "send", "beacon", "election"}

BufferTypeOK ==
  /\ btagloc_table \in [Cell -> Record \cup {NoRecord}]
  /\ btag_table_in \in Cell
  /\ btag_table_out \in Cell
  /\ send_timer \in BOOLEAN
  /\ is_sink \in BOOLEAN
  /\ datagram \in Datagram \cup {NoDatagram}
  /\ unsent \subseteq Cell
  /\ handled \in Handler

-----------------------------------------------------------------------------
(* Boot.booted and SplitControl.startDone: every mote starts as its own    *)
(* sink, with an empty table and no send pending.                          *)
BufferInit ==
  /\ btagloc_table = [c \in Cell |-> NoRecord]
  /\ btag_table_in = 0
  /\ btag_table_out = 0
  /\ send_timer = FALSE
  /\ is_sink = TRUE
  /\ datagram = NoDatagram
  /\ unsent = {}
  /\ handled = "boot"

(* The definitions named ..._<what changed> are faulty variants of the      *)
(* definition that follows them.  No action uses them: they serve to see    *)
(* that a property notices the fault.                                       *)
After_NoWrap(c) == c + 1

(* The cell after c, round the ring. *)
After(c) == (c + 1) % MAX_BUFFER

StoreRecord_AdvanceFirst(r) ==
  /\ btag_table_in' = After(btag_table_in)
  /\ btagloc_table' = [btagloc_table EXCEPT ![After(btag_table_in)] = r]
  /\ unsent' = unsent \cup {After(btag_table_in)}

(* The atomic block of a store.  The code never compares the two indices:  *)
(* a store into a full ring goes ahead.                                    *)
StoreRecord(r) ==
  /\ btagloc_table' = [btagloc_table EXCEPT ![btag_table_in] = r]
  /\ btag_table_in' = After(btag_table_in)
  /\ unsent' = unsent \cup {btag_table_in}

(* The test "is there something to send" of the handlers. *)
Pending == btag_table_in # btag_table_out

DataTimerFired_NoStart(r) ==
  /\ StoreRecord(r)
  /\ handled' = "data"
  /\ UNCHANGED <<btag_table_out, send_timer, is_sink, datagram>>

(* DataTimer.fired: store the mote's own record; a mote that is not the    *)
(* sink starts sending what it holds.                                      *)
DataTimerFired(r) ==
  /\ StoreRecord(r)
  /\ send_timer' = (send_timer \/ (~is_sink /\ btag_table_in' # btag_table_out))
  /\ handled' = "data"
  /\ UNCHANGED <<btag_table_out, is_sink, datagram>>

(* BtagDataUDP.recvfrom: the sink keeps a record of another mote, every    *)
(* other mote drops it, and so does a mote that hears itself.              *)
BtagDataReceived(r, own) ==
  /\ IF is_sink /\ ~own
       THEN StoreRecord(r)
       ELSE UNCHANGED <<btagloc_table, btag_table_in, unsent>>
  /\ handled' = "recv"
  /\ UNCHANGED <<btag_table_out, send_timer, is_sink, datagram>>

(* SendTimer.fired: send the record at btag_table_out, to the vehicle from *)
(* the sink and to the sink from any other mote, advance, and go on while  *)
(* the indices differ.                                                     *)
SendTimerFired ==
  /\ send_timer
  /\ datagram' = [to  |-> IF is_sink THEN "vehicle" ELSE "sink",
                  rec |-> btagloc_table[btag_table_out]]
  /\ btag_table_out' = After(btag_table_out)
  /\ unsent' = unsent \ {btag_table_out}
  /\ send_timer' = (btag_table_in # After(btag_table_out))
  /\ handled' = "send"
  /\ UNCHANGED <<btagloc_table, btag_table_in, is_sink>>

BeaconReceived_EvenIfEmpty ==
  /\ send_timer' = (send_timer \/ is_sink)
  /\ handled' = "beacon"
  /\ UNCHANGED <<btagloc_table, btag_table_in, btag_table_out, is_sink,
                 datagram, unsent>>

(* BeaconRecvUDP.recvfrom: a vehicle is near, the sink starts sending.     *)
BeaconReceived ==
  /\ send_timer' = (send_timer \/ (is_sink /\ Pending))
  /\ handled' = "beacon"
  /\ UNCHANGED <<btagloc_table, btag_table_in, btag_table_out, is_sink,
                 datagram, unsent>>

(* ElectionTimer.fired and ElectionUDP.recvfrom assign sink_id; they leave *)
(* the ring and a running SendTimer alone.                                 *)
SinkElected ==
  /\ is_sink' = ~is_sink
  /\ handled' = "election"
  /\ UNCHANGED <<btagloc_table, btag_table_in, btag_table_out, send_timer,
                 datagram, unsent>>

BufferNext ==
  \/ \E r \in Record : DataTimerFired(r)
  \/ \E r \in Record, own \in BOOLEAN : BtagDataReceived(r, own)
  \/ SendTimerFired
  \/ BeaconReceived
  \/ SinkElected

BufferSpec == BufferInit /\ [][BufferNext]_buffervars

(* DataTimer restarts itself and a SendTimer that runs fires: TinyOS       *)
(* one-shot timers are never lost.  Nothing makes a vehicle come by or     *)
(* another mote send.                                                      *)
FairBufferSpec ==
  /\ BufferSpec
  /\ WF_buffervars(\E r \in Record : DataTimerFired(r))
  /\ WF_buffervars(SendTimerFired)

-----------------------------------------------------------------------------
(* The number of records the handlers will still send: indices that meet   *)
(* mean a full ring while SendTimer runs, an empty one otherwise.          *)
Length ==
  IF Pending THEN (btag_table_in + MAX_BUFFER - btag_table_out) % MAX_BUFFER
  ELSE IF send_timer THEN MAX_BUFFER ELSE 0

Contents ==
  [k \in 1 .. Length |->
     btagloc_table[(btag_table_out + k - 1) % MAX_BUFFER]]

(* Records are sent in the order they were stored, each at most once, and  *)
(* records are forgotten only when a store finds the ring full: the two    *)
(* unchecked indices of DataTimer.fired, BtagDataUDP.recvfrom and          *)
(* SendTimer.fired implement the queue of TagQueue.                        *)
Queue == INSTANCE TagQueue WITH
           Capacity <- MAX_BUFFER, queue <- Contents, wire <- datagram

ImplementsQueue == Queue!Spec

(* SendTimer.fired does not look whether there is anything to send: it is  *)
(* right only because the timer runs only while the cell at btag_table_out *)
(* holds a record that was never sent, however the indices have wrapped.   *)
NoStaleSend == send_timer => btag_table_out \in unsent

(* The cells from btag_table_out up to, not including, btag_table_in,      *)
(* round the ring.                                                         *)
Between(c) ==
  IF btag_table_out <= btag_table_in
    THEN btag_table_out <= c /\ c < btag_table_in
    ELSE btag_table_out <= c \/ c < btag_table_in

(* The strengthening that makes NoStaleSend inductive: every cell the      *)
(* handlers will send before the indices meet is unsent, and indices that  *)
(* meet while SendTimer runs have met from behind, round a full ring.      *)
FreshInv ==
  /\ \A c \in Cell : Between(c) => c \in unsent
  /\ send_timer /\ ~Pending => unsent = Cell

(* A mote that stays away from the sink role never stops handing records   *)
(* to its sink, whatever overrun its ring suffered while it was the sink.  *)
NonSinkKeepsSending ==
  <>[](~is_sink) => []<><<SendTimerFired>>_buffervars

(* "also send data to car right now", says line 719 of the beacon handler: *)
(* once the sink has handled a beacon, it is sending if it holds records   *)
(* that were not sent.  It does not when the ring is exactly full.         *)
BeaconStartsSending ==
  handled = "beacon" /\ is_sink /\ unsent # {} => send_timer
=============================================================================
