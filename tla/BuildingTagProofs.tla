--------------------------- MODULE BuildingTagProofs ---------------------------
(***************************************************************************)
(* Proofs about the building tag: about RootElection, for every set of     *)
(* motes, every topology and every loss, delay and reordering of           *)
(* announcements, and after it about TagBuffer, for every number of cells  *)
(* and every set of records.                                               *)
(***************************************************************************)
EXTENDS RootElection, TagBuffer, SequenceTheorems, TLAPS

(***************************************************************************)
(* The election of the root.                                               *)
(***************************************************************************)

USE DEF Seq16, Announcement

(* What a mote multicasts, and what the air keeps of it, are announcements. *)
LEMMA AirType ==
  ASSUME NEW m \in Mote, NEW root \in Mote, NEW number \in Seq16,
         air \subseteq Announcement, NEW old, old \subseteq air
  PROVE  Carry(old \cup Announcements(m, root, number)) \subseteq Announcement
<1>1. Announcements(m, root, number) \subseteq Announcement
  BY NeighbourAssumption DEF Announcements
<1>2. QED BY <1>1 DEF Carry

(* Counting modulo SEQ_MOD stays in the range of a uint16_t. *)
LEMMA SequenceType == \A n \in Seq16 : (n + 1) % SEQ_MOD \in Seq16
  BY BoundAssumption

(* The timer and the receive handler keep the state of every mote in type. *)
LEMMA TimerType ==
  ASSUME TypeOK, NEW m \in Mote, RootSelectionTimerFired(m)
  PROVE  TypeOK'
<1> USE DEF TypeOK
<1>1. CASE BecomeOrStayRoot(m)
  <2>1. root_sequence' \in [Mote -> Seq16]
    BY <1>1, SequenceType DEF BecomeOrStayRoot
  <2>2. air' \subseteq Announcement
    BY <1>1, AirType DEF BecomeOrStayRoot
  <2>3. silence' \in [Mote -> 0 .. MAX_AGE + 1]
    BY <1>1, BoundAssumption DEF BecomeOrStayRoot
  <2>4. QED BY <1>1, <2>1, <2>2, <2>3 DEF BecomeOrStayRoot
<1>2. CASE AgeRoot(m)
  <2>1. root_age' \in [Mote -> 0 .. MAX_AGE]
    BY <1>2, BoundAssumption DEF AgeRoot
  <2>2. root_sequence' \in [Mote -> Seq16]
    BY <1>2, BoundAssumption DEF AgeRoot
  <2>3. silence' \in [Mote -> 0 .. MAX_AGE + 1]
    BY <1>2, BoundAssumption DEF AgeRoot
  <2>4. rpl_root_addr' \in [Mote -> Mote \cup {NO_ROOT}]
    BY <1>2 DEF AgeRoot
  <2>5. QED BY <1>2, <2>1, <2>2, <2>3, <2>4 DEF AgeRoot
<1>3. QED BY <1>1, <1>2 DEF RootSelectionTimerFired

LEMMA ReceiveType ==
  ASSUME TypeOK, NEW m \in Mote, NEW msg \in air, RootSelectReceived(m, msg)
  PROVE  TypeOK'
<1> USE DEF TypeOK, TakeSequence, Adopt, Consume, Rebroadcast
<1>1. msg \in Announcement
  OBVIOUS
<1>2. root_sequence' \in [Mote -> Seq16]
  BY <1>1 DEF RootSelectReceived
<1>3. Carry((air \ {msg}) \cup Announcements(m, msg.root_id, msg.seq))
        \subseteq Announcement
  BY <1>1, AirType
<1>4. 0 \in 0 .. MAX_AGE /\ 0 \in 0 .. MAX_AGE + 1
  BY BoundAssumption
<1>5. CASE RootYields(m, msg)
  BY <1>1, <1>2, <1>4, <1>5 DEF RootYields
<1>6. CASE RootIgnores(m, msg)
  BY <1>2, <1>6 DEF RootIgnores
<1>7. CASE FirstRoot(m, msg)
  BY <1>1, <1>2, <1>4, <1>7 DEF FirstRoot
<1>8. CASE Impostor(m, msg)
  BY <1>2, <1>8 DEF Impostor
<1>9. CASE KnownRoot(m, msg)
  BY <1>2, <1>3, <1>4, <1>9 DEF KnownRoot
<1>10. CASE BetterRoot(m, msg)
  BY <1>1, <1>2, <1>3, <1>4, <1>10 DEF BetterRoot
<1>11. QED
  BY <1>5, <1>6, <1>7, <1>8, <1>9, <1>10 DEF RootSelectReceived

(* Every variable keeps its type. *)
THEOREM TypeCorrect == Spec => []TypeOK
<1>1. Init => TypeOK
  BY BoundAssumption DEF Init, TypeOK
<1>2. TypeOK /\ [Next]_vars => TypeOK'
  <2> SUFFICES ASSUME TypeOK, [Next]_vars PROVE TypeOK'
    OBVIOUS
  <2>1. ASSUME NEW m \in Mote, RootSelectionTimerFired(m) PROVE TypeOK'
    BY <2>1, TimerType
  <2>2. ASSUME NEW m \in Mote, Receive(m) PROVE TypeOK'
    BY <2>2, ReceiveType DEF Receive
  <2>3. ASSUME NEW m \in Mote, Reboot(m) PROVE TypeOK'
    <3>1. /\ root_age' \in [Mote -> 0 .. MAX_AGE]
          /\ root_sequence' \in [Mote -> Seq16]
          /\ silence' \in [Mote -> 0 .. MAX_AGE + 1]
      BY <2>3, BoundAssumption DEF Reboot, TypeOK
    <3>2. QED BY <2>3, <3>1 DEF Reboot, TypeOK
  <2>4. CASE Lose
    BY <2>4 DEF Lose, Consume, motevars, TypeOK
  <2>5. CASE UNCHANGED vars
    BY <2>5 DEF vars, motevars, TypeOK
  <2>6. QED BY <2>1, <2>2, <2>3, <2>4, <2>5 DEF Next
<1>3. QED BY <1>1, <1>2, PTL DEF Spec

(* A mote runs an RPL tree only while it follows itself. *)
THEOREM TreesOnlyAtRoots == Spec => []TreeOnlyAtRoot
<1>1. Init => TreeOnlyAtRoot
  BY DEF Init, TreeOnlyAtRoot
<1>2. TypeOK /\ TreeOnlyAtRoot /\ [Next]_vars => TreeOnlyAtRoot'
  <2> SUFFICES ASSUME TypeOK, TreeOnlyAtRoot, [Next]_vars
               PROVE  TreeOnlyAtRoot'
    OBVIOUS
  <2> USE DEF TypeOK, TreeOnlyAtRoot
  <2>1. ASSUME NEW m \in Mote, BecomeOrStayRoot(m) PROVE TreeOnlyAtRoot'
    BY <2>1 DEF BecomeOrStayRoot
  <2>2. ASSUME NEW m \in Mote, AgeRoot(m) PROVE TreeOnlyAtRoot'
    BY <2>2 DEF AgeRoot
  <2>3. ASSUME NEW m \in Mote, NEW msg \in air, RootSelectReceived(m, msg)
        PROVE  TreeOnlyAtRoot'
    <3>1. rpl_root_addr[m] # m => ~is_rpl_root[m]
      OBVIOUS
    <3>2. m # NO_ROOT
      BY MoteAssumption
    <3>3. CASE RootYields(m, msg)
      BY <3>3 DEF RootYields, Adopt
    <3>4. CASE RootIgnores(m, msg)
      BY <3>4 DEF RootIgnores
    <3>5. CASE FirstRoot(m, msg)
      BY <3>1, <3>2, <3>5 DEF FirstRoot, Adopt
    <3>6. CASE Impostor(m, msg)
      BY <3>6 DEF Impostor
    <3>7. CASE KnownRoot(m, msg)
      BY <3>7 DEF KnownRoot
    <3>8. CASE BetterRoot(m, msg)
      BY <3>1, <3>8 DEF BetterRoot, Adopt
    <3>9. QED
      BY <2>3, <3>3, <3>4, <3>5, <3>6, <3>7, <3>8 DEF RootSelectReceived
  <2>4. ASSUME NEW m \in Mote, Reboot(m) PROVE TreeOnlyAtRoot'
    BY <2>4 DEF Reboot
  <2>5. CASE Lose
    BY <2>5 DEF Lose, motevars
  <2>6. CASE UNCHANGED vars
    BY <2>6 DEF vars, motevars
  <2>7. QED
    BY <2>1, <2>2, <2>3, <2>4, <2>5, <2>6
       DEF Next, RootSelectionTimerFired, Receive
<1>3. QED BY <1>1, <1>2, TypeCorrect, PTL DEF Spec

(* No message makes a mote leave its root for a worse one. *)
THEOREM RootsOnlyImprove == Spec => NeverWorseRoot
<1> DEFINE Improves == \A m \in Mote : rpl_root_addr'[m] > rpl_root_addr[m]
                                         => rpl_root_addr'[m] = NO_ROOT
<1>1. ASSUME TypeOK, [Next]_vars PROVE Improves \/ UNCHANGED vars
  <2>0. /\ rpl_root_addr \in [Mote -> Mote \cup {NO_ROOT}]
        /\ air \subseteq Announcement
        /\ \A m \in Mote : m \in Nat /\ m < NO_ROOT
        /\ NO_ROOT \in Nat
    BY <1>1, MoteAssumption DEF TypeOK
  <2>1. ASSUME NEW m \in Mote, RootSelectionTimerFired(m) PROVE Improves
    <3>1. CASE BecomeOrStayRoot(m)
      BY <2>0, <3>1 DEF BecomeOrStayRoot
    <3>2. CASE AgeRoot(m)
      BY <2>0, <3>2 DEF AgeRoot
    <3>3. QED BY <2>1, <3>1, <3>2 DEF RootSelectionTimerFired
  <2>2. ASSUME NEW m \in Mote, NEW msg \in air, RootSelectReceived(m, msg)
        PROVE  Improves
    <3>1. msg.root_id \in Mote /\ msg.root_id \in Nat /\ msg.root_id < NO_ROOT
      BY <2>0
    <3>2. CASE \/ RootYields(m, msg) \/ FirstRoot(m, msg) \/ BetterRoot(m, msg)
      <4>1. /\ rpl_root_addr' = [rpl_root_addr EXCEPT ![m] = msg.root_id]
            /\ msg.root_id < rpl_root_addr[m]
        BY <2>0, <3>1, <3>2 DEF RootYields, FirstRoot, BetterRoot, Adopt
      <4>2. QED BY <2>0, <3>1, <4>1
    <3>3. CASE \/ RootIgnores(m, msg) \/ Impostor(m, msg) \/ KnownRoot(m, msg)
      BY <2>0, <3>3 DEF RootIgnores, Impostor, KnownRoot
    <3>4. QED BY <2>2, <3>2, <3>3 DEF RootSelectReceived
  <2>3. ASSUME NEW m \in Mote, Reboot(m) PROVE Improves
    BY <2>0, <2>3 DEF Reboot
  <2>4. CASE Lose
    BY <2>0, <2>4 DEF Lose, motevars
  <2>5. QED BY <1>1, <2>1, <2>2, <2>3, <2>4 DEF Next, Receive
<1>2. QED BY <1>1, TypeCorrect, PTL DEF Spec, NeverWorseRoot

HIDE DEF Seq16, Announcement

(***************************************************************************)
(* The record buffer.                                                      *)
(***************************************************************************)

(* After stays inside the ring, and is plain successor with a wrap. *)
LEMMA AfterCell ==
  ASSUME NEW c \in Cell
  PROVE  /\ After(c) \in Cell
         /\ After(c) = IF c = MAX_BUFFER - 1 THEN 0 ELSE c + 1
<1>1. CASE c = MAX_BUFFER - 1
  BY <1>1, MaxBufferAssumption DEF Cell, After
<1>2. CASE c # MAX_BUFFER - 1
  BY <1>2, MaxBufferAssumption DEF Cell, After
<1>3. QED BY <1>1, <1>2

(* The handlers keep every variable of the mote in its type. *)
THEOREM BufferTypeCorrect == BufferSpec => []BufferTypeOK
<1> USE DEF Handler, Destination, Datagram
<1>1. BufferInit => BufferTypeOK
  <2>1. 0 \in Cell
    BY MaxBufferAssumption DEF Cell
  <2>2. QED BY <2>1 DEF BufferInit, BufferTypeOK
<1>2. BufferTypeOK /\ [BufferNext]_buffervars => BufferTypeOK'
  <2> SUFFICES ASSUME BufferTypeOK, [BufferNext]_buffervars PROVE BufferTypeOK'
    OBVIOUS
  <2> USE AfterCell DEF BufferTypeOK
  <2>1. ASSUME NEW r \in Record, DataTimerFired(r) PROVE BufferTypeOK'
    BY <2>1 DEF DataTimerFired, StoreRecord
  <2>2. ASSUME NEW r \in Record, NEW own \in BOOLEAN, BtagDataReceived(r, own)
        PROVE  BufferTypeOK'
    BY <2>2 DEF BtagDataReceived, StoreRecord
  <2>3. CASE SendTimerFired
    BY <2>3 DEF SendTimerFired
  <2>4. CASE BeaconReceived
    BY <2>4 DEF BeaconReceived
  <2>5. CASE SinkElected
    BY <2>5 DEF SinkElected
  <2>6. CASE UNCHANGED buffervars
    BY <2>6 DEF buffervars
  <2>7. QED BY <2>1, <2>2, <2>3, <2>4, <2>5, <2>6 DEF BufferNext
<1>3. QED BY <1>1, <1>2, PTL DEF BufferSpec

(* One store keeps the cells that are still to be sent unsent, whether it  *)
(* finds the ring empty, filling or full.                                  *)
LEMMA StoreFresh ==
  ASSUME BufferTypeOK, FreshInv, NEW r \in Record, StoreRecord(r),
         UNCHANGED btag_table_out,
         send_timer' => send_timer \/ Pending'
  PROVE  FreshInv'
<1> USE DEF BufferTypeOK, Cell
<1>1. btag_table_in' = IF btag_table_in = MAX_BUFFER - 1
                         THEN 0 ELSE btag_table_in + 1
  BY AfterCell DEF StoreRecord
<1>2. unsent' = unsent \cup {btag_table_in}
  BY DEF StoreRecord
<1>3. ASSUME NEW c \in Cell, Between(c)' PROVE c \in unsent'
  <2>1. CASE c = btag_table_in
    BY <2>1, <1>2
  <2>2. CASE c # btag_table_in
    <3>1. Between(c)
      BY <1>1, <1>3, <2>2, MaxBufferAssumption DEF Between
    <3>2. QED BY <3>1, <1>2 DEF FreshInv
  <2>3. QED BY <2>1, <2>2
<1>4. ASSUME send_timer', ~Pending' PROVE unsent' = Cell
  <2>1. send_timer
    BY <1>4
  <2>2. Pending
    BY <1>1, <1>4, MaxBufferAssumption DEF Pending
  <2>3. ASSUME NEW c \in Cell, c # btag_table_in PROVE Between(c)
    BY <1>1, <1>4, <2>2, <2>3, MaxBufferAssumption DEF Pending, Between
  <2>4. QED BY <1>2, <2>3 DEF FreshInv
<1>5. QED BY <1>3, <1>4 DEF FreshInv

(* SendTimer never sends a record a second time, nor a cell that was never *)
(* written: NoStaleSend for a ring of any size.                            *)
THEOREM NeverStale == BufferSpec => []NoStaleSend
<1>1. BufferInit => FreshInv
  BY MaxBufferAssumption DEF BufferInit, FreshInv, Between, Pending, Cell
<1>2. BufferTypeOK /\ FreshInv /\ [BufferNext]_buffervars => FreshInv'
  <2> SUFFICES ASSUME BufferTypeOK, FreshInv, [BufferNext]_buffervars PROVE FreshInv'
    OBVIOUS
  <2>1. ASSUME NEW r \in Record, DataTimerFired(r) PROVE FreshInv'
    <3>1. send_timer' => send_timer \/ Pending'
      BY <2>1 DEF DataTimerFired, Pending, BufferTypeOK
    <3>2. QED BY <2>1, <3>1, StoreFresh DEF DataTimerFired
  <2>2. ASSUME NEW r \in Record, NEW own \in BOOLEAN, BtagDataReceived(r, own)
        PROVE  FreshInv'
    <3>1. CASE is_sink /\ ~own
      BY <2>2, <3>1, StoreFresh DEF BtagDataReceived
    <3>2. CASE ~(is_sink /\ ~own)
      BY <2>2, <3>2 DEF BtagDataReceived, FreshInv, Between, Pending
    <3>3. QED BY <3>1, <3>2
  <2>3. CASE SendTimerFired
    <3> USE DEF BufferTypeOK, Cell
    <3>1. btag_table_out' = IF btag_table_out = MAX_BUFFER - 1
                              THEN 0 ELSE btag_table_out + 1
      BY <2>3, AfterCell DEF SendTimerFired
    <3>2. unsent' = unsent \ {btag_table_out}
      BY <2>3 DEF SendTimerFired
    <3>3. ~Pending' => ~send_timer'
      BY <2>3 DEF SendTimerFired, Pending
    <3>4. ASSUME NEW c \in Cell, Between(c)' PROVE c \in unsent'
      <4>1. c # btag_table_out
        BY <2>3, <3>1, <3>4, MaxBufferAssumption DEF SendTimerFired, Between
      <4>2. CASE Pending
        <5>1. Between(c)
          BY <2>3, <3>1, <3>4, <4>2, MaxBufferAssumption
             DEF SendTimerFired, Between, Pending
        <5>2. QED BY <5>1, <4>1, <3>2 DEF FreshInv
      <4>3. CASE ~Pending
        BY <2>3, <4>1, <4>3, <3>2 DEF SendTimerFired, FreshInv
      <4>4. QED BY <4>2, <4>3
    <3>5. QED BY <3>3, <3>4 DEF FreshInv
  <2>4. CASE BeaconReceived
    BY <2>4 DEF BeaconReceived, FreshInv, Between, Pending, BufferTypeOK
  <2>5. CASE SinkElected
    BY <2>5 DEF SinkElected, FreshInv, Between, Pending
  <2>6. CASE UNCHANGED buffervars
    BY <2>6 DEF buffervars, FreshInv, Between, Pending
  <2>7. QED BY <2>1, <2>2, <2>3, <2>4, <2>5, <2>6 DEF BufferNext
<1>3. BufferTypeOK /\ FreshInv => NoStaleSend
  BY MaxBufferAssumption DEF BufferTypeOK, FreshInv, NoStaleSend, Between, Pending, Cell
<1>4. QED BY <1>1, <1>2, <1>3, BufferTypeCorrect, PTL DEF BufferSpec

-----------------------------------------------------------------------------
(* The ring implements the queue of TagQueue.                              *)

(* A number below two turns of the ring is brought back by one.            *)
LEMMA Wrap ==
  ASSUME NEW n \in Nat, n < MAX_BUFFER + MAX_BUFFER
  PROVE  n % MAX_BUFFER = IF n < MAX_BUFFER THEN n ELSE n - MAX_BUFFER
<1>1. CASE n < MAX_BUFFER
  BY <1>1, MaxBufferAssumption
<1>2. CASE n >= MAX_BUFFER
  BY <1>2, MaxBufferAssumption, Z3
<1>3. QED BY <1>1, <1>2, MaxBufferAssumption

(* n records fit between the indices: none or all if they are equal.       *)
Fits(in, out, n) ==
  n \in 0 .. MAX_BUFFER /\ (n = in - out \/ n = in + MAX_BUFFER - out)

(* The cell of the k-th record.                                            *)
Slot(out, k) ==
  IF out + k - 1 < MAX_BUFFER THEN out + k - 1 ELSE out + k - 1 - MAX_BUFFER

LEMMA LengthFits == BufferTypeOK => Fits(btag_table_in, btag_table_out, Length)
<1> SUFFICES ASSUME BufferTypeOK PROVE Fits(btag_table_in, btag_table_out, Length)
  OBVIOUS
<1> DEFINE n == btag_table_in + MAX_BUFFER - btag_table_out
<1>1. n \in Nat /\ n < MAX_BUFFER + MAX_BUFFER
  BY MaxBufferAssumption DEF BufferTypeOK, Cell
<1> HIDE DEF n
<1>2. n % MAX_BUFFER = IF n < MAX_BUFFER THEN n ELSE n - MAX_BUFFER
  BY <1>1, Wrap
<1>3. CASE Pending
  BY <1>1, <1>2, <1>3, MaxBufferAssumption DEF BufferTypeOK, Cell, Fits, Length, n
<1>4. CASE ~Pending
  BY <1>4, MaxBufferAssumption DEF BufferTypeOK, Cell, Fits, Length, Pending
<1>5. QED BY <1>3, <1>4

LEMMA SlotIsCell ==
  ASSUME NEW out \in Cell, NEW k \in 1 .. MAX_BUFFER
  PROVE  /\ Slot(out, k) \in Cell
         /\ (out + k - 1) % MAX_BUFFER = Slot(out, k)
<1>1. out + k - 1 \in Nat /\ out + k - 1 < MAX_BUFFER + MAX_BUFFER
  BY MaxBufferAssumption DEF Cell
<1>2. QED BY <1>1, Wrap, MaxBufferAssumption DEF Cell, Slot

(* The next n records of a ring, as a sequence.                            *)
Held(table, out, n) == [k \in 1 .. n |-> table[Slot(out, k)]]

Stored(table, in, r) == [table EXCEPT ![in] = r]
Content == Record \cup {NoRecord}
Ring == [Cell -> Content]

LEMMA HeldIsSeq ==
  ASSUME NEW table \in Ring, NEW out \in Cell, NEW n \in 0 .. MAX_BUFFER
  PROVE  /\ Held(table, out, n) \in Seq(Content)
         /\ Len(Held(table, out, n)) = n
         /\ \A k \in 1 .. n : Held(table, out, n)[k] = table[Slot(out, k)]
<1>1. n \in Nat /\ n <= MAX_BUFFER
  BY MaxBufferAssumption
<1>2. \A k \in 1 .. n : table[Slot(out, k)] \in Content
  BY <1>1, SlotIsCell, MaxBufferAssumption DEF Ring
<1>3. [k \in 1 .. n |-> table[Slot(out, k)]] \in Seq(Content)
  BY <1>1, <1>2
<1>4. Len([k \in 1 .. n |-> table[Slot(out, k)]]) = n
  BY <1>1, <1>3, LenProperties
<1>5. QED BY <1>3, <1>4 DEF Held

LEMMA ContentsHeld ==
  BufferTypeOK => Contents = Held(btagloc_table, btag_table_out, Length)
<1> SUFFICES ASSUME BufferTypeOK
             PROVE  Contents = Held(btagloc_table, btag_table_out, Length)
  OBVIOUS
<1>1. Length \in 0 .. MAX_BUFFER
  BY LengthFits DEF Fits
<1> HIDE DEF Length
<1>2. \A k \in 1 .. Length :
        (btag_table_out + k - 1) % MAX_BUFFER = Slot(btag_table_out, k)
  BY <1>1, SlotIsCell, MaxBufferAssumption DEF BufferTypeOK
<1>3. QED BY <1>2 DEF Contents, Held

(* A store appends to what the ring holds, unless it meets the oldest      *)
(* record: of a ring that is about to be full nothing counts any more, and *)
(* of a full one only the new record.                                      *)
LEMMA HeldAfterStore ==
  ASSUME NEW table \in Ring, NEW in \in Cell, NEW out \in Cell,
         NEW r \in Content, NEW n, NEW m, NEW old, NEW new,
         Fits(in, out, n), Fits(After(in), out, m), old = Held(table, out, n),
         new = Held(Stored(table, in, r), out, m)
  PROVE  \/ Len(old) < MAX_BUFFER /\ new = Append(old, r)
         \/ Len(old) = MAX_BUFFER - 1 /\ new = <<>>
         \/ Len(old) = MAX_BUFFER /\ new = <<r>>
<1> DEFINE changed == Stored(table, in, r)
<1>1. After(in) \in Cell /\ After(in) = IF in = MAX_BUFFER - 1 THEN 0 ELSE in + 1
  BY AfterCell
<1>2. changed \in Ring /\ changed[in] = r
        /\ \A c \in Cell : c # in => changed[c] = table[c]
  BY DEF Ring, Stored
<1>3. n \in 0 .. MAX_BUFFER /\ m \in 0 .. MAX_BUFFER
  BY DEF Fits
<1>4. /\ old \in Seq(Content) /\ Len(old) = n
      /\ \A k \in 1 .. n : old[k] = table[Slot(out, k)]
  BY HeldIsSeq, <1>3
<1>5. new = Held(changed, out, m)
  OBVIOUS
<1> HIDE DEF changed
<1>6. /\ new \in Seq(Content) /\ Len(new) = m
      /\ \A k \in 1 .. m : new[k] = changed[Slot(out, k)]
  <2>1. /\ Held(changed, out, m) \in Seq(Content) /\ Len(Held(changed, out, m)) = m
        /\ \A k \in 1 .. m : Held(changed, out, m)[k] = changed[Slot(out, k)]
    BY HeldIsSeq, <1>2, <1>3
  <2>2. QED BY <2>1, <1>5
<1>7. CASE n = MAX_BUFFER
  <2>1. in = out /\ m = 1 /\ Slot(out, 1) = in
    BY <1>1, <1>7, MaxBufferAssumption DEF Cell, Fits, Slot
  <2>2. new[1] = r
    BY <1>2, <1>6, <2>1
  <2>3. Len(<<r>>) = 1 /\ <<r>>[1] = r /\ <<r>> \in Seq(Content)
    OBVIOUS
  <2>4. new = <<r>>
    BY <1>6, <2>1, <2>2, <2>3, SeqEqual
  <2>5. QED BY <1>4, <1>7, <2>4
<1>8. CASE n < MAX_BUFFER /\ m = 0
  <2>1. n = MAX_BUFFER - 1
    BY <1>1, <1>8, MaxBufferAssumption DEF Cell, Fits
  <2>2. new = <<>>
    BY <1>6, <1>8, EmptySeq
  <2>3. QED BY <1>4, <2>1, <2>2
<1>9. CASE n < MAX_BUFFER /\ m # 0
  <2>1. m = n + 1 /\ Slot(out, n + 1) = in
    BY <1>1, <1>9, MaxBufferAssumption DEF Cell, Fits, Slot
  <2>2. \A k \in 1 .. n : Slot(out, k) \in Cell /\ Slot(out, k) # in
    BY <1>9, <1>3, MaxBufferAssumption DEF Cell, Fits, Slot
  <2>3. /\ Append(old, r) \in Seq(Content) /\ Len(Append(old, r)) = m
        /\ \A k \in 1 .. n : Append(old, r)[k] = old[k]
        /\ Append(old, r)[n + 1] = r
    BY <1>4, <2>1, AppendProperties
  <2>4. \A k \in 1 .. m : new[k] = Append(old, r)[k]
    <3> SUFFICES ASSUME NEW k \in 1 .. m PROVE new[k] = Append(old, r)[k]
      OBVIOUS
    <3>1. CASE k = m
      BY <3>1, <1>2, <1>6, <2>1, <2>3
    <3>2. CASE k # m
      <4>1. k \in 1 .. n
        BY <3>2, <2>1, <1>3
      <4>2. QED BY <4>1, <1>2, <1>4, <1>6, <2>2, <2>3
    <3>3. QED BY <3>1, <3>2
  <2>5. new = Append(old, r)
    BY <1>6, <2>3, <2>4, SeqEqual
  <2>6. QED BY <1>4, <1>9, <2>5
<1>10. n = MAX_BUFFER \/ (n < MAX_BUFFER /\ m = 0) \/ (n < MAX_BUFFER /\ m # 0)
  BY <1>3, MaxBufferAssumption
<1>11. QED BY <1>7, <1>8, <1>9, <1>10, Zenon

(* The record that is sent is the oldest, and the others stay.             *)
LEMMA HeldAfterSend ==
  ASSUME NEW table \in Ring, NEW in \in Cell, NEW out \in Cell,
         NEW n, NEW m, NEW old, NEW new,
         Fits(in, out, n), n # 0, Fits(in, After(out), m), m # MAX_BUFFER,
         old = Held(table, out, n), new = Held(table, After(out), m)
  PROVE  old # <<>> /\ Head(old) = table[out] /\ new = Tail(old)
<1>1. After(out) \in Cell
        /\ After(out) = IF out = MAX_BUFFER - 1 THEN 0 ELSE out + 1
  BY AfterCell
<1>2. n \in 0 .. MAX_BUFFER /\ m \in 0 .. MAX_BUFFER
  BY DEF Fits
<1>3. /\ old \in Seq(Content) /\ Len(old) = n
      /\ \A k \in 1 .. n : old[k] = table[Slot(out, k)]
  BY HeldIsSeq, <1>2
<1>4. /\ new \in Seq(Content) /\ Len(new) = m
      /\ \A k \in 1 .. m : new[k] = table[Slot(After(out), k)]
  BY HeldIsSeq, <1>1, <1>2
<1>5. n > 0 /\ m = n - 1 /\ Slot(out, 1) = out
  BY <1>1, MaxBufferAssumption DEF Cell, Fits, Slot
<1>6. ASSUME NEW k \in 1 .. m PROVE Slot(After(out), k) = Slot(out, k + 1)
  BY <1>1, <1>2, MaxBufferAssumption DEF Cell, Slot
<1>7. old # <<>> /\ Head(old) = table[out]
  <2>1. old # <<>>
    BY <1>3, <1>5, EmptySeq
  <2>2. Head(old) = old[1]
    BY <1>3, <2>1
  <2>3. QED BY <1>2, <1>3, <1>5, <2>1, <2>2
<1>8. /\ Tail(old) \in Seq(Content) /\ Len(Tail(old)) = m
      /\ \A k \in 1 .. m : Tail(old)[k] = old[k + 1]
  BY <1>3, <1>5, <1>7, HeadTailProperties
<1>9. ASSUME NEW k \in 1 .. m PROVE new[k] = Tail(old)[k]
  <2>1. k + 1 \in 1 .. n
    BY <1>2, <1>5
  <2>2. QED BY <2>1, <1>3, <1>4, <1>6, <1>8
<1>10. new = Tail(old)
  BY <1>4, <1>8, <1>9, SeqEqual
<1>11. QED BY <1>7, <1>10

(* A store of a record, by DataTimer.fired or BtagDataUDP.recvfrom, is a   *)
(* step of the queue.                                                      *)
LEMMA StoreIsStep ==
  ASSUME BufferTypeOK, BufferTypeOK', NEW r \in Record, StoreRecord(r),
         UNCHANGED <<btag_table_out, datagram>>
  PROVE  Queue!Store(r) \/ Queue!Overrun(r)
<1>1. /\ Fits(btag_table_in, btag_table_out, Length)
      /\ Contents = Held(btagloc_table, btag_table_out, Length)
  BY LengthFits, ContentsHeld
<1>2. /\ Fits(btag_table_in', btag_table_out', Length')
      /\ Contents' = Held(btagloc_table', btag_table_out', Length')
  <2>1. (BufferTypeOK => Fits(btag_table_in, btag_table_out, Length))'
    BY LengthFits, PTL
  <2>2. (BufferTypeOK => Contents = Held(btagloc_table, btag_table_out, Length))'
    BY ContentsHeld, PTL
  <2>3. QED BY <2>1, <2>2
<1>3. /\ Fits(After(btag_table_in), btag_table_out, Length')
      /\ Contents' = Held([btagloc_table EXCEPT ![btag_table_in] = r],
                          btag_table_out, Length')
  BY <1>2 DEF StoreRecord
<1>4. /\ btagloc_table \in [Cell -> Record \cup {NoRecord}]
      /\ btag_table_in \in Cell /\ btag_table_out \in Cell
  BY DEF BufferTypeOK
<1>5. \/ Len(Contents) < MAX_BUFFER /\ Contents' = Append(Contents, r)
      \/ Len(Contents) = MAX_BUFFER - 1 /\ Contents' = <<>>
      \/ Len(Contents) = MAX_BUFFER /\ Contents' = <<r>>
  <2> SUFFICES ASSUME NEW table, NEW in, NEW out, NEW n, NEW m,
                      NEW old, NEW new,
                      table = btagloc_table, in = btag_table_in,
                      out = btag_table_out, n = Length, m = Length',
                      old = Contents, new = Contents'
               PROVE  \/ Len(old) < MAX_BUFFER /\ new = Append(old, r)
                      \/ Len(old) = MAX_BUFFER - 1 /\ new = <<>>
                      \/ Len(old) = MAX_BUFFER /\ new = <<r>>
    OBVIOUS
  <2>1. /\ table \in Ring /\ in \in Cell /\ out \in Cell /\ r \in Content
        /\ Fits(in, out, n) /\ Fits(After(in), out, m)
        /\ old = Held(table, out, n)
        /\ new = Held(Stored(table, in, r), out, m)
    BY <1>1, <1>3, <1>4 DEF Ring, Content, Stored
  <2>2. QED BY <2>1, HeldAfterStore
<1>6. QED BY <1>5 DEF Queue!Store, Queue!Overrun

(* Every step of the ring is a step of the queue, or leaves it alone.      *)
LEMMA StepSimulation ==
  BufferTypeOK /\ BufferTypeOK' /\ [BufferNext]_buffervars => [Queue!Next]_(Queue!vars)
<1> SUFFICES ASSUME BufferTypeOK, BufferTypeOK', [BufferNext]_buffervars
             PROVE  [Queue!Next]_(Queue!vars)
  OBVIOUS
<1>1. ASSUME NEW r \in Record, DataTimerFired(r) PROVE Queue!Next
  BY <1>1, StoreIsStep DEF DataTimerFired, Queue!Next
<1>2. ASSUME NEW r \in Record, NEW own \in BOOLEAN, BtagDataReceived(r, own)
      PROVE  [Queue!Next]_(Queue!vars)
  <2>1. CASE is_sink /\ ~own
    BY <1>2, <2>1, StoreIsStep DEF BtagDataReceived, Queue!Next
  <2>2. CASE ~(is_sink /\ ~own)
    BY <1>2, <2>2 DEF BtagDataReceived, Queue!vars, Contents, Length, Pending
  <2>3. QED BY <2>1, <2>2
<1>3. CASE SendTimerFired
  <2>1. /\ Fits(btag_table_in, btag_table_out, Length)
        /\ Contents = Held(btagloc_table, btag_table_out, Length)
    BY LengthFits, ContentsHeld
  <2>2. /\ Fits(btag_table_in', btag_table_out', Length')
        /\ Contents' = Held(btagloc_table', btag_table_out', Length')
    <3>1. (BufferTypeOK => Fits(btag_table_in, btag_table_out, Length))'
      BY LengthFits, PTL
    <3>2. (BufferTypeOK => Contents = Held(btagloc_table, btag_table_out, Length))'
      BY ContentsHeld, PTL
    <3>3. QED BY <3>1, <3>2
  <2>3. Length # 0 /\ Length' # MAX_BUFFER
    <3>1. Length # 0
      BY <2>1, <1>3, MaxBufferAssumption
         DEF SendTimerFired, Length, Pending, Fits, BufferTypeOK, Cell
    <3>2. ASSUME Pending' PROVE Length' # MAX_BUFFER
      <4>1. btag_table_in' # btag_table_out'
        BY <3>2 DEF Pending
      <4>2. btag_table_in' \in Cell /\ btag_table_out' \in Cell
        BY DEF BufferTypeOK
      <4>3. \A i, o \in Cell : i # o => ~Fits(i, o, MAX_BUFFER)
        BY MaxBufferAssumption DEF Fits, Cell
      <4>4. QED BY <2>2, <4>1, <4>2, <4>3
    <3>3. ASSUME ~Pending' PROVE Length' # MAX_BUFFER
      <4>1. ~send_timer'
        BY <1>3, <3>3 DEF SendTimerFired, Pending
      <4>2. QED BY <3>3, <4>1, MaxBufferAssumption DEF Length
    <3>4. QED BY <3>1, <3>2, <3>3
  <2>4. Contents # <<>> /\ Head(Contents) = btagloc_table[btag_table_out]
          /\ Contents' = Tail(Contents)
    <3>1. /\ Fits(btag_table_in, After(btag_table_out), Length')
          /\ Contents' = Held(btagloc_table, After(btag_table_out), Length')
      BY <2>2, <1>3 DEF SendTimerFired
    <3>2. /\ btagloc_table \in [Cell -> Record \cup {NoRecord}]
          /\ btag_table_in \in Cell /\ btag_table_out \in Cell
      BY DEF BufferTypeOK
    <3> SUFFICES ASSUME NEW table, NEW in, NEW out, NEW n, NEW m,
                        NEW old, NEW new,
                        table = btagloc_table, in = btag_table_in,
                        out = btag_table_out, n = Length, m = Length',
                        old = Contents, new = Contents'
                 PROVE  old # <<>> /\ Head(old) = table[out] /\ new = Tail(old)
      OBVIOUS
    <3>3. /\ table \in Ring /\ in \in Cell /\ out \in Cell
          /\ Fits(in, out, n) /\ n # 0
          /\ Fits(in, After(out), m) /\ m # MAX_BUFFER
          /\ old = Held(table, out, n) /\ new = Held(table, After(out), m)
      BY <2>1, <2>3, <3>1, <3>2 DEF Ring, Content
    <3>4. QED BY <3>3, HeldAfterSend
  <2>5. datagram' = [to  |-> IF is_sink THEN "vehicle" ELSE "sink",
                     rec |-> Head(Contents)]
    BY <1>3, <2>4 DEF SendTimerFired
  <2>6. QED BY <2>4, <2>5 DEF Queue!Next, Queue!Send, Destination
<1>4. CASE BeaconReceived
  BY <1>4 DEF BeaconReceived, Queue!vars, Contents, Length, Pending, BufferTypeOK
<1>5. CASE SinkElected
  BY <1>5 DEF SinkElected, Queue!vars, Contents, Length, Pending
<1>6. CASE UNCHANGED buffervars
  BY <1>6 DEF buffervars, Queue!vars, Contents, Length, Pending
<1>7. QED BY <1>1, <1>2, <1>3, <1>4, <1>5, <1>6 DEF BufferNext

(* The two unchecked indices of the ring implement the queue of TagQueue,  *)
(* for a ring of any size: records leave in the order they came, each at   *)
(* most once, and are forgotten only when the ring is overrun.             *)
THEOREM RingIsQueue == BufferSpec => ImplementsQueue
<1>1. BufferInit => Queue!Init
  BY DEF BufferInit, Queue!Init, Contents, Length, Pending
<1>2. QED BY <1>1, StepSimulation, BufferTypeCorrect, PTL
          DEF BufferSpec, ImplementsQueue, Queue!Spec
================================================================================
