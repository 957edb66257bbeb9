------------------------- MODULE BtagProgramProofs -------------------------
(***************************************************************************)
(* Proofs about BtagProgram for any routers, vehicles and tags, every      *)
(* reach of the radio and every loss, delay and copying of programs.       *)
(***************************************************************************)
EXTENDS BtagProgram, FiniteSetTheorems, TLAPS

(* Whatever is on its way to a tag, and whatever a tag has, was made on a  *)
(* phone, as long as no collector has sent what its dead buffer held.      *)
ChannelsMade ==
  /\ \A r \in Associated : wlan0[r] \subseteq made /\ recvbuf_wlan0[r] \subseteq made
  /\ \A v \in Vehicle : wlan1[v] \subseteq made /\ ppp[v] \subseteq made
  /\ \A d \in radio : d.rec \in made

TagsMade ==
  \A m \in Mote : temp_btagloc[m] = 0 \/ [id |-> m, prog |-> temp_btagloc[m]] \in made

LastMade == \A m \in Mote : last[m] # 0 => LastOf(m) \in made

IInv ==
  /\ TypeOK /\ IsFiniteSet(made) /\ LastMade
  /\ ~garbled => ChannelsMade /\ TagsMade

-----------------------------------------------------------------------------
LEMMA InitIInv == Init => IInv
<1> SUFFICES ASSUME Init PROVE IInv
  OBVIOUS
<1>1. Cardinality({}) = 0 /\ IsFiniteSet({})
  BY FS_EmptySet
<1>2. TypeOK
  <2>1. garbled \in BOOLEAN
    BY Zenon DEF Init
  <2>2. /\ full \in 0 .. MaxFull
        /\ temp_btagloc \in [Mote -> 0 .. MaxPrograms]
        /\ last \in [Mote -> 0 .. MaxPrograms]
    BY BoundAssumption DEF Init
  <2>3. QED BY <1>1, <2>1, <2>2 DEF Init, TypeOK
<1>3. LastMade /\ ChannelsMade /\ TagsMade
  BY DEF Init, LastMade, ChannelsMade, TagsMade
<1>4. QED BY <1>1, <1>2, <1>3 DEF Init, IInv

(* A collector or a router sends what it has, and makes nothing.           *)
LEMMA MeshType ==
  ASSUME TypeOK, NEW to, NEW rec \in Program
  PROVE  OnMesh(to, rec) \in [Vehicle -> SUBSET Program]
BY DEF TypeOK, OnMesh

LEMMA PressStep ==
  ASSUME IInv, NEW r \in Associated, NEW m \in Programmed, Press(r, m)
  PROVE  IInv'
<1> DEFINE n == Cardinality(made)
           rec == [id |-> m, prog |-> n + 1]
<1>1. m \in Mote
  BY MoteAssumption
<1>2. n \in Nat /\ n < MaxPrograms
  BY FS_CardinalityType DEF IInv, Press
<1> HIDE DEF n
<1>3. rec \in Program
  BY <1>1, <1>2, BoundAssumption DEF Program
<1>4. /\ made' = made \cup {rec} /\ last' = [last EXCEPT ![m] = n + 1]
      /\ wlan0' = [wlan0 EXCEPT ![r] = @ \cup {rec}]
      /\ UNCHANGED <<recvbuf_wlan0, queued, wlan1, ppp, radio, temp_btagloc,
                     garbled, full>>
  BY DEF Press, n, forwarder, network
<1> HIDE DEF rec
<1>5. TypeOK'
  <2>1. n + 1 \in 0 .. MaxPrograms
    BY <1>2, BoundAssumption
  <2>2. QED BY <1>1, <1>3, <1>4, <2>1 DEF IInv, TypeOK
<1>6. IsFiniteSet(made')
  BY <1>4, FS_AddElement DEF IInv
<1>7. LastMade'
  <2> SUFFICES ASSUME NEW k \in Mote, last'[k] # 0
               PROVE  [id |-> k, prog |-> last'[k]] \in made'
    BY DEF LastMade, LastOf
  <2>1. CASE k = m
    BY <1>1, <1>4, <2>1 DEF rec, IInv, TypeOK
  <2>2. CASE k # m
    <3>1. last'[k] = last[k]
      BY <1>4, <2>2 DEF IInv, TypeOK
    <3>2. QED BY <1>4, <3>1 DEF IInv, LastMade, LastOf
  <2>3. QED BY <2>1, <2>2
<1>8. ASSUME ~garbled' PROVE ChannelsMade' /\ TagsMade'
  <2>1. ChannelsMade /\ TagsMade
    BY <1>4, <1>8 DEF IInv
  <2>2. ChannelsMade'
    BY <1>4, <2>1 DEF ChannelsMade, IInv, TypeOK
  <2>3. TagsMade'
    BY <1>4, <2>1 DEF TagsMade
  <2>4. QED BY <2>2, <2>3
<1>9. QED BY <1>5, <1>6, <1>7, <1>8 DEF IInv

LEMMA PressAgainStep ==
  ASSUME IInv, NEW r \in Associated, NEW m \in Programmed, PressAgain(r, m)
  PROVE  IInv'
<1>1. LastOf(m) \in made
  BY MoteAssumption DEF PressAgain, IInv, LastMade
<1>2. LastOf(m) \in Program
  BY <1>1 DEF IInv, TypeOK
<1>3. /\ wlan0' = [wlan0 EXCEPT ![r] = @ \cup {LastOf(m)}]
      /\ UNCHANGED <<recvbuf_wlan0, queued, wlan1, ppp, radio, temp_btagloc,
                     last, made, garbled, full>>
  BY DEF PressAgain, forwarder, network, history
<1>4. TypeOK'
  BY <1>2, <1>3 DEF IInv, TypeOK
<1>5. LastMade' /\ (TagsMade => TagsMade')
  BY <1>3 DEF IInv, LastMade, LastOf, TagsMade
<1>6. ChannelsMade => ChannelsMade'
  BY <1>1, <1>3 DEF IInv, TypeOK, ChannelsMade
<1>7. QED BY <1>3, <1>4, <1>5, <1>6 DEF IInv

-----------------------------------------------------------------------------
(* The multicast forwarder.                                                *)
LEMMA RecvdOnWlan0Step ==
  ASSUME IInv, NEW r \in Associated, NEW rec \in Program,
         NEW got \in SUBSET MeshRouters, NEW later \in SUBSET MeshRouters,
         RecvdOnWlan0(r, rec, got, later)
  PROVE  IInv'
<1> DEFINE n == Cardinality(later)
<1>1. n \in Nat
  <2>1. IsFiniteSet(1 .. 10)
    <3>1. 1 \in Int /\ 10 \in Int
      OBVIOUS
    <3>2. QED BY <3>1, FS_Interval, Zenon
  <2>2. later \subseteq 1 .. 10
    BY DEF MeshRouters
  <2>3. QED BY <2>1, <2>2, FS_Subset, FS_CardinalityType
<1> HIDE DEF n
<1>2. /\ rec \in wlan0[r] /\ wlan0' = [wlan0 EXCEPT ![r] = @ \ {rec}]
      /\ wlan1' = OnMesh(got, rec)
      /\ queued' = [queued EXCEPT ![r] = @ \cup later]
      /\ recvbuf_wlan0' = [recvbuf_wlan0 EXCEPT ![r] = Held(queued'[r], rec)]
      /\ full' = full + n /\ full' <= MaxFull
      /\ UNCHANGED <<ppp, radio, temp_btagloc, last, made, garbled>>
  BY DEF RecvdOnWlan0, n, history
<1>3. /\ queued' \in [Associated -> SUBSET Vehicle]
      /\ \A k \in Associated : k # r => queued'[k] = queued[k]
  BY <1>2 DEF IInv, TypeOK, MeshRouters
<1>4. /\ recvbuf_wlan0' \in [Associated -> SUBSET Program]
      /\ recvbuf_wlan0'[r] = Held(queued'[r], rec)
      /\ \A k \in Associated : k # r => recvbuf_wlan0'[k] = recvbuf_wlan0[k]
  BY <1>2 DEF IInv, TypeOK, Held
<1>5. TypeOK'
  <2>1. wlan0' \in [Associated -> SUBSET Program]
    BY <1>2 DEF IInv, TypeOK
  <2>2. wlan1' \in [Vehicle -> SUBSET Program]
    BY <1>2, MeshType DEF IInv
  <2>3. full' \in 0 .. MaxFull
    BY <1>1, <1>2, BoundAssumption DEF IInv, TypeOK
  <2>0. \A k \in Associated :
          /\ Cardinality(recvbuf_wlan0[k]) <= 1
          /\ queued[k] # {} <=> recvbuf_wlan0[k] # {}
    BY Zenon DEF IInv, TypeOK
  <2>4. ASSUME NEW k \in Associated
        PROVE  /\ Cardinality(recvbuf_wlan0'[k]) <= 1
               /\ queued'[k] # {} <=> recvbuf_wlan0'[k] # {}
    <3>1. CASE k = r
      <4>1. Cardinality({}) = 0 /\ Cardinality({rec}) = 1
        BY FS_EmptySet, FS_Singleton
      <4>2. \/ queued'[r] = {} /\ recvbuf_wlan0'[r] = {}
            \/ queued'[r] # {} /\ recvbuf_wlan0'[r] = {rec}
        BY <1>4 DEF Held
      <4>3. CASE queued'[r] = {} /\ recvbuf_wlan0'[r] = {}
        BY <3>1, <4>1, <4>3
      <4>4. CASE queued'[r] # {} /\ recvbuf_wlan0'[r] = {rec}
        BY <3>1, <4>1, <4>4
      <4>5. QED BY <4>2, <4>3, <4>4
    <3>2. CASE k # r
      <4>1. queued'[k] = queued[k] /\ recvbuf_wlan0'[k] = recvbuf_wlan0[k]
        BY <1>3, <1>4, <3>2
      <4>2. QED BY <2>0, <4>1, Zenon
    <3>3. QED BY <3>1, <3>2
  <2>5. QED BY <1>2, <1>3, <1>4, <2>1, <2>2, <2>3, <2>4 DEF IInv, TypeOK
<1>6. LastMade' /\ (TagsMade => TagsMade')
  BY <1>2 DEF IInv, LastMade, LastOf, TagsMade
<1>7. ChannelsMade => ChannelsMade'
  <2> SUFFICES ASSUME ChannelsMade PROVE ChannelsMade'
    OBVIOUS
  <2>1. rec \in made
    BY <1>2 DEF ChannelsMade
  <2>2. \A k \in Associated : wlan0'[k] \subseteq made
    BY <1>2 DEF ChannelsMade, IInv, TypeOK
  <2>3. \A k \in Associated : recvbuf_wlan0'[k] \subseteq made
    BY <1>4, <2>1 DEF ChannelsMade, Held
  <2>4. \A v \in Vehicle : wlan1'[v] \subseteq made
    BY <1>2, <2>1 DEF ChannelsMade, OnMesh
  <2>5. QED BY <1>2, <2>2, <2>3, <2>4 DEF ChannelsMade
<1>8. QED BY <1>2, <1>5, <1>6, <1>7 DEF IInv

LEMMA SendQueuedStep ==
  ASSUME IInv, NEW r \in Associated, NEW got \in SUBSET Vehicle,
         SendQueued(r, got)
  PROVE  IInv'
<1>1. PICK rec \in recvbuf_wlan0[r] : wlan1' = OnMesh(got, rec)
  BY DEF SendQueued
<1>2. rec \in Program
  BY DEF IInv, TypeOK
<1>3. /\ queued' = [queued EXCEPT ![r] = {}]
      /\ recvbuf_wlan0' = [recvbuf_wlan0 EXCEPT ![r] = {}]
      /\ UNCHANGED <<wlan0, ppp, radio, temp_btagloc, last, made, garbled, full>>
  BY DEF SendQueued, history
<1>4. TypeOK'
  <2>1. wlan1' \in [Vehicle -> SUBSET Program]
    BY <1>1, <1>2, MeshType DEF IInv
  <2>2. Cardinality({}) = 0
    BY FS_EmptySet
  <2>3. /\ queued' \in [Associated -> SUBSET Vehicle]
        /\ recvbuf_wlan0' \in [Associated -> SUBSET Program]
    BY <1>3 DEF IInv, TypeOK
  <2>0. \A k \in Associated :
          /\ Cardinality(recvbuf_wlan0[k]) <= 1
          /\ queued[k] # {} <=> recvbuf_wlan0[k] # {}
    BY Zenon DEF IInv, TypeOK
  <2>4. ASSUME NEW k \in Associated
        PROVE  /\ Cardinality(recvbuf_wlan0'[k]) <= 1
               /\ queued'[k] # {} <=> recvbuf_wlan0'[k] # {}
    <3>1. CASE k = r
      <4>1. queued'[k] = {} /\ recvbuf_wlan0'[k] = {}
        BY <1>3, <3>1 DEF IInv, TypeOK
      <4>2. QED BY <2>2, <4>1
    <3>2. CASE k # r
      <4>1. queued'[k] = queued[k] /\ recvbuf_wlan0'[k] = recvbuf_wlan0[k]
        BY <1>3, <3>2 DEF IInv, TypeOK
      <4>2. QED BY <2>0, <4>1, Zenon
    <3>3. QED BY <3>1, <3>2
  <2>5. QED BY <1>3, <2>1, <2>3, <2>4 DEF IInv, TypeOK
<1>5. LastMade' /\ (TagsMade => TagsMade')
  BY <1>3 DEF IInv, LastMade, LastOf, TagsMade
<1>6. ChannelsMade => ChannelsMade'
  <2> SUFFICES ASSUME ChannelsMade PROVE ChannelsMade'
    OBVIOUS
  <2>1. \A v \in Vehicle : wlan1'[v] \subseteq made
    BY <1>1 DEF ChannelsMade, OnMesh
  <2>2. QED BY <1>3, <2>1 DEF ChannelsMade, IInv, TypeOK
<1>7. QED BY <1>3, <1>4, <1>5, <1>6 DEF IInv

(* The collector.                                                          *)
LEMMA RecvdWlan1Step ==
  ASSUME IInv, NEW v \in Vehicle, NEW rec \in Program, NEW buf \in Program,
         RecvdWlan1(v, rec, buf)
  PROVE  IInv'
<1>1. /\ rec \in wlan1[v] /\ wlan1' = [wlan1 EXCEPT ![v] = @ \ {rec}]
      /\ ppp' = [ppp EXCEPT ![v] = @ \cup {buf}]
      /\ UNCHANGED <<wlan0, recvbuf_wlan0, queued, radio, temp_btagloc, last,
                     made>>
  BY DEF RecvdWlan1, forwarder
<1>2. /\ full' \in 0 .. MaxFull /\ garbled' \in BOOLEAN
      /\ ~garbled' => ~garbled /\ buf = rec
  <2>1. CASE buf = rec
    BY <2>1 DEF RecvdWlan1, IInv, TypeOK
  <2>2. CASE buf # rec
    BY <2>2, BoundAssumption DEF RecvdWlan1, IInv, TypeOK
  <2>3. QED BY <2>1, <2>2
<1>3. TypeOK'
  BY <1>1, <1>2 DEF IInv, TypeOK
<1>4. LastMade' /\ (TagsMade => TagsMade')
  BY <1>1 DEF IInv, LastMade, LastOf, TagsMade
<1>5. buf = rec /\ ChannelsMade => ChannelsMade'
  BY <1>1 DEF ChannelsMade, IInv, TypeOK
<1>6. QED BY <1>1, <1>2, <1>3, <1>4, <1>5 DEF IInv

-----------------------------------------------------------------------------
(* What the bridge mote does with a program that came for it.              *)
LEMMA ProxyRecvRadio ==
  ASSUME IInv, NEW v \in Vehicle, NEW from, NEW rec \in Program,
         NEW heard \in SUBSET Near[v], ProxyRecv(v, from, rec, heard)
  PROVE  /\ radio' \subseteq Datagram
         /\ \A d \in radio' : d \in radio \/ d.rec = rec
<1>1. heard \subseteq Mote \cup Bridge /\ BridgeId(v) \in Bridge
  BY RadioAssumption DEF Bridge
<1>2. [at : heard, from : {BridgeId(v)}, rec : {rec}] \subseteq Datagram
  BY <1>1 DEF Datagram
<1>3. QED BY <1>2 DEF ProxyRecv, IInv, TypeOK

LEMMA ProxyFromLineStep ==
  ASSUME IInv, NEW v \in Vehicle, NEW rec \in Program,
         NEW heard \in SUBSET Near[v], ProxyFromLine(v, rec, heard)
  PROVE  IInv'
<1>1. /\ rec \in ppp[v] /\ ppp' = [ppp EXCEPT ![v] = @ \ {rec}]
      /\ UNCHANGED <<wlan0, recvbuf_wlan0, queued, wlan1, temp_btagloc, last,
                     made, garbled, full>>
  BY DEF ProxyFromLine, forwarder, history
<1>2. /\ radio' \subseteq Datagram
      /\ \A d \in radio' : d \in radio \/ d.rec = rec
  BY ProxyRecvRadio DEF ProxyFromLine
<1>3. TypeOK'
  BY <1>1, <1>2 DEF IInv, TypeOK
<1>4. LastMade' /\ (TagsMade => TagsMade')
  BY <1>1 DEF IInv, LastMade, LastOf, TagsMade
<1>5. ChannelsMade => ChannelsMade'
  BY <1>1, <1>2 DEF ChannelsMade, IInv, TypeOK
<1>6. QED BY <1>1, <1>3, <1>4, <1>5 DEF IInv

LEMMA ProxyFromRadioStep ==
  ASSUME IInv, NEW v \in Vehicle, NEW d \in radio,
         NEW heard \in SUBSET Near[v], ProxyFromRadio(v, d, heard)
  PROVE  IInv'
<1>1. UNCHANGED <<wlan0, recvbuf_wlan0, queued, wlan1, ppp, temp_btagloc, last,
                  made, garbled, full>>
  BY DEF ProxyFromRadio, forwarder, history
<1>2. d.rec \in Program
  BY DEF IInv, TypeOK, Datagram
<1>3. /\ radio' \subseteq Datagram
      /\ \A e \in radio' : e \in radio \/ e.rec = d.rec
  BY <1>2, ProxyRecvRadio DEF ProxyFromRadio
<1>4. TypeOK'
  BY <1>1, <1>3 DEF IInv, TypeOK
<1>5. LastMade' /\ (TagsMade => TagsMade')
  BY <1>1 DEF IInv, LastMade, LastOf, TagsMade
<1>6. ChannelsMade => ChannelsMade'
  BY <1>1, <1>3 DEF ChannelsMade, IInv, TypeOK
<1>7. QED BY <1>1, <1>4, <1>5, <1>6 DEF IInv

(* A tag takes a program only if it is its own, so what it has then is a   *)
(* program that was made for it.                                           *)
LEMMA ProgrammerStep ==
  ASSUME IInv, NEW m \in Mote, NEW d \in radio, NEW gets \in SUBSET Mote,
         ProgrammerRecv(m, d, gets)
  PROVE  IInv'
<1>1. /\ radio' = (radio \ {d}) \cup [at : gets, from : {m}, rec : {d.rec}]
      /\ UNCHANGED <<wlan0, recvbuf_wlan0, queued, wlan1, ppp, last, made,
                     garbled, full>>
  BY DEF ProgrammerRecv, forwarder, history
<1>2. d.rec \in Program
  BY DEF IInv, TypeOK, Datagram
<1>3. /\ radio' \subseteq Datagram
      /\ \A e \in radio' : e \in radio \/ e.rec = d.rec
  <2>1. [at : gets, from : {m}, rec : {d.rec}] \subseteq Datagram
    BY <1>2 DEF Datagram
  <2>2. QED BY <1>1, <2>1 DEF IInv, TypeOK
<1>4. \/ temp_btagloc' = temp_btagloc
      \/ /\ d.rec.id = m
         /\ temp_btagloc' = [temp_btagloc EXCEPT ![m] = d.rec.prog]
  BY DEF ProgrammerRecv, ForMe
<1>5. TypeOK'
  <2>1. d.rec.prog \in 0 .. MaxPrograms
    BY <1>2 DEF Program
  <2>2. temp_btagloc' \in [Mote -> 0 .. MaxPrograms]
    BY <1>4, <2>1 DEF IInv, TypeOK
  <2>3. QED BY <1>1, <1>3, <2>2 DEF IInv, TypeOK
<1>6. LastMade'
  BY <1>1 DEF IInv, LastMade, LastOf
<1>7. ChannelsMade => ChannelsMade'
  BY <1>1, <1>3 DEF ChannelsMade, IInv, TypeOK
<1>8. ChannelsMade /\ TagsMade => TagsMade'
  <2> SUFFICES ASSUME ChannelsMade, TagsMade, NEW k \in Mote
               PROVE  \/ temp_btagloc'[k] = 0
                      \/ [id |-> k, prog |-> temp_btagloc'[k]] \in made
    BY <1>1 DEF TagsMade
  <2>1. CASE temp_btagloc'[k] = temp_btagloc[k]
    BY <2>1 DEF TagsMade
  <2>2. CASE temp_btagloc'[k] # temp_btagloc[k]
    <3>1. k = m /\ d.rec.id = m /\ temp_btagloc'[m] = d.rec.prog
      BY <1>4, <2>2 DEF IInv, TypeOK
    <3>2. d.rec = [id |-> m, prog |-> d.rec.prog]
      BY <1>2, <3>1 DEF Program
    <3>3. d.rec \in made
      BY DEF ChannelsMade
    <3>4. QED BY <3>1, <3>2, <3>3
  <2>3. QED BY <2>1, <2>2
<1>9. QED BY <1>1, <1>5, <1>6, <1>7, <1>8 DEF IInv

-----------------------------------------------------------------------------
LEMMA NextIInv == IInv /\ [Next]_vars => IInv'
<1> SUFFICES ASSUME IInv, [Next]_vars PROVE IInv'
  OBVIOUS
<1>1. ASSUME NEW r \in Associated, NEW m \in Programmed,
             Press(r, m) \/ PressAgain(r, m)
      PROVE  IInv'
  BY <1>1, PressStep, PressAgainStep
<1>2. ASSUME NEW r \in Associated, NEW rec \in Program,
             NEW got \in SUBSET MeshRouters, NEW later \in SUBSET MeshRouters,
             RecvdOnWlan0(r, rec, got, later)
      PROVE  IInv'
  BY <1>2, RecvdOnWlan0Step
<1>3. ASSUME NEW r \in Associated, NEW got \in SUBSET Vehicle, SendQueued(r, got)
      PROVE  IInv'
  BY <1>3, SendQueuedStep
<1>4. ASSUME NEW v \in Vehicle, NEW rec \in Program, NEW buf \in Program,
             RecvdWlan1(v, rec, buf)
      PROVE  IInv'
  BY <1>4, RecvdWlan1Step
<1>5. ASSUME NEW v \in Vehicle, NEW heard \in SUBSET Near[v],
             \/ \E rec \in Program : ProxyFromLine(v, rec, heard)
             \/ \E d \in radio : ProxyFromRadio(v, d, heard)
      PROVE  IInv'
  BY <1>5, ProxyFromLineStep, ProxyFromRadioStep
<1>6. ASSUME NEW m \in Mote, NEW d \in radio, NEW gets \in SUBSET Mote,
             ProgrammerRecv(m, d, gets)
      PROVE  IInv'
  BY <1>6, ProgrammerStep
<1>7. CASE UNCHANGED vars
  BY <1>7 DEF vars, forwarder, network, history, IInv, TypeOK, LastMade, LastOf,
              ChannelsMade, TagsMade
<1>8. QED BY <1>1, <1>2, <1>3, <1>4, <1>5, <1>6, <1>7 DEF Next

LEMMA Invariant == Spec => []IInv
BY InitIInv, NextIInv, PTL DEF Spec

(* All that routers, collectors, bridge motes and tags hold are programs,  *)
(* and a forwarder keeps at most one while its sends wait.                 *)
THEOREM TypeCorrect == Spec => []TypeOK
<1>1. IInv => TypeOK
  BY DEF IInv
<1>2. QED BY <1>1, Invariant, PTL

(* Whatever copies a tag hears, and whatever waits in a forwarder's buffer *)
(* while the next program is received into it, what a tag has was made on  *)
(* a phone for this very tag, unless a collector's send had to wait and    *)
(* sent what was left of the handler's local buffer.                       *)
THEOREM TagsHaveOwnPrograms == Spec => []OnlyOwnPrograms
<1>1. IInv => OnlyOwnPrograms
  BY DEF IInv, TagsMade, OnlyOwnPrograms
<1>2. QED BY <1>1, Invariant, PTL
=============================================================================
