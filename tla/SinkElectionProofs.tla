------------------------- MODULE SinkElectionProofs -------------------------
(***************************************************************************)
(* Proofs about SinkElection for every set of motes, routing table, range  *)
(* of readings and bound.                                                  *)
(***************************************************************************)
EXTENDS SinkElection, WellFoundedInduction, TLAPS

(* A non-empty set of naturals has a least element. *)
LEMMA LeastNatural ==
  ASSUME NEW S \in SUBSET Nat, S # {}
  PROVE  \E j \in S : \A k \in S : j <= k
<1>1. PICK j \in S : \A k \in S : <<k, j>> \notin OpToRel(<, Nat)
  BY NatLessThanWellFounded, WFMin
<1>2. \A k \in S : ~(k < j)
  BY <1>1 DEF OpToRel
<1>3. QED BY <1>2

(* The length of the routing table, and what its entries hold. *)
LEMMA TableLength == Len(RoutingTable) \in Nat
BY TableAssumption

LEMMA EntryType ==
  ASSUME NEW i \in Entry
  PROVE  /\ i \in Nat
         /\ i + 1 \in 1 .. Len(RoutingTable)
         /\ RoutingTable[i + 1].node \in Mote \ {Root}
<1> DEFINE Elem == [valid : BOOLEAN, node : Mote \ {Root}]
<1>1. i \in Nat /\ i + 1 \in 1 .. Len(RoutingTable)
  BY TableLength DEF Entry
<1>2. RoutingTable \in Seq(Elem)
  BY TableAssumption
<1>3. RoutingTable[i + 1] \in Elem
  <2> HIDE DEF Elem
  <2> QED BY <1>1, <1>2
<1>4. QED BY <1>1, <1>3

(* A computed score is a natural number. *)
LEMMA ScoreType ==
  ASSUME TypeOK, NEW m \in Mote
  PROVE  Score(m) \in Nat
<1>1. /\ beacon_count[m] \in Nat
      /\ car_count[m] \in Nat
      /\ battery_voltage[m] \in Nat
  BY SensorAssumption DEF TypeOK
<1>2. 2 * beacon_count[m] \in Nat /\ 3 * car_count[m] \in Nat
  BY <1>1
<1>3. (2 * beacon_count[m]) \div BE_NORMALIZE \in Nat
  BY <1>2, NormalizeAssumption
<1>4. 3 * car_count[m] * CAR_NORMALIZE \in Nat
  BY <1>2, NormalizeAssumption
<1>5. battery_voltage[m] \div BV_NORMALIZE \in Nat
  BY <1>1, NormalizeAssumption
<1>6. QED BY <1>3, <1>4, <1>5 DEF Score

(* What the next entry to be told is. *)
LEMMA NextEntry ==
  ASSUME TypeOK, Remaining # {},
         NEW i, i = CHOOSE j \in Remaining : \A k \in Remaining : j <= k
  PROVE  i \in Remaining /\ \A k \in Remaining : i <= k
<1>1. Remaining \subseteq Nat
  BY TableAssumption DEF Remaining, Entry
<1>2. QED BY <1>1, LeastNatural

(* One firing of BroadTimer keeps the types. *)
LEMMA BroadTimerType ==
  ASSUME TypeOK, BroadTimerFired
  PROVE  TypeOK'
<1>1. Len(RoutingTable) \in Nat
  BY TableAssumption
<1>2. CASE Remaining = {}
  <2>1. /\ index' = Len(RoutingTable) + 1
        /\ broad_timer' = FALSE
        /\ UNCHANGED <<mail, told, counters, sinkvars, sinkmsg, history>>
    BY <1>2 DEF BroadTimerFired
  <2>2. index' \in 0 .. Len(RoutingTable) + 1
    BY <1>1, <2>1
  <2>3. QED BY <2>1, <2>2 DEF TypeOK, counters, sinkvars, history
<1>3. CASE Remaining # {}
  <2> DEFINE i == CHOOSE j \in Remaining : \A k \in Remaining : j <= k
             letter == [to |-> RoutingTable[i + 1].node, msg |-> sinkmsg]
  <2>1. i \in Entry
    BY <1>3, NextEntry DEF Remaining
  <2> HIDE DEF i
  <2>2. i + 1 \in 1 .. Len(RoutingTable)
    BY <2>1, EntryType
  <2>3. RoutingTable[i + 1].node \in Mote
    BY <2>1, EntryType
  <2>4. sinkmsg \in ElectionMsg
    BY DEF TypeOK, BroadTimerFired
  <2>5. letter \in [to : Mote, msg : ElectionMsg]
    BY <2>3, <2>4
  <2>6. /\ mail' = Posted(mail \cup {letter})
        /\ told' = told \cup {i}
        /\ index' = i + 1
        /\ UNCHANGED <<counters, sinkvars, sinkmsg, history, broad_timer>>
    BY <1>3 DEF BroadTimerFired, i
  <2>7. mail' \subseteq [to : Mote, msg : ElectionMsg]
    BY <2>5, <2>6 DEF Posted, TypeOK
  <2>8. index' \in 0 .. Len(RoutingTable) + 1
    BY <1>1, <2>2, <2>6
  <2>9. told' \subseteq Entry
    BY <2>1, <2>6 DEF TypeOK
  <2>10. QED
    BY <2>4, <2>6, <2>7, <2>8, <2>9
    DEF TypeOK, counters, sinkvars, history
<1>4. QED BY <1>2, <1>3

(* One election of a mote keeps the types. *)
LEMMA ElectionTimerType ==
  ASSUME TypeOK, NEW m \in Mote, ElectionTimerFired(m)
  PROVE  TypeOK'
<1> DEFINE new == Score(m)
           claim == [node_id |-> m, score |-> new, iter |-> election_iter[m] + 1]
<1>1. new \in Nat
  BY ScoreType
<1> HIDE DEF new
<1>2. election_iter[m] + 1 \in Nat
  BY DEF TypeOK
<1>3. [to |-> Root, msg |-> claim] \in [to : Mote, msg : ElectionMsg]
  BY <1>1, <1>2, MoteAssumption DEF ElectionMsg
<1>4. /\ election_iter' = [election_iter EXCEPT ![m] = @ + 1]
      /\ score' = [score EXCEPT ![m] = new]
      /\ UNCHANGED <<counters, elecsfilter, rootvars, heard>>
  BY DEF ElectionTimerFired, new
<1>5. CASE Claims(m, new)
  <2>1. /\ sink_score' = [sink_score EXCEPT ![m] = new]
        /\ sink_id' = [sink_id EXCEPT ![m] = m]
        /\ mail' = Posted(mail \cup {[to |-> Root, msg |-> claim]})
        /\ outbid' = [outbid EXCEPT ![m] = FALSE]
    BY <1>5 DEF ElectionTimerFired, new
  <2>2. mail' \subseteq [to : Mote, msg : ElectionMsg]
    BY <1>3, <2>1 DEF TypeOK, Posted
  <2>3. QED
    BY <1>1, <1>2, <1>4, <2>1, <2>2 DEF TypeOK, counters, rootvars
<1>6. CASE ~Claims(m, new)
  <2>1. UNCHANGED <<sink_score, sink_id, mail, outbid>>
    BY <1>6 DEF ElectionTimerFired, new
  <2>2. QED
    BY <1>1, <1>2, <1>4, <2>1 DEF TypeOK, counters, rootvars
<1>7. QED BY <1>5, <1>6

(* A received election message keeps the types. *)
LEMMA ReceiveType ==
  ASSUME TypeOK, NEW letter \in mail, ElectionReceived(letter)
  PROVE  TypeOK'
<1> DEFINE m == letter.to
           msg == letter.msg
<1>1. m \in Mote /\ msg \in ElectionMsg
  BY DEF TypeOK
<1>2. mail' \subseteq [to : Mote, msg : ElectionMsg] /\ UNCHANGED counters
  BY DEF TypeOK, ElectionReceived
<1>3. msg.node_id \in Mote /\ msg.score \in Nat /\ msg.iter \in Nat
  BY <1>1 DEF ElectionMsg
<1>4. Len(RoutingTable) \in Nat
  BY TableAssumption
<1>5. CASE RootHearsClaim(msg)
  <2>1. sink_id' \in [Mote -> Mote]
    BY <1>3, <1>5 DEF RootHearsClaim, TypeOK
  <2>2. index' \in 0 .. Len(RoutingTable) + 1
    BY <1>4, <1>5 DEF RootHearsClaim
  <2>3. sinkmsg' \in ElectionMsg /\ broad_timer' = TRUE /\ told' = {}
    BY <1>1, <1>5 DEF RootHearsClaim
  <2>4. UNCHANGED <<score, sink_score, election_iter, elecsfilter, history>>
    BY <1>5 DEF RootHearsClaim
  <2>5. QED
    BY <1>2, <2>1, <2>2, <2>3, <2>4 DEF TypeOK, counters, history
<1>6. CASE MoteHears(m, msg)
  <2>1. /\ elecsfilter' \in [Mote -> [Mote -> Nat]]
        /\ outbid' \in [Mote -> BOOLEAN]
    BY <1>1, <1>3, <1>6 DEF MoteHears, TypeOK
  <2>2. /\ sink_id' \in [Mote -> Mote]
        /\ sink_score' \in [Mote -> Nat]
    BY <1>1, <1>3, <1>6 DEF MoteHears, TypeOK
  <2>3. heard' \in [Mote -> [Mote -> [score : Nat, iter : Nat]]]
    <3> DEFINE Heard == [score : Nat, iter : Nat]
               new == IF msg.iter > heard[m][msg.node_id].iter
                        THEN [score |-> msg.score, iter |-> msg.iter]
                        ELSE heard[m][msg.node_id]
    <3>1. heard \in [Mote -> [Mote -> Heard]]
      BY DEF TypeOK
    <3>2. heard[m][msg.node_id] \in Heard
      BY <1>1, <1>3, <3>1
    <3>3. new \in Heard
      BY <1>3, <3>2
    <3>4. heard' = [heard EXCEPT ![m][msg.node_id] = new]
      BY <1>6 DEF MoteHears
    <3> HIDE DEF Heard, new
    <3>5. QED BY <1>1, <1>3, <3>1, <3>3, <3>4 DEF Heard
  <2>4. QED
    BY <1>2, <1>6, <2>1, <2>2, <2>3 DEF MoteHears, TypeOK, counters, rootvars
<1>7. CASE UNCHANGED <<sinkvars, rootvars, history>>
  BY <1>2, <1>7 DEF TypeOK, counters, sinkvars, rootvars, history
<1>8. QED BY <1>5, <1>6, <1>7 DEF ElectionReceived

(* Every variable keeps its type. *)
THEOREM TypeCorrect == Spec => []TypeOK
<1>1. Init => TypeOK
  <2>1. 0 \in 0 .. Len(RoutingTable) + 1
    BY TableLength
  <2> SUFFICES ASSUME Init PROVE TypeOK
    OBVIOUS
  <2>2. /\ battery_voltage \in [Mote -> Voltage]
        /\ beacon_count \in [Mote -> Nat]
        /\ car_count \in [Mote -> Nat]
        /\ cars \in [Mote -> [Car -> Nat]]
    BY SensorAssumption DEF Init
  <2>3. /\ score \in [Mote -> Nat]
        /\ sink_id \in [Mote -> Mote]
        /\ sink_score \in [Mote -> Nat]
        /\ election_iter \in [Mote -> Nat]
        /\ elecsfilter \in [Mote -> [Mote -> Nat]]
    BY DEF Init
  <2>4. /\ sinkmsg = NoMessage
        /\ index = 0
        /\ broad_timer = FALSE
        /\ mail = {}
        /\ told = {}
        /\ outbid \in [Mote -> BOOLEAN]
    BY DEF Init
  <2>5. heard \in [Mote -> [Mote -> [score : Nat, iter : Nat]]]
    <3>1. Nothing \in [score : Nat, iter : Nat]
      BY DEF Nothing
    <3>2. QED BY <3>1 DEF Init
  <2>6. QED BY <2>1, <2>2, <2>3, <2>4, <2>5 DEF TypeOK
<1>2. TypeOK /\ [Next]_vars => TypeOK'
  <2> SUFFICES ASSUME TypeOK, [Next]_vars PROVE TypeOK'
    OBVIOUS
  <2>1. ASSUME NEW m \in Mote, NEW volt \in Voltage, BatteryRead(m, volt)
        PROVE  TypeOK'
    BY <2>1 DEF BatteryRead, TypeOK, sinkvars, rootvars, history
  <2>2. ASSUME NEW m \in Mote, NEW car \in Car, BeaconReceived(m, car)
        PROVE  TypeOK'
    <3>1. beacon_count[m] + 1 \in Nat /\ car_count[m] + 1 \in Nat
      BY DEF TypeOK
    <3>2. QED BY <2>2, <3>1 DEF BeaconReceived, TypeOK, sinkvars, rootvars,
                                 history
  <2>3. ASSUME NEW m \in Mote, ElectionTimerFired(m) PROVE TypeOK'
    BY <2>3, ElectionTimerType
  <2>4. ASSUME NEW m \in Mote, Reboot(m) PROVE TypeOK'
    BY <2>4, SensorAssumption DEF Reboot, TypeOK, rootvars, Nothing
  <2>5. ASSUME NEW letter \in mail, ElectionReceived(letter) PROVE TypeOK'
    BY <2>5, ReceiveType
  <2>6. CASE BroadTimerFired
    BY <2>6, BroadTimerType
  <2>7. CASE Lose
    BY <2>7 DEF Lose, TypeOK, counters, sinkvars, rootvars, history
  <2>8. CASE UNCHANGED vars
    BY <2>8 DEF vars, TypeOK, counters, sinkvars, rootvars, history
  <2>9. QED BY <2>1, <2>2, <2>3, <2>4, <2>5, <2>6, <2>7, <2>8 DEF Next
<1>3. QED BY <1>1, <1>2, PTL DEF Spec

(* The strengthening that makes SinkNoWorse inductive: a mote has seen its *)
(* score exceed that of its sink in no election; one that is its own sink  *)
(* has announced the score it has; the filter holds the number of the      *)
(* newest election heard; and the score remembered for the sink is the one *)
(* of its newest election, unless that was turned down.                    *)
RemembersSink(m) ==
  sink_id[m] # m /\ ~outbid[m] => sink_score[m] = heard[m][sink_id[m]].score

SinkInv ==
  /\ \A m \in Mote : score[m] <= sink_score[m]
  /\ SinkKnowsItself
  /\ \A m \in Mote \ {Root} :
       /\ \A n \in Mote : heard[m][n].iter = elecsfilter[m][n]
       /\ RemembersSink(m)

(* An election of a mote keeps the strengthening. *)
LEMMA ElectionKeepsSinkInv ==
  ASSUME TypeOK, SinkInv, NEW m \in Mote, ElectionTimerFired(m)
  PROVE  SinkInv'
<1> DEFINE new == Score(m)
<1> USE DEF SinkInv, SinkKnowsItself, RemembersSink
<1>1. new \in Nat
  BY ScoreType
<1> HIDE DEF new
<1>2. score' = [score EXCEPT ![m] = new] /\ UNCHANGED <<heard, elecsfilter>>
  BY DEF ElectionTimerFired, new
<1>3. CASE Claims(m, new)
  <2>1. /\ sink_score' = [sink_score EXCEPT ![m] = new]
        /\ sink_id' = [sink_id EXCEPT ![m] = m]
        /\ outbid' = [outbid EXCEPT ![m] = FALSE]
    BY <1>3 DEF ElectionTimerFired, new
  <2>2. \A k \in Mote : score'[k] <= sink_score'[k]
    BY <1>1, <1>2, <2>1 DEF TypeOK
  <2>3. SinkKnowsItself'
    BY <1>1, <1>2, <2>1 DEF TypeOK
  <2>4. ASSUME NEW k \in Mote \ {Root} PROVE RemembersSink(k)'
    <3>1. CASE k = m
      BY <2>1, <3>1 DEF TypeOK
    <3>2. CASE k # m
      <4>1. /\ sink_id'[k] = sink_id[k]
            /\ sink_score'[k] = sink_score[k]
            /\ outbid'[k] = outbid[k]
        BY <2>1, <3>2 DEF TypeOK
      <4>2. QED BY <1>2, <4>1
    <3>3. QED BY <3>1, <3>2
  <2>5. QED BY <1>2, <2>2, <2>3, <2>4
<1>4. CASE ~Claims(m, new)
  <2>1. UNCHANGED <<sink_score, sink_id, outbid>>
    BY <1>4 DEF ElectionTimerFired, new
  <2>2. sink_score[m] \in Nat /\ sink_id[m] \in Mote /\ m \in Nat
    BY MoteAssumption DEF TypeOK
  <2>3. new <= sink_score[m] /\ sink_id[m] # m
    BY <1>1, <1>4, <2>2 DEF Claims
  <2>4. QED BY <1>2, <2>1, <2>3 DEF TypeOK
<1>5. QED BY <1>3, <1>4

(* So does an announcement that a mote hears and that is not stale: its    *)
(* number is above the filter, hence it is the newest heard of its sender, *)
(* and it is taken over, or it comes from the sink and marks it outbid, or *)
(* it comes from another mote and changes nothing that is compared.        *)
LEMMA HearingKeepsSinkInv ==
  ASSUME TypeOK, SinkInv, NEW m \in Mote \ {Root}, NEW msg \in ElectionMsg,
         ~Stale(m, msg), MoteHears(m, msg)
  PROVE  SinkInv'
<1> DEFINE n == msg.node_id
           newest == [score |-> msg.score, iter |-> msg.iter]
<1>1. n \in Mote /\ n # m /\ msg.score \in Nat /\ msg.iter \in Nat
  BY DEF Stale, ElectionMsg
<1>2. /\ elecsfilter[m][n] \in Nat
      /\ msg.iter > elecsfilter[m][n]
      /\ heard[m][n].iter = elecsfilter[m][n]
  <2>1. elecsfilter[m] \in [Mote -> Nat]
    BY DEF TypeOK
  <2>2. elecsfilter[m][n] \in Nat /\ ~(msg.iter <= elecsfilter[m][n])
    BY <1>1, <2>1 DEF Stale
  <2>3. heard[m][n].iter = elecsfilter[m][n]
    BY <1>1 DEF SinkInv
  <2>4. QED BY <1>1, <2>2, <2>3
<1>3. heard' = [heard EXCEPT ![m][n] = newest]
  BY <1>1, <1>2 DEF MoteHears, TypeOK
<1>4. /\ elecsfilter' = [elecsfilter EXCEPT ![m][n] = msg.iter]
      /\ score' = score
      /\ outbid' = [outbid EXCEPT ![m] = /\ score[m] > msg.score
                                         /\ @ \/ sink_id[m] = n]
  BY DEF MoteHears
<1>5. \A k \in Mote \ {Root}, j \in Mote :
        heard'[k][j].iter = elecsfilter'[k][j]
  BY <1>1, <1>3, <1>4 DEF SinkInv, TypeOK
<1>6. CASE score[m] <= msg.score
  <2>1. /\ sink_id' = [sink_id EXCEPT ![m] = n]
        /\ sink_score' = [sink_score EXCEPT ![m] = msg.score]
    BY <1>6 DEF MoteHears
  <2>2. \A k \in Mote : score'[k] <= sink_score'[k]
    BY <1>1, <1>4, <1>6, <2>1 DEF SinkInv, TypeOK
  <2>3. SinkKnowsItself'
    BY <1>1, <1>4, <2>1 DEF SinkInv, SinkKnowsItself, TypeOK
  <2>4. ASSUME NEW k \in Mote \ {Root} PROVE RemembersSink(k)'
    <3>1. CASE k = m
      <4>1. sink_id'[m] = n /\ sink_score'[m] = msg.score
        BY <2>1 DEF TypeOK
      <4>2. heard'[m][n].score = msg.score
        BY <1>1, <1>3 DEF TypeOK
      <4>3. QED BY <3>1, <4>1, <4>2 DEF RemembersSink
    <3>2. CASE k # m
      <4>1. /\ sink_id'[k] = sink_id[k]
            /\ sink_score'[k] = sink_score[k]
            /\ heard'[k] = heard[k]
            /\ outbid'[k] = outbid[k]
        BY <1>3, <1>4, <2>1, <3>2 DEF TypeOK
      <4>2. RemembersSink(k)
        BY DEF SinkInv
      <4>3. QED BY <4>1, <4>2 DEF RemembersSink
    <3>3. QED BY <3>1, <3>2
  <2>5. QED BY <1>5, <2>2, <2>3, <2>4 DEF SinkInv
<1>7. CASE ~(score[m] <= msg.score)
  <2>1. UNCHANGED <<sink_id, sink_score, score>>
    BY <1>7 DEF MoteHears
  <2>2. SinkKnowsItself' /\ \A k \in Mote : score'[k] <= sink_score'[k]
    BY <2>1 DEF SinkInv, SinkKnowsItself
  <2>3. ASSUME NEW k \in Mote \ {Root} PROVE RemembersSink(k)'
    <3>1. RemembersSink(k)
      BY DEF SinkInv
    <3>2. CASE k = m
      <4>1. score[m] \in Nat
        BY DEF TypeOK
      <4>2. outbid'[m] = (outbid[m] \/ sink_id[m] = n)
        <5>1. outbid'[m] = /\ score[m] > msg.score
                           /\ outbid[m] \/ sink_id[m] = n
          BY <1>4 DEF TypeOK
        <5>2. score[m] > msg.score
          BY <1>1, <1>7, <4>1
        <5>3. QED BY <5>1, <5>2
      <4>3. sink_id[m] # n => heard'[m][sink_id[m]] = heard[m][sink_id[m]]
        BY <1>1, <1>3 DEF TypeOK
      <4>4. QED BY <2>1, <3>1, <3>2, <4>2, <4>3 DEF RemembersSink
    <3>3. CASE k # m
      <4>1. heard'[k] = heard[k] /\ outbid'[k] = outbid[k]
        BY <1>3, <1>4, <3>3 DEF TypeOK
      <4>2. QED BY <2>1, <3>1, <4>1 DEF RemembersSink
    <3>4. QED BY <3>2, <3>3
  <2>4. QED BY <1>5, <2>2, <2>3 DEF SinkInv
<1>8. QED BY <1>6, <1>7

(* No mote but the root follows a sink whose newest election, as far as it *)
(* has reached the mote, names a score below the mote's own, unless that   *)
(* announcement was turned down for that very reason.                      *)
THEOREM SinksAreNoWorse == Spec => []SinkNoWorse
<1> USE DEF SinkKnowsItself, RemembersSink
<1>1. Init => SinkInv
  BY DEF Init, SinkInv, Nothing
<1>2. TypeOK /\ SinkInv /\ [Next]_vars => SinkInv'
  <2> SUFFICES ASSUME TypeOK, SinkInv, [Next]_vars PROVE SinkInv'
    OBVIOUS
  <2>0. UNCHANGED <<sinkvars, history>> => SinkInv'
    BY DEF SinkInv, sinkvars, history
  <2>1. ASSUME NEW m \in Mote, NEW volt \in Voltage, BatteryRead(m, volt)
        PROVE  SinkInv'
    BY <2>0, <2>1 DEF BatteryRead
  <2>2. ASSUME NEW m \in Mote, NEW car \in Car, BeaconReceived(m, car)
        PROVE  SinkInv'
    BY <2>0, <2>2 DEF BeaconReceived
  <2>3. ASSUME NEW m \in Mote, ElectionTimerFired(m) PROVE SinkInv'
    BY <2>3, ElectionKeepsSinkInv
  <2>4. ASSUME NEW m \in Mote, Reboot(m) PROVE SinkInv'
    <3>1. m # Root /\ m \in Mote \ {Root}
      BY <2>4 DEF Reboot
    <3>2. /\ score' = [score EXCEPT ![m] = 0]
          /\ sink_id' = [sink_id EXCEPT ![m] = m]
          /\ sink_score' = [sink_score EXCEPT ![m] = 0]
          /\ elecsfilter' = [elecsfilter EXCEPT ![m] = [n \in Mote |-> 0]]
          /\ outbid' = [outbid EXCEPT ![m] = FALSE]
          /\ heard' = [heard EXCEPT ![m] = [n \in Mote |-> Nothing]]
      BY <2>4 DEF Reboot
    <3>3. SinkKnowsItself' /\ \A k \in Mote : score'[k] <= sink_score'[k]
      BY <3>2 DEF TypeOK, SinkInv
    <3>4. ASSUME NEW k \in Mote \ {Root}
          PROVE  /\ \A n \in Mote : heard'[k][n].iter = elecsfilter'[k][n]
                 /\ RemembersSink(k)'
      <4>1. CASE k = m
        <5>1. /\ heard'[m] = [n \in Mote |-> Nothing]
              /\ elecsfilter'[m] = [n \in Mote |-> 0]
              /\ sink_id'[m] = m
          BY <3>2 DEF TypeOK
        <5>2. QED BY <4>1, <5>1 DEF Nothing
      <4>2. CASE k # m
        <5>1. /\ sink_id'[k] = sink_id[k]
              /\ sink_score'[k] = sink_score[k]
              /\ outbid'[k] = outbid[k]
              /\ heard'[k] = heard[k]
              /\ elecsfilter'[k] = elecsfilter[k]
          BY <3>2, <4>2 DEF TypeOK
        <5>2. QED BY <5>1 DEF SinkInv
      <4>3. QED BY <4>1, <4>2
    <3>5. QED BY <3>3, <3>4 DEF SinkInv
  <2>5. ASSUME NEW letter \in mail, ElectionReceived(letter) PROVE SinkInv'
    <3> DEFINE m == letter.to
               msg == letter.msg
    <3>1. m \in Mote /\ msg \in ElectionMsg
      BY DEF TypeOK
    <3>2. CASE RootHearsClaim(msg)
      <4>1. sink_id' = [sink_id EXCEPT ![Root] = msg.node_id]
        BY <3>2 DEF RootHearsClaim
      <4>2. UNCHANGED <<score, sink_score, elecsfilter, outbid, heard>>
        BY <3>2 DEF RootHearsClaim, history
      <4>3. QED BY <4>1, <4>2 DEF TypeOK, SinkInv
    <3>3. CASE m # Root /\ ~Stale(m, msg) /\ MoteHears(m, msg)
      BY <3>1, <3>3, HearingKeepsSinkInv
    <3>4. CASE UNCHANGED <<sinkvars, rootvars, history>>
      BY <2>0, <3>4
    <3>5. QED BY <2>5, <3>2, <3>3, <3>4 DEF ElectionReceived
  <2>6. CASE BroadTimerFired
    BY <2>0, <2>6 DEF BroadTimerFired
  <2>7. CASE Lose
    BY <2>0, <2>7 DEF Lose
  <2>8. CASE UNCHANGED vars
    BY <2>0, <2>8 DEF vars
  <2>9. QED BY <2>1, <2>2, <2>3, <2>4, <2>5, <2>6, <2>7, <2>8 DEF Next
<1>3. SinkInv => SinkNoWorse
  BY DEF SinkInv, SinkNoWorse
<1>4. QED BY <1>1, <1>2, <1>3, TypeCorrect, PTL DEF Spec

(* The strengthening that makes BroadcastComplete inductive: behind index   *)
(* every valid entry is told, the timer stops only past the end of the     *)
(* table, and the root follows the claim it passes on or itself.           *)
BroadcastInv ==
  sinkmsg # NoMessage =>
    /\ \A i \in Entry : i < index /\ RoutingTable[i + 1].valid =>
         i \in told \/ RoutingTable[i + 1].node = sinkmsg.node_id
    /\ ~broad_timer => index > Len(RoutingTable)
    /\ sink_id[Root] \in {sinkmsg.node_id, Root}

(* A round of BroadTimer that ends has told every valid entry but the new  *)
(* sink's, for a routing table of any length and content.                  *)
THEOREM BroadcastsComplete == Spec => []BroadcastComplete
<1>1. Init => BroadcastInv
  BY DEF Init, BroadcastInv
<1>2. TypeOK /\ BroadcastInv /\ [Next]_vars => BroadcastInv'
  <2> SUFFICES ASSUME TypeOK, BroadcastInv, [Next]_vars PROVE BroadcastInv'
    OBVIOUS
  <2>0. Len(RoutingTable) \in Nat /\ Entry \subseteq Nat
    BY TableAssumption DEF Entry
  <2>1. ASSUME NEW m \in Mote, NEW volt \in Voltage, BatteryRead(m, volt)
        PROVE  BroadcastInv'
    BY <2>1 DEF BatteryRead, BroadcastInv, sinkvars, rootvars
  <2>2. ASSUME NEW m \in Mote, NEW car \in Car, BeaconReceived(m, car)
        PROVE  BroadcastInv'
    BY <2>2 DEF BeaconReceived, BroadcastInv, sinkvars, rootvars
  <2>3. ASSUME NEW m \in Mote, ElectionTimerFired(m) PROVE BroadcastInv'
    <3>1. \/ sink_id' = sink_id
          \/ sink_id' = [sink_id EXCEPT ![m] = m]
      BY <2>3 DEF ElectionTimerFired
    <3>2. sink_id'[Root] \in {sink_id[Root], Root}
      BY <3>1, MoteAssumption DEF TypeOK
    <3>3. UNCHANGED rootvars
      BY <2>3 DEF ElectionTimerFired
    <3>4. QED BY <3>2, <3>3 DEF BroadcastInv, rootvars
  <2>4. ASSUME NEW m \in Mote, Reboot(m) PROVE BroadcastInv'
    <3>1. sink_id'[Root] = sink_id[Root] /\ UNCHANGED rootvars
      BY <2>4, MoteAssumption DEF Reboot, TypeOK
    <3>2. QED BY <3>1 DEF BroadcastInv, rootvars
  <2>5. ASSUME NEW letter \in mail, ElectionReceived(letter)
        PROVE  BroadcastInv'
    <3> DEFINE m == letter.to
               msg == letter.msg
    <3>1. m \in Mote
      BY DEF TypeOK
    <3>2. CASE RootHearsClaim(msg)
      BY <2>0, <3>2, MoteAssumption DEF RootHearsClaim, TypeOK, BroadcastInv
    <3>3. CASE m # Root /\ MoteHears(m, msg)
      <4>1. sink_id'[Root] = sink_id[Root] /\ UNCHANGED rootvars
        BY <3>1, <3>3, MoteAssumption DEF MoteHears, TypeOK
      <4>2. QED BY <4>1 DEF BroadcastInv, rootvars
    <3>4. CASE UNCHANGED <<sinkvars, rootvars, history>>
      BY <3>4 DEF BroadcastInv, sinkvars, rootvars
    <3>5. QED BY <2>5, <3>2, <3>3, <3>4 DEF ElectionReceived
  <2>6. CASE BroadTimerFired
    <3> SUFFICES ASSUME sinkmsg # NoMessage
                 PROVE  BroadcastInv'
      BY <2>6 DEF BroadTimerFired, BroadcastInv
    <3>1. sink_id[Root] \in {sinkmsg.node_id, Root}
      BY DEF BroadcastInv
    <3>2. ASSUME NEW j \in Entry, j >= index, RoutingTable[j + 1].valid,
                 j \notin Remaining
          PROVE  RoutingTable[j + 1].node = sinkmsg.node_id
      <4>1. RoutingTable[j + 1].node = sink_id[Root]
        BY <3>2 DEF Remaining
      <4>2. RoutingTable[j + 1].node # Root
        BY EntryType
      <4>3. QED BY <3>1, <4>1, <4>2
    <3>3. index \in Nat
      BY <2>0 DEF TypeOK
    <3>4. CASE Remaining = {}
      <4>1. /\ index' = Len(RoutingTable) + 1
            /\ UNCHANGED <<told, sinkmsg, sink_id>>
        BY <2>6, <3>4 DEF BroadTimerFired, sinkvars
      <4>2. ASSUME NEW j \in Entry, RoutingTable[j + 1].valid
            PROVE  j \in told \/ RoutingTable[j + 1].node = sinkmsg.node_id
        <5>1. CASE j < index
          BY <4>2, <5>1 DEF BroadcastInv
        <5>2. CASE j >= index
          BY <3>2, <3>4, <4>2, <5>2
        <5>3. QED BY <2>0, <3>3, <5>1, <5>2
      <4>3. QED BY <2>0, <3>1, <4>1, <4>2 DEF BroadcastInv
    <3>5. CASE Remaining # {}
      <4> DEFINE i == CHOOSE j \in Remaining : \A k \in Remaining : j <= k
      <4>1. i \in Remaining /\ \A k \in Remaining : i <= k
        BY <3>5, NextEntry
      <4>2. /\ index' = i + 1
            /\ told' = told \cup {i}
            /\ broad_timer'
            /\ UNCHANGED <<sinkmsg, sink_id>>
        BY <2>6, <3>5 DEF BroadTimerFired, sinkvars
      <4> HIDE DEF i
      <4>3. i \in Nat
        BY <2>0, <4>1 DEF Remaining
      <4>4. ASSUME NEW j \in Entry, j < i + 1, RoutingTable[j + 1].valid
            PROVE  j \in told' \/ RoutingTable[j + 1].node = sinkmsg.node_id
        <5>1. CASE j < index
          BY <4>2, <4>4, <5>1 DEF BroadcastInv
        <5>2. CASE j >= index /\ j = i
          BY <4>2, <5>2
        <5>3. CASE j >= index /\ j # i
          <6>1. j \notin Remaining
            BY <2>0, <4>1, <4>3, <4>4, <5>3
          <6>2. QED BY <3>2, <4>4, <5>3, <6>1
        <5>4. QED BY <2>0, <3>3, <5>1, <5>2, <5>3
      <4>5. QED BY <3>1, <4>2, <4>4 DEF BroadcastInv
    <3>6. QED BY <3>4, <3>5
  <2>7. CASE Lose
    BY <2>7 DEF Lose, BroadcastInv, sinkvars, rootvars
  <2>8. CASE UNCHANGED vars
    BY <2>8 DEF vars, BroadcastInv, sinkvars, rootvars
  <2>9. QED BY <2>1, <2>2, <2>3, <2>4, <2>5, <2>6, <2>7, <2>8 DEF Next
<1>3. TypeOK /\ BroadcastInv => BroadcastComplete
  <2> SUFFICES ASSUME TypeOK, BroadcastInv, ~broad_timer,
                      sinkmsg # NoMessage,
                      NEW i \in Entry, RoutingTable[i + 1].valid
               PROVE  i \in told \/ RoutingTable[i + 1].node = sinkmsg.node_id
    BY DEF BroadcastComplete
  <2>1. index > Len(RoutingTable)
    BY DEF BroadcastInv
  <2>2. index \in Nat
    BY TableLength DEF TypeOK
  <2>3. i < index
    BY <2>1, <2>2, TableLength, EntryType
  <2>4. QED BY <2>3 DEF BroadcastInv
<1>4. QED BY <1>1, <1>2, <1>3, TypeCorrect, PTL DEF Spec
=============================================================================
