---------------------------- MODULE SinkElection ----------------------------
(***************************************************************************)
(* How building tags choose the sink, the one mote that collects records   *)
(* and hands them to passing vehicles: BuildingTagC.nc, ElectionTimer,     *)
(* ElectionUDP, BroadTimer and the counters that make up a mote's score.   *)
(* A mote that claims the role tells the RPL root, and the root tells one  *)
(* entry of its routing table after the other.                             *)
(*                                                                         *)
(* RootElection is over: Root is the RPL root, and every mote knows it.    *)
(* election_timer_started is left out: SplitControl.startDone sets it      *)
(* before the radio delivers the first message, so its tests never differ. *)
(* ResetBeaconTimer is left out: no code starts it.                        *)
(***************************************************************************)
EXTENDS Naturals, Sequences, FiniteSets

CONSTANTS
  Mote,          \* the ids of the motes
  Root,          \* the RPL root
  RoutingTable,  \* the root's ForwardingTable: [valid, node] per entry
  Car,           \* ids of the vehicles (cars has CAR_MAX_ID entries)
  Voltage,       \* readings of the battery sensor
  BE_NORMALIZE, CAR_NORMALIZE, BV_NORMALIZE,
  NoMessage,     \* the root has not heard of a sink yet
  MaxBeacons,    \* bound: beacons a mote counts
  MaxIter,       \* bound: elections each mote runs
  MaxInFlight    \* bound: election messages on their way; more are lost

ASSUME MoteAssumption == Mote \subseteq Nat /\ Root \in Mote
ASSUME TableAssumption ==
  RoutingTable \in Seq([valid : BOOLEAN, node : Mote \ {Root}])
ASSUME SensorAssumption == Voltage \subseteq Nat /\ 0 \in Voltage
ASSUME NormalizeAssumption ==
  /\ BE_NORMALIZE \in Nat \ {0}
  /\ CAR_NORMALIZE \in Nat
  /\ BV_NORMALIZE \in Nat \ {0}
ASSUME BoundAssumption ==
  /\ MaxBeacons \in Nat
  /\ MaxIter \in [Mote -> Nat]
  /\ MaxInFlight \in Nat

VARIABLES
  battery_voltage, beacon_count, car_count, cars,  \* what the score is made of
  score,           \* the score computed at the last election
  sink_id,         \* the sink a mote follows
  sink_score,      \* the score it remembers for the sink
  election_iter,   \* elections run so far
  elecsfilter,     \* elecsfilter[m][n]: the last election of n that m heard
  sinkmsg,         \* the root: the claim it is passing on
  index,           \* the root: the next entry of the routing table
  broad_timer,     \* the root: BroadTimer is running
  mail,            \* election messages on their way
  told,            \* history: entries that got sinkmsg since it came
  outbid,          \* history: a mote's sink has announced less than its score
  heard            \* history: heard[m][n]: the newest election of n that m got

counters == <<battery_voltage, beacon_count, car_count, cars>>
sinkvars == <<score, sink_id, sink_score, election_iter, elecsfilter>>
rootvars == <<sinkmsg, index, broad_timer, told>>
history == <<outbid, heard>>
vars == <<counters, sinkvars, rootvars, mail, history>>

Entry == 0 .. Len(RoutingTable) - 1
ElectionMsg == [node_id : Mote, score : Nat, iter : Nat]
Nothing == [score |-> 0, iter |-> 0]

TypeOK ==
  /\ battery_voltage \in [Mote -> Voltage]
  /\ beacon_count \in [Mote -> Nat]
  /\ car_count \in [Mote -> Nat]
  /\ cars \in [Mote -> [Car -> Nat]]
  /\ score \in [Mote -> Nat]
  /\ sink_id \in [Mote -> Mote]
  /\ sink_score \in [Mote -> Nat]
  /\ election_iter \in [Mote -> Nat]
  /\ elecsfilter \in [Mote -> [Mote -> Nat]]
  /\ sinkmsg \in ElectionMsg \cup {NoMessage}
  /\ index \in 0 .. Len(RoutingTable) + 1
  /\ broad_timer \in BOOLEAN
  /\ broad_timer => sinkmsg \in ElectionMsg
  /\ mail \subseteq [to : Mote, msg : ElectionMsg]
  /\ told \subseteq Entry
  /\ outbid \in [Mote -> BOOLEAN]
  /\ heard \in [Mote -> [Mote -> [score : Nat, iter : Nat]]]

-----------------------------------------------------------------------------
(* Boot.booted: everyone is its own sink, with nothing counted. *)
Init ==
  /\ battery_voltage = [m \in Mote |-> 0]
  /\ beacon_count = [m \in Mote |-> 0]
  /\ car_count = [m \in Mote |-> 0]
  /\ cars = [m \in Mote |-> [c \in Car |-> 0]]
  /\ score = [m \in Mote |-> 0]
  /\ sink_id = [m \in Mote |-> m]
  /\ sink_score = [m \in Mote |-> 0]
  /\ election_iter = [m \in Mote |-> 0]
  /\ elecsfilter = [m \in Mote |-> [n \in Mote |-> 0]]
  /\ sinkmsg = NoMessage
  /\ index = 0
  /\ broad_timer = FALSE
  /\ mail = {}
  /\ told = {}
  /\ outbid = [m \in Mote |-> FALSE]
  /\ heard = [m \in Mote |-> [n \in Mote |-> Nothing]]

(* ElectionUDP.sendto *)
Posted(letters) ==
  IF Cardinality(letters) <= MaxInFlight THEN letters ELSE mail

-----------------------------------------------------------------------------
(* BatteryVoltageRead.readDone; a failed reading changes nothing. *)
BatteryRead(m, volt) ==
  /\ battery_voltage' = [battery_voltage EXCEPT ![m] = volt]
  /\ UNCHANGED <<beacon_count, car_count, cars, sinkvars, rootvars, mail,
                 history>>

(* BeaconRecvUDP.recvfrom counts every beacon, and every car once. *)
BeaconReceived(m, car) ==
  /\ beacon_count[m] < MaxBeacons
  /\ beacon_count' = [beacon_count EXCEPT ![m] = @ + 1]
  /\ car_count' = [car_count EXCEPT
                     ![m] = IF cars[m][car] = 0 THEN @ + 1 ELSE @]
  /\ cars' = [cars EXCEPT ![m][car] = beacon_count[m] + 1]
  /\ UNCHANGED <<battery_voltage, sinkvars, rootvars, mail, history>>

(* The score of a mote, in the integer arithmetic of ElectionTimer.fired. *)
Score(m) ==
  (2 * beacon_count[m]) \div BE_NORMALIZE
    + 3 * car_count[m] * CAR_NORMALIZE
    + battery_voltage[m] \div BV_NORMALIZE

(* "if I am the sink, but my score drops, or my score as good as the sink, *)
(* and my id <= sink_id, or my score is better than sink score"            *)
Claims(m, new) ==
  \/ new < sink_score[m] /\ sink_id[m] = m
  \/ new = sink_score[m] /\ sink_id[m] >= m
  \/ new > sink_score[m]

(* ElectionTimer.fired: compute the score; a mote that claims the role     *)
(* tells the root, getDodagId, be that itself.                             *)
ElectionTimerFired(m) ==
  /\ election_iter[m] < MaxIter[m]
  /\ election_iter' = [election_iter EXCEPT ![m] = @ + 1]
  /\ LET new == Score(m)
         claim == [node_id |-> m, score |-> new, iter |-> election_iter[m] + 1]
     IN  /\ score' = [score EXCEPT ![m] = new]
         /\ IF Claims(m, new)
              THEN /\ sink_score' = [sink_score EXCEPT ![m] = new]
                   /\ sink_id' = [sink_id EXCEPT ![m] = m]
                   /\ mail' = Posted(mail \cup {[to |-> Root, msg |-> claim]})
                   /\ outbid' = [outbid EXCEPT ![m] = FALSE]
              ELSE UNCHANGED <<sink_score, sink_id, mail, outbid>>
  /\ UNCHANGED <<counters, elecsfilter, rootvars, heard>>

-----------------------------------------------------------------------------
(* ElectionUDP.recvfrom on the root: whoever claims the role last has it;  *)
(* the scores are not compared, and sink_score is left as it was.          *)
RootHearsClaim(msg) ==
  /\ sinkmsg' = msg
  /\ sink_id' = [sink_id EXCEPT ![Root] = msg.node_id]
  /\ index' = 0
  /\ broad_timer' = TRUE
  /\ told' = {}
  /\ UNCHANGED <<score, sink_score, election_iter, elecsfilter, history>>

(* Faulty variant: only own claims are ignored. *)
Stale_NoFilter(m, msg) == msg.node_id = m

(* ElectionUDP.recvfrom on any other mote: own claims and elections it has *)
(* already heard of are ignored, a sink at least as good is accepted.      *)
Stale(m, msg) == msg.node_id = m \/ msg.iter <= elecsfilter[m][msg.node_id]

MoteHears(m, msg) ==
  /\ elecsfilter' = [elecsfilter EXCEPT ![m][msg.node_id] = msg.iter]
  /\ IF score[m] <= msg.score
       THEN /\ sink_id' = [sink_id EXCEPT ![m] = msg.node_id]
            /\ sink_score' = [sink_score EXCEPT ![m] = msg.score]
       ELSE UNCHANGED <<sink_id, sink_score>>
  /\ outbid' = [outbid EXCEPT ![m] = /\ score[m] > msg.score
                                     /\ @ \/ sink_id[m] = msg.node_id]
  /\ heard' = [heard EXCEPT ![m][msg.node_id] =
                 IF msg.iter > @.iter
                   THEN [score |-> msg.score, iter |-> msg.iter] ELSE @]
  /\ UNCHANGED <<score, election_iter, rootvars>>

ElectionReceived(letter) ==
  LET m == letter.to
      msg == letter.msg
  IN  /\ mail' = mail \ {letter}
      /\ UNCHANGED counters
      /\ \/ m = Root /\ RootHearsClaim(msg)
         \/ m # Root /\ ~Stale(m, msg) /\ MoteHears(m, msg)
         \/ m # Root /\ Stale(m, msg) /\ UNCHANGED <<sinkvars, rootvars, history>>

-----------------------------------------------------------------------------
(* Faulty variant: the entry after the one that was told is skipped. *)
Remaining_SkipsOne ==
  {i \in Entry : i > index /\ RoutingTable[i + 1].valid
                   /\ RoutingTable[i + 1].node # sink_id[Root]}

(* The entries of the routing table that are still to be told. *)
Remaining ==
  {i \in Entry : i >= index /\ RoutingTable[i + 1].valid
                   /\ RoutingTable[i + 1].node # sink_id[Root]}

(* BroadTimer.fired: pass sinkmsg on to the next entry, and come back in   *)
(* 20 ms until the table is exhausted.                                     *)
BroadTimerFired ==
  /\ broad_timer
  /\ IF Remaining = {}
       THEN /\ broad_timer' = FALSE
            /\ index' = Len(RoutingTable) + 1
            /\ UNCHANGED <<mail, told>>
       ELSE LET i == CHOOSE j \in Remaining : \A k \in Remaining : j <= k
            IN  /\ mail' = Posted(mail \cup {[to  |-> RoutingTable[i + 1].node,
                                              msg |-> sinkmsg]})
                /\ told' = told \cup {i}
                /\ index' = i + 1
                /\ UNCHANGED broad_timer
  /\ UNCHANGED <<counters, sinkvars, sinkmsg, history>>

(* The network loses a message. *)
Lose ==
  /\ \E letter \in mail : mail' = mail \ {letter}
  /\ UNCHANGED <<counters, sinkvars, rootvars, history>>

(* A mote other than the root restarts. *)
Reboot(m) ==
  /\ m # Root
  /\ battery_voltage' = [battery_voltage EXCEPT ![m] = 0]
  /\ beacon_count' = [beacon_count EXCEPT ![m] = 0]
  /\ car_count' = [car_count EXCEPT ![m] = 0]
  /\ cars' = [cars EXCEPT ![m] = [c \in Car |-> 0]]
  /\ score' = [score EXCEPT ![m] = 0]
  /\ sink_id' = [sink_id EXCEPT ![m] = m]
  /\ sink_score' = [sink_score EXCEPT ![m] = 0]
  /\ election_iter' = [election_iter EXCEPT ![m] = 0]
  /\ elecsfilter' = [elecsfilter EXCEPT ![m] = [n \in Mote |-> 0]]
  /\ outbid' = [outbid EXCEPT ![m] = FALSE]
  /\ heard' = [heard EXCEPT ![m] = [n \in Mote |-> Nothing]]
  /\ UNCHANGED <<rootvars, mail>>

Next ==
  \/ \E m \in Mote : \/ \E volt \in Voltage : BatteryRead(m, volt)
                     \/ \E car \in Car : BeaconReceived(m, car)
                     \/ ElectionTimerFired(m)
                     \/ Reboot(m)
  \/ \E letter \in mail : ElectionReceived(letter)
  \/ BroadTimerFired
  \/ Lose

Spec == Init /\ [][Next]_vars
-----------------------------------------------------------------------------
(* No mote but the root follows a sink that was worse than itself the last *)
(* time it heard of it: the newest election of its sink that reached it,   *)
(* by the number the sink gave it, names a score that is at least the one  *)
(* the mote computed for itself, however claims overtake each other on     *)
(* the way to the root and from it, and whoever restarts.  Except where    *)
(* the sink has announced less than the mote's score since (see            *)
(* OutbidderIsSink); and the root follows whoever claimed last, without    *)
(* comparing (line 491, and see RootKnowsSinkScore).                       *)
SinkNoWorse ==
  \A m \in Mote \ {Root} :
    sink_id[m] # m /\ ~outbid[m] => score[m] <= heard[m][sink_id[m]].score

(* A mote other than the root that is its own sink has announced exactly   *)
(* the score it has.                                                       *)
SinkKnowsItself ==
  \A m \in Mote \ {Root} : sink_id[m] = m => sink_score[m] = score[m]

(* BroadTimer stops only after every valid entry of the routing table but  *)
(* the new sink's was told, though sink_id and index may be changed by a   *)
(* new claim or the root's own election at any time during the round.      *)
BroadcastComplete ==
  ~broad_timer /\ sinkmsg # NoMessage =>
    \A i \in Entry : RoutingTable[i + 1].valid =>
      i \in told \/ RoutingTable[i + 1].node = sinkmsg.node_id

(* "i am the actual sink" (line 530): a mote whose sink announces a score  *)
(* below its own is the sink from then on.  It is not: it goes on following *)
(* the sink, and as sink_score keeps the old, higher score, its own        *)
(* ElectionTimer.fired does not claim the role either.                     *)
OutbidderIsSink == \A m \in Mote \ {Root} : outbid[m] => sink_id[m] = m

(* "my score as good as the sink, and my id <= sink_id, or my score is     *)
(* better than sink score" (line 282): the score a mote compares with is   *)
(* the one its sink announced.  On the root it is its own last claim.      *)
RootKnowsSinkScore ==
  sinkmsg # NoMessage /\ sink_id[Root] = sinkmsg.node_id
    => sink_score[Root] = sinkmsg.score
=============================================================================
