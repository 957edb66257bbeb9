---------------------------- MODULE RootElection ----------------------------
(***************************************************************************)
(* How building tags agree on the root of the RPL tree, BuildingTagC.nc:   *)
(* RootSelectionTimer.fired announces a root every 3 seconds or ages the   *)
(* root a mote follows, RootSelectUDP.recvfrom handles the announcements   *)
(* of others.  The lowest id is meant to win.  Handlers are TinyOS tasks,  *)
(* so each is one action; announcements are link-local multicasts that     *)
(* reach the motes in radio range late, out of order or not at all.        *)
(***************************************************************************)
EXTENDS Naturals, FiniteSets

CONSTANTS
  Mote,          \* the ids of the motes (TOS_NODE_ID)
  Neighbour,     \* Neighbour[m]: the motes that hear m
  NO_ROOT,       \* 999: this mote follows no root
  MAX_AGE,       \* a mote gives its root up when root_age exceeds this (10)
  SEQ_MOD,       \* root_sequence is a uint16_t: 2^16
  MaxInFlight    \* bound: announcements in the air; more are lost

ASSUME MoteAssumption ==
  Mote \subseteq Nat /\ NO_ROOT \in Nat /\ \A m \in Mote : m < NO_ROOT
ASSUME NeighbourAssumption ==
  /\ Neighbour \in [Mote -> SUBSET Mote]
  /\ \A m \in Mote : m \notin Neighbour[m]
ASSUME BoundAssumption ==
  MAX_AGE \in Nat /\ SEQ_MOD \in Nat \ {0} /\ MaxInFlight \in Nat

VARIABLES
  rpl_root_addr,  \* the root each mote follows
  is_rpl_root,    \* RootControl: the mote is the root of an RPL tree
  root_age,       \* ticks counted against the root a mote follows
  root_sequence,  \* the number of the next announcement, or the last heard
  air,            \* announcements on their way
  silence         \* history: ticks since a mote last heard its root

motevars == <<rpl_root_addr, is_rpl_root, root_age, root_sequence>>
vars == <<motevars, air, silence>>

Seq16 == 0 .. SEQ_MOD - 1
Announcement == [to : Mote, root_id : Mote, seq : Seq16]

TypeOK ==
  /\ rpl_root_addr \in [Mote -> Mote \cup {NO_ROOT}]
  /\ is_rpl_root \in [Mote -> BOOLEAN]
  /\ root_age \in [Mote -> 0 .. MAX_AGE]
  /\ root_sequence \in [Mote -> Seq16]
  /\ air \subseteq Announcement
  /\ silence \in [Mote -> 0 .. MAX_AGE + 1]

-----------------------------------------------------------------------------
(* Boot.booted *)
Init ==
  /\ rpl_root_addr = [m \in Mote |-> NO_ROOT]
  /\ is_rpl_root = [m \in Mote |-> FALSE]
  /\ root_age = [m \in Mote |-> 0]
  /\ root_sequence = [m \in Mote |-> 0]
  /\ air = {}
  /\ silence = [m \in Mote |-> 0]

(* RootSelectUDP.sendto the multicast address. *)
Announcements(m, root, number) ==
  [to : Neighbour[m], root_id : {root}, seq : {number}]

Carry(msgs) == IF Cardinality(msgs) <= MaxInFlight THEN msgs ELSE air

(* RootSelectionTimer.fired of a mote without a root, which becomes one,   *)
(* or of a mote that is one: it announces itself.                          *)
BecomeOrStayRoot(m) ==
  /\ rpl_root_addr[m] \in {NO_ROOT, m}
  /\ is_rpl_root' = [is_rpl_root EXCEPT
                       ![m] = @ \/ rpl_root_addr[m] = NO_ROOT]
  /\ rpl_root_addr' = [rpl_root_addr EXCEPT ![m] = m]
  /\ root_sequence' = [root_sequence EXCEPT ![m] = (@ + 1) % SEQ_MOD]
  /\ air' = Carry(air \cup Announcements(m, m, root_sequence[m]))
  /\ silence' = [silence EXCEPT ![m] = 0]
  /\ UNCHANGED root_age

(* RootSelectionTimer.fired of a mote that follows another: it ages its    *)
(* root, and gives it up in the end.                                       *)
AgeRoot(m) ==
  /\ rpl_root_addr[m] \notin {NO_ROOT, m}
  /\ IF root_age[m] < MAX_AGE
       THEN /\ root_age' = [root_age EXCEPT ![m] = @ + 1]
            /\ UNCHANGED <<rpl_root_addr, root_sequence>>
       ELSE /\ root_age' = [root_age EXCEPT ![m] = 0]
            /\ rpl_root_addr' = [rpl_root_addr EXCEPT ![m] = NO_ROOT]
            /\ root_sequence' = [root_sequence EXCEPT ![m] = 0]
  /\ silence' = [silence EXCEPT ![m] = IF @ <= MAX_AGE THEN @ + 1 ELSE @]
  /\ UNCHANGED <<is_rpl_root, air>>

RootSelectionTimerFired(m) == BecomeOrStayRoot(m) \/ AgeRoot(m)

-----------------------------------------------------------------------------
(* RootSelectUDP.recvfrom.  Line 195 takes the sequence number of every    *)
(* message before any test, so the number a mote compares with at line 224 *)
(* is the one it has just received.                                        *)
TakeSequence(m, msg) ==
  root_sequence' = [root_sequence EXCEPT ![m] = msg.seq]

Adopt(m, msg) ==
  /\ rpl_root_addr' = [rpl_root_addr EXCEPT ![m] = msg.root_id]
  /\ root_age' = [root_age EXCEPT ![m] = 0]
  /\ silence' = [silence EXCEPT ![m] = 0]

Rebroadcast(m, msg) ==
  air' = Carry((air \ {msg}) \cup Announcements(m, msg.root_id, msg.seq))

Consume(msg) == air' = air \ {msg}

(* Faulty variants: a root that yields keeps its RPL tree, or forgets to   *)
(* follow the winner.                                                      *)
RootYields_KeepTree(m, msg) ==
  /\ rpl_root_addr[m] = m
  /\ msg.root_id < m
  /\ Adopt(m, msg)
  /\ Consume(msg)
  /\ UNCHANGED is_rpl_root

RootYields_NoAdopt(m, msg) ==
  /\ rpl_root_addr[m] = m
  /\ msg.root_id < m
  /\ is_rpl_root' = [is_rpl_root EXCEPT ![m] = FALSE]
  /\ Consume(msg)
  /\ UNCHANGED <<rpl_root_addr, root_age, silence>>

(* "there is another root, he wins" *)
RootYields(m, msg) ==
  /\ rpl_root_addr[m] = m
  /\ msg.root_id < m
  /\ is_rpl_root' = [is_rpl_root EXCEPT ![m] = FALSE]
  /\ Adopt(m, msg)
  /\ Consume(msg)

RootIgnores(m, msg) ==
  /\ rpl_root_addr[m] = m
  /\ msg.root_id >= m
  /\ Consume(msg)
  /\ UNCHANGED <<rpl_root_addr, is_rpl_root, root_age, silence>>

(* A mote without a root takes the first it hears of, and tells nobody. *)
FirstRoot(m, msg) ==
  /\ rpl_root_addr[m] = NO_ROOT
  /\ Adopt(m, msg)
  /\ Consume(msg)
  /\ UNCHANGED is_rpl_root

(* Faulty variant: the announcement of a worse root is believed. *)
Impostor_Believed(m, msg) ==
  /\ rpl_root_addr[m] \notin {NO_ROOT, m}
  /\ msg.root_id > rpl_root_addr[m]
  /\ Adopt(m, msg)
  /\ Consume(msg)
  /\ UNCHANGED is_rpl_root

(* "this guy is an impostor" *)
Impostor(m, msg) ==
  /\ rpl_root_addr[m] \notin {NO_ROOT, m}
  /\ msg.root_id > rpl_root_addr[m]
  /\ Consume(msg)
  /\ UNCHANGED <<rpl_root_addr, is_rpl_root, root_age, silence>>

(* "i know this guy, so rebroad": the test of line 224 compares the number *)
(* of the message with root_sequence, which line 195 has set to it.        *)
KnownRoot(m, msg) ==
  /\ rpl_root_addr[m] \notin {NO_ROOT, m}
  /\ msg.root_id = rpl_root_addr[m]
  /\ IF msg.seq > root_sequence'[m]
       THEN /\ root_age' = [root_age EXCEPT ![m] = 0]
            /\ Rebroadcast(m, msg)
       ELSE /\ Consume(msg)
            /\ UNCHANGED root_age
  /\ silence' = [silence EXCEPT ![m] = 0]
  /\ UNCHANGED <<rpl_root_addr, is_rpl_root>>

(* "i have a root, but this guy wins" *)
BetterRoot(m, msg) ==
  /\ rpl_root_addr[m] \notin {NO_ROOT, m}
  /\ msg.root_id < rpl_root_addr[m]
  /\ Adopt(m, msg)
  /\ Rebroadcast(m, msg)
  /\ UNCHANGED is_rpl_root

RootSelectReceived(m, msg) ==
  /\ msg \in air
  /\ msg.to = m
  /\ TakeSequence(m, msg)
  /\ \/ RootYields(m, msg)
     \/ RootIgnores(m, msg)
     \/ FirstRoot(m, msg)
     \/ Impostor(m, msg)
     \/ KnownRoot(m, msg)
     \/ BetterRoot(m, msg)

-----------------------------------------------------------------------------
(* The radio loses an announcement. *)
Lose ==
  /\ \E msg \in air : Consume(msg)
  /\ UNCHANGED <<motevars, silence>>

(* A mote restarts: Boot.booted again, and RPL forgets its tree. *)
Reboot(m) ==
  /\ rpl_root_addr' = [rpl_root_addr EXCEPT ![m] = NO_ROOT]
  /\ is_rpl_root' = [is_rpl_root EXCEPT ![m] = FALSE]
  /\ root_age' = [root_age EXCEPT ![m] = 0]
  /\ root_sequence' = [root_sequence EXCEPT ![m] = 0]
  /\ silence' = [silence EXCEPT ![m] = 0]
  /\ UNCHANGED air

Receive(m) == \E msg \in air : RootSelectReceived(m, msg)

Next ==
  \/ \E m \in Mote : \/ RootSelectionTimerFired(m)
                     \/ Receive(m)
                     \/ Reboot(m)
  \/ Lose

Spec == Init /\ [][Next]_vars

(* The timer of every mote restarts itself (line 187).  A root announces   *)
(* itself for as long as it is one, and an announcement of another mote    *)
(* that is sent again and again is heard some time.                        *)
FairSpec ==
  /\ Spec
  /\ \A m \in Mote : WF_vars(RootSelectionTimerFired(m))
  /\ \A m \in Mote, root \in Mote :
       m # root => SF_vars(\E msg \in air : /\ msg.root_id = root
                                            /\ RootSelectReceived(m, msg))
-----------------------------------------------------------------------------
(* A mote that runs an RPL tree follows itself: on every path on which     *)
(* RootSelectUDP.recvfrom or the aging of RootSelectionTimer.fired points  *)
(* a mote to another root, its own tree is gone.                           *)
TreeOnlyAtRoot == \A m \in Mote : is_rpl_root[m] => rpl_root_addr[m] = m

(* A mote changes to a worse root only by way of having none: whatever the *)
(* order in which old and new announcements arrive, an impostor cannot     *)
(* take over a mote that follows a better root.                            *)
NeverWorseRoot ==
  [][\A m \in Mote : rpl_root_addr'[m] > rpl_root_addr[m]
                       => rpl_root_addr'[m] = NO_ROOT]_vars

(* Two roots in radio range do not both last: while the better one stays a *)
(* root, the other gives up its tree again and again, however many         *)
(* announcements are lost.                                                 *)
WorseRootYields ==
  \A m, n \in Mote :
    n < m /\ m \in Neighbour[n]
      => (<>[]is_rpl_root[n] => []<>~is_rpl_root[m])

(* While the best mote of all stays a root, the motes in its radio range   *)
(* return to it again and again, whatever they followed in between: aging  *)
(* the root and losing to a reboot never cut a mote off.                   *)
BestRootFollowed ==
  \A n \in Mote : (\A m \in Mote : n <= m) =>
    (<>[]is_rpl_root[n]
       => \A m \in Neighbour[n] : []<>(rpl_root_addr[m] = n))

(* "haven't heard from the root in a while" (line 177): root_age counts no *)
(* more ticks than have passed since the mote last heard its root.  It     *)
(* does: hearing the root that is known never resets it.                   *)
AgeIsSilence == \A m \in Mote : root_age[m] <= silence[m]

(* "i know this guy, so rebroad" (line 222): a mote sends on what it hears *)
(* from the root it follows, when the number is newer than any it heard    *)
(* before.  It never does: line 195 has overwritten the number it would    *)
(* have to compare with.                                                   *)
KnownRootForwarded ==
  [][\A msg \in air :
       ( /\ RootSelectReceived(msg.to, msg)
         /\ msg.root_id = rpl_root_addr[msg.to]
         /\ msg.root_id # msg.to
         /\ msg.seq > root_sequence[msg.to] )
       => Announcements(msg.to, msg.root_id, msg.seq) \subseteq air']_vars
=============================================================================
