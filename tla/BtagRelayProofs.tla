-------------------------- MODULE BtagRelayProofs --------------------------
(***************************************************************************)
(* Proofs about BtagRelay for any number of routers, tags, contents,       *)
(* programs, restarts and expired bundles.                                 *)
(***************************************************************************)
EXTENDS BtagRelay, TLAPS

(* A cache, with the record of each tag at the tag's index. *)
Cache == {c \in [Mote -> Record \cup {Unknown}] :
            \A m \in Mote : c[m] # Unknown => c[m].id = m}

LEMMA CacheType ==
  TypeOK => \A r \in Router : allbtags[r] \in Cache
BY DEF TypeOK, Cache

LEMMA CacheSet ==
  ASSUME NEW c \in Cache, NEW rec \in Record
  PROVE  /\ [c EXCEPT ![rec.id] = rec] \in Cache
         /\ NoRecords \in Cache
<1>1. rec.id \in Mote
  BY DEF Record
<1>2. NoRecords \in Cache
  BY DEF NoRecords, Cache
<1>3. QED BY <1>1, <1>2 DEF Cache

(* What an action does to the caches, put back into TypeOK's form. *)
LEMMA CachesType ==
  ASSUME NEW c \in [Router -> Cache]
  PROVE  /\ c \in [Router -> [Mote -> Record \cup {Unknown}]]
         /\ \A r \in Router, m \in Mote : c[r][m] # Unknown => c[r][m].id = m
BY DEF Cache

LEMMA CachesTyped == TypeOK => allbtags \in [Router -> Cache]
BY DEF TypeOK, Cache

LEMMA GroupType ==
  ASSUME TypeOK, NEW r \in Router, NEW rec \in Record, ToGroup(r, rec)
  PROVE  /\ dtn' \in [Router -> SUBSET Record]
         /\ sent' \subseteq Record
         /\ sent' = sent \cup {rec}
         /\ \A q \in Router : dtn'[q] \subseteq dtn[q] \cup {rec}
<1>1. PICK back \in BOOLEAN :
        dtn' = [q \in Router |-> IF q # r \/ back THEN dtn[q] \cup {rec}
                                                  ELSE dtn[q]]
  BY DEF ToGroup
<1>2. \A q \in Router : dtn[q] \subseteq Record
  BY DEF TypeOK
<1>3. QED BY <1>1, <1>2 DEF TypeOK, ToGroup

-----------------------------------------------------------------------------
LEMMA TypeInit == Init => TypeOK
<1> SUFFICES ASSUME Init PROVE TypeOK
  OBVIOUS
<1>1. 0 \in 0 .. MaxPrograms /\ 0 \in 0 .. MaxFaults
  BY BoundAssumption
<1>2. temp_btagloc \in [Mote -> Record] /\ \A m \in Mote : temp_btagloc[m].id = m
  BY BootAssumption DEF Init, Record
<1>3. QED BY <1>1, <1>2 DEF Init, TypeOK, NoRecords

LEMMA TypeStep == TypeOK /\ [Next]_vars => TypeOK'
<1> SUFFICES ASSUME TypeOK, [Next]_vars PROVE TypeOK'
  OBVIOUS
<1>1. ASSUME NEW rec \in Record, Programmed(rec) PROVE TypeOK'
  <2>1. rec.id \in Mote
    BY DEF Record
  <2>2. programs' \in 0 .. MaxPrograms
    BY <1>1, BoundAssumption DEF TypeOK, Programmed
  <2>3. QED BY <1>1, <2>1, <2>2 DEF TypeOK, Programmed, routervars
<1>2. ASSUME NEW m \in Mote, Report(m) PROVE TypeOK'
  BY <1>2 DEF TypeOK, Report, routervars
<1>3. ASSUME NEW rec \in air, ProxyForwards(rec) \/ LoseInAir(rec) PROVE TypeOK'
  BY <1>3 DEF TypeOK, ProxyForwards, LoseInAir, routervars
<1>4. ASSUME NEW received \in SUBSET InReach, NEW garbled \in SUBSET Datagram,
             CollectorForwards(received, garbled)
      PROVE  TypeOK'
  <2>1. [to : received, rec : {ppp}] \subseteq Datagram
    BY <1>4 DEF CollectorForwards, TypeOK, Datagram
  <2>2. mesh' \subseteq Datagram
    BY <1>4, <2>1 DEF TypeOK, CollectorForwards
  <2>3. faults' \in 0 .. MaxFaults
    BY <1>4, BoundAssumption DEF TypeOK, CollectorForwards
  <2>4. QED BY <1>4, <2>2, <2>3 DEF TypeOK, CollectorForwards, routervars
<1>5. ASSUME NEW r \in Router, NEW rec \in Record, HeardOnMesh(r, rec)
      PROVE  TypeOK'
  <2>1. allbtags' \in [Router -> Cache]
    <3>1. allbtags[r] \in Cache
      BY CacheType
    <3>2. [allbtags EXCEPT ![r][rec.id] = rec]
            = [allbtags EXCEPT ![r] = [allbtags[r] EXCEPT ![rec.id] = rec]]
      OBVIOUS
    <3>3. QED BY <1>5, <3>1, <3>2, CacheSet, CachesTyped DEF HeardOnMesh
  <2>2. dtn' \in [Router -> SUBSET Record] /\ sent' \subseteq Record
    BY <1>5, GroupType DEF HeardOnMesh, TypeOK
  <2>3. mesh' \subseteq Datagram
    BY <1>5 DEF HeardOnMesh, TypeOK
  <2>4. QED BY <1>5, <2>1, <2>2, <2>3, CachesType DEF TypeOK, HeardOnMesh
<1>6. ASSUME NEW r \in Router, TimerFires(r) PROVE TypeOK'
  BY <1>6 DEF TypeOK, TimerFires, linkvars
<1>7. ASSUME NEW r \in Router, NEW rec \in dtn[r],
             GetBundle(r, rec) \/ Expire(r, rec)
      PROVE  TypeOK'
  <2>1. rec \in Record
    BY DEF TypeOK
  <2>2. dtn' \in [Router -> SUBSET Record]
    BY <1>7 DEF GetBundle, Expire, TypeOK
  <2>3. CASE GetBundle(r, rec)
    <3>1. allbtags[r] \in Cache
      BY CacheType
    <3>2. [allbtags EXCEPT ![r][rec.id] = rec]
            = [allbtags EXCEPT ![r] = [allbtags[r] EXCEPT ![rec.id] = rec]]
      OBVIOUS
    <3>3. allbtags' \in [Router -> Cache]
      BY <2>1, <2>3, <3>1, <3>2, CacheSet, CachesTyped DEF GetBundle
    <3>4. QED BY <2>2, <2>3, <3>3, CachesType DEF TypeOK, GetBundle, linkvars
  <2>4. CASE Expire(r, rec)
    <3>1. faults' \in 0 .. MaxFaults
      BY <2>4, BoundAssumption DEF TypeOK, Expire
    <3>2. QED BY <2>2, <2>4, <3>1 DEF TypeOK, Expire, linkvars, routervars
  <2>5. QED BY <1>7, <2>3, <2>4
<1>8. ASSUME NEW r \in Router, NEW heard \in SUBSET Mote, NoBundle(r, heard)
      PROVE  TypeOK'
  <2>1. alllocs' \in [Viewed -> [Mote -> Record \cup {Unknown}]]
    BY <1>8, RouterAssumption DEF NoBundle, ViewersHear, TypeOK
  <2>2. QED BY <1>8, <2>1 DEF TypeOK, NoBundle, linkvars
<1>9. ASSUME NEW r \in Router, Restart(r) PROVE TypeOK'
  <2>1. faults' \in 0 .. MaxFaults
    BY <1>9, BoundAssumption DEF TypeOK, Restart
  <2>2. dtn' \in [Router -> SUBSET Record]
    BY <1>9 DEF TypeOK, Restart
  <2>3. allbtags' \in [Router -> Cache]
    <3>1. NoRecords \in Cache
      BY DEF NoRecords, Cache
    <3>2. QED BY <1>9, <3>1, CachesTyped DEF Restart
  <2>4. QED BY <1>9, <2>1, <2>2, <2>3, CachesType DEF TypeOK, Restart, linkvars
<1>10. CASE UNCHANGED vars
  BY <1>10 DEF TypeOK, vars, linkvars, routervars
<1>11. QED
  BY <1>1, <1>2, <1>3, <1>4, <1>5, <1>6, <1>7, <1>8, <1>9, <1>10 DEF Next

(* The types of the relay, at all times. *)
THEOREM TypeCorrect == Spec => []TypeOK
BY TypeInit, TypeStep, PTL DEF Spec

-----------------------------------------------------------------------------
(* HeardIsShared is not inductive: a bundle that comes may have been sent  *)
(* by anybody.  All bundles on their way are among those sent.             *)
SharedInv == HeardIsShared /\ \A r \in Router : dtn[r] \subseteq sent

(* One cache takes over a record that is sent. *)
LEMMA SharedPut ==
  ASSUME TypeOK, SharedInv, NEW r \in Router, NEW rec \in sent',
         rec \in Record, sent \subseteq sent',
         allbtags' = [allbtags EXCEPT ![r][rec.id] = rec]
  PROVE  HeardIsShared'
<1> SUFFICES ASSUME NEW q \in Router, NEW m \in Mote, allbtags'[q][m] # Unknown
             PROVE  allbtags'[q][m] \in sent'
  BY DEF HeardIsShared
<1>1. allbtags \in [Router -> [Mote -> Record \cup {Unknown}]]
  BY DEF TypeOK
<1>2. allbtags'[q][m] = rec \/ allbtags'[q][m] = allbtags[q][m]
  BY <1>1
<1>3. QED BY <1>2 DEF SharedInv, HeardIsShared

LEMMA SharedStep == TypeOK /\ SharedInv /\ [Next]_vars => SharedInv'
<1> SUFFICES ASSUME TypeOK, SharedInv, [Next]_vars PROVE SharedInv'
  OBVIOUS
<1>1. ASSUME UNCHANGED <<allbtags, dtn, sent>> PROVE SharedInv'
  BY <1>1 DEF SharedInv, HeardIsShared
<1>2. ASSUME NEW r \in Router, NEW rec \in Record, HeardOnMesh(r, rec)
      PROVE  SharedInv'
  <2>1. CASE SameBtag(allbtags[r][rec.id], rec)
    BY <1>1, <1>2, <2>1 DEF HeardOnMesh
  <2>2. CASE ~SameBtag(allbtags[r][rec.id], rec)
    <3>1. ToGroup(r, rec) /\ allbtags' = [allbtags EXCEPT ![r][rec.id] = rec]
      BY <1>2, <2>2 DEF HeardOnMesh
    <3>2. /\ sent' = sent \cup {rec}
          /\ \A q \in Router : dtn'[q] \subseteq dtn[q] \cup {rec}
      BY <3>1, GroupType
    <3>3. HeardIsShared'
      BY <3>1, <3>2, SharedPut
    <3>4. QED BY <3>2, <3>3 DEF SharedInv
  <2>3. QED BY <2>1, <2>2
<1>3. ASSUME NEW r \in Router, NEW rec \in dtn[r], GetBundle(r, rec)
      PROVE  SharedInv'
  <2>1. rec \in Record /\ rec \in sent /\ sent' = sent
    BY <1>3 DEF TypeOK, SharedInv, GetBundle
  <2>2. HeardIsShared'
    BY <1>3, <2>1, SharedPut DEF GetBundle
  <2>3. \A q \in Router : dtn'[q] \subseteq sent'
    BY <1>3, <2>1 DEF GetBundle, SharedInv, TypeOK
  <2>4. QED BY <2>2, <2>3 DEF SharedInv
<1>4. ASSUME NEW r \in Router, NEW rec \in dtn[r], Expire(r, rec)
      PROVE  SharedInv'
  <2>1. UNCHANGED <<allbtags, sent>> /\ \A q \in Router : dtn'[q] \subseteq dtn[q]
    BY <1>4 DEF Expire, routervars, TypeOK
  <2>2. QED BY <2>1 DEF SharedInv, HeardIsShared
<1>5. ASSUME NEW r \in Router, Restart(r) PROVE SharedInv'
  <2>1. \A q \in Router : dtn'[q] \subseteq sent'
    BY <1>5 DEF Restart, SharedInv, TypeOK
  <2>2. \A q \in Router, m \in Mote :
          allbtags'[q][m] = Unknown \/ allbtags'[q][m] = allbtags[q][m]
    BY <1>5 DEF Restart, TypeOK, NoRecords
  <2>3. QED BY <1>5, <2>1, <2>2 DEF Restart, SharedInv, HeardIsShared
<1>6. CASE UNCHANGED vars
  BY <1>1, <1>6 DEF vars, routervars
<1>7. ASSUME NEW rec \in Record, Programmed(rec) PROVE SharedInv'
  BY <1>1, <1>7 DEF Programmed, routervars
<1>8. ASSUME NEW m \in Mote, Report(m) PROVE SharedInv'
  BY <1>1, <1>8 DEF Report, routervars
<1>9. ASSUME NEW rec \in air, ProxyForwards(rec) \/ LoseInAir(rec)
      PROVE  SharedInv'
  BY <1>1, <1>9 DEF ProxyForwards, LoseInAir, routervars
<1>10. ASSUME NEW received \in SUBSET InReach, NEW garbled \in SUBSET Datagram,
              CollectorForwards(received, garbled)
       PROVE  SharedInv'
  BY <1>1, <1>10 DEF CollectorForwards, routervars
<1>11. ASSUME NEW r \in Router, TimerFires(r) PROVE SharedInv'
  BY <1>1, <1>11 DEF TimerFires
<1>12. ASSUME NEW r \in Router, NEW heard \in SUBSET Mote, NoBundle(r, heard)
       PROVE  SharedInv'
  BY <1>1, <1>12 DEF NoBundle
<1>13. QED
  BY <1>2, <1>3, <1>4, <1>5, <1>6, <1>7, <1>8, <1>9, <1>10, <1>11, <1>12
     DEF Next

(* A record in any forwarder's cache was handed to the DTN for all others, *)
(* whatever is lost, reordered, restarted or comes back (recvd_on_wlan1    *)
(* and handler of multicastforwarder.cpp).                                 *)
THEOREM CachedWasSent == Spec => []HeardIsShared
<1>1. Init => SharedInv
  BY DEF Init, SharedInv, HeardIsShared, NoRecords
<1>2. SharedInv => HeardIsShared
  BY DEF SharedInv
<1>3. QED BY <1>1, <1>2, SharedStep, TypeCorrect, PTL DEF Spec
=============================================================================
