----------------------------- MODULE BtagRelay -----------------------------
(***************************************************************************)
(* The way of the building tags' records to the phones: the sink sends     *)
(* them by radio to the bridge mote of a vehicle (PppRouterP), which puts  *)
(* them on the serial line to the vehicle's router; there                  *)
(* mobilebeaconer_btagcollector relays them to all routers of the mesh,    *)
(* and the multicastforwarder of a router that is in reach remembers the   *)
(* last record of every tag.  What is new to it goes to the DTN for all    *)
(* forwarders, which remember it likewise and repeat all they remember to  *)
(* the phones every few seconds.                                           *)
(*                                                                         *)
(* A record has an id, the fields equals_btag compares, which are tag      *)
(* here, and a location it does not compare.  The counters of the sink     *)
(* election that travel with it are left out.                              *)
(***************************************************************************)
EXTENDS Naturals, FiniteSets

CONSTANTS
  Router,
  InReach,       \* the routers the vehicle's mesh reaches
  Viewed,        \* the routers a phone with the viewer is associated with
  Mote, Tag, Place,
  BootTag, BootPlace,  \* the record a tag boots with, "BLDG 118"
  Unknown,       \* the cache holds mote_id 111: no record of this tag
  Nothing,       \* the serial line is free
  MaxPrograms,   \* bound: times tags are programmed
  MaxFaults      \* bound: bundles that expire, restarts of a forwarder, and
                 \* records of which the collector has to send a part later

Record == [id : Mote, tag : Tag, place : Place]

ASSUME RouterAssumption == InReach \subseteq Router /\ Viewed \subseteq Router
ASSUME BootAssumption == BootTag \in Tag /\ BootPlace \in Place
ASSUME MarkAssumption == Unknown \notin Record /\ Nothing \notin Record
ASSUME BoundAssumption == MaxPrograms \in Nat /\ MaxFaults \in Nat

VARIABLES
  temp_btagloc,  \* temp_btagloc[m]: the record of tag m
  air,           \* records the sink sends, in its ring or on the radio
  ppp,           \* the frame on the serial line between mote and router
  mesh,          \* datagrams routers have received from the vehicle
  allbtags,      \* allbtags[r][m]: the cache of the multicastforwarder
  handler,       \* its only thread: "wait"s for events or "get"s bundles
  dtn,           \* dtn[r]: the bundles that will get to r
  alllocs,       \* alllocs[r][m]: what the phone at r shows
  sent,          \* history: the bundles that were handed to the DTN
  programs, faults

linkvars == <<temp_btagloc, air, ppp, mesh>>
routervars == <<allbtags, handler>>
vars == <<linkvars, routervars, dtn, alllocs, sent, programs, faults>>

Datagram == [to : InReach, rec : Record]

TypeOK ==
  /\ temp_btagloc \in [Mote -> Record]
  /\ \A m \in Mote : temp_btagloc[m].id = m
  /\ air \subseteq Record
  /\ ppp \in Record \cup {Nothing}
  /\ mesh \subseteq Datagram
  /\ allbtags \in [Router -> [Mote -> Record \cup {Unknown}]]
  /\ \A r \in Router, m \in Mote :
       allbtags[r][m] # Unknown => allbtags[r][m].id = m
  /\ handler \in [Router -> {"wait", "get"}]
  /\ dtn \in [Router -> SUBSET Record]
  /\ alllocs \in [Viewed -> [Mote -> Record \cup {Unknown}]]
  /\ sent \subseteq Record
  /\ programs \in 0 .. MaxPrograms
  /\ faults \in 0 .. MaxFaults

NoRecords == [m \in Mote |-> Unknown]

Init ==
  /\ temp_btagloc = [m \in Mote |-> [id |-> m, tag |-> BootTag,
                                                place |-> BootPlace]]
  /\ air = {} /\ ppp = Nothing /\ mesh = {}
  /\ allbtags = [r \in Router |-> NoRecords]
  /\ handler = [r \in Router |-> "wait"]
  /\ dtn = [r \in Router |-> {}]
  /\ alllocs = [r \in Viewed |-> NoRecords]
  /\ sent = {}
  /\ programs = 0 /\ faults = 0

-----------------------------------------------------------------------------
(* ProgrammerUDP.recvfrom at the tag the program is for. *)
Programmed(rec) ==
  /\ programs < MaxPrograms
  /\ programs' = programs + 1
  /\ temp_btagloc' = [temp_btagloc EXCEPT ![rec.id] = rec]
  /\ UNCHANGED <<air, ppp, mesh, routervars, dtn, alllocs, sent, faults>>

(* SendTimer of the sink sends a record of tag m, its own or a collected   *)
(* one, to the vehicle.  Its way through the rings of tag and sink counts  *)
(* as a part of its way through the air.                                   *)
Report(m) ==
  /\ air' = air \cup {temp_btagloc[m]}
  /\ UNCHANGED <<temp_btagloc, ppp, mesh, routervars, dtn, alllocs, sent,
                 programs, faults>>

(* The bridge mote puts the record on the serial line; without a free      *)
(* output frame IPForward.send drops it.                                   *)
ProxyForwards(rec) ==
  /\ rec \in air
  /\ air' = air \ {rec}
  /\ ppp' = IF ppp = Nothing THEN rec ELSE ppp
  /\ UNCHANGED <<temp_btagloc, mesh, routervars, dtn, alllocs, sent, programs,
                 faults>>

(* recvd_ppp0: to 192.168.50.1 to 10, port 7011.  The routers of received  *)
(* get it, for the others it is lost or out of reach.  A send that has to  *)
(* wait for the socket reads the handler's local btagloc after its end:    *)
(* garbled is what goes out then, any record to any router.                *)
CollectorForwards(received, garbled) ==
  /\ ppp # Nothing
  /\ ppp' = Nothing
  /\ \A d, e \in garbled : d.to \notin received /\ (d.to = e.to => d = e)
  /\ mesh' = mesh \cup [to : received, rec : {ppp}] \cup garbled
  /\ IF garbled = {} THEN faults' = faults
                     ELSE faults < MaxFaults /\ faults' = faults + 1
  /\ UNCHANGED <<temp_btagloc, air, routervars, dtn, alllocs, sent, programs>>

LoseInAir(rec) ==
  /\ rec \in air
  /\ air' = air \ {rec}
  /\ UNCHANGED <<temp_btagloc, ppp, mesh, routervars, dtn, alllocs, sent,
                 programs, faults>>

-----------------------------------------------------------------------------
(* Faulty variant: a tag that is cached is never heard again. *)
SameBtag_AnyKnown(a, b) == a # Unknown

(* equals_btag, which looks at the tag alone. *)
SameBtag(a, b) == a # Unknown /\ a.tag = b.tag

(* A bundle for the group all forwarders belong to.  Whether the sender's  *)
(* own daemon hands it back to the sender is up to the DTN.                *)
ToGroup(r, rec) ==
  /\ \E back \in BOOLEAN :
       dtn' = [q \in Router |-> IF q # r \/ back THEN dtn[q] \cup {rec}
                                                 ELSE dtn[q]]
  /\ sent' = sent \cup {rec}

(* Faulty variant: the record is cached before it is compared. *)
HeardOnMesh_CacheFirst(r, rec) ==
  /\ handler[r] = "wait"
  /\ [to |-> r, rec |-> rec] \in mesh
  /\ mesh' = mesh \ {[to |-> r, rec |-> rec]}
  /\ allbtags' = [allbtags EXCEPT ![r][rec.id] = rec]
  /\ UNCHANGED <<temp_btagloc, air, ppp, handler, dtn, sent, alllocs, programs,
                 faults>>

(* Faulty variant: every record goes to the DTN. *)
HeardOnMesh_SendAlways(r, rec) ==
  /\ handler[r] = "wait"
  /\ [to |-> r, rec |-> rec] \in mesh
  /\ mesh' = mesh \ {[to |-> r, rec |-> rec]}
  /\ allbtags' = [allbtags EXCEPT ![r][rec.id] = rec]
  /\ ToGroup(r, rec)
  /\ UNCHANGED <<temp_btagloc, air, ppp, handler, alllocs, programs, faults>>

(* recvd_on_wlan1: "if the received btag data is the same as cached, don't *)
(* send through DTN".                                                      *)
HeardOnMesh(r, rec) ==
  /\ handler[r] = "wait"
  /\ [to |-> r, rec |-> rec] \in mesh
  /\ mesh' = mesh \ {[to |-> r, rec |-> rec]}
  /\ IF SameBtag(allbtags[r][rec.id], rec)
       THEN UNCHANGED <<allbtags, dtn, sent>>
       ELSE /\ allbtags' = [allbtags EXCEPT ![r][rec.id] = rec]
            /\ ToGroup(r, rec)
  /\ UNCHANGED <<temp_btagloc, air, ppp, handler, alllocs, programs, faults>>

(* handler is called by the timer and holds the only thread until it ends. *)
TimerFires(r) ==
  /\ handler[r] = "wait"
  /\ handler' = [handler EXCEPT ![r] = "get"]
  /\ UNCHANGED <<linkvars, allbtags, dtn, alllocs, sent, programs, faults>>

(* A bundle replaces what is cached, whichever is newer. *)
GetBundle(r, rec) ==
  /\ handler[r] = "get"
  /\ rec \in dtn[r]
  /\ dtn' = [dtn EXCEPT ![r] = @ \ {rec}]
  /\ allbtags' = [allbtags EXCEPT ![r][rec.id] = rec]
  /\ UNCHANGED <<linkvars, handler, alllocs, sent, programs, faults>>

Known(r) == {m \in Mote : allbtags[r][m] # Unknown}

(* didReceiveData of the viewer, on a phone at router r: the record takes  *)
(* the place of what is shown of its tag.                                  *)
ViewersHear(r, heard) ==
  alllocs' = [q \in Viewed |->
    [m \in Mote |-> IF q = r /\ m \in heard THEN allbtags[r][m]
                                            ELSE alllocs[q][m]]]

(* No bundle for 5 seconds: all that is cached goes to the multicast group *)
(* of the phones, which receive some of it.                                *)
NoBundle(r, heard) ==
  /\ handler[r] = "get"
  /\ handler' = [handler EXCEPT ![r] = "wait"]
  /\ heard \subseteq Known(r)
  /\ ViewersHear(r, heard)
  /\ UNCHANGED <<linkvars, allbtags, dtn, sent, programs, faults>>

(* A bundle outlives its lifetime of an hour. *)
Expire(r, rec) ==
  /\ rec \in dtn[r]
  /\ faults < MaxFaults
  /\ faults' = faults + 1
  /\ dtn' = [dtn EXCEPT ![r] = @ \ {rec}]
  /\ UNCHANGED <<linkvars, routervars, alllocs, sent, programs>>

(* multicastforwarder ends and is started again: the cache is gone, and    *)
(* the DTN may hand over again what it still stores for the group.         *)
Restart(r) ==
  /\ faults < MaxFaults
  /\ faults' = faults + 1
  /\ allbtags' = [allbtags EXCEPT ![r] = NoRecords]
  /\ handler' = [handler EXCEPT ![r] = "wait"]
  /\ \E again \in SUBSET sent : dtn' = [dtn EXCEPT ![r] = @ \cup again]
  /\ UNCHANGED <<linkvars, alllocs, sent, programs>>

-----------------------------------------------------------------------------
Next ==
  \/ \E rec \in Record : Programmed(rec)
  \/ \E m \in Mote : Report(m)
  \/ \E rec \in air : ProxyForwards(rec) \/ LoseInAir(rec)
  \/ \E received \in SUBSET InReach, garbled \in SUBSET Datagram :
       CollectorForwards(received, garbled)
  \/ \E r \in Router :
       \/ \E rec \in Record : HeardOnMesh(r, rec)
       \/ TimerFires(r)
       \/ \E rec \in dtn[r] : GetBundle(r, rec) \/ Expire(r, rec)
       \/ \E heard \in SUBSET Mote : NoBundle(r, heard)
       \/ Restart(r)

Spec == Init /\ [][Next]_vars

(* Timers fire and programs run.  Of what is sent again and again, some    *)
(* gets over each link and all of it some time to the phone, and the DTN   *)
(* goes on bringing what has not expired while the forwarder asks for it.  *)
FairSpec ==
  /\ Spec
  /\ WF_vars(\E received \in SUBSET InReach : CollectorForwards(received, {}))
  /\ \A m \in Mote : WF_vars(Report(m))
  /\ SF_vars(\E rec \in air : ppp = Nothing /\ ProxyForwards(rec))
  /\ \A r \in InReach :
       /\ SF_vars(\E received \in SUBSET InReach :
                    r \in received /\ CollectorForwards(received, {}))
       /\ SF_vars(\E rec \in Record : HeardOnMesh(r, rec))
  /\ \A r \in Router :
       /\ WF_vars(TimerFires(r))
       /\ WF_vars(\E heard \in SUBSET Mote : NoBundle(r, heard))
       /\ SF_vars(\E rec \in dtn[r] : GetBundle(r, rec))
  /\ \A r \in Viewed : SF_vars(NoBundle(r, Known(r)))
-----------------------------------------------------------------------------
(* What a forwarder shows to the phones was handed to the DTN for all      *)
(* others: no order of mesh, bundles and restarts leaves a record in a     *)
(* cache, where it would be taken for one that was sent, that never was.   *)
HeardIsShared ==
  \A r \in Router, m \in Mote :
    allbtags[r][m] # Unknown => allbtags[r][m] \in sent

(* "you should be able to see the programmed data on the btag_view app"    *)
(* (asio/README.md): in reach of the vehicle the viewer shows, from some   *)
(* time on, the fields of the tag as they were programmed last, although   *)
(* old bundles, the router's own among them, come back and overwrite them. *)
ViewersCurrent ==
  <>[](\A r \in Viewed \cap InReach, m \in Mote :
        /\ alllocs[r][m] # Unknown
        /\ alllocs[r][m].tag = temp_btagloc[m].tag)

(* "it will not send to DTN if the received btag data is the same with the *)
(* cached data": once tags are not programmed any more, traffic in the DTN *)
(* ends.                                                                   *)
TrafficEnds == <>[][\A r \in Router : dtn'[r] \subseteq dtn[r]]_vars

(* The same for all routers: not so.  A bundle replaces what a forwarder   *)
(* remembers whichever is older (multicastforwarder.cpp:127), and out of   *)
(* reach of the vehicle nothing puts it right.                             *)
FarViewersCurrent ==
  <>[](\A r \in Viewed, m \in Mote :
        \/ faults # 0
        \/ /\ alllocs[r][m] # Unknown
           /\ alllocs[r][m].tag = temp_btagloc[m].tag)

(* The location is programmed with the tag and shown with it on the map.   *)
(* equals_btag does not look at it, so that a tag that is programmed at    *)
(* another place with the same fields keeps the old place in all caches.   *)
PlaceCurrent ==
  <>[](\A r \in Viewed \cap InReach, m \in Mote :
        alllocs[r][m] # Unknown => alllocs[r][m].place = temp_btagloc[m].place)
=============================================================================
