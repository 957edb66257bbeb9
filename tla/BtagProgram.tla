---------------------------- MODULE BtagProgram ----------------------------
(***************************************************************************)
(* The way of a program, the record a phone makes for a building tag, to   *)
(* the tag: the phone sends it to the multicast group of the routers, the  *)
(* multicastforwarder of the router that hears it passes it to all routers *)
(* of the mesh, mobilebeaconer_btagcollector on those that carry a bridge  *)
(* mote puts it on the serial line, the bridge mote (PppRouterP) repeats   *)
(* it on the radio, and a tag that hears a program for another tag sends   *)
(* it on to that tag.  Many copies take different ways, each may get lost, *)
(* and nothing in a program tells a late copy from a new program.          *)
(*                                                                         *)
(* A program has the id of its tag and a number that stands for all other  *)
(* fields; 0 is the record a tag boots with.                               *)
(***************************************************************************)
EXTENDS Naturals, FiniteSets

CONSTANTS
  Associated,    \* the routers with phones, by host number
  Vehicle,       \* the routers with a bridge mote
  Mote,          \* the building tags, by TOS_NODE_ID
  Programmed,    \* the tags for which programs are made
  Near,          \* Near[v]: ids of the motes in radio reach of the bridge of v
  Linked,        \* Linked[m]: the motes to which m has a route
  MaxPrograms,   \* bound: programs that are made
  MaxFull        \* bound: sends that find the socket's buffer full

BridgeId(v) == v + 51
Bridge == {BridgeId(v) : v \in Vehicle}
RouterEnd == 256   \* fec0::100, the router's end of the serial line

ASSUME RouterAssumption == Vehicle \cup Associated \subseteq 1 .. 39
ASSUME MoteAssumption == Programmed \subseteq Mote /\ Mote \subseteq 0 .. 49
ASSUME RadioAssumption == /\ Near \in [Vehicle -> SUBSET (Mote \cup Bridge)]
                          /\ Linked \in [Mote -> SUBSET Mote]
ASSUME BoundAssumption == MaxPrograms \in Nat /\ MaxFull \in Nat

Program == [id : Mote, prog : 1 .. MaxPrograms]

VARIABLES
  wlan0,           \* wlan0[r]: programs at the socket on port 7009
  recvbuf_wlan0,   \* the last program the forwarder got, while sends wait
  queued,          \* queued[r]: sends from that buffer that have to wait
  wlan1,           \* wlan1[v]: programs at the collector's socket, port 7010
  ppp,             \* ppp[v]: programs on the line to the bridge mote
  radio,           \* datagrams motes have received
  temp_btagloc,    \* temp_btagloc[m]: the program tag m has, 0 at boot
  last,            \* history: last[m] is the last program made for m
  made,            \* history: all programs that were made
  garbled,         \* history: a collector has sent from its dead btagloc
  full             \* sends that found the socket's buffer full

network == <<wlan1, ppp, radio>>
forwarder == <<recvbuf_wlan0, queued>>
history == <<last, made, garbled>>
vars == <<wlan0, forwarder, network, temp_btagloc, history, full>>

Datagram == [at : Mote \cup Bridge, from : Mote \cup Bridge, rec : Program]

TypeOK ==
  /\ wlan0 \in [Associated -> SUBSET Program]
  /\ recvbuf_wlan0 \in [Associated -> SUBSET Program]
  /\ queued \in [Associated -> SUBSET Vehicle]
  /\ \A r \in Associated : /\ Cardinality(recvbuf_wlan0[r]) <= 1
                           /\ queued[r] # {} <=> recvbuf_wlan0[r] # {}
  /\ wlan1 \in [Vehicle -> SUBSET Program]
  /\ ppp \in [Vehicle -> SUBSET Program]
  /\ radio \subseteq Datagram
  /\ temp_btagloc \in [Mote -> 0 .. MaxPrograms]
  /\ last \in [Mote -> 0 .. MaxPrograms]
  /\ made \subseteq Program
  /\ garbled \in BOOLEAN
  /\ full \in 0 .. MaxFull

Init ==
  /\ wlan0 = [r \in Associated |-> {}]
  /\ recvbuf_wlan0 = [r \in Associated |-> {}]
  /\ queued = [r \in Associated |-> {}]
  /\ wlan1 = [v \in Vehicle |-> {}]
  /\ ppp = [v \in Vehicle |-> {}]
  /\ radio = {}
  /\ temp_btagloc = [m \in Mote |-> 0]
  /\ last = [m \in Mote |-> 0]
  /\ made = {} /\ garbled = FALSE /\ full = 0

-----------------------------------------------------------------------------
(* programPressed on a phone at router r, with new fields for tag m.       *)
Press(r, m) ==
  /\ Cardinality(made) < MaxPrograms
  /\ LET rec == [id |-> m, prog |-> Cardinality(made) + 1]
     IN /\ made' = made \cup {rec}
        /\ last' = [last EXCEPT ![m] = rec.prog]
        /\ wlan0' = [wlan0 EXCEPT ![r] = @ \cup {rec}]
  /\ UNCHANGED <<forwarder, network, temp_btagloc, garbled, full>>

LastOf(m) == [id |-> m, prog |-> last[m]]

UnderWay(rec) ==
  \/ \E r \in Associated : \/ rec \in wlan0[r]
                           \/ rec \in recvbuf_wlan0[r]
  \/ \E v \in Vehicle : rec \in wlan1[v] \cup ppp[v]
  \/ \E d \in radio : d.rec = rec

(* The button is pressed again as long as the viewer shows something else; *)
(* as a bound, once no copy of that program is under way any more.         *)
PressAgain(r, m) ==
  /\ last[m] # 0 /\ temp_btagloc[m] # last[m]
  /\ ~ UnderWay(LastOf(m))
  /\ wlan0' = [wlan0 EXCEPT ![r] = @ \cup {LastOf(m)}]
  /\ UNCHANGED <<forwarder, network, temp_btagloc, history, full>>

-----------------------------------------------------------------------------
(* Faulty variant: the list of the routers ends one early. *)
MeshRouters_UpTo9 == Vehicle \cap (1 .. 9)

(* 192.168.50.1 to 10; what is sent to routers without collector is lost.  *)
MeshRouters == Vehicle \cap (1 .. 10)

OnMesh(to, rec) == [v \in Vehicle |-> IF v \in to THEN wlan1[v] \cup {rec}
                                                  ELSE wlan1[v]]

Held(waiting, rec) == IF waiting = {} THEN {} ELSE {rec}

(* recvd_on_wlan0: of the sends some arrive, in got, and others are lost.  *)
(* If the socket's buffer is full a send waits, in later, and takes what   *)
(* recvbuf_wlan0 holds then, which may be the next program.                *)
RecvdOnWlan0(r, rec, got, later) ==
  /\ rec \in wlan0[r]
  /\ wlan0' = [wlan0 EXCEPT ![r] = @ \ {rec}]
  /\ got \subseteq MeshRouters /\ later \subseteq MeshRouters \ got
  /\ wlan1' = OnMesh(got, rec)
  /\ queued' = [queued EXCEPT ![r] = @ \cup later]
  /\ recvbuf_wlan0' = [recvbuf_wlan0 EXCEPT ![r] = Held(queued'[r], rec)]
  /\ full' = full + Cardinality(later) /\ full' <= MaxFull
  /\ UNCHANGED <<ppp, radio, temp_btagloc, history>>

SendQueued(r, got) ==
  /\ queued[r] # {}
  /\ got \subseteq queued[r]
  /\ queued' = [queued EXCEPT ![r] = {}]
  /\ \E rec \in recvbuf_wlan0[r] : wlan1' = OnMesh(got, rec)
  /\ recvbuf_wlan0' = [recvbuf_wlan0 EXCEPT ![r] = {}]
  /\ UNCHANGED <<wlan0, ppp, radio, temp_btagloc, history, full>>

(* recvd_wlan1 of the collector.  A send that has to wait would read the   *)
(* handler's local btagloc after its end: anything may go out.             *)
RecvdWlan1(v, rec, out) ==
  /\ rec \in wlan1[v]
  /\ wlan1' = [wlan1 EXCEPT ![v] = @ \ {rec}]
  /\ ppp' = [ppp EXCEPT ![v] = @ \cup {out}]
  /\ IF out = rec THEN UNCHANGED <<full, garbled>>
                  ELSE full < MaxFull /\ full' = full + 1 /\ garbled' = TRUE
  /\ UNCHANGED <<wlan0, forwarder, radio, temp_btagloc, last, made>>

-----------------------------------------------------------------------------
(* Faulty variant: programs of other bridges are repeated too. *)
FromBridge_Never(from) == FALSE

(* "DON'T PROXY FROM OTHER PPPROUTERS" *)
FromBridge(from) == 50 <= from /\ from <= 90

(* myProxyComms.recvfrom: repeats a program to ff02::1a, all in reach.     *)
ProxyRecv(v, from, rec, heard) ==
  radio' = (radio \ {[at |-> BridgeId(v), from |-> from, rec |-> rec]}) \cup
             (IF FromBridge(from) THEN {}
              ELSE [at : heard, from : {BridgeId(v)}, rec : {rec}])

ProxyFromLine(v, rec, heard) ==
  /\ rec \in ppp[v]
  /\ ppp' = [ppp EXCEPT ![v] = @ \ {rec}]
  /\ heard \subseteq Near[v]
  /\ ProxyRecv(v, RouterEnd, rec, heard)
  /\ UNCHANGED <<wlan0, forwarder, wlan1, temp_btagloc, history, full>>

ProxyFromRadio(v, d, heard) ==
  /\ d \in radio /\ d.at = BridgeId(v)
  /\ heard \subseteq Near[v]
  /\ ProxyRecv(v, d.from, d.rec, heard)
  /\ UNCHANGED <<wlan0, forwarder, wlan1, ppp, temp_btagloc, history, full>>

(* Faulty variant: a tag takes every program it hears. *)
ForMe_Any(m, rec) == TRUE

ForMe(m, rec) == rec.id = m

(* ProgrammerUDP.recvfrom: a tag takes its own program, and sends another  *)
(* on to its tag, which gets it or not.                                    *)
ProgrammerRecv(m, d, gets) ==
  /\ d \in radio /\ d.at = m
  /\ IF ForMe(m, d.rec)
       THEN /\ temp_btagloc' = [temp_btagloc EXCEPT ![m] = d.rec.prog]
            /\ gets = {}
       ELSE temp_btagloc' = temp_btagloc
  /\ gets \subseteq {d.rec.id} \cap Linked[m]
  /\ radio' = (radio \ {d}) \cup [at : gets, from : {m}, rec : {d.rec}]
  /\ UNCHANGED <<wlan0, forwarder, wlan1, ppp, history, full>>

-----------------------------------------------------------------------------
Next ==
  \/ \E r \in Associated :
       \/ \E m \in Programmed : Press(r, m) \/ PressAgain(r, m)
       \/ \E rec \in Program, got, later \in SUBSET MeshRouters :
            RecvdOnWlan0(r, rec, got, later)
       \/ \E got \in SUBSET Vehicle : SendQueued(r, got)
  \/ \E v \in Vehicle :
       \/ \E rec, out \in Program : RecvdWlan1(v, rec, out)
       \/ \E heard \in SUBSET Near[v] :
            \/ \E rec \in Program : ProxyFromLine(v, rec, heard)
            \/ \E d \in radio : ProxyFromRadio(v, d, heard)
  \/ \E m \in Mote, d \in radio, gets \in SUBSET Mote :
       ProgrammerRecv(m, d, gets)

Spec == Init /\ [][Next]_vars

RecvdAtMote(d) ==
  \/ \E v \in Vehicle : \E heard \in SUBSET Near[v] :
       ProxyFromRadio(v, d, heard)
  \/ \E m \in Mote, gets \in SUBSET Mote : ProgrammerRecv(m, d, gets)

(* Programs and motes handle what they have received, the user presses     *)
(* until the tag is right, and of what is sent again and again over a link *)
(* some arrives, intact.                                                   *)
FairSpec ==
  /\ Spec
  /\ WF_vars(\E r \in Associated, rec \in Program, got \in SUBSET MeshRouters :
               RecvdOnWlan0(r, rec, got, {}))
  /\ WF_vars(\E r \in Associated, got \in SUBSET Vehicle : SendQueued(r, got))
  /\ WF_vars(\E v \in Vehicle, rec \in Program : RecvdWlan1(v, rec, rec))
  /\ WF_vars(\E v \in Vehicle, rec \in Program : ProxyFromLine(v, rec, {}))
  /\ WF_vars(\E d \in radio : RecvdAtMote(d))
  /\ \A m \in Programmed :
       /\ WF_vars(\E r \in Associated : PressAgain(r, m))
       /\ SF_vars(\E r \in Associated :
                    RecvdOnWlan0(r, LastOf(m), MeshRouters, {}))
       /\ \A v \in Vehicle : SF_vars(ProxyFromLine(v, LastOf(m), Near[v]))
       /\ SF_vars(\E d \in radio, k \in Mote :
                    d.rec = LastOf(m) /\ ProgrammerRecv(k, d, {m}))
-----------------------------------------------------------------------------
(* "the mote with that ID will update its data" (asio/README.md): what a   *)
(* tag has, a phone has made for this tag, whatever copies it hears of     *)
(* programs for others, and whatever the sends of a forwarder that had to  *)
(* wait found in recvbuf_wlan0.  Not once a send of a collector had to     *)
(* wait: it may have sent anything.                                        *)
OnlyOwnPrograms ==
  ~garbled => \A m \in Mote : \/ temp_btagloc[m] = 0
                             \/ [id |-> m, prog |-> temp_btagloc[m]] \in made

(* Bridges that hear each other do not pass a program to and fro for ever: *)
(* once no more programs are made, all copies of them come to an end.      *)
ProgramsEnd ==
  <>[](/\ radio = {}
       /\ \A r \in Associated : wlan0[r] = {} /\ queued[r] = {}
       /\ \A v \in Vehicle : wlan1[v] = {} /\ ppp[v] = {})

(* A user who presses until the viewer shows the program gets it there,    *)
(* and there it stays, whatever copies of older programs, or of a program  *)
(* for another tag, are still on their way.                                *)
LastProgramWins ==
  <>[](\A m \in Programmed : last[m] # 0 => temp_btagloc[m] = last[m])

(* A tag never goes back to an older program: not so.  A late copy has     *)
(* nothing that tells its age, and replaces what was programmed since.     *)
NeverOlder ==
  [][~garbled' => \A m \in Mote : temp_btagloc'[m] >= temp_btagloc[m]]_vars

(* A program that waits for the network gets to the collectors: not so.    *)
(* The send reads recvbuf_wlan0 when its turn comes                        *)
(* (multicastforwarder.cpp:226), and sends the program that came next.     *)
QueuedIsSent ==
  [][\A r \in Associated : queued[r] # {} =>
       recvbuf_wlan0'[r] \subseteq recvbuf_wlan0[r]]_vars
=============================================================================
