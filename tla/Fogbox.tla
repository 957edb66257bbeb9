------------------------------- MODULE Fogbox -------------------------------
(***************************************************************************)
(* How the routers exchange the pictures the phones uploaded: fogbox_send  *)
(* scans the folder of a router every 10 seconds and hands what is new to  *)
(* the DTN, fogbox_recv puts what the DTN brings into the folder.  tftpd,  *)
(* fogbox_send and fogbox_recv are processes of their own that share the   *)
(* folder, the folder of lock files next to it and nothing else, so every  *)
(* action below stands for one access to the disk.                         *)
(*                                                                         *)
(* The four user folders behave alike: a picture stands for a folder and a *)
(* name in it.  Only pictures (.jpg) are considered.                       *)
(***************************************************************************)
EXTENDS Naturals, FiniteSets

CONSTANTS
  Router,
  Picture,       \* the names of pictures
  Uploads,       \* <<r, f>>: phones upload pictures named f to router r
  Missing,       \* a file that does not exist
  NoBundle,      \* fogbox_recv has no bundle at hand
  MaxVersion,    \* bound: uploads of a name to a router
  MaxTime,       \* bound: seconds that pass (mtime counts whole seconds)
  MaxKill,       \* bound: times a fogbox_send is killed or told to stop
  MaxLost        \* bound: bundles that expire, and crashes of a fogbox_recv

Contents == [from : Router, version : 1 .. MaxVersion, whole : BOOLEAN]
Bundle == [src : Router, file : Picture, data : Contents]

ASSUME UploadsAssumption == Uploads \subseteq Router \X Picture
ASSUME MissingAssumption == Missing \notin Contents /\ NoBundle \notin Bundle
ASSUME BoundAssumption ==
  /\ MaxVersion \in Nat /\ MaxTime \in Nat \ {0}
  /\ MaxKill \in Nat /\ MaxLost \in Nat

VARIABLES
  \* the disk of each router
  folder,      \* folder[r][f]: the picture in media/USERx
  mtime,       \* mtime[r][f]: when it was written
  recv,        \* recv[r]: the lock files in media/USERx/recv
  fogboxmeta,  \* fogboxmeta[r][f]: the times saved in .fogboxmeta; 0: none
  \* fogbox_send
  scan,        \* where fogsync is
  unseen,      \* directory entries the scan has not come to
  itr,         \* the picture it looks at
  t,           \* the modification time it has read
  lmt_map,     \* lmt_map[r][f]: times of the pictures it has sent; 0: none
  terminated,  \* term has closed the connection to the DTN
  \* fogbox_recv
  fetch,       \* where fogsync is
  recvdb,      \* the bundle it has taken from the DTN
  \* the DTN and the phones
  dtn,         \* dtn[r]: the bundles that will get to router r
  uploads,     \* uploads[r][f]: how often f was uploaded to r
  sent,        \* history: the bundles that were handed to the DTN
  now, kills, lost

diskvars == <<folder, mtime, recv, fogboxmeta>>
sendvars == <<scan, unseen, itr, t, lmt_map, terminated>>
recvvars == <<fetch, recvdb>>
vars == <<diskvars, sendvars, recvvars, dtn, uploads, sent, now, kills, lost>>

Time == 0 .. MaxTime
NoTimes == [f \in Picture |-> 0]

TypeOK ==
  /\ folder \in [Router -> [Picture -> Contents \cup {Missing}]]
  /\ mtime \in [Router -> [Picture -> Time]]
  /\ recv \in [Router -> SUBSET Picture]
  /\ fogboxmeta \in [Router -> [Picture -> Time]]
  /\ scan \in [Router -> {"off", "wait", "scan", "new", "send", "save"}]
  /\ unseen \in [Router -> SUBSET Picture]
  /\ itr \in [Router -> Picture]
  /\ t \in [Router -> Time]
  /\ lmt_map \in [Router -> [Picture -> Time]]
  /\ terminated \in [Router -> BOOLEAN]
  /\ fetch \in [Router -> {"idle", "got", "absent", "locked", "created"}]
  /\ recvdb \in [Router -> Bundle \cup {NoBundle}]
  /\ \A r \in Router : fetch[r] = "idle" <=> recvdb[r] = NoBundle
  /\ dtn \in [Router -> SUBSET Bundle]
  /\ uploads \in [Router -> [Picture -> 0 .. MaxVersion]]
  /\ sent \subseteq Bundle
  /\ now \in Time
  /\ kills \in 0 .. MaxKill
  /\ lost \in 0 .. MaxLost

Init ==
  /\ folder = [r \in Router |-> [f \in Picture |-> Missing]]
  /\ mtime = [r \in Router |-> NoTimes]
  /\ recv = [r \in Router |-> {}]
  /\ fogboxmeta = [r \in Router |-> NoTimes]
  /\ scan = [r \in Router |-> "off"]
  /\ unseen = [r \in Router |-> {}]
  /\ itr \in [Router -> Picture]
  /\ t = [r \in Router |-> 0]
  /\ lmt_map = [r \in Router |-> NoTimes]
  /\ terminated = [r \in Router |-> FALSE]
  /\ fetch = [r \in Router |-> "idle"]
  /\ recvdb = [r \in Router |-> NoBundle]
  /\ dtn = [r \in Router |-> {}]
  /\ uploads = [r \in Router |-> NoTimes]
  /\ sent = {}
  /\ now = 1
  /\ kills = 0
  /\ lost = 0

-----------------------------------------------------------------------------
(* tcopytmp of tftpd renames a complete picture into the folder, in place  *)
(* of whatever has that name.                                              *)
Upload(r, f) ==
  /\ <<r, f>> \in Uploads
  /\ uploads[r][f] < MaxVersion
  /\ uploads' = [uploads EXCEPT ![r][f] = @ + 1]
  /\ folder' = [folder EXCEPT ![r][f] = [from |-> r, whole |-> TRUE,
                                         version |-> uploads[r][f] + 1]]
  /\ mtime' = [mtime EXCEPT ![r][f] = now]
  /\ UNCHANGED <<recv, fogboxmeta, sendvars, recvvars, dtn, sent, now, kills,
                 lost>>

Tick ==
  /\ now < MaxTime
  /\ now' = now + 1
  /\ UNCHANGED <<diskvars, sendvars, recvvars, dtn, uploads, sent, kills, lost>>

-----------------------------------------------------------------------------
(* main, the constructor of fogbox_send and loadMetadata *)
Start(r) ==
  /\ scan[r] = "off"
  /\ scan' = [scan EXCEPT ![r] = "wait"]
  /\ lmt_map' = [lmt_map EXCEPT ![r] = fogboxmeta[r]]
  /\ terminated' = [terminated EXCEPT ![r] = FALSE]
  /\ UNCHANGED <<diskvars, unseen, itr, t, recvvars, dtn, uploads, sent, now,
                 kills, lost>>

(* The timer fires: fogsync lists the folder.  An entry that appears while *)
(* it does is found or not.                                                *)
StartScan(r) ==
  /\ scan[r] = "wait"
  /\ scan' = [scan EXCEPT ![r] = "scan"]
  /\ unseen' = [unseen EXCEPT ![r] = Picture]
  /\ UNCHANGED <<diskvars, itr, t, lmt_map, terminated, recvvars, dtn, uploads,
                 sent, now, kills, lost>>

(* "not sending since old file" *)
OldFile(r, f) ==
  /\ scan[r] = "scan" /\ f \in unseen[r]
  /\ folder[r][f] = Missing \/ mtime[r][f] <= lmt_map[r][f]
  /\ unseen' = [unseen EXCEPT ![r] = @ \ {f}]
  /\ UNCHANGED <<diskvars, scan, itr, t, lmt_map, terminated, recvvars, dtn,
                 uploads, sent, now, kills, lost>>

NewFile(r, f) ==
  /\ scan[r] = "scan" /\ f \in unseen[r]
  /\ folder[r][f] # Missing /\ mtime[r][f] > lmt_map[r][f]
  /\ unseen' = [unseen EXCEPT ![r] = @ \ {f}]
  /\ scan' = [scan EXCEPT ![r] = "new"]
  /\ itr' = [itr EXCEPT ![r] = f]
  /\ t' = [t EXCEPT ![r] = mtime[r][f]]
  /\ UNCHANGED <<diskvars, lmt_map, terminated, recvvars, dtn, uploads, sent,
                 now, kills, lost>>

(* "this is a received file, don't resend": the lock is looked for after   *)
(* the file was found.  A picture that will be sent is entered in lmt_map. *)
CheckLock(r) ==
  /\ scan[r] = "new"
  /\ IF itr[r] \in recv[r]
       THEN scan' = [scan EXCEPT ![r] = "scan"] /\ UNCHANGED lmt_map
       ELSE /\ scan' = [scan EXCEPT ![r] = "send"]
            /\ lmt_map' = [lmt_map EXCEPT ![r][itr[r]] = t[r]]
  /\ UNCHANGED <<diskvars, unseen, itr, t, terminated, recvvars, dtn, uploads,
                 sent, now, kills, lost>>

(* Faulty variant: a connection that was closed is not noticed. *)
SendFile_EvenIfClosed(r) ==
  /\ scan[r] = "send"
  /\ scan' = [scan EXCEPT ![r] = "scan"]
  /\ IF terminated[r]
       THEN UNCHANGED <<dtn, sent>>
       ELSE LET b == [src |-> r, file |-> itr[r], data |-> folder[r][itr[r]]]
            IN  /\ dtn' = [q \in Router |-> dtn[q] \cup {b}]
                /\ sent' = sent \cup {b}
  /\ UNCHANGED <<diskvars, unseen, itr, t, lmt_map, terminated, recvvars,
                 uploads, now, kills, lost>>

(* The picture is read, as it is by now, and goes to the group all routers *)
(* belong to.  On a connection that term has closed this throws, nobody    *)
(* catches it, and fogbox_send ends without saving anything.               *)
SendFile(r) ==
  /\ scan[r] = "send"
  /\ IF terminated[r]
       THEN /\ scan' = [scan EXCEPT ![r] = "off"]
            /\ UNCHANGED <<dtn, sent>>
       ELSE LET b == [src |-> r, file |-> itr[r], data |-> folder[r][itr[r]]]
            IN  /\ scan' = [scan EXCEPT ![r] = "scan"]
                /\ dtn' = [q \in Router |-> dtn[q] \cup {b}]
                /\ sent' = sent \cup {b}
  /\ UNCHANGED <<diskvars, unseen, itr, t, lmt_map, terminated, recvvars,
                 uploads, now, kills, lost>>

(* The end of fogsync: come back in 10 seconds, or save lmt_map.  Opening  *)
(* the file empties it.                                                    *)
EndScan(r) ==
  /\ scan[r] = "scan" /\ unseen[r] = {}
  /\ IF terminated[r]
       THEN /\ scan' = [scan EXCEPT ![r] = "save"]
            /\ fogboxmeta' = [fogboxmeta EXCEPT ![r] = NoTimes]
       ELSE scan' = [scan EXCEPT ![r] = "wait"] /\ UNCHANGED fogboxmeta
  /\ UNCHANGED <<folder, mtime, recv, unseen, itr, t, lmt_map, terminated,
                 recvvars, dtn, uploads, sent, now, kills, lost>>

WriteMetadata(r) ==
  /\ scan[r] = "save"
  /\ scan' = [scan EXCEPT ![r] = "off"]
  /\ fogboxmeta' = [fogboxmeta EXCEPT ![r] = lmt_map[r]]
  /\ UNCHANGED <<folder, mtime, recv, unseen, itr, t, lmt_map, terminated,
                 recvvars, dtn, uploads, sent, now, kills, lost>>

(* Faulty variant: the signal handler itself saves lmt_map. *)
Term_Saves(r) ==
  /\ scan[r] # "off" /\ ~terminated[r]
  /\ kills < MaxKill
  /\ kills' = kills + 1
  /\ terminated' = [terminated EXCEPT ![r] = TRUE]
  /\ fogboxmeta' = [fogboxmeta EXCEPT ![r] = lmt_map[r]]
  /\ UNCHANGED <<folder, mtime, recv, scan, unseen, itr, t, lmt_map, recvvars,
                 dtn, uploads, sent, now, lost>>

(* SIGINT or SIGTERM at any point of fogsync: close the connection. *)
Term(r) ==
  /\ scan[r] # "off" /\ ~terminated[r]
  /\ kills < MaxKill
  /\ kills' = kills + 1
  /\ terminated' = [terminated EXCEPT ![r] = TRUE]
  /\ UNCHANGED <<diskvars, scan, unseen, itr, t, lmt_map, recvvars, dtn,
                 uploads, sent, now, lost>>

(* fogbox_send is killed, or its router loses power. *)
Kill(r) ==
  /\ scan[r] # "off"
  /\ kills < MaxKill
  /\ kills' = kills + 1
  /\ scan' = [scan EXCEPT ![r] = "off"]
  /\ UNCHANGED <<diskvars, unseen, itr, t, lmt_map, terminated, recvvars, dtn,
                 uploads, sent, now, lost>>

-----------------------------------------------------------------------------
(* fogsync of fogbox_recv: the DTN hands the bundle over for good. *)
GetBundle(r, b) ==
  /\ fetch[r] = "idle"
  /\ b \in dtn[r]
  /\ dtn' = [dtn EXCEPT ![r] = @ \ {b}]
  /\ recvdb' = [recvdb EXCEPT ![r] = b]
  /\ fetch' = [fetch EXCEPT ![r] = "got"]
  /\ UNCHANGED <<diskvars, sendvars, uploads, sent, now, kills, lost>>

(* "file exists, not overwriting" *)
FileExists(r) ==
  /\ fetch[r] = "got"
  /\ IF folder[r][recvdb[r].file] # Missing
       THEN /\ fetch' = [fetch EXCEPT ![r] = "idle"]
            /\ recvdb' = [recvdb EXCEPT ![r] = NoBundle]
       ELSE fetch' = [fetch EXCEPT ![r] = "absent"] /\ UNCHANGED recvdb
  /\ UNCHANGED <<diskvars, sendvars, dtn, uploads, sent, now, kills, lost>>

(* Faulty variant: the lock is not created before the file. *)
CreateLock_Not(r) ==
  /\ fetch[r] = "absent"
  /\ fetch' = [fetch EXCEPT ![r] = "locked"]
  /\ UNCHANGED <<diskvars, sendvars, recvdb, dtn, uploads, sent, now, kills, lost>>

(* The lock comes first, so that fogbox_send never sees the file alone. *)
CreateLock(r) ==
  /\ fetch[r] = "absent"
  /\ fetch' = [fetch EXCEPT ![r] = "locked"]
  /\ recv' = [recv EXCEPT ![r] = @ \cup {recvdb[r].file}]
  /\ UNCHANGED <<folder, mtime, fogboxmeta, sendvars, recvdb, dtn, uploads,
                 sent, now, kills, lost>>

(* open with trunc creates the file or empties the one that is there. *)
OpenFile(r) ==
  /\ fetch[r] = "locked"
  /\ fetch' = [fetch EXCEPT ![r] = "created"]
  /\ folder' = [folder EXCEPT
       ![r][recvdb[r].file] = [recvdb[r].data EXCEPT !.whole = FALSE]]
  /\ mtime' = [mtime EXCEPT ![r][recvdb[r].file] = now]
  /\ UNCHANGED <<recv, fogboxmeta, sendvars, recvdb, dtn, uploads, sent, now,
                 kills, lost>>

(* The picture is written to the file that was opened; an upload may have  *)
(* put another one in its place meanwhile, which stays.                    *)
WriteFile(r) ==
  /\ fetch[r] = "created"
  /\ fetch' = [fetch EXCEPT ![r] = "idle"]
  /\ recvdb' = [recvdb EXCEPT ![r] = NoBundle]
  /\ IF folder[r][recvdb[r].file].whole
       THEN UNCHANGED <<folder, mtime>>
       ELSE /\ folder' = [folder EXCEPT ![r][recvdb[r].file] = recvdb[r].data]
            /\ mtime' = [mtime EXCEPT ![r][recvdb[r].file] = now]
  /\ UNCHANGED <<recv, fogboxmeta, sendvars, dtn, uploads, sent, now, kills, lost>>

(* fogbox_recv ends at any point, and is started again: the bundle it had  *)
(* at hand is gone, the files stay as they are.                            *)
CrashRecv(r) ==
  /\ fetch[r] # "idle"
  /\ lost < MaxLost
  /\ lost' = lost + 1
  /\ fetch' = [fetch EXCEPT ![r] = "idle"]
  /\ recvdb' = [recvdb EXCEPT ![r] = NoBundle]
  /\ UNCHANGED <<diskvars, sendvars, dtn, uploads, sent, now, kills>>

(* A bundle outlives its lifetime of three hours. *)
Expire(r, b) ==
  /\ b \in dtn[r]
  /\ lost < MaxLost
  /\ lost' = lost + 1
  /\ dtn' = [dtn EXCEPT ![r] = @ \ {b}]
  /\ UNCHANGED <<diskvars, sendvars, recvvars, uploads, sent, now, kills>>

-----------------------------------------------------------------------------
SendStep(r) ==
  \/ StartScan(r) \/ CheckLock(r) \/ SendFile(r) \/ EndScan(r)
  \/ WriteMetadata(r)
  \/ \E f \in Picture : OldFile(r, f) \/ NewFile(r, f)

RecvStep(r) ==
  \/ \E b \in dtn[r] : GetBundle(r, b)
  \/ FileExists(r) \/ CreateLock(r) \/ OpenFile(r) \/ WriteFile(r)

Next ==
  \/ \E r \in Router : \/ \E f \in Picture : Upload(r, f)
                       \/ Start(r) \/ SendStep(r) \/ Term(r) \/ Kill(r)
                       \/ RecvStep(r) \/ CrashRecv(r)
                       \/ \E b \in dtn[r] : Expire(r, b)
  \/ Tick

Spec == Init /\ [][Next]_vars

(* Both programs keep running: fogsync restarts its timer, the DTN brings  *)
(* what it holds, and a fogbox_send that has ended is started again.       *)
FairSpec ==
  /\ Spec
  /\ \A r \in Router : WF_vars(Start(r)) /\ WF_vars(SendStep(r))
                         /\ WF_vars(RecvStep(r))
-----------------------------------------------------------------------------
(* A router hands to the DTN only pictures its own phones have uploaded,   *)
(* and only whole ones: no crash, restart or interleaving with fogbox_recv *)
(* makes it send on what it has received, which is what "saturated" the    *)
(* network of the first version (asio/README.md:66-74).                    *)
NoEcho == \A b \in sent : b.data.from = b.src /\ b.data.whole

(* .fogboxmeta tells the next run of fogbox_send only of pictures that     *)
(* were sent, although lmt_map holds a picture before it is sent and a     *)
(* signal, a crash or a closed connection may come between.                *)
MetaSent ==
  \A r \in Router, f \in Picture :
    fogboxmeta[r][f] # 0 => \E b \in sent : b.src = r /\ b.file = f

(* A picture that was uploaded gets to every router, wherever fogbox_send  *)
(* was terminated or killed on the way, unless a bundle expires or a       *)
(* fogbox_recv crashes.                                                    *)
Synchronized ==
  \A r \in Router, f \in Picture :
    uploads[r][f] # 0
      ~> \/ lost # 0
         \/ \A q \in Router : folder[q][f] # Missing /\ folder[q][f].whole

(* "file exists, not overwriting" (fogbox_recv.cpp:137): a bundle never    *)
(* replaces a picture that is there.  It does when the picture is uploaded *)
(* between the test and the opening of the file.                           *)
NotOverwriting ==
  [][\A r \in Router : OpenFile(r) => folder[r][recvdb[r].file] = Missing]_vars

(* "When there's a new picture found, fogbox will send it to the DTN"      *)
(* (asio/README.md:29): the picture last uploaded under a name is sent.    *)
(* It is not if a picture of that name was received before, whose lock is  *)
(* still there, or if two pictures of that name came in the same second.   *)
NewPictureSent ==
  \A r \in Router, f \in Picture, v \in 1 .. MaxVersion :
    uploads[r][f] = v
      ~> \/ uploads[r][f] > v
         \/ \E b \in sent : b.src = r /\ b.file = f /\ b.data.version = v
=============================================================================
