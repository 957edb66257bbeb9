----------------------------- MODULE TftpUpload -----------------------------
(***************************************************************************)
(* How a picture gets from a phone to a router: the client of the Fogbox   *)
(* application (jni/tftpc.c: sendRequestedFile and tsend), the server      *)
(* (asio/tftpd.c: the loop of main, tget and tcopytmp), the datagrams      *)
(* between them and the files of the router.                               *)
(*                                                                         *)
(* Datagrams are lost (nobody has to receive one), late, out of order or   *)
(* duplicated, and every wait may time out before an answer that is on its *)
(* way.  ackfreq and datasize have their defaults on both sides, 1 and     *)
(* 512, as the application and the README start them: every block is       *)
(* acknowledged and only the last one is short.  Block numbers do not wrap *)
(* (files below 32 MB).  The requests are well formed.                     *)
(***************************************************************************)
EXTENDS Naturals, Sequences, FiniteSets

CONSTANTS
  Upload,      \* the calls of sendRequestedFile: one thread each
  Phone,       \* Phone[u]: the phone the thread runs on, its IP address
  Name,        \* Name[u]: the name of the file it is to send
  LastBlock,   \* LastBlock[n]: the number of blocks of the file called n
  Child,       \* the server's transfers: one port each
  DEBUG,       \* tftpd -d: no fork, one transfer at a time
  RETRIES,     \* waits per block (3)
  Nobody,      \* a port no transfer listens on, and the absence of a file
  MaxDup,      \* bound: datagrams the network duplicates
  MaxKill      \* bound: times tftpd is killed and started again

Phones == {Phone[u] : u \in Upload}
Names == {Name[u] : u \in Upload}

ASSUME FileAssumption == \A n \in Names : LastBlock[n] \in Nat \ {0}
ASSUME RetriesAssumption == RETRIES \in Nat \ {0} /\ DEBUG \in BOOLEAN
ASSUME BoundAssumption == MaxDup \in Nat /\ MaxKill \in Nat
ASSUME NobodyAssumption == Nobody \notin Child /\ Nobody \notin Names

VARIABLES
  \* the phones
  filepath,    \* filepath[p]: the global that names the file to open
  reqbuf,      \* reqbuf[p]: the global buf, the request packet in it
  cstate,      \* where a thread is
  source,      \* the file tsend has opened
  count,       \* the number of the block it is sending
  ctries,      \* j: waits for the acknowledgement of that block
  server_tid,  \* the port it sends to, taken from ack.sin_port
  \* the router
  errno_again, \* main: errno is EAGAIN
  sstate,      \* where a transfer is
  client,      \* the thread it talks to
  filename,    \* the name it was asked to write
  got,         \* the blocks it has passed to fwrite
  flushed,     \* how many of them are in the file
  stries,      \* j: waits for the next block
  tmp,         \* tmp[n]: <path>/n, the file being received
  realtmp,     \* realtmp[n]: <fog_realpath>/n.tmp
  real,        \* real[n]: <fog_realpath>/n, the file fogbox_send will find
  \* the network
  net, dups, kills

phonevars == <<filepath, reqbuf, cstate, source, count, ctries, server_tid>>
childvars == <<sstate, client, filename, got, flushed, stries>>
diskvars == <<tmp, realtmp, real>>
vars == <<phonevars, errno_again, childvars, diskvars, net, dups, kills>>

Block == [file : Names, num : Nat \ {0}]
Hole == [file |-> Nobody, num |-> 0]
File(n) == [i \in 1 .. LastBlock[n] |-> [file |-> n, num |-> i]]

(* The definitions named ..._<what changed> are faulty variants of the      *)
(* definition that follows them.  No action uses them: they serve to see    *)
(* that a property notices the fault.                                       *)
IsLast_OneMore(b) == b.num = LastBlock[b.file] + 1

(* The block is shorter than datasize. *)
IsLast(b) == b.num = LastBlock[b.file]

Port == Child \cup {Nobody}
Message ==
  [type : {"WRQ"}, from : Upload, name : Names]
    \cup [type : {"DATA"}, from : Upload, to : Port, block : Block]
    \cup [type : {"ACK"}, from : Child, to : Upload, num : Nat]

ClientState == {"idle", "path", "packet", "requested", "wait_wrq", "wait_ack",
                "sent", "aborted"}
Active == {"forked", "get", "close", "copy", "rename"}
ChildState == Active \cup {"free", "ended", "reaped"}
Disk == [Names -> {Nobody} \cup Seq(Block \cup {Hole})]

TypeOK ==
  /\ filepath \in [Phones -> Names \cup {Nobody}]
  /\ reqbuf \in [Phones -> Names \cup {Nobody}]
  /\ cstate \in [Upload -> ClientState]
  /\ source \in [Upload -> Names \cup {Nobody}]
  /\ count \in [Upload -> Nat]
  /\ ctries \in [Upload -> 0 .. RETRIES - 1]
  /\ server_tid \in [Upload -> Port]
  /\ errno_again \in BOOLEAN
  /\ sstate \in [Child -> ChildState]
  /\ client \in [Child -> Upload \cup {Nobody}]
  /\ filename \in [Child -> Names \cup {Nobody}]
  /\ got \in [Child -> Seq(Block)]
  /\ flushed \in [Child -> Nat]
  /\ stries \in [Child -> 0 .. RETRIES - 1]
  /\ tmp \in Disk /\ realtmp \in Disk /\ real \in Disk
  /\ net \subseteq Message
  /\ dups \in 0 .. MaxDup
  /\ kills \in 0 .. MaxKill

Init ==
  /\ filepath = [p \in Phones |-> Nobody]
  /\ reqbuf = [p \in Phones |-> Nobody]
  /\ cstate = [u \in Upload |-> "idle"]
  /\ source = [u \in Upload |-> Nobody]
  /\ count = [u \in Upload |-> 0]
  /\ ctries = [u \in Upload |-> 0]
  /\ server_tid = [u \in Upload |-> Nobody]
  /\ errno_again = FALSE
  /\ sstate = [c \in Child |-> "free"]
  /\ client = [c \in Child |-> Nobody]
  /\ filename = [c \in Child |-> Nobody]
  /\ got = [c \in Child |-> <<>>]
  /\ flushed = [c \in Child |-> 0]
  /\ stries = [c \in Child |-> 0]
  /\ tmp = [n \in Names |-> Nobody]
  /\ realtmp = [n \in Names |-> Nobody]
  /\ real = [n \in Names |-> Nobody]
  /\ net = {}
  /\ dups = 0
  /\ kills = 0

-----------------------------------------------------------------------------
(* The network.  A datagram that is received leaves it, or stays to be     *)
(* received again.                                                         *)
Send(m) == net' = net \cup {m} /\ UNCHANGED dups

Received(m, answers) ==
  \/ net' = (net \ {m}) \cup answers /\ UNCHANGED dups
  \/ /\ dups < MaxDup
     /\ dups' = dups + 1
     /\ net' = net \cup answers

Data(u, port, k) ==
  [type |-> "DATA", from |-> u, to |-> port,
   block |-> [file |-> source[u], num |-> k]]
Ack(c, k) == [type |-> "ACK", from |-> c, to |-> client[c], num |-> k]

-----------------------------------------------------------------------------
(* sendRequestedFile: the path of the file goes to a global, the request   *)
(* packet to another, the packet to the server.  The threads of a phone    *)
(* share the globals and take no lock.                                     *)
SetPath(u) ==
  /\ cstate[u] = "idle"
  /\ cstate' = [cstate EXCEPT ![u] = "path"]
  /\ filepath' = [filepath EXCEPT ![Phone[u]] = Name[u]]
  /\ UNCHANGED <<reqbuf, source, count, ctries, server_tid, errno_again,
                 childvars, diskvars, net, dups, kills>>

MakeRequest(u) ==
  /\ cstate[u] = "path"
  /\ cstate' = [cstate EXCEPT ![u] = "packet"]
  /\ reqbuf' = [reqbuf EXCEPT ![Phone[u]] = Name[u]]
  /\ UNCHANGED <<filepath, source, count, ctries, server_tid, errno_again,
                 childvars, diskvars, net, dups, kills>>

SendRequest(u) ==
  /\ cstate[u] = "packet"
  /\ cstate' = [cstate EXCEPT ![u] = "requested"]
  /\ Send([type |-> "WRQ", from |-> u, name |-> reqbuf[Phone[u]]])
  /\ UNCHANGED <<filepath, reqbuf, source, count, ctries, server_tid,
                 errno_again, childvars, diskvars, kills>>

(* tsend opens the file whose path the global holds by then. *)
OpenSource(u) ==
  /\ cstate[u] = "requested"
  /\ cstate' = [cstate EXCEPT ![u] = "wait_wrq"]
  /\ source' = [source EXCEPT ![u] = filepath[Phone[u]]]
  /\ UNCHANGED <<filepath, reqbuf, count, ctries, server_tid, errno_again,
                 childvars, diskvars, net, dups, kills>>

(* There is one wait for the answer to the request, and whatever comes of  *)
(* it, the port in ack.sin_port is the one to send to and block 1 is sent. *)
WrqAnswered(u, m) ==
  /\ cstate[u] = "wait_wrq"
  /\ m \in net /\ m.type = "ACK" /\ m.to = u
  /\ cstate' = [cstate EXCEPT ![u] = "wait_ack"]
  /\ server_tid' = [server_tid EXCEPT ![u] = m.from]
  /\ count' = [count EXCEPT ![u] = 1]
  /\ Received(m, {Data(u, m.from, 1)})
  /\ UNCHANGED <<filepath, reqbuf, source, ctries, errno_again, childvars,
                 diskvars, kills>>

(* After a time-out ack was never written: its port is whatever was on the *)
(* stack.  Port 0 makes sendto fail, which ends tsend.                     *)
WrqTimeout(u) ==
  /\ cstate[u] = "wait_wrq"
  /\ count' = [count EXCEPT ![u] = 1]
  /\ \/ /\ cstate' = [cstate EXCEPT ![u] = "aborted"]
        /\ UNCHANGED <<server_tid, net, dups>>
     \/ \E port \in Port :
          /\ cstate' = [cstate EXCEPT ![u] = "wait_ack"]
          /\ server_tid' = [server_tid EXCEPT ![u] = port]
          /\ Send(Data(u, port, 1))
  /\ UNCHANGED <<filepath, reqbuf, source, ctries, errno_again, childvars,
                 diskvars, kills>>

(* Faulty variant: the number of the acknowledgement is not looked at. *)
BlockAcked_AnyNumber(u, m) ==
  /\ cstate[u] = "wait_ack"
  /\ m \in net /\ m.type = "ACK" /\ m.to = u
  /\ IF count[u] = LastBlock[source[u]]
       THEN /\ cstate' = [cstate EXCEPT ![u] = "sent"]
            /\ Received(m, {})
            /\ UNCHANGED <<count, ctries>>
       ELSE /\ count' = [count EXCEPT ![u] = @ + 1]
            /\ ctries' = [ctries EXCEPT ![u] = 0]
            /\ Received(m, {Data(u, server_tid[u], count[u] + 1)})
            /\ UNCHANGED cstate
  /\ UNCHANGED <<filepath, reqbuf, source, server_tid, errno_again, childvars,
                 diskvars, kills>>

(* The acknowledgement of the block on its way.  The test of line 826      *)
(* compares the server's port with itself: any port will do.               *)
BlockAcked(u, m) ==
  /\ cstate[u] = "wait_ack"
  /\ m \in net /\ m.type = "ACK" /\ m.to = u
  /\ m.num = count[u]
  /\ IF count[u] = LastBlock[source[u]]
       THEN /\ cstate' = [cstate EXCEPT ![u] = "sent"]
            /\ Received(m, {})
            /\ UNCHANGED <<count, ctries>>
       ELSE /\ count' = [count EXCEPT ![u] = @ + 1]
            /\ ctries' = [ctries EXCEPT ![u] = 0]
            /\ Received(m, {Data(u, server_tid[u], count[u] + 1)})
            /\ UNCHANGED cstate
  /\ UNCHANGED <<filepath, reqbuf, source, server_tid, errno_again, childvars,
                 diskvars, kills>>

(* Anything else uses up a wait: the block is sent again, also the last    *)
(* time, when nobody will wait for the answer.                             *)
GiveUpOrWait(u) ==
  IF ctries[u] + 1 = RETRIES
    THEN cstate' = [cstate EXCEPT ![u] = "aborted"] /\ UNCHANGED ctries
    ELSE ctries' = [ctries EXCEPT ![u] = @ + 1] /\ UNCHANGED cstate

OtherAck(u, m) ==
  /\ cstate[u] = "wait_ack"
  /\ m \in net /\ m.type = "ACK" /\ m.to = u
  /\ m.num # count[u]
  /\ GiveUpOrWait(u)
  /\ Received(m, {Data(u, server_tid[u], count[u])})
  /\ UNCHANGED <<filepath, reqbuf, source, count, server_tid, errno_again,
                 childvars, diskvars, kills>>

AckTimeout(u) ==
  /\ cstate[u] = "wait_ack"
  /\ GiveUpOrWait(u)
  /\ Send(Data(u, server_tid[u], count[u]))
  /\ UNCHANGED <<filepath, reqbuf, source, count, server_tid, errno_again,
                 childvars, diskvars, kills>>

-----------------------------------------------------------------------------
(* main's loop.  One turn reaps a child that has ended and looks for a     *)
(* datagram.  waitpid sets errno only if there is no child at all, and a   *)
(* recvfrom that succeeds does not reset it: a request that is read while  *)
(* errno is still EAGAIN does not end the loop and is forgotten.           *)
Kids == {c \in Child : sstate[c] \in Active \cup {"ended"}}
Busy == \E c \in Child : sstate[c] \in Active
ErrnoAgain == errno_again /\ Kids # {}

Reaped ==
  LET ended == {c \in Child : sstate[c] = "ended"}
  IN  IF ended = {} THEN {sstate}
      ELSE {[sstate EXCEPT ![c] = "reaped"] : c \in ended}

NothingReceived ==
  /\ ~(DEBUG /\ Busy)
  /\ sstate' \in Reaped
  /\ errno_again' = TRUE
  /\ UNCHANGED <<phonevars, client, filename, got, flushed, stries, diskvars,
                 net, dups, kills>>

RequestForgotten(m) ==
  /\ ~(DEBUG /\ Busy)
  /\ m \in net /\ m.type = "WRQ"
  /\ ErrnoAgain
  /\ sstate' \in Reaped
  /\ errno_again' = TRUE
  /\ Received(m, {})
  /\ UNCHANGED <<phonevars, client, filename, got, flushed, stries, diskvars,
                 kills>>

RequestAccepted(m, c) ==
  /\ ~(DEBUG /\ Busy)
  /\ m \in net /\ m.type = "WRQ"
  /\ ~ErrnoAgain
  /\ sstate[c] = "free"
  /\ sstate' \in {[states EXCEPT ![c] = "forked"] : states \in Reaped}
  /\ client' = [client EXCEPT ![c] = m.from]
  /\ filename' = [filename EXCEPT ![c] = m.name]
  /\ errno_again' = FALSE
  /\ Received(m, {})
  /\ UNCHANGED <<phonevars, got, flushed, stries, diskvars, kills>>

-----------------------------------------------------------------------------
(* tget opens the file for writing, which empties it, and says so. *)
TgetOpen(c) ==
  /\ sstate[c] = "forked"
  /\ sstate' = [sstate EXCEPT ![c] = "get"]
  /\ tmp' = [tmp EXCEPT ![filename[c]] = <<>>]
  /\ Send(Ack(c, 0))
  /\ UNCHANGED <<phonevars, errno_again, client, filename, got, flushed,
                 stries, realtmp, real, kills>>

(* The first n blocks of a transfer are in its file, at their offsets. *)
Written(old, blocks, from) ==
  [i \in 1 .. (IF Len(old) > Len(blocks) THEN Len(old) ELSE Len(blocks)) |->
     IF i > from /\ i <= Len(blocks) THEN blocks[i]
     ELSE IF i <= Len(old) THEN old[i] ELSE Hole]

Flush(c) ==
  /\ tmp' = [tmp EXCEPT ![filename[c]] = Written(@, got[c], flushed[c])]
  /\ flushed' = [flushed EXCEPT ![c] = Len(got[c])]

(* fwrite passes what it has collected on to the file. *)
BufferFull(c) ==
  /\ sstate[c] = "get"
  /\ flushed[c] < Len(got[c])
  /\ Flush(c)
  /\ UNCHANGED <<phonevars, errno_again, sstate, client, filename, got, stries,
                 realtmp, real, net, dups, kills>>

Expected(c) == Len(got[c]) + 1

(* Faulty variant: the address of the sender is not checked either. *)
BlockReceived_AnyAddress(c, m) ==
  /\ sstate[c] = "get"
  /\ m \in net /\ m.type = "DATA" /\ m.to = c
  /\ m.block.num = Expected(c)
  /\ got' = [got EXCEPT ![c] = Append(@, m.block)]
  /\ stries' = [stries EXCEPT ![c] = 0]
  /\ sstate' = [sstate EXCEPT ![c] = IF IsLast(m.block) THEN "close" ELSE @]
  /\ Received(m, {Ack(c, Expected(c))})
  /\ UNCHANGED <<phonevars, errno_again, client, filename, flushed, diskvars,
                 kills>>

(* The block that is waited for.  The test of line 430 compares the        *)
(* client's port with itself; only the address of the sender is checked.   *)
BlockReceived(c, m) ==
  /\ sstate[c] = "get"
  /\ m \in net /\ m.type = "DATA" /\ m.to = c
  /\ Phone[m.from] = Phone[client[c]]
  /\ m.block.num = Expected(c)
  /\ got' = [got EXCEPT ![c] = Append(@, m.block)]
  /\ stries' = [stries EXCEPT ![c] = 0]
  /\ sstate' = [sstate EXCEPT ![c] = IF IsLast(m.block) THEN "close" ELSE @]
  /\ Received(m, {Ack(c, Expected(c))})
  /\ UNCHANGED <<phonevars, errno_again, client, filename, flushed, diskvars,
                 kills>>

Stranger(c, m) ==
  /\ sstate[c] = "get"
  /\ m \in net /\ m.type = "DATA" /\ m.to = c
  /\ Phone[m.from] # Phone[client[c]]
  /\ Received(m, {})
  /\ UNCHANGED <<phonevars, errno_again, childvars, diskvars, kills>>

(* Faulty variants: the waits are not counted, one too many is waited, or  *)
(* a transfer that gives up publishes what it has.                         *)
AbortOrWait_Forever(c) == UNCHANGED <<sstate, stries, tmp, flushed>>

AbortOrWait_OneMore(c) ==
  IF stries[c] = RETRIES
    THEN /\ sstate' = [sstate EXCEPT ![c] = IF DEBUG THEN "reaped" ELSE "ended"]
         /\ Flush(c)
         /\ UNCHANGED stries
    ELSE /\ stries' = [stries EXCEPT ![c] = @ + 1]
         /\ UNCHANGED <<sstate, tmp, flushed>>

(* What a failed transfer does with its file: fclose, and leave it there. *)
AbortOrWait(c) ==
  IF stries[c] + 1 = RETRIES
    THEN /\ sstate' = [sstate EXCEPT ![c] = IF DEBUG THEN "reaped" ELSE "ended"]
         /\ Flush(c)
         /\ UNCHANGED stries
    ELSE /\ stries' = [stries EXCEPT ![c] = @ + 1]
         /\ UNCHANGED <<sstate, tmp, flushed>>

OtherBlock(c, m) ==
  /\ sstate[c] = "get"
  /\ m \in net /\ m.type = "DATA" /\ m.to = c
  /\ Phone[m.from] = Phone[client[c]]
  /\ m.block.num # Expected(c)
  /\ AbortOrWait(c)
  /\ Received(m, {Ack(c, Len(got[c]))})
  /\ UNCHANGED <<phonevars, errno_again, client, filename, got, realtmp, real,
                 kills>>

DataTimeout(c) ==
  /\ sstate[c] = "get"
  /\ AbortOrWait(c)
  /\ Send(Ack(c, Len(got[c])))
  /\ UNCHANGED <<phonevars, errno_again, client, filename, got, realtmp, real,
                 kills>>

(* done: close the file *)
Close(c) ==
  /\ sstate[c] = "close"
  /\ sstate' = [sstate EXCEPT ![c] = "copy"]
  /\ Flush(c)
  /\ UNCHANGED <<phonevars, errno_again, client, filename, got, stries,
                 realtmp, real, net, dups, kills>>

(* tcopytmp: copy the file next to its final place, then rename it. *)
CopyTmp(c) ==
  /\ sstate[c] = "copy"
  /\ sstate' = [sstate EXCEPT ![c] = "rename"]
  /\ realtmp' = [realtmp EXCEPT ![filename[c]] = tmp[filename[c]]]
  /\ UNCHANGED <<phonevars, errno_again, client, filename, got, flushed, stries,
                 tmp, real, net, dups, kills>>

Rename(c) ==
  /\ sstate[c] = "rename"
  /\ sstate' = [sstate EXCEPT ![c] = IF DEBUG THEN "reaped" ELSE "ended"]
  /\ IF realtmp[filename[c]] = Nobody
       THEN UNCHANGED <<real, realtmp>>
       ELSE /\ real' = [real EXCEPT ![filename[c]] = realtmp[filename[c]]]
            /\ realtmp' = [realtmp EXCEPT ![filename[c]] = Nobody]
  /\ UNCHANGED <<phonevars, errno_again, client, filename, got, flushed, stries,
                 tmp, net, dups, kills>>

(* tftpd and its children are killed and tftpd is started again: what the  *)
(* children had not flushed is gone, the files stay.                       *)
Kill ==
  /\ kills < MaxKill
  /\ kills' = kills + 1
  /\ sstate' = [c \in Child |-> IF c \in Kids THEN "reaped" ELSE sstate[c]]
  /\ errno_again' = FALSE
  /\ UNCHANGED <<phonevars, client, filename, got, flushed, stries, diskvars,
                 net, dups>>

-----------------------------------------------------------------------------
ClientStep(u) ==
  \/ SetPath(u) \/ MakeRequest(u) \/ SendRequest(u) \/ OpenSource(u)
  \/ WrqTimeout(u) \/ AckTimeout(u)
  \/ \E m \in net : WrqAnswered(u, m) \/ BlockAcked(u, m) \/ OtherAck(u, m)

DaemonStep ==
  \/ NothingReceived
  \/ \E m \in net : \/ RequestForgotten(m)
                    \/ \E c \in Child : RequestAccepted(m, c)

ChildStep(c) ==
  \/ TgetOpen(c) \/ BufferFull(c) \/ DataTimeout(c)
  \/ Close(c) \/ CopyTmp(c) \/ Rename(c)
  \/ \E m \in net : BlockReceived(c, m) \/ OtherBlock(c, m) \/ Stranger(c, m)

Next ==
  \/ \E u \in Upload : ClientStep(u)
  \/ DaemonStep
  \/ \E c \in Child : ChildStep(c)
  \/ Kill

Spec == Init /\ [][Next]_vars

(* Every thread and process keeps running: each of their waits ends, with  *)
(* a datagram or with the time-out.  The network promises nothing.         *)
FairSpec ==
  /\ Spec
  /\ \A u \in Upload : WF_vars(ClientStep(u))
  /\ WF_vars(DaemonStep)
  /\ \A c \in Child : WF_vars(ChildStep(c))
-----------------------------------------------------------------------------
(* What fogbox_send finds under a name is the whole file of that name,     *)
(* whatever the network and the timers did to the transfer and wherever    *)
(* tftpd was killed: tcopytmp publishes all or nothing.                    *)
WholeFile == \A n \in Names : real[n] \in {Nobody, File(n)}

(* "File sent successfully": when the client believes that, a transfer of  *)
(* its own has every block of the file it opened, each once and in order,  *)
(* although any acknowledgement with the right number convinces it.        *)
SentIsReceived ==
  \A u \in Upload : cstate[u] = "sent" =>
    \E c \in Child : client[c] = u /\ got[c] = File(source[u])

(* However many datagrams are lost, repeated or late, a thread of the      *)
(* application that has started ends, and so does every transfer of the    *)
(* server: the two retry loops do not keep each other going.               *)
TransferEnds ==
  /\ \A u \in Upload :
       cstate[u] # "idle" ~> cstate[u] \in {"sent", "aborted"}
  /\ \A c \in Child :
       sstate[c] = "forked" ~> sstate[c] \in {"ended", "reaped"}

(* While tftpd is not killed, a file that was sent is published. *)
SentIsPublished ==
  \A u \in Upload : cstate[u] = "sent" ~> real[Name[u]] # Nobody

(* "endless loop to get connections from the client" (tftpd.c:155): a      *)
(* write request that the server has read gets a transfer.  It does not    *)
(* when errno is still EAGAIN, which it is while any child runs.           *)
RequestServed ==
  [][\A m \in net : m.type = "WRQ" /\ m \notin net' =>
       \E c \in Child : sstate[c] = "free" /\ client'[c] = m.from]_vars

(* "checks to ensure get from the correct TID" (tftpc.c:826): an           *)
(* acknowledgement from a port the client does not send to changes nothing *)
(* for it.  It uses up one of its waits, or counts as the answer.          *)
CorrectTID ==
  [][\A u \in Upload : \A m \in net :
       (BlockAcked(u, m) \/ OtherAck(u, m)) /\ m.from # server_tid[u]
         => UNCHANGED <<cstate[u], count[u], ctries[u]>>]_vars

(* "we aren't going to let another connection spoil our first connection"  *)
(* (tftpd.c:444): what is published of a file that was sent is the file.   *)
(* A second transfer of the same name empties the file the first one has   *)
(* finished but not copied.                                                *)
FirstConnectionUnspoiled ==
  \A u \in Upload :
    cstate[u] = "sent" => real[Name[u]] \in {Nobody, File(Name[u])}

(* "users can upload pictures" (asio/README.md:27): what is published      *)
(* under the name of a picture comes from that picture.  It need not when  *)
(* two threads of a phone race for the global filepath.                    *)
PublishedUnderItsName ==
  \A n \in Names : real[n] # Nobody =>
    \A i \in DOMAIN real[n] : real[n][i].file = n
=============================================================================
