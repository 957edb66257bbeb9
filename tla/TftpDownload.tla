---------------------------- MODULE TftpDownload ----------------------------
(***************************************************************************)
(* A client gets a file from the TFTP server of a router: tsend of         *)
(* asio/tftpd.c, which runs in a child of its own for each request.        *)
(*                                                                         *)
(* The server reads from the directory in which uploads arrive: the file   *)
(* can still be growing.  The client is any client that keeps to the       *)
(* protocol.  Datagrams are lost, late, out of order or duplicated.  A     *)
(* file is a sequence of pieces, of which datasize make a block; it has    *)
(* fewer than 2^16 blocks.                                                 *)
(***************************************************************************)
EXTENDS Integers, SequencesExt, Bags, BagsExt

CONSTANTS
  Upload,     \* the contents of the file, once it is there in full
  datasize,   \* pieces of a block
  AckFreq,    \* values of the option -a: blocks between acknowledgements
  RETRIES,    \* waits per acknowledgement (3)
  NULL,       \* no file
  MaxFaults   \* bound: datagrams duplicated, or sent by the client unasked

ASSUME DatasizeAssumption == datasize \in Nat \ {0}
ASSUME AckFreqAssumption == AckFreq \subseteq Nat \ {0}
ASSUME RetriesAssumption == RETRIES \in Nat \ {0}
ASSUME UploadAssumption == Upload \in Seq(Nat)
ASSUME MaxFaultsAssumption == MaxFaults \in Nat
ASSUME NullAssumption == \A n \in 0 .. Len(Upload) : NULL # SubSeq(Upload, 1, n)

VARIABLES
  \* the server
  ackfreq,
  file,       \* what there is of the file, or NULL
  pc,         \* tsend is to check the "request", to "read" or to "wait";
              \* it has "refused", "sent" or "aborted"
  count,      \* the number of the block it sends
  packetbuf,  \* the packets since the last acknowledgement that it waited for
  len,        \* pieces of the last one
  j,          \* waits for the acknowledgement
  \* datagrams under way
  data, acks,
  \* the client
  got,        \* what it has written
  rcount,     \* the last block it has written
  answer,     \* it is "receiving", "done" or has got an "error"
  \* history
  whole,      \* the upload was complete when it was asked for
  faults      \* datagrams lost, late, duplicated or unasked for, up to
              \* RETRIES + MaxFaults

server == <<ackfreq, pc, count, packetbuf, len, j>>
client == <<got, rcount, answer>>
vars == <<server, file, data, acks, client, whole, faults>>

Datagram(num, pieces) == [count |-> num, pieces |-> pieces]
Error == [count |-> 0, pieces |-> <<>>]

OneMore == IF faults < RETRIES + MaxFaults THEN faults + 1 ELSE faults

Init ==
  /\ ackfreq \in AckFreq
  /\ file \in {NULL} \cup {SubSeq(Upload, 1, n) : n \in 0 .. Len(Upload)}
  /\ pc = "request" /\ count = 0 /\ packetbuf = {} /\ len = 0 /\ j = 0
  /\ data = EmptyBag /\ acks = EmptyBag
  /\ got = <<>> /\ rcount = 0 /\ answer = "receiving"
  /\ whole = (file = Upload) /\ faults = 0

-----------------------------------------------------------------------------
(* tsend                                                                   *)

(* The name has a slash, or there is no file of that name.                 *)
Refuse ==
  /\ pc = "request"
  /\ file = NULL
  /\ pc' = "refused"
  /\ data' = BagAdd(data, Error)
  /\ UNCHANGED <<ackfreq, count, packetbuf, len, j, file, acks, client, whole,
                 faults>>

Accept ==
  /\ pc = "request"
  /\ file # NULL
  /\ pc' = "read"
  /\ UNCHANGED <<ackfreq, count, packetbuf, len, j, file, data, acks, client,
                 whole, faults>>

(* What fread returns for a block.                                         *)
Chunk(num) ==
  LET from == (num - 1) * datasize
      end == from + datasize
  IN SubSeq(file, from + 1, IF end < Len(file) THEN end ELSE Len(file))

IsLast(size) == size # datasize

(* Faulty variant: they are not dropped. *)
Kept_All(num) == packetbuf

(* The packets that are kept: from the first after an acknowledgement.     *)
Kept(num) == IF num <= 2 \/ (num - 2) % ackfreq = 0 THEN {} ELSE packetbuf

(* Faulty variant: only for the last block. *)
AckIsAwaited_Last(num, size) == IsLast(size)

AckIsAwaited(num, size) == (num - 1) % ackfreq = 0 \/ IsLast(size)

(* Without a wait one acknowledgement may be read and is not looked at.    *)
ReadBlock ==
  /\ pc = "read"
  /\ LET num == count + 1
         chunk == Chunk(num)
         packet == Datagram(num, chunk)
     IN /\ count' = num
        /\ packetbuf' = Kept(num) \cup {packet}
        /\ len' = Len(chunk)
        /\ data' = BagAdd(data, packet)
        /\ IF AckIsAwaited(num, Len(chunk))
             THEN pc' = "wait" /\ j' = 0 /\ UNCHANGED acks
             ELSE /\ acks' \in {acks}
                               \cup {BagRemove(acks, m) : m \in DOMAIN acks}
                  /\ UNCHANGED <<pc, j>>
  /\ UNCHANGED <<ackfreq, file, client, whole, faults>>

(* Faulty variant: the number is not looked at. *)
IsAck_Any(m) == m > 0

IsAck(m) == m = count

AckReceived(m) ==
  /\ pc = "wait"
  /\ m \in DOMAIN acks /\ IsAck(m)
  /\ acks' = BagRemove(acks, m)
  /\ pc' = IF IsLast(len) THEN "sent" ELSE "read"
  /\ UNCHANGED <<ackfreq, count, packetbuf, len, j, file, data, client, whole,
                 faults>>

Shortened(packet, l) ==
  [packet EXCEPT !.pieces = SubSeq(@, 1, IF l < Len(@) THEN l ELSE Len(@))]

(* Faulty variant: the length does not include the header. *)
Resent_ShortLen ==
  data (+) SetToBag({Shortened(packet, len - 1) : packet \in packetbuf})

(* All packets are sent again, with the length of the last one.            *)
Resent == data (+) SetToBag({Shortened(packet, len) : packet \in packetbuf})

(* Faulty variants: answers that were not expected are not counted, or it  *)
(* gives up a try too early.                                               *)
Retry_TimeoutsOnly(timeout) ==
  /\ data' = Resent
  /\ j' = IF timeout THEN j + 1 ELSE j
  /\ pc' = IF j' = RETRIES THEN "aborted" ELSE "wait"

Retry_OneLess(timeout) ==
  /\ data' = Resent
  /\ j' = j + 1
  /\ pc' = IF j' + 1 >= RETRIES THEN "aborted" ELSE "wait"

(* Whatever went wrong: after the last time nobody waits for the answer.   *)
Retry(timeout) ==
  /\ data' = Resent
  /\ j' = j + 1
  /\ pc' = IF j' = RETRIES THEN "aborted" ELSE "wait"

OtherAck(m) ==
  /\ pc = "wait"
  /\ m \in DOMAIN acks /\ ~ IsAck(m)
  /\ acks' = BagRemove(acks, m)
  /\ Retry(FALSE)
  /\ UNCHANGED <<ackfreq, count, packetbuf, len, file, client, whole, faults>>

(* TIMEOUT milliseconds have passed.  It is a fault if there is something  *)
(* that should have arrived.                                               *)
Timeout ==
  /\ pc = "wait"
  /\ Retry(TRUE)
  /\ faults' = IF data = EmptyBag /\ acks = EmptyBag THEN faults ELSE OneMore
  /\ UNCHANGED <<ackfreq, count, packetbuf, len, file, acks, client, whole>>

Tsend ==
  \/ Refuse \/ Accept \/ ReadBlock \/ Timeout
  \/ \E m \in DOMAIN acks : AckReceived(m) \/ OtherAck(m)

-----------------------------------------------------------------------------
(* The client.                                                             *)

(* The next block.                                                         *)
BlockReceived(m) ==
  /\ answer = "receiving"
  /\ m \in DOMAIN data /\ m.count = rcount + 1
  /\ got' = got \o m.pieces
  /\ rcount' = m.count
  /\ answer' = IF Len(m.pieces) < datasize THEN "done" ELSE answer
  /\ data' = BagRemove(data, m)
  /\ acks' = BagAdd(acks, m.count)
  /\ UNCHANGED <<server, file, whole, faults>>

(* One that it has is acknowledged, one that is too early is dropped.      *)
OtherReceived(m) ==
  /\ m \in DOMAIN data /\ m.count # 0
  /\ answer = "done" \/ m.count # rcount + 1
  /\ data' = BagRemove(data, m)
  /\ acks' = IF m.count <= rcount THEN BagAdd(acks, m.count) ELSE acks
  /\ UNCHANGED <<server, file, client, whole, faults>>

ErrorReceived(m) ==
  /\ m \in DOMAIN data /\ m = Error
  /\ data' = BagRemove(data, m)
  /\ answer' = IF answer = "receiving" THEN "error" ELSE answer
  /\ UNCHANGED <<server, file, acks, got, rcount, whole, faults>>

(* It waits too long and acknowledges the last block once more.            *)
ClientTimeout ==
  /\ answer = "receiving" /\ rcount > 0
  /\ faults < MaxFaults
  /\ acks' = BagAdd(acks, rcount)
  /\ faults' = OneMore
  /\ UNCHANGED <<server, file, data, client, whole>>

-----------------------------------------------------------------------------
(* The network, and the upload that goes on meanwhile.                     *)

Lose ==
  /\ \/ \E m \in DOMAIN data : data' = BagRemove(data, m) /\ UNCHANGED acks
     \/ \E m \in DOMAIN acks : acks' = BagRemove(acks, m) /\ UNCHANGED data
  /\ faults' = OneMore
  /\ UNCHANGED <<server, file, client, whole>>

Duplicate ==
  /\ faults < MaxFaults
  /\ \/ \E m \in DOMAIN data : data' = BagAdd(data, m) /\ UNCHANGED acks
     \/ \E m \in DOMAIN acks : acks' = BagAdd(acks, m) /\ UNCHANGED data
  /\ faults' = OneMore
  /\ UNCHANGED <<server, file, client, whole>>

Grow ==
  /\ file # NULL /\ Len(file) < Len(Upload)
  /\ \E n \in Len(file) + 1 .. Len(Upload) : file' = SubSeq(Upload, 1, n)
  /\ UNCHANGED <<server, data, acks, client, whole, faults>>

Next ==
  \/ Tsend
  \/ \E m \in DOMAIN data :
       BlockReceived(m) \/ OtherReceived(m) \/ ErrorReceived(m)
  \/ ClientTimeout
  \/ Lose \/ Duplicate \/ Grow

Spec == Init /\ [][Next]_vars

(* The child runs and its waits end; nobody else has to do anything.       *)
FairSpec == Spec /\ WF_vars(Tsend)

-----------------------------------------------------------------------------
Ended == pc \in {"refused", "sent", "aborted"}

TypeOK ==
  /\ pc \in {"request", "read", "wait", "refused", "sent", "aborted"}
  /\ file \in {NULL} \cup {SubSeq(Upload, 1, n) : n \in 0 .. Len(Upload)}
  /\ answer \in {"receiving", "done", "error"}
  /\ count \in Nat /\ (count - 1) * datasize <= Len(Upload)
  /\ rcount \in 0 .. count
  /\ \A packet \in packetbuf : packet.count \in count - ackfreq + 1 .. count
  /\ j \in 0 .. RETRIES /\ len \in 0 .. datasize
  /\ faults \in 0 .. RETRIES + MaxFaults /\ whole \in BOOLEAN
  /\ pc = "wait" => \E packet \in packetbuf : packet.count = count
  /\ IsABag(data) /\ IsABag(acks)

(* What the client has is the beginning of the upload, and the server is   *)
(* never further than the blocks it may send without an acknowledgement,   *)
(* whatever comes late or twice.                                           *)
InOrder ==
  /\ IsPrefix(got, Upload)
  /\ count <= rcount + ackfreq

(* When every block is acknowledged, a client that takes a file for        *)
(* complete has all that was there when it asked for it.                   *)
DoneIsWhole == (answer = "done" /\ whole /\ ackfreq = 1) => got = Upload

(* "File sent successfully": the client has it to the end.                 *)
SentIsReceived == pc = "sent" => answer = "done"

(* A transfer is given up only after RETRIES faults: one that is overcome  *)
(* costs a wait for each block that follows, but not more.                 *)
NotInVain == (pc = "aborted" /\ ackfreq = 1) => faults >= RETRIES

(* The child ends, whether the client answers or not, or too often.        *)
TransferEnds == <>Ended

-----------------------------------------------------------------------------
(* What does not hold.                                                     *)

(* A client that takes a file for complete has the upload: not so.  What   *)
(* has arrived of it is sent, and its end looks like that of a file.       *)
DoneIsUpload == answer = "done" => got = Upload

(* "-a <ack freqency" (tftpd.c:902): with any of them a client that has    *)
(* got a file to its end has all of it.  Not so: packets are sent again    *)
(* with the length of the last one, which makes them look like the last.   *)
DoneIsWholeAlways == (answer = "done" /\ whole) => got = Upload
=============================================================================
