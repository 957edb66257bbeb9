------------------------- MODULE TftpDownloadProofs -------------------------
(***************************************************************************)
(* Proofs about TftpDownload for files and blocks of any size, any number  *)
(* of retries, any frequency of acknowledgements and any faults.           *)
(***************************************************************************)
EXTENDS TftpDownload, SequenceTheorems, TLAPS

-----------------------------------------------------------------------------
(* Counting in turns of k. *)
LEMMA ModStep ==
  ASSUME NEW k \in Nat \ {0}, NEW n \in Nat
  PROVE  /\ n % k \in 0 .. k - 1
         /\ (n + 1) % k = 0 \/ (n + 1) % k = (n % k) + 1
         /\ 0 % k = 0
<1> DEFINE q == n \div k
           r == n % k
<1>1. k \in Int /\ k > 0 /\ n \in Int
  BY Z3
<1>2. n = (k * q) + r /\ r >= 0 /\ r < k /\ q \in Int /\ r \in Int
  BY <1>1, Z3
<1>3. 0 % k = 0
  BY <1>1, Z3
<1> HIDE DEF q, r
<1>4. r \in 0 .. k - 1
  BY <1>1, <1>2, Z3
<1>5. CASE r + 1 < k
  <2>1. n + 1 = k * q + (r + 1)
    BY <1>2, Z3
  <2>2. (k * q + (r + 1)) % k = r + 1
    BY <1>1, <1>2, <1>5, Z3
  <2>3. (n + 1) % k = r + 1
    BY <2>1, <2>2
  <2>4. QED BY <1>3, <1>4, <2>3 DEF r
<1>6. CASE ~ (r + 1 < k)
  <2>1. n + 1 = k * (q + 1)
    BY <1>1, <1>2, <1>6, Z3
  <2>2. (k * (q + 1)) % k = 0
    BY <1>1, <1>2, Z3
  <2>3. (n + 1) % k = 0
    BY <2>1, <2>2
  <2>4. QED BY <1>3, <1>4, <2>3 DEF r
<1>7. QED BY <1>5, <1>6

(* Bags. *)
LEMMA AddBag ==
  ASSUME NEW B, IsABag(B), NEW m
  PROVE  IsABag(BagAdd(B, m)) /\ DOMAIN BagAdd(B, m) = DOMAIN B \cup {m}
BY SMT DEF IsABag, BagAdd

LEMMA RemoveBag ==
  ASSUME NEW B, IsABag(B), NEW m
  PROVE  IsABag(BagRemove(B, m)) /\ DOMAIN BagRemove(B, m) \subseteq DOMAIN B
BY SMT DEF IsABag, BagRemove

LEMMA AddSet ==
  ASSUME NEW B, IsABag(B), NEW M
  PROVE  /\ IsABag(B (+) SetToBag(M))
         /\ DOMAIN (B (+) SetToBag(M)) = DOMAIN B \cup M
BY SMT DEF IsABag, SetToBag, (+)

-----------------------------------------------------------------------------
(* Parts of the upload: the pieces after the first a, up to the b-th. *)
Part(a, b) == SubSeq(Upload, a + 1, b)

(* SubSeq by another name, which the provers do not interpret. *)
Slice(s, m, n) == SubSeq(s, m, n)

LEMMA PartProperties ==
  ASSUME NEW a \in Nat, NEW b \in Nat, a <= b, b <= Len(Upload)
  PROVE  Part(a, b) \in Seq(Nat) /\ Len(Part(a, b)) = b - a
<1> DEFINE m == a + 1
<1>1. m \in Int /\ b \in Int
  BY SMT
<1>2. \A i \in m .. b : Upload[i] \in Nat
  BY UploadAssumption, ElementOfSeq, LenProperties, SMT
<1>3. Part(a, b) = SubSeq(Upload, m, b)
  BY DEF Part
<1> HIDE DEF m
<1>4. /\ SubSeq(Upload, m, b) \in Seq(Nat)
      /\ Len(SubSeq(Upload, m, b)) = IF m <= b THEN b - m + 1 ELSE 0
  BY <1>1, <1>2, SubSeqProperties
<1>5. QED BY <1>1, <1>3, <1>4, SMT DEF m

LEMMA PartOfPart ==
  ASSUME NEW a \in Nat, NEW b \in Nat, a <= b, b <= Len(Upload),
         NEW m \in Nat, NEW d \in Nat, m >= 1, m <= d + 1, d <= b - a,
         NEW e \in Nat, NEW f \in Nat, e = a + m - 1, f = a + d
  PROVE  Slice(Part(a, b), m, d) = Part(e, f)
<1>1. CASE m = d + 1
  <2>1. /\ m \in Int /\ d \in Int /\ d < m
        /\ e + 1 \in Int /\ f \in Int /\ f < e + 1
    BY <1>1, SMT
  <2>2. SubSeq(Part(a, b), m, d) = <<>>
    BY <2>1, SubSeqEmpty
  <2>3. SubSeq(Upload, e + 1, f) = <<>>
    BY <2>1, SubSeqEmpty
  <2>4. QED BY <2>2, <2>3 DEF Part, Slice
<1>2. CASE m # d + 1
  <2>1. /\ a + 1 \in 1 .. Len(Upload) /\ b \in 1 .. Len(Upload)
        /\ m \in 1 .. b - (a + 1) + 1 /\ d \in 1 .. b - (a + 1) + 1
        /\ (a + 1) + m - 1 = e + 1 /\ (a + 1) + d - 1 = f
    BY <1>2, UploadAssumption, LenProperties, SMT
  <2>2. SubSeq(SubSeq(Upload, a + 1, b), m, d)
          = SubSeq(Upload, (a + 1) + m - 1, (a + 1) + d - 1)
    BY <2>1, UploadAssumption, SubSeqOfSubSeq
  <2>3. QED BY <2>1, <2>2 DEF Part, Slice
<1>3. QED BY <1>1, <1>2

LEMMA PartConcat ==
  ASSUME NEW a \in Nat, NEW b \in Nat, NEW c \in Nat, a <= b, b <= c,
         c <= Len(Upload)
  PROVE  Part(a, b) \o Part(b, c) = Part(a, c)
<1>1. /\ a + 1 \in 1 .. Len(Upload) + 1
      /\ b \in (a + 1) - 1 .. Len(Upload)
      /\ c \in b .. Len(Upload)
  BY UploadAssumption, LenProperties, SMT
<1>2. SubSeq(Upload, a + 1, b) \o SubSeq(Upload, b + 1, c)
        = SubSeq(Upload, a + 1, c)
  BY <1>1, UploadAssumption, ConcatAdjacentSubSeq
<1>3. QED BY <1>2 DEF Part

LEMMA PartWhole == Part(0, Len(Upload)) = Upload
<1>1. SubSeq(Upload, 1, Len(Upload)) = Upload
  BY UploadAssumption, SubSeqFull
<1>2. 0 + 1 = 1
  BY SMT
<1>3. QED BY <1>1, <1>2 DEF Part

LEMMA PartEmpty ==
  ASSUME NEW a \in Nat
  PROVE  Part(a, a) = <<>>
<1>1. a + 1 \in Int /\ a \in Int /\ a < a + 1
  BY SMT
<1>2. QED BY <1>1, SubSeqEmpty DEF Part


-----------------------------------------------------------------------------
(* Blocks. *)
Packet == [count : Nat, pieces : Seq(Nat)]

(* The pieces of the first n blocks. *)
Blocks(n) == n * datasize

LEMMA BlocksStep ==
  ASSUME NEW n \in Nat
  PROVE  Blocks(n) \in Nat /\ Blocks(n + 1) = Blocks(n) + datasize /\ Blocks(0) = 0
BY DatasizeAssumption, Z3 DEF Blocks

(* What a packet has is the beginning of its block. *)
IsBlock(p) ==
  /\ p \in Packet /\ p.count >= 1
  /\ Len(p.pieces) <= datasize
  /\ Blocks(p.count - 1) + Len(p.pieces) <= Len(Upload)
  /\ p.pieces = Part(Blocks(p.count - 1), Blocks(p.count - 1) + Len(p.pieces))

(* A packet that ends early is the last one. *)
EndsWell(p) ==
  Len(p.pieces) < datasize
    => Blocks(p.count - 1) + Len(p.pieces) = Len(Upload)

LEMMA ShortenedIsBlock ==
  ASSUME NEW p, IsBlock(p), NEW l \in Nat
  PROVE  /\ IsBlock(Shortened(p, l))
         /\ Shortened(p, l).count = p.count
         /\ Len(Shortened(p, l).pieces)
              = IF l < Len(p.pieces) THEN l ELSE Len(p.pieces)
<1> DEFINE start == Blocks(p.count - 1)
           k == Len(p.pieces)
           size == IF l < k THEN l ELSE k
           s == SubSeq(p.pieces, 1, size)
<1>1. /\ p \in Packet /\ p.count \in Nat /\ p.count >= 1 /\ k \in Nat
      /\ p.pieces \in Seq(Nat) /\ k <= datasize /\ start + k <= Len(Upload)
      /\ p.pieces = Part(start, start + k) /\ Len(Upload) \in Nat
  BY UploadAssumption, LenProperties DEF IsBlock, Packet
<1>2. p.count - 1 \in Nat
  BY <1>1, SMT
<1>3. start \in Nat
  BY <1>2, BlocksStep
<1>4. Shortened(p, l) = [p EXCEPT !.pieces = s]
  BY DEF Shortened
<1> HIDE DEF start, k
<1>5. size \in Nat /\ 0 <= size /\ size <= k /\ start + k \in Nat /\ start <= start + k
      /\ size <= (start + k) - start /\ start + size \in Nat /\ start <= start + size
      /\ start + size <= Len(Upload) /\ size <= datasize
  BY <1>1, <1>3, DatasizeAssumption, SMT
<1> HIDE DEF size
<1>6. s = Part(start, start + size)
  <2> DEFINE end == start + k
             last == start + size
  <2>1. /\ start \in Nat /\ end \in Nat /\ start <= end /\ end <= Len(Upload)
        /\ 1 \in Nat /\ size \in Nat /\ 1 >= 1 /\ 1 <= size + 1
        /\ size <= end - start /\ last \in Nat /\ start = start + 1 - 1
        /\ last = start + size
    BY <1>1, <1>3, <1>5, SMT
  <2> HIDE DEF end, last
  <2>2. Slice(Part(start, end), 1, size) = Part(start, last)
    BY <2>1, PartOfPart, SMT
  <2>3. QED BY <1>1, <2>2 DEF end, last, Slice
<1>7. s \in Seq(Nat) /\ Len(s) = size
  <2>1. Part(start, start + size) \in Seq(Nat) /\ Len(Part(start, start + size)) = (start + size) - start
    BY <1>3, <1>5, PartProperties
  <2>2. (start + size) - start = size
    BY <1>3, <1>5, SMT
  <2>3. QED BY <1>6, <2>1, <2>2
<1> HIDE DEF s
<1>8. /\ [p EXCEPT !.pieces = s] \in Packet
      /\ [p EXCEPT !.pieces = s].count = p.count
      /\ [p EXCEPT !.pieces = s].pieces = s
  BY <1>1, <1>7 DEF Packet
<1>9. IsBlock([p EXCEPT !.pieces = s])
  BY <1>1, <1>5, <1>6, <1>7, <1>8 DEF IsBlock, start
<1>10. QED BY <1>4, <1>7, <1>8, <1>9 DEF size, k

(* The block that follows the count that are read. *)
LEMMA NextBlock ==
  ASSUME NEW n \in Nat, NEW k \in Nat, k <= Len(Upload), file = Part(0, k),
         Blocks(n) <= k
  PROVE  LET p == Datagram(n + 1, Chunk(n + 1))
         IN  /\ IsBlock(p) /\ p.count = n + 1 /\ p.pieces = Chunk(n + 1)
             /\ Blocks(n) + Len(p.pieces) <= k
             /\ Len(p.pieces) \in 0 .. datasize
             /\ Len(p.pieces) < datasize => Blocks(n) + Len(p.pieces) = k
<1> DEFINE p == Datagram(n + 1, Chunk(n + 1))
           start == Blocks(n)
           end == IF start + datasize < k THEN start + datasize ELSE k
<1>1. start \in Nat /\ start <= k /\ Len(Upload) \in Nat
  BY BlocksStep, UploadAssumption, LenProperties
<1>2. Len(file) = k
  <2>1. 0 \in Nat /\ 0 <= k /\ k - 0 = k
    BY SMT
  <2>2. QED BY <2>1, PartProperties
<1>3. (n + 1) - 1 = n /\ n + 1 \in Nat /\ n + 1 >= 1
  BY SMT
<1>4. Chunk(n + 1) = SubSeq(file, start + 1, end)
  BY <1>2, <1>3 DEF Chunk, Blocks
<1> HIDE DEF start
<1>5. /\ end \in Nat /\ start <= end /\ end <= k /\ end <= Len(Upload) /\ end <= k - 0
      /\ end - start \in 0 .. datasize /\ start + (end - start) = end
      /\ end - start < datasize => end = k
      /\ 0 + start = start /\ 0 + end = end
  BY <1>1, DatasizeAssumption, SMT
<1> HIDE DEF end
<1>6. Chunk(n + 1) = Part(start, end)
  <2> DEFINE first == start + 1
  <2>1. /\ 0 \in Nat /\ 0 <= k /\ first \in Nat /\ first >= 1
        /\ first <= end + 1 /\ start = 0 + first - 1 /\ end = 0 + end
    BY <1>1, <1>5, SMT
  <2> HIDE DEF first
  <2>2. Slice(Part(0, k), first, end) = Part(start, end)
    BY <1>1, <1>5, <2>1, PartOfPart, SMT
  <2>3. QED BY <1>4, <2>2 DEF first, Slice
<1>7. Part(start, end) \in Seq(Nat) /\ Len(Part(start, end)) = end - start
  BY <1>1, <1>5, PartProperties
<1>8. p \in Packet /\ p.count = n + 1 /\ p.pieces = Chunk(n + 1)
  BY <1>3, <1>6, <1>7 DEF Packet, Datagram
<1> HIDE DEF p
<1>9. Len(p.pieces) = end - start /\ p.pieces = Part(start, start + Len(p.pieces))
  BY <1>5, <1>6, <1>7, <1>8
<1>10. IsBlock(p)
  <2>1. Len(p.pieces) <= datasize /\ start + Len(p.pieces) <= Len(Upload)
    BY <1>5, <1>9, DatasizeAssumption, SMT
  <2>2. QED BY <1>3, <1>8, <1>9, <2>1 DEF IsBlock, start
<1>11. QED BY <1>5, <1>8, <1>9, <1>10 DEF p, start


-----------------------------------------------------------------------------
(* The inductive invariant.                                                *)

Types ==
  /\ ackfreq \in AckFreq
  /\ pc \in {"request", "read", "wait", "refused", "sent", "aborted"}
  /\ count \in Nat /\ len \in 0 .. datasize /\ j \in 0 .. RETRIES
  /\ rcount \in 0 .. count
  /\ answer \in {"receiving", "done", "error"}
  /\ whole \in BOOLEAN /\ faults \in 0 .. RETRIES + MaxFaults
  /\ IsABag(data) /\ IsABag(acks)

(* The file is a beginning of the upload. *)
File ==
  /\ file # NULL => /\ Len(file) \in 0 .. Len(Upload)
                    /\ file = Part(0, Len(file))
  /\ whole => file = Upload

(* The blocks are read from the file, and all before the last are full. *)
Reading ==
  /\ pc \in {"request", "refused"} => count = 0
  /\ pc = "read" => file # NULL /\ Blocks(count) <= Len(file)
  /\ pc = "wait" => /\ file # NULL /\ count > 0 /\ j < RETRIES
                    /\ Blocks(count - 1) + len <= Len(file)
  /\ count > 0 => Blocks(count - 1) <= Len(Upload)

(* It keeps less than ackfreq packets, and the last one. *)
Keeping ==
  /\ \A p \in packetbuf :
       /\ IsBlock(p) /\ p.count <= count
       /\ count >= 2 => p.count >= count - ((count - 2) % ackfreq)
       /\ p.count = count => Len(p.pieces) = len
       /\ (whole /\ ackfreq = 1) => EndsWell(p)
  /\ pc = "wait" => \E p \in packetbuf : p.count = count

(* Nothing is under way that the server has not sent. *)
IsSent(p) ==
  \/ p = Error /\ pc = "refused"
  \/ /\ IsBlock(p) /\ p.count <= count
     /\ p.count = count => Len(p.pieces) <= len
     /\ (whole /\ ackfreq = 1) => EndsWell(p)

UnderWay ==
  /\ \A p \in DOMAIN data : IsSent(p)
  /\ \A m \in DOMAIN acks : m \in 1 .. rcount

(* The server is less than ackfreq blocks ahead. *)
Ahead ==
  /\ count <= rcount + ackfreq
  /\ pc = "read" /\ count > 0 => count - ((count - 1) % ackfreq) <= rcount

(* The client has a beginning of the upload. *)
Received ==
  /\ Len(got) \in 0 .. Len(Upload) /\ got = Part(0, Len(got))
  /\ answer = "receiving" => Len(got) = Blocks(rcount)
  /\ rcount = count /\ count > 0 /\ len < datasize => answer = "done"
  /\ pc = "sent" => answer = "done"
  /\ whole /\ ackfreq = 1 /\ answer = "done" => got = Upload

IInv ==
  Types /\ File /\ Reading /\ Keeping /\ UnderWay /\ Ahead /\ Received


LEMMA UploadLen == Len(Upload) \in Nat
BY UploadAssumption, LenProperties

LEMMA BlockProperties ==
  ASSUME NEW p, IsBlock(p)
  PROVE  /\ p.count \in Nat /\ p.count >= 1 /\ p.count # 0
         /\ p # Error
         /\ p.pieces \in Seq(Nat) /\ Len(p.pieces) \in 0 .. datasize
         /\ Blocks(p.count - 1) \in Nat
         /\ Blocks(p.count) = Blocks(p.count - 1) + datasize
<1>1. p.count \in Nat /\ p.pieces \in Seq(Nat) /\ p.count >= 1
      /\ Len(p.pieces) <= datasize
  BY DEF IsBlock, Packet
<1>2. Len(p.pieces) \in 0 .. datasize
  BY <1>1, LenProperties, DatasizeAssumption, SMT
<1>3. p.count # 0 /\ p.count - 1 \in Nat /\ (p.count - 1) + 1 = p.count
  BY <1>1, SMT
<1>4. p # Error
  BY <1>3 DEF Error
<1>5. QED BY <1>1, <1>2, <1>3, <1>4, BlocksStep

LEMMA OneMoreType ==
  ASSUME faults \in 0 .. RETRIES + MaxFaults
  PROVE  OneMore \in 0 .. RETRIES + MaxFaults
BY RetriesAssumption, MaxFaultsAssumption, SMT DEF OneMore

LEMMA InitIInv == Init => IInv
<1> SUFFICES ASSUME Init PROVE IInv
  OBVIOUS
<1>1. /\ ackfreq \in AckFreq /\ pc = "request" /\ count = 0 /\ packetbuf = {}
      /\ len = 0 /\ j = 0 /\ data = EmptyBag /\ acks = EmptyBag
      /\ got = <<>> /\ rcount = 0 /\ answer = "receiving"
      /\ whole = (file = Upload) /\ faults = 0
  BY DEF Init
<1>2. IsABag(data) /\ IsABag(acks) /\ DOMAIN data = {} /\ DOMAIN acks = {}
  BY <1>1, SMT DEF EmptyBag, IsABag, SetToBag
<1>3. Types
  <2>1. len \in 0 .. datasize /\ j \in 0 .. RETRIES /\ rcount \in 0 .. count
        /\ faults \in 0 .. RETRIES + MaxFaults /\ count \in Nat
    BY <1>1, DatasizeAssumption, RetriesAssumption, MaxFaultsAssumption, SMT
  <2>2. whole \in BOOLEAN
    BY <1>1, Zenon
  <2>3. QED BY <1>1, <1>2, <2>1, <2>2 DEF Types
<1>4. File
  <2>1. whole => file = Upload
    BY <1>1, Zenon
  <2>2. ASSUME file # NULL
        PROVE  Len(file) \in 0 .. Len(Upload) /\ file = Part(0, Len(file))
    <3>1. PICK n \in 0 .. Len(Upload) : file = SubSeq(Upload, 1, n)
      BY <2>2 DEF Init
    <3>2. 0 \in Nat /\ n \in Nat /\ 0 <= n /\ n <= Len(Upload) /\ 0 + 1 = 1
          /\ n - 0 = n
      BY UploadLen, SMT
    <3>3. file = Part(0, n)
      BY <3>1, <3>2 DEF Part
    <3>4. Len(file) = n
      BY <3>2, <3>3, PartProperties
    <3>5. QED BY <3>3, <3>4
  <2>3. QED BY <2>1, <2>2 DEF File
<1>5. Reading
  BY <1>1, SMT DEF Reading
<1>6. Keeping
  BY <1>1 DEF Keeping
<1>7. UnderWay
  BY <1>2 DEF UnderWay
<1>8. Ahead
  <2>1. ackfreq \in Nat
    BY <1>1, AckFreqAssumption
  <2>2. QED BY <1>1, <2>1, SMT DEF Ahead
<1>9. Received
  <2>1. got = Part(0, 0) /\ Len(got) = 0
    BY <1>1, PartEmpty, EmptySeq
  <2>2. Blocks(0) = 0
    BY BlocksStep
  <2>3. 0 \in 0 .. Len(Upload)
    BY UploadLen, SMT
  <2>4. QED BY <1>1, <2>1, <2>2, <2>3, SMT DEF Received
<1>10. QED BY <1>3, <1>4, <1>5, <1>6, <1>7, <1>8, <1>9 DEF IInv

-----------------------------------------------------------------------------
(* The steps of the server.                                                *)

LEMMA RefuseStep == IInv /\ Refuse => IInv'
<1> SUFFICES ASSUME IInv, Refuse PROVE IInv'
  OBVIOUS
<1>1. /\ pc = "request" /\ file = NULL /\ pc' = "refused"
      /\ data' = BagAdd(data, Error)
      /\ ackfreq' = ackfreq /\ count' = count /\ packetbuf' = packetbuf
      /\ len' = len /\ j' = j /\ file' = file /\ acks' = acks /\ got' = got
      /\ rcount' = rcount /\ answer' = answer /\ whole' = whole
      /\ faults' = faults
  BY DEF Refuse, client
<1>2. IsABag(data') /\ DOMAIN data' = DOMAIN data \cup {Error}
  BY <1>1, AddBag DEF IInv, Types
<1>3. Types'
  BY <1>1, <1>2 DEF IInv, Types
<1>4. File'
  BY <1>1 DEF IInv, File
<1>5. Reading'
  BY <1>1 DEF IInv, Reading
<1>6. Keeping'
  BY <1>1 DEF IInv, Keeping
<1>7. UnderWay'
  BY <1>1, <1>2 DEF IInv, UnderWay, IsSent
<1>8. Ahead' /\ Received'
  BY <1>1 DEF IInv, Ahead, Received
<1>9. QED BY <1>3, <1>4, <1>5, <1>6, <1>7, <1>8 DEF IInv

LEMMA AcceptStep == IInv /\ Accept => IInv'
<1> SUFFICES ASSUME IInv, Accept PROVE IInv'
  OBVIOUS
<1>1. /\ pc = "request" /\ file # NULL /\ pc' = "read"
      /\ ackfreq' = ackfreq /\ count' = count /\ packetbuf' = packetbuf
      /\ len' = len /\ j' = j /\ file' = file /\ acks' = acks /\ got' = got
      /\ data' = data
      /\ rcount' = rcount /\ answer' = answer /\ whole' = whole
      /\ faults' = faults
  BY DEF Accept, client
<1>2. count = 0
  BY <1>1 DEF IInv, Reading
<1>3. Types'
  BY <1>1 DEF IInv, Types
<1>4. File'
  BY <1>1 DEF IInv, File
<1>5. Reading'
  <2>1. Blocks(0) = 0 /\ 0 <= Len(file)
    BY <1>1, BlocksStep, UploadLen, SMT DEF IInv, File
  <2>2. QED BY <1>1, <1>2, <2>1, SMT DEF IInv, Reading
<1>6. Keeping'
  BY <1>1 DEF IInv, Keeping
<1>7. UnderWay'
  BY <1>1 DEF IInv, UnderWay, IsSent
<1>8. Ahead' /\ Received'
  BY <1>1, <1>2, SMT DEF IInv, Ahead, Received
<1>9. QED BY <1>3, <1>4, <1>5, <1>6, <1>7, <1>8 DEF IInv


(* The turn in which a packet is kept or an acknowledgement awaited. *)
LEMMA Turn ==
  ASSUME ackfreq \in AckFreq, NEW n \in Int, n >= 0
  PROVE  /\ ackfreq \in Nat /\ ackfreq >= 1
         /\ n % ackfreq \in 0 .. ackfreq - 1
         /\ (n + 1) % ackfreq = 0 \/ (n + 1) % ackfreq = (n % ackfreq) + 1
         /\ 0 % ackfreq = 0
<1>1. ackfreq \in Nat \ {0} /\ n \in Nat
  BY AckFreqAssumption, SMT
<1>2. ackfreq \in Nat /\ ackfreq >= 1
  BY <1>1, SMT
<1>3. QED BY <1>1, <1>2, ModStep

LEMMA ReadBlockStep == IInv /\ ReadBlock => IInv'
<1> SUFFICES ASSUME IInv, ReadBlock PROVE IInv'
  OBVIOUS
<1> DEFINE num == count + 1
           chunk == Chunk(num)
           packet == Datagram(num, chunk)
           size == Len(packet.pieces)
<1>1. /\ pc = "read" /\ count' = num /\ packetbuf' = Kept(num) \cup {packet}
      /\ len' = Len(chunk) /\ data' = BagAdd(data, packet)
      /\ \/ AckIsAwaited(num, Len(chunk)) /\ pc' = "wait" /\ j' = 0
            /\ acks' = acks
         \/ /\ ~ AckIsAwaited(num, Len(chunk)) /\ pc' = pc /\ j' = j
            /\ \/ acks' = acks
               \/ \E m \in DOMAIN acks : acks' = BagRemove(acks, m)
  BY DEF ReadBlock
<1>2. /\ ackfreq' = ackfreq /\ file' = file /\ got' = got
      /\ rcount' = rcount /\ answer' = answer /\ whole' = whole
      /\ faults' = faults
  BY DEF ReadBlock, client
<1>3. /\ count \in Nat /\ ackfreq \in AckFreq /\ IsABag(data) /\ IsABag(acks)
      /\ rcount \in 0 .. count /\ Types
  BY DEF IInv, Types
<1>4. file # NULL /\ Len(file) \in 0 .. Len(Upload) /\ file = Part(0, Len(file))
      /\ Blocks(count) <= Len(file)
  BY <1>1 DEF IInv, Reading, File
<1>5. /\ IsBlock(packet) /\ packet.count = num /\ packet.pieces = chunk
      /\ Blocks(count) + size <= Len(file) /\ size \in 0 .. datasize
      /\ size < datasize => Blocks(count) + size = Len(file)
  <2>1. Len(file) \in Nat /\ Len(file) <= Len(Upload)
    BY <1>4, UploadLen, SMT
  <2>2. QED BY <1>3, <1>4, <2>1, NextBlock
<1>6. num - 1 = count /\ num > 0 /\ num \in Nat /\ Blocks(num - 1) = Blocks(count)
      /\ Blocks(count) \in Nat /\ Blocks(num) = Blocks(count) + datasize
  <2>1. num - 1 = count /\ num > 0 /\ num \in Nat
    BY <1>3, SMT
  <2>2. QED BY <1>3, <2>1, BlocksStep
<1>7. len' = size
  BY <1>1, <1>5
<1>8. /\ IsABag(data') /\ DOMAIN data' = DOMAIN data \cup {packet}
      /\ IsABag(acks') /\ DOMAIN acks' \subseteq DOMAIN acks
  BY <1>1, <1>3, AddBag, RemoveBag
<1>9. whole => EndsWell(packet)
  BY <1>4, <1>5, <1>6 DEF IInv, File, EndsWell
<1> HIDE DEF chunk, packet, size
<1>10. Types'
  <2>1. pc' \in {"read", "wait"} /\ j' \in 0 .. RETRIES
    BY <1>1, <1>3, RetriesAssumption, SMT DEF Types
  <2>2. rcount' \in 0 .. count'
    BY <1>1, <1>2, <1>3, SMT
  <2>3. QED BY <1>1, <1>2, <1>3, <1>5, <1>6, <1>7, <1>8, <2>1, <2>2 DEF Types
<1>11. File'
  BY <1>2 DEF IInv, File
<1>12. Reading'
  <2>1. Blocks(num - 1) <= Len(Upload)
    BY <1>4, <1>6, UploadLen, SMT
  <2>2. CASE AckIsAwaited(num, Len(chunk))
    <3>1. pc' = "wait" /\ j' = 0
      BY <1>1, <2>2
    <3>2. j' < RETRIES
      BY <3>1, RetriesAssumption, SMT
    <3>3. QED BY <1>1, <1>2, <1>4, <1>5, <1>6, <1>7, <2>1, <3>1, <3>2 DEF Reading
  <2>3. CASE ~ AckIsAwaited(num, Len(chunk))
    <3>1. pc' = "read" /\ Len(chunk) = datasize
      BY <1>1, <2>3 DEF AckIsAwaited, IsLast
    <3>2. Blocks(num) <= Len(file)
      BY <1>5, <1>6, <3>1, <1>1, <1>7
    <3>3. QED BY <1>1, <1>2, <1>4, <1>6, <2>1, <3>1, <3>2 DEF Reading
  <2>4. QED BY <2>2, <2>3
<1>13. Keeping'
  <2>1. ASSUME NEW p \in packetbuf'
        PROVE  /\ IsBlock(p) /\ p.count <= num
               /\ num >= 2 => p.count >= num - ((num - 2) % ackfreq)
               /\ p.count = num => Len(p.pieces) = len'
               /\ (whole /\ ackfreq = 1) => EndsWell(p)
    <3>1. CASE p = packet
      <4>1. num >= 2 => (num - 2) % ackfreq >= 0
        <5> SUFFICES ASSUME num >= 2 PROVE (num - 2) % ackfreq >= 0
          OBVIOUS
        <5>1. num - 2 \in Int /\ num - 2 >= 0
          BY <1>6, SMT
        <5>2. (num - 2) % ackfreq \in 0 .. ackfreq - 1 /\ ackfreq \in Nat
          BY <1>3, <5>1, Turn
        <5>3. QED BY <5>2, SMT
      <4>2. num >= 2 => (num - 2) % ackfreq \in Int
        <5> SUFFICES ASSUME num >= 2 PROVE (num - 2) % ackfreq \in Int
          OBVIOUS
        <5>1. num - 2 \in Int /\ num - 2 >= 0
          BY <1>6, SMT
        <5>2. (num - 2) % ackfreq \in 0 .. ackfreq - 1 /\ ackfreq \in Nat
          BY <1>3, <5>1, Turn
        <5>3. QED BY <5>2, SMT
      <4> DEFINE r == (num - 2) % ackfreq
      <4> HIDE DEF r
      <4>3. p.count <= num /\ (num >= 2 => p.count >= num - r)
        BY <1>5, <1>6, <3>1, <4>1, <4>2, SMT DEF r
      <4>4. QED BY <1>5, <1>7, <1>9, <3>1, <4>3 DEF r, size
    <3>2. CASE p # packet
      <4>1. p \in packetbuf /\ num > 2 /\ (num - 2) % ackfreq # 0
        <5>1. p \in Kept(num)
          BY <1>1, <3>2
        <5>2. ~ (num <= 2 \/ (num - 2) % ackfreq = 0) /\ p \in packetbuf
          BY <5>1 DEF Kept
        <5>3. QED BY <1>6, <5>2, SMT
      <4>2. /\ IsBlock(p) /\ p.count <= count
            /\ p.count >= count - ((count - 2) % ackfreq)
            /\ (whole /\ ackfreq = 1) => EndsWell(p)
        BY <1>3, <4>1, SMT DEF IInv, Keeping
      <4>3. p.count \in Nat
        BY <4>2, BlockProperties
      <4>4. (num - 2) % ackfreq = ((count - 2) % ackfreq) + 1
            /\ (count - 2) % ackfreq \in Int
        <5>1. count - 2 \in Int /\ count - 2 >= 0 /\ (count - 2) + 1 = num - 2
          BY <1>3, <4>1, SMT
        <5>2. /\ (count - 2) % ackfreq \in 0 .. ackfreq - 1
              /\ ((count - 2) + 1) % ackfreq = 0
                 \/ ((count - 2) + 1) % ackfreq = ((count - 2) % ackfreq) + 1
          BY <1>3, <5>1, Turn
        <5>3. QED BY <4>1, <5>1, <5>2, SMT
      <4> DEFINE r == (count - 2) % ackfreq
                 r2 == (num - 2) % ackfreq
      <4> HIDE DEF r, r2
      <4>5. r2 = r + 1 /\ r \in Int /\ p.count >= count - r
        BY <4>2, <4>4 DEF r, r2
      <4>6. p.count <= num /\ p.count # num /\ p.count >= num - r2
        BY <1>3, <4>2, <4>3, <4>5, SMT
      <4>7. QED BY <4>2, <4>6 DEF r2
    <3>3. QED BY <3>1, <3>2
  <2>2. packet \in packetbuf' /\ packet.count = count'
    BY <1>1, <1>5
  <2> HIDE DEF num
  <2>3. QED BY <1>1, <1>2, <2>1, <2>2 DEF Keeping
<1>14. UnderWay'
  <2>1. ASSUME NEW p \in DOMAIN data'
        PROVE  IsSent(p)'
    <3>1. CASE p = packet
      <4>1. p.count <= num /\ Len(p.pieces) <= len'
        BY <1>5, <1>6, <1>7, <3>1, DatasizeAssumption, SMT DEF size
      <4> HIDE DEF num
      <4>2. QED BY <1>1, <1>2, <1>5, <1>9, <3>1, <4>1 DEF IsSent
    <3>2. CASE p # packet
      <4>1. IsSent(p)
        BY <1>8, <3>2 DEF IInv, UnderWay
      <4>2. IsBlock(p) /\ p.count <= count
            /\ ((whole /\ ackfreq = 1) => EndsWell(p))
        BY <1>1, <4>1 DEF IsSent
      <4>3. p.count \in Nat
        BY <4>2, BlockProperties
      <4>4. p.count <= num /\ p.count # num
        BY <1>3, <4>2, <4>3, SMT
      <4> HIDE DEF num
      <4>5. QED BY <1>1, <1>2, <4>2, <4>4 DEF IsSent
    <3>3. QED BY <3>1, <3>2
  <2>2. \A m \in DOMAIN acks' : m \in 1 .. rcount'
    BY <1>2, <1>8 DEF IInv, UnderWay
  <2>3. QED BY <2>1, <2>2 DEF UnderWay
<1>15. Ahead'
  <2>1. /\ ackfreq \in Nat /\ ackfreq >= 1 /\ 0 % ackfreq = 0
        /\ count % ackfreq \in 0 .. ackfreq - 1
    <3>1. count \in Int /\ count >= 0
      BY <1>3, SMT
    <3>2. QED BY <1>3, <3>1, Turn
  <2>2. CASE count = 0
    <3>1. AckIsAwaited(num, Len(chunk))
      BY <1>6, <2>1, <2>2 DEF AckIsAwaited
    <3>2. pc' = "wait"
      BY <1>1, <3>1
    <3>3. num <= rcount + ackfreq
      BY <1>3, <2>1, <2>2, SMT
    <3>4. QED BY <1>1, <1>2, <3>2, <3>3 DEF Ahead
  <2>3. CASE count # 0
    <3> DEFINE r == (count - 1) % ackfreq
               r2 == (num - 1) % ackfreq
    <3>1. r2 = 0 \/ r2 = r + 1
      <4>1. count - 1 \in Int /\ count - 1 >= 0 /\ (count - 1) + 1 = num - 1
        BY <1>3, <2>3, SMT
      <4>2. /\ (count - 1) % ackfreq \in 0 .. ackfreq - 1
            /\ ((count - 1) + 1) % ackfreq = 0
               \/ ((count - 1) + 1) % ackfreq = ((count - 1) % ackfreq) + 1
        BY <1>3, <4>1, Turn
      <4>3. QED BY <4>1, <4>2
    <3>2. r \in 0 .. ackfreq - 1
      <4>1. count - 1 \in Int /\ count - 1 >= 0
        BY <1>3, <2>3, SMT
      <4>2. QED BY <1>3, <4>1, Turn
    <3>3. count - r <= rcount
      <4>1. count > 0
        BY <1>3, <2>3, SMT
      <4>2. QED BY <1>1, <4>1 DEF IInv, Ahead
    <3>4. pc' = "read" => r2 # 0
      BY <1>1 DEF AckIsAwaited
    <3> HIDE DEF r, r2
    <3>5. num <= rcount + ackfreq
      BY <1>3, <2>1, <3>2, <3>3, SMT
    <3>6. pc' = "read" => num - r2 <= rcount
      BY <1>3, <2>1, <3>1, <3>2, <3>3, <3>4, SMT
    <3>7. (pc' = "read" /\ count' > 0)
             => count' - ((count' - 1) % ackfreq') <= rcount'
      BY <1>1, <1>2, <3>6 DEF r2
    <3>8. QED BY <1>1, <1>2, <3>5, <3>7 DEF Ahead
  <2>4. QED BY <2>2, <2>3
<1>16. Received'
  <2>1. rcount # num
    BY <1>3, SMT
  <2>2. pc' # "sent"
    BY <1>1
  <2>3. QED BY <1>1, <1>2, <2>1, <2>2 DEF IInv, Received
<1>17. QED BY <1>10, <1>11, <1>12, <1>13, <1>14, <1>15, <1>16 DEF IInv


LEMMA AckReceivedStep ==
  ASSUME IInv, NEW m \in DOMAIN acks, AckReceived(m)
  PROVE  IInv'
<1>1. /\ pc = "wait" /\ m = count /\ acks' = BagRemove(acks, m)
      /\ pc' = IF len # datasize THEN "sent" ELSE "read"
      /\ ackfreq' = ackfreq /\ count' = count /\ packetbuf' = packetbuf
      /\ len' = len /\ j' = j /\ file' = file /\ data' = data /\ got' = got
      /\ rcount' = rcount /\ answer' = answer /\ whole' = whole
      /\ faults' = faults
  BY DEF AckReceived, IsAck, IsLast, client
<1>2. /\ count \in Nat /\ rcount \in 0 .. count /\ IsABag(acks)
      /\ ackfreq \in AckFreq /\ len \in 0 .. datasize
  BY DEF IInv, Types
<1>3. IsABag(acks') /\ DOMAIN acks' \subseteq DOMAIN acks
  BY <1>1, <1>2, RemoveBag
<1>4. rcount = count /\ count > 0
  <2>1. m \in 1 .. rcount
    BY DEF IInv, UnderWay
  <2>2. QED BY <1>1, <1>2, <2>1, SMT
<1>5. Types'
  BY <1>1, <1>3 DEF IInv, Types
<1>6. File'
  BY <1>1 DEF IInv, File
<1>7. Reading'
  <2>1. file # NULL /\ Blocks(count - 1) + len <= Len(file)
        /\ Blocks(count - 1) <= Len(Upload)
    BY <1>1, <1>4 DEF IInv, Reading
  <2>2. Blocks(count) = Blocks(count - 1) + datasize
    <3>1. count - 1 \in Nat /\ (count - 1) + 1 = count
      BY <1>2, <1>4, SMT
    <3>2. QED BY <3>1, BlocksStep
  <2>3. pc' = "read" => Blocks(count) <= Len(file)
    BY <1>1, <2>1, <2>2
  <2>4. QED BY <1>1, <1>4, <2>1, <2>3, SMT DEF Reading
<1>8. Keeping'
  BY <1>1 DEF IInv, Keeping
<1>9. UnderWay'
  <2>1. pc' # "refused" /\ pc # "refused"
    BY <1>1
  <2>2. QED BY <1>1, <1>3, <2>1 DEF IInv, UnderWay, IsSent
<1>10. Ahead'
  <2>1. count - 1 \in Int /\ count - 1 >= 0
    BY <1>2, <1>4, SMT
  <2> DEFINE r == (count - 1) % ackfreq
  <2>2. ackfreq \in Nat /\ ackfreq >= 1 /\ r \in 0 .. ackfreq - 1
    BY <1>2, <2>1, Turn
  <2> HIDE DEF r
  <2>3. count - r <= rcount /\ count <= rcount + ackfreq
    BY <1>2, <1>4, <2>2, SMT
  <2>4. QED BY <1>1, <2>3 DEF Ahead, r
<1>11. Received'
  <2>1. pc' = "sent" => len < datasize
    BY <1>1, <1>2, DatasizeAssumption, SMT
  <2>2. pc' = "sent" => answer = "done"
    BY <1>4, <2>1 DEF IInv, Received
  <2>3. QED BY <1>1, <2>2 DEF IInv, Received
<1>12. QED BY <1>5, <1>6, <1>7, <1>8, <1>9, <1>10, <1>11 DEF IInv

(* All packets are sent again. *)
LEMMA RetryStep ==
  ASSUME IInv, pc = "wait", NEW timeout, Retry(timeout),
         UNCHANGED <<ackfreq, count, packetbuf, len, file, client, whole>>,
         IsABag(acks'), DOMAIN acks' \subseteq DOMAIN acks,
         faults' \in 0 .. RETRIES + MaxFaults
  PROVE  IInv'
<1>1. /\ ackfreq' = ackfreq /\ count' = count /\ packetbuf' = packetbuf
      /\ len' = len /\ file' = file /\ got' = got /\ rcount' = rcount
      /\ answer' = answer /\ whole' = whole
  BY DEF client
<1>2. /\ data' = Resent /\ j' = j + 1
      /\ pc' = IF j' = RETRIES THEN "aborted" ELSE "wait"
  BY DEF Retry
<1>3. /\ count \in Nat /\ IsABag(data) /\ ackfreq \in AckFreq
      /\ len \in 0 .. datasize /\ j \in 0 .. RETRIES /\ j < RETRIES
  BY DEF IInv, Types, Reading
<1>4. IsABag(data')
      /\ DOMAIN data'
           = DOMAIN data \cup {Shortened(packet, len) : packet \in packetbuf}
  BY <1>2, <1>3, AddSet DEF Resent
<1>5. Types'
  <2>1. j' \in 0 .. RETRIES
    BY <1>2, <1>3, RetriesAssumption, SMT
  <2>2. pc' \in {"aborted", "wait"}
    BY <1>2
  <2>3. QED BY <1>1, <1>4, <2>1, <2>2 DEF IInv, Types
<1>6. File'
  BY <1>1 DEF IInv, File
<1>7. Reading'
  <2>1. pc' = "wait" => j' < RETRIES
    BY <1>2, <1>3, RetriesAssumption, SMT
  <2>2. pc' \notin {"request", "refused", "read"}
    BY <1>2
  <2>3. QED BY <1>1, <2>1, <2>2 DEF IInv, Reading
<1>8. Keeping'
  BY <1>1 DEF IInv, Keeping
<1>9. ASSUME NEW p \in packetbuf
      PROVE  IsSent(Shortened(p, len))
  <2>1. /\ IsBlock(p) /\ p.count <= count
        /\ p.count = count => Len(p.pieces) = len
        /\ (whole /\ ackfreq = 1) => EndsWell(p)
        /\ count >= 2 => p.count >= count - ((count - 2) % ackfreq)
    BY DEF IInv, Keeping
  <2> DEFINE q == Shortened(p, len)
             size == Len(p.pieces)
             qsize == Len(q.pieces)
  <2>2. len \in Nat
    BY <1>3, DatasizeAssumption, SMT
  <2>3. IsBlock(q) /\ q.count = p.count
        /\ qsize = IF len < size THEN len ELSE size
    BY <2>1, <2>2, ShortenedIsBlock
  <2>4. size \in Nat /\ p.count \in Nat /\ p.count >= 1
    BY <2>1, BlockProperties, DatasizeAssumption, SMT
  <2>5. qsize <= len
    BY <2>2, <2>3, <2>4, SMT
  <2>6. ASSUME whole, ackfreq = 1
        PROVE  EndsWell(q)
    <3>1. p.count = count
      <4>1. CASE count >= 2
        <5>1. count - 2 \in Int /\ count - 2 >= 0
          BY <1>3, <4>1, SMT
        <5>2. (count - 2) % ackfreq \in 0 .. ackfreq - 1
          BY <1>3, <5>1, Turn
        <5>3. (count - 2) % ackfreq = 0
          BY <2>6, <5>2, SMT
        <5>4. QED BY <1>3, <2>1, <2>4, <4>1, <5>3, SMT
      <4>2. CASE ~ (count >= 2)
        BY <1>3, <2>1, <2>4, <4>2, SMT
      <4>3. QED BY <4>1, <4>2
    <3>2. qsize = size
      BY <2>1, <2>3, <3>1
    <3>3. QED BY <2>1, <2>3, <2>6, <3>2 DEF EndsWell
  <2>7. QED BY <2>3, <2>1, <2>5, <2>6 DEF IsSent
<1>10. UnderWay'
  <2>1. ASSUME NEW p \in DOMAIN data'
        PROVE  IsSent(p)'
    <3>1. IsSent(p)
      BY <1>4, <1>9 DEF IInv, UnderWay
    <3>2. QED BY <1>1, <3>1 DEF IsSent
  <2>2. QED BY <1>1, <2>1 DEF IInv, UnderWay
<1>11. Ahead'
  BY <1>1, <1>2 DEF IInv, Ahead
<1>12. Received'
  <2>1. pc' # "sent"
    BY <1>2
  <2>2. QED BY <1>1, <2>1 DEF IInv, Received
<1>13. QED BY <1>5, <1>6, <1>7, <1>8, <1>10, <1>11, <1>12 DEF IInv

LEMMA OtherAckStep ==
  ASSUME IInv, NEW m \in DOMAIN acks, OtherAck(m)
  PROVE  IInv'
<1>1. /\ pc = "wait" /\ acks' = BagRemove(acks, m) /\ Retry(FALSE)
      /\ UNCHANGED <<ackfreq, count, packetbuf, len, file, client, whole>>
      /\ faults' = faults
  BY DEF OtherAck
<1>2. IsABag(acks') /\ DOMAIN acks' \subseteq DOMAIN acks
  BY <1>1, RemoveBag DEF IInv, Types
<1>3. faults' \in 0 .. RETRIES + MaxFaults
  BY <1>1 DEF IInv, Types
<1>4. QED BY <1>1, <1>2, <1>3, RetryStep

LEMMA TimeoutStep == IInv /\ Timeout => IInv'
<1> SUFFICES ASSUME IInv, Timeout PROVE IInv'
  OBVIOUS
<1>1. /\ pc = "wait" /\ acks' = acks /\ Retry(TRUE)
      /\ UNCHANGED <<ackfreq, count, packetbuf, len, file, client, whole>>
  BY DEF Timeout
<1>2. IsABag(acks') /\ DOMAIN acks' \subseteq DOMAIN acks
  BY <1>1 DEF IInv, Types
<1>3. faults' \in 0 .. RETRIES + MaxFaults
  BY OneMoreType DEF IInv, Types, Timeout
<1>4. QED BY <1>1, <1>2, <1>3, RetryStep


-----------------------------------------------------------------------------
(* The steps of the client and of the network.                             *)

LEMMA BlockReceivedStep ==
  ASSUME IInv, NEW m \in DOMAIN data, BlockReceived(m)
  PROVE  IInv'
<1> DEFINE size == Len(m.pieces)
<1>1. /\ answer = "receiving" /\ m.count = rcount + 1 /\ got' = got \o m.pieces
      /\ rcount' = m.count /\ answer' = IF size < datasize THEN "done" ELSE answer
      /\ data' = BagRemove(data, m) /\ acks' = BagAdd(acks, m.count)
      /\ ackfreq' = ackfreq /\ pc' = pc /\ count' = count
      /\ packetbuf' = packetbuf /\ len' = len /\ j' = j /\ file' = file
      /\ whole' = whole /\ faults' = faults
  BY DEF BlockReceived, server
<1>2. /\ count \in Nat /\ rcount \in 0 .. count /\ IsABag(data) /\ IsABag(acks)
      /\ ackfreq \in AckFreq /\ len \in 0 .. datasize
  BY DEF IInv, Types
<1>3. /\ IsBlock(m) /\ m.count <= count
      /\ m.count = count => size <= len
      /\ (whole /\ ackfreq = 1) => EndsWell(m)
  <2>1. IsSent(m)
    BY DEF IInv, UnderWay
  <2>2. m # Error
    <3>1. m.count # 0
      BY <1>1, <1>2, SMT
    <3>2. QED BY <3>1 DEF Error
  <2>3. QED BY <2>1, <2>2 DEF IsSent
<1>4. /\ m.count \in Nat /\ m.pieces \in Seq(Nat) /\ size \in 0 .. datasize
      /\ Blocks(m.count - 1) \in Nat
      /\ Blocks(m.count) = Blocks(m.count - 1) + datasize
      /\ Blocks(m.count - 1) + size <= Len(Upload)
      /\ m.pieces = Part(Blocks(m.count - 1), Blocks(m.count - 1) + size)
  BY <1>3, BlockProperties DEF IsBlock
<1>5. m.count - 1 = rcount /\ rcount \in Nat
  BY <1>1, <1>2, SMT
<1>6. /\ IsABag(data') /\ DOMAIN data' \subseteq DOMAIN data
      /\ IsABag(acks') /\ DOMAIN acks' = DOMAIN acks \cup {m.count}
  BY <1>1, <1>2, AddBag, RemoveBag
<1>7. Len(got) = Blocks(rcount) /\ got = Part(0, Len(got))
  BY <1>1 DEF IInv, Received
<1> HIDE DEF size
<1>8. /\ Len(got') = Blocks(rcount) + size /\ got' = Part(0, Len(got'))
      /\ Len(got') \in 0 .. Len(Upload)
  <2> DEFINE start == Blocks(rcount)
             end == start + size
  <2>1. /\ 0 \in Nat /\ start \in Nat /\ end \in Nat /\ 0 <= start
        /\ start <= end /\ end <= Len(Upload) /\ 0 <= end /\ end - 0 = end
    BY <1>4, <1>5, DatasizeAssumption, SMT
  <2>2. got' = Part(0, start) \o Part(start, end)
    BY <1>1, <1>4, <1>5, <1>7
  <2> HIDE DEF start, end
  <2>3. got' = Part(0, end)
    BY <2>1, <2>2, PartConcat
  <2>4. Len(Part(0, end)) = end - 0
    BY <2>1, PartProperties
  <2>5. Len(got') = end
    BY <2>1, <2>3, <2>4
  <2>6. end \in 0 .. Len(Upload)
    BY <2>1, UploadLen, SMT
  <2>7. QED BY <2>3, <2>5, <2>6 DEF start, end
<1>9. Types'
  <2>1. rcount' \in 0 .. count'
    BY <1>1, <1>3, <1>4, <1>2, SMT
  <2>2. QED BY <1>1, <1>6, <2>1 DEF IInv, Types
<1>10. File'
  BY <1>1 DEF IInv, File
<1>11. Reading'
  BY <1>1 DEF IInv, Reading
<1>12. Keeping'
  BY <1>1 DEF IInv, Keeping
<1>13. UnderWay'
  <2>1. \A p \in DOMAIN data' : IsSent(p)'
    BY <1>1, <1>6 DEF IInv, UnderWay, IsSent
  <2>2. \A n \in DOMAIN acks' : n \in 1 .. rcount'
    <3>1. \A n \in 1 .. rcount : n \in 1 .. rcount'
      BY <1>1, <1>2, <1>5, SMT
    <3>2. m.count \in 1 .. rcount'
      BY <1>1, <1>2, <1>5, SMT
    <3>3. QED BY <1>6, <3>1, <3>2 DEF IInv, UnderWay
  <2>3. QED BY <2>1, <2>2 DEF UnderWay
<1>14. Ahead'
  <2>1. rcount' = rcount + 1
    BY <1>1
  <2>2. ackfreq \in Nat
    BY <1>2, AckFreqAssumption
  <2>3. count <= rcount' + ackfreq
    BY <1>2, <2>1, <2>2, SMT DEF IInv, Ahead
  <2>4. ASSUME pc = "read", count > 0
        PROVE  count - ((count - 1) % ackfreq) <= rcount'
    <3> DEFINE r == (count - 1) % ackfreq
    <3>1. r \in 0 .. ackfreq - 1
      <4>1. count - 1 \in Int /\ count - 1 >= 0
        BY <1>2, <2>4, SMT
      <4>2. QED BY <1>2, <4>1, Turn
    <3>2. count - r <= rcount
      BY <2>4 DEF IInv, Ahead
    <3> HIDE DEF r
    <3>3. count - r <= rcount'
      BY <1>2, <2>1, <2>2, <3>1, <3>2, SMT
    <3>4. QED BY <3>3 DEF r
  <2>5. QED BY <1>1, <2>3, <2>4 DEF Ahead
<1>15. Received'
  <2>1. answer' = "receiving" => Len(got') = Blocks(rcount')
    <3> SUFFICES ASSUME answer' = "receiving" PROVE Len(got') = Blocks(rcount')
      OBVIOUS
    <3>1. size = datasize
      BY <1>1, <1>4, DatasizeAssumption, SMT DEF size
    <3>2. QED BY <1>1, <1>4, <1>5, <1>8, <3>1
  <2>2. (rcount' = count /\ len < datasize) => answer' = "done"
    <3> SUFFICES ASSUME rcount' = count, len < datasize PROVE answer' = "done"
      OBVIOUS
    <3>1. size <= len
      BY <1>1, <1>3 DEF size
    <3>2. size < datasize
      BY <1>2, <1>4, <3>1, DatasizeAssumption, SMT
    <3>3. QED BY <1>1, <3>2 DEF size
  <2>3. pc # "sent"
    BY <1>1 DEF IInv, Received
  <2>4. (whole /\ ackfreq = 1 /\ answer' = "done") => got' = Upload
    <3> SUFFICES ASSUME whole, ackfreq = 1, answer' = "done" PROVE got' = Upload
      OBVIOUS
    <3>1. size < datasize
      BY <1>1 DEF size
    <3>2. Blocks(m.count - 1) + size = Len(Upload)
      BY <1>3, <3>1 DEF EndsWell, size
    <3>3. QED BY <1>5, <1>8, <3>2, PartWhole
  <2>5. QED BY <1>1, <1>8, <2>1, <2>2, <2>3, <2>4 DEF Received
<1>16. QED BY <1>9, <1>10, <1>11, <1>12, <1>13, <1>14, <1>15 DEF IInv

(* Steps that take datagrams off the network or bring back others. *)
LEMMA NetworkStep ==
  ASSUME IInv, UNCHANGED <<server, file, got, rcount, whole>>,
         answer' = answer \/ (answer = "receiving" /\ answer' = "error"
                                /\ pc = "refused"),
         IsABag(data'), DOMAIN data' \subseteq DOMAIN data,
         IsABag(acks'), \A m \in DOMAIN acks' : m \in 1 .. rcount,
         faults' \in 0 .. RETRIES + MaxFaults
  PROVE  IInv'
<1>1. /\ ackfreq' = ackfreq /\ pc' = pc /\ count' = count
      /\ packetbuf' = packetbuf /\ len' = len /\ j' = j /\ file' = file
      /\ got' = got /\ rcount' = rcount /\ whole' = whole
  BY DEF server
<1>2. answer' # answer => /\ answer = "receiving" /\ answer' = "error"
                          /\ pc = "refused" /\ count = 0
  BY DEF IInv, Reading
<1>3. Types'
  BY <1>1 DEF IInv, Types
<1>4. File' /\ Reading' /\ Keeping' /\ Ahead'
  BY <1>1 DEF IInv, File, Reading, Keeping, Ahead
<1>5. UnderWay'
  BY <1>1 DEF IInv, UnderWay, IsSent
<1>6. Received'
  BY <1>1, <1>2, SMT DEF IInv, Received
<1>7. QED BY <1>3, <1>4, <1>5, <1>6 DEF IInv

LEMMA OtherReceivedStep ==
  ASSUME IInv, NEW m \in DOMAIN data, OtherReceived(m)
  PROVE  IInv'
<1>1. /\ m.count # 0 /\ data' = BagRemove(data, m)
      /\ acks' = IF m.count <= rcount THEN BagAdd(acks, m.count) ELSE acks
      /\ UNCHANGED <<server, file, got, rcount, whole>> /\ answer' = answer
      /\ faults' = faults
  BY DEF OtherReceived, client
<1>2. /\ IsABag(data) /\ IsABag(acks) /\ faults \in 0 .. RETRIES + MaxFaults
      /\ \A n \in DOMAIN acks : n \in 1 .. rcount
  BY DEF IInv, Types, UnderWay
<1>3. IsBlock(m)
  BY <1>1 DEF IInv, UnderWay, IsSent, Error
<1>4. m.count <= rcount => m.count \in 1 .. rcount
  BY <1>3, BlockProperties, SMT DEF IInv, Types
<1>5. IsABag(acks') /\ \A n \in DOMAIN acks' : n \in 1 .. rcount
  <2>1. /\ IsABag(BagAdd(acks, m.count))
        /\ DOMAIN BagAdd(acks, m.count) = DOMAIN acks \cup {m.count}
    BY <1>2, AddBag
  <2>2. CASE m.count <= rcount
    <3>1. acks' = BagAdd(acks, m.count)
      BY <1>1, <2>2
    <3>2. QED BY <1>2, <1>4, <2>1, <2>2, <3>1
  <2>3. CASE ~ (m.count <= rcount)
    BY <1>1, <1>2, <2>3
  <2>4. QED BY <2>2, <2>3
<1>6. IsABag(data') /\ DOMAIN data' \subseteq DOMAIN data
  BY <1>1, <1>2, RemoveBag
<1>7. QED BY <1>1, <1>2, <1>5, <1>6, NetworkStep

LEMMA ErrorReceivedStep ==
  ASSUME IInv, NEW m \in DOMAIN data, ErrorReceived(m)
  PROVE  IInv'
<1>1. /\ m = Error /\ data' = BagRemove(data, m) /\ acks' = acks
      /\ answer' = IF answer = "receiving" THEN "error" ELSE answer
      /\ UNCHANGED <<server, file, got, rcount, whole>>
      /\ faults' = faults
  BY DEF ErrorReceived
<1>2. /\ IsABag(data) /\ IsABag(acks) /\ faults \in 0 .. RETRIES + MaxFaults
      /\ \A n \in DOMAIN acks : n \in 1 .. rcount
  BY DEF IInv, Types, UnderWay
<1>3. pc = "refused"
  BY <1>1, BlockProperties DEF IInv, UnderWay, IsSent
<1>4. IsABag(data') /\ DOMAIN data' \subseteq DOMAIN data
  BY <1>1, <1>2, RemoveBag
<1>5. QED BY <1>1, <1>2, <1>3, <1>4, NetworkStep

LEMMA ClientTimeoutStep == IInv /\ ClientTimeout => IInv'
<1> SUFFICES ASSUME IInv, ClientTimeout PROVE IInv'
  OBVIOUS
<1>1. /\ rcount > 0 /\ acks' = BagAdd(acks, rcount) /\ faults' = OneMore
      /\ data' = data
      /\ UNCHANGED <<server, file, got, rcount, whole>> /\ answer' = answer
  BY DEF ClientTimeout, client
<1>2. /\ IsABag(data) /\ IsABag(acks) /\ faults \in 0 .. RETRIES + MaxFaults
      /\ \A n \in DOMAIN acks : n \in 1 .. rcount
  BY DEF IInv, Types, UnderWay
<1>3. rcount \in 1 .. rcount
  BY <1>1, SMT DEF IInv, Types
<1>4. IsABag(acks') /\ \A n \in DOMAIN acks' : n \in 1 .. rcount
  <2>1. /\ IsABag(BagAdd(acks, rcount))
        /\ DOMAIN BagAdd(acks, rcount) = DOMAIN acks \cup {rcount}
    BY <1>2, AddBag
  <2>2. QED BY <1>1, <1>2, <1>3, <2>1
<1>5. faults' \in 0 .. RETRIES + MaxFaults
  BY <1>1, <1>2, OneMoreType
<1>6. QED BY <1>1, <1>2, <1>4, <1>5, NetworkStep

LEMMA LoseStep == IInv /\ Lose => IInv'
<1> SUFFICES ASSUME IInv, Lose PROVE IInv'
  OBVIOUS
<1>1. /\ faults' = OneMore /\ answer' = answer
      /\ UNCHANGED <<server, file, got, rcount, whole>>
      /\ \/ \E m \in DOMAIN data : data' = BagRemove(data, m) /\ acks' = acks
         \/ \E m \in DOMAIN acks : acks' = BagRemove(acks, m) /\ data' = data
  BY DEF Lose, client
<1>2. /\ IsABag(data) /\ IsABag(acks) /\ faults \in 0 .. RETRIES + MaxFaults
      /\ \A n \in DOMAIN acks : n \in 1 .. rcount
  BY DEF IInv, Types, UnderWay
<1>3. /\ IsABag(data') /\ DOMAIN data' \subseteq DOMAIN data
      /\ IsABag(acks') /\ \A n \in DOMAIN acks' : n \in 1 .. rcount
  BY <1>1, <1>2, RemoveBag
<1>4. faults' \in 0 .. RETRIES + MaxFaults
  BY <1>1, <1>2, OneMoreType
<1>5. QED BY <1>1, <1>3, <1>4, NetworkStep

LEMMA DuplicateStep == IInv /\ Duplicate => IInv'
<1> SUFFICES ASSUME IInv, Duplicate PROVE IInv'
  OBVIOUS
<1>1. /\ faults' = OneMore /\ answer' = answer
      /\ UNCHANGED <<server, file, got, rcount, whole>>
      /\ \/ \E m \in DOMAIN data : data' = BagAdd(data, m) /\ acks' = acks
         \/ \E m \in DOMAIN acks : acks' = BagAdd(acks, m) /\ data' = data
  BY DEF Duplicate, client
<1>2. /\ IsABag(data) /\ IsABag(acks) /\ faults \in 0 .. RETRIES + MaxFaults
      /\ \A n \in DOMAIN acks : n \in 1 .. rcount
  BY DEF IInv, Types, UnderWay
<1>3. /\ IsABag(data') /\ DOMAIN data' \subseteq DOMAIN data
      /\ IsABag(acks') /\ \A n \in DOMAIN acks' : n \in 1 .. rcount
  BY <1>1, <1>2, AddBag
<1>4. faults' \in 0 .. RETRIES + MaxFaults
  BY <1>1, <1>2, OneMoreType
<1>5. QED BY <1>1, <1>3, <1>4, NetworkStep

LEMMA GrowStep == IInv /\ Grow => IInv'
<1> SUFFICES ASSUME IInv, Grow PROVE IInv'
  OBVIOUS
<1>1. PICK n \in Len(file) + 1 .. Len(Upload) : file' = SubSeq(Upload, 1, n)
  BY DEF Grow
<1>2. /\ file # NULL /\ Len(file) < Len(Upload)
      /\ ackfreq' = ackfreq /\ pc' = pc /\ count' = count
      /\ packetbuf' = packetbuf /\ len' = len /\ j' = j /\ got' = got
      /\ rcount' = rcount /\ answer' = answer /\ whole' = whole
      /\ data' = data /\ acks' = acks /\ faults' = faults
  BY DEF Grow, server, client
<1>3. Len(file) \in Nat /\ n \in Nat /\ Len(file) < n /\ n <= Len(Upload)
      /\ 0 \in Nat /\ 0 <= n /\ n - 0 = n /\ n \in 0 .. Len(Upload)
  BY <1>1, <1>2, UploadLen, SMT DEF IInv, File
<1>4. file' = Part(0, n) /\ Len(file') = n
  <2>1. file' = Part(0, n)
    <3>1. 0 + 1 = 1
      BY SMT
    <3>2. QED BY <1>1, <3>1 DEF Part
  <2>2. QED BY <1>3, <2>1, PartProperties
<1>5. ~ whole
  BY <1>2, <1>3, UploadLen, SMT DEF IInv, File
<1>6. Types'
  BY <1>2 DEF IInv, Types
<1>7. File'
  BY <1>2, <1>3, <1>4, <1>5 DEF File
<1>8. Reading'
  <2>1. file' # NULL
    BY <1>1, <1>3, NullAssumption
  <2>2. pc = "read" => Blocks(count) <= Len(file')
    <3>1. ASSUME pc = "read" PROVE Blocks(count) <= Len(file')
      <4>1. Blocks(count) <= Len(file) /\ Blocks(count) \in Nat
        BY <3>1, BlocksStep DEF IInv, Reading, Types
      <4>2. QED BY <1>3, <1>4, <4>1, SMT
    <3>2. QED BY <3>1
  <2>3. pc = "wait" => Blocks(count - 1) + len <= Len(file')
    <3>1. ASSUME pc = "wait" PROVE Blocks(count - 1) + len <= Len(file')
      <4>1. Blocks(count - 1) + len <= Len(file) /\ count > 0
        BY <3>1 DEF IInv, Reading
      <4>2. count - 1 \in Nat /\ len \in Int
        BY <4>1, DatasizeAssumption, SMT DEF IInv, Types
      <4>3. Blocks(count - 1) \in Nat
        BY <4>2, BlocksStep
      <4>4. QED BY <1>3, <1>4, <4>1, <4>2, <4>3, SMT
    <3>2. QED BY <3>1
  <2>4. QED BY <1>2, <2>1, <2>2, <2>3 DEF IInv, Reading
<1>9. Keeping'
  BY <1>2 DEF IInv, Keeping
<1>10. UnderWay'
  BY <1>2 DEF IInv, UnderWay, IsSent
<1>11. Ahead' /\ Received'
  BY <1>2 DEF IInv, Ahead, Received
<1>12. QED BY <1>6, <1>7, <1>8, <1>9, <1>10, <1>11 DEF IInv


-----------------------------------------------------------------------------
(* What follows.                                                           *)

LEMMA NextIInv == IInv /\ [Next]_vars => IInv'
<1> SUFFICES ASSUME IInv, [Next]_vars PROVE IInv'
  OBVIOUS
<1>1. CASE Tsend
  BY <1>1, RefuseStep, AcceptStep, ReadBlockStep, TimeoutStep,
     AckReceivedStep, OtherAckStep DEF Tsend
<1>2. CASE \E m \in DOMAIN data :
             BlockReceived(m) \/ OtherReceived(m) \/ ErrorReceived(m)
  BY <1>2, BlockReceivedStep, OtherReceivedStep, ErrorReceivedStep
<1>3. CASE ClientTimeout
  BY <1>3, ClientTimeoutStep
<1>4. CASE Lose
  BY <1>4, LoseStep
<1>5. CASE Duplicate
  BY <1>5, DuplicateStep
<1>6. CASE Grow
  BY <1>6, GrowStep
<1>7. CASE UNCHANGED vars
  BY <1>7 DEF vars, server, client, IInv, Types, File, Reading, Keeping,
              UnderWay, IsSent, Ahead, Received
<1>8. QED BY <1>1, <1>2, <1>3, <1>4, <1>5, <1>6, <1>7 DEF Next

(* The inductive invariant holds. *)
THEOREM Invariance == Spec => []IInv
BY InitIInv, NextIInv, PTL DEF Spec

(* The state of a download is what it seems, whatever the network does:    *)
(* see TypeOK.                                                             *)
THEOREM TypeCorrect == Spec => []TypeOK
<1>1. IInv => TypeOK
  <2> SUFFICES ASSUME IInv PROVE TypeOK
    OBVIOUS
  <2>1. file \in {NULL} \cup {SubSeq(Upload, 1, n) : n \in 0 .. Len(Upload)}
    <3>1. CASE file # NULL
      <4>1. Len(file) \in 0 .. Len(Upload) /\ file = Part(0, Len(file))
        BY <3>1 DEF IInv, File
      <4>2. 0 + 1 = 1
        BY SMT
      <4>3. file = SubSeq(Upload, 1, Len(file))
        BY <4>1, <4>2 DEF Part
      <4>4. QED BY <4>1, <4>3
    <3>2. QED BY <3>1
  <2>2. (count - 1) * datasize <= Len(Upload)
    <3>1. CASE count > 0
      BY <3>1 DEF IInv, Reading, Blocks
    <3>2. CASE ~ (count > 0)
      <4>1. count = 0
        BY <3>2, SMT DEF IInv, Types
      <4>2. (0 - 1) * datasize <= Len(Upload)
        BY UploadLen, DatasizeAssumption, Z3
      <4>3. QED BY <4>1, <4>2
    <3>3. QED BY <3>1, <3>2
  <2>3. ASSUME NEW p \in packetbuf
        PROVE  p.count \in count - ackfreq + 1 .. count
    <3>1. /\ IsBlock(p) /\ p.count <= count
          /\ count >= 2 => p.count >= count - ((count - 2) % ackfreq)
      BY DEF IInv, Keeping
    <3>2. p.count \in Nat /\ p.count >= 1
      BY <3>1, BlockProperties
    <3>3. count \in Nat /\ ackfreq \in AckFreq
      BY DEF IInv, Types
    <3>4. ackfreq \in Nat /\ ackfreq >= 1
      BY <3>3, AckFreqAssumption, SMT
    <3>5. CASE count >= 2
      <4> DEFINE r == (count - 2) % ackfreq
      <4>1. count - 2 \in Int /\ count - 2 >= 0
        BY <3>3, <3>5, SMT
      <4>2. r \in 0 .. ackfreq - 1 /\ p.count >= count - r
        BY <3>1, <3>3, <3>5, <4>1, Turn
      <4> HIDE DEF r
      <4>3. QED BY <3>1, <3>2, <3>3, <3>4, <4>2, SMT
    <3>6. CASE ~ (count >= 2)
      BY <3>1, <3>2, <3>3, <3>4, <3>6, SMT
    <3>7. QED BY <3>5, <3>6
  <2>4. QED BY <2>1, <2>2, <2>3 DEF IInv, Types, Keeping, TypeOK
<1>2. QED BY <1>1, Invariance, PTL

(* The client has the beginning of the upload, and the server is less than *)
(* ackfreq blocks ahead, whatever comes late, twice or out of order: see   *)
(* InOrder.                                                                *)
THEOREM OrderKept == Spec => []InOrder
<1>1. IInv => InOrder
  <2> SUFFICES ASSUME IInv PROVE InOrder
    OBVIOUS
  <2>1. Len(got) \in 0 .. Len(Upload) /\ got = Part(0, Len(got))
    BY DEF IInv, Received
  <2>2. Len(got) <= Len(Upload) /\ 0 + 1 = 1 /\ Len(got) \in Nat /\ 0 \in Nat
        /\ 0 <= Len(got)
    BY <2>1, UploadLen, SMT
  <2>3. got \in Seq(Nat)
    BY <2>1, <2>2, PartProperties
  <2>4. SubSeq(got, 1, Len(got)) = got
    BY <2>3, SubSeqFull
  <2>5. SubSeq(Upload, 1, Len(got)) = got
    BY <2>1, <2>2 DEF Part
  <2>6. IsPrefix(got, Upload)
    BY <2>2, <2>4, <2>5 DEF IsPrefix
  <2>7. QED BY <2>6 DEF IInv, Ahead, InOrder
<1>2. QED BY <1>1, Invariance, PTL

(* "File sent successfully" is true: see SentIsReceived.                   *)
THEOREM SentIsTrue == Spec => []SentIsReceived
<1>1. IInv => SentIsReceived
  BY DEF IInv, Received, SentIsReceived
<1>2. QED BY <1>1, Invariance, PTL

(* With an acknowledgement for each block, a client that takes a file for  *)
(* complete has all of it: see DoneIsWhole.                                *)
THEOREM DoneHasAll == Spec => []DoneIsWhole
<1>1. IInv => DoneIsWhole
  BY DEF IInv, Received, DoneIsWhole
<1>2. QED BY <1>1, Invariance, PTL

(* Sets of datagrams are counted. *)
Finite == INSTANCE FiniteSetTheorems

-----------------------------------------------------------------------------
(* What is under way, each copy by itself.                                 *)

Copies(kind, B) == UNION {{<<kind, m, i>> : i \in 1 .. B[m]} : m \in DOMAIN B}

Flying(d, a) == Copies("data", d) \cup Copies("ack", a)

(* The block that a datagram is about. *)
Number(t) == IF t[1] = "data" THEN t[2].count ELSE t[2]

(* G has one copy more than F. *)
Gains(F, G, t) == t \notin F /\ G = F \cup {t}

LEMMA CopiesMember ==
  ASSUME NEW kind, NEW B, NEW t
  PROVE  t \in Copies(kind, B)
           <=> \E m \in DOMAIN B : \E i \in 1 .. B[m] : t = <<kind, m, i>>
<1> DEFINE copies(m) == {<<kind, m, i>> : i \in 1 .. B[m]}
<1>1. t \in Copies(kind, B) <=> \E m \in DOMAIN B : t \in copies(m)
  BY DEF Copies
<1>2. ASSUME NEW m
      PROVE  t \in copies(m) <=> \E i \in 1 .. B[m] : t = <<kind, m, i>>
  OBVIOUS
<1> HIDE DEF copies
<1>3. QED BY <1>1, <1>2

LEMMA OneCopyMore ==
  ASSUME NEW kind, NEW B, NEW C, NEW m, NEW n \in Nat,
         DOMAIN C = DOMAIN B \cup {m}, C[m] = n + 1,
         \A x \in DOMAIN B : x # m => C[x] = B[x],
         m \in DOMAIN B => B[m] = n, m \notin DOMAIN B => n = 0
  PROVE  Gains(Copies(kind, B), Copies(kind, C), <<kind, m, n + 1>>)
<1> DEFINE new == <<kind, m, n + 1>>
<1>1. n + 1 \in 1 .. C[m] /\ 1 .. C[m] = 1 .. n \cup {n + 1} /\ n + 1 \notin 1 .. n
      /\ 1 .. 0 = {}
  BY SMT
<1>2. new \notin Copies(kind, B)
  <2> SUFFICES ASSUME new \in Copies(kind, B) PROVE FALSE
    OBVIOUS
  <2>1. PICK x \in DOMAIN B : \E i \in 1 .. B[x] : new = <<kind, x, i>>
    BY CopiesMember
  <2>2. PICK i \in 1 .. B[x] : new = <<kind, x, i>>
    BY <2>1
  <2>3. x = m /\ i = n + 1
    BY <2>2
  <2>4. QED BY <1>1, <2>3
<1>3. ASSUME NEW t \in Copies(kind, C)
      PROVE  t \in Copies(kind, B) \/ t = new
  <2>1. PICK x \in DOMAIN C : \E i \in 1 .. C[x] : t = <<kind, x, i>>
    BY CopiesMember
  <2>2. PICK i \in 1 .. C[x] : t = <<kind, x, i>>
    BY <2>1
  <2>3. CASE x = m /\ i = n + 1
    BY <2>2, <2>3
  <2>4. CASE x = m /\ i # n + 1
    <3>1. i \in 1 .. n
      BY <1>1, <2>4
    <3>2. m \in DOMAIN B
      BY <1>1, <3>1
    <3>3. i \in 1 .. B[m]
      BY <3>1, <3>2
    <3>4. QED BY <2>2, <2>4, <3>2, <3>3, CopiesMember
  <2>5. CASE x # m
    <3>1. x \in DOMAIN B /\ i \in 1 .. B[x]
      BY <2>5
    <3>2. QED BY <2>2, <3>1, CopiesMember
  <2>6. QED BY <2>3, <2>4, <2>5
<1>4. ASSUME NEW t \in Copies(kind, B)
      PROVE  t \in Copies(kind, C)
  <2>1. PICK x \in DOMAIN B : \E i \in 1 .. B[x] : t = <<kind, x, i>>
    BY CopiesMember
  <2>2. PICK i \in 1 .. B[x] : t = <<kind, x, i>>
    BY <2>1
  <2>3. i \in 1 .. C[x]
    <3>1. CASE x = m
      BY <1>1, <3>1
    <3>2. CASE x # m
      BY <3>2
    <3>3. QED BY <3>1, <3>2
  <2>4. x \in DOMAIN C
    OBVIOUS
  <2>5. QED BY <2>2, <2>3, <2>4, CopiesMember
<1>5. new \in Copies(kind, C)
  <2>1. m \in DOMAIN C
    OBVIOUS
  <2>2. QED BY <1>1, <2>1, CopiesMember
<1> HIDE DEF new
<1>6. Copies(kind, C) = Copies(kind, B) \cup {new}
  BY <1>3, <1>4, <1>5
<1>7. QED BY <1>2, <1>6 DEF Gains, new

LEMMA CopyAdded ==
  ASSUME NEW kind, NEW B, IsABag(B), NEW m
  PROVE  \E n \in Nat :
           Gains(Copies(kind, B), Copies(kind, BagAdd(B, m)), <<kind, m, n + 1>>)
<1> DEFINE n == IF m \in DOMAIN B THEN B[m] ELSE 0
           C == BagAdd(B, m)
<1>1. n \in Nat /\ (m \in DOMAIN B => B[m] = n) /\ (m \notin DOMAIN B => n = 0)
  BY SMT DEF IsABag
<1>2. DOMAIN C = DOMAIN B \cup {m} /\ C[m] = n + 1
      /\ \A x \in DOMAIN B : x # m => C[x] = B[x]
  BY SMT DEF IsABag, BagAdd
<1> HIDE DEF n, C
<1>3. Gains(Copies(kind, B), Copies(kind, C), <<kind, m, n + 1>>)
  BY <1>1, <1>2, OneCopyMore
<1>4. QED BY <1>1, <1>3 DEF C

LEMMA CopyRemoved ==
  ASSUME NEW kind, NEW B, IsABag(B), NEW m \in DOMAIN B
  PROVE  \E n \in Nat :
           Gains(Copies(kind, BagRemove(B, m)), Copies(kind, B), <<kind, m, n + 1>>)
<1> DEFINE n == B[m] - 1
           A == BagRemove(B, m)
<1>1. n \in Nat /\ B[m] = n + 1
  BY SMT DEF IsABag
<1>2. DOMAIN B = DOMAIN A \cup {m} /\ (m \in DOMAIN A => A[m] = n)
      /\ (m \notin DOMAIN A => n = 0) /\ \A x \in DOMAIN A : x # m => B[x] = A[x]
  <2>1. CASE B[m] = 1
    <3>1. A = [e \in DOMAIN B \ {m} |-> B[e]]
      BY <2>1, Zenon DEF BagRemove
    <3>2. n = 0
      BY <1>1, <2>1, SMT
    <3> HIDE DEF n, A
    <3>3. DOMAIN A = DOMAIN B \ {m} /\ \A x \in DOMAIN A : B[x] = A[x]
      BY <3>1
    <3>4. QED BY <3>2, <3>3
  <2>2. CASE B[m] # 1
    <3>1. A = [e \in DOMAIN B |-> IF e = m THEN B[e] - 1 ELSE B[e]]
      BY <2>2, Zenon DEF BagRemove
    <3> HIDE DEF n, A
    <3>2. DOMAIN A = DOMAIN B /\ A[m] = B[m] - 1
          /\ \A x \in DOMAIN A : x # m => B[x] = A[x]
      BY <3>1
    <3>3. QED BY <3>2 DEF n
  <2>3. QED BY <2>1, <2>2
<1> HIDE DEF n, A
<1>3. Gains(Copies(kind, A), Copies(kind, B), <<kind, m, n + 1>>)
  BY <1>1, <1>2, OneCopyMore
<1>4. QED BY <1>1, <1>3 DEF A

LEMMA AddOne ==
  ASSUME NEW B, IsABag(B), NEW m
  PROVE  B (+) SetToBag({m}) = BagAdd(B, m)
BY SMT DEF IsABag, SetToBag, (+), BagAdd

(* The kinds are told apart. *)
LEMMA DataGains ==
  ASSUME NEW d, NEW e, NEW a, NEW m, NEW i,
         Gains(Copies("data", d), Copies("data", e), <<"data", m, i>>)
  PROVE  \E t : Gains(Flying(d, a), Flying(e, a), t) /\ Number(t) = m.count
<1> DEFINE t == <<"data", m, i>>
<1>1. t[1] = "data" /\ t[2] = m /\ Number(t) = m.count
  BY DEF Number
<1>2. t \notin Copies("ack", a)
  <2> SUFFICES ASSUME t \in Copies("ack", a) PROVE FALSE
    OBVIOUS
  <2>1. PICK x \in DOMAIN a : \E n \in 1 .. a[x] : t = <<"ack", x, n>>
    BY CopiesMember
  <2>2. PICK n \in 1 .. a[x] : t = <<"ack", x, n>>
    BY <2>1
  <2>3. t[1] = "ack"
    BY <2>2
  <2>4. QED BY <1>1, <2>3
<1> HIDE DEF t
<1>3. Gains(Flying(d, a), Flying(e, a), t)
  BY <1>2 DEF Gains, Flying, t
<1>4. QED BY <1>1, <1>3

LEMMA AckGains ==
  ASSUME NEW d, NEW b, NEW a, NEW m, NEW i,
         Gains(Copies("ack", a), Copies("ack", b), <<"ack", m, i>>)
  PROVE  \E t : Gains(Flying(d, a), Flying(d, b), t) /\ Number(t) = m
<1> DEFINE t == <<"ack", m, i>>
<1>1. t[1] = "ack" /\ t[2] = m /\ Number(t) = m
  BY DEF Number
<1>2. t \notin Copies("data", d)
  <2> SUFFICES ASSUME t \in Copies("data", d) PROVE FALSE
    OBVIOUS
  <2>1. PICK x \in DOMAIN d : \E n \in 1 .. d[x] : t = <<"data", x, n>>
    BY CopiesMember
  <2>2. PICK n \in 1 .. d[x] : t = <<"data", x, n>>
    BY <2>1
  <2>3. t[1] = "data"
    BY <2>2
  <2>4. QED BY <1>1, <2>3
<1> HIDE DEF t
<1>3. Gains(Flying(d, a), Flying(d, b), t)
  BY <1>2 DEF Gains, Flying, t
<1>4. QED BY <1>1, <1>3

LEMMA DataAdded ==
  ASSUME NEW d, IsABag(d), NEW a, NEW m
  PROVE  \E t : Gains(Flying(d, a), Flying(BagAdd(d, m), a), t)
                  /\ Number(t) = m.count
<1>1. PICK n \in Nat : Gains(Copies("data", d),
                            Copies("data", BagAdd(d, m)), <<"data", m, n + 1>>)
  BY CopyAdded
<1>2. QED BY <1>1, DataGains

LEMMA DataRemoved ==
  ASSUME NEW d, IsABag(d), NEW a, NEW m \in DOMAIN d
  PROVE  \E t : Gains(Flying(BagRemove(d, m), a), Flying(d, a), t)
                  /\ Number(t) = m.count
<1>1. PICK n \in Nat : Gains(Copies("data", BagRemove(d, m)),
                            Copies("data", d), <<"data", m, n + 1>>)
  BY CopyRemoved
<1>2. QED BY <1>1, DataGains

LEMMA AckAdded ==
  ASSUME NEW d, NEW a, IsABag(a), NEW m
  PROVE  \E t : Gains(Flying(d, a), Flying(d, BagAdd(a, m)), t)
                  /\ Number(t) = m
<1>1. PICK n \in Nat : Gains(Copies("ack", a),
                            Copies("ack", BagAdd(a, m)), <<"ack", m, n + 1>>)
  BY CopyAdded
<1>2. QED BY <1>1, AckGains

LEMMA AckRemoved ==
  ASSUME NEW d, NEW a, IsABag(a), NEW m \in DOMAIN a
  PROVE  \E t : Gains(Flying(d, BagRemove(a, m)), Flying(d, a), t)
                  /\ Number(t) = m
<1>1. PICK n \in Nat : Gains(Copies("ack", BagRemove(a, m)),
                            Copies("ack", a), <<"ack", m, n + 1>>)
  BY CopyRemoved
<1>2. QED BY <1>1, AckGains

LEMMA NothingFlies ==
  ASSUME NEW d, NEW a, DOMAIN d = {}, DOMAIN a = {}
  PROVE  Flying(d, a) = {}
BY Zenon DEF Flying, Copies

LEMMA SomethingFlies ==
  ASSUME NEW d, NEW a, Flying(d, a) = {}, IsABag(d), IsABag(a)
  PROVE  DOMAIN d = {} /\ DOMAIN a = {}
<1>1. ASSUME NEW m \in DOMAIN d PROVE FALSE
  BY DataRemoved DEF Gains
<1>2. ASSUME NEW m \in DOMAIN a PROVE FALSE
  BY AckRemoved DEF Gains
<1>3. QED BY <1>1, <1>2

-----------------------------------------------------------------------------
(* Those that are about another block than the n-th.                       *)
Aged(F, n) == {t \in F : Number(t) # n}

LEMMA GainFinite ==
  ASSUME NEW F, NEW G, NEW t, Gains(F, G, t), Finite!IsFiniteSet(F) \/ Finite!IsFiniteSet(G)
  PROVE  /\ Finite!IsFiniteSet(F) /\ Finite!IsFiniteSet(G)
         /\ Finite!Cardinality(F) \in Nat /\ Finite!Cardinality(G) = Finite!Cardinality(F) + 1
<1>1. F = G \ {t} /\ G = F \cup {t} /\ t \notin F
  BY DEF Gains
<1>2. Finite!IsFiniteSet(F)
  <2>1. Finite!IsFiniteSet(G) => Finite!IsFiniteSet(G \ {t})
    BY Finite!FS_RemoveElement
  <2>2. QED BY <1>1, <2>1
<1>3. /\ Finite!IsFiniteSet(F \cup {t})
      /\ Finite!Cardinality(F \cup {t})
           = IF t \in F THEN Finite!Cardinality(F) ELSE Finite!Cardinality(F) + 1
  BY <1>2, Finite!FS_AddElement
<1>4. Finite!Cardinality(F) \in Nat
  BY <1>2, Finite!FS_CardinalityType
<1>5. QED BY <1>1, <1>2, <1>3, <1>4

LEMMA AgedFinite ==
  ASSUME NEW F, Finite!IsFiniteSet(F), NEW n
  PROVE  /\ Finite!IsFiniteSet(Aged(F, n)) /\ Finite!Cardinality(Aged(F, n)) \in Nat
         /\ Finite!Cardinality(F) \in Nat /\ Finite!Cardinality(Aged(F, n)) <= Finite!Cardinality(F)
<1>1. Aged(F, n) \in SUBSET F
  BY DEF Aged
<1>2. Finite!IsFiniteSet(Aged(F, n)) /\ Finite!Cardinality(Aged(F, n)) <= Finite!Cardinality(F)
  BY <1>1, Finite!FS_Subset
<1>3. Finite!Cardinality(F) \in Nat /\ Finite!Cardinality(Aged(F, n)) \in Nat
  BY <1>2, Finite!FS_CardinalityType
<1>4. QED BY <1>2, <1>3

LEMMA GainAged ==
  ASSUME NEW F, NEW G, NEW t, Gains(F, G, t), NEW n,
         Finite!IsFiniteSet(F) \/ Finite!IsFiniteSet(G)
  PROVE  /\ Number(t) = n => /\ Aged(G, n) = Aged(F, n)
                             /\ Aged(G, n) # G
         /\ Number(t) # n => /\ Finite!Cardinality(Aged(G, n)) = Finite!Cardinality(Aged(F, n)) + 1
                             /\ Aged(G, n) = G <=> Aged(F, n) = F
<1>1. t \notin F /\ G = F \cup {t} /\ Finite!IsFiniteSet(F)
  BY GainFinite DEF Gains
<1>2. ASSUME Number(t) = n
      PROVE  Aged(G, n) = Aged(F, n) /\ Aged(G, n) # G
  BY <1>1, <1>2 DEF Aged
<1>3. ASSUME Number(t) # n
      PROVE  /\ Finite!Cardinality(Aged(G, n)) = Finite!Cardinality(Aged(F, n)) + 1
             /\ Aged(G, n) = G <=> Aged(F, n) = F
  <2>1. Aged(G, n) = Aged(F, n) \cup {t} /\ t \notin Aged(F, n)
    BY <1>1, <1>3 DEF Aged
  <2>2. Finite!IsFiniteSet(Aged(F, n))
    BY <1>1, AgedFinite
  <2>3. Finite!Cardinality(Aged(G, n)) = Finite!Cardinality(Aged(F, n)) + 1
    BY <2>1, <2>2, Finite!FS_AddElement
  <2>4. Aged(F, n) \subseteq F
    BY DEF Aged
  <2>5. QED BY <1>1, <2>1, <2>3, <2>4
<1>4. QED BY <1>2, <1>3

-----------------------------------------------------------------------------
(* The faults pay for the waits.                                           *)

(* While the n-th block is sent, f faults are enough for the waits so far  *)
(* and for those that aged datagrams can still cost: one for each of them, *)
(* and one more when nothing else is under way.                            *)
Paid(F, n, waits, f) ==
  /\ Finite!Cardinality(F) <= f + 1
  /\ waits + Finite!Cardinality(Aged(F, n)) <= f
  /\ Aged(F, n) = F => waits + Finite!Cardinality(Aged(F, n)) < f

LEMMA PaidWaits ==
  ASSUME NEW F, Finite!IsFiniteSet(F), NEW n, NEW w \in Nat, NEW f \in Nat,
         Paid(F, n, w, f)
  PROVE  w <= f
<1>1. Finite!Cardinality(Aged(F, n)) \in Nat
  BY AgedFinite
<1>2. QED BY <1>1 DEF Paid

(* A fault brings one more, or takes one away. *)
LEMMA PaidMore ==
  ASSUME NEW F, NEW G, NEW t, Gains(F, G, t), Finite!IsFiniteSet(F),
         NEW n, NEW w \in Nat, NEW f \in Nat, Paid(F, n, w, f)
  PROVE  Paid(G, n, w, f + 1)
<1>1. /\ Finite!Cardinality(F) \in Nat
      /\ Finite!Cardinality(G) = Finite!Cardinality(F) + 1
      /\ Finite!Cardinality(Aged(F, n)) \in Nat
  BY GainFinite, AgedFinite
<1>2. CASE Number(t) = n
  <2>1. Aged(G, n) = Aged(F, n) /\ Aged(G, n) # G
    BY <1>2, GainAged
  <2>2. QED BY <1>1, <2>1 DEF Paid
<1>3. CASE Number(t) # n
  <2>1. /\ Finite!Cardinality(Aged(G, n)) = Finite!Cardinality(Aged(F, n)) + 1
        /\ Aged(G, n) = G <=> Aged(F, n) = F
    BY <1>3, GainAged
  <2>2. QED BY <1>1, <2>1 DEF Paid
<1>4. QED BY <1>2, <1>3

LEMMA PaidLess ==
  ASSUME NEW F, NEW G, NEW t, Gains(G, F, t), Finite!IsFiniteSet(F),
         NEW n, NEW w \in Nat, NEW f \in Nat, Paid(F, n, w, f)
  PROVE  Paid(G, n, w, f + 1)
<1>1. /\ Finite!Cardinality(G) \in Nat /\ Finite!IsFiniteSet(G)
      /\ Finite!Cardinality(F) = Finite!Cardinality(G) + 1
  BY GainFinite
<1>2. Finite!Cardinality(Aged(G, n)) \in Nat
  BY <1>1, AgedFinite
<1>3. CASE Number(t) = n
  <2>1. Aged(F, n) = Aged(G, n)
    BY <1>3, GainAged
  <2>2. QED BY <1>1, <1>2, <2>1 DEF Paid
<1>4. CASE Number(t) # n
  <2>1. /\ Finite!Cardinality(Aged(F, n)) = Finite!Cardinality(Aged(G, n)) + 1
        /\ Aged(F, n) = F <=> Aged(G, n) = G
    BY <1>4, GainAged
  <2>2. QED BY <1>1, <1>2, <2>1 DEF Paid
<1>5. QED BY <1>3, <1>4

(* A datagram is answered by one about the same block. *)
LEMMA PaidAnswer ==
  ASSUME NEW F, NEW G, NEW H, NEW t, NEW u, Gains(H, F, t), Gains(H, G, u),
         Number(t) = Number(u), Finite!IsFiniteSet(F),
         NEW n, NEW w \in Nat, NEW f \in Nat
  PROVE  /\ Finite!IsFiniteSet(G)
         /\ Finite!Cardinality(G) = Finite!Cardinality(F)
         /\ Paid(F, n, w, f) => Paid(G, n, w, f)
<1>1. /\ Finite!Cardinality(H) \in Nat /\ Finite!IsFiniteSet(H)
      /\ Finite!Cardinality(F) = Finite!Cardinality(H) + 1
  BY GainFinite
<1>2. Finite!Cardinality(G) = Finite!Cardinality(H) + 1 /\ Finite!IsFiniteSet(G)
  BY <1>1, GainFinite
<1>3. ASSUME Paid(F, n, w, f) PROVE Paid(G, n, w, f)
  <2>1. CASE Number(t) = n
    <3>1. Aged(F, n) = Aged(H, n) /\ Aged(F, n) # F
      BY <2>1, <1>1, GainAged
    <3>2. Aged(G, n) = Aged(H, n) /\ Aged(G, n) # G
      <4>1. Number(u) = n
        BY <2>1
      <4>2. QED BY <1>1, <4>1, GainAged
    <3>3. QED BY <1>1, <1>2, <1>3, <3>1, <3>2 DEF Paid
  <2>2. CASE Number(t) # n
    <3>1. /\ Finite!Cardinality(Aged(F, n)) = Finite!Cardinality(Aged(H, n)) + 1
          /\ Aged(F, n) = F <=> Aged(H, n) = H
      BY <2>2, <1>1, GainAged
    <3>2. /\ Finite!Cardinality(Aged(G, n)) = Finite!Cardinality(Aged(H, n)) + 1
          /\ Aged(G, n) = G <=> Aged(H, n) = H
      BY <2>2, <1>1, GainAged
    <3>3. QED BY <1>1, <1>2, <1>3, <3>1, <3>2 DEF Paid
  <2>3. QED BY <2>1, <2>2
<1>4. QED BY <1>1, <1>2, <1>3

(* The block is sent for the first time. *)
LEMMA PaidFirst ==
  ASSUME NEW F, NEW G, NEW t, Gains(F, G, t), Finite!IsFiniteSet(F),
         NEW n, NEW f \in Nat, Number(t) = n,
         Aged(F, n) = F, Finite!Cardinality(F) <= f
  PROVE  Paid(G, n, 0, f)
<1>1. /\ Finite!Cardinality(F) \in Nat
      /\ Finite!Cardinality(G) = Finite!Cardinality(F) + 1
  BY GainFinite
<1>2. Aged(G, n) = F /\ Aged(G, n) # G
  BY GainAged
<1>3. QED BY <1>1, <1>2 DEF Paid

(* It is acknowledged. *)
LEMMA PaidOff ==
  ASSUME NEW F, NEW G, NEW t, Gains(G, F, t), Finite!IsFiniteSet(F),
         NEW n, NEW w \in Nat, NEW f \in Nat, Paid(F, n, w, f)
  PROVE  Finite!Cardinality(G) <= f
<1>1. /\ Finite!Cardinality(G) \in Nat
      /\ Finite!Cardinality(F) = Finite!Cardinality(G) + 1
  BY GainFinite
<1>2. QED BY <1>1 DEF Paid

(* It is sent again: after a fault, ... *)
LEMMA PaidFault ==
  ASSUME NEW F, NEW G, NEW t, Gains(F, G, t), Finite!IsFiniteSet(F),
         NEW n, NEW w \in Nat, NEW f \in Nat, Number(t) = n, Paid(F, n, w, f)
  PROVE  Paid(G, n, w + 1, f + 1)
<1>1. /\ Finite!Cardinality(F) \in Nat
      /\ Finite!Cardinality(G) = Finite!Cardinality(F) + 1
      /\ Finite!Cardinality(Aged(F, n)) \in Nat
  BY GainFinite, AgedFinite
<1>2. Aged(G, n) = Aged(F, n) /\ Aged(G, n) # G
  BY GainAged
<1>3. QED BY <1>1, <1>2 DEF Paid

(* ... when nothing is under way any more, ... *)
LEMMA PaidSilence ==
  ASSUME NEW G, NEW t, Gains({}, G, t),
         NEW n, NEW w \in Nat, NEW f \in Nat, Number(t) = n, Paid({}, n, w, f)
  PROVE  Paid(G, n, w + 1, f)
<1>1. Finite!IsFiniteSet({}) /\ Finite!Cardinality({}) = 0
  BY Finite!FS_EmptySet
<1>2. Aged({}, n) = {}
  BY DEF Aged
<1>3. Finite!Cardinality(G) = 0 + 1
  BY <1>1, GainFinite
<1>4. Aged(G, n) = {} /\ Aged(G, n) # G
  BY <1>1, <1>2, GainAged
<1>5. QED BY <1>1, <1>2, <1>3, <1>4 DEF Paid

(* ... or after another acknowledgement. *)
LEMMA PaidOther ==
  ASSUME NEW F, NEW G, NEW H, NEW t, NEW u, Gains(H, F, t), Gains(H, G, u),
         Finite!IsFiniteSet(F), NEW n, NEW w \in Nat, NEW f \in Nat,
         Number(t) # n, Number(u) = n, Paid(F, n, w, f)
  PROVE  Paid(G, n, w + 1, f)
<1>1. /\ Finite!Cardinality(H) \in Nat /\ Finite!IsFiniteSet(H)
      /\ Finite!Cardinality(F) = Finite!Cardinality(H) + 1
  BY GainFinite
<1>2. Finite!Cardinality(G) = Finite!Cardinality(H) + 1
  BY <1>1, GainFinite
<1>3. Finite!Cardinality(Aged(H, n)) \in Nat
  BY <1>1, AgedFinite
<1>4. Finite!Cardinality(Aged(F, n)) = Finite!Cardinality(Aged(H, n)) + 1
  BY <1>1, GainAged
<1>5. Aged(G, n) = Aged(H, n) /\ Aged(G, n) # G
  BY <1>1, GainAged
<1>6. QED BY <1>1, <1>2, <1>3, <1>4, <1>5 DEF Paid

-----------------------------------------------------------------------------
(* What holds besides when every block is acknowledged. *)

(* The client has got what was sent, and the last block is the last.       *)
Exact ==
  /\ \A p \in DOMAIN data : p.count = count /\ count > 0 => Len(p.pieces) = len
  /\ answer = "done" => rcount = count /\ count > 0 /\ len < datasize
  /\ pc = "read" /\ count > 0 => len = datasize

(* As long as there are few faults they pay for the waits. *)
Thrifty ==
  /\ pc # "aborted"
  /\ pc = "request" => Flying(data, acks) = {}
  /\ pc = "read" => Finite!Cardinality(Flying(data, acks)) <= faults
  /\ pc = "wait" => Paid(Flying(data, acks), count, j, faults)

Budget ==
  /\ Finite!IsFiniteSet(Flying(data, acks))
  /\ faults < RETRIES => Thrifty

Frugal == ackfreq = 1 => Exact /\ Budget

LEMMA FewerFaults ==
  ASSUME faults \in 0 .. RETRIES + MaxFaults, OneMore < RETRIES
  PROVE  OneMore = faults + 1 /\ faults < RETRIES
BY RetriesAssumption, MaxFaultsAssumption, SMT DEF OneMore

LEMMA FlyingNumbers ==
  ASSUME IInv, NEW t \in Flying(data, acks)
  PROVE  Number(t) \in Int /\ Number(t) <= count
<1>1. count \in Nat /\ rcount \in 0 .. count
  BY DEF IInv, Types
<1>2. CASE t \in Copies("data", data)
  <2>1. PICK m \in DOMAIN data : \E i \in 1 .. data[m] : t = <<"data", m, i>>
    BY <1>2, CopiesMember
  <2>2. t[1] = "data" /\ t[2] = m
    BY <2>1
  <2>3. IsSent(m)
    BY DEF IInv, UnderWay
  <2>4. CASE m = Error
    BY <1>1, <2>2, <2>4, SMT DEF Number, Error
  <2>5. CASE IsBlock(m) /\ m.count <= count
    BY <1>1, <2>2, <2>5, BlockProperties, SMT DEF Number
  <2>6. QED BY <2>3, <2>4, <2>5 DEF IsSent
<1>3. CASE t \in Copies("ack", acks)
  <2>1. PICK m \in DOMAIN acks : \E i \in 1 .. acks[m] : t = <<"ack", m, i>>
    BY <1>3, CopiesMember
  <2>2. t[1] = "ack" /\ t[2] = m
    BY <2>1
  <2>3. m \in 1 .. rcount
    BY DEF IInv, UnderWay
  <2>4. QED BY <1>1, <2>2, <2>3, SMT DEF Number
<1>4. QED BY <1>2, <1>3 DEF Flying

(* Nobody is more than one block ahead. *)
LEMMA InTurns ==
  ASSUME IInv, ackfreq = 1
  PROVE  count \in Nat /\ rcount \in Nat /\ rcount <= count /\ count <= rcount + 1
BY SMT DEF IInv, Types, Ahead

LEMMA FrugalInit == Init => Frugal
<1> SUFFICES ASSUME Init PROVE Exact /\ Budget
  BY DEF Frugal
<1>1. /\ pc = "request" /\ count = 0 /\ data = EmptyBag /\ acks = EmptyBag
      /\ answer = "receiving"
  BY DEF Init
<1>2. DOMAIN data = {} /\ DOMAIN acks = {}
  BY <1>1, SMT DEF EmptyBag, SetToBag
<1>3. Flying(data, acks) = {}
  BY <1>2, NothingFlies
<1>4. Exact
  BY <1>1, <1>2 DEF Exact
<1>5. Budget
  <2>1. Finite!IsFiniteSet(Flying(data, acks))
    BY <1>3, Finite!FS_EmptySet
  <2>2. QED BY <1>1, <1>3, <2>1 DEF Budget, Thrifty
<1>6. QED BY <1>4, <1>5

LEMMA RefuseFrugal ==
  ASSUME IInv, Exact, Budget, Refuse
  PROVE  Exact' /\ Budget'
<1>1. /\ pc = "request" /\ pc' = "refused" /\ data' = BagAdd(data, Error)
      /\ count' = count /\ acks' = acks /\ rcount' = rcount /\ answer' = answer
      /\ len' = len
  BY DEF Refuse, client
<1>2. count = 0 /\ IsABag(data)
  BY <1>1 DEF IInv, Reading, Types
<1>3. Exact'
  BY <1>1, <1>2 DEF Exact
<1>4. Finite!IsFiniteSet(Flying(data, acks)')
  <2>1. PICK t : Gains(Flying(data, acks), Flying(BagAdd(data, Error), acks), t)
    BY <1>2, DataAdded
  <2>2. Finite!IsFiniteSet(Flying(BagAdd(data, Error), acks))
    BY <2>1, GainFinite DEF Budget
  <2>3. Flying(data, acks)' = Flying(BagAdd(data, Error), acks)
    BY <1>1 DEF Flying, Copies
  <2>4. QED BY <2>2, <2>3
<1>5. QED BY <1>1, <1>3, <1>4 DEF Budget, Thrifty

LEMMA AcceptFrugal ==
  ASSUME IInv, Exact, Budget, Accept
  PROVE  Exact' /\ Budget'
<1>1. /\ pc = "request" /\ pc' = "read" /\ data' = data
      /\ count' = count /\ acks' = acks /\ rcount' = rcount /\ answer' = answer
      /\ len' = len /\ faults' = faults
  BY DEF Accept, client
<1>2. count = 0 /\ faults \in Nat
  BY <1>1 DEF IInv, Reading, Types
<1>3. Exact'
  BY <1>1, <1>2 DEF Exact
<1>4. Flying(data, acks)' = Flying(data, acks)
  BY <1>1 DEF Flying, Copies
<1>5. ASSUME faults' < RETRIES
      PROVE  Finite!Cardinality(Flying(data, acks)) <= faults
  <2>1. Flying(data, acks) = {}
    BY <1>1, <1>5 DEF Budget, Thrifty
  <2>2. Finite!Cardinality(Flying(data, acks)) = 0
    BY <2>1, Finite!FS_EmptySet
  <2>3. QED BY <1>2, <2>2
<1> DEFINE F == Flying(data, acks)
<1>6. Finite!Cardinality(Flying(data, acks))' = Finite!Cardinality(F)
  BY <1>4
<1> HIDE DEF F
<1>7. Budget'
  BY <1>1, <1>4, <1>5, <1>6 DEF Budget, Thrifty, F
<1>8. QED BY <1>3, <1>7

LEMMA ReadBlockFrugal ==
  ASSUME IInv, Exact, Budget, ackfreq = 1, ReadBlock
  PROVE  Exact' /\ Budget'
<1> DEFINE num == count + 1
           packet == Datagram(num, Chunk(num))
<1>1. count \in Nat /\ IsABag(data) /\ faults \in Nat /\ ackfreq \in AckFreq
  BY DEF IInv, Types
<1>2. AckIsAwaited(num, Len(Chunk(num)))
  <2>1. num - 1 \in Int /\ num - 1 >= 0
    BY <1>1, SMT
  <2>2. (num - 1) % ackfreq \in 0 .. ackfreq - 1
    BY <1>1, <2>1, Turn
  <2>3. (num - 1) % ackfreq = 0
    BY <2>2, SMT
  <2>4. QED BY <2>3 DEF AckIsAwaited
<1>3. /\ pc = "read" /\ pc' = "wait" /\ count' = num /\ j' = 0
      /\ len' = Len(Chunk(num)) /\ data' = BagAdd(data, packet) /\ acks' = acks
      /\ rcount' = rcount /\ answer' = answer /\ faults' = faults
  BY <1>2 DEF ReadBlock, client
<1>4. packet.count = num /\ packet.pieces = Chunk(num) /\ num \in Nat /\ num > count
  BY <1>1, SMT DEF Datagram
<1> HIDE DEF packet
<1>5. Exact'
  <2>1. answer # "done"
    BY <1>1, <1>3, DatasizeAssumption, SMT DEF Exact
  <2>2. ASSUME NEW p \in DOMAIN data', p.count = num
        PROVE  Len(p.pieces) = len'
    <3>1. CASE p = packet
      BY <1>3, <1>4, <3>1
    <3>2. CASE p # packet
      <4>1. p \in DOMAIN data
        <5>1. DOMAIN BagAdd(data, packet) = DOMAIN data \cup {packet}
          BY <1>1, AddBag
        <5>2. QED BY <1>3, <3>2, <5>1
      <4>2. IsSent(p)
        BY <4>1 DEF IInv, UnderWay
      <4>3. p.count <= count
        <5>1. CASE p = Error
          BY <1>1, <5>1, SMT DEF Error
        <5>2. CASE p # Error
          BY <4>2, <5>2 DEF IsSent
        <5>3. QED BY <5>1, <5>2
      <4>4. QED BY <1>1, <1>4, <2>2, <4>3, SMT
    <3>3. QED BY <3>1, <3>2
  <2> HIDE DEF num
  <2>3. QED BY <1>3, <2>1, <2>2 DEF Exact
<1>6. Budget'
  <2> DEFINE F == Flying(data, acks)
             G == Flying(BagAdd(data, packet), acks)
  <2>1. PICK t : Gains(F, G, t) /\ Number(t) = num
    BY <1>1, <1>4, DataAdded
  <2>2. Finite!IsFiniteSet(F)
    BY DEF Budget
  <2>3. Aged(F, num) = F
    <3>1. ASSUME NEW x \in F PROVE Number(x) # num
      <4>1. Number(x) \in Int /\ Number(x) <= count
        BY <3>1, FlyingNumbers
      <4>2. QED BY <1>1, <1>4, <4>1, SMT
    <3> HIDE DEF F
    <3>2. QED BY <3>1 DEF Aged
  <2>4. faults < RETRIES => Finite!Cardinality(F) <= faults
    BY <1>3 DEF Budget, Thrifty
  <2> HIDE DEF F, G, num
  <2>5. faults < RETRIES => Paid(G, num, 0, faults)
    BY <1>1, <2>1, <2>2, <2>3, <2>4, PaidFirst
  <2>6. Finite!IsFiniteSet(G)
    BY <2>1, <2>2, GainFinite
  <2>7. QED BY <1>3, <2>5, <2>6 DEF Budget, Thrifty, G
<1>7. QED BY <1>5, <1>6

LEMMA AckReceivedFrugal ==
  ASSUME IInv, Exact, Budget, NEW m \in DOMAIN acks, AckReceived(m)
  PROVE  Exact' /\ Budget'
<1>1. /\ pc = "wait" /\ acks' = BagRemove(acks, m)
      /\ pc' = IF len # datasize THEN "sent" ELSE "read"
      /\ count' = count /\ len' = len /\ j' = j /\ data' = data
      /\ rcount' = rcount /\ answer' = answer /\ faults' = faults
  BY DEF AckReceived, IsLast, client
<1>2. count \in Nat /\ faults \in Nat /\ j \in Nat /\ IsABag(acks)
  BY RetriesAssumption, SMT DEF IInv, Types
<1>3. Exact'
  BY <1>1 DEF Exact
<1> DEFINE F == Flying(data, acks)
           G == Flying(data, BagRemove(acks, m))
<1>4. PICK t : Gains(G, F, t)
  BY <1>2, AckRemoved
<1>5. Finite!IsFiniteSet(F) /\ (faults < RETRIES => Paid(F, count, j, faults))
  BY <1>1 DEF Budget, Thrifty
<1> HIDE DEF F, G
<1>6. faults < RETRIES => Finite!Cardinality(G) <= faults
  BY <1>2, <1>4, <1>5, PaidOff
<1>7. Finite!IsFiniteSet(G)
  BY <1>4, <1>5, GainFinite
<1>8. Budget'
  BY <1>1, <1>6, <1>7 DEF Budget, Thrifty, G
<1>9. QED BY <1>3, <1>8

(* With one block at a time there is one packet to send again. *)
LEMMA ResentOne ==
  ASSUME IInv, ackfreq = 1, pc = "wait"
  PROVE  \E q : /\ Resent = BagAdd(data, q)
                /\ q.count = count /\ Len(q.pieces) = len
<1> DEFINE start == Blocks(count - 1)
           q == Datagram(count, Part(start, start + len))
<1>1. /\ count \in Nat /\ len \in Nat /\ IsABag(data) /\ ackfreq \in AckFreq
      /\ len \in 0 .. datasize
  BY DatasizeAssumption, SMT DEF IInv, Types
<1>2. ASSUME NEW p \in packetbuf
      PROVE  Shortened(p, len) = q /\ Len(q.pieces) = len
  <2>1. IsBlock(p) /\ p.count <= count
        /\ (count >= 2 => p.count >= count - ((count - 2) % ackfreq))
        /\ (p.count = count => Len(p.pieces) = len)
    BY DEF IInv, Keeping
  <2>2. p.count \in Nat /\ p.count >= 1 /\ Len(p.pieces) \in 0 .. datasize
    BY <2>1, BlockProperties
  <2>3. p.count = count
    <3>1. CASE count >= 2
      <4>1. count - 2 \in Int /\ count - 2 >= 0
        BY <1>1, <3>1, SMT
      <4>2. (count - 2) % ackfreq \in 0 .. ackfreq - 1
        BY <1>1, <4>1, Turn
      <4>3. (count - 2) % ackfreq = 0
        BY <4>2, SMT
      <4>4. QED BY <1>1, <2>1, <2>2, <3>1, <4>3, SMT
    <3>2. CASE ~ (count >= 2)
      BY <1>1, <2>1, <2>2, <3>2, SMT
    <3>3. QED BY <3>1, <3>2
  <2>4. Len(p.pieces) = len
    BY <2>1, <2>3
  <2> DEFINE s == Shortened(p, len)
  <2>5. /\ IsBlock(s) /\ s.count = p.count
        /\ Len(s.pieces) = IF len < Len(p.pieces) THEN len ELSE Len(p.pieces)
    BY <1>1, <2>1, ShortenedIsBlock
  <2>6. s.count = count /\ Len(s.pieces) = len
    BY <2>3, <2>4, <2>5
  <2> HIDE DEF s
  <2>7. s.pieces = Part(start, start + len)
    BY <2>5, <2>6 DEF IsBlock
  <2>8. s = [count |-> s.count, pieces |-> s.pieces]
    BY <2>5 DEF IsBlock, Packet
  <2>9. s = q
    BY <2>6, <2>7, <2>8 DEF Datagram
  <2>10. QED BY <2>6, <2>9 DEF s
<1>3. q.count = count
  BY DEF Datagram
<1> HIDE DEF q
<1>4. PICK p \in packetbuf : p.count = count
  BY DEF IInv, Keeping
<1>5. {Shortened(packet, len) : packet \in packetbuf} = {q}
  BY <1>2, <1>4
<1>6. Resent = BagAdd(data, q)
  BY <1>1, <1>5, AddOne DEF Resent
<1>7. Len(q.pieces) = len
  BY <1>2, <1>4
<1>8. QED BY <1>3, <1>6, <1>7

(* A block is sent again. *)
LEMMA RetryExact ==
  ASSUME IInv, Exact, NEW q, q.count = count, Len(q.pieces) = len,
         data' = BagAdd(data, q), count' = count, len' = len,
         rcount' = rcount, answer' = answer, pc' # "read"
  PROVE  Exact'
<1>1. DOMAIN data' = DOMAIN data \cup {q}
  BY AddBag DEF IInv, Types
<1>2. QED BY <1>1 DEF Exact

LEMMA OtherAckFrugal ==
  ASSUME IInv, Exact, Budget, ackfreq = 1,
         NEW m \in DOMAIN acks, OtherAck(m)
  PROVE  Exact' /\ Budget'
<1>1. /\ pc = "wait" /\ m # count /\ acks' = BagRemove(acks, m)
      /\ data' = Resent /\ j' = j + 1
      /\ pc' = IF j' = RETRIES THEN "aborted" ELSE "wait"
      /\ count' = count /\ len' = len
      /\ rcount' = rcount /\ answer' = answer /\ faults' = faults
  BY DEF OtherAck, Retry, IsAck, client
<1>2. /\ count \in Nat /\ faults \in Nat /\ j \in Nat /\ IsABag(acks)
      /\ IsABag(data)
  BY RetriesAssumption, SMT DEF IInv, Types
<1>3. PICK q : /\ data' = BagAdd(data, q)
               /\ q.count = count /\ Len(q.pieces) = len
  BY <1>1, ResentOne
<1>4. Exact'
  BY <1>1, <1>3, RetryExact
<1> DEFINE F == Flying(data, acks)
           H == Flying(data, BagRemove(acks, m))
           G == Flying(BagAdd(data, q), BagRemove(acks, m))
<1>5. PICK t : Gains(H, F, t) /\ Number(t) = m
  BY <1>2, AckRemoved
<1>6. PICK u : Gains(H, G, u) /\ Number(u) = count
  BY <1>2, <1>3, DataAdded
<1>7. Finite!IsFiniteSet(F) /\ (faults < RETRIES => Paid(F, count, j, faults))
  BY <1>1 DEF Budget, Thrifty
<1> HIDE DEF F, G, H
<1>8. Finite!IsFiniteSet(H)
  BY <1>5, <1>7, GainFinite
<1>9. Finite!IsFiniteSet(G)
  BY <1>6, <1>8, GainFinite
<1>10. ASSUME faults < RETRIES
       PROVE  Paid(G, count, j + 1, faults) /\ j + 1 # RETRIES
  <2>1. Number(t) # count
    BY <1>1, <1>5
  <2>2. Paid(G, count, j + 1, faults)
    BY <1>2, <1>5, <1>6, <1>7, <1>10, <2>1, PaidOther
  <2>3. j + 1 <= faults
    BY <1>2, <1>9, <2>2, PaidWaits
  <2>4. QED BY <1>2, <1>10, <2>2, <2>3, RetriesAssumption, SMT
<1>11. Budget'
  BY <1>1, <1>3, <1>9, <1>10 DEF Budget, Thrifty, G
<1>12. QED BY <1>4, <1>11

LEMMA TimeoutFrugal ==
  ASSUME IInv, Exact, Budget, ackfreq = 1, Timeout
  PROVE  Exact' /\ Budget'
<1>1. /\ pc = "wait" /\ acks' = acks
      /\ data' = Resent /\ j' = j + 1
      /\ pc' = IF j' = RETRIES THEN "aborted" ELSE "wait"
      /\ count' = count /\ len' = len
      /\ rcount' = rcount /\ answer' = answer
      /\ faults' = IF data = EmptyBag /\ acks = EmptyBag
                     THEN faults ELSE OneMore
  BY DEF Timeout, Retry, client
<1>2. /\ count \in Nat /\ faults \in Nat /\ j \in Nat /\ IsABag(acks)
      /\ IsABag(data) /\ faults \in 0 .. RETRIES + MaxFaults
  BY RetriesAssumption, MaxFaultsAssumption, SMT DEF IInv, Types
<1>3. PICK q : /\ data' = BagAdd(data, q)
               /\ q.count = count /\ Len(q.pieces) = len
  BY <1>1, ResentOne
<1>4. Exact'
  BY <1>1, <1>3, RetryExact
<1> DEFINE F == Flying(data, acks)
           G == Flying(BagAdd(data, q), acks)
<1>5. PICK t : Gains(F, G, t) /\ Number(t) = count
  BY <1>2, <1>3, DataAdded
<1>6. Finite!IsFiniteSet(F) /\ (faults < RETRIES => Paid(F, count, j, faults))
  BY <1>1 DEF Budget, Thrifty
<1>7. (data = EmptyBag /\ acks = EmptyBag) => F = {}
  <2> SUFFICES ASSUME data = EmptyBag, acks = EmptyBag PROVE F = {}
    OBVIOUS
  <2>1. DOMAIN data = {} /\ DOMAIN acks = {}
    BY SMT DEF EmptyBag, SetToBag
  <2>2. QED BY <2>1, NothingFlies
<1> HIDE DEF F, G
<1>8. Finite!IsFiniteSet(G)
  BY <1>5, <1>6, GainFinite
<1>9. ASSUME faults' < RETRIES
      PROVE  Paid(G, count, j + 1, faults') /\ faults' \in Nat
  <2>1. CASE data = EmptyBag /\ acks = EmptyBag
    <3>1. F = {} /\ faults' = faults
      BY <1>1, <1>7, <2>1
    <3>2. Paid({}, count, j, faults) /\ Gains({}, G, t)
      BY <1>5, <1>6, <1>9, <3>1
    <3>3. Paid(G, count, j + 1, faults)
      BY <1>2, <1>5, <3>2, PaidSilence
    <3>4. QED BY <1>2, <3>1, <3>3
  <2>2. CASE ~ (data = EmptyBag /\ acks = EmptyBag)
    <3>1. faults' = OneMore
      BY <1>1, <2>2
    <3>2. faults' = faults + 1 /\ faults < RETRIES
      BY <1>2, <1>9, <3>1, FewerFaults
    <3>3. Paid(F, count, j, faults)
      BY <1>6, <3>2
    <3>4. Paid(G, count, j + 1, faults + 1)
      BY <1>2, <1>5, <1>6, <3>3, PaidFault
    <3>5. QED BY <1>2, <3>2, <3>4
  <2>3. QED BY <2>1, <2>2
<1>10. faults' < RETRIES => j + 1 # RETRIES
  <2> SUFFICES ASSUME faults' < RETRIES PROVE j + 1 # RETRIES
    OBVIOUS
  <2>1. j + 1 <= faults'
    BY <1>2, <1>8, <1>9, PaidWaits
  <2>2. QED BY <1>2, <1>9, <2>1, RetriesAssumption, SMT
<1>11. Budget'
  BY <1>1, <1>3, <1>8, <1>9, <1>10 DEF Budget, Thrifty, G
<1>12. QED BY <1>4, <1>11

(* A datagram is taken and answered, or it is the last of them. *)
LEMMA AnswerBudget ==
  ASSUME IInv, Budget, NEW m \in DOMAIN data,
         data' = BagRemove(data, m), acks' = BagAdd(acks, m.count),
         pc' = pc, count' = count, j' = j, faults' = faults
  PROVE  Budget'
<1>1. count \in Nat /\ faults \in Nat /\ j \in Nat /\ IsABag(data) /\ IsABag(acks)
  BY RetriesAssumption, SMT DEF IInv, Types
<1> DEFINE F == Flying(data, acks)
           H == Flying(BagRemove(data, m), acks)
           G == Flying(BagRemove(data, m), BagAdd(acks, m.count))
<1>2. PICK t : Gains(H, F, t) /\ Number(t) = m.count
  BY <1>1, DataRemoved
<1>3. PICK u : Gains(H, G, u) /\ Number(u) = m.count
  BY <1>1, AckAdded
<1>4. /\ Finite!IsFiniteSet(F)
      /\ faults < RETRIES =>
           /\ pc # "aborted"
           /\ pc = "request" => F = {}
           /\ pc = "read" => Finite!Cardinality(F) <= faults
           /\ pc = "wait" => Paid(F, count, j, faults)
  BY DEF Budget, Thrifty
<1> HIDE DEF F, G, H
<1>5. F # {}
  BY <1>2 DEF Gains
<1>6. /\ Finite!IsFiniteSet(G)
      /\ Finite!Cardinality(G) = Finite!Cardinality(F)
      /\ Paid(F, count, j, faults) => Paid(G, count, j, faults)
  BY <1>1, <1>2, <1>3, <1>4, PaidAnswer
<1>7. QED BY <1>4, <1>5, <1>6 DEF Budget, Thrifty, G

(* What the network and an impatient client do. *)
LEMMA FaultBudget ==
  ASSUME IInv, Budget, pc' = pc, count' = count, j' = j, faults' = OneMore,
         NEW G, G = Flying(data', acks'), NEW t,
         \/ Gains(Flying(data, acks), G, t)
         \/ Gains(G, Flying(data, acks), t),
         pc = "request" => Flying(data, acks) # {}
  PROVE  Budget'
<1>1. count \in Nat /\ faults \in 0 .. RETRIES + MaxFaults /\ faults \in Nat /\ j \in Nat
  BY RetriesAssumption, MaxFaultsAssumption, SMT DEF IInv, Types
<1> DEFINE F == Flying(data, acks)
<1>2. /\ Finite!IsFiniteSet(F)
      /\ faults < RETRIES =>
           /\ pc # "aborted"
           /\ pc = "request" => F = {}
           /\ pc = "read" => Finite!Cardinality(F) <= faults
           /\ pc = "wait" => Paid(F, count, j, faults)
  BY DEF Budget, Thrifty
<1>3. (Gains(F, G, t) \/ Gains(G, F, t)) /\ (pc = "request" => F # {})
  OBVIOUS
<1> HIDE DEF F
<1>4. /\ Finite!IsFiniteSet(G) /\ Finite!Cardinality(F) \in Nat
      /\ Finite!Cardinality(G) \in Nat
      /\ Finite!Cardinality(G) <= Finite!Cardinality(F) + 1
  <2>1. CASE Gains(F, G, t)
    BY <1>2, <2>1, GainFinite
  <2>2. CASE Gains(G, F, t)
    BY <1>2, <2>2, GainFinite
  <2>3. QED BY <1>3, <2>1, <2>2
<1>5. ASSUME faults' < RETRIES
      PROVE  /\ faults' = faults + 1 /\ pc # "aborted" /\ pc # "request"
             /\ pc = "read" => Finite!Cardinality(G) <= faults + 1
             /\ pc = "wait" => Paid(G, count, j, faults + 1)
  <2>1. faults' = faults + 1 /\ faults < RETRIES
    BY <1>1, <1>5, FewerFaults
  <2>2. pc # "aborted" /\ pc # "request"
    BY <1>2, <1>3, <2>1
  <2>3. pc = "read" => Finite!Cardinality(G) <= faults + 1
    BY <1>1, <1>2, <1>4, <2>1
  <2>4. ASSUME pc = "wait" PROVE Paid(G, count, j, faults + 1)
    <3>1. Paid(F, count, j, faults)
      BY <1>2, <2>1, <2>4
    <3>2. CASE Gains(F, G, t)
      BY <1>1, <1>2, <3>1, <3>2, PaidMore
    <3>3. CASE Gains(G, F, t)
      BY <1>1, <1>2, <3>1, <3>3, PaidLess
    <3>4. QED BY <1>3, <3>2, <3>3
  <2>5. QED BY <2>1, <2>2, <2>3, <2>4
<1>6. QED BY <1>4, <1>5 DEF Budget, Thrifty

LEMMA BlockReceivedFrugal ==
  ASSUME IInv, Exact, Budget, ackfreq = 1,
         NEW m \in DOMAIN data, BlockReceived(m)
  PROVE  Exact' /\ Budget'
<1>1. /\ answer = "receiving" /\ m.count = rcount + 1 /\ rcount' = m.count
      /\ answer' = IF Len(m.pieces) < datasize THEN "done" ELSE answer
      /\ data' = BagRemove(data, m) /\ acks' = BagAdd(acks, m.count)
      /\ pc' = pc /\ count' = count /\ len' = len /\ j' = j /\ faults' = faults
  BY DEF BlockReceived, server
<1>2. IsABag(data) /\ DOMAIN data' \subseteq DOMAIN data
  BY <1>1, RemoveBag DEF IInv, Types
<1>3. /\ count \in Nat /\ rcount \in Nat
      /\ rcount <= count /\ count <= rcount + 1
  BY InTurns
<1>4. ASSUME answer' = "done"
      PROVE  rcount' = count /\ count > 0 /\ len < datasize
  <2>1. Len(m.pieces) < datasize
    BY <1>1, <1>4
  <2>2. m.count <= count
    <3>1. IsSent(m)
      BY DEF IInv, UnderWay
    <3>2. m # Error
      BY <1>1, <1>3, SMT DEF Error
    <3>3. QED BY <3>1, <3>2 DEF IsSent
  <2>3. m.count = count /\ count > 0
    BY <1>1, <1>3, <2>2, SMT
  <2>4. Len(m.pieces) = len
    BY <2>3 DEF Exact
  <2>5. QED BY <1>1, <2>1, <2>3, <2>4
<1>5. Exact'
  BY <1>1, <1>2, <1>4 DEF Exact
<1>6. Budget'
  BY <1>1, AnswerBudget
<1>7. QED BY <1>5, <1>6

LEMMA OtherReceivedFrugal ==
  ASSUME IInv, Exact, Budget, ackfreq = 1,
         NEW m \in DOMAIN data, OtherReceived(m)
  PROVE  Exact' /\ Budget'
<1>1. /\ m.count # 0 /\ data' = BagRemove(data, m)
      /\ answer = "done" \/ m.count # rcount + 1
      /\ acks' = IF m.count <= rcount THEN BagAdd(acks, m.count) ELSE acks
      /\ rcount' = rcount /\ answer' = answer
      /\ pc' = pc /\ count' = count /\ len' = len /\ j' = j /\ faults' = faults
  BY DEF OtherReceived, server, client
<1>2. IsABag(data) /\ DOMAIN data' \subseteq DOMAIN data
  BY <1>1, RemoveBag DEF IInv, Types
<1>3. Exact'
  BY <1>1, <1>2 DEF Exact
<1>4. m.count <= rcount
  <2>1. /\ count \in Nat /\ rcount \in Nat
        /\ rcount <= count /\ count <= rcount + 1
    BY InTurns
  <2>2. IsSent(m)
    BY DEF IInv, UnderWay
  <2>3. IsBlock(m) /\ m.count <= count
    BY <1>1, <2>2 DEF IsSent, Error
  <2>4. m.count \in Nat
    BY <2>3, BlockProperties
  <2>5. answer = "done" => rcount = count
    BY DEF Exact
  <2>6. QED BY <1>1, <2>1, <2>3, <2>4, <2>5, SMT
<1>5. acks' = BagAdd(acks, m.count)
  BY <1>1, <1>4
<1>6. Budget'
  BY <1>1, <1>5, AnswerBudget
<1>7. QED BY <1>3, <1>6

LEMMA ErrorReceivedFrugal ==
  ASSUME IInv, Exact, Budget, NEW m \in DOMAIN data, ErrorReceived(m)
  PROVE  Exact' /\ Budget'
<1>1. /\ m = Error /\ data' = BagRemove(data, m) /\ acks' = acks
      /\ answer' = IF answer = "receiving" THEN "error" ELSE answer
      /\ rcount' = rcount
      /\ pc' = pc /\ count' = count /\ len' = len /\ j' = j /\ faults' = faults
  BY DEF ErrorReceived, server
<1>2. IsABag(data) /\ DOMAIN data' \subseteq DOMAIN data
  BY <1>1, RemoveBag DEF IInv, Types
<1>3. Exact'
  BY <1>1, <1>2 DEF Exact
<1>4. pc = "refused"
  BY <1>1, BlockProperties DEF IInv, UnderWay, IsSent
<1> DEFINE F == Flying(data, acks)
           G == Flying(BagRemove(data, m), acks)
<1>5. PICK t : Gains(G, F, t)
  BY <1>2, DataRemoved
<1>6. Finite!IsFiniteSet(F)
  BY DEF Budget
<1> HIDE DEF F, G
<1>7. Finite!IsFiniteSet(G)
  BY <1>5, <1>6, GainFinite
<1>8. Budget'
  BY <1>1, <1>4, <1>7 DEF Budget, Thrifty, G
<1>9. QED BY <1>3, <1>8

LEMMA ClientTimeoutFrugal ==
  ASSUME IInv, Exact, Budget, ClientTimeout
  PROVE  Exact' /\ Budget'
<1>1. /\ rcount > 0 /\ acks' = BagAdd(acks, rcount) /\ data' = data
      /\ rcount' = rcount /\ answer' = answer /\ faults' = OneMore
      /\ pc' = pc /\ count' = count /\ len' = len /\ j' = j
  BY DEF ClientTimeout, server, client
<1>2. Exact'
  BY <1>1 DEF Exact
<1>3. pc # "request"
  <2> SUFFICES ASSUME pc = "request" PROVE FALSE
    OBVIOUS
  <2>1. count = 0 /\ rcount \in 0 .. count
    BY DEF IInv, Reading, Types
  <2>2. QED BY <1>1, <2>1, SMT
<1>4. IsABag(acks)
  BY DEF IInv, Types
<1>5. PICK t : Gains(Flying(data, acks), Flying(data, BagAdd(acks, rcount)), t)
  BY <1>4, AckAdded
<1>6. Gains(Flying(data, acks), Flying(data', acks'), t)
  BY <1>1, <1>5
<1>7. Budget'
  BY <1>1, <1>3, <1>6, FaultBudget
<1>8. QED BY <1>2, <1>7

LEMMA LoseFrugal ==
  ASSUME IInv, Exact, Budget, Lose
  PROVE  Exact' /\ Budget'
<1>1. /\ rcount' = rcount /\ answer' = answer /\ faults' = OneMore
      /\ pc' = pc /\ count' = count /\ len' = len /\ j' = j
      /\ \/ \E m \in DOMAIN data : data' = BagRemove(data, m) /\ acks' = acks
         \/ \E m \in DOMAIN acks : acks' = BagRemove(acks, m) /\ data' = data
  BY DEF Lose, server, client
<1>2. IsABag(data) /\ IsABag(acks)
  BY DEF IInv, Types
<1>3. CASE \E m \in DOMAIN data : data' = BagRemove(data, m) /\ acks' = acks
  <2>1. PICK m \in DOMAIN data : data' = BagRemove(data, m) /\ acks' = acks
    BY <1>3
  <2>2. DOMAIN data' \subseteq DOMAIN data
    BY <1>2, <2>1, RemoveBag
  <2>3. Exact'
    BY <1>1, <2>2 DEF Exact
  <2>4. PICK t : Gains(Flying(BagRemove(data, m), acks), Flying(data, acks), t)
    BY <1>2, DataRemoved
  <2>5. Gains(Flying(data', acks'), Flying(data, acks), t)
    BY <2>1, <2>4
  <2>6. Flying(data, acks) # {}
    BY <2>4 DEF Gains
  <2>7. Budget'
    BY <1>1, <2>5, <2>6, FaultBudget
  <2>8. QED BY <2>3, <2>7
<1>4. CASE \E m \in DOMAIN acks : acks' = BagRemove(acks, m) /\ data' = data
  <2>1. PICK m \in DOMAIN acks : acks' = BagRemove(acks, m) /\ data' = data
    BY <1>4
  <2>2. Exact'
    BY <1>1, <2>1 DEF Exact
  <2>3. PICK t : Gains(Flying(data, BagRemove(acks, m)), Flying(data, acks), t)
    BY <1>2, AckRemoved
  <2>4. Gains(Flying(data', acks'), Flying(data, acks), t)
    BY <2>1, <2>3
  <2>5. Flying(data, acks) # {}
    BY <2>3 DEF Gains
  <2>6. Budget'
    BY <1>1, <2>4, <2>5, FaultBudget
  <2>7. QED BY <2>2, <2>6
<1>5. QED BY <1>1, <1>3, <1>4

LEMMA DuplicateFrugal ==
  ASSUME IInv, Exact, Budget, Duplicate
  PROVE  Exact' /\ Budget'
<1>1. /\ rcount' = rcount /\ answer' = answer /\ faults' = OneMore
      /\ pc' = pc /\ count' = count /\ len' = len /\ j' = j
      /\ \/ \E m \in DOMAIN data : data' = BagAdd(data, m) /\ acks' = acks
         \/ \E m \in DOMAIN acks : acks' = BagAdd(acks, m) /\ data' = data
  BY DEF Duplicate, server, client
<1>2. IsABag(data) /\ IsABag(acks)
  BY DEF IInv, Types
<1>3. DOMAIN data # {} \/ DOMAIN acks # {}
  BY <1>1
<1>4. Flying(data, acks) # {}
  BY <1>2, <1>3, SomethingFlies
<1>5. CASE \E m \in DOMAIN data : data' = BagAdd(data, m) /\ acks' = acks
  <2>1. PICK m \in DOMAIN data : data' = BagAdd(data, m) /\ acks' = acks
    BY <1>5
  <2>2. DOMAIN data' = DOMAIN data
    <3>1. DOMAIN BagAdd(data, m) = DOMAIN data \cup {m}
      BY <1>2, AddBag
    <3>2. QED BY <2>1, <3>1
  <2>3. Exact'
    BY <1>1, <2>2 DEF Exact
  <2>4. PICK t : Gains(Flying(data, acks), Flying(BagAdd(data, m), acks), t)
    BY <1>2, DataAdded
  <2>5. Gains(Flying(data, acks), Flying(data', acks'), t)
    BY <2>1, <2>4
  <2>6. Budget'
    BY <1>1, <1>4, <2>5, FaultBudget
  <2>7. QED BY <2>3, <2>6
<1>6. CASE \E m \in DOMAIN acks : acks' = BagAdd(acks, m) /\ data' = data
  <2>1. PICK m \in DOMAIN acks : acks' = BagAdd(acks, m) /\ data' = data
    BY <1>6
  <2>2. Exact'
    BY <1>1, <2>1 DEF Exact
  <2>3. PICK t : Gains(Flying(data, acks), Flying(data, BagAdd(acks, m)), t)
    BY <1>2, AckAdded
  <2>4. Gains(Flying(data, acks), Flying(data', acks'), t)
    BY <2>1, <2>3
  <2>5. Budget'
    BY <1>1, <1>4, <2>4, FaultBudget
  <2>6. QED BY <2>2, <2>5
<1>7. QED BY <1>1, <1>5, <1>6

LEMMA NextFrugal == IInv /\ Frugal /\ [Next]_vars => Frugal'
<1> SUFFICES ASSUME IInv, Frugal, [Next]_vars, ackfreq' = 1
             PROVE  Exact' /\ Budget'
  BY DEF Frugal
<1>1. ackfreq' = ackfreq
  BY DEF Next, Tsend, Refuse, Accept, ReadBlock, AckReceived, OtherAck,
         Timeout, BlockReceived, OtherReceived, ErrorReceived,
         ClientTimeout, Lose, Duplicate, Grow, server, vars
<1>2. ackfreq = 1 /\ Exact /\ Budget
  BY <1>1 DEF Frugal
<1>3. CASE Tsend
  BY <1>2, <1>3, RefuseFrugal, AcceptFrugal, ReadBlockFrugal, TimeoutFrugal,
     AckReceivedFrugal, OtherAckFrugal DEF Tsend
<1>4. CASE \E m \in DOMAIN data :
             BlockReceived(m) \/ OtherReceived(m) \/ ErrorReceived(m)
  BY <1>2, <1>4, BlockReceivedFrugal, OtherReceivedFrugal, ErrorReceivedFrugal
<1>5. CASE ClientTimeout
  BY <1>2, <1>5, ClientTimeoutFrugal
<1>6. CASE Lose
  BY <1>2, <1>6, LoseFrugal
<1>7. CASE Duplicate
  BY <1>2, <1>7, DuplicateFrugal
<1>8. CASE Grow
  <2>1. /\ pc' = pc /\ count' = count /\ len' = len /\ j' = j
        /\ rcount' = rcount /\ answer' = answer
        /\ data' = data /\ acks' = acks /\ faults' = faults
    BY <1>8 DEF Grow, server, client
  <2>2. QED BY <1>2, <2>1 DEF Exact, Budget, Thrifty
<1>9. CASE UNCHANGED vars
  <2>1. /\ pc' = pc /\ count' = count /\ len' = len /\ j' = j
        /\ rcount' = rcount /\ answer' = answer
        /\ data' = data /\ acks' = acks /\ faults' = faults
    BY <1>9 DEF vars, server, client
  <2>2. QED BY <1>2, <2>1 DEF Exact, Budget, Thrifty
<1>10. QED BY <1>3, <1>4, <1>5, <1>6, <1>7, <1>8, <1>9 DEF Next

(* A transfer with an acknowledgement for each block is given up only      *)
(* after RETRIES faults, whatever is lost, late or duplicated before: see  *)
(* NotInVain.                                                              *)
THEOREM GivenUpForFaults == Spec => []NotInVain
<1>1. IInv /\ Frugal => NotInVain
  BY RetriesAssumption, SMT DEF IInv, Types, Frugal, Budget, Thrifty, NotInVain
<1>2. QED BY <1>1, InitIInv, NextIInv, FrugalInit, NextFrugal, PTL DEF Spec
=============================================================================
