-------------------------- MODULE TftpUploadProofs --------------------------
(***************************************************************************)
(* Proofs about TftpUpload for any number of uploads, phones, files, file  *)
(* lengths, retries, duplicated datagrams and restarts of tftpd.           *)
(***************************************************************************)
EXTENDS TftpUpload, SequenceTheorems, TLAPS

(* What the steps of a thread and of a transfer rely on: the globals and   *)
(* the files they use have been set before.                                *)
Ready ==
  /\ \A u \in Upload :
       /\ cstate[u] # "idle" => filepath[Phone[u]] \in Names
       /\ cstate[u] \notin {"idle", "path"} => reqbuf[Phone[u]] \in Names
       /\ cstate[u] \in {"wait_wrq", "wait_ack"} => source[u] \in Names
       /\ cstate[u] = "wait_ack" => count[u] # 0
  /\ \A c \in Child :
       /\ sstate[c] \in Active => client[c] \in Upload /\ filename[c] \in Names
       /\ sstate[c] \in Active \ {"forked"} =>
            tmp[filename[c]] \in Seq(Block \cup {Hole})

TypeInv == TypeOK /\ Ready

(* What the network does keeps the types of the datagrams. *)
LEMMA ReceivedType ==
  ASSUME net \subseteq Message, dups \in 0 .. MaxDup,
         NEW m \in net, NEW answers \in SUBSET Message, Received(m, answers)
  PROVE  net' \subseteq Message /\ dups' \in 0 .. MaxDup
BY BoundAssumption DEF Received

LEMMA DataType ==
  ASSUME NEW u \in Upload, NEW port \in Port, NEW k \in Nat \ {0},
         source[u] \in Names
  PROVE  Data(u, port, k) \in Message
BY DEF Data, Message, Block

LEMMA AckType ==
  ASSUME NEW c \in Child, NEW k \in Nat, client[c] \in Upload
  PROVE  Ack(c, k) \in Message
BY DEF Ack, Message

(* A request is for a name, an acknowledgement from a transfer, a block    *)
(* from an upload.                                                         *)
LEMMA MessageType ==
  ASSUME NEW m \in Message
  PROVE  /\ m.type = "WRQ" => m.from \in Upload /\ m.name \in Names
         /\ m.type = "ACK" => m.from \in Child /\ m.num \in Nat
         /\ m.type = "DATA" => m.from \in Upload /\ m.block \in Block
BY DEF Message

(* Blocks written at their offsets. *)
LEMMA WrittenType ==
  ASSUME NEW S, Hole \in S, NEW old \in Seq(S), NEW blocks \in Seq(S),
         NEW from
  PROVE  Written(old, blocks, from) \in Seq(S)
<1> DEFINE n == IF Len(old) > Len(blocks) THEN Len(old) ELSE Len(blocks)
           v(i) == IF i > from /\ i <= Len(blocks) THEN blocks[i]
                   ELSE IF i <= Len(old) THEN old[i] ELSE Hole
<1>1. n \in Nat
  OBVIOUS
<1>2. \A i \in 1 .. n : v(i) \in S
  OBVIOUS
<1>3. [i \in 1 .. n |-> v(i)] \in Seq(S)
  <2> HIDE DEF n, v
  <2> QED BY <1>1, <1>2
<1>4. QED BY <1>3 DEF Written

LEMMA FlushType ==
  ASSUME TypeInv, NEW c \in Child, sstate[c] \in Active \ {"forked"}, Flush(c)
  PROVE  /\ tmp' \in Disk
         /\ flushed' \in [Child -> Nat]
         /\ \A n \in Names : tmp[n] \in Seq(Block \cup {Hole})
                             => tmp'[n] \in Seq(Block \cup {Hole})
<1> DEFINE S == Block \cup {Hole}
           f == filename[c]
           new == Written(tmp[f], got[c], flushed[c])
<1>1. f \in Names /\ tmp[f] \in Seq(S)
  BY DEF TypeInv, Ready
<1>2. got[c] \in Seq(S) /\ Len(got[c]) \in Nat
  <2>1. got[c] \in Seq(Block)
    BY DEF TypeInv, TypeOK
  <2>2. QED BY <2>1
<1>3. new \in Seq(S)
  BY <1>1, <1>2, WrittenType
<1>4. tmp' = [tmp EXCEPT ![f] = new] /\ flushed' = [flushed EXCEPT ![c] = Len(got[c])]
  BY DEF Flush
<1> HIDE DEF new, f, S
<1>5. tmp' \in Disk /\ flushed' \in [Child -> Nat]
  BY <1>1, <1>2, <1>3, <1>4 DEF TypeInv, TypeOK, Disk, S
<1>6. QED BY <1>1, <1>3, <1>4, <1>5 DEF TypeInv, TypeOK, Disk, S

(* The inductive invariant holds initially. *)
LEMMA TypeInit == Init => TypeInv
<1> SUFFICES ASSUME Init PROVE TypeInv
  OBVIOUS
<1>1. /\ filepath \in [Phones -> Names \cup {Nobody}]
      /\ reqbuf \in [Phones -> Names \cup {Nobody}]
      /\ cstate \in [Upload -> ClientState]
      /\ source \in [Upload -> Names \cup {Nobody}]
      /\ count \in [Upload -> Nat]
      /\ ctries \in [Upload -> 0 .. RETRIES - 1]
      /\ server_tid \in [Upload -> Port]
  BY RetriesAssumption DEF Init, ClientState, Port
<1>2. /\ sstate \in [Child -> ChildState]
      /\ client \in [Child -> Upload \cup {Nobody}]
      /\ filename \in [Child -> Names \cup {Nobody}]
      /\ got \in [Child -> Seq(Block)]
      /\ flushed \in [Child -> Nat]
      /\ stries \in [Child -> 0 .. RETRIES - 1]
  BY RetriesAssumption DEF Init, ChildState
<1>3. /\ errno_again \in BOOLEAN
      /\ tmp \in Disk /\ realtmp \in Disk /\ real \in Disk
      /\ net \subseteq Message
      /\ dups \in 0 .. MaxDup
      /\ kills \in 0 .. MaxKill
  <2>1. 0 \in 0 .. MaxDup /\ 0 \in 0 .. MaxKill
    BY BoundAssumption
  <2>2. [n \in Names |-> Nobody] \in Disk
    BY DEF Disk
  <2>3. QED BY <2>1, <2>2 DEF Init
<1>4. Ready
  BY DEF Init, Ready, Active
<1>5. QED BY <1>1, <1>2, <1>3, <1>4 DEF TypeInv, TypeOK

(* A step of a thread keeps it. *)
LEMMA ClientType ==
  ASSUME TypeInv, NEW u \in Upload, ClientStep(u)
  PROVE  TypeInv'
<1> DEFINE p == Phone[u]
<1>0. p \in Phones /\ Name[u] \in Names /\ 0 \in 0 .. RETRIES - 1
  BY RetriesAssumption DEF Phones, Names
<1>1. CASE SetPath(u)
  <2>1. TypeOK'
    BY <1>0, <1>1 DEF SetPath, TypeInv, TypeOK, ClientState, childvars, diskvars
  <2>2. Ready'
    BY <1>0, <1>1 DEF SetPath, TypeInv, TypeOK, Ready, Phones, childvars, diskvars
  <2>3. QED BY <2>1, <2>2 DEF TypeInv
<1>2. CASE MakeRequest(u)
  <2>1. TypeOK'
    BY <1>0, <1>2 DEF MakeRequest, TypeInv, TypeOK, ClientState, childvars, diskvars
  <2>2. Ready'
    BY <1>0, <1>2 DEF MakeRequest, TypeInv, TypeOK, Ready, Phones, childvars, diskvars
  <2>3. QED BY <2>1, <2>2 DEF TypeInv
<1>3. CASE SendRequest(u)
  <2>1. [type |-> "WRQ", from |-> u, name |-> reqbuf[p]] \in Message
    BY <1>3 DEF SendRequest, TypeInv, Ready, Message
  <2>2. net' \subseteq Message /\ dups' = dups
    BY <1>3, <2>1 DEF SendRequest, Send, TypeInv, TypeOK
  <2>3. TypeOK'
    BY <1>3, <2>2 DEF SendRequest, TypeInv, TypeOK, ClientState, childvars, diskvars
  <2>4. Ready'
    BY <1>3 DEF SendRequest, TypeInv, TypeOK, Ready, childvars, diskvars
  <2>5. QED BY <2>3, <2>4 DEF TypeInv
<1>4. CASE OpenSource(u)
  <2>1. filepath[p] \in Names
    BY <1>4 DEF OpenSource, TypeInv, Ready
  <2>2. TypeOK'
    BY <1>4, <2>1 DEF OpenSource, TypeInv, TypeOK, ClientState, childvars, diskvars
  <2>3. Ready'
    BY <1>4, <2>1 DEF OpenSource, TypeInv, TypeOK, Ready, childvars, diskvars
  <2>4. QED BY <2>2, <2>3 DEF TypeInv
<1>5. ASSUME NEW m \in net, WrqAnswered(u, m) PROVE TypeInv'
  <2>1. m.from \in Port /\ Data(u, m.from, 1) \in Message
    <3>1. m.from \in Port
      BY <1>5, MessageType DEF WrqAnswered, TypeInv, TypeOK, Port
    <3>2. QED BY <1>5, <3>1, DataType DEF WrqAnswered, TypeInv, Ready
  <2>2. net' \subseteq Message /\ dups' \in 0 .. MaxDup
    BY <1>5, <2>1, ReceivedType DEF WrqAnswered, TypeInv, TypeOK
  <2>3. TypeOK'
    BY <1>5, <2>1, <2>2
       DEF WrqAnswered, TypeInv, TypeOK, ClientState, childvars, diskvars
  <2>4. Ready'
    BY <1>5 DEF WrqAnswered, TypeInv, TypeOK, Ready, childvars, diskvars
  <2>5. QED BY <2>3, <2>4 DEF TypeInv
<1>6. CASE WrqTimeout(u)
  <2>1. CASE cstate' = [cstate EXCEPT ![u] = "aborted"]
             /\ UNCHANGED <<server_tid, net, dups>>
    <3>1. TypeOK'
      BY <1>6, <2>1
         DEF WrqTimeout, TypeInv, TypeOK, ClientState, childvars, diskvars
    <3>2. Ready'
      BY <1>6, <2>1 DEF WrqTimeout, TypeInv, TypeOK, Ready, childvars, diskvars
    <3>3. QED BY <3>1, <3>2 DEF TypeInv
  <2>2. ASSUME NEW port \in Port,
               cstate' = [cstate EXCEPT ![u] = "wait_ack"],
               server_tid' = [server_tid EXCEPT ![u] = port],
               Send(Data(u, port, 1))
        PROVE  TypeInv'
    <3>1. Data(u, port, 1) \in Message
      BY <1>6, DataType DEF WrqTimeout, TypeInv, Ready
    <3>2. net' \subseteq Message /\ dups' = dups
      BY <2>2, <3>1 DEF Send, TypeInv, TypeOK
    <3>3. TypeOK'
      BY <1>6, <2>2, <3>2
         DEF WrqTimeout, TypeInv, TypeOK, ClientState, childvars, diskvars
    <3>4. Ready'
      BY <1>6, <2>2 DEF WrqTimeout, TypeInv, TypeOK, Ready, childvars, diskvars
    <3>5. QED BY <3>3, <3>4 DEF TypeInv
  <2>3. QED BY <1>6, <2>1, <2>2 DEF WrqTimeout
<1>7. ASSUME NEW m \in net, BlockAcked(u, m) PROVE TypeInv'
  <2>1. CASE count[u] = LastBlock[source[u]]
    <3>1. net' \subseteq Message /\ dups' \in 0 .. MaxDup
      BY <1>7, <2>1, ReceivedType DEF BlockAcked, TypeInv, TypeOK
    <3>2. TypeOK'
      BY <1>7, <2>1, <3>1
         DEF BlockAcked, TypeInv, TypeOK, ClientState, childvars, diskvars
    <3>3. Ready'
      BY <1>7, <2>1 DEF BlockAcked, TypeInv, TypeOK, Ready, childvars, diskvars
    <3>4. QED BY <3>2, <3>3 DEF TypeInv
  <2>2. CASE count[u] # LastBlock[source[u]]
    <3>1. count[u] + 1 \in Nat \ {0} /\ server_tid[u] \in Port
      BY DEF TypeInv, TypeOK
    <3>2. Data(u, server_tid[u], count[u] + 1) \in Message
      BY <1>7, <3>1, DataType DEF BlockAcked, TypeInv, Ready
    <3>3. net' \subseteq Message /\ dups' \in 0 .. MaxDup
      BY <1>7, <2>2, <3>2, ReceivedType DEF BlockAcked, TypeInv, TypeOK
    <3>4. TypeOK'
      BY <1>0, <1>7, <2>2, <3>1, <3>3
         DEF BlockAcked, TypeInv, TypeOK, childvars, diskvars
    <3>5. Ready'
      BY <1>7, <2>2, <3>1
         DEF BlockAcked, TypeInv, TypeOK, Ready, childvars, diskvars
    <3>6. QED BY <3>4, <3>5 DEF TypeInv
  <2>3. QED BY <2>1, <2>2
<1>8. ASSUME cstate[u] = "wait_ack", GiveUpOrWait(u)
      PROVE  /\ cstate' \in [Upload -> ClientState]
             /\ ctries' \in [Upload -> 0 .. RETRIES - 1]
             /\ \/ cstate' = cstate
                \/ cstate' = [cstate EXCEPT ![u] = "aborted"]
  <2>1. ctries[u] + 1 # RETRIES => ctries[u] + 1 \in 0 .. RETRIES - 1
    BY RetriesAssumption DEF TypeInv, TypeOK
  <2>2. QED BY <1>8, <2>1 DEF GiveUpOrWait, TypeInv, TypeOK, ClientState
<1>9. cstate[u] = "wait_ack" => Data(u, server_tid[u], count[u]) \in Message
  <2>1. SUFFICES ASSUME cstate[u] = "wait_ack"
                 PROVE  Data(u, server_tid[u], count[u]) \in Message
    OBVIOUS
  <2>2. count[u] \in Nat \ {0} /\ server_tid[u] \in Port
        /\ source[u] \in Names
    BY <2>1 DEF TypeInv, TypeOK, Ready
  <2>3. QED BY <2>2, DataType
<1>10. ASSUME NEW m \in net, OtherAck(u, m) PROVE TypeInv'
  <2>1. net' \subseteq Message /\ dups' \in 0 .. MaxDup
    BY <1>9, <1>10, ReceivedType DEF OtherAck, TypeInv, TypeOK
  <2>2. TypeOK'
    BY <1>8, <1>10, <2>1 DEF OtherAck, TypeInv, TypeOK, childvars, diskvars
  <2>3. Ready'
    BY <1>8, <1>10 DEF OtherAck, TypeInv, TypeOK, Ready, childvars, diskvars
  <2>4. QED BY <2>2, <2>3 DEF TypeInv
<1>11. CASE AckTimeout(u)
  <2>1. net' \subseteq Message /\ dups' = dups
    BY <1>9, <1>11 DEF AckTimeout, Send, TypeInv, TypeOK
  <2>2. TypeOK'
    BY <1>8, <1>11, <2>1 DEF AckTimeout, TypeInv, TypeOK, childvars, diskvars
  <2>3. Ready'
    BY <1>8, <1>11 DEF AckTimeout, TypeInv, TypeOK, Ready, childvars, diskvars
  <2>4. QED BY <2>2, <2>3 DEF TypeInv
<1>12. QED
  BY <1>1, <1>2, <1>3, <1>4, <1>5, <1>6, <1>7, <1>10, <1>11 DEF ClientStep

(* A step of a transfer keeps it. *)
LEMMA ChildType ==
  ASSUME TypeInv, NEW c \in Child, ChildStep(c)
  PROVE  TypeInv'
<1> DEFINE f == filename[c]
<1>0. 0 \in 0 .. RETRIES - 1
  BY RetriesAssumption
<1>1. CASE TgetOpen(c)
  <2>1. f \in Names /\ client[c] \in Upload
    BY <1>1 DEF TgetOpen, TypeInv, Ready, Active
  <2>2. net' \subseteq Message /\ dups' = dups
    BY <1>1, <2>1, AckType DEF TgetOpen, Send, TypeInv, TypeOK
  <2>3. tmp' \in Disk /\ tmp'[f] = <<>> /\ \A n \in Names \ {f} : tmp'[n] = tmp[n]
    BY <1>1, <2>1 DEF TgetOpen, TypeInv, TypeOK, Disk
  <2>4. TypeOK'
    BY <1>1, <2>2, <2>3
       DEF TgetOpen, TypeInv, TypeOK, ChildState, Active, phonevars
  <2>5. \A n \in Names : tmp[n] \in Seq(Block \cup {Hole})
                         => tmp'[n] \in Seq(Block \cup {Hole})
    <3>1. tmp'[f] \in Seq(Block \cup {Hole})
      <4>1. <<>> \in Seq(Block \cup {Hole})
        OBVIOUS
      <4>2. QED BY <2>3, <4>1
    <3>2. QED BY <2>3, <3>1
  <2>6. sstate' = [sstate EXCEPT ![c] = "get"] /\ tmp'[f] \in Seq(Block \cup {Hole})
    <3>1. <<>> \in Seq(Block \cup {Hole})
      OBVIOUS
    <3>2. sstate' = [sstate EXCEPT ![c] = "get"]
      BY <1>1 DEF TgetOpen
    <3>3. QED BY <2>3, <3>1, <3>2
  <2>7. Ready'
    <3>1. UNCHANGED <<phonevars, client, filename>> /\ sstate \in [Child -> ChildState]
      BY <1>1 DEF TgetOpen, TypeInv, TypeOK
    <3>2. \A d \in Child : sstate'[d] \in Active =>
            client'[d] \in Upload /\ filename'[d] \in Names
      BY <1>1, <2>6, <3>1 DEF TgetOpen, TypeInv, Ready, Active
    <3>3. \A d \in Child : sstate'[d] \in Active \ {"forked"} =>
            tmp'[filename'[d]] \in Seq(Block \cup {Hole})
      <4>1. SUFFICES ASSUME NEW d \in Child, sstate'[d] \in Active \ {"forked"}
                     PROVE  tmp'[filename[d]] \in Seq(Block \cup {Hole})
        BY <3>1
      <4>2. CASE d = c
        BY <2>6, <4>2
      <4>3. CASE d # c
        BY <2>5, <2>6, <3>1, <4>1, <4>3 DEF TypeInv, Ready
      <4>4. QED BY <4>2, <4>3
    <3>4. QED BY <3>1, <3>2, <3>3 DEF TypeInv, Ready, phonevars
  <2>8. QED BY <2>4, <2>7 DEF TypeInv
<1>2. CASE BufferFull(c)
  <2>1. /\ tmp' \in Disk
        /\ flushed' \in [Child -> Nat]
        /\ \A n \in Names : tmp[n] \in Seq(Block \cup {Hole})
                            => tmp'[n] \in Seq(Block \cup {Hole})
    BY <1>2, FlushType DEF BufferFull, Active
  <2>2. TypeOK'
    BY <1>2, <2>1 DEF BufferFull, TypeInv, TypeOK, phonevars
  <2>3. Ready'
    BY <1>2, <2>1 DEF BufferFull, TypeInv, TypeOK, Ready, Active, phonevars
  <2>4. QED BY <2>2, <2>3 DEF TypeInv
<1>3. ASSUME sstate[c] = "get", AbortOrWait(c)
      PROVE  /\ sstate' \in [Child -> ChildState]
             /\ stries' \in [Child -> 0 .. RETRIES - 1]
             /\ tmp' \in Disk
             /\ flushed' \in [Child -> Nat]
             /\ \A n \in Names : tmp[n] \in Seq(Block \cup {Hole})
                                 => tmp'[n] \in Seq(Block \cup {Hole})
             /\ \A d \in Child : sstate'[d] \in Active => sstate[d] = sstate'[d]
  <2>1. CASE stries[c] + 1 = RETRIES
    <3>1. PICK s \in {"reaped", "ended"} : sstate' = [sstate EXCEPT ![c] = s]
      BY <1>3, <2>1 DEF AbortOrWait
    <3>2. Flush(c) /\ stries' = stries
      BY <1>3, <2>1 DEF AbortOrWait
    <3>3. /\ tmp' \in Disk
          /\ flushed' \in [Child -> Nat]
          /\ \A n \in Names : tmp[n] \in Seq(Block \cup {Hole})
                              => tmp'[n] \in Seq(Block \cup {Hole})
      BY <1>3, <3>2, FlushType DEF Active
    <3>4. /\ sstate' \in [Child -> ChildState]
          /\ \A d \in Child : sstate'[d] \in Active => sstate[d] = sstate'[d]
      <4>1. sstate \in [Child -> ChildState]
        BY DEF TypeInv, TypeOK
      <4>2. s \in ChildState /\ s \notin Active
        BY DEF ChildState, Active
      <4>3. QED BY <3>1, <4>1, <4>2
    <3>5. stries' \in [Child -> 0 .. RETRIES - 1]
      BY <3>2 DEF TypeInv, TypeOK
    <3>6. QED BY <3>3, <3>4, <3>5
  <2>2. CASE stries[c] + 1 # RETRIES
    <3>1. stries[c] + 1 \in 0 .. RETRIES - 1
      <4>1. stries[c] \in 0 .. RETRIES - 1 /\ RETRIES \in Nat
        BY RetriesAssumption DEF TypeInv, TypeOK
      <4>2. QED BY <2>2, <4>1
    <3>2. QED BY <1>3, <2>2, <3>1 DEF AbortOrWait, TypeInv, TypeOK
  <2>3. QED BY <2>1, <2>2
<1>4. sstate[c] = "get" =>
        /\ Ack(c, Len(got[c])) \in Message
        /\ Ack(c, Expected(c)) \in Message
  <2>1. SUFFICES ASSUME sstate[c] = "get"
                 PROVE  /\ Ack(c, Len(got[c])) \in Message
                        /\ Ack(c, Expected(c)) \in Message
    OBVIOUS
  <2>2. client[c] \in Upload
    BY <2>1 DEF TypeInv, Ready, Active
  <2>3. Len(got[c]) \in Nat /\ Expected(c) \in Nat
    <3>1. got[c] \in Seq(Block)
      BY DEF TypeInv, TypeOK
    <3>2. QED BY <3>1 DEF Expected
  <2>4. QED BY <2>2, <2>3, AckType
<1>5. CASE DataTimeout(c)
  <2>1. net' \subseteq Message /\ dups' = dups
    BY <1>4, <1>5 DEF DataTimeout, Send, TypeInv, TypeOK
  <2>2. TypeOK'
    BY <1>3, <1>5, <2>1 DEF DataTimeout, TypeInv, TypeOK, phonevars
  <2>3. Ready'
    BY <1>3, <1>5 DEF DataTimeout, TypeInv, TypeOK, Ready, Active, phonevars
  <2>4. QED BY <2>2, <2>3 DEF TypeInv
<1>6. CASE Close(c)
  <2>1. /\ tmp' \in Disk
        /\ flushed' \in [Child -> Nat]
        /\ \A n \in Names : tmp[n] \in Seq(Block \cup {Hole})
                            => tmp'[n] \in Seq(Block \cup {Hole})
    BY <1>6, FlushType DEF Close, Active
  <2>2. TypeOK'
    BY <1>6, <2>1 DEF Close, TypeInv, TypeOK, ChildState, Active, phonevars
  <2>3. Ready'
    BY <1>6, <2>1 DEF Close, TypeInv, TypeOK, Ready, Active, phonevars
  <2>4. QED BY <2>2, <2>3 DEF TypeInv
<1>7. CASE CopyTmp(c)
  <2>1. f \in Names /\ tmp[f] \in Seq(Block \cup {Hole})
    BY <1>7 DEF CopyTmp, TypeInv, Ready, Active
  <2>2. realtmp' \in Disk
    BY <1>7, <2>1 DEF CopyTmp, TypeInv, TypeOK, Disk
  <2>3. TypeOK'
    BY <1>7, <2>2 DEF CopyTmp, TypeInv, TypeOK, ChildState, Active, phonevars
  <2>4. Ready'
    BY <1>7 DEF CopyTmp, TypeInv, TypeOK, Ready, Active, phonevars
  <2>5. QED BY <2>3, <2>4 DEF TypeInv
<1>8. CASE Rename(c)
  <2>1. real' \in Disk /\ realtmp' \in Disk
    <3>1. f \in Names
      BY <1>8 DEF Rename, TypeInv, Ready, Active
    <3>2. QED BY <1>8, <3>1 DEF Rename, TypeInv, TypeOK, Disk
  <2>2. PICK s \in {"reaped", "ended"} : sstate' = [sstate EXCEPT ![c] = s]
    BY <1>8 DEF Rename
  <2>3. TypeOK'
    BY <1>8, <2>1, <2>2 DEF Rename, TypeInv, TypeOK, ChildState, phonevars
  <2>4. Ready'
    BY <1>8, <2>2 DEF Rename, TypeInv, TypeOK, Ready, Active, phonevars
  <2>5. QED BY <2>3, <2>4 DEF TypeInv
<1>9. ASSUME NEW m \in net, BlockReceived(c, m) PROVE TypeInv'
  <2>1. net' \subseteq Message /\ dups' \in 0 .. MaxDup
    BY <1>4, <1>9, ReceivedType DEF BlockReceived, TypeInv, TypeOK
  <2>2. m.block \in Block
    BY <1>9, MessageType DEF BlockReceived, TypeInv, TypeOK
  <2>3. got' \in [Child -> Seq(Block)]
    BY <1>9, <2>2 DEF BlockReceived, TypeInv, TypeOK
  <2>4. PICK s \in {"close", "get"} : sstate' = [sstate EXCEPT ![c] = s]
    BY <1>9 DEF BlockReceived
  <2>5. stries' \in [Child -> 0 .. RETRIES - 1]
    BY <1>0, <1>9 DEF BlockReceived, TypeInv, TypeOK
  <2>6. TypeOK'
    BY <1>9, <2>1, <2>3, <2>4, <2>5
       DEF BlockReceived, TypeInv, TypeOK, ChildState, Active, phonevars, diskvars
  <2>7. Ready'
    BY <1>9, <2>4
       DEF BlockReceived, TypeInv, TypeOK, Ready, Active, phonevars, diskvars
  <2>8. QED BY <2>6, <2>7 DEF TypeInv
<1>10. ASSUME NEW m \in net, OtherBlock(c, m) PROVE TypeInv'
  <2>1. net' \subseteq Message /\ dups' \in 0 .. MaxDup
    BY <1>4, <1>10, ReceivedType DEF OtherBlock, TypeInv, TypeOK
  <2>2. TypeOK'
    BY <1>3, <1>10, <2>1 DEF OtherBlock, TypeInv, TypeOK, phonevars
  <2>3. Ready'
    BY <1>3, <1>10 DEF OtherBlock, TypeInv, TypeOK, Ready, Active, phonevars
  <2>4. QED BY <2>2, <2>3 DEF TypeInv
<1>11. ASSUME NEW m \in net, Stranger(c, m) PROVE TypeInv'
  <2>1. net' \subseteq Message /\ dups' \in 0 .. MaxDup
    BY <1>11, ReceivedType DEF Stranger, TypeInv, TypeOK
  <2>2. QED
    BY <1>11, <2>1
       DEF Stranger, TypeInv, TypeOK, Ready, phonevars, childvars, diskvars
<1>12. QED
  BY <1>1, <1>2, <1>5, <1>6, <1>7, <1>8, <1>9, <1>10, <1>11 DEF ChildStep

(* What reaping does to the transfers. *)
LEMMA ReapedType ==
  ASSUME TypeInv, NEW states \in Reaped
  PROVE  /\ states \in [Child -> ChildState]
         /\ \A d \in Child : states[d] # "reaped" => states[d] = sstate[d]
BY DEF Reaped, TypeInv, TypeOK, ChildState

(* A turn of main's loop keeps the types. *)
LEMMA DaemonType ==
  ASSUME TypeInv, DaemonStep
  PROVE  TypeInv'
<1>1. CASE NothingReceived
  <2>1. /\ sstate' \in [Child -> ChildState]
        /\ \A d \in Child : sstate'[d] # "reaped" => sstate'[d] = sstate[d]
    BY <1>1, ReapedType DEF NothingReceived
  <2>2. TypeOK'
    BY <1>1, <2>1 DEF NothingReceived, TypeInv, TypeOK, phonevars, diskvars
  <2>3. Ready'
    BY <1>1, <2>1
       DEF NothingReceived, TypeInv, Ready, Active, phonevars, diskvars
  <2>4. QED BY <2>2, <2>3 DEF TypeInv
<1>2. ASSUME NEW m \in net, RequestForgotten(m) PROVE TypeInv'
  <2>1. /\ sstate' \in [Child -> ChildState]
        /\ \A d \in Child : sstate'[d] # "reaped" => sstate'[d] = sstate[d]
    BY <1>2, ReapedType DEF RequestForgotten
  <2>2. net' \subseteq Message /\ dups' \in 0 .. MaxDup
    BY <1>2, ReceivedType DEF RequestForgotten, TypeInv, TypeOK
  <2>3. TypeOK'
    BY <1>2, <2>1, <2>2
       DEF RequestForgotten, TypeInv, TypeOK, phonevars, diskvars
  <2>4. Ready'
    BY <1>2, <2>1
       DEF RequestForgotten, TypeInv, Ready, Active, phonevars, diskvars
  <2>5. QED BY <2>3, <2>4 DEF TypeInv
<1>3. ASSUME NEW m \in net, NEW c \in Child, RequestAccepted(m, c)
      PROVE  TypeInv'
  <2>1. PICK states \in Reaped : sstate' = [states EXCEPT ![c] = "forked"]
    BY <1>3 DEF RequestAccepted
  <2>2. /\ states \in [Child -> ChildState]
        /\ \A d \in Child : states[d] # "reaped" => states[d] = sstate[d]
    BY ReapedType
  <2>3. m.from \in Upload /\ m.name \in Names
    BY <1>3, MessageType DEF RequestAccepted, TypeInv, TypeOK
  <2>4. net' \subseteq Message /\ dups' \in 0 .. MaxDup
    BY <1>3, ReceivedType DEF RequestAccepted, TypeInv, TypeOK
  <2>5. sstate' \in [Child -> ChildState]
    BY <2>1, <2>2 DEF ChildState, Active
  <2>6. TypeOK'
    BY <1>3, <2>3, <2>4, <2>5
       DEF RequestAccepted, TypeInv, TypeOK, phonevars, diskvars
  <2>7. \A u \in Upload :
          /\ cstate'[u] # "idle" => filepath'[Phone[u]] \in Names
          /\ cstate'[u] \notin {"idle", "path"} => reqbuf'[Phone[u]] \in Names
          /\ cstate'[u] \in {"wait_wrq", "wait_ack"} => source'[u] \in Names
          /\ cstate'[u] = "wait_ack" => count'[u] # 0
    BY <1>3 DEF RequestAccepted, TypeInv, Ready, phonevars
  <2>8. ASSUME NEW d \in Child, sstate'[d] \in Active
        PROVE  /\ client'[d] \in Upload /\ filename'[d] \in Names
               /\ sstate'[d] # "forked" => tmp'[filename'[d]]
                                               \in Seq(Block \cup {Hole})
    <3>1. CASE d = c
      BY <1>3, <2>1, <2>2, <2>3, <3>1 DEF RequestAccepted, TypeInv, TypeOK
    <3>2. CASE d # c
      <4>1. sstate[d] = sstate'[d]
        BY <2>1, <2>2, <2>8, <3>2 DEF Active
      <4>2. client'[d] = client[d] /\ filename'[d] = filename[d] /\ tmp' = tmp
        BY <1>3, <3>2 DEF RequestAccepted, TypeInv, TypeOK, diskvars
      <4>3. QED BY <2>8, <4>1, <4>2 DEF TypeInv, Ready
    <3>3. QED BY <3>1, <3>2
  <2>9. Ready'
    BY <2>7, <2>8 DEF Ready
  <2>10. QED BY <2>6, <2>9 DEF TypeInv
<1>4. QED BY <1>1, <1>2, <1>3 DEF DaemonStep

LEMMA TypeStep == TypeInv /\ [Next]_vars => TypeInv'
<1> SUFFICES ASSUME TypeInv, [Next]_vars PROVE TypeInv'
  OBVIOUS
<1>1. CASE Kill
  <2>1. kills' \in 0 .. MaxKill
    BY <1>1, BoundAssumption DEF Kill, TypeInv, TypeOK
  <2>2. /\ sstate' \in [Child -> ChildState]
        /\ \A d \in Child : sstate'[d] # "reaped" => sstate'[d] = sstate[d]
    BY <1>1 DEF Kill, TypeInv, TypeOK, ChildState
  <2>3. TypeOK'
    BY <1>1, <2>1, <2>2 DEF Kill, TypeInv, TypeOK, phonevars, diskvars
  <2>4. Ready'
    BY <1>1, <2>2 DEF Kill, TypeInv, Ready, Active, phonevars, diskvars
  <2>5. QED BY <2>3, <2>4 DEF TypeInv
<1>2. CASE UNCHANGED vars
  BY <1>2 DEF vars, TypeInv, TypeOK, Ready, phonevars, childvars, diskvars
<1>3. QED BY <1>1, <1>2, ClientType, ChildType, DaemonType DEF Next

(* Every variable keeps its type, and no step uses a global, a file or a   *)
(* peer that was never set.                                                *)
THEOREM TypeCorrect == Spec => []TypeOK
<1>1. Init => TypeInv
  BY TypeInit
<1>2. TypeInv /\ [Next]_vars => TypeInv'
  BY TypeStep
<1>3. TypeInv => TypeOK
  BY DEF TypeInv
<1>4. QED BY <1>1, <1>2, <1>3, PTL DEF Spec

-----------------------------------------------------------------------------
(* What a transfer has received.  A phone shares one thread at a time, and *)
(* then every block that gets past the check of its address is one of the  *)
(* file the transfer was asked for.                                        *)
OneThreadPerPhone == \A u, v \in Upload : Phone[u] = Phone[v] => u = v

(* The first k blocks of a file.                                           *)
Prefix(n, k) == [i \in 1 .. k |-> [file |-> n, num |-> i]]

Asked(u) ==
  /\ filepath[Phone[u]] \in {Nobody, Name[u]}
  /\ reqbuf[Phone[u]] \in {Nobody, Name[u]}
  /\ cstate[u] \in {"wait_wrq", "wait_ack", "sent"} => source[u] = Name[u]

Carries(m) ==
  /\ m.type = "WRQ" => m.name = Name[m.from]
  /\ m.type = "DATA" => m.block.file = Name[m.from]
  /\ m.type = "ACK" => /\ sstate[m.from] # "free" /\ client[m.from] = m.to
                       /\ m.num <= Len(got[m.from])

(* What a thread sends.                                                    *)
Honest(m) ==
  \/ m.type = "WRQ" /\ m.name = Name[m.from]
  \/ m.type = "DATA" /\ m.block.file = Name[m.from]

Collects(c) ==
  /\ sstate[c] \in {"free", "forked"} => got[c] = <<>> /\ flushed[c] = 0
  /\ sstate[c] # "free" => /\ client[c] \in Upload
                           /\ filename[c] = Name[client[c]]
                           /\ Len(got[c]) <= LastBlock[filename[c]]
  /\ got[c] = Prefix(filename[c], Len(got[c]))
  /\ flushed[c] <= Len(got[c])
  /\ sstate[c] = "get" => Len(got[c]) # LastBlock[filename[c]]
  /\ sstate[c] \in {"close", "copy", "rename"} =>
       Len(got[c]) = LastBlock[filename[c]]

UploadInv ==
  /\ \A u \in Upload : Asked(u)
  /\ \A m \in net : Carries(m)
  /\ \A c \in Child : Collects(c)
  /\ SentIsReceived

LEMMA PrefixFacts ==
  ASSUME NEW n, NEW k \in Nat
  PROVE  /\ Len(Prefix(n, k)) = k
         /\ Append(Prefix(n, k), [file |-> n, num |-> k + 1]) = Prefix(n, k + 1)
         /\ Prefix(n, 0) = <<>>
<1> DEFINE S == {[file |-> n, num |-> i] : i \in Nat}
<1>1. \A j \in Nat : Prefix(n, j) \in Seq(S) /\ Len(Prefix(n, j)) = j
  BY DEF Prefix
<1>2. \A j \in Nat : \A i \in 1 .. j : Prefix(n, j)[i] = [file |-> n, num |-> i]
  BY DEF Prefix
<1>3. [file |-> n, num |-> k + 1] \in S
  OBVIOUS
<1> HIDE DEF S
<1> DEFINE b == [file |-> n, num |-> k + 1]
           p == Append(Prefix(n, k), b)
<1>4. /\ p \in Seq(S) /\ Len(p) = k + 1 /\ p[k + 1] = b
      /\ \A i \in 1 .. k : p[i] = Prefix(n, k)[i]
  BY <1>1, <1>3, AppendProperties
<1>5. p = Prefix(n, k + 1)
  <2>1. ASSUME NEW i \in 1 .. k + 1 PROVE p[i] = Prefix(n, k + 1)[i]
    <3>1. Prefix(n, k + 1)[i] = [file |-> n, num |-> i]
      BY <1>2
    <3> HIDE DEF p
    <3>2. CASE i = k + 1
      BY <1>4, <3>1, <3>2
    <3>3. CASE i \in 1 .. k
      BY <1>2, <1>4, <3>1, <3>3
    <3>4. QED BY <3>2, <3>3
  <2>2. Prefix(n, k + 1) \in Seq(S) /\ Len(Prefix(n, k + 1)) = k + 1
    BY <1>1
  <2> HIDE DEF p
  <2>3. QED BY <1>4, <2>1, <2>2, SeqEqual
<1>6. Prefix(n, 0) = <<>>
  BY <1>1, EmptySeq
<1>7. QED BY <1>1, <1>5, <1>6

LEMMA FileFacts ==
  ASSUME NEW u \in Upload
  PROVE  /\ File(Name[u]) = Prefix(Name[u], LastBlock[Name[u]])
         /\ LastBlock[Name[u]] \in Nat \ {0}
         /\ Len(File(Name[u])) = LastBlock[Name[u]]
<1>1. LastBlock[Name[u]] \in Nat \ {0}
  BY FileAssumption DEF Names
<1>2. File(Name[u]) = Prefix(Name[u], LastBlock[Name[u]])
  BY DEF File, Prefix
<1>3. QED BY <1>1, <1>2, PrefixFacts

LEMMA WrittenPrefix ==
  ASSUME NEW n, NEW j \in Nat, NEW k \in Nat, j <= k
  PROVE  Written(Prefix(n, j), Prefix(n, k), j) = Prefix(n, k)
<1>1. Len(Prefix(n, j)) = j /\ Len(Prefix(n, k)) = k
  BY PrefixFacts
<1>2. QED BY <1>1 DEF Written, Prefix

(* The steps of a thread: the transfers stay as they are.                  *)
LEMMA CarriedKept ==
  ASSUME TypeInv, UploadInv, NEW m \in net,
         \A c \in Child :
           sstate[c] # "free" =>
             /\ sstate'[c] # "free" /\ client'[c] = client[c]
             /\ Len(got[c]) <= Len(got'[c]) /\ Len(got'[c]) \in Nat
  PROVE  Carries(m)'
<1>1. Carries(m) /\ m \in Message
  BY DEF UploadInv, TypeInv, TypeOK
<1>2. m.type = "ACK" => m.from \in Child /\ m.num \in Nat
  BY <1>1, MessageType
<1>3. \A c \in Child : Len(got[c]) \in Nat
  BY DEF TypeInv, TypeOK
<1>4. QED BY <1>1, <1>2, <1>3 DEF Carries

LEMMA ThreadStep ==
  ASSUME TypeInv, UploadInv, UNCHANGED childvars,
         \A m \in net' : m \in net \/ Honest(m),
         \A u \in Upload : Asked(u)',
         \A u \in Upload :
           cstate'[u] = "sent" =>
             /\ source'[u] = source[u]
             /\ \/ cstate[u] = "sent"
                \/ \E c \in Child : client[c] = u /\ got[c] = File(source[u])
  PROVE  UploadInv'
<1>1. UNCHANGED <<sstate, client, filename, got, flushed>>
  BY DEF childvars
<1>2. \A c \in Child : Len(got[c]) \in Nat
  BY DEF TypeInv, TypeOK
<1>3. ASSUME NEW m \in net' PROVE Carries(m)'
  <2>1. CASE m \in net
    BY <1>1, <1>2, <2>1, CarriedKept
  <2>2. CASE Honest(m)
    BY <2>2 DEF Honest, Carries
  <2>3. QED BY <2>1, <2>2
<1>4. \A c \in Child : Collects(c)'
  BY <1>1 DEF UploadInv, Collects
<1>5. SentIsReceived'
  BY <1>1 DEF UploadInv, SentIsReceived
<1>6. QED BY <1>3, <1>4, <1>5 DEF UploadInv

(* Of another thread nothing changes, its globals included.                *)
LEMMA AskedKept ==
  ASSUME OneThreadPerPhone, TypeInv, UploadInv, NEW u \in Upload,
         /\ filepath' = filepath
            \/ filepath' = [filepath EXCEPT ![Phone[u]] = Name[u]]
         /\ reqbuf' = reqbuf \/ reqbuf' = [reqbuf EXCEPT ![Phone[u]] = Name[u]],
         \A v \in Upload \ {u} : cstate'[v] = cstate[v] /\ source'[v] = source[v],
         cstate'[u] \in {"wait_wrq", "wait_ack", "sent"} => source'[u] = Name[u]
  PROVE  \A v \in Upload : Asked(v)'
<1>1. Phone[u] \in Phones /\ \A v \in Upload : Phone[v] \in Phones
  BY DEF Phones
<1>2. ASSUME NEW v \in Upload
      PROVE  /\ filepath'[Phone[v]] \in {Nobody, Name[v]}
             /\ reqbuf'[Phone[v]] \in {Nobody, Name[v]}
  <2>1. Asked(v) /\ (Phone[v] = Phone[u] => v = u)
    BY DEF UploadInv, OneThreadPerPhone
  <2>2. filepath'[Phone[v]] \in {filepath[Phone[v]], Name[v]}
    BY <1>1, <2>1 DEF TypeInv, TypeOK
  <2>3. reqbuf'[Phone[v]] \in {reqbuf[Phone[v]], Name[v]}
    BY <1>1, <2>1 DEF TypeInv, TypeOK
  <2>4. QED BY <2>1, <2>2, <2>3 DEF Asked
<1>3. ASSUME NEW v \in Upload,
             cstate'[v] \in {"wait_wrq", "wait_ack", "sent"}
      PROVE  source'[v] = Name[v]
  BY <1>3 DEF UploadInv, Asked
<1>4. QED BY <1>2, <1>3 DEF Asked

LEMMA DataHonest ==
  ASSUME NEW u \in Upload, source[u] = Name[u], NEW port, NEW k
  PROVE  Honest(Data(u, port, k))
BY DEF Data, Honest

LEMMA ClientUpload ==
  ASSUME OneThreadPerPhone, TypeInv, TypeInv', UploadInv,
         NEW u \in Upload, ClientStep(u)
  PROVE  UploadInv'
<1>0. Asked(u) /\ cstate \in [Upload -> ClientState]
      /\ source \in [Upload -> Names \cup {Nobody}]
  BY DEF UploadInv, TypeInv, TypeOK
<1>1. UNCHANGED childvars
  BY DEF ClientStep, SetPath, MakeRequest, SendRequest, OpenSource,
       WrqTimeout, AckTimeout, WrqAnswered, BlockAcked, OtherAck
<1>2. ASSUME UNCHANGED <<filepath, reqbuf, source>>,
             NEW st, cstate' = cstate \/ cstate' = [cstate EXCEPT ![u] = st],
             cstate[u] \in {"wait_wrq", "wait_ack"}, st # "sent",
             \A d \in net' : d \in net \/ Honest(d)
      PROVE  UploadInv'
  <2>1. \A v \in Upload : Asked(v)'
    BY <1>0, <1>2, AskedKept DEF Asked
  <2>2. QED BY <1>0, <1>1, <1>2, <2>1, ThreadStep
<1>3. CASE SetPath(u)
  <2>1. /\ cstate' = [cstate EXCEPT ![u] = "path"]
        /\ filepath' = [filepath EXCEPT ![Phone[u]] = Name[u]]
        /\ UNCHANGED <<reqbuf, source, net>>
    BY <1>3 DEF SetPath
  <2>2. \A v \in Upload : Asked(v)'
    BY <1>0, <2>1, AskedKept
  <2>3. QED BY <1>0, <1>1, <2>1, <2>2, ThreadStep
<1>4. CASE MakeRequest(u)
  <2>1. /\ cstate' = [cstate EXCEPT ![u] = "packet"]
        /\ reqbuf' = [reqbuf EXCEPT ![Phone[u]] = Name[u]]
        /\ UNCHANGED <<filepath, source, net>>
    BY <1>4 DEF MakeRequest
  <2>2. \A v \in Upload : Asked(v)'
    BY <1>0, <2>1, AskedKept
  <2>3. QED BY <1>0, <1>1, <2>1, <2>2, ThreadStep
<1>5. CASE SendRequest(u)
  <2> DEFINE m == [type |-> "WRQ", from |-> u, name |-> reqbuf[Phone[u]]]
  <2>1. /\ cstate' = [cstate EXCEPT ![u] = "requested"]
        /\ net' = net \cup {m} /\ UNCHANGED <<filepath, reqbuf, source>>
    BY <1>5 DEF SendRequest, Send
  <2>2. reqbuf[Phone[u]] = Name[u]
    BY <1>0, <1>5, NobodyAssumption
    DEF SendRequest, Asked, TypeInv, Ready
  <2>3. Honest(m)
    BY <2>2 DEF Honest
  <2>4. \A v \in Upload : Asked(v)'
    BY <1>0, <2>1, AskedKept
  <2> HIDE DEF m
  <2>5. QED BY <1>0, <1>1, <2>1, <2>3, <2>4, ThreadStep
<1>6. CASE OpenSource(u)
  <2>1. /\ cstate' = [cstate EXCEPT ![u] = "wait_wrq"]
        /\ source' = [source EXCEPT ![u] = filepath[Phone[u]]]
        /\ UNCHANGED <<filepath, reqbuf, net>>
    BY <1>6 DEF OpenSource
  <2>2. filepath[Phone[u]] = Name[u]
    BY <1>0, <1>6, NobodyAssumption
    DEF OpenSource, Asked, TypeInv, Ready
  <2>3. \A v \in Upload : Asked(v)'
    BY <1>0, <2>1, <2>2, AskedKept
  <2>4. QED BY <1>0, <1>1, <2>1, <2>3, ThreadStep
<1>7. ASSUME NEW m \in net, WrqAnswered(u, m) PROVE UploadInv'
  <2>1. /\ cstate[u] = "wait_wrq" /\ cstate' = [cstate EXCEPT ![u] = "wait_ack"]
        /\ net' \subseteq net \cup {Data(u, m.from, 1)}
        /\ UNCHANGED <<filepath, reqbuf, source>>
    BY <1>7 DEF WrqAnswered, Received
  <2>2. Honest(Data(u, m.from, 1))
    BY <1>0, <2>1, DataHonest DEF Asked
  <2>3. QED BY <1>2, <2>1, <2>2
<1>8. CASE WrqTimeout(u)
  <2>1. cstate[u] = "wait_wrq" /\ UNCHANGED <<filepath, reqbuf, source>>
    BY <1>8 DEF WrqTimeout
  <2>2. CASE cstate' = [cstate EXCEPT ![u] = "aborted"] /\ net' = net
    BY <1>2, <2>1, <2>2
  <2>3. ASSUME NEW port \in Port, cstate' = [cstate EXCEPT ![u] = "wait_ack"],
               net' = net \cup {Data(u, port, 1)}
        PROVE  UploadInv'
    <3>1. Honest(Data(u, port, 1))
      BY <1>0, <2>1, DataHonest DEF Asked
    <3>2. QED BY <1>2, <2>1, <2>3, <3>1
  <2>4. QED BY <1>8, <2>2, <2>3 DEF WrqTimeout, Send
<1>9. \A port, k : cstate[u] = "wait_ack" => Honest(Data(u, port, k))
  BY <1>0, DataHonest DEF Asked
<1>10. CASE AckTimeout(u) \/ \E m \in net : OtherAck(u, m)
  <2>1. /\ cstate[u] = "wait_ack" /\ UNCHANGED <<filepath, reqbuf, source>>
        /\ cstate' = cstate \/ cstate' = [cstate EXCEPT ![u] = "aborted"]
        /\ net' \subseteq net \cup {Data(u, server_tid[u], count[u])}
    BY <1>10 DEF AckTimeout, OtherAck, GiveUpOrWait, Send, Received
  <2>2. Honest(Data(u, server_tid[u], count[u]))
    BY <1>9, <2>1
  <2>3. QED BY <1>2, <2>1, <2>2
<1>11. ASSUME NEW m \in net, BlockAcked(u, m) PROVE UploadInv'
  <2>1. /\ cstate[u] = "wait_ack" /\ UNCHANGED <<filepath, reqbuf, source>>
        /\ m.type = "ACK" /\ m.to = u /\ m.num = count[u]
    BY <1>11 DEF BlockAcked
  <2>2. CASE count[u] # LastBlock[source[u]]
    <3>1. /\ cstate' = cstate
          /\ net' \subseteq net \cup {Data(u, server_tid[u], count[u] + 1)}
      BY <1>11, <2>2 DEF BlockAcked, Received
    <3>2. Honest(Data(u, server_tid[u], count[u] + 1))
      BY <1>9, <2>1
    <3>3. QED BY <1>2, <2>1, <3>1, <3>2
  <2>3. CASE count[u] = LastBlock[source[u]]
    <3>1. cstate' = [cstate EXCEPT ![u] = "sent"] /\ net' \subseteq net
      BY <1>11, <2>3 DEF BlockAcked, Received
    <3>2. Carries(m) /\ m.from \in Child
      BY <2>1, MessageType DEF UploadInv, TypeInv, TypeOK
    <3> DEFINE c == m.from
    <3>3. /\ sstate[c] # "free" /\ client[c] = u /\ source[u] = Name[u]
          /\ LastBlock[source[u]] <= Len(got[c]) /\ Collects(c)
      BY <1>0, <2>1, <2>3, <3>2 DEF Carries, Asked, UploadInv
    <3>4. Len(got[c]) \in Nat /\ LastBlock[source[u]] \in Nat
      <4>1. Name[u] \in Names /\ got[c] \in Seq(Block)
        BY <3>2 DEF Names, TypeInv, TypeOK
      <4>2. QED BY <3>3, <4>1, FileAssumption
    <3>5. got[c] = Prefix(source[u], LastBlock[source[u]])
      BY <3>3, <3>4 DEF Collects
    <3>6. got[c] = File(source[u])
      BY <3>5 DEF Prefix, File
    <3>7. \A v \in Upload : Asked(v)'
      BY <1>0, <2>1, <3>1, AskedKept DEF Asked
    <3>8. QED BY <1>0, <1>1, <2>1, <3>1, <3>2, <3>3, <3>6, <3>7, ThreadStep
  <2>4. QED BY <2>2, <2>3
<1>12. QED
  BY <1>3, <1>4, <1>5, <1>6, <1>7, <1>8, <1>10, <1>11 DEF ClientStep

(* A step of the transfer c.                                               *)
LEMMA TransferStep ==
  ASSUME TypeInv, TypeInv', UploadInv, NEW c \in Child, UNCHANGED phonevars,
         sstate[c] # "free", sstate'[c] # "free",
         UNCHANGED <<client, filename>>,
         \A d \in Child \ {c} : /\ sstate'[d] = sstate[d] /\ got'[d] = got[d]
                                /\ flushed'[d] = flushed[d],
         Collects(c)',
         \/ got'[c] = got[c]
         \/ sstate[c] = "get" /\ Len(got[c]) <= Len(got'[c]),
         \A m \in net' : \/ m \in net
                         \/ \E k \in 0 .. Len(got'[c]) : m = Ack(c, k)
  PROVE  UploadInv'
<1>1. UNCHANGED <<filepath, reqbuf, cstate, source>>
  BY DEF phonevars
<1>2. \A d \in Child : /\ got[d] \in Seq(Block) /\ Len(got[d]) \in Nat
                       /\ Len(got'[d]) \in Nat
  BY DEF TypeInv, TypeOK
<1>3. ASSUME NEW m \in net' PROVE Carries(m)'
  <2>1. CASE m \in net
    BY <1>2, <2>1, CarriedKept
  <2>2. CASE \E k \in 0 .. Len(got'[c]) : m = Ack(c, k)
    BY <2>2 DEF Ack, Carries
  <2>3. QED BY <2>1, <2>2
<1>4. \A u \in Upload : Asked(u)'
  BY <1>1 DEF UploadInv, Asked
<1>5. \A d \in Child : Collects(d)'
  BY DEF UploadInv, Collects
<1>6. ASSUME NEW u \in Upload, cstate'[u] = "sent"
      PROVE  \E d \in Child : client'[d] = u /\ got'[d] = File(source'[u])
  <2>1. PICK d \in Child : client[d] = u /\ got[d] = File(source[u])
    BY <1>1, <1>6 DEF UploadInv, SentIsReceived
  <2>2. CASE d # c \/ got'[c] = got[c]
    BY <1>1, <2>1, <2>2
  <2>3. CASE d = c /\ sstate[c] = "get"
    <3>1. filename[c] = Name[u] /\ Len(got[c]) # LastBlock[Name[u]]
      BY <2>1, <2>3 DEF UploadInv, Collects
    <3>2. source[u] = Name[u]
      BY <1>1, <1>6 DEF UploadInv, Asked
    <3>3. Len(File(Name[u])) = LastBlock[Name[u]]
      BY FileFacts
    <3>4. QED BY <2>1, <2>3, <3>1, <3>2, <3>3
  <2>4. QED BY <2>2, <2>3
<1>7. QED BY <1>3, <1>4, <1>5, <1>6 DEF UploadInv, SentIsReceived

(* Only transfers end, by themselves or killed.                            *)
LEMMA EndedStep ==
  ASSUME TypeInv, TypeInv', UploadInv, net' \subseteq net,
         UNCHANGED <<phonevars, client, filename, got, flushed>>,
         \A d \in Child : \/ sstate'[d] = sstate[d]
                          \/ sstate[d] # "free" /\ sstate'[d] = "reaped"
  PROVE  UploadInv'
<1>1. UNCHANGED <<filepath, reqbuf, cstate, source>>
  BY DEF phonevars
<1>2. \A d \in Child : Len(got[d]) \in Nat
  BY DEF TypeInv, TypeOK
<1>3. \A m \in net' : Carries(m)'
  BY <1>2, CarriedKept
<1>4. \A u \in Upload : Asked(u)'
  BY <1>1 DEF UploadInv, Asked
<1>5. \A d \in Child : Collects(d)'
  BY DEF UploadInv, Collects
<1>6. SentIsReceived'
  BY <1>1 DEF UploadInv, SentIsReceived
<1>7. QED BY <1>3, <1>4, <1>5, <1>6 DEF UploadInv

(* Turns of main's loop and restarts that take no request.                 *)
LEMMA Reaping ==
  ASSUME TypeInv, \/ NothingReceived \/ Kill
                  \/ \E m \in net : RequestForgotten(m)
  PROVE  /\ net' \subseteq net
         /\ UNCHANGED <<phonevars, client, filename, got, flushed, diskvars>>
         /\ \A d \in Child : \/ sstate'[d] = sstate[d]
                             \/ sstate[d] # "free" /\ sstate'[d] = "reaped"
<1>1. \A states \in Reaped : \A d \in Child :
        \/ states[d] = sstate[d]
        \/ sstate[d] # "free" /\ states[d] = "reaped"
  BY DEF Reaped, TypeInv, TypeOK, ChildState
<1>2. CASE NothingReceived
  BY <1>1, <1>2 DEF NothingReceived
<1>3. CASE Kill
  BY <1>3 DEF Kill, Kids, Active
<1>4. CASE \E m \in net : RequestForgotten(m)
  BY <1>1, <1>4 DEF RequestForgotten, Received
<1>5. QED BY <1>2, <1>3, <1>4

(* Of a transfer that starts, everything is known.                         *)
LEMMA Accepting ==
  ASSUME TypeInv, UploadInv, NEW m \in net, NEW c \in Child,
         RequestAccepted(m, c)
  PROVE  /\ UNCHANGED <<phonevars, got, flushed, diskvars>>
         /\ net' \subseteq net
         /\ sstate[c] = "free" /\ sstate'[c] = "forked"
         /\ m.type = "WRQ" /\ m.from \in Upload /\ m.name = Name[m.from]
         /\ client'[c] = m.from /\ filename'[c] = m.name
         /\ got[c] = <<>> /\ flushed[c] = 0
         /\ \A d \in Child \ {c} :
              /\ client'[d] = client[d] /\ filename'[d] = filename[d]
              /\ \/ sstate'[d] = sstate[d]
                 \/ sstate[d] = "ended" /\ sstate'[d] = "reaped"
<1>1. ASSUME NEW states \in Reaped
      PROVE  /\ states \in [Child -> ChildState]
             /\ \A d \in Child :
                  \/ states[d] = sstate[d]
                  \/ sstate[d] = "ended" /\ states[d] = "reaped"
  BY DEF Reaped, TypeInv, TypeOK, ChildState
<1>2. PICK states \in Reaped : sstate' = [states EXCEPT ![c] = "forked"]
  BY DEF RequestAccepted
<1>3. /\ sstate[c] = "free" /\ sstate'[c] = "forked"
      /\ \A d \in Child \ {c} :
           \/ sstate'[d] = sstate[d]
           \/ sstate[d] = "ended" /\ sstate'[d] = "reaped"
  BY <1>1, <1>2 DEF RequestAccepted
<1>4. /\ UNCHANGED <<phonevars, got, flushed, diskvars>>
      /\ net' \subseteq net
      /\ client'[c] = m.from /\ filename'[c] = m.name
      /\ \A d \in Child \ {c} :
           client'[d] = client[d] /\ filename'[d] = filename[d]
  BY DEF RequestAccepted, Received, TypeInv, TypeOK
<1>5. m.type = "WRQ" /\ m.from \in Upload /\ m.name = Name[m.from]
  BY MessageType DEF RequestAccepted, UploadInv, Carries, TypeInv, TypeOK
<1>6. got[c] = <<>> /\ flushed[c] = 0
  BY <1>3 DEF UploadInv, Collects
<1>7. QED BY <1>3, <1>4, <1>5, <1>6

LEMMA DaemonUpload ==
  ASSUME TypeInv, TypeInv', UploadInv, DaemonStep \/ Kill
  PROVE  UploadInv'
<1>1. CASE NothingReceived \/ Kill \/ \E m \in net : RequestForgotten(m)
  BY <1>1, Reaping, EndedStep
<1>2. ASSUME NEW m \in net, NEW c \in Child, RequestAccepted(m, c)
      PROVE  UploadInv'
  <2>1. /\ UNCHANGED <<filepath, reqbuf, cstate, source, got, flushed>>
        /\ net' \subseteq net
        /\ sstate[c] = "free" /\ sstate'[c] = "forked"
        /\ m.from \in Upload /\ m.name = Name[m.from]
        /\ client'[c] = m.from /\ filename'[c] = m.name
        /\ got[c] = <<>> /\ flushed[c] = 0
        /\ \A d \in Child \ {c} :
             /\ client'[d] = client[d] /\ filename'[d] = filename[d]
             /\ \/ sstate'[d] = sstate[d]
                \/ sstate[d] = "ended" /\ sstate'[d] = "reaped"
    BY <1>2, Accepting DEF phonevars
  <2>2. ASSUME NEW d \in net' PROVE Carries(d)'
    <3>1. \A e \in Child : Len(got[e]) \in Nat
      BY DEF TypeInv, TypeOK
    <3>2. \A e \in Child : sstate[e] # "free" =>
                             sstate'[e] # "free" /\ client'[e] = client[e]
      BY <2>1
    <3>3. QED BY <2>1, <2>2, <3>1, <3>2, CarriedKept
  <2>3. \A u \in Upload : Asked(u)'
    BY <2>1 DEF UploadInv, Asked
  <2>4. ASSUME NEW d \in Child PROVE Collects(d)'
    <3>1. CASE d # c
      BY <2>1, <3>1 DEF UploadInv, Collects
    <3>2. CASE d = c
      <4>1. LastBlock[m.name] \in Nat \ {0}
        BY <2>1, FileFacts
      <4>2. Len(got[c]) = 0 /\ <<>> = Prefix(m.name, 0)
        BY <2>1, PrefixFacts
      <4>3. QED BY <2>1, <3>2, <4>1, <4>2 DEF Collects
    <3>3. QED BY <3>1, <3>2
  <2>5. ASSUME NEW u \in Upload, cstate'[u] = "sent"
        PROVE  \E d \in Child : client'[d] = u /\ got'[d] = File(source'[u])
    <3>1. PICK d \in Child : client[d] = u /\ got[d] = File(source[u])
      BY <2>1, <2>5 DEF UploadInv, SentIsReceived
    <3>2. d # c
      <4>1. source[u] = Name[u] /\ Len(got[c]) = 0
        BY <2>1, <2>5 DEF UploadInv, Asked
      <4>2. Len(File(Name[u])) # 0
        BY FileFacts
      <4>3. QED BY <3>1, <4>1, <4>2
    <3>3. QED BY <2>1, <3>1, <3>2
  <2>6. QED BY <2>2, <2>3, <2>4, <2>5 DEF UploadInv, SentIsReceived
<1>3. QED BY <1>1, <1>2 DEF DaemonStep

LEMMA ChildUpload ==
  ASSUME OneThreadPerPhone, TypeInv, TypeInv', UploadInv,
         NEW c \in Child, ChildStep(c)
  PROVE  UploadInv'
<1>1. /\ UNCHANGED <<phonevars, client, filename>>
      /\ sstate[c] \notin {"free", "ended", "reaped"}
  BY DEF ChildStep, TgetOpen, BufferFull, DataTimeout, Close, CopyTmp, Rename,
         BlockReceived, OtherBlock, Stranger, childvars
<1>2. /\ Collects(c) /\ got[c] \in Seq(Block) /\ Len(got[c]) \in Nat
      /\ flushed[c] \in Nat
      /\ sstate \in [Child -> ChildState] /\ flushed \in [Child -> Nat]
      /\ got \in [Child -> Seq(Block)]
  BY DEF UploadInv, TypeInv, TypeOK
<1>3. ASSUME got' = got,
             sstate' = sstate \/ \E st : sstate' = [sstate EXCEPT ![c] = st],
             \/ UNCHANGED flushed
             \/ /\ flushed' = [flushed EXCEPT ![c] = Len(got[c])]
                /\ sstate[c] # "forked",
             \/ sstate'[c] = sstate[c]
             \/ sstate'[c] = "get" /\ sstate[c] = "forked"
             \/ sstate'[c] \in {"ended", "reaped"}
             \/ /\ sstate'[c] \in {"close", "copy", "rename"}
                /\ sstate[c] \in {"close", "copy", "rename"},
             \A m \in net' : \/ m \in net
                             \/ \E k \in 0 .. Len(got'[c]) : m = Ack(c, k)
      PROVE  UploadInv'
  <2>1. \A d \in Child \ {c} : sstate'[d] = sstate[d]
    BY <1>2, <1>3
  <2>2. \A d \in Child \ {c} : flushed'[d] = flushed[d]
    BY <1>2, <1>3
  <2>3. /\ sstate'[c] # "free"
        /\ flushed'[c] \in {flushed[c], Len(got[c])}
        /\ sstate'[c] = "forked" => flushed'[c] = flushed[c]
    BY <1>1, <1>2, <1>3
  <2>4. Collects(c)'
    <3>1. sstate[c] = "forked" => LastBlock[filename[c]] # 0 /\ Len(got[c]) = 0
      <4>1. client[c] \in Upload /\ filename[c] = Name[client[c]]
        BY <1>1, <1>2 DEF Collects
      <4>2. QED BY <1>2, <4>1, FileAssumption DEF Collects, Names
    <3>2. QED BY <1>1, <1>2, <1>3, <2>3, <3>1 DEF Collects
  <2>5. QED BY <1>1, <1>3, <2>1, <2>2, <2>3, <2>4, TransferStep
<1>4. \A k \in 0 .. Len(got[c]) : TRUE /\ 0 \in 0 .. Len(got[c])
                                       /\ Len(got[c]) \in 0 .. Len(got[c])
  BY <1>2
<1>5. CASE TgetOpen(c)
  <2>1. got' = got /\ flushed' = flushed
        /\ sstate' = [sstate EXCEPT ![c] = "get"] /\ sstate[c] = "forked"
        /\ net' = net \cup {Ack(c, 0)}
    BY <1>5 DEF TgetOpen, Send
  <2>2. sstate'[c] = "get" /\ 0 \in 0 .. Len(got'[c])
    BY <1>2, <2>1
  <2>3. QED BY <1>3, <2>1, <2>2
<1>6. CASE BufferFull(c)
  <2>1. /\ got' = got /\ flushed' = [flushed EXCEPT ![c] = Len(got[c])]
        /\ sstate' = sstate /\ sstate[c] = "get" /\ net' = net
    BY <1>6 DEF BufferFull, Flush
  <2>2. QED BY <1>3, <2>1
<1>7. CASE \/ DataTimeout(c)
           \/ \E m \in net : OtherBlock(c, m) \/ Stranger(c, m)
  <2>1. /\ got' = got /\ sstate[c] = "get"
        /\ \/ UNCHANGED flushed
           \/ flushed' = [flushed EXCEPT ![c] = Len(got[c])]
        /\ sstate' \in {sstate, [sstate EXCEPT ![c] = "reaped"],
                        [sstate EXCEPT ![c] = "ended"]}
        /\ \A m \in net' : m \in net \/ m = Ack(c, Len(got[c]))
    BY <1>7 DEF DataTimeout, OtherBlock, Stranger, AbortOrWait, Flush, Send,
                Received, childvars
  <2>2. sstate'[c] \in {sstate[c], "ended", "reaped"}
    BY <1>2, <2>1
  <2>3. Len(got'[c]) \in 0 .. Len(got'[c])
    BY <1>2, <2>1
  <2>4. \E st : sstate' = sstate \/ sstate' = [sstate EXCEPT ![c] = st]
    BY <2>1
  <2>5. QED BY <1>3, <2>1, <2>2, <2>3, <2>4
<1>8. CASE Close(c)
  <2>1. /\ got' = got /\ flushed' = [flushed EXCEPT ![c] = Len(got[c])]
        /\ sstate' = [sstate EXCEPT ![c] = "copy"] /\ sstate[c] = "close"
        /\ net' = net
    BY <1>8 DEF Close, Flush
  <2>2. sstate'[c] = "copy"
    BY <1>2, <2>1
  <2>3. QED BY <1>3, <2>1, <2>2
<1>9. CASE CopyTmp(c)
  <2>1. /\ got' = got /\ flushed' = flushed
        /\ sstate' = [sstate EXCEPT ![c] = "rename"] /\ sstate[c] = "copy"
        /\ net' = net
    BY <1>9 DEF CopyTmp
  <2>2. sstate'[c] = "rename"
    BY <1>2, <2>1
  <2>3. QED BY <1>3, <2>1, <2>2
<1>10. CASE Rename(c)
  <2>1. /\ got' = got /\ flushed' = flushed /\ net' = net
        /\ \E st \in {"ended", "reaped"} : sstate' = [sstate EXCEPT ![c] = st]
    BY <1>10 DEF Rename
  <2>2. sstate'[c] \in {"ended", "reaped"}
    BY <1>2, <2>1
  <2>3. QED BY <1>3, <2>1, <2>2
<1>11. ASSUME NEW m \in net, BlockReceived(c, m) PROVE UploadInv'
  <2> DEFINE n == filename[c]
             k == Len(got[c])
  <2>1. /\ sstate[c] = "get" /\ m.type = "DATA" /\ m.to = c
        /\ Phone[m.from] = Phone[client[c]] /\ m.block.num = k + 1
        /\ got' = [got EXCEPT ![c] = Append(@, m.block)]
        /\ sstate' = [sstate EXCEPT ![c] = IF IsLast(m.block) THEN "close"
                                           ELSE @]
        /\ UNCHANGED flushed
        /\ \A d \in net' : d \in net \/ d = Ack(c, k + 1)
    BY <1>11 DEF BlockReceived, Received, Expected
  <2>2. m.from \in Upload /\ m.block \in Block /\ m.block.file = Name[m.from]
    BY <2>1, MessageType DEF UploadInv, Carries, TypeInv, TypeOK
  <2>3. client[c] \in Upload /\ n = Name[client[c]] /\ k <= LastBlock[n]
        /\ k # LastBlock[n] /\ got[c] = Prefix(n, k) /\ flushed[c] <= k
    BY <1>2, <2>1 DEF Collects
  <2>4. m.block = [file |-> n, num |-> k + 1]
    BY <2>1, <2>2, <2>3 DEF OneThreadPerPhone, Block
  <2>5. /\ got'[c] = Prefix(n, k + 1) /\ Len(got'[c]) = k + 1
    BY <1>2, <2>1, <2>3, <2>4, PrefixFacts
  <2>6. LastBlock[n] \in Nat
    BY <2>3, FileAssumption DEF Names
  <2>7. /\ sstate'[c] \in {"get", "close"}
        /\ sstate'[c] = "get" => k + 1 # LastBlock[n]
        /\ sstate'[c] = "close" => k + 1 = LastBlock[n]
    BY <1>2, <2>1, <2>4 DEF IsLast
  <2>8. Collects(c)'
    <3>1. filename' = filename /\ client' = client /\ flushed' = flushed
      BY <1>1, <2>1
    <3> HIDE DEF n, k
    <3>2. QED BY <1>2, <2>3, <2>5, <2>6, <2>7, <3>1 DEF Collects, n, k
  <2>9. \A d \in Child \ {c} : /\ sstate'[d] = sstate[d] /\ got'[d] = got[d]
                               /\ flushed'[d] = flushed[d]
    BY <1>2, <2>1
  <2>10. k + 1 \in 0 .. Len(got'[c]) /\ Len(got[c]) <= Len(got'[c])
    BY <1>2, <2>5
  <2>11. QED BY <1>1, <2>1, <2>7, <2>8, <2>9, <2>10, TransferStep
<1>12. QED
  BY <1>5, <1>6, <1>7, <1>8, <1>9, <1>10, <1>11 DEF ChildStep

LEMMA UploadStep ==
  ASSUME OneThreadPerPhone, TypeInv, UploadInv, [Next]_vars
  PROVE  UploadInv'
<1>1. TypeInv'
  BY TypeStep
<1>2. CASE UNCHANGED vars
  <2>1. UNCHANGED <<phonevars, client, filename, got, flushed, sstate, net>>
    BY <1>2 DEF vars, childvars
  <2>2. QED BY <1>1, <2>1, EndedStep
<1>3. QED
  BY <1>1, <1>2, ClientUpload, ChildUpload, DaemonUpload DEF Next

LEMMA UploadInit == Init => UploadInv
<1> SUFFICES ASSUME Init PROVE UploadInv
  OBVIOUS
<1>1. \A u \in Upload : Asked(u) /\ cstate[u] # "sent"
  BY DEF Init, Asked, Phones
<1>2. ASSUME NEW c \in Child PROVE Collects(c)
  <2>1. Prefix(Nobody, 0) = <<>> /\ Len(<<>>) = 0
    BY PrefixFacts
  <2>2. QED BY <2>1 DEF Init, Collects
<1>3. QED BY <1>1, <1>2 DEF UploadInv, SentIsReceived, Init

(* When a phone shares one picture at a time and says "File sent           *)
(* successfully", a transfer of its own has every block of it, in order,   *)
(* for any number of phones, blocks, retries, duplicates and crashes.      *)
THEOREM SentIsTrue ==
  ASSUME OneThreadPerPhone
  PROVE  Spec => []SentIsReceived
<1>1. Init => TypeInv /\ UploadInv
  BY TypeInit, UploadInit
<1>2. TypeInv /\ UploadInv /\ [Next]_vars => (TypeInv /\ UploadInv)'
  BY TypeStep, UploadStep
<1>3. TypeInv /\ UploadInv => SentIsReceived
  BY DEF UploadInv
<1>4. QED BY <1>1, <1>2, <1>3, PTL DEF Spec

-----------------------------------------------------------------------------
(* What is on the disks of the router.  Two transfers of one name at once  *)
(* spoil each other's files.  There are none if tftpd does not fork, or if *)
(* every name is uploaded once and no request is duplicated.               *)
Alone ==
  \A c, d \in Child :
    sstate[c] \in Active /\ sstate[d] \in Active /\ filename[c] = filename[d]
      => c = d

OneActive ==
  \A c, d \in Child : sstate[c] \in Active /\ sstate[d] \in Active => c = d

Requested(u) == cstate[u] \notin {"idle", "path", "packet"}
Serves(c, u) == sstate[c] # "free" /\ client[c] = u

Once ==
  /\ \A c, d \in Child : \A u \in Upload : Serves(c, u) /\ Serves(d, u) => c = d
  /\ \A c \in Child : \A u \in Upload : Serves(c, u) => Requested(u)
  /\ \A m \in net : m.type = "WRQ" =>
       Requested(m.from) /\ \A c \in Child : ~Serves(c, m.from)

OneTransferPerName ==
  DEBUG \/ (MaxDup = 0 /\ \A u, v \in Upload : Name[u] = Name[v] => u = v)

AloneInv == (DEBUG => OneActive) /\ (MaxDup = 0 => Once)

Placed(c) ==
  /\ sstate[c] \in {"get", "close"} =>
       tmp[filename[c]] = Prefix(filename[c], flushed[c])
  /\ sstate[c] = "copy" => tmp[filename[c]] = File(filename[c])
  /\ sstate[c] = "rename" => realtmp[filename[c]] = File(filename[c])

DiskInv == (\A c \in Child : Placed(c)) /\ WholeFile

LEMMA AloneFacts ==
  ASSUME OneTransferPerName, UploadInv, AloneInv
  PROVE  Alone
<1>1. CASE DEBUG
  BY <1>1 DEF AloneInv, OneActive, Alone
<1>2. CASE MaxDup = 0 /\ \A u, v \in Upload : Name[u] = Name[v] => u = v
  BY <1>2 DEF AloneInv, Once, Serves, Alone, UploadInv, Collects, Active
<1>3. QED BY <1>1, <1>2 DEF OneTransferPerName

(* What the steps of a transfer leave alone.                               *)
LEMMA TransferFrame ==
  ASSUME TypeInv, NEW c \in Child, ChildStep(c)
  PROVE  /\ UNCHANGED <<phonevars, client, filename>>
         /\ sstate[c] \in Active /\ sstate'[c] # "free"
         /\ \A d \in Child \ {c} :
              sstate'[d] = sstate[d] /\ flushed'[d] = flushed[d]
         /\ \A m \in net' : m \in net \/ m.type = "ACK"
<1>1. /\ UNCHANGED <<phonevars, client, filename>>
      /\ sstate[c] \in Active
      /\ \A m \in net' : m \in net \/ m.type = "ACK"
  BY DEF ChildStep, TgetOpen, BufferFull, DataTimeout, Close, CopyTmp, Rename,
         BlockReceived, OtherBlock, Stranger, childvars, Active, Send, Received,
         Ack
<1>2. \/ UNCHANGED flushed
      \/ \E k : flushed' = [flushed EXCEPT ![c] = k]
  BY DEF ChildStep, TgetOpen, BufferFull, DataTimeout, Close, CopyTmp, Rename,
         BlockReceived, OtherBlock, Stranger, childvars, AbortOrWait, Flush
<1>3. \/ UNCHANGED sstate
      \/ \E s \in Active \cup {"ended", "reaped"} :
           sstate' = [sstate EXCEPT ![c] = s]
  <2>1. CASE \E m \in net : BlockReceived(c, m)
    BY <2>1 DEF BlockReceived, Active
  <2>2. CASE DataTimeout(c) \/ \E m \in net : OtherBlock(c, m)
    BY <2>2 DEF DataTimeout, OtherBlock, AbortOrWait
  <2>3. CASE \/ TgetOpen(c) \/ BufferFull(c) \/ Close(c) \/ CopyTmp(c)
             \/ Rename(c) \/ \E m \in net : Stranger(c, m)
    BY <2>3 DEF TgetOpen, BufferFull, Close, CopyTmp, Rename, Stranger,
                childvars, Active
  <2>4. QED BY <2>1, <2>2, <2>3 DEF ChildStep
<1>4. \A d \in Child \ {c} : sstate'[d] = sstate[d] /\ flushed'[d] = flushed[d]
  BY <1>2, <1>3 DEF TypeInv, TypeOK
<1>5. sstate'[c] # "free"
  BY <1>1, <1>3 DEF TypeInv, TypeOK, Active
<1>6. QED BY <1>1, <1>4, <1>5

(* The network hands over a request once, and the requests of a thread     *)
(* look alike.                                                             *)
LEMMA OneRequest ==
  ASSUME TypeInv, UploadInv, MaxDup = 0, NEW m \in net, NEW c \in Child,
         RequestAccepted(m, c)
  PROVE  \A d \in net' : d \in net /\ (d.type = "WRQ" => d.from # m.from)
<1>1. net' = net \ {m} /\ m.type = "WRQ"
  BY DEF RequestAccepted, Received, TypeInv, TypeOK
<1>2. ASSUME NEW d \in net, d.type = "WRQ", d.from = m.from PROVE d = m
  <2>1. d \in [type : {"WRQ"}, from : Upload, name : Names]
    BY <1>2 DEF TypeInv, TypeOK, Message
  <2>2. m \in [type : {"WRQ"}, from : Upload, name : Names]
    BY <1>1 DEF TypeInv, TypeOK, Message
  <2>3. d.name = m.name
    BY <1>1, <1>2 DEF UploadInv, Carries
  <2>4. QED BY <1>2, <2>1, <2>2, <2>3
<1>3. QED BY <1>1, <1>2

LEMMA AloneStep ==
  ASSUME TypeInv, UploadInv, AloneInv, [Next]_vars
  PROVE  AloneInv'
<1>1. ASSUME NEW u \in Upload, ClientStep(u) PROVE AloneInv'
  <2>1. UNCHANGED <<sstate, client>>
    BY <1>1 DEF ClientStep, SetPath, MakeRequest, SendRequest, OpenSource,
         WrqTimeout, AckTimeout, WrqAnswered, BlockAcked, OtherAck, childvars
  <2>2. \A v \in Upload : Requested(v) => Requested(v)'
    BY <1>1 DEF ClientStep, SetPath, MakeRequest, SendRequest, OpenSource,
         WrqTimeout, AckTimeout, WrqAnswered, BlockAcked, OtherAck, GiveUpOrWait,
         Requested, TypeInv, TypeOK
  <2>3. \A m \in net' : \/ m \in net
                        \/ m.type # "WRQ"
                        \/ m.from = u /\ ~Requested(u) /\ Requested(u)'
    <3>1. CASE SendRequest(u)
      BY <3>1 DEF SendRequest, Send, Requested, TypeInv, TypeOK
    <3>2. CASE SetPath(u) \/ MakeRequest(u) \/ OpenSource(u)
      BY <3>2 DEF SetPath, MakeRequest, OpenSource
    <3>3. CASE \/ WrqTimeout(u) \/ AckTimeout(u)
               \/ \E m \in net : \/ WrqAnswered(u, m) \/ BlockAcked(u, m)
                                 \/ OtherAck(u, m)
      BY <3>3 DEF WrqTimeout, AckTimeout, WrqAnswered, BlockAcked, OtherAck,
                  Send, Received, Data
    <3>4. QED BY <1>1, <3>1, <3>2, <3>3 DEF ClientStep
  <2>4. \A m \in net : m.type = "WRQ" => m.from \in Upload
    BY MessageType DEF TypeInv, TypeOK
  <2>5. QED BY <2>1, <2>2, <2>3, <2>4 DEF AloneInv, OneActive, Once, Serves
<1>2. ASSUME NEW c \in Child, ChildStep(c) PROVE AloneInv'
  <2>1. /\ UNCHANGED <<cstate, client>>
        /\ sstate[c] \in Active /\ sstate'[c] # "free"
        /\ \A d \in Child \ {c} : sstate'[d] = sstate[d]
        /\ \A m \in net' : m \in net \/ m.type = "ACK"
    BY <1>2, TransferFrame DEF phonevars
  <2>2. OneActive => OneActive'
    BY <2>1 DEF OneActive
  <2>3. \A d \in Child : \A u \in Upload : Serves(d, u)' => Serves(d, u)
    BY <2>1 DEF Serves, Active
  <2>4. \A u \in Upload : Requested(u) = Requested(u)'
    BY <2>1 DEF Requested
  <2>5. \A m \in net : m.type = "WRQ" => m.from \in Upload
    BY MessageType DEF TypeInv, TypeOK
  <2>6. QED BY <2>1, <2>2, <2>3, <2>4, <2>5 DEF AloneInv, Once
<1>3. ASSUME NEW m \in net, NEW c \in Child, RequestAccepted(m, c)
      PROVE  AloneInv'
  <2>1. /\ UNCHANGED cstate
        /\ sstate[c] = "free" /\ sstate'[c] = "forked"
        /\ m.type = "WRQ" /\ m.from \in Upload /\ client'[c] = m.from
        /\ \A d \in Child \ {c} :
             /\ client'[d] = client[d]
             /\ \/ sstate'[d] = sstate[d]
                \/ sstate[d] = "ended" /\ sstate'[d] = "reaped"
    BY <1>3, Accepting DEF phonevars
  <2>2. ASSUME DEBUG, OneActive PROVE OneActive'
    <3>1. \A d \in Child : sstate[d] \notin Active
      BY <1>3, <2>2 DEF RequestAccepted, Busy
    <3>2. \A d \in Child \ {c} : sstate'[d] \notin Active
      BY <2>1, <3>1 DEF Active
    <3>3. QED BY <3>2 DEF OneActive
  <2>3. ASSUME MaxDup = 0, Once PROVE Once'
    <3>1. \A d \in net' : d \in net /\ (d.type = "WRQ" => d.from # m.from)
      BY <1>3, <2>3, OneRequest
    <3>2. \A d \in Child \ {c} : \A u \in Upload : Serves(d, u)' = Serves(d, u)
      BY <2>1 DEF Serves
    <3>3. \A u \in Upload : Serves(c, u)' = (u = m.from)
      BY <2>1 DEF Serves
    <3>4. \A u \in Upload : Requested(u)' = Requested(u)
      BY <2>1 DEF Requested
    <3>5. Requested(m.from) /\ \A d \in Child : ~Serves(d, m.from)
      BY <2>1, <2>3 DEF Once
    <3>6. \A d \in net : d.type = "WRQ" => d.from \in Upload
      BY MessageType DEF TypeInv, TypeOK
    <3>7. ASSUME NEW d \in Child, NEW e \in Child, NEW u \in Upload,
                 Serves(d, u)', Serves(e, u)'
          PROVE  d = e
      <4>1. CASE u = m.from
        BY <3>2, <3>5, <3>7, <4>1
      <4>2. CASE u # m.from
        <5>1. d # c /\ e # c
          BY <3>3, <3>7, <4>2
        <5>2. Serves(d, u) /\ Serves(e, u)
          BY <3>2, <3>7, <5>1
        <5>3. QED BY <2>3, <5>2 DEF Once
      <4>3. QED BY <4>1, <4>2
    <3>8. \A d \in Child : \A u \in Upload : Serves(d, u)' => Requested(u)'
      BY <2>3, <3>2, <3>3, <3>4, <3>5 DEF Once
    <3>9. ASSUME NEW d \in net', d.type = "WRQ"
          PROVE  Requested(d.from)' /\ \A e \in Child : ~Serves(e, d.from)'
      <4>1. d \in net /\ d.from # m.from /\ d.from \in Upload
        BY <3>1, <3>6, <3>9
      <4>2. Requested(d.from) /\ \A e \in Child : ~Serves(e, d.from)
        BY <2>3, <3>9, <4>1 DEF Once
      <4>3. QED BY <3>2, <3>3, <3>4, <4>1, <4>2
    <3>10. QED BY <3>7, <3>8, <3>9 DEF Once
  <2>4. QED BY <2>2, <2>3 DEF AloneInv
<1>4. ASSUME net' \subseteq net, UNCHANGED <<cstate, client>>,
             \A d \in Child : \/ sstate'[d] = sstate[d]
                              \/ sstate[d] # "free" /\ sstate'[d] = "reaped"
      PROVE  AloneInv'
  <2>1. \A d \in Child : \A u \in Upload : Serves(d, u)' = Serves(d, u)
    BY <1>4 DEF Serves
  <2>2. \A u \in Upload : Requested(u)' = Requested(u)
    BY <1>4 DEF Requested
  <2>3. \A m \in net : m.type = "WRQ" => m.from \in Upload
    BY MessageType DEF TypeInv, TypeOK
  <2>4. OneActive => OneActive'
    BY <1>4 DEF OneActive, Active
  <2>5. QED BY <1>4, <2>1, <2>2, <2>3, <2>4 DEF AloneInv, Once
<1>5. CASE NothingReceived \/ Kill \/ \E m \in net : RequestForgotten(m)
  BY <1>4, <1>5, Reaping DEF phonevars
<1>6. CASE UNCHANGED vars
  BY <1>4, <1>6 DEF vars, phonevars, childvars
<1>7. QED BY <1>1, <1>2, <1>3, <1>5, <1>6 DEF Next, DaemonStep

(* A step of the transfer c that keeps to the files of its name.           *)
LEMMA DiskStep ==
  ASSUME TypeInv, UploadInv, Alone, DiskInv, NEW c \in Child, ChildStep(c),
         \A n \in Names \ {filename[c]} :
           /\ tmp'[n] = tmp[n] /\ realtmp'[n] = realtmp[n]
           /\ real'[n] = real[n],
         Placed(c)',
         real'[filename[c]] \in {real[filename[c]], File(filename[c])}
  PROVE  DiskInv'
<1>1. /\ filename' = filename /\ sstate[c] \in Active
      /\ \A d \in Child \ {c} :
           sstate'[d] = sstate[d] /\ flushed'[d] = flushed[d]
  BY TransferFrame
<1>2. ASSUME NEW d \in Child, d # c PROVE Placed(d)'
  <2>1. CASE sstate[d] \in Active
    <3>1. filename[d] \in Names /\ filename[d] # filename[c]
      BY <1>1, <1>2, <2>1 DEF Alone, TypeInv, Ready
    <3>2. QED BY <1>1, <1>2, <3>1 DEF DiskInv, Placed
  <2>2. CASE sstate[d] \notin Active
    BY <1>1, <1>2, <2>2 DEF Placed, Active
  <2>3. QED BY <2>1, <2>2
<1>3. WholeFile'
  BY DEF DiskInv, WholeFile
<1>4. QED BY <1>2, <1>3 DEF DiskInv

(* fwrite's buffer goes to the file where the file ends.                   *)
LEMMA FlushFacts ==
  ASSUME TypeInv, UploadInv, DiskInv, NEW c \in Child,
         sstate[c] \in {"get", "close"}, Flush(c)
  PROVE  /\ tmp'[filename[c]] = got[c]
         /\ flushed'[c] = Len(got[c])
         /\ got[c] = Prefix(filename[c], Len(got[c]))
         /\ \A n \in Names \ {filename[c]} : tmp'[n] = tmp[n]
<1>1. /\ filename[c] \in Names /\ Len(got[c]) \in Nat /\ flushed[c] \in Nat
      /\ tmp \in [Names -> {Nobody} \cup Seq(Block \cup {Hole})]
      /\ flushed \in [Child -> Nat]
  BY DEF TypeInv, TypeOK, Ready, Active, Disk
<1>2. /\ got[c] = Prefix(filename[c], Len(got[c])) /\ flushed[c] <= Len(got[c])
      /\ tmp[filename[c]] = Prefix(filename[c], flushed[c])
  BY DEF UploadInv, Collects, DiskInv, Placed
<1>3. Written(tmp[filename[c]], got[c], flushed[c]) = got[c]
  BY <1>1, <1>2, WrittenPrefix
<1>4. QED BY <1>1, <1>2, <1>3 DEF Flush

LEMMA ChildDisk ==
  ASSUME TypeInv, UploadInv, Alone, DiskInv, NEW c \in Child, ChildStep(c)
  PROVE  DiskInv'
<1> DEFINE n == filename[c]
<1>1. /\ filename' = filename /\ n \in Names /\ sstate[c] \in Active
      /\ sstate \in [Child -> ChildState] /\ flushed \in [Child -> Nat]
      /\ tmp \in [Names -> {Nobody} \cup Seq(Block \cup {Hole})]
      /\ realtmp \in [Names -> {Nobody} \cup Seq(Block \cup {Hole})]
      /\ real \in [Names -> {Nobody} \cup Seq(Block \cup {Hole})]
  BY TransferFrame DEF TypeInv, TypeOK, Ready, Disk
<1>2. CASE TgetOpen(c)
  <2>1. /\ sstate[c] = "forked" /\ sstate'[c] = "get"
        /\ tmp' = [tmp EXCEPT ![n] = <<>>]
        /\ UNCHANGED <<flushed, realtmp, real>>
    BY <1>1, <1>2 DEF TgetOpen
  <2>2. flushed[c] = 0 /\ Prefix(n, 0) = <<>>
    BY <2>1, PrefixFacts DEF UploadInv, Collects
  <2>3. Placed(c)'
    BY <1>1, <2>1, <2>2 DEF Placed
  <2>4. QED BY <1>1, <2>1, <2>3, DiskStep
<1>3. CASE BufferFull(c)
  <2>1. /\ sstate[c] = "get" /\ Flush(c) /\ UNCHANGED <<sstate, realtmp, real>>
    BY <1>3 DEF BufferFull
  <2>2. Placed(c)'
    BY <1>1, <2>1, FlushFacts DEF Placed
  <2>3. QED BY <2>1, <2>2, FlushFacts, DiskStep
<1>4. CASE \/ \E m \in net : BlockReceived(c, m) \/ Stranger(c, m)
  <2>1. /\ sstate[c] = "get" /\ sstate'[c] \in {"get", "close"}
        /\ UNCHANGED <<flushed, tmp, realtmp, real>>
    BY <1>1, <1>4 DEF BlockReceived, Stranger, childvars, diskvars
  <2>2. Placed(c)'
    BY <1>1, <2>1 DEF DiskInv, Placed
  <2>3. QED BY <2>1, <2>2, DiskStep
<1>5. CASE DataTimeout(c) \/ \E m \in net : OtherBlock(c, m)
  <2>1. sstate[c] = "get" /\ AbortOrWait(c) /\ UNCHANGED <<realtmp, real>>
    BY <1>5 DEF DataTimeout, OtherBlock
  <2>2. CASE UNCHANGED <<sstate, tmp, flushed>>
    <3>1. Placed(c)'
      BY <1>1, <2>1, <2>2 DEF DiskInv, Placed
    <3>2. QED BY <2>1, <2>2, <3>1, DiskStep
  <2>3. CASE sstate'[c] \in {"ended", "reaped"} /\ Flush(c)
    <3>1. Placed(c)'
      BY <2>3 DEF Placed
    <3>2. QED BY <2>1, <2>3, <3>1, FlushFacts, DiskStep
  <2>4. QED BY <1>1, <2>1, <2>2, <2>3 DEF AbortOrWait
<1>6. CASE Close(c)
  <2>1. /\ sstate[c] = "close" /\ sstate'[c] = "copy" /\ Flush(c)
        /\ UNCHANGED <<realtmp, real>>
    BY <1>1, <1>6 DEF Close
  <2>2. got[c] = File(n)
    <3>1. Len(got[c]) = LastBlock[n]
      BY <2>1 DEF UploadInv, Collects
    <3>2. QED BY <2>1, <3>1, FlushFacts DEF Prefix, File
  <2>3. Placed(c)'
    BY <1>1, <2>1, <2>2, FlushFacts DEF Placed
  <2>4. QED BY <2>1, <2>3, FlushFacts, DiskStep
<1>7. CASE CopyTmp(c)
  <2>1. /\ sstate[c] = "copy" /\ sstate'[c] = "rename"
        /\ realtmp' = [realtmp EXCEPT ![n] = tmp[n]] /\ UNCHANGED <<tmp, real>>
    BY <1>1, <1>7 DEF CopyTmp
  <2>2. Placed(c)'
    BY <1>1, <2>1 DEF DiskInv, Placed
  <2>3. QED BY <1>1, <2>1, <2>2, DiskStep
<1>8. CASE Rename(c)
  <2>1. /\ sstate[c] = "rename" /\ sstate'[c] \in {"ended", "reaped"}
        /\ UNCHANGED tmp
        /\ \/ UNCHANGED <<real, realtmp>>
           \/ /\ real' = [real EXCEPT ![n] = realtmp[n]]
              /\ realtmp' = [realtmp EXCEPT ![n] = Nobody]
    BY <1>1, <1>8 DEF Rename
  <2>2. realtmp[n] = File(n)
    BY <2>1 DEF DiskInv, Placed
  <2>3. Placed(c)'
    BY <2>1 DEF Placed
  <2>4. QED BY <1>1, <2>1, <2>2, <2>3, DiskStep
<1>9. QED
  BY <1>2, <1>3, <1>4, <1>5, <1>6, <1>7, <1>8 DEF ChildStep

LEMMA DiskKept ==
  ASSUME TypeInv, UploadInv, Alone, DiskInv, [Next]_vars
  PROVE  DiskInv'
<1>1. ASSUME UNCHANGED <<tmp, realtmp, real>>,
             \A d \in Child :
               \/ sstate'[d] \in {"forked", "reaped"}
               \/ /\ sstate'[d] = sstate[d] /\ filename'[d] = filename[d]
                  /\ flushed'[d] = flushed[d]
      PROVE  DiskInv'
  BY <1>1 DEF DiskInv, Placed, WholeFile
<1>2. ASSUME NEW u \in Upload, ClientStep(u) PROVE DiskInv'
  <2>1. UNCHANGED <<childvars, diskvars>>
    BY <1>2 DEF ClientStep, SetPath, MakeRequest, SendRequest, OpenSource,
         WrqTimeout, AckTimeout, WrqAnswered, BlockAcked, OtherAck
  <2>2. QED BY <1>1, <2>1 DEF childvars, diskvars
<1>3. ASSUME NEW m \in net, NEW c \in Child, RequestAccepted(m, c)
      PROVE  DiskInv'
  <2>1. /\ UNCHANGED <<flushed, diskvars>> /\ sstate'[c] = "forked"
        /\ \A d \in Child \ {c} :
             /\ filename'[d] = filename[d]
             /\ sstate'[d] = sstate[d] \/ sstate'[d] = "reaped"
    BY <1>3, Accepting
  <2>2. QED BY <1>1, <2>1 DEF diskvars
<1>4. CASE NothingReceived \/ Kill \/ \E m \in net : RequestForgotten(m)
  BY <1>1, <1>4, Reaping DEF diskvars
<1>5. CASE UNCHANGED vars
  BY <1>1, <1>5 DEF vars, childvars, diskvars
<1>6. QED BY <1>2, <1>3, <1>4, <1>5, ChildDisk DEF Next, DaemonStep

(* What fogbox_send finds under a name is nothing or the whole file, for   *)
(* any number of blocks, retries, lost and late datagrams and kills, if no *)
(* two transfers of one name run at once.                                  *)
THEOREM PublishedIsWhole ==
  ASSUME OneThreadPerPhone, OneTransferPerName
  PROVE  Spec => []WholeFile
<1> DEFINE Inv == TypeInv /\ UploadInv /\ AloneInv /\ DiskInv
<1>1. Init => Inv
  <2>1. Init => AloneInv /\ DiskInv
    BY DEF Init, AloneInv, OneActive, Once, Serves, DiskInv, Placed, WholeFile,
           Active
  <2>2. QED BY <2>1, TypeInit, UploadInit
<1>2. Inv /\ [Next]_vars => Inv'
  BY AloneFacts, TypeStep, UploadStep, AloneStep, DiskKept
<1>3. Inv => WholeFile
  BY DEF DiskInv
<1>4. QED BY <1>1, <1>2, <1>3, PTL DEF Spec
=============================================================================
