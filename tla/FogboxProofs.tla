---------------------------- MODULE FogboxProofs ----------------------------
(***************************************************************************)
(* Proofs about Fogbox for any number of routers, pictures, uploads,       *)
(* seconds, kills, crashes and expired bundles.                            *)
(***************************************************************************)
EXTENDS Fogbox, TLAPS

-----------------------------------------------------------------------------
(* What keeps the types: fogbox_send works on files that exist. *)
Found ==
  \A r \in Router : scan[r] \in {"new", "send"} => folder[r][itr[r]] # Missing

TypeInv == TypeOK /\ Found

LEMMA ZeroType == 0 \in Time /\ NoTimes \in [Picture -> Time] /\ 1 \in Time
BY BoundAssumption DEF Time, NoTimes

LEMMA TypeInit == Init => TypeInv
<1> SUFFICES ASSUME Init PROVE TypeInv
  OBVIOUS
<1>1. 0 \in 0 .. MaxKill /\ 0 \in 0 .. MaxLost /\ 0 \in 0 .. MaxVersion
  BY BoundAssumption
<1>2. NoTimes \in [Picture -> 0 .. MaxVersion]
  BY <1>1 DEF NoTimes
<1>3. TypeOK
  BY <1>1, <1>2, ZeroType DEF Init, TypeOK
<1>4. QED BY <1>3 DEF TypeInv, Found, Init

(* A file that was there stays, whatever becomes of its contents. *)
Kept ==
  \A r \in Router, f \in Picture :
    folder[r][f] # Missing => folder'[r][f] # Missing

LEMMA PutType ==
  ASSUME TypeInv, NEW r \in Router, NEW f \in Picture, NEW new \in Contents,
         folder' = [folder EXCEPT ![r][f] = new]
  PROVE  /\ folder' \in [Router -> [Picture -> Contents \cup {Missing}]]
         /\ Kept
<1>1. folder \in [Router -> [Picture -> Contents \cup {Missing}]]
  BY DEF TypeInv, TypeOK
<1>2. new # Missing
  BY MissingAssumption
<1>3. folder' \in [Router -> [Picture -> Contents \cup {Missing}]]
  BY <1>1
<1>4. Kept
  BY <1>1, <1>2 DEF Kept
<1>5. QED BY <1>3, <1>4

LEMMA UploadType ==
  ASSUME TypeInv, NEW r \in Router, NEW f \in Picture, Upload(r, f)
  PROVE  TypeInv' /\ Kept
<1> DEFINE new == [from |-> r, whole |-> TRUE, version |-> uploads[r][f] + 1]
<1>1. uploads[r][f] + 1 \in 1 .. MaxVersion /\ uploads[r][f] + 1 \in 0 .. MaxVersion
  <2>1. uploads[r][f] \in 0 .. MaxVersion /\ uploads[r][f] < MaxVersion
    BY DEF TypeInv, TypeOK, Upload
  <2>2. QED BY <2>1, BoundAssumption
<1>2. new \in Contents
  BY <1>1 DEF Contents
<1>3. folder' = [folder EXCEPT ![r][f] = new]
  BY DEF Upload
<1> HIDE DEF new
<1>4. folder' \in [Router -> [Picture -> Contents \cup {Missing}]]
  BY <1>2, <1>3, PutType
<1>5. Kept
  BY <1>2, <1>3, PutType
<1>6. uploads' \in [Router -> [Picture -> 0 .. MaxVersion]]
  BY <1>1 DEF Upload, TypeInv, TypeOK
<1>7. mtime' \in [Router -> [Picture -> Time]]
  BY DEF Upload, TypeInv, TypeOK
<1>8. TypeOK'
  BY <1>4, <1>6, <1>7 DEF Upload, TypeInv, TypeOK, sendvars, recvvars
<1>9. Found'
  BY <1>5 DEF Upload, TypeInv, TypeOK, Found, Kept, sendvars
<1>10. QED BY <1>5, <1>8, <1>9 DEF TypeInv

(* The steps of fogbox_send, its termination and its restart. *)
LEMMA SendType ==
  ASSUME TypeInv, NEW r \in Router,
         SendStep(r) \/ Start(r) \/ Term(r) \/ Kill(r)
  PROVE  TypeInv' /\ folder' = folder
<1> USE DEF diskvars, sendvars, recvvars
<1>1. CASE StartScan(r)
  BY <1>1 DEF StartScan, TypeInv, TypeOK, Found
<1>2. CASE CheckLock(r)
  <2>1. TypeOK'
    <3>1. lmt_map' \in [Router -> [Picture -> Time]]
      <4>1. /\ lmt_map \in [Router -> [Picture -> Time]]
            /\ itr[r] \in Picture /\ t[r] \in Time
        BY DEF TypeInv, TypeOK
      <4>2. \/ lmt_map' = lmt_map
            \/ lmt_map' = [lmt_map EXCEPT ![r][itr[r]] = t[r]]
        BY <1>2 DEF CheckLock
      <4>3. QED BY <4>1, <4>2
    <3>2. PICK s \in {"scan", "send"} : scan' = [scan EXCEPT ![r] = s]
      BY <1>2 DEF CheckLock
    <3>3. QED BY <1>2, <3>1, <3>2 DEF CheckLock, TypeInv, TypeOK
  <2>2. QED BY <1>2, <2>1 DEF CheckLock, TypeInv, TypeOK, Found
<1>3. CASE SendFile(r)
  <2>1. CASE terminated[r]
    <3>1. TypeOK'
      BY <1>3, <2>1 DEF SendFile, TypeInv, TypeOK
    <3>2. QED BY <1>3, <2>1, <3>1 DEF SendFile, TypeInv, TypeOK, Found
  <2>2. CASE ~terminated[r]
    <3> DEFINE b == [src |-> r, file |-> itr[r], data |-> folder[r][itr[r]]]
    <3>1. b \in Bundle
      BY <1>3 DEF SendFile, TypeInv, TypeOK, Found, Bundle
    <3>2. /\ dtn' = [q \in Router |-> dtn[q] \cup {b}]
          /\ sent' = sent \cup {b}
          /\ scan' = [scan EXCEPT ![r] = "scan"]
      BY <1>3, <2>2 DEF SendFile
    <3> HIDE DEF b
    <3>3. dtn' \in [Router -> SUBSET Bundle] /\ sent' \subseteq Bundle
      BY <3>1, <3>2 DEF TypeInv, TypeOK
    <3>4. TypeOK'
      BY <1>3, <3>2, <3>3 DEF SendFile, TypeInv, TypeOK
    <3>5. QED BY <1>3, <3>2, <3>4 DEF SendFile, TypeInv, TypeOK, Found
  <2>3. QED BY <2>1, <2>2
<1>4. CASE EndScan(r)
  <2>1. TypeOK'
    BY <1>4, ZeroType DEF EndScan, TypeInv, TypeOK
  <2>2. QED BY <1>4, <2>1 DEF EndScan, TypeInv, TypeOK, Found
<1>5. CASE WriteMetadata(r)
  BY <1>5 DEF WriteMetadata, TypeInv, TypeOK, Found
<1>6. ASSUME NEW f \in Picture, OldFile(r, f) PROVE TypeInv' /\ folder' = folder
  BY <1>6 DEF OldFile, TypeInv, TypeOK, Found
<1>7. ASSUME NEW f \in Picture, NewFile(r, f) PROVE TypeInv' /\ folder' = folder
  <2>1. TypeOK'
    BY <1>7 DEF NewFile, TypeInv, TypeOK
  <2>2. QED BY <1>7, <2>1 DEF NewFile, TypeInv, TypeOK, Found
<1>8. CASE Start(r)
  BY <1>8 DEF Start, TypeInv, TypeOK, Found
<1>9. kills \in Nat /\ (kills < MaxKill => kills + 1 \in 0 .. MaxKill)
  BY BoundAssumption DEF TypeInv, TypeOK
<1>10. CASE Term(r)
  BY <1>9, <1>10 DEF Term, TypeInv, TypeOK, Found
<1>11. CASE Kill(r)
  BY <1>9, <1>11 DEF Kill, TypeInv, TypeOK, Found
<1>12. QED
  BY <1>1, <1>2, <1>3, <1>4, <1>5, <1>6, <1>7, <1>8, <1>10, <1>11 DEF SendStep

(* The steps of fogbox_recv, its crash, and the loss of a bundle. *)
LEMMA RecvType ==
  ASSUME TypeInv, NEW r \in Router,
         \/ RecvStep(r) \/ CrashRecv(r)
         \/ \E b \in dtn[r] : Expire(r, b)
  PROVE  TypeInv' /\ Kept
<1> USE DEF diskvars, sendvars, recvvars
<1>1. fetch[r] # "idle" =>
        /\ recvdb[r] \in Bundle /\ recvdb[r].file \in Picture
        /\ recvdb[r].data \in Contents
        /\ [recvdb[r].data EXCEPT !.whole = FALSE] \in Contents
  <2>1. SUFFICES ASSUME fetch[r] # "idle"
                 PROVE  /\ recvdb[r] \in Bundle /\ recvdb[r].file \in Picture
                        /\ recvdb[r].data \in Contents
                        /\ [recvdb[r].data EXCEPT !.whole = FALSE] \in Contents
    OBVIOUS
  <2>2. recvdb[r] \in Bundle
    BY <2>1 DEF TypeInv, TypeOK
  <2>3. recvdb[r].file \in Picture /\ recvdb[r].data \in Contents
    BY <2>2 DEF Bundle
  <2>4. [recvdb[r].data EXCEPT !.whole = FALSE] \in Contents
    BY <2>3 DEF Contents
  <2>5. QED BY <2>2, <2>3, <2>4
<1>2. lost \in Nat /\ (lost < MaxLost => lost + 1 \in 0 .. MaxLost)
  BY BoundAssumption DEF TypeInv, TypeOK
<1>3. ASSUME NEW b \in dtn[r], GetBundle(r, b) PROVE TypeInv' /\ Kept
  <2>1. b \in Bundle /\ b # NoBundle
    BY MissingAssumption DEF TypeInv, TypeOK
  <2>2. TypeOK'
    BY <1>3, <2>1 DEF GetBundle, TypeInv, TypeOK
  <2>3. QED BY <1>3, <2>2 DEF GetBundle, TypeInv, Found, Kept
<1>4. CASE FileExists(r)
  <2>1. TypeOK'
    <3>1. CASE folder[r][recvdb[r].file] # Missing
      BY <1>4, <3>1 DEF FileExists, TypeInv, TypeOK
    <3>2. CASE folder[r][recvdb[r].file] = Missing
      BY <1>4, <3>2 DEF FileExists, TypeInv, TypeOK
    <3>3. QED BY <3>1, <3>2
  <2>2. QED BY <1>4, <2>1 DEF FileExists, TypeInv, Found, Kept
<1>5. CASE CreateLock(r)
  <2>1. TypeOK'
    BY <1>1, <1>5 DEF CreateLock, TypeInv, TypeOK
  <2>2. QED BY <1>5, <2>1 DEF CreateLock, TypeInv, Found, Kept
<1>6. CASE OpenFile(r)
  <2> DEFINE f == recvdb[r].file
             new == [recvdb[r].data EXCEPT !.whole = FALSE]
  <2>1. f \in Picture /\ new \in Contents
    BY <1>1, <1>6 DEF OpenFile
  <2>2. folder' = [folder EXCEPT ![r][f] = new]
        /\ mtime' = [mtime EXCEPT ![r][f] = now]
    BY <1>6 DEF OpenFile
  <2> HIDE DEF f, new
  <2>3. folder' \in [Router -> [Picture -> Contents \cup {Missing}]] /\ Kept
    BY <2>1, <2>2, PutType
  <2>4. mtime' \in [Router -> [Picture -> Time]]
    BY <2>1, <2>2 DEF TypeInv, TypeOK
  <2>5. TypeOK'
    BY <1>6, <2>3, <2>4 DEF OpenFile, TypeInv, TypeOK
  <2>6. QED BY <1>6, <2>3, <2>5 DEF OpenFile, TypeInv, TypeOK, Found, Kept
<1>7. CASE WriteFile(r)
  <2> DEFINE f == recvdb[r].file
             new == recvdb[r].data
  <2>1. f \in Picture /\ new \in Contents
    BY <1>1, <1>7 DEF WriteFile
  <2>2. \/ folder' = folder /\ mtime' = mtime
        \/ folder' = [folder EXCEPT ![r][f] = new]
           /\ mtime' = [mtime EXCEPT ![r][f] = now]
    BY <1>7 DEF WriteFile
  <2> HIDE DEF f, new
  <2>3. folder' \in [Router -> [Picture -> Contents \cup {Missing}]] /\ Kept
    <3>1. CASE folder' = folder
      BY <3>1 DEF TypeInv, TypeOK, Kept
    <3>2. CASE folder' = [folder EXCEPT ![r][f] = new]
      BY <2>1, <3>2, PutType
    <3>3. QED BY <2>2, <3>1, <3>2
  <2>4. mtime' \in [Router -> [Picture -> Time]]
    <3>1. mtime \in [Router -> [Picture -> Time]] /\ now \in Time
      BY DEF TypeInv, TypeOK
    <3>2. mtime' = mtime \/ mtime' = [mtime EXCEPT ![r][f] = now]
      BY <2>2
    <3>3. QED BY <2>1, <3>1, <3>2
  <2>5. TypeOK'
    BY <1>7, <2>3, <2>4 DEF WriteFile, TypeInv, TypeOK
  <2>6. QED BY <1>7, <2>3, <2>5 DEF WriteFile, TypeInv, TypeOK, Found, Kept
<1>8. CASE CrashRecv(r)
  <2>1. TypeOK'
    BY <1>2, <1>8 DEF CrashRecv, TypeInv, TypeOK
  <2>2. QED BY <1>8, <2>1 DEF CrashRecv, TypeInv, Found, Kept
<1>9. ASSUME NEW b \in dtn[r], Expire(r, b) PROVE TypeInv' /\ Kept
  <2>1. TypeOK'
    BY <1>2, <1>9 DEF Expire, TypeInv, TypeOK
  <2>2. QED BY <1>9, <2>1 DEF Expire, TypeInv, Found, Kept
<1>10. QED
  BY <1>3, <1>4, <1>5, <1>6, <1>7, <1>8, <1>9 DEF RecvStep

LEMMA TypeStep ==
  ASSUME TypeInv, [Next]_vars
  PROVE  TypeInv' /\ Kept
<1>1. CASE Tick
  <2>1. now' \in Time
    BY <1>1, BoundAssumption DEF Tick, TypeInv, TypeOK, Time
  <2>2. QED
    BY <1>1, <2>1
       DEF Tick, TypeInv, TypeOK, Found, Kept, diskvars, sendvars, recvvars
<1>2. CASE UNCHANGED vars
  BY <1>2 DEF vars, TypeInv, TypeOK, Found, Kept, diskvars, sendvars, recvvars
<1>3. QED
  BY <1>1, <1>2, UploadType, SendType, RecvType DEF Next, Kept

(* Every variable keeps its type: fogbox_send reads only files that exist, *)
(* and fogbox_recv holds a bundle exactly while it works on one.           *)
THEOREM TypeCorrect == Spec => []TypeOK
<1>1. Init => TypeInv
  BY TypeInit
<1>2. TypeInv /\ [Next]_vars => TypeInv'
  BY TypeStep
<1>3. TypeInv => TypeOK
  BY DEF TypeInv
<1>4. QED BY <1>1, <1>2, <1>3, PTL DEF Spec

-----------------------------------------------------------------------------
(* .fogboxmeta.  While fogbox_send runs, lmt_map holds what was sent and   *)
(* the picture that is about to be.                                        *)
Noted(r, f) == \E b \in sent : b.src = r /\ b.file = f

MetaInv ==
  /\ MetaSent
  /\ \A r \in Router, f \in Picture :
       scan[r] # "off" /\ lmt_map[r][f] # 0 =>
         Noted(r, f) \/ (scan[r] = "send" /\ itr[r] = f)

(* The metadata tell of no picture that was not sent, wherever fogbox_send *)
(* is interrupted.                                                         *)
THEOREM MetadataSent == Spec => []MetaSent
<1>1. Init => MetaInv
  BY DEF Init, MetaInv, MetaSent, NoTimes
<1>2. TypeInv /\ MetaInv /\ [Next]_vars => MetaInv'
  <2> SUFFICES ASSUME TypeInv, MetaInv, [Next]_vars PROVE MetaInv'
    OBVIOUS
  <2> USE DEF diskvars, sendvars, recvvars
  <2>1. ASSUME UNCHANGED <<fogboxmeta, scan, itr, lmt_map, sent>>
        PROVE  MetaInv'
    BY <2>1 DEF MetaInv, MetaSent, Noted
  <2>2. ASSUME NEW r \in Router, SendStep(r) PROVE MetaInv'
    <3>1. CASE StartScan(r)
      BY <3>1 DEF StartScan, TypeInv, TypeOK, MetaInv, MetaSent, Noted
    <3>2. CASE CheckLock(r)
      <4>1. MetaSent'
        BY <3>2 DEF CheckLock, MetaInv, MetaSent
      <4>2. ASSUME NEW q \in Router, NEW f \in Picture,
                   scan'[q] # "off", lmt_map'[q][f] # 0
            PROVE  Noted(q, f)' \/ (scan'[q] = "send" /\ itr'[q] = f)
        <5>1. scan[q] # "off" /\ scan[r] = "new" /\ itr' = itr /\ sent' = sent
          BY <3>2, <4>2 DEF CheckLock, TypeInv, TypeOK
        <5>2. CASE lmt_map'[q][f] = lmt_map[q][f]
          <6>1. Noted(q, f) \/ (scan[q] = "send" /\ itr[q] = f)
            BY <4>2, <5>1, <5>2 DEF MetaInv
          <6>2. scan[q] = "send" => scan'[q] = "send"
            BY <3>2, <5>1 DEF CheckLock, TypeInv, TypeOK
          <6>3. QED BY <5>1, <6>1, <6>2 DEF Noted
        <5>3. CASE lmt_map'[q][f] # lmt_map[q][f]
          <6>1. lmt_map \in [Router -> [Picture -> Time]]
                /\ scan \in [Router -> {"off", "wait", "scan", "new", "send", "save"}] /\ itr \in [Router -> Picture]
            BY DEF TypeInv, TypeOK
          <6>2. itr[r] \notin recv[r]
            BY <3>2, <5>3 DEF CheckLock
          <6>3. /\ scan' = [scan EXCEPT ![r] = "send"]
                /\ lmt_map' = [lmt_map EXCEPT ![r][itr[r]] = t[r]]
            BY <3>2, <6>2 DEF CheckLock
          <6>4. q = r /\ itr[r] = f
            BY <5>3, <6>1, <6>3
          <6>5. QED BY <5>1, <6>1, <6>3, <6>4
        <5>4. QED BY <5>2, <5>3
      <4>3. QED BY <4>1, <4>2 DEF MetaInv
    <3>3. CASE SendFile(r)
      <4> DEFINE b == [src |-> r, file |-> itr[r], data |-> folder[r][itr[r]]]
      <4>1. /\ \/ scan' = [scan EXCEPT ![r] = "off"] /\ sent' = sent
               \/ scan' = [scan EXCEPT ![r] = "scan"] /\ sent' = sent \cup {b}
            /\ UNCHANGED <<fogboxmeta, lmt_map, itr>> /\ scan[r] = "send"
        BY <3>3 DEF SendFile
      <4>2. \A q \in Router, f \in Picture : Noted(q, f) => Noted(q, f)'
        BY <4>1 DEF Noted
      <4>3. MetaSent'
        BY <4>1, <4>2 DEF MetaInv, MetaSent, Noted
      <4>4. ASSUME NEW q \in Router, NEW f \in Picture,
                   scan'[q] # "off", lmt_map'[q][f] # 0
            PROVE  Noted(q, f)' \/ (scan'[q] = "send" /\ itr'[q] = f)
        <5>1. CASE q = r /\ itr[r] = f
          <6>1. sent' = sent \cup {b} /\ b.src = q /\ b.file = f
            BY <4>1, <4>4, <5>1 DEF TypeInv, TypeOK
          <6>2. \E c \in sent' : c.src = q /\ c.file = f
            BY <6>1
          <6>3. QED BY <6>2 DEF Noted
        <5>2. CASE ~(q = r /\ itr[r] = f)
          <6>1. scan[q] # "off"
            BY <4>1, <4>4 DEF TypeInv, TypeOK
          <6>2. Noted(q, f) \/ (scan[q] = "send" /\ itr[q] = f)
            BY <4>1, <4>4, <6>1 DEF MetaInv
          <6>3. CASE Noted(q, f)
            <7>1. Noted(q, f)'
              BY <4>2, <6>3
            <7>2. QED BY <7>1
          <6>4. CASE scan[q] = "send" /\ itr[q] = f
            BY <4>1, <5>2, <6>4 DEF TypeInv, TypeOK
          <6>5. QED BY <6>2, <6>3, <6>4
        <5>3. QED BY <5>1, <5>2
      <4>5. QED BY <4>3, <4>4 DEF MetaInv
    <3>4. CASE EndScan(r)
      <4>1. \A f \in Picture : fogboxmeta'[r][f] \in {0, fogboxmeta[r][f]}
        BY <3>4 DEF EndScan, TypeInv, TypeOK, NoTimes
      <4>2. \A q \in Router \ {r} : fogboxmeta'[q] = fogboxmeta[q]
        BY <3>4 DEF EndScan, TypeInv, TypeOK
      <4>3. MetaSent'
        BY <3>4, <4>1, <4>2 DEF EndScan, MetaInv, MetaSent
      <4>4. ASSUME NEW q \in Router, NEW f \in Picture,
                   scan'[q] # "off", lmt_map'[q][f] # 0
            PROVE  Noted(q, f)' \/ (scan'[q] = "send" /\ itr'[q] = f)
        <5>1. /\ scan[q] # "off" /\ lmt_map[q][f] # 0
              /\ scan[q] = "send" => scan'[q] = "send"
              /\ itr' = itr /\ sent' = sent
          BY <3>4, <4>4 DEF EndScan, TypeInv, TypeOK
        <5>2. Noted(q, f) \/ (scan[q] = "send" /\ itr[q] = f)
          BY <5>1 DEF MetaInv
        <5>3. QED BY <5>1, <5>2 DEF Noted
      <4>5. QED BY <4>3, <4>4 DEF MetaInv
    <3>5. CASE WriteMetadata(r)
      <4>1. \A q \in Router \ {r} : fogboxmeta'[q] = fogboxmeta[q]
        BY <3>5 DEF WriteMetadata, TypeInv, TypeOK
      <4>2. fogboxmeta'[r] = lmt_map[r] /\ scan[r] = "save" /\ sent' = sent
        BY <3>5 DEF WriteMetadata, TypeInv, TypeOK
      <4>3. \A f \in Picture : lmt_map[r][f] # 0 => Noted(r, f)
        BY <4>2 DEF MetaInv
      <4>4. MetaSent'
        BY <4>1, <4>2, <4>3 DEF MetaInv, MetaSent, Noted
      <4>5. QED BY <3>5, <4>4 DEF WriteMetadata, TypeInv, TypeOK, MetaInv, Noted
    <3>6. ASSUME NEW f \in Picture, OldFile(r, f) PROVE MetaInv'
      BY <2>1, <3>6 DEF OldFile
    <3>7. ASSUME NEW f \in Picture, NewFile(r, f) PROVE MetaInv'
      <4>1. /\ scan[r] = "scan" /\ scan' = [scan EXCEPT ![r] = "new"]
            /\ itr' = [itr EXCEPT ![r] = f]
            /\ UNCHANGED <<fogboxmeta, lmt_map, sent>>
        BY <3>7 DEF NewFile
      <4>2. MetaSent'
        BY <4>1 DEF MetaInv, MetaSent
      <4>3. ASSUME NEW q \in Router, NEW g \in Picture,
                   scan'[q] # "off", lmt_map'[q][g] # 0
            PROVE  Noted(q, g)' \/ (scan'[q] = "send" /\ itr'[q] = g)
        <5>1. scan \in [Router -> {"off", "wait", "scan", "new", "send", "save"}] /\ itr \in [Router -> Picture]
          BY DEF TypeInv, TypeOK
        <5>2. scan[q] # "off" /\ lmt_map[q][g] # 0
          BY <4>1, <4>3, <5>1
        <5>3. Noted(q, g) \/ (scan[q] = "send" /\ itr[q] = g)
          BY <5>2 DEF MetaInv
        <5>4. QED BY <4>1, <5>1, <5>3 DEF Noted
      <4>4. QED BY <4>2, <4>3 DEF MetaInv
    <3>8. QED BY <2>2, <3>1, <3>2, <3>3, <3>4, <3>5, <3>6, <3>7 DEF SendStep
  <2>3. ASSUME NEW r \in Router, Start(r) PROVE MetaInv'
    <3>1. /\ scan' = [scan EXCEPT ![r] = "wait"]
          /\ lmt_map' = [lmt_map EXCEPT ![r] = fogboxmeta[r]]
          /\ UNCHANGED <<fogboxmeta, itr, sent>>
      BY <2>3 DEF Start
    <3>2. /\ scan \in [Router -> {"off", "wait", "scan", "new", "send", "save"}]
          /\ lmt_map \in [Router -> [Picture -> Time]]
      BY DEF TypeInv, TypeOK
    <3>3. MetaSent'
      BY <3>1 DEF MetaInv, MetaSent
    <3>4. ASSUME NEW q \in Router, NEW f \in Picture,
                 scan'[q] # "off", lmt_map'[q][f] # 0
          PROVE  Noted(q, f)' \/ (scan'[q] = "send" /\ itr'[q] = f)
      <4>1. CASE q = r
        <5>1. fogboxmeta[r][f] # 0
          BY <3>1, <3>2, <3>4, <4>1
        <5>2. Noted(q, f)
          BY <4>1, <5>1 DEF MetaInv, MetaSent, Noted
        <5>3. QED BY <3>1, <5>2 DEF Noted
      <4>2. CASE q # r
        <5>1. scan[q] # "off" /\ lmt_map[q][f] # 0 /\ scan'[q] = scan[q]
          BY <3>1, <3>2, <3>4, <4>2
        <5>2. Noted(q, f) \/ (scan[q] = "send" /\ itr[q] = f)
          BY <5>1 DEF MetaInv
        <5>3. QED BY <3>1, <5>1, <5>2 DEF Noted
      <4>3. QED BY <4>1, <4>2
    <3>5. QED BY <3>3, <3>4 DEF MetaInv
  <2>4. ASSUME NEW r \in Router, Kill(r) PROVE MetaInv'
    BY <2>4 DEF Kill, TypeInv, TypeOK, MetaInv, MetaSent, Noted
  <2>5. ASSUME NEW r \in Router, Term(r) PROVE MetaInv'
    BY <2>1, <2>5 DEF Term
  <2>6. ASSUME NEW r \in Router, NEW f \in Picture, Upload(r, f) PROVE MetaInv'
    BY <2>1, <2>6 DEF Upload
  <2>7. ASSUME NEW r \in Router, RecvStep(r) PROVE MetaInv'
    BY <2>1, <2>7
       DEF RecvStep, GetBundle, FileExists, CreateLock, OpenFile, WriteFile
  <2>8. ASSUME NEW r \in Router,
               CrashRecv(r) \/ \E b \in dtn[r] : Expire(r, b)
        PROVE  MetaInv'
    BY <2>1, <2>8 DEF CrashRecv, Expire
  <2>9. CASE Tick \/ UNCHANGED vars
    BY <2>1, <2>9 DEF Tick, vars
  <2>10. QED
    BY <2>2, <2>3, <2>4, <2>5, <2>6, <2>7, <2>8, <2>9 DEF Next
<1>3. TypeInv /\ [Next]_vars => TypeInv'
  BY TypeStep
<1>4. MetaInv => MetaSent
  BY DEF MetaInv
<1>5. QED BY <1>1, <1>2, <1>3, <1>4, TypeInit, PTL DEF Spec

-----------------------------------------------------------------------------
(* What fogbox_send sends.  If phones use a name at one router only, no    *)
(* bundle is ever written where a phone uploads: the router that gets its  *)
(* own bundle back has the file already.                                   *)
OneRouterPerName ==
  \A r, q \in Router, f \in Picture :
    <<r, f>> \in Uploads /\ <<q, f>> \in Uploads => r = q

OwnWhole(data, r, f) == <<r, f>> \in Uploads /\ data.from = r /\ data.whole

BundlesOwn ==
  /\ \A b \in sent : /\ OwnWhole(b.data, b.src, b.file)
                     /\ folder[b.src][b.file] # Missing
  /\ \A r \in Router : /\ dtn[r] \subseteq sent
                       /\ recvdb[r] # NoBundle => recvdb[r] \in sent

FoldersOwn ==
  \A r \in Router, f \in Picture :
    /\ f \in recv[r] => <<r, f>> \notin Uploads
    /\ folder[r][f] # Missing /\ f \notin recv[r] => OwnWhole(folder[r][f], r, f)

Locked ==
  \A r \in Router :
    /\ fetch[r] \in {"absent", "locked", "created"} =>
         <<r, recvdb[r].file>> \notin Uploads
    /\ fetch[r] \in {"locked", "created"} => recvdb[r].file \in recv[r]

SendsOwn == \A r \in Router : scan[r] = "send" => <<r, itr[r]>> \in Uploads

EchoInv == BundlesOwn /\ FoldersOwn /\ Locked /\ SendsOwn

LEMMA EchoInit == Init => EchoInv
BY DEF Init, EchoInv, BundlesOwn, FoldersOwn, Locked, SendsOwn

(* No file is removed, so bundles stay as they are.                        *)
LEMMA BundlesKept ==
  ASSUME TypeInv, BundlesOwn, Kept, sent' = sent,
         \A r \in Router : /\ dtn'[r] \subseteq dtn[r]
                           /\ recvdb'[r] \in dtn[r] \cup {recvdb[r], NoBundle}
  PROVE  BundlesOwn'
<1>1. \A b \in sent : b.src \in Router /\ b.file \in Picture
  BY DEF TypeInv, TypeOK, Bundle
<1>2. ASSUME NEW b \in sent
      PROVE  OwnWhole(b.data, b.src, b.file) /\ folder'[b.src][b.file] # Missing
  BY <1>1 DEF BundlesOwn, Kept
<1>3. ASSUME NEW r \in Router
      PROVE  /\ dtn'[r] \subseteq sent
             /\ recvdb'[r] # NoBundle => recvdb'[r] \in sent
  BY DEF BundlesOwn
<1>4. QED BY <1>2, <1>3 DEF BundlesOwn, OwnWhole

(* A file changes to one of the router itself, or under a lock.            *)
LEMMA FoldersKept ==
  ASSUME TypeInv, FoldersOwn, NEW r \in Router, NEW f \in Picture, NEW new,
         folder' = [folder EXCEPT ![r][f] = new], recv' = recv,
         OwnWhole(new, r, f) \/ f \in recv[r]
  PROVE  FoldersOwn'
<1>1. folder \in [Router -> [Picture -> Contents \cup {Missing}]]
  BY DEF TypeInv, TypeOK
<1>2. ASSUME NEW q \in Router, NEW g \in Picture
      PROVE  \/ folder'[q][g] = folder[q][g]
             \/ q = r /\ g = f /\ folder'[q][g] = new
  BY <1>1
<1>3. ASSUME NEW q \in Router, NEW g \in Picture,
             folder'[q][g] # Missing, g \notin recv[q]
      PROVE  OwnWhole(folder'[q][g], q, g)
  BY <1>2, <1>3 DEF FoldersOwn
<1>4. QED BY <1>3 DEF FoldersOwn, OwnWhole

LEMMA EchoSend ==
  ASSUME TypeInv, EchoInv, NEW r \in Router,
         SendStep(r) \/ Start(r) \/ Term(r) \/ Kill(r)
  PROVE  EchoInv'
<1> USE DEF diskvars, sendvars, recvvars
<1>1. folder' = folder /\ UNCHANGED <<recv, fetch, recvdb>>
  BY SendType DEF SendStep, StartScan, CheckLock, SendFile, EndScan,
       WriteMetadata, OldFile, NewFile, Start, Term, Kill
<1>2. FoldersOwn' /\ Locked'
  BY <1>1 DEF EchoInv, FoldersOwn, Locked
<1>3. Kept
  BY <1>1 DEF Kept
<1>4. CASE CheckLock(r)
  <2>1. sent' = sent /\ dtn' = dtn /\ itr' = itr /\ scan[r] = "new"
    BY <1>4 DEF CheckLock
  <2>2. BundlesOwn'
    BY <1>1, <1>3, <2>1, BundlesKept DEF EchoInv
  <2>3. itr[r] \in recv[r] \/ <<r, itr[r]>> \in Uploads
    BY <2>1 DEF TypeInv, TypeOK, Found, EchoInv, FoldersOwn, OwnWhole
  <2>4. SendsOwn'
    BY <1>4, <2>1, <2>3 DEF CheckLock, TypeInv, TypeOK, EchoInv, SendsOwn
  <2>5. QED BY <1>2, <2>2, <2>4 DEF EchoInv
<1>5. CASE SendFile(r)
  <2>1. scan' \in {[scan EXCEPT ![r] = "scan"], [scan EXCEPT ![r] = "off"]}
        /\ itr' = itr /\ scan[r] = "send"
    BY <1>5 DEF SendFile
  <2>2. SendsOwn'
    BY <2>1 DEF TypeInv, TypeOK, EchoInv, SendsOwn
  <2>3. CASE terminated[r]
    <3>1. sent' = sent /\ dtn' = dtn
      BY <1>5, <2>3 DEF SendFile
    <3>2. BundlesOwn'
      BY <1>1, <1>3, <3>1, BundlesKept DEF EchoInv
    <3>3. QED BY <1>2, <2>2, <3>2 DEF EchoInv
  <2>4. CASE ~ terminated[r]
    <3> DEFINE b == [src |-> r, file |-> itr[r], data |-> folder[r][itr[r]]]
    <3>1. sent' = sent \cup {b} /\ dtn' = [q \in Router |-> dtn[q] \cup {b}]
      BY <1>5, <2>4 DEF SendFile
    <3>2. itr[r] \in Picture /\ folder[r][itr[r]] # Missing
      BY <2>1 DEF TypeInv, TypeOK, Found
    <3>3. <<r, itr[r]>> \in Uploads
      BY <2>1 DEF EchoInv, SendsOwn
    <3>4. OwnWhole(folder[r][itr[r]], r, itr[r])
      BY <3>2, <3>3 DEF EchoInv, FoldersOwn
    <3>5. b.src = r /\ b.file = itr[r] /\ b.data = folder[r][itr[r]]
      OBVIOUS
    <3> HIDE DEF b
    <3>6. BundlesOwn'
      <4>1. ASSUME NEW c \in sent'
            PROVE  OwnWhole(c.data, c.src, c.file) /\ folder[c.src][c.file] # Missing
        BY <3>1, <3>2, <3>4, <3>5 DEF EchoInv, BundlesOwn
      <4>2. ASSUME NEW q \in Router
            PROVE  /\ dtn'[q] \subseteq sent'
                   /\ recvdb[q] # NoBundle => recvdb[q] \in sent'
        BY <3>1 DEF EchoInv, BundlesOwn
      <4>3. QED BY <1>1, <4>1, <4>2 DEF BundlesOwn, OwnWhole
    <3>7. QED BY <1>2, <2>2, <3>6 DEF EchoInv
  <2>5. QED BY <2>3, <2>4
<1>6. ASSUME UNCHANGED <<sent, dtn>>,
             \A q \in Router : scan'[q] = "send" => scan[q] = "send" /\ itr'[q] = itr[q]
      PROVE  EchoInv'
  <2>1. BundlesOwn'
    BY <1>1, <1>3, <1>6, BundlesKept DEF EchoInv
  <2>2. SendsOwn'
    BY <1>6 DEF EchoInv, SendsOwn
  <2>3. QED BY <1>2, <2>1, <2>2 DEF EchoInv
<1>7. CASE StartScan(r) \/ Start(r) \/ Term(r) \/ Kill(r)
  BY <1>6, <1>7 DEF StartScan, Start, Term, Kill, TypeInv, TypeOK
<1>8. CASE EndScan(r) \/ WriteMetadata(r)
  BY <1>6, <1>8 DEF EndScan, WriteMetadata, TypeInv, TypeOK
<1>9. ASSUME NEW f \in Picture, OldFile(r, f) \/ NewFile(r, f) PROVE EchoInv'
  BY <1>6, <1>9 DEF OldFile, NewFile, TypeInv, TypeOK
<1>10. QED BY <1>4, <1>5, <1>7, <1>8, <1>9 DEF SendStep

LEMMA EchoRecv ==
  ASSUME OneRouterPerName, TypeInv, EchoInv, Kept, NEW r \in Router,
         \/ RecvStep(r) \/ CrashRecv(r)
         \/ \E b \in dtn[r] : Expire(r, b)
  PROVE  EchoInv'
<1> USE DEF diskvars, sendvars, recvvars
<1>1. SendsOwn' /\ sent' = sent
  BY DEF EchoInv, SendsOwn, RecvStep, GetBundle, FileExists, CreateLock,
       OpenFile, WriteFile, CrashRecv, Expire
<1>2. /\ fetch \in [Router -> {"idle", "got", "absent", "locked", "created"}]
      /\ recvdb \in [Router -> Bundle \cup {NoBundle}]
      /\ dtn \in [Router -> SUBSET Bundle] /\ recv \in [Router -> SUBSET Picture]
      /\ fetch[r] # "idle" => recvdb[r] # NoBundle /\ recvdb[r] \in Bundle
  BY DEF TypeInv, TypeOK
<1>3. BundlesOwn'
  <2>1. \A q \in Router : /\ dtn'[q] \subseteq dtn[q]
                          /\ recvdb'[q] \in dtn[q] \cup {recvdb[q], NoBundle}
    BY <1>2 DEF RecvStep, GetBundle, FileExists, CreateLock, OpenFile,
         WriteFile, CrashRecv, Expire
  <2>2. QED BY <1>1, <2>1, BundlesKept DEF EchoInv
<1>4. ASSUME UNCHANGED <<folder, recv>>,
             \A q \in Router : \/ fetch'[q] \in {"idle", "got"}
                               \/ fetch'[q] = fetch[q] /\ recvdb'[q] = recvdb[q]
      PROVE  EchoInv'
  BY <1>1, <1>3, <1>4 DEF EchoInv, FoldersOwn, Locked
<1>5. CASE \/ \E b \in dtn[r] : GetBundle(r, b) \/ Expire(r, b)
           \/ CrashRecv(r)
  BY <1>2, <1>4, <1>5 DEF GetBundle, CrashRecv, Expire
<1>6. CASE FileExists(r)
  <2>1. CASE folder[r][recvdb[r].file] # Missing
    BY <1>2, <1>4, <1>6, <2>1 DEF FileExists
  <2>2. CASE folder[r][recvdb[r].file] = Missing
    <3>1. /\ fetch[r] = "got" /\ fetch' = [fetch EXCEPT ![r] = "absent"]
          /\ UNCHANGED <<recvdb, folder, recv>>
      BY <1>6, <2>2 DEF FileExists
    <3>2. recvdb[r] \in sent
      <4>1. recvdb[r] # NoBundle
        BY <1>2, <3>1
      <4>2. QED BY <4>1 DEF EchoInv, BundlesOwn
    <3>3. /\ <<recvdb[r].src, recvdb[r].file>> \in Uploads
          /\ folder[recvdb[r].src][recvdb[r].file] # Missing
      BY <3>2 DEF EchoInv, BundlesOwn, OwnWhole
    <3>4. recvdb[r].src # r /\ recvdb[r].src \in Router /\ recvdb[r].file \in Picture
      BY <1>2, <2>2, <3>1, <3>3 DEF Bundle
    <3>5. <<r, recvdb[r].file>> \notin Uploads
      BY <3>3, <3>4 DEF OneRouterPerName
    <3>6. Locked'
      BY <1>2, <3>1, <3>5 DEF EchoInv, Locked
    <3>7. QED BY <1>1, <1>3, <3>1, <3>6 DEF EchoInv, FoldersOwn
  <2>3. QED BY <2>1, <2>2
<1>7. CASE CreateLock(r)
  <2>1. /\ fetch[r] = "absent" /\ fetch' = [fetch EXCEPT ![r] = "locked"]
        /\ recv' = [recv EXCEPT ![r] = @ \cup {recvdb[r].file}]
        /\ UNCHANGED <<recvdb, folder>>
    BY <1>7 DEF CreateLock
  <2>2. <<r, recvdb[r].file>> \notin Uploads
    BY <2>1 DEF EchoInv, Locked
  <2>3. \A q \in Router : recv[q] \subseteq recv'[q]
                          /\ (q # r => recv'[q] = recv[q])
                          /\ recv'[r] = recv[r] \cup {recvdb[r].file}
    BY <1>2, <2>1
  <2>4. FoldersOwn'
    BY <2>1, <2>2, <2>3 DEF EchoInv, FoldersOwn, OwnWhole
  <2>5. Locked'
    BY <1>2, <2>1, <2>2, <2>3 DEF EchoInv, Locked
  <2>6. QED BY <1>1, <1>3, <2>4, <2>5 DEF EchoInv
<1>8. CASE OpenFile(r) \/ WriteFile(r)
  <2>1. /\ fetch[r] \in {"locked", "created"} /\ recv' = recv
        /\ \/ folder' = folder
           \/ \E new : folder' = [folder EXCEPT ![r][recvdb[r].file] = new]
        /\ \/ fetch' = [fetch EXCEPT ![r] = "created"] /\ recvdb' = recvdb
           \/ /\ fetch' = [fetch EXCEPT ![r] = "idle"]
              /\ recvdb' = [recvdb EXCEPT ![r] = NoBundle]
    BY <1>8 DEF OpenFile, WriteFile
  <2>2. recvdb[r].file \in recv[r] /\ recvdb[r].file \in Picture
    BY <1>2, <2>1 DEF EchoInv, Locked, Bundle
  <2>3. FoldersOwn'
    <3>1. CASE folder' = folder
      BY <2>1, <3>1 DEF EchoInv, FoldersOwn
    <3>2. ASSUME NEW new, folder' = [folder EXCEPT ![r][recvdb[r].file] = new]
          PROVE  FoldersOwn'
      BY <2>1, <2>2, <3>2, FoldersKept DEF EchoInv
    <3>3. QED BY <2>1, <3>1, <3>2
  <2>4. Locked'
    BY <1>2, <2>1 DEF EchoInv, Locked
  <2>5. QED BY <1>1, <1>3, <2>3, <2>4 DEF EchoInv
<1>9. QED BY <1>5, <1>6, <1>7, <1>8 DEF RecvStep

LEMMA EchoStep ==
  ASSUME OneRouterPerName, TypeInv, EchoInv, [Next]_vars PROVE EchoInv'
<1>1. Kept
  BY TypeStep
<1>2. ASSUME NEW r \in Router, NEW f \in Picture, Upload(r, f) PROVE EchoInv'
  <2> DEFINE new == [from |-> r, whole |-> TRUE, version |-> uploads[r][f] + 1]
  <2>1. /\ folder' = [folder EXCEPT ![r][f] = new] /\ <<r, f>> \in Uploads
        /\ UNCHANGED <<recv, scan, itr, fetch, recvdb, dtn, sent>>
    BY <1>2 DEF Upload, sendvars, recvvars
  <2>2. OwnWhole(new, r, f)
    BY <2>1 DEF OwnWhole
  <2> HIDE DEF new
  <2>3. FoldersOwn'
    BY <2>1, <2>2, FoldersKept DEF EchoInv
  <2>4. BundlesOwn'
    BY <1>1, <2>1, BundlesKept DEF EchoInv
  <2>5. QED BY <2>1, <2>3, <2>4 DEF EchoInv, Locked, SendsOwn
<1>3. CASE Tick \/ UNCHANGED vars
  <2>1. UNCHANGED <<folder, recv, scan, itr, fetch, recvdb, dtn, sent>>
    BY <1>3 DEF Tick, vars, diskvars, sendvars, recvvars
  <2>2. QED BY <2>1 DEF EchoInv, BundlesOwn, FoldersOwn, Locked, SendsOwn
<1>4. QED BY <1>1, <1>2, <1>3, EchoSend, EchoRecv DEF Next

(* A router sends only what its own phones have uploaded, and only whole   *)
(* pictures, however fogbox_send, fogbox_recv, uploads, kills and crashes  *)
(* interleave, if phones use each name at one router.                      *)
THEOREM NothingEchoed ==
  ASSUME OneRouterPerName
  PROVE  Spec => []NoEcho
<1>1. TypeInv /\ [Next]_vars => TypeInv'
  BY TypeStep
<1>2. TypeInv /\ EchoInv /\ [Next]_vars => EchoInv'
  BY EchoStep
<1>3. EchoInv => NoEcho
  BY DEF EchoInv, BundlesOwn, OwnWhole, NoEcho
<1>4. QED BY <1>1, <1>2, <1>3, TypeInit, EchoInit, PTL DEF Spec
=============================================================================
