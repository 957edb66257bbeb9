----------------------------- MODULE LibzipProofs -----------------------------
(***************************************************************************)
(* Proofs about libzip: about ZipArchive, for archives with any number of  *)
(* entries and any sequence of changes, failures and kills; about ZipFile, *)
(* for every archive, however damaged, any number of open files, all sizes *)
(* and every mixture of calls; and, with what was shown there about        *)
(* sequences and numbers, about the files that ZipArchive leaves behind.   *)
(***************************************************************************)
EXTENDS ZipArchive, ZipFile, WellFoundedInduction, FiniteSetTheorems,
        SequenceTheorems, TLAPS

(***************************************************************************)
(* Changing an archive.                                                    *)
(***************************************************************************)

State == {"UNCHANGED", "DELETED", "REPLACED", "ADDED", "RENAMED"}
AnySource == [raw : BOOLEAN, data : Content \cup {<<>>}, reads : 0 .. 2]
Entry == [state : State, source : AnySource \cup {NULL},
          ch_filename : Nat \cup {NULL}, ch_comment : Comment \cup {NULL}]

(* A directory that was read is a sequence.                                *)
IsDirectory(d) ==
  d = NULL \/ (Len(d.entry) \in Nat /\ DOMAIN d.entry = 1 .. Len(d.entry))

LEMMA ReadCdirIsDirectory ==
  ASSUME NEW f, NEW at
  PROVE  /\ IsDirectory(ReadCdir(f, at))
         /\ EntryCount(f[at + 1]) \in Nat \ {0}
         /\ DOMAIN ReadCdir(f, at).entry = 1 .. EntryCount(f[at + 1])
<1> DEFINE count == EntryCount(f[at + 1])
           entries == [i \in 1 .. count |-> f[CdirStart(f, at) + i].de]
           S == {f[CdirStart(f, at) + i].de : i \in 1 .. count}
<1>1. count \in Nat \ {0}
  BY WideAssumption DEF EntryCount
<1> HIDE DEF count
<1>2. \A i \in 1 .. count : f[CdirStart(f, at) + i].de \in S
  OBVIOUS
<1> HIDE DEF S
<1>3. entries \in Seq(S) /\ DOMAIN entries = 1 .. count
  BY <1>1, <1>2
<1>4. ReadCdir(f, at).entry = entries
  BY DEF ReadCdir, count
<1> HIDE DEF entries
<1>5. Len(entries) \in Nat /\ DOMAIN entries = 1 .. Len(entries)
  BY <1>3, LenProperties
<1>6. QED BY <1>1, <1>3, <1>4, <1>5 DEF IsDirectory, count

LEMMA FoundIsDirectory ==
  ASSUME NEW f, NEW check
  PROVE  IsDirectory(FindCentralDir(f, check))
BY ReadCdirIsDirectory DEF FindCentralDir, IsDirectory

-----------------------------------------------------------------------------
(* The entries of a handle and their names, for entries e and directory d. *)

Size(d) == IF d = NULL THEN 0 ELSE Len(d.entry)

EntryFits(ze, i, n) ==
  /\ ze.state = "UNCHANGED" => ze.ch_filename = NULL
  /\ ze.state = "RENAMED" => ze.ch_filename # NULL /\ i <= n
  /\ ze.state = "DELETED" => ze.ch_filename = NULL
  /\ ze.state = "REPLACED" => i <= n
  /\ ze.state = "ADDED" => i > n
  /\ ze.state \in {"ADDED", "REPLACED"} <=> ze.source # NULL

Entries(e, d) ==
  /\ e \in Seq(Entry) /\ IsDirectory(d) /\ Size(d) <= Len(e)
  /\ \A i \in DOMAIN e : EntryFits(e[i], i, Size(d))

NameAt(ze, i, d) ==
  IF ze.state = "DELETED" THEN NULL
  ELSE IF ze.ch_filename # NULL THEN ze.ch_filename
  ELSE IF i <= Size(d) THEN d.entry[i].name ELSE NULL

Distinct(e, d) ==
  \A i, k \in DOMAIN e : NameAt(e[i], i, d) = NameAt(e[k], k, d) =>
                           i = k \/ NameAt(e[i], i, d) = NULL

FileDistinct(d) ==
  \A i, k \in 1 .. Size(d) : d.entry[i].name = d.entry[k].name => i = k

LEMMA SizeIsNat == ASSUME NEW d, IsDirectory(d) PROVE Size(d) \in Nat
BY DEF IsDirectory, Size

(* One entry is changed.                                                   *)
LEMMA OneChanged ==
  ASSUME NEW e, NEW d, Entries(e, d), NEW i \in DOMAIN e, NEW ze \in Entry,
         EntryFits(ze, i, Size(d))
  PROVE  Entries([e EXCEPT ![i] = ze], d)
<1>1. e \in Seq(Entry)
  BY DEF Entries
<1>2. DOMAIN e = 1 .. Len(e)
  BY <1>1, LenProperties
<1>3. /\ [e EXCEPT ![i] = ze] \in Seq(Entry)
      /\ Len([e EXCEPT ![i] = ze]) = Len(e)
      /\ \A k \in 1 .. Len(e) : [e EXCEPT ![i] = ze][k] = IF k = i THEN ze ELSE e[k]
  BY <1>1, <1>2, ExceptSeq
<1> DEFINE f == [e EXCEPT ![i] = ze]
<1>4. DOMAIN f = 1 .. Len(e)
  BY <1>2
<1> HIDE DEF f
<1>5. ASSUME NEW k \in DOMAIN f PROVE EntryFits(f[k], k, Size(d))
  BY <1>2, <1>3, <1>4 DEF Entries, f
<1>6. QED BY <1>3, <1>5 DEF Entries, f

(* It has no name, its old name, or one that no other has.                 *)
LEMMA OneRenamed ==
  ASSUME NEW e, NEW d, Distinct(e, d), NEW i \in DOMAIN e, NEW ze,
         \/ NameAt(ze, i, d) \in {NULL, NameAt(e[i], i, d)}
         \/ \A k \in DOMAIN e : k # i => NameAt(e[k], k, d) # NameAt(ze, i, d)
  PROVE  Distinct([e EXCEPT ![i] = ze], d)
<1> DEFINE f == [e EXCEPT ![i] = ze]
<1>1. DOMAIN f = DOMAIN e /\ \A k \in DOMAIN e : f[k] = IF k = i THEN ze ELSE e[k]
  OBVIOUS
<1> HIDE DEF f
<1>2. \A k \in DOMAIN e : NameAt(f[k], k, d) =
                             IF k = i THEN NameAt(ze, i, d) ELSE NameAt(e[k], k, d)
  BY <1>1
<1>3. Distinct(f, d)
  BY <1>1, <1>2 DEF Distinct
<1>4. QED BY <1>3 DEF f

(* An entry is added; as long as it has no name, no name is there twice.   *)
LEMMA OneMore ==
  ASSUME NEW e, NEW d, Entries(e, d)
  PROVE  LET f == Append(e, EntryNew)
         IN /\ Entries(f, d) /\ Len(f) \in DOMAIN f /\ Size(d) < Len(f)
            /\ f[Len(f)] = EntryNew
            /\ Distinct(e, d) => Distinct(f, d)
<1> DEFINE f == Append(e, EntryNew)
<1>1. EntryNew \in Entry /\ EntryFits(EntryNew, Len(e) + 1, Size(d))
  BY DEF EntryNew, Entry, State, EntryFits
<1>2. e \in Seq(Entry) /\ Size(d) <= Len(e) /\ IsDirectory(d)
  BY DEF Entries
<1>3. /\ f \in Seq(Entry) /\ Len(f) = Len(e) + 1
      /\ \A k \in 1 .. Len(e) : f[k] = e[k]
      /\ f[Len(e) + 1] = EntryNew
  BY <1>1, <1>2, AppendProperties
<1>4. DOMAIN e = 1 .. Len(e) /\ DOMAIN f = 1 .. Len(f) /\ Len(e) \in Nat
  BY <1>2, <1>3, LenProperties
<1>5. Size(d) \in Nat
  BY <1>2, SizeIsNat
<1> HIDE DEF f
<1>6. \A k \in DOMAIN f : EntryFits(f[k], k, Size(d))
  BY <1>1, <1>3, <1>4 DEF Entries
<1>7. NameAt(f[Len(f)], Len(f), d) = NULL
  BY <1>2, <1>3, <1>4, <1>5 DEF NameAt, EntryNew
<1>8. ASSUME Distinct(e, d) PROVE Distinct(f, d)
  <2>1. \A k \in DOMAIN f : k = Len(f) \/ (k \in DOMAIN e /\ f[k] = e[k])
    BY <1>3, <1>4
  <2>2. QED BY <1>7, <1>8, <2>1 DEF Distinct
<1>9. QED BY <1>2, <1>3, <1>4, <1>5, <1>6, <1>8 DEF Entries, f

-----------------------------------------------------------------------------
(* The inductive invariant: types, entries that fit the directory, and the *)
(* names of NamesDistinct.                                                 *)

Control ==
  /\ pc \in {"closed", "open", "writing", "written"}
  /\ flags \in BOOLEAN /\ ch_flags \in BOOLEAN
  /\ pc = "closed" => zp = NULL /\ cdir = NULL /\ entry = <<>>
  /\ pc \in {"closed", "open"} => out = NULL
  /\ {revived, damaged} \subseteq BOOLEAN
  /\ ops \in 0 .. MaxOps /\ faults \in 0 .. MaxFaults

Named == ~ revived /\ FileDistinct(cdir) => Distinct(entry, cdir)

IInv == Control /\ Entries(entry, cdir) /\ Named

LEMMA GetNameIsNameAt ==
  ASSUME NEW e, NEW i
  PROVE  GetName(e, i) = NameAt(e[i], i, cdir)
BY DEF GetName, NameAt, CdirName, Nentry, Size

LEMMA IInvImplies == IInv => TypeOK /\ NamesDistinct
<1> SUFFICES ASSUME IInv PROVE TypeOK /\ NamesDistinct
  OBVIOUS
<1>1. Nentry = Size(cdir)
  BY DEF Nentry, Size
<1>2. TypeOK
  <2>1. Nentry <= Len(entry)
    BY <1>1 DEF IInv, Entries
  <2>2. ASSUME NEW i \in DOMAIN entry PROVE EntryOK(i)
    BY <1>1 DEF IInv, Entries, EntryFits, EntryOK, DataChanged
  <2>3. QED BY <2>1, <2>2 DEF IInv, Control, TypeOK
<1>3. NamesDistinct
  <2> SUFFICES ASSUME ~ revived,
                      \A i, k \in 1 .. Nentry : CdirName(i) = CdirName(k) => i = k
               PROVE  \A i, k \in DOMAIN entry :
                        GetName(entry, i) = GetName(entry, k) =>
                          i = k \/ GetName(entry, i) = NULL
    BY DEF NamesDistinct
  <2>1. FileDistinct(cdir)
    <3>1. Size(cdir) \in Nat
      BY SizeIsNat DEF IInv, Entries
    <3>2. QED BY <3>1, <1>1 DEF FileDistinct, CdirName
  <2>2. Distinct(entry, cdir)
    BY <2>1 DEF IInv, Named
  <2>3. QED BY <2>2, GetNameIsNameAt DEF Distinct
<1>4. QED BY <1>2, <1>3

(* A name that is not taken belongs to no other entry.                     *)
LEMMA NotTaken ==
  ASSUME NEW e, DOMAIN e \subseteq Nat, Distinct(e, cdir), NEW i \in DOMAIN e,
         NEW name, name # NULL, ~ Taken(e, i, name)
  PROVE  \A k \in DOMAIN e : k # i => NameAt(e[k], k, cdir) # name
<1> SUFFICES ASSUME NEW k \in DOMAIN e, k # i, NameAt(e[k], k, cdir) = name
             PROVE  FALSE
  OBVIOUS
<1>1. Locate(e, name) = {k}
  BY GetNameIsNameAt DEF Locate, Distinct
<1>2. Min({k}) = k
  <2>1. k <= k
    OBVIOUS
  <2>2. QED BY <2>1 DEF Min
<1>3. QED BY <1>1, <1>2 DEF Taken

(* A change of the handle.                                                 *)
LEMMA EditStep ==
  ASSUME IInv, Edit, Rest, ch_flags' \in BOOLEAN, revived' \in BOOLEAN,
         Entries(entry', cdir),
         ~ revived' /\ FileDistinct(cdir) => Distinct(entry', cdir)
  PROVE  IInv'
<1>1. /\ UNCHANGED <<disk, pc, zp, cdir, flags, out, cd, damaged, faults>>
      /\ pc = "open" /\ ops < MaxOps /\ ops' = ops + 1
  BY DEF Edit, Rest
<1>2. Control'
  BY <1>1, BoundAssumption DEF IInv, Control
<1>3. QED BY <1>1, <1>2 DEF IInv, Named

LEMMA ChangeStep ==
  ASSUME IInv, Edit, Rest, ch_flags' \in BOOLEAN, revived' \in BOOLEAN,
         NEW i \in DOMAIN entry, NEW ze \in Entry, EntryFits(ze, i, Size(cdir)),
         entry' = [entry EXCEPT ![i] = ze], revived => revived',
         ~ revived' /\ Distinct(entry, cdir) =>
           \/ NameAt(ze, i, cdir) \in {NULL, NameAt(entry[i], i, cdir)}
           \/ \A k \in DOMAIN entry :
                k # i => NameAt(entry[k], k, cdir) # NameAt(ze, i, cdir)
  PROVE  IInv'
<1>1. Entries(entry', cdir)
  BY OneChanged DEF IInv
<1>2. ~ revived' /\ FileDistinct(cdir) => Distinct(entry', cdir)
  BY OneRenamed DEF IInv, Named
<1>3. QED BY <1>1, <1>2, EditStep

-----------------------------------------------------------------------------
(* Opening and closing.                                                    *)

LEMMA EmptyFits == Entries(<<>>, NULL) /\ Distinct(<<>>, NULL)
<1>1. <<>> \in Seq(Entry) /\ Len(<<>>) = 0 /\ DOMAIN <<>> = {}
  BY EmptySeq
<1>2. QED BY <1>1 DEF Entries, Distinct, IsDirectory, Size

LEMMA InitIInv == Init => IInv
<1> SUFFICES ASSUME Init PROVE IInv
  OBVIOUS
<1>1. Control
  <2>1. ops \in 0 .. MaxOps /\ faults \in 0 .. MaxFaults
    BY BoundAssumption DEF Init
  <2>2. QED BY <2>1, Zenon DEF Init, Control
<1>2. entry = <<>> /\ cdir = NULL
  BY DEF Init
<1>3. QED BY <1>1, <1>2, EmptyFits DEF IInv, Named

LEMMA FreedStep ==
  ASSUME Freed, ops' \in 0 .. MaxOps, faults' \in 0 .. MaxFaults,
         damaged' \in BOOLEAN
  PROVE  IInv'
<1>1. Control'
  BY DEF Freed, Control
<1>2. entry' = <<>> /\ cdir' = NULL
  BY DEF Freed
<1>3. QED BY <1>1, <1>2, EmptyFits DEF IInv, Named

LEMMA FreshFits ==
  ASSUME NEW d, IsDirectory(d), d # NULL
  PROVE  LET e == [i \in DOMAIN d.entry |-> EntryNew]
         IN Entries(e, d) /\ (FileDistinct(d) => Distinct(e, d))
<1> DEFINE n == Len(d.entry)
           e == [i \in 1 .. n |-> EntryNew]
<1>1. n \in Nat /\ DOMAIN d.entry = 1 .. n /\ Size(d) = n
  BY DEF IsDirectory, Size
<1>2. EntryNew \in Entry
  BY DEF EntryNew, Entry, State
<1> HIDE DEF n
<1>3. e \in Seq(Entry) /\ Len(e) = n /\ DOMAIN e = 1 .. n
  BY <1>1, <1>2
<1>4. \A i \in 1 .. n : e[i] = EntryNew
  OBVIOUS
<1> HIDE DEF e
<1>5. ASSUME NEW i \in 1 .. n
      PROVE  EntryFits(EntryNew, i, n) /\ NameAt(EntryNew, i, d) = d.entry[i].name
  BY <1>1 DEF EntryNew, EntryFits, NameAt
<1>6. Entries(e, d)
  BY <1>1, <1>3, <1>4, <1>5 DEF Entries
<1>7. ASSUME FileDistinct(d) PROVE Distinct(e, d)
  BY <1>1, <1>3, <1>4, <1>5, <1>7 DEF Distinct, FileDistinct
<1>8. QED BY <1>1, <1>6, <1>7 DEF e

LEMMA OpenStep ==
  ASSUME IInv, NEW check \in BOOLEAN, Open(check) PROVE IInv'
<1>1. Control'
  BY DEF IInv, Control, Open
<1>2. CASE cdir' = NULL
  <2>1. entry' = <<>>
    BY <1>2 DEF Open
  <2>2. QED BY <1>1, <1>2, <2>1, EmptyFits DEF IInv, Named
<1>3. CASE cdir' # NULL
  <2>1. cdir' = FindCentralDir(disk, check)
    BY <1>3 DEF Open
  <2>2. IsDirectory(cdir')
    BY <2>1, FoundIsDirectory
  <2>3. entry' = [i \in DOMAIN cdir'.entry |-> EntryNew]
    BY <1>3 DEF Open
  <2>4. Entries(entry', cdir') /\ (FileDistinct(cdir') => Distinct(entry', cdir'))
    BY <1>3, <2>2, <2>3, FreshFits
  <2>5. QED BY <1>1, <2>4 DEF IInv, Named
<1>4. QED BY <1>2, <1>3

-----------------------------------------------------------------------------
(* The changes.                                                            *)

LEMMA EntriesAreSeq ==
  ASSUME NEW e, NEW d, Entries(e, d)
  PROVE  /\ e \in Seq(Entry) /\ DOMAIN e = 1 .. Len(e) /\ Len(e) \in Nat
         /\ DOMAIN e \subseteq Nat /\ \A i \in DOMAIN e : e[i] \in Entry
         /\ Size(d) \in Nat /\ Size(d) <= Len(e)
<1>1. e \in Seq(Entry) /\ Size(d) <= Len(e) /\ IsDirectory(d)
  BY DEF Entries
<1>2. DOMAIN e = 1 .. Len(e) /\ Len(e) \in Nat
  BY <1>1, LenProperties
<1>3. \A i \in DOMAIN e : e[i] \in Entry
  BY <1>1, <1>2, ElementOfSeq
<1>4. QED BY <1>1, <1>2, <1>3, SizeIsNat

LEMMA NentryIsSize == Nentry = Size(cdir)
BY DEF Nentry, Size

LEMMA AddStep ==
  ASSUME IInv, NEW name \in Nat, NEW source \in AnySource, Add(name, source)
  PROVE  IInv'
<1> DEFINE e == Append(entry, EntryNew)
           i == Len(e)
           ze == [state |-> "ADDED", source |-> source, ch_filename |-> name,
                  ch_comment |-> NULL]
<1>1. /\ Entries(e, cdir) /\ i \in DOMAIN e /\ Size(cdir) < i
      /\ e[i] = EntryNew /\ (Distinct(entry, cdir) => Distinct(e, cdir))
  BY OneMore DEF IInv
<1>2. /\ Edit /\ Rest /\ ch_flags' = ch_flags /\ revived' = revived
      /\ entry' = IF Taken(e, i, name) THEN e
                  ELSE [SetName(e, i, name) EXCEPT ![i].state = "ADDED",
                                                   ![i].source = source]
  BY DEF Add
<1>3. ch_flags' \in BOOLEAN /\ revived' \in BOOLEAN
  BY <1>2, Zenon DEF IInv, Control
<1>4. DOMAIN e \subseteq Nat /\ Size(cdir) \in Nat
  BY <1>1, EntriesAreSeq
<1> HIDE DEF e
<1>5. CASE Taken(e, i, name)
  BY <1>1, <1>2, <1>3, <1>5, EditStep DEF IInv, Named
<1>6. CASE ~ Taken(e, i, name)
  <2>1. name # NULL /\ NULL \notin AnySource
    BY NameAssumption, NullAssumption DEF AnySource
  <2>2. NameAt(EntryNew, i, cdir) = NULL
    BY <1>1, <1>4 DEF NameAt, EntryNew
  <2>3. i \notin Locate(e, name)
    BY <1>1, <2>1, <2>2, GetNameIsNameAt DEF Locate
  <2>4. entry' = [e EXCEPT ![i] = ze]
    BY <1>1, <1>2, <1>6, <2>3 DEF SetName, EntryNew
  <2>5. ze \in Entry /\ EntryFits(ze, i, Size(cdir)) /\ NameAt(ze, i, cdir) = name
    BY <1>1, <1>4, <2>1 DEF Entry, State, EntryFits, NameAt
  <2> HIDE DEF ze
  <2>6. Entries(entry', cdir)
    BY <1>1, <2>4, <2>5, OneChanged
  <2>7. ASSUME Distinct(e, cdir) PROVE Distinct(entry', cdir)
    <3>1. \A k \in DOMAIN e : k # i => NameAt(e[k], k, cdir) # name
      BY <1>1, <1>4, <1>6, <2>1, <2>7, NotTaken
    <3>2. QED BY <1>1, <2>4, <2>5, <2>7, <3>1, OneRenamed
  <2>8. QED BY <1>1, <1>2, <1>3, <2>6, <2>7, EditStep DEF IInv, Named
<1>7. QED BY <1>5, <1>6

LEMMA SourcesAreAny == Source \subseteq AnySource /\ NoData \in AnySource
<1>1. ASSUME NEW raw \in BOOLEAN, NEW data \in Content \cup {<<>>}
      PROVE  SourceFunction(raw, data) \in AnySource
  BY DEF SourceFunction, AnySource
<1>2. NoData \in AnySource
  BY <1>1 DEF NoData
<1>3. \A data \in Content : /\ SourceFilep(data) \in AnySource
                            /\ SourceZip(data) \in AnySource
  BY <1>1 DEF SourceFilep, SourceZip
<1>4. QED BY <1>2, <1>3 DEF Source

LEMMA NamesAreNat == \A name \in Name : name \in Nat /\ DirName(name) \in Nat
BY NameAssumption DEF DirName, IsDir, Slash

(* What becomes of an entry.                                               *)
LEMMA UnchangedEntry ==
  ASSUME NEW ze \in Entry, NEW i \in Nat, NEW d, IsDirectory(d),
         EntryFits(ze, i, Size(d))
  PROVE  /\ Unchanged(ze) \in Entry /\ EntryFits(Unchanged(ze), i, Size(d))
         /\ NameAt(Unchanged(ze), i, d) =
              IF i <= Size(d) THEN d.entry[i].name ELSE NULL
BY DEF Unchanged, UnchangeData, Entry, State, EntryFits, NameAt

LEMMA ReplaceStep ==
  ASSUME IInv, NEW i \in DOMAIN entry, NEW source \in AnySource,
         Replace(i, source)
  PROVE  IInv'
<1> DEFINE old == entry[i]
           ze == [UnchangeData(old) EXCEPT
                    !.state = IF i <= Nentry THEN "REPLACED" ELSE "ADDED",
                    !.source = source]
<1>1. /\ Edit /\ Rest /\ ch_flags' = ch_flags
      /\ revived' = (revived \/ old.state = "DELETED")
      /\ entry' = [entry EXCEPT ![i] = ze]
  BY DEF Replace
<1>2. ch_flags' \in BOOLEAN /\ revived' \in BOOLEAN
  BY <1>1, Zenon DEF IInv, Control
<1>3. /\ old \in Entry /\ EntryFits(old, i, Size(cdir)) /\ source # NULL
      /\ i \in Nat /\ Size(cdir) \in Nat
  BY EntriesAreSeq, NullAssumption DEF IInv, Entries, AnySource
<1>4. ze \in Entry /\ EntryFits(ze, i, Size(cdir))
  <2>1. /\ ze \in Entry /\ ze.source = source
        /\ ze.state = IF i <= Size(cdir) THEN "REPLACED" ELSE "ADDED"
    BY <1>3, NentryIsSize DEF UnchangeData, Entry, State
  <2> HIDE DEF ze
  <2>2. QED BY <1>3, <2>1 DEF EntryFits
<1>5. old.state # "DELETED" => NameAt(ze, i, cdir) = NameAt(old, i, cdir)
  BY <1>3 DEF UnchangeData, Entry, State, EntryFits, NameAt
<1> HIDE DEF ze
<1>6. QED BY <1>1, <1>2, <1>4, <1>5, ChangeStep

LEMMA DeleteStep ==
  ASSUME IInv, NEW i \in DOMAIN entry, Delete(i) PROVE IInv'
<1> DEFINE old == entry[i]
           ze == [Unchanged(old) EXCEPT !.state = "DELETED"]
<1>1. /\ Edit /\ Rest /\ ch_flags' = ch_flags /\ revived' = revived
      /\ entry' = [entry EXCEPT ![i] = ze]
  BY DEF Delete
<1>2. ch_flags' \in BOOLEAN /\ revived' \in BOOLEAN
  BY <1>1, Zenon DEF IInv, Control
<1>3. old \in Entry /\ EntryFits(old, i, Size(cdir))
  BY EntriesAreSeq DEF IInv, Entries
<1>4. /\ ze \in Entry /\ EntryFits(ze, i, Size(cdir))
      /\ NameAt(ze, i, cdir) = NULL
  BY <1>3 DEF Unchanged, UnchangeData, Entry, State, EntryFits, NameAt
<1> HIDE DEF ze
<1>5. QED BY <1>1, <1>2, <1>4, ChangeStep

LEMMA RenameStep ==
  ASSUME IInv, NEW i \in DOMAIN entry, NEW name \in Nat, Rename(i, name)
  PROVE  IInv'
<1> DEFINE old == entry[i]
           ze == [old EXCEPT !.ch_filename = name,
                    !.state = IF @ = "UNCHANGED" THEN "RENAMED" ELSE @]
<1>1. /\ Edit /\ Rest /\ ch_flags' = ch_flags /\ revived' = revived
      /\ NameAt(old, i, cdir) # NULL /\ ~ Taken(entry, i, name)
      /\ entry' = SetName(entry, i, name)
  BY GetNameIsNameAt DEF Rename
<1>2. ch_flags' \in BOOLEAN /\ revived' \in BOOLEAN
  BY <1>1, Zenon DEF IInv, Control
<1>3. old \in Entry /\ EntryFits(old, i, Size(cdir)) /\ name # NULL
  BY EntriesAreSeq, NameAssumption DEF IInv, Entries
<1>4. CASE entry' = entry
  BY <1>1, <1>2, <1>4, EditStep DEF IInv, Named
<1>5. CASE entry' = [entry EXCEPT ![i] = ze]
  <2>1. /\ ze \in Entry /\ EntryFits(ze, i, Size(cdir))
        /\ NameAt(ze, i, cdir) = name
    BY <1>1, <1>3 DEF Entry, State, EntryFits, NameAt
  <2> HIDE DEF ze
  <2>2. Distinct(entry, cdir) =>
          \A k \in DOMAIN entry : k # i => NameAt(entry[k], k, cdir) # name
    BY <1>1, <1>3, EntriesAreSeq, NotTaken DEF IInv
  <2>3. QED BY <1>1, <1>2, <1>5, <2>1, <2>2, ChangeStep
<1>6. entry' = entry \/ entry' = [entry EXCEPT ![i] = ze]
  BY <1>1, <1>3 DEF SetName, Entry
<1>7. QED BY <1>4, <1>5, <1>6

LEMMA CommentStep ==
  ASSUME IInv, NEW i \in DOMAIN entry, NEW comment \in Comment,
         SetFileComment(i, comment)
  PROVE  IInv'
<1> DEFINE old == entry[i]
           ze == [old EXCEPT !.ch_comment = comment]
<1>1. /\ Edit /\ Rest /\ ch_flags' = ch_flags /\ revived' = revived
      /\ entry' = [entry EXCEPT ![i] = ze]
  BY DEF SetFileComment
<1>2. ch_flags' \in BOOLEAN /\ revived' \in BOOLEAN
  BY <1>1, Zenon DEF IInv, Control
<1>3. old \in Entry /\ EntryFits(old, i, Size(cdir))
  BY EntriesAreSeq DEF IInv, Entries
<1>4. /\ ze \in Entry /\ EntryFits(ze, i, Size(cdir))
      /\ NameAt(ze, i, cdir) = NameAt(old, i, cdir)
  BY <1>3 DEF Entry, State, EntryFits, NameAt
<1> HIDE DEF ze
<1>5. QED BY <1>1, <1>2, <1>4, ChangeStep

LEMMA UnchangeStep ==
  ASSUME IInv, NEW i \in DOMAIN entry, Unchange(i) PROVE IInv'
<1> DEFINE old == entry[i]
           ze == Unchanged(old)
<1>1. /\ Edit /\ Rest /\ ch_flags' = ch_flags
      /\ revived' = (revived \/ old.state = "DELETED")
      /\ ~ (old.ch_filename # NULL /\ Taken(entry, i, CdirName(i)))
      /\ entry' = [entry EXCEPT ![i] = ze]
  BY DEF Unchange
<1>2. ch_flags' \in BOOLEAN /\ revived' \in BOOLEAN
  BY <1>1, Zenon DEF IInv, Control
<1>3. old \in Entry /\ EntryFits(old, i, Size(cdir)) /\ i \in Nat
  BY EntriesAreSeq DEF IInv, Entries
<1>4. /\ ze \in Entry /\ EntryFits(ze, i, Size(cdir))
      /\ NameAt(ze, i, cdir) = CdirName(i)
  BY <1>3, UnchangedEntry, NentryIsSize DEF IInv, Entries, CdirName
<1>5. CASE old.ch_filename = NULL /\ old.state # "DELETED"
  <2>1. NameAt(old, i, cdir) = CdirName(i)
    BY <1>5, NentryIsSize DEF NameAt, CdirName
  <2> HIDE DEF ze
  <2>2. QED BY <1>1, <1>2, <1>4, <2>1, ChangeStep
<1>6. CASE old.state = "DELETED"
  <2> HIDE DEF ze
  <2>1. QED BY <1>1, <1>2, <1>4, <1>6, ChangeStep
<1>7. CASE old.ch_filename # NULL /\ ~ Taken(entry, i, CdirName(i))
  <2>1. CdirName(i) # NULL /\ Distinct(entry, cdir) =>
          \A k \in DOMAIN entry : k # i => NameAt(entry[k], k, cdir) # CdirName(i)
    BY <1>7, EntriesAreSeq, NotTaken DEF IInv
  <2> HIDE DEF ze
  <2>2. QED BY <1>1, <1>2, <1>4, <2>1, ChangeStep
<1>8. QED BY <1>1, <1>5, <1>6, <1>7

LEMMA UnchangeAllStep == ASSUME IInv, UnchangeAll PROVE IInv'
<1> DEFINE f == [i \in DOMAIN entry |-> Unchanged(entry[i])]
<1>1. /\ Edit /\ Rest /\ ch_flags' = flags /\ revived' = revived
      /\ entry' = f
  BY DEF UnchangeAll
<1>2. ch_flags' \in BOOLEAN /\ revived' \in BOOLEAN
  BY <1>1, Zenon DEF IInv, Control
<1>3. /\ DOMAIN entry = 1 .. Len(entry) /\ Len(entry) \in Nat
      /\ Size(cdir) \in Nat /\ Size(cdir) <= Len(entry) /\ IsDirectory(cdir)
  BY EntriesAreSeq DEF IInv, Entries
<1>4. ASSUME NEW i \in DOMAIN entry
      PROVE  /\ f[i] \in Entry /\ EntryFits(f[i], i, Size(cdir))
             /\ NameAt(f[i], i, cdir) =
                  IF i <= Size(cdir) THEN cdir.entry[i].name ELSE NULL
  <2>1. entry[i] \in Entry /\ EntryFits(entry[i], i, Size(cdir)) /\ i \in Nat
    BY EntriesAreSeq DEF IInv, Entries
  <2>2. QED BY <1>3, <2>1, UnchangedEntry
<1>5. DOMAIN f = 1 .. Len(entry)
  BY <1>3
<1>6. f \in Seq(Entry) /\ Len(f) = Len(entry)
  BY <1>3, <1>4
<1> HIDE DEF f
<1>7. Entries(f, cdir)
  BY <1>3, <1>4, <1>5, <1>6 DEF Entries
<1>8. ASSUME FileDistinct(cdir) PROVE Distinct(f, cdir)
  BY <1>3, <1>4, <1>5, <1>8 DEF Distinct, FileDistinct
<1>9. QED BY <1>1, <1>2, <1>7, <1>8, EditStep

(* Of the archive as a whole.                                              *)
LEMMA ArchiveStep ==
  ASSUME IInv,
         \/ \E comment \in Comment : SetArchiveComment(comment)
         \/ \E torrent \in BOOLEAN : SetArchiveFlag(torrent)
         \/ UnchangeArchive
  PROVE  IInv'
<1>1. /\ Edit /\ Rest /\ entry' = entry /\ revived' = revived
      /\ ch_flags' \in {ch_flags, flags} \cup BOOLEAN
  BY DEF SetArchiveComment, SetArchiveFlag, UnchangeArchive
<1>2. ch_flags' \in BOOLEAN /\ revived' \in BOOLEAN
  BY <1>1, Zenon DEF IInv, Control
<1>3. QED BY <1>1, <1>2, EditStep DEF IInv, Named

-----------------------------------------------------------------------------
(* zip_close                                                               *)

(* A step that leaves the entries and their names alone.                   *)
LEMMA Keeps ==
  ASSUME IInv, UNCHANGED <<cdir, entry, revived>>, Control' PROVE IInv'
BY DEF IInv, Named

LEMMA AddDataStep ==
  ASSUME IInv, NEW i \in DOMAIN entry, AddData(i) PROVE IInv'
<1> DEFINE old == entry[i]
           ze == [old EXCEPT !.source.reads = IF @ = 0 THEN 1 ELSE 2]
<1>1. /\ UNCHANGED <<pc, zp, cdir, flags, ch_flags, ch_comment, revived,
                      ops, faults, damaged>>
      /\ pc = "writing"
      /\ \/ entry' = entry
         \/ DataChanged(i) /\ entry' = [entry EXCEPT ![i] = ze]
  BY DEF AddData, NextFile
<1>2. Control'
  BY <1>1, Zenon DEF IInv, Control
<1>3. CASE entry' = entry
  BY <1>1, <1>2, <1>3, Keeps
<1>4. CASE DataChanged(i) /\ entry' = [entry EXCEPT ![i] = ze]
  <2>1. old \in Entry /\ EntryFits(old, i, Size(cdir))
    BY EntriesAreSeq DEF IInv, Entries
  <2>2. old.source # NULL
    BY <1>4, <2>1 DEF DataChanged, EntryFits
  <2>3. ze.source \in AnySource
    BY <2>1, <2>2 DEF Entry, AnySource
  <2>4. ze.source # NULL
    BY <2>3, NullAssumption DEF AnySource
  <2>5. /\ ze.state = old.state /\ ze.ch_filename = old.ch_filename
        /\ ze.ch_comment = old.ch_comment
    BY <2>1 DEF Entry
  <2>6. ze = [state |-> ze.state, source |-> ze.source,
              ch_filename |-> ze.ch_filename, ch_comment |-> ze.ch_comment]
    BY <2>1 DEF Entry
  <2> HIDE DEF ze
  <2>7. ze \in Entry
    BY <2>1, <2>3, <2>5, <2>6 DEF Entry
  <2>8. EntryFits(ze, i, Size(cdir))
    BY <1>4, <2>1, <2>4, <2>5 DEF DataChanged, EntryFits
  <2>9. NameAt(ze, i, cdir) = NameAt(old, i, cdir)
    BY <2>5 DEF NameAt
  <2>10. Entries(entry', cdir)
    BY <1>4, <2>7, <2>8, OneChanged DEF IInv
  <2>11. Distinct(entry, cdir) => Distinct(entry', cdir)
    BY <1>4, <2>9, OneRenamed
  <2>12. QED BY <1>1, <1>2, <2>10, <2>11 DEF IInv, Named
<1>5. QED BY <1>1, <1>3, <1>4

LEMMA CopyStep ==
  ASSUME IInv, NEW i \in DOMAIN entry, CopyData(i) \/ CopyGhost(i) PROVE IInv'
<1>1. /\ UNCHANGED <<pc, zp, cdir, flags, ch_flags, ch_comment, revived,
                      ops, faults, entry>>
      /\ pc = "writing" /\ damaged' \in {damaged, TRUE}
  BY DEF CopyData, CopyGhost, NextFile
<1>2. Control'
  BY <1>1, Zenon DEF IInv, Control
<1>3. QED BY <1>1, <1>2, Keeps

LEMMA CloseStep ==
  ASSUME IInv,
         \/ CloseUnchanged \/ CloseEmpty \/ CloseBegin \/ WriteCdir \/ CloseEnd
         \/ CloseEmptyFails \/ CloseFails \/ Killed \/ Cut
  PROVE  IInv'
<1>1. /\ damaged \in BOOLEAN /\ revived \in BOOLEAN
      /\ ops \in 0 .. MaxOps /\ faults \in 0 .. MaxFaults
  BY Zenon DEF IInv, Control
<1>2. CASE CloseUnchanged \/ CloseEmpty \/ CloseEnd
  <2>1. Freed /\ UNCHANGED <<damaged, ops, faults>>
    BY <1>1, <1>2, Zenon DEF CloseUnchanged, CloseEmpty, CloseEnd
  <2>2. QED BY <1>1, <2>1, FreedStep
<1>3. CASE Killed
  <2>1. Freed /\ UNCHANGED <<damaged, ops>> /\ Fault
    BY <1>3 DEF Killed
  <2>2. faults' \in 0 .. MaxFaults
    BY <1>1, <2>1, BoundAssumption DEF Fault
  <2>3. QED BY <1>1, <2>1, <2>2, FreedStep
<1>4. CASE CloseBegin \/ WriteCdir
  <2>1. /\ UNCHANGED <<handle, revived, damaged, ops, faults>>
        /\ pc' \in {"writing", "written"}
    BY <1>4 DEF CloseBegin, WriteCdir
  <2>2. Control'
    BY <2>1, Zenon DEF IInv, Control, handle
  <2>3. QED BY <2>1, <2>2, Keeps DEF handle
<1>5. CASE CloseFails
  <2>1. /\ UNCHANGED <<cdir, flags, ch_flags, entry, revived, damaged, ops>>
        /\ pc' = "open" /\ out' = NULL /\ Fault
    BY <1>5 DEF CloseFails
  <2>2. faults' \in 0 .. MaxFaults
    BY <1>1, <2>1, BoundAssumption DEF Fault
  <2>3. Control'
    BY <2>1, <2>2 DEF IInv, Control
  <2>4. QED BY <2>1, <2>3, Keeps
<1>6. CASE Cut
  <2>1. /\ UNCHANGED <<pc, handle, out, revived, ops>>
        /\ damaged' = TRUE /\ Fault
    BY <1>6 DEF Cut
  <2>2. faults' \in 0 .. MaxFaults
    BY <1>1, <2>1, BoundAssumption DEF Fault
  <2>3. Control'
    BY <2>1, <2>2, Zenon DEF IInv, Control, handle
  <2>4. QED BY <2>1, <2>3, Keeps DEF handle
<1>7. CASE CloseEmptyFails
  <2>1. /\ UNCHANGED <<handle, pc, out, revived, damaged, ops>>
        /\ Fault
    BY <1>7 DEF CloseEmptyFails
  <2>2. faults' \in 0 .. MaxFaults
    BY <1>1, <2>1, BoundAssumption DEF Fault
  <2>3. Control'
    BY <2>1, <2>2, Zenon DEF IInv, Control, handle
  <2>4. QED BY <2>1, <2>3, Keeps DEF handle
<1>8. QED BY <1>2, <1>3, <1>4, <1>5, <1>6, <1>7

-----------------------------------------------------------------------------
LEMMA NextIInv == IInv /\ [Next]_vars => IInv'
<1> SUFFICES ASSUME IInv, [Next]_vars PROVE IInv'
  OBVIOUS
<1>1. CASE UNCHANGED vars
  <2>1. Control'
    BY <1>1, Zenon DEF IInv, Control, vars, handle
  <2>2. QED BY <1>1, <2>1, Keeps DEF vars, handle
<1>2. ASSUME NEW check \in BOOLEAN, Open(check) \/ SetArchiveFlag(check)
      PROVE  IInv'
  BY <1>2, OpenStep, ArchiveStep
<1>3. ASSUME NEW name \in Name, AddDir(name) PROVE IInv'
  BY <1>3, AddStep, SourcesAreAny, NamesAreNat DEF AddDir
<1>4. ASSUME NEW name \in Name, NEW source \in Source, Add(name, source)
      PROVE  IInv'
  BY <1>4, AddStep, SourcesAreAny, NamesAreNat
<1>5. ASSUME NEW comment \in Comment, SetArchiveComment(comment) PROVE IInv'
  BY <1>5, ArchiveStep
<1>6. CASE UnchangeArchive \/ UnchangeAll
  BY <1>6, ArchiveStep, UnchangeAllStep
<1>7. ASSUME NEW i \in DOMAIN entry, NEW source \in Source, Replace(i, source)
      PROVE  IInv'
  BY <1>7, ReplaceStep, SourcesAreAny
<1>8. ASSUME NEW i \in DOMAIN entry, NEW name \in Name, Rename(i, name)
      PROVE  IInv'
  BY <1>8, RenameStep, NamesAreNat
<1>9. ASSUME NEW i \in DOMAIN entry, NEW comment \in Comment,
             SetFileComment(i, comment)
      PROVE  IInv'
  BY <1>9, CommentStep
<1>10. ASSUME NEW i \in DOMAIN entry, Delete(i) \/ Unchange(i) PROVE IInv'
  BY <1>10, DeleteStep, UnchangeStep
<1>11. ASSUME NEW i \in Survivors, AddData(i) \/ CopyData(i) \/ CopyGhost(i)
       PROVE  IInv'
  <2>1. i \in DOMAIN entry
    BY DEF Survivors
  <2>2. QED BY <1>11, <2>1, AddDataStep, CopyStep
<1>12. CASE \/ CloseUnchanged \/ CloseEmpty \/ CloseBegin \/ WriteCdir
            \/ CloseEnd \/ CloseEmptyFails \/ CloseFails \/ Killed \/ Cut
  BY <1>12, CloseStep
<1>13. QED
  BY <1>1, <1>2, <1>3, <1>4, <1>5, <1>6, <1>7, <1>8, <1>9, <1>10, <1>11, <1>12
  DEF Next

(* The state of each entry agrees with its new name and its new data, and  *)
(* the entries are at least those of the directory, whatever is called in  *)
(* whatever order and whichever steps of zip_close fail.                   *)
THEOREM TypeCorrect == Spec => []TypeOK
<1>1. IInv => TypeOK
  BY IInvImplies
<1>2. QED BY InitIInv, NextIInv, <1>1, PTL DEF Spec

(* The checks of zip_add, zip_rename and zip_unchange keep the names       *)
(* distinct as long as no deleted entry is brought back.                   *)
THEOREM NamesStayDistinct == Spec => []NamesDistinct
<1>1. IInv => NamesDistinct
  BY IInvImplies
<1>2. QED BY InitIInv, NextIInv, <1>1, PTL DEF Spec

(* When zip_close decides from the states of the entries alone that there  *)
(* is nothing to write, the handle shows just what is in the file.         *)
THEOREM NothingLost == Spec => []NoChangeLost
<1>1. IInv => NoChangeLost
  <2> SUFFICES ASSUME IInv, ~ Changed PROVE NoChangeLost
    BY DEF NoChangeLost
  <2>1. /\ ch_comment = NULL
        /\ \A i \in DOMAIN entry : /\ entry[i].state = "UNCHANGED"
                                   /\ entry[i].ch_comment = NULL
    BY DEF Changed
  <2>2. /\ DOMAIN entry = 1 .. Len(entry) /\ Len(entry) \in Nat
        /\ Nentry \in Nat /\ Nentry <= Len(entry)
    BY EntriesAreSeq, NentryIsSize DEF IInv
  <2>3. ASSUME NEW i \in DOMAIN entry PROVE GetName(entry, i) = CdirName(i)
    <3>1. entry[i].ch_filename = NULL
      BY <2>1 DEF IInv, Entries, EntryFits
    <3>2. QED BY <2>1, <3>1 DEF GetName
  <2>4. ASSUME NEW i \in 1 .. Nentry
        PROVE  /\ GetName(entry, i) = CdirName(i)
               /\ Data(i) = FileData(zp, cdir.entry[i])
               /\ FileComment(i) = cdir.entry[i].comment
    <3>1. i \in DOMAIN entry /\ i <= Nentry
      BY <2>2
    <3>2. ~ DataChanged(i)
      BY <2>1, <3>1 DEF DataChanged
    <3>3. QED BY <2>1, <2>3, <3>1, <3>2 DEF Data, FileComment
  <2>5. ASSUME NEW i \in DOMAIN entry, i > Nentry
        PROVE  GetName(entry, i) = NULL
    <3>1. ~ (i <= Nentry)
      BY <2>2, <2>5
    <3>2. QED BY <2>3, <3>1 DEF CdirName
  <2>6. cdir # NULL => ArchiveComment = cdir.comment
    BY <2>1 DEF ArchiveComment
  <2>7. QED BY <2>4, <2>5, <2>6 DEF NoChangeLost
<1>2. QED BY InitIInv, NextIInv, <1>1, PTL DEF Spec

(***************************************************************************)
(* Reading the files of an archive.                                        *)
(*                                                                         *)
(* Natural numbers: the principles of the least number and of induction, for *)
(* sets, and the largest and the smallest number of a set.                 *)
(***************************************************************************)

LEMMA LeastNatural ==
  ASSUME NEW S \in SUBSET Nat, S # {}
  PROVE  \E j \in S : \A k \in S : j <= k
<1>1. PICK j \in S : \A k \in S : <<k, j>> \notin OpToRel(<, Nat)
  BY NatLessThanWellFounded, WFMin
<1>2. \A k \in S : ~(k < j)
  BY <1>1 DEF OpToRel
<1>3. QED BY <1>2

LEMMA SetInduction ==
  ASSUME NEW S, 0 \in S, \A n \in Nat : n \in S => n + 1 \in S
  PROVE  \A n \in Nat : n \in S
<1> SUFFICES ASSUME Nat \ S # {} PROVE FALSE
  OBVIOUS
<1>1. PICK j \in Nat \ S : \A k \in Nat \ S : j <= k
  BY LeastNatural
<1>2. j - 1 \in Nat /\ j - 1 \notin Nat \ S
  BY <1>1
<1>3. QED BY <1>1, <1>2

LEMMA MaxExists ==
  ASSUME NEW n \in Nat, NEW S \in SUBSET (0 .. n), S # {}
  PROVE  Max(S) \in S /\ \A y \in S : y <= Max(S)
<1> DEFINE T == {n - x : x \in S}
<1>1. T \in SUBSET Nat /\ T # {}
  <2>1. \A x \in S : n - x \in Nat
    OBVIOUS
  <2>2. QED BY <2>1
<1> HIDE DEF T
<1>2. PICK j \in T : \A k \in T : j <= k
  BY <1>1, LeastNatural
<1>3. PICK x \in S : j = n - x
  BY DEF T
<1>4. \A y \in S : n - y \in T
  BY DEF T
<1>5. \A y \in S : n - x <= n - y
  BY <1>2, <1>3, <1>4
<1>6. \A y \in S : x >= y
  BY <1>5
<1>7. QED BY <1>6 DEF Max

Unrolled(s, f) ==
  f = [i \in 1 .. Len(s) |-> IF i = 1 THEN s[i] ELSE f[i - 1] \o s[i]]

LEMMA FlattenChoose ==
  ASSUME NEW s, Len(s) # 0
  PROVE  FlattenSeq(s) = (CHOOSE f : Unrolled(s, f))[Len(s)]
BY DEF FlattenSeq, Unrolled

(* g[i] is what the first i of the sequences of s are together, up to n.   *)
Parts(V, s, n, g) ==
  /\ g \in [0 .. n -> Seq(V)]
  /\ g[0] = <<>>
  /\ \A i \in 1 .. n : g[i] = g[i - 1] \o s[i]

LEMMA PartsNext ==
  ASSUME NEW V, NEW s, NEW n \in Nat, NEW g, Parts(V, s, n, g),
         s[n + 1] \in Seq(V)
  PROVE  \E h : Parts(V, s, n + 1, h)
<1> DEFINE next == g[n] \o s[n + 1]
           h == [i \in 0 .. n + 1 |-> IF i = n + 1 THEN next ELSE g[i]]
<1>1. g \in [0 .. n -> Seq(V)] /\ g[0] = <<>> /\ n \in 0 .. n
  BY DEF Parts
<1>2. next \in Seq(V)
  BY <1>1, ConcatProperties
<1> HIDE DEF next
<1>3. h[n + 1] = next
  OBVIOUS
<1>4. \A i \in 0 .. n : h[i] = g[i]
  OBVIOUS
<1>5. h \in [0 .. n + 1 -> Seq(V)]
  BY <1>1, <1>2
<1> HIDE DEF h
<1>6. h[n + 1] = h[(n + 1) - 1] \o s[n + 1]
  <2>1. (n + 1) - 1 = n
    OBVIOUS
  <2>2. QED BY <1>1, <1>3, <1>4, <2>1 DEF next
<1>7. ASSUME NEW i \in 1 .. n PROVE h[i] = h[i - 1] \o s[i]
  <2>1. i - 1 \in 0 .. n /\ i \in 0 .. n
    OBVIOUS
  <2>2. g[i] = g[i - 1] \o s[i]
    BY DEF Parts
  <2>3. QED BY <1>4, <2>1, <2>2
<1>8. ASSUME NEW i \in 1 .. n + 1 PROVE h[i] = h[i - 1] \o s[i]
  <2>1. i \in 1 .. n \/ i = n + 1
    OBVIOUS
  <2>2. CASE i = n + 1
    BY <1>6, <2>2
  <2>3. QED BY <1>7, <2>1, <2>2
<1>9. h[0] = <<>>
  BY <1>1, <1>4
<1>10. Parts(V, s, n + 1, h)
  BY <1>5, <1>8, <1>9 DEF Parts
<1>11. QED BY <1>10

LEMMA PartsExist ==
  ASSUME NEW V, NEW s, NEW m \in Nat, \A i \in 1 .. m : s[i] \in Seq(V)
  PROVE  \E g : Parts(V, s, m, g)
<1> DEFINE PartsTo(n) == \E g : Parts(V, s, n, g)
           S == {n \in Nat : n <= m => PartsTo(n)}
<1>1. PartsTo(0)
  <2> DEFINE g == [i \in 0 .. 0 |-> <<>>]
  <2>1. g \in [0 .. 0 -> Seq(V)] /\ g[0] = <<>>
    OBVIOUS
  <2> HIDE DEF g
  <2>2. Parts(V, s, 0, g)
    BY <2>1 DEF Parts
  <2>3. QED BY <2>2
<1>2. ASSUME NEW n \in Nat, n <= m => PartsTo(n), n + 1 <= m
      PROVE  PartsTo(n + 1)
  <2>1. n <= m /\ n + 1 \in 1 .. m
    BY <1>2
  <2>2. QED BY <1>2, <2>1, PartsNext
<1> HIDE DEF PartsTo
<1>3. 0 \in S /\ \A n \in Nat : n \in S => n + 1 \in S
  BY <1>1, <1>2
<1> HIDE DEF S
<1>4. m \in S
  BY <1>3, SetInduction
<1>5. PartsTo(m)
  BY <1>4 DEF S
<1>6. QED BY <1>5 DEF PartsTo

LEMMA PartsUnrolled ==
  ASSUME NEW V, NEW s, NEW g, Len(s) \in Nat \ {0}, Parts(V, s, Len(s), g),
         s[1] \in Seq(V)
  PROVE  Unrolled(s, [i \in 1 .. Len(s) |-> g[i]])
<1> DEFINE f == [i \in 1 .. Len(s) |-> g[i]]
<1>1. ASSUME NEW i \in 1 .. Len(s)
      PROVE  f[i] = IF i = 1 THEN s[i] ELSE f[i - 1] \o s[i]
  <2>1. f[i] = g[i] /\ g[i] = g[i - 1] \o s[i]
    BY DEF Parts
  <2>2. CASE i = 1
    <3>1. g[i - 1] = <<>>
      BY <2>2 DEF Parts
    <3>2. <<>> \o s[1] = s[1]
      BY ConcatEmptySeq
    <3>3. QED BY <2>1, <2>2, <3>1, <3>2
  <2>3. CASE i # 1
    <3>1. i - 1 \in 1 .. Len(s)
      BY <2>3
    <3>2. f[i - 1] = g[i - 1]
      BY <3>1
    <3> HIDE DEF f
    <3>3. QED BY <2>1, <2>3, <3>2
  <2>4. QED BY <2>2, <2>3
<1>2. QED BY <1>1 DEF Unrolled

LEMMA UnrolledIs ==
  ASSUME NEW V, NEW s, Len(s) \in Nat \ {0}, NEW g, Parts(V, s, Len(s), g),
         NEW f, Unrolled(s, f), s[1] \in Seq(V)
  PROVE  f[Len(s)] = g[Len(s)]
<1>0. PICK m \in Nat \ {0} : m = Len(s)
  OBVIOUS
<1> DEFINE S == {n \in Nat : n \in 1 .. m => f[n] = g[n]}
<1>1. ASSUME NEW n \in Nat, n \in 1 .. m => f[n] = g[n], n + 1 \in 1 .. m
      PROVE  f[n + 1] = g[n + 1]
  <2>1. (n + 1) - 1 = n
    OBVIOUS
  <2>2. /\ n = 0 => f[n + 1] = s[n + 1]
        /\ n # 0 => f[n + 1] = f[n] \o s[n + 1]
    <3>1. f[n + 1] = IF n + 1 = 1 THEN s[n + 1] ELSE f[(n + 1) - 1] \o s[n + 1]
      BY <1>0, <1>1 DEF Unrolled
    <3>2. n = 0 <=> n + 1 = 1
      OBVIOUS
    <3>3. QED BY <2>1, <3>1, <3>2
  <2>3. g[n + 1] = g[n] \o s[n + 1]
    <3>1. g[n + 1] = g[(n + 1) - 1] \o s[n + 1]
      BY <1>0, <1>1 DEF Parts
    <3>2. QED BY <2>1, <3>1
  <2>4. CASE n = 0
    <3>1. <<>> \o s[1] = s[1] /\ g[0] = <<>>
      BY ConcatEmptySeq DEF Parts
    <3>2. g[n + 1] = <<>> \o s[1]
      BY <2>3, <2>4, <3>1
    <3>3. QED BY <2>2, <2>4, <3>1, <3>2
  <2>5. CASE n # 0
    <3>1. n \in 1 .. m
      BY <1>1, <2>5
    <3>2. f[n] = g[n]
      BY <1>1, <3>1
    <3>3. QED BY <2>2, <2>3, <2>5, <3>2
  <2>6. QED BY <2>4, <2>5
<1>2. 0 \in S /\ \A n \in Nat : n \in S => n + 1 \in S
  BY <1>1
<1> HIDE DEF S
<1>3. m \in S
  BY <1>2, SetInduction
<1>4. QED BY <1>0, <1>3 DEF S

LEMMA FlattenIs ==
  ASSUME NEW V, NEW s \in Seq(Seq(V)), NEW g, Parts(V, s, Len(s), g)
  PROVE  FlattenSeq(s) = g[Len(s)]
<1>1. Len(s) \in Nat
  OBVIOUS
<1>2. CASE Len(s) = 0
  BY <1>2 DEF FlattenSeq, Parts
<1>3. CASE Len(s) # 0
  <2>1. s[1] \in Seq(V)
    BY <1>1, <1>3, ElementOfSeq
  <2>2. Unrolled(s, [i \in 1 .. Len(s) |-> g[i]])
    BY <1>1, <1>3, <2>1, PartsUnrolled
  <2> DEFINE f == CHOOSE f : Unrolled(s, f)
  <2>3. Unrolled(s, f)
    BY <2>2
  <2> HIDE DEF f
  <2>4. f[Len(s)] = g[Len(s)]
    <3>1. Len(s) \in Nat \ {0}
      BY <1>1, <1>3
    <3>2. QED BY <2>1, <2>3, <3>1, UnrolledIs, Zenon
  <2>5. QED BY <1>3, <2>4, FlattenChoose DEF f
<1>4. QED BY <1>2, <1>3

(* What one sequence more adds.                                            *)
LEMMA FlattenMore ==
  ASSUME NEW V, NEW s \in Seq(Seq(V)), NEW n \in 0 .. Len(s) - 1
  PROVE  /\ FlattenSeq(SubSeq(s, 1, n)) \in Seq(V)
         /\ FlattenSeq(SubSeq(s, 1, n + 1))
              = FlattenSeq(SubSeq(s, 1, n)) \o s[n + 1]
<1>1. Len(s) \in Nat /\ \A i \in 1 .. Len(s) : s[i] \in Seq(V)
  BY ElementOfSeq
<1>2. PICK g : Parts(V, s, Len(s), g)
  BY <1>1, PartsExist
<1>3. ASSUME NEW k \in 0 .. Len(s)
      PROVE  /\ FlattenSeq(SubSeq(s, 1, k)) = g[k]
             /\ g[k] \in Seq(V)
  <2> DEFINE t == SubSeq(s, 1, k)
             h == [i \in 0 .. k |-> g[i]]
  <2>1. t \in Seq(Seq(V)) /\ Len(t) = k /\ \A i \in 1 .. k : t[i] = s[i]
    BY <1>1, SubSeqProperties
  <2>2. g \in [0 .. Len(s) -> Seq(V)] /\ g[0] = <<>>
    BY <1>2 DEF Parts
  <2>3. h \in [0 .. k -> Seq(V)] /\ h[0] = <<>> /\ h[k] = g[k]
    <3>1. k \in Nat /\ 0 .. k \subseteq 0 .. Len(s) /\ 0 \in 0 .. k /\ k \in 0 .. k
      BY <1>1
    <3>2. QED BY <2>2, <3>1
  <2>4. ASSUME NEW i \in 1 .. k PROVE h[i] = h[i - 1] \o s[i]
    <3>1. i \in 1 .. Len(s) /\ i \in 0 .. k /\ i - 1 \in 0 .. k
      BY <1>1
    <3>2. g[i] = g[i - 1] \o s[i]
      BY <1>2, <3>1 DEF Parts
    <3>3. QED BY <3>1, <3>2
  <2> HIDE DEF t, h
  <2>5. Parts(V, t, k, h)
    BY <2>1, <2>3, <2>4 DEF Parts
  <2>6. FlattenSeq(t) = h[k]
    BY <2>1, <2>5, FlattenIs
  <2>7. QED BY <2>2, <2>3, <2>6 DEF t
<1>4. n \in 0 .. Len(s) /\ n + 1 \in 0 .. Len(s) /\ n + 1 \in 1 .. Len(s)
  BY <1>1
<1>5. g[n + 1] = g[(n + 1) - 1] \o s[n + 1] /\ (n + 1) - 1 = n
  <2>1. (n + 1) - 1 = n
    BY <1>1
  <2>2. \A i \in 1 .. Len(s) : g[i] = g[i - 1] \o s[i]
    BY <1>2 DEF Parts
  <2>3. QED BY <1>4, <2>1, <2>2
<1>6. QED BY <1>3, <1>4, <1>5
(* What one piece more inflates to.                                        *)
LEMMA InflatedMore ==
  ASSUME NEW U, NEW V, NEW raw \in Seq(U), NEW m \in 0 .. Len(raw),
         \A k \in 1 .. m : raw[k].deflated \in Seq(V)
  PROVE  /\ \A n \in 0 .. m : Inflated(SubSeq(raw, 1, n)) \in Seq(V)
         /\ \A n \in 0 .. m - 1 :
              Inflated(SubSeq(raw, 1, n + 1))
                = Inflated(SubSeq(raw, 1, n)) \o raw[n + 1].deflated
<1> DEFINE s == [k \in 1 .. m |-> raw[k].deflated]
<1>1. Len(raw) \in Nat /\ m \in Nat /\ m <= Len(raw)
  OBVIOUS
<1>2. s \in Seq(Seq(V)) /\ Len(s) = m /\ \A k \in 1 .. m : s[k] = raw[k].deflated
  BY <1>1
<1> HIDE DEF s
<1>3. ASSUME NEW n \in 0 .. m
      PROVE  Inflated(SubSeq(raw, 1, n)) = FlattenSeq(SubSeq(s, 1, n))
  <2> DEFINE t == SubSeq(raw, 1, n)
             u == SubSeq(s, 1, n)
             v == [k \in DOMAIN t |-> t[k].deflated]
  <2>1. n \in Nat /\ n <= m /\ \A k \in 1 .. n : k \in 1 .. m /\ k \in 1 .. Len(raw)
    BY <1>1
  <2>2. t \in Seq(U) /\ Len(t) = n /\ \A k \in 1 .. n : t[k] = raw[k]
    BY <1>1, <2>1, SubSeqProperties
  <2>3. u \in Seq(Seq(V)) /\ Len(u) = n /\ \A k \in 1 .. n : u[k] = s[k]
    BY <1>2, <2>1, SubSeqProperties
  <2>4. DOMAIN t = 1 .. n /\ DOMAIN u = 1 .. n
    BY <2>2, <2>3, LenProperties
  <2>5. u = [k \in 1 .. n |-> u[k]]
    BY <2>3, IsASeq
  <2> HIDE DEF t, u
  <2>6. \A k \in 1 .. n : v[k] = u[k]
    BY <1>2, <2>1, <2>2, <2>3, <2>4
  <2>7. v = u
    BY <2>4, <2>5, <2>6
  <2>8. Inflated(t) = FlattenSeq(v)
    BY DEF Inflated
  <2>9. QED BY <2>7, <2>8 DEF t, u
<1>4. ASSUME NEW n \in 0 .. m - 1
      PROVE  /\ FlattenSeq(SubSeq(s, 1, n)) \in Seq(V)
             /\ FlattenSeq(SubSeq(s, 1, n + 1))
                  = FlattenSeq(SubSeq(s, 1, n)) \o raw[n + 1].deflated
  <2>1. n + 1 \in 1 .. m
    BY <1>1
  <2>2. s[n + 1] = raw[n + 1].deflated
    BY <1>2, <2>1
  <2>3. n \in 0 .. Len(s) - 1
    BY <1>2
  <2>4. QED BY <1>2, <2>2, <2>3, FlattenMore
<1>5. ASSUME NEW n \in 0 .. m PROVE FlattenSeq(SubSeq(s, 1, n)) \in Seq(V)
  <2>1. CASE m = 0
    <3>1. n = 0
      BY <2>1
    <3>2. SubSeq(s, 1, n) = <<>> /\ Len(<<>>) = 0
      BY <1>2, <3>1, SubSeqEmpty
    <3>3. FlattenSeq(<<>>) = <<>>
      BY DEF FlattenSeq
    <3>4. QED BY <3>2, <3>3, EmptySeq
  <2>2. CASE m # 0 /\ n = m
    <3>1. m - 1 \in 0 .. m - 1 /\ (m - 1) + 1 = m /\ m \in 1 .. Len(raw)
      BY <1>1, <2>2
    <3>2. m \in 1 .. m
      BY <1>1, <2>2
    <3>3. raw[m].deflated \in Seq(V)
      BY <3>2
    <3>4. FlattenSeq(SubSeq(s, 1, m))
            = FlattenSeq(SubSeq(s, 1, m - 1)) \o raw[m].deflated
      BY <1>4, <3>1
    <3>5. FlattenSeq(SubSeq(s, 1, m - 1)) \in Seq(V)
      BY <1>4, <3>1
    <3>6. QED BY <2>2, <3>3, <3>4, <3>5, ConcatProperties
  <2>3. CASE n # m
    <3>1. n \in 0 .. m - 1
      BY <1>1, <2>3
    <3>2. QED BY <1>4, <3>1
  <2>4. QED BY <2>1, <2>2, <2>3
<1>6. ASSUME NEW n \in 0 .. m - 1
      PROVE  Inflated(SubSeq(raw, 1, n + 1))
               = Inflated(SubSeq(raw, 1, n)) \o raw[n + 1].deflated
  <2>1. n \in 0 .. m /\ n + 1 \in 0 .. m
    BY <1>1
  <2>2. QED BY <1>3, <1>4, <2>1
<1>7. QED BY <1>3, <1>5, <1>6

(* What follows adds to what was inflated before.                          *)
LEMMA InflatedSplit ==
  ASSUME NEW U, NEW V, NEW raw \in Seq(U), NEW m \in 0 .. Len(raw),
         \A k \in 1 .. m : raw[k].deflated \in Seq(V), NEW n \in 0 .. m
  PROVE  /\ Inflated(SubSeq(raw, n + 1, m)) \in Seq(V)
         /\ Inflated(SubSeq(raw, 1, m))
              = Inflated(SubSeq(raw, 1, n)) \o Inflated(SubSeq(raw, n + 1, m))
<1> DEFINE rest == SubSeq(raw, n + 1, m)
           Together(j) == Inflated(SubSeq(raw, 1, n + j))
                            = Inflated(SubSeq(raw, 1, n))
                                \o Inflated(SubSeq(rest, 1, j))
           S == {j \in Nat : j <= m - n => Together(j)}
<1>1. Len(raw) \in Nat /\ m \in Nat /\ m <= Len(raw) /\ n \in Nat /\ n <= m
  OBVIOUS
<1>2. /\ rest \in Seq(U) /\ Len(rest) = m - n
      /\ \A k \in 1 .. m - n : rest[k] = raw[n + k]
  <2>1. /\ n + 1 \in 1 .. Len(raw) + 1 /\ m \in n .. Len(raw)
        /\ n + 1 \in Int /\ m \in Int
    BY <1>1
  <2>2. rest \in Seq(U) /\ Len(rest) = IF n + 1 <= m THEN m - (n + 1) + 1 ELSE 0
    BY <1>1, <2>1, SubSeqProperties
  <2>3. Len(rest) = m - n
    BY <1>1, <2>2
  <2>4. ASSUME NEW k \in 1 .. m - n PROVE rest[k] = raw[n + k]
    <3>1. rest[k] = raw[(n + 1) + k - 1]
      BY <1>1, <2>1, <2>3, SubSeqProperties
    <3>2. QED BY <1>1, <3>1
  <2>5. QED BY <2>2, <2>3, <2>4
<1>3. \A k \in 1 .. m - n : rest[k].deflated \in Seq(V)
  <2>1. \A k \in 1 .. m - n : n + k \in 1 .. m
    BY <1>1
  <2>2. QED BY <1>2, <2>1
<1> HIDE DEF rest
<1>4. m - n \in 0 .. Len(rest)
  BY <1>1, <1>2
<1>5. /\ \A k \in 0 .. m - n : Inflated(SubSeq(rest, 1, k)) \in Seq(V)
      /\ \A k \in 0 .. m - n - 1 :
           Inflated(SubSeq(rest, 1, k + 1))
             = Inflated(SubSeq(rest, 1, k)) \o rest[k + 1].deflated
  BY <1>2, <1>3, <1>4, InflatedMore, ZenonT(60)
<1>6. /\ \A k \in 0 .. m : Inflated(SubSeq(raw, 1, k)) \in Seq(V)
      /\ \A k \in 0 .. m - 1 :
           Inflated(SubSeq(raw, 1, k + 1))
             = Inflated(SubSeq(raw, 1, k)) \o raw[k + 1].deflated
  BY InflatedMore, ZenonT(60)
<1>7. Together(0)
  <2>1. SubSeq(rest, 1, 0) = <<>> /\ Inflated(<<>>) = <<>>
    <3>1. SubSeq(rest, 1, 0) = <<>>
      BY <1>2, SubSeqEmpty
    <3>2. [k \in DOMAIN <<>> |-> <<>>[k].deflated] = <<>>
      OBVIOUS
    <3>3. FlattenSeq(<<>>) = <<>>
      BY DEF FlattenSeq
    <3>4. QED BY <3>1, <3>2, <3>3 DEF Inflated
  <2>2. Inflated(SubSeq(raw, 1, n)) \in Seq(V) /\ n + 0 = n
    BY <1>1, <1>6
  <2>3. Inflated(SubSeq(raw, 1, n)) \o <<>> = Inflated(SubSeq(raw, 1, n))
    BY <2>2, ConcatEmptySeq
  <2>4. QED BY <2>1, <2>2, <2>3
<1>8. ASSUME NEW j \in Nat, Together(j), j + 1 <= m - n PROVE Together(j + 1)
  <2> DEFINE a == Inflated(SubSeq(raw, 1, n))
             b == Inflated(SubSeq(rest, 1, j))
             c == rest[j + 1].deflated
  <2>1. /\ n + j \in 0 .. m - 1 /\ j \in 0 .. m - n - 1 /\ j + 1 \in 1 .. m - n
        /\ j \in 0 .. m - n /\ n \in 0 .. m
        /\ (n + j) + 1 = n + (j + 1)
    BY <1>1, <1>8
  <2>2. rest[j + 1] = raw[(n + j) + 1]
    BY <1>2, <2>1
  <2>3. Inflated(SubSeq(raw, 1, (n + j) + 1))
          = Inflated(SubSeq(raw, 1, n + j)) \o raw[(n + j) + 1].deflated
    BY <1>6, <2>1
  <2>4. Inflated(SubSeq(rest, 1, j + 1)) = b \o c
    BY <1>5, <2>1
  <2>5. a \in Seq(V) /\ b \in Seq(V) /\ c \in Seq(V)
    BY <1>3, <1>5, <1>6, <2>1
  <2>6. Inflated(SubSeq(raw, 1, n + (j + 1))) = (a \o b) \o c
    BY <1>8, <2>1, <2>2, <2>3
  <2> HIDE DEF a, b, c
  <2>7. (a \o b) \o c = a \o (b \o c)
    BY <2>5, ConcatAssociative
  <2>8. QED BY <2>4, <2>6, <2>7 DEF a
<1> HIDE DEF Together
<1>9. 0 \in S /\ \A j \in Nat : j \in S => j + 1 \in S
  BY <1>1, <1>7, <1>8
<1> HIDE DEF S
<1>10. m - n \in S
  BY <1>1, <1>9, SetInduction
<1>11. Together(m - n)
  BY <1>1, <1>10 DEF S
<1>12. SubSeq(rest, 1, m - n) = rest /\ n + (m - n) = m /\ m - n \in 0 .. m - n
  BY <1>1, <1>2, SubSeqFull
<1>13. QED BY <1>5, <1>11, <1>12 DEF Together, rest

LEMMA MinPair ==
  ASSUME NEW a \in Int, NEW b \in Int
  PROVE  Min({a, b}) = IF a <= b THEN a ELSE b
BY DEF Min

(* What a part of a sequence consists of.                                  *)
LEMMA SubSeqPart ==
  ASSUME NEW U, NEW s \in Seq(U), NEW a \in Nat, NEW b \in a .. Len(s)
  PROVE  /\ SubSeq(s, a + 1, b) \in Seq(U)
         /\ Len(SubSeq(s, a + 1, b)) = b - a
         /\ \A k \in 1 .. b - a : SubSeq(s, a + 1, b)[k] = s[a + k]
<1> DEFINE t == SubSeq(s, a + 1, b)
<1>1. Len(s) \in Nat /\ b \in Nat /\ a <= b /\ b <= Len(s)
  OBVIOUS
<1>2. \A k \in a + 1 .. b : s[k] \in U
  BY <1>1, ElementOfSeq
<1>3. /\ t \in Seq(U)
      /\ Len(t) = IF a + 1 <= b THEN b - (a + 1) + 1 ELSE 0
      /\ \A k \in 1 .. b - (a + 1) + 1 : t[k] = s[(a + 1) + k - 1]
  BY <1>1, <1>2, SubSeqProperties
<1>4. \A k \in 1 .. b - a : k \in 1 .. b - (a + 1) + 1 /\ (a + 1) + k - 1 = a + k
  BY <1>1
<1> HIDE DEF t
<1>5. Len(t) = b - a /\ \A k \in 1 .. b - a : t[k] = s[a + k]
  BY <1>1, <1>3, <1>4
<1>6. QED BY <1>3, <1>5 DEF t

(* A part of a part of a sequence.                                         *)
LEMMA SubSeqNested ==
  ASSUME NEW U, NEW s \in Seq(U), NEW a \in Nat, NEW b \in a .. Len(s),
         NEW i \in Nat, NEW j \in i .. b - a
  PROVE  SubSeq(SubSeq(s, a + 1, b), i + 1, j) = SubSeq(s, a + i + 1, a + j)
<1> DEFINE t == SubSeq(s, a + 1, b)
           u == SubSeq(t, i + 1, j)
           v == SubSeq(s, a + i + 1, a + j)
<1>1. Len(s) \in Nat /\ b \in Nat /\ j \in Nat /\ a <= b /\ b <= Len(s) /\ i <= j
      /\ a + j <= b
  OBVIOUS
<1>2. t \in Seq(U) /\ Len(t) = b - a /\ \A k \in 1 .. b - a : t[k] = s[a + k]
  BY SubSeqPart
<1> HIDE DEF t
<1>3. u \in Seq(U) /\ Len(u) = j - i /\ \A k \in 1 .. j - i : u[k] = t[i + k]
  <2>1. j \in i .. Len(t)
    BY <1>1, <1>2
  <2>2. t \in Seq(U)
    BY <1>2
  <2>3. /\ SubSeq(t, i + 1, j) \in Seq(U) /\ Len(SubSeq(t, i + 1, j)) = j - i
        /\ \A k \in 1 .. j - i : SubSeq(t, i + 1, j)[k] = t[i + k]
    BY <2>1, <2>2, SubSeqPart
  <2>4. QED BY <2>3, Zenon
<1>4. v \in Seq(U) /\ Len(v) = j - i /\ \A k \in 1 .. j - i : v[k] = s[a + i + k]
  <2>1. PICK c \in Nat, d \in Nat : c = a + i /\ d = a + j
    BY <1>1
  <2>2. d \in c .. Len(s) /\ d - c = j - i
    BY <1>1, <2>1
  <2>3. /\ SubSeq(s, c + 1, d) \in Seq(U) /\ Len(SubSeq(s, c + 1, d)) = d - c
        /\ \A k \in 1 .. d - c : SubSeq(s, c + 1, d)[k] = s[c + k]
    BY <2>2, SubSeqPart
  <2>4. v = SubSeq(s, c + 1, d)
    BY <2>1
  <2> HIDE DEF v
  <2>5. QED BY <2>1, <2>2, <2>3, <2>4
<1> HIDE DEF u, v
<1>5. ASSUME NEW k \in 1 .. j - i PROVE u[k] = v[k]
  <2>1. i + k \in 1 .. b - a /\ a + (i + k) = a + i + k
    BY <1>1
  <2>2. QED BY <1>2, <1>3, <1>4, <2>1
<1>6. u = v
  BY <1>3, <1>4, <1>5, SeqEqual
<1>7. QED BY <1>6 DEF u, v, t

LEMMA SplitPart ==
  ASSUME NEW U, NEW s \in Seq(U), NEW a \in Nat, NEW b \in Nat,
         a + b <= Len(s)
  PROVE  SubSeq(s, 1, a + b) = SubSeq(s, 1, a) \o SubSeq(s, a + 1, a + b)
<1> DEFINE u == SubSeq(s, 1, a)
           v == SubSeq(s, a + 1, a + b)
           w == SubSeq(s, 1, a + b)
<1>1. Len(s) \in Nat
  OBVIOUS
<1>2. /\ 0 \in Nat /\ a \in 0 .. Len(s) /\ a + b \in 0 .. Len(s)
      /\ a + b \in a .. Len(s) /\ 0 + 1 = 1
  BY <1>1
<1>3. u \in Seq(U) /\ Len(u) = a /\ \A k \in 1 .. a : u[k] = s[k]
  <2>1. /\ SubSeq(s, 0 + 1, a) \in Seq(U) /\ Len(SubSeq(s, 0 + 1, a)) = a - 0
        /\ \A k \in 1 .. a - 0 : SubSeq(s, 0 + 1, a)[k] = s[0 + k]
    BY <1>2, SubSeqPart
  <2>2. \A k \in 1 .. a : 0 + k = k
    OBVIOUS
  <2>3. a - 0 = a
    OBVIOUS
  <2>4. QED BY <1>2, <2>1, <2>2, <2>3
<1>4. w \in Seq(U) /\ Len(w) = a + b /\ \A k \in 1 .. a + b : w[k] = s[k]
  <2>1. /\ SubSeq(s, 0 + 1, a + b) \in Seq(U)
        /\ Len(SubSeq(s, 0 + 1, a + b)) = (a + b) - 0
        /\ \A k \in 1 .. (a + b) - 0 : SubSeq(s, 0 + 1, a + b)[k] = s[0 + k]
    BY <1>2, SubSeqPart
  <2>2. \A k \in 1 .. a + b : 0 + k = k
    OBVIOUS
  <2>3. (a + b) - 0 = a + b
    OBVIOUS
  <2>4. QED BY <1>2, <2>1, <2>2, <2>3
<1>5. v \in Seq(U) /\ Len(v) = b /\ \A k \in 1 .. b : v[k] = s[a + k]
  <2>1. (a + b) - a = b
    OBVIOUS
  <2>2. QED BY <1>2, <2>1, SubSeqPart
<1> HIDE DEF u, v, w
<1>6. /\ u \o v \in Seq(U) /\ Len(u \o v) = a + b
      /\ \A k \in 1 .. a + b :
           (u \o v)[k] = IF k <= a THEN u[k] ELSE v[k - a]
  BY <1>3, <1>5, ConcatProperties
<1>7. ASSUME NEW k \in 1 .. a + b PROVE w[k] = (u \o v)[k]
  <2>1. CASE k <= a
    <3>1. k \in 1 .. a
      BY <2>1
    <3>2. QED BY <1>3, <1>4, <1>6, <2>1, <3>1
  <2>2. CASE ~(k <= a)
    <3>1. k - a \in 1 .. b /\ a + (k - a) = k
      BY <2>2
    <3>2. QED BY <1>4, <1>5, <1>6, <2>2, <3>1
  <2>3. QED BY <2>1, <2>2
<1>8. w = u \o v
  BY <1>4, <1>6, <1>7, SeqEqual
<1>9. QED BY <1>8 DEF u, v, w

LEMMA PrefixIs ==
  ASSUME NEW V, NEW s \in Seq(V), NEW n \in 0 .. Len(s)
  PROVE  IsPrefix(SubSeq(s, 1, n), s)
<1>1. PICK m \in Nat : m = n /\ m <= Len(s) /\ Len(s) \in Nat
  BY LenProperties
<1>2. m \in 0 .. Len(s) /\ 0 + 1 = 1 /\ m - 0 = m /\ 0 \in Nat
  BY <1>1
<1>3. Len(SubSeq(s, 0 + 1, m)) = m - 0
  BY <1>2, SubSeqPart
<1>4. Len(SubSeq(s, 1, m)) = m
  BY <1>2, <1>3
<1>5. IsPrefix(SubSeq(s, 1, m), s)
  BY <1>1, <1>4 DEF IsPrefix
<1>6. QED BY <1>1, <1>5

LEMMA PrefixOfConcat ==
  ASSUME NEW V, NEW s \in Seq(V), NEW t \in Seq(V)
  PROVE  IsPrefix(s, s \o t)
<1>1. SubSeq(s, 1, Len(s)) = SubSeq(s \o t, 1, Len(s))
  OBVIOUS
<1>2. Len(s) <= Len(s \o t)
  BY ConcatProperties
<1>3. QED BY <1>1, <1>2 DEF IsPrefix

-----------------------------------------------------------------------------
(* The inductive invariant.  A file has its place in the archive: the      *)
(* units Got of its data have been read, and inflate has taken Done of     *)
(* them.                                                                   *)
Start(de) == de.offset + LENTRYSIZE
RawIn(z, de) ==
  SubSeq(z.zp, Start(de) + 1, Min({Start(de) + de.comp_size, Len(z.zp)}))

EntryOf(z, f) == z.entry[f.idx]
RawOf(z, f) == RawIn(z, EntryOf(z, f))
Got(z, f) == EntryOf(z, f).comp_size - f.cbytes_left
Done(z, f) == Got(z, f) - Len(f.buffer)

Placed(z, f) ==
  /\ Start(EntryOf(z, f)) <= Len(z.zp)
  /\ f.cbytes_left <= EntryOf(z, f).comp_size
  /\ f.fpos = Start(EntryOf(z, f)) + Got(z, f)
  /\ Got(z, f) <= Len(RawOf(z, f))
  /\ Len(f.buffer) <= Got(z, f)
  /\ f.buffer = SubSeq(RawOf(z, f), Done(z, f) + 1, Got(z, f))

(* What has been delivered, and, while all is well, what a call has in     *)
(* outbuf, is what the pieces inflate has taken inflate to.                *)
Inflates(z, f, outbuf) ==
  LET data == Inflated(SubSeq(RawOf(z, f), 1, Done(z, f)))
  IN /\ \A k \in 1 .. Done(z, f) : IsPiece(RawOf(z, f)[k])
     /\ IsPrefix(f.crc, data)
     /\ f.error = "ok" => f.crc \o outbuf = data

Copies(z, f) ==
  /\ f.crc = SubSeq(RawOf(z, f), 1, Got(z, f))
  /\ f.bytes_left = f.cbytes_left
  /\ f.buffer = <<>> /\ ~ f.ended

FileOK(z, f, outbuf) ==
  /\ Placed(z, f)
  /\ IF f.decomp THEN f.check /\ Inflates(z, f, outbuf) ELSE Copies(z, f)
  /\ f.crc_orig = EntryOf(z, f).sum
  /\ (f.eof /\ f.error = "ok" /\ f.check) => f.crc = f.crc_orig

Out(h) == IF call # NULL /\ call.h = h THEN call.outbuf ELSE <<>>

FilesOK == \A h \in Handle : zf[h] # NULL => FileOK(zip, zf[h], Out(h))

CallOK == call # NULL => zf[call.h].bytes_left > 0

RetOK ==
  ret # NULL =>
    /\ ret[1] \in Handle /\ zf[ret[1]] # NULL
    /\ (ret[2] = 0 /\ zf[ret[1]].check) => zf[ret[1]].crc = zf[ret[1]].crc_orig

(* When the archive is closed, its files get an error.                     *)
ClosedOK ==
  za # "open" => \A h \in Handle : zf[h] # NULL => zf[h].error # "ok"

FilesIInv ==
  zip \in OnDisk /\ FilesTypeOK /\ FilesOK /\ CallOK /\ RetOK /\ ClosedOK

-----------------------------------------------------------------------------
(* What the assumptions say of the archive that is open.                   *)
LEMMA ArchiveType ==
  ASSUME zip \in OnDisk
  PROVE  /\ zip.zp \in Seq(Range(zip.zp)) /\ Len(zip.zp) \in Nat
         /\ Range(zip.zp) \subseteq Datum(zip)
         /\ \A unit \in Range(zip.zp) :
              IsPiece(unit) => unit.deflated \in Seq(Datum(zip))
<1>1. zip.zp \in Seq(Range(zip.zp))
  BY ZipAssumption
<1>2. Len(zip.zp) \in Nat
  BY <1>1, LenProperties
<1>3. Range(zip.zp) \subseteq Datum(zip)
  BY DEF Datum
<1>4. ASSUME NEW unit \in Range(zip.zp), IsPiece(unit)
      PROVE  unit.deflated \in Seq(Datum(zip))
  <2>1. unit.deflated \in Seq(Range(unit.deflated))
    BY <1>4, ZipAssumption
  <2>2. Range(unit.deflated) \subseteq Datum(zip)
    BY <1>4 DEF Datum
  <2>3. QED BY <2>1, <2>2, SeqMonotonic
<1>5. QED BY <1>1, <1>2, <1>3, <1>4

LEMMA EntryType ==
  ASSUME zip \in OnDisk, NEW i \in DOMAIN zip.entry
  PROVE  LET de == zip.entry[i]
         IN /\ de \in Range(zip.entry) /\ de.sum # NULL
            /\ de.offset \in Nat /\ Start(de) \in Nat /\ Start(de) = de.offset + 1
            /\ de.comp_size \in 0 .. ULong - 1
            /\ de.uncomp_size \in 0 .. ULong - 1
            /\ de.comp_size \in Nat /\ de.uncomp_size \in Nat
<1> DEFINE de == zip.entry[i]
<1>1. de \in Range(zip.entry)
  BY DEF Range
<1>2. /\ de.sum # NULL /\ de.offset \in Nat
      /\ de.comp_size \in 0 .. ULong - 1 /\ de.uncomp_size \in 0 .. ULong - 1
  BY <1>1, ZipAssumption
<1> HIDE DEF de
<1>3. de.comp_size \in Nat /\ de.uncomp_size \in Nat
  BY <1>2, SizeAssumption
<1>4. QED BY <1>1, <1>2, <1>3 DEF de, Start, LENTRYSIZE

LEMMA RawType ==
  ASSUME zip \in OnDisk, NEW i \in DOMAIN zip.entry,
         Start(zip.entry[i]) <= Len(zip.zp)
  PROVE  LET de == zip.entry[i]
             raw == RawIn(zip, de)
         IN /\ raw \in Seq(Range(zip.zp)) /\ Len(raw) \in 0 .. de.comp_size
            /\ \/ Len(raw) = de.comp_size
               \/ Start(de) + Len(raw) = Len(zip.zp)
            /\ Start(de) + Len(raw) <= Len(zip.zp)
            /\ raw = SubSeq(zip.zp, Start(de) + 1, Start(de) + Len(raw))
            /\ \A k \in 1 .. Len(raw) :
                 IsPiece(raw[k]) => raw[k].deflated \in Seq(Datum(zip))
<1> DEFINE de == zip.entry[i]
           raw == RawIn(zip, de)
           end == Min({Start(de) + de.comp_size, Len(zip.zp)})
<1>1. /\ Start(de) \in Nat /\ de.comp_size \in Nat /\ Start(de) <= Len(zip.zp)
      /\ Len(zip.zp) \in Nat /\ zip.zp \in Seq(Range(zip.zp))
  BY ArchiveType, EntryType
<1>2. raw = SubSeq(zip.zp, Start(de) + 1, end)
  BY DEF RawIn
<1> HIDE DEF de, raw
<1>3. end = IF Start(de) + de.comp_size <= Len(zip.zp) THEN Start(de) + de.comp_size
                                                     ELSE Len(zip.zp)
  BY <1>1, MinPair
<1> HIDE DEF end
<1>4. end \in Start(de) .. Len(zip.zp) /\ end <= Start(de) + de.comp_size
  BY <1>1, <1>3
<1>5. raw \in Seq(Range(zip.zp)) /\ Len(raw) = end - Start(de)
  BY <1>1, <1>2, <1>4, SubSeqPart
<1>6. Len(raw) \in 0 .. de.comp_size /\ Start(de) + Len(raw) = end
  BY <1>1, <1>4, <1>5
<1>7. \A k \in 1 .. Len(raw) : raw[k] \in Range(zip.zp)
  BY <1>5, ElementOfSeq
<1>8. Len(raw) = de.comp_size \/ Start(de) + Len(raw) = Len(zip.zp)
  BY <1>1, <1>3, <1>5
<1>9. Start(de) + Len(raw) <= Len(zip.zp)
  BY <1>1, <1>4, <1>6
<1>10. QED
  BY <1>2, <1>5, <1>6, <1>7, <1>8, <1>9, ArchiveType DEF de, raw

(* Where a file is.                                                        *)
LEMMA PlacedType ==
  ASSUME zip \in OnDisk, NEW f \in OpenFile(zip), Placed(zip, f)
  PROVE  /\ EntryOf(zip, f).comp_size \in Nat /\ Start(EntryOf(zip, f)) \in Nat
         /\ RawOf(zip, f) \in Seq(Range(zip.zp)) /\ Len(RawOf(zip, f)) \in Nat
         /\ Got(zip, f) \in 0 .. Len(RawOf(zip, f))
         /\ Done(zip, f) \in 0 .. Got(zip, f)
         /\ Len(f.buffer) \in Nat /\ Got(zip, f) = Done(zip, f) + Len(f.buffer)
         /\ f.cbytes_left = EntryOf(zip, f).comp_size - Got(zip, f)
<1> DEFINE de == EntryOf(zip, f)
           raw == RawOf(zip, f)
<1>1. /\ f.idx \in DOMAIN zip.entry /\ f.cbytes_left \in Nat
      /\ f.buffer \in Seq(Range(zip.zp))
  BY DEF OpenFile
<1>2. Len(f.buffer) \in Nat
  BY <1>1, LenProperties
<1>3. de.comp_size \in Nat /\ Start(de) \in Nat
  BY <1>1, EntryType DEF EntryOf
<1>4. raw \in Seq(Range(zip.zp)) /\ Len(raw) \in Nat
  <2>1. Start(zip.entry[f.idx]) <= Len(zip.zp)
    BY DEF Placed, EntryOf
  <2>2. raw \in Seq(Range(zip.zp))
    BY <1>1, <2>1, RawType DEF EntryOf, RawOf
  <2>3. QED BY <2>2, LenProperties
<1> HIDE DEF de, raw
<1>5. Got(zip, f) = de.comp_size - f.cbytes_left
  BY DEF Got, de
<1>6. f.cbytes_left <= de.comp_size /\ Got(zip, f) <= Len(raw)
      /\ Len(f.buffer) <= Got(zip, f)
  BY DEF Placed, de, raw
<1>7. Done(zip, f) = Got(zip, f) - Len(f.buffer)
  BY DEF Done
<1>8. Got(zip, f) \in 0 .. Len(raw) /\ Done(zip, f) \in 0 .. Got(zip, f)
  BY <1>1, <1>2, <1>3, <1>4, <1>5, <1>6, <1>7
<1>9. /\ Got(zip, f) = Done(zip, f) + Len(f.buffer)
      /\ f.cbytes_left = de.comp_size - Got(zip, f)
  BY <1>1, <1>2, <1>3, <1>5, <1>7, <1>8
<1>10. QED BY <1>2, <1>3, <1>4, <1>8, <1>9 DEF de, raw

(* What is read from a place in a part of a file that may have been cut.   *)
Cuts(s, start, got, left, n, raw, units) ==
  /\ start <= Len(s)
  /\ raw = SubSeq(s, start + 1, Min({start + (got + left), Len(s)}))
  /\ got <= Len(raw)
  /\ units = SubSeq(s, (start + got) + 1,
                    Min({(start + got) + Min({n, left}), Len(s)}))

IsNext(U, got, left, n, raw, units) ==
  /\ units \in Seq(U) /\ Len(units) \in Nat
  /\ Len(units) <= n /\ Len(units) <= left
  /\ got + Len(units) <= Len(raw)
  /\ units = SubSeq(raw, got + 1, got + Len(units))
  /\ (Len(units) = 0 /\ n > 0) => got = Len(raw)

LEMMA ReadPart ==
  ASSUME NEW U, NEW s \in Seq(U), NEW start \in Nat,
         NEW got \in Nat, NEW left \in Nat, NEW n \in Nat,
         NEW raw, NEW units, Cuts(s, start, got, left, n, raw, units)
  PROVE  IsNext(U, got, left, n, raw, units)
<1>0. /\ start <= Len(s)
      /\ raw = SubSeq(s, start + 1, Min({start + (got + left), Len(s)}))
      /\ got <= Len(raw)
      /\ units = SubSeq(s, (start + got) + 1,
                        Min({(start + got) + Min({n, left}), Len(s)}))
  BY DEF Cuts
<1>1. PICK len \in Nat : len = Len(s)
  OBVIOUS
<1>2. PICK e \in Nat : /\ e = Min({start + (got + left), Len(s)})
                       /\ e <= len /\ e <= start + (got + left)
                       /\ e = len \/ e = start + (got + left)
  <2>1. Min({start + (got + left), len})
          = IF start + (got + left) <= len THEN start + (got + left) ELSE len
    BY MinPair
  <2>2. QED BY <1>1, <2>1
<1>3. start <= e
  BY <1>0, <1>1, <1>2
<1>4. raw \in Seq(U) /\ Len(raw) = e - start
  <2>1. raw = SubSeq(s, start + 1, e)
    BY <1>0, <1>2
  <2>2. e \in start .. Len(s)
    BY <1>1, <1>2, <1>3
  <2>3. QED BY <2>1, <2>2, SubSeqPart
<1>5. PICK some \in Nat : /\ some = Min({n, left})
                          /\ some <= n /\ some <= left /\ (some = n \/ some = left)
  <2>1. Min({n, left}) = IF n <= left THEN n ELSE left
    BY MinPair
  <2>2. QED BY <2>1
<1>6. PICK end \in Nat : /\ end = Min({(start + got) + Min({n, left}), Len(s)})
                         /\ end <= len /\ end <= (start + got) + some
                         /\ end = len \/ end = (start + got) + some
  <2>1. Min({(start + got) + some, len})
          = IF (start + got) + some <= len THEN (start + got) + some ELSE len
    BY MinPair
  <2>2. QED BY <1>1, <1>5, <2>1
<1>7. start + got <= e
  <2>1. got <= e - start
    BY <1>0, <1>4
  <2>2. QED BY <1>3, <2>1
<1>8. start + got <= end /\ end <= e
  <2>1. /\ end <= len /\ end <= (start + got) + some
        /\ end = len \/ end = (start + got) + some
    BY <1>6
  <2>2. e <= len /\ (e = len \/ e = start + (got + left))
    BY <1>2
  <2>3. some <= left
    BY <1>5
  <2>4. start + got <= end
    BY <1>7, <2>1, <2>2
  <2>5. end <= e
    BY <2>1, <2>2, <2>3
  <2>6. QED BY <2>4, <2>5
<1>9. units \in Seq(U) /\ Len(units) = end - (start + got)
  <2>1. units = SubSeq(s, (start + got) + 1, end)
    BY <1>0, <1>6
  <2>2. start + got \in Nat /\ end \in start + got .. Len(s)
    BY <1>1, <1>6, <1>8
  <2>3. QED BY <2>1, <2>2, SubSeqPart
<1>10. PICK m \in Nat : /\ m = Len(units) /\ end = (start + got) + m
                        /\ m <= some /\ (start + got) + m <= e
  BY <1>5, <1>6, <1>8, <1>9, SMTT(20)
<1>11. units = SubSeq(raw, got + 1, got + m)
  <2>1. e \in start .. Len(s) /\ got + m \in got .. e - start
    BY <1>1, <1>2, <1>3, <1>7, <1>10
  <2>2. SubSeq(SubSeq(s, start + 1, e), got + 1, got + m)
          = SubSeq(s, start + got + 1, start + (got + m))
    BY <2>1, SubSeqNested
  <2>3. start + (got + m) = end
    BY <1>10
  <2>4. QED BY <1>0, <1>2, <1>6, <2>2, <2>3
<1>12. (m = 0 /\ n > 0) => got = e - start
  <2> SUFFICES ASSUME m = 0, n > 0 PROVE got = e - start
    OBVIOUS
  <2>1. end = start + got
    BY <1>10
  <2>2. CASE end = len
    <3>1. e <= len
      BY <1>2
    <3>2. QED BY <1>7, <2>1, <2>2, <3>1
  <2>3. CASE end = (start + got) + some
    <3>1. some = 0
      BY <2>1, <2>3
    <3>2. left = 0
      BY <1>5, <3>1
    <3>3. e <= start + got
      BY <1>2, <3>2
    <3>4. QED BY <1>7, <3>3
  <2>4. QED BY <1>6, <2>2, <2>3
<1>13. m <= n /\ m <= left /\ got + m <= e - start
  BY <1>2, <1>3, <1>5, <1>10
<1>14. QED BY <1>4, <1>9, <1>10, <1>11, <1>12, <1>13 DEF IsNext

(* What _zip_file_fillbuf reads is what comes next in the file.            *)
LEMMA UnitsType ==
  ASSUME zip \in OnDisk, NEW f \in OpenFile(zip), Placed(zip, f), NEW n \in Nat
  PROVE  IsNext(Range(zip.zp), Got(zip, f), f.cbytes_left, n, RawOf(zip, f),
                Units(f, n))
<1> DEFINE de == EntryOf(zip, f)
           raw == RawOf(zip, f)
           got == Got(zip, f)
           units == Units(f, n)
<1>1. /\ Start(de) \in Nat /\ got \in Nat /\ got <= Len(raw)
      /\ f.cbytes_left \in Nat /\ de.comp_size = got + f.cbytes_left
  <2>1. f.cbytes_left \in Nat
    BY DEF OpenFile
  <2>2. QED BY <2>1, PlacedType
<1>2. zip.zp \in Seq(Range(zip.zp))
  BY ArchiveType
<1>3. f.fpos = Start(de) + got /\ Start(de) <= Len(zip.zp)
  BY DEF Placed
<1>4. units = SubSeq(zip.zp, (Start(de) + got) + 1,
                     Min({(Start(de) + got) + Min({n, f.cbytes_left}), Len(zip.zp)}))
  BY <1>3 DEF Units, SeekTo
<1>5. raw = SubSeq(zip.zp, Start(de) + 1,
                   Min({Start(de) + (got + f.cbytes_left), Len(zip.zp)}))
  BY <1>1 DEF RawOf, RawIn
<1> HIDE DEF de, raw, got, units
<1>6. Cuts(zip.zp, Start(de), got, f.cbytes_left, n, raw, units)
  BY <1>1, <1>3, <1>4, <1>5 DEF Cuts
<1>7. IsNext(Range(zip.zp), got, f.cbytes_left, n, raw, units)
  BY <1>1, <1>2, <1>6, ReadPart
<1>8. QED BY <1>7 DEF raw, got, units

(* Where a file is depends on its place only.                              *)
SamePlace(f, g) ==
  /\ g.idx = f.idx /\ g.decomp = f.decomp /\ g.check = f.check
  /\ g.crc_orig = f.crc_orig
  /\ g.cbytes_left = f.cbytes_left /\ g.fpos = f.fpos /\ g.buffer = f.buffer

LEMMA PlaceKept ==
  ASSUME NEW z, NEW f, NEW g, SamePlace(f, g)
  PROVE  /\ EntryOf(z, g) = EntryOf(z, f) /\ RawOf(z, g) = RawOf(z, f)
         /\ Got(z, g) = Got(z, f) /\ Done(z, g) = Done(z, f)
         /\ Placed(z, f) => Placed(z, g)
<1>1. /\ g.idx = f.idx /\ g.cbytes_left = f.cbytes_left
      /\ g.fpos = f.fpos /\ g.buffer = f.buffer
  BY DEF SamePlace
<1>2. EntryOf(z, g) = EntryOf(z, f)
  BY <1>1 DEF EntryOf
<1>3. RawOf(z, g) = RawOf(z, f)
  BY <1>2 DEF RawOf
<1>4. Got(z, g) = Got(z, f)
  BY <1>1, <1>2 DEF Got
<1>5. Done(z, g) = Done(z, f)
  BY <1>1, <1>4 DEF Done
<1>6. Placed(z, f) => Placed(z, g)
  BY <1>1, <1>2, <1>3, <1>4, <1>5 DEF Placed
<1>7. QED BY <1>2, <1>3, <1>4, <1>5, <1>6

(* The buffer of a file is filled.                                         *)
Filled(f, units) == [Moved(f, units) EXCEPT !.buffer = units]

LEMMA FilledFields ==
  ASSUME NEW f \in OpenFile(zip), NEW units \in Seq(Range(zip.zp)),
         Len(units) \in Nat, Len(units) <= f.cbytes_left
  PROVE  LET g == Filled(f, units)
         IN /\ g \in OpenFile(zip)
            /\ g.idx = f.idx /\ g.decomp = f.decomp /\ g.check = f.check
            /\ g.eof = f.eof /\ g.error = f.error /\ g.crc = f.crc
            /\ g.crc_orig = f.crc_orig /\ g.bytes_left = f.bytes_left
            /\ g.ended = f.ended
            /\ g.cbytes_left = f.cbytes_left - Len(units)
            /\ g.fpos = f.fpos + Len(units) /\ g.buffer = units
<1>1. PICK n \in Nat : n = Len(units)
  OBVIOUS
<1>2. f.cbytes_left \in Nat /\ f.fpos \in Nat
  BY DEF OpenFile
<1>3. f.cbytes_left - n \in Nat /\ f.fpos + n \in Nat
  BY <1>1, <1>2
<1>4. Filled(f, units) = [f EXCEPT !.fpos = @ + n, !.cbytes_left = @ - n,
                                   !.buffer = units]
  BY <1>1 DEF Filled, Moved, OpenFile
<1>5. QED BY <1>1, <1>3, <1>4 DEF OpenFile

LEMMA FilledPlace ==
  ASSUME zip \in OnDisk, NEW f \in OpenFile(zip), Placed(zip, f), NEW n \in Nat,
         f.buffer = <<>>
  PROVE  LET g == Filled(f, Units(f, n))
         IN /\ g \in OpenFile(zip) /\ Placed(zip, g)
            /\ EntryOf(zip, g) = EntryOf(zip, f) /\ RawOf(zip, g) = RawOf(zip, f)
            /\ Done(zip, g) = Done(zip, f)
<1> DEFINE units == Units(f, n)
           g == Filled(f, units)
           raw == RawOf(zip, f)
<1>1. IsNext(Range(zip.zp), Got(zip, f), f.cbytes_left, n, raw, units)
  BY UnitsType
<1> HIDE DEF units
<1>2. PICK l \in Nat : /\ l = Len(units) /\ units \in Seq(Range(zip.zp))
                       /\ l <= f.cbytes_left /\ Got(zip, f) + l <= Len(raw)
                       /\ units = SubSeq(raw, Got(zip, f) + 1, Got(zip, f) + l)
  BY <1>1 DEF IsNext
<1>3. /\ g \in OpenFile(zip) /\ g.idx = f.idx
      /\ g.cbytes_left = f.cbytes_left - l
      /\ g.fpos = f.fpos + l /\ g.buffer = units
  BY <1>2, FilledFields
<1> HIDE DEF g
<1>4. EntryOf(zip, g) = EntryOf(zip, f) /\ RawOf(zip, g) = raw
  BY <1>3 DEF EntryOf, RawOf
<1>5. /\ Got(zip, f) \in Nat /\ Done(zip, f) = Got(zip, f)
      /\ f.cbytes_left \in Nat /\ EntryOf(zip, f).comp_size \in Nat
      /\ Got(zip, f) = EntryOf(zip, f).comp_size - f.cbytes_left
      /\ Start(EntryOf(zip, f)) \in Nat /\ Len(raw) \in Nat
  <2>1. Len(<<>>) = 0
    OBVIOUS
  <2>2. f.cbytes_left \in Nat
    BY DEF OpenFile
  <2>3. QED BY <2>1, <2>2, PlacedType DEF Got
<1>6. PICK got \in Nat, left \in Nat, start \in Nat, size \in Nat, len \in Nat :
        /\ got = Got(zip, f) /\ left = f.cbytes_left
        /\ start = Start(EntryOf(zip, f)) /\ size = EntryOf(zip, f).comp_size
        /\ len = Len(raw)
  BY <1>5
<1>7. Got(zip, g) = size - (left - l)
  BY <1>3, <1>4, <1>6 DEF Got
<1>8. got = size - left /\ l <= left /\ got + l <= len
  BY <1>2, <1>5, <1>6
<1>9. Got(zip, g) = got + l
  BY <1>7, <1>8
<1>10. Done(zip, g) = got
  <2>1. Len(g.buffer) = l
    BY <1>2, <1>3
  <2>2. Done(zip, g) = (got + l) - l
    BY <1>9, <2>1 DEF Done
  <2>3. QED BY <2>2
<1>11. f.fpos = start + got /\ start <= Len(zip.zp)
  BY <1>6 DEF Placed
<1>12. g.fpos = start + (got + l) /\ left - l <= size
  BY <1>3, <1>8, <1>11
<1>13. g.buffer = SubSeq(raw, got + 1, got + l)
  BY <1>2, <1>3, <1>6
<1>14. l <= got + l
  OBVIOUS
<1>15. Placed(zip, g)
  BY <1>2, <1>3, <1>4, <1>6, <1>8, <1>9, <1>10, <1>11, <1>12, <1>13, <1>14 DEF Placed
<1>16. QED BY <1>3, <1>4, <1>5, <1>6, <1>10, <1>15 DEF g, units

(* A part of a stored file is read.                                        *)
StoredRead(f, units) ==
  [Moved(f, units) EXCEPT !.crc = @ \o units, !.bytes_left = @ - Len(units)]

LEMMA StoredFields ==
  ASSUME zip \in OnDisk, NEW f \in OpenFile(zip),
         NEW units \in Seq(Range(zip.zp)),
         Len(units) \in Nat, Len(units) <= f.cbytes_left,
         f.bytes_left = f.cbytes_left
  PROVE  LET g == StoredRead(f, units)
         IN /\ g \in OpenFile(zip)
            /\ g.idx = f.idx /\ g.decomp = f.decomp /\ g.check = f.check
            /\ g.eof = f.eof /\ g.error = f.error /\ g.crc = f.crc \o units
            /\ g.crc_orig = f.crc_orig /\ g.ended = f.ended
            /\ g.bytes_left = f.bytes_left - Len(units)
            /\ g.cbytes_left = f.cbytes_left - Len(units)
            /\ g.fpos = f.fpos + Len(units) /\ g.buffer = f.buffer
<1>1. PICK n \in Nat : n = Len(units)
  OBVIOUS
<1>2. /\ f.cbytes_left \in Nat /\ f.fpos \in Nat /\ f.crc \in Seq(Datum(zip))
      /\ f.bytes_left \in 0 .. ULong - 1
  BY DEF OpenFile
<1>3. units \in Seq(Datum(zip))
  BY ArchiveType, SeqMonotonic
<1>4. PICK crc \in Seq(Datum(zip)) : crc = f.crc \o units
  BY <1>2, <1>3, ConcatProperties
<1>5. /\ f.cbytes_left - n \in Nat /\ f.fpos + n \in Nat
      /\ f.bytes_left - n \in 0 .. ULong - 1
  BY <1>1, <1>2, SizeAssumption
<1>6. StoredRead(f, units)
        = [f EXCEPT !.fpos = @ + n, !.cbytes_left = @ - n, !.crc = crc,
                    !.bytes_left = @ - n]
  BY <1>1, <1>4 DEF StoredRead, Moved, OpenFile
<1>7. QED BY <1>1, <1>4, <1>5, <1>6 DEF OpenFile

LEMMA StoredKept ==
  ASSUME zip \in OnDisk, NEW f \in OpenFile(zip), Placed(zip, f),
         Copies(zip, f), NEW n \in Nat
  PROVE  LET g == StoredRead(f, Units(f, n))
         IN /\ g \in OpenFile(zip) /\ Placed(zip, g) /\ Copies(zip, g)
            /\ EntryOf(zip, g) = EntryOf(zip, f)
<1> DEFINE units == Units(f, n)
           g == StoredRead(f, units)
           raw == RawOf(zip, f)
<1>1. IsNext(Range(zip.zp), Got(zip, f), f.cbytes_left, n, raw, units)
  BY UnitsType
<1> HIDE DEF units
<1>2. PICK l \in Nat : /\ l = Len(units) /\ units \in Seq(Range(zip.zp))
                       /\ l <= f.cbytes_left /\ Got(zip, f) + l <= Len(raw)
                       /\ units = SubSeq(raw, Got(zip, f) + 1, Got(zip, f) + l)
  BY <1>1 DEF IsNext
<1>3. /\ f.crc = SubSeq(raw, 1, Got(zip, f)) /\ f.bytes_left = f.cbytes_left
      /\ f.buffer = <<>> /\ ~ f.ended
  BY DEF Copies
<1>4. /\ g \in OpenFile(zip) /\ g.idx = f.idx
      /\ g.cbytes_left = f.cbytes_left - l /\ g.bytes_left = f.bytes_left - l
      /\ g.fpos = f.fpos + l /\ g.buffer = <<>> /\ ~ g.ended
      /\ g.crc = f.crc \o units
  <2>1. Len(units) \in Nat /\ Len(units) <= f.cbytes_left
    BY <1>2
  <2>2. f.bytes_left = f.cbytes_left /\ units \in Seq(Range(zip.zp))
    BY <1>2, <1>3
  <2>3. /\ g \in OpenFile(zip) /\ g.idx = f.idx
        /\ g.cbytes_left = f.cbytes_left - Len(units)
        /\ g.bytes_left = f.bytes_left - Len(units)
        /\ g.fpos = f.fpos + Len(units) /\ g.buffer = f.buffer
        /\ g.ended = f.ended /\ g.crc = f.crc \o units
    BY <2>1, <2>2, StoredFields
  <2> HIDE DEF g
  <2>4. QED BY <1>2, <1>3, <2>3
<1> HIDE DEF g
<1>5. EntryOf(zip, g) = EntryOf(zip, f) /\ RawOf(zip, g) = raw
  BY <1>4 DEF EntryOf, RawOf
<1>6. /\ Got(zip, f) \in Nat
      /\ f.cbytes_left \in Nat /\ EntryOf(zip, f).comp_size \in Nat
      /\ Got(zip, f) = EntryOf(zip, f).comp_size - f.cbytes_left
      /\ Start(EntryOf(zip, f)) \in Nat /\ Len(raw) \in Nat
      /\ raw \in Seq(Range(zip.zp))
  <2>1. f.cbytes_left \in Nat
    BY DEF OpenFile
  <2>2. QED BY <2>1, PlacedType DEF Got
<1>7. PICK got \in Nat, left \in Nat, start \in Nat, size \in Nat, len \in Nat :
        /\ got = Got(zip, f) /\ left = f.cbytes_left
        /\ start = Start(EntryOf(zip, f)) /\ size = EntryOf(zip, f).comp_size
        /\ len = Len(raw)
  BY <1>6
<1>8. got = size - left /\ l <= left /\ got + l <= len
  BY <1>2, <1>6, <1>7
<1>9. Got(zip, g) = got + l
  <2>1. Got(zip, g) = size - (left - l)
    BY <1>4, <1>5, <1>7 DEF Got
  <2>2. QED BY <1>8, <2>1
<1>10. Done(zip, g) = got + l /\ Len(g.buffer) = 0
  <2>1. Len(g.buffer) = 0
    BY <1>4
  <2>2. Done(zip, g) = (got + l) - 0
    BY <1>9, <2>1 DEF Done
  <2>3. QED BY <2>1, <2>2
<1>11. f.fpos = start + got /\ start <= Len(zip.zp)
  BY <1>7 DEF Placed
<1>12. g.fpos = start + (got + l) /\ left - l <= size
  <2>1. g.fpos = (start + got) + l
    BY <1>4, <1>11
  <2>2. QED BY <1>8, <2>1
<1>13. g.buffer = SubSeq(raw, (got + l) + 1, got + l)
  <2>1. (got + l) + 1 > got + l
    OBVIOUS
  <2>2. SubSeq(raw, (got + l) + 1, got + l) = <<>>
    BY <1>6, <2>1, SubSeqEmpty
  <2>3. QED BY <1>4, <2>2
<1>14. 0 <= got + l
  OBVIOUS
<1>15. Placed(zip, g)
  BY <1>2, <1>4, <1>5, <1>7, <1>8, <1>9, <1>10, <1>11, <1>12, <1>13, <1>14
     DEF Placed
<1>16. g.crc = SubSeq(raw, 1, got + l)
  <2>1. SubSeq(raw, 1, got + l)
          = SubSeq(raw, 1, got) \o SubSeq(raw, got + 1, got + l)
    <3> HIDE DEF raw
    <3>1. raw \in Seq(Range(zip.zp)) /\ got + l <= Len(raw)
      BY <1>6, <1>7, <1>8
    <3>2. QED BY <3>1, SplitPart
  <2>2. QED BY <1>2, <1>3, <1>4, <1>7, <2>1
<1>17. Copies(zip, g)
  <2>1. g.bytes_left = g.cbytes_left
    BY <1>3, <1>4
  <2>2. QED BY <1>4, <1>5, <1>9, <1>16, <2>1 DEF Copies
<1>18. QED BY <1>4, <1>5, <1>15, <1>17 DEF g, units

LEMMA InflatedNone == Inflated(<<>>) = <<>>
<1>1. [k \in DOMAIN <<>> |-> <<>>[k].deflated] = <<>>
  OBVIOUS
<1>2. FlattenSeq(<<>>) = <<>>
  BY DEF FlattenSeq
<1>3. QED BY <1>1, <1>2 DEF Inflated

(* A file that has just been opened.                                       *)
LEMMA NewFileFields ==
  ASSUME zip \in OnDisk, NEW i \in DOMAIN zip.entry, NEW compressed \in BOOLEAN
  PROVE  LET f == NewFile(i, compressed)
             de == zip.entry[i]
         IN /\ f \in OpenFile(zip)
            /\ f.idx = i /\ ~ f.eof /\ ~ f.ended
            /\ f.decomp = (de.method = "deflate" /\ ~ compressed)
            /\ f.check = (f.decomp \/ de.method = "store")
            /\ f.error = "ok" /\ f.crc = <<>> /\ f.crc_orig = de.sum
            /\ f.bytes_left = IF f.decomp THEN de.uncomp_size ELSE de.comp_size
            /\ f.cbytes_left = de.comp_size
            /\ f.fpos = Start(de) /\ f.buffer = <<>>
<1> DEFINE de == zip.entry[i]
           f == NewFile(i, compressed)
           decomp == de.method = "deflate" /\ ~ compressed
           check == decomp \/ de.method = "store"
           left == IF decomp THEN de.uncomp_size ELSE de.comp_size
<1>1. /\ de.comp_size \in Nat /\ Start(de) \in Nat
      /\ {de.comp_size, de.uncomp_size} \subseteq 0 .. ULong - 1
      /\ de.sum \in {e.sum : e \in Range(zip.entry)}
      /\ Start(de) = de.offset + LENTRYSIZE
  <2>1. /\ de.comp_size \in Nat /\ Start(de) \in Nat
        /\ {de.comp_size, de.uncomp_size} \subseteq 0 .. ULong - 1
        /\ de \in Range(zip.entry)
    BY EntryType
  <2>2. QED BY <2>1 DEF Start
<1>2. decomp \in BOOLEAN /\ check \in BOOLEAN /\ left \in 0 .. ULong - 1
  BY <1>1
<1>3. /\ <<>> \in Seq(Range(zip.zp)) /\ <<>> \in Seq(Datum(zip))
      /\ "ok" \in Error
  BY EmptySeq DEF Error
<1>4. f = [idx |-> i, decomp |-> decomp, check |-> check,
           eof |-> FALSE, error |-> "ok", crc |-> <<>>, crc_orig |-> de.sum,
           bytes_left |-> left, cbytes_left |-> de.comp_size,
           fpos |-> Start(de), buffer |-> <<>>, ended |-> FALSE]
  BY <1>1 DEF NewFile
<1> HIDE DEF f, de, decomp, check
<1>5. left = IF decomp THEN de.uncomp_size ELSE de.comp_size
  OBVIOUS
<1> HIDE DEF left
<1>6. f \in OpenFile(zip)
  BY <1>1, <1>2, <1>3, <1>4 DEF OpenFile
<1>7. /\ f.idx = i /\ f.eof = FALSE /\ f.ended = FALSE /\ f.decomp = decomp
      /\ f.check = check /\ f.error = "ok" /\ f.crc = <<>>
      /\ f.crc_orig = de.sum /\ f.bytes_left = left
      /\ f.cbytes_left = de.comp_size /\ f.fpos = Start(de) /\ f.buffer = <<>>
  BY <1>4
<1>8. QED BY <1>5, <1>6, <1>7 DEF f, de, decomp, check

LEMMA NewFileOK ==
  ASSUME zip \in OnDisk, NEW i \in DOMAIN zip.entry, NEW compressed \in BOOLEAN,
         HasMagic(zip.zp, zip.entry[i].offset, "PK34")
  PROVE  /\ FileOK(zip, NewFile(i, compressed), <<>>)
         /\ Done(zip, NewFile(i, compressed)) = 0
<1> DEFINE f == NewFile(i, compressed)
           de == zip.entry[i]
           raw == RawOf(zip, f)
<1>1. /\ f \in OpenFile(zip) /\ f.idx = i /\ ~ f.eof /\ ~ f.ended
      /\ f.check = (f.decomp \/ de.method = "store")
      /\ f.crc = <<>> /\ f.crc_orig = de.sum
      /\ f.bytes_left = IF f.decomp THEN de.uncomp_size ELSE de.comp_size
      /\ f.cbytes_left = de.comp_size
      /\ f.fpos = Start(de) /\ f.buffer = <<>>
  BY NewFileFields
<1> HIDE DEF f
<1>2. EntryOf(zip, f) = de
  BY <1>1 DEF EntryOf
<1>3. /\ de.comp_size \in Nat /\ Start(de) \in Nat /\ Start(de) = de.offset + 1
  BY EntryType
<1>4. Start(de) <= Len(zip.zp)
  <2>1. de.offset + 1 \in DOMAIN zip.zp
    BY DEF HasMagic
  <2>2. QED BY <1>3, <2>1, ArchiveType, LenProperties
<1>5. raw \in Seq(Range(zip.zp)) /\ Len(raw) \in Nat
  <2>1. raw = RawIn(zip, de)
    BY <1>2 DEF RawOf
  <2>2. raw \in Seq(Range(zip.zp))
    BY <1>4, <2>1, RawType
  <2>3. QED BY <2>2, LenProperties
<1> HIDE DEF de, raw
<1>6. Got(zip, f) = 0
  BY <1>1, <1>2, <1>3 DEF Got
<1>7. Len(f.buffer) = 0 /\ Done(zip, f) = 0
  <2>1. Len(f.buffer) = 0
    BY <1>1
  <2>2. QED BY <1>6, <2>1 DEF Done
<1>8. SubSeq(raw, 1, 0) = <<>>
  BY <1>5, SubSeqEmpty
<1>9. Placed(zip, f)
  <2>1. f.fpos = Start(de) + 0 /\ f.cbytes_left <= de.comp_size
    BY <1>1, <1>3
  <2>2. f.buffer = SubSeq(raw, 0 + 1, 0)
    BY <1>1, <1>8
  <2>3. 0 <= Len(raw)
    BY <1>5
  <2>4. QED BY <1>2, <1>4, <1>6, <1>7, <2>1, <2>2, <2>3 DEF Placed, raw
<1>10. ASSUME f.decomp PROVE f.check /\ Inflates(zip, f, <<>>)
  <2>1. Inflated(SubSeq(raw, 1, Done(zip, f))) = <<>>
    BY <1>7, <1>8, InflatedNone
  <2>2. IsPrefix(<<>>, <<>>) /\ <<>> \o <<>> = <<>>
    BY DEF IsPrefix
  <2>3. \A k \in 1 .. Done(zip, f) : IsPiece(RawOf(zip, f)[k])
    BY <1>7
  <2>4. f.check /\ f.crc = <<>>
    BY <1>1, <1>10
  <2>5. Inflated(SubSeq(RawOf(zip, f), 1, Done(zip, f))) = <<>>
    BY <2>1 DEF raw
  <2>6. Inflates(zip, f, <<>>)
    BY <2>2, <2>3, <2>4, <2>5, Zenon DEF Inflates
  <2>7. QED BY <2>4, <2>6
<1>11. ASSUME ~ f.decomp PROVE Copies(zip, f)
  BY <1>1, <1>6, <1>8, <1>11 DEF Copies, raw
<1>12. f.crc_orig = EntryOf(zip, f).sum
  BY <1>1, <1>2
<1>13. FileOK(zip, f, <<>>)
  BY <1>1, <1>9, <1>10, <1>11, <1>12 DEF FileOK
<1>14. QED BY <1>7, <1>13 DEF f

(* Filling the buffer of a file changes nothing of what has been read.     *)
LEMMA FilledOK ==
  ASSUME zip \in OnDisk, NEW f \in OpenFile(zip), NEW buf, FileOK(zip, f, buf),
         f.buffer = <<>>, NEW n \in Nat, f.decomp \/ n = 0
  PROVE  FileOK(zip, Filled(f, Units(f, n)), buf)
<1> DEFINE units == Units(f, n)
           g == Filled(f, units)
<1>1. Placed(zip, f)
  BY DEF FileOK
<1>2. /\ Placed(zip, g)
      /\ EntryOf(zip, g) = EntryOf(zip, f) /\ RawOf(zip, g) = RawOf(zip, f)
      /\ Done(zip, g) = Done(zip, f)
  BY <1>1, FilledPlace
<1>3. /\ units \in Seq(Range(zip.zp)) /\ Len(units) \in Nat
      /\ Len(units) <= n /\ Len(units) <= f.cbytes_left
  BY <1>1, UnitsType DEF IsNext
<1> HIDE DEF units
<1>4. /\ g.decomp = f.decomp /\ g.check = f.check
      /\ g.eof = f.eof /\ g.error = f.error /\ g.crc = f.crc
      /\ g.crc_orig = f.crc_orig /\ g.bytes_left = f.bytes_left
      /\ g.ended = f.ended /\ g.cbytes_left = f.cbytes_left - Len(units)
      /\ g.buffer = units
  BY <1>3, FilledFields
<1> HIDE DEF g
<1>5. CASE f.decomp
  <2>1. f.check /\ Inflates(zip, f, buf)
    BY <1>5 DEF FileOK
  <2>2. Inflates(zip, g, buf)
    BY <1>2, <1>4, <2>1 DEF Inflates
  <2>3. QED BY <1>2, <1>4, <1>5, <2>1, <2>2 DEF FileOK, g, units
<1>6. CASE ~ f.decomp
  <2>1. Len(units) = 0
    BY <1>3, <1>6
  <2>2. units = <<>>
    BY <1>3, <2>1, EmptySeq
  <2>3. g.cbytes_left = f.cbytes_left
    <3>1. f.cbytes_left \in Nat
      BY DEF OpenFile
    <3>2. QED BY <1>4, <2>1, <3>1
  <2>4. Copies(zip, f)
    BY <1>6 DEF FileOK
  <2>5. Got(zip, g) = Got(zip, f)
    BY <1>2, <2>3 DEF Got
  <2>6. Copies(zip, g)
    BY <1>2, <1>4, <2>2, <2>3, <2>4, <2>5 DEF Copies
  <2>7. QED BY <1>2, <1>4, <1>6, <2>6 DEF FileOK, g, units
<1>7. QED BY <1>5, <1>6

(* What inflate takes of the buffer is what comes next in the file.        *)
LEMMA Takes ==
  ASSUME zip \in OnDisk, NEW f \in OpenFile(zip), Placed(zip, f),
         \A k \in 1 .. Done(zip, f) : IsPiece(RawOf(zip, f)[k]),
         NEW p \in 0 .. Len(f.buffer),
         \A k \in 1 .. p : IsPiece(f.buffer[k])
  PROVE  LET raw == RawOf(zip, f)
             done == Done(zip, f)
             pieces == SubSeq(f.buffer, 1, p)
         IN /\ done \in Nat
            /\ \A k \in 1 .. done + p : IsPiece(raw[k])
            /\ Inflated(pieces) \in Seq(Datum(zip))
            /\ Inflated(SubSeq(raw, 1, done)) \in Seq(Datum(zip))
            /\ Inflated(SubSeq(raw, 1, done + p))
                 = Inflated(SubSeq(raw, 1, done)) \o Inflated(pieces)
            /\ SubSeq(f.buffer, p + 1, Len(f.buffer))
                 = SubSeq(raw, (done + p) + 1, Got(zip, f))
<1> DEFINE raw == RawOf(zip, f)
           V == Datum(zip)
           U == Range(zip.zp)
<1>1. /\ raw \in Seq(U) /\ Len(raw) \in Nat
      /\ Got(zip, f) \in 0 .. Len(raw) /\ Done(zip, f) \in 0 .. Got(zip, f)
      /\ Len(f.buffer) \in Nat
      /\ Got(zip, f) = Done(zip, f) + Len(f.buffer)
  BY PlacedType
<1>2. f.buffer = SubSeq(raw, Done(zip, f) + 1, Got(zip, f))
  BY DEF Placed
<1>3. ASSUME NEW k \in 1 .. Len(raw), IsPiece(raw[k]) PROVE raw[k].deflated \in Seq(V)
  <2>1. raw[k] \in Range(zip.zp)
    BY <1>1, <1>3, ElementOfSeq
  <2>2. QED BY <1>3, <2>1, ArchiveType
<1> HIDE DEF raw, V, U
<1>4. PICK done \in Nat, got \in Nat, len \in Nat, b \in Nat :
        /\ done = Done(zip, f) /\ got = Got(zip, f) /\ len = Len(raw)
        /\ b = Len(f.buffer) /\ got = done + b /\ got <= len
  BY <1>1
<1>5. /\ p \in 0 .. got - done /\ got \in done .. Len(raw)
      /\ done + p \in 0 .. Len(raw) /\ done \in 0 .. done + p
  BY <1>4
<1>6. f.buffer = SubSeq(raw, done + 1, got)
  BY <1>2, <1>4
<1>7. \A k \in 1 .. got - done : f.buffer[k] = raw[done + k]
  BY <1>1, <1>5, <1>6, SubSeqPart
<1>8. SubSeq(f.buffer, 1, p) = SubSeq(raw, done + 1, done + p)
  <2>1. SubSeq(SubSeq(raw, done + 1, got), 0 + 1, p)
          = SubSeq(raw, done + 0 + 1, done + p)
    BY <1>1, <1>5, SubSeqNested
  <2>2. done + 0 + 1 = done + 1 /\ 0 + 1 = 1
    BY <1>4
  <2>3. QED BY <1>6, <2>1, <2>2
<1>9. SubSeq(f.buffer, p + 1, b) = SubSeq(raw, (done + p) + 1, got)
  <2>1. PICK q \in Nat : q = p /\ b \in q .. got - done
    <3>1. p \in Nat /\ p <= b
      BY <1>4
    <3>2. QED BY <1>4, <3>1
  <2>2. SubSeq(SubSeq(raw, done + 1, got), q + 1, b)
          = SubSeq(raw, done + q + 1, done + b)
    BY <1>1, <1>5, <2>1, SubSeqNested
  <2>3. QED BY <1>4, <1>6, <2>1, <2>2
<1>10. ASSUME NEW k \in 1 .. done + p PROVE IsPiece(raw[k])
  <2>1. CASE k \in 1 .. done
    BY <1>4, <2>1 DEF raw
  <2>2. CASE k \notin 1 .. done
    <3>1. k \in Nat /\ p \in Nat /\ k > done /\ k <= done + p /\ done + p <= got
      <4>1. p \in Nat /\ p <= b
        BY <1>4
      <4>2. k \in 1 .. done + p
        OBVIOUS
      <4>3. QED BY <1>4, <2>2, <4>1, <4>2
    <3>2. k - done \in 1 .. p /\ k - done \in 1 .. got - done
      BY <3>1
    <3>3. done + (k - done) = k
      BY <3>1
    <3>4. QED BY <1>7, <3>2, <3>3
  <2>3. QED BY <2>1, <2>2
<1>11. \A k \in 1 .. done + p : raw[k].deflated \in Seq(V)
  <2>1. \A k \in 1 .. done + p : k \in 1 .. Len(raw)
    BY <1>5
  <2>2. QED BY <1>3, <1>10, <2>1
<1>12. /\ Inflated(SubSeq(raw, done + 1, done + p)) \in Seq(V)
       /\ Inflated(SubSeq(raw, 1, done + p))
            = Inflated(SubSeq(raw, 1, done))
                \o Inflated(SubSeq(raw, done + 1, done + p))
  <2>1. PICK m \in Nat : m = done + p /\ m \in 0 .. Len(raw) /\ done \in 0 .. m
    BY <1>4, <1>5
  <2>2. \A k \in 1 .. m : raw[k].deflated \in Seq(V)
    BY <1>11, <2>1
  <2>3. /\ Inflated(SubSeq(raw, done + 1, m)) \in Seq(V)
        /\ Inflated(SubSeq(raw, 1, m))
             = Inflated(SubSeq(raw, 1, done)) \o Inflated(SubSeq(raw, done + 1, m))
    <3>1. raw \in Seq(U) /\ m \in 0 .. Len(raw) /\ done \in 0 .. m
      BY <1>1, <2>1
    <3>2. QED BY <2>2, <3>1, InflatedSplit, ZenonT(60)
  <2>4. done + p = m
    BY <2>1
  <2>5. QED BY <2>3, <2>4, Zenon
<1>13. Inflated(SubSeq(raw, 1, done)) \in Seq(V)
  BY <1>1, <1>5, <1>11, InflatedMore
<1>14. QED BY <1>4, <1>8, <1>9, <1>10, <1>12, <1>13 DEF raw, V

(* What inflate leaves in the buffer.                                      *)
Left(f, p, ended) ==
  [f EXCEPT !.buffer = SubSeq(@, p + 1, Len(@)), !.ended = ended]

LEMMA LeftFields ==
  ASSUME zip \in OnDisk, NEW f \in OpenFile(zip), NEW p \in 0 .. Len(f.buffer),
         NEW ended \in BOOLEAN
  PROVE  LET g == Left(f, p, ended)
         IN /\ g \in OpenFile(zip)
            /\ g.idx = f.idx /\ g.decomp = f.decomp /\ g.check = f.check
            /\ g.eof = f.eof /\ g.error = f.error /\ g.crc = f.crc
            /\ g.crc_orig = f.crc_orig /\ g.bytes_left = f.bytes_left
            /\ g.cbytes_left = f.cbytes_left /\ g.fpos = f.fpos
            /\ g.buffer = SubSeq(f.buffer, p + 1, Len(f.buffer))
            /\ Len(g.buffer) = Len(f.buffer) - p
            /\ g.ended = ended
<1>1. f.buffer \in Seq(Range(zip.zp)) /\ Len(f.buffer) \in Nat
  <2>1. f.buffer \in Seq(Range(zip.zp))
    BY DEF OpenFile
  <2>2. QED BY <2>1, LenProperties
<1>2. PICK rest \in Seq(Range(zip.zp)) :
        /\ rest = SubSeq(f.buffer, p + 1, Len(f.buffer))
        /\ Len(rest) = Len(f.buffer) - p
  <2>1. PICK a \in Nat, b \in Nat : a = p /\ b = Len(f.buffer) /\ a <= b
    BY <1>1
  <2>2. b \in a .. Len(f.buffer)
    BY <2>1
  <2>3. /\ SubSeq(f.buffer, a + 1, b) \in Seq(Range(zip.zp))
        /\ Len(SubSeq(f.buffer, a + 1, b)) = b - a
    BY <1>1, <2>1, <2>2, SubSeqPart
  <2>4. QED BY <2>1, <2>3
<1>3. Left(f, p, ended) = [f EXCEPT !.buffer = rest, !.ended = ended]
  BY <1>2 DEF Left, OpenFile
<1>4. QED BY <1>2, <1>3 DEF OpenFile

LEMMA LeftPlace ==
  ASSUME zip \in OnDisk, NEW f \in OpenFile(zip), Placed(zip, f),
         \A k \in 1 .. Done(zip, f) : IsPiece(RawOf(zip, f)[k]),
         NEW p \in 0 .. Len(f.buffer),
         \A k \in 1 .. p : IsPiece(f.buffer[k]), NEW ended \in BOOLEAN
  PROVE  LET g == Left(f, p, ended)
         IN /\ Placed(zip, g)
            /\ EntryOf(zip, g) = EntryOf(zip, f) /\ RawOf(zip, g) = RawOf(zip, f)
            /\ Got(zip, g) = Got(zip, f)
            /\ Done(zip, g) = Done(zip, f) + p
<1> DEFINE g == Left(f, p, ended)
           raw == RawOf(zip, f)
<1>1. /\ g.idx = f.idx /\ g.cbytes_left = f.cbytes_left /\ g.fpos = f.fpos
      /\ g.buffer = SubSeq(f.buffer, p + 1, Len(f.buffer))
      /\ Len(g.buffer) = Len(f.buffer) - p
  BY LeftFields
<1> HIDE DEF g, raw
<1>2. EntryOf(zip, g) = EntryOf(zip, f) /\ RawOf(zip, g) = raw
  BY <1>1 DEF EntryOf, RawOf, raw
<1>3. Got(zip, g) = Got(zip, f)
  BY <1>1, <1>2 DEF Got
<1>4. /\ Got(zip, f) \in Nat /\ Done(zip, f) \in Nat /\ Len(f.buffer) \in Nat
      /\ Got(zip, f) = Done(zip, f) + Len(f.buffer)
  BY PlacedType
<1>5. Done(zip, g) = Done(zip, f) + p
  <2>1. Done(zip, g) = Got(zip, f) - (Len(f.buffer) - p)
    BY <1>1, <1>3 DEF Done
  <2>2. p \in Nat
    BY <1>4
  <2>3. QED BY <1>4, <2>1, <2>2
<1>6. g.buffer = SubSeq(raw, (Done(zip, f) + p) + 1, Got(zip, f))
  BY <1>1, Takes DEF raw
<1>7. Len(g.buffer) <= Got(zip, f)
  BY <1>1, <1>4
<1>8. Placed(zip, g)
  BY <1>1, <1>2, <1>3, <1>5, <1>6, <1>7 DEF Placed, raw
<1>9. QED BY <1>2, <1>3, <1>5, <1>8 DEF g, raw

-----------------------------------------------------------------------------
(* What the invariant says of an open file and of a call of zip_fread.     *)
LEMMA FileFacts ==
  ASSUME FilesIInv, NEW h \in Handle, zf[h] # NULL
  PROVE  /\ zip \in OnDisk /\ zf[h] \in OpenFile(zip)
         /\ FileOK(zip, zf[h], Out(h)) /\ Placed(zip, zf[h])
         /\ zf[h].bytes_left \in 0 .. ULong - 1 /\ zf[h].cbytes_left \in Nat
BY DEF FilesIInv, FilesTypeOK, FilesOK, FileOK, OpenFile

LEMMA CallFacts ==
  ASSUME FilesIInv, call # NULL
  PROVE  /\ call.h \in Handle /\ zf[call.h] # NULL /\ call \in Fread(zip)
         /\ call.toread \in 1 .. MaxRead /\ call.toread \in Nat
         /\ call.outbuf \in Seq(Datum(zip)) /\ Len(call.outbuf) < call.toread
         /\ za = "open" /\ zf[call.h].error = "ok" /\ ~ zf[call.h].eof
         /\ zf[call.h].decomp /\ zf[call.h].bytes_left > 0
         /\ Out(call.h) = call.outbuf
<1>1. /\ call \in Fread(zip) /\ Len(call.outbuf) < call.toread
      /\ za = "open" /\ Reading(call.h) /\ zf[call.h].decomp
      /\ zf[call.h].bytes_left > 0
  BY DEF FilesIInv, FilesTypeOK, CallOK
<1>2. /\ call.h \in Handle /\ call.toread \in 1 .. MaxRead
      /\ call.outbuf \in Seq(Datum(zip))
  BY <1>1 DEF Fread
<1>3. call.toread \in Nat
  BY <1>2, SizeAssumption
<1>4. Out(call.h) = call.outbuf
  BY DEF Out
<1>5. QED BY <1>1, <1>2, <1>3, <1>4 DEF Reading

(* A step that changes one open file keeps the invariant if the file and   *)
(* the call are well.                                                      *)
CallFits(h, g, c) ==
  /\ c \in Fread(zip) /\ c.h = h /\ Len(c.outbuf) < c.toread
  /\ za = "open" /\ g.error = "ok" /\ ~ g.eof /\ g.decomp /\ g.bytes_left > 0

SameData(f, g) == g.crc = f.crc /\ g.crc_orig = f.crc_orig /\ g.check = f.check

LEMMA OneFile ==
  ASSUME FilesIInv, NEW h \in Handle, zf[h] # NULL, zf[h].error = "ok",
         NEW g \in OpenFile(zip),
         zf' = [zf EXCEPT ![h] = g], zip' = zip, za' = za, file' = file,
         pos' \in Position, call = NULL \/ call.h = h,
         \/ call' = NULL /\ FileOK(zip, g, <<>>)
         \/ CallFits(h, g, call') /\ FileOK(zip, g, call'.outbuf),
         \/ ret' = ret /\ SameData(zf[h], g)
         \/ \E n : ret' = <<h, n>> /\ ((n = 0 /\ g.check) => g.crc = g.crc_orig)
  PROVE  FilesIInv'
<1>1. /\ zip \in OnDisk /\ za \in {"open", "closed", "crashed"}
      /\ file \in Seq(Handle) /\ zf \in [Handle -> OpenFile(zip) \cup {NULL}]
      /\ TableIsOpenFiles /\ FilesOK /\ RetOK /\ ClosedOK
  BY DEF FilesIInv, FilesTypeOK
<1>2. NULL \notin OpenFile(zip) /\ NULL \notin Fread(zip)
  BY <1>1, NoFileAssumption
<1>3. /\ zf' \in [Handle -> OpenFile(zip) \cup {NULL}]
      /\ zf'[h] = g /\ g # NULL
      /\ \A k \in Handle : k # h => zf'[k] = zf[k]
  BY <1>1, <1>2
<1>4. {k \in Handle : zf'[k] # NULL} = {k \in Handle : zf[k] # NULL}
  BY <1>3
<1>5. TableIsOpenFiles'
  BY <1>1, <1>4 DEF TableIsOpenFiles
<1>6. RetOK'
  <2>1. CASE ret' = ret /\ SameData(zf[h], g)
    <3>1. ASSUME ret # NULL
          PROVE  /\ ret[1] \in Handle /\ zf'[ret[1]] # NULL
                 /\ (ret[2] = 0 /\ zf'[ret[1]].check) =>
                      zf'[ret[1]].crc = zf'[ret[1]].crc_orig
      <4>1. /\ ret[1] \in Handle /\ zf[ret[1]] # NULL
            /\ (ret[2] = 0 /\ zf[ret[1]].check) =>
                 zf[ret[1]].crc = zf[ret[1]].crc_orig
        BY <1>1, <3>1 DEF RetOK
      <4>2. CASE ret[1] = h
        BY <1>3, <2>1, <4>1, <4>2 DEF SameData
      <4>3. CASE ret[1] # h
        BY <1>3, <4>1, <4>3
      <4>4. QED BY <4>2, <4>3
    <3>2. QED BY <2>1, <3>1 DEF RetOK
  <2>2. CASE \E n : ret' = <<h, n>> /\ ((n = 0 /\ g.check) => g.crc = g.crc_orig)
    <3>1. PICK n : ret' = <<h, n>> /\ ((n = 0 /\ g.check) => g.crc = g.crc_orig)
      BY <2>2
    <3>2. ret'[1] = h /\ ret'[2] = n
      BY <3>1
    <3>3. QED BY <1>3, <3>1, <3>2 DEF RetOK
  <2>3. QED BY <2>1, <2>2
<1>7. ClosedOK'
  BY <1>1, <1>3 DEF ClosedOK
<1>8. CASE call' = NULL /\ FileOK(zip, g, <<>>)
  <2>1. ASSUME NEW k \in Handle, zf'[k] # NULL
        PROVE  FileOK(zip, zf'[k], Out(k)')
    <3>1. Out(k)' = <<>>
      BY <1>8 DEF Out
    <3>2. CASE k = h
      BY <1>3, <1>8, <3>1, <3>2
    <3>3. CASE k # h
      <4>1. zf'[k] = zf[k] /\ Out(k) = <<>>
        BY <1>3, <3>3 DEF Out
      <4>2. FileOK(zip, zf[k], Out(k))
        BY <1>1, <2>1, <4>1 DEF FilesOK
      <4>3. QED BY <3>1, <4>1, <4>2
    <3>4. QED BY <3>2, <3>3
  <2>2. FilesOK'
    BY <2>1 DEF FilesOK
  <2>3. FilesTypeOK' /\ CallOK'
    BY <1>1, <1>3, <1>5, <1>8 DEF FilesTypeOK, CallOK
  <2>4. QED BY <1>1, <1>6, <1>7, <2>2, <2>3 DEF FilesIInv
<1>9. CASE CallFits(h, g, call') /\ FileOK(zip, g, call'.outbuf)
  <2>1. ASSUME NEW k \in Handle, zf'[k] # NULL
        PROVE  FileOK(zip, zf'[k], Out(k)')
    <3>1. call' # NULL /\ call'.h = h
      BY <1>2, <1>9 DEF CallFits
    <3>2. CASE k = h
      <4>1. Out(k)' = call'.outbuf
        BY <3>1, <3>2 DEF Out
      <4>2. QED BY <1>3, <1>9, <3>2, <4>1
    <3>3. CASE k # h
      <4>1. zf'[k] = zf[k] /\ Out(k) = <<>> /\ Out(k)' = <<>>
        BY <1>3, <3>1, <3>3 DEF Out
      <4>2. FileOK(zip, zf[k], Out(k))
        BY <1>1, <2>1, <4>1 DEF FilesOK
      <4>3. QED BY <4>1, <4>2
    <3>4. QED BY <3>2, <3>3
  <2>2. FilesOK'
    BY <2>1 DEF FilesOK
  <2>3. FilesTypeOK' /\ CallOK'
    BY <1>1, <1>3, <1>5, <1>9 DEF FilesTypeOK, CallOK, CallFits, Reading
  <2>4. QED BY <1>1, <1>6, <1>7, <2>2, <2>3 DEF FilesIInv
<1>10. QED BY <1>8, <1>9

-----------------------------------------------------------------------------
(* The steps of zip_fread.                                                 *)

(* A file of which only eof, error and ended change.                       *)
LEMMA SameDataOK ==
  ASSUME NEW f, NEW g, NEW buf, NEW buf2, FileOK(zip, f, buf),
         SamePlace(f, g), g.crc = f.crc, g.bytes_left = f.bytes_left,
         ~ g.decomp => g.ended = f.ended,
         g.error = "ok" => f.error = "ok" /\ buf2 = buf,
         (g.eof /\ g.error = "ok" /\ g.check) => g.crc = g.crc_orig
  PROVE  FileOK(zip, g, buf2)
<1>1. /\ EntryOf(zip, g) = EntryOf(zip, f) /\ RawOf(zip, g) = RawOf(zip, f)
      /\ Got(zip, g) = Got(zip, f) /\ Done(zip, g) = Done(zip, f)
      /\ Placed(zip, f) => Placed(zip, g)
  BY PlaceKept
<1>2. /\ g.decomp = f.decomp /\ g.check = f.check
      /\ g.crc_orig = f.crc_orig /\ g.cbytes_left = f.cbytes_left
      /\ g.buffer = f.buffer
  BY DEF SamePlace
<1>3. Inflates(zip, f, buf) => Inflates(zip, g, buf2)
  BY <1>1 DEF Inflates
<1>4. (~ g.decomp /\ Copies(zip, f)) => Copies(zip, g)
  BY <1>1, <1>2 DEF Copies
<1>5. QED BY <1>1, <1>2, <1>3, <1>4 DEF FileOK

LEMMA FreadEndStep ==
  ASSUME FilesIInv, NEW h \in Handle, FreadEnd(h)
  PROVE  FilesIInv'
<1> DEFINE f == zf[h]
           error == IF Mismatch(f) THEN "crc" ELSE "ok"
           n == IF Mismatch(f) THEN -1 ELSE 0
           g == [f EXCEPT !.eof = TRUE, !.error = error]
<1>1. /\ call = NULL /\ f # NULL /\ f.error = "ok"
      /\ zf' = [zf EXCEPT ![h].eof = TRUE, ![h].error = error]
      /\ ret' = <<h, n>>
      /\ zip' = zip /\ za' = za /\ pos' = pos /\ file' = file /\ call' = NULL
  BY DEF FreadEnd, Idle, Reading, Return
<1>2. /\ f \in OpenFile(zip) /\ FileOK(zip, f, <<>>)
  BY <1>1, FileFacts DEF Out
<1>3. error \in Error
  BY DEF Error
<1>4. zf' = [zf EXCEPT ![h] = g]
  BY <1>1, <1>2 DEF FilesIInv, FilesTypeOK, OpenFile
<1>5. (error = "ok" \/ n = 0) /\ f.check => f.crc = f.crc_orig
  BY DEF Mismatch
<1> HIDE DEF f, error, n
<1>6. /\ g \in OpenFile(zip) /\ SamePlace(f, g) /\ g.crc = f.crc
      /\ g.bytes_left = f.bytes_left /\ g.ended = f.ended /\ g.error = error
      /\ g.check = f.check /\ g.crc_orig = f.crc_orig
  BY <1>2, <1>3 DEF OpenFile, SamePlace
<1> HIDE DEF g
<1>7. FileOK(zip, g, <<>>)
  BY <1>1, <1>2, <1>5, <1>6, SameDataOK
<1>8. pos' \in Position
  BY <1>1 DEF FilesIInv, FilesTypeOK
<1>9. \E m : ret' = <<h, m>> /\ ((m = 0 /\ g.check) => g.crc = g.crc_orig)
  BY <1>1, <1>5, <1>6
<1>10. QED BY <1>1, <1>4, <1>6, <1>7, <1>8, <1>9, OneFile DEF f

LEMMA FreadStoredStep ==
  ASSUME FilesIInv, NEW h \in Handle, NEW toread \in 1 .. MaxRead,
         FreadStored(h, toread)
  PROVE  FilesIInv'
<1> DEFINE f == zf[h]
           units == Units(f, toread)
           g == IF units = <<>> THEN [f EXCEPT !.error = "eof"]
                                ELSE StoredRead(f, units)
           n == IF units = <<>> THEN -1 ELSE Len(units)
<1>1. /\ call = NULL /\ f # NULL /\ f.error = "ok" /\ ~ f.eof /\ ~ f.decomp
      /\ zf' = [zf EXCEPT ![h] = g] /\ ret' = <<h, n>>
      /\ pos' = PosAfter(f, units)
      /\ zip' = zip /\ za' = za /\ file' = file /\ call' = NULL
  BY DEF FreadStored, Idle, Reading, Return, StoredRead
<1>2. /\ f \in OpenFile(zip) /\ FileOK(zip, f, <<>>) /\ zip \in OnDisk
      /\ Placed(zip, f) /\ f.fpos \in Nat
  BY <1>1, FileFacts DEF Out, OpenFile
<1>3. Copies(zip, f) /\ f.crc_orig = EntryOf(zip, f).sum
  BY <1>1, <1>2 DEF FileOK
<1>4. toread \in Nat
  BY SizeAssumption
<1>5. /\ units \in Seq(Range(zip.zp)) /\ Len(units) \in Nat
      /\ Len(units) <= f.cbytes_left
  <2>1. IsNext(Range(zip.zp), Got(zip, f), f.cbytes_left, toread,
               RawOf(zip, f), units)
    BY <1>2, <1>4, UnitsType
  <2>2. QED BY <2>1 DEF IsNext
<1>6. pos' \in Position
  <2>1. pos \in Position
    BY DEF FilesIInv, FilesTypeOK
  <2>2. f.fpos + Len(units) \in Nat
    BY <1>2, <1>5
  <2>3. QED BY <1>1, <2>1, <2>2 DEF PosAfter, SeekTo, Position
<1>7. CASE units = <<>>
  <2>1. g = [f EXCEPT !.error = "eof"] /\ n = -1
    BY <1>7
  <2>2. "eof" \in Error
    BY DEF Error
  <2> HIDE DEF f, n, g
  <2>3. /\ g \in OpenFile(zip) /\ SamePlace(f, g) /\ g.crc = f.crc
        /\ g.bytes_left = f.bytes_left /\ g.ended = f.ended
        /\ g.error = "eof"
    BY <1>2, <2>1, <2>2 DEF OpenFile, SamePlace
  <2>4. FileOK(zip, g, <<>>)
    BY <1>2, <2>3, SameDataOK
  <2>5. \E m : ret' = <<h, m>> /\ ((m = 0 /\ g.check) => g.crc = g.crc_orig)
    BY <1>1, <2>1
  <2>6. QED BY <1>1, <1>6, <2>3, <2>4, <2>5, OneFile DEF f
<1>8. CASE units # <<>>
  <2>1. g = StoredRead(f, units) /\ n = Len(units)
    BY <1>8
  <2>2. Len(units) # 0
    BY <1>5, <1>8, EmptySeq
  <2>3. /\ g \in OpenFile(zip) /\ Placed(zip, g) /\ Copies(zip, g)
        /\ EntryOf(zip, g) = EntryOf(zip, f)
    BY <1>2, <1>3, <1>4, <2>1, StoredKept
  <2>4. f.bytes_left = f.cbytes_left
    BY <1>3 DEF Copies
  <2> HIDE DEF f, units, n, g
  <2>5. /\ g.eof = f.eof /\ g.decomp = f.decomp
        /\ g.crc_orig = f.crc_orig
    BY <1>2, <1>5, <2>1, <2>4, StoredFields
  <2>6. FileOK(zip, g, <<>>)
    BY <1>1, <1>3, <2>3, <2>5 DEF FileOK
  <2>7. \E m : ret' = <<h, m>> /\ ((m = 0 /\ g.check) => g.crc = g.crc_orig)
    BY <1>1, <2>1, <2>2
  <2>8. QED BY <1>1, <1>6, <2>3, <2>6, <2>7, OneFile DEF f
<1>9. QED BY <1>7, <1>8

(* inflate takes pieces for which outbuf has room.                         *)
LEMMA PiecesType ==
  ASSUME FilesIInv, call # NULL
  PROVE  LET f == zf[call.h]
         IN \E p \in 0 .. Len(f.buffer) :
              /\ Pieces = SubSeq(f.buffer, 1, p) /\ Len(Pieces) = p
              /\ \A k \in 1 .. p : IsPiece(f.buffer[k])
              /\ Len(call.outbuf \o Inflated(Pieces)) <= call.toread
<1> DEFINE f == zf[call.h]
           buffer == f.buffer
           Fits(n) == /\ \A k \in 1 .. n : IsPiece(buffer[k])
                      /\ \A k \in 1 .. n - 1 : ~ buffer[k].last
                      /\ Len(call.outbuf \o Inflated(SubSeq(buffer, 1, n)))
                           <= call.toread
           fit == {n \in 0 .. Len(buffer) : Fits(n)}
<1>1. /\ f \in OpenFile(zip) /\ call.toread \in Nat
      /\ call.outbuf \in Seq(Datum(zip)) /\ Len(call.outbuf) < call.toread
  BY CallFacts, FileFacts
<1>2. buffer \in Seq(Range(zip.zp)) /\ Len(buffer) \in Nat
  <2>1. buffer \in Seq(Range(zip.zp))
    BY <1>1 DEF OpenFile
  <2>2. QED BY <2>1, LenProperties
<1>3. Len(call.outbuf) \in Nat /\ call.outbuf \o <<>> = call.outbuf
  BY <1>1, LenProperties, ConcatEmptySeq
<1>4. SubSeq(buffer, 1, 0) = <<>>
  BY <1>2, SubSeqEmpty
<1>5. Fits(0)
  <2>1. call.outbuf \o Inflated(SubSeq(buffer, 1, 0)) = call.outbuf
    BY <1>3, <1>4, InflatedNone
  <2>2. Len(call.outbuf) <= call.toread
    BY <1>1, <1>3
  <2> HIDE DEF buffer
  <2>3. Len(call.outbuf \o Inflated(SubSeq(buffer, 1, 0))) <= call.toread
    BY <2>1, <2>2
  <2>4. /\ \A k \in 1 .. 0 : IsPiece(buffer[k])
        /\ \A k \in 1 .. 0 - 1 : ~ buffer[k].last
    OBVIOUS
  <2>5. QED BY <2>3, <2>4, Zenon
<1>6. Pieces = IF f.ended THEN <<>> ELSE SubSeq(buffer, 1, Max(fit))
  BY DEF Pieces
<1>7. PICK p \in 0 .. Len(buffer) : Fits(p) /\ Pieces = SubSeq(buffer, 1, p)
  <2>1. CASE f.ended
    <3>1. Pieces = SubSeq(buffer, 1, 0)
      BY <1>4, <1>6, <2>1
    <3>2. 0 \in 0 .. Len(buffer)
      BY <1>2
    <3> HIDE DEF Fits, buffer
    <3>3. QED BY <1>5, <3>1, <3>2
  <2>2. CASE ~ f.ended
    <3> HIDE DEF Fits, buffer
    <3>1. fit \in SUBSET (0 .. Len(buffer)) /\ fit # {}
      BY <1>2, <1>5
    <3>2. Max(fit) \in fit
      BY <1>2, <3>1, MaxExists
    <3>3. QED BY <1>6, <2>2, <3>2
  <2>3. QED BY <2>1, <2>2
<1>8. Len(Pieces) = p
  <2>1. Len(SubSeq(buffer, 1, p)) = p
    <3>1. PICK s \in Seq(Range(zip.zp)), q \in Nat :
                s = buffer /\ q = p /\ q <= Len(s)
      BY <1>2
    <3>2. Len(s) \in Nat
      BY <1>2, <3>1
    <3>3. 0 \in Nat /\ q \in 0 .. Len(s) /\ q - 0 = q /\ 0 + 1 = 1
      BY <3>1, <3>2
    <3>4. Len(SubSeq(s, 0 + 1, q)) = q - 0
      BY <3>3, SubSeqPart
    <3>5. QED BY <3>1, <3>3, <3>4
  <2>2. QED BY <1>7, <2>1
<1>9. QED BY <1>7, <1>8

LEMMA ConcatGroups ==
  \A S : \A s, t, u \in Seq(S) : (s \o t) \o u = s \o (t \o u)
BY ConcatAssociative

(* What inflate delivers is what comes next in the data.                   *)
LEMMA InflatedNext ==
  ASSUME FilesIInv, call # NULL
  PROVE  LET f == zf[call.h]
             o == call.outbuf \o Inflated(Pieces)
         IN \E p \in 0 .. Len(f.buffer) :
              /\ Len(Pieces) = p /\ p \in Nat
              /\ \A k \in 1 .. p : IsPiece(f.buffer[k])
              /\ \A k \in 1 .. Done(zip, f) : IsPiece(RawOf(zip, f)[k])
              /\ \A k \in 1 .. Done(zip, f) + p : IsPiece(RawOf(zip, f)[k])
              /\ o \in Seq(Datum(zip)) /\ Len(o) \in Nat /\ Len(o) <= call.toread
              /\ f.crc \in Seq(Datum(zip))
              /\ f.crc \o o = Inflated(SubSeq(RawOf(zip, f), 1, Done(zip, f) + p))
<1> DEFINE f == zf[call.h]
           raw == RawOf(zip, f)
           done == Done(zip, f)
           o == call.outbuf \o Inflated(Pieces)
<1>1. PICK p \in 0 .. Len(f.buffer) :
        /\ Pieces = SubSeq(f.buffer, 1, p) /\ Len(Pieces) = p
        /\ \A k \in 1 .. p : IsPiece(f.buffer[k])
        /\ Len(o) <= call.toread
  BY PiecesType
<1>2. /\ f \in OpenFile(zip) /\ zip \in OnDisk /\ Placed(zip, f)
      /\ FileOK(zip, f, call.outbuf) /\ f.decomp /\ f.error = "ok"
      /\ call.outbuf \in Seq(Datum(zip))
  BY CallFacts, FileFacts
<1>3. Inflates(zip, f, call.outbuf)
  BY <1>2 DEF FileOK
<1>4. /\ \A k \in 1 .. done : IsPiece(raw[k])
      /\ f.crc \o call.outbuf = Inflated(SubSeq(raw, 1, done))
  BY <1>2, <1>3 DEF Inflates
<1>5. f.crc \in Seq(Datum(zip)) /\ Len(f.buffer) \in Nat
  BY <1>2, PlacedType DEF OpenFile
<1> HIDE DEF f
<1>6. /\ \A k \in 1 .. done + p : IsPiece(raw[k])
      /\ Inflated(SubSeq(f.buffer, 1, p)) \in Seq(Datum(zip))
      /\ Inflated(SubSeq(raw, 1, done + p))
           = Inflated(SubSeq(raw, 1, done)) \o Inflated(SubSeq(f.buffer, 1, p))
  BY <1>1, <1>2, <1>4, Takes
<1> HIDE DEF raw, done
<1>7. Inflated(Pieces) \in Seq(Datum(zip))
  BY <1>1, <1>6
<1>8. Inflated(SubSeq(raw, 1, done + p))
        = (f.crc \o call.outbuf) \o Inflated(Pieces)
  BY <1>1, <1>4, <1>6
<1>9. f.crc \o o = Inflated(SubSeq(raw, 1, done + p))
  <2> DEFINE S == Datum(zip)
  <2>1. PICK a \in Seq(S), b \in Seq(S), c \in Seq(S) :
          a = f.crc /\ b = call.outbuf /\ c = Inflated(Pieces)
    BY <1>2, <1>5, <1>7
  <2> HIDE DEF S
  <2>2. (a \o b) \o c = a \o (b \o c)
    BY ConcatGroups, SMTT(20)
  <2>3. f.crc \o o = a \o (b \o c)
    BY <2>1
  <2>4. Inflated(SubSeq(raw, 1, done + p)) = (a \o b) \o c
    BY <1>8, <2>1
  <2>5. QED BY <2>2, <2>3, <2>4
<1>10. o \in Seq(Datum(zip)) /\ Len(o) \in Nat
  <2>1. o \in Seq(Datum(zip))
    BY <1>2, <1>7, ConcatProperties
  <2> HIDE DEF o
  <2>2. QED BY <2>1, LenProperties
<1>11. p \in Nat
  BY <1>5
<1>12. QED BY <1>1, <1>4, <1>5, <1>6, <1>9, <1>10, <1>11 DEF f, raw, done

LEMMA PrefixOfItself ==
  ASSUME NEW V, NEW s \in Seq(V)
  PROVE  IsPrefix(s, s)
<1>1. Len(s) \in Nat
  BY LenProperties
<1>2. QED BY <1>1 DEF IsPrefix

LEMMA Inflate1Step ==
  ASSUME FilesIInv, Inflate1
  PROVE  FilesIInv'
<1> DEFINE h == call.h
           f == zf[h]
           raw == RawOf(zip, f)
           done == Done(zip, f)
           o == call.outbuf \o Inflated(Pieces)
           left == (f.bytes_left - Len(o)) % ULong
           taken == Left(f, Len(Pieces), Ends)
           given == [taken EXCEPT !.crc = @ \o o, !.bytes_left = left]
<1>1. call # NULL
  BY DEF Inflate1
<1>2. /\ h \in Handle /\ f # NULL /\ f.error = "ok" /\ ~ f.eof /\ f.decomp
      /\ f.bytes_left > 0 /\ call \in Fread(zip) /\ call.toread \in Nat
      /\ call.toread > 0 /\ za = "open"
  BY <1>1, CallFacts
<1>3. /\ f \in OpenFile(zip) /\ zip \in OnDisk /\ FileOK(zip, f, call.outbuf)
      /\ Placed(zip, f) /\ f.bytes_left \in 0 .. ULong - 1
      /\ f.bytes_left \in Nat
  BY <1>1, <1>2, CallFacts, FileFacts, SizeAssumption
<1>4. PICK p \in 0 .. Len(f.buffer) :
        /\ Len(Pieces) = p /\ p \in Nat
        /\ \A k \in 1 .. p : IsPiece(f.buffer[k])
        /\ \A k \in 1 .. done : IsPiece(raw[k])
        /\ \A k \in 1 .. done + p : IsPiece(raw[k])
        /\ o \in Seq(Datum(zip)) /\ Len(o) \in Nat /\ Len(o) <= call.toread
        /\ f.crc \in Seq(Datum(zip))
        /\ f.crc \o o = Inflated(SubSeq(raw, 1, done + p))
  BY <1>1, InflatedNext
<1>5. PICK ended \in BOOLEAN : ended = Ends
  <2>1. Ends \in BOOLEAN
    BY DEF Ends
  <2>2. QED BY <2>1
<1>6. /\ zip' = zip /\ za' = za /\ pos' = pos /\ file' = file
      /\ IF Enough(Len(o))
           THEN /\ zf' = [zf EXCEPT ![h] = given] /\ call' = NULL
                /\ ret' = <<h, Len(o)>>
           ELSE /\ call' = [call EXCEPT !.outbuf = o]
                /\ zf' = [zf EXCEPT ![h] = taken] /\ ret' = ret
  BY DEF Inflate1, Finish, Return, Left
<1>7. Enough(Len(o)) <=> (Len(o) >= f.bytes_left \/ Len(o) >= call.toread)
  BY DEF Enough
<1>8. taken = Left(f, p, ended)
  BY <1>4, <1>5
<1>9. pos' \in Position /\ call.h = h
  BY <1>6 DEF FilesIInv, FilesTypeOK
<1> HIDE DEF f, o, taken, h, raw, done
<1>10. /\ taken \in OpenFile(zip) /\ taken.idx = f.idx
       /\ taken.decomp = f.decomp /\ taken.check = f.check /\ taken.eof = f.eof
       /\ taken.error = f.error /\ taken.crc = f.crc
       /\ taken.crc_orig = f.crc_orig /\ taken.bytes_left = f.bytes_left
  BY <1>3, <1>4, <1>5, <1>8, LeftFields
<1>11. /\ Placed(zip, taken)
       /\ EntryOf(zip, taken) = EntryOf(zip, f) /\ RawOf(zip, taken) = raw
       /\ Done(zip, taken) = done + p
  BY <1>3, <1>4, <1>5, <1>8, LeftPlace DEF raw, done
<1>12. f.check /\ f.crc_orig = EntryOf(zip, f).sum
  BY <1>2, <1>3 DEF FileOK
<1>13. CASE ~ Enough(Len(o))
  <2>1. /\ call' = [call EXCEPT !.outbuf = o]
        /\ zf' = [zf EXCEPT ![h] = taken] /\ ret' = ret
    BY <1>6, <1>13
  <2>2. call' \in Fread(zip) /\ call'.h = h /\ call'.outbuf = o
        /\ call'.toread = call.toread
    BY <1>2, <1>4, <1>9, <2>1 DEF Fread
  <2>3. Len(o) < call.toread
    BY <1>2, <1>4, <1>7, <1>13
  <2>4. CallFits(h, taken, call')
    BY <1>2, <1>10, <2>2, <2>3 DEF CallFits
  <2>5. IsPrefix(f.crc, f.crc \o o)
    BY <1>4, PrefixOfConcat
  <2>6. Inflates(zip, taken, o)
    BY <1>4, <1>10, <1>11, <2>5 DEF Inflates
  <2>7. FileOK(zip, taken, call'.outbuf)
    BY <1>2, <1>10, <1>11, <1>12, <2>2, <2>6 DEF FileOK
  <2>8. SameData(f, taken)
    BY <1>10 DEF SameData
  <2>9. QED
    BY <1>2, <1>6, <1>9, <1>10, <2>1, <2>4, <2>7, <2>8, OneFile DEF f
<1>14. CASE Enough(Len(o))
  <2>1. /\ call' = NULL /\ ret' = <<h, Len(o)>>
        /\ zf' = [zf EXCEPT ![h] = given]
    BY <1>6, <1>14
  <2>2. Len(o) # 0
    BY <1>2, <1>3, <1>4, <1>7, <1>14
  <2>3. left \in 0 .. ULong - 1
    BY <1>3, <1>4, SizeAssumption
  <2> HIDE DEF left
  <2>4. PICK crc \in Seq(Datum(zip)) : crc = f.crc \o o
    BY <1>4, ConcatProperties
  <2>5. given = [taken EXCEPT !.crc = crc, !.bytes_left = left]
    BY <1>10, <2>4 DEF OpenFile
  <2> HIDE DEF given
  <2>6. /\ given \in OpenFile(zip) /\ SamePlace(taken, given)
        /\ given.crc = crc /\ given.eof = taken.eof /\ given.error = taken.error
    BY <1>10, <2>3, <2>4, <2>5 DEF OpenFile, SamePlace
  <2>7. /\ EntryOf(zip, given) = EntryOf(zip, f) /\ RawOf(zip, given) = raw
        /\ Done(zip, given) = done + p /\ Placed(zip, given)
    BY <1>11, <2>6, PlaceKept
  <2>8. /\ given.decomp = f.decomp /\ given.check = f.check
        /\ given.crc_orig = f.crc_orig
    BY <1>10, <2>6 DEF SamePlace
  <2>9. IsPrefix(crc, crc) /\ crc \o <<>> = crc
    BY PrefixOfItself, ConcatEmptySeq
  <2>10. Inflates(zip, given, <<>>)
    BY <1>4, <2>4, <2>6, <2>7, <2>9 DEF Inflates
  <2>11. FileOK(zip, given, <<>>)
    BY <1>2, <1>10, <1>12, <2>6, <2>7, <2>8, <2>10 DEF FileOK
  <2>12. \E n : ret' = <<h, n>> /\ ((n = 0 /\ given.check) => given.crc = given.crc_orig)
    BY <2>1, <2>2
  <2>13. QED
    BY <1>2, <1>6, <1>9, <2>1, <2>6, <2>11, <2>12, OneFile DEF f
<1>15. QED BY <1>13, <1>14

LEMMA StreamEndStep ==
  ASSUME FilesIInv, StreamEnd
  PROVE  FilesIInv'
<1> DEFINE h == call.h
           f == zf[h]
           wrong == f.crc # f.crc_orig
           error == IF wrong THEN "crc" ELSE "ok"
           n == IF wrong THEN -1 ELSE 0
           g == [f EXCEPT !.ended = TRUE, !.error = error]
<1>1. /\ call # NULL /\ call.outbuf = <<>>
      /\ zf' = [zf EXCEPT ![h] = g] /\ call' = NULL /\ ret' = <<h, n>>
      /\ zip' = zip /\ za' = za /\ pos' = pos /\ file' = file
  BY DEF StreamEnd, Finish, Return
<1>2. h \in Handle /\ f # NULL /\ f.decomp /\ ~ f.eof /\ f.error = "ok"
  BY <1>1, CallFacts
<1>3. f \in OpenFile(zip) /\ FileOK(zip, f, <<>>)
  BY <1>1, <1>2, CallFacts, FileFacts
<1>4. error \in Error
  BY DEF Error
<1>5. n = 0 => f.crc = f.crc_orig
  OBVIOUS
<1>6. pos' \in Position /\ call.h = h
  BY <1>1 DEF FilesIInv, FilesTypeOK
<1> HIDE DEF f, error, n, h
<1>7. /\ g \in OpenFile(zip) /\ SamePlace(f, g) /\ g.crc = f.crc
      /\ g.bytes_left = f.bytes_left /\ g.eof = f.eof /\ g.error = error
      /\ g.check = f.check /\ g.crc_orig = f.crc_orig /\ g.decomp = f.decomp
  BY <1>3, <1>4 DEF OpenFile, SamePlace
<1> HIDE DEF g
<1>8. FileOK(zip, g, <<>>)
  BY <1>2, <1>3, <1>7, SameDataOK
<1>9. \E m : ret' = <<h, m>> /\ ((m = 0 /\ g.check) => g.crc = g.crc_orig)
  BY <1>1, <1>5, <1>7
<1>10. QED BY <1>1, <1>2, <1>6, <1>7, <1>8, <1>9, OneFile DEF f

(* A call that fails, for a reason other than the check sum.               *)
LEMMA ErrorStep ==
  ASSUME FilesIInv, call # NULL, NEW error \in Error \ {"ok"},
         Finish([zf[call.h] EXCEPT !.error = error], -1),
         zip' = zip, za' = za, file' = file, pos' \in Position
  PROVE  FilesIInv'
<1> DEFINE h == call.h
           f == zf[h]
           g == [f EXCEPT !.error = error]
<1>1. zf' = [zf EXCEPT ![h] = g] /\ call' = NULL /\ ret' = <<h, -1>>
  BY DEF Finish, Return
<1>2. h \in Handle /\ f # NULL /\ f.error = "ok"
  BY CallFacts
<1>3. f \in OpenFile(zip) /\ FileOK(zip, f, Out(h))
  BY <1>2, FileFacts
<1>4. call.h = h
  OBVIOUS
<1> HIDE DEF f, h
<1>5. /\ g \in OpenFile(zip) /\ SamePlace(f, g) /\ g.crc = f.crc
      /\ g.bytes_left = f.bytes_left /\ g.ended = f.ended /\ g.error # "ok"
  BY <1>3 DEF OpenFile, SamePlace
<1> HIDE DEF g
<1>6. FileOK(zip, g, <<>>)
  BY <1>3, <1>5, SameDataOK
<1>7. \E m : ret' = <<h, m>> /\ ((m = 0 /\ g.check) => g.crc = g.crc_orig)
  BY <1>1
<1>8. QED BY <1>1, <1>2, <1>4, <1>5, <1>6, <1>7, OneFile DEF f

LEMMA InflateFailsStep ==
  ASSUME FilesIInv, InflateFails
  PROVE  FilesIInv'
<1>1. /\ call # NULL /\ Finish([zf[call.h] EXCEPT !.error = "zlib"], -1)
      /\ zip' = zip /\ za' = za /\ pos' = pos /\ file' = file
  BY DEF InflateFails
<1>2. pos' \in Position
  BY <1>1 DEF FilesIInv, FilesTypeOK
<1>3. "zlib" \in Error \ {"ok"}
  BY DEF Error
<1>4. QED BY <1>1, <1>2, <1>3, ErrorStep

LEMMA RefillStep ==
  ASSUME FilesIInv, Refill
  PROVE  FilesIInv'
<1> DEFINE h == call.h
           f == zf[h]
           units == Units(f, BUFSIZE)
           g == Filled(f, units)
           error == IF f.cbytes_left = 0 THEN "incons" ELSE "eof"
<1>1. /\ call # NULL /\ f.buffer = <<>> /\ pos' = PosAfter(f, units)
      /\ zip' = zip /\ za' = za /\ file' = file
      /\ IF units # <<>>
           THEN zf' = [zf EXCEPT ![h] = g] /\ call' = call /\ ret' = ret
           ELSE Finish([zf[call.h] EXCEPT !.error = error], -1)
  BY DEF Refill, Filled
<1>2. /\ h \in Handle /\ f # NULL /\ f.decomp /\ f.error = "ok" /\ ~ f.eof
      /\ za = "open" /\ call \in Fread(zip) /\ Len(call.outbuf) < call.toread
      /\ f.bytes_left > 0
  BY <1>1, CallFacts
<1>3. /\ f \in OpenFile(zip) /\ FileOK(zip, f, call.outbuf) /\ zip \in OnDisk
      /\ Placed(zip, f) /\ f.fpos \in Nat
  BY <1>1, <1>2, CallFacts, FileFacts DEF OpenFile
<1>4. BUFSIZE \in Nat
  BY SizeAssumption
<1>5. /\ units \in Seq(Range(zip.zp)) /\ Len(units) \in Nat
      /\ Len(units) <= f.cbytes_left
  BY <1>3, <1>4, UnitsType DEF IsNext
<1>6. pos' \in Position
  <2>1. pos \in Position
    BY DEF FilesIInv, FilesTypeOK
  <2>2. f.fpos + Len(units) \in Nat
    BY <1>3, <1>5
  <2>3. QED BY <1>1, <2>1, <2>2 DEF PosAfter, SeekTo, Position
<1>7. CASE units = <<>>
  <2>1. error \in Error \ {"ok"}
    BY DEF Error
  <2> HIDE DEF error, units
  <2>2. QED BY <1>1, <1>6, <1>7, <2>1, ErrorStep
<1>8. CASE units # <<>>
  <2>1. zf' = [zf EXCEPT ![h] = g] /\ call' = call /\ ret' = ret
    BY <1>1, <1>8
  <2>2. FileOK(zip, g, call.outbuf)
    BY <1>1, <1>2, <1>3, <1>4, FilledOK
  <2>3. call.h = h
    OBVIOUS
  <2> HIDE DEF f, h, units
  <2>4. /\ g \in OpenFile(zip)
        /\ g.decomp = f.decomp /\ g.check = f.check /\ g.eof = f.eof
        /\ g.error = f.error /\ g.crc = f.crc /\ g.crc_orig = f.crc_orig
        /\ g.bytes_left = f.bytes_left
    BY <1>3, <1>5, FilledFields
  <2> HIDE DEF g
  <2>5. CallFits(h, g, call') /\ SameData(f, g)
    BY <1>2, <2>1, <2>3, <2>4 DEF CallFits, SameData
  <2>6. FileOK(zip, g, call'.outbuf)
    BY <2>1, <2>2
  <2>7. QED
    BY <1>1, <1>2, <1>6, <2>1, <2>3, <2>4, <2>5, <2>6, OneFile DEF f
<1>9. QED BY <1>7, <1>8

-----------------------------------------------------------------------------
(* The other steps.                                                        *)

(* A step that leaves the files alone, and starts no call.                 *)
LEMMA NoFile ==
  ASSUME FilesIInv, zip' = zip, za' = za, file' = file, zf' = zf, call = NULL,
         call' = NULL, pos' \in Position,
         \/ ret' = NULL
         \/ \E h \in Handle, n \in Int :
              /\ ret' = <<h, n>> /\ zf[h] # NULL
              /\ (n = 0 /\ zf[h].check) => zf[h].crc = zf[h].crc_orig
  PROVE  FilesIInv'
<1>1. TableIsOpenFiles' = TableIsOpenFiles
  BY DEF TableIsOpenFiles
<1>2. FilesTypeOK' /\ CallOK' /\ zip' \in OnDisk
  BY <1>1 DEF FilesIInv, FilesTypeOK, CallOK
<1>3. FilesOK'
  <2>1. \A k : Out(k)' = Out(k)
    BY DEF Out
  <2>2. QED BY <2>1 DEF FilesIInv, FilesOK
<1>4. RetOK'
  <2>1. CASE ret' = NULL
    BY <2>1 DEF RetOK
  <2>2. CASE \E h \in Handle, n \in Int :
               /\ ret' = <<h, n>> /\ zf[h] # NULL
               /\ (n = 0 /\ zf[h].check) => zf[h].crc = zf[h].crc_orig
    <3>1. PICK h \in Handle, n \in Int :
            /\ ret' = <<h, n>> /\ zf[h] # NULL
            /\ (n = 0 /\ zf[h].check) => zf[h].crc = zf[h].crc_orig
      BY <2>2
    <3>2. ret'[1] = h /\ ret'[2] = n
      BY <3>1
    <3>3. QED BY <3>1, <3>2 DEF RetOK
  <2>3. QED BY <2>1, <2>2
<1>5. ClosedOK'
  BY DEF FilesIInv, ClosedOK
<1>6. QED BY <1>2, <1>3, <1>4, <1>5 DEF FilesIInv

LEMMA FreadErrorStep ==
  ASSUME FilesIInv, NEW h \in Handle, FreadError(h)
  PROVE  FilesIInv'
<1>1. /\ ret' = <<h, -1>> /\ zf[h] # NULL /\ call = NULL /\ pos' = pos
      /\ zip' = zip /\ za' = za /\ file' = file /\ zf' = zf /\ call' = call
  BY DEF FreadError, Return, Idle
<1>2. pos' \in Position
  BY <1>1 DEF FilesIInv, FilesTypeOK
<1>3. \E k \in Handle, n \in Int :
        /\ ret' = <<k, n>> /\ zf[k] # NULL
        /\ (n = 0 /\ zf[k].check) => zf[k].crc = zf[k].crc_orig
  BY <1>1
<1>4. QED BY <1>1, <1>2, <1>3, NoFile

LEMMA FreadEofStep ==
  ASSUME FilesIInv, NEW h \in Handle, FreadEof(h)
  PROVE  FilesIInv'
<1>1. /\ ret' = <<h, 0>> /\ zf[h] # NULL /\ call = NULL /\ pos' = pos
      /\ zip' = zip /\ za' = za /\ file' = file /\ zf' = zf /\ call' = call
      /\ zf[h].error = "ok" /\ zf[h].eof
  BY DEF FreadEof, Return, Idle
<1>2. pos' \in Position
  BY <1>1 DEF FilesIInv, FilesTypeOK
<1>3. zf[h].check => zf[h].crc = zf[h].crc_orig
  BY <1>1, FileFacts DEF FileOK
<1>4. \E k \in Handle, n \in Int :
        /\ ret' = <<k, n>> /\ zf[k] # NULL
        /\ (n = 0 /\ zf[k].check) => zf[k].crc = zf[k].crc_orig
  BY <1>1, <1>3
<1>5. QED BY <1>1, <1>2, <1>4, NoFile

LEMMA FreadDeflatedStep ==
  ASSUME FilesIInv, NEW h \in Handle, NEW toread \in 1 .. MaxRead,
         FreadDeflated(h, toread)
  PROVE  FilesIInv'
<1>1. /\ call = NULL /\ Reading(h) /\ zf[h].bytes_left > 0 /\ zf[h].decomp
      /\ call' = [h |-> h, toread |-> toread, outbuf |-> <<>>]
      /\ zip' = zip /\ za' = za /\ pos' = pos /\ file' = file /\ zf' = zf
      /\ ret' = ret /\ za # "crashed"
  BY DEF FreadDeflated, Idle
<1>2. /\ zip \in OnDisk /\ za \in {"open", "closed", "crashed"}
      /\ pos \in Position
      /\ file \in Seq(Handle) /\ zf \in [Handle -> OpenFile(zip) \cup {NULL}]
      /\ TableIsOpenFiles /\ FilesOK /\ RetOK /\ ClosedOK
  BY DEF FilesIInv, FilesTypeOK
<1>3. call'.h = h /\ call'.toread = toread /\ call'.outbuf = <<>>
  BY <1>1
<1>4. call' \in Fread(zip) /\ Len(call'.outbuf) < call'.toread
  <2>1. <<>> \in Seq(Datum(zip)) /\ Len(<<>>) = 0
    BY EmptySeq
  <2>2. call' \in Fread(zip)
    BY <1>1, <2>1 DEF Fread
  <2>3. QED BY <1>3, <2>1, <2>2, SizeAssumption
<1>5. TableIsOpenFiles' /\ RetOK' /\ Reading(h)' /\ ClosedOK'
  BY <1>1, <1>2 DEF TableIsOpenFiles, RetOK, Reading, ClosedOK
<1>6. FilesOK'
  <2>1. \A k : Out(k)' = <<>> /\ Out(k) = <<>>
    BY <1>1, <1>3 DEF Out
  <2>2. QED BY <1>1, <1>2, <2>1 DEF FilesOK
<1>7. za = "open"
  BY <1>1, <1>2 DEF ClosedOK, Reading
<1>8. FilesTypeOK' /\ CallOK'
  BY <1>1, <1>2, <1>3, <1>4, <1>5, <1>7 DEF FilesTypeOK, CallOK
<1>9. QED BY <1>1, <1>2, <1>5, <1>6, <1>8 DEF FilesIInv

(* The table of open files.                                                *)
LEMMA TableAppend ==
  ASSUME NEW H, NEW t \in Seq(H), NEW h \in H, h \notin Range(t), IsInjective(t)
  PROVE  /\ Append(t, h) \in Seq(H) /\ Range(Append(t, h)) = Range(t) \cup {h}
         /\ IsInjective(Append(t, h))
<1> DEFINE s == Append(t, h)
<1>1. PICK n \in Nat : n = Len(t)
  OBVIOUS
<1>2. /\ s \in Seq(H) /\ DOMAIN s = 1 .. n + 1 /\ DOMAIN t = 1 .. n
      /\ s[n + 1] = h /\ \A k \in 1 .. n : s[k] = t[k]
  BY <1>1, AppendProperties
<1> HIDE DEF s
<1>3. \A k \in 1 .. n : t[k] # h
  BY <1>2 DEF Range
<1>4. Range(s) = Range(t) \cup {h}
  <2>1. 1 .. n + 1 = (1 .. n) \cup {n + 1}
    OBVIOUS
  <2>2. QED BY <1>2, <2>1 DEF Range
<1>5. IsInjective(s)
  <2>1. SUFFICES ASSUME NEW a \in 1 .. n + 1, NEW b \in 1 .. n + 1, s[a] = s[b]
                 PROVE  a = b
    BY <1>2 DEF IsInjective
  <2>2. a \in 1 .. n \/ a = n + 1
    OBVIOUS
  <2>3. b \in 1 .. n \/ b = n + 1
    OBVIOUS
  <2>4. \A i, j \in 1 .. n : t[i] = t[j] => i = j
    BY <1>2 DEF IsInjective
  <2>5. QED BY <1>2, <1>3, <2>1, <2>2, <2>3, <2>4
<1>6. QED BY <1>2, <1>4, <1>5 DEF s

LEMMA TableWithout ==
  ASSUME NEW H, NEW t \in Seq(H), NEW h \in Range(t), IsInjective(t)
  PROVE  LET w == SubSeq([k \in DOMAIN t |-> IF t[k] = h THEN Last(t) ELSE t[k]],
                         1, Len(t) - 1)
         IN w \in Seq(H) /\ Range(w) = Range(t) \ {h} /\ IsInjective(w)
<1> DEFINE s == [k \in DOMAIN t |-> IF t[k] = h THEN Last(t) ELSE t[k]]
           w == SubSeq(s, 1, Len(t) - 1)
<1>1. PICK n \in Nat : n = Len(t)
  OBVIOUS
<1>2. DOMAIN t = 1 .. n /\ \A k \in 1 .. n : t[k] \in H
  BY <1>1, ElementOfSeq, LenProperties
<1>3. PICK j \in 1 .. n : t[j] = h
  BY <1>2 DEF Range
<1>4. n \in 1 .. n /\ n - 1 \in Nat
  BY <1>3
<1>5. Last(t) = t[n]
  BY <1>1 DEF Last
<1>6. /\ s \in Seq(H) /\ Len(s) = n
      /\ \A k \in 1 .. n : s[k] = IF t[k] = h THEN t[n] ELSE t[k]
  BY <1>2, <1>4, <1>5
<1> HIDE DEF s
<1>7. /\ w \in Seq(H) /\ DOMAIN w = 1 .. n - 1
      /\ \A k \in 1 .. n - 1 : w[k] = s[k]
  <2>1. PICK m \in Nat : m = n - 1
    BY <1>4
  <2>2. 0 \in Nat /\ m \in 0 .. Len(s) /\ 0 + 1 = 1 /\ m - 0 = m
    BY <1>6, <2>1
  <2>3. /\ SubSeq(s, 0 + 1, m) \in Seq(H) /\ Len(SubSeq(s, 0 + 1, m)) = m - 0
        /\ \A k \in 1 .. m - 0 : SubSeq(s, 0 + 1, m)[k] = s[0 + k]
    BY <1>6, <2>2, SubSeqPart
  <2>4. w = SubSeq(s, 0 + 1, m)
    BY <1>1, <2>1, <2>2
  <2> HIDE DEF w
  <2>5. w \in Seq(H) /\ Len(w) = m /\ \A k \in 1 .. m : w[k] = s[k]
    <3>1. \A k \in 1 .. m : 0 + k = k
      OBVIOUS
    <3>2. QED BY <2>2, <2>3, <2>4, <3>1
  <2>6. QED BY <2>1, <2>5, LenProperties
<1> HIDE DEF w
<1>8. \A k \in 1 .. n : (t[k] = h <=> k = j)
  BY <1>2, <1>3 DEF IsInjective
<1>9. \A k \in 1 .. n - 1 : k \in 1 .. n /\ k # n
  BY <1>4
<1>10. \A k \in 1 .. n - 1 : w[k] = IF k = j THEN t[n] ELSE t[k]
  BY <1>6, <1>7, <1>8, <1>9
<1>11. \A k, l \in 1 .. n : t[k] = t[l] => k = l
  BY <1>2 DEF IsInjective
<1>12. Range(w) = Range(t) \ {h}
  <2>1. ASSUME NEW k \in 1 .. n - 1 PROVE w[k] \in Range(t) \ {h}
    <3>1. k \in 1 .. n /\ k # n
      BY <1>9
    <3>2. CASE k = j
      <4>1. w[k] = t[n] /\ t[n] # h
        BY <1>4, <1>8, <1>10, <3>1, <3>2
      <4>2. QED BY <1>2, <1>4, <4>1 DEF Range
    <3>3. CASE k # j
      <4>1. w[k] = t[k] /\ t[k] # h
        BY <1>8, <1>10, <3>1, <3>3
      <4>2. QED BY <1>2, <3>1, <4>1 DEF Range
    <3>4. QED BY <3>2, <3>3
  <2>2. ASSUME NEW k \in 1 .. n, t[k] # h PROVE t[k] \in Range(w)
    <3>1. k # j
      BY <1>8, <2>2
    <3>2. CASE k = n
      <4>1. j \in 1 .. n - 1
        BY <1>4, <3>1, <3>2
      <4>2. w[j] = t[k]
        BY <1>10, <3>2, <4>1
      <4>3. QED BY <1>7, <4>1, <4>2 DEF Range
    <3>3. CASE k # n
      <4>1. k \in 1 .. n - 1
        BY <3>3
      <4>2. w[k] = t[k]
        BY <1>10, <3>1, <4>1
      <4>3. QED BY <1>7, <4>1, <4>2 DEF Range
    <3>4. QED BY <3>2, <3>3
  <2>3. Range(w) \subseteq Range(t) \ {h}
    BY <1>7, <2>1 DEF Range
  <2>4. Range(t) \ {h} \subseteq Range(w)
    <3>1. ASSUME NEW v \in Range(t), v # h PROVE v \in Range(w)
      <4>1. PICK k \in 1 .. n : v = t[k]
        BY <1>2 DEF Range
      <4>2. QED BY <2>2, <3>1, <4>1
    <3>2. QED BY <3>1
  <2>5. QED BY <2>3, <2>4
<1>13. IsInjective(w)
  <2>1. SUFFICES ASSUME NEW a \in 1 .. n - 1, NEW b \in 1 .. n - 1, w[a] = w[b]
                 PROVE  a = b
    BY <1>7 DEF IsInjective
  <2>2. a \in 1 .. n /\ b \in 1 .. n /\ a # n /\ b # n
    BY <1>9
  <2>3. /\ w[a] = IF a = j THEN t[n] ELSE t[a]
        /\ w[b] = IF b = j THEN t[n] ELSE t[b]
    BY <1>10
  <2>4. QED BY <1>4, <1>11, <2>1, <2>2, <2>3
<1>14. QED BY <1>7, <1>12, <1>13 DEF s, w

LEMMA FopenStep ==
  ASSUME FilesIInv, NEW h \in Handle, NEW i \in DOMAIN zip.entry,
         NEW compressed \in BOOLEAN, Fopen(h, i, compressed)
  PROVE  FilesIInv'
<1> DEFINE f == NewFile(i, compressed)
           units == IF f.decomp THEN Units(f, BUFSIZE) ELSE <<>>
           n == IF f.decomp THEN BUFSIZE ELSE 0
           g == Filled(f, units)
<1>1. /\ za = "open" /\ zf[h] = NULL /\ call = NULL /\ CanOpen(f)
      /\ zf' = [zf EXCEPT ![h] = g] /\ pos' = f.fpos + Len(units)
      /\ file' = Append(file, h) /\ ret' = NULL
      /\ zip' = zip /\ za' = za /\ call' = NULL
  BY DEF Fopen, Idle, Filled
<1>2. /\ zip \in OnDisk /\ pos \in Position
      /\ file \in Seq(Handle) /\ zf \in [Handle -> OpenFile(zip) \cup {NULL}]
      /\ Range(file) = {k \in Handle : zf[k] # NULL} /\ IsInjective(file)
      /\ FilesOK
  BY <1>1 DEF FilesIInv, FilesTypeOK, TableIsOpenFiles
<1>3. /\ f \in OpenFile(zip) /\ f.idx = i /\ f.buffer = <<>> /\ ~ f.eof
      /\ f.error = "ok" /\ f.fpos \in Nat
  BY <1>2, NewFileFields DEF OpenFile
<1>4. FileOK(zip, f, <<>>)
  <2>1. HasMagic(zip.zp, zip.entry[i].offset, "PK34")
    BY <1>1, <1>3 DEF CanOpen
  <2>2. QED BY <1>2, <2>1, NewFileOK
<1>5. Placed(zip, f)
  BY <1>4 DEF FileOK
<1> HIDE DEF f
<1>6. n \in Nat /\ (f.decomp \/ n = 0) /\ units = Units(f, n)
  <2>1. BUFSIZE \in Nat
    BY SizeAssumption
  <2>2. CASE f.decomp
    BY <2>1, <2>2
  <2>3. CASE ~ f.decomp
    <3>1. IsNext(Range(zip.zp), Got(zip, f), f.cbytes_left, 0,
                 RawOf(zip, f), Units(f, 0))
      BY <1>2, <1>3, <1>5, UnitsType
    <3>2. Units(f, 0) \in Seq(Range(zip.zp)) /\ Len(Units(f, 0)) = 0
      BY <3>1 DEF IsNext
    <3>3. Units(f, 0) = <<>>
      BY <3>2, EmptySeq
    <3>4. QED BY <2>3, <3>3
  <2>4. QED BY <2>2, <2>3
<1>7. /\ units \in Seq(Range(zip.zp)) /\ Len(units) \in Nat
      /\ Len(units) <= f.cbytes_left
  <2>1. IsNext(Range(zip.zp), Got(zip, f), f.cbytes_left, n, RawOf(zip, f), units)
    BY <1>2, <1>3, <1>5, <1>6, UnitsType
  <2>2. QED BY <2>1 DEF IsNext
<1>8. FileOK(zip, g, <<>>)
  BY <1>2, <1>3, <1>4, <1>6, FilledOK
<1> HIDE DEF units, n
<1>9. g \in OpenFile(zip)
  BY <1>3, <1>7, FilledFields
<1> HIDE DEF g
<1>10. NULL \notin OpenFile(zip)
  BY <1>2, NoFileAssumption
<1>11. /\ zf' \in [Handle -> OpenFile(zip) \cup {NULL}]
       /\ zf'[h] = g /\ g # NULL
       /\ \A k \in Handle : k # h => zf'[k] = zf[k]
  BY <1>1, <1>2, <1>9, <1>10
<1>12. file' \in Seq(Handle) /\ TableIsOpenFiles'
  <2>1. h \notin Range(file)
    BY <1>1, <1>2
  <2>2. /\ file' \in Seq(Handle) /\ Range(file') = Range(file) \cup {h}
        /\ IsInjective(file')
    BY <1>1, <1>2, <2>1, TableAppend
  <2>3. {k \in Handle : zf'[k] # NULL} = {k \in Handle : zf[k] # NULL} \cup {h}
    BY <1>11
  <2>4. QED BY <1>2, <2>2, <2>3 DEF TableIsOpenFiles
<1>13. FilesOK'
  <2>1. ASSUME NEW k \in Handle, zf'[k] # NULL
        PROVE  FileOK(zip, zf'[k], Out(k)')
    <3>1. Out(k)' = <<>> /\ Out(k) = <<>>
      BY <1>1 DEF Out
    <3>2. CASE k = h
      BY <1>8, <1>11, <3>1, <3>2
    <3>3. CASE k # h
      BY <1>2, <1>11, <2>1, <3>1, <3>3 DEF FilesOK
    <3>4. QED BY <3>2, <3>3
  <2>2. QED BY <1>1, <2>1 DEF FilesOK
<1>14. pos' \in Position
  BY <1>1, <1>3, <1>7 DEF Position
<1>15. QED
  BY <1>1, <1>2, <1>11, <1>12, <1>13, <1>14
     DEF FilesIInv, FilesTypeOK, CallOK, RetOK, ClosedOK

LEMMA FopenFailsStep ==
  ASSUME FilesIInv, NEW i \in DOMAIN zip.entry, NEW compressed \in BOOLEAN,
         FopenFails(i, compressed)
  PROVE  FilesIInv'
<1> DEFINE f == NewFile(i, compressed)
<1>1. /\ ret' = NULL /\ call = NULL /\ call' = NULL
      /\ zip' = zip /\ za' = za /\ file' = file /\ zf' = zf
      /\ pos' \in {f.fpos - LENTRYSIZE, f.fpos}
  BY DEF FopenFails, Idle
<1>2. zip \in OnDisk
  BY DEF FilesIInv
<1>3. f.fpos = Start(zip.entry[i])
  BY <1>2, NewFileFields
<1>4. /\ Start(zip.entry[i]) = zip.entry[i].offset + 1
      /\ zip.entry[i].offset \in Nat
  BY <1>2, EntryType
<1> HIDE DEF f
<1>5. pos' \in Position
  BY <1>1, <1>3, <1>4 DEF LENTRYSIZE, Position
<1>6. QED BY <1>1, <1>5, NoFile

LEMMA FcloseStep ==
  ASSUME FilesIInv, NEW h \in Handle, Fclose(h)
  PROVE  FilesIInv'
<1>1. /\ call = NULL /\ za = "open" /\ zf[h] # NULL /\ file' = Without(h)
      /\ zf' = [zf EXCEPT ![h] = NULL] /\ ret' = NULL
      /\ zip' = zip /\ za' = za /\ pos' = pos /\ call' = NULL
  BY DEF Fclose, Idle
<1>2. /\ zip \in OnDisk /\ pos \in Position
      /\ file \in Seq(Handle) /\ zf \in [Handle -> OpenFile(zip) \cup {NULL}]
      /\ Range(file) = {k \in Handle : zf[k] # NULL} /\ IsInjective(file)
      /\ FilesOK
  BY <1>1 DEF FilesIInv, FilesTypeOK, TableIsOpenFiles
<1>3. /\ zf' \in [Handle -> OpenFile(zip) \cup {NULL}] /\ zf'[h] = NULL
      /\ \A k \in Handle : k # h => zf'[k] = zf[k]
  BY <1>1, <1>2
<1>4. file' \in Seq(Handle) /\ TableIsOpenFiles'
  <2>1. h \in Range(file)
    BY <1>1, <1>2
  <2>2. /\ file' \in Seq(Handle) /\ Range(file') = Range(file) \ {h}
        /\ IsInjective(file')
    BY <1>1, <1>2, <2>1, TableWithout DEF Without
  <2>3. {k \in Handle : zf'[k] # NULL} = {k \in Handle : zf[k] # NULL} \ {h}
    BY <1>3
  <2>4. QED BY <1>2, <2>2, <2>3 DEF TableIsOpenFiles
<1>5. FilesOK'
  <2>1. \A k : Out(k)' = Out(k)
    BY <1>1 DEF Out
  <2>2. QED BY <1>1, <1>2, <1>3, <2>1 DEF FilesOK
<1>6. QED
  BY <1>1, <1>2, <1>3, <1>4, <1>5
     DEF FilesIInv, FilesTypeOK, CallOK, RetOK, ClosedOK

LEMMA FcloseClosedStep ==
  ASSUME FilesIInv, NEW h \in Handle, FcloseClosed(h)
  PROVE  FilesIInv'
<1>1. /\ call = NULL /\ za = "closed" /\ za' \in {"closed", "crashed"}
      /\ zf' = zf \/ zf' = [zf EXCEPT ![h] = NULL]
      /\ ret' = NULL
      /\ zip' = zip /\ pos' = pos /\ file' = file /\ call' = NULL
  BY DEF FcloseClosed, Idle
<1>2. /\ zip \in OnDisk /\ pos \in Position
      /\ file \in Seq(Handle) /\ zf \in [Handle -> OpenFile(zip) \cup {NULL}]
      /\ FilesOK /\ ClosedOK
  BY <1>1 DEF FilesIInv, FilesTypeOK
<1>3. /\ zf' \in [Handle -> OpenFile(zip) \cup {NULL}]
      /\ \A k \in Handle : zf'[k] # NULL => zf'[k] = zf[k]
  BY <1>1, <1>2
<1>4. FilesOK'
  <2>1. \A k : Out(k)' = Out(k)
    BY <1>1 DEF Out
  <2>2. QED BY <1>1, <1>2, <1>3, <2>1 DEF FilesOK
<1>5. TableIsOpenFiles' /\ ClosedOK'
  BY <1>1, <1>2, <1>3 DEF TableIsOpenFiles, ClosedOK
<1>6. QED
  BY <1>1, <1>2, <1>3, <1>4, <1>5 DEF FilesIInv, FilesTypeOK, CallOK, RetOK

LEMMA CloseFilesStep ==
  ASSUME FilesIInv, Close
  PROVE  FilesIInv'
<1> DEFINE Closed(f) == [f EXCEPT !.error = "zipclosed"]
<1>1. /\ call = NULL /\ za = "open" /\ za' = "closed" /\ file' = <<>>
      /\ zf' = [h \in Handle |-> IF zf[h] # NULL /\ zf[h].error = "ok"
                                   THEN Closed(zf[h]) ELSE zf[h]]
      /\ ret' = NULL /\ zip' = zip /\ pos' = pos /\ call' = NULL
  BY DEF Close, Idle
<1>2. /\ zip \in OnDisk /\ pos \in Position
      /\ zf \in [Handle -> OpenFile(zip) \cup {NULL}] /\ FilesOK
  BY <1>1 DEF FilesIInv, FilesTypeOK
<1>3. NULL \notin OpenFile(zip)
  BY <1>2, NoFileAssumption
<1>4. ASSUME NEW f \in OpenFile(zip)
      PROVE  /\ Closed(f) \in OpenFile(zip) /\ SamePlace(f, Closed(f))
             /\ Closed(f).error # "ok" /\ Closed(f).crc = f.crc
             /\ Closed(f).bytes_left = f.bytes_left /\ Closed(f).ended = f.ended
  <2>1. "zipclosed" \in Error
    BY DEF Error
  <2>2. QED BY <2>1 DEF OpenFile, SamePlace
<1>5. ASSUME NEW f \in OpenFile(zip), FileOK(zip, f, <<>>)
      PROVE  FileOK(zip, Closed(f), <<>>)
  <2> DEFINE g == Closed(f)
  <2>1. /\ SamePlace(f, g) /\ g.error # "ok" /\ g.crc = f.crc
        /\ g.bytes_left = f.bytes_left /\ g.ended = f.ended
    BY <1>4
  <2> HIDE DEF g
  <2>2. FileOK(zip, g, <<>>)
    BY <1>5, <2>1, SameDataOK
  <2>3. QED BY <2>2 DEF g
<1> HIDE DEF Closed
<1>6. ASSUME NEW h \in Handle
      PROVE  zf'[h] = IF zf[h] # NULL /\ zf[h].error = "ok"
                        THEN Closed(zf[h]) ELSE zf[h]
  BY <1>1
<1>7. zf' \in [Handle -> OpenFile(zip) \cup {NULL}]
  <2>1. ASSUME NEW h \in Handle PROVE zf'[h] \in OpenFile(zip) \cup {NULL}
    BY <1>2, <1>4, <1>6
  <2>2. zf' = [h \in Handle |-> zf'[h]]
    BY <1>1
  <2>3. QED BY <2>1, <2>2
<1>8. FilesOK'
  <2>1. ASSUME NEW h \in Handle, zf'[h] # NULL
        PROVE  FileOK(zip, zf'[h], Out(h)')
    <3>1. Out(h)' = <<>> /\ Out(h) = <<>>
      BY <1>1 DEF Out
    <3>2. zf[h] # NULL
      BY <1>6, <2>1
    <3>3. FileOK(zip, zf[h], <<>>) /\ zf[h] \in OpenFile(zip)
      BY <1>2, <3>1, <3>2 DEF FilesOK
    <3>4. QED BY <1>5, <1>6, <3>1, <3>3
  <2>2. QED BY <1>1, <2>1 DEF FilesOK
<1>9. ClosedOK'
  <2>1. ASSUME NEW h \in Handle, zf'[h] # NULL PROVE zf'[h].error # "ok"
    BY <1>2, <1>4, <1>6, <2>1
  <2>2. QED BY <2>1 DEF ClosedOK
<1>10. file' \in Seq(Handle) /\ TableIsOpenFiles'
  BY <1>1, EmptySeq DEF TableIsOpenFiles
<1>11. QED
  BY <1>1, <1>2, <1>7, <1>8, <1>9, <1>10 DEF FilesIInv, FilesTypeOK, CallOK, RetOK

LEMMA FailedCloseStep ==
  ASSUME FilesIInv, FailedClose
  PROVE  FilesIInv'
<1>1. /\ ret' = NULL /\ call = NULL /\ call' = NULL
      /\ zip' = zip /\ za' = za /\ file' = file /\ zf' = zf
      /\ pos' = NULL \/ pos' \in 0 .. Len(zip.zp)
  BY DEF FailedClose, Idle
<1>2. zip \in OnDisk
  BY DEF FilesIInv
<1>3. Len(zip.zp) \in Nat
  BY <1>2, ArchiveType
<1>4. pos' \in Position
  BY <1>1, <1>3 DEF Position
<1>5. QED BY <1>1, <1>4, NoFile

(* The program has ended, and there is no more to keep.                    *)
LEMMA CrashStep ==
  ASSUME FilesIInv, Crash
  PROVE  FilesIInv'
<1>1. /\ za' = "crashed" /\ call' = NULL /\ ret' = NULL
      /\ zip' = zip /\ pos' = pos /\ file' = <<>>
      /\ zf' = [h \in Handle |-> NULL]
  BY DEF Crash
<1>2. /\ zip \in OnDisk /\ pos \in Position
  BY DEF FilesIInv, FilesTypeOK
<1>3. \A h \in Handle : zf'[h] = NULL
  BY <1>1
<1>4. TableIsOpenFiles' /\ CallOK' /\ RetOK'
  BY <1>1 DEF TableIsOpenFiles, CallOK, RetOK
<1>5. file' \in Seq(Handle)
  BY <1>1, EmptySeq
<1>6. zf' \in [Handle -> OpenFile(zip) \cup {NULL}]
  BY <1>1
<1>7. FilesTypeOK' /\ zip' \in OnDisk
  BY <1>1, <1>2, <1>4, <1>5, <1>6 DEF FilesTypeOK
<1>8. FilesOK' /\ ClosedOK'
  BY <1>3 DEF FilesOK, ClosedOK
<1>9. QED BY <1>4, <1>7, <1>8 DEF FilesIInv

-----------------------------------------------------------------------------
LEMMA InitOK == FileInit => FilesIInv
<1> SUFFICES ASSUME FileInit PROVE FilesIInv
  OBVIOUS
<1>1. /\ zip \in OnDisk /\ za = "open" /\ pos = 0 /\ file = <<>>
      /\ zf = [h \in Handle |-> NULL] /\ call = NULL /\ ret = NULL
  BY DEF FileInit
<1>2. Range(file) = {} /\ IsInjective(file) /\ file \in Seq(Handle)
  BY <1>1, EmptySeq DEF Range, IsInjective
<1>3. \A h \in Handle : zf[h] = NULL
  BY <1>1
<1>4. TableIsOpenFiles
  BY <1>2, <1>3 DEF TableIsOpenFiles
<1>5. FilesTypeOK
  BY <1>1, <1>2, <1>4 DEF FilesTypeOK, Position
<1>6. QED
  BY <1>1, <1>3, <1>5 DEF FilesIInv, FilesOK, CallOK, RetOK, ClosedOK

LEMMA FilesStep ==
  ASSUME FilesIInv, [FileNext]_filevars
  PROVE  FilesIInv'
<1>1. CASE UNCHANGED filevars
  <2>1. /\ zip' = zip /\ za' = za /\ pos' = pos /\ file' = file
        /\ zf' = zf /\ call' = call /\ ret' = ret
    BY <1>1 DEF filevars
  <2>2. \A h : Out(h)' = Out(h)
    BY <2>1 DEF Out
  <2>3. FilesTypeOK'
    BY <2>1 DEF FilesIInv, FilesTypeOK, TableIsOpenFiles, Reading
  <2>4. QED
    BY <2>1, <2>2, <2>3 DEF FilesIInv, FilesOK, CallOK, RetOK, ClosedOK
<1>2. CASE \E i \in DOMAIN zip.entry, compressed \in BOOLEAN :
             FopenFails(i, compressed)
  BY <1>2, FopenFailsStep
<1>3. CASE \E i \in DOMAIN zip.entry, compressed \in BOOLEAN :
             \E h \in Handle : Fopen(h, i, compressed)
  BY <1>3, FopenStep
<1>4. CASE \E h \in Handle : FreadError(h)
  BY <1>4, FreadErrorStep
<1>5. CASE \E h \in Handle : FreadEof(h)
  BY <1>5, FreadEofStep
<1>6. CASE \E h \in Handle : FreadEnd(h)
  BY <1>6, FreadEndStep
<1>7. CASE \E h \in Handle : \E toread \in 1 .. MaxRead : FreadStored(h, toread)
  BY <1>7, FreadStoredStep
<1>8. CASE \E h \in Handle : \E toread \in 1 .. MaxRead : FreadDeflated(h, toread)
  BY <1>8, FreadDeflatedStep
<1>9. CASE \E h \in Handle : Fclose(h)
  BY <1>9, FcloseStep
<1>10. CASE \E h \in Handle : FcloseClosed(h)
  BY <1>10, FcloseClosedStep
<1>11. CASE Loop
  BY <1>11, StreamEndStep, Inflate1Step, RefillStep, CrashStep, InflateFailsStep
  DEF Loop, RefillCrashes
<1>12. CASE Close
  BY <1>12, CloseFilesStep
<1>13. CASE FailedClose
  BY <1>13, FailedCloseStep
<1>14. CASE SeekCrashes
  BY <1>14, CrashStep DEF SeekCrashes
<1>15. QED
  BY <1>1, <1>2, <1>3, <1>4, <1>5, <1>6, <1>7, <1>8, <1>9, <1>10, <1>11,
     <1>12, <1>13, <1>14 DEF FileNext

LEMMA FilesInv == FileSpec => []FilesIInv
<1>1. FileInit => FilesIInv
  BY InitOK
<1>2. FilesIInv /\ [FileNext]_filevars => FilesIInv'
  BY FilesStep
<1>3. QED BY <1>1, <1>2, PTL DEF FileSpec

(* The types of what libzip keeps of the files a program reads, and the    *)
(* table of open files: zip_fopen_index and zip_fclose keep it so that     *)
(* zip_close reaches every open file, once, and none that was freed.       *)
THEOREM FilesTypeCorrect == FileSpec => []FilesTypeOK
<1>1. FilesIInv => FilesTypeOK
  BY DEF FilesIInv
<1>2. QED BY <1>1, FilesInv, PTL

(* zip_fread delivers what is at the place of the file in the archive,     *)
(* from its beginning on and without a gap, however the reading of several *)
(* files is mixed and whatever moves the FILE they share.                  *)
THEOREM FilesReadOwnData == FileSpec => []ReadsOwnData
<1>1. ASSUME FilesIInv, NEW h \in Handle, zf[h] # NULL
      PROVE  \E data \in Contents(zf[h]) : IsPrefix(zf[h].crc, data)
  <2> DEFINE f == zf[h]
             raw == RawOf(zip, f)
             done == Done(zip, f)
  <2>1. /\ f \in OpenFile(zip) /\ FileOK(zip, f, Out(h)) /\ Placed(zip, f)
        /\ zip \in OnDisk
    BY <1>1, FileFacts
  <2>2. Raw(zip.entry[f.idx]) = raw
    BY DEF Raw, RawOf, RawIn, EntryOf, Start
  <2>3. /\ raw \in Seq(Range(zip.zp)) /\ Len(raw) \in Nat
        /\ Got(zip, f) \in 0 .. Len(raw) /\ done \in 0 .. Got(zip, f)
    BY <2>1, PlacedType
  <2>4. CASE f.decomp
    <3>1. /\ \A k \in 1 .. done : IsPiece(raw[k])
          /\ IsPrefix(f.crc, Inflated(SubSeq(raw, 1, done)))
      BY <2>1, <2>4 DEF FileOK, Inflates
    <3>2. done \in {n \in 0 .. Len(raw) : \A k \in 1 .. n : IsPiece(raw[k])}
      BY <2>3, <3>1
    <3> HIDE DEF f, raw, done
    <3>3. Inflated(SubSeq(raw, 1, done)) \in Contents(f)
      BY <2>2, <2>4, <3>2 DEF Contents
    <3>4. QED BY <3>1, <3>3 DEF f
  <2>5. CASE ~ f.decomp
    <3>1. f.crc = SubSeq(raw, 1, Got(zip, f))
      BY <2>1, <2>5 DEF FileOK, Copies
    <3> HIDE DEF f, raw, done
    <3>2. raw \in Contents(f)
      BY <2>2, <2>5 DEF Contents
    <3>3. IsPrefix(SubSeq(raw, 1, Got(zip, f)), raw)
      BY <2>3, PrefixIs
    <3>4. QED BY <3>1, <3>2, <3>3 DEF f
  <2>6. QED BY <2>4, <2>5
<1>2. FilesIInv => ReadsOwnData
  BY <1>1 DEF ReadsOwnData
<1>3. QED BY <1>2, FilesInv, PTL

(* A zip_fread that says that a file it checks is at its end has delivered *)
(* the data the archive was given, however the file was damaged since.     *)
THEOREM FileEndIsWhole == FileSpec => []EndIsWhole
<1>1. ASSUME FilesIInv, ret # NULL, ret[2] = 0, zf[ret[1]].check
      PROVE  zf[ret[1]].crc = zip.entry[zf[ret[1]].idx].sum
  <2>1. /\ ret[1] \in Handle /\ zf[ret[1]] # NULL
        /\ zf[ret[1]].crc = zf[ret[1]].crc_orig
    BY <1>1 DEF FilesIInv, RetOK
  <2>2. zf[ret[1]].crc_orig = EntryOf(zip, zf[ret[1]]).sum
    BY <1>1, <2>1, FileFacts DEF FileOK
  <2>3. QED BY <2>1, <2>2 DEF EntryOf
<1>2. FilesIInv => EndIsWhole
  BY <1>1 DEF EndIsWhole
<1>3. QED BY <1>2, FilesInv, PTL

-----------------------------------------------------------------------------
(* Files that are not damaged.  Inflate meets the end of the stream when   *)
(* it has taken all pieces, and then has the data.                         *)
WellRead(z, f) ==
  LET de == EntryOf(z, f)
      raw == RawOf(z, f)
  IN /\ f.error \in {"ok", "zipclosed"}
     /\ IF f.decomp
          THEN /\ de.method = "deflate"
               /\ f.bytes_left = Len(de.sum) - Len(f.crc)
               /\ Done(z, f) = Len(raw) => f.ended
               /\ f.ended => Inflated(SubSeq(raw, 1, Done(z, f))) = de.sum
          ELSE f.check => de.method = "store"

IntactsOK ==
  \A h \in Handle :
    (zf[h] # NULL /\ Intact(EntryOf(zip, zf[h]))) => WellRead(zip, zf[h])

LEMMA IntactData ==
  ASSUME zip \in OnDisk, NEW i \in DOMAIN zip.entry, Intact(zip.entry[i])
  PROVE  LET de == zip.entry[i]
             raw == RawIn(zip, de)
         IN /\ Len(raw) = de.comp_size /\ de.comp_size > 0
            /\ de.uncomp_size = Len(de.sum)
            /\ IF de.method = "store" THEN de.sum = raw
               ELSE IsStream(raw) /\ de.sum = Inflated(raw)
<1> DEFINE de == zip.entry[i]
           raw == RawIn(zip, de)
           read == ReadAt(zip.zp, de.offset + LENTRYSIZE, de.comp_size)
<1>1. /\ FileData(zip.zp, de) = de.sum /\ de.sum # NULL
      /\ de.uncomp_size = Len(de.sum) /\ de.comp_size > 0
      /\ de.comp_size \in Nat /\ Start(de) \in Nat
      /\ Start(de) = de.offset + LENTRYSIZE
  BY EntryType DEF Intact, Start
<1>2. Inflate(de.method, read) = de.sum
  BY <1>1 DEF FileData
<1>3. read # NULL
  BY <1>1, <1>2 DEF Inflate
<1>4. /\ Start(de) + de.comp_size <= Len(zip.zp)
      /\ read = SubSeq(zip.zp, Start(de) + 1, Start(de) + de.comp_size)
  BY <1>1, <1>3 DEF ReadAt
<1>5. zip.zp \in Seq(Range(zip.zp)) /\ Len(zip.zp) \in Nat
  BY ArchiveType
<1> HIDE DEF de, raw, read
<1>6. PICK a \in Nat, b \in Nat :
        a = Start(de) /\ b = de.comp_size /\ a + b <= Len(zip.zp)
  BY <1>1, <1>4
<1>7. Min({a + b, Len(zip.zp)}) = a + b
  <2>1. PICK len \in Nat : len = Len(zip.zp) /\ a + b <= len
    BY <1>5, <1>6
  <2>2. Min({a + b, len}) = a + b
    BY <2>1, MinPair
  <2>3. QED BY <2>1, <2>2
<1>8. raw = SubSeq(zip.zp, a + 1, a + b)
  BY <1>6, <1>7 DEF raw, RawIn
<1>9. raw = read
  BY <1>4, <1>6, <1>8
<1>10. Len(raw) = b
  <2>1. a + b \in a .. Len(zip.zp) /\ (a + b) - a = b
    BY <1>5, <1>6
  <2>2. QED BY <1>5, <1>8, <2>1, SubSeqPart
<1>11. IF de.method = "store" THEN de.sum = raw
       ELSE IsStream(raw) /\ de.sum = Inflated(raw)
  BY <1>1, <1>2, <1>3, <1>9 DEF Inflate
<1>12. QED BY <1>1, <1>6, <1>10, <1>11 DEF de, raw

(* A stream and the parts of it.                                           *)
LEMMA IntactStream ==
  ASSUME zip \in OnDisk, NEW f \in OpenFile(zip), Placed(zip, f),
         Intact(EntryOf(zip, f)), EntryOf(zip, f).method = "deflate"
  PROVE  LET de == EntryOf(zip, f)
             raw == RawOf(zip, f)
         IN /\ Len(raw) \in Nat \ {0}
            /\ de.sum = Inflated(raw) /\ de.sum \in Seq(Datum(zip))
            /\ \A k \in 1 .. Len(raw) : IsPiece(raw[k])
            /\ \A k \in 1 .. Len(raw) : raw[k].last <=> k = Len(raw)
            /\ \A n \in 0 .. Len(raw) :
                 \E rest \in Seq(Datum(zip)) :
                   /\ de.sum = Inflated(SubSeq(raw, 1, n)) \o rest
                   /\ Inflated(SubSeq(raw, 1, n)) \in Seq(Datum(zip))
<1> DEFINE de == EntryOf(zip, f)
           raw == RawOf(zip, f)
<1>1. f.idx \in DOMAIN zip.entry /\ de = zip.entry[f.idx] /\ raw = RawIn(zip, de)
  BY DEF OpenFile, EntryOf, RawOf
<1>2. /\ raw \in Seq(Range(zip.zp)) /\ Len(raw) \in Nat /\ de.comp_size \in Nat
  BY PlacedType
<1>3. /\ Len(raw) = de.comp_size /\ de.comp_size > 0
      /\ IsStream(raw) /\ de.sum = Inflated(raw)
  BY <1>1, IntactData
<1> HIDE DEF de, raw
<1>4. DOMAIN raw = 1 .. Len(raw)
  BY <1>2, LenProperties
<1>5. /\ \A k \in 1 .. Len(raw) : IsPiece(raw[k])
      /\ \A k \in 1 .. Len(raw) : raw[k].last <=> k = Len(raw)
  BY <1>3, <1>4 DEF IsStream
<1>6. \A k \in 1 .. Len(raw) : raw[k].deflated \in Seq(Datum(zip))
  <2>1. \A k \in 1 .. Len(raw) : raw[k] \in Range(zip.zp)
    BY <1>2, ElementOfSeq
  <2>2. QED BY <1>5, <2>1, ArchiveType
<1>7. SubSeq(raw, 1, Len(raw)) = raw /\ Len(raw) \in 0 .. Len(raw)
  BY <1>2, SubSeqFull
<1>8. ASSUME NEW n \in 0 .. Len(raw)
      PROVE  \E rest \in Seq(Datum(zip)) :
               /\ de.sum = Inflated(SubSeq(raw, 1, n)) \o rest
               /\ Inflated(SubSeq(raw, 1, n)) \in Seq(Datum(zip))
  <2>1. PICK m \in 0 .. Len(raw) : m = Len(raw) /\ n \in 0 .. m
    BY <1>7
  <2>2. \A k \in 1 .. m : raw[k].deflated \in Seq(Datum(zip))
    BY <1>6, <2>1
  <2>3. /\ Inflated(SubSeq(raw, n + 1, m)) \in Seq(Datum(zip))
        /\ Inflated(SubSeq(raw, 1, m))
             = Inflated(SubSeq(raw, 1, n)) \o Inflated(SubSeq(raw, n + 1, m))
    <3>1. raw \in Seq(Range(zip.zp)) /\ m \in 0 .. Len(raw) /\ n \in 0 .. m
      BY <1>2, <2>1
    <3>2. QED BY <2>2, <3>1, InflatedSplit, ZenonT(60)
  <2>4. Inflated(SubSeq(raw, 1, n)) \in Seq(Datum(zip))
    BY <1>2, <2>1, <2>2, InflatedMore
  <2>5. de.sum = Inflated(SubSeq(raw, 1, m))
    BY <1>3, <1>7, <2>1
  <2>6. QED BY <2>3, <2>4, <2>5
<1>9. de.sum \in Seq(Datum(zip))
  <2>1. Inflated(SubSeq(raw, 1, Len(raw))) \in Seq(Datum(zip))
    BY <1>7, <1>8
  <2>2. QED BY <1>3, <1>7, <2>1
<1>10. Len(raw) \in Nat \ {0} /\ de.sum = Inflated(raw)
  BY <1>2, <1>3
<1>11. QED BY <1>5, <1>8, <1>9, <1>10, Zenon DEF de, raw

LEMMA IntactOne ==
  ASSUME FilesIInv, IntactsOK, NEW h \in Handle, NEW g, zip' = zip,
         zf' = [zf EXCEPT ![h] = g],
         Intact(EntryOf(zip, g)) => WellRead(zip, g)
  PROVE  IntactsOK'
<1>1. zf \in [Handle -> OpenFile(zip) \cup {NULL}]
  BY DEF FilesIInv, FilesTypeOK
<1>2. zf'[h] = g /\ \A k \in Handle : k # h => zf'[k] = zf[k]
  BY <1>1
<1>3. \A de : Intact(de)' <=> Intact(de)
  BY DEF Intact
<1>4. ASSUME NEW k \in Handle, zf'[k] # NULL, Intact(EntryOf(zip, zf'[k]))
      PROVE  WellRead(zip, zf'[k])
  <2>1. CASE k = h
    BY <1>2, <1>4, <2>1
  <2>2. CASE k # h
    BY <1>2, <1>4, <2>2 DEF IntactsOK
  <2>3. QED BY <2>1, <2>2
<1>5. QED BY <1>4 DEF IntactsOK, Intact

LEMMA IntactNone ==
  ASSUME IntactsOK, zip' = zip, zf' = zf
  PROVE  IntactsOK'
BY DEF IntactsOK, Intact

LEMMA WellReadSame ==
  ASSUME NEW z, NEW f, NEW g, SamePlace(f, g), g.crc = f.crc,
         g.bytes_left = f.bytes_left, g.ended = f.ended, WellRead(z, f),
         g.error \in {"ok", "zipclosed"}
  PROVE  WellRead(z, g)
<1>1. /\ EntryOf(z, g) = EntryOf(z, f) /\ RawOf(z, g) = RawOf(z, f)
      /\ Done(z, g) = Done(z, f)
  BY PlaceKept
<1>2. g.decomp = f.decomp /\ g.check = f.check
  BY DEF SamePlace
<1>3. QED BY <1>1, <1>2 DEF WellRead

(* A file that has been read to its size is all there.                     *)
LEMMA IntactEnd ==
  ASSUME zip \in OnDisk, NEW f \in OpenFile(zip), FileOK(zip, f, <<>>),
         f.error = "ok", Intact(EntryOf(zip, f)), WellRead(zip, f),
         f.bytes_left = 0, f.check
  PROVE  f.crc = f.crc_orig
<1> DEFINE de == EntryOf(zip, f)
           raw == RawOf(zip, f)
           done == Done(zip, f)
<1>1. Placed(zip, f) /\ f.crc_orig = de.sum /\ f.crc \in Seq(Datum(zip))
  BY DEF FileOK, OpenFile
<1>2. /\ raw \in Seq(Range(zip.zp)) /\ Len(raw) \in Nat
      /\ Got(zip, f) \in 0 .. Len(raw) /\ done \in 0 .. Got(zip, f)
      /\ de.comp_size \in Nat
  BY <1>1, PlacedType
<1>3. CASE f.decomp
  <2>1. /\ de.method = "deflate" /\ f.bytes_left = Len(de.sum) - Len(f.crc)
    BY <1>3 DEF WellRead
  <2>2. f.crc \o <<>> = Inflated(SubSeq(raw, 1, done))
    BY <1>3 DEF FileOK, Inflates
  <2>3. f.crc \o <<>> = f.crc
    BY <1>1, ConcatEmptySeq
  <2>4. done \in 0 .. Len(raw)
    BY <1>2
  <2>5. PICK rest \in Seq(Datum(zip)) : de.sum = Inflated(SubSeq(raw, 1, done)) \o rest
    BY <1>1, <2>1, <2>4, IntactStream
  <2>6. de.sum = f.crc \o rest
    BY <2>2, <2>3, <2>5
  <2>7. Len(f.crc \o rest) = Len(f.crc) + Len(rest)
    BY <1>1, ConcatProperties
  <2>8. Len(f.crc) \in Nat /\ Len(rest) \in Nat
    BY <1>1, LenProperties
  <2>9. Len(rest) = 0
    <3>1. Len(de.sum) = Len(f.crc) + Len(rest)
      BY <2>6, <2>7
    <3>2. Len(de.sum) - Len(f.crc) = 0
      BY <2>1
    <3> HIDE DEF de
    <3>3. QED BY <2>8, <3>1, <3>2
  <2>10. rest = <<>>
    BY <2>9, EmptySeq
  <2>11. QED BY <1>1, <2>3, <2>6, <2>10
<1>4. CASE ~ f.decomp
  <2>1. de.method = "store"
    BY <1>4 DEF WellRead
  <2>2. f.idx \in DOMAIN zip.entry /\ de = zip.entry[f.idx] /\ raw = RawIn(zip, de)
    BY DEF OpenFile, EntryOf, RawOf
  <2>3. Len(raw) = de.comp_size /\ de.sum = raw
    BY <2>1, <2>2, IntactData
  <2>4. f.crc = SubSeq(raw, 1, Got(zip, f)) /\ f.cbytes_left = 0
    BY <1>4 DEF FileOK, Copies
  <2> HIDE DEF de, raw
  <2>5. Got(zip, f) = Len(raw)
    BY <1>2, <2>3, <2>4 DEF Got, de
  <2>6. SubSeq(raw, 1, Len(raw)) = raw
    BY <1>2, SubSeqFull
  <2>7. QED BY <1>1, <2>3, <2>4, <2>5, <2>6
<1>5. QED BY <1>3, <1>4

LEMMA IntactFreadEnd ==
  ASSUME FilesIInv, IntactsOK, NEW h \in Handle, FreadEnd(h)
  PROVE  IntactsOK'
<1> DEFINE f == zf[h]
           error == IF Mismatch(f) THEN "crc" ELSE "ok"
           g == [f EXCEPT !.eof = TRUE, !.error = error]
<1>1. /\ call = NULL /\ f # NULL /\ f.error = "ok" /\ f.bytes_left = 0
      /\ zf' = [zf EXCEPT ![h].eof = TRUE, ![h].error = error] /\ zip' = zip
  BY DEF FreadEnd, Idle, Reading
<1>2. f \in OpenFile(zip) /\ FileOK(zip, f, <<>>) /\ zip \in OnDisk
  BY <1>1, FileFacts DEF Out
<1>3. zf' = [zf EXCEPT ![h] = g]
  BY <1>1, <1>2 DEF FilesIInv, FilesTypeOK, OpenFile
<1>4. /\ SamePlace(f, g) /\ g.crc = f.crc
      /\ g.bytes_left = f.bytes_left /\ g.ended = f.ended /\ g.error = error
  BY <1>2 DEF OpenFile, SamePlace
<1>5. ASSUME Intact(EntryOf(zip, g)) PROVE WellRead(zip, g)
  <2>1. EntryOf(zip, g) = EntryOf(zip, f)
    BY <1>4, PlaceKept
  <2>2. WellRead(zip, f)
    BY <1>1, <1>5, <2>1 DEF IntactsOK
  <2>3. f.check => f.crc = f.crc_orig
    BY <1>1, <1>2, <1>5, <2>1, <2>2, IntactEnd
  <2>4. g.error = "ok"
    BY <1>4, <2>3 DEF Mismatch
  <2> HIDE DEF f, g
  <2>5. QED BY <1>4, <2>2, <2>4, WellReadSame
<1>6. QED BY <1>1, <1>3, <1>5, IntactOne

LEMMA IntactFreadStored ==
  ASSUME FilesIInv, IntactsOK, NEW h \in Handle, NEW toread \in 1 .. MaxRead,
         FreadStored(h, toread)
  PROVE  IntactsOK'
<1> DEFINE f == zf[h]
           units == Units(f, toread)
           g == IF units = <<>> THEN [f EXCEPT !.error = "eof"]
                                ELSE StoredRead(f, units)
<1>1. /\ call = NULL /\ f # NULL /\ f.error = "ok" /\ ~ f.decomp
      /\ f.bytes_left > 0 /\ zf' = [zf EXCEPT ![h] = g] /\ zip' = zip
  BY DEF FreadStored, Idle, Reading, StoredRead
<1>2. /\ f \in OpenFile(zip) /\ FileOK(zip, f, <<>>) /\ zip \in OnDisk
      /\ Placed(zip, f) /\ f.cbytes_left \in Nat
  BY <1>1, FileFacts DEF Out
<1>3. Copies(zip, f) /\ f.bytes_left = f.cbytes_left
  BY <1>1, <1>2 DEF FileOK, Copies
<1>4. toread \in Nat /\ toread > 0
  BY SizeAssumption
<1>5. IsNext(Range(zip.zp), Got(zip, f), f.cbytes_left, toread,
             RawOf(zip, f), units)
  BY <1>2, <1>4, UnitsType
<1>6. f.idx \in DOMAIN zip.entry /\ EntryOf(zip, f) = zip.entry[f.idx]
      /\ RawOf(zip, f) = RawIn(zip, EntryOf(zip, f))
  BY <1>2 DEF OpenFile, EntryOf, RawOf
<1> HIDE DEF f, units
<1>7. CASE units = <<>>
  <2>1. g = [f EXCEPT !.error = "eof"]
    BY <1>7
  <2>2. EntryOf(zip, g) = EntryOf(zip, f)
    BY <1>2, <2>1 DEF OpenFile, EntryOf
  <2>3. ~ Intact(EntryOf(zip, f))
    <3>1. SUFFICES ASSUME Intact(EntryOf(zip, f)) PROVE FALSE
      OBVIOUS
    <3>2. Len(RawOf(zip, f)) = EntryOf(zip, f).comp_size
      BY <1>2, <1>6, <3>1, IntactData
    <3>3. Len(units) = 0
      BY <1>7
    <3>4. Got(zip, f) = EntryOf(zip, f).comp_size
      BY <1>4, <1>5, <3>2, <3>3 DEF IsNext
    <3>5. EntryOf(zip, f).comp_size \in Nat
      BY <1>2, PlacedType
    <3>6. f.cbytes_left = 0
      BY <1>2, <3>4, <3>5 DEF Got
    <3>7. QED BY <1>1, <1>3, <3>6
  <2> HIDE DEF g
  <2>4. QED BY <1>1, <2>2, <2>3, IntactOne
<1>8. CASE units # <<>>
  <2>1. g = StoredRead(f, units)
    BY <1>8
  <2>2. /\ units \in Seq(Range(zip.zp)) /\ Len(units) \in Nat
        /\ Len(units) <= f.cbytes_left
    BY <1>5 DEF IsNext
  <2> HIDE DEF g
  <2>3. /\ g.idx = f.idx /\ g.decomp = f.decomp /\ g.check = f.check
        /\ g.error = f.error
    BY <1>2, <1>3, <2>1, <2>2, StoredFields
  <2>4. EntryOf(zip, g) = EntryOf(zip, f)
    BY <2>3 DEF EntryOf
  <2>5. ASSUME Intact(EntryOf(zip, g)) PROVE WellRead(zip, g)
    <3>1. WellRead(zip, f)
      BY <1>1, <2>4, <2>5 DEF IntactsOK, f
    <3>2. QED BY <1>1, <2>3, <2>4, <3>1 DEF WellRead
  <2>6. QED BY <1>1, <2>5, IntactOne
<1>9. QED BY <1>7, <1>8

LEMMA BufferIs ==
  ASSUME zip \in OnDisk, NEW f \in OpenFile(zip), Placed(zip, f)
  PROVE  \A k \in 1 .. Len(f.buffer) :
           /\ f.buffer[k] = RawOf(zip, f)[Done(zip, f) + k]
           /\ Done(zip, f) + k \in 1 .. Len(RawOf(zip, f))
<1> DEFINE raw == RawOf(zip, f)
<1>1. /\ raw \in Seq(Range(zip.zp)) /\ Len(raw) \in Nat
      /\ Got(zip, f) \in 0 .. Len(raw) /\ Done(zip, f) \in 0 .. Got(zip, f)
      /\ Len(f.buffer) \in Nat
      /\ Got(zip, f) = Done(zip, f) + Len(f.buffer)
  BY PlacedType
<1>2. f.buffer = SubSeq(raw, Done(zip, f) + 1, Got(zip, f))
  BY DEF Placed
<1> HIDE DEF raw
<1>3. PICK done \in Nat, got \in Nat, b \in Nat :
        /\ done = Done(zip, f) /\ got = Got(zip, f) /\ got <= Len(raw)
        /\ b = Len(f.buffer) /\ got = done + b
  BY <1>1
<1>4. got \in done .. Len(raw) /\ got - done = b
  BY <1>1, <1>3
<1>5. f.buffer = SubSeq(raw, done + 1, got)
  BY <1>2, <1>3
<1>6. \A k \in 1 .. b : f.buffer[k] = raw[done + k]
  BY <1>1, <1>4, <1>5, SubSeqPart
<1>7. \A k \in 1 .. b : done + k \in 1 .. Len(raw)
  BY <1>1, <1>3
<1>8. QED BY <1>3, <1>6, <1>7 DEF raw

(* inflate meets the end of a stream when it has taken all its pieces, and *)
(* nothing but pieces before.                                              *)
LEMMA IntactInflate ==
  ASSUME FilesIInv, IntactsOK, call # NULL, Intact(EntryOf(zip, zf[call.h]))
  PROVE  LET f == zf[call.h]
             raw == RawOf(zip, f)
             taken == Done(zip, f) + Len(Pieces)
         IN /\ WellRead(zip, f)
            /\ Ends => Inflated(SubSeq(raw, 1, taken)) = EntryOf(zip, f).sum
            /\ taken = Len(raw) => Ends
            /\ ~ DataError
<1> DEFINE f == zf[call.h]
           de == EntryOf(zip, f)
           raw == RawOf(zip, f)
           done == Done(zip, f)
           buffer == f.buffer
<1>1. /\ f \in OpenFile(zip) /\ zip \in OnDisk /\ Placed(zip, f) /\ f.decomp
      /\ call.h \in Handle /\ f # NULL
  BY CallFacts, FileFacts
<1>2. WellRead(zip, f)
  BY <1>1 DEF IntactsOK
<1>3. /\ de.method = "deflate"
      /\ done = Len(raw) => f.ended
      /\ f.ended => Inflated(SubSeq(raw, 1, done)) = de.sum
  BY <1>1, <1>2 DEF WellRead
<1>4. /\ Len(raw) \in Nat \ {0} /\ de.sum = Inflated(raw)
      /\ \A k \in 1 .. Len(raw) : IsPiece(raw[k])
      /\ \A k \in 1 .. Len(raw) : raw[k].last <=> k = Len(raw)
  BY <1>1, <1>3, IntactStream
<1>5. \A k \in 1 .. Len(buffer) :
        buffer[k] = raw[done + k] /\ done + k \in 1 .. Len(raw)
  BY <1>1, BufferIs
<1>6. PICK p \in 0 .. Len(buffer) :
        Pieces = SubSeq(buffer, 1, p) /\ Len(Pieces) = p
  BY PiecesType
<1>7. /\ buffer \in Seq(Range(zip.zp)) /\ Len(buffer) \in Nat /\ done \in Nat
      /\ raw \in Seq(Range(zip.zp))
  <2>1. buffer \in Seq(Range(zip.zp))
    BY <1>1 DEF OpenFile
  <2>2. QED BY <1>1, <2>1, PlacedType
<1>8. f.ended => Pieces = <<>>
  BY DEF Pieces
<1>9. Ends <=> f.ended \/ (Pieces # <<>> /\ Last(Pieces).last)
  BY DEF Ends
<1>10. DataError => LET left == SubSeq(buffer, p + 1, Len(buffer))
                    IN left # <<>> /\ ~ IsPiece(left[1])
  BY <1>6 DEF DataError
<1> HIDE DEF f, de, raw, done, buffer
<1>11. p \in Nat /\ p <= Len(buffer)
  BY <1>7
<1>12. ASSUME p # 0 PROVE Pieces # <<>> /\ Last(Pieces) = raw[done + p]
  <2>0. PICK q \in Nat, b \in Nat : q = p /\ b = Len(buffer)
    BY <1>7, <1>11, Zenon
  <2>1. q = p /\ q \in 1 .. q /\ q \in 1 .. Len(buffer)
    <3>1. q # 0 /\ q <= b
      BY <1>11, <1>12, <2>0
    <3>2. q \in 1 .. q /\ q \in 1 .. b
      BY <3>1
    <3>3. QED BY <2>0, <3>2
  <2>2. q \in 0 .. Len(buffer) /\ 0 + 1 = 1 /\ q - 0 = q /\ 0 + q = q
    BY <2>1
  <2>3. \A k \in 1 .. q - 0 : SubSeq(buffer, 0 + 1, q)[k] = buffer[0 + k]
    BY <1>7, <2>2, SubSeqPart
  <2>4. Pieces[q] = buffer[q]
    BY <1>6, <2>1, <2>2, <2>3
  <2>5. Last(Pieces) = Pieces[q]
    BY <1>6, <2>1 DEF Last
  <2>6. Pieces # <<>>
    BY <1>6, <1>12
  <2>7. buffer[q] = raw[done + q]
    BY <1>5, <2>1
  <2>8. QED BY <2>1, <2>4, <2>5, <2>6, <2>7
<1>13. ASSUME Ends PROVE Inflated(SubSeq(raw, 1, done + p)) = de.sum
  <2>1. CASE f.ended
    <3>1. Len(Pieces) = 0
      BY <1>8, <2>1
    <3>2. done + p = done
      BY <1>6, <1>7, <3>1
    <3>3. QED BY <1>3, <2>1, <3>2
  <2>2. CASE Pieces # <<>> /\ Last(Pieces).last
    <3>1. p # 0
      <4>1. SUFFICES ASSUME p = 0 PROVE FALSE
        OBVIOUS
      <4>2. Pieces = <<>>
        BY <1>6, <1>7, <4>1, SubSeqEmpty
      <4>3. QED BY <2>2, <4>2
    <3>2. p \in 1 .. Len(buffer)
      BY <1>11, <3>1
    <3>3. done + p = Len(raw)
      BY <1>4, <1>5, <1>12, <2>2, <3>1, <3>2
    <3>4. SubSeq(raw, 1, Len(raw)) = raw
      BY <1>7, SubSeqFull
    <3>5. QED BY <1>4, <3>3, <3>4
  <2>3. QED BY <1>9, <1>13, <2>1, <2>2
<1>14. ASSUME done + p = Len(raw) PROVE Ends
  <2>1. CASE p = 0
    BY <1>3, <1>7, <1>9, <1>14, <2>1
  <2>2. CASE p # 0
    <3>1. p \in 1 .. Len(buffer)
      BY <1>11, <2>2
    <3>2. raw[done + p].last
      BY <1>4, <1>5, <1>14, <3>1
    <3>3. QED BY <1>9, <1>12, <2>2, <3>2
  <2>3. QED BY <2>1, <2>2
<1>15. ASSUME DataError PROVE FALSE
  <2> DEFINE left == SubSeq(buffer, p + 1, Len(buffer))
  <2>1. left # <<>> /\ ~ IsPiece(left[1])
    BY <1>10, <1>15
  <2>2. PICK q \in Nat, b \in Nat : q = p /\ b = Len(buffer) /\ q <= b
    BY <1>7, <1>11
  <2>3. left = SubSeq(buffer, q + 1, b)
    BY <2>2
  <2> HIDE DEF left
  <2>4. b \in q .. Len(buffer)
    BY <2>2
  <2>5. /\ left \in Seq(Range(zip.zp)) /\ Len(left) = b - q
        /\ \A k \in 1 .. b - q : left[k] = buffer[q + k]
    BY <1>7, <2>2, <2>3, <2>4, SubSeqPart
  <2>6. b - q # 0
    BY <2>1, <2>5, EmptySeq
  <2>7. 1 \in 1 .. b - q /\ q + 1 \in 1 .. Len(buffer)
    BY <2>2, <2>6
  <2>8. left[1] = raw[done + (q + 1)] /\ IsPiece(raw[done + (q + 1)])
    BY <1>4, <1>5, <2>5, <2>7
  <2>9. QED BY <2>1, <2>8
<1>16. QED BY <1>2, <1>6, <1>13, <1>14, <1>15 DEF f, de, raw, done

LEMMA IntactStreamEnd ==
  ASSUME FilesIInv, IntactsOK, StreamEnd
  PROVE  IntactsOK'
<1> DEFINE h == call.h
           f == zf[h]
           raw == RawOf(zip, f)
           error == IF f.crc # f.crc_orig THEN "crc" ELSE "ok"
           g == [f EXCEPT !.ended = TRUE, !.error = error]
<1>1. /\ call # NULL /\ call.outbuf = <<>> /\ Inflated(Pieces) = <<>> /\ Ends
      /\ zf' = [zf EXCEPT ![h] = g] /\ zip' = zip
  BY DEF StreamEnd, Finish
<1>2. h \in Handle /\ f # NULL /\ f.decomp /\ f.error = "ok"
  BY <1>1, CallFacts
<1>3. f \in OpenFile(zip) /\ FileOK(zip, f, <<>>) /\ zip \in OnDisk
  BY <1>1, <1>2, CallFacts, FileFacts
<1>4. /\ SamePlace(f, g) /\ g.crc = f.crc /\ g.bytes_left = f.bytes_left
      /\ g.error = error /\ g.ended = TRUE /\ g.decomp = f.decomp
  BY <1>3 DEF OpenFile, SamePlace
<1>5. /\ EntryOf(zip, g) = EntryOf(zip, f) /\ RawOf(zip, g) = raw
      /\ Done(zip, g) = Done(zip, f)
  BY <1>4, PlaceKept
<1>6. ASSUME Intact(EntryOf(zip, f)) PROVE WellRead(zip, g)
  <2>1. /\ WellRead(zip, f)
        /\ Inflated(SubSeq(raw, 1, Done(zip, f) + Len(Pieces)))
             = EntryOf(zip, f).sum
    BY <1>1, <1>6, IntactInflate
  <2>2. PICK p \in 0 .. Len(f.buffer) :
          /\ Len(Pieces) = p
          /\ f.crc \in Seq(Datum(zip))
          /\ f.crc \o (call.outbuf \o Inflated(Pieces))
               = Inflated(SubSeq(raw, 1, Done(zip, f) + p))
    BY <1>1, InflatedNext
  <2>3. f.crc \o (<<>> \o <<>>) = f.crc
    BY <2>2, ConcatEmptySeq
  <2>4. f.crc = EntryOf(zip, f).sum
    BY <1>1, <2>1, <2>2, <2>3
  <2>5. f.crc_orig = EntryOf(zip, f).sum
    BY <1>3 DEF FileOK
  <2>6. g.error = "ok"
    BY <1>4, <2>4, <2>5
  <2>7. f.crc \o <<>> = Inflated(SubSeq(raw, 1, Done(zip, f)))
    BY <1>2, <1>3 DEF FileOK, Inflates
  <2>8. Inflated(SubSeq(raw, 1, Done(zip, f))) = EntryOf(zip, f).sum
    BY <2>2, <2>4, <2>7, ConcatEmptySeq
  <2> HIDE DEF f, g, raw
  <2>9. QED BY <1>2, <1>4, <1>5, <2>1, <2>6, <2>8 DEF WellRead
<1> HIDE DEF g
<1>7. QED BY <1>1, <1>2, <1>5, <1>6, IntactOne

LEMMA IntactInflate1 ==
  ASSUME FilesIInv, IntactsOK, Inflate1
  PROVE  IntactsOK'
<1> DEFINE h == call.h
           f == zf[h]
           de == EntryOf(zip, f)
           raw == RawOf(zip, f)
           done == Done(zip, f)
           o == call.outbuf \o Inflated(Pieces)
           left == (f.bytes_left - Len(o)) % ULong
           taken == Left(f, Len(Pieces), Ends)
           given == [taken EXCEPT !.crc = @ \o o, !.bytes_left = left]
<1>1. /\ call # NULL /\ zip' = zip
      /\ zf' = [zf EXCEPT ![h] = taken] \/ zf' = [zf EXCEPT ![h] = given]
  BY DEF Inflate1, Finish, Left
<1>2. h \in Handle /\ f # NULL /\ f.decomp /\ f.error = "ok"
  BY <1>1, CallFacts
<1>3. /\ f \in OpenFile(zip) /\ Placed(zip, f) /\ zip \in OnDisk
      /\ f.bytes_left \in 0 .. ULong - 1
  BY <1>1, <1>2, FileFacts
<1>4. PICK p \in 0 .. Len(f.buffer) :
        /\ Len(Pieces) = p /\ p \in Nat
        /\ \A k \in 1 .. p : IsPiece(f.buffer[k])
        /\ \A k \in 1 .. done : IsPiece(raw[k])
        /\ o \in Seq(Datum(zip)) /\ Len(o) \in Nat
        /\ f.crc \in Seq(Datum(zip))
        /\ f.crc \o o = Inflated(SubSeq(raw, 1, done + p))
  BY <1>1, InflatedNext
<1>5. PICK ended \in BOOLEAN : ended = Ends
  <2>1. Ends \in BOOLEAN
    BY DEF Ends
  <2>2. QED BY <2>1
<1>6. taken = Left(f, p, ended)
  BY <1>4, <1>5
<1>7. call.h = h /\ (Intact(de) =>
        /\ WellRead(zip, f)
        /\ ended => Inflated(SubSeq(raw, 1, done + p)) = de.sum
        /\ done + p = Len(raw) => ended)
  BY <1>1, <1>4, <1>5, IntactInflate
<1> HIDE DEF f, de, o, taken, h, raw, done
<1>8. /\ taken \in OpenFile(zip)
      /\ taken.decomp = f.decomp /\ taken.error = f.error
      /\ taken.crc = f.crc /\ taken.bytes_left = f.bytes_left
      /\ taken.ended = ended
  BY <1>3, <1>4, <1>5, <1>6, LeftFields
<1>9. /\ Placed(zip, taken)
      /\ EntryOf(zip, taken) = de /\ RawOf(zip, taken) = raw
      /\ Done(zip, taken) = done + p
  BY <1>3, <1>4, <1>5, <1>6, LeftPlace DEF raw, done, de
<1>10. ASSUME Intact(de)
       PROVE  /\ de.method = "deflate"
              /\ f.bytes_left = Len(de.sum) - Len(f.crc)
  BY <1>2, <1>7, <1>10 DEF WellRead, de
<1>11. ASSUME Intact(de) PROVE WellRead(zip, taken)
  BY <1>2, <1>7, <1>8, <1>9, <1>10, <1>11 DEF WellRead
<1>12. left \in 0 .. ULong - 1
  BY <1>3, <1>4, SizeAssumption
<1>13. ASSUME Intact(de) PROVE left = Len(de.sum) - Len(f.crc \o o)
  <2>1. /\ done + p \in 0 .. Len(raw)
    <3>1. /\ Got(zip, f) \in 0 .. Len(raw) /\ Len(raw) \in Nat
          /\ done \in 0 .. Got(zip, f) /\ Len(f.buffer) \in Nat
          /\ Got(zip, f) = done + Len(f.buffer)
      BY <1>3, PlacedType DEF raw, done
    <3>2. QED BY <1>4, <3>1
  <2>2. PICK rest \in Seq(Datum(zip)) :
          de.sum = Inflated(SubSeq(raw, 1, done + p)) \o rest
    BY <1>3, <1>10, <1>13, <2>1, IntactStream DEF de, raw
  <2>3. PICK a \in Nat, b \in Nat, c \in Nat :
          a = Len(f.crc) /\ b = Len(o) /\ c = Len(rest)
    BY <1>4, LenProperties
  <2>4. Len(f.crc \o o) = a + b /\ f.crc \o o \in Seq(Datum(zip))
    BY <1>4, <2>3, ConcatProperties
  <2>5. Len(de.sum) = (a + b) + c
    <3>1. PICK s \in Seq(Datum(zip)) : s = f.crc \o o /\ Len(s) = a + b
      BY <2>4
    <3>2. Len(s \o rest) = (a + b) + c
      BY <2>3, <3>1, ConcatProperties
    <3>3. de.sum = s \o rest
      BY <1>4, <2>2, <3>1
    <3>4. QED BY <3>2, <3>3
  <2>6. f.bytes_left = b + c
    <3>1. f.bytes_left = ((a + b) + c) - a
      BY <1>10, <1>13, <2>3, <2>5
    <3>2. QED BY <3>1
  <2>7. c \in 0 .. ULong - 1 /\ ((b + c) - b) % ULong = c
    <3>1. c \in 0 .. ULong - 1 /\ (b + c) - b = c
      BY <1>3, <2>6, SizeAssumption
    <3>2. c % ULong = c
      BY <3>1, SizeAssumption
    <3>3. QED BY <3>1, <3>2
  <2>8. left = c
    BY <2>3, <2>6, <2>7
  <2>9. Len(de.sum) - Len(f.crc \o o) = c
    BY <2>4, <2>5
  <2>10. QED BY <2>8, <2>9
<1> HIDE DEF left
<1>14. /\ SamePlace(taken, given) /\ given.error = taken.error
       /\ given.crc = f.crc \o o /\ given.bytes_left = left
       /\ given.ended = taken.ended
  BY <1>8 DEF OpenFile, SamePlace
<1> HIDE DEF given
<1>15. /\ EntryOf(zip, given) = de /\ RawOf(zip, given) = raw
       /\ Done(zip, given) = done + p /\ given.decomp = f.decomp
  BY <1>8, <1>9, <1>14, PlaceKept DEF SamePlace
<1>16. ASSUME Intact(de) PROVE WellRead(zip, given)
  BY <1>2, <1>7, <1>8, <1>10, <1>13, <1>14, <1>15, <1>16 DEF WellRead
<1>17. CASE zf' = [zf EXCEPT ![h] = taken]
  BY <1>1, <1>2, <1>9, <1>11, <1>17, IntactOne
<1>18. CASE zf' = [zf EXCEPT ![h] = given]
  BY <1>1, <1>2, <1>15, <1>16, <1>18, IntactOne
<1>19. QED BY <1>1, <1>17, <1>18

LEMMA IntactInflateFails ==
  ASSUME FilesIInv, IntactsOK, InflateFails
  PROVE  IntactsOK'
<1> DEFINE h == call.h
           f == zf[h]
           g == [f EXCEPT !.error = "zlib"]
<1>1. /\ call # NULL /\ DataError /\ zf' = [zf EXCEPT ![h] = g] /\ zip' = zip
  BY DEF InflateFails, Finish
<1>2. h \in Handle /\ f # NULL
  BY <1>1, CallFacts
<1>3. f \in OpenFile(zip)
  BY <1>1, <1>2, FileFacts
<1>4. EntryOf(zip, g) = EntryOf(zip, f)
  BY <1>3 DEF OpenFile, EntryOf
<1>5. ~ Intact(EntryOf(zip, f))
  BY <1>1, IntactInflate
<1> HIDE DEF g
<1>6. QED BY <1>1, <1>2, <1>4, <1>5, IntactOne

LEMMA IntactRefill ==
  ASSUME FilesIInv, IntactsOK, Refill
  PROVE  IntactsOK'
<1> DEFINE h == call.h
           f == zf[h]
           units == Units(f, BUFSIZE)
           error == IF f.cbytes_left = 0 THEN "incons" ELSE "eof"
           g == IF units # <<>> THEN Filled(f, units)
                                ELSE [f EXCEPT !.error = error]
<1>1. /\ call # NULL /\ ~ Ends /\ f.buffer = <<>> /\ zip' = zip
      /\ zf' = [zf EXCEPT ![h] = g]
  BY DEF Refill, Filled, Finish
<1>2. h \in Handle /\ f # NULL /\ f.decomp /\ f.error = "ok"
  BY <1>1, CallFacts
<1>3. f \in OpenFile(zip) /\ Placed(zip, f) /\ zip \in OnDisk
  BY <1>1, <1>2, FileFacts
<1>4. BUFSIZE \in Nat /\ BUFSIZE > 0
  BY SizeAssumption
<1>5. IsNext(Range(zip.zp), Got(zip, f), f.cbytes_left, BUFSIZE,
             RawOf(zip, f), units)
  BY <1>3, <1>4, UnitsType
<1>6. CASE units = <<>>
  <2>1. EntryOf(zip, g) = EntryOf(zip, f)
    BY <1>3, <1>6 DEF OpenFile, EntryOf
  <2>2. ~ Intact(EntryOf(zip, f))
    <3>1. SUFFICES ASSUME Intact(EntryOf(zip, f)) PROVE FALSE
      OBVIOUS
    <3>2. ~ f.ended /\ WellRead(zip, f)
      BY <1>1, <3>1, IntactInflate DEF Ends
    <3>3. Got(zip, f) = Len(RawOf(zip, f))
      BY <1>4, <1>5, <1>6 DEF IsNext
    <3>4. Len(f.buffer) = 0 /\ Got(zip, f) \in Nat
      BY <1>1, <1>3, PlacedType
    <3>5. Done(zip, f) = Len(RawOf(zip, f))
      BY <3>3, <3>4 DEF Done
    <3>6. QED BY <1>2, <3>2, <3>5 DEF WellRead
  <2> HIDE DEF g
  <2>3. QED BY <1>1, <1>2, <2>1, <2>2, IntactOne
<1>7. CASE units # <<>>
  <2>1. g = Filled(f, units)
    BY <1>7
  <2>2. /\ EntryOf(zip, g) = EntryOf(zip, f) /\ RawOf(zip, g) = RawOf(zip, f)
        /\ Done(zip, g) = Done(zip, f)
    BY <1>1, <1>3, <1>4, <2>1, FilledPlace
  <2>3. /\ units \in Seq(Range(zip.zp)) /\ Len(units) \in Nat
        /\ Len(units) <= f.cbytes_left
    BY <1>5 DEF IsNext
  <2> HIDE DEF g, units, f
  <2>4. /\ g.decomp = f.decomp /\ g.error = f.error /\ g.crc = f.crc
        /\ g.bytes_left = f.bytes_left /\ g.ended = f.ended
        /\ g.check = f.check
    BY <1>3, <2>1, <2>3, FilledFields
  <2>5. ASSUME Intact(EntryOf(zip, g)) PROVE WellRead(zip, g)
    <3>1. WellRead(zip, f)
      BY <1>2, <2>2, <2>5 DEF IntactsOK, f
    <3>2. QED BY <2>2, <2>4, <3>1 DEF WellRead
  <2>6. QED BY <1>1, <1>2, <2>5, IntactOne
<1>8. QED BY <1>6, <1>7

LEMMA IntactFopen ==
  ASSUME FilesIInv, IntactsOK, NEW h \in Handle, NEW i \in DOMAIN zip.entry,
         NEW compressed \in BOOLEAN, Fopen(h, i, compressed)
  PROVE  IntactsOK'
<1> DEFINE f == NewFile(i, compressed)
           de == zip.entry[i]
           units == IF f.decomp THEN Units(f, BUFSIZE) ELSE <<>>
           g == Filled(f, units)
<1>1. CanOpen(f) /\ zf' = [zf EXCEPT ![h] = g] /\ zip' = zip
  BY DEF Fopen, Filled
<1>2. zip \in OnDisk
  BY DEF FilesIInv
<1>3. /\ f \in OpenFile(zip) /\ f.idx = i /\ ~ f.ended /\ f.error = "ok"
      /\ f.decomp = (de.method = "deflate" /\ ~ compressed)
      /\ f.check = (f.decomp \/ de.method = "store")
      /\ f.crc = <<>> /\ f.buffer = <<>>
      /\ f.bytes_left = IF f.decomp THEN de.uncomp_size ELSE de.comp_size
  BY <1>2, NewFileFields
<1>4. FileOK(zip, f, <<>>) /\ Placed(zip, f) /\ Done(zip, f) = 0
  <2>1. HasMagic(zip.zp, zip.entry[i].offset, "PK34")
    BY <1>1, <1>3 DEF CanOpen
  <2>2. FileOK(zip, f, <<>>) /\ Done(zip, f) = 0
    BY <1>2, <2>1, NewFileOK
  <2>3. QED BY <2>2 DEF FileOK
<1>5. BUFSIZE \in Nat
  BY SizeAssumption
<1>6. units \in Seq(Range(zip.zp)) /\ Len(units) \in Nat
      /\ Len(units) <= f.cbytes_left
  <2>1. CASE f.decomp
    <3>1. IsNext(Range(zip.zp), Got(zip, f), f.cbytes_left, BUFSIZE,
                 RawOf(zip, f), Units(f, BUFSIZE))
      BY <1>2, <1>3, <1>4, <1>5, UnitsType
    <3>2. QED BY <2>1, <3>1 DEF IsNext
  <2>2. CASE ~ f.decomp
    <3>1. units = <<>> /\ f.cbytes_left \in Nat
      BY <1>3, <2>2 DEF OpenFile
    <3> HIDE DEF units, f
    <3>2. QED BY <3>1, EmptySeq
  <2>3. QED BY <2>1, <2>2
<1>7. f.decomp => /\ EntryOf(zip, g) = EntryOf(zip, f)
                  /\ RawOf(zip, g) = RawOf(zip, f) /\ Done(zip, g) = 0
  <2>1. ASSUME f.decomp
        PROVE  /\ EntryOf(zip, g) = EntryOf(zip, f)
               /\ RawOf(zip, g) = RawOf(zip, f) /\ Done(zip, g) = 0
    <3>1. units = Units(f, BUFSIZE)
      BY <2>1
    <3> HIDE DEF units, f
    <3>2. QED BY <1>2, <1>3, <1>4, <1>5, <3>1, FilledPlace
  <2>2. QED BY <2>1
<1>8. EntryOf(zip, f) = de
  BY <1>3 DEF EntryOf
<1> HIDE DEF f, units, de
<1>9. /\ g.idx = f.idx /\ g.decomp = f.decomp /\ g.check = f.check
      /\ g.error = f.error /\ g.crc = f.crc
      /\ g.bytes_left = f.bytes_left /\ g.ended = f.ended
  BY <1>3, <1>6, FilledFields
<1> HIDE DEF g
<1>10. EntryOf(zip, g) = de
  BY <1>8, <1>9 DEF EntryOf
<1>11. ASSUME Intact(de) PROVE WellRead(zip, g)
  <2>1. CASE f.decomp
    <3>1. de.method = "deflate"
      BY <1>3, <2>1
    <3>2. /\ Len(RawIn(zip, de)) = de.comp_size /\ de.comp_size > 0
          /\ de.uncomp_size = Len(de.sum)
      BY <1>2, <1>11, IntactData DEF de
    <3>3. de.comp_size \in Nat /\ de.uncomp_size \in Nat
      BY <1>2, EntryType DEF de
    <3>4. g.bytes_left = Len(de.sum) - Len(g.crc)
      <4>1. g.bytes_left = de.uncomp_size /\ Len(g.crc) = 0
        BY <1>3, <1>9, <2>1
      <4>2. QED BY <3>2, <3>3, <4>1
    <3>5. RawOf(zip, g) = RawIn(zip, de) /\ Done(zip, g) = 0
      BY <1>7, <1>8, <2>1 DEF RawOf
    <3>6. Done(zip, g) # Len(RawOf(zip, g))
      BY <3>2, <3>3, <3>5
    <3>7. ~ g.ended /\ g.decomp /\ g.error = "ok"
      BY <1>3, <1>9, <2>1
    <3>8. QED BY <1>10, <3>1, <3>4, <3>6, <3>7 DEF WellRead
  <2>2. CASE ~ f.decomp
    BY <1>3, <1>9, <1>10, <2>2 DEF WellRead
  <2>3. QED BY <2>1, <2>2
<1>12. QED BY <1>1, <1>10, <1>11, IntactOne

(* Steps that close files, and none that is open gets an error other than  *)
(* that the archive is closed.                                             *)
LEMMA IntactFclose ==
  ASSUME FilesIInv, IntactsOK, NEW h \in Handle, Fclose(h) \/ FcloseClosed(h)
  PROVE  IntactsOK'
<1>1. zip' = zip /\ (zf' = zf \/ zf' = [zf EXCEPT ![h] = NULL])
  BY DEF Fclose, FcloseClosed
<1>2. zf \in [Handle -> OpenFile(zip) \cup {NULL}]
  BY DEF FilesIInv, FilesTypeOK
<1>3. \A k \in Handle : zf'[k] # NULL => zf'[k] = zf[k]
  BY <1>1, <1>2
<1>4. QED BY <1>1, <1>3 DEF IntactsOK, Intact

LEMMA IntactClose ==
  ASSUME FilesIInv, IntactsOK, Close
  PROVE  IntactsOK'
<1> DEFINE Closed(f) == [f EXCEPT !.error = "zipclosed"]
<1>1. /\ zip' = zip
      /\ zf' = [h \in Handle |-> IF zf[h] # NULL /\ zf[h].error = "ok"
                                   THEN Closed(zf[h]) ELSE zf[h]]
  BY DEF Close
<1>2. ASSUME NEW f \in OpenFile(zip)
      PROVE  /\ SamePlace(f, Closed(f)) /\ Closed(f).error = "zipclosed"
             /\ Closed(f).crc = f.crc /\ Closed(f).bytes_left = f.bytes_left
             /\ Closed(f).ended = f.ended
  BY DEF OpenFile, SamePlace
<1> HIDE DEF Closed
<1>3. ASSUME NEW h \in Handle, zf'[h] # NULL, Intact(EntryOf(zip, zf'[h]))
      PROVE  WellRead(zip, zf'[h])
  <2>1. zf'[h] = IF zf[h] # NULL /\ zf[h].error = "ok"
                   THEN Closed(zf[h]) ELSE zf[h]
    BY <1>1
  <2>2. zf[h] # NULL
    BY <1>3, <2>1
  <2>3. zf[h] \in OpenFile(zip)
    BY <2>2, FileFacts
  <2>4. CASE zf[h].error = "ok"
    <3>1. zf'[h] = Closed(zf[h])
      BY <2>1, <2>2, <2>4
    <3>2. EntryOf(zip, zf'[h]) = EntryOf(zip, zf[h])
      BY <1>2, <2>3, <3>1, PlaceKept
    <3>3. WellRead(zip, zf[h])
      BY <1>3, <2>2, <3>2 DEF IntactsOK
    <3>4. QED BY <1>2, <2>3, <3>1, <3>3, WellReadSame
  <2>5. CASE zf[h].error # "ok"
    BY <1>3, <2>1, <2>2, <2>5 DEF IntactsOK
  <2>6. QED BY <2>4, <2>5
<1>4. QED BY <1>1, <1>3 DEF IntactsOK, Intact

LEMMA IntactCrash == ASSUME Crash PROVE IntactsOK'
BY DEF Crash, IntactsOK

LEMMA IntactStep ==
  ASSUME FilesIInv, IntactsOK, [FileNext]_filevars
  PROVE  IntactsOK'
<1>1. CASE UNCHANGED filevars
  BY <1>1, IntactNone DEF filevars
<1>2. CASE \E i \in DOMAIN zip.entry, compressed \in BOOLEAN :
             FopenFails(i, compressed)
  BY <1>2, IntactNone DEF FopenFails
<1>3. CASE \E i \in DOMAIN zip.entry, compressed \in BOOLEAN :
             \E h \in Handle : Fopen(h, i, compressed)
  BY <1>3, IntactFopen
<1>4. CASE \E h \in Handle : FreadError(h) \/ FreadEof(h)
  BY <1>4, IntactNone DEF FreadError, FreadEof
<1>5. CASE \E h \in Handle : FreadEnd(h)
  BY <1>5, IntactFreadEnd
<1>6. CASE \E h \in Handle : \E toread \in 1 .. MaxRead : FreadStored(h, toread)
  BY <1>6, IntactFreadStored
<1>7. CASE \E h \in Handle : \E toread \in 1 .. MaxRead : FreadDeflated(h, toread)
  BY <1>7, IntactNone DEF FreadDeflated
<1>8. CASE \E h \in Handle : Fclose(h) \/ FcloseClosed(h)
  BY <1>8, IntactFclose
<1>9. CASE Loop
  BY <1>9, IntactStreamEnd, IntactInflate1, IntactRefill, IntactCrash,
     IntactInflateFails
     DEF Loop, RefillCrashes
<1>10. CASE Close
  BY <1>10, IntactClose
<1>11. CASE FailedClose
  BY <1>11, IntactNone DEF FailedClose
<1>12. CASE SeekCrashes
  BY <1>12, IntactCrash DEF SeekCrashes
<1>13. QED
  BY <1>1, <1>2, <1>3, <1>4, <1>5, <1>6, <1>7, <1>8, <1>9, <1>10, <1>11, <1>12
     DEF FileNext

(* A file that is not damaged is read without an error, in whatever        *)
(* portions, with whatever else is read between them: zip_fread meets      *)
(* neither the end of the archive nor data it cannot inflate, and finds    *)
(* the check sum right.                                                    *)
THEOREM IntactFilesAreRead == FileSpec => []IntactIsRead
<1>1. FileInit => IntactsOK
  BY DEF FileInit, IntactsOK
<1>2. FilesIInv /\ IntactsOK /\ [FileNext]_filevars => IntactsOK'
  BY IntactStep
<1>3. FilesIInv /\ IntactsOK => IntactIsRead
  BY DEF IntactsOK, IntactIsRead, WellRead, EntryOf
<1>4. QED BY <1>1, <1>2, <1>3, FilesInv, PTL DEF FileSpec

(***************************************************************************)
(* Changing an archive again: the file on the disk.                        *)
(***************************************************************************)

LEMMA ModBounds ==
  ASSUME NEW n \in Nat
  PROVE  /\ n % Wide \in 0 .. Wide - 1 /\ n % Wide <= n
         /\ n > 0 /\ n % Wide = 0 => n >= Wide
<1>1. Wide \in Nat /\ Wide > 0
  BY WideAssumption
<1>2. n % Wide \in 0 .. Wide - 1
  BY <1>1
<1>3. n < Wide => n % Wide = n
  BY <1>1
<1>4. QED BY <1>1, <1>2, <1>3

LEMMA FileUnits ==
  ASSUME NEW f, IsFile(f)
  PROVE  /\ f \in Seq(ToSet(f)) /\ Len(f) \in Nat /\ DOMAIN f = 1 .. Len(f)
         /\ \A k \in 1 .. Len(f) : IsUnit(f[k])
<1>1. f \in Seq(ToSet(f)) /\ \A unit \in ToSet(f) : IsUnit(unit)
  BY DEF IsFile
<1>2. Len(f) \in Nat /\ DOMAIN f = 1 .. Len(f)
  BY <1>1, LenProperties
<1>3. \A k \in 1 .. Len(f) : f[k] \in ToSet(f)
  BY <1>2 DEF ToSet
<1>4. QED BY <1>1, <1>2, <1>3

LEMMA UnitsAreFile ==
  ASSUME NEW V, NEW f \in Seq(V), \A k \in 1 .. Len(f) : IsUnit(f[k])
  PROVE  IsFile(f)
<1>1. Len(f) \in Nat /\ DOMAIN f = 1 .. Len(f) /\ f \in [1 .. Len(f) -> V]
  BY LenProperties
<1>2. \A k \in 1 .. Len(f) : f[k] \in ToSet(f)
  BY <1>1 DEF ToSet
<1>3. f \in [1 .. Len(f) -> ToSet(f)]
  BY <1>1, <1>2
<1>4. f \in Seq(ToSet(f))
  BY <1>1, <1>3, SeqDef
<1>5. \A unit \in ToSet(f) : IsUnit(unit)
  BY <1>1 DEF ToSet
<1>6. QED BY <1>4, <1>5 DEF IsFile

LEMMA FileConcat ==
  ASSUME NEW f, NEW g, IsFile(f), IsFile(g)
  PROVE  /\ IsFile(f \o g) /\ Len(f \o g) = Len(f) + Len(g)
         /\ \A k \in 1 .. Len(f) : (f \o g)[k] = f[k]
         /\ \A k \in 1 .. Len(g) : (f \o g)[Len(f) + k] = g[k]
<1> DEFINE V == ToSet(f) \cup ToSet(g)
<1>1. f \in Seq(V) /\ g \in Seq(V) /\ Len(f) \in Nat /\ Len(g) \in Nat
  <2>1. f \in Seq(ToSet(f)) /\ g \in Seq(ToSet(g))
    BY DEF IsFile
  <2>2. QED BY <2>1, LenProperties
<1> HIDE DEF V
<1>2. /\ f \o g \in Seq(V) /\ Len(f \o g) = Len(f) + Len(g)
      /\ \A k \in 1 .. Len(f) + Len(g) :
           (f \o g)[k] = IF k <= Len(f) THEN f[k] ELSE g[k - Len(f)]
  BY <1>1, ConcatProperties
<1>3. \A k \in 1 .. Len(f) : (f \o g)[k] = f[k]
  BY <1>1, <1>2
<1>4. ASSUME NEW k \in 1 .. Len(g) PROVE (f \o g)[Len(f) + k] = g[k]
  <2>1. Len(f) + k \in 1 .. Len(f) + Len(g) /\ ~ (Len(f) + k <= Len(f))
        /\ Len(f) + k - Len(f) = k
    BY <1>1
  <2>2. QED BY <1>2, <2>1
<1>5. ASSUME NEW k \in 1 .. Len(f \o g) PROVE IsUnit((f \o g)[k])
  <2>1. CASE k <= Len(f)
    BY <1>1, <1>2, <1>3, <2>1, FileUnits
  <2>2. CASE k > Len(f)
    <3>1. k - Len(f) \in 1 .. Len(g) /\ (f \o g)[k] = g[k - Len(f)]
      BY <1>1, <1>2, <2>2
    <3>2. QED BY <3>1, FileUnits
  <2>3. QED BY <1>1, <1>2, <2>1, <2>2
<1>6. IsFile(f \o g)
  BY <1>2, <1>5, UnitsAreFile
<1>7. QED BY <1>2, <1>3, <1>4, <1>6

LEMMA FilePart ==
  ASSUME NEW f, IsFile(f), NEW m \in Nat, NEW n \in Nat,
         m >= 1, n <= Len(f)
  PROVE  /\ IsFile(SubSeq(f, m, n))
         /\ m <= n + 1 => Len(SubSeq(f, m, n)) = n - m + 1
<1>1. f \in Seq(ToSet(f)) /\ Len(f) \in Nat
      /\ \A k \in 1 .. Len(f) : IsUnit(f[k])
  BY FileUnits
<1>2. SubSeq(f, m, n) \in Seq(ToSet(f))
      /\ (m <= n + 1 => Len(SubSeq(f, m, n)) = n - m + 1)
      /\ \A k \in 1 .. Len(SubSeq(f, m, n)) :
           SubSeq(f, m, n)[k] = f[m + k - 1] /\ m + k - 1 \in 1 .. Len(f)
  <2>1. CASE m <= n + 1
    <3>1. /\ SubSeq(f, m, n) \in Seq(ToSet(f))
          /\ Len(SubSeq(f, m, n)) = n - m + 1
          /\ \A k \in 1 .. n - m + 1 : SubSeq(f, m, n)[k] = f[m + k - 1]
      BY <1>1, <2>1
    <3>2. QED BY <1>1, <2>1, <3>1
  <2>2. CASE m > n + 1
    <3>1. SubSeq(f, m, n) = <<>>
      BY <1>1, <2>2
    <3>2. QED BY <2>2, <3>1
  <2>3. QED BY <2>1, <2>2
<1>3. QED BY <1>1, <1>2, UnitsAreFile

(* What is read of a file.                                                 *)
LEMMA FileRead ==
  ASSUME NEW f, f # NULL, IsFile(f), NEW at \in Nat, NEW len \in Nat,
         at + len <= Len(f)
  PROVE  /\ IsFile(ReadAt(f, at, len)) /\ Len(ReadAt(f, at, len)) = len
         /\ \A k \in 1 .. len : ReadAt(f, at, len)[k] = f[at + k]
<1> DEFINE m == at + 1
           n == at + len
<1>1. /\ m \in Nat /\ n \in Nat /\ m >= 1 /\ m <= n + 1 /\ n <= Len(f)
      /\ n - m + 1 = len
  OBVIOUS
<1>2. ReadAt(f, at, len) = SubSeq(f, m, n)
  BY DEF ReadAt
<1>3. f \in Seq(ToSet(f)) /\ Len(f) \in Nat
  BY FileUnits
<1>4. ASSUME NEW k \in 1 .. len PROVE SubSeq(f, m, n)[k] = f[at + k]
  <2>1. k \in 1 .. n - m + 1 /\ m + k - 1 = at + k
    OBVIOUS
  <2> HIDE DEF m, n
  <2>2. SubSeq(f, m, n)[k] = f[m + k - 1]
    BY <1>1, <1>3, <2>1
  <2>3. QED BY <2>1, <2>2
<1> HIDE DEF m, n
<1>5. IsFile(SubSeq(f, m, n)) /\ Len(SubSeq(f, m, n)) = len
  BY <1>1, FilePart
<1>6. QED BY <1>2, <1>4, <1>5

LEMMA OneUnit ==
  ASSUME NEW unit, IsUnit(unit)
  PROVE  IsFile(<<unit>>) /\ Len(<<unit>>) = 1 /\ <<unit>>[1] = unit
<1> DEFINE f == <<unit>>
<1>1. f \in Seq({unit}) /\ Len(f) = 1 /\ f[1] = unit
  OBVIOUS
<1> HIDE DEF f
<1>2. \A k \in 1 .. Len(f) : IsUnit(f[k])
  BY <1>1
<1>3. IsFile(f)
  BY <1>1, <1>2, UnitsAreFile
<1>4. QED BY <1>1, <1>3 DEF f

LEMMA NoUnit == IsFile(<<>>) /\ Len(<<>>) = 0
<1> DEFINE f == <<>>
<1>1. f \in Seq({}) /\ Len(f) = 0
  OBVIOUS
<1> HIDE DEF f
<1>2. \A k \in 1 .. Len(f) : IsUnit(f[k])
  BY <1>1
<1>3. IsFile(f)
  BY <1>1, <1>2, UnitsAreFile
<1>4. QED BY <1>1, <1>3 DEF f

-----------------------------------------------------------------------------
(* What zip_close writes behind the data.                                  *)

(* The n entries d behind body, and the end record.                        *)
EndsWith(f, body, d, c) ==
  /\ IsFile(f) /\ c \in 0 .. Wide - 1
  /\ Len(f) = Len(body) + Len(d) + 1 + c
  /\ \A k \in 1 .. Len(body) : f[k] = body[k]
  /\ \A k \in 1 .. Len(d) : f[Len(body) + k] = Central(d[k])
  /\ f[Len(body) + Len(d) + 1] =
       EndOfCentralDir(Len(d) % Wide, Len(d), Len(body), c)

LEMMA CdirWriteEnds ==
  ASSUME NEW body, IsFile(body), NEW V, NEW d \in Seq(V),
         \A k \in 1 .. Len(d) : IsDirent(d[k]), NEW comment, IsFile(comment)
  PROVE  LET f == CdirWrite(body, d, comment)
             c == Len(comment) % Wide
         IN /\ EndsWith(f, body, d, c)
            /\ \A k \in 1 .. c : f[Len(body) + Len(d) + 1 + k] = comment[k]
<1> DEFINE dir == [i \in DOMAIN d |-> Central(d[i])]
           short == TwoBytes(comment)
           n == Len(d)
           c == Len(comment) % Wide
           end == EndOfCentralDir(n % Wide, n, Len(body), c)
<1>1. n \in Nat /\ DOMAIN d = 1 .. n /\ Len(body) \in Nat
  BY FileUnits, LenProperties
<1>2. Len(comment) \in Nat /\ c \in 0 .. Wide - 1 /\ c <= Len(comment)
  BY FileUnits, ModBounds
<1>3. IsFile(short) /\ Len(short) = c /\ \A k \in 1 .. c : short[k] = comment[k]
  <2>1. c \in Nat /\ 1 <= c + 1 /\ c - 1 + 1 = c
    BY <1>2, WideAssumption
  <2>2. IsFile(short) /\ Len(short) = c
    BY <1>2, <2>1, FilePart DEF TwoBytes
  <2>3. comment \in Seq(ToSet(comment))
    BY DEF IsFile
  <2> HIDE DEF c
  <2>4. \A k \in 1 .. c : SubSeq(comment, 1, c)[k] = comment[k]
    BY <1>2, <2>1, <2>3
  <2>5. QED BY <2>2, <2>4 DEF TwoBytes, c
<1>4. IsFile(dir) /\ Len(dir) = n /\ \A k \in 1 .. n : dir[k] = Central(d[k])
  <2> DEFINE U == {Central(d[i]) : i \in 1 .. n}
  <2>1. \A i \in 1 .. n : Central(d[i]) \in U
    OBVIOUS
  <2> HIDE DEF U
  <2>2. /\ dir \in Seq(U) /\ Len(dir) = n
        /\ \A k \in 1 .. n : dir[k] = Central(d[k])
    BY <1>1, <2>1
  <2>3. \A k \in 1 .. n : IsUnit(Central(d[k]))
    BY DEF IsUnit, Central, IsDirent
  <2> HIDE DEF dir, n
  <2>4. QED BY <2>2, <2>3, UnitsAreFile
<1>5. IsFile(<<end>>) /\ Len(<<end>>) = 1 /\ <<end>>[1] = end
  <2>1. n % Wide \in 0 .. Wide - 1 /\ c \in 0 .. Wide - 1
    BY <1>1, <1>2, ModBounds
  <2>2. IsUnit(end)
    BY <1>1, <2>1 DEF IsUnit, EndOfCentralDir
  <2> HIDE DEF end
  <2>3. QED BY <2>2, OneUnit
<1> DEFINE f1 == body \o dir
           f2 == f1 \o <<end>>
           f3 == f2 \o short
<1> HIDE DEF dir, short, end, c, n
<1>6. /\ IsFile(f1) /\ Len(f1) = Len(body) + n
      /\ \A k \in 1 .. Len(body) : f1[k] = body[k]
      /\ \A k \in 1 .. n : f1[Len(body) + k] = dir[k]
  BY <1>4, FileConcat
<1> HIDE DEF f1
<1>7. /\ IsFile(f2) /\ Len(f2) = Len(f1) + 1
      /\ \A k \in 1 .. Len(f1) : f2[k] = f1[k]
      /\ f2[Len(f1) + 1] = end
  <2> DEFINE last == <<end>>
  <2>1. IsFile(last) /\ Len(last) = 1 /\ last[1] = end
    BY <1>5
  <2> HIDE DEF last
  <2>2. /\ IsFile(f1 \o last) /\ Len(f1 \o last) = Len(f1) + Len(last)
        /\ \A k \in 1 .. Len(f1) : (f1 \o last)[k] = f1[k]
        /\ \A k \in 1 .. Len(last) : (f1 \o last)[Len(f1) + k] = last[k]
    <3>1. IsFile(f1) /\ IsFile(last)
      BY <1>6, <2>1
    <3>2. QED BY <3>1, FileConcat
  <2>3. 1 \in 1 .. Len(last)
    BY <2>1
  <2>4. (f1 \o last)[Len(f1) + 1] = last[1]
    BY <2>2, <2>3, Zenon
  <2>5. QED BY <2>1, <2>2, <2>4 DEF last
<1> HIDE DEF f2
<1>8. /\ IsFile(f3) /\ Len(f3) = Len(f2) + c
      /\ \A k \in 1 .. Len(f2) : f3[k] = f2[k]
      /\ \A k \in 1 .. c : f3[Len(f2) + k] = comment[k]
  <2>1. /\ IsFile(f3) /\ Len(f3) = Len(f2) + Len(short)
        /\ \A k \in 1 .. Len(f2) : f3[k] = f2[k]
        /\ \A k \in 1 .. Len(short) : f3[Len(f2) + k] = short[k]
    <3>1. IsFile(f2) /\ IsFile(short)
      BY <1>3, <1>7
    <3>2. QED BY <3>1, FileConcat
  <2> HIDE DEF f3
  <2>2. QED BY <1>3, <2>1
<1> HIDE DEF f3
<1>9. /\ Len(f3) = Len(body) + n + 1 + c
      /\ \A k \in 1 .. Len(body) : f3[k] = body[k]
      /\ f3[Len(body) + n + 1] = end
  BY <1>1, <1>6, <1>7, <1>8
<1>10. ASSUME NEW k \in 1 .. n PROVE f3[Len(body) + k] = Central(d[k])
  <2>1. Len(body) + k \in 1 .. Len(f1) /\ Len(body) + k \in 1 .. Len(f2)
    BY <1>1, <1>6, <1>7
  <2>2. QED BY <1>4, <1>6, <1>7, <1>8, <2>1
<1>11. CdirWrite(body, d, comment) = f3
  <2>1. CdirWrite(body, d, comment)
          = body \o dir \o <<EndOfCentralDir(Len(d) % Wide, Len(d), Len(body),
                                             Len(short))>> \o short
    BY DEF CdirWrite, dir, short
  <2>2. EndOfCentralDir(Len(d) % Wide, Len(d), Len(body), Len(short)) = end
    BY <1>3 DEF end, n
  <2>3. QED BY <2>1, <2>2 DEF f1, f2, f3
<1>12. Len(f2) = Len(body) + n + 1
  BY <1>6, <1>7
<1>13. QED
  BY <1>2, <1>8, <1>9, <1>10, <1>11, <1>12 DEF EndsWith, n, c, end

-----------------------------------------------------------------------------
(* The end record zip_close wrote is a candidate, and agrees with the files. *)

LEMMA StartOfBuf ==
  ASSUME NEW f, Len(f) \in Nat
  PROVE  BufStart(f) = IF Len(f) >= CDBUFSIZE THEN Len(f) - CDBUFSIZE ELSE 0
<1>1. Len(f) - CDBUFSIZE \in Int
  BY WideAssumption DEF CDBUFSIZE, MAXCOMLEN, EOCDLEN
<1>2. ASSUME NEW x \in Int PROVE Max({0, x}) = IF x >= 0 THEN x ELSE 0
  BY DEF Max
<1>3. CDBUFSIZE \in Int
  BY WideAssumption DEF CDBUFSIZE, MAXCOMLEN, EOCDLEN
<1>4. QED BY <1>1, <1>2, <1>3 DEF BufStart

LEMMA WrittenIsCdir ==
  ASSUME NEW f, f # NULL, NEW body, IsFile(body), NEW V, NEW d \in Seq(V),
         Len(d) > 0, NEW c, EndsWith(f, body, d, c)
  PROVE  LET end == Len(body) + Len(d)
         IN /\ end \in Candidates(f, TRUE)
            /\ CdirStart(f, end) = Len(body)
            /\ EntryCount(f[end + 1]) \in 1 .. Len(d)
            /\ f[end + 1].offset = Len(body)
<1> DEFINE end == Len(body) + Len(d)
           n == Len(d)
           B == Len(body)
<1>1. n \in Nat /\ n > 0 /\ B \in Nat /\ Wide \in Nat /\ Wide > 0
  BY FileUnits, LenProperties, WideAssumption
<1>2. /\ Len(f) = end + 1 + c /\ c \in 0 .. Wide - 1 /\ IsFile(f)
      /\ f[end + 1] = EndOfCentralDir(n % Wide, n, B, c)
      /\ \A k \in 1 .. n : f[B + k] = Central(d[k])
  BY DEF EndsWith
<1>3. DOMAIN f = 1 .. Len(f) /\ Len(f) \in Nat
  BY <1>2, FileUnits
<1>4. /\ f[end + 1].magic = "PK56" /\ f[end + 1].n = n % Wide
      /\ f[end + 1].size = n /\ f[end + 1].offset = B
      /\ f[end + 1].comment_len = c
  BY <1>2 DEF EndOfCentralDir
<1>5. /\ n % Wide \in 0 .. Wide - 1 /\ n % Wide <= n
      /\ n % Wide = 0 => n >= Wide
  BY <1>1, ModBounds
<1>6. EntryCount(f[end + 1]) \in 1 .. n
  BY <1>1, <1>4, <1>5 DEF EntryCount
<1> HIDE DEF n, B
<1>7. end \in Nat /\ end = B + n
  BY <1>1 DEF n, B
<1> HIDE DEF end
<1>8. CdirStart(f, end) = B
  BY <1>1, <1>4, <1>7 DEF CdirStart
<1>9. BufStart(f) <= end /\ BufStart(f) \in Nat
  BY <1>1, <1>2, <1>3, <1>7, StartOfBuf, SMTT(20)
  DEF CDBUFSIZE, MAXCOMLEN, EOCDLEN
<1>10. end \in BufStart(f) .. Len(f) - EOCDLEN
  BY <1>1, <1>2, <1>7, <1>9 DEF EOCDLEN
<1>11. HasMagic(f, end, "PK56")
  BY <1>1, <1>2, <1>3, <1>4, <1>7 DEF HasMagic
<1>12. ASSUME NEW i \in 0 .. EntryCount(f[end + 1]) - 1
       PROVE  HasMagic(f, B + i, "PK12")
  <2>1. i + 1 \in 1 .. n /\ B + i + 1 = B + (i + 1)
        /\ B + i + 1 \in 1 .. Len(f)
    BY <1>1, <1>2, <1>6, <1>7
  <2>2. f[B + i + 1] = Central(d[i + 1])
    BY <1>2, <2>1
  <2>3. f[B + i + 1].magic = "PK12"
    BY <2>2 DEF Central
  <2>4. QED BY <1>3, <2>1, <2>3 DEF HasMagic
<1>13. Len(f) - end - EOCDLEN = c
  BY <1>1, <1>2, <1>7 DEF EOCDLEN
<1>14. IsCdir(f, end, TRUE)
  BY <1>1, <1>2, <1>4, <1>6, <1>8, <1>12, <1>13 DEF IsCdir
<1>15. end \in Candidates(f, TRUE)
  BY <1>10, <1>11, <1>14 DEF Candidates
<1>16. QED BY <1>4, <1>6, <1>8, <1>15 DEF end, n, B

-----------------------------------------------------------------------------
(* What _zip_checkcons finds.                                              *)

LEMMA MinExists ==
  ASSUME NEW S \in SUBSET Nat, S # {}
  PROVE  Min(S) \in S /\ \A y \in S : Min(S) <= y
<1>1. PICK j \in S : \A k \in S : j <= k
  BY LeastNatural
<1>2. QED BY <1>1 DEF Min

Agrees(f, c) == \A de \in ToSet(c.entry) : Consistent(f, c, de)

LEMMA ConsChecked ==
  ASSUME NEW f, NEW c, c.offset \in Nat, ToSet(c.entry) # {},
         \A de \in ToSet(c.entry) : IsDirent(de)
  PROVE  /\ CheckCons(f, c) \in Int
         /\ CheckCons(f, c) >= 0 <=> Agrees(f, c)
<1> DEFINE files == ToSet(c.entry)
           froms == {de.offset : de \in files}
           tos == {de.offset + de.comp_size + LENTRYSIZE : de \in files}
<1>1. CASE ~ Agrees(f, c)
  <2>1. CheckCons(f, c) = -1
    BY <1>1 DEF CheckCons, Agrees
  <2>2. QED BY <1>1, <2>1
<1>2. CASE Agrees(f, c)
  <2>1. CheckCons(f, c) = Max(tos) - Min(froms)
    BY <1>2 DEF CheckCons, Agrees
  <2>2. \A de \in files : /\ de.offset \in Nat /\ de.comp_size \in Nat
                           /\ de.offset + de.comp_size + LENTRYSIZE <= c.offset
    BY <1>2 DEF Agrees, Consistent, IsDirent
  <2>3. froms \in SUBSET Nat /\ froms # {}
    BY <2>2
  <2>4. tos \in SUBSET (0 .. c.offset) /\ tos # {}
    BY <2>2 DEF LENTRYSIZE
  <2>5. Max(tos) \in tos /\ \A y \in tos : y <= Max(tos)
    BY <2>4, MaxExists
  <2>6. Min(froms) \in froms /\ \A y \in froms : Min(froms) <= y
    BY <2>3, MinExists
  <2>7. PICK de \in files : Min(froms) = de.offset
    BY <2>6
  <2>8. de.offset + de.comp_size + LENTRYSIZE \in tos
    OBVIOUS
  <2> HIDE DEF tos, froms, files
  <2>9. de.offset + de.comp_size + LENTRYSIZE <= Max(tos)
    BY <2>5, <2>8
  <2>10. Max(tos) \in Nat /\ de.offset \in Nat /\ de.comp_size \in Nat
    <3>1. Max(tos) \in 0 .. c.offset
      BY <2>4, <2>5, Zenon
    <3>2. QED BY <2>2, <3>1
  <2>11. Max(tos) - de.offset \in Int /\ Max(tos) - de.offset >= 0
    BY <2>9, <2>10 DEF LENTRYSIZE
  <2>12. QED BY <1>2, <2>1, <2>7, <2>11
<1>3. QED BY <1>1, <1>2

(* The directory of a candidate.                                           *)
LEMMA CandidateCdir ==
  ASSUME NEW f, f # NULL, IsFile(f), NEW check, NEW end \in Candidates(f, check)
  PROVE  LET c == ReadCdir(f, end)
         IN /\ end \in Nat /\ end + 1 <= Len(f)
            /\ c.offset \in Nat /\ ToSet(c.entry) # {}
            /\ \A de \in ToSet(c.entry) : IsDirent(de)
            /\ DOMAIN c.entry = 1 .. EntryCount(f[end + 1])
            /\ IsFile(c.comment) /\ Len(c.comment) < Wide
<1> DEFINE c == ReadCdir(f, end)
           eocd == f[end + 1]
           count == EntryCount(eocd)
<1>1. /\ end \in BufStart(f) .. Len(f) - EOCDLEN
      /\ HasMagic(f, end, "PK56") /\ IsCdir(f, end, check)
  BY DEF Candidates
<1>2. /\ Len(f) \in Nat /\ DOMAIN f = 1 .. Len(f)
      /\ \A k \in 1 .. Len(f) : IsUnit(f[k])
  BY FileUnits
<1>3. BufStart(f) \in Nat
  BY <1>2, StartOfBuf, WideAssumption DEF CDBUFSIZE, MAXCOMLEN, EOCDLEN
<1>4. end \in Nat /\ end + 1 <= Len(f)
  BY <1>1, <1>2, <1>3 DEF EOCDLEN
<1>5. /\ eocd.size \in Nat /\ eocd.offset \in Nat
      /\ eocd.comment_len \in Nat /\ eocd.comment_len < Wide
  <2>1. eocd.magic = "PK56" /\ IsUnit(eocd)
    BY <1>1, <1>2, <1>4 DEF HasMagic
  <2> HIDE DEF eocd
  <2>2. QED BY <2>1, WideAssumption DEF IsUnit
<1>6. count \in Nat \ {0} /\ DOMAIN c.entry = 1 .. count
  BY ReadCdirIsDirectory
<1>7. c.offset = eocd.offset
      /\ c.entry = [i \in 1 .. count |-> f[CdirStart(f, end) + i].de]
      /\ c.comment = ReadAt(f, end + EOCDLEN, eocd.comment_len)
  BY DEF ReadCdir
<1>8. /\ eocd.comment_len <= Len(f) - end - EOCDLEN
      /\ \A i \in 0 .. count - 1 : HasMagic(f, CdirStart(f, end) + i, "PK12")
  BY <1>1 DEF IsCdir
<1>9. CdirStart(f, end) \in Int
  BY <1>4, <1>5 DEF CdirStart
<1> HIDE DEF c, eocd, count
<1>10. ASSUME NEW i \in 1 .. count PROVE IsDirent(c.entry[i])
  <2>1. /\ i - 1 \in 0 .. count - 1
        /\ CdirStart(f, end) + (i - 1) + 1 = CdirStart(f, end) + i
    BY <1>6, <1>9
  <2>2. HasMagic(f, CdirStart(f, end) + (i - 1), "PK12")
    BY <1>8, <2>1
  <2> DEFINE unit == f[CdirStart(f, end) + i]
  <2>3. IsUnit(unit) /\ unit.magic = "PK12"
    BY <1>2, <2>1, <2>2 DEF HasMagic
  <2>4. c.entry[i] = unit.de
    BY <1>7
  <2> HIDE DEF unit
  <2>5. QED BY <2>3, <2>4 DEF IsUnit, IsDirent
<1>11. ToSet(c.entry) # {} /\ \A de \in ToSet(c.entry) : IsDirent(de)
  <2>1. 1 \in 1 .. count
    BY <1>6
  <2>2. QED BY <1>6, <1>10, <2>1 DEF ToSet
<1>12. IsFile(c.comment) /\ Len(c.comment) < Wide
  <2>1. /\ end + EOCDLEN + eocd.comment_len <= Len(f)
        /\ end + EOCDLEN \in Nat
    BY <1>2, <1>4, <1>5, <1>8 DEF EOCDLEN
  <2>2. QED BY <1>5, <1>7, <2>1, FileRead
<1>13. QED BY <1>4, <1>5, <1>6, <1>7, <1>11, <1>12 DEF c, eocd, count

-----------------------------------------------------------------------------
(* Of the candidates there is a best one.                                  *)

Span(f, end) == CheckCons(f, ReadCdir(f, end))

IsBest(D, span, end) ==
  \A other \in D :
    \/ span[other] < span[end]
    \/ span[other] = span[end] /\ end <= other

LEMMA BestOfMore ==
  ASSUME NEW T, NEW span, NEW n \in Nat, span[n + 1] \in Int,
         \A x \in T : x \in Nat /\ x <= n /\ span[x] \in Int,
         NEW end \in T, IsBest(T, span, end)
  PROVE  \E best \in T \cup {n + 1} : IsBest(T \cup {n + 1}, span, best)
<1>1. end \in Nat /\ end <= n /\ span[end] \in Int
  OBVIOUS
<1>2. CASE span[n + 1] > span[end]
  <2>1. ASSUME NEW other \in T PROVE span[other] < span[n + 1]
    <3>1. span[other] \in Int /\ span[other] <= span[end]
      BY <1>1 DEF IsBest
    <3>2. QED BY <1>1, <1>2, <3>1
  <2>2. IsBest(T \cup {n + 1}, span, n + 1)
    BY <2>1 DEF IsBest
  <2>3. QED BY <2>2
<1>3. CASE ~ (span[n + 1] > span[end])
  <2>1. span[n + 1] < span[end] \/ (span[n + 1] = span[end] /\ end <= n + 1)
    BY <1>1, <1>3
  <2>2. IsBest(T \cup {n + 1}, span, end)
    BY <2>1 DEF IsBest
  <2>3. QED BY <2>2
<1>4. QED BY <1>2, <1>3

Upto(D, n) == {end \in D : end <= n}
HasBest(T, span) == T # {} => \E end \in T : IsBest(T, span, end)

LEMMA BestOf ==
  ASSUME NEW N \in Nat, NEW D \in SUBSET (0 .. N), D # {},
         NEW span \in [D -> Int]
  PROVE  \E end \in D : IsBest(D, span, end)
<1> DEFINE S == {n \in Nat : HasBest(Upto(D, n), span)}
<1>1. \A end \in D : end \in Nat /\ end <= N /\ span[end] \in Int
  OBVIOUS
<1>2. ASSUME NEW T, NEW end \in Nat, T = {end}, span[end] \in Int
      PROVE  HasBest(T, span)
  BY <1>2 DEF HasBest, IsBest
<1>3. HasBest(Upto(D, 0), span)
  <2>1. CASE Upto(D, 0) = {}
    BY <2>1 DEF HasBest
  <2>2. CASE Upto(D, 0) # {}
    <3>1. \A end \in Upto(D, 0) : end = 0 /\ end \in D
      BY <1>1 DEF Upto
    <3>2. Upto(D, 0) = {0} /\ 0 \in D
      BY <2>2, <3>1
    <3>3. QED BY <1>1, <1>2, <3>2
  <2>3. QED BY <2>1, <2>2
<1>4. ASSUME NEW n \in Nat, HasBest(Upto(D, n), span)
      PROVE  HasBest(Upto(D, n + 1), span)
  <2>1. CASE n + 1 \notin D
    <3>1. \A end \in D : end <= n + 1 <=> end <= n
      BY <1>1, <2>1
    <3>2. Upto(D, n + 1) = Upto(D, n)
      BY <3>1 DEF Upto
    <3>3. QED BY <1>4, <3>2
  <2>2. CASE n + 1 \in D
    <3>1. \A end \in D : end <= n + 1 <=> end <= n \/ end = n + 1
      BY <1>1
    <3>2. Upto(D, n + 1) = Upto(D, n) \cup {n + 1}
      <4>1. n + 1 <= n + 1
        OBVIOUS
      <4>2. QED BY <2>2, <3>1, <4>1 DEF Upto
    <3>3. /\ span[n + 1] \in Int /\ n + 1 \in Nat
          /\ \A x \in Upto(D, n) : x \in Nat /\ x <= n /\ span[x] \in Int
      BY <1>1, <2>2 DEF Upto
    <3>4. CASE Upto(D, n) = {}
      BY <1>2, <3>2, <3>3, <3>4
    <3>5. CASE Upto(D, n) # {}
      <4>1. PICK end \in Upto(D, n) : IsBest(Upto(D, n), span, end)
        BY <1>4, <3>5 DEF HasBest
      <4>2. \E best \in Upto(D, n) \cup {n + 1} :
              IsBest(Upto(D, n) \cup {n + 1}, span, best)
        BY <3>3, <4>1, BestOfMore
      <4>3. QED BY <3>2, <4>2 DEF HasBest
    <3>6. QED BY <3>4, <3>5
  <2>3. QED BY <2>1, <2>2
<1>5. 0 \in S /\ \A n \in Nat : n \in S => n + 1 \in S
  BY <1>3, <1>4
<1> HIDE DEF S
<1>6. N \in S
  BY <1>5, SetInduction
<1>7. HasBest(Upto(D, N), span)
  BY <1>6 DEF S
<1>8. Upto(D, N) = D
  BY <1>1 DEF Upto
<1>9. QED BY <1>7, <1>8 DEF HasBest

LEMMA BestIsCandidate ==
  ASSUME NEW f, f # NULL, IsFile(f), NEW check, Candidates(f, check) # {}
  PROVE  /\ Best(f, check) \in Candidates(f, check)
         /\ Span(f, Best(f, check)) \in Int
         /\ \A end \in Candidates(f, check) :
              Span(f, end) \in Int /\ Span(f, end) <= Span(f, Best(f, check))
<1> DEFINE D == Candidates(f, check)
           span == [end \in D |-> Span(f, end)]
<1>1. Len(f) \in Nat
  BY FileUnits
<1>2. \A end \in D : end \in Nat /\ end + 1 <= Len(f) /\ Span(f, end) \in Int
  BY CandidateCdir, ConsChecked DEF Span
<1>3. D \in SUBSET (0 .. Len(f))
  BY <1>1, <1>2
<1>4. span \in [D -> Int] /\ \A end \in D : span[end] = Span(f, end)
  BY <1>2
<1>5. Best(f, check) = CHOOSE end \in D : IsBest(D, span, end)
  BY Zenon DEF Best, Span, IsBest
<1> HIDE DEF D, span
<1>6. \E end \in D : IsBest(D, span, end)
  BY <1>1, <1>3, <1>4, BestOf DEF D
<1>7. Best(f, check) \in D /\ IsBest(D, span, Best(f, check))
  BY <1>5, <1>6
<1>8. \A end \in D : Span(f, end) <= Span(f, Best(f, check))
  BY <1>2, <1>4, <1>7 DEF IsBest
<1>9. QED BY <1>2, <1>7, <1>8 DEF D

-----------------------------------------------------------------------------
(* The local header of an entry is where the entry says it is, and its     *)
(* data follow.                                                            *)
Kept(f, de) ==
  /\ IsDirent(de) /\ de.offset + de.comp_size + LENTRYSIZE <= Len(f)
  /\ f[de.offset + 1] = Local(de)

LEMMA NotLess ==
  ASSUME NEW a \in Int, NEW b \in Int, a >= 0, a <= b PROVE b >= 0
OBVIOUS

LEMMA ReadUnit ==
  ASSUME NEW f, f # NULL, IsFile(f), NEW at \in Nat, at + 1 <= Len(f)
  PROVE  ReadAt(f, at, LENTRYSIZE) = <<f[at + 1]>>
<1>1. f \in Seq(ToSet(f)) /\ Len(f) \in Nat
  BY FileUnits
<1> DEFINE t == SubSeq(f, at + 1, at + 1)
<1>2. t \in Seq(ToSet(f)) /\ Len(t) = 1 /\ t[1] = f[at + 1]
  <2>1. at + 1 \in at .. Len(f) /\ at + 1 - at = 1 /\ 1 \in 1 .. 1
    BY <1>1
  <2>2. /\ t \in Seq(ToSet(f)) /\ Len(t) = at + 1 - at
        /\ \A k \in 1 .. at + 1 - at : t[k] = f[at + k]
    BY <1>1, <2>1, SubSeqPart
  <2>3. QED BY <2>1, <2>2
<1>3. ReadAt(f, at, LENTRYSIZE) = SubSeq(f, at + 1, at + 1)
  BY DEF ReadAt, LENTRYSIZE
<1> HIDE DEF t
<1>4. t = <<f[at + 1]>>
  BY <1>2
<1>5. QED BY <1>3, <1>4 DEF t

(* What zip_close writes opens, with ZIP_CHECKCONS: some candidate is      *)
(* consistent, so the best one is, even if it is another.                  *)
LEMMA WrittenOpens ==
  ASSUME NEW f, f # NULL, NEW body, IsFile(body), NEW V, NEW d \in Seq(V),
         Len(d) > 0, \A k \in 1 .. Len(d) : Kept(body, d[k]),
         NEW c, EndsWith(f, body, d, c)
  PROVE  HasCdir(f, TRUE)
<1> DEFINE end == Len(body) + Len(d)
           dir == ReadCdir(f, end)
           count == EntryCount(f[end + 1])
<1>1. /\ end \in Candidates(f, TRUE) /\ CdirStart(f, end) = Len(body)
      /\ count \in 1 .. Len(d) /\ f[end + 1].offset = Len(body)
  BY WrittenIsCdir
<1>2. /\ IsFile(f) /\ c \in Nat /\ Len(f) = Len(body) + Len(d) + 1 + c
      /\ \A k \in 1 .. Len(body) : f[k] = body[k]
      /\ \A k \in 1 .. Len(d) : f[Len(body) + k] = Central(d[k])
  BY WideAssumption DEF EndsWith
<1>3. Len(body) \in Nat /\ Len(d) \in Nat
  BY FileUnits, LenProperties
<1>4. dir.offset = Len(body) /\ DOMAIN dir.entry = 1 .. count
      /\ \A k \in 1 .. count : dir.entry[k] = f[Len(body) + k].de
  BY <1>1 DEF ReadCdir
<1> HIDE DEF dir, count, end
<1>5. \A k \in 1 .. count : k \in 1 .. Len(d) /\ dir.entry[k] = d[k]
  <2>1. \A k \in 1 .. count : k \in 1 .. Len(d)
    BY <1>1, <1>3
  <2>2. ASSUME NEW k \in 1 .. count PROVE dir.entry[k] = d[k]
    <3>1. dir.entry[k] = f[Len(body) + k].de
      BY <1>4
    <3>2. f[Len(body) + k] = Central(d[k])
      BY <1>2, <2>1
    <3>3. QED BY <3>1, <3>2 DEF Central
  <2>3. QED BY <2>1, <2>2
<1>6. ASSUME NEW k \in 1 .. count PROVE Consistent(f, dir, d[k])
  <2> DEFINE de == d[k]
  <2>1. /\ de.offset \in Nat /\ de.comp_size \in Nat
        /\ de.offset + de.comp_size + LENTRYSIZE <= Len(body)
        /\ body[de.offset + 1] = Local(de)
    BY <1>5 DEF Kept, IsDirent
  <2> HIDE DEF de
  <2>2. de.offset + 1 \in 1 .. Len(body) /\ de.offset + 1 <= Len(f)
    <3>1. PICK b \in Nat, n \in Nat, at \in Nat, size \in Nat :
            /\ b = Len(body) /\ n = Len(d)
            /\ at = de.offset /\ size = de.comp_size
      BY <1>3, <2>1
    <3>2. at + size + 1 <= b /\ Len(f) = b + n + 1 + c
      BY <1>2, <2>1, <3>1 DEF LENTRYSIZE
    <3>3. at + 1 \in 1 .. b /\ at + 1 <= b + n + 1 + c
      BY <1>2, <3>1, <3>2, SMTT(20)
    <3>4. QED BY <3>1, <3>2, <3>3
  <2>3. f[de.offset + 1] = Local(de)
    BY <1>2, <2>1, <2>2
  <2>4. ReadAt(f, de.offset, LENTRYSIZE) = <<f[de.offset + 1]>>
    BY <1>2, <2>1, <2>2, ReadUnit
  <2>5. Consistent(f, dir, de)
    BY <1>4, <2>1, <2>3, <2>4 DEF Consistent
  <2>6. QED BY <2>5 DEF de
<1>7. Agrees(f, dir)
  BY <1>4, <1>5, <1>6 DEF Agrees, ToSet
<1>8. /\ dir.offset \in Nat /\ ToSet(dir.entry) # {}
      /\ \A de \in ToSet(dir.entry) : IsDirent(de)
  BY <1>1, <1>2, CandidateCdir DEF dir
<1>9. Span(f, end) \in Int /\ Span(f, end) >= 0
  BY <1>7, <1>8, ConsChecked DEF Span, dir
<1>10. Candidates(f, TRUE) # {}
  BY <1>1
<1>11. Span(f, end) <= Span(f, Best(f, TRUE)) /\ Span(f, Best(f, TRUE)) \in Int
  BY <1>1, <1>2, <1>10, BestIsCandidate
<1>12. Span(f, Best(f, TRUE)) >= 0
  BY <1>9, <1>11, NotLess
<1>13. QED BY <1>10, <1>12 DEF HasCdir, Span

(* A directory that zip_open reads agrees with the local headers, without  *)
(* ZIP_CHECKCONS too, if the file opens with it.                           *)
Sound(f) == IsFile(f) /\ HasCdir(f, TRUE)

LEMMA OpenedAgrees ==
  ASSUME NEW f, f # NULL, Sound(f), NEW check \in BOOLEAN, HasCdir(f, check)
  PROVE  LET c == FindCentralDir(f, check)
         IN /\ Agrees(f, c) /\ IsFile(c.comment) /\ Len(c.comment) < Wide
            /\ \A de \in ToSet(c.entry) : IsDirent(de)
<1> DEFINE c == ReadCdir(f, Best(f, check))
<1>1. IsFile(f) /\ Candidates(f, TRUE) # {} /\ Candidates(f, check) # {}
      /\ Span(f, Best(f, TRUE)) >= 0
  BY DEF Sound, HasCdir, Span
<1>2. /\ Best(f, TRUE) \in Candidates(f, TRUE)
      /\ Span(f, Best(f, TRUE)) \in Int
  BY <1>1, BestIsCandidate
<1>3. /\ Best(f, check) \in Candidates(f, check)
      /\ Span(f, Best(f, check)) \in Int
      /\ \A end \in Candidates(f, check) :
           Span(f, end) <= Span(f, Best(f, check))
  BY <1>1, BestIsCandidate
<1>4. Candidates(f, TRUE) \subseteq Candidates(f, check)
  BY DEF Candidates, IsCdir
<1>5. Span(f, Best(f, check)) >= 0
  <2>1. Span(f, Best(f, TRUE)) <= Span(f, Best(f, check))
    BY <1>2, <1>3, <1>4
  <2>2. QED BY <1>1, <1>2, <1>3, <2>1, NotLess
<1>6. /\ c.offset \in Nat /\ ToSet(c.entry) # {}
      /\ \A de \in ToSet(c.entry) : IsDirent(de)
      /\ IsFile(c.comment) /\ Len(c.comment) < Wide
  BY <1>1, <1>3, CandidateCdir
<1>7. Agrees(f, c)
  BY <1>5, <1>6, ConsChecked DEF Span
<1>8. FindCentralDir(f, check) = c
  BY DEF FindCentralDir
<1>9. QED BY <1>6, <1>7, <1>8

-----------------------------------------------------------------------------
(* A file more.                                                            *)

AllKept(f, d) ==
  /\ IsFile(f) /\ d \in Seq(ToSet(d))
  /\ \A k \in 1 .. Len(d) : Kept(f, d[k])

LEMMA NoneKept == AllKept(<<>>, <<>>)
<1> DEFINE d == <<>>
<1>1. d \in Seq({}) /\ Len(d) = 0 /\ d \in Seq(ToSet(d))
  OBVIOUS
<1> HIDE DEF d
<1>2. AllKept(<<>>, d)
  BY <1>1, NoUnit DEF AllKept
<1>3. QED BY <1>2 DEF d

(* A header and data behind what is there.                                 *)
Behind(f, unit, units) == f \o <<unit>> \o units

IsBehind(h, f, unit, units) ==
  /\ IsFile(h) /\ Len(h) = Len(f) + 1 + Len(units)
  /\ \A k \in 1 .. Len(f) : h[k] = f[k]
  /\ h[Len(f) + 1] = unit
  /\ \A k \in 1 .. Len(units) : h[Len(f) + 1 + k] = units[k]

LEMMA FileAppended ==
  ASSUME NEW f, IsFile(f), NEW unit, IsUnit(unit), NEW units, IsFile(units)
  PROVE  IsBehind(Behind(f, unit, units), f, unit, units)
<1> DEFINE head == <<unit>>
           g == f \o head
           h == g \o units
<1>1. Len(f) \in Nat /\ Len(units) \in Nat
  BY FileUnits
<1>2. IsFile(head) /\ Len(head) = 1 /\ head[1] = unit
  BY OneUnit
<1> HIDE DEF head
<1>3. /\ IsFile(g) /\ Len(g) = Len(f) + Len(head)
      /\ \A k \in 1 .. Len(f) : g[k] = f[k]
      /\ \A k \in 1 .. Len(head) : g[Len(f) + k] = head[k]
  <2>1. IsFile(f) /\ IsFile(head)
    BY <1>2
  <2>2. QED BY <2>1, FileConcat
<1>4. 1 \in 1 .. Len(head)
  BY <1>2
<1>5. g[Len(f) + 1] = unit /\ Len(g) = Len(f) + 1
  BY <1>2, <1>3, <1>4, Zenon
<1> HIDE DEF g
<1>6. /\ IsFile(h) /\ Len(h) = Len(g) + Len(units)
      /\ \A k \in 1 .. Len(g) : h[k] = g[k]
      /\ \A k \in 1 .. Len(units) : h[Len(g) + k] = units[k]
  <2>1. IsFile(g) /\ IsFile(units)
    BY <1>3
  <2>2. QED BY <2>1, FileConcat
<1> HIDE DEF h
<1>7. \A k \in 1 .. Len(f) : h[k] = f[k]
  BY <1>1, <1>3, <1>5, <1>6
<1>8. h[Len(f) + 1] = unit
  BY <1>1, <1>5, <1>6
<1>9. \A k \in 1 .. Len(units) : h[Len(f) + 1 + k] = units[k]
  BY <1>5, <1>6
<1>10. Behind(f, unit, units) = h
  BY DEF Behind, h, g, head
<1>11. IsFile(h) /\ Len(h) = Len(f) + 1 + Len(units)
  BY <1>5, <1>6
<1>12. IsBehind(h, f, unit, units)
  BY <1>7, <1>8, <1>9, <1>11 DEF IsBehind
<1>13. QED BY <1>10, <1>12

LEMMA InsideMore ==
  ASSUME NEW l \in Nat, NEW more \in Nat, NEW at \in Nat, NEW size \in Nat,
         at + size + 1 <= l
  PROVE  at + 1 \in 1 .. l /\ at + size + 1 <= l + 1 + more
OBVIOUS

LEMMA OneMoreKept ==
  ASSUME NEW f, NEW d, AllKept(f, d), NEW de, IsDirent(de), de.offset = Len(f),
         NEW units, IsFile(units), de.comp_size = Len(units)
  PROVE  AllKept(Behind(f, Local(de), units), Append(d, de))
<1> DEFINE h == Behind(f, Local(de), units)
           e == Append(d, de)
<1>1. IsFile(f) /\ Len(f) \in Nat
  BY FileUnits DEF AllKept
<1>2. IsUnit(Local(de))
  BY DEF IsUnit, Local
<1>3. /\ IsFile(h) /\ Len(h) = Len(f) + 1 + Len(units)
      /\ \A k \in 1 .. Len(f) : h[k] = f[k]
      /\ h[Len(f) + 1] = Local(de)
  <2>1. IsBehind(h, f, Local(de), units)
    BY <1>1, <1>2, FileAppended
  <2>2. QED BY <2>1 DEF IsBehind
<1> HIDE DEF h
<1>4. /\ de.offset \in Nat /\ de.comp_size \in Nat /\ IsDirent(de)
      /\ Len(h) = Len(f) + 1 + de.comp_size
  BY <1>1, <1>3 DEF IsDirent
<1>5. ASSUME NEW old, Kept(f, old) PROVE Kept(h, old)
  <2>1. /\ old.offset \in Nat /\ old.comp_size \in Nat /\ IsDirent(old)
        /\ old.offset + old.comp_size + LENTRYSIZE <= Len(f)
        /\ f[old.offset + 1] = Local(old)
    BY <1>5 DEF Kept, IsDirent
  <2>2. old.offset + 1 \in 1 .. Len(f)
        /\ old.offset + old.comp_size + LENTRYSIZE <= Len(h)
    <3>1. PICK l \in Nat, more \in Nat, at \in Nat, size \in Nat :
            /\ l = Len(f) /\ more = de.comp_size
            /\ at = old.offset /\ size = old.comp_size
      BY <1>1, <1>4, <2>1
    <3>2. at + size + 1 <= l /\ Len(h) = l + 1 + more
      BY <1>4, <2>1, <3>1 DEF LENTRYSIZE
    <3>3. at + 1 \in 1 .. l /\ at + size + 1 <= l + 1 + more
      BY <3>2, InsideMore, Zenon
    <3>4. old.offset + 1 \in 1 .. Len(f)
      BY <3>1, <3>3
    <3>5. old.offset + old.comp_size + 1 <= Len(h)
      BY <3>1, <3>2, <3>3
    <3>6. QED BY <3>4, <3>5 DEF LENTRYSIZE
  <2>3. h[old.offset + 1] = Local(old)
    BY <1>3, <2>1, <2>2
  <2>4. QED BY <2>1, <2>2, <2>3 DEF Kept
<1>6. Kept(h, de)
  <2>1. h[de.offset + 1] = Local(de)
    BY <1>1, <1>3, <1>4
  <2>2. de.offset + de.comp_size + LENTRYSIZE <= Len(h)
    BY <1>1, <1>4 DEF LENTRYSIZE
  <2>3. QED BY <1>4, <2>1, <2>2 DEF Kept
<1>7. /\ e \in Seq(ToSet(d) \cup {de}) /\ Len(e) = Len(d) + 1
      /\ \A k \in 1 .. Len(d) : e[k] = d[k]
      /\ e[Len(d) + 1] = de /\ Len(d) \in Nat
  <2>1. d \in Seq(ToSet(d) \cup {de}) /\ de \in ToSet(d) \cup {de}
    BY DEF AllKept
  <2>2. QED BY <2>1, AppendProperties, LenProperties
<1> HIDE DEF e
<1>8. ASSUME NEW k \in 1 .. Len(e) PROVE Kept(h, e[k])
  <2>1. CASE k \in 1 .. Len(d)
    BY <1>5, <1>7, <2>1 DEF AllKept
  <2>2. CASE k = Len(d) + 1
    BY <1>6, <1>7, <2>2
  <2>3. QED BY <1>7, <2>1, <2>2
<1>9. e \in Seq(ToSet(e))
  <2>1. e \in [1 .. Len(e) -> ToSet(d) \cup {de}] /\ Len(e) \in Nat
        /\ DOMAIN e = 1 .. Len(e)
    BY <1>7, LenProperties
  <2>2. \A k \in 1 .. Len(e) : e[k] \in ToSet(e)
    BY <2>1 DEF ToSet
  <2>3. e \in [1 .. Len(e) -> ToSet(e)]
    BY <2>1, <2>2
  <2>4. QED BY <2>1, <2>3, SeqDef
<1>10. AllKept(h, e)
  BY <1>3, <1>8, <1>9 DEF AllKept
<1>11. QED BY <1>10 DEF h, e

-----------------------------------------------------------------------------
(* The inductive invariant.  The handle has the file on the disk, and what *)
(* it has read of it agrees with the local headers; what zip_close has     *)
(* written can be read again.                                              *)
CdirRead ==
  /\ disk # NULL /\ IsFile(disk)
  /\ Agrees(disk, cdir) /\ IsFile(cdir.comment) /\ Len(cdir.comment) < Wide
  /\ \A de \in ToSet(cdir.entry) : IsDirent(de)

Undamaged ==
  /\ disk \in {NULL, <<>>} \/ Sound(disk)
  /\ cdir = NULL \/ CdirRead
  /\ pc = "writing" => AllKept(out, cd)
  /\ pc = "written" => out = NULL \/ Sound(out)

DiskInv ==
  /\ zp \in {disk, NULL}
  /\ ch_comment \in Comment \cup {NULL}
  /\ pc = "writing" => Survivors # {}
  /\ damaged \/ Undamaged

StaysUndamaged == Undamaged => Undamaged'

LEMMA CommentIsFile == \A comment \in Comment : IsFile(comment)
BY UnitAssumption

LEMMA DiskInit == Init => DiskInv
<1> SUFFICES ASSUME Init PROVE DiskInv
  OBVIOUS
<1>1. /\ disk \in Archive /\ pc = "closed" /\ zp = NULL /\ cdir = NULL
      /\ ch_comment = NULL
  BY DEF Init
<1>2. disk \in {NULL, <<>>} \/ Sound(disk)
  BY <1>1, UnitAssumption, ArchiveAssumption DEF Sound
<1>3. QED BY <1>1, <1>2 DEF DiskInv, Undamaged

(* Nothing that the invariant is about has changed but the comment.        *)
LEMMA SameDisk ==
  ASSUME DiskInv, UNCHANGED <<disk, pc, zp, cdir, out, cd, damaged>>,
         ch_comment' \in {ch_comment, NULL} \cup Comment,
         pc = "writing" => Survivors' = Survivors
  PROVE  DiskInv' /\ StaysUndamaged
<1>1. ch_comment' \in Comment \cup {NULL}
  BY DEF DiskInv
<1>2. Undamaged => Undamaged'
  BY DEF Undamaged, CdirRead
<1>3. QED BY <1>1, <1>2 DEF DiskInv, StaysUndamaged

LEMMA EditDisk ==
  ASSUME DiskInv, Edit, Rest,
         ch_comment' \in {ch_comment, NULL} \cup Comment
  PROVE  DiskInv' /\ StaysUndamaged
<1>1. pc = "open" /\ UNCHANGED <<disk, pc, zp, cdir, out, cd, damaged>>
  BY DEF Edit, Rest
<1>2. QED BY <1>1, SameDisk

LEMMA OpenDisk ==
  ASSUME DiskInv, NEW check \in BOOLEAN, Open(check)
  PROVE  DiskInv' /\ StaysUndamaged
<1>1. /\ zp' = disk /\ disk' = disk /\ ch_comment' = NULL /\ pc' = "open"
      /\ damaged' = damaged
  BY DEF Open
<1>2. ASSUME Undamaged, cdir' # NULL PROVE CdirRead'
  <2>1. disk \notin {NULL, <<>>} /\ HasCdir(disk, check)
        /\ cdir' = FindCentralDir(disk, check)
    BY <1>2 DEF Open, AllocateNew
  <2>2. Sound(disk)
    BY <1>2, <2>1 DEF Undamaged
  <2>3. /\ Agrees(disk, cdir')
        /\ IsFile(cdir'.comment) /\ Len(cdir'.comment) < Wide
        /\ \A de \in ToSet(cdir'.entry) : IsDirent(de)
    BY <2>1, <2>2, OpenedAgrees
  <2>4. QED BY <1>1, <2>1, <2>2, <2>3 DEF CdirRead, Sound
<1>3. Undamaged => Undamaged'
  BY <1>1, <1>2 DEF Undamaged
<1>4. QED BY <1>1, <1>3 DEF DiskInv, StaysUndamaged

(* The handle is dropped, and the file is the old one, a new one, or gone. *)
LEMMA FreedDisk ==
  ASSUME DiskInv, Freed, damaged' = damaged,
         \/ disk' \in {disk, NULL}
         \/ pc = "written" /\ disk' = out
  PROVE  DiskInv' /\ StaysUndamaged
<1>1. pc' = "closed" /\ zp' = NULL /\ cdir' = NULL /\ ch_comment' = NULL
  BY DEF Freed
<1>2. ASSUME Undamaged PROVE disk' \in {NULL, <<>>} \/ Sound(disk')
  BY <1>2 DEF Undamaged
<1>3. Undamaged => Undamaged'
  BY <1>1, <1>2 DEF Undamaged, Sound
<1>4. QED BY <1>1, <1>3 DEF DiskInv, StaysUndamaged

LEMMA BeginDisk ==
  ASSUME DiskInv, CloseBegin PROVE DiskInv' /\ StaysUndamaged
<1>1. /\ UNCHANGED <<disk, zp, cdir, entry, ch_comment, damaged>>
      /\ pc' = "writing" /\ out' = <<>> /\ cd' = <<>> /\ Survivors # {}
  BY DEF CloseBegin, TempOutput, handle
<1>2. Survivors' = Survivors
  BY <1>1 DEF Survivors
<1>3. AllKept(out', cd')
  BY <1>1, NoneKept
<1>4. Undamaged => Undamaged'
  BY <1>1, <1>3 DEF Undamaged, CdirRead
<1>5. QED BY <1>1, <1>2, <1>4 DEF DiskInv, StaysUndamaged

LEMMA FailsDisk ==
  ASSUME DiskInv, CloseFails PROVE DiskInv' /\ StaysUndamaged
<1>1. /\ UNCHANGED <<disk, cdir, ch_comment, damaged>>
      /\ pc' = "open" /\ zp' \in {zp, disk, NULL}
  BY DEF CloseFails
<1>2. Undamaged => Undamaged'
  BY <1>1 DEF Undamaged, CdirRead
<1>3. QED BY <1>1, <1>2 DEF DiskInv, StaysUndamaged

LEMMA CutDisk == ASSUME IInv, DiskInv, Cut PROVE DiskInv'
<1>1. /\ UNCHANGED <<pc, zp, ch_comment>> /\ damaged' = TRUE /\ pc = "closed"
  BY DEF Cut, handle
<1>2. zp' = NULL
  BY <1>1 DEF IInv, Control
<1>3. QED BY <1>1, <1>2 DEF DiskInv

-----------------------------------------------------------------------------
(* The steps of the writing.                                               *)
LEMMA WritingSurvivors ==
  ASSUME IInv, NEW i \in DOMAIN entry, AddData(i)
  PROVE  Survivors' = Survivors
<1> DEFINE old == entry[i]
           ze == [old EXCEPT !.source.reads = IF @ = 0 THEN 1 ELSE 2]
<1>1. CASE entry' = entry
  BY <1>1 DEF Survivors
<1>2. CASE entry' = [entry EXCEPT ![i] = ze]
  <2>1. entry \in Seq(Entry) /\ old \in Entry
    BY EntriesAreSeq DEF IInv
  <2>2. ze.state = old.state
    BY <2>1 DEF Entry
  <2> HIDE DEF ze
  <2>3. DOMAIN entry' = DOMAIN entry
        /\ \A k \in DOMAIN entry : entry'[k].state = entry[k].state
    BY <1>2, <2>2
  <2>4. QED BY <2>3 DEF Survivors
<1>3. QED BY <1>1, <1>2 DEF AddData

(* A file that is written with its local header and an entry of its own.   *)
LEMMA OneMoreFile ==
  ASSUME DiskInv, NEW de, IsDirent(de), de.offset = Len(out), NEW units,
         IsFile(units), de.comp_size = Len(units), pc = "writing",
         out' = Behind(out, Local(de), units), cd' = Append(cd, de),
         UNCHANGED <<disk, pc, zp, cdir, ch_comment>>,
         damaged' \in {damaged, TRUE}, Survivors' = Survivors
  PROVE  DiskInv' /\ StaysUndamaged
<1>1. ASSUME AllKept(out, cd) PROVE AllKept(out', cd')
  <2>1. AllKept(Behind(out, Local(de), units), Append(cd, de))
    BY <1>1, OneMoreKept
  <2>2. QED BY <2>1
<1>2. Undamaged => Undamaged'
  BY <1>1 DEF Undamaged, CdirRead
<1>3. QED BY <1>2 DEF DiskInv, StaysUndamaged

(* The name under which a file is written is the one the handle shows.     *)
LEMMA NameWritten ==
  ASSUME IInv, NEW i \in Survivors, i \notin Ghosts,
         cdir = NULL \/ \A de \in ToSet(cdir.entry) : IsDirent(de)
  PROVE  /\ FileName(i) \in Nat
         /\ FileName(i) = IF GetName(entry, i) = NULL THEN Dash
                          ELSE GetName(entry, i)
<1>1. /\ i \in DOMAIN entry /\ entry[i].state # "DELETED"
      /\ i > Nentry => entry[i].state # "UNCHANGED"
  BY DEF Survivors, Ghosts
<1>2. /\ entry[i] \in Entry /\ EntryFits(entry[i], i, Nentry)
      /\ i \in Nat /\ i >= 1 /\ Nentry \in Nat
  BY <1>1, EntriesAreSeq, NentryIsSize DEF IInv, Entries
<1>3. CASE i <= Nentry
  <2>1. cdir # NULL /\ i \in 1 .. Nentry
    BY <1>2, <1>3 DEF Nentry
  <2>2. DOMAIN cdir.entry = 1 .. Nentry
    BY <2>1 DEF IInv, Entries, IsDirectory, Nentry
  <2>3. cdir.entry[i] \in ToSet(cdir.entry)
    BY <2>1, <2>2 DEF ToSet
  <2>4. cdir.entry[i].name \in Nat
    BY <2>1, <2>3 DEF IsDirent
  <2>5. CdirName(i) \in Nat /\ entry[i].state # "ADDED"
    BY <1>2, <1>3, <2>4 DEF CdirName, EntryFits
  <2>6. QED
    BY <1>1, <1>2, <2>5, NameAssumption DEF FileName, GetName, Entry
<1>4. CASE i > Nentry
  <2>1. CdirName(i) = NULL
    BY <1>2, <1>4 DEF CdirName
  <2>2. entry[i].state = "ADDED"
    BY <1>1, <1>2, <1>4 DEF Entry, State, EntryFits
  <2>3. QED
    BY <1>1, <1>2, <2>1, <2>2, NameAssumption
    DEF FileName, GetName, Entry, Dash
<1>5. QED BY <1>2, <1>3, <1>4

(* What add_data writes.                                                   *)
LEMMA AddDataWrites ==
  ASSUME IInv, DiskInv, Undamaged, NEW i \in Survivors, AddData(i)
  PROVE  \E de, units :
           /\ out' = Behind(out, Local(de), units) /\ cd' = Append(cd, de)
           /\ IsDirent(de) /\ de.offset = Len(out)
           /\ IsFile(units) /\ de.comp_size = Len(units)
           /\ de.name = FileName(i) /\ de.method = "deflate"
           /\ de.sum = Data(i) /\ de.comment = NewComment(i, <<>>)
           /\ \/ units = <<Deflated(Data(i))>>
              \/ /\ units = <<>> /\ DataChanged(i)
                 /\ entry[i].source.raw /\ entry[i].source.reads > 0
<1> DEFINE source == IF DataChanged(i) THEN entry[i].source
                     ELSE SourceFunction(FALSE, FileData(zp, cdir.entry[i]))
           units == IF source.raw THEN AddDataComp(source)
                                  ELSE AddDataUncomp(source)
           de == Dirent(FileName(i), "deflate", source.data, Len(units),
                        Len(source.data), NewComment(i, <<>>), Len(out))
<1>1. /\ pc = "writing"
      /\ out' = out \o <<Local(de)>> \o units /\ cd' = Append(cd, de)
  BY DEF AddData, NextFile
<1>2. source.data = Data(i)
  BY DEF Data, SourceFunction
<1>3. source.raw => DataChanged(i) /\ source = entry[i].source
  BY DEF SourceFunction
<1>4. \/ units = <<Deflated(Data(i))>>
      \/ /\ units = <<>> /\ DataChanged(i)
         /\ entry[i].source.raw /\ entry[i].source.reads > 0
  BY <1>2, <1>3 DEF AddDataComp, AddDataUncomp
<1> HIDE DEF source, units
<1>5. IsFile(units) /\ Len(units) \in Nat
  <2>1. CASE units = <<>>
    BY <2>1, NoUnit
  <2>2. CASE units = <<Deflated(Data(i))>>
    <3> DEFINE unit == Deflated(Data(i))
    <3>1. IsUnit(unit)
      BY DEF IsUnit, Deflated, Piece
    <3> HIDE DEF unit
    <3>2. IsFile(<<unit>>) /\ Len(<<unit>>) = 1
      BY <3>1, OneUnit
    <3>3. QED BY <2>2, <3>2 DEF unit
  <2>3. QED BY <1>4, <2>1, <2>2
<1>6. Len(out) \in Nat
  BY <1>1, FileUnits DEF Undamaged, AllKept
<1>7. FileName(i) \in Nat
  <2>1. i \notin Ghosts
    BY DEF AddData, Ghosts, DataChanged
  <2>2. QED BY <2>1, NameWritten DEF Undamaged, CdirRead
<1>8. /\ IsDirent(de) /\ de.offset = Len(out) /\ de.comp_size = Len(units)
      /\ de.name = FileName(i) /\ de.method = "deflate"
      /\ de.sum = Data(i) /\ de.comment = NewComment(i, <<>>)
  BY <1>2, <1>5, <1>6, <1>7 DEF IsDirent, Dirent
<1>9. out' = Behind(out, Local(de), units)
  BY <1>1 DEF Behind
<1> HIDE DEF de
<1>10. QED BY <1>1, <1>4, <1>5, <1>8, <1>9

LEMMA AddDataDisk ==
  ASSUME IInv, DiskInv, NEW i \in Survivors, AddData(i)
  PROVE  DiskInv' /\ StaysUndamaged
<1>1. /\ pc = "writing"
      /\ UNCHANGED <<disk, pc, zp, cdir, ch_comment, damaged>>
  BY DEF AddData, NextFile
<1>2. Survivors' = Survivors
  BY WritingSurvivors DEF Survivors
<1>3. CASE ~ Undamaged
  <2>1. damaged /\ damaged' = damaged
    BY <1>1, <1>3 DEF DiskInv
  <2>2. QED BY <1>1, <1>2, <1>3, <2>1 DEF DiskInv, StaysUndamaged
<1>4. CASE Undamaged
  <2>1. PICK de, units :
          /\ out' = Behind(out, Local(de), units) /\ cd' = Append(cd, de)
          /\ IsDirent(de) /\ de.offset = Len(out)
          /\ IsFile(units) /\ de.comp_size = Len(units)
    BY <1>4, AddDataWrites
  <2>2. QED BY <1>1, <1>2, <2>1, OneMoreFile
<1>5. QED BY <1>3, <1>4

(* An entry that is copied is one of the directory, of which the disk has  *)
(* the local header.                                                       *)
LEMMA CopiedFromCdir ==
  ASSUME IInv, NEW i \in Survivors, CopyData(i)
  PROVE  i \in 1 .. Nentry /\ cdir # NULL /\ cdir.entry[i] \in ToSet(cdir.entry)
         /\ (entry[i].ch_filename = NULL => FileName(i) = cdir.entry[i].name)
<1>1. i \in DOMAIN entry /\ entry[i].state # "DELETED"
  BY DEF Survivors
<1>2. /\ entry[i] \in Entry /\ EntryFits(entry[i], i, Size(cdir))
      /\ i \in Nat /\ i >= 1 /\ Size(cdir) \in Nat
  BY <1>1, EntriesAreSeq DEF IInv, Entries
<1>3. ~ DataChanged(i) /\ i \notin Ghosts
  BY DEF CopyData
<1>4. entry[i].state \in {"UNCHANGED", "RENAMED"}
  BY <1>1, <1>2, <1>3 DEF Entry, State, DataChanged
<1>5. i <= Nentry
  BY <1>1, <1>2, <1>3, <1>4, NentryIsSize DEF EntryFits, Ghosts
<1>6. i \in 1 .. Nentry /\ cdir # NULL
  BY <1>2, <1>5, NentryIsSize DEF Size
<1>7. DOMAIN cdir.entry = 1 .. Nentry
  BY <1>6 DEF IInv, Entries, IsDirectory, Nentry
<1>8. cdir.entry[i] \in ToSet(cdir.entry)
  BY <1>6, <1>7 DEF ToSet
<1>9. entry[i].ch_filename = NULL => FileName(i) = cdir.entry[i].name
  BY <1>3, <1>5 DEF FileName, DataChanged, CdirName
<1>10. QED BY <1>6, <1>8, <1>9

(* What copy_data writes.                                                  *)
LEMMA CopyDataWrites ==
  ASSUME IInv, DiskInv, Undamaged, NEW i \in Survivors, CopyData(i)
  PROVE  LET old == cdir.entry[i]
         IN \E de, units :
              /\ out' = Behind(out, Local(de), units) /\ cd' = Append(cd, de)
              /\ IsDirent(de) /\ de.offset = Len(out)
              /\ IsFile(units) /\ de.comp_size = Len(units)
              /\ de.name = FileName(i)
              /\ de.comment = NewComment(i, old.comment)
              /\ de.method = old.method /\ de.sum = old.sum
              /\ de.comp_size = old.comp_size
              /\ zp # NULL /\ IsFile(zp) /\ Kept(zp, old)
              /\ units = ReadAt(zp, old.offset + LENTRYSIZE, old.comp_size)
<1> DEFINE old == cdir.entry[i]
           data == ReadAt(zp, old.offset + LENTRYSIZE, old.comp_size)
           header == zp[old.offset + 1]
           head == IF entry[i].ch_filename = NULL THEN header
                   ELSE [header EXCEPT !.name = FileName(i)]
           de == CopiedEntry(i)
<1>1. /\ pc = "writing" /\ HasMagic(zp, old.offset, "PK34") /\ data # NULL
      /\ out' = out \o <<head>> \o data /\ cd' = Append(cd, de)
  BY DEF CopyData, NextFile
<1>2. /\ cdir # NULL /\ old \in ToSet(cdir.entry)
      /\ (entry[i].ch_filename = NULL => FileName(i) = old.name)
  BY CopiedFromCdir
<1>3. CdirRead /\ IsFile(disk) /\ IsDirent(old) /\ Consistent(disk, cdir, old)
  BY <1>2 DEF Undamaged, CdirRead, Agrees
<1>4. zp = disk /\ zp # NULL /\ old.offset + 1 \in DOMAIN zp
  BY <1>1 DEF DiskInv, HasMagic
<1>5. /\ old.offset \in Nat /\ old.comp_size \in Nat /\ Len(zp) \in Nat
      /\ DOMAIN zp = 1 .. Len(zp)
  BY <1>3, <1>4, FileUnits DEF IsDirent
<1>6. header = Local(old)
  <2>1. ReadAt(zp, old.offset, LENTRYSIZE) = <<Local(old)>>
    BY <1>3, <1>4 DEF Consistent
  <2>2. ReadAt(zp, old.offset, LENTRYSIZE) = <<header>>
    BY <1>3, <1>4, <1>5, ReadUnit
  <2> HIDE DEF header, old
  <2>3. <<header>>[1] = <<Local(old)>>[1]
    BY <2>1, <2>2
  <2>4. QED BY <2>3
<1>7. /\ IsFile(data) /\ Len(data) = old.comp_size
      /\ old.offset + old.comp_size + LENTRYSIZE <= Len(zp)
  <2>1. PICK at \in Nat, size \in Nat : at = old.offset /\ size = old.comp_size
    BY <1>5
  <2>2. data = ReadAt(zp, at + 1, size) /\ data # NULL
    BY <1>1, <2>1 DEF LENTRYSIZE
  <2> HIDE DEF data, old
  <2>3. at + 1 \in Nat /\ at + 1 + size <= Len(zp)
    BY <2>2 DEF ReadAt
  <2>4. IsFile(data) /\ Len(data) = size
    BY <1>3, <1>4, <2>2, <2>3, FileRead
  <2>5. old.offset + old.comp_size + LENTRYSIZE <= Len(zp)
    BY <1>5, <2>1, <2>3 DEF LENTRYSIZE
  <2>6. QED BY <2>1, <2>4, <2>5
<1>8. IsFile(out) /\ Len(out) \in Nat
  BY <1>1, FileUnits DEF Undamaged, AllKept
<1>9. de = Dirent(FileName(i), old.method, old.sum, old.comp_size,
                  old.uncomp_size, NewComment(i, old.comment), Len(out))
  <2>1. old = Dirent(old.name, old.method, old.sum, old.comp_size,
                     old.uncomp_size, old.comment, old.offset)
    BY <1>3 DEF IsDirent
  <2> DEFINE name == FileName(i)
             comment == NewComment(i, old.comment)
  <2>2. de = [old EXCEPT !.name = name, !.comment = comment,
                         !.offset = Len(out)]
    BY DEF CopiedEntry
  <2> HIDE DEF name, comment, old, de
  <2>3. de = Dirent(name, old.method, old.sum, old.comp_size,
                    old.uncomp_size, comment, Len(out))
    BY <2>1, <2>2 DEF Dirent
  <2>4. QED BY <2>3 DEF name, comment
<1> HIDE DEF de
<1>10. /\ IsDirent(de) /\ de.offset = Len(out) /\ de.comp_size = old.comp_size
  <2>1. FileName(i) \in Nat
    BY <1>3, NameWritten DEF CopyData, CdirRead
  <2>2. QED BY <1>5, <1>8, <1>9, <2>1 DEF IsDirent, Dirent
<1>11. head = Local(de)
  <2>1. Local(de) = [Local(old) EXCEPT !.name = FileName(i)]
    BY <1>9 DEF Local, Dirent
  <2>2. FileName(i) = old.name => Local(de) = Local(old)
    BY <1>9 DEF Local, Dirent
  <2>3. QED BY <1>2, <1>6, <2>1, <2>2
<1> HIDE DEF head, data
<1>12. out' = Behind(out, Local(de), data)
  BY <1>1, <1>11 DEF Behind
<1>13. de.comp_size = Len(data)
  BY <1>7, <1>10
<1>14. /\ de.name = FileName(i) /\ de.comment = NewComment(i, old.comment)
       /\ de.method = old.method /\ de.sum = old.sum
  BY <1>9 DEF Dirent
<1>15. zp # NULL /\ IsFile(zp) /\ Kept(zp, old)
  BY <1>3, <1>4, <1>6, <1>7 DEF Kept
<1>16. data = ReadAt(zp, old.offset + LENTRYSIZE, old.comp_size)
  BY DEF data
<1> HIDE DEF old
<1>17. QED BY <1>1, <1>7, <1>10, <1>12, <1>13, <1>14, <1>15, <1>16 DEF old

LEMMA CopyDataDisk ==
  ASSUME IInv, DiskInv, NEW i \in Survivors, CopyData(i)
  PROVE  DiskInv' /\ StaysUndamaged
<1>1. /\ pc = "writing"
      /\ UNCHANGED <<disk, pc, zp, cdir, ch_comment, damaged, entry>>
  BY DEF CopyData, NextFile
<1>2. Survivors' = Survivors
  BY <1>1 DEF Survivors
<1>3. CASE ~ Undamaged
  <2>1. damaged /\ damaged' = damaged
    BY <1>1, <1>3 DEF DiskInv
  <2>2. QED BY <1>1, <1>2, <1>3, <2>1 DEF DiskInv, StaysUndamaged
<1>4. CASE Undamaged
  <2>1. PICK de, units :
          /\ out' = Behind(out, Local(de), units) /\ cd' = Append(cd, de)
          /\ IsDirent(de) /\ de.offset = Len(out)
          /\ IsFile(units) /\ de.comp_size = Len(units)
    BY <1>4, CopyDataWrites
  <2>2. QED BY <1>1, <1>2, <2>1, OneMoreFile
<1>5. QED BY <1>3, <1>4

LEMMA GhostWrites ==
  ASSUME Undamaged, NEW i, CopyGhost(i)
  PROVE  \E de :
           /\ out' = Behind(out, Local(de), <<>>) /\ cd' = Append(cd, de)
           /\ IsDirent(de) /\ de.offset = Len(out) /\ de.comp_size = 0
<1> DEFINE de == Dirent(Garbage, "store", <<>>, 0, 0, <<>>, Len(out))
           unit == Local(de)
<1>1. /\ pc = "writing"
      /\ out' = Append(out, unit) /\ cd' = Append(cd, de)
  BY DEF CopyGhost, NextFile
<1>2. IsFile(out) /\ Len(out) \in Nat
  BY <1>1, FileUnits DEF Undamaged, AllKept
<1>3. /\ IsDirent(de) /\ de.offset = Len(out) /\ de.comp_size = 0
      /\ IsUnit(unit)
  BY <1>2 DEF IsDirent, Dirent, Garbage, IsUnit, Local
<1> HIDE DEF de, unit
<1>4. out' = Behind(out, unit, <<>>)
  <2>1. IsFile(out \o <<unit>>)
    BY <1>2, <1>3, OneUnit, FileConcat
  <2>2. out \o <<unit>> \in Seq(ToSet(out \o <<unit>>))
    BY <2>1 DEF IsFile
  <2>3. Append(out, unit) = out \o <<unit>>
    <3>1. out \in Seq(ToSet(out) \cup {unit})
      BY <1>2 DEF IsFile
    <3>2. QED BY <3>1, AppendIsConcat
  <2>4. out \o <<unit>> = out \o <<unit>> \o <<>>
    BY <2>2
  <2>5. QED BY <1>1, <2>3, <2>4 DEF Behind
<1>5. QED BY <1>1, <1>3, <1>4 DEF unit

LEMMA GhostDisk ==
  ASSUME DiskInv, NEW i, CopyGhost(i)
  PROVE  DiskInv' /\ StaysUndamaged
<1>1. /\ pc = "writing" /\ damaged' = TRUE
      /\ UNCHANGED <<disk, pc, zp, cdir, ch_comment, entry>>
  BY DEF CopyGhost, NextFile
<1>2. Survivors' = Survivors
  BY <1>1 DEF Survivors
<1>3. CASE ~ Undamaged
  BY <1>1, <1>2, <1>3 DEF DiskInv, StaysUndamaged
<1>4. CASE Undamaged
  <2>1. PICK de :
          /\ out' = Behind(out, Local(de), <<>>) /\ cd' = Append(cd, de)
          /\ IsDirent(de) /\ de.offset = Len(out) /\ de.comp_size = 0
    BY <1>4, GhostWrites
  <2>2. IsFile(<<>>) /\ de.comp_size = Len(<<>>)
    BY <2>1, NoUnit
  <2>3. QED BY <1>1, <1>2, <2>1, <2>2, OneMoreFile
<1>5. QED BY <1>3, <1>4

LEMMA NewCommentIsFile ==
  ASSUME DiskInv, Undamaged PROVE IsFile(NewArchiveComment)
<1>1. CASE ch_flags
  <2> DEFINE unit == Torrentzipped(FilerangeCrc(CdirWrite(out, cd, <<>>),
                                                Len(out), Len(cd)))
  <2>1. IsUnit(unit)
    BY DEF IsUnit, Torrentzipped
  <2>2. NewArchiveComment = <<unit>>
    BY <1>1 DEF NewArchiveComment
  <2> HIDE DEF unit
  <2>3. IsFile(<<unit>>)
    BY <2>1, OneUnit
  <2>4. QED BY <2>2, <2>3
<1>2. CASE ~ ch_flags
  <2>1. \/ NewArchiveComment = <<>>
        \/ ch_comment # NULL /\ NewArchiveComment = ch_comment
        \/ cdir # NULL /\ NewArchiveComment = cdir.comment
    BY <1>2 DEF NewArchiveComment
  <2>2. QED BY <2>1, NoUnit, CommentIsFile DEF DiskInv, Undamaged, CdirRead
<1>3. QED BY <1>1, <1>2

LEMMA WriteEnds ==
  ASSUME IInv, DiskInv, Undamaged, WriteCdir
  PROVE  LET c == Len(NewArchiveComment) % Wide
         IN /\ Len(cd) > 0 /\ EndsWith(out', out, cd, c)
            /\ \A k \in 1 .. c :
                 out'[Len(out) + Len(cd) + 1 + k] = NewArchiveComment[k]
<1> DEFINE comment == NewArchiveComment
           c == Len(comment) % Wide
<1>1. /\ pc = "writing" /\ Len(cd) = Cardinality(Survivors)
      /\ out' = CdirWrite(out, cd, comment)
  BY DEF WriteCdir
<1>2. IsFile(out) /\ cd \in Seq(ToSet(cd))
      /\ \A k \in 1 .. Len(cd) : IsDirent(cd[k])
  BY <1>1 DEF Undamaged, AllKept, Kept
<1>3. IsFile(comment)
  BY NewCommentIsFile
<1>4. Len(cd) > 0
  <2>1. Survivors # {} /\ Survivors \in SUBSET (1 .. Len(entry))
        /\ Len(entry) \in Nat
    BY <1>1, EntriesAreSeq DEF DiskInv, IInv, Survivors
  <2>2. IsFiniteSet(Survivors)
    <3>1. IsFiniteSet(1 .. Len(entry))
      BY <2>1, FS_Interval
    <3>2. QED BY <2>1, <3>1, FS_Subset
  <2>3. Cardinality(Survivors) # 0
    BY <2>1, <2>2, FS_EmptySet
  <2>4. Len(cd) \in Nat
    BY <1>2, LenProperties
  <2>5. QED BY <1>1, <2>3, <2>4
<1> HIDE DEF comment
<1>5. /\ EndsWith(CdirWrite(out, cd, comment), out, cd, c)
      /\ \A k \in 1 .. c :
           CdirWrite(out, cd, comment)[Len(out) + Len(cd) + 1 + k] = comment[k]
  BY <1>2, <1>3, CdirWriteEnds
<1>6. QED BY <1>1, <1>4, <1>5 DEF comment

LEMMA WriteDisk ==
  ASSUME IInv, DiskInv, WriteCdir PROVE DiskInv' /\ StaysUndamaged
<1>1. /\ UNCHANGED <<disk, zp, cdir, ch_comment, entry, damaged, cd>>
      /\ pc = "writing" /\ pc' = "written"
  BY DEF WriteCdir, handle
<1>2. ASSUME Undamaged, out' # NULL PROVE Sound(out')
  <2> DEFINE c == Len(NewArchiveComment) % Wide
  <2>1. IsFile(out) /\ cd \in Seq(ToSet(cd))
        /\ \A k \in 1 .. Len(cd) : Kept(out, cd[k])
    BY <1>1, <1>2 DEF Undamaged, AllKept
  <2>2. Len(cd) > 0 /\ EndsWith(out', out, cd, c)
    BY <1>2, WriteEnds
  <2> HIDE DEF c
  <2>3. HasCdir(out', TRUE)
    BY <1>2, <2>1, <2>2, WrittenOpens
  <2>4. QED BY <2>2, <2>3 DEF Sound, EndsWith
<1>3. Undamaged => Undamaged'
  BY <1>1, <1>2 DEF Undamaged, CdirRead
<1>4. QED BY <1>1, <1>3 DEF DiskInv, StaysUndamaged

LEMMA NextDisk ==
  IInv /\ DiskInv /\ [Next]_vars => DiskInv' /\ (StaysUndamaged \/ Cut)
<1> SUFFICES ASSUME IInv, DiskInv, [Next]_vars
             PROVE  DiskInv' /\ (StaysUndamaged \/ Cut)
  OBVIOUS
<1>1. CASE UNCHANGED vars
  <2>1. UNCHANGED <<disk, pc, zp, cdir, out, cd, damaged, ch_comment, entry>>
    BY <1>1 DEF vars, handle
  <2>2. Survivors' = Survivors
    BY <2>1 DEF Survivors
  <2>3. QED BY <2>1, <2>2, SameDisk
<1>2. ASSUME NEW check \in BOOLEAN, Open(check)
      PROVE  DiskInv' /\ StaysUndamaged
  BY <1>2, OpenDisk
<1>3. ASSUME NEW torrent \in BOOLEAN, SetArchiveFlag(torrent)
      PROVE  DiskInv' /\ StaysUndamaged
  BY <1>3, EditDisk DEF SetArchiveFlag
<1>4. ASSUME NEW name, NEW source, Add(name, source)
      PROVE  DiskInv' /\ StaysUndamaged
  BY <1>4, EditDisk DEF Add
<1>5. ASSUME NEW name \in Name, AddDir(name)
      PROVE  DiskInv' /\ StaysUndamaged
  BY <1>4, <1>5 DEF AddDir
<1>6. ASSUME NEW comment \in Comment, SetArchiveComment(comment)
      PROVE  DiskInv' /\ StaysUndamaged
  BY <1>6, EditDisk DEF SetArchiveComment
<1>7. CASE UnchangeArchive \/ UnchangeAll
  BY <1>7, EditDisk DEF UnchangeArchive, UnchangeAll
<1>8. ASSUME NEW i \in DOMAIN entry, NEW source \in Source, Replace(i, source)
      PROVE  DiskInv' /\ StaysUndamaged
  BY <1>8, EditDisk DEF Replace
<1>9. ASSUME NEW i \in DOMAIN entry, NEW name \in Name, Rename(i, name)
      PROVE  DiskInv' /\ StaysUndamaged
  BY <1>9, EditDisk DEF Rename
<1>10. ASSUME NEW i \in DOMAIN entry, NEW comment \in Comment,
              SetFileComment(i, comment)
       PROVE  DiskInv' /\ StaysUndamaged
  BY <1>10, EditDisk DEF SetFileComment
<1>11. ASSUME NEW i \in DOMAIN entry, Delete(i) \/ Unchange(i)
      PROVE  DiskInv' /\ StaysUndamaged
  BY <1>11, EditDisk DEF Delete, Unchange
<1>12. ASSUME NEW i \in Survivors, AddData(i) \/ CopyData(i) \/ CopyGhost(i)
       PROVE  DiskInv' /\ StaysUndamaged
  <2>1. i \in DOMAIN entry
    BY DEF Survivors
  <2>2. QED BY <1>12, <2>1, AddDataDisk, CopyDataDisk, GhostDisk
<1>13. CASE CloseUnchanged \/ CloseEmpty \/ CloseEnd \/ Killed
  <2>1. /\ Freed /\ damaged' = damaged
        /\ disk' \in {disk, NULL} \/ (pc = "written" /\ disk' = out)
    BY <1>13 DEF CloseUnchanged, CloseEmpty, CloseEnd, Killed
  <2>2. QED BY <2>1, FreedDisk
<1>14. CASE CloseBegin \/ WriteCdir \/ CloseFails \/ Cut
  BY <1>14, BeginDisk, WriteDisk, FailsDisk, CutDisk
<1>15. CASE CloseEmptyFails
  <2>1. UNCHANGED <<disk, pc, zp, cdir, out, cd, damaged, ch_comment, entry>>
    BY <1>15 DEF CloseEmptyFails, handle
  <2>2. Survivors' = Survivors
    BY <2>1 DEF Survivors
  <2>3. QED BY <2>1, <2>2, SameDisk
<1>16. QED
  BY <1>1, <1>2, <1>3, <1>4, <1>5, <1>6, <1>7, <1>8, <1>9, <1>10, <1>11, <1>12,
     <1>13, <1>14, <1>15
  DEF Next

(* Whichever step of zip_close fails and whenever the program is killed,   *)
(* the file opens afterwards, and its directory agrees with the local      *)
(* headers; whatever data and comments look like, for of the directories   *)
(* that could be meant one that agrees is taken.                           *)
THEOREM DiskStaysOpen == Spec => []DiskOpens
<1>1. DiskInv => DiskOpens
  BY DEF DiskInv, Undamaged, Sound, DiskOpens
<1>2. Init => IInv /\ DiskInv
  BY InitIInv, DiskInit
<1>3. IInv /\ DiskInv /\ [Next]_vars => (IInv /\ DiskInv)'
  BY NextIInv, NextDisk
<1>4. QED BY <1>1, <1>2, <1>3, PTL DEF Spec

(***************************************************************************)
(* What zip_close has saved is what the handle showed.                     *)
(***************************************************************************)

LEMMA SameFile ==
  ASSUME NEW f, IsFile(f), NEW g, IsFile(g), Len(f) = Len(g),
         \A k \in 1 .. Len(f) : f[k] = g[k]
  PROVE  f = g
<1>1. /\ f \in Seq(ToSet(f)) /\ Len(f) \in Nat /\ DOMAIN f = 1 .. Len(f)
      /\ g \in Seq(ToSet(g)) /\ DOMAIN g = 1 .. Len(g)
  BY FileUnits
<1>2. f \in [1 .. Len(f) -> ToSet(f)] /\ g \in [1 .. Len(f) -> ToSet(g)]
  BY <1>1, LenProperties
<1>3. f = [k \in 1 .. Len(f) |-> f[k]] /\ g = [k \in 1 .. Len(f) |-> g[k]]
  BY <1>2
<1>4. [k \in 1 .. Len(f) |-> f[k]] = [k \in 1 .. Len(f) |-> g[k]]
  OBVIOUS
<1>5. QED BY <1>3, <1>4, Zenon

(* The len units behind at are those behind to in another file.            *)
Alike(f, at, g, to, len) == \A k \in 1 .. len : f[at + k] = g[to + k]

LEMMA ReadSame ==
  ASSUME NEW f, f # NULL, IsFile(f), NEW g, g # NULL, IsFile(g),
         NEW at \in Nat, NEW to \in Nat, NEW len \in Nat,
         at + len <= Len(f), to + len <= Len(g),
         Alike(f, at, g, to, len)
  PROVE  ReadAt(f, at, len) = ReadAt(g, to, len)
<1> DEFINE p == ReadAt(f, at, len)
           q == ReadAt(g, to, len)
<1>1. IsFile(p) /\ Len(p) = len /\ \A k \in 1 .. len : p[k] = f[at + k]
  BY FileRead
<1>2. IsFile(q) /\ Len(q) = len /\ \A k \in 1 .. len : q[k] = g[to + k]
  BY FileRead
<1> HIDE DEF p, q
<1>3. \A k \in 1 .. Len(p) : p[k] = q[k]
  BY <1>1, <1>2 DEF Alike
<1>4. p = q
  BY <1>1, <1>2, <1>3, SameFile
<1>5. QED BY <1>4 DEF p, q

(* A file has the same data where its units are the same.                  *)
LEMMA DataSame ==
  ASSUME NEW f, f # NULL, IsFile(f), NEW de, Kept(f, de),
         NEW g, g # NULL, IsFile(g), NEW new, Kept(g, new),
         new.method = de.method, new.sum = de.sum,
         new.comp_size = de.comp_size,
         Alike(f, de.offset + LENTRYSIZE, g, new.offset + LENTRYSIZE,
               de.comp_size)
  PROVE  FileData(f, de) = FileData(g, new)
<1>1. PICK at \in Nat, to \in Nat, len \in Nat :
        at = de.offset /\ to = new.offset /\ len = de.comp_size
  BY DEF Kept, IsDirent
<1>2. /\ at + 1 + len <= Len(f) /\ f[at + 1] = Local(de)
      /\ to + 1 + len <= Len(g) /\ g[to + 1] = Local(new)
      /\ Alike(f, at + 1, g, to + 1, len)
  <2>1. /\ at + 1 + len = at + len + LENTRYSIZE
        /\ to + 1 + len = to + len + LENTRYSIZE
        /\ at + LENTRYSIZE = at + 1 /\ to + LENTRYSIZE = to + 1
    BY DEF LENTRYSIZE
  <2>2. QED BY <1>1, <2>1 DEF Kept
<1>3. ReadAt(f, at + 1, len) = ReadAt(g, to + 1, len)
  <2> DEFINE m == at + 1
             n == to + 1
  <2>1. /\ m \in Nat /\ n \in Nat /\ m + len <= Len(f) /\ n + len <= Len(g)
        /\ Alike(f, m, g, n, len)
    BY <1>2
  <2> HIDE DEF m, n
  <2>2. ReadAt(f, m, len) = ReadAt(g, n, len)
    BY <2>1, ReadSame
  <2>3. QED BY <2>2 DEF m, n
<1>4. HasMagic(f, de.offset, "PK34") /\ HasMagic(g, new.offset, "PK34")
  <2>1. DOMAIN f = 1 .. Len(f) /\ DOMAIN g = 1 .. Len(g)
        /\ Len(f) \in Nat /\ Len(g) \in Nat
    BY FileUnits
  <2>2. at + 1 \in DOMAIN f /\ to + 1 \in DOMAIN g
    BY <1>2, <2>1
  <2>3. f[at + 1].magic = "PK34" /\ g[to + 1].magic = "PK34"
    BY <1>2 DEF Local
  <2>4. QED BY <1>1, <2>2, <2>3 DEF HasMagic
<1>5. /\ ReadAt(f, de.offset + LENTRYSIZE, de.comp_size)
           = ReadAt(f, at + 1, len)
      /\ ReadAt(g, new.offset + LENTRYSIZE, new.comp_size)
           = ReadAt(g, to + 1, len)
  BY <1>1 DEF LENTRYSIZE
<1>6. QED BY <1>3, <1>4, <1>5 DEF FileData

(* Data that were compressed anew are read as they were.                   *)
LEMMA FlattenOne == ASSUME NEW x PROVE FlattenSeq(<<x>>) = x
<1> DEFINE s == <<x>>
           h == [i \in 1 .. 1 |-> x]
           f == CHOOSE f : Unrolled(s, f)
<1>1. Len(s) = 1 /\ s[1] = x
  OBVIOUS
<1> HIDE DEF s
<1>2. Unrolled(s, h)
  BY <1>1 DEF Unrolled
<1>3. Unrolled(s, f)
  BY <1>2
<1> HIDE DEF f
<1>4. f[1] = x
  BY <1>1, <1>3 DEF Unrolled
<1>5. FlattenSeq(s) = f[1]
  BY <1>1, FlattenChoose DEF f
<1>6. QED BY <1>4, <1>5 DEF s

LEMMA InflatedOne ==
  ASSUME ~ IsFile(NULL), NEW data
  PROVE  Inflate("deflate", <<Deflated(data)>>) = data
<1> DEFINE unit == Deflated(data)
           s == <<unit>>
<1>1. /\ unit.deflated = data /\ unit.last = TRUE /\ "deflated" \in DOMAIN unit
      /\ IsUnit(unit)
  BY DEF Deflated, Piece, IsUnit
<1> HIDE DEF unit
<1>2. Len(s) = 1 /\ s[1] = unit /\ DOMAIN s = {1} /\ s # <<>>
  OBVIOUS
<1>7. s # NULL
  BY <1>1, OneUnit
<1> HIDE DEF s
<1>3. IsStream(s)
  BY <1>1, <1>2 DEF IsStream, IsPiece
<1>4. [k \in DOMAIN s |-> s[k].deflated] = <<data>>
  <2>1. [k \in DOMAIN s |-> s[k].deflated] = [k \in {1} |-> data]
    BY <1>1, <1>2
  <2>2. [k \in {1} |-> data] = <<data>>
    OBVIOUS
  <2>3. QED BY <2>1, <2>2
<1>5. Inflated(s) = data
  BY <1>4, FlattenOne DEF Inflated
<1>6. QED BY <1>3, <1>5, <1>7 DEF Inflate, s, unit

-----------------------------------------------------------------------------
(* add_data changes nothing of an entry but that it has been read.         *)
SameShown(e, f) ==
  /\ DOMAIN f = DOMAIN e
  /\ \A k \in DOMAIN e :
       /\ f[k].state = e[k].state /\ f[k].ch_filename = e[k].ch_filename
       /\ f[k].ch_comment = e[k].ch_comment
       /\ f[k].source.data = e[k].source.data
       /\ e[k].source.reads = 2 => f[k].source.reads = 2

LEMMA AddDataShows ==
  ASSUME IInv, NEW i \in DOMAIN entry, AddData(i)
  PROVE  /\ SameShown(entry, entry')
         /\ DataChanged(i) /\ entry[i].source.raw /\ entry[i].source.reads > 0
              => entry'[i].source.reads = 2
<1> DEFINE old == entry[i]
           ze == [old EXCEPT !.source.reads = IF @ = 0 THEN 1 ELSE 2]
<1>1. IF DataChanged(i) /\ old.source.raw THEN entry' = [entry EXCEPT ![i] = ze]
                                         ELSE entry' = entry
  BY DEF AddData
<1>2. CASE entry' = entry /\ ~ (DataChanged(i) /\ old.source.raw)
  BY <1>2 DEF SameShown
<1>3. CASE DataChanged(i) /\ old.source.raw /\ entry' = [entry EXCEPT ![i] = ze]
  <2>1. old \in Entry /\ EntryFits(old, i, Size(cdir))
    BY EntriesAreSeq DEF IInv, Entries
  <2>2. old.source \in AnySource
    BY <1>3, <2>1 DEF DataChanged, EntryFits, Entry
  <2>3. /\ ze.state = old.state /\ ze.ch_filename = old.ch_filename
        /\ ze.ch_comment = old.ch_comment
        /\ ze.source.data = old.source.data
        /\ ze.source.reads = IF old.source.reads = 0 THEN 1 ELSE 2
    BY <2>1, <2>2 DEF Entry, AnySource
  <2> HIDE DEF ze
  <2>4. /\ DOMAIN entry' = DOMAIN entry /\ entry'[i] = ze
        /\ \A k \in DOMAIN entry : k # i => entry'[k] = entry[k]
    BY <1>3
  <2>5. SameShown(entry, entry')
    BY <2>3, <2>4 DEF SameShown
  <2>6. old.source.reads > 0 => entry'[i].source.reads = 2
    BY <2>2, <2>3, <2>4 DEF AnySource
  <2>7. QED BY <2>5, <2>6
<1>4. QED BY <1>1, <1>2, <1>3

(* What a handle shows when the entries are the same.                      *)
LEMMA ShownSame ==
  ASSUME SameShown(entry, entry'), UNCHANGED <<zp, cdir, ch_flags>>
  PROVE  /\ Survivors' = Survivors /\ FileList' = FileList
         /\ \A i \in DOMAIN entry :
              /\ GetName(entry, i)' = GetName(entry, i)
              /\ Data(i)' = Data(i) /\ FileComment(i)' = FileComment(i)
              /\ DataChanged(i)' = DataChanged(i)
<1>1. Survivors' = Survivors
  BY DEF SameShown, Survivors
<1>2. Nentry' = Nentry /\ \A i : CdirName(i)' = CdirName(i)
  BY DEF Nentry, CdirName
<1>3. ASSUME NEW i \in DOMAIN entry PROVE FileName(i)' = FileName(i)
  BY <1>2 DEF SameShown, FileName
<1>4. [i \in DOMAIN entry |-> FileName(i)]'
        = [i \in DOMAIN entry |-> FileName(i)]
  BY <1>3 DEF SameShown
<1>5. FileList' = FileList
  BY <1>1, <1>4 DEF FileList
<1>6. ASSUME NEW i \in DOMAIN entry
      PROVE  /\ GetName(entry, i)' = GetName(entry, i)
             /\ DataChanged(i)' = DataChanged(i)
             /\ FileComment(i)' = FileComment(i)
  BY <1>2 DEF SameShown, GetName, DataChanged, FileComment
<1>7. ASSUME NEW i \in DOMAIN entry PROVE Data(i)' = Data(i)
  BY <1>6 DEF SameShown, Data
<1>8. QED BY <1>1, <1>5, <1>6, <1>7

-----------------------------------------------------------------------------
(* What has been written so far is what the handle shows.                  *)
SavedSoFar ==
  \A j \in 1 .. Len(cd) : \A i, de :
    i = FileList[j] /\ de = cd[j] => i \in Survivors /\ Saved(i, de)

ShortComments == \A comment \in Comment : Len(comment) < Wide

(* f is g and more.                                                        *)
Extends(f, g) == Len(g) <= Len(f) /\ \A k \in 1 .. Len(g) : f[k] = g[k]

LEMMA BehindExtends ==
  ASSUME NEW f, IsFile(f), NEW unit, IsUnit(unit), NEW units, IsFile(units)
  PROVE  LET h == Behind(f, unit, units) IN IsFile(h) /\ Extends(h, f)
<1> DEFINE h == Behind(f, unit, units)
<1>1. /\ IsFile(h) /\ Len(h) = Len(f) + 1 + Len(units)
      /\ \A k \in 1 .. Len(f) : h[k] = f[k]
  <2>1. IsBehind(h, f, unit, units)
    BY FileAppended
  <2>2. QED BY <2>1 DEF IsBehind
<1>2. Len(f) \in Nat /\ Len(units) \in Nat
  BY FileUnits
<1> HIDE DEF h
<1>3. QED BY <1>1, <1>2 DEF Extends, h

LEMMA StillSaved ==
  ASSUME ~ IsFile(NULL), IsFile(out), IsFile(out'), Extends(out', out),
         SameShown(entry, entry'), UNCHANGED <<zp, cdir, ch_flags>>,
         NEW i \in DOMAIN entry, NEW de, Kept(out, de), Saved(i, de)
  PROVE  Saved(i, de)'
<1>1. Len(out) \in Nat /\ Len(out') \in Nat
  BY FileUnits
<1>2. PICK at \in Nat, len \in Nat : at = de.offset /\ len = de.comp_size
  BY DEF Kept, IsDirent
<1>3. at + len + 1 <= Len(out) /\ out[at + 1] = Local(de)
  BY <1>2 DEF Kept, LENTRYSIZE
<1>4. Kept(out', de)
  <2>1. at + len + 1 <= Len(out') /\ out'[at + 1] = Local(de)
    BY <1>1, <1>3 DEF Extends
  <2>2. QED BY <1>2, <2>1 DEF Kept, LENTRYSIZE
<1>5. Alike(out', de.offset + LENTRYSIZE, out, de.offset + LENTRYSIZE,
            de.comp_size)
  <2>1. \A k \in 1 .. len : at + 1 + k \in 1 .. Len(out)
    BY <1>1, <1>3
  <2>2. \A k \in 1 .. len : out'[at + 1 + k] = out[at + 1 + k]
    BY <2>1 DEF Extends
  <2>3. QED BY <1>2, <2>2 DEF Alike, LENTRYSIZE
<1>6. FileData(out', de) = FileData(out, de)
  BY <1>4, <1>5, DataSame
<1>7. /\ GetName(entry, i)' = GetName(entry, i)
      /\ Data(i)' = Data(i) /\ FileComment(i)' = FileComment(i)
      /\ DataChanged(i)' = DataChanged(i)
  BY ShownSame
<1>8. /\ entry'[i].ch_comment = entry[i].ch_comment
      /\ entry[i].source.reads = 2 => entry'[i].source.reads = 2
  BY DEF SameShown
<1>9. QED BY <1>6, <1>7, <1>8 DEF Saved

(* The next file is written, and it is one that is shown.                  *)
LEMMA OneMoreSaved ==
  ASSUME ~ IsFile(NULL), AllKept(out, cd), SavedSoFar,
         SameShown(entry, entry'), UNCHANGED <<zp, cdir, ch_flags>>,
         NEW de, IsDirent(de), de.offset = Len(out),
         NEW units, IsFile(units), de.comp_size = Len(units),
         out' = Behind(out, Local(de), units), cd' = Append(cd, de),
         NEW i \in Survivors, i = FileList[Len(cd) + 1], Saved(i, de)'
  PROVE  SavedSoFar'
<1>1. /\ Survivors' = Survivors /\ FileList' = FileList
      /\ Survivors \subseteq DOMAIN entry
  BY ShownSame DEF Survivors
<1>2. /\ IsFile(out) /\ Len(out) \in Nat /\ Len(units) \in Nat
      /\ cd \in Seq(ToSet(cd)) /\ \A k \in 1 .. Len(cd) : Kept(out, cd[k])
  BY FileUnits DEF AllKept
<1>3. IsUnit(Local(de))
  BY DEF IsUnit, Local
<1>4. IsFile(out') /\ Extends(out', out)
  BY <1>2, <1>3, BehindExtends
<1>5. /\ Len(cd') = Len(cd) + 1 /\ Len(cd) \in Nat
      /\ \A k \in 1 .. Len(cd) : cd'[k] = cd[k]
      /\ cd'[Len(cd) + 1] = de
  <2>1. cd \in Seq(ToSet(cd) \cup {de}) /\ de \in ToSet(cd) \cup {de}
    BY <1>2
  <2>2. QED BY <2>1, AppendProperties, LenProperties
<1>6. ASSUME NEW j \in 1 .. Len(cd'), NEW k, NEW old,
             k = FileList'[j], old = cd'[j]
      PROVE  k \in Survivors' /\ Saved(k, old)'
  <2>1. CASE j \in 1 .. Len(cd)
    <3>1. k \in Survivors /\ Saved(k, old) /\ Kept(out, old)
      BY <1>1, <1>2, <1>5, <1>6, <2>1 DEF SavedSoFar
    <3>2. k \in DOMAIN entry
      BY <1>1, <3>1
    <3>3. Saved(k, old)'
      BY <1>2, <1>4, <3>1, <3>2, StillSaved
    <3>4. QED BY <1>1, <3>1, <3>3
  <2>2. CASE j = Len(cd) + 1
    <3>1. k = i /\ old = de
      BY <1>1, <1>5, <1>6, <2>2
    <3>2. QED BY <1>1, <3>1
  <2>3. QED BY <1>5, <2>1, <2>2
<1>7. QED BY <1>6 DEF SavedSoFar

LEMMA ShortComment ==
  ASSUME NEW s, IsFile(s), Len(s) < Wide PROVE TwoBytes(s) = s
<1>1. Len(s) \in Nat /\ Len(s) % Wide = Len(s)
  BY FileUnits, WideAssumption
<1>2. SubSeq(s, 1, Len(s)) = s
  BY <1>1 DEF IsFile
<1>3. QED BY <1>1, <1>2 DEF TwoBytes

(* The data behind a local header can be read again.                       *)
LEMMA BehindData ==
  ASSUME ~ IsFile(NULL), NEW f, IsFile(f), NEW de, IsDirent(de),
         de.offset = Len(f), NEW units, IsFile(units), de.comp_size = Len(units)
  PROVE  LET h == Behind(f, Local(de), units)
         IN /\ h # NULL /\ IsFile(h) /\ Kept(h, de)
            /\ HasMagic(h, de.offset, "PK34")
            /\ ReadAt(h, de.offset + LENTRYSIZE, de.comp_size) = units
<1> DEFINE unit == Local(de)
           h == Behind(f, unit, units)
<1>1. PICK at \in Nat, len \in Nat : at = de.offset /\ len = de.comp_size
  <2>1. de.offset \in Nat /\ de.comp_size \in Nat
    BY DEF IsDirent
  <2>2. QED BY <2>1
<1>2. at = Len(f) /\ len = Len(units)
  BY <1>1
<1>3. IsUnit(unit) /\ unit.magic = "PK34"
  BY DEF IsUnit, Local
<1> HIDE DEF unit
<1>4. /\ IsFile(h) /\ Len(h) = at + 1 + len /\ h[at + 1] = unit
      /\ \A k \in 1 .. len : h[at + 1 + k] = units[k]
  <2>1. /\ IsFile(h) /\ Len(h) = Len(f) + 1 + Len(units)
        /\ h[Len(f) + 1] = unit
        /\ \A k \in 1 .. Len(units) : h[Len(f) + 1 + k] = units[k]
    <3>1. IsBehind(h, f, unit, units)
      BY <1>3, FileAppended
    <3>2. QED BY <3>1 DEF IsBehind
  <2> HIDE DEF h
  <2>2. QED BY <1>2, <2>1
<1>5. DOMAIN h = 1 .. Len(h)
  BY <1>4, FileUnits
<1> HIDE DEF h
<1>6. h # NULL
  BY <1>4
<1>7. Kept(h, de)
  <2>1. at + len + LENTRYSIZE <= Len(h)
    BY <1>4 DEF LENTRYSIZE
  <2>2. QED BY <1>1, <1>4, <2>1 DEF Kept, unit
<1>8. HasMagic(h, de.offset, "PK34")
  <2>1. at + 1 \in DOMAIN h
    BY <1>4, <1>5
  <2>2. QED BY <1>1, <1>3, <1>4, <1>6, <2>1 DEF HasMagic
<1>9. ReadAt(h, at + 1, len) = units
  <2> DEFINE p == ReadAt(h, at + 1, len)
  <2>1. at + 1 \in Nat /\ (at + 1) + len <= Len(h)
    BY <1>4
  <2>2. IsFile(p) /\ Len(p) = len /\ \A k \in 1 .. len : p[k] = h[at + 1 + k]
    BY <1>4, <1>6, <2>1, FileRead
  <2> HIDE DEF p
  <2>3. Len(p) = Len(units) /\ \A k \in 1 .. Len(p) : p[k] = units[k]
    BY <1>2, <1>4, <2>2
  <2>4. p = units
    BY <2>2, <2>3, SameFile
  <2>5. QED BY <2>4 DEF p
<1>10. ReadAt(h, de.offset + LENTRYSIZE, de.comp_size) = units
  BY <1>1, <1>9 DEF LENTRYSIZE
<1>11. QED BY <1>4, <1>6, <1>7, <1>8, <1>10 DEF h, unit

(* What a file's new comment is.                                           *)
LEMMA CommentSaved ==
  ASSUME ShortComments, NEW i, NEW old,
         entry[i].ch_comment \in Comment \cup {NULL}, ~ ch_flags
  PROVE  NewComment(i, old) = IF entry[i].ch_comment # NULL
                                THEN entry[i].ch_comment ELSE old
<1>1. CASE entry[i].ch_comment = NULL
  BY <1>1 DEF NewComment
<1>2. CASE entry[i].ch_comment # NULL
  <2> DEFINE comment == entry[i].ch_comment
  <2>1. comment \in Comment
    BY <1>2
  <2> HIDE DEF comment
  <2>2. IsFile(comment) /\ Len(comment) < Wide
    BY <2>1, CommentIsFile DEF ShortComments
  <2>3. TwoBytes(comment) = comment
    BY <2>2, ShortComment
  <2>4. QED BY <1>2, <2>3 DEF NewComment, comment
<1>3. QED BY <1>1, <1>2

(* Nothing but data that are new loses a comment.                          *)
LEMMA KeptComment ==
  ASSUME ShortComments, IInv, NEW i \in Survivors, i \notin Ghosts,
         NEW comment,
         \/ AddData(i) /\ comment = NewComment(i, <<>>)
         \/ /\ i \in 1 .. Nentry
            /\ comment = NewComment(i, cdir.entry[i].comment)
  PROVE  \/ comment = FileComment(i)
         \/ ch_flags \/ (DataChanged(i) /\ entry[i].ch_comment = NULL)
<1> SUFFICES ASSUME ~ ch_flags,
                    ~ (DataChanged(i) /\ entry[i].ch_comment = NULL)
             PROVE  comment = FileComment(i)
  OBVIOUS
<1>1. entry[i].ch_comment \in Comment \cup {NULL}
  <2>1. i \in DOMAIN entry /\ entry[i] \in Entry
    BY EntriesAreSeq DEF IInv, Entries, Survivors
  <2>2. QED BY <2>1 DEF Entry
<1>2. CASE entry[i].ch_comment # NULL
  BY <1>1, <1>2, CommentSaved DEF FileComment
<1>3. CASE entry[i].ch_comment = NULL
  <2>1. ~ AddData(i)
    BY <1>3 DEF AddData, NewTorrentzip, GetArchiveFlag
  <2>2. i \in 1 .. Nentry /\ comment = NewComment(i, cdir.entry[i].comment)
    BY <2>1
  <2>3. comment = cdir.entry[i].comment
    BY <1>3, <2>2 DEF NewComment
  <2>4. i <= Nentry
    BY <2>2 DEF Nentry
  <2>5. QED BY <1>3, <2>3, <2>4 DEF FileComment
<1>4. QED BY <1>2, <1>3

LEMMA AddDataSaved ==
  ASSUME ~ IsFile(NULL), ShortComments, IInv, DiskInv, Undamaged, SavedSoFar,
         NEW i \in Survivors, AddData(i)
  PROVE  SavedSoFar'
<1>1. /\ i \in DOMAIN entry /\ i \notin Ghosts /\ i = FileList[Len(cd) + 1]
      /\ UNCHANGED <<zp, cdir, ch_flags>> /\ pc = "writing"
  BY DEF Survivors, AddData, NextFile, Ghosts, DataChanged
<1>2. AllKept(out, cd) /\ IsFile(out)
  BY <1>1 DEF Undamaged, AllKept
<1>3. PICK de, units :
        /\ out' = Behind(out, Local(de), units) /\ cd' = Append(cd, de)
        /\ IsDirent(de) /\ de.offset = Len(out)
        /\ IsFile(units) /\ de.comp_size = Len(units)
        /\ de.name = FileName(i) /\ de.method = "deflate"
        /\ de.sum = Data(i) /\ de.comment = NewComment(i, <<>>)
        /\ \/ units = <<Deflated(Data(i))>>
           \/ /\ units = <<>> /\ DataChanged(i)
              /\ entry[i].source.raw /\ entry[i].source.reads > 0
  BY AddDataWrites
<1>4. /\ SameShown(entry, entry')
      /\ DataChanged(i) /\ entry[i].source.raw /\ entry[i].source.reads > 0
           => entry'[i].source.reads = 2
  BY <1>1, AddDataShows
<1>5. /\ GetName(entry, i)' = GetName(entry, i)
      /\ Data(i)' = Data(i) /\ FileComment(i)' = FileComment(i)
      /\ DataChanged(i)' = DataChanged(i)
  BY <1>1, <1>4, ShownSame
<1>6. entry'[i].ch_comment = entry[i].ch_comment
  BY <1>1, <1>4 DEF SameShown
<1>7. de.name = IF GetName(entry, i) = NULL THEN Dash ELSE GetName(entry, i)
  BY <1>1, <1>3, NameWritten DEF Undamaged, CdirRead
<1>8. \/ FileData(out', de) = Data(i)
      \/ DataChanged(i) /\ entry'[i].source.reads = 2
  <2>1. CASE units = <<Deflated(Data(i))>>
    <3>1. /\ HasMagic(out', de.offset, "PK34")
          /\ ReadAt(out', de.offset + LENTRYSIZE, de.comp_size) = units
      BY <1>2, <1>3, BehindData
    <3>2. Inflate("deflate", units) = Data(i)
      BY <2>1, InflatedOne
    <3>3. QED BY <1>3, <3>1, <3>2 DEF FileData
  <2>2. QED BY <1>3, <1>4, <2>1
<1>9. \/ de.comment = FileComment(i)
      \/ ch_flags \/ (DataChanged(i) /\ entry[i].ch_comment = NULL)
  BY <1>1, <1>3, KeptComment
<1>10. Saved(i, de)'
  BY <1>1, <1>5, <1>6, <1>7, <1>8, <1>9 DEF Saved
<1>11. QED BY <1>1, <1>2, <1>3, <1>4, <1>10, OneMoreSaved

LEMMA CopyDataSaved ==
  ASSUME ~ IsFile(NULL), ShortComments, IInv, DiskInv, Undamaged, SavedSoFar,
         NEW i \in Survivors, CopyData(i)
  PROVE  SavedSoFar'
<1> DEFINE old == cdir.entry[i]
<1>1. /\ i \in DOMAIN entry /\ i \notin Ghosts /\ i = FileList[Len(cd) + 1]
      /\ UNCHANGED <<zp, cdir, ch_flags, entry>> /\ pc = "writing"
      /\ ~ DataChanged(i)
  BY DEF Survivors, CopyData, NextFile
<1>2. AllKept(out, cd) /\ IsFile(out)
  BY <1>1 DEF Undamaged, AllKept
<1>3. PICK de, units :
        /\ out' = Behind(out, Local(de), units) /\ cd' = Append(cd, de)
        /\ IsDirent(de) /\ de.offset = Len(out)
        /\ IsFile(units) /\ de.comp_size = Len(units)
        /\ de.name = FileName(i) /\ de.comment = NewComment(i, old.comment)
        /\ de.method = old.method /\ de.sum = old.sum
        /\ de.comp_size = old.comp_size
        /\ zp # NULL /\ IsFile(zp) /\ Kept(zp, old)
        /\ units = ReadAt(zp, old.offset + LENTRYSIZE, old.comp_size)
  BY CopyDataWrites
<1>4. i \in 1 .. Nentry
  BY CopiedFromCdir
<1>5. SameShown(entry, entry')
  BY <1>1 DEF SameShown
<1>6. /\ GetName(entry, i)' = GetName(entry, i)
      /\ Data(i)' = Data(i) /\ FileComment(i)' = FileComment(i)
      /\ DataChanged(i)' = DataChanged(i)
  BY <1>1, <1>5, ShownSame
<1>7. de.name = IF GetName(entry, i) = NULL THEN Dash ELSE GetName(entry, i)
  BY <1>1, <1>3, NameWritten DEF Undamaged, CdirRead
<1>8. FileData(out', de) = Data(i)
  <2>1. /\ out' = Behind(out, Local(de), units) /\ IsDirent(de)
        /\ IsFile(units)
    BY <1>3
  <2>2. de.offset = Len(out)
    BY <1>3
  <2>3. de.comp_size = Len(units)
    BY <1>3
  <2>4. /\ HasMagic(out', de.offset, "PK34")
        /\ ReadAt(out', de.offset + LENTRYSIZE, de.comp_size) = units
    BY <1>2, <2>1, <2>2, <2>3, BehindData
  <2>5. ReadAt(zp, old.offset + LENTRYSIZE, old.comp_size) = units
        /\ HasMagic(zp, old.offset, "PK34")
    BY <1>3 DEF CopyData
  <2>6. FileData(out', de) = FileData(zp, old)
    BY <1>3, <2>4, <2>5 DEF FileData
  <2>7. QED BY <1>1, <2>6 DEF Data
<1>9. \/ de.comment = FileComment(i)
      \/ ch_flags \/ (DataChanged(i) /\ entry[i].ch_comment = NULL)
  BY <1>1, <1>3, <1>4, KeptComment
<1>10. Saved(i, de)'
  BY <1>1, <1>6, <1>7, <1>8, <1>9 DEF Saved
<1>11. QED BY <1>1, <1>2, <1>3, <1>5, <1>10, OneMoreSaved

(* The directory behind all that has been written.                         *)
ArchiveCommentWritten(f, at, c) ==
  flags \/ ch_flags \/ \A k \in 1 .. c : f[at + k] = ArchiveComment[k]

OwnWritten ==
  /\ Len(cd) = Cardinality(Survivors) /\ Len(cd) > 0 /\ cd \in Seq(ToSet(cd))
  /\ \E body, c :
       /\ IsFile(body) /\ EndsWith(out, body, cd, c)
       /\ c = Len(NewArchiveComment) % Wide
       /\ ArchiveCommentWritten(out, Len(body) + Len(cd) + 1, c)

SaveInv ==
  ~ damaged =>
    /\ pc \in {"writing", "written"} => SavedSoFar
    /\ pc = "written" => OwnWritten

(* The comment of a torrentzip archive always has one unit.                *)
LEMMA CommentLength ==
  ASSUME UNCHANGED <<flags, ch_flags, ch_comment, cdir>>
  PROVE  Len(NewArchiveComment)' = Len(NewArchiveComment)
<1>1. CASE ch_flags
  <2> DEFINE x == Torrentzipped(FilerangeCrc(CdirWrite(out, cd, <<>>), Len(out),
                                             Len(cd)))
  <2>1. NewArchiveComment = <<x>> /\ NewArchiveComment' = <<x'>>
    BY <1>1 DEF NewArchiveComment
  <2> HIDE DEF x
  <2>2. QED BY <2>1
<1>2. CASE ~ ch_flags
  BY <1>2 DEF NewArchiveComment
<1>3. QED BY <1>1, <1>2

LEMMA WriteSaved ==
  ASSUME ~ IsFile(NULL), IInv, DiskInv, Undamaged, SavedSoFar, WriteCdir
  PROVE  SavedSoFar' /\ OwnWritten'
<1>1. PICK body, c : body = out /\ c = Len(NewArchiveComment) % Wide
  OBVIOUS
<1>2. /\ UNCHANGED <<zp, cdir, flags, ch_flags, ch_comment, entry, cd>>
      /\ pc = "writing" /\ Len(cd) = Cardinality(Survivors)
  BY DEF WriteCdir, handle
<1>3. /\ Len(cd) > 0 /\ EndsWith(out', out, cd, c)
      /\ \A k \in 1 .. c :
           out'[Len(out) + Len(cd) + 1 + k] = NewArchiveComment[k]
  BY <1>1, WriteEnds
<1>4. /\ IsFile(out) /\ cd \in Seq(ToSet(cd))
      /\ \A k \in 1 .. Len(cd) : Kept(out, cd[k])
  BY <1>2 DEF Undamaged, AllKept
<1>5. SameShown(entry, entry')
  BY <1>2 DEF SameShown
<1>6. Survivors' = Survivors /\ FileList' = FileList
      /\ Survivors \subseteq DOMAIN entry
  BY <1>2, <1>5, ShownSame DEF Survivors
<1>7. IsFile(out') /\ Extends(out', out)
  <2>1. Len(out) \in Nat /\ Len(cd) \in Nat
    BY <1>4, FileUnits, LenProperties
  <2>2. QED BY <1>3, <2>1 DEF EndsWith, Extends
<1>8. SavedSoFar'
  <2>1. ASSUME NEW j \in 1 .. Len(cd'), NEW i, NEW de,
               i = FileList'[j], de = cd'[j]
        PROVE  i \in Survivors' /\ Saved(i, de)'
    <3>1. i \in Survivors /\ Saved(i, de) /\ Kept(out, de)
      BY <1>2, <1>4, <1>6, <2>1 DEF SavedSoFar
    <3>2. i \in DOMAIN entry
      BY <1>6, <3>1
    <3>3. Saved(i, de)'
      BY <1>2, <1>4, <1>5, <1>7, <3>1, <3>2, StillSaved
    <3>4. QED BY <1>6, <3>1, <3>3
  <2>2. QED BY <2>1 DEF SavedSoFar
<1>9. c = Len(NewArchiveComment)' % Wide
  BY <1>1, <1>2, CommentLength
<1>10. ArchiveCommentWritten(out, Len(body) + Len(cd) + 1, c)'
  <2>1. ~ flags /\ ~ ch_flags => NewArchiveComment = ArchiveComment
    BY DEF NewArchiveComment, ArchiveComment
  <2>2. ArchiveComment' = ArchiveComment
    BY <1>2 DEF ArchiveComment
  <2>3. QED BY <1>1, <1>2, <1>3, <2>1, <2>2 DEF ArchiveCommentWritten
<1>11. IsFile(body) /\ EndsWith(out', body, cd', c)
  BY <1>1, <1>2, <1>3, <1>4
<1>12. QED BY <1>2, <1>3, <1>4, <1>6, <1>8, <1>9, <1>10, <1>11 DEF OwnWritten

LEMMA SameSaved ==
  ASSUME UNCHANGED vars, SaveInv PROVE SaveInv'
<1>1. UNCHANGED <<pc, zp, cdir, flags, ch_flags, ch_comment, entry, out, cd,
                  damaged>>
  BY DEF vars, handle
<1>2. SameShown(entry, entry')
  BY <1>1 DEF SameShown
<1>3. /\ Survivors' = Survivors /\ FileList' = FileList
      /\ Survivors \subseteq DOMAIN entry
  BY <1>1, <1>2, ShownSame DEF Survivors
<1>4. ASSUME NEW i \in DOMAIN entry, NEW de, Saved(i, de) PROVE Saved(i, de)'
  <2>1. /\ GetName(entry, i)' = GetName(entry, i)
        /\ Data(i)' = Data(i) /\ FileComment(i)' = FileComment(i)
        /\ DataChanged(i)' = DataChanged(i)
    BY <1>1, <1>2, ShownSame
  <2>2. FileData(out', de) = FileData(out, de)
    BY <1>1
  <2>3. QED BY <1>1, <1>4, <2>1, <2>2 DEF Saved
<1>5. SavedSoFar => SavedSoFar'
  <2>1. SUFFICES ASSUME SavedSoFar, NEW j \in 1 .. Len(cd'), NEW i, NEW de,
                        i = FileList'[j], de = cd'[j]
                 PROVE  i \in Survivors' /\ Saved(i, de)'
    BY DEF SavedSoFar
  <2>2. i \in Survivors /\ Saved(i, de)
    BY <1>1, <1>3, <2>1 DEF SavedSoFar
  <2>3. QED BY <1>3, <1>4, <2>2
<1>6. NewArchiveComment' = NewArchiveComment /\ ArchiveComment' = ArchiveComment
  BY <1>1 DEF NewArchiveComment, ArchiveComment
<1>7. OwnWritten => OwnWritten'
  BY <1>1, <1>3, <1>6 DEF OwnWritten, ArchiveCommentWritten
<1>8. QED BY <1>1, <1>5, <1>7 DEF SaveInv

LEMMA InitSaved == Init => SaveInv
BY DEF Init, SaveInv

LEMMA NextSaved ==
  ASSUME ~ IsFile(NULL), ShortComments, IInv, DiskInv, SaveInv, [Next]_vars
  PROVE  SaveInv'
<1>1. CASE UNCHANGED vars
  BY <1>1, SameSaved
<1>2. CASE pc' \in {"open", "closed"} \/ damaged'
  BY <1>2 DEF SaveInv
<1>3. CASE CloseBegin
  <2>1. cd' = <<>> /\ pc' = "writing"
    BY <1>3 DEF CloseBegin
  <2>2. 1 .. Len(cd') = {}
    BY <2>1
  <2>3. SavedSoFar'
    BY <2>2 DEF SavedSoFar
  <2>4. QED BY <2>1, <2>3 DEF SaveInv
<1>4. ASSUME NEW i \in Survivors, AddData(i) \/ CopyData(i) PROVE SaveInv'
  <2>1. pc = "writing" /\ pc' = "writing" /\ damaged' = damaged
    BY <1>4 DEF AddData, CopyData, NextFile
  <2>2. ~ damaged => Undamaged /\ SavedSoFar
    BY <2>1 DEF DiskInv, SaveInv
  <2>3. ~ damaged => SavedSoFar'
    BY <1>4, <2>2, AddDataSaved, CopyDataSaved
  <2>4. QED BY <2>1, <2>3 DEF SaveInv
<1>5. CASE WriteCdir
  <2>1. pc = "writing" /\ damaged' = damaged
    BY <1>5 DEF WriteCdir
  <2>2. ~ damaged => Undamaged /\ SavedSoFar
    BY <2>1 DEF DiskInv, SaveInv
  <2>3. ~ damaged => SavedSoFar' /\ OwnWritten'
    BY <1>5, <2>2, WriteSaved
  <2>4. QED BY <2>1, <2>3 DEF SaveInv
<1>6. ASSUME NEW check, Open(check) \/ SetArchiveFlag(check) PROVE SaveInv'
  <2>1. pc' = "open"
    BY <1>6 DEF Open, SetArchiveFlag, Edit, Rest
  <2>2. QED BY <1>2, <2>1
<1>7. ASSUME NEW name, NEW source, Add(name, source) PROVE SaveInv'
  <2>1. pc' = "open"
    BY <1>7 DEF Add, Edit, Rest
  <2>2. QED BY <1>2, <2>1
<1>8. ASSUME NEW name, AddDir(name) PROVE SaveInv'
  BY <1>7, <1>8 DEF AddDir
<1>9. ASSUME NEW comment, SetArchiveComment(comment) PROVE SaveInv'
  <2>1. pc' = "open"
    BY <1>9 DEF SetArchiveComment, Edit, Rest
  <2>2. QED BY <1>2, <2>1
<1>10. CASE UnchangeArchive \/ UnchangeAll
  <2>1. pc' = "open"
    BY <1>10 DEF UnchangeArchive, UnchangeAll, Edit, Rest
  <2>2. QED BY <1>2, <2>1
<1>11. ASSUME NEW i \in DOMAIN entry,
              \/ \E source \in Source : Replace(i, source)
              \/ \E name \in Name : Rename(i, name)
              \/ \E comment \in Comment : SetFileComment(i, comment)
              \/ Delete(i) \/ Unchange(i)
       PROVE  SaveInv'
  <2>1. pc' = "open"
    BY <1>11 DEF Replace, Rename, SetFileComment, Delete, Unchange, Edit, Rest
  <2>2. QED BY <1>2, <2>1
<1>12. ASSUME NEW i, CopyGhost(i) PROVE SaveInv'
  <2>1. damaged'
    BY <1>12 DEF CopyGhost
  <2>2. QED BY <1>2, <2>1
<1>13. ASSUME NEW i \in Survivors, AddData(i) \/ CopyData(i) \/ CopyGhost(i)
       PROVE  SaveInv'
  BY <1>4, <1>12, <1>13
<1>14. CASE \/ CloseUnchanged \/ CloseEmpty \/ CloseEmptyFails \/ CloseEnd
            \/ CloseFails \/ Killed \/ Cut
  <2>1. pc' \in {"open", "closed"}
    BY <1>14 DEF CloseUnchanged, CloseEmpty, CloseEmptyFails, CloseEnd,
                 CloseFails, Killed, Cut, Freed
  <2>2. QED BY <1>2, <2>1
<1>15. QED
  BY <1>1, <1>3, <1>5, <1>6, <1>7, <1>8, <1>9, <1>10, <1>11, <1>13, <1>14
  DEF Next

-----------------------------------------------------------------------------
(* Where zip_close put its end record; and that zip_open takes that one,   *)
(* and not one in the data or in a comment that looks better.              *)
OwnEnd == Len(out) - EOCDLEN - (Len(NewArchiveComment) % Wide)

OwnTaken ==
  Len(cd) < Wide /\ \A check \in BOOLEAN : Best(out, check) = OwnEnd

(* Whether it is one of several makes no difference.                       *)
LEMMA AlsoUnchecked ==
  ASSUME NEW f, HasCdir(f, TRUE), Best(f, FALSE) = Best(f, TRUE)
  PROVE  HasCdir(f, FALSE)
<1>1. Candidates(f, TRUE) \subseteq Candidates(f, FALSE)
  BY DEF Candidates, IsCdir
<1>2. Candidates(f, TRUE) # {}
      /\ CheckCons(f, ReadCdir(f, Best(f, TRUE))) >= 0
  BY DEF HasCdir
<1>3. QED BY <1>1, <1>2 DEF HasCdir

(* The directory zip_open reads there.                                     *)
ReadAsWritten(new, f, end, d, c) ==
  /\ Len(new.entry) = Len(d) /\ DOMAIN new.entry = 1 .. Len(d)
  /\ \A k \in 1 .. Len(d) : new.entry[k] = d[k]
  /\ IsFile(new.comment) /\ Len(new.comment) = c
  /\ \A k \in 1 .. c : new.comment[k] = f[end + 1 + k]

LEMMA OwnCdir ==
  ASSUME NEW f, f # NULL, NEW body, IsFile(body), NEW d, d \in Seq(ToSet(d)),
         Len(d) > 0, Len(d) < Wide, NEW c, EndsWith(f, body, d, c)
  PROVE  ReadAsWritten(ReadCdir(f, Len(body) + Len(d)), f, Len(body) + Len(d),
                       d, c)
<1> DEFINE b == Len(body)
           n == Len(d)
           end == b + n
           new == ReadCdir(f, end)
<1>1. b \in Nat /\ n \in Nat /\ n % Wide = n /\ n \in 1 .. Wide - 1
  BY FileUnits, LenProperties, WideAssumption
<1>2. /\ IsFile(f) /\ c \in 0 .. Wide - 1 /\ Len(f) = b + n + 1 + c
      /\ \A k \in 1 .. n : f[b + k] = Central(d[k])
      /\ f[end + 1] = EndOfCentralDir(n % Wide, n, b, c)
  BY DEF EndsWith
<1>3. CdirStart(f, end) = b
  BY WrittenIsCdir
<1> HIDE DEF b, n, end
<1>4. f[end + 1].n = n /\ f[end + 1].comment_len = c
  BY <1>1, <1>2 DEF EndOfCentralDir
<1>5. EntryCount(f[end + 1]) = n
  BY <1>1, <1>4 DEF EntryCount
<1>6. new.entry = [k \in 1 .. n |-> f[b + k].de]
  BY <1>3, <1>5 DEF ReadCdir
<1>7. new.comment = ReadAt(f, end + 1, c)
  BY <1>4 DEF ReadCdir, EOCDLEN
<1> HIDE DEF new
<1>8. /\ DOMAIN new.entry = 1 .. n /\ Len(new.entry) = n
      /\ \A k \in 1 .. n : new.entry[k] = d[k]
  <2> DEFINE S == {f[b + k].de : k \in 1 .. n}
  <2>1. \A k \in 1 .. n : f[b + k].de \in S
    OBVIOUS
  <2> HIDE DEF S
  <2>2. new.entry \in Seq(S) /\ DOMAIN new.entry = 1 .. n
    BY <1>1, <1>6, <2>1
  <2>3. Len(new.entry) = n
    BY <1>1, <2>2, LenProperties
  <2>4. ASSUME NEW k \in 1 .. n PROVE new.entry[k] = d[k]
    <3>1. f[b + k] = Central(d[k]) /\ new.entry[k] = f[b + k].de
      BY <1>2, <1>6
    <3>2. Central(d[k]).de = d[k]
      BY DEF Central
    <3>3. QED BY <3>1, <3>2
  <2>5. QED BY <2>2, <2>3, <2>4
<1>9. /\ IsFile(new.comment) /\ Len(new.comment) = c
      /\ \A k \in 1 .. c : new.comment[k] = f[end + 1 + k]
  <2>1. end + 1 \in Nat /\ c \in Nat /\ (end + 1) + c <= Len(f)
    BY <1>1, <1>2 DEF end
  <2>2. IsFile(f)
    BY <1>2
  <2>3. PICK p : p = end + 1
    OBVIOUS
  <2>4. /\ IsFile(ReadAt(f, p, c)) /\ Len(ReadAt(f, p, c)) = c
        /\ \A k \in 1 .. c : ReadAt(f, p, c)[k] = f[p + k]
    BY <2>1, <2>2, <2>3, FileRead
  <2>5. QED BY <1>7, <2>3, <2>4
<1>10. QED BY <1>8, <1>9 DEF ReadAsWritten, new, b, n, end

LEMMA WrittenIsShown ==
  ASSUME ~ IsFile(NULL), ShortComments, DiskInv, SaveInv, OwnTaken
  PROVE  SavedIsShown
<1> SUFFICES ASSUME pc = "written", ~ damaged, NEW check \in BOOLEAN
             PROVE  LET new == FindCentralDir(out, check)
                    IN /\ HasCdir(out, check)
                       /\ Len(new.entry) = Cardinality(Survivors)
                       /\ \A j \in DOMAIN new.entry :
                            Saved(FileList[j], new.entry[j])
                       /\ flags \/ ch_flags \/ new.comment = ArchiveComment
  BY DEF SavedIsShown
<1>1. SavedSoFar /\ OwnWritten /\ Undamaged
  BY DEF SaveInv, DiskInv
<1>2. PICK body, c :
        /\ IsFile(body) /\ EndsWith(out, body, cd, c)
        /\ c = Len(NewArchiveComment) % Wide
        /\ ArchiveCommentWritten(out, Len(body) + Len(cd) + 1, c)
  BY <1>1 DEF OwnWritten
<1>3. /\ Len(cd) = Cardinality(Survivors) /\ Len(cd) > 0
      /\ Len(cd) < Wide /\ cd \in Seq(ToSet(cd))
  BY <1>1 DEF OwnWritten, OwnTaken
<1>4. IsFile(out) /\ out # NULL /\ HasCdir(out, TRUE)
  <2>1. IsFile(out)
    BY <1>2 DEF EndsWith
  <2>2. out # NULL
    BY <2>1
  <2>3. QED BY <1>1, <2>1, <2>2 DEF Undamaged, Sound
<1>5. HasCdir(out, check)
  BY <1>4, AlsoUnchecked DEF OwnTaken
<1>6. Best(out, check) = Len(body) + Len(cd)
  <2>1. Len(body) \in Nat /\ Len(cd) \in Nat /\ c \in Nat
        /\ Len(out) = Len(body) + Len(cd) + 1 + c
    BY <1>2, <1>3, FileUnits, LenProperties DEF EndsWith
  <2>2. OwnEnd = Len(out) - 1 - c
    BY <1>2 DEF OwnEnd, EOCDLEN
  <2>3. OwnEnd = Len(body) + Len(cd)
    BY <2>1, <2>2
  <2>4. QED BY <2>3 DEF OwnTaken
<1> DEFINE new == ReadCdir(out, Len(body) + Len(cd))
<1>7. FindCentralDir(out, check) = new
  BY <1>5, <1>6 DEF FindCentralDir
<1>8. /\ Len(new.entry) = Len(cd) /\ DOMAIN new.entry = 1 .. Len(cd)
      /\ \A k \in 1 .. Len(cd) : new.entry[k] = cd[k]
      /\ IsFile(new.comment) /\ Len(new.comment) = c
      /\ \A k \in 1 .. c : new.comment[k] = out[Len(body) + Len(cd) + 1 + k]
  <2>1. IsFile(body) /\ EndsWith(out, body, cd, c)
    BY <1>2
  <2>2. cd \in Seq(ToSet(cd)) /\ Len(cd) > 0 /\ Len(cd) < Wide
    BY <1>3
  <2>3. out # NULL
    BY <1>4
  <2>4. ReadAsWritten(new, out, Len(body) + Len(cd), cd, c)
    BY <2>1, <2>2, <2>3, OwnCdir
  <2>5. QED BY <2>4 DEF ReadAsWritten
<1> HIDE DEF new
<1>9. ASSUME NEW j \in DOMAIN new.entry PROVE Saved(FileList[j], new.entry[j])
  BY <1>1, <1>8, <1>9 DEF SavedSoFar
<1>10. flags \/ ch_flags \/ new.comment = ArchiveComment
  <2> SUFFICES ASSUME ~ flags, ~ ch_flags PROVE new.comment = ArchiveComment
    OBVIOUS
  <2>1. NewArchiveComment = ArchiveComment
    BY DEF NewArchiveComment, ArchiveComment
  <2>2. IsFile(ArchiveComment) /\ Len(ArchiveComment) < Wide
    BY <1>1, CommentIsFile, NoUnit, WideAssumption
    DEF ArchiveComment, DiskInv, Undamaged, CdirRead, ShortComments
  <2>3. Len(ArchiveComment) = c
    <3>1. Len(ArchiveComment) \in Nat
      BY <2>2, FileUnits
    <3>2. QED BY <1>2, <2>1, <2>2, <3>1, WideAssumption
  <2>4. \A k \in 1 .. c : out[Len(body) + Len(cd) + 1 + k] = ArchiveComment[k]
    BY <1>2 DEF ArchiveCommentWritten
  <2>5. Len(new.comment) = Len(ArchiveComment)
        /\ \A k \in 1 .. Len(new.comment) : new.comment[k] = ArchiveComment[k]
    BY <1>8, <2>3, <2>4
  <2>6. QED BY <1>8, <2>2, <2>5, SameFile
<1>11. QED BY <1>3, <1>5, <1>7, <1>8, <1>9, <1>10

(* What zip_close has written shows what the handle showed, whatever was   *)
(* changed and whatever failed before, if zip_open takes the end record    *)
(* that zip_close wrote.  A comment of 65536 bytes, which                  *)
(* zip_set_archive_comment accepts, is lost.                               *)
THEOREM SavedIfTaken ==
  ASSUME ~ IsFile(NULL), ShortComments
  PROVE  Spec => [](OwnTaken => SavedIsShown)
<1>1. DiskInv /\ SaveInv => (OwnTaken => SavedIsShown)
  BY WrittenIsShown
<1>2. Init => IInv /\ DiskInv /\ SaveInv
  BY InitIInv, DiskInit, InitSaved
<1>3. IInv /\ DiskInv /\ SaveInv /\ [Next]_vars
        => (IInv /\ DiskInv /\ SaveInv)'
  BY NextIInv, NextDisk, NextSaved
<1>4. QED BY <1>1, <1>2, <1>3, PTL DEF Spec

(***************************************************************************)
(* Archives without other archives in them.                                *)
(*                                                                         *)
(* If the files and comments the program starts with have no end record    *)
(* but the one that ends a file, no file it leaves has another one.        *)
(***************************************************************************)

NoEnd(f) == \A k \in 1 .. Len(f) : f[k].magic # "PK56"
NoEndBefore(f, n) == \A k \in 1 .. Len(f) : k <= n => f[k].magic # "PK56"

(* The end record at end is the only one, it ends the file, and the        *)
(* directory does not begin behind it.                                     *)
SoleEnd(f, end) ==
  /\ end \in Nat /\ end + 1 <= Len(f) /\ f[end + 1].magic = "PK56"
  /\ f[end + 1].offset <= end
  /\ f[end + 1].comment_len = Len(f) - (end + 1)
  /\ \A k \in 1 .. Len(f) : f[k].magic = "PK56" => k = end + 1

Plain(f) == \E end : SoleEnd(f, end)

PlainContents ==
  /\ \A f \in Archive \ {NULL, <<>>} : Plain(f)
  /\ \A comment \in Comment : NoEnd(comment)

LEMMA CandidateUnit ==
  ASSUME NEW f, f # NULL, IsFile(f), NEW check, NEW p \in Candidates(f, check)
  PROVE  /\ p \in Nat /\ p + 1 \in 1 .. Len(f) /\ f[p + 1].magic = "PK56"
         /\ f[p + 1].comment_len \in Nat
         /\ f[p + 1].comment_len <= Len(f) - (p + 1)
         /\ f[p + 1].offset \in Nat
<1>1. p \in Nat /\ p + 1 <= Len(f) /\ Len(f) \in Nat
  BY CandidateCdir, FileUnits
<1>2. HasMagic(f, p, "PK56") /\ IsCdir(f, p, check)
  BY DEF Candidates
<1>3. f[p + 1].magic = "PK56" /\ IsUnit(f[p + 1])
  BY <1>1, <1>2, FileUnits DEF HasMagic
<1>4. f[p + 1].comment_len \in Nat /\ f[p + 1].offset \in Nat
  BY <1>3, WideAssumption DEF IsUnit
<1>5. f[p + 1].comment_len <= Len(f) - p - EOCDLEN
  BY <1>2 DEF IsCdir
<1>6. Len(f) - p - EOCDLEN = Len(f) - (p + 1)
  BY <1>1 DEF EOCDLEN
<1>7. QED BY <1>1, <1>3, <1>4, <1>5, <1>6

LEMMA PlainCandidate ==
  ASSUME NEW f, f # NULL, IsFile(f), NEW end, SoleEnd(f, end),
         NEW check, NEW p \in Candidates(f, check)
  PROVE  p = end
<1>1. p \in Nat /\ p + 1 \in 1 .. Len(f) /\ f[p + 1].magic = "PK56"
  BY CandidateUnit
<1>2. end \in Nat /\ p + 1 = end + 1
  BY <1>1 DEF SoleEnd
<1>3. QED BY <1>1, <1>2

(* Before the directory and in the comment there is no end record.         *)
PlainCdir(f, c) ==
  c.offset \in Nat /\ NoEndBefore(f, c.offset) /\ NoEnd(c.comment)

LEMMA PlainIsRead ==
  ASSUME NEW f, f # NULL, IsFile(f), Plain(f), NEW check, HasCdir(f, check)
  PROVE  PlainCdir(f, FindCentralDir(f, check))
<1> DEFINE p == Best(f, check)
           c == ReadCdir(f, p)
<1>1. PICK end : SoleEnd(f, end)
  BY DEF Plain
<1>2. FindCentralDir(f, check) = c /\ p \in Candidates(f, check)
  BY BestIsCandidate DEF FindCentralDir, HasCdir
<1> HIDE DEF p
<1>3. p = end
  BY <1>1, <1>2, PlainCandidate
<1>4. /\ p \in Nat /\ p + 1 \in 1 .. Len(f) /\ Len(f) \in Nat
      /\ f[p + 1].comment_len \in Nat
      /\ f[p + 1].comment_len <= Len(f) - (p + 1)
      /\ f[p + 1].offset \in Nat /\ f[p + 1].offset <= p
  BY <1>1, <1>2, <1>3, CandidateUnit, FileUnits DEF SoleEnd
<1>5. \A k \in 1 .. Len(f) : f[k].magic = "PK56" => k = p + 1
  BY <1>1, <1>3 DEF SoleEnd
<1>6. c.offset \in Nat /\ NoEndBefore(f, c.offset)
  <2>1. c.offset = f[p + 1].offset
    BY DEF ReadCdir
  <2>2. QED BY <1>4, <1>5, <2>1 DEF NoEndBefore
<1>7. NoEnd(c.comment)
  <2>1. PICK len \in Nat : len = f[p + 1].comment_len
    BY <1>4
  <2>2. c.comment = ReadAt(f, p + 1, len)
    BY <2>1 DEF ReadCdir, EOCDLEN
  <2>3. p + 1 \in Nat /\ (p + 1) + len <= Len(f)
    BY <1>4, <2>1
  <2>4. Len(c.comment) = len /\ \A k \in 1 .. len : c.comment[k] = f[p + 1 + k]
    BY <2>2, <2>3, FileRead
  <2> HIDE DEF c
  <2>5. ASSUME NEW k \in 1 .. len PROVE f[p + 1 + k].magic # "PK56"
    <3>1. p + 1 + k \in 1 .. Len(f) /\ p + 1 + k # p + 1
      BY <1>4, <2>1
    <3>2. QED BY <1>5, <3>1, Zenon
  <2>6. QED BY <2>4, <2>5 DEF NoEnd
<1>8. QED BY <1>2, <1>6, <1>7 DEF PlainCdir

-----------------------------------------------------------------------------
(* What is written.                                                        *)
LEMMA BehindNoEnd ==
  ASSUME NEW f, IsFile(f), NoEnd(f), NEW unit, IsUnit(unit),
         unit.magic # "PK56", NEW units, IsFile(units), NoEnd(units)
  PROVE  NoEnd(Behind(f, unit, units))
<1> DEFINE h == Behind(f, unit, units)
<1>1. /\ IsFile(h) /\ Len(h) = Len(f) + 1 + Len(units)
      /\ \A k \in 1 .. Len(f) : h[k] = f[k]
      /\ h[Len(f) + 1] = unit
      /\ \A k \in 1 .. Len(units) : h[Len(f) + 1 + k] = units[k]
  <2>1. IsBehind(h, f, unit, units)
    BY FileAppended
  <2>2. QED BY <2>1 DEF IsBehind
<1>2. Len(f) \in Nat /\ Len(units) \in Nat
  BY FileUnits
<1> HIDE DEF h
<1>3. ASSUME NEW k \in 1 .. Len(h) PROVE h[k].magic # "PK56"
  <2>1. CASE k \in 1 .. Len(f)
    BY <1>1, <2>1 DEF NoEnd
  <2>2. CASE k = Len(f) + 1
    BY <1>1, <2>2
  <2>3. CASE k > Len(f) + 1
    <3>1. PICK n \in 1 .. Len(units) : k = Len(f) + 1 + n
      <4>1. k - (Len(f) + 1) \in 1 .. Len(units)
            /\ k = Len(f) + 1 + (k - (Len(f) + 1))
        BY <1>1, <1>2, <2>3
      <4>2. QED BY <4>1
    <3>2. h[k] = units[n] /\ units[n].magic # "PK56"
      BY <1>1, <3>1 DEF NoEnd
    <3>3. QED BY <3>2
  <2>4. QED BY <1>1, <1>2, <2>1, <2>2, <2>3
<1>4. QED BY <1>3 DEF NoEnd, h

LEMMA WrittenIsPlain ==
  ASSUME NEW f, NEW body, IsFile(body), NoEnd(body),
         NEW d, d \in Seq(ToSet(d)), NEW c, EndsWith(f, body, d, c),
         \A k \in 1 .. c : f[Len(body) + Len(d) + 1 + k].magic # "PK56"
  PROVE  Plain(f)
<1> DEFINE b == Len(body)
           n == Len(d)
<1>1. b \in Nat /\ n \in Nat /\ c \in Nat
  BY FileUnits, LenProperties DEF EndsWith
<1>2. /\ Len(f) = b + n + 1 + c
      /\ \A k \in 1 .. b : f[k] = body[k]
      /\ \A k \in 1 .. n : f[b + k] = Central(d[k])
      /\ f[b + n + 1] = EndOfCentralDir(n % Wide, n, b, c)
      /\ \A k \in 1 .. c : f[b + n + 1 + k].magic # "PK56"
  BY DEF EndsWith
<1> DEFINE end == b + n
<1>3. /\ f[end + 1].magic = "PK56" /\ f[end + 1].offset = b
      /\ f[end + 1].comment_len = c
  BY <1>2 DEF EndOfCentralDir
<1>4. \A k \in 1 .. b : body[k].magic # "PK56"
  BY DEF NoEnd
<1> HIDE DEF b, n
<1>5. ASSUME NEW k \in 1 .. Len(f), f[k].magic = "PK56" PROVE k = end + 1
  <2>1. ~ (k \in 1 .. b)
    BY <1>2, <1>4, <1>5
  <2>2. ASSUME k \in b + 1 .. b + n PROVE FALSE
    <3>1. k - b \in 1 .. n /\ k = b + (k - b)
      BY <1>1, <2>2
    <3>2. f[k] = Central(d[k - b])
      BY <1>2, <3>1
    <3>3. f[k].magic = "PK12"
      BY <3>2 DEF Central
    <3>4. QED BY <1>5, <3>3
  <2>3. ASSUME k > b + n + 1 PROVE FALSE
    <3>1. k - (b + n + 1) \in 1 .. c /\ k = b + n + 1 + (k - (b + n + 1))
      BY <1>1, <1>2, <2>3
    <3>2. QED BY <1>2, <1>5, <3>1
  <2>4. QED BY <1>1, <1>2, <2>1, <2>2, <2>3
<1>6. end \in Nat /\ end + 1 <= Len(f) /\ b <= end /\ c = Len(f) - (end + 1)
  BY <1>1, <1>2
<1> HIDE DEF end
<1>7. SoleEnd(f, end)
  BY <1>3, <1>5, <1>6 DEF SoleEnd
<1>8. QED BY <1>7 DEF Plain

-----------------------------------------------------------------------------
(* As long as nothing is damaged, all that is there has no end record but  *)
(* the last.                                                               *)
PlainNow ==
  /\ Undamaged
  /\ disk \in {NULL, <<>>} \/ Plain(disk)
  /\ cdir = NULL \/ PlainCdir(disk, cdir)
  /\ pc = "writing" => NoEnd(out)
  /\ pc = "written" => out = NULL \/ Plain(out)

PlainInv == damaged \/ PlainNow

LEMMA PlainInit == ASSUME PlainContents, Init PROVE PlainInv
<1>1. disk \in Archive /\ pc = "closed" /\ cdir = NULL /\ ~ damaged
  BY DEF Init
<1>2. Undamaged
  BY <1>1, DiskInit DEF DiskInv
<1>3. disk \in {NULL, <<>>} \/ Plain(disk)
  BY <1>1 DEF PlainContents
<1>4. QED BY <1>1, <1>2, <1>3 DEF PlainInv, PlainNow

(* The steps that damage nothing.                                          *)
LEMMA PlainSame ==
  ASSUME PlainNow, Undamaged', UNCHANGED <<disk, cdir>>,
         pc' \notin {"writing", "written"}
  PROVE  PlainNow'
BY DEF PlainNow

LEMMA PlainOpen ==
  ASSUME PlainNow, Undamaged', NEW check, Open(check)
  PROVE  PlainNow'
<1>1. disk' = disk /\ pc' = "open"
  BY DEF Open
<1>2. ASSUME cdir' # NULL PROVE PlainCdir(disk, cdir')
  <2>1. disk \notin {NULL, <<>>} /\ HasCdir(disk, check)
        /\ cdir' = FindCentralDir(disk, check)
    BY <1>2 DEF Open, AllocateNew
  <2>2. IsFile(disk) /\ Plain(disk)
    BY <2>1 DEF PlainNow, Undamaged, Sound
  <2>3. QED BY <2>1, <2>2, PlainIsRead
<1>3. QED BY <1>1, <1>2 DEF PlainNow

LEMMA PlainFreed ==
  ASSUME PlainNow, Undamaged', Freed,
         disk' \in {disk, NULL} \/ (pc = "written" /\ disk' = out)
  PROVE  PlainNow'
BY DEF PlainNow, Freed

(* A header and data more.                                                 *)
LEMMA PlainMore ==
  ASSUME PlainNow, Undamaged', UNCHANGED <<disk, cdir, pc>>, pc = "writing",
         NEW de, IsDirent(de), NEW units, IsFile(units), NoEnd(units),
         out' = Behind(out, Local(de), units)
  PROVE  PlainNow'
<1>1. IsFile(out) /\ NoEnd(out)
  BY DEF PlainNow, Undamaged, AllKept
<1>2. IsUnit(Local(de)) /\ Local(de).magic # "PK56"
  BY DEF IsUnit, Local
<1>3. NoEnd(out')
  BY <1>1, <1>2, BehindNoEnd
<1>4. QED BY <1>3 DEF PlainNow

LEMMA NoEndNone == NoEnd(<<>>)
BY DEF NoEnd

LEMMA PlainAddData ==
  ASSUME IInv, DiskInv, PlainNow, Undamaged', NEW i \in Survivors, AddData(i)
  PROVE  PlainNow'
<1>1. UNCHANGED <<disk, cdir, pc>> /\ pc = "writing" /\ Undamaged
  BY DEF AddData, NextFile, PlainNow
<1>2. PICK de, units :
        /\ out' = Behind(out, Local(de), units) /\ IsDirent(de)
        /\ IsFile(units)
        /\ units = <<Deflated(Data(i))>> \/ units = <<>>
  BY <1>1, AddDataWrites
<1>3. NoEnd(units)
  <2>1. CASE units = <<Deflated(Data(i))>>
    <3> DEFINE unit == Deflated(Data(i))
    <3>1. unit.magic # "PK56"
      BY DEF Deflated, Piece
    <3> HIDE DEF unit
    <3>2. Len(<<unit>>) = 1 /\ <<unit>>[1] = unit
      OBVIOUS
    <3>3. NoEnd(<<unit>>)
      BY <3>1, <3>2 DEF NoEnd
    <3>4. QED BY <2>1, <3>3 DEF unit
  <2>2. QED BY <1>2, <2>1, NoEndNone
<1>4. QED BY <1>1, <1>2, <1>3, PlainMore

LEMMA PlainCopyData ==
  ASSUME IInv, DiskInv, PlainNow, Undamaged', NEW i \in Survivors, CopyData(i)
  PROVE  PlainNow'
<1> DEFINE old == cdir.entry[i]
<1>1. UNCHANGED <<disk, cdir, pc>> /\ pc = "writing" /\ Undamaged
  BY DEF CopyData, NextFile, PlainNow
<1>2. PICK de, units :
        /\ out' = Behind(out, Local(de), units) /\ IsDirent(de)
        /\ IsFile(units) /\ zp # NULL /\ IsFile(zp) /\ Kept(zp, old)
        /\ units = ReadAt(zp, old.offset + LENTRYSIZE, old.comp_size)
  BY <1>1, CopyDataWrites
<1>3. cdir # NULL /\ old \in ToSet(cdir.entry) /\ zp = disk
  BY <1>2, CopiedFromCdir DEF DiskInv
<1>4. /\ Consistent(disk, cdir, old)
      /\ cdir.offset \in Nat /\ NoEndBefore(disk, cdir.offset)
  BY <1>1, <1>3 DEF PlainNow, PlainCdir, Undamaged, CdirRead, Agrees
<1>5. PICK at \in Nat, len \in Nat : at = old.offset /\ len = old.comp_size
  BY <1>2 DEF Kept, IsDirent
<1> HIDE DEF old
<1>6. at + len + 1 <= Len(disk) /\ at + len + 1 <= cdir.offset
  BY <1>2, <1>3, <1>4, <1>5 DEF Kept, Consistent, LENTRYSIZE
<1>7. units = ReadAt(disk, at + 1, len)
  BY <1>2, <1>3, <1>5 DEF LENTRYSIZE
<1>8. Len(units) = len /\ \A k \in 1 .. len : units[k] = disk[at + 1 + k]
  <2>1. /\ IsFile(disk) /\ disk # NULL /\ at + 1 \in Nat
        /\ (at + 1) + len <= Len(disk)
    BY <1>2, <1>3, <1>6
  <2>2. QED BY <1>7, <2>1, FileRead
<1>9. NoEnd(units)
  <2>1. ASSUME NEW k \in 1 .. len PROVE disk[at + 1 + k].magic # "PK56"
    <3>1. PICK n \in Nat : n = at + 1 + k
      OBVIOUS
    <3>2. n \in 1 .. Len(disk) /\ n <= cdir.offset
      <4>1. cdir.offset \in Nat /\ Len(disk) \in Nat
        BY <1>2, <1>3, <1>4, FileUnits
      <4>2. QED BY <1>6, <3>1, <4>1
    <3>3. QED BY <1>4, <3>1, <3>2 DEF NoEndBefore
  <2>2. QED BY <1>8, <2>1 DEF NoEnd
<1>10. QED BY <1>1, <1>2, <1>9, PlainMore

LEMMA PlainGhost ==
  ASSUME PlainNow, Undamaged', NEW i, CopyGhost(i)
  PROVE  PlainNow'
<1>1. UNCHANGED <<disk, cdir, pc>> /\ pc = "writing" /\ Undamaged
  BY DEF CopyGhost, NextFile, PlainNow
<1>2. PICK de : out' = Behind(out, Local(de), <<>>) /\ IsDirent(de)
  BY <1>1, GhostWrites
<1>3. QED BY <1>1, <1>2, NoEndNone, NoUnit, PlainMore

LEMMA NewCommentNoEnd ==
  ASSUME PlainContents, DiskInv, cdir = NULL \/ NoEnd(cdir.comment)
  PROVE  NoEnd(NewArchiveComment)
<1>1. CASE ch_flags
  <2> DEFINE unit == Torrentzipped(FilerangeCrc(CdirWrite(out, cd, <<>>),
                                                Len(out), Len(cd)))
  <2>1. unit.magic # "PK56"
    BY DEF Torrentzipped
  <2>2. NewArchiveComment = <<unit>>
    BY <1>1 DEF NewArchiveComment
  <2> HIDE DEF unit
  <2>3. Len(<<unit>>) = 1 /\ <<unit>>[1] = unit
    OBVIOUS
  <2>4. QED BY <2>1, <2>2, <2>3 DEF NoEnd
<1>2. CASE ~ ch_flags
  <2>1. \/ NewArchiveComment = <<>>
        \/ NewArchiveComment = ch_comment /\ ch_comment # NULL
        \/ NewArchiveComment = cdir.comment /\ cdir # NULL
    BY <1>2 DEF NewArchiveComment
  <2>2. QED BY <2>1, NoEndNone DEF DiskInv, PlainContents
<1>3. QED BY <1>1, <1>2

LEMMA PlainWrite ==
  ASSUME PlainContents, IInv, DiskInv, PlainNow, Undamaged', WriteCdir
  PROVE  PlainNow'
<1>1. PICK body, c : body = out /\ c = Len(NewArchiveComment) % Wide
  OBVIOUS
<1>2. UNCHANGED <<disk, cdir>> /\ pc = "writing" /\ pc' = "written" /\ Undamaged
  BY DEF WriteCdir, handle, PlainNow
<1>3. /\ EndsWith(out', body, cd, c)
      /\ \A k \in 1 .. c :
           out'[Len(body) + Len(cd) + 1 + k] = NewArchiveComment[k]
  BY <1>1, <1>2, WriteEnds
<1>4. /\ IsFile(body) /\ NoEnd(body) /\ cd \in Seq(ToSet(cd))
      /\ IsFile(NewArchiveComment) /\ NoEnd(NewArchiveComment)
  BY <1>1, <1>2, NewCommentIsFile, NewCommentNoEnd
  DEF PlainNow, PlainCdir, Undamaged, AllKept
<1>5. ASSUME NEW k \in 1 .. c
      PROVE  out'[Len(body) + Len(cd) + 1 + k].magic # "PK56"
  <2>1. Len(NewArchiveComment) \in Nat
    BY <1>4, FileUnits
  <2>2. k \in 1 .. Len(NewArchiveComment)
    BY <1>1, <2>1, ModBounds
  <2>3. QED BY <1>3, <1>4, <2>2 DEF NoEnd
<1>6. Plain(out')
  BY <1>3, <1>4, <1>5, WrittenIsPlain
<1>7. QED BY <1>2, <1>6 DEF PlainNow

(* No step undoes damage.                                                  *)
LEMMA DamagedStays == ASSUME [Next]_vars, damaged PROVE damaged'
<1>1. CASE UNCHANGED vars
  BY <1>1 DEF vars
<1>2. ASSUME Rest PROVE damaged'
  BY <1>2 DEF Rest
<1>3. ASSUME NEW check, Open(check) \/ SetArchiveFlag(check) PROVE damaged'
  BY <1>2, <1>3 DEF Open, SetArchiveFlag
<1>4. ASSUME NEW name, NEW source, Add(name, source) PROVE damaged'
  BY <1>2, <1>4 DEF Add
<1>5. ASSUME NEW name, AddDir(name) PROVE damaged'
  BY <1>4, <1>5 DEF AddDir
<1>6. ASSUME NEW comment, SetArchiveComment(comment) PROVE damaged'
  BY <1>2, <1>6 DEF SetArchiveComment
<1>7. CASE UnchangeArchive \/ UnchangeAll
  BY <1>2, <1>7 DEF UnchangeArchive, UnchangeAll
<1>8. ASSUME NEW i \in DOMAIN entry,
             \/ \E source \in Source : Replace(i, source)
             \/ \E name \in Name : Rename(i, name)
             \/ \E comment \in Comment : SetFileComment(i, comment)
             \/ Delete(i) \/ Unchange(i)
      PROVE  damaged'
  BY <1>2, <1>8 DEF Replace, Rename, SetFileComment, Delete, Unchange
<1>9. ASSUME NEW i, AddData(i) \/ CopyData(i) \/ CopyGhost(i) PROVE damaged'
  BY <1>9 DEF AddData, CopyData, CopyGhost
<1>10. ASSUME \/ CloseUnchanged \/ CloseEmpty \/ CloseBegin \/ WriteCdir
              \/ CloseEnd \/ CloseEmptyFails \/ CloseFails \/ Killed \/ Cut
       PROVE  damaged'
  BY <1>10 DEF CloseUnchanged, CloseEmpty, CloseBegin, WriteCdir, CloseEnd,
               CloseEmptyFails, CloseFails, Killed, Cut
<1>11. QED
  BY <1>1, <1>3, <1>4, <1>5, <1>6, <1>7, <1>8, <1>9, <1>10 DEF Next

LEMMA PlainNext ==
  ASSUME PlainContents, IInv, DiskInv, PlainInv, [Next]_vars
  PROVE  PlainInv'
<1>1. CASE damaged
  BY <1>1, DamagedStays DEF PlainInv
<1>2. CASE Cut
  BY <1>2 DEF Cut, PlainInv
<1>3. CASE ~ Cut /\ ~ damaged
  <2>1. PlainNow /\ Undamaged
    BY <1>3 DEF PlainInv, PlainNow
  <2>2. Undamaged'
    BY <1>3, <2>1, NextDisk DEF StaysUndamaged
  <2> SUFFICES PlainNow'
    BY DEF PlainInv
  <2>3. CASE UNCHANGED vars
    <3>1. UNCHANGED <<disk, cdir, pc, out>>
      BY <2>3 DEF vars, handle
    <3>2. QED BY <1>3, <2>1, <2>2, <3>1 DEF PlainNow
  <2>4. ASSUME Edit, Rest PROVE PlainNow'
    <3>1. UNCHANGED <<disk, cdir>> /\ pc' = "open"
      BY <2>4 DEF Edit, Rest
    <3>2. QED BY <1>3, <2>1, <2>2, <3>1, PlainSame
  <2>5. ASSUME NEW check \in BOOLEAN, Open(check) \/ SetArchiveFlag(check)
        PROVE  PlainNow'
    <3>1. CASE Open(check)
      BY <1>3, <2>1, <2>2, <3>1, PlainOpen DEF Open
    <3>2. CASE SetArchiveFlag(check)
      BY <2>4, <3>2 DEF SetArchiveFlag
    <3>3. QED BY <2>5, <3>1, <3>2
  <2>6. ASSUME NEW name, NEW source, Add(name, source)
        PROVE  PlainNow'
    BY <2>4, <2>6 DEF Add
  <2>7. ASSUME NEW name, AddDir(name) PROVE PlainNow'
    BY <2>6, <2>7 DEF AddDir
  <2>8. ASSUME NEW comment, SetArchiveComment(comment) PROVE PlainNow'
    BY <2>4, <2>8 DEF SetArchiveComment
  <2>9. CASE UnchangeArchive \/ UnchangeAll
    BY <2>4, <2>9 DEF UnchangeArchive, UnchangeAll
  <2>10. ASSUME NEW i \in DOMAIN entry,
                \/ \E source \in Source : Replace(i, source)
                \/ \E name \in Name : Rename(i, name)
                \/ \E comment \in Comment : SetFileComment(i, comment)
                \/ Delete(i) \/ Unchange(i)
         PROVE  PlainNow'
    BY <2>4, <2>10 DEF Replace, Rename, SetFileComment, Delete, Unchange
  <2>11. ASSUME NEW i \in Survivors, AddData(i) \/ CopyData(i) \/ CopyGhost(i)
         PROVE  PlainNow'
    BY <2>1, <2>2, <2>11, PlainAddData, PlainCopyData, PlainGhost
  <2>12. CASE CloseUnchanged \/ CloseEmpty \/ CloseEnd \/ Killed
    <3>1. Freed /\ (disk' \in {disk, NULL} \/ (pc = "written" /\ disk' = out))
      BY <2>12 DEF CloseUnchanged, CloseEmpty, CloseEnd, Killed
    <3>2. QED BY <2>1, <2>2, <3>1, PlainFreed
  <2>13. CASE CloseBegin
    <3>1. UNCHANGED <<disk, cdir>> /\ pc' = "writing" /\ out' = <<>>
      BY <2>13 DEF CloseBegin, handle, TempOutput
    <3>2. QED BY <1>3, <2>1, <2>2, <3>1, NoEndNone DEF PlainNow
  <2>14. CASE WriteCdir
    BY <1>3, <2>1, <2>2, <2>14, PlainWrite DEF WriteCdir
  <2>15. CASE CloseFails
    <3>1. UNCHANGED <<disk, cdir>> /\ pc' = "open"
      BY <2>15 DEF CloseFails
    <3>2. QED BY <1>3, <2>1, <2>2, <3>1, PlainSame
  <2>16. CASE CloseEmptyFails
    <3>1. UNCHANGED <<disk, cdir, pc, out>>
      BY <2>16 DEF CloseEmptyFails, handle
    <3>2. QED BY <2>1, <2>2, <3>1 DEF PlainNow
  <2>17. QED
    BY <1>3, <2>3, <2>5, <2>6, <2>7, <2>8, <2>9, <2>10, <2>11, <2>12, <2>13,
       <2>14, <2>15, <2>16 DEF Next
<1>4. QED BY <1>1, <1>2, <1>3

(* zip_open takes the end record that zip_close wrote.                 *)
LEMMA PlainIsTaken ==
  ASSUME ~ IsFile(NULL), SaveInv, PlainInv, pc = "written", ~ damaged,
         Len(cd) < Wide
  PROVE  OwnTaken
<1>1. OwnWritten /\ PlainNow
  BY DEF SaveInv, PlainInv
<1>2. PICK body, c : IsFile(body) /\ EndsWith(out, body, cd, c)
                     /\ c = Len(NewArchiveComment) % Wide
  BY <1>1 DEF OwnWritten
<1>3. cd \in Seq(ToSet(cd)) /\ Len(cd) > 0
  BY <1>1 DEF OwnWritten
<1>4. IsFile(out)
  BY <1>2 DEF EndsWith
<1>5. out # NULL
  BY <1>4
<1>6. PICK end : SoleEnd(out, end)
  BY <1>1, <1>5 DEF PlainNow, Plain
<1>7. Len(body) + Len(cd) = end /\ OwnEnd = end
  <2>1. Len(body) \in Nat /\ Len(cd) \in Nat /\ c \in Nat
        /\ Len(out) = Len(body) + Len(cd) + 1 + c
    BY <1>2, <1>3, FileUnits, LenProperties DEF EndsWith
  <2>2. out[Len(body) + Len(cd) + 1].magic = "PK56"
    BY <1>2 DEF EndsWith, EndOfCentralDir
  <2>3. Len(body) + Len(cd) + 1 \in 1 .. Len(out)
    BY <2>1
  <2>4. Len(body) + Len(cd) + 1 = end + 1 /\ end \in Nat
    BY <1>6, <2>2, <2>3 DEF SoleEnd
  <2>5. OwnEnd = Len(out) - 1 - c
    BY <1>2 DEF OwnEnd, EOCDLEN
  <2>6. QED BY <2>1, <2>4, <2>5
<1>8. ASSUME NEW check \in BOOLEAN PROVE Best(out, check) = OwnEnd
  <2>1. Candidates(out, TRUE) # {}
    BY <1>1, <1>5 DEF PlainNow, Undamaged, Sound, HasCdir
  <2>2. Candidates(out, TRUE) \subseteq Candidates(out, check)
    BY DEF Candidates, IsCdir
  <2>3. Best(out, check) \in Candidates(out, check)
    BY <1>4, <1>5, <2>1, <2>2, BestIsCandidate
  <2>4. QED BY <1>4, <1>5, <1>6, <1>7, <2>3, PlainCandidate
<1>9. QED BY <1>8 DEF OwnTaken

(* Then what zip_close has written always shows what the handle showed, if *)
(* it has fewer than 65536 files.                                          *)
THEOREM PlainIsSaved ==
  ASSUME ~ IsFile(NULL), ShortComments, PlainContents
  PROVE  Spec => [](Len(cd) < Wide => SavedIsShown)
<1>1. DiskInv /\ SaveInv /\ PlainInv => (Len(cd) < Wide => SavedIsShown)
  <2> SUFFICES ASSUME DiskInv, SaveInv, PlainInv, Len(cd) < Wide,
                      pc = "written", ~ damaged
               PROVE  SavedIsShown
    BY DEF SavedIsShown
  <2>1. OwnTaken
    BY PlainIsTaken
  <2>2. QED BY <2>1, WrittenIsShown
<1>2. Init => IInv /\ DiskInv /\ SaveInv /\ PlainInv
  BY InitIInv, DiskInit, InitSaved, PlainInit
<1>3. IInv /\ DiskInv /\ SaveInv /\ PlainInv /\ [Next]_vars
        => (IInv /\ DiskInv /\ SaveInv /\ PlainInv)'
  BY NextIInv, NextDisk, NextSaved, PlainNext
<1>4. QED BY <1>1, <1>2, <1>3, PTL DEF Spec
===============================================================================
