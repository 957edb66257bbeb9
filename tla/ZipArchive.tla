----------------------------- MODULE ZipArchive -----------------------------
(***************************************************************************)
(* A program that changes a zip file with libzip: zip_open reads the       *)
(* central directory, zip_add, zip_replace, zip_delete, zip_rename,        *)
(* zip_set_file_comment and others only note a change in the handle, and   *)
(* zip_close writes the file anew beside the old one, entry by entry, and  *)
(* renames it.  Each step of zip_close can fail, and leaves a handle with  *)
(* which the caller can go on; the program can be killed at any time.      *)
(*                                                                         *)
(* A name is a number; the order of the numbers is that of strcasecmp.     *)
(***************************************************************************)
EXTENDS ZipFormat

CONSTANTS
  Archive,      \* files the archive may be at first: sequences of units, NULL
  Name,         \* names the program uses
  Content,      \* data of files it adds
  Comment,      \* comments it sets, of files and of the archive
  MaxEntries,   \* bound: entries of a handle
  MaxOps,       \* bound: changes
  MaxFaults     \* bound: calls that fail, kills, and files cut short

ASSUME NameAssumption == Name \subseteq Nat /\ NULL \notin Nat
ASSUME NullAssumption ==
  NULL \notin [raw : BOOLEAN, data : Content \cup {<<>>}, reads : 0 .. 2]
ASSUME BoundAssumption == MaxOps \in Nat /\ MaxFaults \in Nat
ASSUME UnitAssumption ==
  \A f \in (Archive \ {NULL}) \cup Comment : IsFile(f)
ASSUME ArchiveAssumption ==
  \A f \in Archive \ {NULL, <<>>} : HasCdir(f, TRUE)

Slash == 100   \* what a slash at the end adds to a name
Dash == 0      \* "-", the name of a file that has none
Garbage == 99  \* a name read from memory that was never written

IsDir(name) == name >= Slash
DirName(name) == IF IsDir(name) THEN name ELSE name + Slash

(* struct zip_source: a buffer or file, or (raw) an entry of another       *)
(* archive as it is compressed there, which can be read once.              *)
SourceFunction(raw, data) == [raw |-> raw, data |-> data, reads |-> 0]
SourceFilep(data) == SourceFunction(FALSE, data)
SourceZip(data) == SourceFunction(TRUE, data)
Source == UNION {{SourceFilep(data), SourceZip(data)} : data \in Content}
NoData == SourceFunction(FALSE, <<>>)

VARIABLES
  disk,         \* the zip file, NULL if there is none
  pc,           \* the handle is "closed", "open", or zip_close is "writing"
                \* entries or has "written" all
  zp,           \* the contents of the file the handle has open, or NULL
  cdir,         \* the central directory as zip_open read it, or NULL
  flags,        \* the file is torrentzipped
  ch_flags,     \* it shall be torrentzipped
  ch_comment,   \* the new comment of the archive, NULL if unchanged
  entry,        \* the entries
  out,          \* the temporary file, or NULL
  cd,           \* the directory entries of what is in out
  revived,      \* history: a deleted entry was unchanged or replaced
  damaged,      \* history: the file was not written by a zip_close that
                \* knew all names, or was cut
  uncut,        \* history: what a file that was cut was before, or NULL
  ops, faults

handle == <<zp, cdir, flags, ch_flags, ch_comment, entry>>
vars == <<disk, pc, handle, out, cd, revived, damaged, uncut, ops,
          faults>>

EntryNew == [state |-> "UNCHANGED", source |-> NULL, ch_filename |-> NULL,
             ch_comment |-> NULL]

Init ==
  /\ disk \in Archive
  /\ pc = "closed"
  /\ zp = NULL /\ cdir = NULL
  /\ flags = FALSE /\ ch_flags = FALSE /\ ch_comment = NULL
  /\ entry = <<>>
  /\ out = NULL /\ cd = <<>>
  /\ revived = FALSE /\ damaged = FALSE /\ uncut = NULL
  /\ ops = 0 /\ faults = 0

-----------------------------------------------------------------------------
(* There is nothing to read: no file, or an empty one.                     *)
AllocateNew == disk \in {NULL, <<>>}

(* zip_open with ZIP_CREATE, and with ZIP_CHECKCONS or not.                *)
Open(check) ==
  /\ pc = "closed"
  /\ zp' = disk
  /\ ~ AllocateNew => HasCdir(disk, check)
  /\ cdir' = IF AllocateNew THEN NULL ELSE FindCentralDir(disk, check)
  /\ entry' = IF cdir' = NULL THEN <<>>
              ELSE [i \in DOMAIN cdir'.entry |-> EntryNew]
  /\ flags' = (cdir' # NULL /\ IsTorrentzip(disk, cdir'))
  /\ ch_flags' = flags'
  /\ ch_comment' = NULL
  /\ pc' = "open" /\ revived' = FALSE
  /\ UNCHANGED <<disk, out, cd, damaged, uncut, ops, faults>>

(* _zip_free *)
Freed ==
  /\ pc' = "closed"
  /\ zp' = NULL /\ cdir' = NULL
  /\ flags' = FALSE /\ ch_flags' = FALSE /\ ch_comment' = NULL
  /\ entry' = <<>>
  /\ out' = NULL /\ cd' = <<>>
  /\ revived' = FALSE

-----------------------------------------------------------------------------
(* The state of the entries.                                               *)

Nentry == IF cdir = NULL THEN 0 ELSE Len(cdir.entry)

CdirName(i) == IF i <= Nentry THEN cdir.entry[i].name ELSE NULL

GetName(e, i) ==
  IF e[i].state = "DELETED" THEN NULL
  ELSE IF e[i].ch_filename # NULL THEN e[i].ch_filename
  ELSE CdirName(i)

Locate(e, name) == {i \in DOMAIN e : GetName(e, i) = name}

(* Faulty variant: only the names in the file are compared. *)
Taken_Unchanged(e, i, name) ==
  name # NULL /\ \E k \in 1 .. Nentry : CdirName(k) = name /\ k # i

(* The first entry of that name is another one.                            *)
Taken(e, i, name) ==
  name # NULL /\ Locate(e, name) # {} /\ Min(Locate(e, name)) # i

SetName(e, i, name) ==
  IF i \in Locate(e, name) THEN e
  ELSE [e EXCEPT ![i].ch_filename = name,
                 ![i].state = IF @ = "UNCHANGED" THEN "RENAMED" ELSE @]

DataChanged(i) == entry[i].state \in {"ADDED", "REPLACED"}

-----------------------------------------------------------------------------
(* Changes.  A call that fails changes nothing if it is not said here.     *)

Edit == pc = "open" /\ ops < MaxOps /\ ops' = ops + 1
Rest == UNCHANGED <<disk, pc, zp, cdir, flags, out, cd, damaged, uncut, faults>>

(* zip_add.  The new entry stays when the name is taken.                   *)
Add(name, source) ==
  /\ Edit /\ Len(entry) < MaxEntries
  /\ LET e == Append(entry, EntryNew)
         i == Len(e)
     IN entry' = IF Taken(e, i, name) THEN e
                 ELSE [SetName(e, i, name) EXCEPT ![i].state = "ADDED",
                                                  ![i].source = source]
  /\ UNCHANGED <<ch_flags, ch_comment, revived>> /\ Rest

AddDir(name) == Add(DirName(name), NoData)

(* _zip_unchange_data: the source is freed, a new name stays.              *)
UnchangeData(ze) ==
  [ze EXCEPT !.source = NULL,
             !.state = IF ze.ch_filename = NULL THEN "UNCHANGED" ELSE "RENAMED"]

(* _zip_unchange *)
Unchanged(ze) ==
  UnchangeData([ze EXCEPT !.ch_filename = NULL, !.ch_comment = NULL])

Replace(i, source) ==
  /\ Edit
  /\ entry' = [entry EXCEPT ![i] =
                 [UnchangeData(@) EXCEPT
                    !.state = IF i <= Nentry THEN "REPLACED" ELSE "ADDED",
                    !.source = source]]
  /\ revived' = (revived \/ entry[i].state = "DELETED")
  /\ UNCHANGED <<ch_flags, ch_comment>> /\ Rest

Delete(i) ==
  /\ Edit
  /\ entry' = [entry EXCEPT ![i] = [Unchanged(@) EXCEPT !.state = "DELETED"]]
  /\ UNCHANGED <<ch_flags, ch_comment, revived>> /\ Rest

Rename(i, name) ==
  /\ Edit
  /\ GetName(entry, i) # NULL
  /\ IsDir(name) = IsDir(GetName(entry, i))
  /\ ~ Taken(entry, i, name)
  /\ entry' = SetName(entry, i, name)
  /\ UNCHANGED <<ch_flags, ch_comment, revived>> /\ Rest

SetFileComment(i, comment) ==
  /\ Edit
  /\ entry' = [entry EXCEPT ![i].ch_comment = comment]
  /\ UNCHANGED <<ch_flags, ch_comment, revived>> /\ Rest

SetArchiveComment(comment) ==
  /\ Edit
  /\ ch_comment' = comment
  /\ UNCHANGED <<ch_flags, entry, revived>> /\ Rest

SetArchiveFlag(torrent) ==
  /\ Edit
  /\ ch_flags' = torrent
  /\ UNCHANGED <<ch_comment, entry, revived>> /\ Rest

(* zip_unchange.  An entry without a new name is not checked.              *)
Unchange(i) ==
  /\ Edit
  /\ ~ (entry[i].ch_filename # NULL /\ Taken(entry, i, CdirName(i)))
  /\ entry' = [entry EXCEPT ![i] = Unchanged(@)]
  /\ revived' = (revived \/ entry[i].state = "DELETED")
  /\ UNCHANGED <<ch_flags, ch_comment>> /\ Rest

UnchangeArchive ==
  /\ Edit
  /\ ch_comment' = NULL /\ ch_flags' = flags
  /\ UNCHANGED <<entry, revived>> /\ Rest

UnchangeAll ==
  /\ Edit
  /\ entry' = [i \in DOMAIN entry |-> Unchanged(entry[i])]
  /\ ch_comment' = NULL /\ ch_flags' = flags
  /\ UNCHANGED revived /\ Rest

-----------------------------------------------------------------------------
(* zip_close                                                               *)

Survivors == {i \in DOMAIN entry : entry[i].state # "DELETED"}

(* Entries that zip_add left without a name, or that were added and        *)
(* unchanged: nothing in the file belongs to them.                         *)
Ghosts == {i \in Survivors : i > Nentry /\ entry[i].state = "UNCHANGED"}

(* Faulty variant: new comments do not count. *)
Changed_NoComment ==
  \/ ch_flags # flags
  \/ \E i \in DOMAIN entry : entry[i].state # "UNCHANGED"

(* _zip_changed *)
Changed ==
  \/ ch_comment # NULL \/ ch_flags # flags
  \/ \E i \in DOMAIN entry : \/ entry[i].state # "UNCHANGED"
                             \/ entry[i].ch_comment # NULL

FileName(i) ==
  IF entry[i].ch_filename # NULL THEN entry[i].ch_filename
  ELSE IF entry[i].state = "ADDED" THEN Dash ELSE CdirName(i)

(* The order in which they are written: by name in a torrentzip archive.   *)
Sorted(files, name, byname) ==
  SetToSortSeq(files,
    LAMBDA i, k : IF byname /\ name[i] # name[k] THEN name[i] < name[k]
                                                 ELSE i < k)

FileList ==
  Sorted(Survivors, [i \in DOMAIN entry |-> FileName(i)], ch_flags)

GetArchiveFlag(unchanged) == IF unchanged THEN flags ELSE ch_flags

NewTorrentzip == GetArchiveFlag(FALSE) /\ ~ GetArchiveFlag(TRUE)

(* _zip_create_temp_output: beside the archive, under a name of its own.   *)
TempOutput == <<>>

Fault == faults < MaxFaults /\ faults' = faults + 1

(* Nothing to write: no change, or no file left.                           *)
CloseUnchanged ==
  /\ pc = "open" /\ ~ Changed
  /\ Freed /\ UNCHANGED <<disk, damaged, uncut, ops, faults>>

CloseEmpty ==
  /\ pc = "open" /\ Changed /\ Survivors = {}
  /\ disk' = IF zp = NULL THEN disk ELSE NULL
  /\ uncut' = IF disk' = NULL THEN NULL ELSE uncut
  /\ Freed /\ UNCHANGED <<damaged, ops, faults>>

(* remove() fails: the handle is as it was.                                *)
CloseEmptyFails ==
  /\ Fault /\ pc = "open" /\ Changed /\ Survivors = {} /\ zp # NULL
  /\ UNCHANGED <<disk, pc, handle, out, cd, revived, damaged, uncut, ops>>

(* If a file without a name is to be sorted, strcasecmp ends the program.  *)
CloseBegin ==
  /\ pc = "open" /\ Changed /\ Survivors # {}
  /\ ch_flags /\ Cardinality(Survivors) > 1 =>
       \A i \in Survivors : GetName(entry, i) # NULL
  /\ pc' = "writing"
  /\ out' = TempOutput /\ cd' = <<>>
  /\ UNCHANGED <<disk, handle, revived, damaged, uncut, ops, faults>>

NewComment(i, old) ==
  IF ~ ch_flags /\ entry[i].ch_comment # NULL
    THEN TwoBytes(entry[i].ch_comment) ELSE old

NextFile(i) ==
  /\ pc = "writing" /\ Len(cd) < Cardinality(Survivors)
  /\ i = FileList[Len(cd) + 1]
  /\ UNCHANGED <<disk, pc, zp, cdir, flags, ch_flags, ch_comment, revived,
                 uncut, ops, faults>>

(* The data as they are, and compressed anew.  A raw source that an        *)
(* earlier zip_close has read gives no more data, only size and check sum. *)
AddDataComp(source) ==
  IF source.reads > 0 THEN <<>> ELSE <<Deflated(source.data)>>
AddDataUncomp(source) == <<Deflated(source.data)>>

(* add_data *)
AddData(i) ==
  /\ NextFile(i)
  /\ DataChanged(i) \/ (NewTorrentzip /\ i \notin Ghosts)
  /\ LET source == IF DataChanged(i) THEN entry[i].source
                   ELSE SourceFunction(FALSE, FileData(zp, cdir.entry[i]))
         units == IF source.raw THEN AddDataComp(source)
                                ELSE AddDataUncomp(source)
         de == Dirent(FileName(i), "deflate", source.data, Len(units),
                      Len(source.data), NewComment(i, <<>>), Len(out))
     IN /\ source.data # NULL
        /\ out' = out \o <<Local(de)>> \o units
        /\ cd' = Append(cd, de)
        /\ entry' = IF DataChanged(i) /\ source.raw
                      THEN [entry EXCEPT ![i].source.reads = IF @ = 0 THEN 1
                                                                      ELSE 2]
                      ELSE entry
  /\ UNCHANGED damaged

(* Faulty variant: the directory still names the place in the old file. *)
CopiedEntry_OldOffset(i) ==
  [cdir.entry[i] EXCEPT !.name = FileName(i), !.comment = NewComment(i, @)]

CopiedEntry(i) ==
  [cdir.entry[i] EXCEPT !.name = FileName(i), !.comment = NewComment(i, @),
                        !.offset = Len(out)]

(* The local header is copied as it is, with a new name if there is one.   *)
CopyData(i) ==
  /\ NextFile(i)
  /\ ~ DataChanged(i) /\ ~ NewTorrentzip /\ i \notin Ghosts
  /\ LET old == cdir.entry[i]
         data == ReadAt(zp, old.offset + LENTRYSIZE, old.comp_size)
         header == zp[old.offset + 1]
     IN /\ HasMagic(zp, old.offset, "PK34") /\ data # NULL
        /\ out' = out \o <<IF entry[i].ch_filename = NULL THEN header
                           ELSE [header EXCEPT !.name = FileName(i)]>> \o data
        /\ cd' = Append(cd, CopiedEntry(i))
  /\ UNCHANGED <<entry, damaged>>

(* For a ghost zip_close reads an entry behind the end of the directory:   *)
(* it fails, the program ends, or any entry is written.                    *)
CopyGhost(i) ==
  /\ NextFile(i) /\ i \in Ghosts
  /\ LET de == Dirent(Garbage, "store", <<>>, 0, 0, <<>>, Len(out))
     IN /\ out' = Append(out, Local(de))
        /\ cd' = Append(cd, de)
  /\ damaged' = TRUE
  /\ UNCHANGED entry

(* Of an archive that was torrentzipped the comment is dropped.            *)
NewArchiveComment ==
  IF ch_flags
    THEN <<Torrentzipped(FilerangeCrc(CdirWrite(out, cd, <<>>), Len(out),
                                      Len(cd)))>>
  ELSE IF flags THEN <<>>
  ELSE IF ch_comment # NULL THEN ch_comment
  ELSE IF cdir # NULL THEN cdir.comment ELSE <<>>

WriteCdir ==
  /\ pc = "writing" /\ Len(cd) = Cardinality(Survivors)
  /\ out' = CdirWrite(out, cd, NewArchiveComment)
  /\ pc' = "written"
  /\ UNCHANGED <<disk, handle, cd, revived, damaged, uncut, ops, faults>>

(* Faulty variant: errors of the writing are not noticed. *)
CloseEnd_Unchecked ==
  /\ pc \in {"writing", "written"}
  /\ disk' = out /\ uncut' = NULL
  /\ Freed /\ UNCHANGED <<damaged, ops, faults>>

(* The rename that ends zip_close.                                         *)
CloseEnd ==
  /\ pc = "written"
  /\ disk' = out /\ uncut' = NULL
  /\ Freed /\ UNCHANGED <<damaged, ops, faults>>

(* A read, a write or the rename fails: the handle can still be used.      *)
(* After the rename the file is opened again, if that does not fail too.   *)
CloseFails ==
  /\ Fault /\ pc \in {"writing", "written"}
  /\ pc' = "open" /\ out' = NULL /\ cd' = <<>>
  /\ \/ zp' = zp
     \/ pc = "written" /\ zp # NULL /\ zp' \in {disk, NULL}
  /\ UNCHANGED <<disk, cdir, flags, ch_flags, ch_comment, entry, revived,
                 damaged, uncut, ops>>

(* The program ends, and leaves the temporary file.                        *)
Killed ==
  /\ Fault /\ pc # "closed"
  /\ Freed /\ UNCHANGED <<disk, damaged, uncut, ops>>

(* The file is cut, as by a copy that was interrupted.                     *)
Cut ==
  /\ Fault /\ pc = "closed"
  /\ disk \notin {NULL, <<>>}
  /\ \E n \in 1 .. Len(disk) - 1 : disk' = SubSeq(disk, 1, n)
  /\ uncut' = IF uncut = NULL THEN disk ELSE uncut
  /\ damaged' = TRUE
  /\ UNCHANGED <<pc, handle, out, cd, revived, ops>>

-----------------------------------------------------------------------------
Next ==
  \/ \E check \in BOOLEAN : Open(check) \/ SetArchiveFlag(check)
  \/ \E name \in Name : AddDir(name)
  \/ \E name \in Name, source \in Source : Add(name, source)
  \/ \E comment \in Comment : SetArchiveComment(comment)
  \/ UnchangeArchive \/ UnchangeAll
  \/ \E i \in DOMAIN entry :
       \/ \E source \in Source : Replace(i, source)
       \/ \E name \in Name : Rename(i, name)
       \/ \E comment \in Comment : SetFileComment(i, comment)
       \/ Delete(i) \/ Unchange(i)
  \/ \E i \in Survivors : AddData(i) \/ CopyData(i) \/ CopyGhost(i)
  \/ CloseUnchanged \/ CloseEmpty \/ CloseBegin \/ WriteCdir \/ CloseEnd
  \/ CloseEmptyFails \/ CloseFails \/ Killed \/ Cut

Spec == Init /\ [][Next]_vars

-----------------------------------------------------------------------------
EntryOK(i) ==
  LET ze == entry[i]
  IN /\ ze.state = "UNCHANGED" => ze.ch_filename = NULL
     /\ ze.state = "RENAMED" => ze.ch_filename # NULL /\ i <= Nentry
     /\ ze.state = "DELETED" => ze.ch_filename = NULL
     /\ ze.state = "REPLACED" => i <= Nentry
     /\ ze.state = "ADDED" => i > Nentry
     /\ DataChanged(i) <=> ze.source # NULL

(* The types, and what the state of an entry says of its other fields.     *)
TypeOK ==
  /\ pc \in {"closed", "open", "writing", "written"}
  /\ flags \in BOOLEAN /\ ch_flags \in BOOLEAN
  /\ pc = "closed" => zp = NULL /\ cdir = NULL /\ entry = <<>>
  /\ Nentry <= Len(entry) /\ \A i \in DOMAIN entry : EntryOK(i)
  /\ pc \in {"closed", "open"} => out = NULL
  /\ {revived, damaged} \subseteq BOOLEAN
  /\ ops \in 0 .. MaxOps /\ faults \in 0 .. MaxFaults

(* Names stay distinct: zip_add and zip_rename refuse a name that is taken *)
(* now, and zip_unchange one that has been taken since.  Not once an entry *)
(* that was deleted is replaced or unchanged, see RevivedIsChecked.        *)
NamesDistinct ==
  (~ revived /\ \A i, k \in 1 .. Nentry : CdirName(i) = CdirName(k) => i = k)
    => \A i, k \in DOMAIN entry :
         GetName(entry, i) = GetName(entry, k) =>
           i = k \/ GetName(entry, i) = NULL

(* What the functions that read the handle return.                         *)
Data(i) == IF DataChanged(i) THEN entry[i].source.data
           ELSE FileData(zp, cdir.entry[i])
FileComment(i) == IF entry[i].ch_comment # NULL THEN entry[i].ch_comment
                  ELSE IF i <= Nentry THEN cdir.entry[i].comment ELSE <<>>
ArchiveComment == IF ch_comment # NULL THEN ch_comment
                  ELSE IF cdir # NULL THEN cdir.comment ELSE <<>>

(* A handle that zip_close takes for unchanged, and drops, shows just what *)
(* is in the file: no sequence of changes gets lost without a trace.       *)
NoChangeLost ==
  (pc = "open" /\ ~ Changed) =>
    /\ \A i \in 1 .. Nentry :
         /\ GetName(entry, i) = CdirName(i)
         /\ Data(i) = FileData(zp, cdir.entry[i])
         /\ FileComment(i) = cdir.entry[i].comment
    /\ \A i \in DOMAIN entry : i > Nentry => GetName(entry, i) = NULL
    /\ cdir # NULL => ArchiveComment = cdir.comment

(* The file zip_close is about to put in place opens, with and without     *)
(* ZIP_CHECKCONS, and has the names, data and comments the handle showed,  *)
(* whatever failed before.  Except: the comment of a file whose data are   *)
(* new, unless it is set after them, is dropped (CommentsSaved); so are    *)
(* comments of torrentzip archives; a raw source is empty when it is read  *)
(* again (RetriedIsSaved); and ghosts are anything.                        *)
Saved(i, de) ==
  /\ de.name = IF GetName(entry, i) = NULL THEN Dash ELSE GetName(entry, i)
  /\ \/ FileData(out, de) = Data(i)
     \/ DataChanged(i) /\ entry[i].source.reads = 2
  /\ \/ de.comment = FileComment(i)
     \/ ch_flags \/ (DataChanged(i) /\ entry[i].ch_comment = NULL)

SavedIsShown ==
  (pc = "written" /\ ~ damaged) =>
    \A check \in BOOLEAN :
      LET new == FindCentralDir(out, check)
      IN /\ HasCdir(out, check)
         /\ Len(new.entry) = Cardinality(Survivors)
         /\ \A j \in DOMAIN new.entry : Saved(FileList[j], new.entry[j])
         /\ flags \/ ch_flags \/ new.comment = ArchiveComment

(* However zip_close fails and whenever the program is killed, the file    *)
(* opens with ZIP_CHECKCONS afterwards, as it did before.                  *)
DiskOpens ==
  damaged \/ disk \in {NULL, <<>>} \/ HasCdir(disk, TRUE)

(* What a program is shown of a file opened with ZIP_CHECKCONS: each name, *)
(* and what can be read under it.                                          *)
Shown(f) ==
  {[name |-> de.name, data |-> FileData(f, de)] :
     de \in IF HasCdir(f, TRUE) THEN ToSet(FindCentralDir(f, TRUE).entry)
                                ELSE {}}

(* A file that was cut is refused with ZIP_CHECKCONS, or it shows a part   *)
(* of what the whole file shows: whatever end record is found in it, that  *)
(* of a zip file stored in it or a comment that looks like one, nothing    *)
(* appears in it under a name or with data that it did not have before.    *)
(* (Unless a stored zip file is made for it, with an entry that names by   *)
(* its offset the place of a file of another stored zip file.)             *)
CutShowsPart == uncut # NULL => Shown(disk) \subseteq Shown(uncut)

-----------------------------------------------------------------------------
(* What does not hold.                                                     *)

(* A file that was cut is refused with ZIP_CHECKCONS: not so.  If it holds *)
(* a zip file that begins with the same file as itself, and is cut behind  *)
(* the end of that, it opens and shows the files of the stored zip file.   *)
CutRefused == uncut # NULL => ~ HasCdir(disk, TRUE)

(* What a cut file shows without ZIP_CHECKCONS is a part of it: not so.    *)
(* The directory of a stored zip file is taken, its offsets are wrong.     *)
CutShowsPartAlways ==
  uncut # NULL /\ HasCdir(disk, FALSE) =>
    \A de \in ToSet(FindCentralDir(disk, FALSE).entry) :
      [name |-> de.name, data |-> FileData(disk, de)] \in Shown(uncut)

(* All names are distinct: not so.  zip_delete allows duplicates "because  *)
(* the file will be removed directly afterwards" (zip_delete.c:48), and    *)
(* zip_replace or zip_unchange brings the file back with its old name.     *)
RevivedIsChecked ==
  \A i, k \in DOMAIN entry :
    GetName(entry, i) = GetName(entry, k) =>
      i = k \/ GetName(entry, i) = NULL

(* zip_close saves the comments zip_get_file_comment returned: not so.     *)
CommentsSaved ==
  (pc = "written" /\ ~ ch_flags) =>
    \A j \in DOMAIN FileList : cd[j].comment = FileComment(FileList[j])

(* After a zip_close that failed the next one saves the same: not so.  A   *)
(* raw source has been read to its end and has no more data.               *)
RetriedIsSaved ==
  pc = "written" =>
    \A j \in DOMAIN FileList : FileData(out, cd[j]) = Data(FileList[j])

(* All entries that zip_close saves are in the file or were added: not so. *)
(* zip_add leaves an entry when the name is taken, zip_unchange when the   *)
(* entry was added.                                                        *)
NoGhosts == pc = "writing" => Ghosts = {}

(* An archive without entries is removed ("don't create zip files with no  *)
(* entries", zip_close.c:92): not so.  If a rename failed, and then the    *)
(* opening of the file, the file stays and zip_close returns 0.            *)
EmptyIsRemoved == [][CloseEmpty => disk' = NULL]_vars

(* "nentries wraps around, size indicates correct EOCD" (zip_open.c:239):  *)
(* more entries than fit in two bytes are read again: not so.  The check   *)
(* comes after the loop's condition, and only 0 is put right.              *)
WrapIsRead ==
  (pc = "written" /\ ~ damaged) =>
    LET new == FindCentralDir(out, FALSE)
    IN HasCdir(out, FALSE) /\ Len(new.entry) = Len(FileList)
=============================================================================
