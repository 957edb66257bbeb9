----------------------------- MODULE ZipFormat -----------------------------
(***************************************************************************)
(* What libzip writes to a zip file and how it finds it again.             *)
(*                                                                         *)
(* A zip file is a sequence of units: a header with its strings is one     *)
(* unit, and so is each piece of the data of a file and of a comment.      *)
(* Offsets count the units from 0.  Data and comments may hold units that  *)
(* look like headers, for a stored file can be a zip file itself.  The     *)
(* check sum of data is the data: it tells any two apart.  Times,          *)
(* attributes, extra fields and data descriptors are left out.             *)
(***************************************************************************)
EXTENDS Integers, SequencesExt

CONSTANTS
  Wide,   \* 2^16, the number of values of a field of two bytes
  NULL

ASSUME WideAssumption == Wide \in Nat \ {0}

(* struct zip_dirent, and its forms in the file.                           *)
Dirent(name, method, sum, comp_size, uncomp_size, comment, offset) ==
  [name |-> name, method |-> method, sum |-> sum, comp_size |-> comp_size,
   uncomp_size |-> uncomp_size, comment |-> comment, offset |-> offset]

Local(de) == [magic |-> "PK34", name |-> de.name, method |-> de.method,
              sum |-> de.sum, comp_size |-> de.comp_size,
              uncomp_size |-> de.uncomp_size]

Central(de) == [magic |-> "PK12", de |-> de]

EndOfCentralDir(n, size, offset, comment_len) ==
  [magic |-> "PK56", n |-> n, size |-> size, offset |-> offset,
   comment_len |-> comment_len]

Byte(b) == [magic |-> "none", byte |-> b]
Piece(data, last) == [magic |-> "none", deflated |-> data, last |-> last]
Deflated(data) == Piece(data, TRUE)
Torrentzipped(sum) == [magic |-> "none", torrent |-> sum]

(* Any sequence of units, of which those that look like headers are read.  *)
(* The numbers in them are unsigned.                                       *)
IsDirent(de) ==
  /\ de = Dirent(de.name, de.method, de.sum, de.comp_size, de.uncomp_size,
                 de.comment, de.offset)
  /\ {de.name, de.comp_size, de.offset} \subseteq Nat

IsUnit(unit) ==
  /\ unit.magic = "PK12" => IsDirent(unit.de)
  /\ unit.magic = "PK56" =>
       /\ {unit.n, unit.comment_len} \subseteq 0 .. Wide - 1
       /\ {unit.size, unit.offset} \subseteq Nat

IsFile(f) == f \in Seq(ToSet(f)) /\ \A unit \in ToSet(f) : IsUnit(unit)

LENTRYSIZE == 1
EOCDLEN == 1
MAXCOMLEN == Wide
CDBUFSIZE == MAXCOMLEN + EOCDLEN

(* What is left of a string whose length is put in two bytes.              *)
TwoBytes(s) == SubSeq(s, 1, Len(s) % Wide)

(* NULL stands for a file that is not open, and for what cannot be read.   *)
HasMagic(f, pos, magic) ==
  f # NULL /\ pos + 1 \in DOMAIN f /\ f[pos + 1].magic = magic

ReadAt(f, pos, len) ==
  IF f # NULL /\ pos + len <= Len(f) THEN SubSeq(f, pos + 1, pos + len)
                                     ELSE NULL

(* _zip_filerange_crc *)
FilerangeCrc(f, start, len) == ReadAt(f, start, len)

-----------------------------------------------------------------------------
(* Writing.                                                                *)

(* _zip_cdir_write: the number of entries has two bytes.                   *)
CdirWrite(out, entry, comment) ==
  LET cdir == [i \in DOMAIN entry |-> Central(entry[i])]
      short == TwoBytes(comment)
  IN out \o cdir \o <<EndOfCentralDir(Len(entry) % Wide, Len(entry),
                                     Len(out), Len(short))>> \o short

-----------------------------------------------------------------------------
(* Reading.                                                                *)

(* The entries _zip_readcdir reads: it takes a number that wrapped round   *)
(* to 0 for Wide.                                                          *)
EntryCount(eocd) == IF eocd.n \in 1 .. Wide - 1 THEN eocd.n ELSE Wide

BufStart(f) == Max({0, Len(f) - CDBUFSIZE})

(* _zip_readcdir for the end record at pos: where it reads the directory,  *)
(* whether it takes it, and what it returns then.  If the directory is in  *)
(* the buffer, it is read from where it should end.                        *)
CdirStart(f, pos) ==
  IF f[pos + 1].size < pos - BufStart(f) THEN pos - f[pos + 1].size
                                         ELSE f[pos + 1].offset

IsCdir(f, pos, check) ==
  LET eocd == f[pos + 1]
      comlen == Len(f) - pos - EOCDLEN
  IN /\ eocd.comment_len <= comlen
     /\ check => eocd.comment_len = comlen
     /\ EntryCount(eocd) <= eocd.size
     /\ \A i \in 0 .. EntryCount(eocd) - 1 :
          HasMagic(f, CdirStart(f, pos) + i, "PK12")

ReadCdir(f, pos) ==
  LET eocd == f[pos + 1]
  IN [entry |-> [i \in 1 .. EntryCount(eocd) |-> f[CdirStart(f, pos) + i].de],
      comment |-> ReadAt(f, pos + EOCDLEN, eocd.comment_len),
      size |-> eocd.size, offset |-> eocd.offset]

(* Faulty variant: the files may reach into the directory, and the local   *)
(* headers are not compared.                                               *)
Consistent_Offsets(f, cd, de) == de.offset <= cd.offset

Consistent(f, cd, de) ==
  /\ de.offset + de.comp_size + LENTRYSIZE <= cd.offset
  /\ ReadAt(f, de.offset, LENTRYSIZE) = <<Local(de)>>

(* _zip_checkcons: the units the files take up, or -1 if the directory     *)
(* does not agree with the local headers (_zip_headercomp).                *)
CheckCons(f, cd) ==
  LET files == ToSet(cd.entry)
  IN IF \E de \in files : ~ Consistent(f, cd, de) THEN -1
     ELSE Max({de.offset + de.comp_size + LENTRYSIZE : de \in files})
            - Min({de.offset : de \in files})

(* _zip_find_central_dir: of several candidates the one whose files take   *)
(* up most, the first of these; a single one is checked on request only.   *)
Candidates(f, check) ==
  {pos \in BufStart(f) .. Len(f) - EOCDLEN :
     HasMagic(f, pos, "PK56") /\ IsCdir(f, pos, check)}

Best(f, check) ==
  LET dirs == Candidates(f, check)
      span == [pos \in dirs |-> CheckCons(f, ReadCdir(f, pos))]
  IN CHOOSE pos \in dirs : \A other \in dirs :
       \/ span[other] < span[pos]
       \/ span[other] = span[pos] /\ pos <= other

HasCdir(f, check) ==
  LET dirs == Candidates(f, check)
  IN /\ dirs # {}
     /\ check \/ Cardinality(dirs) > 1 =>
          CheckCons(f, ReadCdir(f, Best(f, check))) >= 0

FindCentralDir(f, check) ==
  IF HasCdir(f, check) THEN ReadCdir(f, Best(f, check)) ELSE NULL

(* _zip_check_torrentzip *)
IsTorrentzip(f, cd) ==
  cd.comment = <<Torrentzipped(FilerangeCrc(f, cd.offset, cd.size))>>

(* A stream of pieces, of which the last one ends it.                      *)
IsPiece(unit) == "deflated" \in DOMAIN unit

IsStream(units) ==
  /\ units # <<>>
  /\ \A k \in DOMAIN units :
       IsPiece(units[k]) /\ (units[k].last <=> k = Len(units))

Inflated(pieces) == FlattenSeq([k \in DOMAIN pieces |-> pieces[k].deflated])

(* What can be read of the file of an entry, NULL for an error.  ZipFile   *)
(* has the functions that read it step by step.                            *)
Inflate(method, units) ==
  IF method = "store" \/ units = NULL THEN units
  ELSE IF IsStream(units) THEN Inflated(units) ELSE NULL

FileData(f, de) ==
  LET data == Inflate(de.method,
                      ReadAt(f, de.offset + LENTRYSIZE, de.comp_size))
  IN IF HasMagic(f, de.offset, "PK34") /\ data = de.sum THEN data ELSE NULL
=============================================================================
