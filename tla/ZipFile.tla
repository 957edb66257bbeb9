------------------------------ MODULE ZipFile ------------------------------
(***************************************************************************)
(* The files a program reads in a zip archive with libzip: zip_fopen_index *)
(* opens one, zip_fread reads it piece by piece and checks sizes and check *)
(* sum, zip_fclose closes it.  All files open in an archive share its      *)
(* FILE, and the archive keeps them in a table until zip_close.            *)
(*                                                                         *)
(* A piece of a deflated stream inflates to one unit of data or none.      *)
(* The program has one thread.  zip_fread inflates in a loop, so its turns *)
(* are steps.  Of an entry that has new data only the old can be opened    *)
(* (ZIP_FL_UNCHANGED); without that flag zip_fopen_index fails and changes *)
(* nothing, as for an entry that is not in the directory.                  *)
(***************************************************************************)
EXTENDS ZipFormat

CONSTANTS
  OnDisk,    \* archives: zp, the contents of the file, and entry, its
             \* directory
  Handle,    \* struct zip_file, as many as are open at a time
  BUFSIZE,   \* units of compressed data read at once
  ULong,     \* 2^32, the number of values of an unsigned long on the phone
  MaxRead    \* bound: the most units zip_fread is asked for

ASSUME SizeAssumption ==
  BUFSIZE \in Nat \ {0} /\ ULong \in Nat \ {0} /\ MaxRead \in Nat \ {0}
(* What _zip_readcdir has found: the sizes in a directory are unsigned long *)
(* and need not agree with the data, nor an offset with the file.          *)
ASSUME ZipAssumption ==
  \A z \in OnDisk :
    /\ z.zp \in Seq(Range(z.zp)) /\ z.entry \in Seq(Range(z.entry))
    /\ \A unit \in Range(z.zp) :
         IsPiece(unit) => unit.deflated \in Seq(Range(unit.deflated))
    /\ \A de \in Range(z.entry) :
         /\ de.offset \in Nat /\ de.sum # NULL
         /\ {de.comp_size, de.uncomp_size} \subseteq 0 .. ULong - 1

(* What may be read of archive z: a unit, or a unit one is inflated to.    *)
Datum(z) ==
  Range(z.zp) \cup UNION {Range(unit.deflated) :
                           unit \in {u \in Range(z.zp) : IsPiece(u)}}

Error == {"ok", "eof", "crc", "incons", "zlib", "zipclosed"}

(* struct zip_file, and the loop of zip_fread, for a file of archive z.    *)
OpenFile(z) ==
  [idx : DOMAIN z.entry, decomp : BOOLEAN, check : BOOLEAN, eof : BOOLEAN,
   error : Error, crc : Seq(Datum(z)),
   crc_orig : {de.sum : de \in Range(z.entry)},
   bytes_left : 0 .. ULong - 1, cbytes_left : Nat, fpos : Nat,
   buffer : Seq(Range(z.zp)), ended : BOOLEAN]

Fread(z) == [h : Handle, toread : 1 .. MaxRead, outbuf : Seq(Datum(z))]

ASSUME NoFileAssumption ==
  \A z \in OnDisk : NULL \notin Handle \cup OpenFile(z) \cup Fread(z)

VARIABLES
  zip,       \* the archive
  za,        \* its handle is "open" or "closed", or the program has "crashed"
  pos,       \* the position of its FILE, or NULL if it has none
  file,      \* za->file, the table of open files
  zf,        \* the zip_file of each handle in use, or NULL
  call,      \* the zip_fread that is inflating, or NULL
  ret        \* what zip_fread returned last: <<handle, number>>, or NULL

filevars == <<zip, za, pos, file, zf, call, ret>>

(* _zip_file_new and zip_fopen_index.  The data are their check sum.       *)
NewFile(i, compressed) ==
  LET de == zip.entry[i]
      decomp == de.method = "deflate" /\ ~ compressed
  IN [idx |-> i, decomp |-> decomp, check |-> decomp \/ de.method = "store",
      eof |-> FALSE, error |-> "ok", crc |-> <<>>, crc_orig |-> de.sum,
      bytes_left |-> IF decomp THEN de.uncomp_size ELSE de.comp_size,
      cbytes_left |-> de.comp_size,
      fpos |-> de.offset + LENTRYSIZE,    \* _zip_file_get_offset
      buffer |-> <<>>,                    \* what inflate has not taken yet
      ended |-> FALSE]                    \* inflate has met the end

FileInit ==
  /\ zip \in OnDisk
  /\ za = "open" /\ pos = 0
  /\ file = <<>>
  /\ zf = [h \in Handle |-> NULL]
  /\ call = NULL /\ ret = NULL

-----------------------------------------------------------------------------
(* _zip_file_fillbuf                                                       *)

(* Faulty variant: it reads where the FILE stands. *)
SeekTo_None(f) == pos

SeekTo(f) == f.fpos

Units(f, buflen) ==
  LET start == SeekTo(f)
      end == start + Min({buflen, f.cbytes_left})
  IN SubSeq(zip.zp, start + 1, Min({end, Len(zip.zp)}))

Moved(f, units) ==
  [f EXCEPT !.fpos = @ + Len(units), !.cbytes_left = @ - Len(units)]

PosAfter(f, units) == IF f.cbytes_left = 0 THEN pos
                      ELSE SeekTo(f) + Len(units)

(* It seeks unless all compressed data are read.                           *)
CanSeek(f) == pos # NULL \/ f.cbytes_left = 0

(* A FILE that is NULL ends the program, and with it what it has open.     *)
Crash ==
  /\ za' = "crashed" /\ call' = NULL /\ ret' = NULL
  /\ file' = <<>> /\ zf' = [h \in Handle |-> NULL]
  /\ UNCHANGED <<zip, pos>>

-----------------------------------------------------------------------------
Idle == za # "crashed" /\ call = NULL

(* A file that is to be inflated is read at once.  If that fails, or there *)
(* is no local header, zip_fclose takes the file off the table again.      *)
CanOpen(f) ==
  /\ HasMagic(zip.zp, zip.entry[f.idx].offset, "PK34")
  /\ f.decomp => Units(f, BUFSIZE) # <<>>

Fopen(h, i, compressed) ==
  /\ Idle /\ za = "open" /\ pos # NULL /\ zf[h] = NULL
  /\ LET f == NewFile(i, compressed)
         units == IF f.decomp THEN Units(f, BUFSIZE) ELSE <<>>
     IN /\ CanOpen(f)
        /\ zf' = [zf EXCEPT ![h] = [Moved(f, units) EXCEPT !.buffer = units]]
        /\ pos' = f.fpos + Len(units)
  /\ file' = Append(file, h)
  /\ ret' = NULL
  /\ UNCHANGED <<zip, za, call>>

FopenFails(i, compressed) ==
  /\ Idle /\ za = "open" /\ pos # NULL
  /\ LET f == NewFile(i, compressed)
     IN ~ CanOpen(f) /\ pos' \in {f.fpos - LENTRYSIZE, f.fpos}
  /\ ret' = NULL
  /\ UNCHANGED <<zip, za, file, zf, call>>

(* zip_fopen_index, zip_fread or zip_close needs the FILE.                 *)
SeekCrashes == Idle /\ za = "open" /\ pos = NULL /\ zip.entry # <<>> /\ Crash

(* zip_fread *)
Return(h, n) == ret' = <<h, n>>

FreadError(h) ==
  /\ Idle /\ zf[h] # NULL
  /\ zf[h].error # "ok"
  /\ Return(h, -1)
  /\ UNCHANGED <<zip, za, pos, file, zf, call>>

FreadEof(h) ==
  /\ Idle /\ zf[h] # NULL
  /\ zf[h].error = "ok" /\ zf[h].eof
  /\ Return(h, 0)
  /\ UNCHANGED <<zip, za, pos, file, zf, call>>

Reading(h) == zf[h] # NULL /\ zf[h].error = "ok" /\ ~ zf[h].eof

(* Faulty variant: compressed data are compared with the check sum too. *)
Mismatch_Raw(f) == f.crc # f.crc_orig

Mismatch(f) == f.check /\ f.crc # f.crc_orig

FreadEnd(h) ==
  /\ Idle /\ Reading(h)
  /\ zf[h].bytes_left = 0
  /\ zf' = [zf EXCEPT ![h].eof = TRUE,
                      ![h].error = IF Mismatch(zf[h]) THEN "crc" ELSE "ok"]
  /\ Return(h, IF Mismatch(zf[h]) THEN -1 ELSE 0)
  /\ UNCHANGED <<zip, za, pos, file, call>>

FreadStored(h, toread) ==
  /\ Idle /\ Reading(h)
  /\ zf[h].bytes_left > 0 /\ ~ zf[h].decomp /\ CanSeek(zf[h])
  /\ LET f == zf[h]
         units == Units(f, toread)
     IN /\ pos' = PosAfter(f, units)
        /\ zf' = [zf EXCEPT ![h] =
                    IF units = <<>> THEN [f EXCEPT !.error = "eof"]
                    ELSE [Moved(f, units) EXCEPT
                            !.crc = @ \o units,
                            !.bytes_left = @ - Len(units)]]
        /\ Return(h, IF units = <<>> THEN -1 ELSE Len(units))
  /\ UNCHANGED <<zip, za, file, call>>

FreadDeflated(h, toread) ==
  /\ Idle /\ Reading(h)
  /\ zf[h].bytes_left > 0 /\ zf[h].decomp
  /\ call' = [h |-> h, toread |-> toread, outbuf |-> <<>>]
  /\ UNCHANGED <<zip, za, pos, file, zf, ret>>

-----------------------------------------------------------------------------
(* The loop of zip_fread: what inflate does in one turn.                   *)

(* inflate takes the pieces for which outbuf has room, up to the last one. *)
Pieces ==
  LET buffer == zf[call.h].buffer
      fit == {n \in 0 .. Len(buffer) :
                /\ \A k \in 1 .. n : IsPiece(buffer[k])
                /\ \A k \in 1 .. n - 1 : ~ buffer[k].last
                /\ Len(call.outbuf \o Inflated(SubSeq(buffer, 1, n)))
                     <= call.toread}
  IN IF zf[call.h].ended THEN <<>> ELSE SubSeq(buffer, 1, Max(fit))

Ends == zf[call.h].ended \/ (Pieces # <<>> /\ Last(Pieces).last)

(* inflate meets data that are no piece, and has room to say so.           *)
DataError ==
  LET left == SubSeq(zf[call.h].buffer, Len(Pieces) + 1,
                     Len(zf[call.h].buffer))
  IN /\ ~ Ends /\ left # <<>> /\ ~ IsPiece(left[1])
     /\ Len(call.outbuf \o Inflated(Pieces)) < call.toread

Enough(len) == len >= zf[call.h].bytes_left \/ len >= call.toread

Finish(f, n) ==
  /\ zf' = [zf EXCEPT ![call.h] = f]
  /\ call' = NULL
  /\ Return(call.h, n)

(* Faulty variant: the check sum is not compared at the end of a stream. *)
StreamEnd_NoCheck ==
  /\ call # NULL /\ Ends
  /\ Pieces = <<>> /\ call.outbuf = <<>>
  /\ Finish(zf[call.h], 0)
  /\ UNCHANGED <<zip, za, pos, file>>

(* Z_STREAM_END, and nothing was read in this call.                        *)
StreamEnd ==
  /\ call # NULL /\ Ends
  /\ Inflated(Pieces) = <<>> /\ call.outbuf = <<>>
  /\ LET wrong == zf[call.h].crc # zf[call.h].crc_orig
     IN Finish([zf[call.h] EXCEPT !.ended = TRUE,
                                  !.error = IF wrong THEN "crc" ELSE "ok"],
               IF wrong THEN -1 ELSE 0)
  /\ UNCHANGED <<zip, za, pos, file>>

(* Z_OK or Z_STREAM_END with data: the loop goes on until there are enough.*)
Inflate1 ==
  /\ call # NULL /\ ~ DataError
  /\ Pieces # <<>> \/ Ends
  /\ LET f == zf[call.h]
         outbuf == call.outbuf \o Inflated(Pieces)
         taken == [f EXCEPT !.buffer = SubSeq(@, Len(Pieces) + 1, Len(@)),
                            !.ended = Ends]
     IN /\ ~ (Ends /\ outbuf = <<>>)
        /\ IF Enough(Len(outbuf))
             THEN Finish([taken EXCEPT
                            !.crc = @ \o outbuf,
                            !.bytes_left = (@ - Len(outbuf)) % ULong],
                         Len(outbuf))
             ELSE /\ call' = [call EXCEPT !.outbuf = outbuf]
                  /\ zf' = [zf EXCEPT ![call.h] = taken]
                  /\ UNCHANGED ret
  /\ UNCHANGED <<zip, za, pos, file>>

(* Faulty variant: no error if no compressed data are left. *)
Refill_Empty ==
  /\ call # NULL /\ ~ Ends /\ zf[call.h].buffer = <<>> /\ CanSeek(zf[call.h])
  /\ LET f == zf[call.h]
         units == Units(f, BUFSIZE)
     IN /\ pos' = PosAfter(f, units)
        /\ zf' = [zf EXCEPT ![call.h] =
                    [Moved(f, units) EXCEPT !.buffer = units]]
  /\ UNCHANGED <<zip, za, file, call, ret>>

(* Z_BUF_ERROR: the buffer is filled again, if that can be done.           *)
Refill ==
  /\ call # NULL /\ ~ Ends /\ zf[call.h].buffer = <<>> /\ CanSeek(zf[call.h])
  /\ LET f == zf[call.h]
         units == Units(f, BUFSIZE)
     IN /\ pos' = PosAfter(f, units)
        /\ IF units # <<>>
             THEN /\ zf' = [zf EXCEPT ![call.h] =
                              [Moved(f, units) EXCEPT !.buffer = units]]
                  /\ UNCHANGED <<call, ret>>
             ELSE Finish([f EXCEPT !.error = IF f.cbytes_left = 0
                                               THEN "incons" ELSE "eof"], -1)
  /\ UNCHANGED <<zip, za, file>>

RefillCrashes ==
  /\ call # NULL /\ ~ Ends /\ zf[call.h].buffer = <<>>
  /\ ~ CanSeek(zf[call.h])
  /\ Crash

InflateFails ==
  /\ call # NULL /\ DataError
  /\ Finish([zf[call.h] EXCEPT !.error = "zlib"], -1)
  /\ UNCHANGED <<zip, za, pos, file>>

-----------------------------------------------------------------------------
(* Faulty variant: the last file of the table is not moved down. *)
Without_First(h) == SubSeq(file, 1, Len(file) - 1)

(* The last file of the table takes the place of the one that is closed.   *)
Without(h) ==
  SubSeq([k \in DOMAIN file |-> IF file[k] = h THEN Last(file) ELSE file[k]],
         1, Len(file) - 1)

Fclose(h) ==
  /\ Idle /\ za = "open" /\ zf[h] # NULL
  /\ file' = Without(h)
  /\ zf' = [zf EXCEPT ![h] = NULL]
  /\ ret' = NULL
  /\ UNCHANGED <<zip, za, pos, call>>

(* zf->za is NULL, or, if the file had an error, points to freed memory.   *)
FcloseClosed(h) ==
  /\ Idle /\ za = "closed" /\ zf[h] # NULL
  /\ \/ za' = "crashed" /\ UNCHANGED zf
     \/ /\ zf[h].error # "zipclosed"
        /\ zf' = [zf EXCEPT ![h] = NULL] /\ UNCHANGED za
  /\ ret' = NULL
  /\ UNCHANGED <<zip, pos, file, call>>

(* zip_close, or _zip_free: files that are still open get an error.        *)
Close ==
  /\ Idle /\ za = "open"
  /\ za' = "closed" /\ file' = <<>>
  /\ zf' = [h \in Handle |->
              IF zf[h] # NULL /\ zf[h].error = "ok"
                THEN [zf[h] EXCEPT !.error = "zipclosed"] ELSE zf[h]]
  /\ ret' = NULL
  /\ UNCHANGED <<zip, pos, call>>

(* A zip_close that fails has read entries, and leaves the FILE anywhere.  *)
(* If it was the rename that failed, the FILE may not be opened again.     *)
FailedClose ==
  /\ Idle /\ za = "open"
  /\ \/ pos' = NULL
     \/ pos # NULL /\ pos' \in 0 .. Len(zip.zp)
  /\ ret' = NULL
  /\ UNCHANGED <<zip, za, file, zf, call>>

Loop == StreamEnd \/ Inflate1 \/ Refill \/ RefillCrashes \/ InflateFails

FileNext ==
  \/ \E i \in DOMAIN zip.entry, compressed \in BOOLEAN :
       \/ FopenFails(i, compressed)
       \/ \E h \in Handle : Fopen(h, i, compressed)
  \/ \E h \in Handle :
       \/ FreadError(h) \/ FreadEof(h) \/ FreadEnd(h)
       \/ \E toread \in 1 .. MaxRead :
            FreadStored(h, toread) \/ FreadDeflated(h, toread)
       \/ Fclose(h) \/ FcloseClosed(h)
  \/ Loop
  \/ Close \/ FailedClose \/ SeekCrashes

FileSpec == FileInit /\ [][FileNext]_filevars

(* The program lets a call of zip_fread run.                               *)
FairSpec == FileSpec /\ WF_filevars(Loop)
-----------------------------------------------------------------------------
(* The table has every open file once, and no other: _zip_free, which goes *)
(* through the table, reaches all files, and none that was freed.          *)
TableIsOpenFiles ==
  za = "open" =>
    /\ Range(file) = {h \in Handle : zf[h] # NULL}
    /\ IsInjective(file)

Position == Nat \cup {NULL}

(* The types; bytes_left is an unsigned long, and the table of open files  *)
(* is as zip_fopen_index and zip_fclose keep it.                           *)
FilesTypeOK ==
  /\ za \in {"open", "closed", "crashed"} /\ pos \in Position
  /\ file \in Seq(Handle) /\ zf \in [Handle -> OpenFile(zip) \cup {NULL}]
  /\ TableIsOpenFiles
  /\ call # NULL =>
       /\ call \in Fread(zip) /\ Len(call.outbuf) < call.toread
       /\ za = "open" /\ Reading(call.h) /\ zf[call.h].decomp

(* However the reading of several files is mixed, and whatever moves the   *)
(* shared FILE, a file is read from its own place.                         *)
Raw(de) ==
  LET start == de.offset + LENTRYSIZE
  IN SubSeq(zip.zp, start + 1, Min({start + de.comp_size, Len(zip.zp)}))

(* What may be read of it: all units, or what the pieces up to some place  *)
(* inflate to, with nothing but pieces before it.                          *)
Contents(f) ==
  LET raw == Raw(zip.entry[f.idx])
      part(n) == SubSeq(raw, 1, n)
      streams == {n \in 0 .. Len(raw) : \A k \in 1 .. n : IsPiece(raw[k])}
  IN IF f.decomp THEN {Inflated(part(n)) : n \in streams} ELSE {raw}

ReadsOwnData ==
  \A h \in Handle :
    zf[h] # NULL => \E data \in Contents(zf[h]) : IsPrefix(zf[h].crc, data)

(* A zip_fread that returns 0, and so says that the file is at its end,    *)
(* has delivered the data the archive was given, however the file was      *)
(* damaged since: no sizes and no end of a stream get round the check sum. *)
EndIsWhole ==
  (ret # NULL /\ ret[2] = 0 /\ zf[ret[1]].check) =>
    zf[ret[1]].crc = zip.entry[zf[ret[1]].idx].sum

(* A file that is not damaged is read without an error, in whatever        *)
(* portions, with whatever else is read between them.                      *)
Intact(de) ==
  /\ FileData(zip.zp, de) = de.sum
  /\ de.uncomp_size = Len(de.sum) /\ de.comp_size > 0

IntactIsRead ==
  \A h \in Handle :
    (zf[h] # NULL /\ Intact(zip.entry[zf[h].idx])) =>
      zf[h].error \in {"ok", "zipclosed"}

(* A call of zip_fread comes to an end, however the file was damaged,      *)
(* unless a stream ends before the size in the directory (FreadReturns):   *)
(* it returns, or the program crashes since the FILE was not reopened.     *)
EndsEarly(de) ==
  \E n \in DOMAIN Raw(de) :
    LET stream == SubSeq(Raw(de), 1, n)
    IN IsStream(stream) /\ Len(Inflated(stream)) < de.uncomp_size

FreadEnds == []<>(call = NULL \/ \E de \in Range(zip.entry) : EndsEarly(de))

-----------------------------------------------------------------------------
(* What does not hold.                                                     *)

(* "endless loop until something has been accomplished" (zip_fread.c:81):  *)
(* not so.  If a stream ends before the size in the directory is reached,  *)
(* and outbuf has room, inflate returns Z_STREAM_END for ever.             *)
FreadReturns == []<>(call = NULL)

(* Files that are open when the archive is closed get the error "Zip file  *)
(* closed" and can be closed: not so.  zip_fclose looks for the table in   *)
(* the archive, which is gone.                                             *)
ClosedFilesClose == [][za = "closed" => za' # "crashed"]_filevars
=============================================================================
