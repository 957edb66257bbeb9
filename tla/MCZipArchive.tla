---------------------------- MODULE MCZipArchive ----------------------------
(* TLC instances of ZipArchive. *)
EXTENDS ZipArchive

a == <<Byte("a")>>
b == <<Byte("b")>>

Stored(name, data, comment, offset) ==
  Dirent(name, "store", data, Len(data), Len(data), comment, offset)

(* A zip file with the files 1 and 2, of which 2 is stored and is itself a *)
(* zip file that begins with the same file 1.                              *)
First(comment) == Dirent(1, "deflate", a, 1, 1, comment, 0)
Inner == CdirWrite(<<Local(First(<<>>)), Deflated(a)>>, <<First(<<>>)>>, <<>>)
Second == Stored(2, Inner, <<>>, 2)
Outer == CdirWrite(<<Local(First(<<>>)), Deflated(a), Local(Second)>> \o Inner,
                   <<First(<<Byte("c")>>), Second>>, <<>>)

(* A comment that looks like the end record of Outer. *)
EndLike == <<Byte("c"), EndOfCentralDir(2, 2, 7, 0)>>

Files == {NULL, <<>>, Outer}
NoFile == {NULL}
Comments == {<<>>, EndLike}
NoComment == {<<>>}
Contents == {b}
=============================================================================
