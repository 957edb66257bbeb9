------------------------------ MODULE MCZipFile ------------------------------
(* TLC instances of ZipFile. *)
EXTENDS ZipFile

x == Byte("x")
y == Byte("y")
Empty == Piece(<<>>, FALSE)

Stored == Dirent(1, "store", <<x, y>>, 2, 2, <<>>, 0)
Deflate == Dirent(2, "deflate", <<y, x>>, 3, 2, <<>>, 3)

(* Two files, one stored and one deflated, and what is in the zip file.    *)
Pair(stored, deflated) ==
  [zp |-> <<Local(Stored)>> \o stored \o <<Local(Deflate)>> \o deflated,
   entry |-> <<Stored, Deflate>>]

Stream == <<Piece(<<y>>, FALSE), Empty, Piece(<<x>>, TRUE)>>

(* Not damaged; other data of the same length; data that are no stream;    *)
(* a file that was cut.                                                    *)
Good == Pair(<<x, y>>, Stream)
Others == Pair(<<y, y>>, <<Piece(<<y>>, FALSE), Empty, Piece(<<y>>, TRUE)>>)
Garbled == Pair(<<x, y>>, <<Piece(<<y>>, FALSE), x, Piece(<<x>>, TRUE)>>)
Short == Pair(<<x, y>>, <<Piece(<<y>>, FALSE)>>)

(* The directory has too small a size for the data, deflated or not.       *)
Sized(comp_size, uncomp_size) ==
  [Good EXCEPT !.entry[2].comp_size = comp_size,
               !.entry[2].uncomp_size = uncomp_size]

(* The stream ends before the size in the directory is reached.            *)
Early == Pair(<<x, y>>, <<Piece(<<y>>, FALSE), Piece(<<>>, TRUE), Empty>>)

Archives == {Good, Others, Garbled, Short, Early, Sized(2, 2), Sized(3, 1)}
WithEarly == {Early, Sized(3, 3)}
=============================================================================
