---------------------------- MODULE MCTftpUpload ----------------------------
(* TLC instances of TftpUpload. *)
EXTENDS TftpUpload

(* Two uploads, 1 and 2, from the same phone or from two phones. *)
OnePhone == [u \in Upload |-> "p1"]
TwoPhones == [u \in Upload |-> IF u = 1 THEN "p1" ELSE "p2"]

(* They send the same file or two different ones. *)
OneName == [u \in Upload |-> "a"]
TwoNames == [u \in Upload |-> IF u = 1 THEN "a" ELSE "b"]

OneBlock == [n \in {"a", "b"} |-> 1]
TwoBlocks == [n \in {"a", "b"} |-> 2]
ThreeBlocks == [n \in {"a", "b"} |-> 3]
=============================================================================
