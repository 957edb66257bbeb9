--------------------------- MODULE MCTftpDownload ---------------------------
(* TLC instances of TftpDownload. *)
EXTENDS TftpDownload

Pieces == <<1, 2, 3, 4, 5>>
=============================================================================
