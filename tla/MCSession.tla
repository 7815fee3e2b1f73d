----------------------------- MODULE MCSession -----------------------------
(* Two torrents of two files; piece 1 is in file 1, piece 2 in file 2.     *)
EXTENDS Session
MCFilePieces == <<{1}, {2}>>
=============================================================================
