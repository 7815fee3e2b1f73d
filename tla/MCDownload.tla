----------------------------- MODULE MCDownload -----------------------------
(* Two pieces of two and one chunks; file 1 is in piece 1, file 2 in both. *)
(* Peer "a" is a seed, peer "b" has the first piece only.                  *)
EXTENDS Download
MCFilePieces == <<{1}, {1, 2}>>
MCBlocks == {<<1, 1>>, <<1, 2>>, <<2, 1>>}
MCHas == [q \in Peers |-> IF q = "a" THEN Pieces ELSE {1}]
=============================================================================
