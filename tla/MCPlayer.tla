------------------------------ MODULE MCPlayer ------------------------------
(* Two pages; a torrent as a magnet and as a bare hash, a torrent of one   *)
(* ad whose magnet has .m3u8 in it, an m3u8 link, a page and a link no     *)
(* resolver handles.                                                       *)
EXTENDS Player
MCHas == [l \in Links |->
    CASE l = "a" -> {"magnet:"} [] l = "ah" -> {"hash"} [] l = "b" -> {"magnet:", ".m3u8"}
      [] l = "h" -> {"http", ".m3u8"} [] l = "w" -> {"http"} [] OTHER -> {}]
MCTorrent == [l \in {"a", "ah", "b"} |-> IF l = "b" THEN "B" ELSE "A"]
MCFiles == [m \in {"A", "B"} |->
    IF m = "A" THEN <<[size |-> 2, ad |-> FALSE], [size |-> 3, ad |-> TRUE], [size |-> 2, ad |-> FALSE]>>
    ELSE <<[size |-> 1, ad |-> TRUE]>>]
=============================================================================
