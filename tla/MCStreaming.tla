---------------------------- MODULE MCStreaming ----------------------------
(* Pieces of two bytes: files that share a piece, that start and end at a  *)
(* boundary, a short last piece, an empty file.                            *)
EXTENDS Streaming, FileWalks
MCLayouts == {<<1, 3>>, <<2, 1>>, <<1, 0, 2>>}

(* file_ops.rs, file_info.rs and chunk_tracker.rs: WalksAgree and          *)
(* CountsAgree for the torrent's layout and for it with a file before or   *)
(* after it, of any length up to a piece and one byte.  A layout does not  *)
(* change, so it is looked at before the first stream and the first piece. *)
LayoutSound ==
    have = {} /\ (\A s \in Streams : ~Open(s)) =>
        \A n \in 0 .. PieceLen + 1 : \A l \in {lens, <<n>> \o lens, Append(lens, n)} :
            WalksAgree(l) /\ CountsAgree(l)
=============================================================================
