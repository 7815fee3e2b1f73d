------------------------------ MODULE MCMagnet ------------------------------
(* An honest peer, one that talks and one that may do anything share two   *)
(* permits; the metadata is a chunk and a half.                            *)
EXTENDS Magnet, ReadBuf
CONSTANTS MessageSizes, BufCap
MCKind == [p \in Peers |-> CASE p = "h" -> "honest" [] p = "c" -> "chatty" [] OTHER -> "bad"]
MCMessageSizes == <<2, 1, 4, 3>>

(* Both ends of the wire fit together.  The messages come out of the       *)
(* buffer as they were sent, and the metadata pieces fit, whatever the     *)
(* length of the metadata.  None of this changes with the state, so it is  *)
(* looked at before the first address.                                     *)
WireSound ==
    coming = Peers =>
        /\ MessagesIntact(MessageSizes, BufCap)
        /\ \A size \in 1 .. 3 * ChunkSize : \A i \in 0 .. TotalPieces(size) + 1 : PieceFits(size, i)
=============================================================================
