----------------------------- MODULE FileWalks -----------------------------
(***************************************************************************)
(* The two walks over the files of a torrent that carry state from one     *)
(* file to the next (librqbit chunk_tracker.rs, file_ops.rs), and what all *)
(* the walks of FileLayout are checked against: the torrent's bytes.       *)
(***************************************************************************)
EXTENDS FileLayout

(* update_only_files does not use the piece ranges: it walks the files and *)
(* cuts them into pieces, and a piece is selected when a file it was cut   *)
(* from is.                                                                *)
WalkSelected(lens, only) ==
    LET RECURSIVE walk(_, _, _, _, _, _)
        walk(f, rest, p, need, sel, out) ==
            IF f > Len(lens) THEN out
            ELSE IF rest = 0
            THEN walk(f + 1, IF f < Len(lens) THEN lens[f + 1] ELSE 0, p, need, sel, out)
            ELSE LET s == sel \/ f \in only
                     k == Min({need, rest})
                 IN  IF k < need THEN walk(f, rest - k, p, need - k, s, out)
                     ELSE walk(f, rest - k, p + 1,
                               IF p + 1 \in PiecesOf(lens) THEN PieceLength(lens, p + 1) ELSE 0,
                               FALSE, IF s THEN out \cup {p} ELSE out)
    IN  walk(1, lens[1], 0, PieceLength(lens, 0), FALSE, {})

(* initial_check keeps the file it is in and how much of it it has hashed  *)
(* from one piece to the next.                                             *)
InitialCheckReads(lens) ==
    LET RECURSIVE piece(_, _, _, _)
        piece(f, done, left, segs) ==
            IF left = 0 THEN [file |-> f, done |-> done, segs |-> segs]
            ELSE LET k == Min({lens[f] - done, left}) IN
                 IF k = 0 THEN piece(f + 1, 0, left, segs)
                 ELSE piece(f, done + k, left - k,
                            Append(segs, [file |-> f, pos |-> done, len |-> k]))
        RECURSIVE upTo(_)
        upTo(p) ==
            IF p < 0 THEN [file |-> 1, done |-> 0, reads |-> <<>>]
            ELSE LET b == upTo(p - 1)
                     w == piece(b.file, b.done, PieceLength(lens, p), <<>>)
                 IN  [file |-> w.file, done |-> w.done, reads |-> Append(b.reads, w.segs)]
    IN  upTo(Cardinality(PiecesOf(lens)) - 1).reads

-----------------------------------------------------------------------------
(* Reference: the bytes of the torrent, numbered from 0.                   *)
BytesOf(lens, segs) ==
    FoldLeft(LAMBDA b, s : b \o [i \in 1..s.len |-> FileOffset(lens, s.file) + s.pos + i - 1], <<>>, segs)

PieceBytes(lens, p) == [i \in 1..PieceLength(lens, p) |-> p * PieceLen + i - 1]

(* The walks that read, write and hash agree with each other and with the  *)
(* torrent's bytes, at every boundary of files and pieces.                 *)
WalksAgree(lens) ==
    \A p \in PiecesOf(lens) :
        /\ BytesOf(lens, CheckPieceReads(lens, p)) = PieceBytes(lens, p)
        /\ BytesOf(lens, InitialCheckReads(lens)[p + 1]) = PieceBytes(lens, p)
        /\ \A b \in 0 .. PieceLength(lens, p) - 1 : \A n \in 1 .. PieceLength(lens, p) - b :
              BytesOf(lens, WriteChunkSegments(lens, p, b, n)) = SubSeq(PieceBytes(lens, p), b + 1, b + n)

(* The two ways a selection becomes a set of pieces agree, the order of a  *)
(* file's pieces leaves none out, and the bytes of a finished torrent are  *)
(* counted in full, piece by piece unless a file is empty.                 *)
CountsAgree(lens) ==
    /\ \A only \in SUBSET DOMAIN lens : WalkSelected(lens, only) = SelectedPieces(lens, only)
    /\ \A f \in DOMAIN lens : ToSet(PiecePriorities(lens, f)) = PieceRange(lens, f)
    /\ PerFileBytes(lens, PiecesOf(lens)) = lens
    /\ (\A f \in DOMAIN lens : lens[f] > 0) =>
          \A p \in PiecesOf(lens) : FilesCounted(lens, p) = {f \in DOMAIN lens : p \in PieceRange(lens, f)}
=============================================================================
