----------------------------- MODULE FileLayout -----------------------------
(***************************************************************************)
(* How the bytes of a torrent lie in its files (librqbit file_ops.rs,      *)
(* file_info.rs, chunk_tracker.rs).  A torrent is the sequence lens of its *)
(* file lengths; pieces are numbered from 0, files from 1.  A segment      *)
(* [file, pos, len] is one pread or pwrite.                                *)
(***************************************************************************)
EXTENDS Integers, SequencesExt, FiniteSetsExt

CONSTANT PieceLen

ASSUME PieceLenAssumption == PieceLen \in Nat \ {0}

CeilDiv(a, b) == (a + b - 1) \div b

TotalLen(lens) == FoldSeq(LAMBDA x, y : x + y, 0, lens)

FileOffset(lens, f) == TotalLen(SubSeq(lens, 1, f - 1))

PiecesOf(lens) == 0 .. CeilDiv(TotalLen(lens), PieceLen) - 1

(* Lengths::piece_length: the last piece may be short.                     *)
PieceLength(lens, p) == Min({PieceLen, TotalLen(lens) - p * PieceLen})

(* FileInfo.piece_range; empty for a file without bytes.                   *)
PieceRange(lens, f) ==
    IF lens[f] = 0 THEN {}
    ELSE FileOffset(lens, f) \div PieceLen ..
         (FileOffset(lens, f) + lens[f] - 1) \div PieceLen

(* Lengths::size_of_piece_in_file *)
SizeOfPieceInFile(lens, p, f) ==
    LET lo == Max({p * PieceLen, FileOffset(lens, f)})
        hi == Min({(p + 1) * PieceLen, FileOffset(lens, f) + lens[f]})
    IN  Max({hi - lo, 0})

(* iter_piece_priorities: first, last, then the rest of the file.          *)
PiecePriorities(lens, f) ==
    LET r == SetToSortSeq(PieceRange(lens, f), <)
    IN  IF Len(r) < 2 THEN r
        ELSE <<Head(r), Last(r)>> \o SubSeq(r, 2, Len(r) - 1)

(* compute_selected_pieces: what a start selects, from the piece ranges.   *)
SelectedPieces(lens, only) ==
    UNION {PieceRange(lens, f) : f \in only \cap DOMAIN lens}

(* on_piece_completed adds the piece to the files from the first that has  *)
(* it, as long as they have it.                                            *)
FilesCounted(lens, p) ==
    LET has(f) == p \in PieceRange(lens, f) IN
    {f \in DOMAIN lens : \E g \in 1..f : /\ \A h \in g..f : has(h)
                                        /\ \A h \in 1..(g - 1) : ~has(h)}

(* recalculate_per_file_bytes *)
PerFileBytes(lens, have) ==
    [f \in DOMAIN lens |->
        FoldSet(LAMBDA p, n : n + SizeOfPieceInFile(lens, p, f), 0, PieceRange(lens, f) \cap have)]

(* Mutant: the offset in the first file is kept for the next.              *)
SegmentsNoReset(lens, off, n) ==
    LET step(f, w) ==
            IF w.left = 0 /\ w.segs # <<>> THEN w
            ELSE IF w.off > lens[f] THEN [w EXCEPT !.off = @ - lens[f]]
            ELSE LET k == Min({lens[f] - w.off, w.left}) IN
                 [off |-> w.off, left |-> w.left - k,
                  segs |-> Append(w.segs, [file |-> f, pos |-> w.off, len |-> k])]
    IN  FoldLeft(LAMBDA w, f : step(f, w), [off |-> off, left |-> n, segs |-> <<>>],
                 [i \in DOMAIN lens |-> i]).segs

(* The walk of check_piece, read_chunk and write_chunk over the files: n   *)
(* bytes from absolute offset off.  A file the range ends or starts at     *)
(* gets a segment of no bytes.                                             *)
Segments(lens, off, n) ==
    LET step(f, w) ==
            IF w.left = 0 /\ w.segs # <<>> THEN w
            ELSE IF w.off > lens[f] THEN [w EXCEPT !.off = @ - lens[f]]
            ELSE LET k == Min({lens[f] - w.off, w.left}) IN
                 [off |-> 0, left |-> w.left - k,
                  segs |-> Append(w.segs, [file |-> f, pos |-> w.off, len |-> k])]
    IN  FoldLeft(LAMBDA w, f : step(f, w), [off |-> off, left |-> n, segs |-> <<>>],
                 [i \in DOMAIN lens |-> i]).segs

CheckPieceReads(lens, p) == Segments(lens, p * PieceLen, PieceLength(lens, p))

(* chunk_absolute_offset; padding files are skipped or read as zeros.      *)
WriteChunkSegments(lens, p, begin, n) == Segments(lens, p * PieceLen + begin, n)

ReadChunkSegments(lens, p, begin, n) == Segments(lens, p * PieceLen + begin, n)

=============================================================================
