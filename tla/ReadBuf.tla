------------------------------ MODULE ReadBuf ------------------------------
(***************************************************************************)
(* librqbit's read_buf.rs: one buffer that first takes the handshake, in a *)
(* single read, and then the messages, however TCP cuts the bytes up.      *)
(* Message i is sizes[i] bytes long and message 1 is the handshake; a byte *)
(* is <<message, place in it>>.                                            *)
(***************************************************************************)
EXTENDS Integers, SequencesExt, FiniteSetsExt

MessageBytes(sizes, i) == [k \in 1..sizes[i] |-> <<i, k>>]
StreamBytes(sizes) == FlattenSeq([i \in DOMAIN sizes |-> MessageBytes(sizes, i)])

(* Mutant: the bytes left over are not moved to the front.                 *)
PrepareNoCopy(b, need) ==
    LET filled == b.filled - b.processed
        cap == Len(b.buf)
    IN  [b EXCEPT !.buf = IF cap < filled + need THEN @ \o [i \in 1..Max({cap, need}) |-> <<0, 0>>] ELSE @,
                  !.filled = filled, !.processed = 0]

(* prepare_for_read; reserve at least doubles the vector.                  *)
PrepareForRead(b, need) ==
    LET filled == b.filled - b.processed
        moved == [i \in DOMAIN b.buf |-> IF i <= filled THEN b.buf[b.processed + i] ELSE b.buf[i]]
        cap == Len(b.buf)
    IN  [b EXCEPT !.buf = IF cap < filled + need THEN moved \o [i \in 1..Max({cap, need}) |-> <<0, 0>>]
                          ELSE moved,
                  !.filled = filled, !.processed = 0]

(* conn.read: what is there of the next segment, as far as it fits.        *)
ConnRead(b) ==
    LET n == Min({Len(b.buf) - b.filled, Len(Head(b.conn))})
        rest == SubSeq(Head(b.conn), n + 1, Len(Head(b.conn)))
    IN  [b EXCEPT !.buf = [i \in DOMAIN @ |-> IF i \in b.filled + 1 .. b.filled + n
                                             THEN Head(b.conn)[i - b.filled] ELSE @[i]],
                  !.filled = @ + n,
                  !.conn = IF rest = <<>> THEN Tail(@) ELSE <<rest>> \o Tail(@)]

(* Deserialization needs the length in front and then the whole message;   *)
(* bytes that start no message are refused.                                *)
Needs(sizes, b) ==
    IF b.filled = b.processed THEN 1
    ELSE sizes[b.buf[b.processed + 1][1]] - (b.filled - b.processed)

StartsMessage(b) == b.filled = b.processed \/ b.buf[b.processed + 1][2] = 1

ReadHandshake(sizes, b) ==
    LET r == ConnRead(b) IN
    IF r.filled < sizes[1] THEN [r EXCEPT !.err = TRUE]
    ELSE [r EXCEPT !.processed = sizes[1]]

(* read_message until the peer disconnects; got are the messages returned. *)
ReadMessages(sizes, b0) ==
    LET RECURSIVE read(_)
        read(b) ==
            IF b.err THEN b
            ELSE IF ~StartsMessage(b) THEN [b EXCEPT !.err = TRUE]
            ELSE IF Needs(sizes, b) <= 0
            THEN LET n == sizes[b.buf[b.processed + 1][1]]
                 IN  read([b EXCEPT !.processed = @ + n,
                                    !.got = Append(@, SubSeq(b.buf, b.processed + 1, b.processed + n))])
            ELSE IF b.conn = <<>> THEN b
            ELSE read(ConnRead(PrepareForRead(b, Needs(sizes, b))))
    IN  read(b0)

Received(sizes, segments, cap) ==
    ReadMessages(sizes, ReadHandshake(sizes,
        [buf |-> [i \in 1..cap |-> <<0, 0>>], filled |-> 0, processed |-> 0,
         conn |-> segments, got |-> <<>>, err |-> FALSE]))

(* The stream cut after the given places.                                  *)
CutAt(bytes, cuts) ==
    FoldLeft(LAMBDA segs, i :
                IF i = 1 \/ i - 1 \in cuts THEN Append(segs, <<bytes[i]>>)
                ELSE [segs EXCEPT ![Len(segs)] = Append(@, bytes[i])],
             <<>>, [i \in DOMAIN bytes |-> i])

(* However the bytes are cut up, every message is returned once, in order  *)
(* and with its own bytes, provided the handshake is in the first segment; *)
(* if it is not, the connection is given up.                               *)
MessagesIntact(sizes, cap) ==
    LET bytes == StreamBytes(sizes) IN
    \A cuts \in SUBSET (1 .. Len(bytes) - 1) :
        LET r == Received(sizes, CutAt(bytes, cuts), cap)
        IN  IF \E c \in cuts : c < sizes[1] THEN r.err
            ELSE ~r.err /\ r.got = [i \in 1 .. Len(sizes) - 1 |-> MessageBytes(sizes, i + 1)]
=============================================================================
