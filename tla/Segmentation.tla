---------------------------- MODULE Segmentation ----------------------------
(***************************************************************************)
(* What a clip cutter promises, with none of its bookkeeping.  Chunks are  *)
(* accepted in some order and cut into consecutive segments.  A segment    *)
(* grows only by a chunk that continues the bytes and the numbering of the *)
(* one before it and lies inside the time window the segment's first chunk *)
(* opened; nothing accepted is ever dropped, moved or put in two segments. *)
(***************************************************************************)
EXTENDS Integers, Sequences

CONSTANTS Chunks,    (* what may be accepted              *)
          Window     (* length of the time window, in ms  *)

VARIABLES chunks,    (* everything accepted, in order                     *)
          ends       (* for each closed segment, the index of its last    *)
                     (* chunk                                             *)

(* The open segment is chunks[Closed + 1 .. Len(chunks)]. *)
Closed == IF ends = <<>> THEN 0 ELSE ends[Len(ends)]
HasOpen == Closed < Len(chunks)

Continues(a, b) == /\ b.seq = a.seq + 1
                   /\ b.offset = a.offset + a.length

Fits(c) == /\ Continues(chunks[Len(chunks)], c)
           /\ c.ts - chunks[Closed + 1].ts < Window

Init == chunks = <<>> /\ ends = <<>>

Open(c) == /\ ~HasOpen
           /\ chunks' = Append(chunks, c)
           /\ UNCHANGED ends

Grow(c) == /\ HasOpen
           /\ Fits(c)
           /\ chunks' = Append(chunks, c)
           /\ UNCHANGED ends

Close == /\ HasOpen
         /\ ends' = Append(ends, Len(chunks))
         /\ UNCHANGED chunks

(* A later chunk that does not fit closes the segment and opens the next. *)
Turn(c) == /\ HasOpen
           /\ ~Fits(c)
           /\ c.seq > chunks[Len(chunks)].seq
           /\ ends' = Append(ends, Len(chunks))
           /\ chunks' = Append(chunks, c)

Next == Close \/ \E c \in Chunks : Open(c) \/ Grow(c) \/ Turn(c)

Spec == Init /\ [][Next]_<<chunks, ends>>
=============================================================================
