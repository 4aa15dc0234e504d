------------------------------ MODULE ClipFsm -------------------------------
(***************************************************************************)
(* sm_fsm.c driven by any caller: metadata records in any order, idle      *)
(* checks at any time, and the final flush, after which no record comes    *)
(* (sm_fsm.h:92: "at end of stream").  Each action is one branch of one    *)
(* exported function, with the snapshot it hands back for emission.        *)
(*                                                                         *)
(* taken and cuts are history variables: which records the machine let in, *)
(* and after how many of them, and why, it cut each clip.                  *)
(***************************************************************************)
EXTENDS SmFsm, Sequences

CONSTANT MaxRecords    (* bound: records accepted in one run  *)

ASSUME ClipFsmAssumption == MaxRecords \in Nat

VARIABLES
  fsm,      (* sm_fsm_t                                                  *)
  quiet,    (* now_ms - last_chunk_wall_ms, counted up to QuietCap       *)
  clips,    (* the snapshots emitted so far                              *)
  taken,    (* history: the records accepted so far                      *)
  cuts      (* history: for clips[i], the number of records accepted up  *)
            (* to and including its last one, and what caused the cut    *)

vars == <<fsm, quiet, clips, taken, cuts>>

(* Ages beyond the idle timeout are not told apart. *)
QuietCap == IF IdleMs > 0 THEN IdleMs ELSE 0

Causes == {"gap", "window", "idle", "final"}

Init ==
  /\ fsm = Reset
  /\ quiet = 0
  /\ clips = <<>>
  /\ taken = <<>>
  /\ cuts = <<>>

-----------------------------------------------------------------------------
Emit(complete, why) ==
  /\ clips' = Append(clips, Snapshot(fsm, complete))
  /\ cuts' = Append(cuts, [at |-> Len(taken), why |-> why])

Accept(rec) ==
  /\ quiet' = 0
  /\ taken' = Append(taken, rec)

(* sm_fsm_process_record, branch by branch. *)
Begin(rec) ==
  /\ ~fsm.active
  /\ fsm' = StartClip(rec)
  /\ Accept(rec)
  /\ UNCHANGED <<clips, cuts>>

(* Mutant of RejectLate: a step backwards treated like a gap. *)
RejectLateRestarts(rec) ==
  /\ fsm.active
  /\ IsLate(fsm, rec)
  /\ Emit(FALSE, "gap")
  /\ fsm' = StartClip(rec)
  /\ Accept(rec)

(* A late record changes nothing, the time of the last chunk included. *)
RejectLate(rec) ==
  /\ fsm.active
  /\ IsLate(fsm, rec)
  /\ UNCHANGED vars

CutAtGap(rec) ==
  /\ fsm.active
  /\ ~IsLate(fsm, rec)
  /\ IsGap(fsm, rec)
  /\ Emit(FALSE, "gap")
  /\ fsm' = StartClip(rec)
  /\ Accept(rec)

(* Mutant of CutAtWindow: the boundary record opens no clip. *)
CutAtWindowDropsRecord(rec) ==
  /\ fsm.active
  /\ ~IsLate(fsm, rec)
  /\ ~IsGap(fsm, rec)
  /\ IsBoundary(fsm, rec)
  /\ Emit(TRUE, "window")
  /\ fsm' = Reset
  /\ Accept(rec)

CutAtWindow(rec) ==
  /\ fsm.active
  /\ ~IsLate(fsm, rec)
  /\ ~IsGap(fsm, rec)
  /\ IsBoundary(fsm, rec)
  /\ Emit(TRUE, "window")
  /\ fsm' = StartClip(rec)
  /\ Accept(rec)

Extend(rec) ==
  /\ fsm.active
  /\ ~IsLate(fsm, rec)
  /\ ~IsGap(fsm, rec)
  /\ ~IsBoundary(fsm, rec)
  /\ fsm' = AppendRecord(fsm, rec)
  /\ Accept(rec)
  /\ UNCHANGED <<clips, cuts>>

ProcessRecord(rec) ==
  \/ Begin(rec)
  \/ RejectLate(rec)
  \/ CutAtGap(rec)
  \/ CutAtWindow(rec)
  \/ Extend(rec)

(* The machine is zeroed, expectedSeq included. *)
FlushIdle ==
  /\ IsIdle(fsm, quiet)
  /\ Emit(FALSE, "idle")
  /\ fsm' = Reset
  /\ quiet' = 0
  /\ UNCHANGED taken

FlushFinal ==
  /\ fsm.active
  /\ Emit(TRUE, "final")
  /\ fsm' = Reset
  /\ quiet' = 0
  /\ UNCHANGED taken

Age == IF fsm.active /\ quiet < QuietCap THEN quiet + 1 ELSE quiet

Tick ==
  /\ Age # quiet
  /\ quiet' = Age
  /\ UNCHANGED <<fsm, clips, taken, cuts>>

Ended == cuts # <<>> /\ cuts[Len(cuts)].why = "final"

Next ==
  \/ \E rec \in Chunks :
       ~Ended /\ Len(taken) < MaxRecords /\ ProcessRecord(rec)
  \/ FlushIdle
  \/ FlushFinal
  \/ Tick

Spec == Init /\ [][Next]_vars

-----------------------------------------------------------------------------
(* The records a cut closed: taken[First(i) .. cuts[i].at].  The open clip *)
(* is taken[First(Len(cuts) + 1) .. Len(taken)].                           *)
First(i) == IF i = 1 THEN 1 ELSE cuts[i - 1].at + 1

Contiguous(a, b) ==
  /\ b.seq = a.seq + 1
  /\ b.offset = a.offset + a.length

(* r is the byte range and the time span of the records first .. last. *)
Describes(r, first, last) ==
  /\ r.start = taken[first].ts
  /\ r.end = taken[last].ts
  /\ r.offset = taken[first].offset
  /\ r.offset + r.length = taken[last].offset + taken[last].length

(* The records first .. last lie inside the window the first one opened. *)
Inside(first, last) ==
  \A k \in (first + 1)..last : taken[k].ts - taken[first].ts < ClipMs

(* Type invariant: the state of sm_fsm_t, the clips handed out and the     *)
(* history have the shape the other properties assume.                     *)
TypeOK ==
  /\ fsm \in Fsm
  /\ quiet \in 0..QuietCap
  /\ clips \in Seq(Clip)
  /\ taken \in Seq(Chunks)
  /\ cuts \in Seq([at : Nat, why : Causes])

(* The cuts partition the accepted records: every clip holds at least one  *)
(* record, no record is in two clips, and the machine is active exactly    *)
(* when records have been accepted that no clip holds yet, so none is lost *)
(* when a boundary record starts the next window (sm_fsm.c:59-71).         *)
CutsPartition ==
  /\ Len(cuts) = Len(clips)
  /\ \A i \in 1..Len(cuts) : First(i) <= cuts[i].at /\ cuts[i].at <= Len(taken)
  /\ fsm.active <=> First(Len(cuts) + 1) <= Len(taken)

(* Each emitted clip, and the window still open, is exactly the byte range *)
(* and the time span of its records (snapshot_clip, start_clip and         *)
(* append_record keep their fields consistent over any number of calls);   *)
(* nothing of a flushed window is left in the machine (sm_fsm_reset).      *)
ClipsDescribeRecords ==
  /\ \A i \in 1..Len(clips) : Describes(clips[i], First(i), cuts[i].at)
  /\ fsm.active =>
       /\ Describes(fsm, First(Len(cuts) + 1), Len(taken))
       /\ fsm.expectedSeq = taken[Len(taken)].seq + 1
       /\ fsm.expectedOffset = fsm.offset + fsm.length
  /\ ~fsm.active => fsm = Reset

(* Inside a clip the numbering and the bytes have no hole: two neighbours  *)
(* are discontinuous only across a cut (sm_fsm.c:59).                      *)
NoHoleInsideClip ==
  \A k \in 1..(Len(taken) - 1) :
    \/ Contiguous(taken[k], taken[k + 1])
    \/ \E i \in 1..Len(cuts) : cuts[i].at = k

(* No clip, emitted or open, spans --clip-secs or more: every record after *)
(* the first lies strictly inside the window (sm_fsm.c:66).                *)
InsideWindow ==
  /\ \A i \in 1..Len(cuts) : Inside(First(i), cuts[i].at)
  /\ Inside(First(Len(cuts) + 1), Len(taken))

(* A cut that a record caused has its reason in that record, which opens   *)
(* the next clip: a partial clip ends before a discontinuity, and a        *)
(* complete one before a contiguous record at or past the window's end, or *)
(* at the end of the stream (sm_fsm.c:59-70).                              *)
CutsJustified ==
  \A i \in 1..Len(cuts) :
    LET at == cuts[i].at
        joined == Contiguous(taken[at], taken[at + 1])
    IN /\ clips[i].complete <=> cuts[i].why \in {"window", "final"}
       /\ cuts[i].why \in {"gap", "window"} => at < Len(taken)
       /\ cuts[i].why = "gap" => ~joined
       /\ cuts[i].why = "window" =>
            joined /\ taken[at + 1].ts - taken[First(i)].ts >= ClipMs

(* Sequence numbers only go up, except across an idle flush, which zeroes  *)
(* the machine: late records are rejected (sm_fsm.c:55) until then.        *)
SequenceAdvances ==
  \A k \in 1..(Len(taken) - 1) :
    \/ taken[k].seq < taken[k + 1].seq
    \/ \E i \in 1..Len(cuts) : cuts[i].at = k /\ cuts[i].why = "idle"

(* With every input within jsonl_codec's safe range, no sum or difference  *)
(* the machine forms leaves twice that range, far inside 64 bits: the      *)
(* running total cannot wrap however many records it adds up, because it   *)
(* is always the distance between two offsets (sm_fsm.c:24,32,34,66).      *)
NoOverflow ==
  /\ fsm.expectedSeq <= MaxSafe + 1
  /\ fsm.expectedOffset <= 2 * MaxSafe
  /\ fsm.length <= 2 * MaxSafe
  /\ fsm.start \in (-MaxSafe)..MaxSafe
  /\ \A i \in 1..Len(clips) : clips[i].offset + clips[i].length <= 2 * MaxSafe

(* The machine implements the segmentation it promises. *)
Seg == INSTANCE Segmentation
         WITH Window <- ClipMs, chunks <- taken,
              ends <- [i \in 1..Len(cuts) |-> cuts[i].at]

(* Every branch of sm_fsm.c is a step, or a stutter, of Segmentation.      *)
ImplementsSegmentation == Seg!Spec

(* What sm_fsm.h:68 and .docs/applets/stream-merge.md:89 say without       *)
(* exception: a record numbered at or below an accepted one is rejected.   *)
LateRecordsRejected ==
  \A k \in 1..(Len(taken) - 1) : taken[k].seq < taken[k + 1].seq
=============================================================================
