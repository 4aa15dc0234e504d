------------------------------- MODULE SmFsm -------------------------------
(***************************************************************************)
(* The gap-aware clip state machine of stream_merge as pure operators      *)
(* (applets/stream_merge/sm_fsm.c): the record it keeps, the conditions    *)
(* it tests in the order it tests them, and the state each branch leaves.  *)
(*                                                                         *)
(* Two fields of the C structs are represented differently.  The wall      *)
(* clock enters only through now_ms - last_chunk_wall_ms, which the        *)
(* modules that use this one keep as an age.  The event set is left out:   *)
(* sm_reader_parse_line never fills it, so it is empty in every record.    *)
(***************************************************************************)
EXTENDS Integers

CONSTANTS
  ClipMs,    (* --clip-secs in milliseconds: atof of any text, so any integer *)
  IdleMs,    (* --idle-secs in milliseconds, likewise                         *)
  MaxSafe,   (* largest integer jsonl_codec accepts from JSON, 2^53 - 1       *)
  Chunks     (* the metadata records that can occur in the run                *)

(* A metadata record that sm_reader accepted (sm_meta_record_t, valid = 1). *)
Meta == [seq : 0..MaxSafe, offset : 0..MaxSafe, length : 0..MaxSafe,
         ts : (-MaxSafe)..MaxSafe]

ASSUME SmFsmAssumption ==
  /\ ClipMs \in Int
  /\ IdleMs \in Int
  /\ MaxSafe \in Nat
  /\ Chunks \subseteq Meta

(* sm_fsm_t, and the clip snapshot cut from it (sm_clip_record_t). *)
Fsm == [active : BOOLEAN, start : Int, end : Int, offset : Nat, length : Nat,
        expectedSeq : Nat, expectedOffset : Nat]

Clip == [start : Int, end : Int, offset : Nat, length : Nat, complete : BOOLEAN]

Reset == [active |-> FALSE, start |-> 0, end |-> 0, offset |-> 0, length |-> 0,
          expectedSeq |-> 0, expectedOffset |-> 0]

Snapshot(fsm, complete) ==
  [start |-> fsm.start, end |-> fsm.end, offset |-> fsm.offset,
   length |-> fsm.length, complete |-> complete]

StartClip(rec) ==
  [active |-> TRUE, start |-> rec.ts, end |-> rec.ts,
   offset |-> rec.offset, length |-> rec.length,
   expectedSeq |-> rec.seq + 1, expectedOffset |-> rec.offset + rec.length]

(* Mutants of AppendRecord: a sign slip; the end timestamp left behind. *)
AppendRecordSubtracts(fsm, rec) ==
  [fsm EXCEPT !.end = rec.ts, !.length = @ - rec.length,
              !.expectedSeq = rec.seq + 1,
              !.expectedOffset = rec.offset + rec.length]

AppendRecordKeepsEnd(fsm, rec) ==
  [fsm EXCEPT !.length = @ + rec.length,
              !.expectedSeq = rec.seq + 1,
              !.expectedOffset = rec.offset + rec.length]

AppendRecord(fsm, rec) ==
  [fsm EXCEPT !.end = rec.ts, !.length = @ + rec.length,
              !.expectedSeq = rec.seq + 1,
              !.expectedOffset = rec.offset + rec.length]

-----------------------------------------------------------------------------
(* The tests of sm_fsm_process_record, in order; each assumes the ones before *)
(* it failed.                                                                 *)

(* Mutant of IsLate: an exact duplicate of the last record passes. *)
IsLateOffByOne(fsm, rec) == rec.seq + 1 < fsm.expectedSeq

IsLate(fsm, rec) == rec.seq < fsm.expectedSeq

(* Mutants of IsGap: offsets not compared; the expected record itself a gap. *)
IsGapInSequenceOnly(fsm, rec) == rec.seq > fsm.expectedSeq

IsGapAlways(fsm, rec) ==
  \/ rec.seq >= fsm.expectedSeq
  \/ rec.offset # fsm.expectedOffset

IsGap(fsm, rec) ==
  \/ rec.seq > fsm.expectedSeq
  \/ rec.offset # fsm.expectedOffset

(* Mutant of IsBoundary: the record exactly at the boundary is appended. *)
IsBoundaryStrict(fsm, rec) == rec.ts - fsm.start > ClipMs

IsBoundary(fsm, rec) == rec.ts - fsm.start >= ClipMs

(* The test of sm_fsm_check_idle; quiet is now_ms - last_chunk_wall_ms. *)
IsIdle(fsm, quiet) == fsm.active /\ quiet >= IdleMs
=============================================================================
