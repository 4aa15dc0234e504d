--------------------------- MODULE ClipFsmProofs ----------------------------
(***************************************************************************)
(* Proofs about ClipFsm, for every window length, idle timeout, set of     *)
(* records and number of them.                                             *)
(***************************************************************************)
EXTENDS ClipFsm, SequenceTheorems, TLAPS

(* The steps of the machine, by the branch of sm_fsm.c they take. *)
LEMMA StepCases ==
  ASSUME [Next]_vars
  PROVE  \/ ~Ended /\ \E rec \in Chunks : Begin(rec)
         \/ \E rec \in Chunks : CutAtGap(rec)
         \/ \E rec \in Chunks : CutAtWindow(rec)
         \/ \E rec \in Chunks : Extend(rec)
         \/ FlushIdle
         \/ FlushFinal
         \/ Tick
         \/ UNCHANGED vars
BY DEF Next, ProcessRecord, RejectLate

LEMMA ChunkType ==
  ASSUME NEW rec \in Chunks
  PROVE  /\ rec.seq \in Nat /\ rec.offset \in Nat /\ rec.length \in Nat
         /\ rec.ts \in Int
         /\ rec.seq <= MaxSafe /\ rec.offset <= MaxSafe /\ rec.length <= MaxSafe
         /\ rec.ts \in (-MaxSafe)..MaxSafe
BY SmFsmAssumption DEF Meta

LEMMA StartClipType ==
  ASSUME NEW rec \in Chunks
  PROVE  StartClip(rec) \in Fsm
BY ChunkType DEF StartClip, Fsm

LEMMA AppendRecordType ==
  ASSUME NEW rec \in Chunks, fsm \in Fsm
  PROVE  AppendRecord(fsm, rec) \in Fsm
<1>1. /\ rec.ts \in Int
      /\ fsm.length + rec.length \in Nat
      /\ rec.seq + 1 \in Nat
      /\ rec.offset + rec.length \in Nat
  BY ChunkType DEF Fsm
<1>2. QED
  BY <1>1 DEF AppendRecord, Fsm

LEMMA ResetType == Reset \in Fsm
BY DEF Reset, Fsm

LEMMA QuietCapType == QuietCap \in Nat
BY SmFsmAssumption DEF QuietCap

(* What Emit adds is a clip and a cut of the right types. *)
LEMMA EmitType ==
  ASSUME TypeOK, NEW complete \in BOOLEAN, NEW why \in Causes, Emit(complete, why)
  PROVE  /\ clips' \in Seq(Clip)
         /\ cuts' \in Seq([at : Nat, why : Causes])
<1>1. Snapshot(fsm, complete) \in Clip
  BY DEF TypeOK, Snapshot, Clip, Fsm
<1>2. [at |-> Len(taken), why |-> why] \in [at : Nat, why : Causes]
  BY DEF TypeOK
<1>3. QED
  BY <1>1, <1>2 DEF TypeOK, Emit

LEMMA AcceptType ==
  ASSUME TypeOK, NEW rec \in Chunks, Accept(rec)
  PROVE  quiet' \in 0..QuietCap /\ taken' \in Seq(Chunks)
BY QuietCapType DEF TypeOK, Accept

LEMMA TypeInit == Init => TypeOK
BY ResetType, QuietCapType DEF Init, TypeOK

LEMMA TypeStep ==
  ASSUME TypeOK, [Next]_vars
  PROVE  TypeOK'
<1>1. CASE \E rec \in Chunks : Begin(rec)
  BY <1>1, AcceptType, StartClipType DEF Begin, TypeOK
<1>2. CASE \E rec \in Chunks : CutAtGap(rec)
  BY <1>2, AcceptType, StartClipType, EmitType DEF CutAtGap, TypeOK, Causes
<1>3. CASE \E rec \in Chunks : CutAtWindow(rec)
  BY <1>3, AcceptType, StartClipType, EmitType DEF CutAtWindow, TypeOK, Causes
<1>4. CASE \E rec \in Chunks : Extend(rec)
  BY <1>4, AcceptType, AppendRecordType DEF Extend, TypeOK
<1>5. CASE FlushIdle
  <2>1. clips' \in Seq(Clip) /\ cuts' \in Seq([at : Nat, why : Causes])
    BY <1>5, EmitType DEF FlushIdle, Causes
  <2>2. QED
    BY <1>5, <2>1, ResetType, QuietCapType DEF FlushIdle, TypeOK
<1>6. CASE FlushFinal
  <2>1. clips' \in Seq(Clip) /\ cuts' \in Seq([at : Nat, why : Causes])
    BY <1>6, EmitType DEF FlushFinal, Causes
  <2>2. QED
    BY <1>6, <2>1, ResetType, QuietCapType DEF FlushFinal, TypeOK
<1>7. CASE Tick
  BY <1>7, QuietCapType DEF Tick, Age, TypeOK
<1>8. CASE UNCHANGED vars
  BY <1>8 DEF vars, TypeOK
<1>9. QED
  BY <1>1, <1>2, <1>3, <1>4, <1>5, <1>6, <1>7, <1>8, StepCases

(* The state of sm_fsm_t, the clips and the history keep their types       *)
(* whatever calls are made (the fields of sm_fsm.c:17-43).                 *)
THEOREM TypeCorrect == Spec => []TypeOK
<1>1. TypeOK /\ [Next]_vars => TypeOK'
  BY TypeStep
<1>2. QED
  BY <1>1, TypeInit, PTL DEF Spec

-----------------------------------------------------------------------------
(* How the histories grow. *)

LEMMA AppendFacts ==
  ASSUME NEW S, NEW s \in Seq(S), NEW e \in S
  PROVE  /\ Append(s, e) \in Seq(S)
         /\ Len(Append(s, e)) = Len(s) + 1
         /\ \A k \in 1..Len(s) : Append(s, e)[k] = s[k]
         /\ Append(s, e)[Len(s) + 1] = e
OBVIOUS

LEMMA ElementType ==
  ASSUME NEW S, NEW s \in Seq(S), NEW i \in 1..Len(s)
  PROVE  s[i] \in S
OBVIOUS

LEMMA TakenGrows ==
  ASSUME TypeOK, NEW rec \in Chunks, taken' = Append(taken, rec)
  PROVE  /\ Len(taken) \in Nat
         /\ Len(taken') = Len(taken) + 1
         /\ \A k \in 1..Len(taken) : taken'[k] = taken[k]
         /\ taken'[Len(taken) + 1] = rec
BY AppendFacts DEF TypeOK

LEMMA CutsGrow ==
  ASSUME TypeOK, NEW complete \in BOOLEAN, NEW why \in Causes, Emit(complete, why)
  PROVE  /\ Len(cuts) \in Nat /\ Len(clips) \in Nat
         /\ Len(cuts') = Len(cuts) + 1
         /\ Len(clips') = Len(clips) + 1
         /\ \A i \in 1..Len(cuts) : cuts'[i] = cuts[i]
         /\ \A i \in 1..Len(clips) : clips'[i] = clips[i]
         /\ cuts'[Len(cuts) + 1].at = Len(taken)
         /\ cuts'[Len(cuts) + 1].why = why
         /\ clips'[Len(clips) + 1] = Snapshot(fsm, complete)
<1>1. Snapshot(fsm, complete) \in Clip
  BY DEF TypeOK, Snapshot, Clip, Fsm
<1>2. [at |-> Len(taken), why |-> why] \in [at : Nat, why : Causes]
  BY DEF TypeOK
<1>3. QED
  BY <1>1, <1>2, AppendFacts DEF TypeOK, Emit

(* The cuts and records known before a step keep their places. *)
LEMMA FirstKept ==
  ASSUME TypeOK, NEW i \in 1..(Len(cuts) + 1),
         \A j \in 1..Len(cuts) : cuts'[j] = cuts[j]
  PROVE  First(i)' = First(i)
<1>1. i # 1 => i - 1 \in 1..Len(cuts)
  BY DEF TypeOK
<1>2. QED
  BY <1>1 DEF First

LEMMA CutType ==
  ASSUME TypeOK
  PROVE  /\ Len(cuts) \in Nat /\ Len(clips) \in Nat /\ Len(taken) \in Nat
         /\ \A i \in 1..Len(cuts) : cuts[i].at \in Nat /\ cuts[i].why \in Causes
         /\ \A i \in 1..(Len(cuts) + 1) : First(i) \in Nat \ {0}
         /\ \A k \in 1..Len(taken) : taken[k] \in Chunks
         /\ \A i \in 1..Len(clips) : clips[i] \in Clip
<1>1. /\ Len(cuts) \in Nat /\ Len(clips) \in Nat /\ Len(taken) \in Nat
      /\ \A k \in 1..Len(taken) : taken[k] \in Chunks
      /\ \A i \in 1..Len(clips) : clips[i] \in Clip
  BY DEF TypeOK
<1>2. \A i \in 1..Len(cuts) : cuts[i] \in [at : Nat, why : Causes]
  BY ElementType DEF TypeOK
<1>3. \A i \in 1..Len(cuts) : cuts[i].at \in Nat /\ cuts[i].why \in Causes
  BY <1>2
<1>4. ASSUME NEW i \in 1..(Len(cuts) + 1)
      PROVE  First(i) \in Nat \ {0}
  <2>1. i # 1 => i - 1 \in 1..Len(cuts)
    BY <1>1
  <2>2. QED
    BY <1>3, <2>1 DEF First
<1>5. QED
  BY <1>1, <1>3, <1>4

(* A record that is taken without a cut makes or keeps the machine active. *)
LEMMA PartitionTake ==
  ASSUME TypeOK, CutsPartition, NEW rec \in Chunks,
         Accept(rec), UNCHANGED <<clips, cuts>>, fsm'.active
  PROVE  CutsPartition'
<1>1. First(Len(cuts) + 1) <= Len(taken) + 1
  BY CutType DEF CutsPartition, First
<1>2. QED
  BY <1>1, CutType, TakenGrows DEF CutsPartition, Accept, First

LEMMA PartitionCut ==
  ASSUME TypeOK, CutsPartition, fsm.active,
         NEW complete \in BOOLEAN, NEW why \in Causes, Emit(complete, why),
         \/ UNCHANGED taken /\ ~fsm'.active /\ fsm'.active \in BOOLEAN
         \/ fsm'.active /\ \E rec \in Chunks : Accept(rec)
  PROVE  CutsPartition'
<1>1. /\ Len(taken) <= Len(taken')
      /\ fsm'.active <=> Len(taken) + 1 <= Len(taken')
      /\ Len(taken') \in Nat
  BY CutType, TakenGrows DEF Accept
<1>2. First(Len(cuts) + 1)' = Len(taken) + 1
  <2>1. /\ Len(cuts') = Len(cuts) + 1 /\ Len(cuts) \in Nat
        /\ cuts'[Len(cuts)+1].at = Len(taken)
    BY CutsGrow
  <2>2. QED
    BY <2>1 DEF First
<1>3. ASSUME NEW i \in 1..Len(cuts')
      PROVE  First(i)' <= cuts'[i].at /\ cuts'[i].at <= Len(taken')
  <2>1. CASE i \in 1..Len(cuts)
    BY <1>1, <2>1, CutType, CutsGrow, FirstKept DEF CutsPartition
  <2>2. CASE i = Len(cuts) + 1
    BY <1>1, <2>2, CutType, CutsGrow, FirstKept DEF CutsPartition
  <2>3. QED
    BY <2>1, <2>2, CutType, CutsGrow
<1>4. QED
  BY <1>1, <1>2, <1>3, CutsGrow DEF CutsPartition

(***************************************************************************)
(* The inductive invariant.  Each part speaks about the windows the cuts   *)
(* delimit, so each needs CutsPartition; the parts about the next cut need *)
(* to know that the machine's fields describe the open window.             *)
(***************************************************************************)
Inv ==
  /\ TypeOK
  /\ CutsPartition
  /\ ClipsDescribeRecords
  /\ NoHoleInsideClip
  /\ InsideWindow
  /\ CutsJustified
  /\ SequenceAdvances

(* The five shapes of a step, as far as the histories can tell. *)

Opening(rec) ==
  /\ ~Ended
  /\ ~fsm.active
  /\ fsm' = StartClip(rec)
  /\ Accept(rec)
  /\ UNCHANGED <<clips, cuts>>

Growing(rec) ==
  /\ fsm.active
  /\ ~IsLate(fsm, rec) /\ ~IsGap(fsm, rec) /\ ~IsBoundary(fsm, rec)
  /\ fsm' = AppendRecord(fsm, rec)
  /\ Accept(rec)
  /\ UNCHANGED <<clips, cuts>>

Turning(rec, complete, why) ==
  /\ fsm.active
  /\ ~IsLate(fsm, rec)
  /\ Emit(complete, why)
  /\ fsm' = StartClip(rec)
  /\ Accept(rec)
  /\ \/ complete = FALSE /\ why = "gap" /\ IsGap(fsm, rec)
     \/ complete = TRUE /\ why = "window" /\ ~IsGap(fsm, rec) /\ IsBoundary(fsm, rec)

Closing(complete, why) ==
  /\ fsm.active
  /\ Emit(complete, why)
  /\ fsm' = Reset
  /\ UNCHANGED taken
  /\ \/ complete = FALSE /\ why = "idle"
     \/ complete = TRUE /\ why = "final"

LEMMA Shapes ==
  ASSUME [Next]_vars
  PROVE  \/ \E rec \in Chunks : Opening(rec)
         \/ \E rec \in Chunks : Growing(rec)
         \/ \E rec \in Chunks, complete \in BOOLEAN, why \in Causes :
              Turning(rec, complete, why)
         \/ \E complete \in BOOLEAN, why \in Causes : Closing(complete, why)
         \/ UNCHANGED <<fsm, clips, taken, cuts>>
<1>1. CASE ~Ended /\ \E rec \in Chunks : Begin(rec)
  BY <1>1 DEF Begin, Opening
<1>2. CASE \E rec \in Chunks : CutAtGap(rec)
  <2>1. PICK rec \in Chunks : CutAtGap(rec)
    BY <1>2
  <2>2. Turning(rec, FALSE, "gap")
    BY <2>1 DEF CutAtGap, Turning
  <2>3. QED
    BY <2>2 DEF Causes
<1>3. CASE \E rec \in Chunks : CutAtWindow(rec)
  <2>1. PICK rec \in Chunks : CutAtWindow(rec)
    BY <1>3
  <2>2. Turning(rec, TRUE, "window")
    BY <2>1 DEF CutAtWindow, Turning
  <2>3. QED
    BY <2>2 DEF Causes
<1>4. CASE \E rec \in Chunks : Extend(rec)
  BY <1>4 DEF Extend, Growing
<1>5. CASE FlushIdle
  <2>1. Closing(FALSE, "idle")
    BY <1>5 DEF FlushIdle, IsIdle, Closing
  <2>2. QED
    BY <2>1 DEF Causes
<1>6. CASE FlushFinal
  <2>1. Closing(TRUE, "final")
    BY <1>6 DEF FlushFinal, Closing
  <2>2. QED
    BY <2>1 DEF Causes
<1>7. CASE Tick \/ UNCHANGED vars
  BY <1>7 DEF Tick, vars
<1>8. QED
  BY <1>1, <1>2, <1>3, <1>4, <1>5, <1>6, <1>7, StepCases

LEMMA PartitionStep ==
  ASSUME Inv, [Next]_vars
  PROVE  CutsPartition'
<1> USE DEF Inv
<1>1. ASSUME NEW rec \in Chunks, Opening(rec)
      PROVE  CutsPartition'
  BY <1>1, PartitionTake DEF Opening, StartClip
<1>2. ASSUME NEW rec \in Chunks, Growing(rec)
      PROVE  CutsPartition'
  <2>1. fsm'.active
    BY <1>2 DEF Growing, AppendRecord, TypeOK, Fsm
  <2>2. QED
    BY <1>2, <2>1, PartitionTake DEF Growing
<1>3. ASSUME NEW rec \in Chunks, NEW complete \in BOOLEAN, NEW why \in Causes,
             Turning(rec, complete, why)
      PROVE  CutsPartition'
  <2>1. fsm'.active
    BY <1>3 DEF Turning, StartClip
  <2>2. QED
    BY <1>3, <2>1, PartitionCut DEF Turning
<1>4. ASSUME NEW complete \in BOOLEAN, NEW why \in Causes, Closing(complete, why)
      PROVE  CutsPartition'
  BY <1>4, PartitionCut DEF Closing, Reset
<1>5. CASE UNCHANGED <<fsm, clips, taken, cuts>>
  BY <1>5 DEF CutsPartition, First
<1>6. QED
  BY <1>1, <1>2, <1>3, <1>4, <1>5, Shapes

(* The machine's fields describe the open window. *)
LEMMA OpenWindow ==
  ASSUME Inv, fsm.active
  PROVE  /\ First(Len(cuts) + 1) \in 1..Len(taken)
         /\ Len(taken) \in 1..Len(taken)
         /\ fsm.start = taken[First(Len(cuts) + 1)].ts
         /\ fsm.end = taken[Len(taken)].ts
         /\ fsm.offset = taken[First(Len(cuts) + 1)].offset
         /\ fsm.offset + fsm.length
              = taken[Len(taken)].offset + taken[Len(taken)].length
         /\ fsm.expectedSeq = taken[Len(taken)].seq + 1
         /\ fsm.expectedOffset = fsm.offset + fsm.length
BY CutType DEF Inv, CutsPartition, ClipsDescribeRecords, Describes

LEMMA FieldTypes ==
  ASSUME Inv
  PROVE  /\ fsm.start \in Int /\ fsm.end \in Int
         /\ fsm.offset \in Nat /\ fsm.length \in Nat
         /\ fsm.expectedSeq \in Nat /\ fsm.expectedOffset \in Nat
BY DEF Inv, TypeOK, Fsm

(* An inactive machine holds no record back. *)
LEMMA ClosedWindow ==
  ASSUME Inv, ~fsm.active
  PROVE  First(Len(cuts) + 1) = Len(taken) + 1
<1>1. First(Len(cuts) + 1) <= Len(taken) + 1
  BY CutType DEF Inv, CutsPartition, First
<1>2. QED
  BY <1>1, CutType DEF Inv, CutsPartition

(* Every cut lies at a record that has been taken. *)
LEMMA CutsInside ==
  ASSUME Inv, NEW i \in 1..Len(cuts)
  PROVE  /\ First(i) \in 1..Len(taken)
         /\ cuts[i].at \in 1..Len(taken)
         /\ First(i) <= cuts[i].at
BY CutType DEF Inv, CutsPartition

(* What each shape does to the histories, field by field. *)
LEMMA TakeFacts ==
  ASSUME Inv, NEW rec \in Chunks, Opening(rec) \/ Growing(rec)
  PROVE  /\ Len(taken') = Len(taken) + 1
         /\ taken'[Len(taken) + 1] = rec
         /\ \A k \in 1..Len(taken) : taken'[k] = taken[k]
         /\ \A i \in 1..(Len(cuts) + 1) : First(i)' = First(i)
         /\ UNCHANGED <<clips, cuts>>
<1>1. Accept(rec) /\ UNCHANGED <<clips, cuts>>
  BY DEF Opening, Growing
<1>2. QED
  BY <1>1, TakenGrows, FirstKept DEF Accept, Inv

LEMMA CutFacts ==
  ASSUME Inv, NEW complete \in BOOLEAN, NEW why \in Causes, Emit(complete, why)
  PROVE  /\ Len(cuts') = Len(cuts) + 1
         /\ Len(clips') = Len(clips) + 1
         /\ Len(cuts) = Len(clips)
         /\ \A i \in 1..Len(cuts) : cuts'[i] = cuts[i] /\ clips'[i] = clips[i]
         /\ cuts'[Len(cuts) + 1].at = Len(taken)
         /\ cuts'[Len(cuts) + 1].why = why
         /\ clips'[Len(cuts) + 1] = Snapshot(fsm, complete)
         /\ \A i \in 1..(Len(cuts) + 1) : First(i)' = First(i)
         /\ First(Len(cuts) + 1)' = Len(taken) + 1
<1>1. Len(cuts) = Len(clips)
  BY DEF Inv, CutsPartition
<1>2. /\ Len(cuts) \in Nat
      /\ cuts'[Len(cuts) + 1].at = Len(taken)
      /\ Len(cuts') = Len(cuts) + 1
  BY CutsGrow DEF Inv
<1>3. ASSUME NEW i \in 1..(Len(cuts) + 1)
      PROVE  First(i)' = First(i)
  BY CutsGrow, FirstKept DEF Inv
<1>4. First(Len(cuts) + 1)' = Len(taken) + 1
  BY <1>2 DEF First
<1>5. QED
  BY <1>1, <1>2, <1>3, <1>4, CutsGrow DEF Inv

LEMMA TurnFacts ==
  ASSUME Inv, NEW rec \in Chunks, Accept(rec)
  PROVE  /\ Len(taken') = Len(taken) + 1
         /\ taken'[Len(taken) + 1] = rec
         /\ \A k \in 1..Len(taken) : taken'[k] = taken[k]
BY TakenGrows DEF Inv, Accept

-----------------------------------------------------------------------------
(* ClipsDescribeRecords is preserved. *)

LEMMA ClosedClipsStayDescribed ==
  ASSUME Inv, NEW i \in 1..Len(cuts),
         First(i)' = First(i), cuts'[i] = cuts[i], clips'[i] = clips[i],
         \A k \in 1..Len(taken) : taken'[k] = taken[k]
  PROVE  Describes(clips[i], First(i), cuts[i].at)'
BY CutsInside DEF Inv, ClipsDescribeRecords, CutsPartition, Describes

LEMMA DescribeStep ==
  ASSUME Inv, [Next]_vars
  PROVE  ClipsDescribeRecords'
<1>1. ASSUME NEW rec \in Chunks, Opening(rec)
      PROVE  ClipsDescribeRecords'
  <2>1. \A i \in 1..Len(cuts) : Describes(clips[i], First(i), cuts[i].at)'
    BY <1>1, TakeFacts, ClosedClipsStayDescribed
  <2>2. First(Len(cuts) + 1)' = Len(taken')
    BY <1>1, TakeFacts, ClosedWindow, CutType DEF Opening, Inv
  <2>3. /\ taken'[Len(taken')] = rec
        /\ fsm' = StartClip(rec)
    BY <1>1, TakeFacts DEF Opening
  <2>4. /\ Describes(fsm, First(Len(cuts) + 1), Len(taken))'
        /\ fsm'.expectedSeq = taken'[Len(taken')].seq + 1
        /\ fsm'.expectedOffset = fsm'.offset + fsm'.length
    BY <2>2, <2>3, ChunkType DEF Describes, StartClip
  <2>5. Len(clips') = Len(cuts)
    BY <1>1 DEF Opening, Inv, CutsPartition
  <2>6. fsm'.active
    BY <1>1 DEF Opening, StartClip
  <2>7. QED
    BY <2>1, <2>4, <2>5, <2>6 DEF ClipsDescribeRecords
<1>2. ASSUME NEW rec \in Chunks, Growing(rec)
      PROVE  ClipsDescribeRecords'
  <2>1. \A i \in 1..Len(cuts) : Describes(clips[i], First(i), cuts[i].at)'
    BY <1>2, TakeFacts, ClosedClipsStayDescribed
  <2>2. fsm.active
    BY <1>2 DEF Growing
  <2>3. /\ First(Len(cuts) + 1)' = First(Len(cuts) + 1)
        /\ taken'[First(Len(cuts) + 1)] = taken[First(Len(cuts) + 1)]
        /\ taken'[Len(taken')] = rec
    BY <1>2, <2>2, TakeFacts, OpenWindow, CutType DEF Inv
  <2>4. /\ rec.offset = fsm.expectedOffset
        /\ fsm'.active
        /\ fsm'.start = fsm.start /\ fsm'.offset = fsm.offset
        /\ fsm'.end = rec.ts
        /\ fsm'.length = fsm.length + rec.length
        /\ fsm'.expectedSeq = rec.seq + 1
        /\ fsm'.expectedOffset = rec.offset + rec.length
    BY <1>2, ChunkType DEF Growing, IsGap, AppendRecord, Inv, TypeOK, Fsm
  <2>5. fsm'.offset + fsm'.length = rec.offset + rec.length
    <3>1. fsm.offset + fsm.length = rec.offset
      BY <2>2, <2>4, OpenWindow
    <3>2. rec.offset \in Nat /\ rec.length \in Nat
      BY ChunkType
    <3>3. QED
      BY <2>4, <3>1, <3>2, FieldTypes
  <2>6. /\ Describes(fsm, First(Len(cuts) + 1), Len(taken))'
        /\ fsm'.expectedSeq = taken'[Len(taken')].seq + 1
        /\ fsm'.expectedOffset = fsm'.offset + fsm'.length
    BY <2>2, <2>3, <2>4, <2>5, OpenWindow DEF Describes
  <2>7. Len(clips') = Len(cuts)
    BY <1>2 DEF Growing, Inv, CutsPartition
  <2>8. QED
    BY <2>1, <2>4, <2>6, <2>7 DEF ClipsDescribeRecords
<1>3. ASSUME NEW complete \in BOOLEAN, NEW why \in Causes,
             fsm.active, Emit(complete, why),
             \A k \in 1..Len(taken) : taken'[k] = taken[k]
      PROVE  \A i \in 1..Len(clips') : Describes(clips[i], First(i), cuts[i].at)'
  <2>1. ASSUME NEW i \in 1..Len(cuts)
        PROVE  Describes(clips[i], First(i), cuts[i].at)'
    BY <1>3, CutFacts, ClosedClipsStayDescribed, CutType DEF Inv
  <2>2. ASSUME NEW i, i = Len(cuts) + 1
        PROVE  Describes(clips[i], First(i), cuts[i].at)'
    <3>1. /\ clips'[i] = Snapshot(fsm, complete)
          /\ First(i)' = First(Len(cuts) + 1)
          /\ cuts'[i].at = Len(taken)
      BY <1>3, <2>2, CutFacts, CutType DEF Inv
    <3>2. /\ taken'[First(Len(cuts) + 1)] = taken[First(Len(cuts) + 1)]
          /\ taken'[Len(taken)] = taken[Len(taken)]
      BY <1>3, OpenWindow
    <3>3. QED
      BY <1>3, <3>1, <3>2, OpenWindow DEF Describes, Snapshot
  <2>3. QED
    BY <1>3, <2>1, <2>2, CutFacts, CutType DEF Inv
<1>4. ASSUME NEW rec \in Chunks, NEW complete \in BOOLEAN, NEW why \in Causes,
             Turning(rec, complete, why)
      PROVE  ClipsDescribeRecords'
  <2>1. \A i \in 1..Len(clips') : Describes(clips[i], First(i), cuts[i].at)'
    BY <1>3, <1>4, TurnFacts DEF Turning
  <2>2. /\ First(Len(cuts) + 1)' = Len(taken')
        /\ taken'[Len(taken')] = rec
        /\ fsm' = StartClip(rec)
    BY <1>4, CutFacts, TurnFacts DEF Turning
  <2>3. /\ Describes(fsm, First(Len(cuts) + 1), Len(taken))'
        /\ fsm'.expectedSeq = taken'[Len(taken')].seq + 1
        /\ fsm'.expectedOffset = fsm'.offset + fsm'.length
    BY <2>2, ChunkType DEF Describes, StartClip
  <2>4. fsm'.active
    BY <2>2 DEF StartClip
  <2>5. QED
    BY <2>1, <2>3, <2>4 DEF ClipsDescribeRecords
<1>5. ASSUME NEW complete \in BOOLEAN, NEW why \in Causes, Closing(complete, why)
      PROVE  ClipsDescribeRecords'
  <2>1. \A i \in 1..Len(clips') : Describes(clips[i], First(i), cuts[i].at)'
    BY <1>3, <1>5 DEF Closing
  <2>2. ~fsm'.active /\ fsm' = Reset
    BY <1>5 DEF Closing, Reset
  <2>3. QED
    BY <2>1, <2>2 DEF ClipsDescribeRecords
<1>6. CASE UNCHANGED <<fsm, clips, taken, cuts>>
  BY <1>6 DEF Inv, ClipsDescribeRecords, Describes, First
<1>7. QED
  BY <1>1, <1>2, <1>4, <1>5, <1>6, Shapes

-----------------------------------------------------------------------------
(* The parts about neighbouring records: NoHoleInsideClip, SequenceAdvances. *)

(* A record the machine does not reject as late has a higher number.       *)
LEMMA NotLateIsHigher ==
  ASSUME Inv, NEW rec \in Chunks, fsm.active, ~IsLate(fsm, rec)
  PROVE  taken[Len(taken)].seq < rec.seq
<1>1. taken[Len(taken)] \in Chunks
      /\ fsm.expectedSeq = taken[Len(taken)].seq + 1
  BY OpenWindow, CutType DEF Inv
<1>2. QED
  BY <1>1, ChunkType DEF IsLate

LEMMA NotGapIsContiguous ==
  ASSUME Inv, NEW rec \in Chunks, fsm.active, ~IsLate(fsm, rec)
  PROVE  IsGap(fsm, rec) <=> ~Contiguous(taken[Len(taken)], rec)
<1>1. /\ taken[Len(taken)] \in Chunks
      /\ fsm.expectedSeq = taken[Len(taken)].seq + 1
      /\ fsm.expectedOffset = taken[Len(taken)].offset + taken[Len(taken)].length
  BY OpenWindow, CutType DEF Inv
<1>2. QED
  BY <1>1, ChunkType DEF IsLate, IsGap, Contiguous

(* The last record of an inactive machine was closed by its last cut.      *)
LEMMA InactiveEndsInCut ==
  ASSUME Inv, ~fsm.active, taken # <<>>
  PROVE  Len(cuts) \in 1..Len(cuts) /\ cuts[Len(cuts)].at = Len(taken)
<1>1. Len(taken) # 0
  BY DEF Inv, TypeOK
<1>2. Len(cuts) # 0
  BY <1>1, ClosedWindow, CutType DEF First, Inv
<1>3. QED
  BY <1>2, ClosedWindow, CutType DEF First, Inv

LEMMA NoHoleStep ==
  ASSUME Inv, [Next]_vars
  PROVE  NoHoleInsideClip'
<1> DEFINE Cut(k) == \E i \in 1..Len(cuts) : cuts[i].at = k
           Joined(k) == Contiguous(taken[k], taken[k + 1]) \/ Cut(k)
<1>1. \A k \in 1..(Len(taken) - 1) : Joined(k)
  BY DEF Inv, NoHoleInsideClip
<1>2. ASSUME NEW rec \in Chunks, Opening(rec) \/ Growing(rec)
      PROVE  NoHoleInsideClip'
  <2>1. ASSUME NEW k \in 1..(Len(taken) - 1)
        PROVE  Joined(k)'
    <3>1. taken'[k] = taken[k] /\ taken'[k + 1] = taken[k + 1]
      BY <1>2, TakeFacts, CutType DEF Inv
    <3>2. QED
      BY <1>1, <1>2, <3>1, TakeFacts DEF Contiguous
  <2>2. ASSUME Len(taken) # 0
        PROVE  Contiguous(taken[Len(taken)], rec) \/ Cut(Len(taken))
    <3>1. CASE Opening(rec)
      BY <2>2, <3>1, InactiveEndsInCut DEF Opening, Inv, TypeOK
    <3>2. CASE Growing(rec)
      BY <3>2, NotGapIsContiguous DEF Growing
    <3>3. QED
      BY <1>2, <3>1, <3>2
  <2>3. ASSUME NEW k, k = Len(taken), k # 0
        PROVE  Joined(k)'
    <3>1. taken'[k] = taken[k] /\ taken'[k + 1] = rec
      BY <1>2, <2>3, TakeFacts, CutType DEF Inv
    <3>2. QED
      BY <1>2, <2>2, <2>3, <3>1, TakeFacts DEF Contiguous
  <2>4. Len(taken') = Len(taken) + 1 /\ Len(taken) \in Nat
    BY <1>2, TakeFacts, CutType DEF Inv
  <2>5. ASSUME NEW k \in 1..(Len(taken') - 1)
        PROVE  Joined(k)'
    BY <2>1, <2>3, <2>4
  <2>6. QED
    BY <2>5 DEF NoHoleInsideClip
<1>3. ASSUME NEW complete \in BOOLEAN, NEW why \in Causes, Emit(complete, why),
             NEW k, Cut(k) \/ k = Len(taken)
      PROVE  Cut(k)'
  <2>1. CASE k = Len(taken)
    <3>1. Len(cuts) + 1 \in 1..Len(cuts') /\ cuts'[Len(cuts) + 1].at = k
      BY <1>3, <2>1, CutFacts, CutType DEF Inv
    <3>2. QED
      BY <3>1
  <2>2. CASE Cut(k)
    <3>1. PICK i \in 1..Len(cuts) : cuts[i].at = k
      BY <2>2
    <3>2. i \in 1..Len(cuts') /\ cuts'[i].at = k
      BY <1>3, <3>1, CutFacts, CutType DEF Inv
    <3>3. QED
      BY <3>2
  <2>3. QED
    BY <1>3, <2>1, <2>2
<1>4. ASSUME NEW rec \in Chunks, NEW complete \in BOOLEAN, NEW why \in Causes,
             Turning(rec, complete, why)
      PROVE  NoHoleInsideClip'
  <2>1. /\ Emit(complete, why)
        /\ Len(taken') = Len(taken) + 1
        /\ Len(taken) \in Nat
        /\ \A k \in 1..Len(taken) : taken'[k] = taken[k]
    BY <1>4, TurnFacts, CutType DEF Turning, Inv
  <2>2. ASSUME NEW k \in 1..(Len(taken) - 1)
        PROVE  Joined(k)'
    <3>1. taken'[k] = taken[k] /\ taken'[k + 1] = taken[k + 1]
      BY <2>1
    <3>2. QED
      BY <1>1, <1>3, <2>1, <3>1 DEF Contiguous
  <2>3. ASSUME NEW k, k = Len(taken)
        PROVE  Joined(k)'
    BY <1>3, <2>1, <2>3
  <2>4. ASSUME NEW k \in 1..(Len(taken') - 1)
        PROVE  Joined(k)'
    BY <2>1, <2>2, <2>3
  <2>5. QED
    BY <2>4 DEF NoHoleInsideClip
<1>5. ASSUME NEW complete \in BOOLEAN, NEW why \in Causes, Closing(complete, why)
      PROVE  NoHoleInsideClip'
  <2>1. Emit(complete, why) /\ taken' = taken
    BY <1>5 DEF Closing
  <2>2. ASSUME NEW k \in 1..(Len(taken) - 1)
        PROVE  Joined(k)'
    BY <1>1, <1>3, <2>1 DEF Contiguous
  <2>3. QED
    BY <2>1, <2>2 DEF NoHoleInsideClip
<1>6. CASE UNCHANGED <<fsm, clips, taken, cuts>>
  BY <1>6 DEF Inv, NoHoleInsideClip, Contiguous
<1>7. QED
  BY <1>2, <1>4, <1>5, <1>6, Shapes

(* A machine that is inactive and will take a record was flushed when idle. *)
LEMMA InactiveWasIdle ==
  ASSUME Inv, ~fsm.active, ~Ended, taken # <<>>
  PROVE  \E i \in 1..Len(cuts) : cuts[i].at = Len(taken) /\ cuts[i].why = "idle"
<1>1. /\ Len(cuts) \in 1..Len(cuts)
      /\ cuts[Len(cuts)].at = Len(taken)
      /\ cuts[Len(cuts)].why \in Causes
  BY InactiveEndsInCut, CutType DEF Inv
<1>2. cuts[Len(cuts)].why \notin {"gap", "window"}
  BY <1>1, CutType DEF Inv, CutsJustified
<1>3. cuts[Len(cuts)].why # "final"
  BY <1>1 DEF Ended
<1>4. QED
  BY <1>1, <1>2, <1>3 DEF Causes

LEMMA SequenceStep ==
  ASSUME Inv, [Next]_vars
  PROVE  SequenceAdvances'
<1> DEFINE IdleCut(k) == \E i \in 1..Len(cuts) : cuts[i].at = k /\ cuts[i].why = "idle"
           Ordered(k) == taken[k].seq < taken[k + 1].seq \/ IdleCut(k)
<1>1. \A k \in 1..(Len(taken) - 1) : Ordered(k)
  BY DEF Inv, SequenceAdvances
<1>2. ASSUME NEW rec \in Chunks, Opening(rec) \/ Growing(rec)
      PROVE  SequenceAdvances'
  <2>1. ASSUME NEW k \in 1..(Len(taken) - 1)
        PROVE  Ordered(k)'
    <3>1. taken'[k] = taken[k] /\ taken'[k + 1] = taken[k + 1]
      BY <1>2, TakeFacts, CutType DEF Inv
    <3>2. QED
      BY <1>1, <1>2, <3>1, TakeFacts
  <2>2. ASSUME Len(taken) # 0
        PROVE  taken[Len(taken)].seq < rec.seq \/ IdleCut(Len(taken))
    <3>1. CASE Opening(rec)
      <4>1. taken # <<>> /\ ~fsm.active /\ ~Ended
        BY <2>2, <3>1 DEF Opening
      <4>2. IdleCut(Len(taken))
        BY <4>1, InactiveWasIdle
      <4>3. QED
        BY <4>2
    <3>2. CASE Growing(rec)
      BY <3>2, NotLateIsHigher DEF Growing
    <3>3. QED
      BY <1>2, <3>1, <3>2
  <2>3. ASSUME NEW k, k = Len(taken), k # 0
        PROVE  Ordered(k)'
    <3>1. taken'[k] = taken[k] /\ taken'[k + 1] = rec
      BY <1>2, <2>3, TakeFacts, CutType DEF Inv
    <3>2. QED
      BY <1>2, <2>2, <2>3, <3>1, TakeFacts
  <2>4. Len(taken') = Len(taken) + 1 /\ Len(taken) \in Nat
    BY <1>2, TakeFacts, CutType DEF Inv
  <2>5. ASSUME NEW k \in 1..(Len(taken') - 1)
        PROVE  Ordered(k)'
    BY <2>1, <2>3, <2>4
  <2>6. QED
    BY <2>5 DEF SequenceAdvances
<1>3. ASSUME NEW complete \in BOOLEAN, NEW why \in Causes, Emit(complete, why),
             NEW k, IdleCut(k)
      PROVE  IdleCut(k)'
  <2>1. PICK i \in 1..Len(cuts) : cuts[i].at = k /\ cuts[i].why = "idle"
    BY <1>3
  <2>2. i \in 1..Len(cuts') /\ cuts'[i].at = k /\ cuts'[i].why = "idle"
    BY <1>3, <2>1, CutFacts, CutType DEF Inv
  <2>3. QED
    BY <2>2
<1>4. ASSUME NEW rec \in Chunks, NEW complete \in BOOLEAN, NEW why \in Causes,
             Turning(rec, complete, why)
      PROVE  SequenceAdvances'
  <2>1. /\ Emit(complete, why)
        /\ Len(taken') = Len(taken) + 1
        /\ Len(taken) \in Nat
        /\ \A k \in 1..Len(taken) : taken'[k] = taken[k]
        /\ taken'[Len(taken) + 1] = rec
    BY <1>4, TurnFacts, CutType DEF Turning, Inv
  <2>2. ASSUME NEW k \in 1..(Len(taken) - 1)
        PROVE  Ordered(k)'
    <3>1. taken'[k] = taken[k] /\ taken'[k + 1] = taken[k + 1]
      BY <2>1
    <3>2. QED
      BY <1>1, <1>3, <2>1, <3>1
  <2>3. ASSUME NEW k, k = Len(taken), k # 0
        PROVE  Ordered(k)'
    <3>1. taken'[k] = taken[k] /\ taken'[k + 1] = rec
      BY <2>1, <2>3
    <3>2. QED
      BY <1>4, <2>3, <3>1, NotLateIsHigher DEF Turning
  <2>4. ASSUME NEW k \in 1..(Len(taken') - 1)
        PROVE  Ordered(k)'
    BY <2>1, <2>2, <2>3
  <2>5. QED
    BY <2>4 DEF SequenceAdvances
<1>5. ASSUME NEW complete \in BOOLEAN, NEW why \in Causes, Closing(complete, why)
      PROVE  SequenceAdvances'
  <2>1. Emit(complete, why) /\ taken' = taken
    BY <1>5 DEF Closing
  <2>2. ASSUME NEW k \in 1..(Len(taken) - 1)
        PROVE  Ordered(k)'
    BY <1>1, <1>3, <2>1
  <2>3. QED
    BY <2>1, <2>2 DEF SequenceAdvances
<1>6. CASE UNCHANGED <<fsm, clips, taken, cuts>>
  BY <1>6 DEF Inv, SequenceAdvances
<1>7. QED
  BY <1>2, <1>4, <1>5, <1>6, Shapes

-----------------------------------------------------------------------------
(* The parts about whole windows: InsideWindow, CutsJustified. *)

LEMMA ClosedStayInside ==
  ASSUME Inv, NEW i \in 1..Len(cuts), First(i)' = First(i), cuts'[i] = cuts[i],
         \A k \in 1..Len(taken) : taken'[k] = taken[k]
  PROVE  Inside(First(i), cuts[i].at)'
<1>1. Inside(First(i), cuts[i].at)
  BY DEF Inv, InsideWindow
<1>2. First(i) \in 1..Len(taken) /\ cuts[i].at \in 1..Len(taken)
  BY CutsInside
<1>3. ASSUME NEW k \in (First(i) + 1)..cuts[i].at
      PROVE  taken'[k].ts - taken'[First(i)].ts < ClipMs
  <2>1. k \in 1..Len(taken)
    BY <1>2
  <2>2. taken'[k] = taken[k] /\ taken'[First(i)] = taken[First(i)]
    BY <1>2, <2>1
  <2>3. QED
    BY <1>1, <2>2 DEF Inside
<1>4. QED
  BY <1>3 DEF Inside

LEMMA WindowStep ==
  ASSUME Inv, [Next]_vars
  PROVE  InsideWindow'
<1>1. ASSUME NEW rec \in Chunks, Opening(rec)
      PROVE  InsideWindow'
  <2>1. \A i \in 1..Len(cuts) : Inside(First(i), cuts[i].at)'
    BY <1>1, TakeFacts, ClosedStayInside
  <2>2. First(Len(cuts) + 1)' = Len(taken') /\ Len(taken') \in Nat
    BY <1>1, TakeFacts, ClosedWindow, CutType DEF Opening, Inv
  <2>3. Inside(First(Len(cuts) + 1), Len(taken))'
    BY <2>2 DEF Inside
  <2>4. QED
    BY <1>1, <2>1, <2>3 DEF InsideWindow, Opening
<1>2. ASSUME NEW rec \in Chunks, Growing(rec)
      PROVE  InsideWindow'
  <2>1. \A i \in 1..Len(cuts) : Inside(First(i), cuts[i].at)'
    BY <1>2, TakeFacts, ClosedStayInside
  <2>2. /\ First(Len(cuts) + 1)' = First(Len(cuts) + 1)
        /\ First(Len(cuts) + 1) \in 1..Len(taken)
        /\ fsm.start = taken[First(Len(cuts) + 1)].ts
        /\ Inside(First(Len(cuts) + 1), Len(taken))
    BY <1>2, TakeFacts, OpenWindow, CutType DEF Growing, Inv, InsideWindow
  <2>3. rec.ts - taken[First(Len(cuts) + 1)].ts < ClipMs
    <3>1. taken[First(Len(cuts) + 1)].ts \in Int
      BY <2>2, CutType, ChunkType DEF Inv
    <3>2. QED
      BY <1>2, <2>2, <3>1, ChunkType, SmFsmAssumption DEF Growing, IsBoundary
  <2>4. ASSUME NEW k \in (First(Len(cuts) + 1) + 1)..Len(taken')
        PROVE  taken'[k].ts - taken'[First(Len(cuts) + 1)].ts < ClipMs
    <3>1. CASE k \in (First(Len(cuts) + 1) + 1)..Len(taken)
      BY <1>2, <2>2, <3>1, TakeFacts, CutType DEF Inside, Inv
    <3>2. CASE k = Len(taken) + 1
      BY <1>2, <2>2, <2>3, <3>2, TakeFacts
    <3>3. QED
      BY <1>2, <2>2, <3>1, <3>2, TakeFacts, CutType DEF Inv
  <2>5. Inside(First(Len(cuts) + 1), Len(taken))'
    BY <2>2, <2>4 DEF Inside
  <2>6. QED
    BY <1>2, <2>1, <2>5 DEF InsideWindow, Growing
<1>3. ASSUME NEW complete \in BOOLEAN, NEW why \in Causes,
             fsm.active, Emit(complete, why),
             \A k \in 1..Len(taken) : taken'[k] = taken[k]
      PROVE  \A i \in 1..Len(cuts') : Inside(First(i), cuts[i].at)'
  <2>1. ASSUME NEW i \in 1..Len(cuts)
        PROVE  Inside(First(i), cuts[i].at)'
    BY <1>3, CutFacts, ClosedStayInside, CutType DEF Inv
  <2>2. ASSUME NEW i, i = Len(cuts) + 1
        PROVE  Inside(First(i), cuts[i].at)'
    <3>1. First(i)' = First(Len(cuts) + 1) /\ cuts'[i].at = Len(taken)
      BY <1>3, <2>2, CutFacts, CutType DEF Inv
    <3>2. Inside(First(Len(cuts) + 1), Len(taken))
      BY DEF Inv, InsideWindow
    <3>3. QED
      BY <1>3, <3>1, <3>2, OpenWindow, CutType DEF Inside, Inv
  <2>3. QED
    BY <1>3, <2>1, <2>2, CutFacts, CutType DEF Inv
<1>4. ASSUME NEW rec \in Chunks, NEW complete \in BOOLEAN, NEW why \in Causes,
             Turning(rec, complete, why)
      PROVE  InsideWindow'
  <2>1. \A i \in 1..Len(cuts') : Inside(First(i), cuts[i].at)'
    BY <1>3, <1>4, TurnFacts DEF Turning
  <2>2. First(Len(cuts) + 1)' = Len(taken') /\ Len(taken') \in Nat
    BY <1>4, CutFacts, TurnFacts, CutType DEF Turning, Inv
  <2>3. Inside(First(Len(cuts) + 1), Len(taken))'
    BY <2>2 DEF Inside
  <2>4. QED
    BY <2>1, <2>3 DEF InsideWindow
<1>5. ASSUME NEW complete \in BOOLEAN, NEW why \in Causes, Closing(complete, why)
      PROVE  InsideWindow'
  <2>1. \A i \in 1..Len(cuts') : Inside(First(i), cuts[i].at)'
    BY <1>3, <1>5 DEF Closing
  <2>2. First(Len(cuts) + 1)' = Len(taken') + 1 /\ Len(taken') \in Nat
    BY <1>5, CutFacts, CutType DEF Closing, Inv
  <2>3. Inside(First(Len(cuts) + 1), Len(taken))'
    BY <2>2 DEF Inside
  <2>4. QED
    BY <2>1, <2>3 DEF InsideWindow
<1>6. CASE UNCHANGED <<fsm, clips, taken, cuts>>
  BY <1>6 DEF Inv, InsideWindow, Inside, First
<1>7. QED
  BY <1>1, <1>2, <1>4, <1>5, <1>6, Shapes

(* The reason of one cut, as CutsJustified states it. *)
Justified(i) ==
  LET at == cuts[i].at
      joined == Contiguous(taken[at], taken[at + 1])
  IN /\ clips[i].complete <=> cuts[i].why \in {"window", "final"}
     /\ cuts[i].why \in {"gap", "window"} => at < Len(taken)
     /\ cuts[i].why = "gap" => ~joined
     /\ cuts[i].why = "window" =>
          joined /\ taken[at + 1].ts - taken[First(i)].ts >= ClipMs

LEMMA JustifiedKept ==
  ASSUME Inv, NEW i \in 1..Len(cuts), First(i)' = First(i),
         cuts'[i] = cuts[i], clips'[i] = clips[i],
         Len(taken') \in Nat, Len(taken) <= Len(taken'),
         \A k \in 1..Len(taken) : taken'[k] = taken[k]
  PROVE  Justified(i)'
<1>1. Justified(i)
  BY DEF Inv, CutsJustified, Justified
<1>2. /\ First(i) \in 1..Len(taken) /\ cuts[i].at \in 1..Len(taken)
      /\ Len(taken) \in Nat
  BY CutsInside, CutType DEF Inv
<1>3. CASE cuts[i].why \in {"gap", "window"}
  <2>1. cuts[i].at + 1 \in 1..Len(taken)
    BY <1>1, <1>2, <1>3 DEF Justified
  <2>2. /\ taken'[First(i)] = taken[First(i)]
        /\ taken'[cuts[i].at] = taken[cuts[i].at]
        /\ taken'[cuts[i].at + 1] = taken[cuts[i].at + 1]
    BY <1>2, <2>1
  <2>3. QED
    BY <1>1, <1>2, <1>3, <2>1, <2>2 DEF Justified, Contiguous
<1>4. CASE cuts[i].why \notin {"gap", "window"}
  BY <1>1, <1>4 DEF Justified
<1>5. QED
  BY <1>3, <1>4

LEMMA NewCut ==
  ASSUME Inv, NEW complete \in BOOLEAN, NEW why \in Causes, Emit(complete, why),
         NEW i, i = Len(cuts) + 1
  PROVE  /\ cuts'[i].at = Len(taken) /\ cuts'[i].why = why
         /\ clips'[i].complete = complete
         /\ First(i)' = First(Len(cuts) + 1)
<1>1. Snapshot(fsm, complete).complete = complete
  BY Zenon DEF Snapshot
<1>2. clips'[i] = Snapshot(fsm, complete)
  BY CutFacts
<1>3. cuts'[i].at = Len(taken) /\ cuts'[i].why = why
  BY CutFacts
<1>4. First(i)' = First(Len(cuts) + 1)
  BY CutFacts, CutType DEF Inv
<1>5. QED
  BY <1>1, <1>2, <1>3, <1>4

LEMMA JustifiedStep ==
  ASSUME Inv, [Next]_vars
  PROVE  CutsJustified'
<1> SUFFICES \A i \in 1..Len(cuts') : Justified(i)'
  BY DEF CutsJustified, Justified
<1>1. ASSUME NEW rec \in Chunks, Opening(rec) \/ Growing(rec)
      PROVE  \A i \in 1..Len(cuts') : Justified(i)'
  <2>1. /\ Len(taken') \in Nat /\ Len(taken) <= Len(taken')
        /\ Len(cuts') = Len(cuts) /\ Len(cuts) \in Nat
    BY <1>1, TakeFacts, CutType DEF Inv
  <2>2. ASSUME NEW i \in 1..Len(cuts)
        PROVE  Justified(i)'
    <3>1. cuts'[i] = cuts[i] /\ clips'[i] = clips[i] /\ First(i)' = First(i)
      BY <1>1, <2>1, TakeFacts
    <3>2. QED
      BY <1>1, <2>1, <3>1, TakeFacts, JustifiedKept
  <2>3. QED
    BY <2>1, <2>2
<1>2. ASSUME NEW rec \in Chunks, NEW complete \in BOOLEAN, NEW why \in Causes,
             Turning(rec, complete, why)
      PROVE  \A i \in 1..Len(cuts') : Justified(i)'
  <2>1. /\ Emit(complete, why)
        /\ Len(taken') = Len(taken) + 1
        /\ Len(taken) \in Nat
        /\ \A k \in 1..Len(taken) : taken'[k] = taken[k]
        /\ taken'[Len(taken) + 1] = rec
    BY <1>2, TurnFacts, CutType DEF Turning, Inv
  <2>2. ASSUME NEW i \in 1..Len(cuts)
        PROVE  Justified(i)'
    BY <2>1, CutFacts, JustifiedKept, CutType DEF Inv
  <2>3. ASSUME NEW i, i = Len(cuts) + 1
        PROVE  Justified(i)'
    <3>1. /\ cuts'[i].at = Len(taken) /\ cuts'[i].why = why
          /\ clips'[i].complete = complete
          /\ First(i)' = First(Len(cuts) + 1)
      BY <2>1, <2>3, NewCut
    <3>2. /\ First(Len(cuts) + 1) \in 1..Len(taken)
          /\ Len(taken) \in 1..Len(taken)
          /\ fsm.start = taken[First(Len(cuts) + 1)].ts
      BY <1>2, OpenWindow DEF Turning
    <3>3. /\ taken'[First(Len(cuts) + 1)] = taken[First(Len(cuts) + 1)]
          /\ taken'[Len(taken)] = taken[Len(taken)]
      BY <2>1, <3>2
    <3>4. IsGap(fsm, rec) <=> ~Contiguous(taken[Len(taken)], rec)
      BY <1>2, NotGapIsContiguous DEF Turning
    <3>5. \/ complete = FALSE /\ why = "gap" /\ ~Contiguous(taken[Len(taken)], rec)
          \/ /\ complete = TRUE /\ why = "window"
             /\ Contiguous(taken[Len(taken)], rec)
             /\ rec.ts - taken[First(Len(cuts) + 1)].ts >= ClipMs
      BY <1>2, <3>2, <3>4 DEF Turning, IsBoundary
    <3>6. QED
      BY <2>1, <3>1, <3>3, <3>5 DEF Justified, Contiguous
  <2>4. QED
    BY <2>1, <2>2, <2>3, CutFacts, CutType DEF Inv
<1>3. ASSUME NEW complete \in BOOLEAN, NEW why \in Causes, Closing(complete, why)
      PROVE  \A i \in 1..Len(cuts') : Justified(i)'
  <2>1. Emit(complete, why) /\ taken' = taken /\ Len(taken) \in Nat
    BY <1>3, CutType DEF Closing, Inv
  <2>2. ASSUME NEW i \in 1..Len(cuts)
        PROVE  Justified(i)'
    BY <2>1, CutFacts, JustifiedKept, CutType DEF Inv
  <2>3. ASSUME NEW i, i = Len(cuts) + 1
        PROVE  Justified(i)'
    <3>1. cuts'[i].why = why /\ clips'[i].complete = complete
      BY <2>1, <2>3, NewCut
    <3>2. QED
      BY <1>3, <3>1 DEF Justified, Closing
  <2>4. QED
    BY <2>1, <2>2, <2>3, CutFacts, CutType DEF Inv
<1>4. CASE UNCHANGED <<fsm, clips, taken, cuts>>
  <2>1. \A i \in 1..Len(cuts) : Justified(i)
    BY DEF Inv, CutsJustified, Justified
  <2>2. QED
    BY <1>4, <2>1 DEF Justified, Contiguous, First
<1>5. QED
  BY <1>1, <1>2, <1>3, <1>4, Shapes

-----------------------------------------------------------------------------
(* The invariant, and what follows from it. *)

THEOREM Invariance == Spec => []Inv
<1>1. Init => Inv
  BY TypeInit DEF Inv, Init, Reset, CutsPartition, ClipsDescribeRecords,
     NoHoleInsideClip, InsideWindow, Inside, CutsJustified, SequenceAdvances, First
<1>2. Inv /\ [Next]_vars => Inv'
  BY TypeStep, PartitionStep, DescribeStep, NoHoleStep, WindowStep, JustifiedStep,
     SequenceStep DEF Inv
<1>3. QED
  BY <1>1, <1>2, PTL DEF Spec

(* The cuts of every run partition what was accepted: no record is lost or *)
(* put in two clips when a boundary record starts the next window.         *)
THEOREM PartitionTheorem == Spec => []CutsPartition
BY Invariance, PTL DEF Inv

(* The bytes and the time span of every clip are those of its records.     *)
THEOREM DescribeTheorem == Spec => []ClipsDescribeRecords
BY Invariance, PTL DEF Inv

(* No clip has a hole in it.                                               *)
THEOREM NoHoleTheorem == Spec => []NoHoleInsideClip
BY Invariance, PTL DEF Inv

(* No clip reaches --clip-secs, whatever timestamps come.                  *)
THEOREM WindowTheorem == Spec => []InsideWindow
BY Invariance, PTL DEF Inv

(* Each cut a record caused is justified by that record.                   *)
THEOREM JustifiedTheorem == Spec => []CutsJustified
BY Invariance, PTL DEF Inv

(* Numbers only go up between idle flushes.                                *)
THEOREM SequenceTheorem == Spec => []SequenceAdvances
BY Invariance, PTL DEF Inv

(* The arithmetic of sm_fsm.c stays within twice the codec's safe range.   *)
THEOREM NoOverflowTheorem == Spec => []NoOverflow
<1>1. Inv => NoOverflow
  <2> SUFFICES ASSUME Inv
               PROVE  NoOverflow
    OBVIOUS
  <2>1. ASSUME NEW k \in 1..Len(taken)
        PROVE  /\ taken[k].seq \in Nat /\ taken[k].seq <= MaxSafe
               /\ taken[k].offset + taken[k].length <= 2 * MaxSafe
               /\ taken[k].ts \in (-MaxSafe)..MaxSafe
    <3>1. taken[k] \in Chunks
      BY CutType DEF Inv
    <3>2. QED
      BY <3>1, ChunkType, SmFsmAssumption
  <2>2. ASSUME NEW i \in 1..Len(clips)
        PROVE  clips[i].offset + clips[i].length <= 2 * MaxSafe
    <3>1. i \in 1..Len(cuts) /\ Describes(clips[i], First(i), cuts[i].at)
      BY DEF Inv, CutsPartition, ClipsDescribeRecords
    <3>2. QED
      BY <2>1, <3>1, CutsInside DEF Describes
  <2>3. CASE fsm.active
    <3>1. /\ fsm.offset \in Nat /\ fsm.length \in Nat
          /\ fsm.offset + fsm.length <= 2 * MaxSafe
          /\ fsm.expectedOffset = fsm.offset + fsm.length
          /\ fsm.expectedSeq <= MaxSafe + 1
          /\ fsm.start \in (-MaxSafe)..MaxSafe
      <4>1. /\ fsm.offset + fsm.length <= 2 * MaxSafe
            /\ taken[Len(taken)].seq \in Nat /\ taken[Len(taken)].seq <= MaxSafe
            /\ fsm.start \in (-MaxSafe)..MaxSafe
        BY <2>1, <2>3, OpenWindow
      <4>2. fsm.expectedSeq = taken[Len(taken)].seq + 1
        BY <2>3, OpenWindow
      <4>3. QED
        BY <2>3, <4>1, <4>2, OpenWindow, FieldTypes, SmFsmAssumption
    <3>2. QED
      BY <2>2, <3>1, SmFsmAssumption DEF NoOverflow
  <2>4. CASE ~fsm.active
    <3>1. fsm = Reset
      BY <2>4 DEF Inv, ClipsDescribeRecords
    <3>2. QED
      BY <2>2, <3>1, SmFsmAssumption DEF NoOverflow, Reset
  <2>5. QED
    BY <2>3, <2>4
<1>2. QED
  BY <1>1, Invariance, PTL

-----------------------------------------------------------------------------
(* ClipFsm implements Segmentation. *)

Ends == [i \in 1..Len(cuts) |-> cuts[i].at]

LEMMA EndsFacts ==
  ASSUME Inv
  PROVE  /\ Ends \in Seq(Nat) /\ Len(Ends) = Len(cuts)
         /\ Seg!Closed = First(Len(cuts) + 1) - 1
         /\ Seg!HasOpen <=> fsm.active
<1>1. /\ Len(cuts) \in Nat /\ Len(taken) \in Nat
      /\ \A i \in 1..Len(cuts) : cuts[i].at \in Nat
  BY CutType DEF Inv
<1>2. Ends \in Seq(Nat) /\ Len(Ends) = Len(cuts)
  BY <1>1 DEF Ends
<1>3. Ends = <<>> <=> Len(cuts) = 0
  BY <1>1, <1>2 DEF Ends
<1>4. Seg!Closed = First(Len(cuts) + 1) - 1
  BY <1>1, <1>2, <1>3 DEF Seg!Closed, Ends, First
<1>5. First(Len(cuts) + 1) \in Nat
  BY CutType, <1>1 DEF Inv
<1>6. Seg!HasOpen <=> fsm.active
  BY <1>1, <1>4, <1>5 DEF Seg!HasOpen, Inv, CutsPartition
<1>7. QED
  BY <1>2, <1>4, <1>6

LEMMA EndsGrow ==
  ASSUME Inv, NEW complete \in BOOLEAN, NEW why \in Causes, Emit(complete, why)
  PROVE  Ends' = Append(Ends, Len(taken))
<1>1. /\ Len(cuts) \in Nat /\ Len(taken) \in Nat
      /\ \A i \in 1..Len(cuts) : cuts[i].at \in Nat
  BY CutType DEF Inv
<1>2. Ends \in Seq(Nat) /\ Len(Ends) = Len(cuts)
  BY EndsFacts
<1>3. /\ Len(cuts') = Len(cuts) + 1
      /\ \A i \in 1..Len(cuts) : cuts'[i] = cuts[i]
      /\ cuts'[Len(cuts) + 1].at = Len(taken)
  BY CutFacts
<1>4. Ends' = [i \in 1..(Len(cuts) + 1) |-> cuts'[i].at]
  BY <1>3 DEF Ends
<1>5. \A i \in 1..(Len(cuts) + 1) : cuts'[i].at \in Nat
  BY <1>1, <1>3
<1>6. /\ Ends' \in Seq(Nat) /\ Len(Ends') = Len(cuts) + 1
  BY <1>1, <1>4, <1>5
<1>7. /\ Append(Ends, Len(taken)) \in Seq(Nat)
      /\ Len(Append(Ends, Len(taken))) = Len(cuts) + 1
  BY <1>1, <1>2, AppendFacts
<1>8. ASSUME NEW i \in 1..(Len(cuts) + 1)
      PROVE  Ends'[i] = Append(Ends, Len(taken))[i]
  <2>1. CASE i = Len(cuts) + 1
    BY <1>1, <1>2, <1>3, <1>4, <2>1, AppendFacts
  <2>2. CASE i \in 1..Len(cuts)
    <3>1. Append(Ends, Len(taken))[i] = Ends[i]
      BY <1>1, <1>2, <2>2, AppendFacts
    <3>2. QED
      BY <1>3, <1>4, <2>2, <3>1 DEF Ends
  <2>3. i = Len(cuts) + 1 \/ i \in 1..Len(cuts)
    BY <1>1, <1>8
  <2>4. QED
    BY <2>1, <2>2, <2>3
<1>9. QED
  BY <1>6, <1>7, <1>8, SeqEqual

(* Whether a record fits the open segment is what sm_fsm.c tests. *)
LEMMA FitsFacts ==
  ASSUME Inv, NEW rec \in Chunks, fsm.active, ~IsLate(fsm, rec)
  PROVE  Seg!Fits(rec) <=> ~IsGap(fsm, rec) /\ ~IsBoundary(fsm, rec)
<1>1. IsGap(fsm, rec) <=> ~Contiguous(taken[Len(taken)], rec)
  BY NotGapIsContiguous
<1>2. /\ Seg!Closed + 1 = First(Len(cuts) + 1)
      /\ First(Len(cuts) + 1) \in 1..Len(taken)
      /\ fsm.start = taken[First(Len(cuts) + 1)].ts
  BY EndsFacts, OpenWindow, CutType DEF Inv
<1>3. taken[First(Len(cuts) + 1)].ts \in Int
  BY <1>2, CutType, ChunkType DEF Inv
<1>4. IsBoundary(fsm, rec) <=> ~(rec.ts - taken[Seg!Closed + 1].ts < ClipMs)
  BY <1>2, <1>3, ChunkType, SmFsmAssumption DEF IsBoundary
<1>5. QED
  BY <1>1, <1>4 DEF Seg!Fits, Seg!Continues, Contiguous

(* Every behaviour of the machine is a segmentation of its input: each     *)
(* branch of sm_fsm.c maps to one step of the abstract cutter or to none.  *)
THEOREM Implementation == Spec => ImplementsSegmentation
<1>1. Init => Seg!Init
  BY DEF Init, Seg!Init
<1>2. Inv /\ [Next]_vars => [Seg!Next]_<<taken, Ends>>
  <2> SUFFICES ASSUME Inv, [Next]_vars
               PROVE  [Seg!Next]_<<taken, Ends>>
    OBVIOUS
  <2>1. ASSUME NEW rec \in Chunks, Opening(rec)
        PROVE  Seg!Open(rec)
    BY <2>1, EndsFacts DEF Opening, Accept, Seg!Open, Ends
  <2>2. ASSUME NEW rec \in Chunks, Growing(rec)
        PROVE  Seg!Grow(rec)
    BY <2>2, EndsFacts, FitsFacts DEF Growing, Accept, Seg!Grow, Ends
  <2>3. ASSUME NEW rec \in Chunks, NEW complete \in BOOLEAN, NEW why \in Causes,
               Turning(rec, complete, why)
        PROVE  Seg!Turn(rec)
    BY <2>3, EndsFacts, EndsGrow, FitsFacts, NotLateIsHigher
       DEF Turning, Accept, Seg!Turn, Ends
  <2>4. ASSUME NEW complete \in BOOLEAN, NEW why \in Causes, Closing(complete, why)
        PROVE  Seg!Close
    BY <2>4, EndsFacts, EndsGrow DEF Closing, Seg!Close, Ends
  <2>5. CASE UNCHANGED <<fsm, clips, taken, cuts>>
    BY <2>5 DEF Ends
  <2>6. QED
    BY <2>1, <2>2, <2>3, <2>4, <2>5, Shapes DEF Seg!Next
<1>3. QED
  BY <1>1, <1>2, Invariance, PTL DEF Spec, ImplementsSegmentation, Seg!Spec, Ends
=============================================================================
