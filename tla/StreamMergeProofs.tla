-------------------------- MODULE StreamMergeProofs -------------------------
(***************************************************************************)
(* Theorems about the stream_merge process with its ingestor and inotify:  *)
(* it drives the clip state machine as its interface allows, so that all   *)
(* of ClipFsmProofs holds of its clips; no wake-up is lost; every record   *)
(* is taken once; a clean exit is complete; clips point at bytes on disk.  *)
(* They hold for all timeouts and any number of lines, in every            *)
(* interleaving with the ingestor and the clock.                           *)
(***************************************************************************)
EXTENDS StreamMerge, ClipFsmProofs, FiniteSetTheorems

(* The process has its watch on the directory, and on the sidecar. *)
DirWatched == PCs \ {"openBin", "watchDir", "exit"}
MetaWatched == {"read", "lines", "loop", "poll", "metaEvents", "dirEvents", "recheck",
                "idle", "flush"}

(* What happened and is not known yet has an event waiting.  Between the   *)
(* emptying of a queue and the look that follows, nothing is claimed.      *)
Wakeups ==
  /\ pc \in DirWatched => dirWatch
  /\ pc \in DirWatched \ {"checkSentinel"} /\ sentinel = "closed" => saw \/ SentinelQueued
  /\ pc \in {"poll", "waitPoll"} => ~saw
  /\ pc \in MetaWatched => metaWatch
  /\ pc \in MetaWatched \ {"read"} /\ got < size => metaQ

(* The sentinel is seen only when it is there, and then no line follows. *)
SentinelIsLast ==
  /\ SentinelQueued => sentinel = "closed"
  /\ saw => sentinel # "absent"
  /\ sentinel # "absent" => size = 2 * Len(lines)

(* The final drain comes after the sentinel and empties the buffer. *)
FinalDrain ==
  /\ fed = 2 * (fed \div 2)
  /\ phase = "final" => saw /\ pc \in {"read", "lines", "flush", "exit"}
  /\ phase = "final" /\ pc \in {"lines", "flush"} => got = size
  /\ pc = "flush" => phase = "final" /\ fed = got
  /\ pc = "exit" /\ rc = 0 /\ fd => fed = 2 * Len(lines) /\ ~fsm.active
  /\ pc = "exit" /\ rc = 0 => saw

(* Clips go to stdout as they are cut, until the process gives up. *)
Output ==
  /\ pc # "exit" => rc = 0
  /\ printed <= Len(clips)
  /\ rc = 0 => printed = Len(clips)
  /\ Ended => pc = "exit"

(* What the machine took are lines that were removed from the buffer, and  *)
(* their bytes were written before them.                                   *)
Fed ==
  /\ Len(taken) <= fed \div 2
  /\ \A k \in 1..Len(taken) : \E i \in DataLines : taken[k] = lines[i]
  /\ \A i \in 1..Len(lines) : lines[i] # Other => lines[i].offset + lines[i].length <= bin

MInv ==
  /\ MTypeOK /\ Inv
  /\ Wakeups /\ SentinelIsLast /\ FinalDrain /\ Output /\ Fed
  /\ EveryRecordTakenOnce

-----------------------------------------------------------------------------
USE DEF vars, dirVars, ingestorVars, watchVars, procVars, Goto, Exit

(* A step of the process, of time, or of the ingestor. *)
LEMMA MStepCases ==
  ASSUME [MNext]_mvars
  PROVE  \/ OpenBin \/ ArmDirWatch \/ CheckSentinel \/ OpenMeta \/ WaitLoop \/ WaitPoll
         \/ WaitOpen \/ ArmMetaWatch \/ ReadMeta \/ FeedLine \/ DrainDone \/ Loop \/ Poll
         \/ MetaEvents \/ DirEvents \/ RecheckSentinel \/ CheckIdle \/ Flush
         \/ SyscallFails \/ Clock
         \/ CreateBin /\ UNCHANGED <<vars, procVars>>
         \/ CreateMeta /\ UNCHANGED <<vars, procVars>>
         \/ \E c \in Chunks : WriteChunk(c) /\ UNCHANGED <<vars, procVars>>
         \/ WriteOther /\ UNCHANGED <<vars, procVars>>
         \/ WriteHalfLine /\ UNCHANGED <<vars, procVars>>
         \/ CreateSentinel /\ UNCHANGED <<vars, procVars>>
         \/ CloseSentinel /\ UNCHANGED <<vars, procVars>>
         \/ CloseMeta /\ UNCHANGED <<vars, procVars>>
         \/ UNCHANGED mvars
BY DEF MNext, Process, Write, Ingestor

(* All but five of the steps leave the clip state machine alone. *)
LEMMA FsmCases ==
  ASSUME [MNext]_mvars
  PROVE  FeedLine \/ CheckIdle \/ Flush \/ Clock \/ UNCHANGED vars
BY MStepCases
   DEF OpenBin, ArmDirWatch, CheckSentinel, OpenMeta, WaitLoop, WaitPoll, WaitOpen,
       ArmMetaWatch, ReadMeta, DrainDone, Loop, Poll, MetaEvents, DirEvents,
       RecheckSentinel, SyscallFails, mvars

(* The line the process looks at is in the file. *)
LEMMA LineAhead ==
  ASSUME MTypeOK, FinalDrain, FeedLine
  PROVE  /\ (fed \div 2) + 1 \in 1..Len(lines)
         /\ fed' = fed + 2 /\ fed' \in 0..got /\ fed' \div 2 = (fed \div 2) + 1
         /\ lines[(fed \div 2) + 1] \in Chunks \cup {Other}
         /\ UNCHANGED <<lines, bin, size, got, sentinel, dirQ, saw, phase, fd>>
<1>1. /\ fed \in Nat /\ got \in Nat /\ size \in Nat /\ Len(lines) \in Nat
      /\ fed + 2 <= got /\ got <= size /\ size <= 2 * Len(lines)
  BY DEF MTypeOK, DirTypeOK, FeedLine, HasLine
<1>2. (fed \div 2) + 1 \in 1..Len(lines)
  BY <1>1
<1>3. lines[(fed \div 2) + 1] \in Chunks \cup {Other}
  BY <1>2 DEF MTypeOK, DirTypeOK
<1>4. fed' = fed + 2 /\ fed' \in 0..got /\ fed' \div 2 = (fed \div 2) + 1
  BY <1>1 DEF FeedLine, Consume
<1>5. QED
  BY <1>2, <1>3, <1>4 DEF FeedLine

(* The process calls the state machine as ClipFsm allows: no record after  *)
(* the final flush, idle flushes only past the timeout.                    *)
LEMMA FsmStep ==
  ASSUME MTypeOK, FinalDrain, Output, Fed, [MNext]_mvars
  PROVE  [Next]_vars
<1>1. CASE FeedLine
  <2>1. CASE lines[(fed \div 2) + 1] = Other
    BY <1>1, <2>1 DEF FeedLine
  <2>2. CASE lines[(fed \div 2) + 1] # Other
    <3>1. lines[(fed \div 2) + 1] \in Chunks /\ ProcessRecord(lines[(fed \div 2) + 1])
      BY <1>1, <2>2, LineAhead DEF FeedLine
    <3>2. ~Ended
      BY <1>1 DEF FeedLine, Output
    <3>3. Len(taken) < MaxRecords
      <4>1. (fed \div 2) + 1 \in 1..Len(lines) /\ Len(lines) \in Nat /\ Len(lines) <= MaxLines
        BY <1>1, LineAhead DEF MTypeOK, DirTypeOK
      <4>2. Len(taken) \in Nat /\ Len(taken) <= fed \div 2 /\ fed \in Nat
        BY DEF Fed, MTypeOK, DirTypeOK, TypeOK
      <4>3. QED
        BY <4>1, <4>2, StreamMergeAssumption, ClipFsmAssumption
    <3>4. QED
      BY <3>1, <3>2, <3>3 DEF Next
  <2>3. QED
    BY <2>1, <2>2
<1>2. CASE CheckIdle
  BY <1>2 DEF CheckIdle, Next
<1>3. CASE Flush
  BY <1>3 DEF Flush, Next
<1>4. CASE Clock
  BY <1>4 DEF Clock, Next, Tick
<1>5. QED
  BY <1>1, <1>2, <1>3, <1>4, FsmCases

-----------------------------------------------------------------------------
(* What a call of the state machine adds to its histories. *)
LEMMA RecordEffect ==
  ASSUME TypeOK, NEW rec \in Chunks, ProcessRecord(rec)
  PROVE  /\ taken' = taken \/ taken' = Append(taken, rec)
         /\ \/ clips' = clips /\ cuts' = cuts
            \/ clips' # clips /\ Len(clips') = Len(clips) + 1 /\ ~Ended'
<1>1. taken' = taken \/ taken' = Append(taken, rec)
  BY DEF ProcessRecord, Begin, RejectLate, CutAtGap, CutAtWindow, Extend, Accept
<1>2. \/ clips' = clips /\ cuts' = cuts
      \/ Emit(FALSE, "gap") \/ Emit(TRUE, "window")
  BY DEF ProcessRecord, Begin, RejectLate, CutAtGap, CutAtWindow, Extend
<1>3. ASSUME NEW complete \in BOOLEAN, NEW why \in {"gap", "window"}, Emit(complete, why)
      PROVE  clips' # clips /\ Len(clips') = Len(clips) + 1 /\ ~Ended'
  BY <1>3, CutsGrow DEF Causes, Ended
<1>4. QED
  BY <1>1, <1>2, <1>3

LEMMA FlushEffect ==
  ASSUME TypeOK, FlushIdle \/ FlushFinal
  PROVE  /\ taken' = taken /\ ~fsm'.active
         /\ clips' # clips /\ Len(clips') = Len(clips) + 1
         /\ FlushIdle => ~Ended'
<1>1. ASSUME NEW complete \in BOOLEAN, NEW why \in Causes, Emit(complete, why)
      PROVE  /\ clips' # clips /\ Len(clips') = Len(clips) + 1
             /\ why = "idle" => ~Ended'
  BY <1>1, CutsGrow DEF Ended
<1>2. CASE FlushIdle
  <2>1. Emit(FALSE, "idle") /\ "idle" \in Causes
    BY <1>2 DEF FlushIdle, Causes
  <2>2. clips' # clips /\ Len(clips') = Len(clips) + 1 /\ ~Ended'
    BY <1>1, <2>1
  <2>3. QED
    BY <1>2, <2>2 DEF FlushIdle, Reset
<1>3. CASE ~FlushIdle /\ FlushFinal
  <2>1. Emit(TRUE, "final") /\ "final" \in Causes
    BY <1>3 DEF FlushFinal, Causes
  <2>2. clips' # clips /\ Len(clips') = Len(clips) + 1
    BY <1>1, <2>1
  <2>3. QED
    BY <1>3, <2>2 DEF FlushFinal, Reset
<1>4. QED
  BY <1>2, <1>3

-----------------------------------------------------------------------------
(* Types of the session directory. *)
LEMMA DirTypeStep ==
  ASSUME MTypeOK, [MNext]_mvars
  PROVE  DirTypeOK'
<1>1. CASE ArmDirWatch
  BY <1>1 DEF ArmDirWatch, WatchDir, MTypeOK, DirTypeOK
<1>2. CASE WaitPoll
  BY <1>2 DEF WaitPoll, ConsumeDir, MTypeOK, DirTypeOK
<1>3. CASE ArmMetaWatch
  BY <1>3 DEF ArmMetaWatch, WatchFile, MTypeOK, DirTypeOK
<1>4. CASE MetaEvents
  BY <1>4 DEF MetaEvents, ConsumeMeta, MTypeOK, DirTypeOK
<1>5. CASE DirEvents
  BY <1>5 DEF DirEvents, ConsumeDir, MTypeOK, DirTypeOK
<1>6. CASE CreateBin /\ UNCHANGED <<vars, procVars>>
  BY <1>6 DEF CreateBin, MTypeOK, DirTypeOK
<1>7. CASE CreateMeta /\ UNCHANGED <<vars, procVars>>
  BY <1>7 DEF CreateMeta, MTypeOK, DirTypeOK
<1>8. ASSUME NEW c \in Chunks, WriteChunk(c), UNCHANGED <<vars, procVars>>
      PROVE  DirTypeOK'
  <2>1. c.length \in Nat /\ bin \in Nat /\ lines \in Seq(Chunks \cup {Other})
        /\ Len(lines) < MaxLines /\ size = 2 * Len(lines) /\ MaxLines \in Nat
    BY <1>8, ChunkType, StreamMergeAssumption DEF WriteChunk, Writing, MTypeOK, DirTypeOK
  <2>2. /\ lines' = Append(lines, c) /\ c \in Chunks \cup {Other} /\ size' = size
        /\ bin' = bin + c.length
    BY <1>8 DEF WriteChunk
  <2>3. lines' \in Seq(Chunks \cup {Other}) /\ Len(lines') = Len(lines) + 1 /\ Len(lines) \in Nat
    BY <2>1, <2>2, AppendFacts
  <2>4. bin' \in Nat /\ Len(lines') <= MaxLines /\ size' \in 0..(2 * Len(lines'))
    BY <2>1, <2>2, <2>3
  <2>5. QED
    BY <1>8, <2>3, <2>4 DEF WriteChunk, MTypeOK, DirTypeOK
<1>9. CASE WriteOther /\ UNCHANGED <<vars, procVars>>
  <2>1. /\ lines \in Seq(Chunks \cup {Other}) /\ Len(lines) < MaxLines
        /\ size = 2 * Len(lines) /\ MaxLines \in Nat
    BY <1>9, StreamMergeAssumption DEF WriteOther, Writing, MTypeOK, DirTypeOK
  <2>2. /\ lines' = Append(lines, Other) /\ Other \in Chunks \cup {Other} /\ size' = size
    BY <1>9 DEF WriteOther
  <2>3. lines' \in Seq(Chunks \cup {Other}) /\ Len(lines') = Len(lines) + 1 /\ Len(lines) \in Nat
    BY <2>1, <2>2, AppendFacts
  <2>4. Len(lines') <= MaxLines /\ size' \in 0..(2 * Len(lines'))
    BY <2>1, <2>2, <2>3
  <2>5. QED
    BY <1>9, <2>3, <2>4 DEF WriteOther, MTypeOK, DirTypeOK
<1>10. CASE WriteHalfLine /\ UNCHANGED <<vars, procVars>>
  BY <1>10 DEF WriteHalfLine, MetaEvent, MTypeOK, DirTypeOK
<1>11. CASE CreateSentinel /\ UNCHANGED <<vars, procVars>>
  BY <1>11 DEF CreateSentinel, MTypeOK, DirTypeOK
<1>12. CASE CloseSentinel /\ UNCHANGED <<vars, procVars>>
  BY <1>12 DEF CloseSentinel, DirEvent, MTypeOK, DirTypeOK
<1>13. CASE CloseMeta /\ UNCHANGED <<vars, procVars>>
  BY <1>13 DEF CloseMeta, DirEvent, MetaEvent, MTypeOK, DirTypeOK
<1>14. CASE OpenBin \/ CheckSentinel \/ OpenMeta \/ WaitLoop \/ WaitOpen \/ ReadMeta \/
    FeedLine \/ DrainDone \/ Loop \/ Poll \/ RecheckSentinel \/ CheckIdle \/ Flush \/
    SyscallFails \/ Clock \/ UNCHANGED mvars
  <2>1. UNCHANGED dirVars
    BY <1>14 DEF OpenBin, CheckSentinel, OpenMeta, WaitLoop, WaitOpen, ReadMeta, FeedLine,
        DrainDone, Loop, Poll, RecheckSentinel, CheckIdle, Flush, SyscallFails, Clock,
        mvars
  <2>2. QED
    BY <2>1 DEF MTypeOK, DirTypeOK
<1>15. QED
  BY <1>1, <1>2, <1>3, <1>4, <1>5, <1>6, <1>7, <1>8, <1>9, <1>10, <1>11, <1>12, <1>13,
      <1>14, MStepCases

(* The process's own part of MTypeOK. *)
ProcTyped ==
  /\ pc \in PCs
  /\ saw \in BOOLEAN /\ fd \in BOOLEAN
  /\ got \in 0..size /\ fed \in 0..got
  /\ phase \in {"initial", "loop", "final"}
  /\ ready \subseteq {"meta", "dir"}
  /\ timer \in 0..(IF PollMs > MetaWaitMs THEN PollMs ELSE MetaWaitMs)
  /\ printed \in Nat /\ rc \in {0, 1}

(* Types of the process. *)
LEMMA ProcTypeStep ==
  ASSUME MTypeOK, FinalDrain, [MNext]_mvars
  PROVE  ProcTyped'
<1>1. CASE OpenBin
  BY <1>1 DEF OpenBin, MTypeOK, DirTypeOK, PCs, ProcTyped, SentinelQueued
<1>2. CASE ArmDirWatch
  BY <1>2 DEF ArmDirWatch, WatchDir, MTypeOK, DirTypeOK, PCs, ProcTyped, SentinelQueued
<1>3. CASE CheckSentinel
  BY <1>3 DEF CheckSentinel, MTypeOK, DirTypeOK, PCs, ProcTyped, SentinelQueued
<1>4. CASE OpenMeta
  <2>1. MetaWaitMs \in 0..(IF PollMs > MetaWaitMs THEN PollMs ELSE MetaWaitMs)
    BY StreamMergeAssumption
  <2>2. timer' \in 0..(IF PollMs > MetaWaitMs THEN PollMs ELSE MetaWaitMs)
    BY <1>4, <2>1 DEF OpenMeta, MTypeOK
  <2>3. QED
    BY <1>4, <2>2 DEF OpenMeta, MTypeOK, PCs, ProcTyped
<1>5. CASE WaitLoop
  BY <1>5, StreamMergeAssumption DEF WaitLoop, MTypeOK, DirTypeOK, PCs, ProcTyped,
      SentinelQueued
<1>6. CASE WaitPoll
  BY <1>6 DEF WaitPoll, ConsumeDir, MTypeOK, DirTypeOK, PCs, ProcTyped, SentinelQueued
<1>7. CASE WaitOpen
  BY <1>7 DEF WaitOpen, MTypeOK, DirTypeOK, PCs, ProcTyped, SentinelQueued
<1>8. CASE ArmMetaWatch
  BY <1>8 DEF ArmMetaWatch, WatchFile, MTypeOK, DirTypeOK, PCs, ProcTyped, SentinelQueued
<1>9. CASE ReadMeta
  BY <1>9 DEF ReadMeta, MTypeOK, DirTypeOK, PCs, ProcTyped, SentinelQueued
<1>10. CASE FeedLine
  <2>1. fed' \in 0..got
    BY <1>10, LineAhead
  <2>2. QED
    BY <1>10, <2>1 DEF FeedLine, HandleAction, MTypeOK, ProcTyped, PCs
<1>11. CASE DrainDone
  BY <1>11 DEF DrainDone, HasLine, MTypeOK, DirTypeOK, PCs, ProcTyped, SentinelQueued
<1>12. CASE Loop
  <2>1. PollTimeout \in 0..PollMs
    BY StreamMergeAssumption, SmFsmAssumption, QuietCapType DEF PollTimeout, MTypeOK, TypeOK
  <2>2. QED
    BY <1>12, <2>1, StreamMergeAssumption DEF Loop, MTypeOK, ProcTyped, PCs
<1>13. CASE Poll
  BY <1>13, StreamMergeAssumption DEF Poll, MTypeOK, DirTypeOK, PCs, ProcTyped,
      SentinelQueued
<1>14. CASE MetaEvents
  BY <1>14 DEF MetaEvents, ConsumeMeta, MTypeOK, DirTypeOK, PCs, ProcTyped, SentinelQueued
<1>15. CASE DirEvents
  BY <1>15 DEF DirEvents, ConsumeDir, MTypeOK, DirTypeOK, PCs, ProcTyped, SentinelQueued
<1>16. CASE RecheckSentinel
  BY <1>16 DEF RecheckSentinel, MTypeOK, DirTypeOK, PCs, ProcTyped, SentinelQueued
<1>17. CASE CheckIdle
  BY <1>17 DEF CheckIdle, HandleAction, MTypeOK, DirTypeOK, PCs, ProcTyped, SentinelQueued
<1>18. CASE Flush
  BY <1>18 DEF Flush, MTypeOK, DirTypeOK, PCs, ProcTyped, SentinelQueued
<1>19. CASE SyscallFails
  BY <1>19, StreamMergeAssumption DEF SyscallFails, MTypeOK, DirTypeOK, PCs, ProcTyped,
      SentinelQueued
<1>20. CASE Clock
  BY <1>20, StreamMergeAssumption DEF Clock, MTypeOK, DirTypeOK, PCs, ProcTyped,
      SentinelQueued
<1>21. CASE WriteHalfLine /\ UNCHANGED <<vars, procVars>>
  BY <1>21 DEF WriteHalfLine, MetaEvent, MTypeOK, DirTypeOK, PCs, ProcTyped, SentinelQueued
<1>22. CASE (CreateBin /\ UNCHANGED <<vars, procVars>>) \/ (CreateMeta /\ UNCHANGED <<vars,
    procVars>>) \/ (\E c \in Chunks : WriteChunk(c) /\ UNCHANGED <<vars, procVars>>) \/
    (WriteOther /\ UNCHANGED <<vars, procVars>>) \/ (CreateSentinel /\ UNCHANGED <<vars,
    procVars>>) \/ (CloseSentinel /\ UNCHANGED <<vars, procVars>>) \/ (CloseMeta /\
    UNCHANGED <<vars, procVars>>) \/ UNCHANGED mvars
  <2>1. UNCHANGED <<size, procVars>>
    BY <1>22 DEF CreateBin, CreateMeta, WriteChunk, WriteOther, CreateSentinel,
        CloseSentinel, CloseMeta, mvars
  <2>2. QED
    BY <2>1 DEF MTypeOK, ProcTyped
<1>23. QED
  BY <1>1, <1>2, <1>3, <1>4, <1>5, <1>6, <1>7, <1>8, <1>9, <1>10, <1>11, <1>12, <1>13,
      <1>14, <1>15, <1>16, <1>17, <1>18, <1>19, <1>20, <1>21, <1>22, MStepCases

-----------------------------------------------------------------------------
(* Each watch is armed before the first look, each queue emptied before a look. *)
LEMMA WakeupsStep ==
  ASSUME MTypeOK, Wakeups, SentinelIsLast, FinalDrain, [MNext]_mvars
  PROVE  Wakeups'
<1>1. CASE OpenBin
  BY <1>1 DEF OpenBin, Wakeups, MTypeOK, DirTypeOK, PCs, DirWatched, MetaWatched,
      SentinelQueued, SentinelIsLast
<1>2. CASE ArmDirWatch
  BY <1>2 DEF ArmDirWatch, WatchDir, Wakeups, MTypeOK, DirTypeOK, PCs, DirWatched,
      MetaWatched, SentinelQueued, SentinelIsLast
<1>3. CASE CheckSentinel
  BY <1>3 DEF CheckSentinel, Wakeups, MTypeOK, DirTypeOK, PCs, DirWatched, MetaWatched,
      SentinelQueued, SentinelIsLast
<1>4. CASE OpenMeta
  BY <1>4 DEF OpenMeta, Wakeups, MTypeOK, DirTypeOK, PCs, DirWatched, MetaWatched,
      SentinelQueued, SentinelIsLast
<1>5. CASE WaitLoop
  BY <1>5 DEF WaitLoop, Wakeups, MTypeOK, DirTypeOK, PCs, DirWatched, MetaWatched,
      SentinelQueued, SentinelIsLast
<1>6. CASE WaitPoll
  BY <1>6 DEF WaitPoll, ConsumeDir, Wakeups, MTypeOK, DirTypeOK, PCs, DirWatched,
      MetaWatched, SentinelQueued, SentinelIsLast
<1>7. CASE WaitOpen
  BY <1>7 DEF WaitOpen, Wakeups, MTypeOK, DirTypeOK, PCs, DirWatched, MetaWatched,
      SentinelQueued, SentinelIsLast
<1>8. CASE ArmMetaWatch
  BY <1>8 DEF ArmMetaWatch, WatchFile, Wakeups, MTypeOK, DirTypeOK, PCs, DirWatched,
      MetaWatched, SentinelQueued, SentinelIsLast
<1>9. CASE ReadMeta
  BY <1>9 DEF ReadMeta, Wakeups, MTypeOK, DirTypeOK, PCs, DirWatched, MetaWatched,
      SentinelQueued, SentinelIsLast
<1>10. CASE FeedLine
  BY <1>10 DEF FeedLine, HandleAction, Consume, HasLine, Wakeups, MTypeOK, DirTypeOK, PCs,
      DirWatched, MetaWatched, SentinelQueued, SentinelIsLast
<1>11. CASE DrainDone
  BY <1>11 DEF DrainDone, HasLine, Wakeups, MTypeOK, DirTypeOK, PCs, DirWatched,
      MetaWatched, SentinelQueued, SentinelIsLast
<1>12. CASE Loop
  BY <1>12 DEF Loop, PollTimeout, Wakeups, MTypeOK, DirTypeOK, PCs, DirWatched,
      MetaWatched, SentinelQueued, SentinelIsLast
<1>13. CASE Poll
  BY <1>13 DEF Poll, Wakeups, MTypeOK, DirTypeOK, PCs, DirWatched, MetaWatched,
      SentinelQueued, SentinelIsLast
<1>14. CASE MetaEvents
  BY <1>14 DEF MetaEvents, ConsumeMeta, Wakeups, MTypeOK, DirTypeOK, PCs, DirWatched,
      MetaWatched, SentinelQueued, SentinelIsLast
<1>15. CASE DirEvents
  BY <1>15 DEF DirEvents, ConsumeDir, Wakeups, MTypeOK, DirTypeOK, PCs, DirWatched,
      MetaWatched, SentinelQueued, SentinelIsLast
<1>16. CASE RecheckSentinel
  BY <1>16 DEF RecheckSentinel, Wakeups, MTypeOK, DirTypeOK, PCs, DirWatched, MetaWatched,
      SentinelQueued, SentinelIsLast
<1>17. CASE CheckIdle
  BY <1>17 DEF CheckIdle, HandleAction, Wakeups, MTypeOK, DirTypeOK, PCs, DirWatched,
      MetaWatched, SentinelQueued, SentinelIsLast
<1>18. CASE Flush
  BY <1>18 DEF Flush, Wakeups, MTypeOK, DirTypeOK, PCs, DirWatched, MetaWatched,
      SentinelQueued, SentinelIsLast
<1>19. CASE SyscallFails
  BY <1>19 DEF SyscallFails, Wakeups, MTypeOK, DirTypeOK, PCs, DirWatched, MetaWatched,
      SentinelQueued, SentinelIsLast
<1>20. CASE Clock
  BY <1>20 DEF Clock, Wakeups, MTypeOK, DirTypeOK, PCs, DirWatched, MetaWatched,
      SentinelQueued, SentinelIsLast
<1>21. CASE CreateBin /\ UNCHANGED <<vars, procVars>>
  BY <1>21 DEF CreateBin, Wakeups, MTypeOK, DirTypeOK, PCs, DirWatched, MetaWatched,
      SentinelQueued, SentinelIsLast
<1>22. CASE CreateMeta /\ UNCHANGED <<vars, procVars>>
  BY <1>22 DEF CreateMeta, Wakeups, MTypeOK, DirTypeOK, PCs, DirWatched, MetaWatched,
      SentinelQueued, SentinelIsLast
<1>23. ASSUME NEW c \in Chunks, WriteChunk(c), UNCHANGED <<vars, procVars>>
      PROVE  Wakeups'
  BY <1>23 DEF WriteChunk, Writing, Wakeups, MTypeOK, DirTypeOK, PCs, DirWatched,
      MetaWatched, SentinelQueued, SentinelIsLast
<1>24. CASE WriteOther /\ UNCHANGED <<vars, procVars>>
  BY <1>24 DEF WriteOther, Writing, Wakeups, MTypeOK, DirTypeOK, PCs, DirWatched,
      MetaWatched, SentinelQueued, SentinelIsLast
<1>25. CASE WriteHalfLine /\ UNCHANGED <<vars, procVars>>
  BY <1>25 DEF WriteHalfLine, MetaEvent, Wakeups, MTypeOK, DirTypeOK, PCs, DirWatched,
      MetaWatched, SentinelQueued, SentinelIsLast
<1>26. CASE CreateSentinel /\ UNCHANGED <<vars, procVars>>
  BY <1>26 DEF CreateSentinel, Wakeups, MTypeOK, DirTypeOK, PCs, DirWatched, MetaWatched,
      SentinelQueued, SentinelIsLast
<1>27. CASE CloseSentinel /\ UNCHANGED <<vars, procVars>>
  BY <1>27 DEF CloseSentinel, DirEvent, Wakeups, MTypeOK, DirTypeOK, PCs, DirWatched,
      MetaWatched, SentinelQueued, SentinelIsLast
<1>28. CASE CloseMeta /\ UNCHANGED <<vars, procVars>>
  BY <1>28 DEF CloseMeta, DirEvent, MetaEvent, Wakeups, MTypeOK, DirTypeOK, PCs,
      DirWatched, MetaWatched, SentinelQueued, SentinelIsLast
<1>29. CASE UNCHANGED mvars
  BY <1>29 DEF mvars, Wakeups, SentinelQueued
<1>30. QED
  BY <1>1, <1>2, <1>3, <1>4, <1>5, <1>6, <1>7, <1>8, <1>9, <1>10, <1>11, <1>12, <1>13,
      <1>14, <1>15, <1>16, <1>17, <1>18, <1>19, <1>20, <1>21, <1>22, <1>23, <1>24, <1>25,
      <1>26, <1>27, <1>28, <1>29, MStepCases

(* Nothing is written once the sentinel exists. *)
LEMMA SentinelStep ==
  ASSUME MTypeOK, SentinelIsLast, FinalDrain, [MNext]_mvars
  PROVE  SentinelIsLast'
<1>1. CASE CheckSentinel
  BY <1>1 DEF CheckSentinel, SentinelIsLast, SentinelQueued, MTypeOK, DirTypeOK, Writing
<1>2. CASE WaitPoll
  BY <1>2 DEF WaitPoll, ConsumeDir, SentinelIsLast, SentinelQueued, MTypeOK, DirTypeOK,
      Writing
<1>3. CASE DirEvents
  BY <1>3 DEF DirEvents, ConsumeDir, SentinelIsLast, SentinelQueued, MTypeOK, DirTypeOK,
      Writing
<1>4. CASE RecheckSentinel
  BY <1>4 DEF RecheckSentinel, SentinelIsLast, SentinelQueued, MTypeOK, DirTypeOK, Writing
<1>5. CASE CreateBin /\ UNCHANGED <<vars, procVars>>
  BY <1>5 DEF CreateBin, SentinelIsLast, SentinelQueued, MTypeOK, DirTypeOK, Writing
<1>6. CASE CreateMeta /\ UNCHANGED <<vars, procVars>>
  BY <1>6 DEF CreateMeta, SentinelIsLast, SentinelQueued, MTypeOK, DirTypeOK, Writing
<1>7. ASSUME NEW c \in Chunks, WriteChunk(c), UNCHANGED <<vars, procVars>>
      PROVE  SentinelIsLast'
  BY <1>7 DEF WriteChunk, Writing, SentinelIsLast, SentinelQueued, MTypeOK, DirTypeOK
<1>8. CASE WriteOther /\ UNCHANGED <<vars, procVars>>
  BY <1>8 DEF WriteOther, Writing, SentinelIsLast, SentinelQueued, MTypeOK, DirTypeOK
<1>9. CASE WriteHalfLine /\ UNCHANGED <<vars, procVars>>
  BY <1>9 DEF WriteHalfLine, MetaEvent, SentinelIsLast, SentinelQueued, MTypeOK, DirTypeOK,
      Writing
<1>10. CASE CreateSentinel /\ UNCHANGED <<vars, procVars>>
  BY <1>10 DEF CreateSentinel, SentinelIsLast, SentinelQueued, MTypeOK, DirTypeOK, Writing
<1>11. CASE CloseSentinel /\ UNCHANGED <<vars, procVars>>
  BY <1>11 DEF CloseSentinel, DirEvent, SentinelIsLast, SentinelQueued, MTypeOK, DirTypeOK,
      Writing
<1>12. CASE CloseMeta /\ UNCHANGED <<vars, procVars>>
  BY <1>12 DEF CloseMeta, DirEvent, MetaEvent, SentinelIsLast, SentinelQueued, MTypeOK,
      DirTypeOK, Writing
<1>13. CASE OpenBin \/ ArmDirWatch \/ OpenMeta \/ WaitLoop \/ WaitOpen \/ ArmMetaWatch \/
    ReadMeta \/ FeedLine \/ DrainDone \/ Loop \/ Poll \/ MetaEvents \/ CheckIdle \/ Flush
    \/ SyscallFails \/ Clock \/ UNCHANGED mvars
  <2>1. UNCHANGED <<dirQ, saw, sentinel, size, lines>>
    BY <1>13 DEF OpenBin, ArmDirWatch, OpenMeta, WaitLoop, WaitOpen, ArmMetaWatch,
        ReadMeta, FeedLine, DrainDone, Loop, Poll, MetaEvents, CheckIdle, Flush,
        SyscallFails, Clock, mvars, WatchDir, WatchFile, ConsumeMeta
  <2>2. QED
    BY <2>1 DEF SentinelIsLast, SentinelQueued
<1>14. QED
  BY <1>1, <1>2, <1>3, <1>4, <1>5, <1>6, <1>7, <1>8, <1>9, <1>10, <1>11, <1>12, <1>13,
      MStepCases

(* The final drain reads to the end of a file that is complete. *)
LEMMA FinalDrainStep ==
  ASSUME MTypeOK, SentinelIsLast, FinalDrain, Output, [MNext]_mvars
  PROVE  FinalDrain'
<1>1. CASE OpenBin
  BY <1>1 DEF OpenBin, FinalDrain, SentinelIsLast, MTypeOK, DirTypeOK, PCs, Output
<1>2. CASE ArmDirWatch
  BY <1>2 DEF ArmDirWatch, WatchDir, FinalDrain, SentinelIsLast, MTypeOK, DirTypeOK, PCs,
      Output
<1>3. CASE CheckSentinel
  BY <1>3 DEF CheckSentinel, FinalDrain, SentinelIsLast, MTypeOK, DirTypeOK, PCs, Output
<1>4. CASE OpenMeta
  BY <1>4 DEF OpenMeta, FinalDrain, SentinelIsLast, MTypeOK, DirTypeOK, PCs, Output
<1>5. CASE WaitLoop
  BY <1>5 DEF WaitLoop, FinalDrain, SentinelIsLast, MTypeOK, DirTypeOK, PCs, Output
<1>6. CASE WaitPoll
  BY <1>6 DEF WaitPoll, ConsumeDir, FinalDrain, SentinelIsLast, MTypeOK, DirTypeOK, PCs,
      Output
<1>7. CASE WaitOpen
  BY <1>7 DEF WaitOpen, FinalDrain, SentinelIsLast, MTypeOK, DirTypeOK, PCs, Output
<1>8. CASE ArmMetaWatch
  BY <1>8 DEF ArmMetaWatch, WatchFile, FinalDrain, SentinelIsLast, MTypeOK, DirTypeOK, PCs,
      Output
<1>9. CASE ReadMeta
  BY <1>9 DEF ReadMeta, FinalDrain, SentinelIsLast, MTypeOK, DirTypeOK, PCs, Output
<1>10. CASE FeedLine
  <2>0. fed \in Nat /\ fed = 2 * (fed \div 2) /\ fed' = fed + 2 /\ fed' \div 2 = (fed \div 2) + 1
    <3>1. fed \in Nat /\ fed = 2 * (fed \div 2)
      BY DEF FinalDrain, MTypeOK, DirTypeOK
    <3>2. QED
      BY <1>10, <3>1, LineAhead
  <2>1. fed' = 2 * (fed' \div 2)
    BY <2>0
  <2>2. QED
    BY <1>10, <2>1 DEF FeedLine, HandleAction, FinalDrain
<1>11. CASE DrainDone
  <2>1. fed \in Nat /\ got \in Nat /\ fed <= got /\ size \in Nat /\ ~(fed + 2 <= got)
    BY <1>11 DEF DrainDone, HasLine, MTypeOK, DirTypeOK
  <2>2. phase = "final" => got = 2 * Len(lines) /\ Len(lines) \in Nat
    BY <1>11 DEF DrainDone, FinalDrain, SentinelIsLast, MTypeOK, DirTypeOK
  <2>3. phase = "final" => fed = got
    BY <2>1, <2>2 DEF FinalDrain
  <2>4. phase \in {"initial", "loop", "final"} /\ fd \in BOOLEAN
    BY DEF MTypeOK
  <2>5. QED
    BY <1>11, <2>3, <2>4 DEF DrainDone, FinalDrain
<1>12. CASE Loop
  BY <1>12 DEF Loop, PollTimeout, FinalDrain, SentinelIsLast, MTypeOK, DirTypeOK, PCs,
      Output
<1>13. CASE Poll
  BY <1>13 DEF Poll, FinalDrain, SentinelIsLast, MTypeOK, DirTypeOK, PCs, Output
<1>14. CASE MetaEvents
  BY <1>14 DEF MetaEvents, ConsumeMeta, FinalDrain, SentinelIsLast, MTypeOK, DirTypeOK,
      PCs, Output
<1>15. CASE DirEvents
  BY <1>15 DEF DirEvents, ConsumeDir, FinalDrain, SentinelIsLast, MTypeOK, DirTypeOK, PCs,
      Output
<1>16. CASE RecheckSentinel
  BY <1>16 DEF RecheckSentinel, FinalDrain, SentinelIsLast, MTypeOK, DirTypeOK, PCs, Output
<1>17. CASE CheckIdle
  BY <1>17 DEF CheckIdle, HandleAction, FinalDrain, SentinelIsLast, MTypeOK, DirTypeOK,
      PCs, Output
<1>18. CASE Flush
  <2>1. ~fsm'.active
    BY <1>18, FlushEffect DEF Flush, MTypeOK, TypeOK
  <2>2. fed = 2 * Len(lines) /\ saw
    BY <1>18 DEF Flush, FinalDrain, SentinelIsLast
  <2>3. QED
    BY <1>18, <2>1, <2>2 DEF Flush, FinalDrain
<1>19. CASE SyscallFails
  BY <1>19 DEF SyscallFails, FinalDrain, SentinelIsLast, MTypeOK, DirTypeOK, PCs, Output
<1>20. CASE Clock
  BY <1>20 DEF Clock, FinalDrain, SentinelIsLast, MTypeOK, DirTypeOK, PCs, Output
<1>21. CASE CreateBin /\ UNCHANGED <<vars, procVars>>
  BY <1>21 DEF CreateBin, FinalDrain, SentinelIsLast, MTypeOK, DirTypeOK, PCs
<1>22. CASE CreateMeta /\ UNCHANGED <<vars, procVars>>
  BY <1>22 DEF CreateMeta, FinalDrain, SentinelIsLast, MTypeOK, DirTypeOK, PCs
<1>23. ASSUME NEW c \in Chunks, WriteChunk(c), UNCHANGED <<vars, procVars>>
      PROVE  FinalDrain'
  <2>1. Writing /\ ~saw
    BY <1>23 DEF WriteChunk, Writing, SentinelIsLast
  <2>2. QED
    BY <1>23, <2>1 DEF WriteChunk, FinalDrain
<1>24. CASE WriteOther /\ UNCHANGED <<vars, procVars>>
  <2>1. Writing /\ ~saw
    BY <1>24 DEF WriteOther, Writing, SentinelIsLast
  <2>2. QED
    BY <1>24, <2>1 DEF WriteOther, FinalDrain
<1>25. CASE WriteHalfLine /\ UNCHANGED <<vars, procVars>>
  BY <1>25 DEF WriteHalfLine, MetaEvent, FinalDrain, SentinelIsLast, MTypeOK, DirTypeOK,
      PCs
<1>26. CASE CreateSentinel /\ UNCHANGED <<vars, procVars>>
  BY <1>26 DEF CreateSentinel, FinalDrain, SentinelIsLast, MTypeOK, DirTypeOK, PCs
<1>27. CASE CloseSentinel /\ UNCHANGED <<vars, procVars>>
  BY <1>27 DEF CloseSentinel, DirEvent, FinalDrain, SentinelIsLast, MTypeOK, DirTypeOK, PCs
<1>28. CASE CloseMeta /\ UNCHANGED <<vars, procVars>>
  BY <1>28 DEF CloseMeta, DirEvent, MetaEvent, FinalDrain, SentinelIsLast, MTypeOK,
      DirTypeOK, PCs
<1>29. CASE UNCHANGED mvars
  BY <1>29 DEF mvars, FinalDrain
<1>30. QED
  BY <1>1, <1>2, <1>3, <1>4, <1>5, <1>6, <1>7, <1>8, <1>9, <1>10, <1>11, <1>12, <1>13,
      <1>14, <1>15, <1>16, <1>17, <1>18, <1>19, <1>20, <1>21, <1>22, <1>23, <1>24, <1>25,
      <1>26, <1>27, <1>28, <1>29, MStepCases

(* A clip that is cut is printed before the next call, or the process ends with 1. *)
LEMMA OutputStep ==
  ASSUME MTypeOK, FinalDrain, Output, [MNext]_mvars
  PROVE  Output'
<1>1. CASE OpenBin
  BY <1>1 DEF OpenBin, Output, Ended, MTypeOK
<1>2. CASE WaitLoop
  BY <1>2 DEF WaitLoop, Output, Ended, MTypeOK
<1>3. CASE FeedLine
  <2>1. CASE lines[(fed \div 2) + 1] = Other
    BY <1>3, <2>1 DEF FeedLine, Output, Ended
  <2>2. CASE lines[(fed \div 2) + 1] # Other
    <3>1. \/ clips' = clips /\ cuts' = cuts
          \/ clips' # clips /\ Len(clips') = Len(clips) + 1 /\ ~Ended'
      BY <1>3, <2>2, LineAhead, RecordEffect DEF FeedLine, MTypeOK
    <3>2. pc = "lines" /\ HandleAction("lines")
      BY <1>3, <2>2 DEF FeedLine
    <3>3. Len(clips) \in Nat /\ printed \in Nat
      BY DEF MTypeOK, TypeOK
    <3>4. QED
      BY <3>1, <3>2, <3>3 DEF HandleAction, Output, Ended
  <2>3. QED
    BY <2>1, <2>2
<1>4. CASE CheckIdle
  <2>1. Len(clips) \in Nat /\ printed \in Nat
    BY DEF MTypeOK, TypeOK
  <2>2. UNCHANGED vars \/ (clips' # clips /\ Len(clips') = Len(clips) + 1 /\ ~Ended')
    BY <1>4, FlushEffect DEF CheckIdle, MTypeOK
  <2>3. QED
    BY <1>4, <2>1, <2>2 DEF CheckIdle, HandleAction, Output, Ended
<1>5. CASE Flush
  <2>1. Len(clips) \in Nat /\ printed \in Nat
    BY DEF MTypeOK, TypeOK
  <2>2. UNCHANGED vars \/ (clips' # clips /\ Len(clips') = Len(clips) + 1)
    BY <1>5, FlushEffect DEF Flush, MTypeOK
  <2>3. QED
    BY <1>5, <2>1, <2>2 DEF Flush, Output
<1>6. CASE SyscallFails
  BY <1>6 DEF SyscallFails, Output, Ended, MTypeOK
<1>7. CASE ArmDirWatch \/ CheckSentinel \/ OpenMeta \/ WaitPoll \/ WaitOpen \/ ArmMetaWatch
    \/ ReadMeta \/ DrainDone \/ Loop \/ Poll \/ MetaEvents \/ DirEvents \/ RecheckSentinel
    \/ Clock \/ (CreateBin /\ UNCHANGED <<vars, procVars>>) \/ (CreateMeta /\ UNCHANGED
    <<vars, procVars>>) \/ (\E c \in Chunks : WriteChunk(c) /\ UNCHANGED <<vars,
    procVars>>) \/ (WriteOther /\ UNCHANGED <<vars, procVars>>) \/ (WriteHalfLine /\
    UNCHANGED <<vars, procVars>>) \/ (CreateSentinel /\ UNCHANGED <<vars, procVars>>) \/
    (CloseSentinel /\ UNCHANGED <<vars, procVars>>) \/ (CloseMeta /\ UNCHANGED <<vars,
    procVars>>) \/ UNCHANGED mvars
  <2>1. UNCHANGED <<clips, cuts, printed, rc>> /\ (pc' = pc \/ (pc' # "exit" /\ pc # "exit"))
    BY <1>7 DEF ArmDirWatch, CheckSentinel, OpenMeta, WaitPoll, WaitOpen, ArmMetaWatch,
        ReadMeta, DrainDone, Loop, Poll, MetaEvents, DirEvents, RecheckSentinel, Clock,
        CreateBin, CreateMeta, WriteChunk, WriteOther, WriteHalfLine, CreateSentinel,
        CloseSentinel, CloseMeta, mvars, MTypeOK
  <2>2. QED
    BY <2>1 DEF Output, Ended
<1>8. QED
  BY <1>1, <1>2, <1>3, <1>4, <1>5, <1>6, <1>7, MStepCases

-----------------------------------------------------------------------------
(* A line that was written stays as it is, and so does what was removed    *)
(* from the buffer and what the machine took, but for a step that feeds.   *)
LEMMA LinesStay ==
  ASSUME MTypeOK, [MNext]_mvars
  PROVE  \/ FeedLine
         \/ /\ fed' = fed /\ taken' = taken /\ bin <= bin'
            /\ Len(lines) <= Len(lines') /\ \A i \in 1..Len(lines) : lines'[i] = lines[i]
            /\ \A i \in (Len(lines) + 1)..Len(lines') :
                 lines'[i] # Other => lines'[i].offset + lines'[i].length <= bin'
<1>1. Len(lines) \in Nat /\ bin \in Nat /\ TypeOK
  BY DEF MTypeOK, DirTypeOK
<1>2. CASE UNCHANGED <<fed, taken, bin, lines>>
  BY <1>1, <1>2
<1>3. CASE CheckIdle \/ Flush
  <2>1. UNCHANGED <<fed, taken, bin, lines>>
    BY <1>3 DEF CheckIdle, Flush, FlushIdle, FlushFinal
  <2>2. QED
    BY <1>2, <2>1
<1>4. ASSUME NEW c \in Chunks, WriteChunk(c), UNCHANGED <<vars, procVars>>
      PROVE  /\ fed' = fed /\ taken' = taken /\ bin <= bin'
             /\ Len(lines) <= Len(lines') /\ \A i \in 1..Len(lines) : lines'[i] = lines[i]
             /\ \A i \in (Len(lines) + 1)..Len(lines') :
                  lines'[i] # Other => lines'[i].offset + lines'[i].length <= bin'
  <2>1. c.length \in Nat /\ c.offset \in Nat /\ c.offset = bin /\ bin' = bin + c.length
    BY <1>4, ChunkType DEF WriteChunk
  <2>2. /\ lines' = Append(lines, c) /\ lines \in Seq(Chunks \cup {Other})
        /\ c \in Chunks \cup {Other}
    BY <1>4 DEF WriteChunk, MTypeOK, DirTypeOK
  <2>3. /\ Len(lines') = Len(lines) + 1 /\ lines'[Len(lines) + 1] = c
        /\ \A i \in 1..Len(lines) : lines'[i] = lines[i]
    BY <2>2, AppendFacts
  <2>4. QED
    BY <1>1, <1>4, <2>1, <2>3
<1>5. CASE WriteOther /\ UNCHANGED <<vars, procVars>>
  <2>1. lines' = Append(lines, Other) /\ lines \in Seq(Chunks \cup {Other})
    BY <1>5 DEF WriteOther, MTypeOK, DirTypeOK
  <2>2. /\ Len(lines') = Len(lines) + 1 /\ lines'[Len(lines) + 1] = Other
        /\ \A i \in 1..Len(lines) : lines'[i] = lines[i]
    BY <2>1, AppendFacts
  <2>3. QED
    BY <1>1, <1>5, <2>2 DEF WriteOther
<1>6. QED
  BY <1>2, <1>3, <1>4, <1>5, MStepCases
  DEF OpenBin, ArmDirWatch, CheckSentinel, OpenMeta, WaitLoop, WaitPoll, WaitOpen, ArmMetaWatch,
      ReadMeta, DrainDone, Loop, Poll, MetaEvents, DirEvents, RecheckSentinel, SyscallFails,
      Clock, CreateBin, CreateMeta, WriteHalfLine, CreateSentinel, CloseSentinel, CloseMeta,
      mvars

(* The lines consumed, before and after a step. *)
LEMMA DataLinesStay ==
  ASSUME MTypeOK, [MNext]_mvars, ~FeedLine
  PROVE  /\ DataLines' = DataLines
         /\ \A i \in DataLines : i \in 1..Len(lines) /\ lines'[i] = lines[i]
<1>1. /\ fed \in Nat /\ got \in Nat /\ size \in Nat /\ Len(lines) \in Nat
      /\ fed <= got /\ got <= size /\ size <= 2 * Len(lines)
  BY DEF MTypeOK, DirTypeOK
<1>2. \A i \in 1..(fed \div 2) : i \in 1..Len(lines)
  BY <1>1
<1>3. fed' = fed /\ \A i \in 1..Len(lines) : lines'[i] = lines[i]
  BY LinesStay
<1>4. QED
  BY <1>2, <1>3 DEF DataLines

LEMMA DataLinesGrow ==
  ASSUME MTypeOK, FinalDrain, FeedLine
  PROVE  LET next == (fed \div 2) + 1
         IN /\ next \notin DataLines /\ \A i \in DataLines : i < next
            /\ next \in Nat /\ DataLines \subseteq Nat
            /\ DataLines' = IF lines[next] = Other THEN DataLines ELSE DataLines \cup {next}
<1> DEFINE next == (fed \div 2) + 1
<1>1. fed \in Nat /\ fed \div 2 \in Nat
  BY DEF MTypeOK, DirTypeOK
<1>2. fed' \div 2 = next /\ lines' = lines
  BY LineAhead
<1>3. 1..next = 1..(fed \div 2) \cup {next}
  BY <1>1
<1>4. DataLines' = {i \in 1..(fed \div 2) \cup {next} : lines[i] # Other}
  BY <1>2, <1>3 DEF DataLines
<1>5. QED
  BY <1>1, <1>4 DEF DataLines

LEMMA FedStep ==
  ASSUME MTypeOK, FinalDrain, Fed, [MNext]_mvars
  PROVE  Fed'
<1>1. Len(taken) \in Nat /\ Len(lines) \in Nat /\ bin \in Nat /\ fed \in Nat
  BY DEF MTypeOK, DirTypeOK, TypeOK
<1>2. CASE FeedLine
  <2> DEFINE next == (fed \div 2) + 1
  <2>1. next \in 1..Len(lines) /\ fed' \div 2 = next /\ UNCHANGED <<lines, bin>>
    BY <1>2, LineAhead
  <2>2. DataLines \subseteq DataLines'
    BY <1>2, DataLinesGrow
  <2>3. CASE lines[next] = Other
    <3>1. taken' = taken
      BY <1>2, <2>3 DEF FeedLine
    <3>2. QED
      BY <1>1, <2>1, <2>2, <3>1 DEF Fed
  <2>4. CASE lines[next] # Other
    <3>1. next \in DataLines'
      BY <1>2, <2>4, DataLinesGrow
    <3>2. lines[next] \in Chunks /\ ProcessRecord(lines[next])
      BY <1>2, <2>4, LineAhead DEF FeedLine
    <3>3. taken' = taken \/ taken' = Append(taken, lines[next])
      BY <3>2, RecordEffect DEF MTypeOK
    <3>4. CASE taken' = taken
      BY <1>1, <2>1, <2>2, <3>4 DEF Fed
    <3>5. CASE taken' = Append(taken, lines[next])
      <4>1. taken \in Seq(Chunks)
        BY DEF MTypeOK, TypeOK
      <4>2. /\ Len(taken') = Len(taken) + 1 /\ taken'[Len(taken) + 1] = lines[next]
            /\ \A k \in 1..Len(taken) : taken'[k] = taken[k]
        BY <3>2, <3>5, <4>1, AppendFacts
      <4>3. QED
        BY <1>1, <2>1, <2>2, <3>1, <4>2 DEF Fed
    <3>6. QED
      BY <3>3, <3>4, <3>5
  <2>5. QED
    BY <2>3, <2>4
<1>3. CASE ~FeedLine
  <2>1. /\ fed' = fed /\ taken' = taken /\ bin <= bin'
        /\ Len(lines) <= Len(lines') /\ \A i \in 1..Len(lines) : lines'[i] = lines[i]
        /\ \A i \in (Len(lines) + 1)..Len(lines') :
             lines'[i] # Other => lines'[i].offset + lines'[i].length <= bin'
    BY <1>3, LinesStay
  <2>2. /\ DataLines' = DataLines
        /\ \A i \in DataLines : lines'[i] = lines[i]
    BY <1>3, DataLinesStay
  <2>3. lines' \in Seq(Chunks \cup {Other}) /\ bin' \in Nat
    BY DirTypeStep DEF DirTypeOK
  <2>4. ASSUME NEW i \in 1..Len(lines'), lines'[i] # Other
        PROVE  lines'[i].offset + lines'[i].length <= bin'
    <3>1. CASE i \in 1..Len(lines)
      <4>1. lines[i] \in Chunks /\ lines'[i] = lines[i]
        BY <2>1, <2>4, <3>1 DEF MTypeOK, DirTypeOK
      <4>2. lines[i].offset \in Nat /\ lines[i].length \in Nat
        BY <4>1, ChunkType
      <4>3. lines[i].offset + lines[i].length <= bin
        BY <2>4, <3>1, <4>1 DEF Fed
      <4>4. QED
        BY <1>1, <2>1, <2>3, <4>1, <4>2, <4>3
    <3>2. CASE i \notin 1..Len(lines)
      <4>1. i \in (Len(lines) + 1)..Len(lines')
        BY <1>1, <2>3, <3>2
      <4>2. QED
        BY <2>1, <2>4, <4>1
    <3>3. QED
      BY <3>1, <3>2
  <2>5. QED
    BY <1>1, <2>1, <2>2, <2>4 DEF Fed
<1>4. QED
  BY <1>2, <1>3

-----------------------------------------------------------------------------
(* A record numbered above the last one taken is taken. *)
LEMMA HigherIsTaken ==
  ASSUME Inv, NEW rec \in Chunks, ProcessRecord(rec),
         taken = <<>> \/ taken[Len(taken)].seq < rec.seq
  PROVE  taken' = Append(taken, rec)
<1>1. fsm.active => ~IsLate(fsm, rec)
  <2> SUFFICES ASSUME fsm.active
               PROVE  ~IsLate(fsm, rec)
    OBVIOUS
  <2>1. fsm.expectedSeq = taken[Len(taken)].seq + 1 /\ Len(taken) \in 1..Len(taken)
    BY OpenWindow
  <2>2. taken[Len(taken)] \in Chunks /\ taken # <<>>
    BY <2>1, CutType DEF Inv
  <2>3. QED
    BY <2>1, <2>2, ChunkType DEF IsLate
<1>2. QED
  BY <1>1 DEF ProcessRecord, Begin, RejectLate, CutAtGap, CutAtWindow, Extend, Accept

(* The last record taken is one of the lines consumed, so a contract that  *)
(* the next line keeps puts that line above it.                            *)
LEMMA TakenStep ==
  ASSUME MTypeOK, Inv, FinalDrain, Fed, EveryRecordTakenOnce, [MNext]_mvars
  PROVE  EveryRecordTakenOnce'
<1> DEFINE UpTo(i) == {j \in DataLines : j <= i}
<1>1. DataLines \subseteq Nat /\ IsFiniteSet(DataLines) /\ fed \in Nat
  <2>1. fed \div 2 \in Nat /\ fed \in Nat
    BY DEF MTypeOK, DirTypeOK
  <2>2. IsFiniteSet(1..(fed \div 2))
    BY <2>1, FS_Interval
  <2>3. QED
    BY <2>1, <2>2, FS_Subset DEF DataLines
<1>2. CASE ~FeedLine
  <2>1. /\ DataLines' = DataLines /\ taken' = taken
        /\ \A i \in DataLines : lines'[i] = lines[i]
    BY <1>2, DataLinesStay, LinesStay
  <2>2. Increasing' => Increasing
    BY <2>1 DEF Increasing
  <2>3. QED
    BY <2>1, <2>2 DEF EveryRecordTakenOnce
<1>3. CASE FeedLine
  <2>0. PICK next \in Nat : next = (fed \div 2) + 1
    BY <1>1
  <2>1. /\ next \notin DataLines /\ \A i \in DataLines : i < next
        /\ next \in Nat /\ UNCHANGED lines
        /\ DataLines' = IF lines[next] = Other THEN DataLines ELSE DataLines \cup {next}
    BY <1>3, <2>0, DataLinesGrow, LineAhead
  <2>2. CASE lines[next] = Other
    <3>1. DataLines' = DataLines /\ taken' = taken
      BY <1>3, <2>0, <2>1, <2>2 DEF FeedLine
    <3>2. QED
      BY <2>1, <3>1 DEF EveryRecordTakenOnce, Increasing
  <2>3. CASE lines[next] # Other
    <3> SUFFICES ASSUME Increasing'
                 PROVE  /\ Len(taken') = Cardinality(DataLines')
                        /\ \A i \in DataLines' : taken'[Cardinality(UpTo(i)')] = lines'[i]
      BY DEF EveryRecordTakenOnce
    <3>1. DataLines' = DataLines \cup {next} /\ lines' = lines
      BY <2>1, <2>3
    <3>2. Increasing /\ \A i \in DataLines : lines[i].seq < lines[next].seq
      BY <2>1, <3>1 DEF Increasing
    <3>3. /\ Len(taken) = Cardinality(DataLines)
          /\ \A i \in DataLines : taken[Cardinality(UpTo(i))] = lines[i]
      BY <3>2 DEF EveryRecordTakenOnce
    <3>4. lines[next] \in Chunks /\ ProcessRecord(lines[next])
      BY <1>3, <2>0, <2>3, LineAhead DEF FeedLine
    <3>5. taken \in Seq(Chunks)
      BY DEF Inv, TypeOK
    <3>6. taken = <<>> \/ taken[Len(taken)].seq < lines[next].seq
      <4>1. CASE taken # <<>>
        <5>1. Len(taken) \in 1..Len(taken)
          BY <3>5, <4>1
        <5>2. PICK i \in DataLines : taken[Len(taken)] = lines[i]
          BY <5>1 DEF Fed
        <5>3. QED
          BY <3>2, <5>2
      <4>2. QED
        BY <4>1
    <3>7. taken' = Append(taken, lines[next])
      BY <3>4, <3>6, HigherIsTaken
    <3>8. /\ Len(taken') = Len(taken) + 1 /\ taken'[Len(taken) + 1] = lines[next]
          /\ \A k \in 1..Len(taken) : taken'[k] = taken[k]
      BY <3>4, <3>5, <3>7, AppendFacts
    <3>9. Cardinality(DataLines') = Cardinality(DataLines) + 1
      BY <1>1, <2>1, <3>1, FS_AddElement
    <3>10. UpTo(next)' = DataLines'
      <4>1. \A j \in DataLines' : j <= next
        BY <1>1, <2>1, <3>1
      <4>2. QED
        BY <4>1
    <3>11. ASSUME NEW i \in DataLines
           PROVE  UpTo(i)' = UpTo(i) /\ Cardinality(UpTo(i)) \in 1..Len(taken)
      <4>1. UpTo(i)' = UpTo(i)
        BY <1>1, <2>1, <3>1
      <4>2. UpTo(i) \subseteq DataLines /\ i \in UpTo(i)
        BY <1>1
      <4>3. /\ IsFiniteSet(UpTo(i)) /\ Cardinality(UpTo(i)) <= Cardinality(DataLines)
        BY <1>1, <4>2, FS_Subset
      <4>4. Cardinality(UpTo(i)) \in Nat /\ Cardinality(UpTo(i)) # 0
        BY <4>2, <4>3, FS_CardinalityType, FS_EmptySet
      <4>5. Cardinality(DataLines) \in Nat
        BY <1>1, FS_CardinalityType
      <4>6. QED
        BY <3>3, <4>1, <4>3, <4>4, <4>5
    <3>12. ASSUME NEW i \in DataLines'
           PROVE  taken'[Cardinality(UpTo(i)')] = lines'[i]
      <4>1. CASE i = next
        BY <3>1, <3>3, <3>8, <3>9, <3>10, <4>1
      <4>2. CASE i \in DataLines
        BY <3>1, <3>3, <3>8, <3>11, <4>2
      <4>3. QED
        BY <3>1, <4>1, <4>2
    <3>13. QED
      BY <3>3, <3>8, <3>9, <3>12
  <2>4. QED
    BY <2>2, <2>3
<1>4. QED
  BY <1>2, <1>3

-----------------------------------------------------------------------------
LEMMA MTypeStep ==
  ASSUME MTypeOK, FinalDrain, Output, Fed, [MNext]_mvars
  PROVE  MTypeOK'
<1>1. TypeOK'
  BY FsmStep, TypeStep DEF MTypeOK
<1>2. QED
  BY <1>1, DirTypeStep, ProcTypeStep DEF MTypeOK, ProcTyped

(* The state machine keeps its own invariant, since each step of the       *)
(* process is one of its steps or leaves it alone.                         *)
LEMMA InvStep ==
  ASSUME MTypeOK, Inv, FinalDrain, Output, Fed, [MNext]_mvars
  PROVE  Inv'
<1>1. [Next]_vars
  BY FsmStep
<1>2. TypeOK'
  BY <1>1, TypeStep DEF Inv
<1>3. QED
  BY <1>1, <1>2, PartitionStep, DescribeStep, NoHoleStep, WindowStep, JustifiedStep,
     SequenceStep DEF Inv

LEMMA MInitInv ==
  ASSUME MInit
  PROVE  MInv
<1>1. Inv
  BY TypeInit DEF MInit, Inv, Init, Reset, CutsPartition, ClipsDescribeRecords,
     NoHoleInsideClip, InsideWindow, Inside, CutsJustified, SequenceAdvances, First
<1>2. /\ files = "none" /\ bin = 0 /\ lines = <<>> /\ Len(lines) = 0 /\ size = 0
      /\ sentinel = "absent" /\ dirQ = {} /\ pc = "openBin" /\ got = 0 /\ fed = 0
      /\ phase = "initial" /\ printed = 0 /\ rc = 0 /\ ~saw /\ ~fd
      /\ clips = <<>> /\ cuts = <<>> /\ taken = <<>>
      /\ held = FALSE /\ dirWatch = FALSE /\ metaWatch = FALSE /\ metaQ = FALSE
      /\ ready = {} /\ timer = 0
  BY DEF MInit, Init, DirInit
<1>3. fed \div 2 = 0
  BY <1>2
<1>4. MTypeOK
  <2>1. TypeOK
    BY <1>1 DEF Inv
  <2>2. DirTypeOK
    <3>1. lines \in Seq(Chunks \cup {Other}) /\ Len(lines) <= MaxLines /\ MaxLines \in Nat
      BY <1>2, StreamMergeAssumption
    <3>2. size \in 0..(2 * Len(lines))
      BY <1>2
    <3>3. QED
      BY <1>2, <3>1, <3>2 DEF DirTypeOK
  <2>3. timer \in 0..(IF PollMs > MetaWaitMs THEN PollMs ELSE MetaWaitMs)
    BY <1>2, StreamMergeAssumption
  <2>4. saw \in BOOLEAN /\ fd \in BOOLEAN
    BY DEF MInit
  <2>5. QED
    BY <1>2, <2>1, <2>2, <2>3, <2>4 DEF MTypeOK, PCs
<1>5. Wakeups /\ SentinelIsLast /\ FinalDrain /\ Output
  BY <1>2, <1>3
     DEF Wakeups, DirWatched, MetaWatched, SentinelIsLast, SentinelQueued, FinalDrain, Output,
         Ended
<1>6. DataLines = {}
  BY <1>3 DEF DataLines
<1>7. Fed
  BY <1>2, <1>3 DEF Fed
<1>8. EveryRecordTakenOnce
  BY <1>2, <1>6, FS_EmptySet DEF EveryRecordTakenOnce
<1>9. QED
  BY <1>1, <1>4, <1>5, <1>7, <1>8 DEF MInv

(* Everything below rests on this: the invariant of the process, its       *)
(* directory and its state machine survives every step of the process, of  *)
(* the ingestor and of the clock (stream_merge.c:227-361).                 *)
THEOREM StreamMergeInvariance == MSpec => []MInv
<1>1. MInv /\ [MNext]_mvars => MInv'
  BY MTypeStep, InvStep, WakeupsStep, SentinelStep, FinalDrainStep, OutputStep, FedStep,
     TakenStep DEF MInv
<1>2. QED
  BY <1>1, MInitInv, PTL DEF MSpec

(* Types of the process, its directory and its state machine, in every     *)
(* interleaving (the locals of stream_merge_main, stream_merge.c:227-361). *)
THEOREM StreamMergeTypeCorrect == MSpec => []MTypeOK
BY StreamMergeInvariance, PTL DEF MInv

(* The process never sleeps on a line or a sentinel it has not been told   *)
(* of: the watches are armed before the first look, and the queues emptied *)
(* before the next one (stream_merge.c:234-241, 291-304, 330-333).         *)
THEOREM NoLostWakeupTheorem == MSpec => []NoLostWakeup
<1>1. MInv => NoLostWakeup
  BY DEF MInv, Wakeups, NoLostWakeup, DirWatched, MetaWatched, PCs
<1>2. QED
  BY <1>1, StreamMergeInvariance, PTL

(* Whatever the reads cut a rising sidecar into, each of its data lines    *)
(* becomes one record, in order (drain_meta, stream_merge.c:94-142).       *)
THEOREM EveryRecordTakenOnceTheorem == MSpec => []EveryRecordTakenOnce
BY StreamMergeInvariance, PTL DEF MInv

(* A run that opened the sidecar and exits with 0 has fed every line and   *)
(* printed every clip: what was written before the sentinel cannot slip    *)
(* between the last poll and the final drain (stream_merge.c:352-361).     *)
THEOREM CleanExitTheorem == MSpec => []CleanExitIsComplete
<1>1. MInv => CleanExitIsComplete
  BY DEF MInv, FinalDrain, Output, CleanExitIsComplete
<1>2. QED
  BY <1>1, StreamMergeInvariance, PTL

(* A clip on stdout never points past the end of .bin, since the ingestor  *)
(* writes the bytes before the line that announces them                    *)
(* (scripts/udp_stream_data_server.sh, .docs/applets/stream-merge.md:60).  *)
THEOREM ClipBytesOnDiskTheorem == MSpec => []ClipBytesOnDisk
<1>1. MInv => ClipBytesOnDisk
  <2> SUFFICES ASSUME MInv, NEW i \in 1..printed
               PROVE  clips[i].offset + clips[i].length <= bin
    BY DEF ClipBytesOnDisk
  <2>1. i \in 1..Len(clips) /\ i \in 1..Len(cuts)
    <3>1. printed \in Nat /\ printed <= Len(clips) /\ Len(clips) \in Nat
      BY CutType DEF MInv, MTypeOK, Output, Inv
    <3>2. Len(cuts) = Len(clips)
      BY DEF MInv, Inv, CutsPartition
    <3>3. QED
      BY <3>1, <3>2
  <2>2. Describes(clips[i], First(i), cuts[i].at)
    BY <2>1 DEF MInv, Inv, ClipsDescribeRecords
  <2>3. cuts[i].at \in 1..Len(taken)
    BY <2>1, CutsInside DEF MInv
  <2>4. PICK j \in DataLines : taken[cuts[i].at] = lines[j]
    BY <2>3 DEF MInv, Fed
  <2>5. j \in 1..Len(lines) /\ lines[j] # Other
    <3>1. /\ fed \in Nat /\ got \in Nat /\ size \in Nat /\ Len(lines) \in Nat
          /\ fed <= got /\ got <= size /\ size <= 2 * Len(lines)
      BY DEF MInv, MTypeOK, DirTypeOK
    <3>2. j \in 1..(fed \div 2) /\ lines[j] # Other
      BY <2>4 DEF DataLines
    <3>3. QED
      BY <3>1, <3>2
  <2>6. lines[j].offset + lines[j].length <= bin
    BY <2>5 DEF MInv, Fed
  <2>7. QED
    BY <2>2, <2>4, <2>6 DEF Describes
<1>2. QED
  BY <1>1, StreamMergeInvariance, PTL

(* The process implements ClipFsm: no record follows the final flush, and  *)
(* an idle flush comes only past the timeout (stream_merge.c:94-142, 346,  *)
(* 352-361).                                                               *)
THEOREM DrivesFsmTheorem == MSpec => DrivesFsm
<1>1. MInit => Init
  BY DEF MInit
<1>2. MInv /\ [MNext]_mvars => [Next]_vars
  BY FsmStep DEF MInv
<1>3. QED
  BY <1>1, <1>2, StreamMergeInvariance, PTL DEF MSpec, DrivesFsm, Spec

(* So what ClipFsmProofs says of the state machine under any caller holds  *)
(* of the clips this process prints: they partition and describe what was  *)
(* taken, have no hole, and stay inside the window (sm_fsm.c:45-101).      *)
THEOREM ProcessSegments ==
  MSpec => /\ [](CutsPartition /\ ClipsDescribeRecords /\ NoHoleInsideClip)
           /\ [](InsideWindow /\ CutsJustified /\ SequenceAdvances)
           /\ ImplementsSegmentation
<1>1. Inv => /\ CutsPartition /\ ClipsDescribeRecords /\ NoHoleInsideClip
             /\ InsideWindow /\ CutsJustified /\ SequenceAdvances
  BY DEF Inv
<1>2. QED
  BY <1>1, DrivesFsmTheorem, Invariance, Implementation, PTL DEF DrivesFsm
=============================================================================
