---------------------------- MODULE StreamMerge -----------------------------
(***************************************************************************)
(* The stream_merge process (applets/stream_merge/stream_merge.c): it      *)
(* opens the session's files, waits for a sidecar that is not there yet,   *)
(* drains the sidecar through the clip state machine of ClipFsm, polls the *)
(* two inotify descriptors with a timeout, and leaves when it has seen the *)
(* sentinel.  One action is one system call and the code up to the next;   *)
(* between two of them the ingestor of SessionDir and the clock move.      *)
(***************************************************************************)
EXTENDS ClipFsm, SessionDir, FiniteSets

CONSTANTS
  PollMs,     (* longest poll of the main loop, 1000 ms in the code     *)
  MetaWaitMs  (* how long a missing sidecar is waited for, 5000 ms      *)

ASSUME StreamMergeAssumption ==
  /\ PollMs \in Nat \ {0}
  /\ MetaWaitMs \in Nat
  /\ MaxLines \in Nat /\ MaxLines <= MaxRecords
  /\ Other \notin Chunks

VARIABLES
  pc,       (* the next system call of stream_merge_main               *)
  saw,      (* saw_sentinel                                            *)
  fd,       (* meta_fd is open                                         *)
  got,      (* half lines read from the sidecar                        *)
  fed,      (* half lines of the lines handed to the machine           *)
  phase,    (* which of the three calls of drain_meta is running       *)
  ready,    (* the descriptors poll reported: revents of pfds[0..1]    *)
  timer,    (* ms left until the timeout of the poll in progress       *)
  printed,  (* clips written to stdout and flushed                     *)
  rc        (* exit status                                             *)

procVars == <<pc, saw, fd, got, fed, phase, ready, timer, printed, rc>>
mvars == <<fsm, quiet, clips, taken, cuts, files, bin, lines, size, held, sentinel,
           dirWatch, metaWatch, dirQ, metaQ,
           pc, saw, fd, got, fed, phase, ready, timer, printed, rc>>

MInit ==
  /\ Init
  /\ DirInit
  /\ pc = "openBin" /\ saw = FALSE /\ fd = FALSE
  /\ got = 0 /\ fed = 0 /\ phase = "initial" /\ ready = {} /\ timer = 0
  /\ printed = 0 /\ rc = 0

Goto(l) == pc' = l
Exit(code) == pc' = "exit" /\ rc' = code

-----------------------------------------------------------------------------
(* Start-up (stream_merge.c:227-298). *)

OpenBin ==
  /\ pc = "openBin"
  /\ IF files = "none" THEN Exit(1) ELSE Goto("watchDir") /\ UNCHANGED rc
  /\ UNCHANGED <<vars, dirVars, saw, fd, got, fed, phase, ready, timer, printed>>

ArmDirWatch ==
  /\ pc = "watchDir"
  /\ WatchDir
  /\ Goto("checkSentinel")
  /\ UNCHANGED <<vars, ingestorVars, saw, fd, got, fed, phase, ready, timer,
                 printed, rc>>

CheckSentinel ==
  /\ pc = "checkSentinel"
  /\ saw' = (sentinel # "absent")
  /\ Goto("openMeta")
  /\ UNCHANGED <<vars, dirVars, fd, got, fed, phase, ready, timer, printed, rc>>

OpenMeta ==
  /\ pc = "openMeta"
  /\ \/ /\ files = "meta"
        /\ fd' = TRUE
        /\ Goto("watchMeta")
        /\ UNCHANGED timer
     \/ /\ files # "meta"
        /\ timer' = MetaWaitMs
        /\ Goto("waitLoop")
        /\ UNCHANGED fd
  /\ UNCHANGED <<vars, dirVars, saw, got, fed, phase, ready, printed, rc>>

(* The head of the loop that waits for the sidecar, and what follows it. *)
WaitLoop ==
  /\ pc = "waitLoop"
  /\ \/ fd /\ Goto("watchMeta") /\ UNCHANGED rc
     \/ ~fd /\ saw /\ Exit(0)
     \/ ~fd /\ ~saw /\ timer = 0 /\ Exit(1)
     \/ ~fd /\ ~saw /\ timer > 0 /\ Goto("waitPoll") /\ UNCHANGED rc
  /\ timer' = IF pc' = "waitPoll" THEN timer ELSE 0
  /\ UNCHANGED <<vars, dirVars, saw, fd, got, fed, phase, ready, printed>>

WaitPoll ==
  /\ pc = "waitPoll"
  /\ dirQ # {} \/ timer = 0
  /\ saw' = SentinelQueued
  /\ ConsumeDir
  /\ Goto("waitOpen")
  /\ UNCHANGED <<vars, ingestorVars, fd, got, fed, phase, ready, timer, printed, rc>>

(* The sidecar is not tried once the sentinel has been reported. *)
WaitOpen ==
  /\ pc = "waitOpen"
  /\ fd' = (~saw /\ files = "meta")
  /\ Goto("waitLoop")
  /\ UNCHANGED <<vars, dirVars, saw, got, fed, phase, ready, timer, printed, rc>>

ArmMetaWatch ==
  /\ pc = "watchMeta"
  /\ WatchFile
  /\ Goto("read")
  /\ UNCHANGED <<vars, ingestorVars, saw, fd, got, fed, phase, ready, timer,
                 printed, rc>>

-----------------------------------------------------------------------------
(* drain_meta: read to the end of the file, then feed the complete lines.   *)
(* A half-written last line stays in meta_buf.                              *)

ReadMeta ==
  /\ pc = "read"
  /\ got' = size
  /\ Goto("lines")
  /\ UNCHANGED <<vars, dirVars, saw, fd, fed, phase, ready, timer, printed, rc>>

(* handle_action and emit_clip: a clip that the state machine handed out is *)
(* printed and flushed; if that fails the process gives up with status 1.   *)
HandleAction(next) ==
  \/ clips' = clips /\ Goto(next) /\ UNCHANGED <<printed, rc>>
  \/ clips' # clips /\ Goto(next) /\ printed' = printed + 1 /\ UNCHANGED rc
  \/ clips' # clips /\ Exit(1) /\ UNCHANGED printed

(* Mutant of HasLine: a line without its newline counts. *)
HasPartialLine == fed < got

HasLine == fed + 2 <= got

(* Mutant of Consume: the whole buffer is dropped with the first line. *)
ConsumeBuffer == fed' = got

(* The memmove that closes each round of the loop over meta_buf.  When the *)
(* emission fails the code returns before it, and the line stays in a      *)
(* buffer nobody reads again: fed counts it, as it has been handed over.   *)
Consume == fed' = fed + 2

FeedLine ==
  /\ pc = "lines"
  /\ HasLine
  /\ Consume
  /\ LET line == lines[(fed \div 2) + 1]
     IN IF line = Other
        THEN UNCHANGED <<vars, pc, printed, rc>>
        ELSE ProcessRecord(line) /\ HandleAction("lines")
  /\ UNCHANGED <<dirVars, saw, fd, got, phase, ready, timer>>

(* Mutant of DrainDone: the events are thrown away after the read. *)
DrainDoneThenConsume ==
  /\ pc = "lines"
  /\ ~HasLine
  /\ Goto(CASE phase = "initial" -> "loop"
            [] phase = "loop" -> "dirEvents"
            [] phase = "final" -> "flush")
  /\ ConsumeMeta
  /\ UNCHANGED <<vars, ingestorVars, saw, fd, got, fed, phase, ready, timer,
                 printed, rc>>

DrainDone ==
  /\ pc = "lines"
  /\ ~HasLine
  /\ Goto(CASE phase = "initial" -> "loop"
            [] phase = "loop" -> "dirEvents"
            [] phase = "final" -> "flush")
  /\ UNCHANGED <<vars, dirVars, saw, fd, got, fed, phase, ready, timer, printed, rc>>

-----------------------------------------------------------------------------
(* The main loop (stream_merge.c:308-350). *)

PollTimeout ==
  LET idleLeft == IF IdleMs > quiet THEN IdleMs - quiet ELSE 0
  IN IF fsm.active /\ idleLeft < PollMs THEN idleLeft ELSE PollMs

(* Mutant of Loop: the final drain is left out. *)
LoopWithoutFinalDrain ==
  /\ pc = "loop"
  /\ IF saw THEN phase' = "final" /\ Goto("flush") /\ UNCHANGED timer
            ELSE timer' = PollTimeout /\ Goto("poll") /\ UNCHANGED phase
  /\ UNCHANGED <<vars, dirVars, saw, fd, got, fed, ready, printed, rc>>

Loop ==
  /\ pc = "loop"
  /\ IF saw THEN phase' = "final" /\ Goto("read") /\ UNCHANGED timer
            ELSE timer' = PollTimeout /\ Goto("poll") /\ UNCHANGED phase
  /\ UNCHANGED <<vars, dirVars, saw, fd, got, fed, ready, printed, rc>>

(* Mutant of Poll: no timeout. *)
PollForEvents ==
  /\ pc = "poll"
  /\ metaQ \/ dirQ # {}
  /\ ready' = {d \in {"meta", "dir"} : IF d = "meta" THEN metaQ ELSE dirQ # {}}
  /\ timer' = 0
  /\ Goto("metaEvents")
  /\ UNCHANGED <<vars, dirVars, saw, fd, got, fed, phase, printed, rc>>

Poll ==
  /\ pc = "poll"
  /\ metaQ \/ dirQ # {} \/ timer = 0
  /\ ready' = {d \in {"meta", "dir"} : IF d = "meta" THEN metaQ ELSE dirQ # {}}
  /\ timer' = 0
  /\ Goto("metaEvents")
  /\ UNCHANGED <<vars, dirVars, saw, fd, got, fed, phase, printed, rc>>

(* Mutant of MetaEvents: the events are consumed, the file is not read. *)
MetaEventsNoRead ==
  /\ pc = "metaEvents"
  /\ ConsumeMeta
  /\ Goto("dirEvents")
  /\ UNCHANGED <<vars, ingestorVars, saw, fd, got, fed, phase, ready, timer,
                 printed, rc>>

(* The events are thrown away before the file is read, so that a line     *)
(* written in between raises a new one.                                   *)
MetaEvents ==
  /\ pc = "metaEvents"
  /\ \/ /\ "meta" \in ready
        /\ ConsumeMeta
        /\ phase' = "loop"
        /\ Goto("read")
     \/ /\ "meta" \notin ready
        /\ Goto("dirEvents")
        /\ UNCHANGED <<watchVars, phase>>
  /\ UNCHANGED <<vars, ingestorVars, saw, fd, got, fed, ready, timer, printed, rc>>

DirEvents ==
  /\ pc = "dirEvents"
  /\ \/ /\ "dir" \in ready
        /\ saw' = (saw \/ SentinelQueued)
        /\ ConsumeDir
     \/ /\ "dir" \notin ready
        /\ UNCHANGED <<saw, watchVars>>
  /\ ready' = {}
  /\ Goto("recheck")
  /\ UNCHANGED <<vars, ingestorVars, fd, got, fed, phase, timer, printed, rc>>

(* Mutant of RecheckSentinel: only the event ends the run. *)
TrustEvents ==
  /\ pc = "recheck"
  /\ Goto("idle")
  /\ UNCHANGED <<vars, dirVars, saw, fd, got, fed, phase, ready, timer, printed, rc>>

RecheckSentinel ==
  /\ pc = "recheck"
  /\ saw' = (saw \/ sentinel # "absent")
  /\ Goto("idle")
  /\ UNCHANGED <<vars, dirVars, fd, got, fed, phase, ready, timer, printed, rc>>

(* Mutant of CheckIdle: every return of poll flushes. *)
CheckIdleAlways ==
  /\ pc = "idle"
  /\ IF fsm.active
     THEN Emit(FALSE, "idle") /\ fsm' = Reset /\ quiet' = 0 /\ UNCHANGED taken
     ELSE UNCHANGED vars
  /\ HandleAction("loop")
  /\ UNCHANGED <<dirVars, saw, fd, got, fed, phase, ready, timer>>

CheckIdle ==
  /\ pc = "idle"
  /\ IF IsIdle(fsm, quiet) THEN FlushIdle ELSE UNCHANGED vars
  /\ HandleAction("loop")
  /\ UNCHANGED <<dirVars, saw, fd, got, fed, phase, ready, timer>>

(* After the final drain. *)
Flush ==
  /\ pc = "flush"
  /\ IF fsm.active THEN FlushFinal ELSE UNCHANGED vars
  /\ \/ clips' = clips /\ Exit(0) /\ UNCHANGED printed
     \/ clips' # clips /\ Exit(0) /\ printed' = printed + 1
     \/ clips' # clips /\ Exit(1) /\ UNCHANGED printed
  /\ UNCHANGED <<dirVars, saw, fd, got, fed, phase, ready, timer>>

(* A system call or an allocation fails: every such path leaves with 1. *)
SyscallFails ==
  /\ pc \in {"watchDir", "openMeta", "waitPoll", "watchMeta", "read", "poll"}
  /\ Exit(1)
  /\ timer' = 0
  /\ UNCHANGED <<vars, dirVars, saw, fd, got, fed, phase, ready, printed>>

-----------------------------------------------------------------------------
Process ==
  \/ OpenBin \/ ArmDirWatch \/ CheckSentinel \/ OpenMeta
  \/ WaitLoop \/ WaitPoll \/ WaitOpen \/ ArmMetaWatch
  \/ ReadMeta \/ FeedLine \/ DrainDone
  \/ Loop \/ Poll \/ MetaEvents \/ DirEvents \/ RecheckSentinel \/ CheckIdle
  \/ Flush

(* Time passes: the age of the last chunk grows, the timeout runs down. *)
Clock ==
  /\ pc # "exit"
  /\ Age # quiet \/ timer > 0
  /\ quiet' = Age
  /\ timer' = IF timer > 0 THEN timer - 1 ELSE 0
  /\ UNCHANGED <<fsm, clips, taken, cuts, dirVars, pc, saw, fd, got, fed, phase,
                 ready, printed, rc>>

Write == Ingestor /\ UNCHANGED <<vars, procVars>>

MNext == Process \/ SyscallFails \/ Clock \/ Write

MSpec == MInit /\ [][MNext]_mvars

(* The scheduler runs the process and time passes.  Nothing is assumed of  *)
(* the ingestor, and system calls need not fail.                           *)
FairMSpec == MSpec /\ WF_mvars(Process) /\ WF_mvars(Clock)

-----------------------------------------------------------------------------
PCs == {"openBin", "watchDir", "checkSentinel", "openMeta", "waitLoop", "waitPoll",
        "waitOpen", "watchMeta", "read", "lines", "loop", "poll", "metaEvents",
        "dirEvents", "recheck", "idle", "flush", "exit"}

(* Type invariant of the process, its directory and its state machine.     *)
MTypeOK ==
  /\ TypeOK
  /\ DirTypeOK
  /\ pc \in PCs
  /\ saw \in BOOLEAN /\ fd \in BOOLEAN
  /\ got \in 0..size /\ fed \in 0..got
  /\ phase \in {"initial", "loop", "final"}
  /\ ready \subseteq {"meta", "dir"}
  /\ timer \in 0..(IF PollMs > MetaWaitMs THEN PollMs ELSE MetaWaitMs)
  /\ printed \in Nat /\ rc \in {0, 1}

(* The process never goes to sleep on something that has already happened: *)
(* while it polls, bytes of the sidecar it has not read, and a sentinel    *)
(* that is complete, have an unread event waiting (arming each watch       *)
(* before the first look, stream_merge.c:234-241 and 291-304, and emptying *)
(* the queue before reading, 330-333).                                     *)
NoLostWakeup ==
  /\ pc = "poll" /\ got < size => metaQ
  /\ pc \in {"poll", "waitPoll"} /\ sentinel = "closed" => SentinelQueued

(* Data lines already removed from the buffer. *)
DataLines == {i \in 1..(fed \div 2) : lines[i] # Other}

Increasing == \A i, j \in DataLines : i < j => lines[i].seq < lines[j].seq

(* A sidecar that keeps the contract (numbers only go up) is taken in      *)
(* whole, in order and once, however reads cut its lines: the state        *)
(* machine accepted each of the consumed lines that hold data, the n-th as *)
(* its n-th record (stream_merge.c:94-142).                                *)
EveryRecordTakenOnce ==
  Increasing =>
    /\ Len(taken) = Cardinality(DataLines)
    /\ \A i \in DataLines : taken[Cardinality({j \in DataLines : j <= i})] = lines[i]

(* Exit status 0 of a run that had opened the sidecar means every line     *)
(* written before the sentinel was fed, and no clip was left in the        *)
(* machine or lost on the way to stdout (the drain and the flush after the *)
(* loop, stream_merge.c:352-361; man/stream_merge.1:15-17,65).             *)
CleanExitIsComplete ==
  pc = "exit" /\ rc = 0 /\ fd =>
    /\ fed = 2 * Len(lines)
    /\ ~fsm.active
    /\ printed = Len(clips)

(* Every clip printed points at bytes that are already in the .bin file,   *)
(* whatever the interleaving of the two processes                          *)
(* (.docs/applets/stream-merge.md:60).                                     *)
ClipBytesOnDisk ==
  \A i \in 1..printed : clips[i].offset + clips[i].length <= bin

(* The process calls the state machine only as its interface allows: no    *)
(* record after the final flush, idle flushes only past the timeout.       *)
DrivesFsm == Spec

(* A sentinel ends the run: its creation leads to the exit of a process    *)
(* that is scheduled, by event, by the re-check each second or by the      *)
(* deadline, whatever the ingestor does afterwards.                        *)
SentinelEndsRun == sentinel # "absent" ~> pc = "exit"

(* A clip whose last chunk is older than --idle-secs does not stay in the  *)
(* machine: it is emitted, or a newer chunk has arrived (stream_merge.c:   *)
(* 309-320, 346).                                                          *)
IdleClipLeaves ==
  IsIdle(fsm, quiet) ~> ~IsIdle(fsm, quiet) \/ pc = "exit"

(* A complete line in a sidecar the process has open is fed in the end,    *)
(* without waiting for the sentinel.                                       *)
WrittenLinesAreFed ==
  \A n \in 1..MaxLines : fd /\ size >= 2 * n ~> fed >= 2 * n \/ pc = "exit"

(* man/stream_merge.1:65, exit status 0: "All records processed and final  *)
(* clip flushed successfully", for every run that exits with 0.            *)
ExitZeroMeansAllProcessed ==
  pc = "exit" /\ rc = 0 => fed = 2 * Len(lines)
=============================================================================
