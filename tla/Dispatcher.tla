----------------------------- MODULE Dispatcher -----------------------------
(***************************************************************************)
(* pipeline_dispatcher and its three children                              *)
(* (applets/pipeline_dispatcher/): the pipes and who holds their ends,     *)
(* fork, dup2, close and exec, signals to the dispatcher alone or to the   *)
(* process group, waitpid and kill.  One action is one system call and     *)
(* the code up to the next.  Of the stages themselves it keeps what the    *)
(* dispatcher depends on: lines that pass from stage to stage, end of      *)
(* input, SIGPIPE, and how a stage ends.                                   *)
(***************************************************************************)
EXTENDS PdConfig

CONSTANTS
  PipeCap,   (* lines a pipe holds                                  *)
  BufLines,  (* lines log_parse gathers before it writes            *)
  MaxLines,  (* bound: lines stream_merge prints                    *)
  MaxSignals (* bound: signals sent to the dispatcher               *)

ASSUME DispatcherAssumption ==
  /\ PipeCap \in Nat \ {0} /\ BufLines \in Nat \ {0}
  /\ MaxLines \in Nat /\ MaxSignals \in Nat

(* pd_exit.h; Died is the default action of an uncaught signal. *)
OK == 0
SETUP_ERROR == 1
BAD_ARGS == 2
CHILD_ERROR == 3
INTERRUPTED == 130
Died == 143
None == -1

merge == 1
parse == 2
store == 3
Stages == {merge, parse, store}
Pipes == {1, 2}
parent == 0
Ends == Pipes \X {"r", "w"}

VARIABLES
  pc,          (* the dispatcher's next system call                          *)
  at,          (* the child it is about                                      *)
  rc,          (* the status it is going to return                           *)
  exit,        (* the status it returned, or None                            *)
  interrupted, (* pd_signal.c: the flag                                      *)
  woken,       (* a signal arrived during the waitpid in progress            *)
  signals,     (* signals sent                                               *)
  raw,         (* pipe ends each process holds as the parent's descriptors   *)
  st,          (* where each stage is                                        *)
  code,        (* how each stage ended, or is going to                       *)
  pipe,        (* lines in each pipe                                         *)
  hand,        (* lines a stage has printed and not yet written              *)
  made, dropped, stored (* lines printed, filtered out, taken by clip_store  *)

dvars == <<pc, at, rc, exit, interrupted, woken>>
lines == <<made, dropped, stored>>
stages == <<st, code, pipe, hand, lines>>
vars == <<dvars, signals, raw, stages>>

Init ==
  /\ pc = "parse" /\ at = 0 /\ rc = OK /\ exit = None
  /\ interrupted = FALSE /\ woken = FALSE /\ signals = 0
  /\ raw = [p \in Stages \cup {parent} |-> {}]
  /\ st = [s \in Stages |-> "none"] /\ code = [s \in Stages |-> "none"]
  /\ pipe = [i \in Pipes |-> 0] /\ hand = [s \in Stages |-> 0]
  /\ made = 0 /\ dropped = 0 /\ stored = 0

-----------------------------------------------------------------------------
(* Processes and pipes. *)

Applet == {"running", "writing", "ending"}
Redirecteds == {"redirected", "closed"} \cup Applet
Executing(s) == st[s] \in Applet
Dead(s) == st[s] \in {"zombie", "reaped"}
HasPid(s) == st[s] \notin {"none", "reaped"}

(* What a stage has as its standard input and output. *)
StdEnds(s) == ({<<s - 1, "r">>, <<s, "w">>}) \cap Ends
EndsOf(p) == raw[p] \cup IF p \in Stages /\ st[p] \in Redirecteds THEN StdEnds(p) ELSE {}
Open(end) == \E p \in Stages \cup {parent} : end \in EndsOf(p)

Exits(s, how) ==
  /\ st' = [st EXCEPT ![s] = "zombie"]
  /\ code' = [code EXCEPT ![s] = how]
  /\ raw' = [raw EXCEPT ![s] = {}]
  /\ hand' = [hand EXCEPT ![s] = 0]

Goto(l, s) == pc' = l /\ at' = s
Return(status) == pc' = "exited" /\ exit' = status /\ rc' = status /\ UNCHANGED at

(* pd_pipeline_cleanup, up to the first kill. *)
Cleanup(status) ==
  /\ raw' = [raw EXCEPT ![parent] = {}]
  /\ Goto("kill", merge) /\ rc' = status /\ UNCHANGED exit

-----------------------------------------------------------------------------
(* The dispatcher, up to the three children. *)

Configure ==
  /\ pc = "parse"
  /\ \E line \in CommandLines :
       CASE ParseResult(line) > 0 -> Return(OK)
         [] ParseResult(line) < 0 -> Return(BAD_ARGS)
         [] OTHER -> IF Validates(line) THEN Goto("install", 0) /\ UNCHANGED <<rc, exit>>
                                        ELSE Return(SETUP_ERROR)
  /\ UNCHANGED <<interrupted, woken, signals, raw, stages>>

InstallHandlers ==
  /\ pc = "install"
  /\ \/ Goto("pipes", 0) /\ UNCHANGED <<rc, exit>>
     \/ Return(SETUP_ERROR)
  /\ UNCHANGED <<interrupted, woken, signals, raw, stages>>

(* Either pipe() may fail; the first is closed when the second does. *)
CreatePipes ==
  /\ pc = "pipes"
  /\ \/ /\ raw' = [raw EXCEPT ![parent] = Ends]
        /\ Goto("spawn", merge) /\ UNCHANGED <<rc, exit>>
     \/ Return(SETUP_ERROR) /\ UNCHANGED raw
  /\ UNCHANGED <<interrupted, woken, signals, stages>>

Fork ==
  /\ pc = "spawn"
  /\ st' = [st EXCEPT ![at] = "forked"]
  /\ raw' = [raw EXCEPT ![at] = raw[parent]]
  /\ IF at = store THEN Goto("close", 0) ELSE Goto("spawn", at + 1)
  /\ UNCHANGED <<rc, exit, interrupted, woken, signals, code, pipe, hand, lines>>

ForkFails ==
  /\ pc = "spawn"
  /\ Cleanup(SETUP_ERROR)
  /\ UNCHANGED <<interrupted, woken, signals, stages>>

ClosePipes ==
  /\ pc = "close"
  /\ raw' = [raw EXCEPT ![parent] = {}]
  /\ Goto("check", 0)
  /\ UNCHANGED <<rc, exit, interrupted, woken, signals, stages>>

CheckInterrupted ==
  /\ pc = "check"
  /\ IF interrupted THEN Cleanup(INTERRUPTED)
                    ELSE Goto("wait", merge) /\ UNCHANGED <<rc, exit, raw>>
  /\ UNCHANGED <<interrupted, woken, signals, stages>>

-----------------------------------------------------------------------------
(* pd_wait_children: the children in order. *)

(* Mutant of Verdict: a child killed by a signal is only logged. *)
VerdictIgnoresSignals(s) == IF code[s] = "fail" THEN CHILD_ERROR ELSE rc

(* Mutant of Verdict: the status of the last child counts. *)
VerdictOfLast(s) == IF code[s] = "ok" THEN OK ELSE CHILD_ERROR

Verdict(s) == IF code[s] = "ok" THEN rc ELSE CHILD_ERROR

Wait ==
  /\ pc = "wait"
  /\ pc' = "blocked" /\ woken' = FALSE
  /\ UNCHANGED <<at, rc, exit, interrupted, signals, raw, stages>>

(* Mutant of WaitReturns: the loop goes past the last child. *)
WaitPastEnd ==
  /\ pc = "blocked" /\ st[at] = "zombie"
  /\ st' = [st EXCEPT ![at] = "reaped"]
  /\ rc' = Verdict(at)
  /\ Goto("wait", at + 1) /\ UNCHANGED exit
  /\ UNCHANGED <<interrupted, woken, signals, raw, code, pipe, hand, lines>>

WaitReturns ==
  /\ pc = "blocked"
  /\ st[at] = "zombie"
  /\ st' = [st EXCEPT ![at] = "reaped"]
  /\ rc' = Verdict(at)
  /\ IF at = store THEN pc' = "exited" /\ exit' = rc' /\ UNCHANGED at
                   ELSE Goto("wait", at + 1) /\ UNCHANGED exit
  /\ UNCHANGED <<interrupted, woken, signals, raw, code, pipe, hand, lines>>

(* Mutant of WaitInterrupted: the wait is repeated. *)
WaitRepeated ==
  /\ pc = "blocked" /\ woken
  /\ Goto("wait", at)
  /\ UNCHANGED <<rc, exit, interrupted, woken, signals, raw, stages>>

(* EINTR.  A child that ends at the same moment may be reported instead. *)
WaitInterrupted ==
  /\ pc = "blocked" /\ woken
  /\ Goto("kill", merge) /\ rc' = INTERRUPTED
  /\ UNCHANGED <<exit, interrupted, woken, signals, raw, stages>>

(* Mutant of LastChild: the loops of pd_kill_children end one child early. *)
LastButOne == parse

(* PD_CHILD_COUNT *)
LastChild == store

(* pd_kill_children.  A child that has not reached exec runs the inherited *)
(* handler, which sets a flag nobody reads.                                *)
Kill ==
  /\ pc = "kill"
  /\ IF Executing(at) THEN Exits(at, "signal") ELSE UNCHANGED <<st, code, raw, hand>>
  /\ IF at = LastChild THEN Goto("reap", merge) ELSE Goto("kill", at + 1)
  /\ UNCHANGED <<rc, exit, interrupted, woken, signals, pipe, lines>>

Reap ==
  /\ pc = "reap"
  /\ HasPid(at) => st[at] = "zombie"
  /\ st' = IF HasPid(at) THEN [st EXCEPT ![at] = "reaped"] ELSE st
  /\ IF at = LastChild THEN pc' = "exited" /\ exit' = rc /\ UNCHANGED at
                        ELSE Goto("reap", at + 1) /\ UNCHANGED exit
  /\ UNCHANGED <<rc, interrupted, woken, signals, raw, code, pipe, hand, lines>>

-----------------------------------------------------------------------------
(* SIGINT or SIGTERM: from kill(1) to the dispatcher, or from the terminal *)
(* to the whole group.                                                     *)
Signal(group) ==
  /\ pc # "exited" /\ signals < MaxSignals
  /\ signals' = signals + 1
  /\ IF pc \in {"parse", "install"}
     THEN Return(Died) /\ UNCHANGED <<interrupted, woken>>
     ELSE /\ interrupted' = TRUE /\ woken' = (pc = "blocked")
          /\ UNCHANGED <<pc, at, rc, exit>>
  /\ LET hit == IF group THEN {s \in Stages : Executing(s)} ELSE {}
     IN /\ st' = [s \in Stages |-> IF s \in hit THEN "zombie" ELSE st[s]]
        /\ code' = [s \in Stages |-> IF s \in hit THEN "signal" ELSE code[s]]
        /\ raw' = [p \in DOMAIN raw |-> IF p \in hit THEN {} ELSE raw[p]]
        /\ hand' = [s \in Stages |-> IF s \in hit THEN 0 ELSE hand[s]]
  /\ UNCHANGED <<pipe, lines>>

-----------------------------------------------------------------------------
(* The child of pd_spawn_child. *)

(* The two dup2; either failing is _exit(126). *)
Redirect(s) ==
  /\ st[s] = "forked"
  /\ \/ st' = [st EXCEPT ![s] = "redirected"] /\ UNCHANGED <<code, raw, hand>>
     \/ Exits(s, "fail")
  /\ UNCHANGED <<dvars, signals, pipe, lines>>

(* Mutant of Inherited: only what the stage writes to is closed. *)
InheritedWriteEnds == Pipes \X {"w"}

(* Mutant of Inherited: only what the stage reads from is closed. *)
InheritedReadEnds == Pipes \X {"r"}

Inherited == Ends

CloseInherited(s) ==
  /\ st[s] = "redirected"
  /\ st' = [st EXCEPT ![s] = "closed"]
  /\ raw' = [raw EXCEPT ![s] = @ \ Inherited]
  /\ UNCHANGED <<dvars, signals, code, pipe, hand, lines>>

(* execv; its failure is _exit(127). *)
Exec(s) ==
  /\ st[s] = "closed"
  /\ \/ st' = [st EXCEPT ![s] = "running"] /\ UNCHANGED <<code, raw, hand>>
     \/ Exits(s, "fail")
  /\ UNCHANGED <<dvars, signals, pipe, lines>>

-----------------------------------------------------------------------------
(* The stages. *)

(* stream_merge prints a clip and flushes it. *)
PrintClip ==
  /\ st[merge] = "running" /\ made < MaxLines
  /\ made' = made + 1
  /\ st' = [st EXCEPT ![merge] = "writing"] /\ hand' = [hand EXCEPT ![merge] = 1]
  /\ UNCHANGED <<dvars, signals, raw, code, pipe, dropped, stored>>

MergeEnds ==
  /\ st[merge] = "running"
  /\ \E how \in {"ok", "fail"} : Exits(merge, how)
  /\ UNCHANGED <<dvars, signals, pipe, lines>>

(* log_parse drops a line or prints it; its output goes to a pipe and is   *)
(* gathered in the stdio buffer.                                           *)
ParseLine ==
  /\ st[parse] = "running" /\ pipe[1] > 0
  /\ pipe' = [pipe EXCEPT ![1] = @ - 1]
  /\ \/ dropped' = dropped + 1 /\ UNCHANGED <<hand, st>>
     \/ /\ hand' = [hand EXCEPT ![parse] = @ + 1]
        /\ st' = [st EXCEPT ![parse] = IF hand[parse] + 1 = BufLines THEN "writing" ELSE @]
        /\ UNCHANGED dropped
  /\ UNCHANGED <<dvars, signals, raw, code, made, stored>>

(* End of input: fflush and exit. *)
ParseInputEnds ==
  /\ st[parse] = "running" /\ pipe[1] = 0 /\ ~Open(<<1, "w">>)
  /\ st' = [st EXCEPT ![parse] = "ending"] /\ code' = [code EXCEPT ![parse] = "ok"]
  /\ UNCHANGED <<dvars, signals, raw, pipe, hand, lines>>

(* A rejected option, no memory, an error of stdin: what was printed is    *)
(* still written.                                                          *)
ParseFails ==
  /\ st[parse] = "running"
  /\ st' = [st EXCEPT ![parse] = "ending"] /\ code' = [code EXCEPT ![parse] = "fail"]
  /\ UNCHANGED <<dvars, signals, raw, pipe, hand, lines>>

(* A write to a pipe: it blocks while the pipe is full and read. *)
WriteLine(s) ==
  /\ st[s] \in {"writing", "ending"} /\ hand[s] > 0
  /\ Open(<<s, "r">>) /\ pipe[s] < PipeCap
  /\ pipe' = [pipe EXCEPT ![s] = @ + 1]
  /\ hand' = [hand EXCEPT ![s] = @ - 1]
  /\ st' = [st EXCEPT ![s] = IF @ = "writing" /\ hand[s] = 1 THEN "running" ELSE @]
  /\ UNCHANGED <<dvars, signals, raw, code, lines>>

BrokenPipe(s) ==
  /\ st[s] \in {"writing", "ending"} /\ hand[s] > 0
  /\ ~Open(<<s, "r">>)
  /\ Exits(s, "signal")
  /\ UNCHANGED <<dvars, signals, pipe, lines>>

(* Mutant of ParseExits: what is still in the buffer is not written. *)
ParseExitsUnflushed ==
  /\ st[parse] = "ending"
  /\ Exits(parse, code[parse])
  /\ UNCHANGED <<dvars, signals, pipe, lines>>

ParseExits ==
  /\ st[parse] = "ending" /\ hand[parse] = 0
  /\ Exits(parse, code[parse])
  /\ UNCHANGED <<dvars, signals, pipe, lines>>

StoreLine ==
  /\ st[store] = "running" /\ pipe[2] > 0
  /\ pipe' = [pipe EXCEPT ![2] = @ - 1]
  /\ stored' = stored + 1
  /\ UNCHANGED <<dvars, signals, raw, st, code, hand, made, dropped>>

StoreInputEnds ==
  /\ st[store] = "running" /\ pipe[2] = 0 /\ ~Open(<<2, "w">>)
  /\ Exits(store, "ok")
  /\ UNCHANGED <<dvars, signals, pipe, lines>>

StoreFails ==
  /\ st[store] = "running"
  /\ Exits(store, "fail")
  /\ UNCHANGED <<dvars, signals, pipe, lines>>

-----------------------------------------------------------------------------
Setup == Configure \/ InstallHandlers \/ CreatePipes
Spawn == Fork \/ ForkFails \/ ClosePipes \/ CheckInterrupted
WaitChildren == Wait \/ WaitReturns \/ WaitInterrupted
KillChildren == Kill \/ Reap
Child(s) == Redirect(s) \/ CloseInherited(s) \/ Exec(s)
Output(s) == WriteLine(s) \/ BrokenPipe(s)
Parse == ParseLine \/ ParseInputEnds \/ ParseExits
Store == StoreLine \/ StoreInputEnds

Next ==
  \/ Setup \/ Spawn \/ WaitChildren \/ KillChildren
  \/ \E group \in BOOLEAN : Signal(group)
  \/ \E s \in Stages : Child(s)
  \/ \E s \in {merge, parse} : Output(s)
  \/ PrintClip \/ MergeEnds \/ Parse \/ ParseFails \/ Store \/ StoreFails

Spec == Init /\ [][Next]_vars

(* Every process is scheduled, and a write to a pipe or the end of input   *)
(* is met once it is possible.  stream_merge may run, and be silent, for   *)
(* ever; nothing has to fail.                                              *)
FairSpec ==
  /\ Spec
  /\ WF_vars(Setup \/ Spawn \/ WaitChildren \/ KillChildren)
  /\ \A s \in Stages : WF_vars(Child(s))
  /\ \A s \in {merge, parse} : WF_vars(Output(s))
  /\ WF_vars(Parse) /\ WF_vars(Store)

-----------------------------------------------------------------------------
DispatcherTypeOK ==
  /\ pc \in {"parse", "install", "pipes", "spawn", "close", "check", "wait", "blocked",
            "kill", "reap", "exited"}
  /\ at \in Stages \cup {0}
  /\ rc \in {OK, SETUP_ERROR, BAD_ARGS, CHILD_ERROR, INTERRUPTED, Died}
  /\ exit \in {None, rc}
  /\ {interrupted, woken} \subseteq BOOLEAN /\ signals \in 0..MaxSignals
  /\ raw \in [Stages \cup {parent} -> SUBSET Ends]
  /\ st \in [Stages -> {"none", "forked", "redirected", "closed", "running", "writing",
                       "ending", "zombie", "reaped"}]
  /\ code \in [Stages -> {"none", "ok", "fail", "signal"}]
  /\ pipe \in [Pipes -> 0..PipeCap]
  /\ hand \in [Stages -> 0..BufLines]
  /\ made \in 0..MaxLines /\ dropped \in 0..MaxLines /\ stored \in 0..MaxLines

(* pd_exit.h and the manual: 0 only when every child ended with 0, 3 only  *)
(* when one did not, 130 only after a signal, 1 and 2 only when a stage    *)
(* was never started.                                                      *)
ExitCodeIsTruthful ==
  /\ exit = OK => \A s \in Stages : code[s] = "ok" \/ st[s] = "none"
  /\ exit = OK => \A s, t \in Stages : st[s] = st[t]
  /\ exit = CHILD_ERROR => \E s \in Stages : code[s] \in {"fail", "signal"}
  /\ exit = INTERRUPTED => interrupted
  /\ exit \in {SETUP_ERROR, BAD_ARGS} => \E s \in Stages : st[s] = "none"

(* The dispatcher never returns while a child it started is alive or       *)
(* unreaped: after a failed fork, an interruption and a normal end alike.  *)
NoChildLeft == pc = "exited" => \A s \in Stages : st[s] \in {"none", "reaped"}

(* Status 0 of the dispatcher means that each line stream_merge printed    *)
(* was refused by the filter or taken by clip_store: no line is left in a  *)
(* pipe or a buffer, and no stage died with lines in hand.                 *)
OkMeansDelivered == exit = OK => made = dropped + stored

(* Once stream_merge has ended, however it ended and whatever the          *)
(* dispatcher was doing, the other stages end and the dispatcher returns:  *)
(* nobody holds a write end that hides the end of input.                   *)
EndOfInputEndsAll == Dead(merge) ~> pc = "exited"

(* When log_parse is gone, a stream_merge that is about to write, even to  *)
(* a full pipe, is told by SIGPIPE, and the run ends: no process but the   *)
(* reader holds a read end.  (The dispatcher waits for stream_merge first, *)
(* so this is the only way it learns of log_parse's end before the         *)
(* session's.)                                                             *)
Wired == pc \in {"wait", "blocked"} /\ \A s \in Stages : Executing(s) \/ Dead(s)
BrokenPipelineEnds == (Wired /\ Dead(parse) /\ st[merge] = "writing") ~> pc = "exited"

(* A signal that reaches the dispatcher in waitpid, with all stages        *)
(* running, ends the run even when the session never does.                 *)
SignalInWaitEndsRun == (woken /\ pc = "blocked" /\ Wired) ~> pc = "exited"

(* The manual's account of SIGINT and SIGTERM, for signals that arrive     *)
(* after every stage has been started.                                     *)
SignalEndsRun == (interrupted /\ Wired) ~> pc = "exited"
=============================================================================
