-------------------------- MODULE DispatcherProofs --------------------------
(***************************************************************************)
(* Theorems about Dispatcher: no child is left, the status is truthful,    *)
(* and status 0 means that every line was dealt with, for all capacities   *)
(* of pipes and buffers and any number of lines and signals.  The          *)
(* inductive invariant says where each loop of the dispatcher has come to, *)
(* who holds which pipe ends, and where each line is.                      *)
(***************************************************************************)
EXTENDS Dispatcher, TLAPS

Running == {"forked", "redirected", "closed"} \cup Applet
Bad == {"fail", "signal"}
Ended(s) == st[s] \in {"ending", "zombie", "reaped"}

USE DEF merge, parse, store, Stages, parent, OK, SETUP_ERROR, BAD_ARGS, CHILD_ERROR,
        INTERRUPTED, Died, None, dvars, stages, lines, Applet, Running, Bad, LastChild, Goto

Typed ==
  /\ pc \in {"parse", "install", "pipes", "spawn", "close", "check", "wait", "blocked",
            "kill", "reap", "exited"}
  /\ at \in Stages \cup {0}
  /\ pc \in {"spawn", "wait", "blocked", "kill", "reap"} => at \in Stages
  /\ rc \in {OK, SETUP_ERROR, BAD_ARGS, CHILD_ERROR, INTERRUPTED, Died}
  /\ exit = IF pc = "exited" THEN rc ELSE None
  /\ interrupted \in BOOLEAN /\ woken \in BOOLEAN /\ signals \in 0..MaxSignals
  /\ raw \in [Stages \cup {parent} -> SUBSET Ends]
  /\ st \in [Stages -> {"none", "zombie", "reaped"} \cup Running]
  /\ code \in [Stages -> {"none", "ok"} \cup Bad]

(* How far the loops over the children have come. *)
Children ==
  /\ pc \in {"parse", "install", "pipes"} => \A s \in Stages : st[s] = "none"
  /\ pc = "spawn" => \A s \in Stages : st[s] = "none" <=> s >= at
  /\ pc \in {"close", "check", "wait", "blocked"} => \A s \in Stages : st[s] # "none"
  /\ pc \in {"wait", "blocked"} => \A s \in Stages : s < at => st[s] = "reaped"
  /\ pc = "reap" => \A s \in Stages : s < at => st[s] \in {"none", "reaped"}
  /\ pc = "exited" => \A s \in Stages : st[s] \in {"none", "reaped"}

(* What the status so far rests on. *)
Statuses ==
  /\ \A s \in Stages : code[s] # "none" <=> Ended(s)
  /\ woken => interrupted
  /\ pc \in {"parse", "install", "pipes", "spawn", "close", "check"} => rc = OK
  /\ pc \in {"wait", "blocked"} => rc \in {OK, CHILD_ERROR}
  /\ pc \in {"wait", "blocked"} /\ rc = OK => \A s \in Stages : s < at => code[s] = "ok"
  /\ pc \in {"kill", "reap"} => rc \in {SETUP_ERROR, INTERRUPTED}
  /\ rc = CHILD_ERROR => \E s \in Stages : Dead(s) /\ code[s] \in Bad
  /\ rc = INTERRUPTED => interrupted
  /\ rc \in {SETUP_ERROR, BAD_ARGS} => \E s \in Stages : st[s] = "none"
  /\ pc = "exited" /\ rc = OK =>
       \/ \A s \in Stages : st[s] = "none"
       \/ \A s \in Stages : st[s] = "reaped" /\ code[s] = "ok"

(* Inherited pipe ends. *)
Descriptors ==
  /\ raw[parent] = IF pc \in {"spawn", "close"} THEN Ends ELSE {}
  /\ \A s \in Stages : raw[s] = IF st[s] \in {"forked", "redirected"} THEN Ends ELSE {}

(* Lines in the hands of the stages. *)
Hands ==
  /\ pipe \in [Pipes -> 0..PipeCap]
  /\ hand \in [Stages -> 0..BufLines]
  /\ made \in 0..MaxLines /\ dropped \in Nat /\ stored \in Nat
  /\ st[merge] # "ending" /\ st[store] \notin {"writing", "ending"}
  /\ hand[merge] = IF st[merge] = "writing" THEN 1 ELSE 0
  /\ hand[store] = 0
  /\ st[parse] \notin Applet => hand[parse] = 0
  /\ st[parse] = "running" => hand[parse] < BufLines
  /\ st[merge] = "none" => made = 0

(* Lines are lost only with a stage that fails or is killed. *)
Here == dropped + stored + pipe[1] + pipe[2] + hand[merge] + hand[parse]
Conserved ==
  /\ Here <= made
  /\ (\A s \in Stages : code[s] \notin Bad) => Here = made

(* A stage that ended well had seen the end of its input. *)
Eof ==
  /\ code[parse] = "ok" => pipe[1] = 0 /\ ~Open(<<1, "w">>)
  /\ code[store] = "ok" => pipe[2] = 0 /\ ~Open(<<2, "w">>)

Inv == Typed /\ Children /\ Statuses /\ Descriptors /\ Hands /\ Conserved /\ Eof

-----------------------------------------------------------------------------
(* A step of the dispatcher, a signal, or a step of a stage. *)
LEMMA StepCases ==
  ASSUME [Next]_vars
  PROVE  \/ Configure \/ InstallHandlers \/ CreatePipes \/ Fork \/ ForkFails \/ ClosePipes
         \/ CheckInterrupted \/ Wait \/ WaitReturns \/ WaitInterrupted \/ Kill \/ Reap
         \/ \E group \in BOOLEAN : Signal(group)
         \/ \E s \in Stages : Redirect(s) \/ CloseInherited(s) \/ Exec(s)
         \/ \E s \in {merge, parse} : WriteLine(s) \/ BrokenPipe(s)
         \/ PrintClip \/ MergeEnds \/ ParseLine \/ ParseInputEnds \/ ParseExits \/ ParseFails
         \/ StoreLine \/ StoreInputEnds \/ StoreFails
         \/ UNCHANGED vars
BY DEF Next, Setup, Spawn, WaitChildren, KillChildren, Child, Output, Parse, Store

(* Most steps of the dispatcher leave the stages alone. *)
LEMMA StageCases ==
  ASSUME [Next]_vars
  PROVE  \/ UNCHANGED stages \/ Fork \/ WaitReturns \/ Kill \/ Reap
         \/ \E group \in BOOLEAN : Signal(group)
         \/ \E s \in Stages : Redirect(s) \/ CloseInherited(s) \/ Exec(s)
         \/ \E s \in {merge, parse} : WriteLine(s) \/ BrokenPipe(s)
         \/ PrintClip \/ MergeEnds \/ ParseLine \/ ParseInputEnds \/ ParseExits \/ ParseFails
         \/ StoreLine \/ StoreInputEnds \/ StoreFails
BY StepCases DEF vars, Configure, InstallHandlers, CreatePipes, ForkFails, ClosePipes,
    CheckInterrupted, Wait, WaitInterrupted

(* The types of the dispatcher's and the stages' state. *)
LEMMA TypedStep ==
  ASSUME Typed, [Next]_vars
  PROVE  Typed'
<1>1. CASE Configure
  BY <1>1 DEF Configure, Return, Typed
<1>2. CASE InstallHandlers
  BY <1>2 DEF InstallHandlers, Return, Typed
<1>3. CASE CreatePipes
  BY <1>3 DEF CreatePipes, Return, Typed
<1>4. CASE Fork
  BY <1>4 DEF Fork, Typed
<1>5. CASE ForkFails
  BY <1>5 DEF ForkFails, Cleanup, Typed
<1>6. CASE ClosePipes
  BY <1>6 DEF ClosePipes, Typed
<1>7. CASE CheckInterrupted
  BY <1>7 DEF CheckInterrupted, Cleanup, Typed
<1>8. CASE Wait
  BY <1>8 DEF Wait, Typed
<1>9. CASE WaitReturns
  BY <1>9 DEF WaitReturns, Verdict, Typed
<1>10. CASE WaitInterrupted
  BY <1>10 DEF WaitInterrupted, Typed
<1>11. CASE Kill
  BY <1>11 DEF Kill, Exits, Executing, Typed
<1>12. CASE Reap
  BY <1>12 DEF Reap, HasPid, Typed
<1>13. ASSUME NEW group \in BOOLEAN, Signal(group)
      PROVE  Typed'
  <2>1. raw' \in [Stages \cup {parent} -> SUBSET Ends]
    <3>1. DOMAIN raw = Stages \cup {parent} /\ \A p \in Stages \cup {parent} : raw[p] \in SUBSET Ends
      BY DEF Typed
    <3>2. QED
      BY <1>13, <3>1 DEF Signal
  <2>2. st' \in [Stages -> {"none", "zombie", "reaped"} \cup Running]
    BY <1>13 DEF Signal, Typed
  <2>3. code' \in [Stages -> {"none", "ok"} \cup Bad]
    BY <1>13 DEF Signal, Typed
  <2>4. signals' \in 0..MaxSignals
    BY <1>13, DispatcherAssumption DEF Signal, Typed
  <2>5. /\ interrupted' \in BOOLEAN /\ woken' \in BOOLEAN
        /\ (pc' = pc /\ at' = at /\ rc' = rc /\ exit' = exit) \/ Return(Died)
    BY <1>13 DEF Signal, Typed
  <2>6. QED
    BY <2>1, <2>2, <2>3, <2>4, <2>5 DEF Return, Typed
<1>14. ASSUME NEW s \in Stages, Redirect(s)
      PROVE  Typed'
  BY <1>14 DEF Redirect, Exits, Typed
<1>15. ASSUME NEW s \in Stages, CloseInherited(s)
      PROVE  Typed'
  BY <1>15 DEF CloseInherited, Inherited, Typed
<1>16. ASSUME NEW s \in Stages, Exec(s)
      PROVE  Typed'
  BY <1>16 DEF Exec, Exits, Typed
<1>17. ASSUME NEW s \in {merge, parse}, WriteLine(s)
      PROVE  Typed'
  BY <1>17 DEF WriteLine, Typed
<1>18. ASSUME NEW s \in {merge, parse}, BrokenPipe(s)
      PROVE  Typed'
  BY <1>18 DEF BrokenPipe, Exits, Typed
<1>19. CASE PrintClip
  BY <1>19 DEF PrintClip, Typed
<1>20. CASE MergeEnds
  BY <1>20 DEF MergeEnds, Exits, Typed
<1>21. CASE ParseLine
  BY <1>21 DEF ParseLine, Typed
<1>22. CASE ParseInputEnds
  BY <1>22 DEF ParseInputEnds, Typed
<1>23. CASE ParseExits
  BY <1>23 DEF ParseExits, Exits, Typed
<1>24. CASE ParseFails
  BY <1>24 DEF ParseFails, Typed
<1>25. CASE StoreLine
  BY <1>25 DEF StoreLine, Typed
<1>26. CASE StoreInputEnds
  BY <1>26 DEF StoreInputEnds, Exits, Typed
<1>27. CASE StoreFails
  BY <1>27 DEF StoreFails, Exits, Typed
<1>28. CASE UNCHANGED vars
  BY <1>28 DEF vars, Typed
<1>29. QED
  BY <1>1, <1>2, <1>3, <1>4, <1>5, <1>6, <1>7, <1>8, <1>9, <1>10, <1>11, <1>12, <1>13, <1>14,
      <1>15, <1>16, <1>17, <1>18, <1>19, <1>20, <1>21, <1>22, <1>23, <1>24, <1>25, <1>26,
      <1>27, <1>28, StepCases

-----------------------------------------------------------------------------
(* What a step may do to the stages, other than to fork or reap one. *)
Frame ==
  \A s \in Stages :
    /\ st[s] \in {"none", "reaped", "zombie"} => st'[s] = st[s] /\ code'[s] = code[s]
    /\ st[s] \notin {"none", "reaped"} => st'[s] \notin {"none", "reaped"}
    /\ code'[s] # "none" <=> st'[s] \in {"ending", "zombie", "reaped"}
    /\ st'[s] \in {"forked", "redirected"} => st[s] \in {"forked", "redirected"}
    /\ st'[s] \in Redirecteds => st[s] \in Redirecteds \cup {"forked"}

(* The stages move on their own, and leave the dispatcher alone. *)
LEMMA StageFrame ==
  ASSUME Typed, Statuses,
         \/ \E s \in Stages : Redirect(s) \/ CloseInherited(s) \/ Exec(s)
         \/ \E s \in {merge, parse} : WriteLine(s) \/ BrokenPipe(s)
         \/ PrintClip \/ MergeEnds \/ ParseLine \/ ParseInputEnds \/ ParseExits \/ ParseFails
         \/ StoreLine \/ StoreInputEnds \/ StoreFails
  PROVE  Frame /\ UNCHANGED <<pc, at, rc, exit, interrupted, woken>>
<1>1. ASSUME NEW s \in Stages, Redirect(s)
      PROVE  Frame /\ UNCHANGED <<pc, at, rc, exit, interrupted, woken>>
  BY <1>1 DEF Redirect, Exits, Frame, Typed, Statuses, Ended, Redirecteds
<1>2. ASSUME NEW s \in Stages, CloseInherited(s)
      PROVE  Frame /\ UNCHANGED <<pc, at, rc, exit, interrupted, woken>>
  BY <1>2 DEF CloseInherited, Inherited, Frame, Typed, Statuses, Ended, Redirecteds
<1>3. ASSUME NEW s \in Stages, Exec(s)
      PROVE  Frame /\ UNCHANGED <<pc, at, rc, exit, interrupted, woken>>
  BY <1>3 DEF Exec, Exits, Frame, Typed, Statuses, Ended, Redirecteds
<1>4. ASSUME NEW s \in {merge, parse}, WriteLine(s)
      PROVE  Frame /\ UNCHANGED <<pc, at, rc, exit, interrupted, woken>>
  BY <1>4 DEF WriteLine, Frame, Typed, Statuses, Ended, Redirecteds
<1>5. ASSUME NEW s \in {merge, parse}, BrokenPipe(s)
      PROVE  Frame /\ UNCHANGED <<pc, at, rc, exit, interrupted, woken>>
  BY <1>5 DEF BrokenPipe, Exits, Frame, Typed, Statuses, Ended, Redirecteds
<1>6. CASE PrintClip
  BY <1>6 DEF PrintClip, Frame, Typed, Statuses, Ended, Redirecteds
<1>7. CASE MergeEnds
  BY <1>7 DEF MergeEnds, Exits, Frame, Typed, Statuses, Ended, Redirecteds
<1>8. CASE ParseLine
  BY <1>8 DEF ParseLine, Frame, Typed, Statuses, Ended, Redirecteds
<1>9. CASE ParseInputEnds
  BY <1>9 DEF ParseInputEnds, Frame, Typed, Statuses, Ended, Redirecteds
<1>10. CASE ParseExits
  BY <1>10 DEF ParseExits, Exits, Frame, Typed, Statuses, Ended, Redirecteds
<1>11. CASE ParseFails
  BY <1>11 DEF ParseFails, Frame, Typed, Statuses, Ended, Redirecteds
<1>12. CASE StoreLine
  BY <1>12 DEF StoreLine, Frame, Typed, Statuses, Ended, Redirecteds
<1>13. CASE StoreInputEnds
  BY <1>13 DEF StoreInputEnds, Exits, Frame, Typed, Statuses, Ended, Redirecteds
<1>14. CASE StoreFails
  BY <1>14 DEF StoreFails, Exits, Frame, Typed, Statuses, Ended, Redirecteds
<1>15. QED
  BY <1>1, <1>2, <1>3, <1>4, <1>5, <1>6, <1>7, <1>8, <1>9, <1>10, <1>11, <1>12, <1>13, <1>14

(* So do signals and kill. *)
LEMMA SignalFrame ==
  ASSUME Typed, Statuses, Kill \/ \E group \in BOOLEAN : Signal(group)
  PROVE  Frame
<1>1. CASE Kill
  BY <1>1 DEF Kill, Exits, Executing, Frame, Typed, Statuses, Ended, Redirecteds
<1>2. ASSUME NEW group \in BOOLEAN, Signal(group)
      PROVE  Frame
  BY <1>2 DEF Signal, Executing, Frame, Typed, Statuses, Ended, Redirecteds
<1>3. QED
  BY <1>1, <1>2

(* The loops over the children miss none. *)
LEMMA ChildrenStep ==
  ASSUME Typed, Children, Statuses, [Next]_vars
  PROVE  Children'
<1>1. CASE Configure
  BY <1>1 DEF Configure, Return, Children, Typed
<1>2. CASE InstallHandlers
  BY <1>2 DEF InstallHandlers, Return, Children, Typed
<1>3. CASE CreatePipes
  BY <1>3 DEF CreatePipes, Return, Children, Typed
<1>4. CASE Fork
  BY <1>4 DEF Fork, Children, Typed
<1>5. CASE ForkFails
  BY <1>5 DEF ForkFails, Cleanup, Children, Typed
<1>6. CASE ClosePipes
  BY <1>6 DEF ClosePipes, Children, Typed
<1>7. CASE CheckInterrupted
  BY <1>7 DEF CheckInterrupted, Cleanup, Children, Typed
<1>8. CASE Wait
  BY <1>8 DEF Wait, Children, Typed
<1>9. CASE WaitReturns
  BY <1>9 DEF WaitReturns, Verdict, Children, Typed
<1>10. CASE WaitInterrupted
  BY <1>10 DEF WaitInterrupted, Children, Typed
<1>11. CASE Kill
  BY <1>11, SignalFrame DEF Kill, Exits, Executing, Frame, Children, Typed
<1>12. CASE Reap
  BY <1>12 DEF Reap, HasPid, Children, Typed
<1>13. ASSUME NEW group \in BOOLEAN, Signal(group)
      PROVE  Children'
  BY <1>13, SignalFrame DEF Signal, Return, Executing, Frame, Children, Typed
<1>14. CASE Frame /\ UNCHANGED <<pc, at, rc, exit, interrupted, woken>>
  BY <1>14 DEF Frame, Children, Typed
<1>15. CASE UNCHANGED vars
  BY <1>15 DEF vars, Children, Typed
<1>16. QED
  BY <1>1, <1>2, <1>3, <1>4, <1>5, <1>6, <1>7, <1>8, <1>9, <1>10, <1>11, <1>12, <1>13, <1>14,
      <1>15, StepCases, StageFrame

(* The status is made of how the children ended. *)
LEMMA StatusesStep ==
  ASSUME Typed, Children, Statuses, [Next]_vars
  PROVE  Statuses'
<1>1. CASE Configure
  BY <1>1 DEF Configure, Return, Statuses, Children, Typed, Ended, Dead
<1>2. CASE InstallHandlers
  BY <1>2 DEF InstallHandlers, Return, Statuses, Children, Typed, Ended, Dead
<1>3. CASE CreatePipes
  BY <1>3 DEF CreatePipes, Return, Statuses, Children, Typed, Ended, Dead
<1>4. CASE Fork
  BY <1>4 DEF Fork, Statuses, Children, Typed, Ended, Dead
<1>5. CASE ForkFails
  BY <1>5 DEF ForkFails, Cleanup, Statuses, Children, Typed, Ended, Dead
<1>6. CASE ClosePipes
  BY <1>6 DEF ClosePipes, Statuses, Children, Typed, Ended, Dead
<1>7. CASE CheckInterrupted
  BY <1>7 DEF CheckInterrupted, Cleanup, Statuses, Children, Typed, Ended, Dead
<1>8. CASE Wait
  BY <1>8 DEF Wait, Statuses, Children, Typed, Ended, Dead
<1>9. CASE WaitReturns
  BY <1>9 DEF WaitReturns, Verdict, Statuses, Children, Typed, Ended, Dead
<1>10. CASE WaitInterrupted
  BY <1>10 DEF WaitInterrupted, Statuses, Children, Typed, Ended, Dead
<1>11. CASE Kill
  BY <1>11, SignalFrame DEF Kill, Exits, Executing, Frame, Statuses, Children, Typed, Ended,
      Dead
<1>12. CASE Reap
  BY <1>12 DEF Reap, HasPid, Statuses, Children, Typed, Ended, Dead
<1>13. ASSUME NEW group \in BOOLEAN, Signal(group)
      PROVE  Statuses'
  <2>1. Frame
    BY <1>13, SignalFrame
  <2>2. CASE pc \in {"parse", "install"}
    BY <1>13, <2>1, <2>2 DEF Signal, Return, Frame, Statuses, Children, Ended, Dead
  <2>3. CASE pc \notin {"parse", "install"}
    <3>1. pc' = pc /\ at' = at /\ rc' = rc /\ interrupted' = TRUE /\ pc # "exited"
      BY <1>13, <2>3 DEF Signal
    <3>2. QED
      BY <2>1, <3>1 DEF Frame, Statuses, Children, Typed, Ended, Dead
  <2>4. QED
    BY <2>2, <2>3
<1>14. CASE Frame /\ UNCHANGED <<pc, at, rc, exit, interrupted, woken>>
  BY <1>14 DEF Frame, Statuses, Children, Typed, Ended, Dead
<1>15. CASE UNCHANGED vars
  BY <1>15 DEF vars, Statuses, Children, Typed, Ended, Dead
<1>16. QED
  BY <1>1, <1>2, <1>3, <1>4, <1>5, <1>6, <1>7, <1>8, <1>9, <1>10, <1>11, <1>12, <1>13, <1>14,
      <1>15, StepCases, StageFrame

-----------------------------------------------------------------------------
(* Pipe ends are inherited by fork and given up before exec. *)
LEMMA DescriptorsStep ==
  ASSUME Typed, Children, Descriptors, [Next]_vars
  PROVE  Descriptors'
<1>1. CASE Configure
  BY <1>1 DEF Configure, Return, Descriptors, Typed, Children
<1>2. CASE InstallHandlers
  BY <1>2 DEF InstallHandlers, Return, Descriptors, Typed, Children
<1>3. CASE CreatePipes
  BY <1>3 DEF CreatePipes, Return, Descriptors, Typed, Children
<1>4. CASE Fork
  BY <1>4 DEF Fork, Descriptors, Typed, Children
<1>5. CASE ForkFails
  BY <1>5 DEF ForkFails, Cleanup, Descriptors, Typed, Children
<1>6. CASE ClosePipes
  BY <1>6 DEF ClosePipes, Descriptors, Typed, Children
<1>7. CASE CheckInterrupted
  BY <1>7 DEF CheckInterrupted, Cleanup, Descriptors, Typed, Children
<1>8. CASE Wait
  BY <1>8 DEF Wait, Descriptors, Typed, Children
<1>9. CASE WaitReturns
  BY <1>9 DEF WaitReturns, Verdict, Descriptors, Typed, Children
<1>10. CASE WaitInterrupted
  BY <1>10 DEF WaitInterrupted, Descriptors, Typed, Children
<1>11. CASE Kill
  BY <1>11 DEF Kill, Exits, Executing, Descriptors, Typed, Children
<1>12. CASE Reap
  BY <1>12 DEF Reap, HasPid, Descriptors, Typed, Children
<1>13. ASSUME NEW group \in BOOLEAN, Signal(group)
      PROVE  Descriptors'
  BY <1>13 DEF Signal, Return, Executing, Descriptors, Typed
<1>14. ASSUME NEW s \in Stages, Redirect(s)
      PROVE  Descriptors'
  BY <1>14 DEF Redirect, Exits, Descriptors, Typed
<1>15. ASSUME NEW s \in Stages, CloseInherited(s)
      PROVE  Descriptors'
  BY <1>15 DEF CloseInherited, Inherited, Descriptors, Typed
<1>16. ASSUME NEW s \in Stages, Exec(s)
      PROVE  Descriptors'
  BY <1>16 DEF Exec, Exits, Descriptors, Typed
<1>17. ASSUME NEW s \in {merge, parse}, WriteLine(s)
      PROVE  Descriptors'
  BY <1>17 DEF WriteLine, Descriptors, Typed
<1>18. ASSUME NEW s \in {merge, parse}, BrokenPipe(s)
      PROVE  Descriptors'
  BY <1>18 DEF BrokenPipe, Exits, Descriptors, Typed
<1>19. CASE PrintClip
  BY <1>19 DEF PrintClip, Descriptors, Typed
<1>20. CASE MergeEnds
  BY <1>20 DEF MergeEnds, Exits, Descriptors, Typed
<1>21. CASE ParseLine
  BY <1>21 DEF ParseLine, Descriptors, Typed
<1>22. CASE ParseInputEnds
  BY <1>22 DEF ParseInputEnds, Descriptors, Typed
<1>23. CASE ParseExits
  BY <1>23 DEF ParseExits, Exits, Descriptors, Typed
<1>24. CASE ParseFails
  BY <1>24 DEF ParseFails, Descriptors, Typed
<1>25. CASE StoreLine
  BY <1>25 DEF StoreLine, Descriptors, Typed
<1>26. CASE StoreInputEnds
  BY <1>26 DEF StoreInputEnds, Exits, Descriptors, Typed
<1>27. CASE StoreFails
  BY <1>27 DEF StoreFails, Exits, Descriptors, Typed
<1>28. CASE UNCHANGED vars
  BY <1>28 DEF vars, Descriptors
<1>29. QED
  BY <1>1, <1>2, <1>3, <1>4, <1>5, <1>6, <1>7, <1>8, <1>9, <1>10, <1>11, <1>12, <1>13, <1>14,
      <1>15, <1>16, <1>17, <1>18, <1>19, <1>20, <1>21, <1>22, <1>23, <1>24, <1>25, <1>26,
      <1>27, <1>28, StepCases

(* The lines in each place. *)
LEMMA HandsStep ==
  ASSUME Typed, Children, Hands, [Next]_vars
  PROVE  Hands'
<1>1. CASE Fork
  BY <1>1, DispatcherAssumption DEF Fork, Hands, Typed, Pipes, Children
<1>2. CASE WaitReturns
  BY <1>2, DispatcherAssumption DEF WaitReturns, Verdict, Hands, Typed, Pipes
<1>3. CASE Kill
  BY <1>3, DispatcherAssumption DEF Kill, Exits, Executing, Hands, Typed, Pipes
<1>4. CASE Reap
  BY <1>4, DispatcherAssumption DEF Reap, HasPid, Hands, Typed, Pipes
<1>5. ASSUME NEW group \in BOOLEAN, Signal(group)
      PROVE  Hands'
  BY <1>5, DispatcherAssumption DEF Signal, Return, Executing, Hands, Typed, Pipes
<1>6. ASSUME NEW s \in Stages, Redirect(s)
      PROVE  Hands'
  BY <1>6, DispatcherAssumption DEF Redirect, Exits, Hands, Typed, Pipes
<1>7. ASSUME NEW s \in Stages, CloseInherited(s)
      PROVE  Hands'
  BY <1>7, DispatcherAssumption DEF CloseInherited, Inherited, Hands, Typed, Pipes
<1>8. ASSUME NEW s \in Stages, Exec(s)
      PROVE  Hands'
  BY <1>8, DispatcherAssumption DEF Exec, Exits, Hands, Typed, Pipes
<1>9. ASSUME NEW s \in {merge, parse}, WriteLine(s)
      PROVE  Hands'
  BY <1>9, DispatcherAssumption DEF WriteLine, Hands, Typed, Pipes
<1>10. ASSUME NEW s \in {merge, parse}, BrokenPipe(s)
      PROVE  Hands'
  BY <1>10, DispatcherAssumption DEF BrokenPipe, Exits, Hands, Typed, Pipes
<1>11. CASE PrintClip
  BY <1>11, DispatcherAssumption DEF PrintClip, Hands, Typed, Pipes
<1>12. CASE MergeEnds
  BY <1>12, DispatcherAssumption DEF MergeEnds, Exits, Hands, Typed, Pipes
<1>13. CASE ParseLine
  BY <1>13, DispatcherAssumption DEF ParseLine, Hands, Typed, Pipes
<1>14. CASE ParseInputEnds
  BY <1>14, DispatcherAssumption DEF ParseInputEnds, Hands, Typed, Pipes
<1>15. CASE ParseExits
  BY <1>15, DispatcherAssumption DEF ParseExits, Exits, Hands, Typed, Pipes
<1>16. CASE ParseFails
  BY <1>16, DispatcherAssumption DEF ParseFails, Hands, Typed, Pipes
<1>17. CASE StoreLine
  BY <1>17, DispatcherAssumption DEF StoreLine, Hands, Typed, Pipes
<1>18. CASE StoreInputEnds
  BY <1>18, DispatcherAssumption DEF StoreInputEnds, Exits, Hands, Typed, Pipes
<1>19. CASE StoreFails
  BY <1>19, DispatcherAssumption DEF StoreFails, Exits, Hands, Typed, Pipes
<1>20. CASE UNCHANGED stages
  BY <1>20 DEF Hands
<1>21. QED
  BY <1>1, <1>2, <1>3, <1>4, <1>5, <1>6, <1>7, <1>8, <1>9, <1>10, <1>11, <1>12, <1>13, <1>14,
      <1>15, <1>16, <1>17, <1>18, <1>19, <1>20, StageCases

(* A line leaves one place for another. *)
LEMMA ConservedStep ==
  ASSUME Typed, Statuses, Hands, Conserved, [Next]_vars
  PROVE  Conserved'
<1>1. CASE Fork
  BY <1>1 DEF Fork, Conserved, Here, Hands, Typed, Pipes
<1>2. CASE WaitReturns
  BY <1>2 DEF WaitReturns, Verdict, Conserved, Here, Hands, Typed, Pipes
<1>3. CASE Kill
  BY <1>3 DEF Kill, Exits, Executing, Conserved, Here, Hands, Typed, Pipes, Statuses, Ended
<1>4. CASE Reap
  BY <1>4 DEF Reap, HasPid, Conserved, Here, Hands, Typed, Pipes
<1>5. ASSUME NEW group \in BOOLEAN, Signal(group)
      PROVE  Conserved'
  BY <1>5 DEF Signal, Return, Executing, Conserved, Here, Hands, Typed, Pipes, Statuses,
      Ended
<1>6. ASSUME NEW s \in Stages, Redirect(s)
      PROVE  Conserved'
  BY <1>6 DEF Redirect, Exits, Conserved, Here, Hands, Typed, Pipes, Statuses, Ended
<1>7. ASSUME NEW s \in Stages, CloseInherited(s)
      PROVE  Conserved'
  BY <1>7 DEF CloseInherited, Inherited, Conserved, Here, Hands, Typed, Pipes
<1>8. ASSUME NEW s \in Stages, Exec(s)
      PROVE  Conserved'
  BY <1>8 DEF Exec, Exits, Conserved, Here, Hands, Typed, Pipes, Statuses, Ended
<1>9. ASSUME NEW s \in {merge, parse}, WriteLine(s)
      PROVE  Conserved'
  BY <1>9 DEF WriteLine, Conserved, Here, Hands, Typed, Pipes
<1>10. ASSUME NEW s \in {merge, parse}, BrokenPipe(s)
      PROVE  Conserved'
  BY <1>10 DEF BrokenPipe, Exits, Conserved, Here, Hands, Typed, Pipes, Statuses, Ended
<1>11. CASE PrintClip
  BY <1>11 DEF PrintClip, Conserved, Here, Hands, Typed, Pipes
<1>12. CASE MergeEnds
  BY <1>12 DEF MergeEnds, Exits, Conserved, Here, Hands, Typed, Pipes, Statuses, Ended
<1>13. CASE ParseLine
  BY <1>13 DEF ParseLine, Conserved, Here, Hands, Typed, Pipes
<1>14. CASE ParseInputEnds
  BY <1>14 DEF ParseInputEnds, Conserved, Here, Hands, Typed, Pipes, Statuses, Ended
<1>15. CASE ParseExits
  BY <1>15 DEF ParseExits, Exits, Conserved, Here, Hands, Typed, Pipes, Statuses, Ended
<1>16. CASE ParseFails
  BY <1>16 DEF ParseFails, Conserved, Here, Hands, Typed, Pipes, Statuses, Ended
<1>17. CASE StoreLine
  BY <1>17 DEF StoreLine, Conserved, Here, Hands, Typed, Pipes
<1>18. CASE StoreInputEnds
  BY <1>18 DEF StoreInputEnds, Exits, Conserved, Here, Hands, Typed, Pipes, Statuses, Ended
<1>19. CASE StoreFails
  BY <1>19 DEF StoreFails, Exits, Conserved, Here, Hands, Typed, Pipes, Statuses, Ended
<1>20. CASE UNCHANGED stages
  BY <1>20 DEF Conserved, Here
<1>21. QED
  BY <1>1, <1>2, <1>3, <1>4, <1>5, <1>6, <1>7, <1>8, <1>9, <1>10, <1>11, <1>12, <1>13, <1>14,
      <1>15, <1>16, <1>17, <1>18, <1>19, <1>20, StageCases

-----------------------------------------------------------------------------
(* Who may hold an end of a pipe. *)
Held(end) ==
  \/ pc \in {"spawn", "close"}
  \/ \E s \in Stages : st[s] \in {"forked", "redirected"}
  \/ \E s \in Stages : st[s] \in Redirecteds /\ end \in StdEnds(s)

(* The descriptors of the invariant are the ends that are open. *)
LEMMA OpenIsHeld ==
  ASSUME Typed, Descriptors, NEW end \in Ends
  PROVE  Open(end) <=> Held(end)
<1>1. ASSUME NEW p \in Stages \cup {parent}, end \in EndsOf(p)
      PROVE  Held(end)
  BY <1>1 DEF EndsOf, Held, Descriptors
<1>2. CASE pc \in {"spawn", "close"}
  BY <1>2 DEF Open, EndsOf, Descriptors, Held
<1>3. ASSUME NEW s \in Stages, st[s] \in {"forked", "redirected"}
      PROVE  Open(end)
  BY <1>3 DEF Open, EndsOf, Descriptors
<1>4. ASSUME NEW s \in Stages, st[s] \in Redirecteds, end \in StdEnds(s)
      PROVE  Open(end)
  BY <1>4 DEF Open, EndsOf
<1>5. QED
  BY <1>1, <1>2, <1>3, <1>4 DEF Open, Held

(* After pipe(), an end that nobody holds stays closed. *)
LEMMA StaysClosed ==
  ASSUME Typed, Children, Statuses, Descriptors, [Next]_vars, NEW end \in Ends, pc # "pipes",
         ~Open(end)
  PROVE  ~Open(end)'
<1>1. ~Held(end)
  BY OpenIsHeld
<1>2. ~Held(end)'
  <2>1. CASE Frame /\ UNCHANGED <<pc, at, rc, exit, interrupted, woken>>
    BY <1>1, <2>1 DEF Held, Frame, StdEnds
  <2>2. CASE Kill
    BY <1>1, <2>2, SignalFrame DEF Kill, Held, Frame, StdEnds
  <2>3. ASSUME NEW group \in BOOLEAN, Signal(group)
        PROVE  ~Held(end)'
    BY <1>1, <2>3, SignalFrame DEF Signal, Return, Held, Frame, StdEnds
  <2>4. CASE UNCHANGED <<st, pc>>
    BY <1>1, <2>4 DEF Held, StdEnds
  <2>5. CASE UNCHANGED st /\ pc' \notin {"spawn", "close"}
    BY <1>1, <2>5 DEF Held, StdEnds
  <2>6. CASE WaitReturns \/ Reap
    BY <1>1, <2>6 DEF WaitReturns, Reap, HasPid, Held, StdEnds, Redirecteds, Typed
  <2>7. CASE Fork
    BY <1>1, <2>7 DEF Fork, Held
  <2>8. QED
    BY <2>1, <2>2, <2>3, <2>4, <2>5, <2>6, <2>7, StepCases, StageFrame
    DEF vars, Configure, InstallHandlers, CreatePipes, ForkFails, ClosePipes, CheckInterrupted,
        Wait, WaitInterrupted, Return, Cleanup
<1>3. Typed' /\ Descriptors'
  BY TypedStep, DescriptorsStep
<1>4. QED
  BY <1>2, <1>3, OpenIsHeld DEF Held, Open, EndsOf, StdEnds, Typed, Descriptors

(* No line enters a pipe whose write end nobody holds. *)
LEMMA EmptyStaysEmpty ==
  ASSUME Typed, Hands, [Next]_vars, NEW i \in Pipes, pipe[i] = 0, ~Open(<<i, "w">>)
  PROVE  pipe'[i] = 0
<1>1. ASSUME NEW s \in {merge, parse}, WriteLine(s)
      PROVE  pipe'[i] = 0
  <2>1. st[s] \in Redirecteds
    BY <1>1 DEF WriteLine, Redirecteds
  <2>2. <<s, "w">> \in EndsOf(s)
    BY <2>1 DEF EndsOf, StdEnds, Ends, Pipes
  <2>3. Open(<<s, "w">>)
    BY <2>2 DEF Open
  <2>4. s # i
    BY <2>3
  <2>5. QED
    BY <1>1, <2>4 DEF WriteLine, Hands
<1>2. CASE UNCHANGED pipe
  BY <1>2
<1>3. CASE ParseLine
  BY <1>3 DEF ParseLine, Hands, Pipes
<1>4. CASE StoreLine
  BY <1>4 DEF StoreLine, Hands, Pipes
<1>5. QED
  BY <1>1, <1>2, <1>3, <1>4, StageCases
  DEF Fork, WaitReturns, Kill, Reap, Signal, Redirect, CloseInherited, Exec, BrokenPipe,
      PrintClip, MergeEnds, ParseInputEnds, ParseExits, ParseFails, StoreInputEnds, StoreFails

(* A stage comes to end well only at the end of its input. *)
LEMMA EndsWell ==
  ASSUME Typed, [Next]_vars
  PROVE  /\ code'[parse] = "ok" => code[parse] = "ok" \/ (pipe[1] = 0 /\ ~Open(<<1, "w">>))
         /\ code'[store] = "ok" => code[store] = "ok" \/ (pipe[2] = 0 /\ ~Open(<<2, "w">>))
<1>1. CASE ParseInputEnds \/ ParseExits \/ ParseFails
  BY <1>1 DEF ParseInputEnds, ParseExits, ParseFails, Exits, Typed
<1>2. CASE StoreInputEnds \/ StoreFails \/ MergeEnds \/ Kill
  BY <1>2 DEF StoreInputEnds, StoreFails, MergeEnds, Kill, Exits, Typed
<1>3. ASSUME NEW s \in Stages, Redirect(s) \/ Exec(s) \/ BrokenPipe(s)
      PROVE  \A t \in Stages : code'[t] = "ok" => code[t] = "ok"
  BY <1>3 DEF Redirect, Exec, BrokenPipe, Exits, Typed
<1>4. ASSUME NEW group \in BOOLEAN, Signal(group)
      PROVE  \A t \in Stages : code'[t] = "ok" => code[t] = "ok"
  BY <1>4 DEF Signal
<1>5. CASE UNCHANGED code
  BY <1>5
<1>6. QED
  BY <1>1, <1>2, <1>3, <1>4, <1>5, StageCases
  DEF Fork, WaitReturns, Reap, CloseInherited, WriteLine, PrintClip, ParseLine, StoreLine

(* The end of input is final: whoever saw it saw all there was to read. *)
LEMMA EofStep ==
  ASSUME Typed, Children, Statuses, Descriptors, Hands, Eof, [Next]_vars
  PROVE  Eof'
<1>1. CASE pc = "pipes"
  <2>1. \A s \in Stages : code[s] = "none"
    BY <1>1 DEF Children, Statuses, Ended, Typed
  <2>2. \A s \in Stages : code'[s] # "ok"
    BY <1>1, <2>1, StatusesStep, StepCases
    DEF Children, Configure, InstallHandlers, CreatePipes, Fork, ForkFails, ClosePipes,
        CheckInterrupted, Wait, WaitReturns, WaitInterrupted, Kill, Reap, Signal, Redirect,
        CloseInherited, Exec, WriteLine, BrokenPipe, PrintClip, MergeEnds, ParseLine,
        ParseInputEnds, ParseExits, ParseFails, StoreLine, StoreInputEnds, StoreFails,
        Executing, vars
  <2>3. QED
    BY <2>2 DEF Eof
<1>2. CASE pc # "pipes"
  <2>1. <<1, "w">> \in Ends /\ <<2, "w">> \in Ends /\ Pipes = {1, 2}
    BY DEF Ends, Pipes
  <2>2. code'[parse] = "ok" => pipe[1] = 0 /\ ~Open(<<1, "w">>)
    BY EndsWell DEF Eof
  <2>3. code'[store] = "ok" => pipe[2] = 0 /\ ~Open(<<2, "w">>)
    BY EndsWell DEF Eof
  <2>4. code'[parse] = "ok" => pipe'[1] = 0 /\ ~Open(<<1, "w">>)'
    BY <1>2, <2>1, <2>2, EmptyStaysEmpty, StaysClosed
  <2>5. code'[store] = "ok" => pipe'[2] = 0 /\ ~Open(<<2, "w">>)'
    BY <1>2, <2>1, <2>3, EmptyStaysEmpty, StaysClosed
  <2>6. QED
    BY <2>4, <2>5 DEF Eof, Open, EndsOf, StdEnds
<1>3. QED
  BY <1>1, <1>2

-----------------------------------------------------------------------------
(* The invariant holds of the dispatcher as it starts. *)
LEMMA InitInv ==
  ASSUME Init
  PROVE  Inv
<1>1. Typed /\ Children /\ Statuses /\ Descriptors
  <2>1. Typed
    <3>1. raw \in [Stages \cup {parent} -> SUBSET Ends]
      BY DEF Init
    <3>2. st \in [Stages -> {"none", "zombie", "reaped"} \cup Running]
      BY DEF Init
    <3>3. code \in [Stages -> {"none", "ok"} \cup Bad]
      BY DEF Init
    <3>4. signals \in 0..MaxSignals
      BY DispatcherAssumption DEF Init
    <3>5. QED
      BY <3>1, <3>2, <3>3, <3>4 DEF Init, Typed
  <2>2. Children
    BY DEF Init, Children
  <2>3. Statuses
    BY DEF Init, Statuses, Ended, Dead
  <2>4. Descriptors
    BY DEF Init, Descriptors
  <2>5. QED
    BY <2>1, <2>2, <2>3, <2>4
<1>2. Hands /\ Conserved
  BY DispatcherAssumption DEF Init, Hands, Conserved, Here, Pipes
<1>3. Eof
  BY DEF Init, Eof
<1>4. QED
  BY <1>1, <1>2, <1>3 DEF Inv

(* Every step, of whichever process, preserves the invariant. *)
LEMMA NextInv ==
  ASSUME Inv, [Next]_vars
  PROVE  Inv'
BY TypedStep, ChildrenStep, StatusesStep, DescriptorsStep, HandsStep, ConservedStep, EofStep
   DEF Inv

(* The invariant of pipeline_dispatcher with its three children. *)
THEOREM DispatcherInvariant == Spec => []Inv
<1>1. Init => Inv
  BY InitInv
<1>2. Inv /\ [Next]_vars => Inv'
  BY NextInv
<1>3. QED
  BY <1>1, <1>2, PTL DEF Spec

(* Type correctness of the dispatcher, its children, the pipes and the     *)
(* counts of lines, which never exceed what stream_merge printed.          *)
THEOREM DispatcherTypes == Spec => []DispatcherTypeOK
<1>1. Inv => DispatcherTypeOK
  <2>1. Inv => Typed /\ Hands /\ Conserved
    BY DEF Inv
  <2>2. Hands /\ Conserved => dropped \in 0..MaxLines /\ stored \in 0..MaxLines
    BY DispatcherAssumption DEF Hands, Conserved, Here, Pipes
  <2>3. QED
    BY <2>1, <2>2 DEF Typed, Hands, DispatcherTypeOK
<1>2. QED
  BY <1>1, DispatcherInvariant, PTL

(* pd_pipeline.c: whichever way the dispatcher returns, each child it      *)
(* started has ended and has been waited for.                              *)
THEOREM NoChildIsLeft == Spec => []NoChildLeft
<1>1. Inv => NoChildLeft
  BY DEF Inv, Children, NoChildLeft
<1>2. QED
  BY <1>1, DispatcherInvariant, PTL

(* pd_exit.h: the status the dispatcher returns says how its children      *)
(* ended.                                                                  *)
THEOREM ExitCodeTruthful == Spec => []ExitCodeIsTruthful
<1>1. Inv => ExitCodeIsTruthful
  BY DEF Inv, Typed, Statuses, Dead, ExitCodeIsTruthful
<1>2. QED
  BY <1>1, DispatcherInvariant, PTL

(* Status 0 means that every line stream_merge printed was refused by the  *)
(* filter or taken by clip_store, for pipes and buffers of any size.       *)
THEOREM OkDelivers == Spec => []OkMeansDelivered
<1>1. ASSUME Inv, exit = OK
      PROVE  made = dropped + stored
  <2>1. Typed /\ Statuses /\ Hands /\ Conserved /\ Eof
    BY <1>1 DEF Inv
  <2>2. pc = "exited" /\ rc = OK
    BY <1>1, <2>1 DEF Typed
  <2>3. CASE \A s \in Stages : st[s] = "none"
    BY <2>1, <2>3 DEF Hands, Conserved, Here, Pipes
  <2>4. CASE \A s \in Stages : st[s] = "reaped" /\ code[s] = "ok"
    BY <2>1, <2>4 DEF Hands, Conserved, Here, Eof
  <2>5. QED
    BY <2>1, <2>2, <2>3, <2>4 DEF Statuses
<1>2. Inv => OkMeansDelivered
  BY <1>1 DEF OkMeansDelivered
<1>3. QED
  BY <1>2, DispatcherInvariant, PTL
=============================================================================
