----------------------------- MODULE ClipStore ------------------------------
(***************************************************************************)
(* clip_store invocations sharing one database path (applets/clip_store):  *)
(* open, flock, the command, fclose.  The database is an append-only file  *)
(* of rows behind a path that compaction re-points with rename; a process  *)
(* holds the inode it opened, whatever the path names by then.             *)
(*                                                                         *)
(* One action is one system call, or one use of the stdio buffer, and the  *)
(* code up to the next; processes, their deaths and time interleave.       *)
(* append_db_row seeks to the end of the file, which writes out a row      *)
(* still buffered, and leaves the new row in the buffer until the next     *)
(* seek or fclose.  Rows in a file stand for lines of equal length, and a  *)
(* row is written by one write(2).                                         *)
(***************************************************************************)
EXTENDS Naturals, Sequences, FiniteSets, SequencesExt

CONSTANTS
  Procs,         (* processes; each runs one invocation after another       *)
  Keys,          (* session_id:ts keys                                      *)
  Ttls,          (* values of --ttl, 0 for none                             *)
  Queries,       (* the keys a --get, --prefix or --list asks for           *)
  GcAlone,       (* --compact is run only when no other invocation is       *)
  DiskMayFill,   (* writing out the buffer may fail half way                *)
  None,          (* no file, no inode, no row                               *)
  MaxRuns,       (* bound: invocations                                      *)
  MaxRows,       (* bound: rows submitted while stdin still delivers        *)
  MaxNow         (* bound: the clock                                        *)

ASSUME ClipStoreAssumption ==
  /\ IsFiniteSet(Procs) /\ IsFiniteSet(Keys)
  /\ Ttls \subseteq Nat /\ Queries \subseteq SUBSET Keys
  /\ GcAlone \in BOOLEAN /\ DiskMayFill \in BOOLEAN
  /\ MaxRuns \in Nat /\ MaxRows \in Nat /\ MaxNow \in Nat

VARIABLES
  db,       (* the inode the database path names, or None                   *)
  tmp,      (* the inode the .tmp path names, or None                       *)
  file,     (* contents of each inode                                       *)
  owner,    (* who holds the flock of each inode, or None                   *)
  proc,     (* the processes                                                *)
  now,      (* time(NULL)                                                   *)
  serial,   (* rows submitted so far                                        *)
  runs,     (* invocations so far                                           *)
  acked     (* history: rows of invocations that ended with status 0, until  *)
            (* another row of the key is written to the database            *)

vars == <<db, tmp, file, owner, proc, now, serial, runs, acked>>
env == <<now, serial, runs, acked>>

-----------------------------------------------------------------------------
(* Two processes can hold one inode each and one temporary file each, next *)
(* to the ones the paths name.                                             *)
Inodes == 1..(2 * Cardinality(Procs) + 1)

(* row_t: an empty value is a tombstone; id tells the rows of a history apart. *)
Rows == [key : Keys, tomb : BOOLEAN, exp : Nat, id : Nat \ {0}]

ASSUME NoneAssumption == None \notin Inodes \cup Rows \cup Procs

(* What a line can be: a row, the start of a row, or a line that does not parse. *)
Torn == [torn |-> TRUE]
Junk == [junk |-> TRUE]
Lines == Rows \cup {Torn, Junk}

Commands ==
  [mode : {"append"}, keys : {Keys}, ttl : Ttls]
    \cup [mode : {"set"}, keys : {{k} : k \in Keys}, ttl : Ttls]
    \cup [mode : {"delete"}, keys : {{k} : k \in Keys}, ttl : {0}]
    \cup [mode : {"query"}, keys : Queries, ttl : {0}]
    \cup [mode : {"compact"}, keys : {{}}, ttl : {0}]

(* db_query.c: load_latest_rows, later rows win; row_is_live. *)
Parses(line) == line \in Rows
LatestIn(lines, k) ==
  LET at == {i \in 1..Len(lines) : Parses(lines[i]) /\ lines[i].key = k}
  IN IF at = {} THEN None ELSE lines[CHOOSE i \in at : \A j \in at : j <= i]

Expired(row, t) == row.exp # 0 /\ row.exp <= t

(* Mutant of RowIsLive: tombstones are rows like any other. *)
RowIsUnexpired(row, t) == row # None /\ ~Expired(row, t)

RowIsLive(row, t) == row # None /\ ~row.tomb /\ ~Expired(row, t)

LiveRows(lines, keys, t) ==
  {LatestIn(lines, k) : k \in {j \in keys : RowIsLive(LatestIn(lines, j), t)}}

EndsTorn(lines) == IF lines = <<>> THEN FALSE ELSE Last(lines) = Torn

(* write(2) at position pos.  A row that follows a torn one shares its     *)
(* line, which then does not parse.                                        *)
WriteAt(lines, pos, row) ==
  IF pos > 0 /\ lines[pos] = Torn
  THEN SubSeq(lines, 1, pos - 1) \o <<Junk>> \o SubSeq(lines, pos + 1, Len(lines))
  ELSE SubSeq(lines, 1, pos) \o <<row>> \o SubSeq(lines, pos + 2, Len(lines))

-----------------------------------------------------------------------------
Idle == [pc |-> "idle", cmd |-> None, fd |-> None, tmpFd |-> None, t |-> 0,
         buf |-> None, pos |-> 0, live |-> {}, mine |-> {},
         out |-> {}, rc |-> 0]

Init ==
  /\ db = None /\ tmp = None
  /\ file = [i \in Inodes |-> <<>>]
  /\ owner = [i \in Inodes |-> None]
  /\ proc = [p \in Procs |-> Idle]
  /\ now = 0 /\ serial = 0 /\ runs = 0
  /\ acked = {}

At(p, l) == proc[p].pc = l
Running(p) == ~At(p, "idle")
InUse == {db, tmp} \cup {proc[p].fd : p \in Procs} \cup {proc[p].tmpFd : p \in Procs}
Fresh == CHOOSE i \in Inodes : i \notin InUse

(* The invocation is one of those that --compact must be kept apart from. *)
MayStart(cmd) ==
  GcAlone =>
    /\ cmd.mode = "compact" => \A q \in Procs : ~Running(q)
    /\ \A q \in Procs : Running(q) => proc[q].cmd.mode # "compact"

(* open(db, O_RDWR | O_CREAT).  An open that fails is no action: the       *)
(* invocation ends with status 1 before it has touched anything.           *)
Open(p, cmd) ==
  /\ At(p, "idle") /\ runs < MaxRuns
  /\ MayStart(cmd)
  /\ LET ino == IF db = None THEN Fresh ELSE db
     IN /\ proc' = [proc EXCEPT ![p] = [Idle EXCEPT !.pc = "lock", !.cmd = cmd, !.fd = ino]]
        /\ db' = ino
        /\ file' = IF db = None THEN [file EXCEPT ![ino] = <<>>] ELSE file
  /\ runs' = runs + 1
  /\ UNCHANGED <<tmp, owner, now, serial, acked>>

Expiry(ttl, t) == IF ttl = 0 THEN 0 ELSE t + ttl

Entered(p) == proc' = [proc EXCEPT ![p].pc = proc[p].cmd.mode, ![p].t = now]

(* Mutant of Lock: a shared lock. *)
LockShared(p) ==
  /\ At(p, "lock")
  /\ Entered(p)
  /\ UNCHANGED <<db, tmp, file, owner, env>>

(* flock(LOCK_EX), then time(NULL). *)
Lock(p) ==
  /\ At(p, "lock")
  /\ owner[proc[p].fd] = None
  /\ owner' = [owner EXCEPT ![proc[p].fd] = p]
  /\ Entered(p)
  /\ UNCHANGED <<db, tmp, file, env>>

-----------------------------------------------------------------------------
(* --get, --prefix and --list: what is printed are the live rows. *)
Query(p) ==
  /\ At(p, "query")
  /\ proc' = [proc EXCEPT ![p].pc = "flush",
                          ![p].out = LiveRows(file[proc[p].fd], proc[p].cmd.keys, proc[p].t)]
  /\ UNCHANGED <<db, tmp, file, owner, env>>

(* Writing out the buffer, at the position the last seek left. *)
WriteOut(p) ==
  IF proc[p].buf = None THEN UNCHANGED <<file, acked>>
  ELSE LET row == proc[p].buf
       IN /\ file' = [file EXCEPT ![proc[p].fd] = WriteAt(@, proc[p].pos, row)]
          /\ acked' = IF proc[p].fd = db THEN {r \in acked : r.key # row.key} ELSE acked

WriteFails(p) ==
  /\ DiskMayFill /\ proc[p].buf # None
  /\ UNCHANGED acked
  /\ \/ UNCHANGED file
     \/ /\ ~EndsTorn(file[proc[p].fd])
        /\ file' = [file EXCEPT ![proc[p].fd] = Append(@, Torn)]

(* The row of --set or --delete, or of a line on stdin: the expiry counts  *)
(* from the lock for --set and from the line's arrival for stdin.          *)
NewRow(p, k) ==
  LET cmd == proc[p].cmd
      from == IF cmd.mode = "append" THEN now ELSE proc[p].t
  IN [key |-> k, tomb |-> cmd.mode = "delete", exp |-> Expiry(cmd.ttl, from),
      id |-> serial + 1]

Storing(p) == proc[p].pc \in {"append", "set", "delete"}

(* append_db_row puts the row in the buffer, to be written at pos. *)
Buffered(p, row, pos) ==
  proc' = [proc EXCEPT ![p].pc = IF @ = "append" THEN "append" ELSE "flush",
             ![p].buf = row, ![p].pos = pos,
             ![p].mine = {r \in @ : r.key # row.key} \cup {row}]

(* Mutant of AppendRow: the row is to go to the file's start. *)
AppendAtStart(p) ==
  /\ Storing(p) /\ (At(p, "append") => serial < MaxRows)
  /\ WriteOut(p)
  /\ \E k \in proc[p].cmd.keys : Buffered(p, NewRow(p, k), 0)
  /\ serial' = serial + 1
  /\ UNCHANGED <<db, tmp, owner, now, runs>>

(* append_db_row: fseek to the end writes out what is buffered, and the    *)
(* row is printed into the buffer.                                         *)
AppendRow(p) ==
  /\ Storing(p) /\ (At(p, "append") => serial < MaxRows)
  /\ WriteOut(p)
  /\ \E k \in proc[p].cmd.keys : Buffered(p, NewRow(p, k), Len(file'[proc[p].fd]))
  /\ serial' = serial + 1
  /\ UNCHANGED <<db, tmp, owner, now, runs>>

(* The seek cannot write out, or there is no memory to encode the row. *)
AppendFails(p) ==
  /\ Storing(p)
  /\ WriteFails(p) \/ WriteOut(p)
  /\ proc' = [proc EXCEPT ![p].pc = "flush", ![p].buf = None, ![p].rc = 1]
  /\ UNCHANGED <<db, tmp, owner, now, serial, runs>>

InputEnds(p) ==
  /\ At(p, "append")
  /\ proc' = [proc EXCEPT ![p].pc = "flush"]
  /\ UNCHANGED <<db, tmp, file, owner, env>>

-----------------------------------------------------------------------------
(* db_rewrite_compact. *)

Load(p) ==
  /\ At(p, "compact")
  /\ proc' = [proc EXCEPT ![p].pc = "openTmp",
                          ![p].live = LiveRows(file[proc[p].fd], Keys, proc[p].t)]
  /\ UNCHANGED <<db, tmp, file, owner, env>>

(* Mutant of OpenTmp: without O_TRUNC. *)
OpenTmpKeeps(p) ==
  /\ At(p, "openTmp")
  /\ LET ino == IF tmp = None THEN Fresh ELSE tmp
     IN /\ tmp' = ino
        /\ proc' = [proc EXCEPT ![p].pc = "flushTmp", ![p].tmpFd = ino]
  /\ UNCHANGED <<db, file, owner, env>>

(* open(tmp, O_CREAT | O_TRUNC): a .tmp that is there is emptied. *)
OpenTmp(p) ==
  /\ At(p, "openTmp")
  /\ LET ino == IF tmp = None THEN Fresh ELSE tmp
     IN /\ tmp' = ino
        /\ file' = [file EXCEPT ![ino] = <<>>]
        /\ proc' = [proc EXCEPT ![p].pc = "flushTmp", ![p].tmpFd = ino]
  /\ UNCHANGED <<db, owner, env>>

Renamed(p, next) ==
  /\ tmp # None
  /\ db' = tmp /\ tmp' = None
  /\ proc' = [proc EXCEPT ![p].pc = next, ![p].tmpFd = None]
  /\ UNCHANGED <<file, owner, env>>

(* Mutant of FlushTmp: the temporary file takes the database's place before *)
(* it is written.                                                           *)
FlushTmpTooLate(p) == At(p, "flushTmp") /\ Renamed(p, "flush")

(* Each row goes to the end of the temporary file; then fflush and fsync.  *)
(* The rows are written in one step: what a process that dies between two  *)
(* of them leaves in .tmp is never read, as OpenTmp empties it first.      *)
FlushTmp(p) ==
  /\ At(p, "flushTmp")
  /\ file' = [file EXCEPT ![proc[p].tmpFd] = @ \o SetToSeq(proc[p].live)]
  /\ proc' = [proc EXCEPT ![p].pc = "rename", ![p].tmpFd = None]
  /\ UNCHANGED <<db, tmp, owner, env>>

Rename(p) == At(p, "rename") /\ Renamed(p, "flush")

(* Any step of a query or a compaction fails, the rename of a .tmp that is *)
(* gone included; past the open whatever .tmp names is unlinked.           *)
CommandFails(p) ==
  /\ proc[p].pc \in {"query", "compact", "openTmp", "flushTmp", "rename"}
  /\ tmp' = IF proc[p].pc \in {"flushTmp", "rename"} THEN None ELSE tmp
  /\ proc' = [proc EXCEPT ![p].pc = "flush", ![p].tmpFd = None, ![p].rc = 1]
  /\ UNCHANGED <<db, file, owner, env>>

-----------------------------------------------------------------------------
(* fclose writes out the buffer and closes the descriptor, which releases  *)
(* the lock; its result is not looked at.                                  *)
Flush(p) ==
  /\ At(p, "flush")
  /\ WriteOut(p)
  /\ proc' = [proc EXCEPT ![p].pc = "close", ![p].buf = None]
  /\ UNCHANGED <<db, tmp, owner, now, serial, runs>>

FlushFails(p) ==
  /\ At(p, "flush")
  /\ WriteFails(p)
  /\ proc' = [proc EXCEPT ![p].pc = "close", ![p].buf = None]
  /\ UNCHANGED <<db, tmp, owner, now, serial, runs>>

Unlock(p) == [i \in Inodes |-> IF owner[i] = p THEN None ELSE owner[i]]

(* An inode without a name goes with its last descriptor. *)
FilesWithout(p) ==
  LET held == {db, tmp} \cup {proc[q].fd : q \in Procs \ {p}}
                        \cup {proc[q].tmpFd : q \in Procs \ {p}}
  IN [i \in Inodes |-> IF i \in held THEN file[i] ELSE <<>>]

(* Mutant of Close: the descriptor is leaked and the lock stays. *)
CloseLeaks(p) ==
  /\ At(p, "close")
  /\ proc' = [proc EXCEPT ![p] = [Idle EXCEPT !.rc = proc[p].rc]]
  /\ acked' = IF proc[p].rc = 0 THEN acked \cup proc[p].mine ELSE acked
  /\ file' = FilesWithout(p)
  /\ UNCHANGED <<db, tmp, owner, now, serial, runs>>

Close(p) ==
  /\ At(p, "close")
  /\ owner' = Unlock(p) /\ file' = FilesWithout(p)
  /\ proc' = [proc EXCEPT ![p] = [Idle EXCEPT !.rc = proc[p].rc]]
  /\ acked' = IF proc[p].rc = 0 THEN acked \cup proc[p].mine ELSE acked
  /\ UNCHANGED <<db, tmp, now, serial, runs>>

(* Killed, or locking failed: the buffer is gone, the lock is released, a  *)
(* .tmp stays.                                                             *)
Die(p) ==
  /\ Running(p)
  /\ owner' = Unlock(p) /\ file' = FilesWithout(p)
  /\ proc' = [proc EXCEPT ![p] = [Idle EXCEPT !.rc = 1]]
  /\ UNCHANGED <<db, tmp, env>>

Tick ==
  /\ now < MaxNow
  /\ now' = now + 1
  /\ UNCHANGED <<db, tmp, file, owner, proc, serial, runs, acked>>

Step(p) ==
  \/ Lock(p) \/ Query(p) \/ InputEnds(p)
  \/ AppendRow(p) \/ AppendFails(p)
  \/ Load(p) \/ OpenTmp(p) \/ FlushTmp(p) \/ Rename(p) \/ CommandFails(p)
  \/ Flush(p) \/ FlushFails(p) \/ Close(p)

Next ==
  \/ \E p \in Procs : Step(p) \/ Die(p) \/ \E cmd \in Commands : Open(p, cmd)
  \/ Tick

Spec == Init /\ [][Next]_vars

(* Each process that can take a step takes it, the end of its input among  *)
(* them; nothing is assumed of new invocations, of deaths or of time.      *)
FairSpec == Spec /\ \A p \in Procs : WF_vars(Step(p))

-----------------------------------------------------------------------------
Codes == {0, 1}
PCs == {"idle", "lock", "query", "append", "set", "delete", "compact", "openTmp",
        "flushTmp", "rename", "flush", "close"}

(* Type invariant: at most one row is ever buffered, the buffered row goes *)
(* to the end of the file its process has locked.                          *)
StoreTypeOK ==
  /\ db \in Inodes \cup {None} /\ tmp \in Inodes \cup {None}
  /\ \A i \in Inodes : \A n \in 1..Len(file[i]) : file[i][n] \in Lines
  /\ owner \in [Inodes -> Procs \cup {None}]
  /\ now \in 0..MaxNow /\ runs \in 0..MaxRuns /\ serial \in Nat
  /\ acked \subseteq Rows
  /\ \A p \in Procs :
       /\ proc[p].pc \in PCs /\ proc[p].rc \in Codes
       /\ proc[p].buf \in Rows \cup {None}
       /\ proc[p].buf # None => proc[p].pos = Len(file[proc[p].fd])
       /\ proc[p].mine \subseteq Rows /\ proc[p].out \subseteq Rows

StoreKv == [k \in Keys |-> IF db = None THEN None ELSE LatestIn(file[db], k)]

StoreStatus(p) == IF proc[p].rc = 1 THEN "failed"
                  ELSE IF Running(p) THEN "running" ELSE "ok"

WhileRunning(p, val, none) == IF StoreStatus(p) = "running" THEN val ELSE none

Index == INSTANCE ClipIndex
           WITH Clients <- Procs, kv <- StoreKv,
                status <- [p \in Procs |-> StoreStatus(p)],
                began <- [p \in Procs |-> WhileRunning(p, proc[p].t, 0)],
                pending <- [p \in Procs |-> proc[p].buf],
                asked <- [p \in Procs |-> WhileRunning(p, proc[p].cmd.keys, {})],
                answer <- [p \in Procs |-> WhileRunning(p, proc[p].out, {})]

(* However the invocations interleave, die and fail, the file behind the   *)
(* path is one index: a row takes effect when it is written out, status 0  *)
(* means that it has been, a query prints the live rows of one moment, and *)
(* compaction forgets nothing a query could return.                        *)
ImplementsIndex == Index!Spec

(* What a caller relies on after status 0 (man/clip_store.1:38-39,70-74):  *)
(* the row it stored is what its key holds, until a later row replaces it  *)
(* or it expires; a deleted key does not come back.                        *)
Lost(row) ==
  LET current == StoreKv[row.key]
  IN IF current = None THEN RowIsLive(row, now) ELSE current.id < row.id

NoAckedRowLost == \A row \in acked : ~Lost(row)

(* A compaction leaves one live row per key and nothing else               *)
(* (db_compact.h: it removes tombstones, expired rows and old versions).   *)
CompactionDropsDead ==
  [][\A p \in Procs : At(p, "rename") /\ db' # db =>
       LET lines == file'[db']
       IN \A i \in 1..Len(lines) :
            /\ ~lines[i].tomb /\ ~Expired(lines[i], proc[p].t)
            /\ \A j \in 1..Len(lines) : lines[j].key = lines[i].key => j = i]_vars

(* Whatever fails or dies, a key never goes back to an older row, and only *)
(* a row that no query could return goes without a successor: no stale     *)
(* .tmp, torn line or lost buffer undoes a set or a delete.                *)
RowsOnlyAdvance ==
  [][\A k \in Keys : StoreKv'[k] # StoreKv[k] =>
       IF StoreKv'[k] = None THEN ~RowIsLive(StoreKv[k], now)
       ELSE StoreKv[k] = None \/ StoreKv'[k].id > StoreKv[k].id]_vars

(* Every invocation ends: the lock is always handed on, whoever held it    *)
(* and however it ended.                                                   *)
RunsEnd == \A p \in Procs : Running(p) ~> ~Running(p)
=============================================================================
