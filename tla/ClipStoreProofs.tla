-------------------------- MODULE ClipStoreProofs ---------------------------
(***************************************************************************)
(* Theorems about clip_store invocations that share a database, when       *)
(* --compact runs alone (GcAlone).  They hold for any number of processes, *)
(* keys, invocations and rows, in every interleaving, whichever of them    *)
(* fail or die.                                                            *)
(***************************************************************************)
EXTENDS ClipStore, FiniteSetTheorems, SequenceTheorems, TLAPS

Modes == {"append", "set", "delete", "query", "compact"}
Stores == {"append", "set", "delete"}
Compacting == {"openTmp", "flushTmp", "rename"}
Ending == {"flush", "close"}
Command == [mode : Modes, keys : SUBSET Keys, ttl : Nat]
Fields == {"pc", "cmd", "fd", "tmpFd", "t", "buf", "pos", "live", "mine", "out", "rc"}

(* What a process keeps, whatever the others do. *)
Local(r) ==
  /\ DOMAIN r = Fields
  /\ r.pc \in PCs /\ r.fd \in Inodes \cup {None} /\ r.tmpFd \in Inodes \cup {None}
  /\ r.t \in Nat /\ r.buf \in Rows \cup {None} /\ r.pos \in Nat /\ r.rc \in Codes
  /\ r.live \subseteq Rows /\ r.mine \subseteq Rows /\ r.out \subseteq Rows
  /\ r.pc # "idle" => r.cmd \in Command /\ r.fd \in Inodes
  /\ r.pc = "idle" => r.fd = None /\ r.t = 0
  /\ r.pc \in Modes => r.cmd.mode = r.pc
  /\ r.pc \in Compacting => r.cmd.mode = "compact"
  /\ r.pc \in {"idle", "lock"} => r.mine = {} /\ r.out = {}
  /\ r.mine # {} => r.cmd.mode \in Stores
  /\ \A a, b \in r.mine : a.key = b.key => a = b
  /\ r.buf # None => r.pc \in {"append", "flush"} /\ r.rc = 0 /\ r.buf \in r.mine
  /\ r.rc = 1 => r.pc \in {"idle", "flush", "close"}
  /\ r.pc # "flushTmp" => r.tmpFd = None

Typed ==
  /\ db \in Inodes \cup {None} /\ tmp \in Inodes \cup {None}
  /\ file \in [Inodes -> Seq(Lines)]
  /\ owner \in [Inodes -> Procs \cup {None}]
  /\ DOMAIN proc = Procs /\ \A p \in Procs : Local(proc[p])
  /\ now \in 0..MaxNow /\ runs \in 0..MaxRuns /\ serial \in Nat
  /\ acked \subseteq Rows

(* A process past the flock holds the lock of the inode it opened, and no  *)
(* lock is held otherwise.                                                 *)
Past(p) == proc[p].pc \notin {"idle", "lock"}
Locks ==
  /\ \A p \in Procs : Past(p) => owner[proc[p].fd] = p
  /\ \A i \in Inodes : owner[i] # None => Past(owner[i]) /\ proc[owner[i]].fd = i

(* A running process has the file open that the path names, save a         *)
(* compaction past its rename; a compaction runs alone.                    *)
Opened(p) ==
  Running(p) =>
    /\ db # None /\ proc[p].t <= now
    /\ proc[p].fd = db \/ (proc[p].cmd.mode = "compact" /\ proc[p].pc \in Ending)
    /\ proc[p].cmd.mode = "compact" => \A q \in Procs \ {p} : ~Running(q)

Names ==
  /\ tmp # None => tmp # db
  /\ acked # {} => db # None

(* What compaction has loaded is what the database holds, and what it      *)
(* renames is what it has loaded.                                          *)
Rewriting(p) ==
  /\ proc[p].pc \in Compacting => proc[p].live = LiveRows(file[db], Keys, proc[p].t)
  /\ proc[p].pc = "flushTmp" => tmp # None /\ proc[p].tmpFd = tmp /\ file[tmp] = <<>>
  /\ proc[p].pc = "rename" => tmp # None /\ file[tmp] = SetToSeq(proc[p].live)

(* Rows are written in the order of their ids, and a buffered row goes to  *)
(* the end of the database.                                                *)
RowsIn(lines) == {lines[i] : i \in {j \in 1..Len(lines) : Parses(lines[j])}}
Ids == db # None => \A r \in RowsIn(file[db]) : r.id <= serial
Pending(p) ==
  proc[p].buf # None =>
    /\ proc[p].pos = Len(file[db]) /\ proc[p].buf.id <= serial
    /\ \A r \in RowsIn(file[db]) : r.id < proc[p].buf.id

(* On a disk that does not fill up no line is torn, the rows of a process  *)
(* that has not failed are in the database, but for the one in its buffer, *)
(* and so are the rows of those that ended with status 0.                  *)
Whole == ~DiskMayFill => \A i \in Inodes : \A n \in 1..Len(file[i]) : file[i][n] # Torn
Stored(p) ==
  ~DiskMayFill /\ proc[p].rc = 0 =>
    \A r \in proc[p].mine \ {proc[p].buf} : LatestIn(file[db], r.key) = r
Acked ==
  ~DiskMayFill =>
    \A r \in acked : \/ LatestIn(file[db], r.key) = r
                     \/ LatestIn(file[db], r.key) = None /\ ~RowIsLive(r, now)

Orderly(p) == Rewriting(p) /\ Pending(p) /\ Stored(p)
CInv ==
  /\ Typed /\ Locks /\ Names /\ Ids /\ Whole /\ Acked
  /\ \A p \in Procs : Opened(p) /\ Orderly(p)

-----------------------------------------------------------------------------
(* Lines and files.                                                        *)

LEMMA TornIsNoRow == Torn \notin Rows /\ Junk \notin Rows /\ None \notin Rows /\ Junk # Torn
<1>1. \A r \in Rows : DOMAIN r = {"key", "tomb", "exp", "id"}
  BY DEF Rows
<1>2. DOMAIN Torn = {"torn"} /\ DOMAIN Junk = {"junk"}
  BY DEF Torn, Junk
<1>3. "torn" \notin {"key", "tomb", "exp", "id"} /\ "junk" \notin {"key", "tomb", "exp", "id"}
  OBVIOUS
<1>4. Torn \notin Rows /\ Junk \notin Rows
  BY <1>1, <1>2, <1>3
<1>5. QED
  BY <1>2, <1>4, NoneAssumption

Matches(lines, k) == {i \in 1..Len(lines) : Parses(lines[i]) /\ lines[i].key = k}

LEMMA LatestDef ==
  ASSUME NEW lines, NEW k
  PROVE  LatestIn(lines, k) = IF Matches(lines, k) = {} THEN None
                              ELSE lines[CHOOSE i \in Matches(lines, k) : \A j \in Matches(lines, k) : j <= i]
BY DEF LatestIn, Matches

LEMMA Least ==
  ASSUME NEW S \in SUBSET Nat, S # {}
  PROVE  \E x \in S : \A y \in S : x <= y
<1>1. PICK x \in S : \A y \in S : <<y, x>> \notin OpToRel(<, Nat)
  BY WFMin, NatLessThanWellFounded, Zenon
<1>2. \A y \in S : ~(y < x)
  BY <1>1 DEF OpToRel
<1>3. QED
  BY <1>2

LEMMA Greatest ==
  ASSUME NEW n \in Nat, NEW S \in SUBSET (1..n), S # {}
  PROVE  \E x \in S : \A y \in S : y <= x
<1> DEFINE T == {d \in 0..n : n - d \in S}
<1>1. PICK s \in S : TRUE
  OBVIOUS
<1>2. n - s \in 0..n /\ n - (n - s) = s
  OBVIOUS
<1>3. n - s \in T /\ T \in SUBSET Nat
  BY <1>2
<1>4. PICK d \in T : \A e \in T : d <= e
  BY <1>3, Least
<1>5. ASSUME NEW y \in S PROVE y <= n - d
  <2>1. n - y \in 0..n /\ n - (n - y) = y
    OBVIOUS
  <2>2. d <= n - y
    BY <1>4, <2>1
  <2>3. QED
    BY <1>4, <2>1, <2>2
<1>6. QED
  BY <1>4, <1>5

(* The latest row of a key is the last of its rows, if it has any. *)
LEMMA LatestCases ==
  ASSUME NEW lines \in Seq(Lines), NEW k
  PROVE  \/ LatestIn(lines, k) = None /\ Matches(lines, k) = {}
         \/ \E i \in Matches(lines, k) :
              LatestIn(lines, k) = lines[i] /\ \A j \in Matches(lines, k) : j <= i
<1>1. CASE Matches(lines, k) = {}
  BY <1>1, LatestDef
<1>2. CASE Matches(lines, k) # {}
  <2>1. Matches(lines, k) \in SUBSET (1..Len(lines)) /\ Len(lines) \in Nat
    BY DEF Matches
  <2>2. \E x \in Matches(lines, k) : \A y \in Matches(lines, k) : y <= x
    BY <1>2, <2>1, Greatest
  <2> DEFINE c == CHOOSE x \in Matches(lines, k) : \A y \in Matches(lines, k) : y <= x
  <2>3. c \in Matches(lines, k) /\ \A y \in Matches(lines, k) : y <= c
    BY <2>2
  <2>4. LatestIn(lines, k) = lines[c]
    BY <1>2, LatestDef
  <2>5. QED
    BY <2>3, <2>4
<1>3. QED
  BY <1>1, <1>2

LEMMA LatestIs ==
  ASSUME NEW lines \in Seq(Lines), NEW k, NEW i \in Matches(lines, k),
         \A j \in Matches(lines, k) : j <= i
  PROVE  LatestIn(lines, k) = lines[i]
<1>1. PICK c \in Matches(lines, k) :
        LatestIn(lines, k) = lines[c] /\ \A j \in Matches(lines, k) : j <= c
  BY LatestCases
<1>2. i <= c /\ c <= i /\ i \in Int /\ c \in Int
  BY <1>1 DEF Matches
<1>3. QED
  BY <1>1, <1>2

LEMMA NoneLatest ==
  ASSUME NEW lines \in Seq(Lines), NEW k, Matches(lines, k) = {}
  PROVE  LatestIn(lines, k) = None
BY LatestDef

LEMMA LatestTyped ==
  ASSUME NEW lines \in Seq(Lines), NEW k
  PROVE  /\ LatestIn(lines, k) \in Rows \cup {None}
         /\ LatestIn(lines, k) # None => LatestIn(lines, k).key = k /\ LatestIn(lines, k) \in RowsIn(lines)
BY LatestCases DEF Matches, Parses, RowsIn

LEMMA LiveTyped ==
  ASSUME NEW lines \in Seq(Lines), NEW keys, NEW t
  PROVE  LiveRows(lines, keys, t) \subseteq Rows
<1>1. SUFFICES ASSUME NEW k \in keys, RowIsLive(LatestIn(lines, k), t)
               PROVE  LatestIn(lines, k) \in Rows
  BY DEF LiveRows
<1>2. LatestIn(lines, k) # None
  BY <1>1 DEF RowIsLive
<1>3. QED
  BY <1>2, LatestTyped

(* Files that agree on their rows agree on the latest ones. *)
LEMMA LatestSame ==
  ASSUME NEW a \in Seq(Lines), NEW b \in Seq(Lines), NEW k,
         \A i : i \in 1..Len(a) /\ a[i] \in Rows <=> i \in 1..Len(b) /\ b[i] \in Rows,
         \A i : i \in 1..Len(a) /\ a[i] \in Rows => a[i] = b[i]
  PROVE  LatestIn(a, k) = LatestIn(b, k)
<1>1. Matches(a, k) = Matches(b, k)
  BY DEF Matches, Parses
<1>2. CASE Matches(a, k) = {}
  BY <1>1, <1>2, NoneLatest
<1>3. CASE Matches(a, k) # {}
  <2>1. PICK i \in Matches(a, k) :
          LatestIn(a, k) = a[i] /\ \A j \in Matches(a, k) : j <= i
    BY <1>3, LatestCases
  <2>2. LatestIn(b, k) = b[i]
    BY <1>1, <2>1, LatestIs
  <2>3. QED
    BY <2>1, <2>2 DEF Matches, Parses
<1>4. QED
  BY <1>2, <1>3

LEMMA LatestAppend ==
  ASSUME NEW lines \in Seq(Lines), NEW row \in Rows, NEW k
  PROVE  LatestIn(Append(lines, row), k) = IF row.key = k THEN row ELSE LatestIn(lines, k)
<1> DEFINE more == Append(lines, row)
           n == Len(lines)
<1>1. /\ more \in Seq(Lines) /\ Len(more) = n + 1 /\ n \in Nat /\ more[n + 1] = row
      /\ \A i \in 1..n : more[i] = lines[i]
  BY DEF Lines
<1> HIDE DEF more, n
<1>2. CASE row.key = k
  <2>1. n + 1 \in Matches(more, k)
    BY <1>1, <1>2 DEF Matches, Parses
  <2>2. \A j \in Matches(more, k) : j <= n + 1
    BY <1>1 DEF Matches
  <2>3. LatestIn(more, k) = more[n + 1]
    BY <1>1, <2>1, <2>2, LatestIs
  <2>4. QED
    BY <1>1, <1>2, <2>3 DEF more
<1>3. CASE row.key # k
  <2>1. Matches(more, k) = Matches(lines, k)
    BY <1>1, <1>3 DEF Matches, Parses, n
  <2>2. CASE Matches(lines, k) = {}
    BY <1>1, <1>3, <2>1, <2>2, NoneLatest DEF more
  <2>3. CASE Matches(lines, k) # {}
    <3>1. PICK i \in Matches(lines, k) :
            LatestIn(lines, k) = lines[i] /\ \A j \in Matches(lines, k) : j <= i
      BY <2>3, LatestCases
    <3>2. LatestIn(more, k) = more[i]
      BY <1>1, <2>1, <3>1, LatestIs
    <3>3. more[i] = lines[i]
      BY <1>1 DEF Matches, n
    <3>4. QED
      BY <1>3, <3>1, <3>2, <3>3 DEF more
  <2>4. QED
    BY <2>2, <2>3
<1>4. QED
  BY <1>2, <1>3

LEMMA LatestAppendTorn ==
  ASSUME NEW lines \in Seq(Lines), NEW k
  PROVE  LatestIn(Append(lines, Torn), k) = LatestIn(lines, k)
<1> DEFINE more == Append(lines, Torn)
           n == Len(lines)
<1>1. /\ more \in Seq(Lines) /\ Len(more) = n + 1 /\ n \in Nat /\ more[n + 1] = Torn
      /\ \A i \in 1..n : more[i] = lines[i]
  BY DEF Lines
<1> HIDE DEF more
<1>2. \A i : i \in 1..Len(more) /\ more[i] \in Rows <=> i \in 1..Len(lines) /\ lines[i] \in Rows
  BY <1>1, TornIsNoRow
<1>3. \A i : i \in 1..Len(more) /\ more[i] \in Rows => more[i] = lines[i]
  BY <1>1, TornIsNoRow
<1>4. LatestIn(more, k) = LatestIn(lines, k)
  BY <1>1, <1>2, <1>3, LatestSame
<1>5. QED
  BY <1>4 DEF more

(* A row written at the end is appended, or lost with the torn one before. *)
LEMMA WriteAtEnd ==
  ASSUME NEW lines \in Seq(Lines), NEW row \in Rows
  PROVE  LET more == WriteAt(lines, Len(lines), row)
         IN /\ more \in Seq(Lines)
            /\ \/ more = Append(lines, row)
               \/ /\ \E i \in 1..Len(lines) : lines[i] = Torn
                  /\ Len(more) = Len(lines)
                  /\ \A k : LatestIn(more, k) = LatestIn(lines, k)
                  /\ RowsIn(more) \subseteq RowsIn(lines)
<1> DEFINE n == Len(lines)
           more == WriteAt(lines, n, row)
<1>0. n \in Nat /\ \A i \in 1..n : lines[i] \in Lines
  OBVIOUS
<1>1. CASE n > 0 /\ lines[n] = Torn
  <2> DEFINE a == SubSeq(lines, 1, n - 1)
             z == SubSeq(lines, n + 1, n)
  <2>1. more = a \o <<Junk>> \o z
    BY <1>1 DEF WriteAt
  <2>2. a \in Seq(Lines) /\ Len(a) = n - 1 /\ \A i \in 1..(n - 1) : a[i] = lines[i]
    <3>1. n - 1 \in Nat /\ 1 \in Int /\ \A i \in 1..(n - 1) : lines[i] \in Lines
      BY <1>0, <1>1
    <3>2. /\ a \in Seq(Lines)
          /\ Len(a) = IF 1 <= n - 1 THEN (n - 1) - 1 + 1 ELSE 0
          /\ \A i \in 1..((n - 1) - 1 + 1) : a[i] = lines[1 + i - 1]
      BY <3>1, SubSeqProperties
    <3> HIDE DEF a, n
    <3>3. (n - 1) - 1 + 1 = n - 1 /\ \A i \in 1..(n - 1) : 1 + i - 1 = i
      BY <3>1
    <3>4. Len(a) = n - 1
      BY <3>1, <3>2, <3>3
    <3>5. QED
      BY <3>2, <3>3, <3>4
  <2>3. z \in Seq(Lines) /\ Len(z) = 0
    BY <1>0
  <2>4. <<Junk>> \in Seq(Lines) /\ Len(<<Junk>>) = 1 /\ <<Junk>>[1] = Junk
    BY DEF Lines
  <2> HIDE DEF a, z, n
  <2>5. /\ more \in Seq(Lines) /\ Len(more) = n /\ more[n] = Junk
        /\ \A i \in 1..(n - 1) : more[i] = lines[i]
    BY <1>0, <1>1, <2>1, <2>2, <2>3, <2>4
  <2> HIDE DEF more
  <2>6. \A i : i \in 1..Len(more) /\ more[i] \in Rows <=> i \in 1..Len(lines) /\ lines[i] \in Rows
    BY <1>0, <1>1, <2>5, TornIsNoRow DEF n
  <2>7. \A i : i \in 1..Len(more) /\ more[i] \in Rows => more[i] = lines[i]
    BY <1>0, <1>1, <2>5, TornIsNoRow
  <2>8. \A k : LatestIn(more, k) = LatestIn(lines, k)
    BY <2>5, <2>6, <2>7, LatestSame
  <2>9. RowsIn(more) \subseteq RowsIn(lines)
    BY <2>5, <2>6, <2>7 DEF RowsIn, Parses
  <2>10. n \in 1..Len(lines) /\ lines[n] = Torn /\ Len(more) = Len(lines)
    BY <1>0, <1>1, <2>5 DEF n
  <2>11. QED
    BY <2>5, <2>8, <2>9, <2>10 DEF more, n
<1>2. CASE ~(n > 0 /\ lines[n] = Torn)
  <2> DEFINE a == SubSeq(lines, 1, n)
             z == SubSeq(lines, n + 2, n)
  <2>1. more = a \o <<row>> \o z
    BY <1>2 DEF WriteAt
  <2>2. a = lines
    BY <1>0
  <2>3. z = <<>>
    BY <1>0
  <2>4. <<row>> \in Seq(Lines) /\ Append(lines, row) \in Seq(Lines)
    BY DEF Lines
  <2>5. lines \o <<row>> \o <<>> = Append(lines, row)
    BY <2>4
  <2>6. more = Append(lines, row)
    BY <2>1, <2>2, <2>3, <2>5
  <2>7. QED
    BY <2>4, <2>6
<1>3. QED
  BY <1>1, <1>2

-----------------------------------------------------------------------------
(* What each action does to the process that takes it.                     *)

LEMMA CommandsTyped ==
  ASSUME NEW cmd \in Commands
  PROVE  cmd \in Command
<1>1. CASE cmd \in [mode : {"append"}, keys : {Keys}, ttl : Ttls]
  BY <1>1, ClipStoreAssumption DEF Command, Modes
<1>2. CASE cmd \in [mode : {"set"}, keys : {{k} : k \in Keys}, ttl : Ttls]
  <2>1. PICK k \in Keys : cmd.keys = {k}
    BY <1>2
  <2>2. cmd.keys \in SUBSET Keys /\ cmd.mode = "set" /\ cmd.ttl \in Nat
    BY <1>2, <2>1, ClipStoreAssumption
  <2>3. cmd = [mode |-> cmd.mode, keys |-> cmd.keys, ttl |-> cmd.ttl]
    BY <1>2
  <2>4. QED
    BY <2>2, <2>3 DEF Command, Modes
<1>3. CASE cmd \in [mode : {"delete"}, keys : {{k} : k \in Keys}, ttl : {0}]
  <2>1. PICK k \in Keys : cmd.keys = {k}
    BY <1>3
  <2>2. cmd.keys \in SUBSET Keys /\ cmd.mode = "delete" /\ cmd.ttl \in Nat
    BY <1>3, <2>1
  <2>3. cmd = [mode |-> cmd.mode, keys |-> cmd.keys, ttl |-> cmd.ttl]
    BY <1>3
  <2>4. QED
    BY <2>2, <2>3 DEF Command, Modes
<1>4. CASE cmd \in [mode : {"query"}, keys : Queries, ttl : {0}]
  BY <1>4, ClipStoreAssumption DEF Command, Modes
<1>5. CASE cmd \in [mode : {"compact"}, keys : {{}}, ttl : {0}]
  BY <1>5 DEF Command, Modes
<1>6. QED
  BY <1>1, <1>2, <1>3, <1>4, <1>5 DEF Commands

(* p takes a step with the file it has open; the others take none. *)
Others(p) == DOMAIN proc' = Procs /\ \A q \in Procs \ {p} : proc'[q] = proc[q]
Carries(p) ==
  /\ Others(p) /\ Local(proc'[p])
  /\ proc'[p].cmd = proc[p].cmd /\ proc'[p].fd = proc[p].fd /\ proc'[p].t = proc[p].t

(* A query. *)
LEMMA QueryIs ==
  ASSUME Typed, NEW p \in Procs, Query(p)
  PROVE  /\ Carries(p)
         /\ proc[p].pc = "query" /\ proc'[p].pc = "flush" /\ proc'[p].rc = 0 /\ proc[p].rc = 0
         /\ proc'[p].buf = None /\ proc[p].buf = None /\ proc'[p].mine = {} /\ proc[p].mine = {}
         /\ proc'[p].out = LiveRows(file[proc[p].fd], proc[p].cmd.keys, proc[p].t)
<1>1. Local(proc[p]) /\ DOMAIN proc = Procs
  BY DEF Typed
<1>2. DOMAIN proc' = Procs /\ \A q \in Procs \ {p} : proc'[q] = proc[q]
  BY <1>1 DEF Query
<1>3. /\ proc[p].pc = "query"
      /\ proc'[p] = [proc[p] EXCEPT !.pc = "flush",
                                  !.out = LiveRows(file[proc[p].fd], proc[p].cmd.keys, proc[p].t)]
  BY <1>1 DEF Query, At
<1>4. /\ DOMAIN proc'[p] = Fields /\ proc'[p].pc = "flush" /\ proc'[p].cmd = proc[p].cmd
      /\ proc'[p].fd = proc[p].fd /\ proc'[p].tmpFd = proc[p].tmpFd
      /\ proc'[p].t = proc[p].t /\ proc'[p].buf = proc[p].buf /\ proc'[p].pos = proc[p].pos
      /\ proc'[p].live = proc[p].live /\ proc'[p].mine = proc[p].mine
      /\ proc'[p].out = LiveRows(file[proc[p].fd], proc[p].cmd.keys, proc[p].t)
      /\ proc'[p].rc = proc[p].rc
  BY <1>1, <1>3 DEF Local, Fields
<1>5. LiveRows(file[proc[p].fd], proc[p].cmd.keys, proc[p].t) \subseteq Rows /\ proc[p].fd \in Inodes
  BY <1>1, <1>3, LiveTyped DEF Typed, Local
<1>6. Local(proc'[p])
  BY <1>1, <1>3, <1>4, <1>5 DEF Local, PCs, Modes, Codes, Compacting, Stores
<1>7. Carries(p)
  BY <1>2, <1>4, <1>6 DEF Carries, Others
<1>8. QED
  BY <1>1, <1>3, <1>4, <1>7 DEF Local, Codes, Modes, Stores, Compacting

(* The end of stdin. *)
LEMMA InputEndsIs ==
  ASSUME Typed, NEW p \in Procs, InputEnds(p)
  PROVE  /\ Carries(p)
         /\ proc[p].pc = "append" /\ proc'[p].pc = "flush" /\ proc'[p].rc = 0 /\ proc[p].rc = 0
         /\ proc'[p].buf = proc[p].buf /\ proc'[p].pos = proc[p].pos
         /\ proc'[p].mine = proc[p].mine /\ proc'[p].out = proc[p].out
<1>1. Local(proc[p]) /\ DOMAIN proc = Procs
  BY DEF Typed
<1>2. DOMAIN proc' = Procs /\ \A q \in Procs \ {p} : proc'[q] = proc[q]
  BY <1>1 DEF InputEnds
<1>3. /\ proc[p].pc = "append"
      /\ proc'[p] = [proc[p] EXCEPT !.pc = "flush"]
  BY <1>1 DEF InputEnds, At
<1>4. /\ DOMAIN proc'[p] = Fields /\ proc'[p].pc = "flush" /\ proc'[p].cmd = proc[p].cmd
      /\ proc'[p].fd = proc[p].fd /\ proc'[p].tmpFd = proc[p].tmpFd
      /\ proc'[p].t = proc[p].t /\ proc'[p].buf = proc[p].buf /\ proc'[p].pos = proc[p].pos
      /\ proc'[p].live = proc[p].live /\ proc'[p].mine = proc[p].mine
      /\ proc'[p].out = proc[p].out /\ proc'[p].rc = proc[p].rc
  BY <1>1, <1>3 DEF Local, Fields
<1>5. Local(proc'[p])
  BY <1>1, <1>3, <1>4 DEF Local, PCs, Modes, Codes, Compacting, Stores
<1>6. Carries(p)
  BY <1>2, <1>4, <1>5 DEF Carries, Others
<1>7. QED
  BY <1>1, <1>3, <1>4, <1>6 DEF Local, Codes, Modes, Stores, Compacting

(* The steps of a compaction. *)
LEMMA LoadIs ==
  ASSUME Typed, NEW p \in Procs, Load(p)
  PROVE  /\ Carries(p)
         /\ proc[p].pc = "compact" /\ proc'[p].pc = "openTmp" /\ proc'[p].rc = 0 /\ proc[p].rc = 0
         /\ proc'[p].buf = None /\ proc[p].buf = None /\ proc'[p].mine = {} /\ proc[p].mine = {}
         /\ proc'[p].live = LiveRows(file[proc[p].fd], Keys, proc[p].t)
         /\ proc'[p].out = proc[p].out
<1>1. Local(proc[p]) /\ DOMAIN proc = Procs
  BY DEF Typed
<1>2. DOMAIN proc' = Procs /\ \A q \in Procs \ {p} : proc'[q] = proc[q]
  BY <1>1 DEF Load
<1>3. /\ proc[p].pc = "compact"
      /\ proc'[p] = [proc[p] EXCEPT !.pc = "openTmp",
                                  !.live = LiveRows(file[proc[p].fd], Keys, proc[p].t)]
  BY <1>1 DEF Load, At
<1>4. /\ DOMAIN proc'[p] = Fields /\ proc'[p].pc = "openTmp" /\ proc'[p].cmd = proc[p].cmd
      /\ proc'[p].fd = proc[p].fd /\ proc'[p].tmpFd = proc[p].tmpFd
      /\ proc'[p].t = proc[p].t /\ proc'[p].buf = proc[p].buf /\ proc'[p].pos = proc[p].pos
      /\ proc'[p].live = LiveRows(file[proc[p].fd], Keys, proc[p].t)
      /\ proc'[p].mine = proc[p].mine /\ proc'[p].out = proc[p].out
      /\ proc'[p].rc = proc[p].rc
  BY <1>1, <1>3 DEF Local, Fields
<1>5. LiveRows(file[proc[p].fd], Keys, proc[p].t) \subseteq Rows /\ proc[p].fd \in Inodes
  BY <1>1, <1>3, LiveTyped DEF Typed, Local
<1>6. Local(proc'[p])
  BY <1>1, <1>3, <1>4, <1>5 DEF Local, PCs, Modes, Codes, Compacting, Stores
<1>7. Carries(p)
  BY <1>2, <1>4, <1>6 DEF Carries, Others
<1>8. QED
  BY <1>1, <1>3, <1>4, <1>7 DEF Local, Codes, Modes, Stores, Compacting

LEMMA OpenTmpIs ==
  ASSUME Typed, NEW p \in Procs, OpenTmp(p), tmp' \in Inodes
  PROVE  /\ Carries(p)
         /\ proc[p].pc = "openTmp" /\ proc'[p].pc = "flushTmp" /\ proc'[p].rc = 0 /\ proc[p].rc = 0
         /\ proc'[p].tmpFd = tmp' /\ proc'[p].live = proc[p].live
         /\ proc'[p].buf = None /\ proc[p].buf = None /\ proc'[p].mine = {} /\ proc[p].mine = {}
         /\ proc'[p].out = proc[p].out
<1>1. Local(proc[p]) /\ DOMAIN proc = Procs
  BY DEF Typed
<1>2. DOMAIN proc' = Procs /\ \A q \in Procs \ {p} : proc'[q] = proc[q]
  BY <1>1 DEF OpenTmp
<1>3. /\ proc[p].pc = "openTmp"
      /\ proc'[p] = [proc[p] EXCEPT !.pc = "flushTmp", !.tmpFd = tmp']
  BY <1>1 DEF OpenTmp, At
<1>4. /\ DOMAIN proc'[p] = Fields /\ proc'[p].pc = "flushTmp" /\ proc'[p].cmd = proc[p].cmd
      /\ proc'[p].fd = proc[p].fd /\ proc'[p].tmpFd = tmp' /\ proc'[p].t = proc[p].t
      /\ proc'[p].buf = proc[p].buf /\ proc'[p].pos = proc[p].pos
      /\ proc'[p].live = proc[p].live /\ proc'[p].mine = proc[p].mine
      /\ proc'[p].out = proc[p].out /\ proc'[p].rc = proc[p].rc
  BY <1>1, <1>3 DEF Local, Fields
<1>5. tmp' \in Inodes
  OBVIOUS
<1>6. Local(proc'[p])
  BY <1>1, <1>3, <1>4, <1>5 DEF Local, PCs, Modes, Codes, Compacting, Stores
<1>7. Carries(p)
  BY <1>2, <1>4, <1>6 DEF Carries, Others
<1>8. QED
  BY <1>1, <1>3, <1>4, <1>7 DEF Local, Codes, Modes, Stores, Compacting

LEMMA FlushTmpIs ==
  ASSUME Typed, NEW p \in Procs, FlushTmp(p)
  PROVE  /\ Carries(p)
         /\ proc[p].pc = "flushTmp" /\ proc'[p].pc = "rename" /\ proc'[p].rc = 0 /\ proc[p].rc = 0
         /\ proc'[p].live = proc[p].live
         /\ proc'[p].buf = None /\ proc[p].buf = None /\ proc'[p].mine = {} /\ proc[p].mine = {}
         /\ proc'[p].out = proc[p].out
<1>1. Local(proc[p]) /\ DOMAIN proc = Procs
  BY DEF Typed
<1>2. DOMAIN proc' = Procs /\ \A q \in Procs \ {p} : proc'[q] = proc[q]
  BY <1>1 DEF FlushTmp
<1>3. /\ proc[p].pc = "flushTmp"
      /\ proc'[p] = [proc[p] EXCEPT !.pc = "rename", !.tmpFd = None]
  BY <1>1 DEF FlushTmp, At
<1>4. /\ DOMAIN proc'[p] = Fields /\ proc'[p].pc = "rename" /\ proc'[p].cmd = proc[p].cmd
      /\ proc'[p].fd = proc[p].fd /\ proc'[p].tmpFd = None /\ proc'[p].t = proc[p].t
      /\ proc'[p].buf = proc[p].buf /\ proc'[p].pos = proc[p].pos
      /\ proc'[p].live = proc[p].live /\ proc'[p].mine = proc[p].mine
      /\ proc'[p].out = proc[p].out /\ proc'[p].rc = proc[p].rc
  BY <1>1, <1>3 DEF Local, Fields
<1>5. Local(proc'[p])
  BY <1>1, <1>3, <1>4 DEF Local, PCs, Modes, Codes, Compacting, Stores
<1>6. Carries(p)
  BY <1>2, <1>4, <1>5 DEF Carries, Others
<1>7. QED
  BY <1>1, <1>3, <1>4, <1>6 DEF Local, Codes, Modes, Stores, Compacting

LEMMA RenameIs ==
  ASSUME Typed, NEW p \in Procs, Rename(p)
  PROVE  /\ Carries(p)
         /\ proc[p].pc = "rename" /\ proc'[p].pc = "flush" /\ proc'[p].rc = 0 /\ proc[p].rc = 0
         /\ proc'[p].buf = None /\ proc[p].buf = None /\ proc'[p].mine = {} /\ proc[p].mine = {}
         /\ proc'[p].out = proc[p].out
<1>1. Local(proc[p]) /\ DOMAIN proc = Procs
  BY DEF Typed
<1>2. DOMAIN proc' = Procs /\ \A q \in Procs \ {p} : proc'[q] = proc[q]
  BY <1>1 DEF Rename, Renamed
<1>3. /\ proc[p].pc = "rename"
      /\ proc'[p] = [proc[p] EXCEPT !.pc = "flush", !.tmpFd = None]
  BY <1>1 DEF Rename, Renamed, At
<1>4. /\ DOMAIN proc'[p] = Fields /\ proc'[p].pc = "flush" /\ proc'[p].cmd = proc[p].cmd
      /\ proc'[p].fd = proc[p].fd /\ proc'[p].tmpFd = None /\ proc'[p].t = proc[p].t
      /\ proc'[p].buf = proc[p].buf /\ proc'[p].pos = proc[p].pos
      /\ proc'[p].live = proc[p].live /\ proc'[p].mine = proc[p].mine
      /\ proc'[p].out = proc[p].out /\ proc'[p].rc = proc[p].rc
  BY <1>1, <1>3 DEF Local, Fields
<1>5. Local(proc'[p])
  BY <1>1, <1>3, <1>4 DEF Local, PCs, Modes, Codes, Compacting, Stores
<1>6. Carries(p)
  BY <1>2, <1>4, <1>5 DEF Carries, Others
<1>7. QED
  BY <1>1, <1>3, <1>4, <1>6 DEF Local, Codes, Modes, Stores, Compacting

LEMMA CommandFailsIs ==
  ASSUME Typed, NEW p \in Procs, CommandFails(p)
  PROVE  /\ Carries(p)
         /\ proc[p].pc \in {"query", "compact", "openTmp", "flushTmp", "rename"}
         /\ proc'[p].pc = "flush" /\ proc'[p].rc = 1 /\ proc[p].rc = 0
         /\ proc'[p].buf = None /\ proc[p].buf = None /\ proc'[p].mine = {} /\ proc[p].mine = {}
         /\ proc'[p].out = proc[p].out
<1>1. Local(proc[p]) /\ DOMAIN proc = Procs
  BY DEF Typed
<1>2. DOMAIN proc' = Procs /\ \A q \in Procs \ {p} : proc'[q] = proc[q]
  BY <1>1 DEF CommandFails
<1>3. /\ proc[p].pc \in {"query", "compact", "openTmp", "flushTmp", "rename"}
      /\ proc'[p] = [proc[p] EXCEPT !.pc = "flush", !.tmpFd = None, !.rc = 1]
  BY <1>1 DEF CommandFails, At
<1>4. /\ DOMAIN proc'[p] = Fields /\ proc'[p].pc = "flush" /\ proc'[p].cmd = proc[p].cmd
      /\ proc'[p].fd = proc[p].fd /\ proc'[p].tmpFd = None /\ proc'[p].t = proc[p].t
      /\ proc'[p].buf = proc[p].buf /\ proc'[p].pos = proc[p].pos
      /\ proc'[p].live = proc[p].live /\ proc'[p].mine = proc[p].mine
      /\ proc'[p].out = proc[p].out /\ proc'[p].rc = 1
  BY <1>1, <1>3 DEF Local, Fields
<1>5. Local(proc'[p])
  BY <1>1, <1>3, <1>4 DEF Local, PCs, Modes, Codes, Compacting, Stores
<1>6. Carries(p)
  BY <1>2, <1>4, <1>5 DEF Carries, Others
<1>7. QED
  BY <1>1, <1>3, <1>4, <1>6 DEF Local, Codes, Modes, Stores, Compacting

(* A row that cannot be stored. *)
LEMMA AppendFailsIs ==
  ASSUME Typed, NEW p \in Procs, AppendFails(p)
  PROVE  /\ Carries(p)
         /\ proc[p].pc \in Stores /\ proc'[p].pc = "flush" /\ proc'[p].rc = 1 /\ proc[p].rc = 0
         /\ proc'[p].buf = None /\ proc'[p].mine = proc[p].mine /\ proc'[p].out = proc[p].out
<1>1. Local(proc[p]) /\ DOMAIN proc = Procs
  BY DEF Typed
<1>2. DOMAIN proc' = Procs /\ \A q \in Procs \ {p} : proc'[q] = proc[q]
  BY <1>1 DEF AppendFails
<1>3. /\ proc[p].pc \in Stores
      /\ proc'[p] = [proc[p] EXCEPT !.pc = "flush", !.buf = None, !.rc = 1]
  BY <1>1 DEF AppendFails, Storing, Stores
<1>4. /\ DOMAIN proc'[p] = Fields /\ proc'[p].pc = "flush" /\ proc'[p].cmd = proc[p].cmd
      /\ proc'[p].fd = proc[p].fd /\ proc'[p].tmpFd = proc[p].tmpFd
      /\ proc'[p].t = proc[p].t /\ proc'[p].buf = None /\ proc'[p].pos = proc[p].pos
      /\ proc'[p].live = proc[p].live /\ proc'[p].mine = proc[p].mine
      /\ proc'[p].out = proc[p].out /\ proc'[p].rc = 1
  BY <1>1, <1>3 DEF Local, Fields
<1>5. Local(proc'[p])
  BY <1>1, <1>3, <1>4 DEF Local, PCs, Modes, Codes, Compacting, Stores
<1>6. Carries(p)
  BY <1>2, <1>4, <1>5 DEF Carries, Others
<1>7. QED
  BY <1>1, <1>3, <1>4, <1>6 DEF Local, Codes, Modes, Stores, Compacting

(* The end of an invocation. *)
LEMMA FlushIs ==
  ASSUME Typed, NEW p \in Procs, Flush(p) \/ FlushFails(p)
  PROVE  /\ Carries(p)
         /\ proc[p].pc = "flush" /\ proc'[p].pc = "close" /\ proc'[p].rc = proc[p].rc
         /\ proc'[p].buf = None /\ proc'[p].mine = proc[p].mine /\ proc'[p].out = proc[p].out
<1>1. Local(proc[p]) /\ DOMAIN proc = Procs
  BY DEF Typed
<1>2. DOMAIN proc' = Procs /\ \A q \in Procs \ {p} : proc'[q] = proc[q]
  BY <1>1 DEF Flush, FlushFails
<1>3. /\ proc[p].pc = "flush"
      /\ proc'[p] = [proc[p] EXCEPT !.pc = "close", !.buf = None]
  BY <1>1 DEF Flush, FlushFails, At
<1>4. /\ DOMAIN proc'[p] = Fields /\ proc'[p].pc = "close" /\ proc'[p].cmd = proc[p].cmd
      /\ proc'[p].fd = proc[p].fd /\ proc'[p].tmpFd = proc[p].tmpFd
      /\ proc'[p].t = proc[p].t /\ proc'[p].buf = None /\ proc'[p].pos = proc[p].pos
      /\ proc'[p].live = proc[p].live /\ proc'[p].mine = proc[p].mine
      /\ proc'[p].out = proc[p].out /\ proc'[p].rc = proc[p].rc
  BY <1>1, <1>3 DEF Local, Fields
<1>5. Local(proc'[p])
  BY <1>1, <1>3, <1>4 DEF Local, PCs, Modes, Codes, Compacting, Stores
<1>6. Carries(p)
  BY <1>2, <1>4, <1>5 DEF Carries, Others
<1>7. QED
  BY <1>1, <1>3, <1>4, <1>6 DEF Local, Codes, Modes, Stores, Compacting

(* The flock. *)
LEMMA LockIs ==
  ASSUME Typed, NEW p \in Procs, Lock(p)
  PROVE  /\ Others(p) /\ Local(proc'[p])
         /\ proc[p].pc = "lock" /\ proc'[p].pc = proc[p].cmd.mode /\ proc'[p].pc \in Modes
         /\ proc'[p].cmd = proc[p].cmd /\ proc'[p].fd = proc[p].fd /\ proc'[p].t = now
         /\ proc'[p].buf = None /\ proc[p].buf = None /\ proc'[p].mine = {} /\ proc[p].mine = {}
         /\ proc'[p].out = proc[p].out /\ proc'[p].rc = 0 /\ proc[p].rc = 0
<1>1. Local(proc[p]) /\ now \in Nat /\ DOMAIN proc = Procs
  BY ClipStoreAssumption DEF Typed
<1>2. Others(p)
  BY <1>1 DEF Lock, Entered, Others
<1>3. proc'[p] = [proc[p] EXCEPT !.pc = proc[p].cmd.mode, !.t = now] /\ proc[p].pc = "lock"
  BY <1>1 DEF Lock, Entered, At
<1>4. /\ DOMAIN proc'[p] = Fields /\ proc'[p].pc = proc[p].cmd.mode
      /\ proc'[p].cmd = proc[p].cmd /\ proc'[p].fd = proc[p].fd
      /\ proc'[p].tmpFd = proc[p].tmpFd /\ proc'[p].t = now /\ proc'[p].buf = proc[p].buf
      /\ proc'[p].pos = proc[p].pos /\ proc'[p].live = proc[p].live
      /\ proc'[p].mine = proc[p].mine /\ proc'[p].out = proc[p].out
      /\ proc'[p].rc = proc[p].rc
  BY <1>1, <1>3 DEF Local, Fields
<1>5. proc[p].cmd.mode \in Modes
  BY <1>1, <1>3 DEF Local, Command
<1>6. Local(proc'[p])
  BY <1>1, <1>3, <1>4, <1>5 DEF Local, PCs, Modes, Codes, Compacting
<1>7. QED
  BY <1>1, <1>2, <1>3, <1>4, <1>5, <1>6 DEF Local, Codes

(* A row is submitted: its id is new, and it replaces those of its key. *)
LEMMA AppendRowIs ==
  ASSUME Typed, NEW p \in Procs, AppendRow(p), file' \in [Inodes -> Seq(Lines)]
  PROVE  /\ Carries(p)
         /\ proc[p].pc \in Stores /\ proc'[p].pc \in {"append", "flush"}
         /\ proc'[p].rc = 0 /\ proc[p].rc = 0 /\ proc'[p].out = proc[p].out
         /\ proc'[p].buf \in Rows /\ proc'[p].buf.key \in proc[p].cmd.keys
         /\ proc'[p].buf.id = serial + 1 /\ proc'[p].pos = Len(file'[proc[p].fd])
         /\ proc'[p].mine = {r \in proc[p].mine : r.key # proc'[p].buf.key} \cup {proc'[p].buf}
<1>1. Local(proc[p]) /\ DOMAIN proc = Procs /\ now \in Nat /\ serial \in Nat
  BY ClipStoreAssumption DEF Typed
<1>2. PICK k \in proc[p].cmd.keys : Buffered(p, NewRow(p, k), Len(file'[proc[p].fd]))
  BY DEF AppendRow
<1> DEFINE row == NewRow(p, k)
           pos == Len(file'[proc[p].fd])
<1>3. proc[p].pc \in Stores /\ proc[p].cmd \in Command /\ proc[p].fd \in Inodes /\ proc[p].rc = 0
  BY <1>1 DEF AppendRow, Storing, Stores, Local, Codes
<1>4. row \in Rows /\ row.key = k /\ row.id = serial + 1
  <2>1. proc[p].cmd.ttl \in Nat /\ k \in Keys /\ proc[p].t \in Nat
    BY <1>1, <1>3 DEF Command, Local
  <2>2. \A t \in Nat : Expiry(proc[p].cmd.ttl, t) \in Nat
    BY <2>1 DEF Expiry
  <2>3. serial + 1 \in Nat \ {0}
    BY <1>1
  <2>4. QED
    BY <1>1, <2>1, <2>2, <2>3 DEF NewRow, Rows
<1>5. pos \in Nat
  BY <1>3
<1> DEFINE kept == {r \in proc[p].mine : r.key # row.key} \cup {row}
           pc == IF proc[p].pc = "append" THEN "append" ELSE "flush"
<1>6. DOMAIN proc' = Procs /\ \A q \in Procs \ {p} : proc'[q] = proc[q]
  BY <1>1, <1>2 DEF Buffered
<1>7. proc'[p] = [proc[p] EXCEPT !.pc = pc, !.buf = row, !.pos = pos, !.mine = kept]
  BY <1>1, <1>2 DEF Buffered
<1>8. /\ kept \subseteq Rows /\ row \in kept /\ pc \in {"append", "flush"}
      /\ (pc = "append") => proc[p].pc = "append"
      /\ \A a, b \in kept : a.key = b.key => a = b
  BY <1>1, <1>3, <1>4 DEF Local
<1> HIDE DEF row, pos, kept, pc
<1>9. /\ DOMAIN proc'[p] = Fields /\ proc'[p].pc = pc /\ proc'[p].cmd = proc[p].cmd
      /\ proc'[p].fd = proc[p].fd /\ proc'[p].tmpFd = proc[p].tmpFd /\ proc'[p].t = proc[p].t
      /\ proc'[p].buf = row /\ proc'[p].pos = pos /\ proc'[p].live = proc[p].live
      /\ proc'[p].mine = kept /\ proc'[p].out = proc[p].out /\ proc'[p].rc = proc[p].rc
  BY <1>1, <1>7 DEF Local, Fields
<1>10. Local(proc'[p])
  BY <1>1, <1>3, <1>4, <1>5, <1>8, <1>9 DEF Local, PCs, Modes, Codes, Compacting, Stores
<1>11. Carries(p)
  BY <1>6, <1>9, <1>10 DEF Carries, Others
<1>12. QED
  BY <1>3, <1>4, <1>8, <1>9, <1>11 DEF row, pos, kept

-----------------------------------------------------------------------------
(* What the others keep.                                                   *)

(* The lock keeps all but one process before it. *)
LEMMA Sole ==
  ASSUME CInv, NEW p \in Procs, NEW q \in Procs, Past(p), Past(q)
  PROVE  p = q
<1>1. SUFFICES ASSUME p # q PROVE FALSE
  OBVIOUS
<1>2. Running(p) /\ Running(q)
  BY DEF Running, At, Past
<1>3. Opened(p) /\ Opened(q)
  BY DEF CInv
<1>4. proc[p].cmd.mode # "compact" /\ proc[q].cmd.mode # "compact"
  BY <1>1, <1>2, <1>3 DEF Opened
<1>5. proc[p].fd = db /\ proc[q].fd = db
  BY <1>2, <1>3, <1>4 DEF Opened
<1>6. owner[db] = p /\ owner[db] = q
  BY <1>5 DEF CInv, Locks
<1>7. QED
  BY <1>1, <1>6

(* A process before the lock has nothing at stake. *)
LEMMA Outside ==
  ASSUME NEW q \in Procs, Local(proc'[q]), proc'[q].pc \in {"idle", "lock"}
  PROVE  Orderly(q)'
<1>1. proc'[q].buf = None /\ proc'[q].mine = {} /\ proc'[q].pc \notin Compacting
  BY DEF Local, Compacting
<1>2. Rewriting(q)'
  BY <1>1 DEF Rewriting, Compacting
<1>3. Pending(q)'
  BY <1>1 DEF Pending
<1>4. Stored(q)'
  BY <1>1 DEF Stored
<1>5. QED
  BY <1>2, <1>3, <1>4 DEF Orderly

(* Nor does a process lose when its files stay as they are. *)
LEMMA Unmoved ==
  ASSUME NEW q \in Procs, Orderly(q), Typed, serial' = serial, proc'[q] = proc[q],
         db' = db, tmp' = tmp, file'[db] = file[db], tmp # None => file'[tmp] = file[tmp]
  PROVE  Orderly(q)'
<1>1. Rewriting(q)'
  BY DEF Orderly, Rewriting, Compacting
<1>2. Pending(q)'
  BY DEF Orderly, Pending
<1>3. Stored(q)'
  BY DEF Orderly, Stored
<1>4. QED
  BY <1>1, <1>2, <1>3 DEF Orderly

LEMMA OthersOrderly ==
  ASSUME CInv, NEW p \in Procs, Past(p), Others(p), Orderly(p)'
  PROVE  \A q \in Procs : Orderly(q)'
<1>1. SUFFICES ASSUME NEW q \in Procs, q # p PROVE Orderly(q)'
  OBVIOUS
<1>2. proc'[q] = proc[q] /\ Local(proc[q])
  BY <1>1 DEF Others, CInv, Typed
<1>3. proc[q].pc \in {"idle", "lock"}
  BY <1>1, Sole DEF Past
<1>4. QED
  BY <1>2, <1>3, Outside

LEMMA OthersTyped ==
  ASSUME Typed, NEW p \in Procs, Others(p), Local(proc'[p])
  PROVE  DOMAIN proc' = Procs /\ \A q \in Procs : Local(proc'[q])
BY DEF Typed, Others

(* Between the flock and its release the locks stay. *)
LEMMA CarriesLocks ==
  ASSUME Typed, Locks, NEW p \in Procs, Carries(p), Past(p), Past(p)', owner' = owner
  PROVE  Locks'
<1>1. \A q \in Procs : (Past(q)' <=> Past(q)) /\ proc'[q].fd = proc[q].fd
  BY DEF Carries, Others, Past
<1>2. \A i \in Inodes : owner[i] # None => owner[i] \in Procs
  BY DEF Typed
<1>3. QED
  BY <1>1, <1>2 DEF Locks, Past

LEMMA CarriesOpened ==
  ASSUME CInv, NEW p \in Procs, Carries(p), Past(p), Past(p)', db' = db, now' = now,
         proc[p].pc \in Ending => proc'[p].pc \in Ending
  PROVE  \A q \in Procs : Opened(q)'
<1>1. \A q \in Procs : /\ Running(q)' <=> Running(q)
                       /\ proc'[q].fd = proc[q].fd /\ proc'[q].cmd = proc[q].cmd
                       /\ proc'[q].t = proc[q].t
                       /\ proc[q].pc \in Ending => proc'[q].pc \in Ending
  BY DEF Carries, Others, Past, Running, At
<1>2. SUFFICES ASSUME NEW q \in Procs PROVE Opened(q)'
  OBVIOUS
<1>3. Opened(q)
  BY DEF CInv
<1>4. QED
  BY <1>1, <1>3 DEF Opened, Running, At

-----------------------------------------------------------------------------
(* Writing out the buffer.                                                 *)

(* A process that has the lock and does not compact has the database open. *)
LEMMA HasDb ==
  ASSUME CInv, NEW p \in Procs, Past(p), proc[p].cmd.mode # "compact"
  PROVE  proc[p].fd = db /\ db \in Inodes
<1>1. Running(p) /\ Opened(p)
  BY DEF Running, At, Past, CInv
<1>2. QED
  BY <1>1, NoneAssumption DEF Opened, CInv, Typed

LEMMA HasBuffer ==
  ASSUME CInv, NEW p \in Procs, proc[p].buf # None
  PROVE  /\ Past(p) /\ proc[p].cmd.mode \in Stores /\ proc[p].rc = 0
         /\ proc[p].fd = db /\ db \in Inodes
         /\ proc[p].buf \in Rows /\ proc[p].pos = Len(file[db]) /\ proc[p].buf.id <= serial
         /\ \A r \in RowsIn(file[db]) : r.id < proc[p].buf.id
<1>1. Local(proc[p]) /\ Pending(p)
  BY DEF CInv, Typed, Orderly
<1>2. Past(p) /\ proc[p].cmd.mode \in Stores /\ proc[p].rc = 0 /\ proc[p].buf \in Rows
  BY <1>1 DEF Local, Past
<1>3. QED
  BY <1>1, <1>2, HasDb DEF Pending, Stores

(* A row that is written out goes to the end of the database, or is lost   *)
(* with the torn line it follows.                                          *)
Landed(a, b, row) ==
  \/ b = Append(a, row)
  \/ /\ \E i \in 1..Len(a) : a[i] = Torn
     /\ Len(b) = Len(a)
     /\ \A k : LatestIn(b, k) = LatestIn(a, k)
     /\ RowsIn(b) \subseteq RowsIn(a)

LEMMA WriteOutIs ==
  ASSUME CInv, NEW p \in Procs, WriteOut(p), proc[p].buf # None
  PROVE  /\ file' \in [Inodes -> Seq(Lines)]
         /\ \A i \in Inodes \ {db} : file'[i] = file[i]
         /\ Landed(file[db], file'[db], proc[p].buf)
         /\ acked' = {r \in acked : r.key # proc[p].buf.key}
<1> DEFINE row == proc[p].buf
           more == WriteAt(file[db], Len(file[db]), row)
<1>1. proc[p].fd = db /\ db \in Inodes /\ row \in Rows /\ proc[p].pos = Len(file[db])
  BY HasBuffer
<1>2. file \in [Inodes -> Seq(Lines)] /\ file[db] \in Seq(Lines)
  BY <1>1 DEF CInv, Typed
<1>3. more \in Seq(Lines) /\ Landed(file[db], more, row)
  BY <1>1, <1>2, WriteAtEnd DEF Landed
<1>4. file' = [file EXCEPT ![db] = more] /\ acked' = {r \in acked : r.key # row.key}
  BY <1>1 DEF WriteOut
<1> HIDE DEF more
<1>5. file' \in [Inodes -> Seq(Lines)] /\ file'[db] = more /\ \A i \in Inodes \ {db} : file'[i] = file[i]
  BY <1>1, <1>2, <1>3, <1>4
<1>6. QED
  BY <1>3, <1>4, <1>5

LEMMA LandedRows ==
  ASSUME NEW a \in Seq(Lines), NEW b, NEW row \in Rows, Landed(a, b, row)
  PROVE  /\ RowsIn(b) \subseteq RowsIn(a) \cup {row}
         /\ \A k : LatestIn(b, k) \in {LatestIn(a, k), row}
         /\ \A k : k # row.key => LatestIn(b, k) = LatestIn(a, k)
         /\ (\A i \in 1..Len(a) : a[i] # Torn) =>
              /\ LatestIn(b, row.key) = row
              /\ \A i \in 1..Len(b) : b[i] # Torn
<1>1. CASE b = Append(a, row)
  <2>1. Len(b) = Len(a) + 1 /\ b[Len(a) + 1] = row /\ \A i \in 1..Len(a) : b[i] = a[i]
    BY <1>1 DEF Lines
  <2>2. RowsIn(b) \subseteq RowsIn(a) \cup {row}
    BY <2>1 DEF RowsIn
  <2>3. \A k : LatestIn(b, k) = IF row.key = k THEN row ELSE LatestIn(a, k)
    BY <1>1, LatestAppend
  <2>4. (\A i \in 1..Len(a) : a[i] # Torn) => \A i \in 1..Len(b) : b[i] # Torn
    BY <2>1, TornIsNoRow
  <2>5. QED
    BY <2>2, <2>3, <2>4
<1>2. CASE ~(b = Append(a, row))
  BY <1>2 DEF Landed
<1>3. QED
  BY <1>1, <1>2

LEMMA WriteFailsIs ==
  ASSUME CInv, NEW p \in Procs, WriteFails(p)
  PROVE  /\ DiskMayFill /\ acked' = acked /\ file' \in [Inodes -> Seq(Lines)]
         /\ \A i \in Inodes \ {db} : file'[i] = file[i]
         /\ \A k : LatestIn(file'[db], k) = LatestIn(file[db], k)
         /\ RowsIn(file'[db]) \subseteq RowsIn(file[db])
<1>1. DiskMayFill /\ proc[p].buf # None /\ acked' = acked
  BY DEF WriteFails
<1>2. proc[p].fd = db /\ db \in Inodes
  BY <1>1, HasBuffer
<1>3. file \in [Inodes -> Seq(Lines)] /\ file[db] \in Seq(Lines)
  BY <1>2 DEF CInv, Typed
<1>4. CASE file' = file
  BY <1>1, <1>3, <1>4
<1>5. CASE file' = [file EXCEPT ![db] = Append(file[db], Torn)]
  <2> DEFINE more == Append(file[db], Torn)
             n == Len(file[db])
  <2>1. /\ more \in Seq(Lines) /\ Len(more) = n + 1 /\ more[n + 1] = Torn /\ n \in Nat
        /\ \A i \in 1..n : more[i] = file[db][i]
    BY <1>3 DEF Lines
  <2>2. \A k : LatestIn(more, k) = LatestIn(file[db], k)
    BY <1>3, LatestAppendTorn
  <2> HIDE DEF more
  <2>3. RowsIn(more) \subseteq RowsIn(file[db])
    BY <2>1, TornIsNoRow DEF RowsIn, Parses
  <2>4. /\ file' \in [Inodes -> Seq(Lines)] /\ file'[db] = more
        /\ \A i \in Inodes \ {db} : file'[i] = file[i]
    BY <1>2, <1>3, <1>5, <2>1 DEF more
  <2>5. QED
    BY <1>1, <2>2, <2>3, <2>4 DEF more
<1>6. QED
  BY <1>2, <1>4, <1>5 DEF WriteFails

(* What every step that may write out the buffer does to the files. *)
Writes(p) ==
  /\ file' \in [Inodes -> Seq(Lines)]
  /\ \A i \in Inodes \ {db} : file'[i] = file[i]
  /\ acked' \subseteq acked
  /\ RowsIn(file'[db]) \subseteq RowsIn(file[db]) \cup ({proc[p].buf} \ {None})
  /\ proc[p].buf = None => file' = file
  /\ \A k : \/ LatestIn(file'[db], k) = LatestIn(file[db], k)
            \/ proc[p].buf # None /\ k = proc[p].buf.key /\ LatestIn(file'[db], k) = proc[p].buf
  /\ ~DiskMayFill /\ proc[p].buf # None =>
       /\ LatestIn(file'[db], proc[p].buf.key) = proc[p].buf
       /\ \A r \in acked' : r.key # proc[p].buf.key
  /\ ~DiskMayFill => \A i \in Inodes : \A n \in 1..Len(file'[i]) : file'[i][n] # Torn

LEMMA WritesIs ==
  ASSUME CInv, NEW p \in Procs, WriteOut(p) \/ WriteFails(p)
  PROVE  Writes(p)
<1>1. CASE WriteFails(p)
  BY <1>1, WriteFailsIs DEF Writes, WriteFails
<1>2. CASE WriteOut(p) /\ proc[p].buf = None
  <2>1. file' = file /\ acked' = acked
    BY <1>2 DEF WriteOut
  <2>2. QED
    BY <1>2, <2>1 DEF Writes, CInv, Typed, Whole
<1>3. CASE WriteOut(p) /\ proc[p].buf # None
  <2> DEFINE row == proc[p].buf
  <2>1. /\ file' \in [Inodes -> Seq(Lines)]
        /\ \A i \in Inodes \ {db} : file'[i] = file[i]
        /\ Landed(file[db], file'[db], row)
        /\ acked' = {r \in acked : r.key # row.key}
    BY <1>3, WriteOutIs
  <2>2. row \in Rows /\ db \in Inodes /\ file[db] \in Seq(Lines)
    BY <1>3, HasBuffer DEF CInv, Typed
  <2> HIDE DEF row
  <2>3. /\ RowsIn(file'[db]) \subseteq RowsIn(file[db]) \cup {row}
        /\ \A k : LatestIn(file'[db], k) \in {LatestIn(file[db], k), row}
        /\ \A k : k # row.key => LatestIn(file'[db], k) = LatestIn(file[db], k)
        /\ (\A i \in 1..Len(file[db]) : file[db][i] # Torn) =>
             /\ LatestIn(file'[db], row.key) = row
             /\ \A i \in 1..Len(file'[db]) : file'[db][i] # Torn
    BY <2>1, <2>2, LandedRows
  <2>4. ~DiskMayFill => \A i \in Inodes : \A n \in 1..Len(file[i]) : file[i][n] # Torn
    BY DEF CInv, Whole
  <2>5. ~DiskMayFill => \A i \in Inodes : \A n \in 1..Len(file'[i]) : file'[i][n] # Torn
    BY <2>1, <2>2, <2>3, <2>4
  <2>6. QED
    BY <1>3, <2>1, <2>2, <2>3, <2>4, <2>5 DEF Writes, row
<1>4. QED
  BY <1>1, <1>2, <1>3

-----------------------------------------------------------------------------
(* Each action keeps the invariant.                                        *)

LEMMA InsideCInv ==
  ASSUME CInv, NEW p \in Procs, Carries(p), Past(p), Past(p)',
         UNCHANGED <<db, owner, now, runs>>,
         proc[p].pc \in Ending => proc'[p].pc \in Ending,
         tmp' \in Inodes \cup {None}, tmp' # None => tmp' # db,
         file' \in [Inodes -> Seq(Lines)], serial' \in Nat, acked' \subseteq acked,
         Ids', Whole', Acked', Orderly(p)'
  PROVE  CInv'
<1>1. Typed' /\ Names'
  <2>1. DOMAIN proc' = Procs /\ \A q \in Procs : Local(proc'[q])
    BY OthersTyped DEF CInv, Carries
  <2>2. Typed'
    BY <2>1 DEF CInv, Typed
  <2>3. Names'
    BY DEF CInv, Names
  <2>4. QED
    BY <2>2, <2>3
<1>2. Locks'
  BY CarriesLocks DEF CInv
<1>3. \A q \in Procs : Opened(q)'
  BY CarriesOpened
<1>4. \A q \in Procs : Orderly(q)'
  BY OthersOrderly DEF Carries
<1>5. QED
  BY <1>1, <1>2, <1>3, <1>4 DEF CInv

LEMMA KeptFiles ==
  ASSUME CInv, UNCHANGED <<db, file, serial, acked, now>>
  PROVE  Ids' /\ Whole' /\ Acked' /\ file' \in [Inodes -> Seq(Lines)] /\ serial' \in Nat
<1>1. Ids' /\ Whole'
  BY DEF CInv, Ids, Whole
<1>2. Acked'
  BY DEF CInv, Acked
<1>3. QED
  BY <1>1, <1>2 DEF CInv, Typed

LEMMA QueryCInv ==
  ASSUME CInv, NEW p \in Procs, Query(p) \/ InputEnds(p) \/ Load(p)
  PROVE  CInv'
<1>1. Typed /\ UNCHANGED <<db, tmp, file, owner, now, serial, runs, acked>> /\ Orderly(p)
  BY DEF CInv, Query, InputEnds, Load, env
<1>2. /\ Carries(p) /\ Past(p) /\ Past(p)' /\ proc[p].pc \notin Ending
      /\ proc'[p].mine = proc[p].mine /\ proc'[p].rc = proc[p].rc
      /\ proc'[p].buf = proc[p].buf /\ (proc'[p].buf # None => proc'[p].pos = proc[p].pos)
      /\ proc'[p].pc \in {"flush", "openTmp"}
      /\ proc'[p].pc = "openTmp" =>
           /\ proc[p].pc = "compact"
           /\ proc'[p].live = LiveRows(file[proc[p].fd], Keys, proc[p].t)
  <2>1. CASE Query(p)
    BY <1>1, <2>1, QueryIs DEF Past, Ending
  <2>2. CASE InputEnds(p)
    BY <1>1, <2>2, InputEndsIs DEF Past, Ending
  <2>3. CASE Load(p)
    BY <1>1, <2>3, LoadIs DEF Past, Ending
  <2>4. QED
    BY <2>1, <2>2, <2>3
<1>3. Orderly(p)'
  <2>1. proc'[p].pc = "openTmp" => proc[p].fd = db
    BY <1>2 DEF CInv, Opened, Running, At, Ending
  <2>2. Rewriting(p)'
    BY <1>1, <1>2, <2>1 DEF Rewriting, Compacting, Carries
  <2>3. Pending(p)'
    BY <1>1, <1>2 DEF Orderly, Pending
  <2>4. Stored(p)'
    BY <1>1, <1>2 DEF Orderly, Stored
  <2>5. QED
    BY <2>2, <2>3, <2>4 DEF Orderly
<1>4. tmp' \in Inodes \cup {None} /\ (tmp' # None => tmp' # db) /\ acked' \subseteq acked
  BY <1>1 DEF CInv, Typed, Names
<1>5. QED
  BY <1>1, <1>2, <1>3, <1>4, KeptFiles, InsideCInv

(* A compaction is alone, so that the path of its .tmp is its own. *)
LEMMA CompactingIs ==
  ASSUME CInv, NEW p \in Procs, proc[p].pc \in Compacting
  PROVE  /\ Past(p) /\ db \in Inodes /\ proc[p].fd = db /\ proc[p].t <= now
         /\ \A q \in Procs \ {p} : ~Running(q)
         /\ proc[p].rc = 0 /\ proc[p].buf = None /\ proc[p].mine = {}
         /\ proc[p].live = LiveRows(file[db], Keys, proc[p].t)
         /\ proc[p].cmd.mode = "compact"
<1>1. Local(proc[p]) /\ Opened(p) /\ Rewriting(p)
  BY DEF CInv, Typed, Orderly
<1>2. /\ Past(p) /\ Running(p) /\ proc[p].cmd.mode = "compact" /\ proc[p].pc \notin Ending
      /\ proc[p].fd \in Inodes
  BY <1>1 DEF Local, Past, Running, At, Compacting, Ending
<1>3. proc[p].rc = 0 /\ proc[p].buf = None /\ proc[p].mine = {}
  BY <1>1, <1>2 DEF Local, Codes, Compacting, Stores
<1>4. QED
  BY <1>1, <1>2, <1>3 DEF Opened, Rewriting

LEMMA FreshIs ==
  ASSUME NEW S, InUse \subseteq S, NEW a, NEW b, S = {a, b, None}, NEW p \in Procs
  PROVE  Fresh \in Inodes /\ Fresh \notin InUse
<1>1. Cardinality(Procs) \in Nat /\ Cardinality(Procs) # 0
  BY ClipStoreAssumption, FS_CardinalityType, FS_EmptySet
<1>2. {1, 2, 3} \subseteq Inodes
  BY <1>1 DEF Inodes
<1>3. \E i \in {1, 2, 3} : i \notin {a, b}
  OBVIOUS
<1>4. \E i \in Inodes : i \notin InUse
  BY <1>2, <1>3, NoneAssumption
<1>5. QED
  BY <1>4 DEF Fresh

(* The rest of a step of a compaction. *)
LEMMA CompactingOrderly ==
  ASSUME CInv, NEW p \in Procs, Carries(p), proc'[p].buf = None, proc'[p].mine = {}, Rewriting(p)'
  PROVE  Orderly(p)'
BY DEF Orderly, Pending, Stored

LEMMA OpenTmpIno ==
  ASSUME CInv, NEW p \in Procs, OpenTmp(p)
  PROVE  tmp' \in Inodes /\ tmp' # db
<1>1. proc[p].pc \in Compacting
  BY DEF OpenTmp, At, Compacting
<1>2. /\ \A q \in Procs \ {p} : ~Running(q)
      /\ proc[p].fd = db
  BY <1>1, CompactingIs
<1>3. CASE tmp # None
  BY <1>3 DEF OpenTmp, CInv, Typed, Names
<1>4. CASE tmp = None
  <2>1. \A q \in Procs : proc[q].tmpFd = None /\ proc[q].fd \in {db, None}
    <3>1. \A q \in Procs : Local(proc[q])
      BY DEF CInv, Typed
    <3>2. proc[p].tmpFd = None
      BY <3>1 DEF Local, OpenTmp, At
    <3>3. \A q \in Procs \ {p} : proc[q].tmpFd = None /\ proc[q].fd = None
      BY <1>2, <3>1 DEF Local, Running, At
    <3>4. QED
      BY <1>2, <3>2, <3>3
  <2>2. InUse \subseteq {db, db, None}
    BY <1>4, <2>1 DEF InUse
  <2>3. Fresh \in Inodes /\ Fresh \notin InUse
    BY <2>2, FreshIs
  <2>4. QED
    BY <1>4, <2>3 DEF OpenTmp, InUse
<1>5. QED
  BY <1>3, <1>4

LEMMA OpenTmpCInv ==
  ASSUME CInv, NEW p \in Procs, OpenTmp(p)
  PROVE  CInv'
<1>1. tmp' \in Inodes /\ tmp' # db /\ Typed
  BY OpenTmpIno DEF CInv
<1>2. /\ Carries(p) /\ proc[p].pc = "openTmp" /\ proc'[p].pc = "flushTmp"
      /\ proc'[p].tmpFd = tmp' /\ proc'[p].live = proc[p].live
      /\ proc'[p].buf = None /\ proc'[p].mine = {}
  BY <1>1, OpenTmpIs
<1>3. /\ Past(p) /\ db \in Inodes /\ proc[p].live = LiveRows(file[db], Keys, proc[p].t)
  BY <1>2, CompactingIs DEF Compacting
<1>4. UNCHANGED <<db, owner, now, serial, runs, acked>> /\ file' = [file EXCEPT ![tmp'] = <<>>]
  BY DEF OpenTmp, env
<1>5. file \in [Inodes -> Seq(Lines)] /\ serial \in Nat
  BY <1>1 DEF Typed
<1>6. /\ file' \in [Inodes -> Seq(Lines)] /\ file'[db] = file[db] /\ file'[tmp'] = <<>>
      /\ \A i \in Inodes : file'[i] = file[i] \/ file'[i] = <<>>
  BY <1>1, <1>3, <1>4, <1>5
<1>7. Ids' /\ Acked'
  BY <1>4, <1>6 DEF CInv, Ids, Acked
<1>8. Whole'
  BY <1>6 DEF CInv, Whole
<1>9. Rewriting(p)'
  BY <1>1, <1>2, <1>3, <1>4, <1>6, NoneAssumption DEF Rewriting, Carries
<1>10. Orderly(p)'
  BY <1>2, <1>9, CompactingOrderly
<1>11. Past(p)' /\ proc[p].pc \notin Ending
  BY <1>2 DEF Past, Ending
<1>12. QED
  BY <1>1, <1>2, <1>3, <1>4, <1>5, <1>6, <1>7, <1>8, <1>10, <1>11, InsideCInv

(* What compaction writes: one live row per key, the latest. *)
LEMMA SetToSeqIs ==
  ASSUME NEW S, IsFiniteSet(S)
  PROVE  /\ SetToSeq(S) \in Seq(S)
         /\ \A i, j \in 1..Len(SetToSeq(S)) : SetToSeq(S)[i] = SetToSeq(S)[j] => i = j
         /\ \A x \in S : \E i \in 1..Len(SetToSeq(S)) : SetToSeq(S)[i] = x
<1> DEFINE n == Cardinality(S)
           s == SetToSeq(S)
<1>1. n \in Nat /\ ExistsBijection(1..n, S)
  BY FS_CardinalityType
<1>2. \E f \in [1..n -> S] : IsInjective(f)
  BY <1>1 DEF ExistsBijection, Bijection, Injection
<1>3. s \in [1..n -> S] /\ IsInjective(s)
  BY <1>2 DEF SetToSeq
<1>4. s \in Injection(1..n, S)
  BY <1>3 DEF Injection
<1>5. Cardinality(1..n) = n /\ IsFiniteSet(1..n)
  BY <1>1, FS_Interval
<1>6. s \in Surjection(1..n, S)
  BY <1>4, <1>5, FS_Injection
<1> HIDE DEF s, n
<1>7. s \in Seq(S) /\ Len(s) = n
  BY <1>1, <1>3
<1>8. \A i, j \in 1..n : s[i] = s[j] => i = j
  BY <1>3 DEF IsInjective
<1>9. \A x \in S : \E i \in 1..n : s[i] = x
  BY <1>6 DEF Surjection
<1>10. QED
  BY <1>7, <1>8, <1>9 DEF s

LEMMA LiveFinite ==
  ASSUME NEW lines, NEW t
  PROVE  IsFiniteSet(LiveRows(lines, Keys, t))
<1> DEFINE D == {k \in Keys : RowIsLive(LatestIn(lines, k), t)}
           f == [k \in D |-> LatestIn(lines, k)]
           L == LiveRows(lines, Keys, t)
<1>1. IsFiniteSet(D)
  BY ClipStoreAssumption, FS_Subset
<1>2. L = {LatestIn(lines, k) : k \in D}
  BY DEF LiveRows
<1>3. f \in [D -> L] /\ \A x \in L : \E k \in D : f[k] = x
  BY <1>2
<1>4. f \in Surjection(D, L)
  BY <1>3 DEF Surjection
<1>5. QED
  BY <1>1, <1>4, FS_Surjection

LEMMA CompactedIs ==
  ASSUME NEW lines \in Seq(Lines), NEW t, NEW s, s = SetToSeq(LiveRows(lines, Keys, t))
  PROVE  /\ s \in Seq(Lines)
         /\ \A i \in 1..Len(s) : s[i] \in Rows /\ RowIsLive(s[i], t)
         /\ \A i, j \in 1..Len(s) : s[i].key = s[j].key => i = j
         /\ RowsIn(s) \subseteq RowsIn(lines)
         /\ \A k \in Keys : LatestIn(s, k) = IF RowIsLive(LatestIn(lines, k), t)
                                             THEN LatestIn(lines, k) ELSE None
<1> DEFINE L == LiveRows(lines, Keys, t)
<1>1. /\ s \in Seq(L)
      /\ \A i, j \in 1..Len(s) : s[i] = s[j] => i = j
      /\ \A x \in L : \E i \in 1..Len(s) : s[i] = x
  BY LiveFinite, SetToSeqIs
<1>2. \A x \in L : /\ x \in Rows /\ RowIsLive(x, t) /\ x.key \in Keys
                   /\ x = LatestIn(lines, x.key) /\ x \in RowsIn(lines)
  <2>1. SUFFICES ASSUME NEW k \in Keys, RowIsLive(LatestIn(lines, k), t)
                 PROVE  /\ LatestIn(lines, k) \in Rows /\ LatestIn(lines, k).key = k
                        /\ LatestIn(lines, k) \in RowsIn(lines)
    BY DEF LiveRows
  <2>2. LatestIn(lines, k) # None
    BY <2>1 DEF RowIsLive
  <2>3. QED
    BY <2>2, LatestTyped
<1>3. \A k \in Keys : RowIsLive(LatestIn(lines, k), t) => LatestIn(lines, k) \in L
  BY DEF LiveRows
<1> HIDE DEF L
<1>4. Len(s) \in Nat /\ \A i \in 1..Len(s) : s[i] \in L
  BY <1>1
<1>5. s \in Seq(Lines)
  <2>1. L \subseteq Lines
    BY <1>2 DEF Lines
  <2>2. QED
    BY <1>1, <2>1, SeqMonotonic
<1>6. \A i, j \in 1..Len(s) : s[i].key = s[j].key => i = j
  BY <1>1, <1>2, <1>4
<1>7. RowsIn(s) \subseteq RowsIn(lines)
  BY <1>2, <1>4 DEF RowsIn
<1>8. ASSUME NEW k \in Keys
      PROVE  LatestIn(s, k) = IF RowIsLive(LatestIn(lines, k), t) THEN LatestIn(lines, k) ELSE None
  <2>1. CASE RowIsLive(LatestIn(lines, k), t)
    <3>1. LatestIn(lines, k) \in L /\ LatestIn(lines, k) \in Rows /\ LatestIn(lines, k).key = k
      <4>1. LatestIn(lines, k) \in L
        BY <1>3, <2>1
      <4>2. LatestIn(lines, k) # None
        BY <1>2, <4>1, NoneAssumption
      <4>3. QED
        BY <4>1, <4>2, LatestTyped
    <3>2. PICK i \in 1..Len(s) : s[i] = LatestIn(lines, k)
      BY <1>1, <3>1 DEF L
    <3>3. Matches(s, k) = {i}
      BY <1>4, <1>6, <3>1, <3>2 DEF Matches, Parses
    <3>4. i \in Matches(s, k) /\ \A j \in Matches(s, k) : j <= i
      BY <1>4, <3>3
    <3>5. LatestIn(s, k) = s[i]
      BY <1>5, <3>4, LatestIs
    <3>6. QED
      BY <2>1, <3>2, <3>5
  <2>2. CASE ~RowIsLive(LatestIn(lines, k), t)
    <3>1. Matches(s, k) = {}
      BY <1>2, <1>4, <2>2 DEF Matches
    <3>2. QED
      BY <1>5, <2>2, <3>1, NoneLatest
  <2>3. QED
    BY <2>1, <2>2
<1>9. QED
  BY <1>2, <1>4, <1>5, <1>6, <1>7, <1>8

LEMMA FlushTmpCInv ==
  ASSUME CInv, NEW p \in Procs, FlushTmp(p)
  PROVE  CInv'
<1>1. Typed /\ Rewriting(p) /\ Names
  BY DEF CInv, Orderly
<1>2. /\ Carries(p) /\ proc[p].pc = "flushTmp" /\ proc'[p].pc = "rename"
      /\ proc'[p].live = proc[p].live /\ proc'[p].buf = None /\ proc'[p].mine = {}
  BY <1>1, FlushTmpIs
<1>3. /\ Past(p) /\ db \in Inodes /\ proc[p].live = LiveRows(file[db], Keys, proc[p].t)
  BY <1>2, CompactingIs DEF Compacting
<1>4. /\ UNCHANGED <<db, tmp, owner, now, serial, runs, acked>>
      /\ file' = [file EXCEPT ![proc[p].tmpFd] = @ \o SetToSeq(proc[p].live)]
  BY DEF FlushTmp, env
<1>5. /\ file \in [Inodes -> Seq(Lines)] /\ serial \in Nat
      /\ tmp \in Inodes /\ proc[p].tmpFd = tmp /\ file[tmp] = <<>> /\ tmp # db
  BY <1>1, <1>2 DEF Typed, Rewriting, Names
<1> DEFINE s == SetToSeq(proc[p].live)
<1>6. /\ s \in Seq(Lines) /\ \A i \in 1..Len(s) : s[i] \in Rows
  <2>1. file[db] \in Seq(Lines)
    BY <1>3, <1>5
  <2>2. QED
    BY <1>3, <2>1, CompactedIs
<1> HIDE DEF s
<1>7. <<>> \o s = s
  BY <1>6
<1>8. file' = [file EXCEPT ![tmp] = s]
  BY <1>4, <1>5, <1>7 DEF s
<1>9. /\ file' \in [Inodes -> Seq(Lines)] /\ file'[db] = file[db] /\ file'[tmp] = s
      /\ \A i \in Inodes : file'[i] = file[i] \/ file'[i] = s
  BY <1>3, <1>5, <1>6, <1>8
<1>10. Ids' /\ Acked'
  BY <1>4, <1>9 DEF CInv, Ids, Acked
<1>11. Whole'
  BY <1>6, <1>9, TornIsNoRow DEF CInv, Whole
<1>12. Rewriting(p)'
  BY <1>2, <1>3, <1>4, <1>5, <1>9, NoneAssumption DEF Rewriting, Carries, s
<1>13. Orderly(p)'
  BY <1>2, <1>12, CompactingOrderly
<1>14. Past(p)' /\ proc[p].pc \notin Ending
  BY <1>2 DEF Past, Ending
<1>15. QED
  BY <1>1, <1>2, <1>3, <1>4, <1>5, <1>9, <1>10, <1>11, <1>13, <1>14, InsideCInv DEF Typed

LEMMA CommandFailsCInv ==
  ASSUME CInv, NEW p \in Procs, CommandFails(p)
  PROVE  CInv'
<1>1. Typed /\ Names
  BY DEF CInv
<1>2. /\ Carries(p) /\ Past(p) /\ Past(p)' /\ proc[p].pc \notin Ending /\ proc'[p].pc = "flush"
      /\ proc'[p].buf = None /\ proc'[p].mine = {}
  BY <1>1, CommandFailsIs DEF Past, Ending
<1>3. UNCHANGED <<db, file, owner, now, serial, runs, acked>> /\ tmp' \in {tmp, None}
  BY DEF CommandFails, env
<1>4. Rewriting(p)'
  BY <1>2 DEF Rewriting, Compacting
<1>5. Orderly(p)'
  BY <1>2, <1>4, CompactingOrderly
<1>6. tmp' \in Inodes \cup {None} /\ (tmp' # None => tmp' # db)
  BY <1>1, <1>3 DEF Typed, Names
<1>7. QED
  BY <1>2, <1>3, <1>5, <1>6, KeptFiles, InsideCInv

(* A row that is not live when compaction has the lock is not live later. *)
LEMMA DeadStaysDead ==
  ASSUME NEW r \in Rows, NEW t \in Nat, NEW u \in Nat, t <= u, ~RowIsLive(r, t)
  PROVE  ~RowIsLive(r, u)
<1>1. r.exp \in Nat /\ r # None
  BY NoneAssumption DEF Rows
<1>2. QED
  BY <1>1 DEF RowIsLive, Expired

LEMMA RenameIno ==
  ASSUME CInv, NEW p \in Procs, Rename(p)
  PROVE  /\ db \in Inodes /\ db' \in Inodes /\ db' # db /\ db' = tmp /\ file' = file
         /\ file[db] \in Seq(Lines) /\ proc[p].t \in Nat /\ now \in Nat /\ proc[p].t <= now
         /\ file[db'] = SetToSeq(LiveRows(file[db], Keys, proc[p].t))
<1>1. Typed /\ Rewriting(p) /\ Names /\ Local(proc[p])
  BY DEF CInv, Orderly, Typed
<1>2. proc[p].pc = "rename"
  BY DEF Rename, At
<1>3. /\ db \in Inodes /\ proc[p].live = LiveRows(file[db], Keys, proc[p].t) /\ proc[p].t <= now
  BY <1>2, CompactingIs DEF Compacting
<1>4. db' = tmp /\ tmp # None /\ file' = file
  BY DEF Rename, Renamed
<1>5. QED
  BY <1>1, <1>2, <1>3, <1>4, ClipStoreAssumption DEF Typed, Rewriting, Names, Local

(* A compaction forgets what no query could return. *)
LEMMA RenameKv ==
  ASSUME CInv, NEW p \in Procs, Rename(p), NEW k \in Keys
  PROVE  \/ LatestIn(file'[db'], k) = LatestIn(file[db], k)
         \/ LatestIn(file'[db'], k) = None /\ ~RowIsLive(LatestIn(file[db], k), now)
<1>1. /\ db' \in Inodes /\ file' = file /\ file[db] \in Seq(Lines)
      /\ proc[p].t \in Nat /\ now \in Nat /\ proc[p].t <= now
      /\ file[db'] = SetToSeq(LiveRows(file[db], Keys, proc[p].t))
  BY RenameIno
<1>2. LatestIn(file'[db'], k) = IF RowIsLive(LatestIn(file[db], k), proc[p].t)
                                THEN LatestIn(file[db], k) ELSE None
  BY <1>1, CompactedIs
<1>3. LatestIn(file[db], k) \in Rows \cup {None}
  BY <1>1, LatestTyped
<1>4. ~RowIsLive(LatestIn(file[db], k), proc[p].t) => ~RowIsLive(LatestIn(file[db], k), now)
  <2>1. CASE LatestIn(file[db], k) = None
    BY <2>1 DEF RowIsLive
  <2>2. CASE LatestIn(file[db], k) \in Rows
    BY <1>1, <2>2, DeadStaysDead
  <2>3. QED
    BY <1>3, <2>1, <2>2
<1>5. QED
  BY <1>2, <1>4

LEMMA RenameCInv ==
  ASSUME CInv, NEW p \in Procs, Rename(p)
  PROVE  CInv'
<1>1. Typed /\ Locks /\ Acked
  BY DEF CInv
<1>2. /\ Carries(p) /\ proc[p].pc = "rename" /\ proc'[p].pc = "flush"
      /\ proc'[p].buf = None /\ proc'[p].mine = {}
  BY <1>1, RenameIs
<1>3. /\ Past(p) /\ \A q \in Procs \ {p} : ~Running(q)
      /\ proc[p].cmd.mode = "compact"
  BY <1>2, CompactingIs DEF Compacting
<1>4. UNCHANGED <<file, owner, now, serial, runs, acked>> /\ tmp' = None
  BY DEF Rename, Renamed, env
<1>5. /\ db \in Inodes /\ db' \in Inodes /\ file[db] \in Seq(Lines)
      /\ proc[p].t \in Nat /\ now \in Nat /\ proc[p].t <= now
      /\ file'[db'] = SetToSeq(LiveRows(file[db], Keys, proc[p].t))
  BY RenameIno
<1>6. Typed' /\ Names'
  <2>1. DOMAIN proc' = Procs /\ \A q \in Procs : Local(proc'[q])
    BY <1>1, <1>2, OthersTyped DEF Carries
  <2>2. Typed'
    BY <1>1, <1>4, <1>5, <2>1 DEF Typed
  <2>3. Names'
    BY <1>4, <1>5, NoneAssumption DEF Names
  <2>4. QED
    BY <2>2, <2>3
<1>7. Past(p)'
  BY <1>2 DEF Past
<1>8. Locks'
  BY <1>1, <1>2, <1>3, <1>4, <1>7, CarriesLocks
<1>9. Ids'
  <2>1. RowsIn(file'[db']) \subseteq RowsIn(file[db])
    BY <1>5, CompactedIs
  <2>2. QED
    BY <1>4, <1>5, <2>1, NoneAssumption DEF CInv, Ids
<1>10. Whole'
  BY <1>4 DEF CInv, Whole
<1>11. Acked'
  <2>1. SUFFICES ASSUME ~DiskMayFill, NEW r \in acked
                 PROVE  \/ LatestIn(file'[db'], r.key) = r
                        \/ LatestIn(file'[db'], r.key) = None /\ ~RowIsLive(r, now)
    BY <1>4 DEF Acked
  <2>2. r \in Rows /\ r.key \in Keys
    BY <1>1 DEF Typed, Rows
  <2>3. \/ LatestIn(file[db], r.key) = r
        \/ LatestIn(file[db], r.key) = None /\ ~RowIsLive(r, now)
    BY <1>1, <2>1 DEF Acked
  <2>4. QED
    BY <2>2, <2>3, RenameKv
<1>12. \A q \in Procs : Opened(q)'
  <2>1. Opened(p)'
    <3>1. \A q \in Procs \ {p} : ~Running(q)'
      BY <1>2, <1>3 DEF Carries, Others, Running, At
    <3>2. QED
      BY <1>2, <1>3, <1>4, <1>5, <3>1, NoneAssumption DEF Opened, Carries, Ending
  <2>2. ASSUME NEW q \in Procs, q # p PROVE Opened(q)'
    BY <1>2, <1>3, <2>2 DEF Opened, Carries, Others, Running, At
  <2>3. QED
    BY <2>1, <2>2
<1>13. \A q \in Procs : Orderly(q)'
  <2>1. Rewriting(p)'
    BY <1>2 DEF Rewriting, Compacting
  <2>2. Orderly(p)'
    BY <1>2, <2>1, CompactingOrderly
  <2>3. QED
    BY <1>2, <1>3, <2>2, OthersOrderly DEF Carries
<1>14. QED
  BY <1>6, <1>8, <1>9, <1>10, <1>11, <1>12, <1>13 DEF CInv

(* The steps that write out the buffer. *)
LEMMA WritesKeep ==
  ASSUME CInv, NEW p \in Procs, Writes(p), UNCHANGED <<db, now>>, serial' \in {serial, serial + 1}
  PROVE  /\ Ids' /\ Whole' /\ Acked' /\ serial' \in Nat
         /\ db # None => \A r \in RowsIn(file'[db]) : r \in Rows /\ r.id <= serial
<1>1. serial \in Nat /\ serial' \in Nat /\ serial <= serial'
  BY DEF CInv, Typed
<1>2. \A a : RowsIn(a) \subseteq Rows
  BY DEF RowsIn, Parses
<1>3. proc[p].buf # None => proc[p].buf \in Rows /\ proc[p].buf.id <= serial
  BY HasBuffer
<1>4. db # None => \A r \in RowsIn(file'[db]) : r \in Rows /\ r.id <= serial
  BY <1>2, <1>3 DEF Writes, CInv, Ids
<1>5. Ids'
  BY <1>1, <1>4 DEF Ids, Rows
<1>6. Whole'
  BY DEF Writes, Whole
<1>7. Acked'
  BY DEF Writes, CInv, Acked
<1>8. QED
  BY <1>1, <1>4, <1>5, <1>6, <1>7

LEMMA WritesStore ==
  ASSUME CInv, NEW p \in Procs, Writes(p), ~DiskMayFill, proc[p].rc = 0, NEW r \in proc[p].mine
  PROVE  LatestIn(file'[db], r.key) = r
<1>1. Stored(p) /\ Local(proc[p])
  BY DEF CInv, Orderly, Typed
<1>2. CASE r = proc[p].buf
  <2>1. proc[p].buf # None
    BY <1>1, <1>2, NoneAssumption DEF Local
  <2>2. QED
    BY <1>2, <2>1 DEF Writes
<1>3. CASE r # proc[p].buf
  <2>1. LatestIn(file[db], r.key) = r
    BY <1>1, <1>3 DEF Stored
  <2>2. proc[p].buf # None => proc[p].buf.key # r.key
    BY <1>1, <1>3 DEF Local
  <2>3. QED
    BY <2>1, <2>2 DEF Writes
<1>4. QED
  BY <1>2, <1>3

LEMMA AppendRowCInv ==
  ASSUME CInv, NEW p \in Procs, AppendRow(p)
  PROVE  CInv'
<1>1. Typed /\ UNCHANGED <<db, tmp, owner, now, runs>> /\ serial' = serial + 1 /\ WriteOut(p)
  BY DEF CInv, AppendRow
<1>2. Writes(p)
  BY <1>1, WritesIs
<1>3. file' \in [Inodes -> Seq(Lines)] /\ acked' \subseteq acked
  BY <1>2 DEF Writes
<1>4. /\ Carries(p) /\ proc[p].pc \in Stores /\ proc'[p].pc \in {"append", "flush"} /\ proc[p].rc = 0
      /\ proc'[p].buf \in Rows /\ proc'[p].buf.id = serial + 1
      /\ proc'[p].pos = Len(file'[proc[p].fd])
      /\ proc'[p].mine = {r \in proc[p].mine : r.key # proc'[p].buf.key} \cup {proc'[p].buf}
  BY <1>1, <1>3, AppendRowIs
<1>5. Past(p) /\ Past(p)' /\ proc[p].pc \notin Ending /\ proc[p].cmd.mode # "compact"
  BY <1>1, <1>4 DEF Past, Ending, Stores, Typed, Local, Modes
<1>6. proc[p].fd = db /\ db \in Inodes
  BY <1>5, HasDb
<1>7. /\ Ids' /\ Whole' /\ Acked' /\ serial' \in Nat
      /\ db # None => \A r \in RowsIn(file'[db]) : r \in Rows /\ r.id <= serial
  BY <1>1, <1>2, WritesKeep
<1>8. Orderly(p)'
  <2>1. Rewriting(p)'
    BY <1>4 DEF Rewriting, Compacting
  <2>2. Pending(p)'
    <3>1. \A r \in RowsIn(file'[db]) : r.id < serial + 1
      BY <1>1, <1>6, <1>7, NoneAssumption DEF Typed, Rows
    <3>2. serial + 1 <= serial'
      BY <1>1, <1>7
    <3>3. QED
      BY <1>1, <1>4, <1>6, <3>1, <3>2 DEF Pending
  <2>3. Stored(p)'
    BY <1>1, <1>2, <1>4, WritesStore DEF Stored
  <2>4. QED
    BY <2>1, <2>2, <2>3 DEF Orderly
<1>9. tmp' \in Inodes \cup {None} /\ (tmp' # None => tmp' # db)
  BY <1>1 DEF CInv, Typed, Names
<1>10. QED
  BY <1>1, <1>3, <1>4, <1>5, <1>7, <1>8, <1>9, InsideCInv

LEMMA AppendFailsCInv ==
  ASSUME CInv, NEW p \in Procs, AppendFails(p)
  PROVE  CInv'
<1>1. /\ Typed /\ UNCHANGED <<db, tmp, owner, now, serial, runs>>
      /\ WriteOut(p) \/ WriteFails(p)
  BY DEF CInv, AppendFails
<1>2. Writes(p)
  BY <1>1, WritesIs
<1>3. file' \in [Inodes -> Seq(Lines)] /\ acked' \subseteq acked
  BY <1>2 DEF Writes
<1>4. /\ Carries(p) /\ proc[p].pc \in Stores /\ proc'[p].pc = "flush" /\ proc'[p].rc = 1
      /\ proc'[p].buf = None
  BY <1>1, AppendFailsIs
<1>5. Past(p) /\ Past(p)' /\ proc[p].pc \notin Ending
  BY <1>4 DEF Past, Ending, Stores
<1>6. Ids' /\ Whole' /\ Acked' /\ serial' \in Nat
  BY <1>1, <1>2, WritesKeep
<1>7. Orderly(p)'
  BY <1>4 DEF Orderly, Rewriting, Compacting, Pending, Stored
<1>8. tmp' \in Inodes \cup {None} /\ (tmp' # None => tmp' # db)
  BY <1>1 DEF CInv, Typed, Names
<1>9. QED
  BY <1>1, <1>3, <1>4, <1>5, <1>6, <1>7, <1>8, InsideCInv

LEMMA FlushCInv ==
  ASSUME CInv, NEW p \in Procs, Flush(p) \/ FlushFails(p)
  PROVE  CInv'
<1>1. /\ Typed /\ UNCHANGED <<db, tmp, owner, now, serial, runs>>
      /\ WriteOut(p) \/ WriteFails(p)
  BY DEF CInv, Flush, FlushFails
<1>2. Writes(p)
  BY <1>1, WritesIs
<1>3. file' \in [Inodes -> Seq(Lines)] /\ acked' \subseteq acked
  BY <1>2 DEF Writes
<1>4. /\ Carries(p) /\ proc[p].pc = "flush" /\ proc'[p].pc = "close" /\ proc'[p].rc = proc[p].rc
      /\ proc'[p].buf = None /\ proc'[p].mine = proc[p].mine
  BY <1>1, FlushIs
<1>5. Past(p) /\ Past(p)' /\ proc'[p].pc \in Ending
  BY <1>4 DEF Past, Ending
<1>6. Ids' /\ Whole' /\ Acked' /\ serial' \in Nat
  BY <1>1, <1>2, WritesKeep
<1>7. Orderly(p)'
  <2>1. Rewriting(p)' /\ Pending(p)'
    BY <1>4 DEF Rewriting, Compacting, Pending
  <2>2. Stored(p)'
    BY <1>1, <1>2, <1>4, WritesStore DEF Stored
  <2>3. QED
    BY <2>1, <2>2 DEF Orderly
<1>8. tmp' \in Inodes \cup {None} /\ (tmp' # None => tmp' # db)
  BY <1>1 DEF CInv, Typed, Names
<1>9. QED
  BY <1>1, <1>3, <1>4, <1>5, <1>6, <1>7, <1>8, InsideCInv

LEMMA LockCInv ==
  ASSUME CInv, NEW p \in Procs, Lock(p)
  PROVE  CInv'
<1>1. Typed /\ Locks
  BY DEF CInv
<1>2. /\ Others(p) /\ Local(proc'[p])
      /\ proc[p].pc = "lock" /\ proc'[p].pc = proc[p].cmd.mode /\ proc'[p].pc \in Modes
      /\ proc'[p].cmd = proc[p].cmd /\ proc'[p].fd = proc[p].fd /\ proc'[p].t = now
      /\ proc'[p].buf = None /\ proc'[p].mine = {}
  BY <1>1, LockIs
<1>3. /\ UNCHANGED <<db, tmp, file, now, serial, runs, acked>>
      /\ owner[proc[p].fd] = None /\ owner' = [owner EXCEPT ![proc[p].fd] = p]
  BY DEF Lock, env
<1>4. Running(p) /\ Opened(p) /\ proc[p].fd \in Inodes
  BY <1>1, <1>2 DEF CInv, Running, At, Typed, Local
<1>5. Typed'
  <2>1. DOMAIN proc' = Procs /\ \A q \in Procs : Local(proc'[q])
    BY <1>1, <1>2, OthersTyped
  <2>2. owner' \in [Inodes -> Procs \cup {None}]
    BY <1>1, <1>3, <1>4 DEF Typed
  <2>3. QED
    BY <1>1, <1>3, <2>1, <2>2 DEF Typed
<1>6. Locks'
  <2>1. \A q \in Procs \ {p} : proc'[q] = proc[q]
    BY <1>2 DEF Others
  <2>2. ~Past(p) /\ Past(p)'
    BY <1>2 DEF Past, Modes
  <2>3. owner'[proc[p].fd] = p /\ \A i \in Inodes : i # proc[p].fd => owner'[i] = owner[i]
    BY <1>1, <1>3, <1>4 DEF Typed
  <2>4. \A q \in Procs : Past(q)' => owner'[proc'[q].fd] = q
    <3>1. SUFFICES ASSUME NEW q \in Procs, q # p, Past(q)' PROVE owner'[proc'[q].fd] = q
      BY <1>2, <2>3
    <3>2. Past(q) /\ proc'[q].fd = proc[q].fd
      BY <2>1, <3>1 DEF Past
    <3>3. owner[proc[q].fd] = q /\ proc[q].fd \in Inodes
      BY <1>1, <3>2 DEF Locks, Typed, Local, Past
    <3>4. q # None
      BY NoneAssumption
    <3>5. QED
      BY <1>3, <2>3, <3>2, <3>3, <3>4
  <2>5. ASSUME NEW i \in Inodes, owner'[i] # None
        PROVE  proc'[owner'[i]].pc \notin {"idle", "lock"} /\ proc'[owner'[i]].fd = i
    <3>1. CASE i = proc[p].fd
      BY <1>2, <2>2, <2>3, <3>1 DEF Past
    <3>2. CASE i # proc[p].fd
      <4>1. owner'[i] = owner[i] /\ owner[i] \in Procs /\ Past(owner[i]) /\ proc[owner[i]].fd = i
        BY <1>1, <2>3, <2>5, <3>2 DEF Locks, Typed
      <4>2. owner[i] # p
        BY <2>2, <4>1
      <4>3. QED
        BY <2>1, <4>1, <4>2 DEF Past
    <3>3. QED
      BY <3>1, <3>2
  <2>6. QED
    BY <2>4, <2>5 DEF Locks, Past
<1>7. Names' /\ Ids' /\ Whole' /\ Acked'
  BY <1>3, KeptFiles DEF CInv, Names
<1>8. ASSUME NEW q \in Procs PROVE Opened(q)' /\ Orderly(q)'
  <2>1. \A r \in Procs : Running(r)' <=> Running(r)
    BY <1>2 DEF Others, Running, At, Modes
  <2>2. CASE q = p
    <3>1. Rewriting(p)' /\ Pending(p)' /\ Stored(p)'
      BY <1>2 DEF Rewriting, Pending, Stored, Modes, Compacting
    <3>2. now <= now
      BY <1>1, ClipStoreAssumption DEF Typed
    <3>3. Opened(p)'
      BY <1>2, <1>3, <1>4, <2>1, <3>2 DEF Opened, Ending
    <3>4. QED
      BY <2>2, <3>1, <3>3 DEF Orderly
  <2>3. CASE q # p
    <3>1. proc'[q] = proc[q] /\ Opened(q) /\ Orderly(q)
      BY <1>2, <2>3 DEF Others, CInv
    <3>2. Opened(q)'
      BY <1>3, <2>1, <3>1 DEF Opened
    <3>3. Orderly(q)'
      BY <1>1, <1>3, <3>1, Unmoved
    <3>4. QED
      BY <3>2, <3>3
  <2>4. QED
    BY <2>2, <2>3
<1>9. QED
  BY <1>5, <1>6, <1>7, <1>8 DEF CInv

LEMMA IdleTyped ==
  ASSUME NEW c \in Codes
  PROVE  /\ Local([Idle EXCEPT !.rc = c]) /\ [Idle EXCEPT !.rc = c].pc = "idle"
         /\ [Idle EXCEPT !.rc = c].rc = c /\ [Idle EXCEPT !.rc = c].buf = None
         /\ [Idle EXCEPT !.rc = c].mine = {} /\ [Idle EXCEPT !.rc = c].out = {}
<1> DEFINE r == [Idle EXCEPT !.rc = c]
<1>1. /\ DOMAIN r = Fields /\ r.pc = "idle" /\ r.cmd = None /\ r.fd = None /\ r.tmpFd = None
      /\ r.t = 0 /\ r.buf = None /\ r.pos = 0 /\ r.live = {} /\ r.mine = {} /\ r.out = {}
      /\ r.rc = c
  BY DEF Idle, Fields
<1> HIDE DEF r
<1>2. Local(r)
  BY <1>1 DEF Local, PCs, Modes, Compacting
<1>3. QED
  BY <1>1, <1>2 DEF r

LEMMA InitCInv == Init => CInv
<1>1. SUFFICES ASSUME Init PROVE CInv
  OBVIOUS
<1>2. Local(Idle) /\ Idle.pc = "idle" /\ Idle.rc = 0
  <2>1. Idle = [Idle EXCEPT !.rc = 0] /\ 0 \in Codes
    BY DEF Idle, Codes
  <2>2. QED
    BY <2>1, IdleTyped
<1>3. /\ db = None /\ tmp = None /\ acked = {} /\ now = 0 /\ runs = 0 /\ serial = 0
      /\ DOMAIN proc = Procs /\ \A p \in Procs : proc[p] = Idle
      /\ \A i \in Inodes : owner[i] = None /\ file[i] = <<>>
      /\ owner \in [Inodes -> Procs \cup {None}] /\ file \in [Inodes -> Seq(Lines)]
  BY <1>1 DEF Init
<1>4. Typed
  BY <1>2, <1>3, ClipStoreAssumption DEF Typed
<1>5. Locks /\ Names /\ Ids
  BY <1>2, <1>3 DEF Locks, Names, Ids, Past
<1>6. Whole /\ Acked
  BY <1>3 DEF Whole, Acked
<1>7. ASSUME NEW p \in Procs PROVE Opened(p) /\ Orderly(p)
  <2>1. proc[p].pc = "idle" /\ proc[p].buf = None /\ proc[p].mine = {}
    BY <1>2, <1>3 DEF Local
  <2>2. QED
    BY <2>1 DEF Opened, Running, At, Orderly, Rewriting, Pending, Stored, Compacting
<1>8. QED
  BY <1>4, <1>5, <1>6, <1>7 DEF CInv

(* The end of an invocation, whichever way. *)
Ends(p, c) ==
  /\ proc' = [proc EXCEPT ![p] = [Idle EXCEPT !.rc = c]]
  /\ owner' = Unlock(p) /\ file' = FilesWithout(p)
  /\ UNCHANGED <<db, tmp, now, serial, runs>>

LEMMA EndsIs ==
  ASSUME CInv, NEW p \in Procs, NEW c \in Codes, Ends(p, c), Running(p)
  PROVE  /\ Typed' \/ ~(acked' \subseteq Rows)
         /\ Others(p) /\ Local(proc'[p]) /\ proc'[p].pc = "idle" /\ proc'[p].rc = c
         /\ Locks' /\ file'[db] = file[db] /\ db \in Inodes
         /\ tmp # None => file'[tmp] = file[tmp]
         /\ Ids' /\ Whole' /\ \A q \in Procs : Opened(q)' /\ Orderly(q)'
<1>1. Typed /\ Locks /\ Opened(p)
  BY DEF CInv
<1>2. db \in Inodes
  BY <1>1, NoneAssumption DEF Opened, Typed
<1>3. /\ file \in [Inodes -> Seq(Lines)] /\ owner \in [Inodes -> Procs \cup {None}]
      /\ tmp \in Inodes \cup {None} /\ DOMAIN proc = Procs
  BY <1>1 DEF Typed
<1> DEFINE r == [Idle EXCEPT !.rc = c]
<1>4. Local(r) /\ r.pc = "idle" /\ r.rc = c
  BY IdleTyped
<1> HIDE DEF r
<1>5. Others(p) /\ proc'[p] = r
  BY <1>3 DEF Ends, Others, r
<1>6. /\ file' \in [Inodes -> Seq(Lines)] /\ file'[db] = file[db]
      /\ tmp # None => file'[tmp] = file[tmp]
      /\ \A i \in Inodes : file'[i] = file[i] \/ file'[i] = <<>>
  <2>1. file' = FilesWithout(p)
    BY DEF Ends
  <2>2. \A i \in Inodes : file'[i] = file[i] \/ file'[i] = <<>>
    BY <2>1 DEF FilesWithout
  <2>3. \A i \in Inodes : i \in {db, tmp} => file'[i] = file[i]
    BY <2>1 DEF FilesWithout
  <2>4. file' \in [Inodes -> Seq(Lines)]
    <3>1. file' = [i \in Inodes |-> file'[i]]
      BY <2>1 DEF FilesWithout
    <3>2. <<>> \in Seq(Lines) /\ \A i \in Inodes : file[i] \in Seq(Lines)
      BY <1>3
    <3>3. \A i \in Inodes : file'[i] \in Seq(Lines)
      BY <2>2, <3>2
    <3>4. QED
      BY <3>1, <3>3
  <2>5. QED
    BY <1>2, <1>3, <2>2, <2>3, <2>4
<1>7. /\ owner' \in [Inodes -> Procs \cup {None}]
      /\ \A i \in Inodes : owner'[i] = IF owner[i] = p THEN None ELSE owner[i]
  BY <1>3 DEF Ends, Unlock
<1>8. Typed' \/ ~(acked' \subseteq Rows)
  <2>1. DOMAIN proc' = Procs /\ \A q \in Procs : Local(proc'[q])
    BY <1>1, <1>4, <1>5, OthersTyped
  <2>2. QED
    BY <1>1, <1>6, <1>7, <2>1 DEF Typed, Ends
<1>9. Locks'
  <2>1. \A q \in Procs \ {p} : proc'[q] = proc[q]
    BY <1>5 DEF Others
  <2>2. ~Past(p)'
    BY <1>4, <1>5 DEF Past
  <2>3. ASSUME NEW q \in Procs, Past(q)' PROVE owner'[proc'[q].fd] = q
    <3>1. q # p /\ Past(q) /\ proc'[q].fd = proc[q].fd
      BY <2>1, <2>2, <2>3 DEF Past
    <3>2. owner[proc[q].fd] = q /\ proc[q].fd \in Inodes
      BY <1>1, <3>1 DEF Locks, Typed, Local, Past
    <3>3. QED
      BY <1>7, <3>1, <3>2
  <2>4. ASSUME NEW i \in Inodes, owner'[i] # None
        PROVE  proc'[owner'[i]].pc \notin {"idle", "lock"} /\ proc'[owner'[i]].fd = i
    <3>1. owner'[i] = owner[i] /\ owner[i] # None /\ owner[i] # p /\ owner[i] \in Procs
      BY <1>3, <1>7, <2>4
    <3>2. Past(owner[i]) /\ proc[owner[i]].fd = i
      BY <1>1, <3>1 DEF Locks
    <3>3. QED
      BY <2>1, <3>1, <3>2 DEF Past
  <2>5. QED
    BY <2>3, <2>4 DEF Locks, Past
<1>10. Ids'
  BY <1>6 DEF CInv, Ids, Ends
<1>11. Whole'
  BY <1>6 DEF CInv, Whole
<1>12. ASSUME NEW q \in Procs PROVE Opened(q)' /\ Orderly(q)'
  <2>1. CASE q = p
    <3>1. Opened(p)'
      BY <1>4, <1>5 DEF Opened, Running, At
    <3>2. QED
      BY <1>4, <1>5, <2>1, <3>1, Outside
  <2>2. CASE q # p
    <3>1. proc'[q] = proc[q] /\ Opened(q) /\ Orderly(q)
      BY <1>5, <2>2 DEF Others, CInv
    <3>2. \A s \in Procs : Running(s)' => Running(s)
      BY <1>4, <1>5 DEF Others, Running, At
    <3>3. Running(q)' <=> Running(q)
      BY <3>1 DEF Running, At
    <3>4. Opened(q)'
      BY <3>1, <3>2, <3>3 DEF Opened, Ends
    <3>5. Orderly(q)'
      BY <1>1, <1>6, <3>1, Unmoved DEF Ends
    <3>6. QED
      BY <3>4, <3>5
  <2>3. QED
    BY <2>1, <2>2
<1>13. QED
  BY <1>2, <1>4, <1>5, <1>6, <1>8, <1>9, <1>10, <1>11, <1>12

LEMMA DieCInv ==
  ASSUME CInv, NEW p \in Procs, Die(p)
  PROVE  CInv'
<1>1. Ends(p, 1) /\ Running(p) /\ acked' = acked /\ 1 \in Codes
  BY DEF Die, Ends, env, Codes
<1>2. /\ Typed' \/ ~(acked' \subseteq Rows)
      /\ Locks' /\ file'[db] = file[db] /\ Ids' /\ Whole'
      /\ \A q \in Procs : Opened(q)' /\ Orderly(q)'
  BY <1>1, EndsIs
<1>3. UNCHANGED <<db, tmp, now>>
  BY <1>1 DEF Ends
<1>4. Typed' /\ Names' /\ Acked'
  BY <1>1, <1>2, <1>3 DEF CInv, Typed, Names, Acked
<1>5. QED
  BY <1>2, <1>4 DEF CInv

(* The rows of an invocation that ends with status 0 are in the database. *)
LEMMA CloseCInv ==
  ASSUME CInv, NEW p \in Procs, Close(p)
  PROVE  CInv'
<1>1. Local(proc[p]) /\ Stored(p)
  BY DEF CInv, Typed, Orderly
<1>2. /\ proc[p].pc = "close" /\ proc[p].rc \in Codes /\ Running(p) /\ proc[p].buf = None
      /\ proc[p].mine \subseteq Rows
  BY <1>1 DEF Close, At, Running, Local
<1>3. /\ Ends(p, proc[p].rc)
      /\ acked' = IF proc[p].rc = 0 THEN acked \cup proc[p].mine ELSE acked
  BY DEF Close, Ends
<1>4. /\ Typed' \/ ~(acked' \subseteq Rows)
      /\ Locks' /\ file'[db] = file[db] /\ db \in Inodes /\ Ids' /\ Whole'
      /\ \A q \in Procs : Opened(q)' /\ Orderly(q)'
  BY <1>2, <1>3, EndsIs
<1>5. UNCHANGED <<db, tmp, now>>
  BY <1>3 DEF Ends
<1>6. Typed' /\ Names'
  BY <1>2, <1>3, <1>4, <1>5, NoneAssumption DEF CInv, Typed, Names
<1>7. Acked'
  <2>1. SUFFICES ASSUME ~DiskMayFill, NEW r \in acked'
                 PROVE  \/ LatestIn(file[db], r.key) = r
                        \/ LatestIn(file[db], r.key) = None /\ ~RowIsLive(r, now)
    BY <1>4, <1>5 DEF Acked
  <2>2. CASE r \in acked
    BY <2>1, <2>2 DEF CInv, Acked
  <2>3. CASE proc[p].rc = 0 /\ r \in proc[p].mine
    <3>1. r # None
      BY <1>2, <2>3, NoneAssumption
    <3>2. QED
      BY <1>1, <1>2, <2>1, <2>3, <3>1 DEF Stored
  <2>4. QED
    BY <1>3, <2>1, <2>2, <2>3
<1>8. QED
  BY <1>4, <1>6, <1>7 DEF CInv

(* A compaction starts when nothing else runs, and nothing while it does. *)
LEMMA OpenIs ==
  ASSUME CInv, GcAlone, NEW p \in Procs, NEW cmd \in Commands, Open(p, cmd)
  PROVE  /\ Others(p) /\ Local(proc'[p]) /\ proc[p].pc = "idle" /\ proc'[p].pc = "lock"
         /\ proc'[p].fd = db' /\ db' \in Inodes /\ tmp # db'
         /\ proc'[p].cmd = cmd /\ proc'[p].t = 0 /\ proc'[p].rc = 0 /\ proc'[p].buf = None
         /\ proc'[p].mine = {} /\ proc'[p].out = {}
         /\ file' \in [Inodes -> Seq(Lines)]
         /\ db # None => db' = db /\ file' = file
         /\ db = None => /\ file'[db'] = <<>> /\ \A q \in Procs : ~Running(q)
                         /\ \A i \in Inodes \ {db'} : file'[i] = file[i]
         /\ cmd.mode = "compact" => \A q \in Procs : ~Running(q)
         /\ \A q \in Procs : Running(q) => proc[q].cmd.mode # "compact"
         /\ cmd \in Command
<1>1. Typed /\ Names /\ \A q \in Procs : Opened(q) /\ Local(proc[q])
  BY DEF CInv, Typed
<1>2. /\ file \in [Inodes -> Seq(Lines)] /\ db \in Inodes \cup {None} /\ tmp \in Inodes \cup {None}
      /\ DOMAIN proc = Procs /\ proc[p].pc = "idle"
  BY <1>1 DEF Typed, Open, At
<1>3. cmd \in Command
  BY CommandsTyped
<1> DEFINE ino == IF db = None THEN Fresh ELSE db
           r == [Idle EXCEPT !.pc = "lock", !.cmd = cmd, !.fd = ino]
<1>4. /\ proc' = [proc EXCEPT ![p] = r] /\ db' = ino
      /\ file' = IF db = None THEN [file EXCEPT ![ino] = <<>>] ELSE file
  BY DEF Open
<1>5. db = None => \A q \in Procs : ~Running(q)
  BY <1>1 DEF Opened
<1>6. ino \in Inodes /\ tmp # ino
  <2>1. CASE db = None
    <3>1. \A q \in Procs : proc[q].fd = None /\ proc[q].tmpFd = None
      BY <1>1, <1>5, <2>1 DEF Local, Running, At
    <3>2. InUse \subseteq {tmp, tmp, None}
      BY <2>1, <3>1 DEF InUse
    <3>3. Fresh \in Inodes /\ Fresh \notin InUse
      BY <3>2, FreshIs
    <3>4. QED
      BY <2>1, <3>3 DEF InUse
  <2>2. CASE db # None
    BY <1>1, <1>2, <2>2 DEF Names
  <2>3. QED
    BY <2>1, <2>2
<1> HIDE DEF ino
<1>7. /\ DOMAIN r = Fields /\ r.pc = "lock" /\ r.cmd = cmd /\ r.fd = ino /\ r.tmpFd = None
      /\ r.t = 0 /\ r.buf = None /\ r.pos = 0 /\ r.live = {} /\ r.mine = {} /\ r.out = {}
      /\ r.rc = 0
  BY DEF Idle, Fields
<1> HIDE DEF r
<1>8. Local(r)
  BY <1>3, <1>6, <1>7 DEF Local, PCs, Modes, Compacting, Codes
<1>9. Others(p) /\ proc'[p] = r
  BY <1>2, <1>4 DEF Others
<1>10. /\ file' \in [Inodes -> Seq(Lines)]
       /\ db # None => db' = db /\ file' = file
       /\ db = None => file'[db'] = <<>> /\ \A i \in Inodes \ {db'} : file'[i] = file[i]
  <2>1. CASE db # None
    BY <1>2, <1>4, <2>1 DEF ino
  <2>2. CASE db = None
    BY <1>2, <1>4, <1>6, <2>2
  <2>3. QED
    BY <2>1, <2>2
<1>11. /\ cmd.mode = "compact" => \A q \in Procs : ~Running(q)
       /\ \A q \in Procs : Running(q) => proc[q].cmd.mode # "compact"
  BY DEF Open, MayStart
<1>12. QED
  BY <1>2, <1>3, <1>4, <1>5, <1>6, <1>7, <1>8, <1>9, <1>10, <1>11

LEMMA OpenCInv ==
  ASSUME CInv, GcAlone, NEW p \in Procs, NEW cmd \in Commands, Open(p, cmd)
  PROVE  CInv'
<1>1. Typed /\ Locks
  BY DEF CInv
<1>2. /\ Others(p) /\ Local(proc'[p]) /\ proc[p].pc = "idle" /\ proc'[p].pc = "lock"
      /\ proc'[p].fd = db' /\ db' \in Inodes /\ tmp # db'
      /\ proc'[p].cmd = cmd /\ proc'[p].t = 0
      /\ file' \in [Inodes -> Seq(Lines)]
      /\ db # None => db' = db /\ file' = file
      /\ db = None => /\ file'[db'] = <<>> /\ \A q \in Procs : ~Running(q)
                      /\ \A i \in Inodes \ {db'} : file'[i] = file[i]
      /\ cmd.mode = "compact" => \A q \in Procs : ~Running(q)
      /\ \A q \in Procs : Running(q) => proc[q].cmd.mode # "compact"
  BY OpenIs
<1>3. UNCHANGED <<tmp, owner, now, serial, acked>> /\ runs' = runs + 1 /\ runs < MaxRuns
  BY DEF Open
<1>4. Typed'
  <2>1. DOMAIN proc' = Procs /\ \A q \in Procs : Local(proc'[q])
    BY <1>1, <1>2, OthersTyped
  <2>2. runs' \in 0..MaxRuns
    BY <1>1, <1>3, ClipStoreAssumption DEF Typed
  <2>3. QED
    BY <1>1, <1>2, <1>3, <2>1, <2>2 DEF Typed
<1>5. Locks'
  <2>1. \A q \in Procs : Past(q)' => Past(q) /\ proc'[q].fd = proc[q].fd
    BY <1>2 DEF Others, Past
  <2>2. \A q \in Procs : Past(q) => Past(q)' /\ proc'[q].fd = proc[q].fd
    BY <1>2 DEF Others, Past
  <2>3. \A i \in Inodes : owner[i] # None => owner[i] \in Procs
    BY <1>1 DEF Typed
  <2>4. QED
    BY <1>1, <1>3, <2>1, <2>2, <2>3 DEF Locks, Past
<1>6. Names' /\ Ids' /\ Whole' /\ Acked'
  <2>1. CASE db # None
    BY <1>2, <1>3, <2>1 DEF CInv, Names, Ids, Whole, Acked
  <2>2. CASE db = None
    <3>1. acked = {} /\ RowsIn(file'[db']) = {}
      BY <1>2, <2>2 DEF CInv, Names, RowsIn
    <3>2. \A i \in Inodes : file'[i] = file[i] \/ file'[i] = <<>>
      BY <1>2, <2>2
    <3>3. Whole'
      BY <3>2 DEF CInv, Whole
    <3>4. QED
      BY <1>2, <1>3, <3>1, <3>3 DEF Names, Ids, Acked
  <2>3. QED
    BY <2>1, <2>2
<1>7. ASSUME NEW q \in Procs PROVE Opened(q)' /\ Orderly(q)'
  <2>1. CASE q = p
    <3>1. 0 <= now
      BY <1>1, ClipStoreAssumption DEF Typed
    <3>2. \A s \in Procs \ {p} : Running(s)' <=> Running(s)
      BY <1>2 DEF Others, Running, At
    <3>3. Opened(p)'
      BY <1>2, <1>3, <3>1, <3>2, NoneAssumption DEF Opened
    <3>4. QED
      BY <1>2, <2>1, <3>3, Outside
  <2>2. CASE q # p /\ Running(q)
    <3>1. proc'[q] = proc[q] /\ Opened(q) /\ Orderly(q)
      BY <1>2, <2>2 DEF Others, CInv
    <3>2. db' = db /\ file' = file /\ proc[q].cmd.mode # "compact"
      BY <1>2, <2>2
    <3>3. Opened(q)'
      BY <1>3, <2>2, <3>1, <3>2 DEF Opened
    <3>4. Orderly(q)'
      BY <1>1, <1>3, <3>1, <3>2, Unmoved
    <3>5. QED
      BY <3>3, <3>4
  <2>3. CASE q # p /\ ~Running(q)
    <3>1. proc'[q] = proc[q] /\ proc[q].pc = "idle" /\ Local(proc[q])
      BY <1>1, <1>2, <2>3 DEF Others, Running, At, Typed
    <3>2. Orderly(q)'
      BY <3>1, Outside
    <3>3. QED
      BY <3>1, <3>2 DEF Opened, Running, At
  <2>4. QED
    BY <2>1, <2>2, <2>3
<1>8. QED
  BY <1>4, <1>5, <1>6, <1>7 DEF CInv

LEMMA TickCInv ==
  ASSUME CInv, Tick
  PROVE  CInv'
<1>1. UNCHANGED <<db, tmp, file, owner, proc, serial, runs, acked>> /\ now' = now + 1 /\ now < MaxNow
  BY DEF Tick
<1>2. now \in Nat /\ now' \in 0..MaxNow /\ now <= now'
  BY <1>1, ClipStoreAssumption DEF CInv, Typed
<1>3. Typed'
  BY <1>1, <1>2 DEF CInv, Typed
<1>4. Locks' /\ Names' /\ Ids' /\ Whole'
  BY <1>1 DEF CInv, Locks, Names, Ids, Whole, Past
<1>5. Acked'
  <2>1. \A r \in acked : ~RowIsLive(r, now) => ~RowIsLive(r, now')
    BY <1>2, DeadStaysDead DEF CInv, Typed
  <2>2. QED
    BY <1>1, <2>1 DEF CInv, Acked
<1>6. ASSUME NEW q \in Procs PROVE Opened(q)' /\ Orderly(q)'
  <2>1. Opened(q) /\ Orderly(q) /\ proc[q].t \in Nat
    BY DEF CInv, Typed, Local
  <2>2. Opened(q)'
    BY <1>1, <1>2, <2>1 DEF Opened, Running, At
  <2>3. Orderly(q)'
    BY <1>1, <2>1, Unmoved DEF CInv
  <2>4. QED
    BY <2>2, <2>3
<1>7. QED
  BY <1>3, <1>4, <1>5, <1>6 DEF CInv

LEMMA StutterCInv ==
  ASSUME CInv, UNCHANGED vars
  PROVE  CInv'
BY DEF CInv, Typed, Locks, Past, Names, Ids, Whole, Acked, Opened, Running, At, Orderly,
       Rewriting, Pending, Stored, vars

LEMMA StepCInv ==
  ASSUME CInv, GcAlone, [Next]_vars
  PROVE  CInv'
<1>1. ASSUME NEW p \in Procs, Step(p) PROVE CInv'
  BY <1>1, LockCInv, QueryCInv, AppendRowCInv, AppendFailsCInv, OpenTmpCInv, FlushTmpCInv,
     RenameCInv, CommandFailsCInv, FlushCInv, CloseCInv DEF Step
<1>2. QED
  BY <1>1, DieCInv, OpenCInv, TickCInv, StutterCInv DEF Next

-----------------------------------------------------------------------------
(* The theorems.                                                           *)

(* The inductive invariant. *)
THEOREM ClipStoreInvariance == GcAlone => (Spec => []CInv)
<1>1. SUFFICES ASSUME GcAlone PROVE Spec => []CInv
  OBVIOUS
<1>2. CInv /\ [Next]_vars => CInv'
  BY <1>1, StepCInv
<1>3. QED
  BY <1>2, InitCInv, PTL DEF Spec

(* The type invariant; in particular a buffered row is always to be        *)
(* written at the end of the file its process has locked.                  *)
THEOREM StoreTypeCorrect == GcAlone => (Spec => []StoreTypeOK)
<1>1. SUFFICES ASSUME GcAlone PROVE Spec => []StoreTypeOK
  OBVIOUS
<1>2. CInv => StoreTypeOK
  <2>1. SUFFICES ASSUME CInv PROVE StoreTypeOK
    OBVIOUS
  <2>2. \A p \in Procs : Local(proc[p])
    BY <2>1 DEF CInv, Typed
  <2>3. \A p \in Procs : proc[p].buf # None => proc[p].pos = Len(file[proc[p].fd])
    BY <2>1, HasBuffer
  <2>4. \A i \in Inodes : \A n \in 1..Len(file[i]) : file[i][n] \in Lines
    BY <2>1 DEF CInv, Typed
  <2>5. QED
    BY <2>1, <2>2, <2>3, <2>4 DEF StoreTypeOK, CInv, Typed, Local
<1>3. Spec => []CInv
  BY <1>1, ClipStoreInvariance
<1>4. QED
  BY <1>2, <1>3, PTL

(* After status 0 a row is what its key holds, until a later row of the    *)
(* key is written out or no query could return it.                         *)
THEOREM AckedRowsKept == GcAlone /\ ~DiskMayFill => (Spec => []NoAckedRowLost)
<1>1. SUFFICES ASSUME GcAlone, ~DiskMayFill PROVE Spec => []NoAckedRowLost
  OBVIOUS
<1>2. CInv => NoAckedRowLost
  <2>1. SUFFICES ASSUME CInv, NEW r \in acked PROVE ~Lost(r)
    BY DEF NoAckedRowLost
  <2>2. r \in Rows /\ r.key \in Keys /\ r.id \in Nat /\ r # None /\ db # None
    BY <2>1, NoneAssumption DEF CInv, Typed, Names, Rows
  <2>3. StoreKv[r.key] = LatestIn(file[db], r.key)
    BY <2>2 DEF StoreKv
  <2>4. \/ LatestIn(file[db], r.key) = r
        \/ LatestIn(file[db], r.key) = None /\ ~RowIsLive(r, now)
    BY <1>1, <2>1 DEF CInv, Acked
  <2>5. QED
    BY <2>2, <2>3, <2>4 DEF Lost
<1>3. Spec => []CInv
  BY <1>1, ClipStoreInvariance
<1>4. QED
  BY <1>2, <1>3, PTL

(* The database changes its inode by a compaction's rename, or when it is  *)
(* made for the first time.                                                *)
LEMMA NewDb ==
  ASSUME CInv, GcAlone, [Next]_vars, db' # db
  PROVE  db = None \/ \E p \in Procs : Rename(p)
<1>1. CASE \E p \in Procs : Step(p)
  BY <1>1 DEF Step, Lock, Query, InputEnds, AppendRow, AppendFails, Load, OpenTmp, FlushTmp,
     CommandFails, Flush, FlushFails, Close
<1>2. CASE \E p \in Procs : Die(p)
  BY <1>2 DEF Die
<1>3. CASE \E p \in Procs : \E cmd \in Commands : Open(p, cmd)
  BY <1>3 DEF Open
<1>4. CASE Tick \/ UNCHANGED vars
  BY <1>4 DEF Tick, vars
<1>5. QED
  BY <1>1, <1>2, <1>3, <1>4 DEF Next

(* A compaction leaves one live row per key and nothing else. *)
THEOREM CompactionTheorem == GcAlone => (Spec => CompactionDropsDead)
<1>1. SUFFICES ASSUME GcAlone PROVE Spec => CompactionDropsDead
  OBVIOUS
<1> DEFINE Dropped(p) ==
      At(p, "rename") /\ db' # db =>
        LET lines == file'[db']
        IN \A i \in 1..Len(lines) :
             /\ ~lines[i].tomb /\ ~Expired(lines[i], proc[p].t)
             /\ \A j \in 1..Len(lines) : lines[j].key = lines[i].key => j = i
<1>2. CInv /\ [Next]_vars => \A p \in Procs : Dropped(p)
  <2>1. SUFFICES ASSUME CInv, [Next]_vars, NEW p \in Procs, At(p, "rename"), db' # db
                 PROVE  Dropped(p)
    OBVIOUS
  <2>2. proc[p].pc \in Compacting
    BY <2>1 DEF At, Compacting
  <2>3. db \in Inodes /\ \A q \in Procs \ {p} : ~Running(q)
    BY <2>1, <2>2, CompactingIs
  <2>4. PICK q \in Procs : Rename(q)
    BY <1>1, <2>1, <2>3, NewDb, NoneAssumption
  <2>5. q = p
    BY <2>3, <2>4 DEF Rename, Running, At
  <2>6. /\ file[db] \in Seq(Lines) /\ file' = file
        /\ file[db'] = SetToSeq(LiveRows(file[db], Keys, proc[p].t))
    BY <2>1, <2>4, <2>5, RenameIno
  <2> DEFINE lines == file'[db']
  <2>7. /\ \A i \in 1..Len(lines) : lines[i] \in Rows /\ RowIsLive(lines[i], proc[p].t)
        /\ \A i, j \in 1..Len(lines) : lines[i].key = lines[j].key => i = j
    BY <2>6, CompactedIs
  <2>8. QED
    BY <2>7 DEF RowIsLive
<1>3. CInv /\ [Next]_vars => [\A p \in Procs : Dropped(p)]_vars
  BY <1>2
<1>4. Spec => []CInv
  BY <1>1, ClipStoreInvariance
<1>5. Spec => [][\A p \in Procs : Dropped(p)]_vars
  BY <1>3, <1>4, PTL DEF Spec
<1>6. QED
  BY <1>5 DEF CompactionDropsDead

-----------------------------------------------------------------------------
(* What a step does to the index.                                          *)

(* Most steps leave it as it is. *)
LEMMA KvSame ==
  ASSUME db' = db, db # None => file'[db] = file[db]
  PROVE  StoreKv' = StoreKv
BY DEF StoreKv

LEMMA QuietKv ==
  ASSUME CInv, NEW p \in Procs,
         Lock(p) \/ Query(p) \/ InputEnds(p) \/ Load(p) \/ CommandFails(p)
  PROVE  StoreKv' = StoreKv
<1>1. db' = db /\ file' = file
  BY DEF Lock, Query, InputEnds, Load, CommandFails
<1>2. QED
  BY <1>1, KvSame

LEMMA TmpKv ==
  ASSUME CInv, NEW p \in Procs, OpenTmp(p) \/ FlushTmp(p)
  PROVE  StoreKv' = StoreKv
<1>1. db' = db /\ \E i \in Inodes, x \in {<<>>, file[tmp] \o SetToSeq(proc[p].live)} :
                    i # db /\ file' = [file EXCEPT ![i] = x]
  <2>1. CASE OpenTmp(p)
    BY <2>1, OpenTmpIno DEF OpenTmp
  <2>2. CASE FlushTmp(p)
    <3>1. tmp \in Inodes /\ proc[p].tmpFd = tmp /\ tmp # db
      BY <2>2 DEF FlushTmp, At, CInv, Typed, Names, Orderly, Rewriting
    <3>2. QED
      BY <2>2, <3>1 DEF FlushTmp
  <2>3. QED
    BY <2>1, <2>2
<1>2. db # None => file'[db] = file[db]
  BY <1>1 DEF CInv, Typed
<1>3. QED
  BY <1>1, <1>2, KvSame

LEMMA EndKv ==
  ASSUME CInv, NEW p \in Procs, Close(p) \/ Die(p)
  PROVE  StoreKv' = StoreKv
<1>1. db' = db /\ file' = FilesWithout(p)
  BY DEF Close, Die
<1>2. db # None => db \in Inodes
  BY DEF CInv, Typed
<1>3. db # None => file'[db] = file[db]
  BY <1>1, <1>2 DEF FilesWithout
<1>4. QED
  BY <1>1, <1>3, KvSame

LEMMA OpenKv ==
  ASSUME CInv, GcAlone, NEW p \in Procs, NEW cmd \in Commands, Open(p, cmd)
  PROVE  StoreKv' = StoreKv
<1>1. /\ db' \in Inodes
      /\ db # None => db' = db /\ file' = file
      /\ db = None => file'[db'] = <<>>
  BY OpenIs
<1>2. CASE db # None
  BY <1>1, <1>2, KvSame
<1>3. CASE db = None
  <2>1. \A k : Matches(<<>>, k) = {} /\ <<>> \in Seq(Lines)
    BY DEF Matches
  <2>2. \A k : LatestIn(file'[db'], k) = None
    BY <1>1, <1>3, <2>1, NoneLatest
  <2>3. QED
    BY <1>1, <1>3, <2>2, NoneAssumption DEF StoreKv
<1>4. QED
  BY <1>2, <1>3

(* A row that is written out becomes the latest of its key, unless it is   *)
(* lost with a torn line.                                                  *)
LEMMA WritesKv ==
  ASSUME CInv, NEW p \in Procs, Writes(p), db' = db
  PROVE  /\ proc[p].buf = None => StoreKv' = StoreKv
         /\ \A k \in Keys : \/ StoreKv'[k] = StoreKv[k]
                            \/ /\ proc[p].buf # None /\ k = proc[p].buf.key
                               /\ StoreKv'[k] = proc[p].buf
         /\ ~DiskMayFill /\ proc[p].buf # None =>
              StoreKv' = [StoreKv EXCEPT ![proc[p].buf.key] = proc[p].buf]
<1>1. CASE proc[p].buf = None
  BY <1>1, KvSame DEF Writes
<1>2. CASE proc[p].buf # None
  <2>1. db # None /\ proc[p].buf \in Rows /\ proc[p].buf.key \in Keys
    BY <1>2, HasBuffer, NoneAssumption DEF Rows
  <2>2. /\ StoreKv = [k \in Keys |-> LatestIn(file[db], k)]
        /\ StoreKv' = [k \in Keys |-> LatestIn(file'[db], k)]
    BY <2>1 DEF StoreKv
  <2>3. \A k \in Keys : \/ StoreKv'[k] = StoreKv[k]
                        \/ k = proc[p].buf.key /\ StoreKv'[k] = proc[p].buf
    BY <2>2 DEF Writes
  <2>4. ~DiskMayFill => StoreKv'[proc[p].buf.key] = proc[p].buf
    BY <1>2, <2>1, <2>2 DEF Writes
  <2>5. ~DiskMayFill => StoreKv' = [StoreKv EXCEPT ![proc[p].buf.key] = proc[p].buf]
    BY <2>2, <2>3, <2>4
  <2>6. QED
    BY <1>2, <2>3, <2>5
<1>3. QED
  BY <1>1, <1>2

LEMMA RenameStoreKv ==
  ASSUME CInv, NEW p \in Procs, Rename(p), NEW k \in Keys
  PROVE  \/ StoreKv'[k] = StoreKv[k]
         \/ StoreKv'[k] = None /\ ~RowIsLive(StoreKv[k], now)
<1>1. db # None /\ db' # None
  BY RenameIno, NoneAssumption
<1>2. QED
  BY <1>1, RenameKv DEF StoreKv

(* Whatever fails or dies, a key never goes back to an older row, and only *)
(* a row that no query could return goes without a successor.              *)
THEOREM RowsOnlyAdvanceTheorem == GcAlone => (Spec => RowsOnlyAdvance)
<1>1. SUFFICES ASSUME GcAlone PROVE Spec => RowsOnlyAdvance
  OBVIOUS
<1> DEFINE Advances(k) ==
      StoreKv'[k] # StoreKv[k] =>
        IF StoreKv'[k] = None THEN ~RowIsLive(StoreKv[k], now)
        ELSE StoreKv[k] = None \/ StoreKv'[k].id > StoreKv[k].id
<1>2. ASSUME CInv, [Next]_vars, NEW k \in Keys PROVE Advances(k)
  <2>1. ASSUME NEW p \in Procs, AppendRow(p) \/ AppendFails(p) \/ Flush(p) \/ FlushFails(p)
        PROVE  Advances(k)
    <3>1. Writes(p) /\ db' = db
      BY <1>2, <2>1, WritesIs DEF AppendRow, AppendFails, Flush, FlushFails
    <3>2. \/ StoreKv'[k] = StoreKv[k]
          \/ proc[p].buf # None /\ k = proc[p].buf.key /\ StoreKv'[k] = proc[p].buf
      BY <1>2, <3>1, WritesKv
    <3>3. CASE StoreKv'[k] = StoreKv[k]
      BY <3>3
    <3>4. CASE proc[p].buf # None /\ StoreKv'[k] = proc[p].buf
      <4>1. /\ db \in Inodes /\ proc[p].buf \in Rows
            /\ \A r \in RowsIn(file[db]) : r.id < proc[p].buf.id
        BY <1>2, <3>4, HasBuffer
      <4>2. StoreKv[k] = LatestIn(file[db], k)
        BY <4>1, NoneAssumption DEF StoreKv
      <4>3. file[db] \in Seq(Lines)
        BY <1>2, <4>1 DEF CInv, Typed
      <4>4. StoreKv[k] = None \/ (StoreKv[k] \in Rows /\ StoreKv[k].id < proc[p].buf.id)
        BY <4>1, <4>2, <4>3, LatestTyped
      <4>5. QED
        BY <3>4, <4>1, <4>4 DEF Rows
    <3>5. QED
      BY <3>2, <3>3, <3>4
  <2>2. ASSUME NEW p \in Procs, Rename(p) PROVE Advances(k)
    BY <1>2, <2>2, RenameStoreKv
  <2>3. ASSUME StoreKv' = StoreKv PROVE Advances(k)
    BY <2>3
  <2>4. ASSUME NEW p \in Procs, Step(p) PROVE Advances(k)
    BY <1>2, <2>1, <2>2, <2>3, <2>4, QuietKv, TmpKv, EndKv DEF Step
  <2>5. CASE Tick \/ UNCHANGED vars
    BY <2>3, <2>5, KvSame DEF Tick, vars
  <2>6. QED
    BY <1>1, <1>2, <2>3, <2>4, <2>5, EndKv, OpenKv DEF Next
<1>3. CInv /\ [Next]_vars => [\A k \in Keys : Advances(k)]_vars
  BY <1>2
<1>4. Spec => []CInv
  BY <1>1, ClipStoreInvariance
<1>5. Spec => [][\A k \in Keys : Advances(k)]_vars
  BY <1>3, <1>4, PTL DEF Spec
<1>6. QED
  BY <1>5 DEF RowsOnlyAdvance

-----------------------------------------------------------------------------
(* clip_store implements one index.                                        *)

StatusMap == [p \in Procs |-> StoreStatus(p)]
Began(p) == WhileRunning(p, proc[p].t, 0)
BeganMap == [p \in Procs |-> Began(p)]
PendingMap == [p \in Procs |-> proc[p].buf]
Asked(p) == WhileRunning(p, proc[p].cmd.keys, {})
AskedMap == [p \in Procs |-> Asked(p)]
Answer(p) == WhileRunning(p, proc[p].out, {})
AnswerMap == [p \in Procs |-> Answer(p)]

(* A step of p changes what the index knows of p only. *)
LEMMA MapsOf ==
  ASSUME NEW p \in Procs, Others(p)
  PROVE  /\ StatusMap' = [StatusMap EXCEPT ![p] = StoreStatus(p)']
         /\ BeganMap' = [BeganMap EXCEPT ![p] = Began(p)']
         /\ PendingMap' = [PendingMap EXCEPT ![p] = proc'[p].buf]
         /\ AskedMap' = [AskedMap EXCEPT ![p] = Asked(p)']
         /\ AnswerMap' = [AnswerMap EXCEPT ![p] = Answer(p)']
<1>1. \A q \in Procs \ {p} :
        /\ StoreStatus(q)' = StoreStatus(q) /\ Began(q)' = Began(q) /\ proc'[q].buf = proc[q].buf
        /\ Asked(q)' = Asked(q) /\ Answer(q)' = Answer(q)
  BY DEF Others, StoreStatus, Running, At, Began, Asked, Answer, WhileRunning
<1>2. StatusMap' = [StatusMap EXCEPT ![p] = StoreStatus(p)']
  BY <1>1 DEF StatusMap
<1>3. BeganMap' = [BeganMap EXCEPT ![p] = Began(p)']
  BY <1>1 DEF BeganMap
<1>4. PendingMap' = [PendingMap EXCEPT ![p] = proc'[p].buf]
  BY <1>1 DEF PendingMap
<1>5. AskedMap' = [AskedMap EXCEPT ![p] = Asked(p)']
  BY <1>1 DEF AskedMap
<1>6. AnswerMap' = [AnswerMap EXCEPT ![p] = Answer(p)']
  BY <1>1 DEF AnswerMap
<1>7. QED
  BY <1>2, <1>3, <1>4, <1>5, <1>6

LEMMA MapsAt ==
  ASSUME NEW p \in Procs
  PROVE  /\ StatusMap[p] = StoreStatus(p) /\ BeganMap[p] = Began(p) /\ PendingMap[p] = proc[p].buf
         /\ AskedMap[p] = Asked(p) /\ AnswerMap[p] = Answer(p)
         /\ StatusMap = [StatusMap EXCEPT ![p] = StoreStatus(p)]
         /\ BeganMap = [BeganMap EXCEPT ![p] = Began(p)]
         /\ PendingMap = [PendingMap EXCEPT ![p] = proc[p].buf]
         /\ AskedMap = [AskedMap EXCEPT ![p] = Asked(p)]
         /\ AnswerMap = [AnswerMap EXCEPT ![p] = Answer(p)]
BY DEF StatusMap, BeganMap, PendingMap, AskedMap, AnswerMap

(* What the index knows of a process. *)
LEMMA RunningIs ==
  ASSUME NEW p \in Procs, proc[p].rc = 0, proc[p].pc # "idle"
  PROVE  /\ StoreStatus(p) = "running" /\ Began(p) = proc[p].t /\ Asked(p) = proc[p].cmd.keys
         /\ Answer(p) = proc[p].out
BY DEF StoreStatus, Running, At, Began, Asked, Answer, WhileRunning

LEMMA OverIs ==
  ASSUME NEW p \in Procs, proc[p].rc = 1 \/ (proc[p].rc = 0 /\ proc[p].pc = "idle")
  PROVE  /\ StoreStatus(p) = IF proc[p].rc = 1 THEN "failed" ELSE "ok"
         /\ Began(p) = 0 /\ Asked(p) = {} /\ Answer(p) = {}
BY DEF StoreStatus, Running, At, Began, Asked, Answer, WhileRunning

LEMMA RunningIsNext ==
  ASSUME NEW p \in Procs, proc'[p].rc = 0, proc'[p].pc # "idle"
  PROVE  /\ StoreStatus(p)' = "running" /\ Began(p)' = proc'[p].t /\ Asked(p)' = proc'[p].cmd.keys
         /\ Answer(p)' = proc'[p].out
BY DEF StoreStatus, Running, At, Began, Asked, Answer, WhileRunning

LEMMA OverIsNext ==
  ASSUME NEW p \in Procs, proc'[p].rc = 1 \/ (proc'[p].rc = 0 /\ proc'[p].pc = "idle")
  PROVE  /\ StoreStatus(p)' = IF proc'[p].rc = 1 THEN "failed" ELSE "ok"
         /\ Began(p)' = 0 /\ Asked(p)' = {} /\ Answer(p)' = {}
BY DEF StoreStatus, Running, At, Began, Asked, Answer, WhileRunning

(* The steps of the index, in terms of the maps. *)
IndexIs == <<StoreKv, now, StatusMap, BeganMap, PendingMap, AskedMap, AnswerMap>>

LEMMA StartStep ==
  ASSUME NEW p \in Procs, NEW keys, StatusMap[p] # "running",
         StatusMap' = [StatusMap EXCEPT ![p] = "running"],
         AskedMap' = [AskedMap EXCEPT ![p] = keys],
         UNCHANGED <<now, BeganMap, PendingMap, AnswerMap, StoreKv>>
  PROVE  Index!Start(p, keys)
BY DEF Index!Start, StatusMap, BeganMap, PendingMap, AskedMap, AnswerMap, Began, Asked, Answer

LEMMA EnterStep ==
  ASSUME NEW p \in Procs, StatusMap[p] = "running",
         BeganMap' = [BeganMap EXCEPT ![p] = now],
         UNCHANGED <<now, StatusMap, PendingMap, AskedMap, AnswerMap, StoreKv>>
  PROVE  Index!Enter(p)
BY DEF Index!Enter, StatusMap, BeganMap, PendingMap, AskedMap, AnswerMap, Began, Asked, Answer

AppliedKv(p) ==
  IF PendingMap[p] = None THEN StoreKv
  ELSE [StoreKv EXCEPT ![PendingMap[p].key] = PendingMap[p]]

LEMMA AppliedIs ==
  ASSUME NEW p \in Procs
  PROVE  Index!Applied(p) = AppliedKv(p)
BY DEF Index!Applied, AppliedKv, PendingMap

LEMMA SubmitStep ==
  ASSUME NEW p \in Procs, StatusMap[p] = "running",
         PendingMap'[p] \in Rows, PendingMap'[p].key \in AskedMap[p],
         PendingMap' = [PendingMap EXCEPT ![p] = PendingMap'[p]],
         UNCHANGED <<now, StatusMap, BeganMap, AskedMap, AnswerMap>>,
         StoreKv' = AppliedKv(p)
  PROVE  Index!Submit(p)
BY AppliedIs DEF Index!Submit, StatusMap, BeganMap, PendingMap, AskedMap, AnswerMap, Began, Asked, Answer

LEMMA CommitStep ==
  ASSUME NEW p \in Procs, StatusMap[p] = "running", PendingMap[p] # None,
         PendingMap' = [PendingMap EXCEPT ![p] = None],
         UNCHANGED <<now, StatusMap, BeganMap, AskedMap, AnswerMap>>,
         StoreKv' = AppliedKv(p)
  PROVE  Index!Commit(p)
BY AppliedIs DEF Index!Commit, StatusMap, BeganMap, PendingMap, AskedMap, AnswerMap, Began, Asked, Answer

LEMMA ReadStep ==
  ASSUME NEW p \in Procs, StatusMap[p] = "running",
         UNCHANGED <<now, StatusMap, BeganMap, PendingMap, AskedMap, StoreKv>>,
         AnswerMap' = [AnswerMap EXCEPT ![p] =
            {StoreKv[k] : k \in {j \in AskedMap[p] : Index!Live(StoreKv[j], BeganMap[p])}}]
  PROVE  Index!Read(p)
BY DEF Index!Read, StatusMap, BeganMap, PendingMap, AskedMap, AnswerMap, Began, Asked, Answer

LEMMA ForgetStep ==
  ASSUME UNCHANGED <<now, StatusMap, BeganMap, PendingMap, AskedMap, AnswerMap>>,
         \A k \in Keys : \/ StoreKv'[k] = StoreKv[k]
                         \/ StoreKv'[k] = None /\ ~Index!Live(StoreKv[k], now)
  PROVE  Index!Forget
<1>1. StoreKv' = [k \in Keys |-> StoreKv'[k]]
  BY DEF StoreKv
<1>2. QED
  BY <1>1 DEF Index!Forget, StatusMap, BeganMap, PendingMap, AskedMap, AnswerMap, Began, Asked, Answer

LEMMA EndedStep ==
  ASSUME NEW p \in Procs, NEW code, StatusMap[p] = "running",
         StatusMap' = [StatusMap EXCEPT ![p] = code],
         BeganMap' = [BeganMap EXCEPT ![p] = 0],
         PendingMap' = [PendingMap EXCEPT ![p] = None],
         AskedMap' = [AskedMap EXCEPT ![p] = {}],
         AnswerMap' = [AnswerMap EXCEPT ![p] = {}], now' = now
  PROVE  Index!Ended(p, code)
BY DEF Index!Ended, StatusMap, BeganMap, PendingMap, AskedMap, AnswerMap, Began, Asked, Answer

LEMMA QuietStep ==
  ASSUME UNCHANGED IndexIs
  PROVE  UNCHANGED Index!indexVars
BY DEF IndexIs, Index!indexVars, StatusMap, BeganMap, PendingMap, AskedMap, AnswerMap, Began, Asked, Answer

(* A running process goes on. *)
LEMMA GoesOn ==
  ASSUME NEW p \in Procs, Carries(p), proc[p].rc = 0, proc[p].pc # "idle",
         proc'[p].rc = 0, proc'[p].pc # "idle"
  PROVE  /\ StatusMap[p] = "running" /\ UNCHANGED <<StatusMap, BeganMap, AskedMap>>
         /\ PendingMap' = [PendingMap EXCEPT ![p] = proc'[p].buf]
         /\ AnswerMap' = [AnswerMap EXCEPT ![p] = proc'[p].out]
         /\ proc'[p].out = proc[p].out => AnswerMap' = AnswerMap
         /\ proc'[p].buf = proc[p].buf => PendingMap' = PendingMap
         /\ BeganMap[p] = proc[p].t /\ AskedMap[p] = proc[p].cmd.keys /\ PendingMap[p] = proc[p].buf
<1>1. /\ StoreStatus(p) = "running" /\ Began(p) = proc[p].t /\ Asked(p) = proc[p].cmd.keys
      /\ Answer(p) = proc[p].out
  BY RunningIs
<1>2. /\ StoreStatus(p)' = "running" /\ Began(p)' = proc'[p].t /\ Asked(p)' = proc'[p].cmd.keys
      /\ Answer(p)' = proc'[p].out
  BY RunningIsNext
<1>3. proc'[p].cmd = proc[p].cmd /\ proc'[p].t = proc[p].t /\ Others(p)
  BY DEF Carries
<1>4. QED
  BY <1>1, <1>2, <1>3, MapsOf, MapsAt

(* A running process is over, or has failed. *)
LEMMA GivesUp ==
  ASSUME NEW p \in Procs, Others(p), proc[p].rc = 0, proc[p].pc # "idle", now' = now,
         proc'[p].rc = 1 \/ (proc'[p].rc = 0 /\ proc'[p].pc = "idle"), proc'[p].buf = None,
         NEW code, code = IF proc'[p].rc = 1 THEN "failed" ELSE "ok"
  PROVE  Index!Ended(p, code) /\ PendingMap[p] = proc[p].buf
<1>1. StoreStatus(p) = "running"
  BY RunningIs
<1>2. StoreStatus(p)' = code /\ Began(p)' = 0 /\ Asked(p)' = {} /\ Answer(p)' = {}
  BY OverIsNext
<1>3. StatusMap[p] = "running" /\ PendingMap[p] = proc[p].buf
  BY <1>1, MapsAt
<1>4. /\ StatusMap' = [StatusMap EXCEPT ![p] = code]
      /\ BeganMap' = [BeganMap EXCEPT ![p] = 0]
      /\ PendingMap' = [PendingMap EXCEPT ![p] = None]
      /\ AskedMap' = [AskedMap EXCEPT ![p] = {}]
      /\ AnswerMap' = [AnswerMap EXCEPT ![p] = {}]
  BY <1>2, MapsOf
<1>5. QED
  BY <1>3, <1>4, EndedStep

(* A process that has failed does nothing more. *)
LEMMA StaysOver ==
  ASSUME NEW p \in Procs, Others(p), proc[p].rc = 1, proc'[p].rc = 1, proc[p].buf = None,
         proc'[p].buf = None, now' = now, StoreKv' = StoreKv
  PROVE  UNCHANGED Index!indexVars
<1>1. /\ StoreStatus(p) = "failed" /\ Began(p) = 0 /\ Asked(p) = {} /\ Answer(p) = {}
      /\ StoreStatus(p)' = "failed" /\ Began(p)' = 0 /\ Asked(p)' = {} /\ Answer(p)' = {}
  BY OverIs, OverIsNext
<1>2. StatusMap' = StatusMap /\ BeganMap' = BeganMap
  BY <1>1, MapsOf, MapsAt
<1>3. PendingMap' = PendingMap
  BY MapsOf, MapsAt
<1>4. AskedMap' = AskedMap /\ AnswerMap' = AnswerMap
  <2>1. Asked(p)' = Asked(p) /\ Answer(p)' = Answer(p)
    BY <1>1
  <2>2. QED
    BY <2>1, MapsOf, MapsAt
<1>5. UNCHANGED IndexIs
  BY <1>2, <1>3, <1>4 DEF IndexIs
<1>6. QED
  BY <1>5, QuietStep

LEMMA FailStep ==
  ASSUME NEW p \in Procs, Index!Ended(p, "failed"), StoreKv' \in {StoreKv, AppliedKv(p)}
  PROVE  Index!Fail(p)
BY AppliedIs DEF Index!Fail

LEMMA SucceedStep ==
  ASSUME NEW p \in Procs, Index!Ended(p, "ok"), StoreKv' = StoreKv, PendingMap[p] = None
  PROVE  Index!Succeed(p)
BY DEF Index!Succeed, PendingMap

(* What the index means by a live row. *)
LEMMA LiveIs ==
  ASSUME NEW row \in Rows \cup {None}, NEW t \in Nat
  PROVE  Index!Live(row, t) <=> RowIsLive(row, t)
<1>1. CASE row = None
  BY <1>1 DEF Index!Live, RowIsLive
<1>2. CASE row \in Rows
  <2>1. row.exp \in Nat
    BY <1>2 DEF Rows
  <2>2. QED
    BY <2>1 DEF Index!Live, RowIsLive, Expired
<1>3. QED
  BY <1>1, <1>2

LEMMA KvTyped ==
  ASSUME CInv, NEW k \in Keys
  PROVE  StoreKv[k] \in Rows \cup {None}
<1>1. db # None => file[db] \in Seq(Lines)
  BY DEF CInv, Typed
<1>2. QED
  BY <1>1, LatestTyped DEF StoreKv

LEMMA LockRefines ==
  ASSUME CInv, NEW p \in Procs, Lock(p)
  PROVE  Index!Enter(p)
<1>1. /\ Others(p) /\ proc[p].pc = "lock" /\ proc'[p].pc \in Modes
      /\ proc'[p].cmd = proc[p].cmd /\ proc'[p].t = now
      /\ proc'[p].buf = None /\ proc[p].buf = None /\ proc'[p].out = proc[p].out
      /\ proc'[p].rc = 0 /\ proc[p].rc = 0
  BY LockIs DEF CInv
<1>2. proc[p].pc # "idle" /\ proc'[p].pc # "idle"
  BY <1>1 DEF Modes
<1>3. /\ StoreStatus(p) = "running" /\ Asked(p) = proc[p].cmd.keys /\ Answer(p) = proc[p].out
  BY <1>1, <1>2, RunningIs
<1>4. /\ StoreStatus(p)' = "running" /\ Began(p)' = proc'[p].t /\ Asked(p)' = proc'[p].cmd.keys
      /\ Answer(p)' = proc'[p].out
  BY <1>1, <1>2, RunningIsNext
<1>5. /\ StatusMap[p] = "running" /\ BeganMap' = [BeganMap EXCEPT ![p] = now]
      /\ UNCHANGED <<StatusMap, PendingMap, AskedMap, AnswerMap>>
  BY <1>1, <1>3, <1>4, MapsOf, MapsAt
<1>6. StoreKv' = StoreKv /\ now' = now
  BY QuietKv DEF Lock, env
<1>7. QED
  BY <1>5, <1>6, EnterStep

LEMMA QueryRefines ==
  ASSUME CInv, NEW p \in Procs, Query(p)
  PROVE  Index!Read(p)
<1>1. /\ Carries(p) /\ proc[p].pc = "query" /\ proc'[p].pc = "flush"
      /\ proc'[p].rc = 0 /\ proc[p].rc = 0 /\ proc'[p].buf = None /\ proc[p].buf = None
      /\ proc'[p].out = LiveRows(file[proc[p].fd], proc[p].cmd.keys, proc[p].t)
  BY QueryIs DEF CInv
<1>2. /\ StatusMap[p] = "running" /\ UNCHANGED <<StatusMap, BeganMap, AskedMap, PendingMap>>
      /\ AnswerMap' = [AnswerMap EXCEPT ![p] = proc'[p].out]
      /\ BeganMap[p] = proc[p].t /\ AskedMap[p] = proc[p].cmd.keys
  BY <1>1, GoesOn
<1>3. Local(proc[p]) /\ proc[p].cmd \in Command /\ proc[p].cmd.mode = "query" /\ proc[p].t \in Nat
  BY <1>1 DEF CInv, Typed, Local, Modes
<1>4. proc[p].cmd.keys \subseteq Keys
  BY <1>3 DEF Command
<1>5. proc[p].fd = db /\ db # None
  BY <1>1, <1>3, HasDb, NoneAssumption DEF Past
<1> DEFINE keys == proc[p].cmd.keys
           t == proc[p].t
<1>6. ASSUME NEW k \in keys
      PROVE  /\ StoreKv[k] = LatestIn(file[db], k)
             /\ Index!Live(StoreKv[k], t) <=> RowIsLive(LatestIn(file[db], k), t)
  <2>1. StoreKv[k] = LatestIn(file[db], k)
    BY <1>4, <1>5 DEF StoreKv
  <2>2. StoreKv[k] \in Rows \cup {None}
    BY <1>4, KvTyped
  <2>3. QED
    BY <1>3, <2>1, <2>2, LiveIs
<1>7. LiveRows(file[db], keys, t) = {StoreKv[k] : k \in {j \in keys : Index!Live(StoreKv[j], t)}}
  BY <1>6, Zenon DEF LiveRows
<1>8. StoreKv' = StoreKv /\ now' = now
  BY QuietKv DEF Query, env
<1>9. AnswerMap' = [AnswerMap EXCEPT ![p] =
         {StoreKv[k] : k \in {j \in AskedMap[p] : Index!Live(StoreKv[j], BeganMap[p])}}]
  BY <1>1, <1>2, <1>5, <1>7
<1>10. QED
  BY <1>2, <1>8, <1>9, ReadStep

LEMMA InsideRefines ==
  ASSUME CInv, NEW p \in Procs, InputEnds(p) \/ Load(p) \/ OpenTmp(p) \/ FlushTmp(p)
  PROVE  UNCHANGED Index!indexVars
<1>1. /\ Carries(p) /\ proc[p].rc = 0 /\ proc[p].pc # "idle" /\ proc'[p].rc = 0
      /\ proc'[p].pc # "idle" /\ proc'[p].buf = proc[p].buf /\ proc'[p].out = proc[p].out
  <2>1. CASE InputEnds(p)
    BY <2>1, InputEndsIs DEF CInv
  <2>2. CASE Load(p)
    BY <2>2, LoadIs DEF CInv
  <2>3. CASE OpenTmp(p)
    BY <2>3, OpenTmpIs, OpenTmpIno DEF CInv
  <2>4. CASE FlushTmp(p)
    BY <2>4, FlushTmpIs DEF CInv
  <2>5. QED
    BY <2>1, <2>2, <2>3, <2>4
<1>2. UNCHANGED <<StatusMap, BeganMap, AskedMap, PendingMap, AnswerMap>>
  BY <1>1, GoesOn
<1>3. StoreKv' = StoreKv /\ now' = now
  BY QuietKv, TmpKv DEF InputEnds, Load, OpenTmp, FlushTmp, env
<1>4. UNCHANGED IndexIs
  BY <1>2, <1>3 DEF IndexIs
<1>5. QED
  BY <1>4, QuietStep

LEMMA RenameRefines ==
  ASSUME CInv, NEW p \in Procs, Rename(p)
  PROVE  Index!Forget
<1>1. /\ Carries(p) /\ proc[p].rc = 0 /\ proc[p].pc # "idle" /\ proc'[p].rc = 0
      /\ proc'[p].pc # "idle" /\ proc'[p].buf = proc[p].buf /\ proc'[p].out = proc[p].out
  BY RenameIs DEF CInv
<1>2. UNCHANGED <<StatusMap, BeganMap, AskedMap, PendingMap, AnswerMap>>
  BY <1>1, GoesOn
<1>3. now' = now /\ now \in Nat
  BY ClipStoreAssumption DEF Rename, Renamed, env, CInv, Typed
<1>4. \A k \in Keys : \/ StoreKv'[k] = StoreKv[k]
                      \/ StoreKv'[k] = None /\ ~Index!Live(StoreKv[k], now)
  BY <1>3, RenameStoreKv, KvTyped, LiveIs
<1>5. QED
  BY <1>2, <1>3, <1>4, ForgetStep

LEMMA CommandFailsRefines ==
  ASSUME CInv, NEW p \in Procs, CommandFails(p)
  PROVE  Index!Fail(p)
<1>1. /\ Carries(p) /\ proc[p].pc # "idle" /\ proc'[p].rc = 1 /\ proc[p].rc = 0
      /\ proc'[p].buf = None
  BY CommandFailsIs DEF CInv
<1>2. StoreKv' = StoreKv /\ now' = now
  BY QuietKv DEF CommandFails, env
<1>3. Index!Ended(p, "failed")
  <2>1. "failed" = IF proc'[p].rc = 1 THEN "failed" ELSE "ok"
    BY <1>1, <1>2
  <2>2. QED
    BY <1>1, <1>2, <2>1, GivesUp DEF Carries
<1>4. QED
  BY <1>2, <1>3, FailStep

(* The index once the buffered row is written out, on a disk that does not *)
(* fill up.                                                                *)
LEMMA WritesApply ==
  ASSUME CInv, ~DiskMayFill, NEW p \in Procs, Writes(p), db' = db
  PROVE  StoreKv' = AppliedKv(p) /\ (proc[p].buf = None => StoreKv' = StoreKv)
BY WritesKv, MapsAt DEF AppliedKv

LEMMA AppendRowRefines ==
  ASSUME CInv, ~DiskMayFill, NEW p \in Procs, AppendRow(p)
  PROVE  Index!Submit(p)
<1>1. WriteOut(p) /\ UNCHANGED <<db, now>>
  BY DEF AppendRow
<1>2. Writes(p)
  BY <1>1, WritesIs
<1>3. /\ Carries(p) /\ proc[p].pc # "idle" /\ proc'[p].pc # "idle"
      /\ proc'[p].rc = 0 /\ proc[p].rc = 0 /\ proc'[p].out = proc[p].out
      /\ proc'[p].buf \in Rows /\ proc'[p].buf.key \in proc[p].cmd.keys
  BY <1>2, AppendRowIs DEF CInv, Writes, Stores
<1>4. /\ StatusMap[p] = "running" /\ UNCHANGED <<StatusMap, BeganMap, AskedMap, AnswerMap>>
      /\ PendingMap' = [PendingMap EXCEPT ![p] = proc'[p].buf]
      /\ AskedMap[p] = proc[p].cmd.keys
  BY <1>3, GoesOn
<1>5. PendingMap'[p] = proc'[p].buf
  BY DEF PendingMap
<1>6. StoreKv' = AppliedKv(p)
  BY <1>1, <1>2, WritesApply
<1>7. QED
  BY <1>1, <1>3, <1>4, <1>5, <1>6, SubmitStep

LEMMA AppendFailsRefines ==
  ASSUME CInv, ~DiskMayFill, NEW p \in Procs, AppendFails(p)
  PROVE  Index!Fail(p)
<1>1. (WriteOut(p) \/ WriteFails(p)) /\ UNCHANGED <<db, now>>
  BY DEF AppendFails
<1>2. /\ Carries(p) /\ proc[p].pc # "idle" /\ proc'[p].rc = 1 /\ proc[p].rc = 0
      /\ proc'[p].buf = None
  BY AppendFailsIs DEF CInv, Stores
<1>3. Index!Ended(p, "failed")
  <2>1. "failed" = IF proc'[p].rc = 1 THEN "failed" ELSE "ok"
    BY <1>1, <1>2
  <2>2. QED
    BY <1>1, <1>2, <2>1, GivesUp DEF Carries
<1>4. StoreKv' = AppliedKv(p)
  BY <1>1, WritesIs, WritesApply
<1>5. QED
  BY <1>3, <1>4, FailStep

LEMMA FlushRefines ==
  ASSUME CInv, ~DiskMayFill, NEW p \in Procs, Flush(p) \/ FlushFails(p)
  PROVE  Index!Commit(p) \/ UNCHANGED Index!indexVars
<1>1. (WriteOut(p) \/ WriteFails(p)) /\ UNCHANGED <<db, now>>
  BY DEF Flush, FlushFails
<1>2. /\ Carries(p) /\ proc[p].pc = "flush" /\ proc'[p].pc = "close" /\ proc'[p].rc = proc[p].rc
      /\ proc'[p].buf = None /\ proc'[p].out = proc[p].out
  BY FlushIs DEF CInv
<1>3. StoreKv' = AppliedKv(p) /\ (proc[p].buf = None => StoreKv' = StoreKv)
  BY <1>1, WritesIs, WritesApply
<1>4. Local(proc[p]) /\ proc[p].rc \in {0, 1} /\ (proc[p].rc = 1 => proc[p].buf = None)
  BY DEF CInv, Typed, Local, Codes
<1>5. CASE proc[p].rc = 1
  BY <1>1, <1>2, <1>3, <1>4, <1>5, StaysOver DEF Carries
<1>6. CASE proc[p].rc = 0
  <2>1. /\ StatusMap[p] = "running" /\ UNCHANGED <<StatusMap, BeganMap, AskedMap, AnswerMap>>
        /\ PendingMap' = [PendingMap EXCEPT ![p] = None] /\ PendingMap[p] = proc[p].buf
        /\ proc[p].buf = None => PendingMap' = PendingMap
    BY <1>2, <1>6, GoesOn
  <2>2. CASE proc[p].buf = None
    <3>1. UNCHANGED IndexIs
      BY <1>1, <1>3, <2>1, <2>2 DEF IndexIs
    <3>2. QED
      BY <3>1, QuietStep
  <2>3. CASE proc[p].buf # None
    BY <1>1, <1>3, <2>1, <2>3, CommitStep
  <2>4. QED
    BY <2>2, <2>3
<1>7. QED
  BY <1>4, <1>5, <1>6

LEMMA EndsRefines ==
  ASSUME CInv, NEW p \in Procs, Close(p) \/ Die(p)
  PROVE  Index!Succeed(p) \/ Index!Fail(p) \/ UNCHANGED Index!indexVars
<1>1. /\ Local(proc[p]) /\ proc[p].rc \in {0, 1} /\ proc[p].pc # "idle" /\ DOMAIN proc = Procs
      /\ proc[p].rc = 1 => proc[p].buf = None
  BY DEF CInv, Typed, Local, Codes, Close, Die, At, Running
<1>2. StoreKv' = StoreKv /\ now' = now
  BY EndKv DEF Close, Die, env
<1>3. PICK c \in {proc[p].rc, 1} :
        /\ proc' = [proc EXCEPT ![p] = [Idle EXCEPT !.rc = c]]
        /\ (c = proc[p].rc /\ proc[p].buf = None) \/ c = 1
  <2>1. CASE Close(p)
    <3>1. proc[p].buf = None
      BY <1>1, <2>1 DEF Local, Close, At
    <3>2. QED
      BY <2>1, <3>1 DEF Close
  <2>2. CASE Die(p)
    BY <2>2 DEF Die
  <2>3. QED
    BY <2>1, <2>2
<1>4. c \in Codes
  BY <1>1, <1>3 DEF Codes
<1>5. Others(p) /\ proc'[p].pc = "idle" /\ proc'[p].rc = c /\ proc'[p].buf = None
  BY <1>1, <1>3, <1>4, IdleTyped DEF Others
<1>6. CASE proc[p].rc = 1
  BY <1>1, <1>2, <1>3, <1>5, <1>6, StaysOver
<1>7. CASE proc[p].rc = 0
  <2> DEFINE code == IF c = 1 THEN "failed" ELSE "ok"
  <2>0. code = IF proc'[p].rc = 1 THEN "failed" ELSE "ok"
    BY <1>5
  <2> HIDE DEF code
  <2>1. Index!Ended(p, code) /\ PendingMap[p] = proc[p].buf
    BY <1>1, <1>2, <1>4, <1>5, <1>7, <2>0, GivesUp DEF Codes
  <2>2. CASE c = 1
    BY <1>2, <2>1, <2>2, FailStep DEF code
  <2>3. CASE c = 0 /\ proc[p].buf = None
    BY <1>2, <2>1, <2>3, SucceedStep DEF code
  <2>4. QED
    BY <1>3, <1>7, <2>2, <2>3
<1>8. QED
  BY <1>1, <1>6, <1>7

LEMMA OpenRefines ==
  ASSUME CInv, GcAlone, NEW p \in Procs, NEW cmd \in Commands, Open(p, cmd)
  PROVE  \E keys \in SUBSET Keys : Index!Start(p, keys)
<1>1. /\ Others(p) /\ proc[p].pc = "idle" /\ proc'[p].pc = "lock"
      /\ proc'[p].cmd = cmd /\ proc'[p].t = 0 /\ proc'[p].rc = 0 /\ proc'[p].buf = None
      /\ proc'[p].out = {} /\ cmd \in Command
  BY OpenIs
<1>2. proc[p].rc \in {0, 1} /\ proc[p].buf = None
  BY <1>1 DEF CInv, Typed, Local, Codes
<1>3. StoreStatus(p) # "running" /\ Began(p) = 0 /\ Asked(p) = {} /\ Answer(p) = {}
  BY <1>1, <1>2, OverIs
<1>4. /\ StoreStatus(p)' = "running" /\ Began(p)' = 0 /\ Asked(p)' = cmd.keys /\ Answer(p)' = {}
  BY <1>1, RunningIsNext
<1>5. /\ StatusMap[p] # "running" /\ StatusMap' = [StatusMap EXCEPT ![p] = "running"]
      /\ AskedMap' = [AskedMap EXCEPT ![p] = cmd.keys]
      /\ UNCHANGED <<BeganMap, PendingMap, AnswerMap>>
  <2>1. StatusMap[p] # "running" /\ StatusMap' = [StatusMap EXCEPT ![p] = "running"]
    BY <1>1, <1>3, <1>4, MapsOf, MapsAt
  <2>2. AskedMap' = [AskedMap EXCEPT ![p] = cmd.keys]
    BY <1>1, <1>4, MapsOf
  <2>3. BeganMap' = BeganMap
    BY <1>1, <1>3, <1>4, MapsOf, MapsAt
  <2>4. PendingMap' = PendingMap
    BY <1>1, <1>2, MapsOf, MapsAt
  <2>5. AnswerMap' = AnswerMap
    <3>1. Answer(p)' = Answer(p)
      BY <1>3, <1>4
    <3>2. QED
      BY <1>1, <3>1, MapsOf, MapsAt
  <2>6. QED
    BY <2>1, <2>2, <2>3, <2>4, <2>5
<1>6. StoreKv' = StoreKv /\ now' = now
  BY OpenKv DEF Open
<1>7. cmd.keys \in SUBSET Keys
  BY <1>1 DEF Command
<1>8. QED
  BY <1>5, <1>6, <1>7, StartStep

LEMMA TickRefines ==
  ASSUME CInv, Tick
  PROVE  Index!Tick
<1>1. StoreKv' = StoreKv
  BY KvSame DEF Tick
<1>2. QED
  BY <1>1 DEF Tick, Index!Tick, StoreStatus, WhileRunning, Running, At

LEMMA StutterRefines ==
  ASSUME UNCHANGED vars
  PROVE  UNCHANGED Index!indexVars
BY DEF vars, Index!indexVars, StoreKv, StoreStatus, WhileRunning, Running, At

LEMMA InitRefines == Init => Index!Init
BY DEF Init, Index!Init, StoreKv, StoreStatus, WhileRunning, Running, At, Idle

LEMMA StepRefines ==
  ASSUME CInv, GcAlone, ~DiskMayFill, [Next]_vars
  PROVE  [Index!Next]_(Index!indexVars)
<1>1. ASSUME NEW p \in Procs, Step(p)
      PROVE  \/ Index!Forget \/ Index!Enter(p) \/ Index!Submit(p) \/ Index!Commit(p)
             \/ Index!Read(p) \/ Index!Succeed(p) \/ Index!Fail(p) \/ UNCHANGED Index!indexVars
  BY <1>1, LockRefines, QueryRefines, InsideRefines, AppendRowRefines, AppendFailsRefines,
     RenameRefines, CommandFailsRefines, FlushRefines, EndsRefines DEF Step
<1>2. ASSUME NEW p \in Procs, Step(p) PROVE [Index!Next]_(Index!indexVars)
  BY <1>1, <1>2 DEF Index!Next
<1>3. ASSUME NEW p \in Procs, Die(p) PROVE [Index!Next]_(Index!indexVars)
  BY <1>3, EndsRefines DEF Index!Next
<1>4. ASSUME NEW p \in Procs, NEW cmd \in Commands, Open(p, cmd)
      PROVE  [Index!Next]_(Index!indexVars)
  BY <1>4, OpenRefines DEF Index!Next
<1>5. QED
  BY <1>2, <1>3, <1>4, TickRefines, StutterRefines DEF Next, Index!Next

(* However the invocations interleave, die and fail, the file behind the   *)
(* path is one index: a row takes effect when it is written out, status 0  *)
(* means that it has been, a query prints the live rows of one moment, and *)
(* compaction forgets nothing a query could return.                        *)
THEOREM ClipStoreImplementsIndex == GcAlone /\ ~DiskMayFill => (Spec => ImplementsIndex)
<1>1. SUFFICES ASSUME GcAlone, ~DiskMayFill PROVE Spec => ImplementsIndex
  OBVIOUS
<1>2. CInv /\ [Next]_vars => [Index!Next]_(Index!indexVars)
  BY <1>1, StepRefines
<1>3. Spec => []CInv
  BY <1>1, ClipStoreInvariance
<1>4. QED
  BY <1>2, <1>3, InitRefines, PTL DEF Spec, ImplementsIndex, Index!Spec
=============================================================================
