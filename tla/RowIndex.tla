------------------------------ MODULE RowIndex ------------------------------
(***************************************************************************)
(* The hash table into which clip_store loads its file (db_query.c): open  *)
(* addressing with linear probing, a row put at a time, a table that       *)
(* doubles before it is three quarters full.  One action is one iteration  *)
(* of a loop or the code between two loops.  The hash function is          *)
(* arbitrary: it is chosen in the initial state.  A slot that is not used  *)
(* holds None.  A line is the row that was appended to the file, of which  *)
(* parse_db_row makes the row that is put.                                 *)
(***************************************************************************)
EXTENDS DbFormat, FiniteSets

CONSTANTS
  Keys,
  None,
  HashCodes,      (* what hash_key may return            *)
  INITIAL_BUCKETS (* 64 in the code                      *)

Row == [key : Keys, value : Values]

ASSUME RowIndexAssumption ==
  /\ HashCodes \subseteq Nat
  /\ INITIAL_BUCKETS \in Nat /\ INITIAL_BUCKETS >= 2
  /\ None \notin Row

VARIABLES
  hash,    (* hash_key                                          *)
  index,   (* row_index_t: cap, len and the slots               *)
  grown,   (* the table row_index_grow fills                    *)
  nextCap, (* the capacity it looks for                         *)
  cursor,  (* the slot of the old table it has come to          *)
  written, (* history: the row appended as the line being read  *)
  row,     (* the row being put, or None                        *)
  pc       (* where load_latest_rows is                         *)

vars == <<hash, index, grown, nextCap, cursor, written, row, pc>>

NewTable(cap) == [cap |-> cap, len |-> 0, slots |-> [i \in 0..(cap - 1) |-> None]]

Init ==
  /\ hash \in [Keys -> HashCodes]
  /\ index = NewTable(0) /\ grown = NewTable(0)
  /\ nextCap = 0 /\ cursor = 0 /\ written = None /\ row = None /\ pc = "read"

(* Capacities are powers of two, so the mask is the remainder. *)
Probe(table, k, d) == (hash[k] + d) % table.cap
Stops(table, k) ==
  {d \in 0..(table.cap - 1) :
     LET r == table.slots[Probe(table, k, d)] IN IF r = None THEN TRUE ELSE r.key = k}
FindSlot(table, k) ==
  Probe(table, k, CHOOSE d \in Stops(table, k) : \A e \in Stops(table, k) : d <= e)

(* Mutant of Store: a row goes where its key hashes to. *)
StoreAtHash(table, r) ==
  [table EXCEPT !.slots[Probe(table, r.key, 0)] = r,
                !.len = IF table.slots[Probe(table, r.key, 0)] = None THEN @ + 1 ELSE @]

Store(table, r) ==
  LET slot == FindSlot(table, r.key)
  IN [table EXCEPT !.slots[slot] = r,
                   !.len = IF table.slots[slot] = None THEN @ + 1 ELSE @]

(* row_index_get *)
Get(table, k) == IF table.cap = 0 THEN None ELSE table.slots[FindSlot(table, k)]

-----------------------------------------------------------------------------
ReadLine ==
  /\ pc = "read" /\ pc' = "parse"
  /\ written' \in Row
  /\ UNCHANGED <<hash, index, grown, nextCap, cursor, row>>

(* parse_db_row; a line that does not parse is passed over, any other is   *)
(* put, which begins with row_index_grow.                                  *)
ParseLine ==
  /\ pc = "parse"
  /\ LET parsed == [key : {written.key}, value : Read(Written(written.value))]
     IN IF parsed = {} THEN pc' = "read" /\ UNCHANGED <<row, nextCap>>
        ELSE /\ row' \in parsed /\ pc' = "size"
             /\ nextCap' = IF index.cap = 0 THEN INITIAL_BUCKETS ELSE index.cap
  /\ UNCHANGED <<hash, index, grown, cursor, written>>

(* No memory to unpack the value: parse_db_row returns -1 as for any line  *)
(* that does not parse.                                                    *)
ParseFails ==
  /\ pc = "parse" /\ written.value # Tombstone
  /\ written' = None /\ pc' = "read"
  /\ UNCHANGED <<hash, index, grown, nextCap, cursor, row>>

(* Mutant of TooSmall: the table may fill up. *)
TooSmallOnlyWhenFull(len, cap) == len > cap

TooSmall(len, cap) == len * 4 >= cap * 3

Double ==
  /\ pc = "size" /\ TooSmall(index.len + 1, nextCap)
  /\ nextCap' = 2 * nextCap
  /\ UNCHANGED <<hash, index, grown, cursor, written, row, pc>>

LargeEnough ==
  /\ pc = "size" /\ ~TooSmall(index.len + 1, nextCap)
  /\ nextCap = index.cap
  /\ pc' = "insert"
  /\ UNCHANGED <<hash, index, grown, nextCap, cursor, written, row>>

Allocate ==
  /\ pc = "size" /\ ~TooSmall(index.len + 1, nextCap)
  /\ nextCap # index.cap
  /\ grown' = NewTable(nextCap) /\ cursor' = 0 /\ pc' = "rehash"
  /\ UNCHANGED <<hash, index, nextCap, written, row>>

(* Mutant of Moved: the slot numbers of the old table are kept. *)
MovedInPlace(r) ==
  [grown EXCEPT !.slots[cursor] = r, !.len = @ + 1]

(* The new table has no row of the key yet. *)
Moved(r) == Store(grown, r)

MoveSlot ==
  /\ pc = "rehash" /\ cursor < index.cap
  /\ cursor' = cursor + 1
  /\ grown' = IF index.slots[cursor] = None THEN grown ELSE Moved(index.slots[cursor])
  /\ UNCHANGED <<hash, index, nextCap, written, row, pc>>

Replace ==
  /\ pc = "rehash" /\ cursor = index.cap
  /\ index' = grown /\ grown' = NewTable(0) /\ pc' = "insert"
  /\ UNCHANGED <<hash, nextCap, cursor, written, row>>

Insert ==
  /\ pc = "insert"
  /\ index' = Store(index, row)
  /\ written' = None /\ row' = None /\ pc' = "read"
  /\ UNCHANGED <<hash, grown, nextCap, cursor>>

(* calloc or strdup fails: the row is not put and the load fails. *)
OutOfMemory ==
  /\ \/ pc = "size" /\ ~TooSmall(index.len + 1, nextCap) /\ nextCap # index.cap
     \/ pc = "insert"
  /\ written' = None /\ row' = None /\ pc' = "failed"
  /\ UNCHANGED <<hash, index, grown, nextCap, cursor>>

(* The end of the file, or an error of it. *)
ReadEnds ==
  /\ pc = "read" /\ pc' \in {"loaded", "failed"}
  /\ UNCHANGED <<hash, index, grown, nextCap, cursor, written, row>>

(* Mutant of Free: the capacity stays while the slots go. *)
FreeKeepsCap ==
  /\ pc \in {"loaded", "failed"} /\ pc' = "freed"
  /\ index' = [NewTable(0) EXCEPT !.cap = index.cap]
  /\ UNCHANGED <<hash, grown, nextCap, cursor, written, row>>

(* row_index_free, once the caller has made use of the index. *)
Free ==
  /\ pc \in {"loaded", "failed"} /\ pc' = "freed"
  /\ index' = NewTable(0)
  /\ UNCHANGED <<hash, grown, nextCap, cursor, written, row>>

Next ==
  \/ ReadLine \/ ParseLine \/ ParseFails \/ Double \/ LargeEnough \/ Allocate \/ MoveSlot \/ Replace
  \/ Insert \/ OutOfMemory \/ ReadEnds \/ Free

Spec == Init /\ [][Next]_vars

-----------------------------------------------------------------------------
IsTable(t) ==
  /\ DOMAIN t = {"cap", "len", "slots"}
  /\ t.cap \in Nat /\ t.len \in Nat
  /\ t.slots \in [0..(t.cap - 1) -> Row \cup {None}]

IndexTypeOK ==
  /\ hash \in [Keys -> HashCodes]
  /\ IsTable(index) /\ IsTable(grown)
  /\ nextCap \in Nat /\ cursor \in Nat
  /\ {written, row} \subseteq Row \cup {None}
  /\ pc \in {"read", "parse", "size", "rehash", "insert", "loaded", "failed", "freed"}
  /\ (row = None) <=> (pc \notin {"size", "rehash", "insert"})

Used(t) == {i \in 0..(t.cap - 1) : t.slots[i] # None}

(* The loop of find_slot ends, for every key, in the index and in the      *)
(* table being filled: the length is the number of used slots and stays    *)
(* below three quarters of the capacity.                                   *)
RoomToProbe(t) ==
  /\ Cardinality(Used(t)) = t.len
  /\ t.cap > 0 => ~TooSmall(t.len, t.cap)
  /\ t.cap > 0 => \A k \in Keys : Stops(t, k) # {}
ProbeEnds == RoomToProbe(index) /\ RoomToProbe(grown)

(* Every row is where a search for its key ends, in both tables: no key    *)
(* has two rows, and none lies beyond an empty slot of its probe sequence. *)
Findable(t) == \A i \in Used(t) : FindSlot(t, t.slots[i].key) = i
EveryRowFindable == Findable(index) /\ Findable(grown)

(* Lookups see a map into which the rows were put in order, each as it was *)
(* appended to the file; growing changes no answer, nor does a row that    *)
(* cannot be put.                                                           *)
Abstract == INSTANCE RowMap WITH map <- [k \in Keys |-> Get(index, k)], wanted <- written
ImplementsRowMap == Abstract!MapSpec
=============================================================================
