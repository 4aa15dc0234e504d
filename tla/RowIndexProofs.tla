--------------------------- MODULE RowIndexProofs ---------------------------
(***************************************************************************)
(* Theorems about RowIndex, for any keys, any hash function, any file and  *)
(* any initial capacity: the search for a slot ends, every row is where a  *)
(* search for its key ends, and lookups see the map that RowMap promises.  *)
(* The inductive invariant adds to what the runs check how far growing has *)
(* come: what the new table has of the old one, and that both have room    *)
(* for the row being put.                                                  *)
(***************************************************************************)
EXTENDS RowIndex, DbFormatProofs, FiniteSetTheorems, WellFoundedInduction

-----------------------------------------------------------------------------
(* The inductive invariant.                                                *)

Good(t) == IsTable(t) /\ RoomToProbe(t) /\ Findable(t)

(* The new table n has just the rows of the slots of the old table o below *)
(* c, so it has no more of them than there are such slots.                 *)
Before(t, c) == {i \in Used(t) : i < c}
HasMoved(n, o, c) ==
  /\ n.len <= Cardinality(Before(o, c))
  /\ \A i \in Before(o, c) : Get(n, o.slots[i].key) = o.slots[i]
  /\ \A j \in Used(n) : \E i \in Before(o, c) : o.slots[i] = n.slots[j]

Growing == grown.cap = nextCap /\ cursor <= index.cap /\ HasMoved(grown, index, cursor)

(* The row being put is the one that was appended to the file, and the     *)
(* table it will be put into has room for it.                              *)
Putting ==
  /\ written = None <=> pc \notin {"parse", "size", "rehash", "insert"}
  /\ pc \in {"size", "rehash", "insert"} => row = written
  /\ pc \in {"size", "rehash"} => nextCap > 0
  /\ pc = "rehash" => ~TooSmall(index.len + 1, nextCap)
  /\ pc = "insert" => index.cap > 0 /\ ~TooSmall(index.len + 1, index.cap)

RInv ==
  /\ IndexTypeOK
  /\ Good(index) /\ Good(grown)
  /\ Putting
  /\ pc = "rehash" => Growing

-----------------------------------------------------------------------------
(* Numbers.                                                                *)

LEMMA Least ==
  ASSUME NEW S \in SUBSET Nat, S # {}
  PROVE  \E x \in S : \A y \in S : x <= y
<1>1. PICK x \in S : \A y \in S : <<y, x>> \notin OpToRel(<, Nat)
  BY WFMin, NatLessThanWellFounded, Zenon
<1>2. \A y \in S : ~(y < x)
  BY <1>1 DEF OpToRel
<1>3. QED
  BY <1>2

LEMMA RemainderType ==
  ASSUME NEW a \in Nat, NEW c \in Nat, c > 0
  PROVE  a % c \in 0..(c - 1)
OBVIOUS

LEMMA RemainderIs ==
  ASSUME NEW c \in Nat, c > 0, NEW q \in Int, NEW e \in 0..(c - 1)
  PROVE  (c * q + e) % c = e
OBVIOUS

(* A probe sequence comes to every slot. *)
LEMMA EverySlotProbed ==
  ASSUME NEW h \in Nat, NEW c \in Nat, c > 0, NEW e \in 0..(c - 1)
  PROVE  \E d \in 0..(c - 1) : (h + d) % c = e
<1> DEFINE r == h % c
<1>1. r \in 0..(c - 1)
  BY RemainderType
<1>2. PICK q \in Int : h = c * q + r
  <2>1. h = c * (h \div c) + r /\ h \div c \in Int
    OBVIOUS
  <2>2. QED
    BY <2>1
<1> HIDE DEF r
<1>3. CASE e >= r
  <2>1. e - r \in 0..(c - 1) /\ h + (e - r) = c * q + e
    BY <1>1, <1>2, <1>3
  <2>2. (c * q + e) % c = e
    BY RemainderIs
  <2>3. QED
    BY <2>1, <2>2
<1>4. CASE e < r
  <2>1. /\ e + c - r \in 0..(c - 1) /\ h + (e + c - r) = c * (q + 1) + e
        /\ q + 1 \in Int
    BY <1>1, <1>2, <1>4
  <2>2. (c * (q + 1) + e) % c = e
    BY <2>1, RemainderIs
  <2>3. QED
    BY <2>1, <2>2
<1>5. QED
  BY <1>1, <1>3, <1>4

LEMMA SmallerFits ==
  ASSUME NEW m \in Nat, NEW n \in Nat, NEW c \in Nat, m <= n, ~TooSmall(n, c)
  PROVE  ~TooSmall(m, c) /\ m < c
BY DEF TooSmall

-----------------------------------------------------------------------------
(* The operators of one table.                                             *)

Hashes == hash \in [Keys -> HashCodes]

LEMMA ProbeType ==
  ASSUME Hashes, NEW t, t.cap \in Nat, t.cap > 0, NEW k \in Keys, NEW d \in Nat
  PROVE  Probe(t, k, d) \in 0..(t.cap - 1)
<1>1. hash[k] \in Nat
  BY RowIndexAssumption DEF Hashes
<1>2. hash[k] + d \in Nat
  BY <1>1
<1>3. QED
  BY <1>2, RemainderType DEF Probe

(* Where the loop of find_slot stops. *)
LEMMA StopsIs ==
  ASSUME NEW t, NEW k, NEW d
  PROVE  d \in Stops(t, k)
           <=> /\ d \in 0..(t.cap - 1)
               /\ \/ t.slots[Probe(t, k, d)] = None
                  \/ t.slots[Probe(t, k, d)].key = k
BY DEF Stops

LEMMA FirstStop ==
  ASSUME NEW t, t.cap \in Nat, NEW k, Stops(t, k) # {}
  PROVE  \E d \in Stops(t, k) :
           /\ \A e \in Stops(t, k) : d <= e
           /\ FindSlot(t, k) = Probe(t, k, d)
<1>1. Stops(t, k) \in SUBSET Nat
  BY DEF Stops
<1>2. \E d \in Stops(t, k) : \A e \in Stops(t, k) : d <= e
  BY <1>1, Least
<1>3. QED
  BY <1>2, Zenon DEF FindSlot

LEMMA SlotOfFirstStop ==
  ASSUME NEW t, t.cap \in Nat, NEW k, NEW d \in Stops(t, k), \A e \in Stops(t, k) : d <= e
  PROVE  FindSlot(t, k) = Probe(t, k, d)
<1>1. PICK c \in Stops(t, k) :
        /\ \A e \in Stops(t, k) : c <= e
        /\ FindSlot(t, k) = Probe(t, k, c)
  BY FirstStop
<1>2. c <= d /\ d <= c /\ c \in Int /\ d \in Int
  BY <1>1 DEF Stops
<1>3. c = d
  BY <1>2
<1>4. QED
  BY <1>1, <1>3

(* The slots of a table are finitely many. *)
LEMMA UsedFinite ==
  ASSUME NEW t, t.cap \in Nat
  PROVE  /\ IsFiniteSet(Used(t)) /\ Cardinality(Used(t)) \in Nat
         /\ Cardinality(0..(t.cap - 1)) = t.cap
         /\ IsFiniteSet(0..(t.cap - 1))
<1>1. IsFiniteSet(0..(t.cap - 1)) /\ Cardinality(0..(t.cap - 1)) = t.cap
  <2> DEFINE top == t.cap - 1
  <2>1. top \in Int
    OBVIOUS
  <2> HIDE DEF top
  <2>2. IsFiniteSet(0..top) /\ Cardinality(0..top) = IF 0 > top THEN 0 ELSE top - 0 + 1
    BY <2>1, FS_Interval
  <2>3. QED
    BY <2>2 DEF top
<1>2. Used(t) \in SUBSET (0..(t.cap - 1))
  BY DEF Used
<1>3. IsFiniteSet(Used(t))
  BY <1>1, <1>2, FS_Subset
<1>4. QED
  BY <1>1, <1>3, FS_CardinalityType

(* A table that is not full has an empty slot, which every search that     *)
(* meets nothing else comes to.                                            *)
LEMMA SearchEnds ==
  ASSUME Hashes, NEW t, t.cap \in Nat, t.cap > 0, Cardinality(Used(t)) < t.cap, NEW k \in Keys
  PROVE  Stops(t, k) # {}
<1>1. PICK i \in 0..(t.cap - 1) : t.slots[i] = None
  <2>1. Used(t) # 0..(t.cap - 1)
    BY UsedFinite
  <2>2. QED
    BY <2>1 DEF Used
<1>2. hash[k] \in Nat
  BY RowIndexAssumption DEF Hashes
<1>3. PICK d \in 0..(t.cap - 1) : Probe(t, k, d) = i
  BY <1>2, EverySlotProbed DEF Probe
<1>4. d \in Stops(t, k)
  BY <1>1, <1>3, StopsIs
<1>5. QED
  BY <1>4

(* What a search comes to: an empty slot, or the row of the key. *)
LEMMA FoundIs ==
  ASSUME Hashes, NEW t, IsTable(t), RoomToProbe(t), t.cap > 0, NEW k \in Keys
  PROVE  /\ FindSlot(t, k) \in 0..(t.cap - 1)
         /\ t.slots[FindSlot(t, k)] # None => t.slots[FindSlot(t, k)].key = k
         /\ t.slots[FindSlot(t, k)] = None \/ t.slots[FindSlot(t, k)] \in Row
<1>1. t.cap \in Nat /\ Stops(t, k) # {}
  BY DEF IsTable, RoomToProbe
<1>2. PICK d \in Stops(t, k) : FindSlot(t, k) = Probe(t, k, d)
  BY <1>1, FirstStop
<1>3. d \in Nat
  BY <1>1, StopsIs
<1>4. FindSlot(t, k) \in 0..(t.cap - 1)
  BY <1>1, <1>2, <1>3, ProbeType
<1>5. t.slots[FindSlot(t, k)] = None \/ t.slots[FindSlot(t, k)] \in Row
  BY <1>4 DEF IsTable
<1>6. QED
  BY <1>2, <1>4, <1>5, StopsIs

(* A key has the row of some used slot, and no other, or none. *)
LEMMA GetIs ==
  ASSUME Hashes, NEW t, Good(t), NEW k \in Keys
  PROVE  /\ Get(t, k) = None \/ (Get(t, k) \in Row /\ Get(t, k).key = k)
         /\ Get(t, k) # None => \E i \in Used(t) : t.slots[i] = Get(t, k)
         /\ \A i \in Used(t) : t.slots[i].key = k => Get(t, k) = t.slots[i]
<1>1. t.cap \in Nat /\ IsTable(t) /\ RoomToProbe(t) /\ Findable(t)
  BY DEF Good, IsTable
<1>2. CASE t.cap = 0
  BY <1>2 DEF Get, Used
<1>3. CASE t.cap # 0
  <2>1. /\ FindSlot(t, k) \in 0..(t.cap - 1)
        /\ t.slots[FindSlot(t, k)] # None => t.slots[FindSlot(t, k)].key = k
        /\ t.slots[FindSlot(t, k)] = None \/ t.slots[FindSlot(t, k)] \in Row
    BY <1>1, <1>3, FoundIs
  <2>2. Get(t, k) = t.slots[FindSlot(t, k)]
    BY <1>3, Zenon DEF Get
  <2>3. QED
    BY <1>1, <2>1, <2>2, Zenon DEF Used, Findable
<1>4. QED
  BY <1>2, <1>3

LEMMA NewTableIs ==
  ASSUME Hashes, NEW cap \in Nat
  PROVE  /\ Good(NewTable(cap)) /\ NewTable(cap).cap = cap /\ NewTable(cap).len = 0
         /\ Used(NewTable(cap)) = {}
         /\ \A k \in Keys : Get(NewTable(cap), k) = None
<1> DEFINE t == NewTable(cap)
<1>1. /\ t.cap = cap /\ t.len = 0 /\ t.slots = [i \in 0..(cap - 1) |-> None]
      /\ DOMAIN t = {"cap", "len", "slots"}
  BY DEF NewTable
<1> HIDE DEF t
<1>2. IsTable(t) /\ Used(t) = {}
  BY <1>1 DEF IsTable, Used
<1>3. Cardinality(Used(t)) = 0
  BY <1>2, FS_EmptySet
<1>4. \A k \in Keys : t.cap > 0 => Stops(t, k) # {}
  BY <1>1, <1>3, SearchEnds
<1>5. t.cap > 0 => ~TooSmall(t.len, t.cap)
  BY <1>1 DEF TooSmall
<1>6. Good(t)
  BY <1>1, <1>2, <1>3, <1>4, <1>5 DEF Good, RoomToProbe, Findable
<1>7. \A k \in Keys : Get(t, k) = None
  BY <1>2, <1>6, GetIs
<1>8. QED
  BY <1>1, <1>2, <1>6, <1>7 DEF t

-----------------------------------------------------------------------------
(* What putting a row does to a table that has room for it.                *)

(* The slot is empty or the key's own, and nothing but it changes. *)
LEMMA StoreSlots ==
  ASSUME Hashes, NEW t, Good(t), t.cap > 0, NEW r \in Row
  PROVE  LET s == FindSlot(t, r.key)
             u == Store(t, r)
         IN /\ s \in 0..(t.cap - 1) /\ r.key \in Keys /\ r # None
            /\ t.slots[s] = None \/ t.slots[s].key = r.key
            /\ IsTable(u) /\ u.cap = t.cap
            /\ u.slots = [t.slots EXCEPT ![s] = r]
            /\ u.len = IF t.slots[s] = None THEN t.len + 1 ELSE t.len
            /\ Used(u) = Used(t) \cup {s}
<1> DEFINE s == FindSlot(t, r.key)
           u == Store(t, r)
<1>1. /\ IsTable(t) /\ RoomToProbe(t) /\ r.key \in Keys /\ r # None
      /\ t.cap \in Nat /\ t.len \in Nat /\ DOMAIN t = {"cap", "len", "slots"}
      /\ t.slots \in [0..(t.cap - 1) -> Row \cup {None}]
  BY RowIndexAssumption DEF Good, IsTable, Row
<1>2. /\ s \in 0..(t.cap - 1)
      /\ t.slots[s] = None \/ t.slots[s].key = r.key
  BY <1>1, FoundIs
<1>3. u = [t EXCEPT !.slots[s] = r, !.len = IF t.slots[s] = None THEN @ + 1 ELSE @]
  BY DEF Store
<1> HIDE DEF s, u
<1>4. /\ DOMAIN u = {"cap", "len", "slots"} /\ u.cap = t.cap
      /\ u.slots = [t.slots EXCEPT ![s] = r]
      /\ u.len = IF t.slots[s] = None THEN t.len + 1 ELSE t.len
  BY <1>1, <1>3
<1>5. u.slots \in [0..(u.cap - 1) -> Row \cup {None}] /\ u.len \in Nat /\ u.cap \in Nat
  BY <1>1, <1>2, <1>4
<1>6. IsTable(u)
  BY <1>4, <1>5 DEF IsTable
<1>7. Used(u) = Used(t) \cup {s}
  BY <1>1, <1>2, <1>4 DEF Used
<1>8. QED
  BY <1>1, <1>2, <1>4, <1>6, <1>7 DEF s, u

LEMMA StoreRoom ==
  ASSUME Hashes, NEW t, Good(t), t.cap > 0, NEW r \in Row, ~TooSmall(t.len + 1, t.cap)
  PROVE  RoomToProbe(Store(t, r)) /\ Store(t, r).len \in Nat /\ Store(t, r).len <= t.len + 1
<1> DEFINE s == FindSlot(t, r.key)
           u == Store(t, r)
<1>1. /\ s \in 0..(t.cap - 1) /\ u.cap = t.cap /\ IsTable(u)
      /\ u.len = IF t.slots[s] = None THEN t.len + 1 ELSE t.len
      /\ Used(u) = Used(t) \cup {s}
  BY StoreSlots
<1>2. t.cap \in Nat /\ t.len \in Nat /\ Cardinality(Used(t)) = t.len
  BY DEF Good, IsTable, RoomToProbe
<1> HIDE DEF s, u
<1>3. s \in Used(t) <=> t.slots[s] # None
  BY <1>1 DEF Used
<1>4. Cardinality(Used(u)) = u.len
  <2>1. IsFiniteSet(Used(t))
    BY <1>2, UsedFinite
  <2>2. Cardinality(Used(t) \cup {s})
          = IF s \in Used(t) THEN Cardinality(Used(t)) ELSE Cardinality(Used(t)) + 1
    BY <2>1, FS_AddElement, Zenon
  <2>3. QED
    BY <1>1, <1>2, <1>3, <2>2
<1>5. u.len \in Nat /\ u.len <= t.len + 1
  BY <1>1, <1>2
<1>6. ~TooSmall(u.len, u.cap) /\ u.len < u.cap
  BY <1>1, <1>2, <1>5, SmallerFits
<1>7. \A k \in Keys : Stops(u, k) # {}
  BY <1>1, <1>2, <1>4, <1>6, SearchEnds
<1>8. QED
  BY <1>4, <1>5, <1>6, <1>7 DEF RoomToProbe, u

(* A search for the key of the row ends where it did. *)
LEMMA StoreOwnSlot ==
  ASSUME Hashes, NEW t, Good(t), t.cap > 0, NEW r \in Row
  PROVE  FindSlot(Store(t, r), r.key) = FindSlot(t, r.key)
<1> DEFINE s == FindSlot(t, r.key)
           u == Store(t, r)
<1>1. /\ s \in 0..(t.cap - 1) /\ u.cap = t.cap /\ r.key \in Keys
      /\ t.slots[s] = None \/ t.slots[s].key = r.key
      /\ u.slots = [t.slots EXCEPT ![s] = r]
  BY StoreSlots
<1>2. t.cap \in Nat /\ t.slots \in [0..(t.cap - 1) -> Row \cup {None}]
  BY DEF Good, IsTable
<1> HIDE DEF s, u
<1>3. \A d : Probe(u, r.key, d) = Probe(t, r.key, d)
  BY <1>1 DEF Probe
<1>4. ASSUME NEW d \in 0..(t.cap - 1)
      PROVE  d \in Stops(u, r.key) <=> d \in Stops(t, r.key)
  <2>1. Probe(t, r.key, d) \in 0..(t.cap - 1)
    BY <1>1, <1>2, ProbeType
  <2>2. d \in Stops(u, r.key) <=> \/ u.slots[Probe(t, r.key, d)] = None
                                  \/ u.slots[Probe(t, r.key, d)].key = r.key
    <3>1. d \in 0..(u.cap - 1)
      BY <1>1
    <3>2. QED
      BY <1>3, <3>1 DEF Stops
  <2>3. d \in Stops(t, r.key) <=> \/ t.slots[Probe(t, r.key, d)] = None
                                  \/ t.slots[Probe(t, r.key, d)].key = r.key
    BY StopsIs
  <2>4. CASE Probe(t, r.key, d) = s
    BY <1>1, <1>2, <2>1, <2>2, <2>3, <2>4
  <2>5. CASE Probe(t, r.key, d) # s
    BY <1>1, <1>2, <2>1, <2>2, <2>3, <2>5
  <2>6. QED
    BY <2>4, <2>5
<1>5. Stops(u, r.key) = Stops(t, r.key)
  <2>1. Stops(u, r.key) \subseteq 0..(t.cap - 1) /\ Stops(t, r.key) \subseteq 0..(t.cap - 1)
    BY <1>1 DEF Stops
  <2>2. QED
    BY <1>4, <2>1
<1>6. QED
  BY <1>3, <1>5, Zenon DEF FindSlot, s, u

(* A search for another key that ended at another slot ends there still:   *)
(* it did not stop before, and a used slot is never emptied.               *)
LEMMA StoreOtherSlot ==
  ASSUME Hashes, NEW t, Good(t), t.cap > 0, NEW r \in Row, NEW k \in Keys, k # r.key,
         FindSlot(t, k) # FindSlot(t, r.key)
  PROVE  FindSlot(Store(t, r), k) = FindSlot(t, k)
<1> DEFINE s == FindSlot(t, r.key)
           u == Store(t, r)
<1>1. /\ s \in 0..(t.cap - 1) /\ u.cap = t.cap /\ r # None
      /\ u.slots = [t.slots EXCEPT ![s] = r]
  BY StoreSlots
<1>2. /\ t.cap \in Nat /\ t.slots \in [0..(t.cap - 1) -> Row \cup {None}]
      /\ Stops(t, k) # {}
  BY DEF Good, IsTable, RoomToProbe
<1>3. PICK d \in Stops(t, k) :
        /\ \A e \in Stops(t, k) : d <= e
        /\ FindSlot(t, k) = Probe(t, k, d)
  BY <1>2, FirstStop
<1> HIDE DEF s, u
<1>4. \A e : Probe(u, k, e) = Probe(t, k, e)
  BY <1>1 DEF Probe
<1>5. ASSUME NEW e \in 0..(t.cap - 1), Probe(t, k, e) # s
      PROVE  e \in Stops(u, k) <=> e \in Stops(t, k)
  <2>1. Probe(t, k, e) \in 0..(t.cap - 1)
    BY <1>2, ProbeType
  <2>2. u.slots[Probe(t, k, e)] = t.slots[Probe(t, k, e)]
    BY <1>1, <1>2, <1>5, <2>1
  <2>3. e \in 0..(u.cap - 1)
    BY <1>1
  <2>4. QED
    BY <1>4, <2>2, <2>3 DEF Stops
<1>6. ASSUME NEW e \in 0..(t.cap - 1), Probe(t, k, e) = s
      PROVE  e \notin Stops(u, k)
  <2>1. u.slots[Probe(u, k, e)] = r
    BY <1>1, <1>2, <1>4, <1>6
  <2>2. QED
    BY <1>1, <2>1 DEF Stops
<1>7. d \in Stops(u, k) /\ \A e \in Stops(u, k) : d <= e
  <2>1. d \in 0..(t.cap - 1) /\ Stops(u, k) \subseteq 0..(t.cap - 1)
    BY <1>1 DEF Stops
  <2>2. d \in Stops(u, k)
    BY <1>3, <1>5, <2>1 DEF s
  <2>3. \A e \in Stops(u, k) : e \in Stops(t, k)
    BY <1>5, <1>6, <2>1
  <2>4. QED
    BY <1>3, <2>2, <2>3
<1>8. FindSlot(u, k) = Probe(u, k, d)
  BY <1>1, <1>2, <1>7, SlotOfFirstStop
<1>9. QED
  BY <1>3, <1>4, <1>8 DEF u

LEMMA StoreFindable ==
  ASSUME Hashes, NEW t, Good(t), t.cap > 0, NEW r \in Row
  PROVE  Findable(Store(t, r))
<1> DEFINE s == FindSlot(t, r.key)
           u == Store(t, r)
<1>1. /\ s \in 0..(t.cap - 1) /\ r.key \in Keys
      /\ u.slots = [t.slots EXCEPT ![s] = r] /\ Used(u) = Used(t) \cup {s}
  BY StoreSlots
<1>2. t.slots \in [0..(t.cap - 1) -> Row \cup {None}] /\ Findable(t)
  BY DEF Good, IsTable
<1> HIDE DEF s, u
<1>3. u.slots[s] = r /\ FindSlot(u, r.key) = s
  BY <1>1, <1>2, StoreOwnSlot DEF s, u
<1>4. ASSUME NEW i \in Used(t), i # s
      PROVE  FindSlot(u, u.slots[i].key) = i
  <2>1. /\ u.slots[i] = t.slots[i] /\ t.slots[i].key \in Keys
        /\ FindSlot(t, t.slots[i].key) = i
    BY <1>1, <1>2, <1>4 DEF Used, Findable, Row
  <2>2. t.slots[i].key # r.key
    BY <1>4, <2>1 DEF s
  <2>3. FindSlot(u, t.slots[i].key) = i
    BY <1>4, <2>1, <2>2, StoreOtherSlot DEF s, u
  <2>4. QED
    BY <2>1, <2>3
<1>5. \A i \in Used(u) : FindSlot(u, u.slots[i].key) = i
  BY <1>1, <1>3, <1>4
<1>6. QED
  BY <1>5 DEF Findable, u

LEMMA StoreGood ==
  ASSUME Hashes, NEW t, Good(t), t.cap > 0, NEW r \in Row, ~TooSmall(t.len + 1, t.cap)
  PROVE  /\ Good(Store(t, r)) /\ Store(t, r).cap = t.cap
         /\ Store(t, r).len \in Nat /\ Store(t, r).len <= t.len + 1
BY StoreSlots, StoreRoom, StoreFindable, Zenon DEF Good

(* Lookups change for the key of the row, and for no other. *)
LEMMA StoreGet ==
  ASSUME Hashes, NEW t, Good(t), t.cap > 0, NEW r \in Row, ~TooSmall(t.len + 1, t.cap),
         NEW k \in Keys
  PROVE  Get(Store(t, r), k) = IF k = r.key THEN r ELSE Get(t, k)
<1> DEFINE s == FindSlot(t, r.key)
           u == Store(t, r)
<1>1. /\ s \in 0..(t.cap - 1) /\ u.cap = t.cap /\ r.key \in Keys
      /\ u.slots = [t.slots EXCEPT ![s] = r] /\ Used(u) = Used(t) \cup {s}
      /\ t.slots[s] = None \/ t.slots[s].key = r.key
  BY StoreSlots
<1>2. t.slots \in [0..(t.cap - 1) -> Row \cup {None}] /\ t.cap \in Nat /\ Good(u)
  BY StoreGood DEF Good, IsTable
<1> HIDE DEF s, u
<1>3. s \in Used(u) /\ u.slots[s] = r
  BY <1>1, <1>2
<1>4. CASE k = r.key
  BY <1>2, <1>3, <1>4, GetIs DEF u
<1>5. CASE k # r.key
  <2>1. ASSUME NEW i \in Used(t), t.slots[i].key = k
        PROVE  Get(u, k) = t.slots[i] /\ Get(t, k) = t.slots[i]
    <3>1. i # s
      BY <1>1, <1>5, <2>1 DEF Used
    <3>2. i \in Used(u) /\ u.slots[i] = t.slots[i]
      BY <1>1, <1>2, <2>1, <3>1 DEF Used
    <3>3. QED
      BY <1>2, <2>1, <3>2, GetIs
  <2>2. ASSUME \A i \in Used(t) : t.slots[i].key # k
        PROVE  Get(u, k) = None /\ Get(t, k) = None
    <3>1. \A i \in Used(u) : u.slots[i].key # k
      BY <1>1, <1>2, <1>3, <1>5, <2>2 DEF Used
    <3>2. QED
      BY <1>2, <2>2, <3>1, GetIs
  <2>3. QED
    BY <1>5, <2>1, <2>2 DEF u
<1>6. QED
  BY <1>4, <1>5

-----------------------------------------------------------------------------
(* Growing.                                                                *)

LEMMA BeforeIs ==
  ASSUME NEW t, t.cap \in Nat, NEW c \in Nat
  PROVE  /\ IsFiniteSet(Before(t, c)) /\ Cardinality(Before(t, c)) \in Nat
         /\ Cardinality(Before(t, c)) <= Cardinality(Used(t))
         /\ c \in Used(t) => /\ Before(t, c + 1) = Before(t, c) \cup {c}
                             /\ Cardinality(Before(t, c + 1)) = Cardinality(Before(t, c)) + 1
                             /\ Cardinality(Before(t, c)) + 1 <= Cardinality(Used(t))
         /\ c \notin Used(t) => Before(t, c + 1) = Before(t, c)
<1>1. IsFiniteSet(Used(t)) /\ Cardinality(Used(t)) \in Nat /\ Used(t) \subseteq Int
  <2>1. IsFiniteSet(Used(t)) /\ Cardinality(Used(t)) \in Nat
    BY UsedFinite, Zenon
  <2>2. Used(t) \subseteq Int
    BY DEF Used
  <2>3. QED
    BY <2>1, <2>2
<1>2. \A d : Before(t, d) \in SUBSET Used(t)
  BY DEF Before
<1>3. \A d : IsFiniteSet(Before(t, d)) /\ Cardinality(Before(t, d)) <= Cardinality(Used(t))
  BY <1>1, <1>2, FS_Subset
<1>4. Cardinality(Before(t, c)) \in Nat
  BY <1>3, FS_CardinalityType
<1>5. ASSUME c \in Used(t)
      PROVE  /\ Before(t, c + 1) = Before(t, c) \cup {c}
             /\ Cardinality(Before(t, c + 1)) = Cardinality(Before(t, c)) + 1
  <2>1. Before(t, c + 1) = Before(t, c) \cup {c} /\ c \notin Before(t, c)
    BY <1>1, <1>5 DEF Before
  <2>2. QED
    BY <1>3, <2>1, FS_AddElement
<1>6. c \notin Used(t) => Before(t, c + 1) = Before(t, c)
  BY <1>1 DEF Before
<1>7. ASSUME c \in Used(t)
      PROVE  Cardinality(Before(t, c)) + 1 <= Cardinality(Used(t))
  <2>1. Cardinality(Before(t, c + 1)) <= Cardinality(Used(t))
    BY <1>3
  <2>2. QED
    BY <1>5, <1>7, <2>1
<1>8. QED
  BY <1>3, <1>4, <1>5, <1>6, <1>7

(* Moving a row: the new table has room for it, since it has fewer rows    *)
(* than the old one, and no row of its key yet, since no other slot of the *)
(* old table has that key.                                                 *)
LEMMA MoveOne ==
  ASSUME Hashes, NEW o, NEW n, Good(o), Good(n), n.cap > 0, ~TooSmall(o.len + 1, n.cap),
         NEW c \in Used(o), HasMoved(n, o, c)
  PROVE  LET m == Store(n, o.slots[c])
         IN Good(m) /\ m.cap = n.cap /\ HasMoved(m, o, c + 1)
<1> DEFINE r == o.slots[c]
           m == Store(n, r)
<1>1. /\ o.cap \in Nat /\ n.cap \in Nat /\ o.len \in Nat /\ n.len \in Nat
      /\ Cardinality(Used(o)) = o.len /\ Findable(o)
      /\ o.slots \in [0..(o.cap - 1) -> Row \cup {None}]
  BY DEF Good, IsTable, RoomToProbe
<1>2. c \in Nat /\ c \in 0..(o.cap - 1) /\ r \in Row /\ r.key \in Keys
  BY <1>1 DEF Used, Row
<1>3. /\ Cardinality(Before(o, c)) \in Nat
      /\ Before(o, c + 1) = Before(o, c) \cup {c}
      /\ Cardinality(Before(o, c + 1)) = Cardinality(Before(o, c)) + 1
      /\ Cardinality(Before(o, c)) + 1 <= o.len
  BY <1>1, <1>2, BeforeIs
<1>4. n.len <= Cardinality(Before(o, c))
  BY DEF HasMoved
<1>5. ~TooSmall(n.len + 1, n.cap)
  <2>1. n.len + 1 \in Nat /\ o.len + 1 \in Nat /\ n.len + 1 <= o.len + 1
    BY <1>1, <1>3, <1>4
  <2>2. QED
    BY <1>1, <2>1, SmallerFits
<1> HIDE DEF r, m
<1>6. Good(m) /\ m.cap = n.cap /\ m.len \in Nat /\ m.len <= n.len + 1
  BY <1>2, <1>5, StoreGood DEF m
<1>7. \A k \in Keys : Get(m, k) = IF k = r.key THEN r ELSE Get(n, k)
  BY <1>2, <1>5, StoreGet DEF m
<1>8. \A i \in Before(o, c) : /\ o.slots[i].key # r.key /\ o.slots[i].key \in Keys
                              /\ Get(n, o.slots[i].key) = o.slots[i]
  BY <1>1, <1>2 DEF Before, Used, Findable, HasMoved, Row, r
<1>9. \A i \in Before(o, c + 1) : Get(m, o.slots[i].key) = o.slots[i]
  BY <1>2, <1>3, <1>7, <1>8 DEF r
<1>10. ASSUME NEW j \in Used(m)
       PROVE  \E i \in Before(o, c + 1) : o.slots[i] = m.slots[j]
  <2>1. /\ m.slots = [n.slots EXCEPT ![FindSlot(n, r.key)] = r]
        /\ Used(m) = Used(n) \cup {FindSlot(n, r.key)}
        /\ FindSlot(n, r.key) \in 0..(n.cap - 1)
    BY <1>2, StoreSlots DEF m
  <2>2. n.slots \in [0..(n.cap - 1) -> Row \cup {None}]
    BY DEF Good, IsTable
  <2>3. CASE j = FindSlot(n, r.key)
    BY <1>3, <2>1, <2>2, <2>3 DEF r
  <2>4. CASE j # FindSlot(n, r.key)
    <3>1. j \in Used(n) /\ m.slots[j] = n.slots[j]
      BY <1>10, <2>1, <2>2, <2>4 DEF Used
    <3>2. QED
      BY <1>3, <3>1 DEF HasMoved
  <2>5. QED
    BY <2>3, <2>4
<1>11. m.len <= Cardinality(Before(o, c + 1))
  BY <1>1, <1>3, <1>4, <1>6
<1>12. QED
  BY <1>6, <1>9, <1>10, <1>11 DEF HasMoved, m, r

(* Once every slot was moved, the new table answers as the old one does. *)
LEMMA AllMoved ==
  ASSUME Hashes, NEW o, NEW n, Good(o), Good(n), HasMoved(n, o, o.cap)
  PROVE  /\ n.len <= o.len
         /\ \A k \in Keys : Get(n, k) = Get(o, k)
<1>1. /\ o.cap \in Nat /\ o.len \in Nat /\ n.len \in Nat /\ Cardinality(Used(o)) = o.len
      /\ o.slots \in [0..(o.cap - 1) -> Row \cup {None}]
  BY DEF Good, IsTable, RoomToProbe
<1>2. Before(o, o.cap) = Used(o)
  BY <1>1 DEF Before, Used
<1>3. n.len <= o.len
  BY <1>1, <1>2 DEF HasMoved
<1>4. ASSUME NEW k \in Keys
      PROVE  Get(n, k) = Get(o, k)
  <2>1. ASSUME NEW i \in Used(o), o.slots[i].key = k
        PROVE  Get(n, k) = o.slots[i] /\ Get(o, k) = o.slots[i]
    BY <1>2, <2>1, GetIs DEF HasMoved
  <2>2. ASSUME \A i \in Used(o) : o.slots[i].key # k
        PROVE  Get(n, k) = None /\ Get(o, k) = None
    <3>1. Get(n, k) = None
      <4>1. SUFFICES ASSUME Get(n, k) # None
                     PROVE  FALSE
        OBVIOUS
      <4>2. Get(n, k).key = k
        BY <4>1, GetIs
      <4>3. PICK j \in Used(n) : n.slots[j] = Get(n, k)
        BY <4>1, GetIs
      <4>4. PICK i \in Used(o) : o.slots[i] = n.slots[j]
        BY <1>2 DEF HasMoved
      <4>5. QED
        BY <2>2, <4>2, <4>3, <4>4
    <3>2. Get(o, k) = None
      BY <2>2, GetIs
    <3>3. QED
      BY <3>1, <3>2
  <2>3. QED
    BY <2>1, <2>2
<1>5. QED
  BY <1>3, <1>4

(* Nothing moved yet. *)
LEMMA NoneMoved ==
  ASSUME Hashes, NEW o, Good(o), NEW cap \in Nat
  PROVE  HasMoved(NewTable(cap), o, 0)
<1>1. o.cap \in Nat
  BY DEF Good, IsTable
<1>2. Before(o, 0) = {}
  BY <1>1 DEF Before, Used
<1>3. Cardinality(Before(o, 0)) = 0
  BY <1>2, FS_EmptySet
<1>4. QED
  BY <1>2, <1>3, NewTableIs DEF HasMoved

-----------------------------------------------------------------------------
(* The invariant holds at first and in every step.                         *)

(* What is said of the tables depends on the hash function, which stays. *)
LEMMA HashStays ==
  ASSUME [Next]_vars
  PROVE  hash' = hash
BY DEF Next, vars, ReadLine, ParseLine, ParseFails, Double, LargeEnough, Allocate, MoveSlot,
       Replace, Insert, OutOfMemory, ReadEnds, Free

LEMMA SameHash ==
  ASSUME hash' = hash
  PROVE  /\ Good(index') => Good(index)'
         /\ Good(grown') => Good(grown)'
         /\ HasMoved(grown', index', cursor') => HasMoved(grown, index, cursor)'
         /\ \A k \in Keys : Get(index, k)' = Get(index', k)
<1>1. Good(index') => Good(index)'
  <2>1. IsTable(index') => IsTable(index)'
    BY Zenon DEF IsTable
  <2>2. RoomToProbe(index') => RoomToProbe(index)'
    BY Zenon DEF RoomToProbe, Used, Stops, Probe, TooSmall
  <2>3. Findable(index') => Findable(index)'
    BY Zenon DEF Findable, Used, FindSlot, Stops, Probe
  <2>4. QED
    BY <2>1, <2>2, <2>3, Zenon DEF Good
<1>2. Good(grown') => Good(grown)'
  <2>1. IsTable(grown') => IsTable(grown)'
    BY Zenon DEF IsTable
  <2>2. RoomToProbe(grown') => RoomToProbe(grown)'
    BY Zenon DEF RoomToProbe, Used, Stops, Probe, TooSmall
  <2>3. Findable(grown') => Findable(grown)'
    BY Zenon DEF Findable, Used, FindSlot, Stops, Probe
  <2>4. QED
    BY <2>1, <2>2, <2>3, Zenon DEF Good
<1>3. HasMoved(grown', index', cursor') => HasMoved(grown, index, cursor)'
  <2>1. \A k : Get(grown, k)' = Get(grown', k)
    BY DEF Get, FindSlot, Stops, Probe
  <2>2. QED
    BY <2>1, Zenon DEF HasMoved, Before, Used
<1>4. \A k \in Keys : Get(index, k)' = Get(index', k)
  BY DEF Get, FindSlot, Stops, Probe
<1>5. QED
  BY <1>1, <1>2, <1>3, <1>4

(* The row that is put is the row that was appended. *)
LEMMA ParseLineIs ==
  ASSUME RInv, ParseLine
  PROVE  /\ written \in Row /\ row' = written /\ pc' = "size"
         /\ nextCap' = IF index.cap = 0 THEN INITIAL_BUCKETS ELSE index.cap
<1>1. written \in Row
  BY DEF RInv, Putting, IndexTypeOK, ParseLine
<1>2. PICK k \in Keys, v \in Values : written = [key |-> k, value |-> v]
  BY <1>1 DEF Row
<1>3. Read(Written(written.value)) = {v}
  BY <1>2, ReadsWhatWasWritten
<1>4. [key : {written.key}, value : Read(Written(written.value))] = {written}
  <2>1. written.key = k
    BY <1>2
  <2>2. [key : {k}, value : {v}] = {[key |-> k, value |-> v]}
    <3>1. ASSUME NEW x \in [key : {k}, value : {v}]
          PROVE  x = [key |-> k, value |-> v]
      OBVIOUS
    <3>2. [key |-> k, value |-> v] \in [key : {k}, value : {v}]
      OBVIOUS
    <3>3. QED
      BY <3>1, <3>2
  <2>3. QED
    BY <1>2, <1>3, <2>1, <2>2
<1>5. QED
  BY <1>1, <1>4 DEF ParseLine

LEMMA InitRInv ==
  ASSUME Init
  PROVE  RInv
<1>1. Hashes
  BY DEF Init, Hashes
<1>2. Good(index) /\ Good(grown)
  BY <1>1, NewTableIs DEF Init
<1>3. IndexTypeOK
  BY <1>2 DEF Init, IndexTypeOK, Good
<1>4. Putting
  BY DEF Init, Putting
<1>5. QED
  BY <1>2, <1>3, <1>4 DEF RInv, Init

(* The row being moved and the tables it is moved between. *)
LEMMA MoveSlotIs ==
  ASSUME RInv, MoveSlot
  PROVE  Good(grown') /\ grown'.cap = grown.cap /\ HasMoved(grown', index', cursor')
<1>1. /\ Hashes /\ Good(index) /\ Good(grown) /\ index.cap \in Nat /\ cursor \in Nat
      /\ HasMoved(grown, index, cursor) /\ grown.cap > 0
      /\ ~TooSmall(index.len + 1, grown.cap)
      /\ cursor < index.cap /\ cursor' = cursor + 1 /\ index' = index
  BY DEF RInv, MoveSlot, IndexTypeOK, Hashes, Good, IsTable, Putting, Growing
<1>2. CASE index.slots[cursor] = None
  <2>1. cursor \notin Used(index)
    BY <1>2 DEF Used
  <2>2. Before(index, cursor + 1) = Before(index, cursor)
    BY <1>1, <2>1, BeforeIs
  <2>3. grown' = grown
    BY <1>2 DEF MoveSlot
  <2>4. QED
    BY <1>1, <2>2, <2>3 DEF HasMoved
<1>3. CASE index.slots[cursor] # None
  <2>1. cursor \in Used(index)
    BY <1>1, <1>3 DEF Used
  <2>2. grown' = Store(grown, index.slots[cursor])
    BY <1>3 DEF MoveSlot, Moved
  <2>3. QED
    BY <1>1, <2>1, <2>2, MoveOne
<1>4. QED
  BY <1>2, <1>3

(* Both tables stay tables in which searches end and find. *)
LEMMA GoodStep ==
  ASSUME RInv, [Next]_vars
  PROVE  Good(index') /\ Good(grown')
<1>1. Hashes /\ Good(index) /\ Good(grown) /\ nextCap \in Nat
  BY DEF RInv, IndexTypeOK, Hashes
<1>2. CASE Allocate
  BY <1>1, <1>2, NewTableIs DEF Allocate
<1>3. CASE MoveSlot
  BY <1>1, <1>3, MoveSlotIs DEF MoveSlot
<1>4. CASE Replace
  BY <1>1, <1>4, NewTableIs DEF Replace
<1>5. CASE Insert
  <2>1. row \in Row /\ index.cap > 0 /\ ~TooSmall(index.len + 1, index.cap)
    BY <1>5 DEF RInv, Putting, IndexTypeOK, Insert
  <2>2. QED
    BY <1>1, <1>5, <2>1, StoreGood DEF Insert
<1>6. CASE Free
  BY <1>1, <1>6, NewTableIs DEF Free
<1>7. CASE \/ ReadLine \/ ParseLine \/ ParseFails \/ Double \/ LargeEnough \/ OutOfMemory
           \/ ReadEnds \/ UNCHANGED vars
  <2>1. index' = index /\ grown' = grown
    BY <1>7 DEF vars, ReadLine, ParseLine, ParseFails, Double, LargeEnough, OutOfMemory, ReadEnds
  <2>2. QED
    BY <1>1, <2>1
<1>8. QED
  BY <1>2, <1>3, <1>4, <1>5, <1>6, <1>7 DEF Next

LEMMA TypeStep ==
  ASSUME RInv, [Next]_vars, IsTable(index'), IsTable(grown')
  PROVE  IndexTypeOK'
<1>1. IsTable(index)' /\ IsTable(grown)'
  BY DEF IsTable
<1>2. hash' \in [Keys -> HashCodes]
  BY HashStays DEF RInv, IndexTypeOK
<1>3. /\ nextCap' \in Nat /\ cursor' \in Nat
  <2>1. index.cap \in Nat /\ nextCap \in Nat /\ cursor \in Nat /\ INITIAL_BUCKETS \in Nat
    BY RowIndexAssumption DEF RInv, IndexTypeOK, IsTable
  <2>2. CASE ParseLine
    BY <2>1, <2>2, ParseLineIs DEF ParseLine
  <2>3. CASE ~ParseLine
    BY <2>1, <2>3
    DEF Next, vars, ReadLine, ParseFails, Double, LargeEnough, Allocate, MoveSlot, Replace,
        Insert, OutOfMemory, ReadEnds, Free
  <2>4. QED
    BY <2>2, <2>3
<1>4. /\ {written', row'} \subseteq Row \cup {None}
      /\ pc' \in {"read", "parse", "size", "rehash", "insert", "loaded", "failed", "freed"}
      /\ (row' = None) <=> (pc' \notin {"size", "rehash", "insert"})
  <2>1. /\ {written, row} \subseteq Row \cup {None} /\ None \notin Row
        /\ pc \in {"read", "parse", "size", "rehash", "insert", "loaded", "failed", "freed"}
        /\ (row = None) <=> (pc \notin {"size", "rehash", "insert"})
    BY RowIndexAssumption DEF RInv, IndexTypeOK
  <2>2. CASE ParseLine
    BY <2>1, <2>2, ParseLineIs DEF ParseLine
  <2>3. CASE ~ParseLine
    BY <2>1, <2>3
    DEF Next, vars, ReadLine, ParseFails, Double, LargeEnough, Allocate, MoveSlot, Replace,
        Insert, OutOfMemory, ReadEnds, Free
  <2>4. QED
    BY <2>2, <2>3
<1>5. QED
  BY <1>1, <1>2, <1>3, <1>4 DEF IndexTypeOK

(* The table that is put into has room, whether it has grown or not. *)
LEMMA PuttingStep ==
  ASSUME RInv, [Next]_vars
  PROVE  Putting'
<1>1. /\ Hashes /\ Good(index) /\ Good(grown) /\ Putting /\ IndexTypeOK
      /\ index.cap \in Nat /\ index.len \in Nat /\ grown.cap \in Nat /\ grown.len \in Nat
      /\ nextCap \in Nat
  BY DEF RInv, IndexTypeOK, Hashes, IsTable
<1>2. CASE ReadLine
  BY <1>1, <1>2, RowIndexAssumption DEF ReadLine, Putting, IndexTypeOK
<1>3. CASE ParseLine
  <2>1. INITIAL_BUCKETS > 0
    BY RowIndexAssumption
  <2>2. nextCap' > 0 /\ row' = written' /\ pc' = "size" /\ written' = written /\ pc = "parse"
    BY <1>1, <1>3, <2>1, ParseLineIs DEF ParseLine
  <2>3. QED
    BY <1>1, <2>2 DEF Putting
<1>4. CASE ParseFails \/ Double \/ OutOfMemory \/ ReadEnds \/ Free \/ UNCHANGED vars
  BY <1>1, <1>4 DEF ParseFails, Double, OutOfMemory, ReadEnds, Free, Putting, vars
<1>5. CASE LargeEnough
  BY <1>1, <1>5 DEF LargeEnough, Putting
<1>6. CASE Allocate
  BY <1>1, <1>6 DEF Allocate, Putting
<1>7. CASE MoveSlot
  BY <1>1, <1>7 DEF MoveSlot, Putting
<1>8. CASE Replace
  <2>1. /\ HasMoved(grown, index, index.cap) /\ grown.cap = nextCap /\ nextCap > 0
        /\ ~TooSmall(index.len + 1, nextCap)
    BY <1>1, <1>8 DEF RInv, Growing, Putting, Replace
  <2>2. grown.len <= index.len
    BY <1>1, <2>1, AllMoved
  <2>3. grown.len + 1 \in Nat /\ index.len + 1 \in Nat /\ grown.len + 1 <= index.len + 1
    BY <1>1, <2>2
  <2>4. ~TooSmall(grown.len + 1, grown.cap)
    BY <1>1, <2>1, <2>3, SmallerFits
  <2>5. QED
    BY <1>1, <1>8, <2>1, <2>4 DEF Replace, Putting, TooSmall
<1>9. CASE Insert
  BY <1>1, <1>9 DEF Insert, Putting
<1>10. QED
  BY <1>2, <1>3, <1>4, <1>5, <1>6, <1>7, <1>8, <1>9 DEF Next

LEMMA GrowingStep ==
  ASSUME RInv, [Next]_vars, pc' = "rehash"
  PROVE  Growing'
<1>1. Hashes /\ Good(index) /\ nextCap \in Nat /\ cursor \in Nat /\ index.cap \in Nat
  BY DEF RInv, IndexTypeOK, Hashes, IsTable
<1>2. /\ HasMoved(grown', index', cursor')
      /\ grown'.cap = nextCap' /\ cursor' <= index'.cap
  <2>1. CASE Allocate
    <3>1. grown' = NewTable(nextCap) /\ cursor' = 0 /\ index' = index /\ nextCap' = nextCap
      BY <2>1 DEF Allocate
    <3>2. NewTable(nextCap).cap = nextCap
      BY <1>1, NewTableIs
    <3>3. HasMoved(NewTable(nextCap), index, 0)
      BY <1>1, NoneMoved
    <3>4. QED
      BY <1>1, <3>1, <3>2, <3>3
  <2>2. CASE MoveSlot
    <3>1. /\ grown.cap = nextCap /\ nextCap' = nextCap /\ index' = index
          /\ cursor < index.cap /\ cursor' = cursor + 1
      BY <2>2 DEF MoveSlot, RInv, Growing
    <3>2. QED
      BY <1>1, <2>2, <3>1, MoveSlotIs
  <2>3. CASE UNCHANGED vars
    BY <2>3 DEF vars, RInv, Growing
  <2>4. QED
    BY <2>1, <2>2, <2>3, ParseLineIs
    DEF Next, ReadLine, ParseFails, Double, LargeEnough, Replace, Insert, OutOfMemory,
        ReadEnds, Free
<1>3. HasMoved(grown, index, cursor)'
  BY <1>2, HashStays, SameHash
<1>4. QED
  BY <1>2, <1>3 DEF Growing

LEMMA NextRInv ==
  ASSUME RInv, [Next]_vars
  PROVE  RInv'
<1>1. Good(index') /\ Good(grown')
  BY GoodStep
<1>2. Good(index)' /\ Good(grown)'
  BY <1>1, HashStays, SameHash
<1>3. IndexTypeOK'
  BY <1>1, TypeStep DEF Good
<1>4. QED
  BY <1>2, <1>3, PuttingStep, GrowingStep DEF RInv

-----------------------------------------------------------------------------
(* The theorems.                                                           *)

(* The invariant of the row index, while it is searched, put to and grown. *)
THEOREM RowIndexInvariance == Spec => []RInv
<1>1. Init => RInv
  BY InitRInv
<1>2. RInv /\ [Next]_vars => RInv'
  BY NextRInv
<1>3. QED
  BY <1>1, <1>2, PTL DEF Spec

(* Type correctness of the tables, the loop over the old one and the row. *)
THEOREM RowIndexTypeCorrect == Spec => []IndexTypeOK
<1>1. RInv => IndexTypeOK
  BY DEF RInv
<1>2. QED
  BY <1>1, RowIndexInvariance, PTL

(* find_slot (db_query.c:32-44) always stops: neither table ever fills up, *)
(* whatever the keys hash to and however many rows the file has.           *)
THEOREM ProbeEndsTheorem == Spec => []ProbeEnds
<1>1. RInv => ProbeEnds
  BY DEF RInv, Good, ProbeEnds
<1>2. QED
  BY <1>1, RowIndexInvariance, PTL

(* Every row is found by a search for its key, in the index and in the     *)
(* table that is to replace it.                                            *)
THEOREM EveryRowFindableTheorem == Spec => []EveryRowFindable
<1>1. RInv => EveryRowFindable
  BY DEF RInv, Good, EveryRowFindable
<1>2. QED
  BY <1>1, RowIndexInvariance, PTL

(* One step of the refinement: a line read submits its row, a row put      *)
(* takes effect, a row that cannot be put is given up, freeing the index   *)
(* drops the map, and growing is invisible.                                *)
LEMMA StepRefines ==
  ASSUME RInv, RInv', [Next]_vars
  PROVE  [Abstract!MapNext]_<<[k \in Keys |-> Get(index, k)], written>>
<1> DEFINE map == [k \in Keys |-> Get(index, k)]
<1>1. Hashes /\ Good(index) /\ Good(grown) /\ Putting /\ IndexTypeOK
  BY DEF RInv, IndexTypeOK, Hashes
<1>2. map' = [k \in Keys |-> Get(index', k)]
  BY HashStays, SameHash
<1>3. index' = index => map' = map
  BY <1>2
<1> HIDE DEF map
<1>4. CASE ReadLine
  <2>1. written = None /\ written' \in Row /\ map' = map
    BY <1>1, <1>3, <1>4 DEF ReadLine, Putting
  <2>2. \E r \in Abstract!Row : Abstract!Submit(r)
    BY <2>1 DEF Abstract!Row, Row, Abstract!Submit, map
  <2>3. QED
    BY <2>2 DEF Abstract!MapNext
<1>5. CASE ParseLine
  <2>1. written' = written /\ map' = map
    BY <1>3, <1>5 DEF ParseLine
  <2>2. QED
    BY <2>1 DEF map
<1>6. CASE ParseFails \/ OutOfMemory
  <2>1. written # None /\ written' = None /\ map' = map
    BY <1>1, <1>3, <1>6 DEF ParseFails, OutOfMemory, Putting
  <2>2. Abstract!GiveUp
    BY <2>1 DEF Abstract!GiveUp, map
  <2>3. QED
    BY <2>2 DEF Abstract!MapNext
<1>7. CASE Double \/ LargeEnough \/ Allocate \/ MoveSlot \/ ReadEnds \/ UNCHANGED vars
  <2>1. written' = written /\ map' = map
    BY <1>3, <1>7 DEF Double, LargeEnough, Allocate, MoveSlot, ReadEnds, vars
  <2>2. QED
    BY <2>1 DEF map
<1>8. CASE Replace
  <2>1. HasMoved(grown, index, index.cap) /\ index' = grown /\ written' = written
    BY <1>8 DEF RInv, Growing, Replace
  <2>2. \A k \in Keys : Get(grown, k) = Get(index, k)
    BY <1>1, <2>1, AllMoved
  <2>3. map' = map
    BY <1>2, <2>1, <2>2 DEF map
  <2>4. QED
    BY <2>1, <2>3 DEF map
<1>9. CASE Insert
  <2>1. /\ row \in Row /\ row = written /\ index' = Store(index, row) /\ written' = None
        /\ written # None /\ index.cap > 0 /\ ~TooSmall(index.len + 1, index.cap)
    BY <1>1, <1>9 DEF Insert, Putting, IndexTypeOK
  <2>2. \A k \in Keys : Get(index', k) = IF k = written.key THEN written ELSE Get(index, k)
    BY <1>1, <2>1, StoreGet
  <2>3. map' = [map EXCEPT ![written.key] = written]
    BY <1>2, <2>2 DEF map
  <2>4. Abstract!Take
    BY <2>1, <2>3 DEF Abstract!Take, map
  <2>5. QED
    BY <2>4 DEF Abstract!MapNext
<1>10. CASE Free
  <2>1. written = None /\ written' = None /\ index' = NewTable(0)
    BY <1>1, <1>10 DEF Free, Putting
  <2>2. \A k \in Keys : Get(index', k) = None
    BY <1>1, <2>1, NewTableIs
  <2>3. map' = Abstract!Empty
    BY <1>2, <2>2 DEF Abstract!Empty
  <2>4. Abstract!Drop
    BY <2>1, <2>3 DEF Abstract!Drop, map
  <2>5. QED
    BY <2>4 DEF Abstract!MapNext
<1>11. QED
  BY <1>4, <1>5, <1>6, <1>7, <1>8, <1>9, <1>10 DEF Next

(* Loading the file gives the map of its last rows: every lookup, at any   *)
(* moment of the load, sees the rows put so far in the order of the file,  *)
(* each as it was appended (db_query.c:46-144, db_format.c:56-151).        *)
THEOREM RowIndexImplementsRowMap == Spec => ImplementsRowMap
<1>1. Init => Abstract!MapInit
  <2>1. ASSUME Init
        PROVE  \A k \in Keys : Get(index, k) = None
    BY <2>1 DEF Init, NewTable, Get
  <2>2. QED
    BY <2>1 DEF Abstract!MapInit, Abstract!Empty, Init
<1>2. RInv /\ RInv' /\ [Next]_vars
        => [Abstract!MapNext]_<<[k \in Keys |-> Get(index, k)], written>>
  BY StepRefines
<1>3. QED
  BY <1>1, <1>2, RowIndexInvariance, PTL DEF Spec, ImplementsRowMap, Abstract!MapSpec
=============================================================================
