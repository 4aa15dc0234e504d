--------------------------- MODULE RecursionProofs --------------------------
(***************************************************************************)
(* Recursive functions over data of any size.  A recursion is given by     *)
(* functions and not by operators: where it stops and with what value, to  *)
(* which argument it goes down, and what it makes of the value there.  So  *)
(* one lemma says that there is such a function and another that there is  *)
(* no other, and both can be cited for every recursion of the models.      *)
(***************************************************************************)
EXTENDS Integers, Sequences, SequencesExt, WellFoundedInduction, TLAPS

LEMMA Minimum ==
  ASSUME NEW S \in SUBSET Nat, S # {}
  PROVE  \E x \in S : \A y \in S : x <= y
<1>1. PICK x \in S : \A y \in S : <<y, x>> \notin OpToRel(<, Nat)
  BY WFMin, NatLessThanWellFounded, Zenon
<1>2. \A y \in S : ~(y < x)
  BY <1>1 DEF OpToRel
<1>3. QED
  BY <1>2

(* Induction, for a property given by the set of the numbers that have it. *)
LEMMA Inductive ==
  ASSUME NEW S \in SUBSET Nat, 0 \in S, \A n \in S : n + 1 \in S
  PROVE  S = Nat
<1>1. SUFFICES ASSUME Nat \ S # {} PROVE FALSE
  OBVIOUS
<1>2. PICK x \in Nat \ S : \A y \in Nat \ S : x <= y
  BY <1>1, Minimum
<1>3. x # 0 /\ x - 1 \in Nat
  BY <1>2
<1>4. x - 1 \in S
  BY <1>2, <1>3
<1>5. QED
  BY <1>2, <1>3, <1>4

(* A recursion on D with values in S, bounded by the measure m. *)
Recursion(D, S, m, stop, val, next, step) ==
  /\ S # {}
  /\ \E n \in Nat : m \in [D -> 0..n]
  /\ stop \subseteq D /\ val \in [stop -> S]
  /\ next \in [D \ stop -> D] /\ step \in [D \ stop -> [S -> S]]
  /\ \A x \in D \ stop : m[next[x]] < m[x]
Solves(f, D, stop, val, next, step) ==
  f = [x \in D |-> IF x \in stop THEN val[x] ELSE step[x][f[next[x]]]]

LEMMA RecursionExists ==
  ASSUME NEW D, NEW S, NEW m, NEW stop, NEW val, NEW next, NEW step,
         Recursion(D, S, m, stop, val, next, step)
  PROVE  \E f \in [D -> S] : Solves(f, D, stop, val, next, step)
<1>0. PICK n \in Nat : m \in [D -> 0..n]
  BY DEF Recursion
<1> USE <1>0 DEF Recursion
<1> DEFINE Value(f, x) == IF x \in stop THEN val[x] ELSE step[x][f[next[x]]]
           Below(k) == {x \in D : m[x] < k}
           K == {k \in Nat : \E f \in [D -> S] : \A x \in Below(k) : f[x] = Value(f, x)}
<1>1. \A f \in [D -> S], x \in D : Value(f, x) \in S
  OBVIOUS
<1>2. 0 \in K
  <2>1. PICK e \in S : TRUE
    OBVIOUS
  <2>2. [x \in D |-> e] \in [D -> S]
    BY <2>1
  <2>3. Below(0) = {}
    OBVIOUS
  <2>4. QED
    BY <2>2, <2>3
<1>3. ASSUME NEW k \in K PROVE k + 1 \in K
  <2>1. PICK f \in [D -> S] : \A x \in Below(k) : f[x] = Value(f, x)
    OBVIOUS
  <2> DEFINE g == [x \in D |-> IF m[x] < k THEN f[x] ELSE Value(f, x)]
  <2>2. g \in [D -> S]
    BY <1>1
  <2>3. ASSUME NEW x \in Below(k + 1) PROVE g[x] = Value(g, x)
    <3>1. m[x] \in Nat /\ m[x] <= k
      OBVIOUS
    <3>2. g[x] = Value(f, x)
      BY <2>1
    <3>3. CASE x \in stop
      BY <3>2, <3>3
    <3>4. CASE x \notin stop
      <4>1. next[x] \in D /\ m[next[x]] < k
        BY <3>1, <3>4
      <4>2. g[next[x]] = f[next[x]]
        BY <4>1
      <4>3. QED
        BY <3>2, <4>2, <3>4
    <3>5. QED
      BY <3>3, <3>4
  <2>4. k + 1 \in Nat
    OBVIOUS
  <2> HIDE DEF g, Value
  <2>5. QED
    BY <2>2, <2>3, <2>4
<1>4. K = Nat
  <2> HIDE DEF K
  <2>1. K \in SUBSET Nat
    BY DEF K
  <2>2. QED
    BY <1>2, <1>3, <2>1, Inductive
<1>5. PICK f \in [D -> S] : \A x \in Below(n + 1) : f[x] = Value(f, x)
  <2>1. n + 1 \in K
    <3> HIDE DEF K
    <3>1. QED
      BY <1>4
  <2>2. QED
    BY <2>1
<1>6. Below(n + 1) = D
  OBVIOUS
<1>7. f = [x \in D |-> Value(f, x)]
  BY <1>5, <1>6
<1>8. QED
  BY <1>7 DEF Solves

-----------------------------------------------------------------------------
(* FlattenSeq.                                                             *)

(* f has the concatenations of the first 1, ..., k members of s. *)
Flattens(f, s, k) == \A i \in 1..k : f[i] = IF i = 1 THEN s[i] ELSE f[i - 1] \o s[i]

LEMMA FlattenAgree ==
  ASSUME NEW s, NEW f, NEW g, NEW k \in Nat, Flattens(f, s, k), Flattens(g, s, k)
  PROVE  \A i \in 1..k : f[i] = g[i]
<1> USE DEF Flattens
<1> DEFINE P == {n \in Nat : n \in 1..k => g[n] = f[n]}
<1>1. 0 \in P /\ P \in SUBSET Nat
  OBVIOUS
<1>2. ASSUME NEW n \in P PROVE n + 1 \in P
  <2>1. SUFFICES ASSUME n + 1 \in 1..k PROVE g[n + 1] = f[n + 1]
    OBVIOUS
  <2>2. CASE n = 0
    <3>1. 1 \in 1..k
      BY <2>1, <2>2
    <3>2. f[1] = s[1] /\ g[1] = s[1]
      BY <3>1
    <3>3. QED
      BY <2>2, <3>2
  <2>3. CASE n # 0
    <3>1. n \in 1..k /\ g[n] = f[n]
      BY <2>1, <2>3
    <3>2. n + 1 # 1 /\ (n + 1) - 1 = n
      BY <2>3
    <3>3. g[n + 1] = g[n] \o s[n + 1]
      BY <2>1, <3>2, Zenon
    <3>4. f[n + 1] = f[n] \o s[n + 1]
      BY <2>1, <3>2, Zenon
    <3>5. QED
      BY <3>1, <3>3, <3>4, Zenon
  <2>4. QED
    BY <2>2, <2>3
<1>3. P = Nat
  <2> HIDE DEF P
  <2>1. QED
    BY <1>1, <1>2, Inductive
<1>4. QED
  BY <1>3

LEMMA FlattenIs ==
  ASSUME NEW T, NEW s \in Seq(Seq(T)), s # <<>>
  PROVE  \E f \in [1..Len(s) -> Seq(T)] :
           Flattens(f, s, Len(s)) /\ FlattenSeq(s) = f[Len(s)]
<1> DEFINE D == 1..Len(s)
           Flatten(f) == f = [i \in D |-> IF i = 1 THEN s[i] ELSE f[i - 1] \o s[i]]
           step == [i \in D \ {1} |-> [x \in Seq(T) |-> x \o s[i]]]
           next == [i \in D \ {1} |-> i - 1]
           val == [i \in {1} |-> s[i]]
           m == [i \in D |-> i]
<1>1. Len(s) \in Nat /\ Len(s) # 0 /\ \A i \in D : s[i] \in Seq(T)
  OBVIOUS
<1>2. PICK f \in [D -> Seq(T)] : Solves(f, D, {1}, val, next, step)
  <2>1. Seq(T) # {} /\ {1} \in SUBSET D /\ val \in [{1} -> Seq(T)]
    BY <1>1
  <2>2. next \in [D \ {1} -> D]
    BY <1>1
  <2>3. step \in [D \ {1} -> [Seq(T) -> Seq(T)]]
    <3>1. \A i \in D, x \in Seq(T) : x \o s[i] \in Seq(T)
      BY <1>1
    <3>2. QED
      BY <3>1
  <2>4. m \in [D -> 0..Len(s)] /\ \A i \in D \ {1} : m[next[i]] < m[i]
    BY <1>1
  <2>5. Recursion(D, Seq(T), m, {1}, val, next, step)
    <3> HIDE DEF D, step, next, val, m
    <3>1. QED
      BY <1>1, <2>1, <2>2, <2>3, <2>4 DEF Recursion
  <2> HIDE DEF D, step, next, val, m
  <2>6. QED
    BY <2>5, RecursionExists
<1>3. \A i \in D : f[i] = IF i = 1 THEN s[i] ELSE f[i - 1] \o s[i]
  <2>1. TAKE i \in D
  <2>2. CASE i = 1
    BY <1>2, <2>2 DEF Solves
  <2>3. CASE i # 1
    <3>1. i - 1 \in D
      BY <1>1, <2>3
    <3>2. f[i] = step[i][f[i - 1]]
      BY <1>2, <2>3 DEF Solves
    <3>3. QED
      BY <2>3, <3>1, <3>2
  <2>4. QED
    BY <2>2, <2>3
<1>4. Flatten(f)
  <2>1. f = [i \in D |-> f[i]]
    OBVIOUS
  <2>2. QED
    BY <1>3, <2>1
<1>5. \A g : Flatten(g) => g = f
  <2>1. SUFFICES ASSUME NEW g, Flatten(g) PROVE g = f
    OBVIOUS
  <2>2. Flattens(g, s, Len(s)) /\ Flattens(f, s, Len(s))
    BY <1>3, <2>1 DEF Flattens
  <2>3. \A i \in 1..Len(s) : g[i] = f[i]
    BY <1>1, <2>2, FlattenAgree
  <2>4. g = [i \in D |-> g[i]] /\ f = [i \in D |-> f[i]]
    BY <2>1
  <2>5. QED
    BY <2>3, <2>4, Zenon
<1>6. FlattenSeq(s) = f[Len(s)]
  <2>1. f = CHOOSE g : Flatten(g)
    BY <1>4, <1>5
  <2>2. FlattenSeq(s) = (CHOOSE g : Flatten(g))[Len(s)]
    BY <1>1 DEF FlattenSeq
  <2>3. QED
    BY <2>1, <2>2
<1>7. QED
  BY <1>3, <1>6 DEF Flattens

LEMMA FlattenType ==
  ASSUME NEW T, NEW s \in Seq(Seq(T))
  PROVE  FlattenSeq(s) \in Seq(T)
<1>1. CASE s = <<>>
  BY <1>1 DEF FlattenSeq
<1>2. CASE s # <<>>
  <2>1. PICK f \in [1..Len(s) -> Seq(T)] : FlattenSeq(s) = f[Len(s)]
    BY <1>2, FlattenIs, Zenon
  <2>2. Len(s) \in 1..Len(s)
    BY <1>2
  <2>3. QED
    BY <2>1, <2>2
<1>3. QED
  BY <1>1, <1>2

LEMMA FlattenEmpty == FlattenSeq(<<>>) = <<>>
BY DEF FlattenSeq

LEMMA FlattenAppend ==
  ASSUME NEW T, NEW s \in Seq(Seq(T)), NEW e \in Seq(T)
  PROVE  FlattenSeq(Append(s, e)) = FlattenSeq(s) \o e
<1> DEFINE t == Append(s, e)
<1>1. t \in Seq(Seq(T)) /\ t # <<>> /\ Len(t) = Len(s) + 1
  <2>1. t \in Seq(Seq(T)) /\ Len(t) = Len(s) + 1 /\ Len(s) \in Nat
    OBVIOUS
  <2>2. Len(<<>>) = 0
    OBVIOUS
  <2>3. QED
    BY <2>1, <2>2
<1>2. PICK g \in [1..Len(t) -> Seq(T)] :
        Flattens(g, t, Len(t)) /\ FlattenSeq(t) = g[Len(t)]
  <2> HIDE DEF t
  <2>1. QED
    BY <1>1, FlattenIs
<1>3. CASE s = <<>>
  <2>1. FlattenSeq(t) = t[1] /\ t[1] = e
    BY <1>1, <1>2, <1>3 DEF Flattens
  <2>2. QED
    BY <2>1, <1>3, FlattenEmpty
<1>4. CASE s # <<>>
  <2>1. PICK f \in [1..Len(s) -> Seq(T)] :
        Flattens(f, s, Len(s)) /\ FlattenSeq(s) = f[Len(s)]
    BY <1>4, FlattenIs
  <2>2. \A i \in 1..Len(s) : t[i] = s[i]
    OBVIOUS
  <2>3. Len(s) \in Nat /\ Len(s) # 0
    BY <1>4
  <2>4. Flattens(g, s, Len(s))
    <3>1. \A i \in 1..Len(s) : i \in 1..Len(t)
      BY <1>1
    <3> HIDE DEF t
    <3>2. QED
      BY <1>2, <2>2, <3>1 DEF Flattens
  <2>5. g[Len(s)] = f[Len(s)]
    <3>1. \A i \in 1..Len(s) : g[i] = f[i]
      BY <2>1, <2>3, <2>4, FlattenAgree
    <3>2. QED
      BY <2>3, <3>1
  <2>6. g[Len(t)] = g[Len(s)] \o t[Len(t)]
    <3>1. Len(t) \in 1..Len(t) /\ Len(t) # 1 /\ Len(t) - 1 = Len(s)
      BY <1>1, <2>3
    <3> HIDE DEF t
    <3>2. QED
      BY <1>2, <3>1 DEF Flattens
  <2>7. t[Len(t)] = e
    BY <1>1
  <2>8. QED
    BY <1>2, <2>1, <2>5, <2>6, <2>7
<1>5. QED
  BY <1>3, <1>4

-----------------------------------------------------------------------------
(* Sequences.                                                              *)

LEMMA SameSequence ==
  ASSUME NEW T, NEW s \in Seq(T), NEW t \in Seq(T), Len(s) = Len(t),
         \A i \in 1..Len(t) : s[i] = t[i]
  PROVE  s = t
OBVIOUS

LEMMA OneMore ==
  ASSUME NEW T, NEW s \in Seq(T), NEW n \in 1..Len(s)
  PROVE  /\ SubSeq(s, 1, n - 1) \in Seq(T) /\ s[n] \in T
         /\ SubSeq(s, 1, n) = Append(SubSeq(s, 1, n - 1), s[n])
<1>1. Len(s) \in Nat /\ n \in Nat /\ n >= 1 /\ n <= Len(s)
  OBVIOUS
<1>2. SubSeq(s, 1, n - 1) \in Seq(T) /\ Len(SubSeq(s, 1, n - 1)) = n - 1 /\ s[n] \in T
  BY <1>1
<1>3. SubSeq(s, 1, n) \in Seq(T) /\ Len(SubSeq(s, 1, n)) = n
  BY <1>1
<1>4. \A i \in 1..(n - 1) : SubSeq(s, 1, n - 1)[i] = s[i]
  BY <1>1
<1>5. \A i \in 1..n : SubSeq(s, 1, n)[i] = s[i]
  BY <1>1
<1> DEFINE p == SubSeq(s, 1, n - 1)
           q == SubSeq(s, 1, n)
           r == Append(p, s[n])
<1> HIDE DEF p, q
<1>6. r \in Seq(T) /\ Len(r) = n /\ r[n] = s[n] /\ \A i \in 1..(n - 1) : r[i] = p[i]
  BY <1>1, <1>2 DEF p
<1> HIDE DEF r
<1>7. \A i \in 1..n : r[i] = q[i]
  <2>1. TAKE i \in 1..n
  <2>2. i = n \/ i \in 1..(n - 1)
    BY <1>1
  <2>3. QED
    BY <1>1, <1>4, <1>5, <1>6, <2>2 DEF p, q
<1>8. r = q
  BY <1>3, <1>6, <1>7, SameSequence DEF q
<1>9. QED
  BY <1>2, <1>8 DEF p, q, r

LEMMA Short ==
  ASSUME NEW T, NEW x \in T
  PROVE  <<x>> \in Seq(T)
OBVIOUS

LEMMA Listed ==
  ASSUME NEW T, NEW n \in Nat, NEW f, f = [i \in 1..n |-> f[i]], \A i \in 1..n : f[i] \in T
  PROVE  f \in Seq(T)
OBVIOUS

(* u is s followed by t; or r, s and t. *)
Joins(u, s, t) ==
  /\ Len(u) = Len(s) + Len(t)
  /\ \A i \in 1..Len(s) : u[i] = s[i]
  /\ \A i \in 1..Len(t) : u[Len(s) + i] = t[i]
Joins3(u, r, s, t) ==
  /\ Len(u) = Len(r) + Len(s) + Len(t)
  /\ \A i \in 1..Len(r) : u[i] = r[i]
  /\ \A i \in 1..Len(s) : u[Len(r) + i] = s[i]
  /\ \A i \in 1..Len(t) : u[Len(r) + Len(s) + i] = t[i]

LEMMA TwoParts ==
  ASSUME NEW T, NEW s \in Seq(T), NEW t \in Seq(T)
  PROVE  s \o t \in Seq(T) /\ Joins(s \o t, s, t)
BY DEF Joins

LEMMA ThreeParts ==
  ASSUME NEW T, NEW r \in Seq(T), NEW s \in Seq(T), NEW t \in Seq(T)
  PROVE  r \o s \o t \in Seq(T) /\ Joins3(r \o s \o t, r, s, t)
<1> DEFINE u == r \o s
           w == u \o t
<1>1. u \in Seq(T) /\ Joins(u, r, s)
  BY TwoParts
<1> HIDE DEF u
<1>2. w \in Seq(T) /\ Joins(w, u, t)
  BY <1>1, TwoParts
<1>3. Len(r) \in Nat /\ Len(s) \in Nat
  OBVIOUS
<1>4. /\ \A i \in 1..Len(r) : i \in 1..Len(u)
      /\ \A i \in 1..Len(s) : Len(r) + i \in 1..Len(u)
  BY <1>1, <1>3 DEF Joins
<1> HIDE DEF w
<1>5. Joins3(w, r, s, t)
  BY <1>1, <1>2, <1>3, <1>4 DEF Joins, Joins3
<1>6. QED
  BY <1>2, <1>5 DEF u, w

LEMMA Assoc ==
  ASSUME NEW T, NEW r \in Seq(T), NEW s \in Seq(T), NEW t \in Seq(T)
  PROVE  (r \o s) \o t = r \o (s \o t)
<1> DEFINE a == s \o t
           b == (r \o s) \o t
           c == r \o a
<1>1. a \in Seq(T) /\ Joins(a, s, t)
  BY TwoParts
<1>2. b \in Seq(T) /\ Joins3(b, r, s, t)
  BY ThreeParts
<1> HIDE DEF a
<1>3. c \in Seq(T) /\ Joins(c, r, a)
  BY <1>1, TwoParts
<1> HIDE DEF b, c
<1>4. Len(r) \in Nat /\ Len(s) \in Nat /\ Len(t) \in Nat
  OBVIOUS
<1>5. Len(b) = Len(c)
  BY <1>1, <1>2, <1>3, <1>4 DEF Joins, Joins3
<1>6. \A i \in 1..Len(c) : b[i] = c[i]
  <2>1. TAKE i \in 1..Len(c)
  <2>2. CASE i \in 1..Len(r)
    BY <1>2, <1>3, <2>2 DEF Joins, Joins3
  <2>3. CASE i - Len(r) \in 1..Len(s)
    <3> DEFINE j == i - Len(r)
    <3>1. i = Len(r) + j /\ j \in 1..Len(a) /\ j \in 1..Len(s)
      BY <1>1, <1>4, <2>3 DEF Joins
    <3> HIDE DEF j
    <3>2. b[i] = s[j] /\ c[i] = a[j] /\ a[j] = s[j]
      BY <1>1, <1>2, <1>3, <3>1 DEF Joins, Joins3
    <3>3. QED
      BY <3>2
  <2>4. CASE i - Len(r) - Len(s) \in 1..Len(t)
    <3> DEFINE j == i - Len(r) - Len(s)
    <3>1. /\ i = Len(r) + Len(s) + j /\ i = Len(r) + (Len(s) + j)
          /\ Len(s) + j \in 1..Len(a) /\ j \in 1..Len(t)
      BY <1>1, <1>4, <2>4 DEF Joins
    <3> HIDE DEF j
    <3>2. b[i] = t[j] /\ c[i] = a[Len(s) + j] /\ a[Len(s) + j] = t[j]
      BY <1>1, <1>2, <1>3, <3>1 DEF Joins, Joins3
    <3>3. QED
      BY <3>2
  <2>5. QED
    BY <1>1, <1>3, <1>4, <2>2, <2>3, <2>4 DEF Joins
<1>7. QED
  BY <1>2, <1>3, <1>5, <1>6, SameSequence DEF a, b, c

Associative(S) == \A r, s, t \in S : (r \o s) \o t = r \o (s \o t)

LEMMA AllAssoc == \A T : Associative(Seq(T))
BY Assoc DEF Associative

LEMMA Empties ==
  ASSUME NEW T, NEW s \in Seq(T)
  PROVE  <<>> \o s = s /\ s \o <<>> = s
OBVIOUS

LEMMA AppendIs ==
  ASSUME NEW T, NEW s \in Seq(T), NEW e \in T
  PROVE  Append(s, e) = s \o <<e>> /\ <<e>> \in Seq(T) /\ Append(s, e) \in Seq(T)
OBVIOUS

(* Induction over sequences, for a property given as a set. *)
LEMMA SeqInductive ==
  ASSUME NEW T, NEW S \in SUBSET Seq(T), <<>> \in S,
         \A s \in S, e \in T : Append(s, e) \in S
  PROVE  S = Seq(T)
<1> DEFINE P == {n \in Nat : \A s \in Seq(T) : Len(s) = n => s \in S}
<1>1. 0 \in P
  <2>1. \A s \in Seq(T) : Len(s) = 0 => s = <<>>
    OBVIOUS
  <2>2. QED
    BY <2>1
<1>2. ASSUME NEW n \in P PROVE n + 1 \in P
  <2>1. SUFFICES ASSUME NEW s \in Seq(T), Len(s) = n + 1 PROVE s \in S
    OBVIOUS
  <2>2. Len(s) \in 1..Len(s) /\ Len(s) - 1 = n /\ n \in Nat
    BY <2>1
  <2>3. /\ SubSeq(s, 1, n) \in Seq(T) /\ s[Len(s)] \in T
        /\ SubSeq(s, 1, Len(s)) = Append(SubSeq(s, 1, n), s[Len(s)])
    BY <2>2, OneMore
  <2>4. Len(SubSeq(s, 1, n)) = n /\ SubSeq(s, 1, Len(s)) = s
    BY <2>1, <2>2
  <2>5. SubSeq(s, 1, n) \in S
    BY <2>3, <2>4
  <2>6. QED
    BY <2>3, <2>4, <2>5
<1>3. P = Nat
  <2>1. P \in SUBSET Nat
    OBVIOUS
  <2> HIDE DEF P
  <2>2. QED
    BY <1>1, <1>2, <2>1, Inductive
<1>4. \A s \in Seq(T) : Len(s) \in P
  <2> HIDE DEF P
  <2>1. QED
    BY <1>3
<1>5. QED
  BY <1>4

LEMMA FlattenConcat ==
  ASSUME NEW T, NEW s \in Seq(Seq(T)), NEW t \in Seq(Seq(T))
  PROVE  FlattenSeq(s \o t) = FlattenSeq(s) \o FlattenSeq(t)
<1> DEFINE S == {r \in Seq(Seq(T)) : FlattenSeq(s \o r) = FlattenSeq(s) \o FlattenSeq(r)}
<1>0. Associative(Seq(T)) /\ Associative(Seq(Seq(T)))
  BY AllAssoc, Zenon
<1>1. <<>> \in S
  <2>1. <<>> \in Seq(Seq(T)) /\ FlattenSeq(s) \in Seq(T)
    BY FlattenType
  <2>2. s \o <<>> = s /\ FlattenSeq(s) \o <<>> = FlattenSeq(s)
    BY <2>1, Empties
  <2>3. QED
    BY <2>1, <2>2, FlattenEmpty
<1>2. ASSUME NEW r \in S, NEW e \in Seq(T) PROVE Append(r, e) \in S
  <2>1. r \in Seq(Seq(T)) /\ FlattenSeq(s \o r) = FlattenSeq(s) \o FlattenSeq(r)
    OBVIOUS
  <2>2. s \o r \in Seq(Seq(T)) /\ Append(r, e) = r \o <<e>> /\ <<e>> \in Seq(Seq(T))
        /\ Append(r, e) \in Seq(Seq(T)) /\ Append(s \o r, e) = (s \o r) \o <<e>>
    BY <2>1, AppendIs, TwoParts
  <2>3. s \o Append(r, e) = Append(s \o r, e)
    <3>1. (s \o r) \o <<e>> = s \o (r \o <<e>>)
      BY <1>0, <2>1, <2>2, Zenon DEF Associative
    <3>2. QED
      BY <2>2, <3>1, Zenon
  <2>4. /\ FlattenSeq(Append(s \o r, e)) = FlattenSeq(s \o r) \o e
        /\ FlattenSeq(Append(r, e)) = FlattenSeq(r) \o e
    BY <2>1, <2>2, FlattenAppend
  <2>5. (FlattenSeq(s) \o FlattenSeq(r)) \o e = FlattenSeq(s) \o (FlattenSeq(r) \o e)
    <3>1. FlattenSeq(s) \in Seq(T) /\ FlattenSeq(r) \in Seq(T)
      BY <2>1, FlattenType
    <3>2. QED
      BY <1>0, <3>1, Zenon DEF Associative
  <2>6. QED
    BY <2>1, <2>2, <2>3, <2>4, <2>5
<1>3. S = Seq(Seq(T))
  <2>1. S \in SUBSET Seq(Seq(T))
    OBVIOUS
  <2> HIDE DEF S
  <2>2. QED
    BY <1>1, <1>2, <2>1, SeqInductive
<1>4. QED
  BY <1>3

LEMMA FlattenOne ==
  ASSUME NEW T, NEW e \in Seq(T)
  PROVE  FlattenSeq(<<e>>) = e /\ <<e>> \in Seq(Seq(T))
<1>1. <<>> \in Seq(Seq(T)) /\ Append(<<>>, e) = <<e>> /\ <<e>> \in Seq(Seq(T))
  OBVIOUS
<1>2. FlattenSeq(Append(<<>>, e)) = FlattenSeq(<<>>) \o e
  BY <1>1, FlattenAppend
<1>3. FlattenSeq(<<>>) \o e = e
  BY FlattenEmpty, Empties
<1>4. QED
  BY <1>1, <1>2, <1>3

Mapped(f, s) == [i \in DOMAIN s |-> f[s[i]]]

LEMMA MappedType ==
  ASSUME NEW T, NEW U, NEW f \in [T -> U], NEW s \in Seq(T)
  PROVE  Mapped(f, s) \in Seq(U) /\ Len(Mapped(f, s)) = Len(s)
<1>1. DOMAIN s = 1..Len(s) /\ Len(s) \in Nat /\ \A i \in 1..Len(s) : f[s[i]] \in U
  OBVIOUS
<1>2. Mapped(f, s) = [i \in 1..Len(s) |-> f[s[i]]]
  BY <1>1 DEF Mapped
<1>3. QED
  BY <1>1, <1>2

LEMMA MappedAppend ==
  ASSUME NEW T, NEW U, NEW f \in [T -> U], NEW s \in Seq(T), NEW e \in T
  PROVE  Mapped(f, Append(s, e)) = Append(Mapped(f, s), f[e])
<1> DEFINE t == Append(s, e)
           m == Mapped(f, s)
           a == Append(m, f[e])
           b == Mapped(f, t)
           n == Len(s)
<1>1. n \in Nat /\ DOMAIN s = 1..n
  OBVIOUS
<1>2. /\ t \in Seq(T) /\ Len(t) = n + 1 /\ DOMAIN t = 1..(n + 1)
      /\ t[n + 1] = e /\ \A i \in 1..n : t[i] = s[i]
  OBVIOUS
<1>3. m \in Seq(U) /\ Len(m) = n /\ \A i \in 1..n : m[i] = f[s[i]]
  BY <1>1, MappedType DEF Mapped
<1> HIDE DEF m, t
<1>4. b \in Seq(U) /\ Len(b) = n + 1 /\ \A i \in 1..(n + 1) : b[i] = f[t[i]]
  BY <1>2, MappedType DEF Mapped
<1>5. f[e] \in U
  OBVIOUS
<1> HIDE DEF n
<1>6. a \in Seq(U) /\ Len(a) = n + 1 /\ a[n + 1] = f[e] /\ \A i \in 1..n : a[i] = m[i]
  BY <1>1, <1>3, <1>5
<1> HIDE DEF a, b
<1>7. \A i \in 1..(n + 1) : a[i] = b[i]
  <2>1. TAKE i \in 1..(n + 1)
  <2>2. i = n + 1 \/ i \in 1..n
    BY <1>1
  <2>3. n + 1 \in 1..(n + 1)
    BY <1>1
  <2>4. QED
    BY <1>2, <1>3, <1>4, <1>6, <2>1, <2>2, <2>3
<1>8. a = b
  BY <1>4, <1>6, <1>7, SameSequence
<1>9. QED
  BY <1>8 DEF a, b, m, t

LEMMA FlattenFlatten ==
  ASSUME NEW T, NEW ss \in Seq(Seq(Seq(T)))
  PROVE  FlattenSeq(FlattenSeq(ss)) = FlattenSeq([i \in DOMAIN ss |-> FlattenSeq(ss[i])])
<1> DEFINE W == Seq(Seq(T))
           flat == [x \in W |-> FlattenSeq(x)]
           S == {r \in Seq(W) : FlattenSeq(FlattenSeq(r)) = FlattenSeq(Mapped(flat, r))}
<1>1. flat \in [W -> Seq(T)]
  BY FlattenType
<1>2. \A x \in W : flat[x] = FlattenSeq(x)
  OBVIOUS
<1> HIDE DEF flat
<1>3. <<>> \in S
  <2>1. Mapped(flat, <<>>) = <<>> /\ <<>> \in Seq(W)
    BY DEF Mapped
  <2>2. QED
    BY <2>1, FlattenEmpty
<1>4. ASSUME NEW r \in S, NEW e \in W PROVE Append(r, e) \in S
  <2>1. r \in Seq(W) /\ FlattenSeq(FlattenSeq(r)) = FlattenSeq(Mapped(flat, r))
    OBVIOUS
  <2>2. FlattenSeq(Append(r, e)) = FlattenSeq(r) \o e /\ FlattenSeq(r) \in W
    BY <2>1, FlattenAppend, FlattenType
  <2>3. FlattenSeq(FlattenSeq(Append(r, e))) = FlattenSeq(FlattenSeq(r)) \o FlattenSeq(e)
    BY <2>2, FlattenConcat
  <2>4. Mapped(flat, Append(r, e)) = Append(Mapped(flat, r), FlattenSeq(e))
    <3>1. Mapped(flat, Append(r, e)) = Append(Mapped(flat, r), flat[e])
      BY <1>1, <2>1, MappedAppend
    <3>2. flat[e] = FlattenSeq(e)
      BY <1>2
    <3>3. QED
      BY <3>1, <3>2
  <2>5. FlattenSeq(Append(Mapped(flat, r), FlattenSeq(e)))
          = FlattenSeq(Mapped(flat, r)) \o FlattenSeq(e)
    <3>1. Mapped(flat, r) \in Seq(Seq(T)) /\ FlattenSeq(e) \in Seq(T)
      BY <1>1, <2>1, MappedType, FlattenType
    <3>2. QED
      BY <3>1, FlattenAppend
  <2>6. Append(r, e) \in Seq(W)
    BY <2>1, AppendIs
  <2>7. QED
    BY <2>1, <2>3, <2>4, <2>5, <2>6
<1>5. S = Seq(W)
  <2>1. S \in SUBSET Seq(W)
    OBVIOUS
  <2> HIDE DEF S, W
  <2>2. QED
    BY <1>3, <1>4, <2>1, SeqInductive
<1>6. FlattenSeq(FlattenSeq(ss)) = FlattenSeq(Mapped(flat, ss))
  BY <1>5
<1>7. Mapped(flat, ss) = [i \in DOMAIN ss |-> FlattenSeq(ss[i])]
  <2>1. \A i \in DOMAIN ss : ss[i] \in W
    OBVIOUS
  <2>2. \A i \in DOMAIN ss : flat[ss[i]] = FlattenSeq(ss[i])
    BY <1>2, <2>1
  <2>3. QED
    BY <2>2 DEF Mapped
<1>8. QED
  BY <1>6, <1>7

LEMMA FlattenOnes ==
  ASSUME NEW T, NEW s \in Seq(T)
  PROVE  FlattenSeq([i \in DOMAIN s |-> <<s[i]>>]) = s
<1> DEFINE one == [x \in T |-> <<x>>]
           S == {r \in Seq(T) : FlattenSeq(Mapped(one, r)) = r}
<1>1. one \in [T -> Seq(T)]
  BY Short
<1>2. \A x \in T : one[x] = <<x>>
  OBVIOUS
<1> HIDE DEF one
<1>3. <<>> \in S
  <2>1. Mapped(one, <<>>) = <<>> /\ <<>> \in Seq(T)
    BY DEF Mapped
  <2>2. QED
    BY <2>1, FlattenEmpty
<1>4. ASSUME NEW r \in S, NEW e \in T PROVE Append(r, e) \in S
  <2>1. r \in Seq(T) /\ FlattenSeq(Mapped(one, r)) = r
    OBVIOUS
  <2>2. Mapped(one, Append(r, e)) = Append(Mapped(one, r), <<e>>)
    <3>1. Mapped(one, Append(r, e)) = Append(Mapped(one, r), one[e])
      BY <1>1, <2>1, MappedAppend
    <3>2. one[e] = <<e>>
      BY <1>2
    <3>3. QED
      BY <3>1, <3>2
  <2>3. Mapped(one, r) \in Seq(Seq(T)) /\ <<e>> \in Seq(T)
    BY <1>1, <2>1, MappedType, Short
  <2>4. FlattenSeq(Mapped(one, Append(r, e))) = r \o <<e>>
    BY <2>1, <2>2, <2>3, FlattenAppend
  <2>5. QED
    BY <2>1, <2>4, AppendIs
<1>5. S = Seq(T)
  <2>1. S \in SUBSET Seq(T)
    OBVIOUS
  <2> HIDE DEF S
  <2>2. QED
    BY <1>3, <1>4, <2>1, SeqInductive
<1>6. Mapped(one, s) = [i \in DOMAIN s |-> <<s[i]>>]
  <2>1. \A i \in DOMAIN s : one[s[i]] = <<s[i]>>
    BY <1>2
  <2>2. QED
    BY <2>1 DEF Mapped
<1>7. QED
  BY <1>5, <1>6

-----------------------------------------------------------------------------
(* Codes: two texts agree when neither differs from the start of the other.*)

Agree(p, q) == \A i \in 1..Len(p) : i \in 1..Len(q) => p[i] = q[i]

LEMMA AgreeStart ==
  ASSUME NEW T, NEW a \in Seq(T), NEW b \in Seq(T), NEW x \in Seq(T), NEW y \in Seq(T),
         Agree(a \o x, b \o y)
  PROVE  Agree(a, b)
<1> DEFINE u == a \o x
           v == b \o y
<1>1. u \in Seq(T) /\ v \in Seq(T) /\ Joins(u, a, x) /\ Joins(v, b, y)
  BY TwoParts
<1>2. Agree(u, v)
  OBVIOUS
<1> HIDE DEF u, v
<1>3. Len(a) \in Nat /\ Len(b) \in Nat /\ Len(x) \in Nat /\ Len(y) \in Nat
  OBVIOUS
<1>4. QED
  BY <1>1, <1>2, <1>3 DEF Agree, Joins

LEMMA AgreeRest ==
  ASSUME NEW T, NEW a \in Seq(T), NEW x \in Seq(T), NEW y \in Seq(T), Agree(a \o x, a \o y)
  PROVE  Agree(x, y)
<1> DEFINE u == a \o x
           v == a \o y
<1>1. u \in Seq(T) /\ v \in Seq(T) /\ Joins(u, a, x) /\ Joins(v, a, y)
  BY TwoParts
<1>2. Agree(u, v)
  OBVIOUS
<1> HIDE DEF u, v
<1>3. Len(a) \in Nat /\ Len(x) \in Nat /\ Len(y) \in Nat
  OBVIOUS
<1>4. SUFFICES ASSUME NEW i \in 1..Len(x), i \in 1..Len(y) PROVE x[i] = y[i]
  BY DEF Agree
<1>5. Len(a) + i \in 1..Len(u) /\ Len(a) + i \in 1..Len(v)
  BY <1>1, <1>3, <1>4 DEF Joins
<1>6. u[Len(a) + i] = v[Len(a) + i]
  BY <1>2, <1>5 DEF Agree
<1>7. u[Len(a) + i] = x[i] /\ v[Len(a) + i] = y[i]
  BY <1>1, <1>4 DEF Joins
<1>8. QED
  BY <1>6, <1>7

LEMMA Cut ==
  ASSUME NEW T, NEW s \in Seq(T), NEW n \in 0..Len(s)
  PROVE  /\ SubSeq(s, 1, n) \in Seq(T) /\ SubSeq(s, n + 1, Len(s)) \in Seq(T)
         /\ s = SubSeq(s, 1, n) \o SubSeq(s, n + 1, Len(s))
<1> DEFINE a == SubSeq(s, 1, n)
           b == SubSeq(s, n + 1, Len(s))
           c == a \o b
<1>1. Len(s) \in Nat /\ n \in Nat /\ n <= Len(s)
  OBVIOUS
<1>2. a \in Seq(T) /\ Len(a) = n /\ \A i \in 1..n : a[i] = s[i]
  BY <1>1
<1>3. b \in Seq(T) /\ Len(b) = Len(s) - n /\ \A i \in 1..(Len(s) - n) : b[i] = s[n + i]
  BY <1>1
<1> HIDE DEF a, b
<1>4. c \in Seq(T) /\ Joins(c, a, b)
  BY <1>2, <1>3, TwoParts
<1> HIDE DEF c
<1>5. Len(c) = Len(s) /\ \A i \in 1..Len(s) : c[i] = s[i]
  <2>1. Len(c) = Len(s)
    BY <1>1, <1>2, <1>3, <1>4 DEF Joins
  <2>2. ASSUME NEW i \in 1..Len(s) PROVE c[i] = s[i]
    <3>1. CASE i <= n
      <4>1. i \in 1..n
        BY <1>1, <3>1
      <4>2. QED
        BY <1>2, <1>4, <4>1 DEF Joins
    <3>2. CASE ~(i <= n)
      <4>1. i - n \in 1..(Len(s) - n) /\ n + (i - n) = i
        BY <1>1, <3>2
      <4>2. c[n + (i - n)] = b[i - n] /\ b[i - n] = s[n + (i - n)]
        BY <1>2, <1>3, <1>4, <4>1 DEF Joins
      <4>3. QED
        BY <4>1, <4>2
    <3>3. QED
      BY <3>1, <3>2
  <2>3. QED
    BY <2>1, <2>2
<1>6. c = s
  BY <1>4, <1>5, SameSequence
<1>7. QED
  BY <1>2, <1>3, <1>6 DEF a, b, c

LEMMA Unfold ==
  ASSUME NEW T, NEW s \in Seq(Seq(T)), NEW n \in 1..Len(s)
  PROVE  \E rest \in Seq(T) :
           FlattenSeq(s) = FlattenSeq(SubSeq(s, 1, n - 1)) \o (s[n] \o rest)
<1> DEFINE a == SubSeq(s, 1, n - 1)
           b == SubSeq(s, n + 1, Len(s))
<1>0. Associative(Seq(T))
  BY AllAssoc, Zenon
<1>1. /\ a \in Seq(Seq(T)) /\ s[n] \in Seq(T)
      /\ SubSeq(s, 1, n) = Append(a, s[n])
  BY OneMore
<1>2. b \in Seq(Seq(T)) /\ s = SubSeq(s, 1, n) \o b
  <2>1. n \in 0..Len(s)
    OBVIOUS
  <2>2. QED
    BY <2>1, Cut
<1> HIDE DEF a, b
<1>3. Append(a, s[n]) \in Seq(Seq(T))
  BY <1>1, AppendIs
<1>4. FlattenSeq(s) = FlattenSeq(Append(a, s[n])) \o FlattenSeq(b)
  BY <1>1, <1>2, <1>3, FlattenConcat
<1>5. FlattenSeq(Append(a, s[n])) = FlattenSeq(a) \o s[n]
  BY <1>1, FlattenAppend
<1>6. FlattenSeq(a) \in Seq(T) /\ FlattenSeq(b) \in Seq(T)
  BY <1>1, <1>2, FlattenType
<1>7. (FlattenSeq(a) \o s[n]) \o FlattenSeq(b) = FlattenSeq(a) \o (s[n] \o FlattenSeq(b))
  <2> DEFINE x == FlattenSeq(a)
             y == s[n]
             z == FlattenSeq(b)
  <2>1. x \in Seq(T) /\ y \in Seq(T) /\ z \in Seq(T)
    BY <1>1, <1>6
  <2> HIDE DEF x, y, z
  <2>2. (x \o y) \o z = x \o (y \o z)
    BY <1>0, <2>1, Zenon DEF Associative
  <2>3. QED
    BY <2>2 DEF x, y, z
<1>8. QED
  BY <1>4, <1>5, <1>6, <1>7 DEF a

(* Where no two words that differ agree, a text has one reading as words.  *)
LEMMA SameWords ==
  ASSUME NEW T, NEW s \in Seq(Seq(T)), NEW r \in Seq(Seq(T)),
         Agree(FlattenSeq(s), FlattenSeq(r)),
         \A i \in 1..Len(s) : i \in 1..Len(r) /\ Agree(s[i], r[i]) => s[i] = r[i]
  PROVE  \A i \in 1..Len(s) : i \in 1..Len(r) => s[i] = r[i]
<1> DEFINE P == {n \in Nat : n <= Len(s) /\ n <= Len(r) => SubSeq(s, 1, n) = SubSeq(r, 1, n)}
<1>0. Len(s) \in Nat /\ Len(r) \in Nat
  OBVIOUS
<1>1. ASSUME NEW n \in 1..Len(s), n \in 1..Len(r), SubSeq(s, 1, n - 1) = SubSeq(r, 1, n - 1)
      PROVE  s[n] = r[n] /\ SubSeq(s, 1, n) = SubSeq(r, 1, n)
  <2> DEFINE a == SubSeq(s, 1, n - 1)
  <2>1. /\ a \in Seq(Seq(T)) /\ s[n] \in Seq(T) /\ r[n] \in Seq(T)
        /\ SubSeq(s, 1, n) = Append(a, s[n]) /\ SubSeq(r, 1, n) = Append(a, r[n])
    <3>1. /\ SubSeq(s, 1, n - 1) \in Seq(Seq(T)) /\ s[n] \in Seq(T)
          /\ SubSeq(s, 1, n) = Append(SubSeq(s, 1, n - 1), s[n])
      BY OneMore
    <3>2. r[n] \in Seq(T) /\ SubSeq(r, 1, n) = Append(SubSeq(r, 1, n - 1), r[n])
      BY <1>1, OneMore
    <3>3. QED
      BY <1>1, <3>1, <3>2
  <2>2. PICK x \in Seq(T) : FlattenSeq(s) = FlattenSeq(a) \o (s[n] \o x)
    BY Unfold
  <2>3. PICK y \in Seq(T) : FlattenSeq(r) = FlattenSeq(a) \o (r[n] \o y)
    <3>1. \E y \in Seq(T) : FlattenSeq(r) = FlattenSeq(SubSeq(r, 1, n - 1)) \o (r[n] \o y)
      BY <1>1, Unfold
    <3>2. QED
      BY <1>1, <3>1
  <2> HIDE DEF a
  <2>4. FlattenSeq(a) \in Seq(T) /\ s[n] \o x \in Seq(T) /\ r[n] \o y \in Seq(T)
    BY <2>1, FlattenType, TwoParts
  <2>5. Agree(FlattenSeq(a) \o (s[n] \o x), FlattenSeq(a) \o (r[n] \o y))
    BY <2>2, <2>3
  <2>6. Agree(s[n] \o x, r[n] \o y)
    BY <2>4, <2>5, AgreeRest
  <2>7. Agree(s[n], r[n])
    BY <2>1, <2>6, AgreeStart
  <2>8. QED
    BY <1>1, <2>1, <2>7
<1>2. 0 \in P
  <2>1. SubSeq(s, 1, 0) = <<>> /\ SubSeq(r, 1, 0) = <<>>
    OBVIOUS
  <2>2. QED
    BY <2>1
<1>3. ASSUME NEW n \in P PROVE n + 1 \in P
  <2>1. SUFFICES ASSUME n + 1 <= Len(s), n + 1 <= Len(r)
                 PROVE  SubSeq(s, 1, n + 1) = SubSeq(r, 1, n + 1)
    OBVIOUS
  <2>2. n + 1 \in 1..Len(s) /\ n + 1 \in 1..Len(r) /\ (n + 1) - 1 = n
    BY <1>0, <2>1
  <2>3. SubSeq(s, 1, n) = SubSeq(r, 1, n)
    BY <1>0, <2>1
  <2>4. QED
    BY <1>1, <2>2, <2>3
<1>4. P = Nat
  <2>1. P \in SUBSET Nat
    OBVIOUS
  <2> HIDE DEF P
  <2>2. QED
    BY <1>2, <1>3, <2>1, Inductive
<1>5. ASSUME NEW i \in 1..Len(s), i \in 1..Len(r) PROVE s[i] = r[i]
  <2>1. i - 1 \in Nat /\ i - 1 <= Len(s) /\ i - 1 <= Len(r)
    BY <1>0, <1>5
  <2>2. i - 1 \in P
    <3> HIDE DEF P
    <3>1. QED
      BY <1>4, <2>1
  <2>3. SubSeq(s, 1, i - 1) = SubSeq(r, 1, i - 1)
    BY <2>1, <2>2
  <2>4. QED
    BY <1>1, <1>5, <2>3
<1>6. QED
  BY <1>5
=============================================================================
