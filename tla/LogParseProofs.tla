--------------------------- MODULE LogParseProofs ---------------------------
(***************************************************************************)
(* Theorems about log_parse.                                               *)
(***************************************************************************)
EXTENDS LogParse, RecursionProofs, FiniteSetTheorems

(* What the texts of the model are made of. *)
Tokens == STRING \cup {"{", "}", ":", "comma", "quote", "backslash", "newline",
                      "!", "=", ">", "~", "!="}

LEMMA TextsAre == Seq(STRING) \subseteq Seq(Tokens)
<1>1. STRING \subseteq Tokens
  BY DEF Tokens
<1>2. \A T, U : T \subseteq U => Seq(T) \subseteq Seq(U)
  OBVIOUS
<1>3. QED
  BY <1>1, <1>2, Zenon

-----------------------------------------------------------------------------
(* The lines of a set, in order.                                           *)

Keeps(f, lines, set, n) ==
  \A i \in 0..n :
    f[i] = IF i = 0 THEN <<>>
           ELSE IF lines[i] \in set THEN Append(f[i - 1], lines[i]) ELSE f[i - 1]

LEMMA KeepsAgree ==
  ASSUME NEW f, NEW g, NEW lines, NEW set, NEW n \in Nat,
         Keeps(f, lines, set, n), Keeps(g, lines, set, n)
  PROVE  \A i \in 0..n : f[i] = g[i]
<1> DEFINE P == {i \in Nat : i \in 0..n => f[i] = g[i]}
<1>1. 0 \in P /\ P \in SUBSET Nat
  BY DEF Keeps
<1>2. ASSUME NEW i \in P PROVE i + 1 \in P
  <2>1. SUFFICES ASSUME i + 1 \in 0..n PROVE f[i + 1] = g[i + 1]
    OBVIOUS
  <2>2. i + 1 # 0 /\ (i + 1) - 1 = i /\ f[i] = g[i]
    BY <2>1
  <2>3. QED
    BY <2>1, <2>2 DEF Keeps
<1>3. P = Nat
  <2> HIDE DEF P
  <2>1. QED
    BY <1>1, <1>2, Inductive
<1>4. QED
  BY <1>3

LEMMA ChosenIs ==
  ASSUME NEW T, NEW lines \in Seq(T), NEW set
  PROVE  \E f \in [0..Len(lines) -> Seq(T)] :
           Keeps(f, lines, set, Len(lines)) /\ Chosen(lines, set) = f[Len(lines)]
<1> DEFINE N == Len(lines)
           D == 0..N
           Kept(f) == f = [n \in D |->
             IF n = 0 THEN <<>>
             ELSE IF lines[n] \in set THEN Append(f[n - 1], lines[n]) ELSE f[n - 1]]
           step == [i \in D \ {0} |->
                     [x \in Seq(T) |-> IF lines[i] \in set THEN Append(x, lines[i]) ELSE x]]
           next == [i \in D \ {0} |-> i - 1]
           val == [i \in {0} |-> <<>>]
           m == [i \in D |-> i]
<1>1. N \in Nat /\ \A i \in D \ {0} : lines[i] \in T
  OBVIOUS
<1>2. PICK f \in [D -> Seq(T)] : Solves(f, D, {0}, val, next, step)
  <2>1. Seq(T) # {} /\ {0} \subseteq D /\ val \in [{0} -> Seq(T)]
    BY <1>1
  <2>2. next \in [D \ {0} -> D]
    BY <1>1
  <2>3. step \in [D \ {0} -> [Seq(T) -> Seq(T)]]
    <3>1. \A i \in D \ {0}, x \in Seq(T) : Append(x, lines[i]) \in Seq(T)
      BY <1>1
    <3>2. QED
      BY <3>1
  <2>4. m \in [D -> 0..N] /\ \A i \in D \ {0} : m[next[i]] < m[i]
    BY <1>1
  <2>5. Recursion(D, Seq(T), m, {0}, val, next, step)
    <3> HIDE DEF D, step, next, val, m
    <3>1. QED
      BY <1>1, <2>1, <2>2, <2>3, <2>4 DEF Recursion
  <2> HIDE DEF D, step, next, val, m
  <2>6. QED
    BY <2>5, RecursionExists
<1>3. \A n \in D : f[n] = IF n = 0 THEN <<>>
                          ELSE IF lines[n] \in set THEN Append(f[n - 1], lines[n]) ELSE f[n - 1]
  <2>1. TAKE n \in D
  <2>2. CASE n = 0
    BY <1>2, <2>2 DEF Solves
  <2>3. CASE n # 0
    <3>1. n - 1 \in D
      BY <1>1, <2>3
    <3>2. f[n] = step[n][f[n - 1]]
      BY <1>2, <2>3 DEF Solves
    <3>3. QED
      BY <2>3, <3>1, <3>2
  <2>4. QED
    BY <2>2, <2>3
<1>4. Kept(f)
  <2>1. f = [n \in D |-> f[n]]
    OBVIOUS
  <2>2. QED
    BY <1>3, <2>1
<1>5. Keeps(f, lines, set, N)
  BY <1>1, <1>3 DEF Keeps
<1>6. \A g : Kept(g) => g = f
  <2>1. SUFFICES ASSUME NEW g, Kept(g) PROVE g = f
    OBVIOUS
  <2>2. Keeps(g, lines, set, N)
    BY <1>1, <2>1 DEF Keeps
  <2>3. \A i \in 0..N : g[i] = f[i]
    BY <1>1, <1>5, <2>2, KeepsAgree
  <2>4. g = [n \in D |-> g[n]] /\ f = [n \in D |-> f[n]]
    BY <2>1
  <2>5. QED
    BY <2>3, <2>4, Zenon
<1>7. Chosen(lines, set) = f[N]
  <2>1. f = CHOOSE g : Kept(g)
    BY <1>4, <1>6
  <2>2. Chosen(lines, set) = (CHOOSE g : Kept(g))[N]
    BY DEF Chosen
  <2>3. QED
    BY <2>1, <2>2
<1>8. QED
  BY <1>5, <1>7

LEMMA ChosenType ==
  ASSUME NEW T, NEW lines \in Seq(T), NEW set
  PROVE  Chosen(lines, set) \in Seq(T)
<1>1. PICK f \in [0..Len(lines) -> Seq(T)] : Chosen(lines, set) = f[Len(lines)]
  BY ChosenIs, Zenon
<1>2. Len(lines) \in 0..Len(lines)
  OBVIOUS
<1>3. QED
  BY <1>1, <1>2

LEMMA ChosenEmpty ==
  ASSUME NEW set
  PROVE  Chosen(<<>>, set) = <<>>
<1>1. <<>> \in Seq({}) /\ Len(<<>>) = 0
  OBVIOUS
<1>2. PICK f \in [0..Len(<<>>) -> Seq({})] :
        Keeps(f, <<>>, set, Len(<<>>)) /\ Chosen(<<>>, set) = f[Len(<<>>)]
  BY <1>1, ChosenIs
<1>3. QED
  BY <1>1, <1>2 DEF Keeps

LEMMA ChosenAppend ==
  ASSUME NEW T, NEW lines \in Seq(T), NEW e \in T, NEW set
  PROVE  Chosen(Append(lines, e), set)
           = IF e \in set THEN Append(Chosen(lines, set), e) ELSE Chosen(lines, set)
<1> DEFINE more == Append(lines, e)
           N == Len(lines)
<1>1. more \in Seq(T) /\ Len(more) = N + 1 /\ N \in Nat /\ more[N + 1] = e
  OBVIOUS
<1>2. \A i \in 1..N : more[i] = lines[i]
  OBVIOUS
<1> HIDE DEF more
<1>3. PICK g \in [0..Len(more) -> Seq(T)] :
        Keeps(g, more, set, Len(more)) /\ Chosen(more, set) = g[Len(more)]
  BY <1>1, ChosenIs
<1>4. PICK f \in [0..N -> Seq(T)] :
        Keeps(f, lines, set, N) /\ Chosen(lines, set) = f[N]
  BY ChosenIs
<1>5. Keeps(g, lines, set, N)
  <2>1. \A i \in 0..N : i \in 0..Len(more) /\ (i # 0 => more[i] = lines[i])
    BY <1>1, <1>2
  <2>2. QED
    BY <1>3, <2>1 DEF Keeps
<1>6. g[N] = f[N]
  <2>1. \A i \in 0..N : g[i] = f[i]
    BY <1>1, <1>4, <1>5, KeepsAgree
  <2>2. QED
    BY <1>1, <2>1
<1>7. g[N + 1] = IF e \in set THEN Append(g[N], e) ELSE g[N]
  <2>1. N + 1 \in 0..(N + 1) /\ N + 1 # 0 /\ (N + 1) - 1 = N
    BY <1>1
  <2>2. QED
    BY <1>1, <1>3, <2>1 DEF Keeps
<1>8. QED
  BY <1>1, <1>3, <1>4, <1>6, <1>7 DEF more

-----------------------------------------------------------------------------
(* Running sums.                                                           *)

LEMMA SumsAre ==
  ASSUME NEW numbers \in Seq(Int)
  PROVE  /\ Sums(numbers) \in [0..Len(numbers) -> Int]
         /\ Sums(numbers)[0] = 0
         /\ \A n \in 1..Len(numbers) : Sums(numbers)[n] = Sums(numbers)[n - 1] + numbers[n]
<1> DEFINE N == Len(numbers)
           D == 0..N
           Summed(f) == f = [n \in D |-> IF n = 0 THEN 0 ELSE f[n - 1] + numbers[n]]
           step == [i \in D \ {0} |-> [x \in Int |-> x + numbers[i]]]
           next == [i \in D \ {0} |-> i - 1]
           val == [i \in {0} |-> 0]
           m == [i \in D |-> i]
<1>1. N \in Nat /\ \A i \in D \ {0} : numbers[i] \in Int
  OBVIOUS
<1>2. PICK f \in [D -> Int] : Solves(f, D, {0}, val, next, step)
  <2>1. /\ Int # {} /\ {0} \subseteq D /\ val \in [{0} -> Int]
        /\ next \in [D \ {0} -> D] /\ step \in [D \ {0} -> [Int -> Int]]
    BY <1>1
  <2>2. m \in [D -> 0..N] /\ \A i \in D \ {0} : m[next[i]] < m[i]
    BY <1>1
  <2>3. Recursion(D, Int, m, {0}, val, next, step)
    <3> HIDE DEF D, step, next, val, m
    <3>1. QED
      BY <1>1, <2>1, <2>2 DEF Recursion
  <2> HIDE DEF D, step, next, val, m
  <2>4. QED
    BY <2>3, RecursionExists
<1>3. \A n \in D : f[n] = IF n = 0 THEN 0 ELSE f[n - 1] + numbers[n]
  <2>1. TAKE n \in D
  <2>2. CASE n = 0
    BY <1>2, <2>2 DEF Solves
  <2>3. CASE n # 0
    <3>1. n - 1 \in D
      BY <1>1, <2>3
    <3>2. f[n] = step[n][f[n - 1]]
      BY <1>2, <2>3 DEF Solves
    <3>3. QED
      BY <2>3, <3>1, <3>2
  <2>4. QED
    BY <2>2, <2>3
<1>4. Summed(f)
  <2>1. f = [n \in D |-> f[n]]
    OBVIOUS
  <2>2. QED
    BY <1>3, <2>1
<1>5. \A g : Summed(g) => g = f
  <2>1. SUFFICES ASSUME NEW g, Summed(g) PROVE g = f
    OBVIOUS
  <2>2. DOMAIN g = D /\ \A n \in D : g[n] = IF n = 0 THEN 0 ELSE g[n - 1] + numbers[n]
    BY <2>1
  <2> DEFINE P == {i \in Nat : i \in D => f[i] = g[i]}
  <2>3. 0 \in P /\ P \in SUBSET Nat
    BY <1>1, <1>3, <2>2
  <2>4. ASSUME NEW i \in P PROVE i + 1 \in P
    <3>1. SUFFICES ASSUME i + 1 \in D PROVE f[i + 1] = g[i + 1]
      OBVIOUS
    <3>2. i + 1 # 0 /\ (i + 1) - 1 = i /\ f[i] = g[i]
      BY <3>1
    <3>3. QED
      BY <1>3, <2>2, <3>1, <3>2
  <2>5. P = Nat
    <3> HIDE DEF P
    <3>1. QED
      BY <2>3, <2>4, Inductive
  <2>6. \A n \in D : g[n] = f[n]
    BY <2>5
  <2>7. g = [n \in D |-> g[n]] /\ f = [n \in D |-> f[n]]
    BY <2>1
  <2>8. QED
    BY <2>6, <2>7, Zenon
<1>6. Sums(numbers) = f
  <2>1. f = CHOOSE g : Summed(g)
    BY <1>4, <1>5
  <2>2. Sums(numbers) = CHOOSE g : Summed(g)
    BY DEF Sums
  <2>3. QED
    BY <2>1, <2>2
<1>7. 0 \in D /\ \A n \in 1..N : n \in D /\ n # 0
  BY <1>1
<1>8. QED
  BY <1>3, <1>6, <1>7

LEMMA SumsAppend ==
  ASSUME NEW numbers \in Seq(Int), NEW e \in Int
  PROVE  LET more == Append(numbers, e)
         IN /\ \A n \in 0..Len(numbers) : Sums(more)[n] = Sums(numbers)[n]
            /\ Sums(more)[Len(numbers) + 1] = Sums(numbers)[Len(numbers)] + e
<1> DEFINE more == Append(numbers, e)
           N == Len(numbers)
           P == {i \in Nat : i \in 0..N => Sums(more)[i] = Sums(numbers)[i]}
<1>1. more \in Seq(Int) /\ Len(more) = N + 1 /\ N \in Nat /\ more[N + 1] = e
  OBVIOUS
<1>2. \A i \in 1..N : more[i] = numbers[i]
  OBVIOUS
<1> HIDE DEF more
<1>3. /\ Sums(more)[0] = 0
      /\ \A n \in 1..(N + 1) : Sums(more)[n] = Sums(more)[n - 1] + more[n]
  BY <1>1, SumsAre
<1>4. /\ Sums(numbers)[0] = 0
      /\ \A n \in 1..N : Sums(numbers)[n] = Sums(numbers)[n - 1] + numbers[n]
  BY SumsAre
<1>5. 0 \in P /\ P \in SUBSET Nat
  BY <1>3, <1>4
<1>6. ASSUME NEW i \in P PROVE i + 1 \in P
  <2>1. SUFFICES ASSUME i + 1 \in 0..N PROVE Sums(more)[i + 1] = Sums(numbers)[i + 1]
    OBVIOUS
  <2>2. /\ i + 1 \in 1..N /\ i + 1 \in 1..(N + 1) /\ (i + 1) - 1 = i
        /\ Sums(more)[i] = Sums(numbers)[i]
    BY <1>1, <2>1
  <2>3. QED
    BY <1>2, <1>3, <1>4, <2>2
<1>7. P = Nat
  <2> HIDE DEF P
  <2>1. QED
    BY <1>5, <1>6, Inductive
<1>8. \A n \in 0..N : Sums(more)[n] = Sums(numbers)[n]
  BY <1>7
<1>9. Sums(more)[N + 1] = Sums(numbers)[N] + e
  <2>1. N + 1 \in 1..(N + 1) /\ (N + 1) - 1 = N /\ N \in 0..N
    BY <1>1
  <2>2. QED
    BY <1>1, <1>3, <1>8, <2>1
<1>10. QED
  BY <1>8, <1>9 DEF more

-----------------------------------------------------------------------------
(* Doubles.                                                                *)

LEMMA UlpIs ==
  ASSUME NEW x \in Nat
  PROVE  /\ Ulp(x) \in Nat /\ Ulp(x) > 0
         /\ x < Precision => Ulp(x) = 1
         /\ x >= Precision /\ x < 2 * Precision => Ulp(x) = 2
         /\ x >= 2 * Precision => Ulp(x) % 4 = 0 /\ 2 * x >= Ulp(x) * Precision
<1> DEFINE D == 0..x
           Computes(f) == f = [y \in D |-> IF y < Precision THEN 1 ELSE 2 * f[y \div 2]]
           stop == {y \in D : y < Precision}
           step == [y \in D \ stop |-> [u \in Nat |-> 2 * u]]
           next == [y \in D \ stop |-> y \div 2]
           val == [y \in stop |-> 1]
           m == [y \in D |-> y]
<1>1. Precision \in Nat /\ Precision > 0 /\ Precision % 2 = 0
  BY CodecAssumption
<1>2. PICK f \in [D -> Nat] : Solves(f, D, stop, val, next, step)
  <2>1. Nat # {} /\ stop \subseteq D /\ val \in [stop -> Nat] /\ step \in [D \ stop -> [Nat -> Nat]]
    OBVIOUS
  <2>2. \A y \in D \ stop : y \div 2 \in D /\ y \div 2 < y
    BY <1>1
  <2>3. next \in [D \ stop -> D]
    BY <2>2
  <2>4. m \in [D -> 0..x] /\ \A y \in D \ stop : m[next[y]] < m[y]
    BY <2>2
  <2>5. Recursion(D, Nat, m, stop, val, next, step)
    <3> HIDE DEF D, stop, step, next, val, m
    <3>1. QED
      BY <2>1, <2>3, <2>4 DEF Recursion
  <2> HIDE DEF D, stop, step, next, val, m
  <2>6. QED
    BY <2>5, RecursionExists
<1>3. \A y \in D : f[y] = IF y < Precision THEN 1 ELSE 2 * f[y \div 2]
  <2>1. TAKE y \in D
  <2>2. CASE y < Precision
    BY <1>2, <2>2 DEF Solves
  <2>3. CASE ~(y < Precision)
    <3>1. y \div 2 \in D
      BY <1>1, <2>3
    <3>2. f[y] = step[y][f[y \div 2]]
      BY <1>2, <2>3 DEF Solves
    <3>3. QED
      BY <2>3, <3>1, <3>2
  <2>4. QED
    BY <2>2, <2>3
<1>4. Computes(f)
  <2>1. f = [y \in D |-> f[y]]
    OBVIOUS
  <2>2. QED
    BY <1>3, <2>1
<1> DEFINE ulp == CHOOSE g : Computes(g)
<1>5. Computes(ulp)
  BY <1>4
<1>6. Ulp(x) = ulp[x]
  BY DEF Ulp
<1> HIDE DEF ulp
<1>7. \A y \in D : ulp[y] = IF y < Precision THEN 1 ELSE 2 * ulp[y \div 2]
  BY <1>5
<1> DEFINE Fine(y) ==
             /\ ulp[y] \in Nat /\ ulp[y] > 0
             /\ y < Precision => ulp[y] = 1
             /\ y >= Precision /\ y < 2 * Precision => ulp[y] = 2
             /\ y >= 2 * Precision => ulp[y] % 4 = 0 /\ 2 * y >= ulp[y] * Precision
           Bad == {y \in D : ~Fine(y)}
<1>8. ASSUME NEW y \in Bad, \A z \in Bad : y <= z PROVE FALSE
  <2>0. y \in Nat /\ y \in D /\ ~Fine(y)
    OBVIOUS
  <2>1. CASE y < Precision
    BY <1>1, <1>7, <2>0, <2>1
  <2>2. CASE y >= Precision
    <3> DEFINE h == y \div 2
    <3>1. h \in D /\ h < y /\ 2 * h <= y /\ (y < 2 * Precision <=> h < Precision)
      BY <1>1, <2>2
    <3>2. Fine(h)
      <4>1. h \notin Bad
        <5> HIDE DEF Bad
        <5>1. SUFFICES ASSUME h \in Bad PROVE FALSE
          OBVIOUS
        <5>2. y <= h
          BY <1>8, <5>1
        <5>3. QED
          BY <2>0, <3>1, <5>2
      <4>2. QED
        BY <3>1, <4>1
    <3>3. ulp[y] = 2 * ulp[h]
      BY <1>1, <1>7, <2>0, <2>2
    <3> HIDE DEF h
    <3>4. h \in Nat
      BY <3>1
    <3>5. CASE h < 2 * Precision
      BY <1>1, <2>0, <2>2, <3>1, <3>2, <3>3, <3>4, <3>5
    <3>6. CASE h >= 2 * Precision
      <4>1. ulp[h] \in Nat /\ ulp[h] > 0 /\ ulp[h] % 4 = 0 /\ 2 * h >= ulp[h] * Precision
        BY <3>2, <3>6
      <4>2. ulp[y] \in Nat /\ ulp[y] > 0 /\ ulp[y] % 4 = 0 /\ y >= 2 * Precision
        <5>1. y >= 2 * Precision
          BY <1>1, <2>0, <3>1, <3>4, <3>6
        <5>2. \A u \in Nat : u % 4 = 0 => (2 * u) % 4 = 0
          OBVIOUS
        <5>3. (2 * ulp[h]) % 4 = 0
          BY <4>1, <5>2
        <5> HIDE DEF ulp
        <5>4. ulp[y] % 4 = 0
          BY <3>3, <5>3, Zenon
        <5>5. QED
          BY <3>3, <4>1, <5>1, <5>4
      <4>3. ulp[y] * Precision = 2 * (ulp[h] * Precision)
        BY <1>1, <3>3, <4>1
      <4>4. ulp[h] * Precision \in Nat
        BY <1>1, <4>1
      <4>5. 2 * y >= ulp[y] * Precision
        <5> DEFINE c == ulp[h] * Precision
        <5> HIDE DEF c
        <5>1. c \in Nat /\ 2 * h >= c /\ ulp[y] * Precision = 2 * c
          BY <4>1, <4>3, <4>4 DEF c
        <5>2. QED
          BY <2>0, <3>1, <3>4, <5>1
      <4>6. QED
        BY <1>1, <2>0, <4>2, <4>5
    <3>7. QED
      BY <1>1, <3>4, <3>5, <3>6
  <2>3. QED
    BY <1>1, <2>0, <2>1, <2>2
<1>9. Bad = {}
  <2>1. Bad \in SUBSET Nat
    OBVIOUS
  <2> HIDE DEF Bad
  <2>2. QED
    BY <1>8, <2>1, Minimum
<1>10. Fine(x)
  BY <1>9
<1>11. QED
  BY <1>6, <1>10

(* Even numbers of halves, integers that is, are exact up to Precision.    *)
LEMMA RoundExact ==
  ASSUME NEW n \in Int, -Precision <= n, n <= Precision
  PROVE  Round(2 * n) = 2 * n
<1>1. Precision \in Nat /\ Precision > 0 /\ Precision % 2 = 0
  BY CodecAssumption
<1>2. ASSUME NEW x \in Nat, x <= 2 * Precision, x % 2 = 0 PROVE RoundAbs(x) = x
  <2>1. CASE x < Precision
    BY <2>1, UlpIs DEF RoundAbs
  <2>2. CASE x >= Precision /\ x < 2 * Precision
    <3>1. Ulp(x) = 2
      BY <2>2, UlpIs
    <3>2. (x \div 2) * 2 = x
      BY <1>2
    <3>3. QED
      BY <1>2, <3>1, <3>2 DEF RoundAbs
  <2>3. CASE x = 2 * Precision
    <3>1. Ulp(x) \in Nat /\ Ulp(x) > 0 /\ Ulp(x) % 4 = 0 /\ 2 * x >= Ulp(x) * Precision
      BY <1>1, <2>3, UlpIs
    <3>2. Ulp(x) = 4
      <4>1. Ulp(x) * Precision <= 4 * Precision
        BY <1>1, <2>3, <3>1
      <4>2. Ulp(x) <= 4
        BY <1>1, <3>1, <4>1
      <4>3. QED
        BY <3>1, <4>2
    <3>3. x % 4 = 0 /\ (x \div 4) * 4 = x
      BY <1>1, <2>3
    <3>4. QED
      BY <1>2, <3>2, <3>3 DEF RoundAbs
  <2>4. QED
    BY <1>1, <1>2, <2>1, <2>2, <2>3
<1>3. CASE n >= 0
  <2>1. 2 * n \in Nat /\ 2 * n <= 2 * Precision /\ (2 * n) % 2 = 0 /\ 2 * n >= 0
    BY <1>1, <1>3
  <2>2. QED
    BY <1>2, <2>1 DEF Round
<1>4. CASE n < 0
  <2>1. /\ -(2 * n) \in Nat /\ -(2 * n) <= 2 * Precision /\ (-(2 * n)) % 2 = 0
        /\ ~(2 * n >= 0)
    BY <1>1, <1>4
  <2>2. RoundAbs(-(2 * n)) = -(2 * n)
    BY <1>2, <2>1
  <2>3. QED
    BY <2>1, <2>2 DEF Round
<1>5. QED
  BY <1>3, <1>4

(* Small numbers are exact, fractions too; large ones stay large.          *)
LEMMA RoundSmall ==
  ASSUME NEW x \in Int, -Precision < x, x < Precision
  PROVE  Round(x) = x
<1>1. ASSUME NEW y \in Nat, y < Precision PROVE RoundAbs(y) = y
  BY <1>1, UlpIs DEF RoundAbs
<1>2. QED
  BY <1>1, CodecAssumption DEF Round

LEMMA HeldExact ==
  ASSUME NEW h \in Int, Held(h)
  PROVE  Round(h) = h
<1>1. Precision \in Nat /\ Precision > 0 /\ Precision % 2 = 0
  BY CodecAssumption
<1>2. CASE h % 2 = 0
  <2> DEFINE n == h \div 2
  <2>1. n \in Int /\ h = 2 * n /\ -Precision <= n /\ n <= Precision
    BY <1>1, <1>2 DEF Held
  <2> HIDE DEF n
  <2>2. QED
    BY <2>1, RoundExact
<1>3. CASE h % 2 # 0
  <2>1. -Precision < h /\ h < Precision
    BY <1>1, <1>3 DEF Held
  <2>2. QED
    BY <2>1, RoundSmall
<1>4. QED
  BY <1>2, <1>3

LEMMA RoundLarge ==
  ASSUME NEW x \in Int, x >= 2 * Precision \/ x <= -(2 * Precision)
  PROVE  Round(x) \in Int /\ (Round(x) >= 2 * Precision \/ Round(x) <= -(2 * Precision))
<1>1. Precision \in Nat /\ Precision > 0 /\ Precision % 2 = 0
  BY CodecAssumption
<1>2. ASSUME NEW y \in Nat, y >= 2 * Precision
      PROVE  RoundAbs(y) \in Int /\ RoundAbs(y) >= 2 * Precision
  <2> DEFINE u == Ulp(y)
             q == y \div u
             p == Precision \div 2
  <2>1. u \in Nat /\ u >= 4 /\ 2 * y >= u * Precision
    <3>1. u \in Nat /\ u > 0 /\ u % 4 = 0 /\ 2 * y >= u * Precision
      BY <1>2, UlpIs
    <3> HIDE DEF u
    <3>2. QED
      BY <3>1
  <2>2. p \in Nat /\ Precision = 2 * p
    BY <1>1
  <2> HIDE DEF u, p
  <2>3. q \in Nat /\ y < (q + 1) * u
    BY <2>1
  <2>4. y >= p * u
    <3>1. u * Precision = 2 * (p * u)
      BY <2>1, <2>2
    <3>2. p * u \in Nat
      BY <2>1, <2>2
    <3>3. QED
      BY <2>1, <3>1, <3>2
  <2>5. q >= p
    <3> HIDE DEF q
    <3>1. SUFFICES ASSUME q + 1 <= p PROVE FALSE
      BY <2>2, <2>3
    <3>2. (q + 1) * u <= p * u
      BY <2>1, <2>2, <2>3, <3>1
    <3>3. QED
      <4> DEFINE a == (q + 1) * u
                 b == p * u
      <4>1. a \in Nat /\ b \in Nat /\ a <= b /\ y < a /\ y >= b
        BY <2>1, <2>2, <2>3, <2>4, <3>2
      <4> HIDE DEF a, b
      <4>2. QED
        BY <4>1
  <2>6. RoundAbs(y) \in {q * u, (q + 1) * u}
    BY DEF RoundAbs, u, q
  <2> HIDE DEF q
  <2>7. q * u >= 2 * Precision
    <3>1. q * u >= p * u
      BY <2>1, <2>2, <2>3, <2>5
    <3>2. p * u >= p * 4
      BY <2>1, <2>2
    <3>3. q * u \in Nat /\ p * u \in Nat
      BY <2>1, <2>2, <2>3
    <3>4. QED
      <4> DEFINE a == q * u
                 b == p * u
      <4>1. a \in Nat /\ b \in Nat /\ a >= b /\ b >= p * 4
        BY <3>1, <3>2, <3>3
      <4> HIDE DEF a, b
      <4>2. a >= 2 * Precision
        BY <2>2, <4>1
      <4>3. QED
        BY <4>2 DEF a
  <2>8. q * u \in Nat /\ (q + 1) * u \in Nat /\ (q + 1) * u >= q * u
    BY <2>1, <2>3
  <2>9. QED
    BY <1>1, <2>6, <2>7, <2>8
<1>3. CASE x >= 2 * Precision
  BY <1>1, <1>2, <1>3 DEF Round
<1>4. CASE x <= -(2 * Precision)
  <2>1. -x \in Nat /\ -x >= 2 * Precision /\ ~(x >= 0)
    BY <1>1, <1>4
  <2>2. RoundAbs(-x) \in Int /\ RoundAbs(-x) >= 2 * Precision
    BY <1>2, <2>1
  <2>3. QED
    BY <1>1, <2>1, <2>2 DEF Round
<1>5. QED
  BY <1>3, <1>4

(* jsonl_get_int64 gives the integer that was written, or none.            *)
LEMMA GetsWhatWasWritten ==
  ASSUME NEW item,
         item.type = "number" =>
           item.halves \in Int /\ (item.halves % 2 = 0 \/ Held(item.halves))
  PROVE  GetInt64(item) = Written(item)
<1> DEFINE h == item.halves
           n == h \div 2
<1>1. Precision \in Nat /\ Precision > 0 /\ Precision % 2 = 0
  BY CodecAssumption
<1>2. CASE item.type # "number"
  BY <1>2 DEF GetInt64, Written
<1>4. CASE item.type = "number" /\ h % 2 # 0
  <2>1. h \in Int /\ 2 * n # h /\ Held(h)
    BY <1>1, <1>4
  <2>2. Round(h) = h
    BY <2>1, HeldExact
  <2>3. GetInt64(item) = {}
    BY <1>4, <2>1, <2>2 DEF GetInt64
  <2>4. Written(item) = {}
    BY <1>4, <2>1 DEF Written
  <2>5. QED
    BY <2>3, <2>4
<1>5. CASE item.type = "number" /\ ~(h % 2 # 0)
  <2>1. h \in Int /\ n \in Int /\ 2 * n = h
    BY <1>5
  <2>2. CASE -Precision < n /\ n < Precision
    <3>1. Round(h) = h
      BY <1>1, <2>1, <2>2, RoundExact
    <3>2. /\ ~(h < -2 * MAX_SAFE_INTEGER) /\ ~(h > 2 * MAX_SAFE_INTEGER) /\ h % 2 = 0
      BY <1>1, <1>5, <2>1, <2>2 DEF MAX_SAFE_INTEGER
    <3>3. GetInt64(item) = {n}
      BY <1>5, <3>1, <3>2 DEF GetInt64
    <3>4. Written(item) = {n}
      BY <1>5, <2>1, <2>2 DEF Written
    <3>5. QED
      BY <3>3, <3>4
  <2>3. CASE ~(-Precision < n /\ n < Precision)
    <3>1. h >= 2 * Precision \/ h <= -(2 * Precision)
      BY <1>1, <2>1, <2>3
    <3>2. Round(h) \in Int /\ (Round(h) >= 2 * Precision \/ Round(h) <= -(2 * Precision))
      BY <2>1, <3>1, RoundLarge
    <3>3. Round(h) < -2 * MAX_SAFE_INTEGER \/ Round(h) > 2 * MAX_SAFE_INTEGER
      BY <1>1, <3>2 DEF MAX_SAFE_INTEGER
    <3>4. GetInt64(item) = {}
      BY <1>5, <3>3 DEF GetInt64
    <3>5. Written(item) = {}
      BY <1>5, <2>3 DEF Written
    <3>6. QED
      BY <3>4, <3>5
  <2>4. QED
    BY <2>2, <2>3
<1>6. QED
  BY <1>2, <1>4, <1>5

-----------------------------------------------------------------------------
(* The growing buffer.                                                     *)

Longs(text) == {i \in DOMAIN text : text[i] = "long"}

LEMMA LongsAre ==
  ASSUME NEW T, NEW text \in Seq(T)
  PROVE  /\ IsFiniteSet(Longs(text)) /\ Cardinality(Longs(text)) \in Nat
         /\ Cardinality(Longs(text)) <= Len(text)
         /\ Longs(text) \subseteq 1..Len(text)
<1>1. Len(text) \in Nat /\ Longs(text) \subseteq 1..Len(text)
  BY DEF Longs
<1>2. IsFiniteSet(1..Len(text)) /\ Cardinality(1..Len(text)) = Len(text)
  <2>1. IsFiniteSet(1..Len(text))
          /\ Cardinality(1..Len(text)) = IF 1 > Len(text) THEN 0 ELSE Len(text) - 1 + 1
    BY <1>1, FS_Interval
  <2>2. QED
    BY <1>1, <2>1
<1>3. QED
  BY <1>1, <1>2, FS_Subset, FS_CardinalityType

LEMMA SizeType ==
  ASSUME NEW T, NEW text \in Seq(T)
  PROVE  Size(text) \in Nat
<1> DEFINE c == Cardinality(Longs(text))
<1>1. c \in Nat /\ c <= Len(text) /\ Len(text) \in Nat
  BY LongsAre
<1>2. Size(text) = Len(text) + (LongSize - 1) * c
  BY DEF Size, Longs
<1> HIDE DEF c
<1>3. LongSize * c \in Nat /\ (LongSize - 1) * c = LongSize * c - c
  BY <1>1, BufferAssumption
<1>4. QED
  BY <1>1, <1>2, <1>3

LEMMA SizeEmpty == Size(<<>>) = 0
<1>1. DOMAIN <<>> = {} /\ Len(<<>>) = 0
  OBVIOUS
<1>2. {i \in DOMAIN <<>> : <<>>[i] = "long"} = {}
  BY <1>1
<1>3. QED
  BY <1>1, <1>2, FS_EmptySet, BufferAssumption DEF Size

(* The size of two texts is the sum of their sizes. *)
LEMMA SizeConcat ==
  ASSUME NEW T, NEW s \in Seq(T), NEW t \in Seq(T)
  PROVE  Size(s \o t) = Size(s) + Size(t)
<1> DEFINE N == Len(s)
           A == Longs(s)
           B == Longs(t)
           C == {N + i : i \in B}
<1>1. N \in Nat /\ s \o t \in Seq(T) /\ Len(s \o t) = N + Len(t)
  OBVIOUS
<1>2. /\ IsFiniteSet(A) /\ IsFiniteSet(B) /\ A \subseteq 1..N /\ B \subseteq 1..Len(t)
      /\ Cardinality(A) \in Nat /\ Cardinality(B) \in Nat
  BY LongsAre
<1>3. Longs(s \o t) = A \cup C
  <2>1. ASSUME NEW i \in 1..N PROVE i \in Longs(s \o t) <=> i \in A
    BY <1>1, <2>1 DEF Longs
  <2>2. ASSUME NEW i \in 1..Len(t) PROVE N + i \in Longs(s \o t) <=> i \in B
    BY <1>1, <2>2 DEF Longs
  <2>3. Longs(s \o t) \subseteq 1..(N + Len(t))
    BY <1>1 DEF Longs
  <2>4. \A j \in 1..(N + Len(t)) : j \in 1..N \/ (j - N \in 1..Len(t) /\ j = N + (j - N))
    BY <1>1
  <2> HIDE DEF A, B
  <2>5. ASSUME NEW j \in Longs(s \o t) PROVE j \in A \cup C
    <3>1. CASE j \in 1..N
      BY <2>1, <3>1
    <3>2. CASE j - N \in 1..Len(t) /\ j = N + (j - N)
      <4>1. j - N \in B
        BY <2>2, <3>2
      <4>2. QED
        BY <3>2, <4>1
    <3>3. QED
      BY <2>3, <2>4, <3>1, <3>2
  <2>6. ASSUME NEW j \in A \cup C PROVE j \in Longs(s \o t)
    BY <1>2, <2>1, <2>2
  <2>7. QED
    BY <2>5, <2>6
<1>4. IsFiniteSet(C) /\ Cardinality(C) = Cardinality(B)
  <2> DEFINE f == [i \in B |-> N + i]
  <2>1. f \in Bijection(B, C)
    <3>1. \A i \in B : i \in Int
      BY <1>2
    <3>2. \A i, j \in B : N + i = N + j => i = j
      BY <1>1, <3>1
    <3> HIDE DEF B
    <3>3. f \in [B -> C] /\ (\A y \in C : \E x \in B : f[x] = y) /\ \A i, j \in B : f[i] = f[j] => i = j
      BY <3>2
    <3> HIDE DEF f, C
    <3>4. QED
      BY <3>3 DEF Bijection, Injection, Surjection, IsInjective
  <2> HIDE DEF f, B, C
  <2>2. ExistsBijection(B, C)
    BY <2>1 DEF ExistsBijection
  <2>3. QED
    BY <1>2, <2>2, FS_Bijection
<1>5. A \cap C = {}
  <2>1. \A i \in B : N + i > N
    BY <1>1, <1>2
  <2>2. \A j \in A : j <= N
    BY <1>2
  <2> HIDE DEF A, B
  <2>3. QED
    BY <1>1, <1>2, <2>1, <2>2
<1>6. Cardinality(Longs(s \o t)) = Cardinality(A) + Cardinality(B)
  <2> HIDE DEF A, B, C
  <2>1. Cardinality(A \cup C) = Cardinality(A) + Cardinality(C) - Cardinality(A \cap C)
    BY <1>2, <1>4, FS_Union
  <2>2. Cardinality(A \cap C) = 0
    BY <1>5, FS_EmptySet
  <2>3. QED
    BY <1>2, <1>3, <1>4, <2>1, <2>2
<1>7. /\ Size(s \o t) = Len(s \o t) + (LongSize - 1) * Cardinality(Longs(s \o t))
      /\ Size(s) = N + (LongSize - 1) * Cardinality(A)
      /\ Size(t) = Len(t) + (LongSize - 1) * Cardinality(B)
  BY DEF Size, Longs
<1>8. (LongSize - 1) * (Cardinality(A) + Cardinality(B))
        = (LongSize - 1) * Cardinality(A) + (LongSize - 1) * Cardinality(B)
  <2>1. \A k \in Int, a, b \in Nat : k * (a + b) = k * a + k * b
    OBVIOUS
  <2>2. LongSize - 1 \in Int
    BY BufferAssumption
  <2> HIDE DEF A, B
  <2>3. QED
    BY <1>2, <2>1, <2>2
<1>9. QED
  <2> DEFINE a == (LongSize - 1) * Cardinality(A)
             b == (LongSize - 1) * Cardinality(B)
  <2>1. a \in Int /\ b \in Int
    BY <1>2, BufferAssumption
  <2>2. Size(s \o t) = N + Len(t) + (a + b) /\ Size(s) = N + a /\ Size(t) = Len(t) + b
    BY <1>1, <1>6, <1>7, <1>8
  <2>3. Len(t) \in Int
    OBVIOUS
  <2> HIDE DEF a, b
  <2>4. QED
    BY <1>1, <2>1, <2>2, <2>3

(* Doubling a capacity, or giving up on that, makes room.                  *)
LEMMA GrownCapIs ==
  ASSUME NEW cap \in 0..SizeMax, NEW need \in 1..SizeMax
  PROVE  GrownCap(cap, need) \in need..SizeMax
<1> DEFINE D == 1..SizeMax
           S == need..SizeMax
           Grown(f) == f = [next \in D |->
             IF next >= need THEN next
             ELSE IF next > SizeMax \div 2 THEN need ELSE f[2 * next]]
           stop == {c \in D : c >= need \/ c > SizeMax \div 2}
           val == [c \in stop |-> IF c >= need THEN c ELSE need]
           down == [c \in D \ stop |-> 2 * c]
           step == [c \in D \ stop |-> [x \in S |-> x]]
           m == [c \in D |-> SizeMax - c]
<1>1. SizeMax \in Nat /\ FirstCap \in D /\ need \in S
  BY BufferAssumption
<1>2. PICK f \in [D -> S] : Solves(f, D, stop, val, down, step)
  <2>1. S # {} /\ stop \subseteq D /\ val \in [stop -> S] /\ step \in [D \ stop -> [S -> S]]
    <3>1. \A c \in stop : val[c] \in S
      BY <1>1
    <3>2. S # {} /\ stop \subseteq D /\ val \in [stop -> S]
      BY <1>1, <3>1
    <3>3. \A c \in D \ stop : step[c] \in [S -> S]
      OBVIOUS
    <3> HIDE DEF D, S, stop
    <3>4. QED
      BY <3>2, <3>3
  <2>2. \A c \in D \ stop : 2 * c \in D /\ SizeMax - 2 * c < SizeMax - c
    BY <1>1
  <2>3. down \in [D \ stop -> D]
    BY <2>2
  <2>4. m \in [D -> 0..SizeMax] /\ \A c \in D \ stop : m[down[c]] < m[c]
    BY <1>1, <2>2
  <2>5. Recursion(D, S, m, stop, val, down, step)
    <3> HIDE DEF D, S, stop, step, down, val, m
    <3>1. QED
      BY <1>1, <2>1, <2>3, <2>4 DEF Recursion
  <2> HIDE DEF D, S, stop, step, down, val, m
  <2>6. QED
    BY <2>5, RecursionExists
<1>3. \A c \in D : f[c] = IF c >= need THEN c
                          ELSE IF c > SizeMax \div 2 THEN need ELSE f[2 * c]
  <2>1. TAKE c \in D
  <2>2. CASE c \in stop
    BY <1>2, <2>2 DEF Solves
  <2>3. CASE c \notin stop
    <3>1. 2 * c \in D /\ f[2 * c] \in S
      BY <1>1, <2>3
    <3>2. f[c] = step[c][f[2 * c]]
      BY <1>2, <2>3 DEF Solves
    <3>3. QED
      BY <2>3, <3>1, <3>2
  <2>4. QED
    BY <2>2, <2>3
<1>4. Grown(f)
  <2>1. f = [c \in D |-> f[c]]
    OBVIOUS
  <2>2. QED
    BY <1>3, <2>1
<1> DEFINE grown == CHOOSE g : Grown(g)
           first == IF cap = 0 THEN FirstCap ELSE cap
<1>5. Grown(grown)
  BY <1>4
<1>6. GrownCap(cap, need) = grown[first]
  BY DEF GrownCap
<1>7. first \in D
  BY <1>1
<1> HIDE DEF grown, first
<1>8. \A c \in D : grown[c] = IF c >= need THEN c
                              ELSE IF c > SizeMax \div 2 THEN need ELSE grown[2 * c]
  BY <1>5
<1> DEFINE P == {k \in Nat : \A c \in D : SizeMax - c <= k => grown[c] \in S}
<1>9. P = Nat
  <2>1. 0 \in P /\ P \in SUBSET Nat
    BY <1>1, <1>8
  <2>2. ASSUME NEW k \in P PROVE k + 1 \in P
    <3>1. SUFFICES ASSUME NEW c \in D, SizeMax - c <= k + 1 PROVE grown[c] \in S
      OBVIOUS
    <3>2. CASE c >= need \/ c > SizeMax \div 2
      <4>1. grown[c] = IF c >= need THEN c ELSE need
        BY <1>8, <3>2
      <4>2. c \in Int /\ c <= SizeMax
        OBVIOUS
      <4>3. QED
        BY <1>1, <4>1, <4>2
    <3>3. CASE ~(c >= need) /\ ~(c > SizeMax \div 2)
      <4>1. 2 * c \in D /\ SizeMax - 2 * c <= k
        BY <1>1, <3>1, <3>3
      <4>2. grown[2 * c] \in S
        BY <4>1
      <4>3. QED
        BY <1>8, <3>3, <4>2
    <3>4. QED
      BY <3>2, <3>3
  <2> HIDE DEF P
  <2>3. QED
    BY <2>1, <2>2, Inductive
<1>10. SizeMax \in P
  <2> HIDE DEF P
  <2>1. QED
    BY <1>1, <1>9
<1>11. \A c \in D : SizeMax - c <= SizeMax
  BY <1>1
<1>12. QED
  BY <1>6, <1>7, <1>10, <1>11

BufferRecords == [cap : 0..SizeMax, len : Nat, failed : {FALSE}, text : Seq(Tokens)]

(* A buffer holds its text and a NUL, within storage that fits a size_t.   *)
Holds(b) ==
  /\ b \in BufferRecords
  /\ b.len = Size(b.text)
  /\ IF b.cap = 0 THEN b.len = 0 ELSE b.len < b.cap

LEMMA EmptyHolds == Holds(EmptyBuffer)
BY SizeEmpty, BufferAssumption DEF Holds, EmptyBuffer, BufferRecords

LEMMA BufferFields ==
  ASSUME NEW b \in BufferRecords
  PROVE  /\ \A n \in 0..SizeMax : LET r == [b EXCEPT !.cap = n]
                                 IN r \in BufferRecords /\ r.cap = n /\ r.len = b.len /\ r.text = b.text
         /\ \A n \in Nat, t \in Seq(Tokens) :
              LET r == [b EXCEPT !.len = n, !.text = t]
              IN r \in BufferRecords /\ r.cap = b.cap /\ r.len = n /\ r.text = t
BY DEF BufferRecords

LEMMA AppendHolds ==
  ASSUME NEW b, Holds(b), NEW text \in Seq(Tokens), NEW c \in AppendText(b, text), ~c.failed
  PROVE  Holds(c) /\ c.text = b.text \o text
<1> DEFINE extra == Size(text)
<1>1. extra \in Nat /\ b.text \in Seq(Tokens) /\ b.len \in Nat /\ b.cap \in Nat /\ b.cap <= SizeMax
  BY SizeType, BufferAssumption DEF Holds, BufferRecords
<1>2. PICK r \in Reserve(b, extra) :
        c = IF r.failed THEN r ELSE [r EXCEPT !.len = @ + Size(text), !.text = @ \o text]
  BY DEF AppendText
<1> HIDE DEF extra
<1>3. ~r.failed
  BY <1>2
<1>4. r = b \/ (r = [b EXCEPT !.cap = GrownCap(b.cap, Need(b, extra))] /\ Grows(b, extra))
  BY <1>2, <1>3 DEF Reserve, Holds, BufferRecords
<1>5. ~Overflows(b, extra)
  BY <1>2, <1>3 DEF Reserve, Holds, BufferRecords
<1>6. Need(b, extra) \in 1..SizeMax /\ Need(b, extra) = b.len + extra + 1
  BY <1>1, <1>5, BufferAssumption DEF Overflows, Need
<1>7. r \in BufferRecords
        /\ r.len = b.len /\ r.text = b.text /\ Need(b, extra) <= r.cap
  <2>1. CASE r = b
    <3>1. ~Grows(b, extra)
      <4>1. SUFFICES ASSUME Grows(b, extra) PROVE FALSE
        OBVIOUS
      <4>2. r = [b EXCEPT !.cap = GrownCap(b.cap, Need(b, extra))]
        BY <1>2, <1>3, <4>1 DEF Reserve, Holds, BufferRecords
      <4>3. r.cap = GrownCap(b.cap, Need(b, extra))
        BY <1>1, <1>6, <4>2, BufferFields, GrownCapIs DEF Holds, BufferRecords
      <4>4. r.cap \in Need(b, extra)..SizeMax
        BY <1>1, <1>6, <4>3, GrownCapIs
      <4>5. QED
        BY <1>1, <1>6, <2>1, <4>1, <4>4 DEF Grows
    <3>2. QED
      <4>1. Need(b, extra) <= b.cap
        BY <1>1, <1>6, <3>1 DEF Grows
      <4>2. QED
        BY <2>1, <4>1 DEF Holds
  <2>2. CASE r = [b EXCEPT !.cap = GrownCap(b.cap, Need(b, extra))]
    <3>1. b.cap \in 0..SizeMax
      BY DEF Holds, BufferRecords
    <3>2. GrownCap(b.cap, Need(b, extra)) \in Need(b, extra)..SizeMax
      BY <1>6, <3>1, GrownCapIs
    <3>3. QED
      <4> DEFINE n == GrownCap(b.cap, Need(b, extra))
      <4>1. n \in 0..SizeMax /\ Need(b, extra) <= n /\ b \in BufferRecords
        BY <1>6, <3>2 DEF Holds
      <4>2. r = [b EXCEPT !.cap = n]
        BY <2>2
      <4> HIDE DEF n
      <4>3. QED
        BY <4>1, <4>2, BufferFields
  <2>3. QED
    BY <1>4, <2>1, <2>2
<1>8. Size(b.text \o text) = b.len + extra
  BY <1>1, SizeConcat DEF Holds, extra
<1>9. c = [r EXCEPT !.len = @ + Size(text), !.text = @ \o text]
  BY <1>2, <1>3
<1>10. b.text \o text \in Seq(Tokens)
  BY <1>1
<1>11. /\ c \in BufferRecords
       /\ c.len = b.len + extra /\ c.text = b.text \o text /\ c.cap = r.cap
  <2>1. c = [r EXCEPT !.len = b.len + extra, !.text = b.text \o text]
    BY <1>7, <1>9 DEF extra
  <2>2. b.len + extra \in Nat
    BY <1>1
  <2>3. QED
    <3> DEFINE n == b.len + extra
               t == b.text \o text
    <3>1. n \in Nat /\ t \in Seq(Tokens) /\ c = [r EXCEPT !.len = n, !.text = t]
      BY <1>10, <2>1, <2>2
    <3> HIDE DEF n, t
    <3>2. c \in BufferRecords /\ c.len = n /\ c.text = t /\ c.cap = r.cap
      BY <1>7, <3>1 DEF BufferRecords
    <3>3. QED
      BY <3>2 DEF n, t
<1>12. c.len < c.cap /\ c.cap # 0
  BY <1>1, <1>6, <1>7, <1>11 DEF BufferRecords
<1>13. QED
  BY <1>8, <1>11, <1>12 DEF Holds

-----------------------------------------------------------------------------
(* Filter expressions.                                                     *)

(* An expression with one operator, between a key and a value that are     *)
(* free of operator characters, is split there (log_filter_expr.c:36-66).  *)
LEMMA ParsesWhatWasAsked ==
  ASSUME opt.expr \in Seq(STRING), NEW f \in Asked
  PROVE  FilterParse(opt.expr) = {f}
<1> DEFINE e == opt.expr
           k == f.key
           v == f.value
           o == Spelled(f.op)
           a == Len(k)
           special == {"!", "=", ">", "~"}
<1>0. e \in Seq(Tokens)
  BY TextsAre
<1>1. PICK op \in Operators, i \in DOMAIN e, j \in DOMAIN e :
        f = [op |-> op, key |-> SubSeq(e, 1, i), value |-> SubSeq(e, j, Len(e))]
  <2>1. f \in [op : Operators, key : {SubSeq(e, 1, i) : i \in DOMAIN e},
               value : {SubSeq(e, j, Len(e)) : j \in DOMAIN e}]
    BY DEF Asked
  <2> HIDE DEF e
  <2>2. PICK i \in DOMAIN e : f.key = SubSeq(e, 1, i)
    BY <2>1
  <2>3. PICK h \in DOMAIN e : f.value = SubSeq(e, h, Len(e))
    BY <2>1
  <2>4. f.op \in Operators /\ f = [op |-> f.op, key |-> f.key, value |-> f.value]
    BY <2>1
  <2>5. QED
    BY <2>2, <2>3, <2>4
<1>2. /\ f.op = op /\ k \in Seq(Tokens) /\ v \in Seq(Tokens)
      /\ f = [op |-> op, key |-> k, value |-> v]
      /\ k # <<>> /\ v # <<>> /\ k \o o \o v = e
      /\ \A h \in DOMAIN k : k[h] \notin special
      /\ \A h \in DOMAIN v : v[h] \notin special
  <2>1. e \in Seq(Tokens) /\ i \in 1..Len(e) /\ j \in 1..Len(e)
    BY <1>0
  <2>2. Plain(k) /\ Plain(v) /\ k \o o \o v = e
    BY DEF Asked
  <2>3. SubSeq(e, 1, i) \in Seq(Tokens) /\ SubSeq(e, j, Len(e)) \in Seq(Tokens)
    BY <2>1
  <2>4. f.op = op /\ k = SubSeq(e, 1, i) /\ v = SubSeq(e, j, Len(e))
    BY <1>1
  <2> HIDE DEF e, k, v, o
  <2>5. QED
    BY <1>1, <2>2, <2>3, <2>4 DEF Plain
<1>3. o = (IF op = "!=" THEN <<"!", "=">> ELSE <<op>>) /\ o \in Seq(Tokens)
  <2>1. op \in Tokens /\ "!" \in Tokens /\ "=" \in Tokens
    BY DEF Operators, Tokens
  <2>2. \A T, x, y : x \in T /\ y \in T => <<x, y>> \in Seq(T) /\ <<x>> \in Seq(T)
    OBVIOUS
  <2>3. QED
    BY <1>2, <2>1, <2>2 DEF Spelled
<1>4. op \in {"!=", ">", "~", "="}
  BY DEF Operators
<1>5. a \in Nat /\ a > 0 /\ Len(v) \in Nat /\ Len(v) > 0 /\ Len(o) \in {1, 2}
      /\ Len(o) = IF op = "!=" THEN 2 ELSE 1
  BY <1>2, <1>3
<1> HIDE DEF e, k, v, o
<1>5a. Joins3(e, k, o, v)
  <2>1. Joins3(k \o o \o v, k, o, v)
    BY <1>2, <1>3, ThreeParts
  <2>2. QED
    BY <1>2, <2>1
<1>6. Len(e) = a + Len(o) + Len(v)
  BY <1>5a DEF Joins3
<1>7. \A h \in 1..a : e[h] = k[h]
  BY <1>5a DEF Joins3
<1>8. \A h \in 1..Len(o) : e[a + h] = o[h]
  BY <1>5a DEF Joins3
<1>9. \A h \in 1..Len(v) : e[a + Len(o) + h] = v[h]
  BY <1>5a DEF Joins3
<1>10. \A h \in 1..Len(e) : h <= a \/ h > a + Len(o) => e[h] \notin special
  <2>1. TAKE h \in 1..Len(e)
  <2>2. CASE h <= a
    <3>1. h \in 1..a /\ h \in DOMAIN k
      BY <1>2, <1>5, <2>2
    <3>2. QED
      BY <1>2, <1>7, <3>1
  <2>3. CASE h > a + Len(o)
    <3>1. h - (a + Len(o)) \in 1..Len(v) /\ h = a + Len(o) + (h - (a + Len(o)))
      BY <1>5, <1>6, <2>3
    <3>2. QED
      BY <1>2, <1>9, <3>1
  <2>4. QED
    BY <2>2, <2>3
<1>11. /\ e[a + 1] = IF op = "!=" THEN "!" ELSE op
       /\ op = "!=" => e[a + 2] = "="
  BY <1>3, <1>5, <1>8
<1>12. \A h \in 1..Len(e) : h <= a \/ h = a + 1 \/ (op = "!=" /\ h = a + 2) \/ h > a + Len(o)
  BY <1>5, <1>6
<1>13. Positions(e, "!=") = IF op = "!=" THEN {a + 1} ELSE {}
  <2>1. ASSUME NEW h \in 1..(Len(e) - 1), e[h] = "!" PROVE op = "!=" /\ h = a + 1
    <3>1. h \in 1..Len(e) /\ e[h] \in special
      BY <1>5, <1>6, <2>1
    <3>2. h = a + 1 \/ (op = "!=" /\ h = a + 2)
      BY <1>10, <1>12, <3>1, Zenon
    <3>3. h # a + 2 \/ op # "!="
      BY <1>11, <2>1
    <3>4. h = a + 1 => op = "!="
      BY <1>4, <1>11, <2>1
    <3>5. QED
      BY <3>2, <3>3, <3>4
  <2>2. a + 1 \in 1..(Len(e) - 1)
    BY <1>5, <1>6
  <2>3. (a + 1) + 1 = a + 2
    BY <1>5
  <2>4. QED
    BY <1>11, <2>1, <2>2, <2>3 DEF Positions
<1>14. ASSUME NEW c \in {">", "~", "="}
       PROVE  /\ op = c => Positions(e, c) = {a + 1}
              /\ op # c /\ op # "!=" => Positions(e, c) = {}
              /\ op = "!=" /\ c # "=" => Positions(e, c) = {}
  <2>1. Positions(e, c) = {h \in 1..Len(e) : e[h] = c}
    BY DEF Positions
  <2>2. a + 1 \in 1..Len(e)
    BY <1>5, <1>6
  <2>3. \A h \in Positions(e, c) : h = a + 1 \/ (op = "!=" /\ h = a + 2)
    BY <1>10, <1>12, <2>1
  <2>4. QED
    BY <1>4, <1>5, <1>11, <2>1, <2>2, <2>3
<1>15. Positions(e, op) = {a + 1}
  BY <1>4, <1>13, <1>14
<1>16. Split(e, op) = f
  <2> DEFINE pos == CHOOSE h \in Positions(e, op) : \A x \in Positions(e, op) : h <= x
  <2>1. pos = a + 1
    BY <1>5, <1>15
  <2>2. Split(e, op) = [op |-> op, key |-> SubSeq(e, 1, pos - 1),
                        value |-> SubSeq(e, pos + (IF op = "!=" THEN 2 ELSE 1), Len(e))]
    BY DEF Split
  <2> HIDE DEF pos
  <2>3. pos - 1 = a /\ pos + (IF op = "!=" THEN 2 ELSE 1) = a + Len(o) + 1
    BY <1>5, <2>1
  <2>4. e \in Seq(Tokens)
    BY <1>0
  <2>5. SubSeq(e, 1, a) = k
    <3>1. SubSeq(e, 1, a) \in Seq(Tokens) /\ Len(SubSeq(e, 1, a)) = a
      BY <1>5, <1>6, <2>4
    <3>2. \A h \in 1..a : SubSeq(e, 1, a)[h] = k[h]
      BY <1>5, <1>6, <1>7, <2>4
    <3>3. QED
      BY <1>2, <1>5, <3>1, <3>2
  <2>6. SubSeq(e, a + Len(o) + 1, Len(e)) = v
    <3> DEFINE t == SubSeq(e, a + Len(o) + 1, Len(e))
    <3>1. t \in Seq(Tokens) /\ Len(t) = Len(v)
      BY <1>5, <1>6, <2>4
    <3>2. \A h \in 1..Len(v) : t[h] = v[h]
      <4>1. TAKE h \in 1..Len(v)
      <4>2. t[h] = e[a + Len(o) + 1 + h - 1]
        BY <1>5, <1>6, <2>4
      <4>3. a + Len(o) + 1 + h - 1 = a + Len(o) + h
        BY <1>5
      <4>4. QED
        BY <1>9, <4>2, <4>3
    <3> HIDE DEF t
    <3>3. t = v
      BY <1>2, <3>1, <3>2, SameSequence
    <3>4. QED
      BY <3>3 DEF t
  <2>7. QED
    BY <1>2, <2>2, <2>3, <2>5, <2>6
<1> DEFINE present == {n \in 1..Len(Order) : Positions(e, Order[n]) # {}}
           first == CHOOSE n \in present : \A m \in present : n <= m
<1>17. Len(Order) = 4 /\ Order[1] = "!=" /\ Order[2] = ">" /\ Order[3] = "~" /\ Order[4] = "="
  BY DEF Order
<1>18. PICK n \in present : Order[n] = op /\ \A m \in present : n <= m
  <2>1. PICK n \in 1..4 : Order[n] = op
    BY <1>4, <1>17
  <2>2. n \in present
    BY <1>15, <1>17, <2>1
  <2>3. ASSUME NEW m \in 1..4, m < n PROVE m \notin present
    <3>1. m # 4 /\ m \in 1..3
      BY <2>3
    <3>2. Order[m] # op /\ Order[m] # "="
      BY <1>17, <2>1, <2>3, <3>1
    <3>3. op # "!="
      BY <1>17, <2>1, <2>3
    <3>4. Order[m] \in {"!=", ">", "~"}
      BY <1>17, <3>1
    <3>5. QED
      BY <1>13, <1>14, <3>2, <3>3, <3>4
  <2>4. \A m \in present : m \in 1..4 /\ ~(m < n)
    BY <1>17, <2>3
  <2> HIDE DEF present
  <2>5. \A m \in present : n <= m
    BY <2>1, <2>4
  <2>6. QED
    BY <2>1, <2>2, <2>5
<1>19. first = n
  <2>1. present \subseteq Nat
    OBVIOUS
  <2> HIDE DEF present
  <2>2. \A m \in present : (\A h \in present : m <= h) => m = n
    BY <1>18, <2>1
  <2>3. QED
    BY <1>18, <2>2
<1>20. FilterParse(e) = {g \in {Split(e, Order[first])} : g.key # <<>> /\ g.value # <<>>}
  BY <1>18 DEF FilterParse
<1>21. QED
  BY <1>2, <1>16, <1>18, <1>19, <1>20 DEF e, k, v

-----------------------------------------------------------------------------
(* What a line has to pass, and what the code makes of it.                 *)

IsFirst(i, key) ==
  /\ i \in DOMAIN opt.fields /\ opt.fields[i] = key
  /\ \A j \in 1..(i - 1) : opt.fields[j] # key

LEMMA FirstField ==
  ASSUME opt.fields \in Seq(Seq(STRING)), NEW key,
         {i \in DOMAIN opt.fields : opt.fields[i] = key} # {}
  PROVE  LET named == {i \in DOMAIN opt.fields : opt.fields[i] = key}
             i == CHOOSE h \in named : \A j \in named : h <= j
         IN /\ IsFirst(i, key)
            /\ \A h : IsFirst(h, key) => h = i
<1> DEFINE named == {i \in DOMAIN opt.fields : opt.fields[i] = key}
           i == CHOOSE h \in named : \A j \in named : h <= j
           n == Len(opt.fields)
<1>1. DOMAIN opt.fields = 1..n /\ n \in Nat
  OBVIOUS
<1>2. named \in SUBSET Nat /\ named # {} /\ \A h \in named : h \in 1..n
  BY <1>1
<1>3. i \in named /\ \A j \in named : i <= j
  <2> HIDE DEF named
  <2>1. \E h \in named : \A j \in named : h <= j
    BY <1>2, Minimum
  <2>2. QED
    BY <2>1
<1> HIDE DEF i
<1>4. IsFirst(i, key)
  <2>1. \A j \in 1..(i - 1) : j \in DOMAIN opt.fields /\ ~(i <= j)
    BY <1>1, <1>2, <1>3
  <2>2. QED
    BY <1>3, <2>1 DEF IsFirst
<1>5. ASSUME NEW h, IsFirst(h, key) PROVE h = i
  <2>1. h \in named /\ h \in Nat /\ i \in Nat
    BY <1>2, <1>3, <1>5 DEF IsFirst
  <2>2. i <= h
    BY <1>3, <2>1
  <2>3. ~(i \in 1..(h - 1))
    BY <1>3, <1>5 DEF IsFirst
  <2>4. i \in 1..n
    BY <1>2, <1>3
  <2>5. QED
    BY <2>1, <2>2, <2>3, <2>4
<1>6. QED
  BY <1>4, <1>5 DEF i

LEMMA FieldText ==
  ASSUME opt.regex, opt.fields \in Seq(Seq(STRING)), NEW key, NEW l
  PROVE  LET named == {i \in DOMAIN opt.fields : opt.fields[i] = key}
             i == CHOOSE h \in named : \A j \in named : h <= j
         IN /\ named = {} => Text(l, key) = {}
            /\ named # {} => Text(l, key) = {TextsOf(l)[i]}
<1> DEFINE named == {i \in DOMAIN opt.fields : opt.fields[i] = key}
           i == CHOOSE h \in named : \A j \in named : h <= j
           firsts == {j \in DOMAIN opt.fields :
                       opt.fields[j] = key /\ \A h \in 1..(j - 1) : opt.fields[h] # key}
<1>1. Text(l, key) = {TextsOf(l)[h] : h \in firsts}
  BY DEF Text
<1>2. named = {} => firsts = {}
  OBVIOUS
<1>3. named # {} => firsts = {i}
  <2>1. \A h : h \in firsts <=> IsFirst(h, key)
    BY DEF IsFirst
  <2>2. named # {} => IsFirst(i, key) /\ \A h : IsFirst(h, key) => h = i
    BY FirstField
  <2> HIDE DEF firsts, named, i
  <2>3. QED
    BY <2>1, <2>2
<1> HIDE DEF firsts
<1>4. QED
  BY <1>1, <1>2, <1>3

LEMMA PassesFields ==
  ASSUME opt.regex, opt.fields \in Seq(Seq(STRING)), NEW l, Readable(l)
  PROVE  Passes(l) <=> \A f \in Asked : MatchFields(opt.fields, TextsOf(l), f)
<1> DEFINE Sought(f) ==
             CASE f.op = "=" -> Text(l, f.key) = {f.value}
               [] f.op = "!=" -> Text(l, f.key) # {} /\ Text(l, f.key) # {f.value}
               [] f.op = "~" -> \E text \in Text(l, f.key) : HasPart(text, f.value)
               [] f.op = ">" -> Greater(Integer(l, f.key), ParseInt(f.value))
<1>1. Passes(l) <=> \A f \in Asked : Sought(f)
  BY DEF Passes
<1>2. ASSUME NEW f \in Asked PROVE Sought(f) <=> MatchFields(opt.fields, TextsOf(l), f)
  <2> DEFINE named == {i \in DOMAIN opt.fields : opt.fields[i] = f.key}
             i == CHOOSE h \in named : \A j \in named : h <= j
             text == TextsOf(l)[i]
  <2>1. f.op \in {"!=", ">", "~", "="}
    BY DEF Asked, Operators
  <2>2. named = {} => Text(l, f.key) = {}
    BY FieldText
  <2>3. named # {} => Text(l, f.key) = {text}
    BY FieldText
  <2>4. Integer(l, f.key) = UNION {ParseInt(t) : t \in Text(l, f.key)}
    BY DEF Integer
  <2>5. MatchFields(opt.fields, TextsOf(l), f)
          <=> /\ named # {}
              /\ IF f.op = ">" THEN Greater(ParseInt(text), ParseInt(f.value))
                 ELSE MatchText(text, f)
    BY DEF MatchFields
  <2> HIDE DEF named, text
  <2>6. CASE named = {}
    <3>1. Integer(l, f.key) = {}
      BY <2>2, <2>4, <2>6
    <3>2. ~Greater(Integer(l, f.key), ParseInt(f.value))
      BY <3>1 DEF Greater
    <3>3. ~Sought(f)
      BY <2>1, <2>2, <2>6, <3>2
    <3>4. QED
      BY <2>5, <2>6, <3>3
  <2>7. CASE named # {}
    <3>1. Integer(l, f.key) = ParseInt(text)
      BY <2>3, <2>4, <2>7
    <3>2. QED
      BY <2>1, <2>3, <2>5, <2>7, <3>1 DEF MatchText
  <2>8. QED
    BY <2>6, <2>7
<1> HIDE DEF Sought
<1>3. QED
  BY <1>1, <1>2

LEMMA ItemsAre ==
  ASSUME NEW l \in Objects, NEW key
  PROVE  Field(l, key).type = "number" => Field(l, key).halves \in Int
<1>1. CASE key \in DOMAIN l
  BY <1>1, LogParseAssumption DEF Field
<1>2. CASE key \notin DOMAIN l
  BY <1>2 DEF Field, Missing
<1>3. QED
  BY <1>1, <1>2

LEMMA ItemsHeld ==
  ASSUME ~opt.regex, NEW l \in Objects, Exact(l), NEW key
  PROVE  GetInt64(Field(l, key)) = Written(Field(l, key))
<1> DEFINE item == Field(l, key)
<1>1. item.type = "number" => item.halves \in Int
  BY ItemsAre
<1>2. \A k \in DOMAIN l : l[k].type = "number" => l[k].halves % 2 = 0 \/ Held(l[k].halves)
  BY LogParseAssumption DEF Exact, Readable
<1>3. item.type = "number" => item.halves % 2 = 0 \/ Held(item.halves)
  BY <1>2 DEF Field, Missing
<1> HIDE DEF item
<1>4. QED
  BY <1>1, <1>3, GetsWhatWasWritten DEF item

LEMMA PassesObject ==
  ASSUME ~opt.regex, NEW l \in Objects, Exact(l)
  PROVE  Readable(l) /\ (Passes(l) <=> \A f \in Asked : MatchObject(l, f))
<1> DEFINE Sought(f) ==
             CASE f.op = "=" -> Text(l, f.key) = {f.value}
               [] f.op = "!=" -> Text(l, f.key) # {} /\ Text(l, f.key) # {f.value}
               [] f.op = "~" -> \E text \in Text(l, f.key) : HasPart(text, f.value)
               [] f.op = ">" -> Greater(Integer(l, f.key), ParseInt(f.value))
<1>0. Readable(l)
  BY LogParseAssumption DEF Readable
<1>1. Passes(l) <=> \A f \in Asked : Sought(f)
  BY <1>0 DEF Passes
<1>2. ASSUME NEW f \in Asked PROVE Sought(f) <=> MatchObject(l, f)
  <2> DEFINE item == Field(l, f.key)
  <2>1. f.op \in {"!=", ">", "~", "="}
    BY DEF Asked, Operators
  <2>2. Text(l, f.key) = GetScalarText(item)
    BY DEF Text
  <2>3. \A x, y \in GetScalarText(item) : x = y
    BY DEF GetScalarText
  <2>4. Integer(l, f.key) = GetInt64(item)
    BY ItemsHeld DEF Integer
  <2>5. MatchObject(l, f)
          <=> IF f.op = ">" THEN Greater(GetInt64(item), ParseInt(f.value))
              ELSE \E text \in GetScalarText(item) : MatchText(text, f)
    BY DEF MatchObject, Field
  <2> HIDE DEF item
  <2> DEFINE texts == GetScalarText(item)
  <2> HIDE DEF texts
  <2>6. QED
    BY <2>1, <2>2, <2>3, <2>4, <2>5 DEF MatchText, texts
<1> HIDE DEF Sought
<1>3. QED
  BY <1>0, <1>1, <1>2

(* The filter is what an expression with one operator asks for. *)
Parsed == IF opt.expr = NoExpr THEN {} ELSE FilterParse(opt.expr)

LEMMA ParsedIsAsked ==
  ASSUME opt.expr \in Seq(STRING), Plainly
  PROVE  Parsed = Asked
<1>1. opt.expr = NoExpr => Asked = {}
  <2>1. SUFFICES ASSUME opt.expr = <<>>, NEW f \in Asked PROVE FALSE
    BY DEF NoExpr
  <2>2. DOMAIN opt.expr = {}
    BY <2>1
  <2>3. f.key \in {SubSeq(opt.expr, 1, i) : i \in DOMAIN opt.expr}
    BY DEF Asked
  <2>4. QED
    BY <2>2, <2>3
<1>2. CASE opt.expr = NoExpr
  BY <1>1, <1>2 DEF Parsed
<1>3. CASE opt.expr # NoExpr
  <2>1. Asked # {} /\ \A f \in Asked : FilterParse(opt.expr) = {f}
    BY <1>3, ParsesWhatWasAsked DEF Plainly
  <2>2. QED
    BY <1>3, <2>1 DEF Parsed
<1>4. QED
  BY <1>2, <1>3

-----------------------------------------------------------------------------
(* The pieces of an output line are texts.                                 *)

LEMMA Words ==
  /\ {"{", "}", ":", "comma", "quote", "backslash", "newline"} \subseteq Tokens
  /\ \A x \in Tokens : <<x>> \in Seq(Tokens)
  /\ \A x \in Tokens : <<<<x>>>> \in Seq(Seq(Tokens))
<1>1. \A x \in Tokens : <<x>> \in Seq(Tokens)
  BY Short
<1>2. \A x \in Seq(Tokens) : <<x>> \in Seq(Seq(Tokens))
  BY Short
<1>3. {"{", "}", ":", "comma", "quote", "backslash", "newline"} \subseteq Tokens
  BY DEF Tokens
<1>4. QED
  BY <1>1, <1>2, <1>3

LEMMA EscapedType ==
  ASSUME NEW text \in Seq(Tokens), NEW special, NEW escape \in Tokens
  PROVE  Escaped(text, special, escape) \in Seq(Tokens)
<1> DEFINE s == [i \in DOMAIN text |-> IF text[i] \in special THEN <<escape, text[i]>> ELSE <<text[i]>>]
<1>1. \A x, y \in Tokens : <<x, y>> \in Seq(Tokens) /\ <<x>> \in Seq(Tokens)
  OBVIOUS
<1>2. \A i \in 1..Len(text) : text[i] \in Tokens
  OBVIOUS
<1>3. DOMAIN text = 1..Len(text) /\ Len(text) \in Nat
  OBVIOUS
<1>4. s \in Seq(Seq(Tokens))
  <2>1. \A i \in 1..Len(text) : s[i] \in Seq(Tokens)
    BY <1>1, <1>2, <1>3
  <2>2. s = [i \in 1..Len(text) |-> s[i]]
    BY <1>3
  <2> HIDE DEF s
  <2>3. QED
    BY <1>3, <2>1, <2>2
<1>5. Escaped(text, special, escape) = FlattenSeq(s)
  BY DEF Escaped
<1> HIDE DEF s
<1>6. QED
  BY <1>4, <1>5, FlattenType

LEMMA JsonStringType ==
  ASSUME NEW text \in Seq(Tokens)
  PROVE  JsonString(text) \in Seq(Tokens)
<1>1. Escaped(text, {"quote", "backslash"}, "backslash") \in Seq(Tokens)
  BY EscapedType DEF Tokens
<1>2. <<"quote">> \in Seq(Tokens)
  BY Words
<1>3. QED
  BY <1>1, <1>2, ThreeParts DEF JsonString

LEMMA CsvFieldType ==
  ASSUME NEW text \in Seq(Tokens)
  PROVE  CsvField(text) \in Seq(Seq(Tokens))
<1>1. CASE ~NeedsQuotes(text)
  BY <1>1 DEF CsvField
<1>2. CASE NeedsQuotes(text)
  <2> DEFINE inner == Escaped(text, {"quote"}, "quote")
             each == [i \in DOMAIN inner |-> <<inner[i]>>]
  <2>1. inner \in Seq(Tokens)
    BY EscapedType DEF Tokens
  <2>2. <<<<"quote">>>> \in Seq(Seq(Tokens))
    BY Words
  <2>3. CsvField(text) = <<<<"quote">>>> \o each \o <<<<"quote">>>>
    BY <1>2 DEF CsvField
  <2> HIDE DEF inner
  <2>4. each \in Seq(Seq(Tokens))
    <3>1. DOMAIN inner = 1..Len(inner) /\ Len(inner) \in Nat
      BY <2>1
    <3>2. \A i \in 1..Len(inner) : inner[i] \in Tokens
      BY <2>1
    <3>3. each = [i \in 1..Len(inner) |-> each[i]]
      BY <3>1
    <3>4. \A i \in 1..Len(inner) : each[i] \in Seq(Tokens)
      BY <3>1, <3>2, Words
    <3> HIDE DEF each
    <3>5. QED
      BY <3>1, <3>3, <3>4, Listed
  <2> HIDE DEF each
  <2>5. QED
    BY <2>2, <2>3, <2>4, ThreeParts
<1>3. QED
  BY <1>1, <1>2

(* A text for each field. *)
Fielded(texts) ==
  /\ opt.fields \in Seq(Seq(STRING))
  /\ texts = [i \in DOMAIN opt.fields |-> texts[i]]
  /\ \A i \in DOMAIN opt.fields : texts[i] \in Seq(Tokens)

JsonParts(texts) ==
  [i \in DOMAIN texts |->
     (IF i > 1 THEN <<<<"comma">>>> ELSE <<>>)
       \o <<JsonString(opt.fields[i]), <<":">>, JsonString(texts[i])>>]
CsvParts(texts) ==
  [i \in DOMAIN texts |-> (IF i > 1 THEN <<<<"comma">>>> ELSE <<>>) \o CsvField(texts[i])]

LEMMA PartsType ==
  ASSUME NEW texts, Fielded(texts)
  PROVE  /\ JsonParts(texts) \in Seq(Seq(Seq(Tokens)))
         /\ CsvParts(texts) \in Seq(Seq(Seq(Tokens)))
<1> DEFINE n == Len(opt.fields)
           sep(i) == IF i > 1 THEN <<<<"comma">>>> ELSE <<>>
<1>1. DOMAIN texts = 1..n /\ n \in Nat /\ DOMAIN opt.fields = 1..n
  BY DEF Fielded
<1>2. \A i \in 1..n : texts[i] \in Seq(Tokens) /\ opt.fields[i] \in Seq(Tokens)
  <2>1. \A i \in 1..n : opt.fields[i] \in Seq(STRING)
    BY DEF Fielded
  <2>2. QED
    BY <1>1, <2>1, TextsAre DEF Fielded
<1>3. \A i \in 1..n : sep(i) \in Seq(Seq(Tokens))
  <2>1. <<<<"comma">>>> \in Seq(Seq(Tokens)) /\ <<>> \in Seq(Seq(Tokens))
    BY DEF Tokens
  <2>2. QED
    BY <2>1
<1> HIDE DEF sep
<1>4. \A i \in 1..n : CsvParts(texts)[i] = sep(i) \o CsvField(texts[i])
  BY <1>1 DEF CsvParts, sep
<1>5. \A i \in 1..n : CsvParts(texts)[i] \in Seq(Seq(Tokens))
  BY <1>2, <1>3, <1>4, CsvFieldType, TwoParts
<1>6. \A i \in 1..n : JsonParts(texts)[i]
                        = sep(i) \o <<JsonString(opt.fields[i]), <<":">>, JsonString(texts[i])>>
  BY <1>1 DEF JsonParts, sep
<1>7. \A i \in 1..n : JsonParts(texts)[i] \in Seq(Seq(Tokens))
  <2>1. TAKE i \in 1..n
  <2>2. JsonString(opt.fields[i]) \in Seq(Tokens) /\ JsonString(texts[i]) \in Seq(Tokens)
    BY <1>2, JsonStringType
  <2>3. <<":">> \in Seq(Tokens)
    BY DEF Tokens
  <2>4. <<JsonString(opt.fields[i]), <<":">>, JsonString(texts[i])>> \in Seq(Seq(Tokens))
    BY <2>2, <2>3
  <2>5. QED
    BY <1>3, <1>6, <2>4, TwoParts
<1>8. /\ JsonParts(texts) = [i \in 1..n |-> JsonParts(texts)[i]]
      /\ CsvParts(texts) = [i \in 1..n |-> CsvParts(texts)[i]]
  BY <1>1 DEF JsonParts, CsvParts
<1> HIDE DEF n
<1>9. QED
  BY <1>1, <1>5, <1>7, <1>8, Listed

LEMMA PiecesAre ==
  ASSUME NEW texts
  PROVE  Pieces(texts) = IF opt.format = "csv" THEN FlattenSeq(CsvParts(texts)) \o <<<<"newline">>>>
                         ELSE <<<<"{">>>> \o FlattenSeq(JsonParts(texts)) \o <<<<"}", "newline">>>>
BY DEF Pieces, CsvPieces, JsonPieces, CsvParts, JsonParts

LEMMA PiecesType ==
  ASSUME NEW texts, Fielded(texts)
  PROVE  Pieces(texts) \in Seq(Seq(Tokens))
<1>1. /\ FlattenSeq(JsonParts(texts)) \in Seq(Seq(Tokens))
      /\ FlattenSeq(CsvParts(texts)) \in Seq(Seq(Tokens))
  BY PartsType, FlattenType
<1>2. /\ <<<<"newline">>>> \in Seq(Seq(Tokens)) /\ <<<<"{">>>> \in Seq(Seq(Tokens))
      /\ <<<<"}", "newline">>>> \in Seq(Seq(Tokens))
  BY DEF Tokens
<1>3. QED
  BY <1>1, <1>2, PiecesAre, TwoParts, ThreeParts

-----------------------------------------------------------------------------
(* The options stay, and with them all that is said of a line.             *)

LEMMA OptStays ==
  ASSUME opt' = opt
  PROVE  /\ InputLines' = InputLines /\ HasAgg' = HasAgg /\ Prints' = Prints
         /\ Accepted' = Accepted /\ Plainly' = Plainly /\ Asked' = Asked
         /\ Parsed' = Parsed /\ Selects' = Selects /\ Adds' = Adds
         /\ \A l : Readable(l)' = Readable(l) /\ Passes(l)' = Passes(l)
         /\ \A l : NumberOf(l)' = NumberOf(l) /\ Rendered(l)' = Rendered(l)
         /\ \A texts : Pieces(texts)' = Pieces(texts)
         /\ \A l : Exact(l)' = Exact(l)
<1>1. InputLines' = InputLines /\ HasAgg' = HasAgg /\ Prints' = Prints
  BY DEF InputLines, HasAgg, Prints
<1>2. Accepted' = Accepted /\ Parsed' = Parsed
  BY <1>1 DEF Accepted, Parsed
<1>3. Asked' = Asked
  BY DEF Asked
<1>4. Plainly' = Plainly
  BY <1>3 DEF Plainly
<1>5. \A l, key : Text(l, key)' = Text(l, key)
  <2>1. TAKE l, key
  <2> DEFINE first(o) == {j \in DOMAIN o.fields :
                            o.fields[j] = key /\ \A h \in 1..(j - 1) : o.fields[h] # key}
             text(o) == IF o.regex THEN {TextsOf(l)[i] : i \in first(o)}
                        ELSE GetScalarText(Field(l, key))
  <2>2. Text(l, key) = text(opt) /\ Text(l, key)' = text(opt')
    BY DEF Text
  <2> HIDE DEF text
  <2>3. QED
    BY <2>2
<1>6. \A l, key : Integer(l, key)' = Integer(l, key)
  BY <1>5 DEF Integer
<1>7. \A l : Readable(l)' = Readable(l)
  BY DEF Readable
<1>8. \A l : Passes(l)' = Passes(l)
  BY <1>3, <1>5, <1>6, <1>7 DEF Passes
<1>9. \A l : Addends(l)' = Addends(l)
  BY <1>5, <1>6 DEF Addends
<1>10. \A l : NumberOf(l)' = NumberOf(l)
  <2>1. TAKE l
  <2>2. Addends(l)' = Addends(l)
    BY <1>9
  <2>3. QED
    BY <2>2 DEF NumberOf
<1>11. Selects' = Selects /\ Adds' = Adds
  BY <1>1, <1>8, <1>9 DEF Selects, Adds
<1>12. \A texts : Pieces(texts)' = Pieces(texts)
  BY DEF Pieces, CsvPieces, JsonPieces
<1>13. \A l : Rendered(l)' = Rendered(l)
  BY <1>12 DEF Rendered
<1>14. \A l : Exact(l)' = Exact(l)
  BY <1>1, <1>5, <1>7 DEF Exact
<1>15. QED
  BY <1>1, <1>2, <1>3, <1>4, <1>7, <1>8, <1>10, <1>11, <1>12, <1>13, <1>14

-----------------------------------------------------------------------------
(* The lines handled, and what is due for them.                            *)

Busy == {"object", "capture", "fields", "emit"}

LEMMA RoundType ==
  ASSUME NEW x \in Int
  PROVE  Round(x) \in Int
<1>1. ASSUME NEW y \in Nat PROVE RoundAbs(y) \in Int
  <2>1. Ulp(y) \in Nat /\ Ulp(y) > 0
    BY <1>1, UlpIs
  <2> DEFINE u == Ulp(y)
             q == y \div u
  <2>2. q \in Int
    <3> HIDE DEF u
    <3>1. QED
      BY <2>1 DEF u
  <2>3. q * u \in Int /\ (q + 1) * u \in Int
    <3> HIDE DEF q
    <3>1. QED
      BY <2>1, <2>2
  <2>4. RoundAbs(y) \in {q * u, (q + 1) * u}
    BY DEF RoundAbs
  <2> HIDE DEF q, u
  <2>5. QED
    BY <2>3, <2>4
<1>2. CASE x >= 0
  BY <1>1, <1>2 DEF Round
<1>3. CASE ~(x >= 0)
  <2>1. -x \in Nat
    BY <1>3
  <2>2. QED
    BY <1>1, <1>3, <2>1 DEF Round
<1>4. QED
  BY <1>2, <1>3

LEMMA NumberInType ==
  ASSUME NEW text
  PROVE  NumberIn(text) \in Int
<1> DEFINE numbers == {h \in -(2 * MaxInt)..(2 * MaxInt) : text # <<>> /\ Head(text) = Decimal(h)}
<1>1. numbers \subseteq Int
  OBVIOUS
<1>2. NumberIn(text) = IF numbers = {} THEN 0 ELSE CHOOSE h \in numbers : TRUE
  BY DEF NumberIn
<1> HIDE DEF numbers
<1>3. CASE numbers = {}
  BY <1>2, <1>3
<1>4. CASE numbers # {}
  <2>1. PICK n \in numbers : n = CHOOSE m \in numbers : TRUE
    BY <1>4
  <2>2. NumberIn(text) = n
    BY <1>2, <1>4, <2>1
  <2>3. QED
    BY <1>1, <2>2
<1>5. QED
  BY <1>3, <1>4

LEMMA NumberType ==
  ASSUME opt \in OptionSets, NEW l \in Adds
  PROVE  NumberOf(l) \in Addends(l) /\ NumberOf(l) \in Int
<1>1. NumberOf(l) \in Addends(l)
  BY DEF NumberOf, Adds
<1>2. CASE opt.regex
  BY <1>1, <1>2, NumberInType DEF Addends
<1>3. CASE ~opt.regex
  <2>1. l \in Objects
    BY <1>3 DEF Adds, Selects, Passes, Readable, InputLines
  <2> DEFINE item == Field(l, opt.aggField)
  <2>2. Addends(l) = {2 * n : n \in Written(item)}
    BY <1>3 DEF Addends, Integer
  <2>3. item.type = "number" => item.halves \in Int
    BY <2>1, ItemsAre
  <2> HIDE DEF item
  <2>4. Written(item) \subseteq Int
    BY <2>3 DEF Written
  <2>5. QED
    BY <1>1, <2>2, <2>4
<1>4. QED
  BY <1>2, <1>3

NumbersIn(with) == [i \in DOMAIN with |-> NumberOf(with[i])]

LEMMA DueIs ==
  /\ Due = Chosen(Handled, Selects)
  /\ Numbers = NumbersIn(Chosen(Handled, Adds))
BY DEF Due, Numbers, NumbersIn

LEMMA NumbersType ==
  ASSUME opt \in OptionSets, NEW with \in Seq(Adds)
  PROVE  NumbersIn(with) \in Seq(Int) /\ Len(NumbersIn(with)) = Len(with)
<1>1. DOMAIN with = 1..Len(with) /\ Len(with) \in Nat /\ \A i \in 1..Len(with) : with[i] \in Adds
  OBVIOUS
<1>2. \A i \in 1..Len(with) : NumberOf(with[i]) \in Int
  BY <1>1, NumberType
<1>3. NumbersIn(with) = [i \in 1..Len(with) |-> NumberOf(with[i])]
  BY <1>1 DEF NumbersIn
<1>4. QED
  BY <1>1, <1>2, <1>3

LEMMA NumbersAppend ==
  ASSUME opt \in OptionSets, NEW with \in Seq(Adds), NEW l \in Adds
  PROVE  NumbersIn(Append(with, l)) = Append(NumbersIn(with), NumberOf(l))
<1> DEFINE more == Append(with, l)
           n == Len(with)
<1>1. more \in Seq(Adds) /\ Len(more) = n + 1 /\ n \in Nat
  OBVIOUS
<1>2. (\A i \in 1..n : more[i] = with[i]) /\ more[n + 1] = l
  OBVIOUS
<1>3. DOMAIN more = 1..(n + 1) /\ DOMAIN with = 1..n
  OBVIOUS
<1> HIDE DEF more, n
<1>4. /\ NumbersIn(more) = [i \in 1..(n + 1) |-> NumberOf(more[i])]
      /\ NumbersIn(with) = [i \in 1..n |-> NumberOf(with[i])]
  BY <1>3 DEF NumbersIn
<1>5. NumbersIn(more) \in Seq(Int) /\ NumbersIn(with) \in Seq(Int) /\ NumberOf(l) \in Int
  BY <1>1, NumbersType, NumberType
<1>6. Len(NumbersIn(more)) = n + 1 /\ Len(NumbersIn(with)) = n
  BY <1>1, NumbersType DEF n
<1> DEFINE s == NumbersIn(with)
           t == Append(s, NumberOf(l))
<1>7. t \in Seq(Int) /\ Len(t) = n + 1
  BY <1>5, <1>6
<1>8. (\A i \in 1..n : t[i] = s[i]) /\ t[n + 1] = NumberOf(l)
  <2> HIDE DEF s
  <2>1. QED
    BY <1>5, <1>6 DEF s
<1> HIDE DEF s, t
<1>9. \A i \in 1..(n + 1) : t[i] = NumbersIn(more)[i]
  <2>1. TAKE i \in 1..(n + 1)
  <2>2. CASE i = n + 1
    BY <1>1, <1>2, <1>4, <1>8, <2>2
  <2>3. CASE i # n + 1
    <3>1. i \in 1..n
      BY <1>1, <2>3
    <3>2. QED
      BY <1>1, <1>2, <1>4, <1>8, <3>1 DEF s
  <2>4. QED
    BY <2>2, <2>3
<1>10. t = NumbersIn(more)
  BY <1>5, <1>6, <1>7, <1>9, SameSequence
<1>11. QED
  BY <1>10 DEF t, s, more

LEMMA ChosenOnly ==
  ASSUME NEW T, NEW lines \in Seq(T), NEW set
  PROVE  Chosen(lines, set) \in Seq(T \cap set)
<1>1. PICK f \in [0..Len(lines) -> Seq(T)] :
        Keeps(f, lines, set, Len(lines)) /\ Chosen(lines, set) = f[Len(lines)]
  BY ChosenIs
<1> DEFINE U == T \cap set
           P == {i \in Nat : i \in 0..Len(lines) => f[i] \in Seq(U)}
<1>2. 0 \in P /\ P \in SUBSET Nat
  <2>1. f[0] = <<>>
    BY <1>1 DEF Keeps
  <2>2. QED
    BY <2>1
<1>3. ASSUME NEW i \in P PROVE i + 1 \in P
  <2>1. SUFFICES ASSUME i + 1 \in 0..Len(lines) PROVE f[i + 1] \in Seq(U)
    OBVIOUS
  <2>2. i + 1 # 0 /\ (i + 1) - 1 = i /\ f[i] \in Seq(U) /\ lines[i + 1] \in T
    BY <2>1
  <2>3. f[i + 1] = IF lines[i + 1] \in set THEN Append(f[i], lines[i + 1]) ELSE f[i]
    BY <1>1, <2>1, <2>2 DEF Keeps
  <2>4. lines[i + 1] \in set => lines[i + 1] \in U
    BY <2>2
  <2> HIDE DEF U
  <2>5. QED
    BY <2>2, <2>3, <2>4
<1>4. P = Nat
  <2> HIDE DEF P
  <2>1. QED
    BY <1>2, <1>3, Inductive
<1>5. Len(lines) \in 0..Len(lines) /\ Len(lines) \in Nat
  OBVIOUS
<1>6. QED
  BY <1>1, <1>4, <1>5

(* What a line handled adds to what is due. *)
LEMMA MoreDue ==
  ASSUME opt \in OptionSets, opt' = opt, Handled \in Seq(InputLines),
         NEW l \in InputLines, Handled' = Append(Handled, l)
  PROVE  /\ Due \in Seq(Selects) /\ Numbers \in Seq(Int)
         /\ Due' = IF l \in Selects THEN Append(Due, l) ELSE Due
         /\ Numbers' = IF l \in Adds THEN Append(Numbers, NumberOf(l)) ELSE Numbers
<1>1. /\ Due = Chosen(Handled, Selects) /\ Numbers = NumbersIn(Chosen(Handled, Adds))
      /\ Due' = Chosen(Handled', Selects) /\ Numbers' = NumbersIn(Chosen(Handled', Adds))
  <2>1. Selects' = Selects /\ Adds' = Adds /\ \A x : NumberOf(x)' = NumberOf(x)
    BY OptStays
  <2>2. Due' = Chosen(Handled', Selects)
    BY <2>1 DEF Due
  <2>3. Numbers' = NumbersIn(Chosen(Handled', Adds))
    BY <2>1 DEF Numbers, NumbersIn
  <2>4. QED
    BY <2>2, <2>3, DueIs
<1>2. Selects \subseteq InputLines /\ Adds \subseteq InputLines
  BY DEF Selects, Adds
<1>3. Chosen(Handled, Adds) \in Seq(Adds) /\ Due \in Seq(Selects)
  <2>1. InputLines \cap Adds = Adds /\ InputLines \cap Selects = Selects
    BY <1>2
  <2>2. QED
    BY <1>1, <2>1, ChosenOnly
<1>4. Numbers \in Seq(Int)
  BY <1>1, <1>3, NumbersType
<1>5. Due' = IF l \in Selects THEN Append(Due, l) ELSE Due
  BY <1>1, ChosenAppend
<1>6. Numbers' = IF l \in Adds THEN Append(Numbers, NumberOf(l)) ELSE Numbers
  <2>1. Chosen(Handled', Adds)
          = IF l \in Adds THEN Append(Chosen(Handled, Adds), l) ELSE Chosen(Handled, Adds)
    BY ChosenAppend
  <2>2. QED
    BY <1>1, <1>3, <2>1, NumbersAppend
<1>7. QED
  BY <1>3, <1>4, <1>5, <1>6

LEMMA SameDue ==
  ASSUME opt' = opt, Handled' = Handled
  PROVE  Due' = Due /\ Numbers' = Numbers
<1>1. Selects' = Selects /\ Adds' = Adds /\ \A x : NumberOf(x)' = NumberOf(x)
  BY OptStays
<1>2. Due' = Chosen(Handled, Selects)
  BY <1>1 DEF Due
<1>3. Numbers' = NumbersIn(Chosen(Handled, Adds))
  BY <1>1 DEF Numbers, NumbersIn
<1>4. QED
  BY <1>2, <1>3, DueIs

-----------------------------------------------------------------------------
(* The inductive invariant: how far the program is.                        *)

Phases == {"options", "read", "object", "capture", "fields", "emit", "end", "done"}

(* The options are settled before a line is read, an error ends the run,   *)
(* and the summary comes last.                                             *)
Settled ==
  /\ opt \in OptionSets /\ pc \in Phases /\ rc \in {0, 1, 2}
  /\ pc = "options" => filter = {} /\ rc = 0 /\ seen = <<>>
  /\ pc # "options" /\ rc # 1 => Accepted /\ filter = Parsed
  /\ rc = 1 => pc = "done" /\ filter = {}
  /\ rc # 0 => pc \in {"end", "done"}
  /\ summary = IF pc = "done" THEN Summary ELSE {}

(* The line being worked on is the last one read. *)
Reading ==
  /\ seen \in Seq(InputLines) /\ Len(seen) <= MaxLines
  /\ pc \in Busy => Len(seen) > 0 /\ line = seen[Len(seen)]
  /\ pc = "object" => ~opt.regex
  /\ pc \in {"capture", "fields", "emit"} => opt.regex

(* log_t holds the values of the line and no others. *)
Copied ==
  IF pc \in {"fields", "emit"} THEN values = line /\ Readable(line) ELSE values = Freed

Phased == Settled /\ Reading /\ Copied

LEMMA PhasedInit == Init => Phased
<1> SUFFICES ASSUME Init PROVE Phased
  OBVIOUS
<1>1. Settled
  BY DEF Init, Settled, Phases
<1>2. Reading
  <2>1. Len(seen) = 0 /\ seen \in Seq(InputLines)
    BY DEF Init
  <2>2. QED
    BY <2>1, LogParseAssumption DEF Init, Reading, Busy
<1>3. Copied
  BY DEF Init, Copied
<1>4. QED
  BY <1>1, <1>2, <1>3 DEF Phased

LEMMA PhasedStep == Phased /\ [Next]_vars => Phased'
<1> SUFFICES ASSUME Phased, [Next]_vars PROVE Phased'
  OBVIOUS
<1> USE DEF Phased
<1>0. opt' = opt
  BY DEF Next, Options, ReadLine, HandleObject, Capture, CaptureFails, HandleFields,
    AppendPiece, AppendFails, PrintLine, InputEnds, End, vars
<1>1. /\ InputLines' = InputLines /\ Accepted' = Accepted /\ Parsed' = Parsed
      /\ HasAgg' = HasAgg /\ Freed' = Freed /\ \A l : Readable(l)' = Readable(l)
  <2>1. Freed' = Freed
    BY <1>0 DEF Freed
  <2>2. QED
    BY <1>0, <2>1, OptStays
<1>2. CASE UNCHANGED vars
  <2>1. Summary' = Summary
    BY <1>1, <1>2 DEF vars, results, Summary
  <2>2. Settled'
    BY <1>1, <1>2, <2>1 DEF vars, Settled
  <2>3. Reading' /\ Copied'
    BY <1>1, <1>2 DEF vars, work, Reading, Copied
  <2>4. QED
    BY <2>2, <2>3
<1>3. CASE Options
  <2>1. Settled'
    BY <1>1, <1>3 DEF Options, Settled, Phases, Parsed, Summary
  <2>2. Reading' /\ Copied'
    BY <1>1, <1>3 DEF Options, work, Reading, Copied, Busy
  <2>3. QED
    BY <2>1, <2>2
<1>4. CASE ReadLine
  <2>1. Settled'
    BY <1>0, <1>1, <1>4 DEF ReadLine, Settled, Phases
  <2>2. Reading'
    <3>1. seen \in Seq(InputLines) /\ line' \in InputLines /\ seen' = Append(seen, line')
      BY <1>4 DEF ReadLine, Reading
    <3>2. /\ seen' \in Seq(InputLines) /\ Len(seen') = Len(seen) + 1
          /\ seen'[Len(seen')] = line' /\ Len(seen) \in Nat
      BY <3>1
    <3>3. QED
      BY <1>0, <1>1, <1>4, <3>2, LogParseAssumption DEF ReadLine, Reading, Busy
  <2>3. Copied'
    BY <1>1, <1>4 DEF ReadLine, Copied
  <2>4. QED
    BY <2>1, <2>2, <2>3
<1>5. CASE HandleObject
  <2>1. Settled'
    BY <1>0, <1>1, <1>5 DEF HandleObject, Settled, Phases
  <2>2. Reading' /\ Copied'
    BY <1>0, <1>1, <1>5 DEF HandleObject, work, Reading, Copied, Busy
  <2>3. QED
    BY <2>1, <2>2
<1>6. CASE Capture
  <2>1. Settled'
    BY <1>0, <1>1, <1>6 DEF Capture, results, Settled, Phases
  <2>2. Reading'
    BY <1>0, <1>1, <1>6 DEF Capture, Reading, Busy
  <2>3. Copied'
    BY <1>1, <1>6 DEF Capture, Skipped, Reading, Copied, Readable
  <2>4. QED
    BY <2>1, <2>2, <2>3
<1>7. CASE CaptureFails
  <2>1. Settled'
    BY <1>0, <1>1, <1>7 DEF CaptureFails, results, Settled, Phases
  <2>2. Reading' /\ Copied'
    BY <1>0, <1>1, <1>7 DEF CaptureFails, Reading, Copied, Busy
  <2>3. QED
    BY <2>1, <2>2
<1>8. CASE HandleFields
  <2>1. Settled'
    BY <1>0, <1>1, <1>8 DEF HandleFields, Settled, Phases
  <2>2. Reading' /\ Copied'
    BY <1>0, <1>1, <1>8 DEF HandleFields, Reading, Copied, Busy
  <2>3. QED
    BY <2>1, <2>2
<1>9. CASE AppendPiece
  <2>1. Settled'
    BY <1>0, <1>1, <1>9 DEF AppendPiece, results, Settled, Phases
  <2>2. Reading' /\ Copied'
    BY <1>0, <1>1, <1>9 DEF AppendPiece, Reading, Copied, Busy
  <2>3. QED
    BY <2>1, <2>2
<1>10. CASE AppendFails
  <2>1. Settled'
    BY <1>0, <1>1, <1>10 DEF AppendFails, results, Settled, Phases
  <2>2. Reading' /\ Copied'
    BY <1>0, <1>1, <1>10 DEF AppendFails, Reading, Copied, Busy
  <2>3. QED
    BY <2>1, <2>2
<1>11. CASE PrintLine
  <2>1. Settled'
    BY <1>0, <1>1, <1>11 DEF PrintLine, Settled, Phases
  <2>2. Reading' /\ Copied'
    BY <1>0, <1>1, <1>11 DEF PrintLine, Reading, Copied, Busy
  <2>3. QED
    BY <2>1, <2>2
<1>12. CASE InputEnds
  <2>1. Settled'
    BY <1>0, <1>1, <1>12 DEF InputEnds, results, Settled, Phases
  <2>2. Reading' /\ Copied'
    BY <1>0, <1>1, <1>12 DEF InputEnds, work, Reading, Copied, Busy
  <2>3. QED
    BY <2>1, <2>2
<1>13. CASE End
  <2>1. Summary' = Summary
    BY <1>0, <1>1, <1>13 DEF End, results, Summary
  <2>2. Settled'
    BY <1>0, <1>1, <1>13, <2>1 DEF End, results, Settled, Phases
  <2>3. Reading' /\ Copied'
    BY <1>0, <1>1, <1>13 DEF End, work, Reading, Copied, Busy
  <2>4. QED
    BY <2>2, <2>3
<1>14. QED
  BY <1>2, <1>3, <1>4, <1>5, <1>6, <1>7, <1>8, <1>9, <1>10, <1>11, <1>12, <1>13 DEF Next

-----------------------------------------------------------------------------
(* The output line.                                                        *)

LEMMA Captured ==
  ASSUME opt \in OptionSets, opt.regex, opt.fields # <<>>, NEW l \in Captures, Readable(l)
  PROVE  /\ l = [i \in DOMAIN opt.fields |-> l[i]] /\ Fielded(TextsOf(l))
         /\ \A i \in DOMAIN opt.fields : l[i] = {TextsOf(l)[i]}
<1>1. /\ opt.fields \in Seq(Seq(STRING))
      /\ l = [i \in DOMAIN opt.fields |-> l[i]]
      /\ \A i \in DOMAIN opt.fields :
           l[i] \subseteq Seq(STRING) /\ \A s, t \in l[i] : s = t
  <2>1. l \in Captures \ {NoMatch}
    BY DEF Readable
  <2>2. QED
    BY <2>1, LogParseAssumption
<1>2. DOMAIN l = DOMAIN opt.fields
  BY <1>1
<1>3. ASSUME NEW i \in DOMAIN opt.fields
      PROVE  TextsOf(l)[i] \in Seq(Tokens) /\ l[i] = {TextsOf(l)[i]}
  <2>1. l[i] # {} /\ l[i] \subseteq Seq(STRING)
    BY <1>1 DEF Readable
  <2>2. PICK text \in l[i] : text = CHOOSE t \in l[i] : TRUE
    BY <2>1
  <2>3. TextsOf(l)[i] = text
    BY <1>2, <2>2 DEF TextsOf
  <2>4. l[i] = {text}
    BY <1>1, <2>2
  <2>5. QED
    BY <2>1, <2>3, <2>4, TextsAre
<1>4. TextsOf(l) = [i \in DOMAIN opt.fields |-> TextsOf(l)[i]]
  BY <1>2 DEF TextsOf
<1>5. QED
  BY <1>1, <1>3, <1>4 DEF Fielded

LEMMA Working ==
  ASSUME Phased, pc \in {"fields", "emit"}
  PROVE  /\ opt.regex /\ opt.fields \in Seq(Seq(STRING))
         /\ line \in InputLines /\ Readable(line)
         /\ FieldTexts = TextsOf(line) /\ Fielded(FieldTexts)
<1> USE DEF Phased
<1>1. opt \in OptionSets /\ opt.regex /\ Accepted /\ opt.fields \in Seq(Seq(STRING))
  BY LogParseAssumption DEF Settled, Reading
<1>2. values = line /\ Readable(line)
  BY DEF Copied
<1>3. line \in InputLines
  <2>1. Len(seen) > 0 /\ Len(seen) \in Nat /\ line = seen[Len(seen)] /\ seen \in Seq(InputLines)
    BY DEF Reading, Busy
  <2>2. QED
    BY <2>1
<1>4. line \in Captures /\ opt.fields # <<>>
  BY <1>1, <1>2, <1>3 DEF Accepted, InputLines, Readable
<1>5. Fielded(TextsOf(line))
  BY <1>1, <1>2, <1>4, Captured
<1>6. FieldTexts = TextsOf(line)
  BY <1>2 DEF FieldTexts, TextsOf
<1>7. QED
  BY <1>1, <1>2, <1>3, <1>5, <1>6

(* The pieces appended are the first ones, and only of a line to print. *)
Emitting ==
  /\ Holds(buf)
  /\ IF pc = "emit"
     THEN /\ Prints /\ \A f \in filter : MatchFields(opt.fields, FieldTexts, f)
          /\ at \in 1..(Len(Pieces(FieldTexts)) + 1)
          /\ buf.text = FlattenSeq(SubSeq(Pieces(FieldTexts), 1, at - 1))
     ELSE buf = EmptyBuffer

LEMMA EmittingInit == Init => Emitting
BY EmptyHolds DEF Init, Emitting

LEMMA EmittingStep == Phased /\ Emitting /\ [Next]_vars => Emitting'
<1> SUFFICES ASSUME Phased, Emitting, [Next]_vars PROVE Emitting'
  OBVIOUS
<1>0. opt' = opt
  BY DEF Next, Options, ReadLine, HandleObject, Capture, CaptureFails, HandleFields,
    AppendPiece, AppendFails, PrintLine, InputEnds, End, vars
<1>1. Prints' = Prints
  BY <1>0, OptStays
<1>2. ASSUME values' = values
      PROVE  FieldTexts' = FieldTexts /\ Pieces(FieldTexts)' = Pieces(FieldTexts)
  <2>1. FieldTexts' = FieldTexts
    BY <1>2 DEF FieldTexts
  <2>2. QED
    BY <1>0, <2>1 DEF Pieces, CsvPieces, JsonPieces
<1>3. ASSUME buf' = buf, values' = values, pc' = pc, filter' = filter, at' = at
      PROVE  Emitting'
  BY <1>0, <1>1, <1>2, <1>3 DEF Emitting
<1>4. ASSUME buf' = EmptyBuffer, pc' # "emit" PROVE Emitting'
  BY <1>4, EmptyHolds DEF Emitting
<1>5. ASSUME pc # "emit", buf' = buf, pc' # "emit" PROVE Emitting'
  BY <1>4, <1>5 DEF Emitting
<1>6. CASE UNCHANGED vars
  BY <1>3, <1>6 DEF vars, work
<1>7. CASE Options \/ ReadLine \/ HandleObject \/ InputEnds \/ End
  BY <1>5, <1>7 DEF Options, ReadLine, HandleObject, InputEnds, End, work
<1>8. CASE Capture \/ CaptureFails
  BY <1>5, <1>8 DEF Capture, CaptureFails
<1>9. CASE HandleFields
  <2> DEFINE selected == \A f \in filter : MatchFields(opt.fields, FieldTexts, f)
             emits == selected /\ Prints
  <2>1. /\ buf' = EmptyBuffer /\ at' = 1 /\ filter' = filter
        /\ pc' = (IF emits THEN "emit" ELSE "read")
        /\ emits => values' = values
    BY <1>9 DEF HandleFields, Prints
  <2>2. CASE ~emits
    BY <1>4, <2>1, <2>2
  <2>3. CASE emits
    <3>1. pc \in {"fields", "emit"}
      BY <1>9 DEF HandleFields
    <3>2. Pieces(FieldTexts) \in Seq(Seq(Tokens))
      BY <3>1, Working, PiecesType
    <3> DEFINE P == Pieces(FieldTexts)
    <3>3. 1 \in 1..(Len(P) + 1) /\ SubSeq(P, 1, 1 - 1) = <<>>
      <4> HIDE DEF P
      <4>1. QED
        BY <3>2 DEF P
    <3>4. FieldTexts' = FieldTexts /\ Pieces(FieldTexts)' = P
      BY <1>2, <2>1, <2>3
    <3>5. buf'.text = FlattenSeq(SubSeq(P, 1, 1 - 1))
      BY <2>1, <3>3, FlattenEmpty DEF EmptyBuffer
    <3>6. selected'
      BY <1>0, <2>1, <2>3, <3>4
    <3> HIDE DEF P
    <3>7. QED
      BY <1>1, <2>1, <2>3, <3>3, <3>4, <3>5, <3>6, EmptyHolds DEF Emitting
  <2>4. QED
    BY <2>2, <2>3
<1>10. CASE AppendPiece
  <2> DEFINE P == Pieces(FieldTexts)
  <2>1. /\ pc = "emit" /\ at <= Len(P) /\ at' = at + 1 /\ ~buf'.failed
        /\ buf' \in AppendText(buf, P[at])
        /\ filter' = filter /\ pc' = pc /\ values' = values
    BY <1>10 DEF AppendPiece
  <2>2. P \in Seq(Seq(Tokens))
    BY <2>1, Working, PiecesType
  <2>3. FieldTexts' = FieldTexts /\ Pieces(FieldTexts)' = P
    BY <1>2, <2>1
  <2>4. /\ Holds(buf) /\ Prints /\ \A f \in filter : MatchFields(opt.fields, FieldTexts, f)
        /\ at \in 1..(Len(P) + 1) /\ buf.text = FlattenSeq(SubSeq(P, 1, at - 1))
    BY <2>1 DEF Emitting
  <2> HIDE DEF P
  <2>5. Len(P) \in Nat /\ at \in 1..Len(P) /\ at' \in 1..(Len(P) + 1) /\ at' - 1 = at
    BY <2>1, <2>2, <2>4
  <2>6. /\ SubSeq(P, 1, at - 1) \in Seq(Seq(Tokens)) /\ P[at] \in Seq(Tokens)
        /\ SubSeq(P, 1, at) = Append(SubSeq(P, 1, at - 1), P[at])
    BY <2>2, <2>5, OneMore
  <2>7. Holds(buf') /\ buf'.text = buf.text \o P[at]
    BY <2>1, <2>4, <2>6, AppendHolds
  <2>8. buf'.text = FlattenSeq(SubSeq(P, 1, at))
    BY <2>4, <2>6, <2>7, FlattenAppend
  <2>9. Holds(buf)'
    BY <2>7 DEF Holds
  <2>10. QED
    BY <1>0, <1>1, <2>1, <2>3, <2>4, <2>5, <2>8, <2>9 DEF Emitting
<1>11. CASE AppendFails \/ PrintLine
  BY <1>4, <1>11 DEF AppendFails, PrintLine
<1>12. QED
  BY <1>6, <1>7, <1>8, <1>9, <1>10, <1>11 DEF Next

LInv == Phased /\ Emitting

LEMMA LInvHolds == Spec => []LInv
<1>1. Init => LInv
  BY PhasedInit, EmittingInit DEF LInv
<1>2. LInv /\ [Next]_vars => LInv'
  BY PhasedStep, EmittingStep DEF LInv
<1>3. QED
  BY <1>1, <1>2, PTL DEF Spec

(* The phases, the values copied for the line being worked on and freed    *)
(* after it, and the buffer, empty but while a line is built.              *)
THEOREM LogParseTypeCorrect == Spec => []LogTypeOK
<1>1. LInv => LogTypeOK
  <2> SUFFICES ASSUME LInv PROVE LogTypeOK
    OBVIOUS
  <2> USE DEF LInv, Phased
  <2>1. Cardinality({}) = 0 /\ \A x : Cardinality({x}) = 1
    BY FS_EmptySet, FS_Singleton
  <2>2. filter = {} \/ \E f : filter = {f}
    <3>1. filter = {} \/ filter = Parsed
      BY DEF Settled
    <3>2. \A expr : FilterParse(expr) = {} \/ \E f : FilterParse(expr) = {f}
      BY DEF FilterParse
    <3>3. QED
      BY <3>1, <3>2 DEF Parsed
  <2>3. summary = {} \/ \E s : summary = {s}
    BY DEF Settled, Summary
  <2>4. ASSUME NEW s, s = {} \/ \E x : s = {x} PROVE Cardinality(s) <= 1
    <3>1. CASE s = {}
      BY <2>1, <3>1
    <3>2. CASE \E x : s = {x}
      <4>1. PICK x : s = {x}
        BY <3>2
      <4>2. Cardinality(s) = 1
        BY <2>1, <4>1, Zenon
      <4>3. QED
        BY <4>2
    <3>3. QED
      BY <2>4, <3>1, <3>2
  <2>5. QED
    BY <2>2, <2>3, <2>4 DEF LogTypeOK, Settled, Phases, Reading, Copied, Emitting
<1>2. QED
  BY LInvHolds, <1>1, PTL

(* What is printed is what was appended, piece by piece, at every point of *)
(* a line and through every growth of its buffer, whatever the texts.      *)
THEOREM BufferIsWhatWasAppended == Spec => []BufferHoldsPieces
<1>1. LInv => BufferHoldsPieces
  BY DEF LInv, Emitting, Holds, BufferRecords, BufferHoldsPieces
<1>2. QED
  BY LInvHolds, <1>1, PTL

-----------------------------------------------------------------------------
(* What the program does with a line is what the options ask for.          *)

(* Every number read is held by a double: what is said of a run is said of *)
(* all that it has read, so it is said of no less before the last line.    *)
Sound == Plainly /\ Exactly

LEMMA SoundBefore ==
  ASSUME Phased, opt' = opt, seen' = seen \/ seen' = Append(seen, line')
  PROVE  Sound' => Sound
<1>1. Plainly' = Plainly /\ \A l : Exact(l)' = Exact(l)
  BY OptStays
<1>2. Exactly' <=> \A i \in DOMAIN seen' : Exact(seen'[i])
  BY <1>1 DEF Exactly
<1>3. \A i \in DOMAIN seen : i \in DOMAIN seen' /\ seen'[i] = seen[i]
  <2>1. seen \in Seq(InputLines)
    BY DEF Phased, Reading
  <2>2. ASSUME NEW e PROVE \A i \in DOMAIN seen :
                             i \in DOMAIN Append(seen, e) /\ Append(seen, e)[i] = seen[i]
    <3> DEFINE T == InputLines \cup {e}
    <3>1. seen \in Seq(T) /\ e \in T
      BY <2>1
    <3> HIDE DEF T
    <3>2. QED
      BY <3>1
  <2>3. QED
    BY <2>2
<1>4. QED
  BY <1>1, <1>2, <1>3 DEF Sound, Exactly

LEMMA LineExact ==
  ASSUME Phased, Sound, pc \in Busy
  PROVE  Exact(line)
<1>1. Len(seen) > 0 /\ line = seen[Len(seen)] /\ seen \in Seq(InputLines)
  BY DEF Phased, Reading
<1>2. Len(seen) \in DOMAIN seen
  BY <1>1
<1>3. QED
  BY <1>1, <1>2 DEF Sound, Exactly

LEMMA FilterAsked ==
  ASSUME Phased, Plainly, pc # "options", rc # 1
  PROVE  filter = Asked
<1>1. filter = Parsed /\ opt.expr \in Seq(STRING)
  BY LogParseAssumption DEF Phased, Settled
<1>2. QED
  BY <1>1, ParsedIsAsked

LEMMA FieldsJudged ==
  ASSUME Phased, Sound, pc \in {"fields", "emit"}
  PROVE  (\A f \in filter : MatchFields(opt.fields, FieldTexts, f)) <=> line \in Selects
<1>1. filter = Asked
  BY FilterAsked DEF Sound, Phased, Settled
<1>2. /\ opt.regex /\ opt.fields \in Seq(Seq(STRING)) /\ line \in InputLines
      /\ Readable(line) /\ FieldTexts = TextsOf(line)
  BY Working
<1>3. Passes(line) <=> \A f \in Asked : MatchFields(opt.fields, TextsOf(line), f)
  BY <1>2, PassesFields
<1>4. QED
  BY <1>1, <1>2, <1>3 DEF Selects

LEMMA ObjectJudged ==
  ASSUME Phased, Sound, pc = "object"
  PROVE  (line # Malformed /\ \A f \in filter : MatchObject(line, f)) <=> line \in Selects
<1>1. filter = Asked /\ ~opt.regex
  BY FilterAsked DEF Sound, Phased, Settled, Reading
<1>2. line \in Objects \cup {Malformed}
  <2>1. Len(seen) > 0 /\ Len(seen) \in Nat /\ line = seen[Len(seen)] /\ seen \in Seq(InputLines)
    BY DEF Phased, Reading, Busy
  <2>2. QED
    BY <1>1, <2>1 DEF InputLines
<1>3. CASE line = Malformed
  BY <1>1, <1>3 DEF Selects, Passes, Readable
<1>4. CASE line # Malformed
  <2>0. Exact(line)
    BY LineExact DEF Busy
  <2>1. Passes(line) <=> \A f \in Asked : MatchObject(line, f)
    BY <1>1, <1>2, <1>4, <2>0, PassesObject
  <2>2. QED
    BY <1>1, <1>2, <1>4, <2>1 DEF Selects, InputLines
<1>5. QED
  BY <1>3, <1>4

LEMMA Handling ==
  ASSUME Phased
  PROVE  /\ Handled \in Seq(InputLines)
         /\ pc \in Busy => line \in InputLines /\ seen = Append(Handled, line)
<1>1. seen \in Seq(InputLines)
  BY DEF Phased, Reading
<1>2. CASE pc \notin Busy
  BY <1>1, <1>2 DEF Handled, Busy
<1>3. CASE pc \in Busy
  <2>1. Len(seen) > 0 /\ Len(seen) \in Nat /\ line = seen[Len(seen)]
    BY <1>1, <1>3 DEF Phased, Reading
  <2>2. Handled = SubSeq(seen, 1, Len(seen) - 1)
    BY <1>3 DEF Handled, Busy, Front
  <2>3. /\ Handled \in Seq(InputLines) /\ line \in InputLines
        /\ SubSeq(seen, 1, Len(seen)) = Append(Handled, line)
    <3>1. Len(seen) \in 1..Len(seen)
      BY <2>1
    <3>2. QED
      BY <1>1, <2>1, <2>2, <3>1, OneMore
  <2>4. SubSeq(seen, 1, Len(seen)) = seen
    BY <1>1
  <2>5. QED
    BY <2>3, <2>4
<1>4. QED
  BY <1>2, <1>3

(* Which step has handled a line. *)
LEMMA HandledStep ==
  ASSUME Phased, opt' = opt
  PROVE  /\ seen' = seen /\ (pc \in Busy <=> pc' \in Busy) => Handled' = Handled
         /\ seen' = seen /\ pc \in Busy /\ pc' \notin Busy => Handled' = Append(Handled, line)
         /\ ReadLine => Handled' = Handled
<1>1. ASSUME seen' = seen, pc \in Busy <=> pc' \in Busy PROVE Handled' = Handled
  BY <1>1 DEF Handled, Busy
<1>2. ASSUME seen' = seen, pc \in Busy, pc' \notin Busy PROVE Handled' = Append(Handled, line)
  <2>1. Handled' = seen
    BY <1>2 DEF Handled, Busy
  <2>2. QED
    BY <1>2, <2>1, Handling
<1>3. ASSUME ReadLine PROVE Handled' = Handled
  <2>1. Handled = seen /\ seen \in Seq(InputLines)
    BY <1>3 DEF ReadLine, Handled, Phased, Reading
  <2>2. pc' \in Busy /\ seen' = Append(seen, line') /\ line' \in InputLines
    BY <1>3 DEF ReadLine, Busy, InputLines
  <2>3. Handled' = Front(seen')
    BY <2>2 DEF Handled, Busy
  <2>4. /\ SubSeq(Append(seen, line'), 1, Len(seen)) = seen
        /\ Len(Append(seen, line')) - 1 = Len(seen)
    BY <2>1, <2>2
  <2>5. QED
    BY <2>1, <2>2, <2>3, <2>4 DEF Front
<1>4. QED
  BY <1>1, <1>2, <1>3

-----------------------------------------------------------------------------
(* What has been printed.                                                  *)

Wanted == IF Prints THEN Due ELSE <<>>

(* The output is that of the first n lines wanted, and misses at most one. *)
Delivers(n) ==
  /\ n \in Nat /\ n <= Len(Wanted)
  /\ Len(Wanted) <= n + (IF rc = 2 THEN 1 ELSE 0)
  /\ out = [i \in 1..n |-> Rendered(Wanted[i])]
Delivered == Sound /\ rc # 1 => \E n : Delivers(n)

LEMMA DeliveredInit == Init => Delivered
<1> SUFFICES ASSUME Init PROVE Delivers(0)
  BY DEF Delivered
<1>1. Due = <<>>
  BY ChosenEmpty DEF Init, Due, Handled
<1>2. Wanted = <<>>
  BY <1>1 DEF Wanted
<1>3. Len(<<>>) = 0 /\ 1..0 = {}
  OBVIOUS
<1>4. out = [i \in 1..0 |-> Rendered(Wanted[i])]
  BY <1>3 DEF Init
<1>5. QED
  BY <1>2, <1>3, <1>4 DEF Init, Delivers

LEMMA NothingHandled ==
  ASSUME Delivered, opt' = opt, Sound' => Sound, Handled' = Handled, out' = out,
         rc' = rc \/ rc' = 1 \/ (rc = 0 /\ rc' = 2)
  PROVE  Delivered'
<1>1. Prints' = Prints /\ \A l : Rendered(l)' = Rendered(l)
  BY OptStays
<1>2. Wanted' = Wanted
  BY <1>1, SameDue DEF Wanted
<1>3. ASSUME NEW n, Delivers(n), rc' # 1 PROVE Delivers(n)'
  <2>1. out' = [i \in 1..n |-> Rendered(Wanted[i])]
    BY <1>3 DEF Delivers
  <2>2. out' = [i \in 1..n |-> Rendered(Wanted'[i])]
    BY <1>2, <2>1
  <2>3. n \in Nat /\ n <= Len(Wanted) /\ Len(Wanted) <= n + (IF rc = 2 THEN 1 ELSE 0)
    BY <1>3 DEF Delivers
  <2>4. Len(Wanted) <= n + (IF rc' = 2 THEN 1 ELSE 0)
    BY <1>3, <2>3
  <2>5. QED
    BY <1>1, <1>2, <2>2, <2>3, <2>4 DEF Delivers
<1>4. QED
  BY <1>1, <1>3 DEF Delivered

LEMMA LineHandled ==
  ASSUME Phased, Delivered, rc = 0, opt' = opt, Sound' => Sound,
         pc \in Busy, Handled' = Append(Handled, line),
         \/ out' = out /\ (Sound => ~Prints \/ line \notin Selects) /\ rc' = 0
         \/ out' = Append(out, Rendered(line)) /\ Prints /\ (Sound => line \in Selects) /\ rc' = 0
         \/ out' = out /\ rc' = 2
  PROVE  Delivered'
<1>1. Prints' = Prints /\ \A l : Rendered(l)' = Rendered(l)
  BY OptStays
<1>2. SUFFICES ASSUME Sound PROVE \E n : Delivers(n)'
  BY <1>1 DEF Delivered
<1>3. line \in InputLines /\ Handled \in Seq(InputLines) /\ opt \in OptionSets
  BY Handling DEF Phased, Settled
<1>4. Due \in Seq(Selects) /\ Due' = IF line \in Selects THEN Append(Due, line) ELSE Due
  BY <1>3, MoreDue
<1>5. PICK n : Delivers(n)
  BY <1>2 DEF Delivered
<1>6. Wanted \in Seq(Selects)
  BY <1>4 DEF Wanted
<1>7. n \in Nat /\ n = Len(Wanted) /\ out = [i \in 1..n |-> Rendered(Wanted[i])]
  BY <1>5, <1>6 DEF Delivers
<1>8. ASSUME NEW m \in Nat, m <= Len(Wanted'), Len(Wanted') <= m + (IF rc' = 2 THEN 1 ELSE 0),
             out' = [i \in 1..m |-> Rendered(Wanted'[i])]
      PROVE  Delivers(m)'
  BY <1>1, <1>8 DEF Delivers
<1>9. CASE ~(Prints /\ line \in Selects)
  <2>1. Wanted' = Wanted
    BY <1>1, <1>4, <1>9 DEF Wanted
  <2>2. out' = out /\ rc' \in {0, 2}
    BY <1>2, <1>9
  <2>3. QED
    BY <1>7, <1>8, <2>1, <2>2
<1>10. CASE Prints /\ line \in Selects
  <2>1. Wanted' = Append(Wanted, line)
    BY <1>1, <1>4, <1>10 DEF Wanted
  <2>2. Len(Wanted') = n + 1 /\ Wanted'[n + 1] = line /\ \A i \in 1..n : Wanted'[i] = Wanted[i]
    <3> DEFINE W == Append(Wanted, line)
    <3>1. Len(W) = n + 1 /\ W[n + 1] = line /\ \A i \in 1..n : W[i] = Wanted[i]
      BY <1>6, <1>7, <1>10
    <3>2. QED
      BY <2>1, <3>1
  <2>3. CASE out' = out /\ rc' = 2
    <3>1. out' = [i \in 1..n |-> Rendered(Wanted'[i])]
      BY <1>7, <2>2, <2>3
    <3>2. QED
      BY <1>7, <1>8, <2>2, <2>3, <3>1
  <2>4. CASE out' = Append(out, Rendered(line)) /\ rc' = 0
    <3> DEFINE o == [i \in 1..(n + 1) |-> Rendered(Wanted'[i])]
    <3>1. Append(out, Rendered(line)) = o
      <4> DEFINE T == {Rendered(Wanted'[i]) : i \in 1..(n + 1)}
                 e == Rendered(line)
                 a == Append(out, e)
      <4>1. out \in Seq(T) /\ Len(out) = n /\ \A i \in 1..n : out[i] = Rendered(Wanted'[i])
        <5>1. \A i \in 1..n : i \in 1..(n + 1)
          BY <1>7
        <5>2. \A i \in 1..n : Rendered(Wanted[i]) \in T
          BY <2>2, <5>1
        <5>3. \A i \in 1..n : out[i] = Rendered(Wanted'[i])
          BY <1>7, <2>2
        <5> HIDE DEF T
        <5>4. QED
          BY <1>7, <5>2, <5>3
      <4>2. e \in T /\ n + 1 \in 1..(n + 1)
        BY <1>7, <2>2
      <4>3. o \in Seq(T) /\ Len(o) = n + 1
        <5>1. \A i \in 1..(n + 1) : o[i] \in T
          OBVIOUS
        <5>2. o = [i \in 1..(n + 1) |-> o[i]]
          OBVIOUS
        <5> HIDE DEF T, o
        <5>3. QED
          BY <1>7, <5>1, <5>2
      <4>4. e = Rendered(Wanted'[n + 1])
        BY <2>2
      <4>5. \A i \in 1..(n + 1) : o[i] = Rendered(Wanted'[i])
        OBVIOUS
      <4> HIDE DEF T, e, o
      <4>6. a \in Seq(T) /\ Len(a) = n + 1 /\ a[n + 1] = e /\ \A i \in 1..n : a[i] = out[i]
        BY <1>7, <4>1, <4>2
      <4> HIDE DEF a
      <4>7. \A i \in 1..(n + 1) : a[i] = o[i]
        <5>1. TAKE i \in 1..(n + 1)
        <5>2. i = n + 1 \/ i \in 1..n
          BY <1>7
        <5>3. QED
          BY <1>7, <4>1, <4>2, <4>4, <4>5, <4>6, <5>2
      <4>8. a = o
        BY <4>3, <4>6, <4>7, SameSequence
      <4>9. QED
        BY <4>8 DEF a, e
    <3>2. QED
      BY <1>7, <1>8, <2>2, <2>4, <3>1
  <2>5. QED
    BY <1>2, <1>10, <2>3, <2>4
<1>11. QED
  BY <1>9, <1>10

LEMMA DeliveredStep == Phased /\ Emitting /\ Delivered /\ [Next]_vars => Delivered'
<1> SUFFICES ASSUME Phased, Emitting, Delivered, [Next]_vars PROVE Delivered'
  OBVIOUS
<1>0. opt' = opt /\ (Sound' => Sound)
  <2>1. opt' = opt
    BY DEF Next, Options, ReadLine, HandleObject, Capture, CaptureFails, HandleFields,
      AppendPiece, AppendFails, PrintLine, InputEnds, End, vars
  <2>2. seen' = seen \/ seen' = Append(seen, line')
    BY DEF Next, Options, ReadLine, HandleObject, Capture, CaptureFails, HandleFields,
      AppendPiece, AppendFails, PrintLine, InputEnds, End, vars
  <2>3. QED
    BY <2>1, <2>2, SoundBefore
<1>1. rc # 0 => pc \in {"end", "done"}
  BY DEF Phased, Settled
<1>2. ASSUME seen' = seen, pc \in Busy <=> pc' \in Busy PROVE Handled' = Handled
  BY <1>0, <1>2, HandledStep
<1>3. ASSUME seen' = seen, pc \in Busy, pc' \notin Busy PROVE Handled' = Append(Handled, line)
  BY <1>0, <1>3, HandledStep
<1>4. CASE UNCHANGED vars
  BY <1>0, <1>2, <1>4, NothingHandled DEF vars, results
<1>5. CASE Options
  BY <1>0, <1>2, <1>5, NothingHandled DEF Options, results, Busy
<1>6. CASE ReadLine
  BY <1>0, <1>6, HandledStep, NothingHandled DEF ReadLine, results
<1>7. CASE HandleObject
  <2>1. /\ pc = "object" /\ pc \in Busy /\ pc' \notin Busy /\ rc = 0 /\ rc' = 0 /\ seen' = seen
    BY <1>1, <1>7 DEF HandleObject, Busy
  <2>2. Handled' = Append(Handled, line)
    BY <1>3, <2>1
  <2> DEFINE selected == line # Malformed /\ \A f \in filter : MatchObject(line, f)
  <2>3. out' = IF selected /\ ~HasAgg /\ opt.format = "" THEN Append(out, line) ELSE out
    BY <1>7 DEF HandleObject
  <2>4. Sound => (selected <=> line \in Selects)
    BY <2>1, ObjectJudged
  <2>5. ~opt.regex /\ Accepted
    BY <2>1 DEF Phased, Settled, Reading
  <2>6. Prints <=> ~HasAgg /\ opt.format = ""
    BY <2>5 DEF Prints, Accepted
  <2>7. Rendered(line) = line
    BY <2>5 DEF Rendered
  <2> HIDE DEF selected
  <2>8. QED
    BY <1>0, <2>1, <2>2, <2>3, <2>4, <2>6, <2>7, LineHandled
<1>8. CASE Capture
  <2>1. pc = "capture" /\ rc = 0 /\ rc' = 0 /\ seen' = seen /\ out' = out
    BY <1>1, <1>8 DEF Capture, results
  <2>2. CASE pc' = "fields"
    BY <1>0, <1>2, <2>1, <2>2, NothingHandled DEF Busy
  <2>3. CASE pc' # "fields"
    <3>1. pc' = "read" /\ (line = NoMatch \/ \E i \in DOMAIN opt.fields : line[i] = {})
      BY <1>8, <2>3 DEF Capture
    <3>2. opt.regex
      BY <2>1 DEF Phased, Reading
    <3>3. line \notin Selects
      BY <3>1, <3>2 DEF Selects, Passes, Readable
    <3>4. Handled' = Append(Handled, line)
      BY <1>3, <2>1, <3>1 DEF Busy
    <3>5. QED
      BY <1>0, <2>1, <3>3, <3>4, LineHandled DEF Busy
  <2>4. QED
    BY <2>2, <2>3
<1>9. CASE CaptureFails \/ AppendFails
  <2>1. pc \in {"capture", "emit"} /\ rc = 0 /\ rc' = 2 /\ seen' = seen /\ out' = out /\ pc' = "end"
    BY <1>1, <1>9 DEF CaptureFails, AppendFails, results
  <2>2. Handled' = Append(Handled, line)
    BY <1>3, <2>1 DEF Busy
  <2>3. QED
    BY <1>0, <2>1, <2>2, LineHandled DEF Busy
<1>10. CASE HandleFields
  <2> DEFINE selected == \A f \in filter : MatchFields(opt.fields, FieldTexts, f)
  <2>1. /\ pc = "fields" /\ rc = 0 /\ rc' = 0 /\ seen' = seen /\ out' = out
        /\ pc' = IF selected /\ Prints THEN "emit" ELSE "read"
    BY <1>1, <1>10 DEF HandleFields, Prints
  <2>2. Sound => (selected <=> line \in Selects)
    BY <2>1, FieldsJudged
  <2> HIDE DEF selected
  <2>3. CASE selected /\ Prints
    BY <1>0, <1>2, <2>1, <2>3, NothingHandled DEF Busy
  <2>4. CASE ~(selected /\ Prints)
    <3>1. Handled' = Append(Handled, line)
      BY <1>3, <2>1, <2>4 DEF Busy
    <3>2. QED
      BY <1>0, <2>1, <2>2, <2>4, <3>1, LineHandled DEF Busy
  <2>5. QED
    BY <2>3, <2>4
<1>11. CASE AppendPiece
  BY <1>0, <1>2, <1>11, NothingHandled DEF AppendPiece, results
<1>12. CASE PrintLine
  <2>1. /\ pc = "emit" /\ rc = 0 /\ rc' = 0 /\ seen' = seen /\ pc' = "read"
        /\ out' = Append(out, buf.text) /\ at > Len(Pieces(FieldTexts))
    BY <1>1, <1>12 DEF PrintLine
  <2>2. Handled' = Append(Handled, line)
    BY <1>3, <2>1 DEF Busy
  <2>3. Prints /\ (Sound => line \in Selects)
    BY <2>1, FieldsJudged DEF Emitting
  <2>4. buf.text = Rendered(line)
    <3> DEFINE P == Pieces(FieldTexts)
    <3>1. P \in Seq(Seq(Tokens)) /\ FieldTexts = TextsOf(line) /\ opt.regex
      BY <2>1, Working, PiecesType
    <3>2. at \in 1..(Len(P) + 1) /\ buf.text = FlattenSeq(SubSeq(P, 1, at - 1)) /\ at > Len(P)
      BY <2>1 DEF Emitting
    <3>3. Rendered(line) = FlattenSeq(P)
      BY <3>1 DEF Rendered
    <3> HIDE DEF P
    <3>4. at - 1 = Len(P)
      BY <3>1, <3>2
    <3>5. SubSeq(P, 1, Len(P)) = P
      BY <3>1
    <3>6. QED
      BY <3>2, <3>3, <3>4, <3>5
  <2>5. QED
    BY <1>0, <2>1, <2>2, <2>3, <2>4, LineHandled DEF Busy
<1>13. CASE InputEnds
  BY <1>0, <1>1, <1>2, <1>13, NothingHandled DEF InputEnds, results, Busy
<1>14. CASE End
  BY <1>0, <1>2, <1>14, NothingHandled DEF End, results, Busy
<1>15. QED
  BY <1>4, <1>5, <1>6, <1>7, <1>8, <1>9, <1>10, <1>11, <1>12, <1>13, <1>14 DEF Next

(* In both modes, every line the expression selects comes out whole, once  *)
(* and in order, and no other; a run that fails misses at most the line it *)
(* fails at.  That is so for every plain expression, every list of fields  *)
(* and every input.                                                        *)
THEOREM OutputIsTheSelection == Spec => []OutputIsOfSelectedLines
<1>1. LInv /\ Delivered => OutputIsOfSelectedLines
  <2> SUFFICES ASSUME LInv, Delivered, Sound, rc # 1
               PROVE  /\ out = [i \in DOMAIN out |-> Rendered(Wanted[i])]
                      /\ Len(Wanted) - Len(out) \in 0..(IF rc = 2 THEN 1 ELSE 0)
    BY DEF OutputIsOfSelectedLines, Wanted, Sound
  <2>1. PICK n : Delivers(n)
    BY DEF Delivered
  <2>2. n \in Nat /\ DOMAIN out = 1..n /\ Len(out) = n
    <3>1. n \in Nat /\ out = [i \in 1..n |-> Rendered(Wanted[i])]
      BY <2>1 DEF Delivers
    <3> DEFINE T == {Rendered(Wanted[i]) : i \in 1..n}
    <3>2. out \in Seq(T)
      <4>1. \A i \in 1..n : out[i] \in T
        BY <3>1
      <4> HIDE DEF T
      <4>2. QED
        BY <3>1, <4>1
    <3>3. QED
      BY <3>1, <3>2
  <2>3. Len(Wanted) \in Nat
    <3>1. Due = Chosen(Handled, Selects) /\ Handled \in Seq(InputLines)
      BY DueIs, Handling DEF LInv
    <3>2. Due \in Seq(InputLines)
      BY <3>1, ChosenType
    <3>3. QED
      BY <3>2 DEF Wanted
  <2>4. QED
    BY <2>1, <2>2, <2>3 DEF Delivers
<1>2. Init => LInv /\ Delivered
  BY PhasedInit, EmittingInit, DeliveredInit DEF LInv
<1>3. LInv /\ Delivered /\ [Next]_vars => LInv' /\ Delivered'
  BY PhasedStep, EmittingStep, DeliveredStep DEF LInv
<1>4. QED
  BY <1>1, <1>2, <1>3, PTL DEF Spec

-----------------------------------------------------------------------------
(* The aggregate.                                                          *)

(* a is the aggregate of some numbers. *)
Tallies(a, numbers) ==
  /\ a.count = Len(numbers)
  /\ a.count > 0 =>
       /\ \A n \in ToSet(numbers) : a.min <= n /\ n <= a.max
       /\ {a.min, a.max} \subseteq ToSet(numbers)
  /\ (\A i \in DOMAIN numbers : Held(Sums(numbers)[i]))
       => a.sum = Sums(numbers)[Len(numbers)]

LEMMA TalliesOne ==
  ASSUME NEW numbers \in Seq(Int), NEW e \in Int, Tallies(agg, numbers)
  PROVE  Tallies(Updated(e), Append(numbers, e))
<1> DEFINE more == Append(numbers, e)
           k == Len(numbers)
<1>1. more \in Seq(Int) /\ Len(more) = k + 1 /\ k \in Nat /\ DOMAIN more = 1..(k + 1)
  OBVIOUS
<1>2. more[k + 1] = e /\ \A i \in 1..k : more[i] = numbers[i]
  OBVIOUS
<1>3. ToSet(more) = ToSet(numbers) \cup {e}
  <2>1. ASSUME NEW x \in ToSet(more) PROVE x \in ToSet(numbers) \cup {e}
    <3>1. PICK i \in 1..(k + 1) : x = more[i]
      BY <1>1, <2>1 DEF ToSet
    <3>2. i = k + 1 \/ i \in 1..k
      BY <1>1
    <3>3. QED
      BY <1>2, <3>1, <3>2 DEF ToSet
  <2>2. ASSUME NEW x \in ToSet(numbers) PROVE x \in ToSet(more)
    <3>1. PICK i \in 1..k : x = numbers[i]
      BY <2>2 DEF ToSet
    <3>2. i \in 1..(k + 1) /\ more[i] = x
      BY <1>1, <1>2, <3>1
    <3> HIDE DEF more
    <3>3. QED
      BY <1>1, <3>2 DEF ToSet
  <2>3. e \in ToSet(more)
    <3>1. k + 1 \in 1..(k + 1)
      BY <1>1
    <3> HIDE DEF more
    <3>2. QED
      BY <1>1, <1>2, <3>1 DEF ToSet
  <2>4. QED
    BY <2>1, <2>2, <2>3
<1>4. ToSet(numbers) \subseteq Int /\ (k = 0 => ToSet(numbers) = {})
  BY DEF ToSet
<1>5. /\ \A n \in 0..k : Sums(more)[n] = Sums(numbers)[n]
      /\ Sums(more)[k + 1] = Sums(numbers)[k] + e
  BY SumsAppend
<1>6. Sums(numbers)[k] \in Int /\ Sums(numbers)[0] = 0
  BY <1>1, SumsAre
<1> DEFINE u == Updated(e)
<1>7. /\ u.count = agg.count + 1 /\ u.sum = Round(agg.sum + e)
      /\ u.min = IF agg.count = 0 \/ e < agg.min THEN e ELSE agg.min
      /\ u.max = IF agg.count = 0 \/ e > agg.max THEN e ELSE agg.max
  BY DEF Updated
<1>8. agg.count = k
  BY DEF Tallies
<1> HIDE DEF more, u
<1>9. (\A n \in ToSet(more) : u.min <= n /\ n <= u.max) /\ {u.min, u.max} \subseteq ToSet(more)
  <2>1. CASE k = 0
    BY <1>3, <1>4, <1>7, <1>8, <2>1
  <2>2. CASE k # 0
    <3>1. /\ \A n \in ToSet(numbers) : agg.min <= n /\ n <= agg.max
          /\ {agg.min, agg.max} \subseteq ToSet(numbers)
      BY <1>1, <1>8, <2>2 DEF Tallies
    <3>2. agg.min \in Int /\ agg.max \in Int
      BY <1>4, <3>1
    <3>3. /\ u.min = IF e < agg.min THEN e ELSE agg.min
          /\ u.max = IF e > agg.max THEN e ELSE agg.max
      BY <1>7, <1>8, <2>2
    <3>4. QED
      BY <1>3, <1>4, <3>1, <3>2, <3>3
  <2>3. QED
    BY <2>1, <2>2
<1>10. ASSUME \A i \in DOMAIN more : Held(Sums(more)[i])
       PROVE  u.sum = Sums(more)[k + 1]
  <2>1. \A i \in DOMAIN numbers : Held(Sums(numbers)[i])
    <3>1. TAKE i \in DOMAIN numbers
    <3>2. i \in DOMAIN more /\ i \in 0..k
      BY <1>1
    <3>3. QED
      BY <1>5, <1>10, <3>2
  <2>2. agg.sum = Sums(numbers)[k]
    BY <2>1 DEF Tallies
  <2> DEFINE sum == Sums(more)[k + 1]
  <2>3. sum \in Int /\ sum = Sums(numbers)[k] + e
    BY <1>5, <1>6
  <2>4. Held(sum)
    <3>1. k + 1 \in DOMAIN more
      BY <1>1
    <3>2. QED
      BY <1>10, <3>1
  <2>5. agg.sum + e = sum
    BY <2>2, <2>3
  <2> HIDE DEF sum
  <2>6. Round(sum) = sum
    BY <2>3, <2>4, HeldExact
  <2>7. QED
    BY <1>7, <2>5, <2>6 DEF sum
<1>11. QED
  BY <1>1, <1>7, <1>8, <1>9, <1>10 DEF Tallies, u, more

LEMMA TalliesNone ==
  ASSUME NEW a, a.count = 0, a.sum = 0
  PROVE  Tallies(a, <<>>)
<1>1. <<>> \in Seq(Int) /\ Len(<<>>) = 0
  OBVIOUS
<1>2. Sums(<<>>)[0] = 0
  BY <1>1, SumsAre
<1>3. QED
  BY <1>1, <1>2 DEF Tallies

(* What is counted and added up, as long as nothing has failed. *)
Counts == opt.format = "count" /\ ~HasAgg
Tallied ==
  Sound /\ rc = 0 =>
    /\ HasAgg => Tallies(agg, Numbers)
    /\ Counts => matched = Len(Due)

LEMMA TalliedInit == Init => Tallied
<1> SUFFICES ASSUME Init PROVE Tallied
  OBVIOUS
<1>1. Handled = <<>>
  BY DEF Init, Handled
<1>2. Due = <<>> /\ Chosen(Handled, Adds) = <<>>
  BY <1>1, ChosenEmpty DEF Due
<1>3. Numbers = <<>>
  <2>1. Numbers = NumbersIn(<<>>)
    BY <1>2, DueIs
  <2>2. QED
    BY <2>1 DEF NumbersIn
<1>4. Tallies(agg, <<>>)
  BY TalliesNone DEF Init
<1>5. matched = Len(<<>>)
  BY DEF Init
<1>6. QED
  BY <1>2, <1>3, <1>4, <1>5 DEF Tallied

LEMMA NothingTallied ==
  ASSUME Tallied, opt' = opt, Sound' => Sound, Handled' = Handled, agg' = agg, matched' = matched,
         rc' = 0 => rc = 0
  PROVE  Tallied'
<1>1. HasAgg' = HasAgg /\ Counts' = Counts
  BY OptStays DEF Counts
<1>2. Due' = Due /\ Numbers' = Numbers
  BY SameDue
<1>3. QED
  BY <1>1, <1>2 DEF Tallied

LEMMA LineTallied ==
  ASSUME Phased, Tallied, rc = 0, opt' = opt, Sound' => Sound, pc \in Busy, Handled' = Append(Handled, line),
         Sound /\ HasAgg =>
           IF line \in Adds THEN agg' = Updated(NumberOf(line)) ELSE agg' = agg,
         Sound /\ Counts =>
           matched' = IF line \in Selects THEN matched + 1 ELSE matched
  PROVE  Tallied'
<1>1. HasAgg' = HasAgg /\ Counts' = Counts
  BY OptStays DEF Counts
<1>2. SUFFICES ASSUME Sound
               PROVE  /\ HasAgg => Tallies(agg', Numbers')
                      /\ Counts => matched' = Len(Due')
  BY <1>1 DEF Tallied
<1>3. line \in InputLines /\ Handled \in Seq(InputLines) /\ opt \in OptionSets
  BY Handling DEF Phased, Settled
<1>4. /\ Due \in Seq(Selects) /\ Numbers \in Seq(Int)
      /\ Due' = IF line \in Selects THEN Append(Due, line) ELSE Due
      /\ Numbers' = IF line \in Adds THEN Append(Numbers, NumberOf(line)) ELSE Numbers
  BY <1>3, MoreDue
<1>5. ASSUME HasAgg PROVE Tallies(agg', Numbers')
  <2>1. Tallies(agg, Numbers)
    BY <1>2, <1>5 DEF Tallied
  <2>2. CASE line \in Adds
    <3>1. NumberOf(line) \in Int
      BY <1>3, <2>2, NumberType
    <3>2. agg' = Updated(NumberOf(line)) /\ Numbers' = Append(Numbers, NumberOf(line))
      BY <1>2, <1>4, <1>5, <2>2
    <3>3. QED
      BY <1>4, <2>1, <3>1, <3>2, TalliesOne
  <2>3. CASE line \notin Adds
    BY <1>2, <1>4, <1>5, <2>1, <2>3
  <2>4. QED
    BY <2>2, <2>3
<1>6. ASSUME Counts PROVE matched' = Len(Due')
  <2>1. matched = Len(Due)
    BY <1>2, <1>6 DEF Tallied
  <2>2. Len(Append(Due, line)) = Len(Due) + 1
    BY <1>4
  <2>3. QED
    BY <1>2, <1>4, <1>6, <2>1, <2>2
<1>7. QED
  BY <1>5, <1>6

LEMMA ObjectAdds ==
  ASSUME Phased, Sound, pc = "object", line \in Selects
  PROVE  Addends(line) = {2 * n : n \in GetInt64(Field(line, opt.aggField))}
<1>1. ~opt.regex
  BY DEF Phased, Reading
<1>2. line \in Objects
  BY <1>1 DEF Selects, Passes, Readable, InputLines
<1>3. Addends(line) = {2 * n : n \in Written(Field(line, opt.aggField))}
  BY <1>1 DEF Addends, Integer
<1>4. Exact(line)
  BY LineExact DEF Busy
<1>5. QED
  BY <1>1, <1>2, <1>3, <1>4, ItemsHeld

LEMMA FieldsAdd ==
  ASSUME Phased, Sound, pc = "fields", HasAgg
  PROVE  Addends(line) = {Atof(FieldTexts[AggIndex])}
<1> DEFINE key == opt.aggField
           named == {i \in DOMAIN opt.fields : opt.fields[i] = key}
           first == CHOOSE h \in named : \A j \in named : h <= j
<1>1. /\ opt.regex /\ opt.fields \in Seq(Seq(STRING)) /\ FieldTexts = TextsOf(line)
  BY Working
<1>2. named # {}
  BY <1>1 DEF Phased, Settled, Accepted
<1>3. Text(line, key) = {TextsOf(line)[first]}
  BY <1>1, <1>2, FieldText
<1>4. IsFirst(first, key) /\ \A h : IsFirst(h, key) => h = first
  BY <1>1, <1>2, FirstField
<1> HIDE DEF first
<1>5. AggIndex = CHOOSE i \in DOMAIN opt.fields : IsFirst(i, key)
  BY DEF AggIndex, IsFirst
<1>6. AggIndex = first
  <2>1. \E i \in DOMAIN opt.fields : IsFirst(i, key)
    BY <1>4 DEF IsFirst
  <2>2. IsFirst(AggIndex, key)
    BY <1>5, <2>1
  <2>3. QED
    BY <1>4, <2>2
<1>7. Addends(line) = {NumberIn(text) : text \in Text(line, key)}
  BY <1>1 DEF Addends
<1>8. Exact(line) /\ Readable(line)
  BY LineExact, Working DEF Busy
<1> DEFINE text == FieldTexts[AggIndex]
<1>9. Text(line, key) = {text}
  BY <1>1, <1>3, <1>6
<1> HIDE DEF text
<1>10. Held(NumberIn(text))
  BY <1>1, <1>8, <1>9 DEF Exact
<1>11. Atof(text) = NumberIn(text)
  BY <1>10, NumberInType, HeldExact DEF Atof
<1>12. QED
  BY <1>7, <1>9, <1>11 DEF text

LEMMA TalliedStep == Phased /\ Emitting /\ Tallied /\ [Next]_vars => Tallied'
<1> SUFFICES ASSUME Phased, Emitting, Tallied, [Next]_vars PROVE Tallied'
  OBVIOUS
<1>0. opt' = opt /\ (Sound' => Sound)
  <2>1. opt' = opt
    BY DEF Next, Options, ReadLine, HandleObject, Capture, CaptureFails, HandleFields,
      AppendPiece, AppendFails, PrintLine, InputEnds, End, vars
  <2>2. seen' = seen \/ seen' = Append(seen, line')
    BY DEF Next, Options, ReadLine, HandleObject, Capture, CaptureFails, HandleFields,
      AppendPiece, AppendFails, PrintLine, InputEnds, End, vars
  <2>3. QED
    BY <2>1, <2>2, SoundBefore
<1>1. rc # 0 => pc \in {"end", "done"}
  BY DEF Phased, Settled
<1>2. ASSUME seen' = seen, pc \in Busy <=> pc' \in Busy PROVE Handled' = Handled
  BY <1>0, <1>2, HandledStep
<1>3. ASSUME seen' = seen, pc \in Busy, pc' \notin Busy PROVE Handled' = Append(Handled, line)
  BY <1>0, <1>3, HandledStep
<1>4. CASE UNCHANGED vars
  BY <1>0, <1>2, <1>4, NothingTallied DEF vars, results
<1>5. CASE Options
  BY <1>0, <1>2, <1>5, NothingTallied DEF Options, results, Busy
<1>6. CASE ReadLine
  BY <1>0, <1>6, HandledStep, NothingTallied DEF ReadLine, results
<1>7. CASE HandleObject
  <2>1. /\ pc = "object" /\ pc \in Busy /\ pc' \notin Busy /\ rc = 0 /\ seen' = seen
    BY <1>1, <1>7 DEF HandleObject, Busy
  <2>2. Handled' = Append(Handled, line)
    BY <1>3, <2>1
  <2> DEFINE selected == line # Malformed /\ \A f \in filter : MatchObject(line, f)
             numbers == IF selected /\ HasAgg
                        THEN {2 * n : n \in GetInt64(Field(line, opt.aggField))} ELSE {}
  <2>3. /\ agg' = IF numbers = {} THEN agg ELSE Updated(CHOOSE n \in numbers : TRUE)
        /\ matched' = IF selected /\ Counts THEN matched + 1 ELSE matched
    BY <1>7 DEF HandleObject, Counts
  <2>4. Sound => (selected <=> line \in Selects)
    BY <2>1, ObjectJudged
  <2>5. Sound /\ HasAgg => IF line \in Adds THEN agg' = Updated(NumberOf(line)) ELSE agg' = agg
    <3>1. SUFFICES ASSUME Sound, HasAgg
                   PROVE  IF line \in Adds THEN agg' = Updated(NumberOf(line)) ELSE agg' = agg
      OBVIOUS
    <3>2. CASE line \in Selects
      <4>1. numbers = Addends(line)
        BY <2>1, <2>4, <3>1, <3>2, ObjectAdds
      <4>2. line \in Adds <=> numbers # {}
        BY <3>2, <4>1 DEF Adds
      <4>3. NumberOf(line) = CHOOSE n \in numbers : TRUE
        BY <4>1 DEF NumberOf
      <4> HIDE DEF numbers
      <4>4. QED
        BY <2>3, <4>2, <4>3
    <3>3. CASE line \notin Selects
      BY <2>3, <2>4, <3>1, <3>3 DEF Adds
    <3>4. QED
      BY <3>2, <3>3
  <2> HIDE DEF selected
  <2>6. Sound /\ Counts => matched' = IF line \in Selects THEN matched + 1 ELSE matched
    BY <2>3, <2>4
  <2>7. QED
    BY <1>0, <2>1, <2>2, <2>5, <2>6, LineTallied
<1>8. CASE Capture
  <2>1. /\ pc = "capture" /\ rc = 0 /\ seen' = seen /\ agg' = agg /\ matched' = matched
    BY <1>1, <1>8 DEF Capture, results
  <2>2. CASE pc' = "fields"
    BY <1>0, <1>2, <2>1, <2>2, NothingTallied DEF Busy
  <2>3. CASE pc' # "fields"
    <3>1. pc' = "read" /\ (line = NoMatch \/ \E i \in DOMAIN opt.fields : line[i] = {})
      BY <1>8, <2>3 DEF Capture
    <3>2. opt.regex
      BY <2>1 DEF Phased, Reading
    <3>3. line \notin Selects /\ line \notin Adds
      BY <3>1, <3>2 DEF Adds, Selects, Passes, Readable
    <3>4. Handled' = Append(Handled, line)
      BY <1>3, <2>1, <3>1 DEF Busy
    <3>5. QED
      BY <1>0, <2>1, <3>3, <3>4, LineTallied DEF Busy
  <2>4. QED
    BY <2>2, <2>3
<1>9. CASE CaptureFails \/ AppendFails
  BY <1>0, <1>9 DEF CaptureFails, AppendFails, Tallied
<1>10. CASE HandleFields
  <2> DEFINE selected == \A f \in filter : MatchFields(opt.fields, FieldTexts, f)
  <2>1. /\ pc = "fields" /\ rc = 0 /\ seen' = seen
        /\ agg' = IF selected /\ HasAgg THEN Updated(Atof(FieldTexts[AggIndex])) ELSE agg
        /\ matched' = IF selected /\ Counts THEN matched + 1 ELSE matched
        /\ pc' = IF selected /\ Prints THEN "emit" ELSE "read"
    BY <1>1, <1>10 DEF HandleFields, Prints, Counts
  <2>2. Sound => (selected <=> line \in Selects)
    BY <2>1, FieldsJudged
  <2> HIDE DEF selected
  <2>3. CASE selected /\ Prints
    <3>1. agg' = agg /\ matched' = matched
      BY <2>1, <2>3 DEF Prints, Counts
    <3>2. QED
      BY <1>0, <1>2, <2>1, <2>3, <3>1, NothingTallied DEF Busy
  <2>4. CASE ~(selected /\ Prints)
    <3>1. Handled' = Append(Handled, line)
      BY <1>3, <2>1, <2>4 DEF Busy
    <3>2. Sound /\ HasAgg => IF line \in Adds THEN agg' = Updated(NumberOf(line)) ELSE agg' = agg
      <4>1. SUFFICES ASSUME Sound, HasAgg
                     PROVE  IF line \in Adds THEN agg' = Updated(NumberOf(line)) ELSE agg' = agg
        OBVIOUS
      <4>2. Addends(line) = {Atof(FieldTexts[AggIndex])}
        BY <2>1, <4>1, FieldsAdd
      <4>3. NumberOf(line) = Atof(FieldTexts[AggIndex])
        BY <4>2 DEF NumberOf
      <4>4. line \in Adds <=> line \in Selects
        BY <4>2 DEF Adds
      <4>5. QED
        BY <2>1, <2>2, <4>1, <4>3, <4>4
    <3>3. Sound /\ Counts => matched' = IF line \in Selects THEN matched + 1 ELSE matched
      BY <2>1, <2>2
    <3>4. QED
      BY <1>0, <2>1, <3>1, <3>2, <3>3, LineTallied DEF Busy
  <2>5. QED
    BY <2>3, <2>4
<1>11. CASE AppendPiece
  BY <1>0, <1>2, <1>11, NothingTallied DEF AppendPiece, results
<1>12. CASE PrintLine
  <2>1. /\ pc = "emit" /\ rc = 0 /\ seen' = seen /\ pc' = "read"
        /\ agg' = agg /\ matched' = matched
    BY <1>1, <1>12 DEF PrintLine
  <2>2. Handled' = Append(Handled, line)
    BY <1>3, <2>1 DEF Busy
  <2>3. ~HasAgg /\ ~Counts
    BY <2>1 DEF Emitting, Prints, Counts
  <2>4. QED
    BY <1>0, <2>1, <2>2, <2>3, LineTallied DEF Busy
<1>13. CASE InputEnds
  BY <1>0, <1>1, <1>2, <1>13, NothingTallied DEF InputEnds, results, Busy
<1>14. CASE End
  BY <1>0, <1>2, <1>14, NothingTallied DEF End, results, Busy
<1>15. QED
  BY <1>4, <1>5, <1>6, <1>7, <1>8, <1>9, <1>10, <1>11, <1>12, <1>13, <1>14 DEF Next

(* The count or the aggregate printed at the end is that of the lines the  *)
(* expression selects: the extremes are two of their numbers, and the sum  *)
(* is exact while no partial sum needs more than a double holds.  A run    *)
(* that fails prints none.                                                 *)
THEOREM SummaryIsOfTheSelection == Spec => []SummaryIsOfSelectedLines
<1>1. LInv /\ Tallied => SummaryIsOfSelectedLines
  <2> SUFFICES ASSUME LInv, Tallied, Sound, pc = "done"
               PROVE  IF rc # 0 \/ Prints THEN summary = {}
                      ELSE \A s \in summary :
                             IF ~HasAgg THEN s.count = Len(Due) ELSE Tallies(s.agg, Numbers)
    BY DEF SummaryIsOfSelectedLines, Tallies, Sound
  <2>1. summary = Summary
    BY DEF LInv, Phased, Settled
  <2>2. CASE rc # 0 \/ Prints
    BY <2>1, <2>2 DEF Summary, Prints
  <2>3. CASE rc = 0 /\ ~Prints
    <3>1. HasAgg => Tallies(agg, Numbers)
      BY <2>3 DEF Tallied
    <3>2. ~HasAgg => opt.format = "count" /\ matched = Len(Due)
      BY <2>3 DEF Tallied, Counts, Prints
    <3>3. QED
      BY <2>1, <2>3, <3>1, <3>2 DEF Summary
  <2>4. QED
    BY <2>2, <2>3
<1>2. Init => LInv /\ Tallied
  BY PhasedInit, EmittingInit, TalliedInit DEF LInv
<1>3. LInv /\ Tallied /\ [Next]_vars => LInv' /\ Tallied'
  BY PhasedStep, EmittingStep, TalliedStep DEF LInv
<1>4. QED
  BY <1>1, <1>2, <1>3, PTL DEF Spec

-----------------------------------------------------------------------------
(* Output lines are read back in one way only.                             *)

LEMMA TextsAssoc ==
  \A r, s, t \in Seq(Tokens) : (r \o s) \o t = r \o (s \o t)
BY Assoc

LEMMA EscapedWords ==
  ASSUME NEW s \in Seq(Tokens), NEW t \in Seq(Tokens), NEW special,
         NEW escape \in Tokens, escape \in special, NEW end \in Seq(Tokens),
         \A c \in Tokens : LET piece == IF c \in special THEN <<escape, c>> ELSE <<c>>
                           IN ~Agree(end, piece) /\ ~Agree(piece, end),
         Agree(Escaped(s, special, escape) \o end, Escaped(t, special, escape) \o end)
  PROVE  s = t
<1> DEFINE piece == [c \in Tokens |-> IF c \in special THEN <<escape, c>> ELSE <<c>>]
           Code(r) == Append(Mapped(piece, r), end)
<1>1. piece \in [Tokens -> Seq(Tokens)]
  <2>1. \A x, y \in Tokens : <<x, y>> \in Seq(Tokens) /\ <<x>> \in Seq(Tokens)
    OBVIOUS
  <2>2. QED
    BY <2>1
<1>2. \A c \in Tokens : ~Agree(end, piece[c]) /\ ~Agree(piece[c], end)
  OBVIOUS
<1>3. ASSUME NEW c \in Tokens, NEW d \in Tokens, Agree(piece[c], piece[d]) PROVE c = d
  <2>1. /\ piece[c] = IF c \in special THEN <<escape, c>> ELSE <<c>>
        /\ piece[d] = IF d \in special THEN <<escape, d>> ELSE <<d>>
    OBVIOUS
  <2> HIDE DEF piece
  <2>2. CASE c \in special /\ d \in special
    <3>1. Agree(<<escape, c>>, <<escape, d>>)
      BY <1>3, <2>1, <2>2
    <3>2. 2 \in 1..Len(<<escape, c>>) /\ 2 \in 1..Len(<<escape, d>>)
      OBVIOUS
    <3>3. <<escape, c>>[2] = <<escape, d>>[2]
      BY <3>1, <3>2 DEF Agree
    <3>4. QED
      BY <3>3
  <2>3. CASE ~(c \in special /\ d \in special)
    <3>1. 1 \in 1..Len(piece[c]) /\ 1 \in 1..Len(piece[d])
      BY <2>1
    <3>2. piece[c][1] = piece[d][1]
      BY <1>3, <3>1 DEF Agree
    <3>3. QED
      BY <2>1, <2>3, <3>2
  <2>4. QED
    BY <2>2, <2>3
<1>4. ASSUME NEW r \in Seq(Tokens)
      PROVE  /\ Code(r) \in Seq(Seq(Tokens)) /\ Len(Code(r)) = Len(r) + 1
             /\ Code(r)[Len(r) + 1] = end
             /\ \A i \in 1..Len(r) : r[i] \in Tokens /\ Code(r)[i] = piece[r[i]]
             /\ FlattenSeq(Code(r)) = Escaped(r, special, escape) \o end
  <2> DEFINE m == Mapped(piece, r)
  <2>1. DOMAIN r = 1..Len(r) /\ Len(r) \in Nat /\ \A i \in 1..Len(r) : r[i] \in Tokens
    OBVIOUS
  <2>2. m \in Seq(Seq(Tokens)) /\ Len(m) = Len(r) /\ \A i \in 1..Len(r) : m[i] = piece[r[i]]
    <3> HIDE DEF piece
    <3>1. QED
      BY <1>1, <2>1, MappedType DEF Mapped
  <2>3. m = [i \in DOMAIN r |-> IF r[i] \in special THEN <<escape, r[i]>> ELSE <<r[i]>>]
    BY <2>1 DEF Mapped
  <2>4. Escaped(r, special, escape) = FlattenSeq(m)
    <3> HIDE DEF m
    <3>1. QED
      BY <2>3 DEF Escaped
  <2> HIDE DEF m, piece
  <2>5. FlattenSeq(Append(m, end)) = FlattenSeq(m) \o end
    BY <2>2, FlattenAppend
  <2>6. /\ Append(m, end) \in Seq(Seq(Tokens)) /\ Len(Append(m, end)) = Len(r) + 1
        /\ Append(m, end)[Len(r) + 1] = end /\ \A i \in 1..Len(r) : Append(m, end)[i] = m[i]
    BY <2>1, <2>2
  <2>7. QED
    BY <2>1, <2>2, <2>4, <2>5, <2>6 DEF m
<1> HIDE DEF piece, Code
<1>5. Agree(FlattenSeq(Code(s)), FlattenSeq(Code(t)))
  BY <1>4
<1> DEFINE u == Code(s)
           v == Code(t)
<1>6. /\ Len(s) \in Nat /\ Len(t) \in Nat
      /\ u \in Seq(Seq(Tokens)) /\ Len(u) = Len(s) + 1 /\ u[Len(s) + 1] = end
      /\ v \in Seq(Seq(Tokens)) /\ Len(v) = Len(t) + 1 /\ v[Len(t) + 1] = end
  <2>1. Len(s) \in Nat /\ Len(t) \in Nat
    OBVIOUS
  <2>2. u \in Seq(Seq(Tokens)) /\ Len(u) = Len(s) + 1 /\ u[Len(s) + 1] = end
    BY <1>4
  <2>3. v \in Seq(Seq(Tokens)) /\ Len(v) = Len(t) + 1 /\ v[Len(t) + 1] = end
    BY <1>4
  <2>4. QED
    BY <2>1, <2>2, <2>3
<1>61. /\ \A i \in 1..Len(s) : s[i] \in Tokens /\ u[i] = piece[s[i]]
       /\ \A i \in 1..Len(t) : t[i] \in Tokens /\ v[i] = piece[t[i]]
  BY <1>4
<1>62. Agree(FlattenSeq(u), FlattenSeq(v))
  BY <1>5
<1> HIDE DEF u, v
<1>7. ASSUME NEW i \in 1..Len(u), i \in 1..Len(v), Agree(u[i], v[i])
      PROVE  /\ i \in 1..Len(s) <=> i \in 1..Len(t)
             /\ u[i] = v[i]
             /\ i \in 1..Len(s) => s[i] = t[i]
  <2>1. i \in 1..Len(s) \/ i = Len(s) + 1
    BY <1>6
  <2>2. i \in 1..Len(t) \/ i = Len(t) + 1
    BY <1>6, <1>7
  <2>3. i \in 1..Len(s) => s[i] \in Tokens /\ u[i] = piece[s[i]]
    BY <1>61
  <2>4. i \in 1..Len(t) => t[i] \in Tokens /\ v[i] = piece[t[i]]
    BY <1>61
  <2>5. i = Len(s) + 1 => u[i] = end /\ i \notin 1..Len(s)
    BY <1>6
  <2>6. i = Len(t) + 1 => v[i] = end /\ i \notin 1..Len(t)
    BY <1>6
  <2>7. QED
    BY <1>2, <1>3, <1>7, <2>1, <2>2, <2>3, <2>4, <2>5, <2>6
<1>8. \A i \in 1..Len(u) : i \in 1..Len(v) => u[i] = v[i]
  <2>1. \A i \in 1..Len(u) : i \in 1..Len(v) /\ Agree(u[i], v[i]) => u[i] = v[i]
    BY <1>7
  <2>2. QED
    BY <1>6, <1>62, <2>1, SameWords
<1>9. \A i \in 1..Len(u) : i \in 1..Len(v) => Agree(u[i], v[i])
  BY <1>8 DEF Agree
<1>10. Len(s) = Len(t)
  <2>1. CASE Len(s) < Len(t)
    <3>1. Len(s) + 1 \in 1..Len(u) /\ Len(s) + 1 \in 1..Len(v) /\ Len(s) + 1 \in 1..Len(t)
      BY <1>6, <2>1
    <3>2. Len(s) + 1 \in 1..Len(s)
      BY <1>7, <1>9, <3>1
    <3>3. QED
      BY <1>6, <3>2
  <2>2. CASE Len(t) < Len(s)
    <3>1. Len(t) + 1 \in 1..Len(u) /\ Len(t) + 1 \in 1..Len(v) /\ Len(t) + 1 \in 1..Len(s)
      BY <1>6, <2>2
    <3>2. Len(t) + 1 \in 1..Len(t)
      BY <1>7, <1>9, <3>1
    <3>3. QED
      BY <1>6, <3>2
  <2>3. QED
    BY <1>6, <2>1, <2>2
<1>11. \A i \in 1..Len(t) : s[i] = t[i]
  <2>1. TAKE i \in 1..Len(t)
  <2>2. i \in 1..Len(u) /\ i \in 1..Len(v) /\ i \in 1..Len(s)
    BY <1>6, <1>10
  <2>3. QED
    BY <1>7, <1>9, <2>2
<1>12. QED
  BY <1>10, <1>11, SameSequence

LEMMA Differ ==
  ASSUME NEW T, NEW p \in Seq(T), NEW q \in Seq(T), NEW i \in 1..Len(p), i \in 1..Len(q), p[i] # q[i]
  PROVE  ~Agree(p, q) /\ ~Agree(q, p)
BY DEF Agree

LEMMA JsonStringsDiffer ==
  ASSUME NEW s \in Seq(Tokens), NEW t \in Seq(Tokens), Agree(JsonString(s), JsonString(t))
  PROVE  s = t
<1> DEFINE special == {"quote", "backslash"}
           es == Escaped(s, special, "backslash")
           et == Escaped(t, special, "backslash")
           q == <<"quote">>
<1>1. /\ "quote" \in Tokens /\ "backslash" \in Tokens /\ q \in Seq(Tokens)
  BY Words
<1>2. es \in Seq(Tokens) /\ et \in Seq(Tokens)
  BY <1>1, EscapedType
<1>3. ASSUME NEW c \in Tokens
      PROVE  LET piece == IF c \in special THEN <<"backslash", c>> ELSE <<c>>
             IN ~Agree(q, piece) /\ ~Agree(piece, q)
  <2> DEFINE piece == IF c \in special THEN <<"backslash", c>> ELSE <<c>>
  <2>1. <<"backslash", c>> \in Seq(Tokens) /\ <<c>> \in Seq(Tokens)
    <3>1. \A x, y \in Tokens : <<x, y>> \in Seq(Tokens) /\ <<x>> \in Seq(Tokens)
      OBVIOUS
    <3>2. QED
      BY <1>1, <3>1
  <2>2. piece \in Seq(Tokens) /\ 1 \in 1..Len(piece) /\ piece[1] # "quote"
    BY <2>1
  <2>3. 1 \in 1..Len(q) /\ q[1] = "quote"
    OBVIOUS
  <2> HIDE DEF piece, q
  <2>4. ~Agree(q, piece) /\ ~Agree(piece, q)
    BY <1>1, <2>2, <2>3, Differ
  <2>5. QED
    BY <2>4 DEF piece
<1>4. JsonString(s) = q \o (es \o q) /\ JsonString(t) = q \o (et \o q)
  <2>1. JsonString(s) = (q \o es) \o q /\ JsonString(t) = (q \o et) \o q
    BY DEF JsonString
  <2> HIDE DEF q, es, et
  <2>2. (q \o es) \o q = q \o (es \o q)
    BY <1>1, <1>2, TextsAssoc, Zenon
  <2>3. (q \o et) \o q = q \o (et \o q)
    BY <1>1, <1>2, TextsAssoc, Zenon
  <2>4. QED
    BY <2>1, <2>2, <2>3
<1>5. Agree(es \o q, et \o q)
  <2> HIDE DEF q, es, et
  <2>1. es \o q \in Seq(Tokens) /\ et \o q \in Seq(Tokens)
    BY <1>1, <1>2, TwoParts
  <2>2. QED
    BY <1>1, <1>4, <2>1, AgreeRest
<1>6. "backslash" \in special
  OBVIOUS
<1> HIDE DEF q, special
<1>7. QED
  BY <1>1, <1>3, <1>5, <1>6, EscapedWords

(* A field of a CSV line, as it is appended. *)
CsvText(text) == FlattenSeq(CsvField(text))

LEMMA CsvTextIs ==
  ASSUME NEW text \in Seq(Tokens)
  PROVE  /\ CsvText(text) \in Seq(Tokens)
         /\ CsvText(text) = IF NeedsQuotes(text)
                            THEN <<"quote">> \o (Escaped(text, {"quote"}, "quote") \o <<"quote">>)
                            ELSE text
<1>0. CsvText(text) \in Seq(Tokens)
  BY CsvFieldType, FlattenType DEF CsvText
<1>1. CASE ~NeedsQuotes(text)
  <2>1. CsvField(text) = <<text>>
    BY <1>1 DEF CsvField
  <2>2. QED
    BY <1>0, <1>1, <2>1, FlattenOne DEF CsvText
<1>2. CASE NeedsQuotes(text)
  <2> DEFINE inner == Escaped(text, {"quote"}, "quote")
             each == [i \in DOMAIN inner |-> <<inner[i]>>]
             q == <<"quote">>
  <2>1. CsvField(text) = (<<q>> \o each) \o <<q>>
    BY <1>2 DEF CsvField
  <2>2. "quote" \in Tokens /\ q \in Seq(Tokens)
    BY Words
  <2>3. inner \in Seq(Tokens)
    BY <2>2, EscapedType
  <2> HIDE DEF inner, q
  <2>4. FlattenSeq(each) = inner /\ each = Mapped([x \in Tokens |-> <<x>>], inner)
    <3>1. DOMAIN inner = 1..Len(inner) /\ \A i \in 1..Len(inner) : inner[i] \in Tokens
      BY <2>3
    <3>2. QED
      BY <2>3, <3>1, FlattenOnes DEF Mapped
  <2>5. each \in Seq(Seq(Tokens))
    <3> DEFINE one == [x \in Tokens |-> <<x>>]
    <3>1. one \in [Tokens -> Seq(Tokens)]
      BY Words
    <3>2. each = Mapped(one, inner)
      BY <2>4
    <3> HIDE DEF one
    <3>3. Mapped(one, inner) \in Seq(Seq(Tokens))
      BY <2>3, <3>1, MappedType, Zenon
    <3>4. QED
      BY <3>2, <3>3
  <2> HIDE DEF each
  <2>6. FlattenSeq(<<q>>) = q /\ <<q>> \in Seq(Seq(Tokens))
    BY <2>2, FlattenOne
  <2>7. FlattenSeq(<<q>> \o each) = q \o inner /\ <<q>> \o each \in Seq(Seq(Tokens))
    BY <2>4, <2>5, <2>6, FlattenConcat, TwoParts
  <2>8. FlattenSeq((<<q>> \o each) \o <<q>>) = (q \o inner) \o q
    BY <2>6, <2>7, FlattenConcat
  <2>9. (q \o inner) \o q = q \o (inner \o q)
    BY <2>2, <2>3, TextsAssoc, Zenon
  <2>10. QED
    BY <1>0, <1>2, <2>1, <2>8, <2>9 DEF CsvText, q, inner
<1>3. QED
  BY <1>1, <1>2

LEMMA PlainDiffers ==
  ASSUME NEW s \in Seq(Tokens), NEW t \in Seq(Tokens), ~NeedsQuotes(s), ~NeedsQuotes(t),
         NEW d \in {"comma", "newline"}, Agree(s \o <<d>>, t \o <<d>>)
  PROVE  s = t
<1> DEFINE u == s \o <<d>>
           v == t \o <<d>>
<1>1. /\ DOMAIN s = 1..Len(s) /\ DOMAIN t = 1..Len(t) /\ Len(s) \in Nat /\ Len(t) \in Nat
  OBVIOUS
<1>2. /\ \A i \in 1..Len(s) : s[i] # d
      /\ \A i \in 1..Len(t) : t[i] # d
  BY <1>1 DEF NeedsQuotes
<1>3. d \in Tokens /\ <<d>> \in Seq(Tokens) /\ Len(<<d>>) = 1 /\ <<d>>[1] = d
  BY Words
<1>4. Joins(u, s, <<d>>) /\ Joins(v, t, <<d>>)
  BY <1>3, TwoParts
<1>5. Agree(u, v)
  OBVIOUS
<1> HIDE DEF u, v
<1>6. /\ Len(u) = Len(s) + 1 /\ u[Len(s) + 1] = d /\ \A i \in 1..Len(s) : u[i] = s[i]
      /\ Len(v) = Len(t) + 1 /\ v[Len(t) + 1] = d /\ \A i \in 1..Len(t) : v[i] = t[i]
  <2>1. 1 \in 1..Len(<<d>>)
    BY <1>3
  <2>2. QED
    BY <1>1, <1>3, <1>4, <2>1 DEF Joins
<1>7. \A i \in 1..(Len(s) + 1) : i \in 1..(Len(t) + 1) => u[i] = v[i]
  BY <1>5, <1>6 DEF Agree
<1>8. Len(s) = Len(t)
  <2>1. CASE Len(s) < Len(t)
    <3>1. Len(s) + 1 \in 1..(Len(s) + 1) /\ Len(s) + 1 \in 1..(Len(t) + 1) /\ Len(s) + 1 \in 1..Len(t)
      BY <1>1, <2>1
    <3>2. QED
      BY <1>2, <1>6, <1>7, <3>1
  <2>2. CASE Len(t) < Len(s)
    <3>1. Len(t) + 1 \in 1..(Len(s) + 1) /\ Len(t) + 1 \in 1..(Len(t) + 1) /\ Len(t) + 1 \in 1..Len(s)
      BY <1>1, <2>2
    <3>2. QED
      BY <1>2, <1>6, <1>7, <3>1
  <2>3. \A m, n \in Nat : m < n \/ n < m \/ m = n
    OBVIOUS
  <2>4. QED
    BY <1>1, <2>1, <2>2, <2>3, Zenon
<1>9. \A i \in 1..Len(t) : s[i] = t[i]
  <2>1. TAKE i \in 1..Len(t)
  <2>2. i \in 1..(Len(s) + 1) /\ i \in 1..(Len(t) + 1) /\ i \in 1..Len(s)
    BY <1>1, <1>8
  <2>3. QED
    BY <1>6, <1>7, <2>2
<1>10. QED
  BY <1>8, <1>9, SameSequence

LEMMA QuotedIs ==
  ASSUME NEW r \in Seq(Tokens), NeedsQuotes(r), NEW d \in {"comma", "newline"}
  PROVE  /\ Escaped(r, {"quote"}, "quote") \in Seq(Tokens)
         /\ CsvText(r) \o <<d>>
              = <<"quote">> \o (Escaped(r, {"quote"}, "quote") \o (<<"quote">> \o <<d>>))
<1> DEFINE q == <<"quote">>
           x == Escaped(r, {"quote"}, "quote")
           e == <<d>>
<1>1. "quote" \in Tokens /\ d \in Tokens
  BY Words
<1>2. x \in Seq(Tokens) /\ q \in Seq(Tokens) /\ e \in Seq(Tokens)
  BY <1>1, EscapedType, Words
<1>3. CsvText(r) = q \o (x \o q)
  BY CsvTextIs
<1> HIDE DEF q, x, e
<1>4. (q \o (x \o q)) \o e = q \o (x \o (q \o e))
  <2>1. x \o q \in Seq(Tokens)
    BY <1>2, TwoParts
  <2>2. (q \o (x \o q)) \o e = q \o ((x \o q) \o e)
    BY <1>2, <2>1, TextsAssoc, Zenon
  <2>3. (x \o q) \o e = x \o (q \o e)
    BY <1>2, TextsAssoc, Zenon
  <2>4. QED
    BY <2>2, <2>3
<1>5. QED
  BY <1>2, <1>3, <1>4 DEF q, x, e

LEMMA QuotedDiffers ==
  ASSUME NEW s \in Seq(Tokens), NEW t \in Seq(Tokens), NeedsQuotes(s), NeedsQuotes(t),
         NEW d \in {"comma", "newline"}, Agree(CsvText(s) \o <<d>>, CsvText(t) \o <<d>>)
  PROVE  s = t
<1> DEFINE q == <<"quote">>
           end == q \o <<d>>
           special == {"quote"}
           Esc(r) == Escaped(r, special, "quote")
<1>1. /\ "quote" \in Tokens /\ d \in Tokens /\ q \in Seq(Tokens) /\ <<d>> \in Seq(Tokens)
      /\ end \in Seq(Tokens)
  <2>1. "quote" \in Tokens /\ d \in Tokens
    BY Words
  <2>2. q \in Seq(Tokens) /\ <<d>> \in Seq(Tokens)
    BY <2>1, Words
  <2> HIDE DEF q
  <2>3. end \in Seq(Tokens)
    BY <2>2, TwoParts
  <2>4. QED
    BY <2>1, <2>2, <2>3
<1>2. Len(end) = 2 /\ end[1] = "quote" /\ end[2] = d
  OBVIOUS
<1>3. ASSUME NEW c \in Tokens
      PROVE  LET piece == IF c \in special THEN <<"quote", c>> ELSE <<c>>
             IN ~Agree(end, piece) /\ ~Agree(piece, end)
  <2> DEFINE piece == IF c \in special THEN <<"quote", c>> ELSE <<c>>
  <2>1. <<"quote", c>> \in Seq(Tokens) /\ <<c>> \in Seq(Tokens)
    <3>1. \A x, y \in Tokens : <<x, y>> \in Seq(Tokens) /\ <<x>> \in Seq(Tokens)
      OBVIOUS
    <3>2. QED
      BY <1>1, <3>1
  <2> HIDE DEF end
  <2>2. CASE c = "quote"
    <3>1. piece \in Seq(Tokens) /\ 2 \in 1..Len(piece) /\ piece[2] = "quote"
      BY <2>1, <2>2
    <3>2. 2 \in 1..Len(end) /\ end[2] # "quote"
      BY <1>2
    <3> HIDE DEF piece
    <3>3. ~Agree(end, piece) /\ ~Agree(piece, end)
      BY <1>1, <3>1, <3>2, Differ
    <3>4. QED
      BY <3>3 DEF piece
  <2>3. CASE c # "quote"
    <3>1. piece \in Seq(Tokens) /\ 1 \in 1..Len(piece) /\ piece[1] # "quote"
      BY <2>1, <2>3
    <3>2. 1 \in 1..Len(end) /\ end[1] = "quote"
      BY <1>2
    <3> HIDE DEF piece
    <3>3. ~Agree(end, piece) /\ ~Agree(piece, end)
      BY <1>1, <3>1, <3>2, Differ
    <3>4. QED
      BY <3>3 DEF piece
  <2>4. QED
    BY <2>2, <2>3
<1>4. ASSUME NEW r \in Seq(Tokens), NeedsQuotes(r)
      PROVE  /\ Esc(r) \in Seq(Tokens)
             /\ CsvText(r) \o <<d>> = q \o (Esc(r) \o end)
  BY <1>4, QuotedIs
<1>5. Agree(Esc(s) \o end, Esc(t) \o end)
  <2>1. Esc(s) \in Seq(Tokens) /\ CsvText(s) \o <<d>> = q \o (Esc(s) \o end)
    BY <1>4
  <2>2. Esc(t) \in Seq(Tokens) /\ CsvText(t) \o <<d>> = q \o (Esc(t) \o end)
    BY <1>4
  <2> DEFINE x == Esc(s)
             y == Esc(t)
  <2> HIDE DEF q, end, x, y
  <2>3. x \o end \in Seq(Tokens) /\ y \o end \in Seq(Tokens)
    BY <1>1, <2>1, <2>2, TwoParts DEF x, y
  <2>4. Agree(q \o (x \o end), q \o (y \o end))
    BY <2>1, <2>2 DEF x, y
  <2>5. Agree(x \o end, y \o end)
    BY <1>1, <2>3, <2>4, AgreeRest
  <2>6. QED
    BY <2>5 DEF x, y
<1>6. "quote" \in special
  OBVIOUS
<1> HIDE DEF end, special
<1>7. QED
  BY <1>1, <1>3, <1>5, <1>6, EscapedWords

LEMMA QuotedNotPlain ==
  ASSUME NEW s \in Seq(Tokens), NEW t \in Seq(Tokens), NeedsQuotes(s), ~NeedsQuotes(t),
         NEW d \in {"comma", "newline"}
  PROVE  /\ ~Agree(CsvText(s) \o <<d>>, CsvText(t) \o <<d>>)
         /\ ~Agree(CsvText(t) \o <<d>>, CsvText(s) \o <<d>>)
<1> DEFINE u == CsvText(s) \o <<d>>
           v == CsvText(t) \o <<d>>
           q == <<"quote">>
           x == Escaped(s, {"quote"}, "quote") \o q
<1>1. d \in Tokens /\ <<d>> \in Seq(Tokens) /\ "quote" \in Tokens /\ q \in Seq(Tokens)
  BY Words
<1>2. x \in Seq(Tokens)
  BY <1>1, EscapedType, TwoParts
<1>3. CsvText(s) = q \o x /\ CsvText(t) = t /\ CsvText(s) \in Seq(Tokens)
  BY CsvTextIs
<1> HIDE DEF x
<1>4. u \in Seq(Tokens) /\ 1 \in 1..Len(u) /\ u[1] = "quote"
  <2>1. Len(q) = 1 /\ q[1] = "quote"
    OBVIOUS
  <2> HIDE DEF q
  <2>2. Joins(q \o x, q, x)
    BY <1>1, <1>2, TwoParts
  <2>3. Len(CsvText(s)) \in Nat /\ Len(CsvText(s)) >= 1 /\ CsvText(s)[1] = "quote"
    <3>1. Len(x) \in Nat /\ 1 \in 1..Len(q)
      BY <1>2, <2>1
    <3>2. QED
      BY <1>3, <2>1, <2>2, <3>1 DEF Joins
  <2>4. u \in Seq(Tokens) /\ Joins(u, CsvText(s), <<d>>)
    BY <1>1, <1>3, TwoParts
  <2> HIDE DEF u
  <2>5. Len(<<d>>) = 1
    OBVIOUS
  <2>6. 1 \in 1..Len(CsvText(s))
    BY <2>3
  <2>7. Len(u) = Len(CsvText(s)) + 1 /\ u[1] = CsvText(s)[1]
    BY <2>4, <2>5, <2>6 DEF Joins
  <2>8. QED
    BY <2>3, <2>4, <2>7
<1>5. v \in Seq(Tokens) /\ 1 \in 1..Len(v) /\ v[1] # "quote"
  <2>1. v = t \o <<d>>
    BY <1>3
  <2>2. v \in Seq(Tokens) /\ Joins(v, t, <<d>>)
    BY <1>1, <2>1, TwoParts
  <2> HIDE DEF v
  <2>3. Len(<<d>>) = 1 /\ <<d>>[1] = d /\ Len(t) \in Nat /\ DOMAIN t = 1..Len(t)
    OBVIOUS
  <2>4. Len(v) = Len(t) + 1
    BY <2>2, <2>3 DEF Joins
  <2>5. CASE Len(t) = 0
    <3>1. v[Len(t) + 1] = <<d>>[1]
      BY <2>2, <2>3 DEF Joins
    <3>2. QED
      BY <2>2, <2>3, <2>4, <2>5, <3>1
  <2>6. CASE Len(t) # 0
    <3>1. 1 \in 1..Len(t)
      BY <2>3, <2>6
    <3>2. v[1] = t[1]
      BY <2>2, <3>1 DEF Joins
    <3>3. t[1] # "quote"
      BY <2>3, <3>1 DEF NeedsQuotes
    <3>4. QED
      BY <2>2, <2>3, <2>4, <3>2, <3>3
  <2>7. QED
    BY <2>5, <2>6
<1> HIDE DEF u, v
<1>6. ~Agree(u, v) /\ ~Agree(v, u)
  BY <1>4, <1>5, Differ
<1>7. QED
  BY <1>6 DEF u, v

LEMMA CsvTextsDiffer ==
  ASSUME NEW s \in Seq(Tokens), NEW t \in Seq(Tokens),
         NEW d \in {"comma", "newline"}, Agree(CsvText(s) \o <<d>>, CsvText(t) \o <<d>>)
  PROVE  s = t
<1>1. CASE NeedsQuotes(s) /\ NeedsQuotes(t)
  BY <1>1, QuotedDiffers
<1>2. CASE ~NeedsQuotes(s) /\ ~NeedsQuotes(t)
  <2>1. CsvText(s) = s /\ CsvText(t) = t
    BY <1>2, CsvTextIs
  <2>2. QED
    BY <1>2, <2>1, PlainDiffers
<1>3. CASE NeedsQuotes(s) /\ ~NeedsQuotes(t)
  BY <1>3, QuotedNotPlain
<1>4. CASE ~NeedsQuotes(s) /\ NeedsQuotes(t)
  BY <1>4, QuotedNotPlain
<1>5. QED
  BY <1>1, <1>2, <1>3, <1>4

(* A JSON line is made of words: the name of a field, then its value.      *)
JsonHead(i) ==
  FlattenSeq(IF i > 1 THEN <<<<"comma">>>> ELSE <<>>) \o (JsonString(opt.fields[i]) \o <<":">>)
JsonWords(texts) == [i \in DOMAIN texts |-> FlattenSeq(JsonParts(texts)[i])]

LEMMA FlattenThree ==
  ASSUME NEW r \in Seq(Tokens), NEW s \in Seq(Tokens), NEW t \in Seq(Tokens)
  PROVE  <<r, s, t>> \in Seq(Seq(Tokens)) /\ FlattenSeq(<<r, s, t>>) = r \o (s \o t)
<1>1. <<r, s>> = Append(<<r>>, s) /\ <<r, s, t>> = Append(<<r, s>>, t)
  OBVIOUS
<1>2. <<r>> \in Seq(Seq(Tokens)) /\ <<r, s>> \in Seq(Seq(Tokens)) /\ <<r, s, t>> \in Seq(Seq(Tokens))
  OBVIOUS
<1>3. FlattenSeq(<<r, s>>) = r \o s
  BY <1>1, <1>2, FlattenAppend, FlattenOne
<1>4. FlattenSeq(<<r, s, t>>) = (r \o s) \o t
  BY <1>1, <1>2, <1>3, FlattenAppend
<1>5. (r \o s) \o t = r \o (s \o t)
  BY TextsAssoc, Zenon
<1>6. QED
  BY <1>2, <1>4, <1>5

LEMMA SeparatorType ==
  ASSUME NEW i
  PROVE  /\ (IF i > 1 THEN <<<<"comma">>>> ELSE <<>>) \in Seq(Seq(Tokens))
         /\ FlattenSeq(IF i > 1 THEN <<<<"comma">>>> ELSE <<>>)
              = IF i > 1 THEN <<"comma">> ELSE <<>>
<1>1. <<"comma">> \in Seq(Tokens)
  BY Words
<1>2. FlattenSeq(<<<<"comma">>>>) = <<"comma">> /\ <<<<"comma">>>> \in Seq(Seq(Tokens))
  BY <1>1, FlattenOne
<1>3. <<>> \in Seq(Seq(Tokens))
  OBVIOUS
<1>4. QED
  BY <1>2, <1>3, FlattenEmpty

LEMMA JsonWordIs ==
  ASSUME NEW texts, Fielded(texts), NEW i \in DOMAIN opt.fields
  PROVE  /\ JsonHead(i) \in Seq(Tokens) /\ JsonString(texts[i]) \in Seq(Tokens)
         /\ JsonWords(texts)[i] = JsonHead(i) \o JsonString(texts[i])
<1> DEFINE sep == IF i > 1 THEN <<<<"comma">>>> ELSE <<>>
           r == JsonString(opt.fields[i])
           t == JsonString(texts[i])
           c == <<":">>
           h == FlattenSeq(sep)
<1>1. i \in DOMAIN texts /\ texts[i] \in Seq(Tokens) /\ opt.fields[i] \in Seq(Tokens)
  <2>1. i \in DOMAIN texts /\ texts[i] \in Seq(Tokens)
    BY DEF Fielded
  <2>2. opt.fields[i] \in Seq(STRING)
    BY DEF Fielded
  <2>3. QED
    BY <2>1, <2>2, TextsAre
<1>2. r \in Seq(Tokens) /\ t \in Seq(Tokens) /\ c \in Seq(Tokens)
  BY <1>1, JsonStringType, Words
<1>3. sep \in Seq(Seq(Tokens))
  BY SeparatorType
<1>4. JsonWords(texts)[i] = FlattenSeq(sep \o <<r, c, t>>)
  BY <1>1 DEF JsonWords, JsonParts
<1>5. JsonHead(i) = h \o (r \o c)
  BY DEF JsonHead
<1> HIDE DEF sep, r, t, c
<1>6. h \in Seq(Tokens)
  BY <1>3, FlattenType
<1>7. FlattenSeq(sep \o <<r, c, t>>) = h \o (r \o (c \o t))
  <2>1. <<r, c, t>> \in Seq(Seq(Tokens)) /\ FlattenSeq(<<r, c, t>>) = r \o (c \o t)
    BY <1>2, FlattenThree
  <2>2. FlattenSeq(sep \o <<r, c, t>>) = h \o FlattenSeq(<<r, c, t>>)
    BY <1>3, <2>1, FlattenConcat, Zenon
  <2>3. QED
    BY <2>1, <2>2, Zenon
<1> HIDE DEF h
<1>8. r \o c \in Seq(Tokens) /\ h \o (r \o c) \in Seq(Tokens)
  BY <1>2, <1>6, TwoParts
<1>9. r \o (c \o t) = (r \o c) \o t
  BY <1>2, TextsAssoc, Zenon
<1>10. h \o ((r \o c) \o t) = (h \o (r \o c)) \o t
  BY <1>2, <1>6, <1>8, TextsAssoc, Zenon
<1>11. QED
  BY <1>2, <1>4, <1>5, <1>7, <1>8, <1>9, <1>10 DEF t

LEMMA JsonLineIs ==
  ASSUME NEW texts, Fielded(texts), opt.format # "csv"
  PROVE  /\ JsonWords(texts) \in Seq(Seq(Tokens)) /\ Len(JsonWords(texts)) = Len(opt.fields)
         /\ FlattenSeq(Pieces(texts))
              = <<"{">> \o (FlattenSeq(JsonWords(texts)) \o <<"}", "newline">>)
<1> DEFINE parts == JsonParts(texts)
           open == <<"{">>
           close == <<"}", "newline">>
           middle == FlattenSeq(parts)
           words == JsonWords(texts)
<1>1. parts \in Seq(Seq(Seq(Tokens))) /\ DOMAIN parts = DOMAIN texts
  BY PartsType DEF JsonParts
<1>2. open \in Seq(Tokens) /\ close \in Seq(Tokens)
  <2>1. \A x, y \in Tokens : <<x, y>> \in Seq(Tokens) /\ <<x>> \in Seq(Tokens)
    OBVIOUS
  <2>2. QED
    BY <2>1, Words
<1>3. Pieces(texts) = (<<open>> \o middle) \o <<close>>
  BY PiecesAre
<1>4. words = [i \in DOMAIN parts |-> FlattenSeq(parts[i])]
  BY <1>1 DEF JsonWords
<1>5. DOMAIN texts = DOMAIN opt.fields /\ opt.fields \in Seq(Seq(STRING))
  BY DEF Fielded
<1> HIDE DEF parts, open, close, words
<1>6. /\ DOMAIN parts = 1..Len(parts) /\ Len(parts) \in Nat /\ Len(parts) = Len(opt.fields)
      /\ \A i \in 1..Len(parts) : parts[i] \in Seq(Seq(Tokens))
  BY <1>1, <1>5
<1>7. words \in Seq(Seq(Tokens)) /\ Len(words) = Len(opt.fields)
  <2>1. \A i \in 1..Len(parts) : words[i] \in Seq(Tokens)
    BY <1>4, <1>6, FlattenType
  <2>2. words = [i \in 1..Len(parts) |-> words[i]]
    BY <1>4, <1>6
  <2>3. words \in Seq(Seq(Tokens)) /\ DOMAIN words = 1..Len(parts)
    BY <1>6, <2>1, <2>2, Listed, Zenon
  <2>4. QED
    BY <1>6, <2>3
<1>8. middle \in Seq(Seq(Tokens)) /\ FlattenSeq(middle) = FlattenSeq(words)
  BY <1>1, <1>4, FlattenType, FlattenFlatten
<1> HIDE DEF middle
<1>9. /\ FlattenSeq(<<open>>) = open /\ <<open>> \in Seq(Seq(Tokens))
      /\ FlattenSeq(<<close>>) = close /\ <<close>> \in Seq(Seq(Tokens))
  BY <1>2, FlattenOne
<1>10. <<open>> \o middle \in Seq(Seq(Tokens)) /\ FlattenSeq(<<open>> \o middle) = open \o FlattenSeq(words)
  BY <1>8, <1>9, FlattenConcat, TwoParts
<1>11. FlattenSeq((<<open>> \o middle) \o <<close>>) = (open \o FlattenSeq(words)) \o close
  <2> DEFINE a == <<open>> \o middle
             b == <<close>>
  <2>1. /\ a \in Seq(Seq(Tokens)) /\ FlattenSeq(a) = open \o FlattenSeq(words)
        /\ b \in Seq(Seq(Tokens)) /\ FlattenSeq(b) = close
    BY <1>9, <1>10, Zenon
  <2> HIDE DEF a, b
  <2>2. FlattenSeq(a \o b) = FlattenSeq(a) \o FlattenSeq(b)
    BY <2>1, FlattenConcat
  <2>3. QED
    BY <2>1, <2>2 DEF a, b
<1>12. FlattenSeq(words) \in Seq(Tokens)
  BY <1>7, FlattenType
<1>13. (open \o FlattenSeq(words)) \o close = open \o (FlattenSeq(words) \o close)
  BY <1>2, <1>12, TextsAssoc, Zenon
<1>14. QED
  BY <1>3, <1>7, <1>11, <1>13 DEF words, open, close

(* What two lines share, and then their first parts. *)
LEMMA AgreeFirst ==
  ASSUME NEW T, NEW a \in Seq(T), NEW x \in Seq(T), NEW y \in Seq(T), NEW b \in Seq(T),
         NEW c \in Seq(T), Agree(a \o (x \o b), a \o (y \o c))
  PROVE  Agree(x, y)
<1>1. x \o b \in Seq(T) /\ y \o c \in Seq(T)
  BY TwoParts
<1>2. Agree(x \o b, y \o c)
  BY <1>1, AgreeRest
<1>3. QED
  BY <1>2, AgreeStart

LEMMA SameTexts ==
  ASSUME NEW x, NEW y, Fielded(x), Fielded(y), \A i \in DOMAIN opt.fields : x[i] = y[i]
  PROVE  x = y
BY DEF Fielded

LEMMA JsonLinesDiffer ==
  ASSUME NEW x, NEW y, Fielded(x), Fielded(y), opt.format # "csv",
         FlattenSeq(Pieces(x)) = FlattenSeq(Pieces(y))
  PROVE  x = y
<1> DEFINE u == JsonWords(x)
           v == JsonWords(y)
           n == Len(opt.fields)
           open == <<"{">>
           close == <<"}", "newline">>
<1>1. /\ u \in Seq(Seq(Tokens)) /\ Len(u) = n
      /\ FlattenSeq(Pieces(x)) = open \o (FlattenSeq(u) \o close)
  BY JsonLineIs
<1>2. /\ v \in Seq(Seq(Tokens)) /\ Len(v) = n
      /\ FlattenSeq(Pieces(y)) = open \o (FlattenSeq(v) \o close)
  BY JsonLineIs
<1>3. open \in Seq(Tokens) /\ close \in Seq(Tokens)
  <2>1. \A a, b \in Tokens : <<a, b>> \in Seq(Tokens) /\ <<a>> \in Seq(Tokens)
    OBVIOUS
  <2>2. QED
    BY <2>1, Words
<1>4. n \in Nat /\ DOMAIN opt.fields = 1..n
  BY DEF Fielded
<1>5. ASSUME NEW i \in 1..n
      PROVE  /\ JsonHead(i) \in Seq(Tokens)
             /\ JsonString(x[i]) \in Seq(Tokens) /\ JsonString(y[i]) \in Seq(Tokens)
             /\ u[i] = JsonHead(i) \o JsonString(x[i])
             /\ v[i] = JsonHead(i) \o JsonString(y[i])
  BY <1>4, JsonWordIs
<1>6. \A i \in 1..n : x[i] \in Seq(Tokens) /\ y[i] \in Seq(Tokens)
  BY <1>4 DEF Fielded
<1> HIDE DEF u, v, open, close
<1>7. Agree(FlattenSeq(u), FlattenSeq(v))
  <2>1. FlattenSeq(u) \in Seq(Tokens) /\ FlattenSeq(v) \in Seq(Tokens)
    BY <1>1, <1>2, FlattenType
  <2>2. Agree(open \o (FlattenSeq(u) \o close), open \o (FlattenSeq(v) \o close))
    BY <1>1, <1>2 DEF Agree
  <2>3. QED
    BY <1>3, <2>1, <2>2, AgreeFirst
<1> HIDE DEF n
<1>8. ASSUME NEW i \in 1..n, Agree(u[i], v[i]) PROVE x[i] = y[i] /\ u[i] = v[i]
  <2> DEFINE h == JsonHead(i)
             p == JsonString(x[i])
             q == JsonString(y[i])
  <2>1. /\ h \in Seq(Tokens) /\ p \in Seq(Tokens) /\ q \in Seq(Tokens)
        /\ u[i] = h \o p /\ v[i] = h \o q
    BY <1>5
  <2> HIDE DEF h, p, q
  <2>2. Agree(p, q)
    BY <1>8, <2>1, AgreeRest
  <2>3. x[i] = y[i]
    BY <1>6, <2>2, JsonStringsDiffer DEF p, q
  <2>4. QED
    BY <2>1, <2>3 DEF p, q
<1>9. \A i \in 1..n : u[i] = v[i]
  <2>1. \A i \in 1..Len(u) : i \in 1..Len(v) /\ Agree(u[i], v[i]) => u[i] = v[i]
    BY <1>1, <1>8
  <2>2. \A i \in 1..Len(u) : i \in 1..Len(v) => u[i] = v[i]
    BY <1>1, <1>2, <1>7, <2>1, SameWords
  <2>3. QED
    BY <1>1, <1>2, <2>2
<1>10. \A i \in 1..n : x[i] = y[i]
  BY <1>8, <1>9 DEF Agree
<1>11. QED
  BY <1>4, <1>10, SameTexts

(* A CSV line is made of words too: a field and what ends it.              *)
CsvEnd(i) == IF i = Len(opt.fields) THEN <<"newline">> ELSE <<"comma">>
CsvWords(texts) == [i \in DOMAIN texts |-> CsvText(texts[i]) \o CsvEnd(i)]

LEMMA CsvWordIs ==
  ASSUME NEW texts, Fielded(texts), NEW i \in DOMAIN opt.fields
  PROVE  /\ CsvText(texts[i]) \in Seq(Tokens) /\ CsvEnd(i) \in Seq(Tokens)
         /\ CsvWords(texts)[i] = CsvText(texts[i]) \o CsvEnd(i)
         /\ FlattenSeq(CsvParts(texts)[i])
              = (IF i > 1 THEN <<"comma">> ELSE <<>>) \o CsvText(texts[i])
<1> DEFINE sep == IF i > 1 THEN <<<<"comma">>>> ELSE <<>>
<1>1. i \in DOMAIN texts /\ texts[i] \in Seq(Tokens)
  BY DEF Fielded
<1>2. CsvText(texts[i]) \in Seq(Tokens)
  BY <1>1, CsvTextIs
<1>3. CsvEnd(i) \in Seq(Tokens)
  BY Words DEF CsvEnd
<1>4. CsvWords(texts)[i] = CsvText(texts[i]) \o CsvEnd(i)
  BY <1>1 DEF CsvWords
<1>5. CsvParts(texts)[i] = sep \o CsvField(texts[i])
  BY <1>1 DEF CsvParts
<1>6. sep \in Seq(Seq(Tokens)) /\ FlattenSeq(sep) = IF i > 1 THEN <<"comma">> ELSE <<>>
  BY SeparatorType
<1> HIDE DEF sep
<1>7. FlattenSeq(sep \o CsvField(texts[i])) = FlattenSeq(sep) \o CsvText(texts[i])
  BY <1>1, <1>6, CsvFieldType, FlattenConcat DEF CsvText
<1>8. QED
  BY <1>2, <1>3, <1>4, <1>5, <1>6, <1>7

(* The parts of a line and its words, the end of a word moved to the next. *)
Shifted(n, w, v, c, start, end, comma, newline) ==
  /\ n \in Nat /\ n > 0 /\ comma \in Seq(Tokens) /\ newline \in Seq(Tokens)
  /\ w \in Seq(Seq(Tokens)) /\ v \in Seq(Seq(Tokens)) /\ c \in Seq(Seq(Tokens))
  /\ Len(w) = n /\ Len(v) = n /\ Len(c) = n
  /\ \A i \in 1..n : start[i] = IF i > 1 THEN comma ELSE <<>>
  /\ \A i \in 1..n : end[i] = IF i = n THEN newline ELSE comma
  /\ \A i \in 1..n : w[i] = start[i] \o c[i]
  /\ \A i \in 1..n : v[i] = c[i] \o end[i]

LEMMA CsvWordsAre ==
  ASSUME NEW n, NEW w, NEW v, NEW c, NEW start, NEW end, NEW comma, NEW newline,
         Shifted(n, w, v, c, start, end, comma, newline)
  PROVE  FlattenSeq(v) = FlattenSeq(w) \o newline
<1>01. /\ n \in Nat /\ n > 0 /\ comma \in Seq(Tokens) /\ newline \in Seq(Tokens)
       /\ w \in Seq(Seq(Tokens)) /\ v \in Seq(Seq(Tokens)) /\ c \in Seq(Seq(Tokens))
       /\ Len(w) = n /\ Len(v) = n /\ Len(c) = n
  BY DEF Shifted
<1>02. ASSUME NEW k \in 1..n
       PROVE  /\ end[k] \in Seq(Tokens) /\ (k # n => end[k] = comma) /\ (k = n => end[k] = newline)
              /\ (k = 1 => start[k] = <<>>) /\ (k # 1 => start[k] = comma)
              /\ w[k] = start[k] \o c[k] /\ v[k] = c[k] \o end[k]
  <2>1. end[k] = (IF k = n THEN newline ELSE comma) /\ start[k] = IF k > 1 THEN comma ELSE <<>>
    BY <1>02 DEF Shifted
  <2>2. w[k] = start[k] \o c[k] /\ v[k] = c[k] \o end[k]
    BY <1>02, Zenon DEF Shifted
  <2>3. k > 1 <=> k # 1
    BY <1>01
  <2>4. QED
    BY <1>01, <2>1, <2>2, <2>3
<1> DEFINE P == {k \in Nat : k + 1 <= n =>
                   FlattenSeq(SubSeq(v, 1, k + 1)) = FlattenSeq(SubSeq(w, 1, k + 1)) \o end[k + 1]}
<1>0. ASSUME NEW k \in 1..n
      PROVE  /\ SubSeq(w, 1, k - 1) \in Seq(Seq(Tokens)) /\ SubSeq(v, 1, k - 1) \in Seq(Seq(Tokens))
             /\ w[k] \in Seq(Tokens) /\ v[k] \in Seq(Tokens) /\ c[k] \in Seq(Tokens)
             /\ FlattenSeq(SubSeq(w, 1, k)) = FlattenSeq(SubSeq(w, 1, k - 1)) \o w[k]
             /\ FlattenSeq(SubSeq(v, 1, k)) = FlattenSeq(SubSeq(v, 1, k - 1)) \o v[k]
  <2>1. /\ SubSeq(w, 1, k - 1) \in Seq(Seq(Tokens)) /\ w[k] \in Seq(Tokens)
        /\ SubSeq(w, 1, k) = Append(SubSeq(w, 1, k - 1), w[k])
    BY <1>01, OneMore
  <2>2. /\ SubSeq(v, 1, k - 1) \in Seq(Seq(Tokens)) /\ v[k] \in Seq(Tokens)
        /\ SubSeq(v, 1, k) = Append(SubSeq(v, 1, k - 1), v[k])
    BY <1>01, OneMore
  <2>3. c[k] \in Seq(Tokens)
    BY <1>01
  <2>4. QED
    BY <2>1, <2>2, <2>3, FlattenAppend
<1>2. 0 \in P
  <2>1. SUFFICES ASSUME 1 <= n
                 PROVE FlattenSeq(SubSeq(v, 1, 1)) = FlattenSeq(SubSeq(w, 1, 1)) \o end[1]
    <3>1. 0 \in Nat /\ 0 + 1 = 1
      OBVIOUS
    <3>2. QED
      BY <3>1
  <2>2. 1 \in 1..n /\ SubSeq(v, 1, 0) = <<>> /\ SubSeq(w, 1, 0) = <<>>
    BY <1>01, <2>1
  <2>3. v[1] = c[1] \o end[1] /\ w[1] = <<>> \o c[1]
    BY <1>02, <2>2
  <2>4. v[1] \in Seq(Tokens) /\ w[1] \in Seq(Tokens) /\ c[1] \in Seq(Tokens)
    BY <1>0, <2>2
  <2>5. w[1] = c[1] /\ <<>> \o v[1] = v[1] /\ <<>> \o w[1] = w[1]
    BY <2>3, <2>4, Empties
  <2>6. /\ FlattenSeq(SubSeq(w, 1, 1)) = FlattenSeq(SubSeq(w, 1, 0)) \o w[1]
        /\ FlattenSeq(SubSeq(v, 1, 1)) = FlattenSeq(SubSeq(v, 1, 0)) \o v[1]
    <3>1. 1 - 1 = 0
      OBVIOUS
    <3>2. QED
      BY <1>0, <2>2, <3>1
  <2>7. QED
    BY <2>2, <2>3, <2>5, <2>6, FlattenEmpty
<1>3. ASSUME NEW k \in P PROVE k + 1 \in P
  <2> DEFINE j == k + 2
             a == FlattenSeq(SubSeq(w, 1, k + 1))
  <2>1. SUFFICES ASSUME k + 2 <= n
                 PROVE FlattenSeq(SubSeq(v, 1, j)) = FlattenSeq(SubSeq(w, 1, j)) \o end[j]
    <3>1. k \in Nat /\ k + 1 \in Nat /\ (k + 1) + 1 = j
      OBVIOUS
    <3>2. QED
      BY <3>1
  <2>2. /\ k \in Nat /\ j \in 1..n /\ k + 1 \in 1..n /\ j - 1 = k + 1 /\ j > 1 /\ k + 1 # n
        /\ FlattenSeq(SubSeq(v, 1, k + 1)) = a \o end[k + 1]
    <3>1. /\ k \in Nat /\ k + 1 <= n =>
               FlattenSeq(SubSeq(v, 1, k + 1)) = FlattenSeq(SubSeq(w, 1, k + 1)) \o end[k + 1]
      OBVIOUS
    <3>2. j \in 1..n /\ k + 1 \in 1..n /\ j - 1 = k + 1 /\ j > 1 /\ k + 1 # n /\ k + 1 <= n
      BY <1>01, <2>1, <3>1
    <3>3. QED
      BY <3>1, <3>2
  <2>3. end[k + 1] = comma
    BY <1>02, <2>2
  <2>4. v[j] = c[j] \o end[j] /\ w[j] = comma \o c[j]
    <3>1. v[j] = c[j] \o end[j] /\ w[j] = start[j] \o c[j] /\ (j # 1 => start[j] = comma)
      BY <1>02, <2>2, Zenon
    <3>2. j # 1
      BY <2>2
    <3>3. QED
      BY <3>1, <3>2, Zenon
  <2>5. c[j] \in Seq(Tokens) /\ end[j] \in Seq(Tokens) /\ a \in Seq(Tokens)
    <3>1. SubSeq(w, 1, k + 1) \in Seq(Seq(Tokens))
      BY <1>0, <2>2
    <3>2. a \in Seq(Tokens)
      BY <3>1, FlattenType
    <3>3. c[j] \in Seq(Tokens)
      BY <1>0, <2>2, Zenon
    <3>4. end[j] \in Seq(Tokens)
      BY <1>02, <2>2, Zenon
    <3>5. QED
      BY <3>2, <3>3, <3>4
  <2>6. /\ FlattenSeq(SubSeq(w, 1, j)) = a \o w[j]
        /\ FlattenSeq(SubSeq(v, 1, j)) = FlattenSeq(SubSeq(v, 1, k + 1)) \o v[j]
    BY <1>0, <2>2
  <2> DEFINE e == end[j]
  <2>7. (a \o comma) \o (c[j] \o e) = (a \o (comma \o c[j])) \o e
    <3> HIDE DEF a, e
    <3>1. a \in Seq(Tokens) /\ e \in Seq(Tokens) /\ c[j] \in Seq(Tokens)
      BY <2>5 DEF a, e
    <3>2. a \o comma \in Seq(Tokens) /\ comma \o c[j] \in Seq(Tokens)
      BY <1>01, <3>1, TwoParts
    <3>3. (a \o comma) \o (c[j] \o e) = ((a \o comma) \o c[j]) \o e
      BY <3>1, <3>2, TextsAssoc, Zenon
    <3>4. (a \o comma) \o c[j] = a \o (comma \o c[j])
      BY <1>01, <3>1, TextsAssoc, Zenon
    <3>5. QED
      BY <3>3, <3>4
  <2> HIDE DEF a, j
  <2>8. QED
    BY <2>2, <2>3, <2>4, <2>6, <2>7
<1> HIDE DEF P
<1>4. n - 1 \in P
  <2>1. P \in SUBSET Nat
    BY DEF P
  <2>2. P = Nat
    BY <1>2, <1>3, <2>1, Inductive
  <2>3. QED
    BY <1>01, <2>2
<1>5. SubSeq(v, 1, n) = v /\ SubSeq(w, 1, n) = w
  BY <1>01
<1>6. (n - 1) + 1 = n /\ (n - 1) + 1 <= n /\ n \in 1..n
  BY <1>01
<1>7. FlattenSeq(SubSeq(v, 1, n)) = FlattenSeq(SubSeq(w, 1, n)) \o end[n]
  BY <1>4, <1>6 DEF P
<1>8. QED
  BY <1>02, <1>5, <1>6, <1>7

LEMMA CsvLineIs ==
  ASSUME NEW texts, Fielded(texts), opt.format = "csv", opt.fields # <<>>
  PROVE  /\ CsvWords(texts) \in Seq(Seq(Tokens)) /\ Len(CsvWords(texts)) = Len(opt.fields)
         /\ FlattenSeq(Pieces(texts)) = FlattenSeq(CsvWords(texts))
<1> DEFINE n == Len(opt.fields)
           parts == CsvParts(texts)
           w == [i \in DOMAIN parts |-> FlattenSeq(parts[i])]
           v == CsvWords(texts)
           c == [i \in 1..n |-> CsvText(texts[i])]
           newline == <<"newline">>
           comma == <<"comma">>
           start == [i \in 1..n |-> IF i > 1 THEN comma ELSE <<>>]
           end == [i \in 1..n |-> IF i = n THEN newline ELSE comma]
<1>1. n \in Nat /\ n > 0 /\ DOMAIN opt.fields = 1..n /\ DOMAIN texts = 1..n
  BY DEF Fielded
<1>2. parts \in Seq(Seq(Seq(Tokens))) /\ DOMAIN parts = 1..n
  BY <1>1, PartsType DEF CsvParts
<1>3. newline \in Seq(Tokens) /\ comma \in Seq(Tokens)
  BY Words
<1>4. Pieces(texts) = FlattenSeq(parts) \o <<newline>>
  BY PiecesAre
<1>5. \A i \in 1..n : parts[i] \in Seq(Seq(Tokens)) /\ w[i] = FlattenSeq(parts[i])
  BY <1>2
<1>6. ASSUME NEW i \in 1..n
      PROVE  /\ CsvText(texts[i]) \in Seq(Tokens) /\ CsvEnd(i) \in Seq(Tokens)
             /\ v[i] = CsvText(texts[i]) \o CsvEnd(i)
             /\ FlattenSeq(parts[i]) = (IF i > 1 THEN comma ELSE <<>>) \o CsvText(texts[i])
             /\ CsvEnd(i) = end[i]
             /\ start[i] = (IF i > 1 THEN comma ELSE <<>>)
  BY <1>1, CsvWordIs DEF CsvEnd
<1>7. \A i \in 1..n : c[i] = CsvText(texts[i])
  OBVIOUS
<1>8. v = [i \in 1..n |-> v[i]] /\ w = [i \in 1..n |-> w[i]] /\ c = [i \in 1..n |-> c[i]]
  BY <1>1, <1>2 DEF CsvWords
<1>9. \A i \in 1..n : w[i] = start[i] \o c[i]
  BY <1>5, <1>6, <1>7
<1>10. \A i \in 1..n : v[i] = c[i] \o end[i]
  BY <1>6, <1>7
<1>11. ASSUME NEW i \in 1..n
       PROVE  v[i] \in Seq(Tokens) /\ w[i] \in Seq(Tokens) /\ c[i] \in Seq(Tokens)
  <2>1. c[i] \in Seq(Tokens)
    BY <1>6, <1>7
  <2>2. w[i] \in Seq(Tokens)
    BY <1>5, FlattenType
  <2>3. v[i] \in Seq(Tokens)
    <3> DEFINE a == CsvText(texts[i])
               e == CsvEnd(i)
    <3>1. a \in Seq(Tokens) /\ e \in Seq(Tokens) /\ v[i] = a \o e
      BY <1>6
    <3> HIDE DEF a, e, v
    <3>2. QED
      BY <3>1, TwoParts
  <2>4. QED
    BY <2>1, <2>2, <2>3
<1>12. FlattenSeq(FlattenSeq(parts)) = FlattenSeq(w) /\ FlattenSeq(parts) \in Seq(Seq(Tokens))
  BY <1>2, FlattenFlatten, FlattenType
<1>121. /\ \A i \in 1..n : start[i] = IF i > 1 THEN comma ELSE <<>>
        /\ \A i \in 1..n : end[i] = IF i = n THEN newline ELSE comma
  OBVIOUS
<1> HIDE DEF n, parts, w, v, c, newline, comma, start, end
<1>13. /\ v \in Seq(Seq(Tokens)) /\ w \in Seq(Seq(Tokens)) /\ c \in Seq(Seq(Tokens))
       /\ Len(v) = n /\ Len(w) = n /\ Len(c) = n
  <2>1. ASSUME NEW f, f = [i \in 1..n |-> f[i]], \A i \in 1..n : f[i] \in Seq(Tokens)
        PROVE  f \in Seq(Seq(Tokens)) /\ Len(f) = n
    <3>1. f \in Seq(Seq(Tokens)) /\ DOMAIN f = 1..n
      BY <1>1, <2>1, Listed, Zenon
    <3>2. QED
      BY <1>1, <3>1
  <2>2. QED
    BY <1>8, <1>11, <2>1
<1>14. FlattenSeq(v) = FlattenSeq(w) \o newline
  <2>1. Shifted(n, w, v, c, start, end, comma, newline)
    BY <1>1, <1>3, <1>9, <1>10, <1>121, <1>13 DEF Shifted
  <2>2. QED
    BY <2>1, CsvWordsAre, SMT
<1>15. FlattenSeq(FlattenSeq(parts) \o <<newline>>) = FlattenSeq(w) \o newline
  <2> DEFINE a == FlattenSeq(parts)
             b == <<newline>>
  <2>1. /\ a \in Seq(Seq(Tokens)) /\ FlattenSeq(a) = FlattenSeq(w)
        /\ b \in Seq(Seq(Tokens)) /\ FlattenSeq(b) = newline
    BY <1>3, <1>12, FlattenOne
  <2> HIDE DEF a, b
  <2>2. FlattenSeq(a \o b) = FlattenSeq(a) \o FlattenSeq(b)
    BY <2>1, FlattenConcat
  <2>3. QED
    BY <2>1, <2>2 DEF a, b
<1>16. QED
  BY <1>4, <1>13, <1>14, <1>15 DEF n, v

LEMMA CsvLinesDiffer ==
  ASSUME NEW x, NEW y, Fielded(x), Fielded(y), opt.format = "csv", opt.fields # <<>>,
         FlattenSeq(Pieces(x)) = FlattenSeq(Pieces(y))
  PROVE  x = y
<1> DEFINE u == CsvWords(x)
           v == CsvWords(y)
           n == Len(opt.fields)
<1>1. /\ u \in Seq(Seq(Tokens)) /\ Len(u) = n /\ FlattenSeq(Pieces(x)) = FlattenSeq(u)
      /\ v \in Seq(Seq(Tokens)) /\ Len(v) = n /\ FlattenSeq(Pieces(y)) = FlattenSeq(v)
  BY CsvLineIs
<1>2. n \in Nat /\ DOMAIN opt.fields = 1..n
  BY DEF Fielded
<1>3. ASSUME NEW i \in 1..n
      PROVE  u[i] = CsvText(x[i]) \o CsvEnd(i) /\ v[i] = CsvText(y[i]) \o CsvEnd(i)
  BY <1>2, CsvWordIs
<1>4. \A i \in 1..n : x[i] \in Seq(Tokens) /\ y[i] \in Seq(Tokens)
  BY <1>2 DEF Fielded
<1>5. Agree(FlattenSeq(u), FlattenSeq(v))
  BY <1>1 DEF Agree
<1> HIDE DEF u, v, n
<1>6. ASSUME NEW i \in 1..n, Agree(u[i], v[i]) PROVE x[i] = y[i] /\ u[i] = v[i]
  <2>1. PICK d \in {"comma", "newline"} : CsvEnd(i) = <<d>>
    BY DEF CsvEnd
  <2>2. Agree(CsvText(x[i]) \o <<d>>, CsvText(y[i]) \o <<d>>)
    BY <1>3, <1>6, <2>1
  <2>3. x[i] = y[i]
    BY <1>4, <2>2, CsvTextsDiffer
  <2>4. QED
    BY <1>3, <2>3
<1>7. \A i \in 1..n : u[i] = v[i]
  <2>1. \A i \in 1..Len(u) : i \in 1..Len(v) /\ Agree(u[i], v[i]) => u[i] = v[i]
    BY <1>1, <1>6
  <2>2. \A i \in 1..Len(u) : i \in 1..Len(v) => u[i] = v[i]
    BY <1>1, <1>5, <2>1, SameWords
  <2>3. QED
    BY <1>1, <2>2
<1>8. \A i \in 1..n : x[i] = y[i]
  BY <1>6, <1>7 DEF Agree
<1>9. QED
  BY <1>2, <1>8, SameTexts

(* Whatever the texts, the commas, quotes and line ends in them, and the   *)
(* number of fields: a line of output can have been printed for one record *)
(* only, in CSV and in JSON.                                               *)
THEOREM LinesReadBack == Spec => []OutputUnambiguous
<1>1. LInv => OutputUnambiguous
  <2> SUFFICES ASSUME LInv, pc = "emit", NEW l \in Captures, Readable(l), Rendered(l) = Rendered(line)
               PROVE  l = line
    BY DEF OutputUnambiguous
  <2>1. opt \in OptionSets /\ opt.regex /\ line \in Captures /\ Readable(line)
    BY Working DEF LInv, Phased, Settled, InputLines
  <2>2. opt.fields # <<>>
    BY <2>1 DEF LInv, Phased, Settled, Reading, Accepted
  <2>3. /\ l = [i \in DOMAIN opt.fields |-> l[i]] /\ Fielded(TextsOf(l))
        /\ \A i \in DOMAIN opt.fields : l[i] = {TextsOf(l)[i]}
    BY <2>1, <2>2, Captured
  <2>4. /\ line = [i \in DOMAIN opt.fields |-> line[i]] /\ Fielded(TextsOf(line))
        /\ \A i \in DOMAIN opt.fields : line[i] = {TextsOf(line)[i]}
    BY <2>1, <2>2, Captured
  <2> DEFINE x == TextsOf(l)
             y == TextsOf(line)
  <2>5. FlattenSeq(Pieces(x)) = FlattenSeq(Pieces(y))
    BY <2>1 DEF Rendered
  <2>6. Fielded(x) /\ Fielded(y)
    BY <2>3, <2>4
  <2> HIDE DEF x, y
  <2>7. x = y
    BY <2>2, <2>5, <2>6, CsvLinesDiffer, JsonLinesDiffer
  <2>8. \A i \in DOMAIN opt.fields : l[i] = line[i]
    BY <2>3, <2>4, <2>7 DEF x, y
  <2>9. QED
    BY <2>3, <2>4, <2>8
<1>2. QED
  BY LInvHolds, <1>1, PTL
=============================================================================
