------------------------------ MODULE DbFormat ------------------------------
(***************************************************************************)
(* The value field of a line of clip_store's database (db_format.c,        *)
(* lib/base64.c): empty for a tombstone, "Z:" and the compressed bytes in  *)
(* base64 otherwise.  A base64 character is its index in b64_table, and    *)
(* Equals stands for '='.  Results that may be -1 are sets, empty for -1.  *)
(***************************************************************************)
EXTENDS Integers, Sequences

CONSTANTS
  Values,    (* contents of rows                                     *)
  Tombstone, (* the empty one                                        *)
  Deflate    (* mz_compress: the bytes each other value is packed as *)

ASSUME DbFormatAssumption ==
  /\ Tombstone \in Values /\ DOMAIN Deflate = Values \ {Tombstone}
  /\ \A v \in DOMAIN Deflate : Deflate[v] \in Seq(0..255) \ {<<>>}
  /\ \A v, w \in DOMAIN Deflate : Deflate[v] = Deflate[w] => v = w

Equals == 64

(* Group g of a sequence in groups of n, zeros after its end, as a number *)
(* in the given base.                                                     *)
Group(src, g, n, base) ==
  LET digit(i) == IF n * g + i <= Len(src) THEN src[n * g + i] % base ELSE 0
  IN IF n = 3 THEN (digit(1) * base + digit(2)) * base + digit(3)
              ELSE ((digit(1) * base + digit(2)) * base + digit(3)) * base + digit(4)

(* Mutant of Padding: as many as there are bytes too many. *)
PaddingOfRest(len) == len % 3

Padding(len) == (3 - (len % 3)) % 3

(* What a character and a byte of a group count for: v >> 18, 12, 6, 0 and *)
(* v >> 16, 8, 0 divide by these.                                          *)
CharWeight == <<64 * 64 * 64, 64 * 64, 64, 1>>
ByteWeight == <<256 * 256, 256, 1>>

Base64Encode(src) ==
  LET n == 4 * ((Len(src) + 2) \div 3)
  IN [j \in 1..n |->
        IF j > n - Padding(Len(src)) THEN Equals
        ELSE (Group(src, (j - 1) \div 4, 3, 256) \div CharWeight[((j - 1) % 4) + 1]) % 64]

(* A '=' anywhere counts as a zero; a character that is not in the table   *)
(* has no index.                                                           *)
Base64Decode(src) ==
  LET n == Len(src)
      ends == {i \in {n - 1, n} : i > 0 /\ src[i] = Equals}
      ol == (n \div 4) * 3 - (IF n - 1 \in ends THEN 1 ELSE 0) - (IF n \in ends THEN 1 ELSE 0)
  IN IF n % 4 # 0 \/ \E i \in 1..n : src[i] \notin 0..Equals THEN {}
     ELSE {[i \in 1..ol |->
              (Group(src, (i - 1) \div 3, 4, 64) \div ByteWeight[((i - 1) % 3) + 1]) % 256]}

Inflate(bytes) == {v \in DOMAIN Deflate : Deflate[v] = bytes}

(* append_db_row and the value part of parse_db_row *)
Written(value) ==
  IF value = Tombstone THEN [packed |-> FALSE, text |-> <<>>]
  ELSE [packed |-> TRUE, text |-> Base64Encode(Deflate[value])]

(* A field without "Z:" is its own value; append_db_row writes no such     *)
(* field but the empty one.                                                *)
Read(field) ==
  IF field.packed THEN UNION {Inflate(bytes) : bytes \in Base64Decode(field.text)}
  ELSE {IF field.text = <<>> THEN Tombstone ELSE field.text}
=============================================================================
