---------------------------- MODULE ShortCodes ----------------------------
(***************************************************************************)
(* Short codes (internal/domain/link/base62.go, code.go, shard.go) and how *)
(* the tables compare them (migrations/001_init_short_link.sql).           *)
(*                                                                         *)
(* A code is the id in base 62, and its last digits decide about the       *)
(* table.  Codes tell upper from lower case; the columns that hold them do *)
(* not (utf8mb4_0900_ai_ci), neither in the unique key of a table nor in a *)
(* comparison.                                                             *)
(*                                                                         *)
(* A code is the sequence of its digits' values.  Surrounding space, which *)
(* the gateway trims, and other characters are left out.                   *)
(***************************************************************************)
EXTENDS Integers, FiniteSetsExt, Sequences

CONSTANTS
  Numerals,    \* base62Alphabet is "0".."9",
  Letters,     \* then "A".."Z" and "a".."z"
  WordSize,    \* 2^64
  BufLen,      \* length of EncodeBase62's buffer
  ShardCount

ASSUME AlphabetAssumption ==
  /\ Numerals \in Nat /\ Letters \in Nat /\ Numerals + Letters > 1
  /\ WordSize \in Nat \ {0} /\ BufLen \in Nat /\ ShardCount \in Nat \ {0}

Base == Numerals + 2 * Letters

\* What is left of n after each round of the loop; a round beyond the buffer is
\* its end (index out of range).
Left(n) ==
  LET left[k \in 0..(BufLen + 1)] == IF k = 0 THEN n ELSE left[k - 1] \div Base
  IN  left

\* The buffer takes the digits of every id, as 11 bytes take those of 64 bits.
ASSUME BufferAssumption == BufLen > 0 /\ Left(WordSize - 1)[BufLen] = 0

\* How many rounds there are, given what each leaves: one for zero, too.
Rounds(left) == CHOOSE k \in 1..(BufLen + 1) : /\ left[k] = 0 \/ k > BufLen
                                               /\ \A j \in 1..(k - 1) : left[j] # 0

\* Wrong on purpose: the digits in the order they are found.
EncodeReversed(n) ==
  LET left == Left(n) IN [i \in 1..Rounds(left) |-> left[i - 1] % Base]

\* The buffer is filled from its end.
EncodeBase62(n) ==
  LET left == Left(n)
      size == Rounds(left)
  IN  [i \in 1..size |-> left[size - i] % Base]

\* The multiplication wraps.
DecodeBase62(s) ==
  LET value[i \in 0..Len(s)] ==
        IF i = 0 THEN 0 ELSE (value[i - 1] * Base + s[i]) % WordSize
  IN  value[Len(s)]

\* Wrong on purpose: a table holds a range of ids.
ShardOfRange(id) == id \div (WordSize \div ShardCount)

ShardIndexFromID(id) == id % ShardCount

ShardIndexFromCode(s) == ShardIndexFromID(DecodeBase62(s))

\* What the collation compares.
Folded(s) ==
  [i \in DOMAIN s |-> IF s[i] >= Numerals + Letters THEN s[i] - Letters ELSE s[i]]

SameToMySQL(s, t) == Folded(s) = Folded(t)
=============================================================================
