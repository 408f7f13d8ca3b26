------------------------------ MODULE LinkIds ------------------------------
(***************************************************************************)
(* From ids to rows: the ids that the generators of several processes give *)
(* out (Snowflake) become codes, and the codes choose the tables that hold *)
(* the links (ShortCodes).  CreateShortLink does this with every id.       *)
(***************************************************************************)
EXTENDS Snowflake, ShortCodes

CONSTANT TellingDigits \* how many last digits decide about the table of codes that
                       \* differ by case only

\* Until MaxTime ids fit in the word, as 41 bits of milliseconds, 10 of node and
\* 12 of sequence do.
ASSUME WordAssumption == (MaxTime + 1) * (MaxNode + 1) * (MaxSequence + 1) <= WordSize

CodeOf(i) == EncodeBase62(i.id)

\* The codes of two links, the one with the lower id first, differ by case only:
\* CountVisits, whose table has the visits of all codes, counts those of both for either.
CountedTogether(i, j) == i.id < j.id /\ SameToMySQL(CodeOf(i), CodeOf(j))

\* Of two such links in one table the unique key admits only the one inserted first.
Refuse(i, j) == /\ CountedTogether(i, j)
                /\ ShardIndexFromID(i.id) = ShardIndexFromID(j.id)

LastDigitsAgree(s, t) ==
  \A d \in 0..(TellingDigits - 1) : d < Len(s) => s[Len(s) - d] = t[Len(t) - d]

-----------------------------------------------------------------------------
(* Properties                                                              *)

\* The code of every id fits the buffer, gives the id back, and names the table
\* that the row was inserted into by its id (EncodeBase62, DecodeBase62,
\* ShardIndexFromID, ShardIndexFromCode).
CodesRoundTrip ==
  \A i \in issued : /\ Len(CodeOf(i)) <= BufLen
                    /\ DecodeBase62(CodeOf(i)) = i.id
                    /\ ShardIndexFromCode(CodeOf(i)) = ShardIndexFromID(i.id)

\* Of two links whose codes differ by case only one is refused for the other exactly if
\* the codes agree in their last digits; if they differ there, both exist and their
\* visits are counted together (the unique keys of the tables, ShardIndexFromID,
\* CountVisits).
RefusedForUpperDigits ==
  \A i, j \in issued :
    CountedTogether(i, j) => (Refuse(i, j) <=> LastDigitsAgree(CodeOf(i), CodeOf(j)))
=============================================================================
