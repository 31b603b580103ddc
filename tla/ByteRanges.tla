----------------------------- MODULE ByteRanges ----------------------------
(***************************************************************************)
(* The byte ranges that httplib.h cuts out of any answer whose request     *)
(* asks for them.  A range is <<first, last>>, with Absent for a side that *)
(* is not given.                                                           *)
(***************************************************************************)
EXTENDS Integers, Sequences, FiniteSetsExt

CONSTANTS
    RangeMaxCount,  \* CPPHTTPLIB_RANGE_MAX_COUNT
    MaxOverlaps     \* the overlapping ranges that range_error lets pass

Absent == -1

\* parse_range_header for texts of numbers: each part has a side, and is not reversed.
ValidRange(r) == r # <<Absent, Absent>> /\ (r[1] # Absent /\ r[2] # Absent => r[1] <= r[2])
ParseRangeHeader(parts) == parts # <<>> /\ \A i \in 1..Len(parts) : ValidRange(parts[i])

\* range_error's rewriting, as if the last byte were the length.
Bug_LastIsLength(r, len) ==
    LET q == IF r[1] = Absent THEN <<len - r[2], len>> ELSE r
    IN  IF q[2] = Absent \/ q[2] >= len THEN <<q[1], len>> ELSE q

\* range_error's rewriting of one range: a suffix becomes a first position, and a last
\* position that is absent or behind the end the last byte.
Resolved(r, len) ==
    LET q == IF r[1] = Absent THEN <<len - r[2], len - 1>> ELSE r
    IN  IF q[2] = Absent \/ q[2] >= len THEN <<q[1], len - 1>> ELSE q

\* range_error: too many, outside, not ascending, or overlapping too often.
RangeError(parts, len) ==
    LET r == [i \in 1..Len(parts) |-> Resolved(parts[i], len)]
        PrevLast(i) == Max({r[j][2] : j \in 1..(i - 1)} \cup {-1})
    IN  \/ Len(parts) > RangeMaxCount
        \/ \E i \in 1..Len(parts) : ~(0 <= r[i][1] /\ r[i][1] <= r[i][2] /\ r[i][2] <= len - 1)
        \/ \E i \in 2..Len(parts) : r[i][1] <= r[i - 1][1]
        \/ Cardinality({i \in 1..Len(parts) : r[i][1] <= PrevLast(i)}) > MaxOverlaps

\* get_range_offset_and_length and make_content_range_header_field.
Slice(body, r) == SubSeq(body, r[1] + 1, r[1] + (r[2] - r[1]) + 1)
ContentRange(r, len) == <<r[1], r[1] + (r[2] - r[1] + 1) - 1, len>>

\* apply_ranges on the answer of a handler: the parts with their Content-Range, the
\* whole body when no range was asked for, or 416.
ApplyRanges(parts, body) ==
    IF parts = <<>> THEN [status |-> 200, parts |-> <<[range |-> <<>>, data |-> body]>>]
    ELSE IF ~ParseRangeHeader(parts) \/ RangeError(parts, Len(body))
    THEN [status |-> 416, parts |-> <<>>]
    ELSE [status |-> 206,
          parts |-> [i \in 1..Len(parts) |->
                       LET r == Resolved(parts[i], Len(body))
                       IN  [range |-> ContentRange(r, Len(body)), data |-> Slice(body, r)]]]
=============================================================================
