----------------------------- MODULE DnsMessage -----------------------------
(***************************************************************************)
(* The messages of protocols/dns/resolver.cpp: the query that build_query  *)
(* makes and the walk of resolve through the answer.  A message is a       *)
(* sequence of bytes, a host name a sequence of labels.  The loop of       *)
(* resolve is modelled for messages that hold all of the last record they  *)
(* announce; its copy of an address behind the end is not.                 *)
(***************************************************************************)
EXTENDS Integers, Sequences, SequencesExt

HeaderSize == 12
Byte(msg, offset) == msg[offset + 1]   \* offsets count from 0
Word(msg, offset) == Byte(msg, offset) * 256 + Byte(msg, offset + 1)
EncodeWord(n) == <<n \div 256, n % 256>>

\* encode_hostname: the length of each label is cut to a byte.
EncodeHostname(labels) ==
    FlattenSeq([i \in 1..Len(labels) |-> <<Len(labels[i]) % 256>> \o labels[i]]) \o <<0>>

\* build_query: recursion desired, one question, type A, class IN.
BuildQuery(labels, id) ==
    EncodeWord(id) \o <<1, 0>> \o EncodeWord(1) \o EncodeWord(0) \o EncodeWord(0)
        \o EncodeWord(0) \o EncodeHostname(labels) \o EncodeWord(1) \o EncodeWord(1)

\* skip_name, as if a compression pointer were one byte.
RECURSIVE Bug_ShortPointer(_, _)
Bug_ShortPointer(msg, offset) ==
    CASE offset >= Len(msg) -> offset
      [] offset < Len(msg) /\ Byte(msg, offset) \in {0} \cup (192..255) -> offset + 1
      [] OTHER -> Bug_ShortPointer(msg, offset + 1 + Byte(msg, offset))

\* skip_name: to the byte behind a name, which ends in a zero or in a pointer.
RECURSIVE SkipName(_, _)
SkipName(msg, offset) ==
    CASE offset >= Len(msg) -> offset
      [] offset < Len(msg) /\ Byte(msg, offset) >= 192 -> offset + 2
      [] offset < Len(msg) /\ Byte(msg, offset) = 0 -> offset + 1
      [] OTHER -> SkipName(msg, offset + 1 + Byte(msg, offset))

None == <<>>

\* The loop of resolve over the records: the first A record, if the message holds it.
RECURSIVE FirstAddress(_, _, _)
FirstAddress(msg, offset, left) ==
    LET fixed == SkipName(msg, offset)
        length == Word(msg, fixed + 8)
    IN  CASE left = 0 \/ fixed + 10 > Len(msg) -> None
          [] left > 0 /\ fixed + 10 <= Len(msg) ->
                IF Word(msg, fixed) = 1 /\ length = 4
                THEN SubSeq(msg, fixed + 11, fixed + 14)
                ELSE FirstAddress(msg, fixed + 10 + length, left - 1)

\* resolve behind the receive: one question is skipped, whatever the header says.
Resolve(msg) ==
    IF Len(msg) < HeaderSize \/ Word(msg, 6) = 0 THEN None
    ELSE FirstAddress(msg, SkipName(msg, HeaderSize) + 4, Word(msg, 6))
=============================================================================
