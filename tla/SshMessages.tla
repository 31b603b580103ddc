---------------------------- MODULE SshMessages ----------------------------
(***************************************************************************)
(* The SSH messages of protocols/ssh/terrapin.cpp: framing, the KEXINIT    *)
(* with its name lists, and the text lines that may stand before it.  Only *)
(* frames whose padding is shorter than the frame are modelled; lengths    *)
(* are then far from the width of their 32 bits.                           *)
(***************************************************************************)
EXTENDS Integers, Sequences, SequencesExt, FiniteSetsExt

Newline == 10
Comma == 44
KexinitType == 20

Zeros(n) == [i \in 1..n |-> 0]
EncodeUint32(n) == <<0, n \div 65536, (n \div 256) % 256, n % 256>>

\* The four bytes behind offset as a number; beyond a limit of the code it is "huge".
Huge == 16777216
Uint32(raw, offset) ==
    IF raw[offset + 1] > 0 THEN Huge
    ELSE raw[offset + 2] * 65536 + raw[offset + 3] * 256 + raw[offset + 4]

AppendNameList(out, list) == out \o EncodeUint32(Len(list)) \o list

\* build_kexinit_payload around its ten name lists.
KexinitPayload(lists) ==
    <<KexinitType>> \o Zeros(16)
        \o FoldLeft(AppendNameList, <<>>, lists) \o <<0>> \o EncodeUint32(0)

\* frame_ssh_packet: at least four bytes of padding.
FrameSshPacket(payload) ==
    LET gap == 8 - ((1 + Len(payload)) % 8)
        padding == IF gap < 4 THEN gap + 8 ELSE gap
    IN  EncodeUint32(1 + Len(payload) + padding) \o <<padding>> \o payload \o Zeros(padding)

\* The items of a comma-separated list that are not empty.
Items(list) ==
    LET cuts == {0, Len(list) + 1} \cup {i \in 1..Len(list) : list[i] = Comma}
        starts == SetToSortSeq({c \in cuts : c + 1 \notin cuts /\ c <= Len(list)}, <)
        Next(c) == Min({d \in cuts : d > c})
    IN  [i \in 1..Len(starts) |-> SubSeq(list, starts[i] + 1, Next(starts[i]) - 1)]

Failed == [ok |-> FALSE, items |-> <<>>, at |-> 0]

\* read_name_list, as if only the length had to lie before the end.
Bug_ListMayOverrun(raw, at, end) ==
    IF at + 4 > end THEN Failed
    ELSE LET n == Uint32(raw, at)
         IN  [ok |-> TRUE, items |-> Items(SubSeq(raw, at + 5, Min({at + 4 + n, Len(raw)}))),
              at |-> at + 4 + n]

\* read_name_list between offset at and the end of the payload.
ReadNameList(raw, at, end) ==
    IF at + 4 > end THEN Failed
    ELSE IF at + 4 + Uint32(raw, at) > end THEN Failed
    ELSE LET n == Uint32(raw, at)
         IN  [ok |-> TRUE, items |-> Items(SubSeq(raw, at + 5, at + 4 + n)), at |-> at + 4 + n]

NoKexinit == <<>>

\* parse_kexinit: the lists of key exchanges, of ciphers and of MACs to the client
\* are the first, the fourth and the sixth.
ParseKexinit(raw) ==
    IF Len(raw) < 6 THEN NoKexinit
    ELSE IF Len(raw) < 4 + Uint32(raw, 0) THEN NoKexinit
    ELSE LET end == 4 + Uint32(raw, 0) - raw[5]
             Read(list) == IF list.ok THEN ReadNameList(raw, list.at, end) ELSE Failed
             first == ReadNameList(raw, 22, end)
             lists == FoldLeft(LAMBDA ls, i : Append(ls, Read(ls[Len(ls)])), <<first>>,
                               <<2, 3, 4, 5, 6>>)
         IN  IF 5 >= end THEN NoKexinit
             ELSE IF raw[6] # KexinitType \/ ~lists[6].ok THEN NoKexinit
             ELSE <<lists[1].items, lists[4].items, lists[6].items>>

\* A whole KEXINIT begins at offset pos.
KexinitAt(raw, pos) ==
    /\ pos + 4 <= Len(raw)
    /\ Uint32(raw, pos) \in 1..65535
    /\ pos + 4 + Uint32(raw, pos) <= Len(raw)
    /\ pos + 5 < Len(raw)
    /\ raw[pos + 6] = KexinitType

\* strip_pre_kexinit_lines, as if it gave up at the first line that is text.
Bug_OneLineOnly(raw) ==
    LET starts == {0} \cup {i \in 1..(Len(raw) - 1) :
                              raw[i] = Newline /\ \A j \in 1..(i - 1) : raw[j] # Newline}
        found == {p \in starts : KexinitAt(raw, p)}
    IN  IF found = {} THEN raw ELSE SubSeq(raw, Min(found) + 1, Len(raw))

\* strip_pre_kexinit_lines: from the first line that is a whole KEXINIT; all of it
\* when no line is.
StripPreKexinitLines(raw) ==
    LET starts == {0} \cup {i \in 1..(Len(raw) - 1) : raw[i] = Newline}
        found == {p \in starts : KexinitAt(raw, p)}
    IN  IF found = {} THEN raw ELSE SubSeq(raw, Min(found) + 1, Len(raw))
=============================================================================
