------------------------------ MODULE HttpText ------------------------------
(***************************************************************************)
(* The texts of an HTTP message as httplib.h reads them: lines, header     *)
(* fields, query strings and their percent encoding, together with the     *)
(* urlencode of webui.cpp that writes the sign-in URL.  A text is a        *)
(* sequence of one-character strings.                                      *)
(***************************************************************************)
EXTENDS Integers, Sequences, SequencesExt, FiniteSetsExt, TLC

Blank == {" ", "\t"}

\* The characters that urlencode writes as a code, with their digits.
CodeOf == (" " :> <<"2", "0">>) @@ ("%" :> <<"2", "5">>) @@ ("&" :> <<"2", "6">>)
            @@ ("+" :> <<"2", "b">>) @@ ("=" :> <<"3", "d">>)
HexDigits == {"0", "1", "2", "3", "4", "5", "6", "a", "b", "c", "d", "e", "f"}
ByteOf(h, l) == IF \E c \in DOMAIN CodeOf : CodeOf[c] = <<h, l>>
                THEN CHOOSE c \in DOMAIN CodeOf : CodeOf[c] = <<h, l>> ELSE "\\x" \o h \o l

\* urlencode of webui.cpp, as if a plus sign were copied.
Bug_PlusCopied(s) ==
    FlattenSeq([i \in 1..Len(s) |->
        IF s[i] \in DOMAIN CodeOf \ {"+"} THEN <<"%">> \o CodeOf[s[i]] ELSE <<s[i]>>])

UrlEncode(s) ==
    FlattenSeq([i \in 1..Len(s) |->
        IF s[i] \in DOMAIN CodeOf THEN <<"%">> \o CodeOf[s[i]] ELSE <<s[i]>>])

AllHex(s, from, n) == from + n - 1 <= Len(s) /\ \A i \in from..(from + n - 1) : s[i] \in HexDigits

\* decode_url from position i on; %uXXXX is a code point.
RECURSIVE DecodeFrom(_, _, _)
DecodeFrom(s, i, plus) ==
    CASE i > Len(s) -> <<>>
      [] i < Len(s) /\ s[i] = "%" /\ s[i + 1] = "u" /\ AllHex(s, i + 2, 4) ->
            <<"\\u" \o s[i + 2] \o s[i + 3] \o s[i + 4] \o s[i + 5]>> \o DecodeFrom(s, i + 6, plus)
      [] i < Len(s) /\ s[i] = "%" /\ s[i + 1] # "u" /\ AllHex(s, i + 1, 2) ->
            <<ByteOf(s[i + 1], s[i + 2])>> \o DecodeFrom(s, i + 3, plus)
      [] OTHER -> <<IF plus /\ s[i] = "+" THEN " " ELSE s[i]>> \o DecodeFrom(s, i + 1, plus)

DecodeUrl(s, plus) == DecodeFrom(s, 1, plus)

\* trim: without the blanks at both ends.
Trim(s) ==
    LET ink == {i \in 1..Len(s) : s[i] \notin Blank}
    IN  IF ink = {} THEN <<>> ELSE SubSeq(s, Min(ink), Max(ink))

\* split: the trimmed parts between separators that are not empty.
Split(s, d) ==
    LET cuts == {0, Len(s) + 1} \cup {i \in 1..Len(s) : s[i] = d}
        Next(c) == Min({e \in cuts : e > c})
        starts == SetToSortSeq(cuts \ {Len(s) + 1}, <)
        parts == [i \in 1..Len(starts) |-> Trim(SubSeq(s, starts[i] + 1, Next(starts[i]) - 1))]
    IN  SelectSeq(parts, LAMBDA p : p # <<>>)

\* divide: what stands before the first d, and what stands behind it.
Divide(s, d) ==
    LET at == Min({i \in 1..Len(s) : s[i] = d} \cup {Len(s) + 1})
    IN  <<SubSeq(s, 1, at - 1), SubSeq(s, at + 1, Len(s))>>

\* parse_query_text, as if a value were divided at every equals sign.
Bug_ValueEndsAtEquals(query) ==
    {<<DecodeUrl(Divide(p, "=")[1], TRUE), DecodeUrl(Divide(Divide(p, "=")[2], "=")[1], TRUE)>> :
        p \in {q \in ToSet(Split(query, "&")) : Divide(q, "=")[1] # <<>>}}

\* parse_query_text: the parameters; a repeated pair counts once.
ParseQueryText(query) ==
    {<<DecodeUrl(Divide(p, "=")[1], TRUE), DecodeUrl(Divide(p, "=")[2], TRUE)>> :
        p \in {q \in ToSet(Split(query, "&")) : Divide(q, "=")[1] # <<>>}}

-----------------------------------------------------------------------------
\* stream_line_reader::getline from position p: up to a CR LF, or to the end of a
\* stream that was closed; nothing when the stream is at its end.
GetLine(s, p) ==
    LET ends == {i \in (p + 1)..Len(s) : s[i - 1] = "\r" /\ s[i] = "\n"}
        end == IF ends = {} THEN Len(s) ELSE Min(ends)
    IN  [ok |-> p <= Len(s), line |-> SubSeq(s, p, end), next |-> end + 1]

CrLf == <<"\r", "\n">>
EndsWithCrLf(line) == Len(line) >= 2 /\ SubSeq(line, Len(line) - 1, Len(line)) = CrLf

\* is_field_name and is_field_value, for the characters that occur.
NotInNames == Blank \cup {":", "\r", "\n"}
IsFieldName(s) == s # <<>> /\ ToSet(s) \cap NotInNames = {}
IsFieldValue(s) ==
    /\ ToSet(s) \cap {"\r", "\n"} = {}
    /\ s # <<>> => s[1] \notin Blank /\ s[Len(s)] \notin Blank

NoField == <<>>

\* parse_header, as if the value began right behind the colon.
Bug_BlankKept(line) ==
    LET kv == Divide(line, ":")
    IN  IF ~IsFieldName(kv[1]) \/ Len(kv[1]) = Len(line) THEN NoField
        ELSE <<kv[1], DecodeUrl(kv[2], FALSE)>>

\* parse_header: the name and its decoded value.
ParseHeader(line) ==
    LET ink == {i \in 1..Len(line) : line[i] \notin Blank}
        text == IF ink = {} THEN <<>> ELSE SubSeq(line, 1, Max(ink))
        kv == Divide(text, ":")
    IN  IF ~IsFieldName(kv[1]) \/ Len(kv[1]) = Len(text) \/ ~IsFieldValue(Trim(kv[2]))
        THEN NoField ELSE <<kv[1], DecodeUrl(Trim(kv[2]), FALSE)>>

BadHeaders == [ok |-> FALSE, fields |-> <<>>, next |-> 0]

\* read_headers: the fields up to the blank line; a line that is no field fails.
RECURSIVE ReadHeaders(_, _, _)
ReadHeaders(s, p, fields) ==
    LET l == GetLine(s, p)
        field == ParseHeader(SubSeq(l.line, 1, Len(l.line) - 2))
    IN  CASE ~l.ok -> BadHeaders
          [] l.ok /\ ~EndsWithCrLf(l.line) -> ReadHeaders(s, l.next, fields)
          [] l.ok /\ l.line = CrLf -> [ok |-> TRUE, fields |-> fields, next |-> l.next]
          [] l.ok /\ EndsWithCrLf(l.line) /\ l.line # CrLf ->
                IF field = NoField THEN BadHeaders ELSE ReadHeaders(s, l.next, Append(fields, field))
=============================================================================
