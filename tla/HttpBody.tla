------------------------------ MODULE HttpBody ------------------------------
(***************************************************************************)
(* The bodies of HTTP messages in httplib.h in chunked transfer, as the    *)
(* stream of stream_scan uses it.                                          *)
(***************************************************************************)
EXTENDS HttpText

\* Lengths are one hexadecimal digit here.
Hex == <<"0", "1", "2", "3", "4", "5", "6", "7", "8", "9", "a", "b", "c", "d", "e", "f">>
FromIToHex(n) == <<Hex[n + 1]>>
IsHexDigit(c) == \E i \in 1..16 : Hex[i] = c
Strtoul(line) == (CHOOSE i \in 1..16 : Hex[i] = line[1]) - 1

\* data_sink.write, as if nothing were a chunk like any other.
Bug_EmptyChunk(payload) == FromIToHex(Len(payload)) \o CrLf \o payload \o CrLf

\* data_sink.write: one chunk, or nothing for an empty payload.
Chunk(payload) ==
    IF payload = <<>> THEN <<>> ELSE FromIToHex(Len(payload)) \o CrLf \o payload \o CrLf

\* write_content_chunked around a provider that is called once per element of calls,
\* writes the element's payloads and is done in the last call.  An empty last write
\* of a call ends the loop before the provider says that it is done.
WriteContentChunked(calls) ==
    LET quits == {i \in 1..(Len(calls) - 1) :
                     calls[i] # <<>> /\ calls[i][Len(calls[i])] = <<>>}
        last == IF quits = {} THEN Len(calls) ELSE Min(quits)
    IN  FlattenSeq([i \in 1..last |-> FlattenSeq([j \in 1..Len(calls[i]) |-> Chunk(calls[i][j])])])
            \o IF quits = {} THEN <<"0">> \o CrLf \o CrLf ELSE <<>>

NoBody == [ok |-> FALSE, body |-> <<>>, next |-> 0]

\* The trailer lines behind the last chunk, up to the blank line.
RECURSIVE SkipTrailer(_, _, _)
SkipTrailer(s, p, body) ==
    LET l == GetLine(s, p)
    IN  CASE ~l.ok -> NoBody
          [] l.ok /\ l.line = CrLf -> [ok |-> TRUE, body |-> body, next |-> l.next]
          [] OTHER -> SkipTrailer(s, l.next, body)

\* read_content_chunked; the body is whole also when only the final CR LF is missing.
RECURSIVE ReadContentChunked(_, _, _)
ReadContentChunked(s, p, body) ==
    LET l == GetLine(s, p)
        n == Strtoul(l.line)
        data == SubSeq(s, l.next, l.next + n - 1)
        crlf == GetLine(s, l.next + n)
    IN  IF ~l.ok THEN NoBody
        ELSE IF ~IsHexDigit(l.line[1]) THEN NoBody
        ELSE IF n = 0 THEN IF l.next > Len(s) THEN [ok |-> TRUE, body |-> body, next |-> l.next]
                           ELSE SkipTrailer(s, l.next, body)
        ELSE IF l.next + n - 1 > Len(s) \/ ~crlf.ok \/ crlf.line # CrLf THEN NoBody
        ELSE ReadContentChunked(s, crlf.next, body \o data)
=============================================================================
