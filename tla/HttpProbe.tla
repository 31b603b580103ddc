----------------------------- MODULE HttpProbe -----------------------------
(***************************************************************************)
(* The HTTP client of the plugin language (Http.request, runner.cpp): how  *)
(* a response is received, taken apart and looked into.  A text is a       *)
(* sequence of one-character strings.                                      *)
(***************************************************************************)
EXTENDS Integers, Sequences, SequencesExt, FiniteSetsExt, TLC

\* Bounds: 20 receives and 128 KiB stand at these sizes.
MaxReceives == 3
MaxBytes == 4

Null == [null |-> TRUE]
Lower == ("A" :> "a") @@ ("B" :> "b")
ToLower(s) == [i \in 1..Len(s) |-> IF s[i] \in DOMAIN Lower THEN Lower[s[i]] ELSE s[i]]

\* trim: without white space at both ends.
Trim(s) ==
    LET ink == {i \in 1..Len(s) : s[i] \notin {" ", "\t", "\r", "\n"}}
    IN  IF ink = {} THEN <<>> ELSE SubSeq(s, Min(ink), Max(ink))

\* The lines of std::getline, each without a CR at its end.
RECURSIVE Lines(_)
Lines(text) ==
    LET at == Min({i \in 1..Len(text) : text[i] = "\n"} \cup {Len(text) + 1})
        line == SubSeq(text, 1, at - 1)
    IN  IF text = <<>> THEN <<>>
        ELSE <<IF line # <<>> /\ Last(line) = "\r" THEN Front(line) ELSE line>>
               \o Lines(SubSeq(text, at + 1, Len(text)))

\* std::stoi of the word behind the first blank of the status line; 0 when it has none.
DigitOf == [c \in {"0", "2", "4"} |-> CASE c = "0" -> 0 [] c = "2" -> 2 [] c = "4" -> 4]
StatusOf(line) ==
    LET blanks == {i \in 1..Len(line) : line[i] = " "}
        from == Min(blanks) + 1
        to == Min({i \in from..Len(line) : line[i] \notin DOMAIN DigitOf} \cup {Len(line) + 1}) - 1
    IN  IF blanks = {} THEN 0
        ELSE FoldLeft(LAMBDA n, c : n * 10 + DigitOf[c], 0, SubSeq(line, from, to))

At(text, part) ==
    Min({i \in 1..(Len(text) - Len(part) + 1) : SubSeq(text, i, i + Len(part) - 1) = part} \cup {Len(text) + 1})

\* parse_http_response, as if a field were cut at its last colon.
Bug_LastColon(raw) ==
    LET end == At(raw, <<"\r", "\n", "\r", "\n">>)
        lines == Lines(SubSeq(raw, 1, end - 1))
        fields == SelectSeq(Tail(lines), LAMBDA l : ":" \in ToSet(l))
        Colon(l) == Max({i \in 1..Len(l) : l[i] = ":"})
    IN  [null |-> FALSE, status |-> StatusOf(lines[1]),
         headers |-> [i \in 1..Len(fields) |->
            <<Trim(SubSeq(fields[i], 1, Colon(fields[i]) - 1)),
              Trim(SubSeq(fields[i], Colon(fields[i]) + 1, Len(fields[i])))>>],
         body |-> SubSeq(raw, end + 4, Len(raw))]

\* parse_http_response: status, fields up to an empty line, and what follows the head.
ParseHttpResponse(raw) ==
    LET end == At(raw, <<"\r", "\n", "\r", "\n">>)
        lines == Lines(SubSeq(raw, 1, end - 1))
        blank == Min({i \in 2..Len(lines) : lines[i] = <<>>} \cup {Len(lines) + 1})
        fields == SelectSeq(SubSeq(lines, 2, blank - 1), LAMBDA l : ":" \in ToSet(l))
        Colon(l) == At(l, <<":">>)
    IN  [null |-> FALSE,
         status |-> IF lines = <<>> THEN 0 ELSE StatusOf(lines[1]),
         headers |-> [i \in 1..Len(fields) |->
            <<Trim(SubSeq(fields[i], 1, Colon(fields[i]) - 1)),
              Trim(SubSeq(fields[i], Colon(fields[i]) + 1, Len(fields[i])))>>],
         body |-> SubSeq(raw, end + 4, Len(raw))]

\* response.header(name): the value of the first field of that name in any case.
Header(response, name) ==
    LET mine == SelectSeq(response.headers, LAMBDA h : ToLower(h[1]) = ToLower(name))
    IN  IF mine = <<>> THEN Null ELSE [null |-> FALSE, value |-> mine[1][2]]

-----------------------------------------------------------------------------
\* The receives of Http.request: until one is empty (closed, or too late), the last one
\* allowed, or more bytes than the limit.  chunks is what the receives answer.
Received(chunks) ==
    LET Size(n) == FoldLeft(LAMBDA s, c : s + Len(c), 0, SubSeq(chunks, 1, n))
        stops == {n \in 1..Len(chunks) : chunks[n] = <<>> \/ n = MaxReceives \/ Size(n) > MaxBytes}
    IN  FlattenSeq(SubSeq(chunks, 1, Min(stops \cup {Len(chunks)})))

\* Http.request: null when the host does not answer, the request cannot be sent or
\* nothing comes back.
Request(connected, sent, chunks) ==
    IF ~connected \/ ~sent \/ Received(chunks) = <<>> THEN Null ELSE ParseHttpResponse(Received(chunks))
=============================================================================
