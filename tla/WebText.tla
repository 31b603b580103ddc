------------------------------ MODULE WebText ------------------------------
(***************************************************************************)
(* The text helpers of webui.cpp: the JSON that it writes and the fields   *)
(* it reads, and the cookie header.  A text is a sequence of one-character *)
(* strings.                                                                *)
(***************************************************************************)
EXTENDS Integers, Sequences, SequencesExt, FiniteSetsExt

Quote == "\""
Backslash == "\\"
NotFound == 0
ControlCode(c) == <<Backslash, "u", "0", "0", "1", c>>   \* "ctl" stands for a code 0x1c

\* Position of the first occurrence of part in text at or behind from.
Find(text, part, from) ==
    LET P == {i \in from..(Len(text) - Len(part) + 1) :
                 SubSeq(text, i, i + Len(part) - 1) = part}
    IN  IF P = {} THEN NotFound ELSE Min(P)

\* json_escape, as if a backslash were copied.
Bug_BackslashCopied(s) ==
    FlattenSeq([i \in 1..Len(s) |->
        CASE s[i] = Quote -> <<Backslash, Quote>>
          [] s[i] = "\n" -> <<Backslash, "n">>
          [] s[i] = "\r" -> <<Backslash, "r">>
          [] s[i] = "\t" -> <<Backslash, "t">>
          [] s[i] = "ctl" -> ControlCode("b")
          [] OTHER -> <<s[i]>>])

JsonEscape(s) ==
    FlattenSeq([i \in 1..Len(s) |->
        CASE s[i] \in {Quote, Backslash} -> <<Backslash, s[i]>>
          [] s[i] = "\n" -> <<Backslash, "n">>
          [] s[i] = "\r" -> <<Backslash, "r">>
          [] s[i] = "\t" -> <<Backslash, "t">>
          [] s[i] = "ctl" -> ControlCode("b")
          [] OTHER -> <<s[i]>>])

\* json_string_array.
JsonStringArray(values) ==
    <<"[">> \o FlattenSeq([i \in 1..Len(values) |->
                 (IF i > 1 THEN <<",">> ELSE <<>>)
                     \o <<Quote>> \o JsonEscape(values[i]) \o <<Quote>>])
            \o <<"]">>

\* Where the value of a key begins: behind the first "key", wherever it stands, the
\* next colon and blanks.
ValueAt(src, key) ==
    LET pat == <<Quote>> \o key \o <<Quote>>
        at == Find(src, pat, 1)
        colon == Find(src, <<":">>, at + Len(pat))
        value == {p \in (colon + 1)..Len(src) : src[p] \notin {" ", "\n", "\t", "\r"}}
    IN  IF at = NotFound \/ colon = NotFound \/ value = {} THEN NotFound ELSE Min(value)

\* The escapes that json_string_field knows; others lose their backslash.
Unescaped(c) == CASE c = "n" -> "\n" [] c = "t" -> "\t" [] OTHER -> c

\* The characters of a JSON string from position p to its closing quote, as if an
\* escaped quote closed it.
RECURSIVE Bug_EscapedQuoteEnds(_, _)
Bug_EscapedQuoteEnds(src, p) ==
    CASE p > Len(src) \/ (p <= Len(src) /\ src[p] = Quote) -> <<>>
      [] p < Len(src) /\ src[p] = Backslash /\ src[p + 1] # Quote ->
            <<Unescaped(src[p + 1])>> \o Bug_EscapedQuoteEnds(src, p + 2)
      [] OTHER -> <<src[p]>> \o Bug_EscapedQuoteEnds(src, p + 1)

\* The characters of a JSON string from position p to its closing quote.
RECURSIVE StringFrom(_, _)
StringFrom(src, p) ==
    CASE p > Len(src) \/ (p <= Len(src) /\ src[p] = Quote) -> <<>>
      [] p < Len(src) /\ src[p] = Backslash ->
            <<Unescaped(src[p + 1])>> \o StringFrom(src, p + 2)
      [] OTHER -> <<src[p]>> \o StringFrom(src, p + 1)

JsonStringField(src, key) ==
    LET p == ValueAt(src, key)
    IN  IF p = NotFound THEN <<>> ELSE IF src[p] # Quote THEN <<>> ELSE StringFrom(src, p + 1)

\* The digits of json_number_field, with the sign before them.
DigitOf == [c \in {"0", "1", "2"} |-> CASE c = "0" -> 0 [] c = "1" -> 1 [] c = "2" -> 2]
JsonNumberField(src, key) ==
    LET p == ValueAt(src, key)
        start == IF src[p] = "-" THEN p + 1 ELSE p
        end == Min({q \in start..Len(src) : src[q] \notin DOMAIN DigitOf} \cup {Len(src) + 1})
        v == FoldLeft(LAMBDA n, c : n * 10 + DigitOf[c], 0, SubSeq(src, start, end - 1))
    IN  IF p = NotFound THEN 0 ELSE IF src[p] = "-" THEN 0 - v ELSE v

-----------------------------------------------------------------------------
\* The pieces of a Cookie header: behind blanks and semicolons, up to the next one.
RECURSIVE Cookies(_, _)
Cookies(header, i) ==
    LET start == Min({p \in i..Len(header) : header[p] \notin {" ", ";"}} \cup {Len(header) + 1})
        end == Find(header, <<";">>, start)
    IN  CASE i > Len(header) -> <<>>
          [] i <= Len(header) /\ end = NotFound -> <<SubSeq(header, start, Len(header))>>
          [] OTHER -> <<SubSeq(header, start, end - 1)>> \o Cookies(header, end + 1)

\* cookie_value, as if the name could stand anywhere in a piece.
Bug_NameAnywhere(header, name) ==
    LET prefix == name \o <<"=">>
        hits == SelectSeq(Cookies(header, 1), LAMBDA kv : Find(kv, prefix, 1) # NotFound)
    IN  IF hits = <<>> THEN <<>>
        ELSE SubSeq(Head(hits), Find(Head(hits), prefix, 1) + Len(prefix), Len(Head(hits)))

\* cookie_value: the first piece that begins with the name and an equals sign.
CookieValue(header, name) ==
    LET prefix == name \o <<"=">>
        hits == SelectSeq(Cookies(header, 1), LAMBDA kv : IsPrefix(prefix, kv))
    IN  IF hits = <<>> THEN <<>> ELSE SubSeq(Head(hits), Len(prefix) + 1, Len(Head(hits)))
=============================================================================
