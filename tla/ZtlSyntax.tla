----------------------------- MODULE ZtlSyntax -----------------------------
(***************************************************************************)
(* Lexer::tokenize of the plugin language, from characters to tokens.  A   *)
(* source is a sequence of one-character strings, a token a pair of its    *)
(* type and its text.  Lines and columns only occur in messages and are    *)
(* left out.                                                               *)
(***************************************************************************)
EXTENDS Naturals, Sequences, FiniteSetsExt

-----------------------------------------------------------------------------
\* Characters.  "NUL" is '\0', which peek also returns past the end.
Blanks == {" ", "\t", "\r", "\n"}
Digits == {"0", "1", "2"}
HexDigits == Digits \cup {"a", "b", "f"}
Letters == {"a", "b", "e", "f", "i", "l", "n", "r", "s", "t", "u", "x", "y"}
WordChars == Letters \cup Digits \cup {"_"}

Peek(src, p) == IF p <= Len(src) THEN src[p] ELSE "NUL"

\* First position from p on whose character is not in class.
Span(src, p, class) == Min({q \in p..Len(src) : src[q] \notin class} \cup {Len(src) + 1})
LineEnd(src, p) == Min({q \in p..Len(src) : src[q] = "\n"} \cup {Len(src) + 1})
CommentEnd(src, p) ==
    Min({q + 2 : q \in {r \in p..(Len(src) - 1) : src[r] = "*" /\ src[r + 1] = "/"}}
          \cup {Len(src) + 1})

RECURSIVE SkipBlanks(_, _)
SkipBlanks(src, p) ==
    CASE Peek(src, p) \in Blanks -> SkipBlanks(src, p + 1)
      [] \/ Peek(src, p) = "#"
         \/ Peek(src, p) = "/" /\ Peek(src, p + 1) = "/" -> SkipBlanks(src, LineEnd(src, p))
      [] Peek(src, p) = "/" /\ Peek(src, p + 1) = "*" -> SkipBlanks(src, CommentEnd(src, p + 2))
      [] OTHER -> p

LexError == [ok |-> FALSE, token |-> <<"error", <<>>>>, next |-> 0]
Token(type, text, next) == [ok |-> TRUE, token |-> <<type, text>>, next |-> next]

\* Escapes with a character of their own; any other one stands for itself.
Escaped(c) == CASE c = "n" -> "\n" [] c = "t" -> "\t" [] c = "r" -> "\r" [] c = "0" -> "NUL"
                [] OTHER -> c
ByteOf(h, l) == "\\x" \o h \o l

\* read_string, with \" handled like the end of the string.
RECURSIVE Bug_StringEscapes(_, _, _)
Bug_StringEscapes(src, p, out) ==
    CASE p > Len(src) -> LexError
      [] src[p] = "\"" -> Token("STRING", out, p + 1)
      [] src[p] = "\\" /\ Peek(src, p + 1) # "\"" /\ p < Len(src) ->
            Bug_StringEscapes(src, p + 2, Append(out, Escaped(src[p + 1])))
      [] OTHER -> Bug_StringEscapes(src, p + 1, Append(out, src[p]))

\* read_string after its opening quote: p is the next character, out the text so far.
RECURSIVE ReadString(_, _, _)
ReadString(src, p, out) ==
    CASE p > Len(src) -> LexError
      [] src[p] = "\"" -> Token("STRING", out, p + 1)
      [] src[p] = "\\" /\ Peek(src, p + 1) = "x" ->
            IF p + 3 > Len(src) \/ ~({src[p + 2], src[p + 3]} \subseteq HexDigits) THEN LexError
            ELSE ReadString(src, p + 4, Append(out, ByteOf(src[p + 2], src[p + 3])))
      [] src[p] = "\\" /\ Peek(src, p + 1) # "x" /\ p < Len(src) ->
            ReadString(src, p + 2, Append(out, Escaped(src[p + 1])))
      [] OTHER -> ReadString(src, p + 1, Append(out, src[p]))

ReadNumber(src, p) ==
    LET whole == Span(src, p, Digits)
        end == IF Peek(src, whole) = "." /\ Peek(src, whole + 1) \in Digits
               THEN Span(src, whole + 1, Digits) ELSE whole
    IN  Token("NUMBER", SubSeq(src, p, end - 1), end)

Keywords == { <<"i", "f">>, <<"e", "l", "s", "e">>, <<"t", "r", "u", "e">>, <<"n", "u", "l", "l">> }

ReadWord(src, p) ==
    LET end == Span(src, p, WordChars)
        text == SubSeq(src, p, end - 1)
    IN  Token(IF text \in Keywords THEN "KEYWORD" ELSE "IDENT", text, end)

\* The punctuation that is one character whatever follows, the one that doubles
\* with a certain successor, and the one that must double.
Single == {"(", ")", "{", "}", "[", "]", ",", ";", ".", "+", "-"}
Doubles == {<<":", ":">>, <<"=", "=">>, <<"!", "=">>, <<"<", "=">>, <<">", "=">>}
MustDouble == {"&", "|"}

\* Punctuation without the longest match: "==" would be two tokens.
Bug_ReadPunctuation(src, p) ==
    CASE src[p] \in Single \cup {d[1] : d \in Doubles} -> Token("PUNCT", <<src[p]>>, p + 1)
      [] src[p] \in MustDouble /\ Peek(src, p + 1) = src[p] ->
            Token("PUNCT", <<src[p], src[p]>>, p + 2)
      [] OTHER -> LexError

ReadPunctuation(src, p) ==
    LET two == <<src[p], Peek(src, p + 1)>>
    IN  CASE src[p] \in Single -> Token("PUNCT", <<src[p]>>, p + 1)
          [] two \in Doubles \/ (src[p] \in MustDouble /\ two[2] = src[p]) ->
                Token("PUNCT", two, p + 2)
          [] two \notin Doubles /\ src[p] \in {d[1] : d \in Doubles} ->
                Token("PUNCT", <<src[p]>>, p + 1)
          [] OTHER -> LexError

ReadToken(src, p) ==
    CASE src[p] = "\"" -> ReadString(src, p + 1, <<>>)
      [] src[p] \in Digits -> ReadNumber(src, p)
      [] src[p] \in Letters \cup {"_"} -> ReadWord(src, p)
      [] OTHER -> ReadPunctuation(src, p)

EndOfFile == <<"EOF", <<>>>>

\* tokenize: the tokens from position p on, or <<"lex error">>.
RECURSIVE Tokenize(_, _)
Tokenize(src, p) ==
    LET q == SkipBlanks(src, p)
        t == ReadToken(src, q)
        rest == Tokenize(src, t.next)
    IN  CASE q > Len(src) -> <<EndOfFile>>
          [] q <= Len(src) /\ ~t.ok -> <<<<"lex error">>>>
          [] OTHER -> <<t.token>> \o rest
=============================================================================
