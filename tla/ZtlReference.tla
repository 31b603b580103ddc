---------------------------- MODULE ZtlReference ----------------------------
(***************************************************************************)
(* What the plugin language is to mean, written without its scanner,       *)
(* parser and environments: how tokens are written, how trees are printed  *)
(* with the parentheses they need, and which variable a name is.  Module   *)
(* Algorithms compares the code with these definitions.                    *)
(***************************************************************************)
EXTENDS Integers, Sequences, SequencesExt, FiniteSetsExt

NoBlock == <<"no block">>

-----------------------------------------------------------------------------
\* Tokens of ZtlSyntax and their source text.
Q == "\""
Contents == {<<>>, <<"a">>} \cup {<<c, d>> : c \in {"a", Q, "\\", "\n", "NUL"}, d \in {Q, "\\", "n"}}
              \cup {<<"\\x0a", "a">>}
WordTokens == {<<"IDENT", <<"a">>>>, <<"IDENT", <<"i", "f", "1">>>>, <<"KEYWORD", <<"i", "f">>>>}
NumberTokens == {<<"NUMBER", <<"1">>>>, <<"NUMBER", <<"1", ".", "2">>>>}
Marks == {<<"PUNCT", p>> : p \in { <<".">>, <<"{">>, <<":">>, <<":", ":">>, <<"=">>, <<"=", "=">>,
                                   <<"!">>, <<"!", "=">>, <<"<">>, <<"<", "=">>, <<"-">>, <<"|", "|">> }}
Tokens == WordTokens \cup NumberTokens \cup Marks \cup {<<"STRING", s>> : s \in Contents}

WrittenChar(c) == CASE c \in {Q, "\\"} -> <<"\\", c>>
                    [] c = "NUL" -> <<"\\", "0">>
                    [] c = "\\x0a" -> <<"\\", "x", "0", "a">>
                    [] OTHER -> <<c>>
Written(t) == IF t[1] # "STRING" THEN t[2]
              ELSE <<Q>> \o FlattenSeq([i \in 1..Len(t[2]) |-> WrittenChar(t[2][i])]) \o <<Q>>

\* Two tokens that would be read as one, or as others, without a separator.
Glued(s, t) ==
    \/ s \in WordTokens /\ t \in WordTokens \cup NumberTokens
    \/ s \in NumberTokens /\ t \in NumberTokens
    \/ s \in Marks /\ t \in Marks /\ s[2] \in {<<"=">>, <<"!">>, <<"<">>} /\ t[2][1] = "="
    \/ s \in Marks /\ t \in Marks /\ s[2] = <<":">> /\ t[2][1] = ":"

Separators == {<<" ">>, <<"#", "a", Q, "\n">>, <<"/", "*", "*", Q, "*", "/">>, <<"/", "/", "\n", "\t">>}
WrittenTokens(ts, separator) ==
    FlattenSeq([i \in 1..Len(ts) |-> Written(ts[i]) \o separator])

-----------------------------------------------------------------------------
\* Trees of ZtlParser, and their tokens with as few parentheses as possible.
A == <<"identifier", "a">>
Atoms == {A, <<"literal", <<"NUMBER", 1>>>>, <<"scoped", "net", "tcp">>}
Operators == {"||", "&&", "==", "<", "+", "-"}
Assign == <<"assign", "x", A>>
Simple == Atoms
    \cup {<<"binary", op, A, A>> : op \in Operators}
    \cup {<<"unary", op, A>> : op \in {"!", "-"}}
    \cup {<<"member", A, "m">>, <<"call", A, <<>>, NoBlock>>,
          <<"call", A, <<>>, <<"block", <<Assign>>>>>>,
          <<"call", A, << <<"", A>>, <<"k", A>> >>, NoBlock>>}
Trees == Simple
    \cup {<<"binary", op, l, r>> : op \in Operators, l \in Simple, r \in Simple}
    \cup {<<"unary", op, e>> : op \in {"!", "-"}, e \in Simple}
    \cup {<<"member", e, "m">> : e \in Simple}
    \cup {<<"call", e, << <<"", f>> >>, b>> :
             e \in Simple, f \in Simple, b \in {NoBlock, <<"block", <<>>>>}}

\* How tightly the outermost construct of a tree binds.
Tightness(e) ==
    CASE e[1] = "binary" /\ e[2] = "||" -> 1
      [] e[1] = "binary" /\ e[2] = "&&" -> 2
      [] e[1] = "binary" /\ e[2] = "==" -> 3
      [] e[1] = "binary" /\ e[2] = "<" -> 4
      [] e[1] = "binary" /\ e[2] \in {"+", "-"} -> 5
      [] e[1] = "unary" -> 6
      [] OTHER -> 7

RECURSIVE Printed(_, _), PrintedStatements(_)

Printed(e, atLeast) ==
    LET PrintedArg(a) == (IF a[1] = "" THEN <<>> ELSE << <<"IDENT", a[1]>>, <<":">> >>)
                            \o Printed(a[2], 1)
        body ==
          CASE e[1] = "identifier" -> << <<"IDENT", e[2]>> >>
            [] e[1] = "literal" -> <<e[2]>>
            [] e[1] = "scoped" -> << <<"IDENT", e[2]>>, <<"::">>, <<"IDENT", e[3]>> >>
            [] e[1] = "unary" -> << <<e[2]>> >> \o Printed(e[3], 6)
            [] e[1] = "binary" ->
                 Printed(e[3], Tightness(e)) \o << <<e[2]>> >> \o Printed(e[4], Tightness(e) + 1)
            [] e[1] = "member" -> Printed(e[2], 7) \o << <<".">>, <<"IDENT", e[3]>> >>
            [] e[1] = "call" ->
                 Printed(e[2], 7) \o << <<"(">> >>
                   \o FlattenSeq([i \in 1..Len(e[3]) |->
                        (IF i > 1 THEN << <<",">> >> ELSE <<>>) \o PrintedArg(e[3][i])])
                   \o << <<")">> >>
                   \o IF e[4] = NoBlock THEN <<>>
                      ELSE << <<"{">> >> \o PrintedStatements(e[4][2]) \o << <<"}">> >>
    IN  IF Tightness(e) >= atLeast THEN body ELSE << <<"(">> >> \o body \o << <<")">> >>

Block(body) == << <<"{">> >> \o PrintedStatements(body) \o << <<"}">> >>
PrintedStatement(s) ==
    CASE s[1] = "expression" -> Printed(s[2], 1) \o << <<";">> >>
      [] s[1] = "assign" -> << <<"IDENT", s[2]>>, <<"=">> >> \o Printed(s[3], 1)
      [] s[1] = "return" -> << <<"return">> >>
            \o (IF s[2] = <<"nothing">> THEN <<>> ELSE Printed(s[2], 1)) \o << <<";">> >>
      [] s[1] = "include" -> << <<"include">>, <<"(">>, <<"STRING", s[2]>>, <<")">> >>
      [] s[1] = "if" -> << <<"if">>, <<"(">> >> \o Printed(s[2], 1) \o << <<")">> >> \o Block(s[3])
            \o CASE s[4] = <<>> -> <<>>
                 [] s[4] # <<>> /\ s[4][1][1] = "if" /\ Len(s[4]) = 1 ->
                      << <<"else">> >> \o PrintedStatements(s[4])
                 [] OTHER -> << <<"else">> >> \o Block(s[4])
PrintedStatements(body) ==
    IF body = <<>> THEN <<>> ELSE PrintedStatement(body[1]) \o PrintedStatements(Tail(body))

If(body, other) == <<"if", A, body, other>>
Statements ==
    {Assign, <<"return", <<"nothing">>>>, <<"return", A>>, <<"include", "ssh">>,
     <<"expression", <<"call", A, <<>>, <<"block", <<Assign, Assign>>>>>>>>,
     If(<<>>, <<>>), If(<<Assign>>, <<Assign>>), If(<<>>, <<If(<<Assign>>, <<>>)>>),
     If(<<>>, <<If(<<>>, <<Assign>>)>>), If(<<If(<<>>, <<>>)>>, <<Assign, Assign>>)}
Programs == {<<>>} \cup {<<s>> : s \in Statements} \cup {<<s, t>> : s \in Statements, t \in Statements}
    \cup {<< <<"expression", e>> >> : e \in Trees}

-----------------------------------------------------------------------------
\* What a plugin does to one variable, as a sequence of events: "open" and "close"
\* of a block, "run" and "end" of a plugin.run block, "set" and "report".
Set(n) == [do |-> "set", to |-> n]
Do(what) == [do |-> what, to |-> 0]

\* The value each report sees, 0 for none.  The variable belongs to the block (home)
\* of the first assignment that is still open; a plugin.run block sees globals only.
ReportedValues(events) ==
    LET Act(s, e) ==
          CASE e.do = "open" -> [s EXCEPT !.depth = @ + 1]
            [] e.do = "close" -> [s EXCEPT !.depth = @ - 1,
                                           !.home = IF @ = s.depth THEN -1 ELSE @]
            [] e.do = "run" -> [s EXCEPT !.depth = 1, !.outer = <<s.depth, s.home, s.value>>,
                                         !.home = IF @ = 0 THEN 0 ELSE -1]
            [] e.do = "end" -> [s EXCEPT !.depth = s.outer[1],
                                         !.home = IF s.outer[2] > 0 THEN s.outer[2]
                                                  ELSE IF @ = 0 THEN 0 ELSE -1,
                                         !.value = IF s.outer[2] > 0 THEN s.outer[3] ELSE @]
            [] e.do = "set" -> [s EXCEPT !.value = e.to, !.home = IF @ = -1 THEN s.depth ELSE @]
            [] e.do = "report" -> [s EXCEPT !.seen = Append(@, IF s.home = -1 THEN 0 ELSE s.value)]
    IN  FoldLeft(Act, [depth |-> 0, home |-> -1, value |-> 0, outer |-> <<>>, seen |-> <<>>],
                 events).seen
=============================================================================
