----------------------------- MODULE ZtlParser -----------------------------
(***************************************************************************)
(* Parser::parse_program over the tokens of module ZtlSyntax: one operator *)
(* per nonterminal of parser.cpp, except that the five levels of left-     *)
(* associative operators share one.  A result is [ok, node, at] with at    *)
(* the position of the next token; ParseError is a result that is not ok.  *)
(* Texts of tokens are abstracted to their type where nothing depends on   *)
(* them: a token is <<type, text>>, punctuation and keywords <<text>>.     *)
(***************************************************************************)
EXTENDS Naturals, Sequences, FiniteSetsExt

Id(name) == <<"IDENT", name>>
Num(n) == <<"NUMBER", n>>
Str(s) == <<"STRING", s>>
P(text) == <<text>>

\* peek stays on the last token, END_OF_FILE, and advance does not move past it.
At(ts, p) == IF p <= Len(ts) THEN ts[p] ELSE P("EOF")
Type(ts, p) == At(ts, p)[1]
Step(ts, p) == IF p < Len(ts) THEN p + 1 ELSE p

Fail == [ok |-> FALSE, node |-> <<"error">>, at |-> 0]
Done(node, p) == [ok |-> TRUE, node |-> node, at |-> p]
Then(r, F(_, _)) == IF r.ok THEN F(r.node, r.at) ELSE Fail
Expect(ts, p, type, F(_)) == IF Type(ts, p) = type THEN F(Step(ts, p)) ELSE Fail

\* match(SEMICOLON): a statement may end with one.
AfterSemicolon(ts, p) == IF Type(ts, p) = ";" THEN Step(ts, p) ELSE p

\* From loose to tight.
Levels == << {"||"}, {"&&"}, {"==", "!="}, {"<", ">", "<=", ">="}, {"+", "-"} >>
Literals == {"NUMBER", "STRING", "true", "false", "null"}

RECURSIVE ParseLevel(_, _, _), ParseLoop(_, _, _, _), ParseUnary(_, _), ParsePrimary(_, _),
          ParsePostfix(_, _, _), ParseArgs(_, _, _), ParseBlock(_, _, _), ParseStatement(_, _),
          ParseIf(_, _), ParseProgram(_, _, _)

ParseExpression(ts, p) == ParseLevel(ts, p, 1)

\* parse_or .. parse_additive: an operand of the next level, then the loop.
ParseLevel(ts, p, k) ==
    IF k > Len(Levels) THEN ParseUnary(ts, p)
    ELSE Then(ParseLevel(ts, p, k + 1), LAMBDA l, q : ParseLoop(ts, q, k, l))

\* The loop of a level, as if the operators associated to the right.
Bug_RightAssociative(ts, p, k, lhs) ==
    IF Type(ts, p) \notin Levels[k] THEN Done(lhs, p)
    ELSE Then(ParseLevel(ts, Step(ts, p), k),
              LAMBDA r, q : Done(<<"binary", Type(ts, p), lhs, r>>, q))

\* The loop of a level: lhs grows to the left.
ParseLoop(ts, p, k, lhs) ==
    IF Type(ts, p) \notin Levels[k] THEN Done(lhs, p)
    ELSE Then(ParseLevel(ts, Step(ts, p), k + 1),
              LAMBDA r, q : ParseLoop(ts, q, k, <<"binary", Type(ts, p), lhs, r>>))

ParseUnary(ts, p) ==
    IF Type(ts, p) \in {"!", "-"}
    THEN Then(ParseUnary(ts, Step(ts, p)), LAMBDA e, q : Done(<<"unary", Type(ts, p), e>>, q))
    ELSE Then(ParsePrimary(ts, p), LAMBDA e, q : ParsePostfix(ts, q, e))

ParsePrimary(ts, p) ==
    LET t == At(ts, p)
        q == Step(ts, p)
    IN  CASE t[1] \in Literals -> Done(<<"literal", t>>, q)
          [] t[1] = "IDENT" /\ Type(ts, q) = "::" ->
                Expect(ts, Step(ts, q), "IDENT",
                       LAMBDA r : Done(<<"scoped", t[2], At(ts, Step(ts, q))[2]>>, r))
          [] t[1] = "IDENT" /\ Type(ts, q) # "::" -> Done(<<"identifier", t[2]>>, q)
          [] t[1] = "(" ->
                Then(ParseExpression(ts, q),
                     LAMBDA e, r : Expect(ts, r, ")", LAMBDA s : Done(e, s)))
          [] OTHER -> Fail

NoBlock == <<"no block">>

\* parse_postfix: members, calls, and blocks that trail a call or stand for one.
ParsePostfix(ts, p, node) ==
    LET Call(args, q) ==
          IF Type(ts, q) # "{" THEN ParsePostfix(ts, q, <<"call", node, args, NoBlock>>)
          ELSE Then(ParseBlock(ts, Step(ts, q), <<>>),
                    LAMBDA b, r : ParsePostfix(ts, r, <<"call", node, args, <<"block", b>>>>))
    IN  CASE Type(ts, p) = "." ->
                Expect(ts, Step(ts, p), "IDENT",
                       LAMBDA q : ParsePostfix(ts, q, <<"member", node, At(ts, Step(ts, p))[2]>>))
          [] Type(ts, p) = "(" -> Then(ParseArgs(ts, Step(ts, p), <<>>), Call)
          [] Type(ts, p) = "{" -> Call(<<>>, p)
          [] OTHER -> Done(node, p)

\* parse_call_args after its parenthesis; a comma may stand before the closing one.
ParseArgs(ts, p, args) ==
    LET named == Type(ts, p) = "IDENT" /\ Type(ts, Step(ts, p)) = ":"
        name == IF named THEN At(ts, p)[2] ELSE ""
        start == IF named THEN Step(ts, Step(ts, p)) ELSE p
    IN  IF Type(ts, p) \in {")", "EOF"}
        THEN Expect(ts, p, ")", LAMBDA q : Done(args, q))
        ELSE Then(ParseExpression(ts, start),
                  LAMBDA e, q :
                    IF Type(ts, q) = "," THEN ParseArgs(ts, Step(ts, q), Append(args, <<name, e>>))
                    ELSE Expect(ts, q, ")", LAMBDA r : Done(Append(args, <<name, e>>), r)))

\* parse_block after its brace.
ParseBlock(ts, p, body) ==
    IF Type(ts, p) \in {"}", "EOF"}
    THEN Expect(ts, p, "}", LAMBDA q : Done(body, q))
    ELSE Then(ParseStatement(ts, p), LAMBDA s, q : ParseBlock(ts, q, Append(body, s)))

ParseInclude(ts, p) ==
    Expect(ts, p, "(", LAMBDA q :
      Expect(ts, q, "STRING", LAMBDA r :
        Expect(ts, r, ")", LAMBDA s : Done(<<"include", At(ts, q)[2]>>, AfterSemicolon(ts, s)))))

\* parse_if after its keyword; "else if" nests in the else branch.
ParseIf(ts, p) ==
    Expect(ts, p, "(", LAMBDA a :
      Then(ParseExpression(ts, a), LAMBDA cond, b :
        Expect(ts, b, ")", LAMBDA c :
          Expect(ts, c, "{", LAMBDA d :
            Then(ParseBlock(ts, d, <<>>), LAMBDA body, e :
              CASE Type(ts, e) # "else" -> Done(<<"if", cond, body, <<>>>>, e)
                [] Type(ts, e) = "else" /\ Type(ts, Step(ts, e)) = "if" ->
                     Then(ParseIf(ts, Step(ts, Step(ts, e))),
                          LAMBDA other, f : Done(<<"if", cond, body, <<other>>>>, f))
                [] OTHER ->
                     Expect(ts, Step(ts, e), "{", LAMBDA f :
                       Then(ParseBlock(ts, f, <<>>),
                            LAMBDA other, g : Done(<<"if", cond, body, other>>, g))))))))

ParseReturn(ts, p) ==
    IF Type(ts, p) \in {";", "}", "EOF"}
    THEN Done(<<"return", <<"nothing">>>>, AfterSemicolon(ts, p))
    ELSE Then(ParseExpression(ts, p),
              LAMBDA e, q : Done(<<"return", e>>, AfterSemicolon(ts, q)))

ParseStatement(ts, p) ==
    LET q == Step(ts, p)
    IN  CASE Type(ts, p) = "include" -> ParseInclude(ts, q)
          [] Type(ts, p) = "if" -> ParseIf(ts, q)
          [] Type(ts, p) = "return" -> ParseReturn(ts, q)
          [] Type(ts, p) = "IDENT" /\ Type(ts, q) = "=" ->
                Then(ParseExpression(ts, Step(ts, q)),
                     LAMBDA e, r : Done(<<"assign", At(ts, p)[2], e>>, AfterSemicolon(ts, r)))
          [] OTHER -> Then(ParseExpression(ts, p),
                           LAMBDA e, r : Done(<<"expression", e>>, AfterSemicolon(ts, r)))

\* parse_program: the statements up to the end of the file.
ParseProgram(ts, p, program) ==
    IF Type(ts, p) = "EOF" THEN Done(program, p)
    ELSE Then(ParseStatement(ts, p), LAMBDA s, q : ParseProgram(ts, q, Append(program, s)))
=============================================================================
