------------------------------ MODULE ZtlEval ------------------------------
(***************************************************************************)
(* Interpreter over the trees of module ZtlParser, and run_plugin and      *)
(* load_plugin around it.  A value is a tuple that begins with its type.   *)
(* The state is the chain of scopes of the statement at hand, globals      *)
(* first, and RunState; objects are the singletons register_stdlib         *)
(* defines, so they are named by their type.  The network objects and the  *)
(* CVE lookups are left out, and numbers are integers.  A result is a      *)
(* value, a return in flight (ReturnException) or a throw (RuntimeError).  *)
(***************************************************************************)
EXTENDS Integers, Sequences, FiniteSetsExt, TLC

Null == <<"null">>
BoolV(b) == <<"bool", b>>
NumV(n) == <<"num", n>>
StrV(s) == <<"str", s>>
Obj(type) == <<"obj", type>>
Fn(type, name) == <<"fn", type, name>>
Empty == [n \in {} |-> Null]

Truthy(v) == CASE v[1] = "null" -> FALSE
               [] v[1] = "bool" -> v[2]
               [] v[1] = "num" -> v[2] # 0
               [] v[1] = "str" -> v[2] # ""
               [] OTHER -> TRUE

Equal(a, b) == a[1] = b[1] /\ a = b

Text(v) == CASE v[1] = "null" -> "null"
             [] v[1] = "bool" -> IF v[2] THEN "true" ELSE "false"
             [] v[1] = "num" -> ToString(v[2])
             [] v[1] = "str" -> v[2]
             [] v[1] = "obj" -> "<" \o v[2] \o ">"
             [] v[1] = "fn" -> "<fn " \o (IF v[2] = "" THEN "" ELSE v[2] \o ".") \o v[3] \o ">"

Yield(v, st) == [kind |-> "value", v |-> v, st |-> st]
Throw(st) == [kind |-> "throw", v |-> Null, st |-> st]
Return(v, st) == [kind |-> "return", v |-> v, st |-> st]
Bind(r, F(_, _)) == IF r.kind = "value" THEN F(r.v, r.st) ELSE r

-----------------------------------------------------------------------------
\* Environment: the scopes of the chain that define a name.
Defining(env, name) == {i \in DOMAIN env : name \in DOMAIN env[i]}
Define(env, i, name, v) == [env EXCEPT ![i] = (name :> v) @@ @]
Lookup(env, name, st) ==
    IF Defining(env, name) = {} THEN Throw(st) ELSE Yield(env[Max(Defining(env, name))][name], st)

\* An assignment that always makes a variable of the innermost scope.
Bug_Assign(env, name, v) == Define(env, Len(env), name, v)

\* assign, and define in the innermost scope where no scope has the name.
Assign(env, name, v) ==
    Define(env, IF Defining(env, name) = {} THEN Len(env) ELSE Max(Defining(env, name)), name, v)

-----------------------------------------------------------------------------
\* call_string_method.
Occurs(s, p) == {i \in 0..(Len(s) - Len(p)) : SubSeq(s, i + 1, i + Len(p)) = p}
IndexOf(s, p) == IF Occurs(s, p) = {} THEN -1 ELSE Min(Occurs(s, p))

\* static_cast<std::size_t> of a double, capped: a negative one is undefined,
\* and the build makes nothing or a huge number of it.
ToSize(d, cap, negative) ==
    IF d >= 0 THEN Min({d, cap}) ELSE IF negative = "zero" THEN 0 ELSE cap

\* slice, as if its second argument were a length.
Bug_Slice(s, pos, negative) ==
    LET start == ToSize(pos[1][2], Len(s), negative)
        length == IF Len(pos) > 1 THEN pos[2][2] ELSE Len(s)
    IN  SubSeq(s, start + 1, Min({start + length, Len(s)}))

Slice(s, pos, negative) ==
    LET start == ToSize(pos[1][2], Len(s), negative)
        end == CASE Len(pos) = 1 -> Len(s)
                 [] Len(pos) > 1 /\ pos[2][2] < 0 -> 0
                 [] OTHER -> Min({pos[2][2], Len(s)})
    IN  SubSeq(s, start + 1, Max({start, end}))

\* The code of a character: those from the blank on, those from "a" on, and the blanks
\* of a text.
FromBlank == " !\"#$%&'()*+,-./0123456789:;<=>?@ABCDEFGHIJKLMNOPQRSTUVWXYZ[\\]^_"
FromA == "abcdefghijklmnopqrstuvwxyz{|}~"
Code(c) == CASE c = "\t" -> 9 [] c = "\n" -> 10 [] c = "\f" -> 12 [] c = "\r" -> 13
             [] Occurs(FromBlank, c) # {} -> 32 + IndexOf(FromBlank, c)
             [] Occurs(FromA, c) # {} -> 97 + IndexOf(FromA, c)
ByteAt(s, position, negative) ==
    LET i == ToSize(position, Len(s), negative)
    IN  IF i >= Len(s) THEN -1 ELSE Code(SubSeq(s, i + 1, i + 1))

Trim(s) ==
    LET kept == {i \in 1..Len(s) : SubSeq(s, i, i) \notin {" ", "\t", "\n", "\f", "\r"}}
    IN  IF kept = {} THEN "" ELSE SubSeq(s, Min(kept), Max(kept))

\* to_lower and to_upper: the letters of one alphabet become those of the other.
Uppercase == SubSeq(FromBlank, 34, 59)
Lowercase == SubSeq(FromA, 1, 26)
Transform(s, from, to) ==
    LET Letter(c) == IF Occurs(from, c) = {} THEN c
                     ELSE SubSeq(to, IndexOf(from, c) + 1, IndexOf(from, c) + 1)
        out[n \in 0..Len(s)] == IF n = 0 THEN "" ELSE out[n - 1] \o Letter(SubSeq(s, n, n))
    IN  out[Len(s)]

AllOf(pos, types) == Len(pos) >= Len(types) /\ \A i \in DOMAIN types : pos[i][1] = types[i]

StringMethod(s, method, pos, st) ==
    LET Given(types, v) == IF AllOf(pos, types) THEN Yield(v, st) ELSE Throw(st)
        p == pos[1][2]
    IN  CASE method \in {"length", "size"} -> Yield(NumV(Len(s)), st)
          [] method = "starts_with" -> Given(<<"str">>, BoolV(0 \in Occurs(s, p)))
          [] method = "ends_with" -> Given(<<"str">>, BoolV(Len(s) - Len(p) \in Occurs(s, p)))
          [] method = "contains" -> Given(<<"str">>, BoolV(Occurs(s, p) # {}))
          [] method = "index_of" -> Given(<<"str">>, NumV(IndexOf(s, p)))
          [] method = "slice" /\ Len(pos) < 2 -> Given(<<"num">>, StrV(Slice(s, pos, st.negative)))
          [] method = "slice" /\ Len(pos) >= 2 ->
                Given(<<"num", "num">>, StrV(Slice(s, pos, st.negative)))
          [] method = "byte_at" -> Given(<<"num">>, NumV(ByteAt(s, p, st.negative)))
          [] method = "trim" -> Yield(StrV(Trim(s)), st)
          [] method = "to_lower" -> Yield(StrV(Transform(s, Uppercase, Lowercase)), st)
          [] method = "to_upper" -> Yield(StrV(Transform(s, Lowercase, Uppercase)), st)
          [] OTHER -> Throw(st)

-----------------------------------------------------------------------------
\* The methods of the plugin and of the knowledge base, and finding().
Strings(named, names) == \A n \in names \cap DOMAIN named : named[n][1] = "str"
Get(named, n, otherwise) == IF n \in DOMAIN named THEN named[n] ELSE otherwise

Filter(named, st) ==
    LET any == [st EXCEPT !.meta.any = @ \/ Truthy(Get(named, "any", Null))]
    IN  IF Strings(named, {"service"})
        THEN Yield(Null, [any EXCEPT !.meta.service = Get(named, "service", StrV(@))[2]])
        ELSE Throw(any)

KbMethod(method, pos, st) ==
    LET key == pos[1][2]
        scoped == pos[1][2] \o "." \o pos[2][2]
        InScope == AllOf(pos, <<"str", "str">>) /\ pos[1][2] \in {"host", "port"}
        Put(k, v) == Yield(Null, IF st.shared THEN [st EXCEPT !.kb = (k :> v) @@ @] ELSE st)
        Read(k) == Yield(IF st.shared THEN Get(st.kb, k, Null) ELSE Null, st)
        Has(k) == Yield(BoolV(st.shared /\ k \in DOMAIN st.kb), st)
    IN  CASE method = "set" /\ Len(pos) > 1 /\ AllOf(pos, <<"str">>) -> Put(key, pos[2])
          [] method = "get" /\ AllOf(pos, <<"str">>) -> Read(key)
          [] method = "has" /\ AllOf(pos, <<"str">>) -> Has(key)
          [] method = "set_scoped" /\ Len(pos) > 2 /\ InScope -> Put(scoped, pos[3])
          [] method = "get_scoped" /\ InScope -> Read(scoped)
          [] method = "has_scoped" /\ InScope -> Has(scoped)
          [] OTHER -> Throw(st)

SetService(pos, named, st) ==
    LET claimed == [st EXCEPT !.service = IF AllOf(pos, <<"str">>) THEN pos[1][2] ELSE @]
        told == [n \in {"version", "product", "banner"} \cap DOMAIN named |-> named[n]]
        seen == [n \in DOMAIN told \ {"banner"} |-> told[n]]
    IN  IF AllOf(pos, <<"str">>) /\ Strings(named, {"version", "product"})
        THEN Yield(Null, [claimed EXCEPT
                            !.kb = IF st.shared THEN told @@ ("service" :> pos[1]) @@ @ ELSE @,
                            !.target = seen @@ ("service" :> pos[1]) @@ @])
        ELSE Throw(claimed)

Report(named, st) ==
    IF Strings(named, {"severity", "title", "description", "cve", "verification", "remediation",
                       "cvss_vector"})
    THEN Yield(Null, [st EXCEPT !.findings =
             Append(@, [title |-> Text(Get(named, "title", StrV(""))),
                        service |-> IF st.service = "" THEN st.known ELSE st.service])])
    ELSE Throw(st)

-----------------------------------------------------------------------------
RECURSIVE Eval(_, _), EvalArgs(_, _, _, _), Exec(_, _), ExecAll(_, _)

Admits(meta, service) == meta.any \/ meta.service \in {"", service}

\* plugin.run, with its block in a scope of its own under the globals: what the
\* block returns ends the plugin.
Bug_PluginRun(block, st) ==
    LET r == ExecAll(block[2], [st EXCEPT !.env = <<@[1], Empty>>])
        back == [r.st EXCEPT !.env = <<@[1]>> \o Tail(st.env)]
    IN  CASE Len(block) < 2 -> Throw(st)
          [] Len(block) = 2 /\ (st.only \/ ~Admits(st.meta, st.known)) -> Yield(Null, st)
          [] OTHER -> [r EXCEPT !.st = back]

PluginRun(block, st) ==
    LET r == ExecAll(block[2], [st EXCEPT !.env = <<@[1], Empty>>])
        back == [r.st EXCEPT !.env = <<@[1]>> \o Tail(st.env)]
    IN  CASE Len(block) < 2 -> Throw(st)
          [] Len(block) = 2 /\ (st.only \/ ~Admits(st.meta, st.known)) -> Yield(Null, st)
          [] OTHER -> IF r.kind = "throw" THEN Throw(back) ELSE Yield(Null, back)

Methods == [Plugin |-> {"name", "description", "category", "filter", "set_service", "run"},
            Kb |-> {"set", "get", "has", "set_scoped", "get_scoped", "has_scoped"},
            Target |-> {}]

\* invoke_function, and invoke_method once it has found the function.
Apply(f, pos, named, block, st) ==
    CASE f[3] \in {"name", "description", "category"} ->
           IF pos = <<>> THEN Yield(Null, st)
           ELSE IF pos[1][1] = "str" THEN Yield(Null, [st EXCEPT !.meta[f[3]] = pos[1][2]])
           ELSE Throw(st)
      [] f[3] = "filter" -> Filter(named, st)
      [] f[3] = "set_service" -> SetService(pos, named, st)
      [] f[3] = "run" -> PluginRun(block, st)
      [] f[3] = "finding" -> Report(named, st)
      [] OTHER -> KbMethod(f[3], pos, st)

InvokeMethod(receiver, method, pos, named, block, st) ==
    CASE receiver[1] = "str" -> StringMethod(receiver[2], method, pos, st)
      [] receiver[1] = "obj" /\ method \in Methods[receiver[2]] ->
            Apply(Fn(receiver[2], method), pos, named, block, st)
      [] OTHER -> Throw(st)

EvalMember(receiver, member, st) ==
    CASE receiver = Obj("Target") /\ member \in DOMAIN st.target -> Yield(st.target[member], st)
      [] receiver[1] = "obj" /\ member \in Methods[receiver[2]] ->
            Yield(Fn(receiver[2], member), st)
      [] OTHER -> Throw(st)

\* The arguments in their order, then the receiver or the function.
EvalCall(callee, args, block, st) ==
    LET Invoke(given, s) ==
          IF callee[1] = "member"
          THEN Bind(Eval(callee[2], s), LAMBDA v, t :
                    InvokeMethod(v, callee[3], given.pos, given.named, block, t))
          ELSE Bind(Eval(callee, s), LAMBDA v, t :
                    IF v[1] = "fn" THEN Apply(v, given.pos, given.named, block, t) ELSE Throw(t))
    IN  Bind(EvalArgs(args, <<>>, Empty, st), Invoke)

EvalArgs(args, pos, named, st) ==
    IF args = <<>> THEN Yield([pos |-> pos, named |-> named], st)
    ELSE Bind(Eval(args[1][2], st), LAMBDA v, s :
              IF args[1][1] = "" THEN EvalArgs(Tail(args), Append(pos, v), named, s)
              ELSE EvalArgs(Tail(args), pos, (args[1][1] :> v) @@ named, s))

Operate(op, l, r, st) ==
    LET numbers == l[1] = "num" /\ r[1] = "num"
    IN  CASE op = "==" -> Yield(BoolV(Equal(l, r)), st)
          [] op = "!=" -> Yield(BoolV(~Equal(l, r)), st)
          [] op = "+" -> Yield(IF numbers THEN NumV(l[2] + r[2]) ELSE StrV(Text(l) \o Text(r)), st)
          [] op \notin {"==", "!=", "+"} /\ ~numbers -> Throw(st)
          [] op = "-" /\ numbers -> Yield(NumV(l[2] - r[2]), st)
          [] op = "<" /\ numbers -> Yield(BoolV(l[2] < r[2]), st)
          [] op = ">" /\ numbers -> Yield(BoolV(l[2] > r[2]), st)
          [] op = "<=" /\ numbers -> Yield(BoolV(l[2] <= r[2]), st)
          [] op = ">=" /\ numbers -> Yield(BoolV(l[2] >= r[2]), st)

Eval(e, st) ==
    CASE e[1] = "literal" ->
           Yield(CASE e[2][1] = "null" -> Null
                   [] e[2][1] \in {"true", "false"} -> BoolV(e[2][1] = "true")
                   [] e[2][1] = "NUMBER" -> NumV(e[2][2])
                   [] e[2][1] = "STRING" -> StrV(e[2][2]), st)
      [] e[1] = "identifier" -> Lookup(st.env, e[2], st)
      [] e[1] = "scoped" -> Lookup(st.env, e[2] \o "::" \o e[3], st)
      [] e[1] = "member" -> Bind(Eval(e[2], st), LAMBDA v, s : EvalMember(v, e[3], s))
      [] e[1] = "call" -> EvalCall(e[2], e[3], e[4], st)
      [] e[1] = "unary" ->
           Bind(Eval(e[3], st), LAMBDA v, s :
                IF e[2] = "!" THEN Yield(BoolV(~Truthy(v)), s)
                ELSE IF v[1] = "num" THEN Yield(NumV(-v[2]), s) ELSE Throw(s))
      [] e[1] = "binary" /\ e[2] \in {"&&", "||"} ->
           Bind(Eval(e[3], st), LAMBDA v, s :
                IF Truthy(v) = (e[2] = "||") THEN Yield(v, s) ELSE Eval(e[4], s))
      [] e[1] = "binary" /\ e[2] \notin {"&&", "||"} ->
           Bind(Eval(e[3], st), LAMBDA l, s :
                Bind(Eval(e[4], s), LAMBDA r, t : Operate(e[2], l, r, t)))

\* exec_block: a scope that ends with the block, however the block ends.
ExecBlock(body, st) ==
    LET r == ExecAll(body, [st EXCEPT !.env = Append(@, Empty)])
    IN  [r EXCEPT !.st.env = SubSeq(@, 1, Len(st.env))]

Exec(s, st) ==
    CASE s[1] = "include" -> Yield(Null, st)
      [] s[1] = "expression" -> Eval(s[2], st)
      [] s[1] = "assign" ->
           Bind(Eval(s[3], st), LAMBDA v, t : Yield(Null, [t EXCEPT !.env = Assign(@, s[2], v)]))
      [] s[1] = "if" ->
           Bind(Eval(s[2], st), LAMBDA v, t : ExecBlock(IF Truthy(v) THEN s[3] ELSE s[4], t))
      [] s[1] = "return" ->
           IF s[2] = <<"nothing">> THEN Return(Null, st) ELSE Bind(Eval(s[2], st), Return)

ExecAll(body, st) ==
    IF body = <<>> THEN Yield(Null, st)
    ELSE Bind(Exec(body[1], st), LAMBDA v, s : ExecAll(Tail(body), s))

-----------------------------------------------------------------------------
NoMeta == [name |-> "", description |-> "", category |-> "", any |-> FALSE, service |-> ""]

\* register_stdlib: the globals, and the port (at) as the knowledge base shows it.
Start(at, known, kb, shared, only, negative) ==
    [env |-> << [n \in {"plugin", "target", "kb", "finding"} |->
                   CASE n = "plugin" -> Obj("Plugin") [] n = "target" -> Obj("Target")
                     [] n = "kb" -> Obj("Kb") [] n = "finding" -> Fn("", "finding")] >>,
     meta |-> NoMeta, findings |-> <<>>, service |-> "", known |-> known,
     target |-> [host |-> StrV(at.host), port |-> NumV(at.port), service |-> StrV(known),
                 product |-> Get(kb, "product", StrV("")), version |-> Get(kb, "version", StrV(""))],
     kb |-> kb, shared |-> shared, only |-> only, negative |-> negative]

NoPort == [host |-> "0.0.0.0", port |-> 0]

\* load_plugin, with a preload that runs the blocks.
Bug_Preview(program, negative) ==
    LET r == ExecAll(program, Start(NoPort, "", Empty, FALSE, FALSE, negative))
    IN  IF r.kind = "value" THEN r.st.meta ELSE NoMeta

\* load_plugin: any exception loses what the preload found.
Preview(program, negative) ==
    LET r == ExecAll(program, Start(NoPort, "", Empty, FALSE, TRUE, negative))
    IN  IF r.kind = "value" THEN r.st.meta ELSE NoMeta

\* run_plugin: a return ends the plugin, an error becomes one more finding.
Outcome(program, at, known, kb, negative) ==
    LET r == ExecAll(program, Start(at, known, kb, TRUE, FALSE, negative))
    IN  [meta |-> r.st.meta, service |-> r.st.service, kb |-> r.st.kb,
         findings |-> IF r.kind # "throw" THEN r.st.findings
                      ELSE Append(r.st.findings,
                                  [title |-> "Plugin runtime error", service |-> ""])]
=============================================================================
