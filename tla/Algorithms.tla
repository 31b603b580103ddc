----------------------------- MODULE Algorithms -----------------------------
(***************************************************************************)
(* The pure functions of the program, called on bounded inputs: those of   *)
(* Decisions and the parsers, printers and messages around them.  A        *)
(* behaviour picks a function (subject) and an input and makes the call;   *)
(* the invariants compare output, what the code computes, with a reference *)
(* definition that does not follow the code: a printer for a parser, an    *)
(* order of keys for a comparison, the RFC's sets for byte ranges.         *)
(***************************************************************************)
EXTENDS Decisions, SequencesExt, TLC

Lexer == INSTANCE ZtlSyntax
Parser == INSTANCE ZtlParser
Ztl == INSTANCE ZtlEval
Ref == INSTANCE ZtlReference
Dns == INSTANCE DnsMessage
Ssh == INSTANCE SshMessages
Native == INSTANCE NativeChecks
Web == INSTANCE WebText
Http == INSTANCE HttpText
Chunked == INSTANCE HttpBody
Probe == INSTANCE HttpProbe
Files == INSTANCE ScanFiles
Rows == INSTANCE HistoryRows

UpTo(n, S) == UNION {[1..k -> S] : k \in 0..n}

-----------------------------------------------------------------------------
(* The plugin language.                                                    *)

LexerInputs ==
    {[tokens |-> ts, separator |-> sep] : ts \in UpTo(2, Ref!Tokens), sep \in Ref!Separators}
    \cup {[tokens |-> <<s, t>>, separator |-> <<>>] :
             <<s, t>> \in {p \in Ref!Tokens \X Ref!Tokens : ~Ref!Glued(p[1], p[2])}}
CallTokenize ==
    Called("tokenize", Lexer!Tokenize(Ref!WrittenTokens(input.tokens, input.separator), 1))

CallParse ==
    Called("parse", Parser!ParseProgram(Ref!PrintedStatements(input) \o <<Parser!P("EOF")>>, 1, <<>>))

\* Programs about one variable: items are leaves or blocks of items.
SetTo(n) == [do |-> "set", to |-> n]
ReportIt == [do |-> "report", to |-> 0]
BlockOf(kind, items) == [do |-> kind, items |-> items]
Leaves == {SetTo(1), SetTo(2), ReportIt}
Flat == {BlockOf(k, b) : k \in {"if", "run"}, b \in UpTo(2, Leaves)}
Nested == {BlockOf(k, <<i, j>>) : <<k, i, j>> \in
             {t \in {"if", "run"} \X (Leaves \cup Flat) \X (Leaves \cup Flat) :
                t[1] = "run" => t[2].do # "run" /\ t[3].do # "run"}}
ScopeInputs == {start \o <<b, ReportIt>> : start \in {<<>>, <<SetTo(1)>>}, b \in Flat \cup Nested}

Ident(n) == <<"identifier", n>>
Number(n) == <<"literal", <<"NUMBER", n>>>>
Text(s) == <<"literal", <<"STRING", s>>>>
CallOf(object, method, args) ==
    <<"call", <<"member", Ident(object), method>>, args, <<"no block">>>>
RunOf(body) ==
    <<"expression", <<"call", <<"member", Ident("plugin"), "run">>, <<>>, <<"block", body>>>>>>
FindingOf(e) == <<"expression", <<"call", Ident("finding"), << <<"title", e>> >>, <<"no block">>>>>>

RECURSIVE Program(_), Events(_)
Program(items) ==
    [i \in 1..Len(items) |->
        CASE items[i].do = "set" -> <<"assign", "x", Number(items[i].to)>>
          [] items[i].do = "report" ->
                FindingOf(<<"binary", "+", Text(""), Ident("x")>>)
          [] items[i].do = "if" -> <<"if", <<"literal", <<"true">>>>, Program(items[i].items), <<>>>>
          [] items[i].do = "run" -> RunOf(Program(items[i].items))]
Events(items) ==
    FlattenSeq([i \in 1..Len(items) |->
        CASE items[i].do = "if" -> <<Ref!Do("open")>> \o Events(items[i].items) \o <<Ref!Do("close")>>
          [] items[i].do = "run" -> <<Ref!Do("run")>> \o Events(items[i].items) \o <<Ref!Do("end")>>
          [] OTHER -> <<items[i]>>])

OwnPort == [host |-> "h", port |-> 22]
RunZtl(program) == Ztl!Outcome(program, OwnPort, "ssh", "n" :> Ztl!NumV(1), "zero")
Titles(outcome) == [i \in 1..Len(outcome.findings) |-> outcome.findings[i].title]
CallScopes == Called("scopes", Titles(RunZtl(Program(input))))

\* A return in the middle of a plugin.run block, or of an if in it.
ReturnStmt == <<"return", Number(1)>>
ReturnInputs == [before : UpTo(1, Leaves), inside : UpTo(1, Leaves), after : UpTo(1, Leaves),
                 behind : UpTo(2, Leaves), nested : BOOLEAN]
WithReturn(in, returns) ==
    LET stop == IF in.nested THEN <<"if", <<"literal", <<"true">>>>, <<ReturnStmt>>, <<>>>> ELSE ReturnStmt
        cut == IF returns THEN <<stop>> \o Program(in.after) ELSE <<>>
    IN  Program(in.before) \o <<RunOf(Program(in.inside) \o cut)>> \o Program(in.behind)
CallReturn == Called("return", RunZtl(WithReturn(input, TRUE)))

\* The declarations of a plugin, then its block, which needs the knowledge base.
Declarations ==
    {<<"expression", CallOf("plugin", "name", << <<"", Text("p")>> >>)>>,
     <<"expression", CallOf("plugin", "filter", << <<"any", <<"literal", <<"true">>>>>> >>)>>,
     <<"expression", CallOf("plugin", "filter", << <<"service", Text("ssh")>> >>)>>,
     <<"expression", CallOf("plugin", "set_service", << <<"", Text("http")>> >>)>>,
     <<"assign", "plugin_name", <<"member", Ident("plugin"), "name">>>>,
     <<"assign", "at", <<"binary", "+", <<"member", Ident("target"), "host">>, <<"member", Ident("target"), "port">>>>>>}
NeedsKb == <<"assign", "y", <<"binary", "-", CallOf("kb", "get", << <<"", Text("n")>> >>), Number(1)>>>>
FilterInputs == [declared : UpTo(2, Declarations), needsKb : BOOLEAN, known : {"", "ssh", "http"}]
Plugin(in) ==
    in.declared \o <<RunOf((IF in.needsKb THEN <<NeedsKb>> ELSE <<>>) \o <<FindingOf(Text("f"))>>)>>
CallPreview ==
    Called("preview", [preview |-> Ztl!Preview(Plugin(input), "zero"),
                       run |-> Ztl!Outcome(Plugin(input), OwnPort, input.known, "n" :> Ztl!NumV(1), "zero")])

\* String methods on a receiver, a part and two positions.
StringInputs == [s : {"", "a", "ab", "aba", " ab "}, p : {"", "a", "b", "ab"}, from : -1..4, to : -1..4,
                 negative : {"zero", "huge"}]
CallString ==
    LET s == Text(input.s)
        Asked(receiver, method, args) ==
            <<"call", <<"member", receiver, method>>, [i \in 1..Len(args) |-> <<"", args[i]>>], <<"no block">>>>
        questions == [slice |-> Asked(s, "slice", <<Number(input.from), Number(input.to)>>),
                      head |-> Asked(s, "slice", <<Number(0), Number(input.from)>>),
                      tail |-> Asked(s, "slice", <<Number(input.from)>>),
                      index |-> Asked(s, "index_of", <<Text(input.p)>>),
                      contains |-> Asked(s, "contains", <<Text(input.p)>>),
                      starts |-> Asked(s, "starts_with", <<Text(input.p)>>),
                      ends |-> Asked(s, "ends_with", <<Text(input.p)>>),
                      byte |-> Asked(s, "byte_at", <<Number(input.from)>>),
                      trim |-> Asked(s, "trim", <<>>),
                      upper |-> Asked(s, "to_upper", <<>>),
                      lower |-> Asked(Asked(s, "to_upper", <<>>), "to_lower", <<>>)]
    IN  Called("string",
               [q \in DOMAIN questions |->
                   Ztl!Eval(questions[q], Ztl!Start(OwnPort, "", Ztl!Empty, TRUE, FALSE, input.negative)).v[2]])

-----------------------------------------------------------------------------
(* Versions and the CVE database.                                          *)

\* The texts are codes: 48 and 49 are 0 and 1, 97 is a, 126 is ~ and 43 is +.
DpkgInputs == UpTo(3, {48, 49, 97, 126, 43}) \X UpTo(2, {48, 49, 97, 126, 43})
CallDpkg == Called("dpkg", Ver!DpkgCompare(input[1], input[2]))

\* A package version from its parts; the database may name an epoch, 49 and a colon.
PackageVersion(v) == (IF v.epoch THEN <<49, 58>> ELSE <<>>) \o v.upstream \o <<45>> \o v.revision
Upstreams == {<<49>>, <<48, 49>>, <<49, 45, 48>>}
PlainRevisions == {<<48>>, <<49>>, <<50>>, <<49, 126>>, <<49, 48>>}
FixRows == [epoch : BOOLEAN, upstream : Upstreams, revision : PlainRevisions, status : {"released", "open"}]
BackportInputs ==
    [fixes : UpTo(1, FixRows) \cup {<<f, g>> : f \in {r \in FixRows : r.status = "open" /\ ~r.epoch},
                                              g \in {r \in FixRows : r.status = "released"}},
     upstream : Upstreams \cup {<<>>}, revision : PlainRevisions \cup {<<>>}]
CallBackport ==
    Called("backport",
           Ver!CheckBackport([i \in 1..Len(input.fixes) |->
                                 [status |-> input.fixes[i].status,
                                  fixed |-> PackageVersion(input.fixes[i])]],
                             input.upstream, input.revision))

\* An upstream version from its numbers, with what packages put around it.
Dotted(numbers) ==
    FlattenSeq([i \in 1..Len(numbers) |->
        (IF i > 1 THEN <<46>> ELSE <<>>) \o
        (IF numbers[i] > 9 THEN <<48 + numbers[i] \div 10>> ELSE <<>>) \o <<48 + (numbers[i] % 10)>>])
Numbers == UpTo(3, {0, 1, 12}) \ {<<>>}
Bounds == {Ver!Any, <<1>>, <<1, 0, 1>>, <<0, 12>>, <<12, 1>>}
RangeInputs == [numbers : Numbers, prefix : {<<>>, <<118>>}, suffix : {<<>>, <<112, 49>>, <<46, 120>>},
                low : Bounds, high : Bounds]
Bound(b) == IF b = Ver!Any THEN Ver!Any ELSE Dotted(b)
CallRange ==
    Called("range", Ver!InRange(input.prefix \o Dotted(input.numbers) \o input.suffix,
                                <<Bound(input.low), Bound(input.high)>>))

CveRows == [product : {<<97>>, <<98>>}, cve : {"c1", "c2"},
            range : {<<Ver!Any, Ver!Any>>, << <<49>>, <<49, 46, 49>> >>}]

\* Three versions that differ in numbers, letters, tildes and dots; an upgrade of a package.
OrderTriples ==
    [versions : [1..3 -> UpTo(2, {48, 49, 97, 126})], range : {<<Ver!Any, << 49 >>>>}]
    \cup [versions : [1..3 -> {Dotted(n) : n \in {<<1, 12>>, <<1, 0>>} \cup (Bounds \ {Ver!Any})}],
          range : {<<Ver!Any, << 49, 46, 49 >>>>, << <<49>>, <<49, 50>> >>}]
PackageUpgrades ==
    [fixes : {[i \in 1..Len(f) |-> [status |-> f[i].status, fixed |-> PackageVersion(f[i])]] :
                 f \in UpTo(1, FixRows)},
     version : Upstreams \cup {<<>>}, revision : PlainRevisions \cup {<<>>},
     newer : PlainRevisions \cup {<<>>}]

VerifyQuestions == [db : UpTo(2, CveRows), cve : {"", "c1", "c2"}, product : {<<>>, <<97>>, <<65>>},
                 version : {<<>>, <<49>>, <<50>>}]
Addresses == [form : {"no slash", "bad prefix", "bad base", "cidr"}, base : 0..(Width - 1),
              prefix : 0..(Bits + 1)]

-----------------------------------------------------------------------------
(* Messages of the native checks.                                          *)

Names == UpTo(2, {<<97>>, <<98, 99>>})
\* How the owner of a record is written: whole, as a pointer to the question, as a
\* label before such a pointer, or as the root.
Owners == {"whole", "pointer", "label", "root"}
Records == [owner : Owners, type : {1, 5}, data : {<<1, 2, 3, 4>>, <<9, 192, 12>>}]
DnsInputs == [name : Names, records : UpTo(2, Records), sent : BOOLEAN, answered : BOOLEAN]
OwnerBytes(name, owner) ==
    CASE owner = "whole" -> Dns!EncodeHostname(name)
      [] owner = "pointer" -> <<192, 12>>
      [] owner = "label" -> <<2, 120, 121, 192, 12>>
      [] owner = "root" -> <<0>>
RecordBytes(name, r) ==
    OwnerBytes(name, r.owner) \o <<0, r.type, 0, 1, 0, 0, 0, 60, 0, Len(r.data)>> \o r.data
Reply(in) ==
    LET query == Dns!BuildQuery(in.name, 4919)
    IN  SubSeq(query, 1, 2) \o <<129, 128, 0, 1, 0, Len(in.records), 0, 0, 0, 0>>
          \o SubSeq(query, 13, Len(query))
          \o FlattenSeq([i \in 1..Len(in.records) |-> RecordBytes(in.name, in.records[i])])
CallResolve ==
    LET query == Dns!BuildQuery(input.name, 4919)
    IN  Called("resolve", [question |-> Len(query) - Dns!SkipName(query, Dns!HeaderSize),
                           address |-> Native!ResolveName(input.name,
                               [socket |-> TRUE, address |-> TRUE, whole |-> input.sent],
                               IF input.answered THEN <<Reply(input)>> ELSE <<>>)])

\* A KEXINIT whose lists are made of two names; one list may announce more than is
\* there, and bytes may be missing at the end.
NameLists == UpTo(2, {<<97>>, <<98, 99>>})
KexInputs == [kex : NameLists, ciphers : NameLists, macs : NameLists, others : {<<>>, << <<97>> >>},
              missing : {0, 1, 60}, stretched : {0, 1, 6}]
Joined(items) ==
    FlattenSeq([i \in 1..Len(items) |-> (IF i > 1 THEN <<44>> ELSE <<>>) \o items[i]])
KexLists(in) ==
    [i \in 1..10 |-> Joined(CASE i = 1 -> in.kex [] i = 4 -> in.ciphers [] i = 6 -> in.macs
                              [] i \in {2, 3, 5} -> in.others [] OTHER -> <<>>)]
KexFrame(in) ==
    LET lists == KexLists(in)
        frame == Ssh!FrameSshPacket(Ssh!KexinitPayload(lists))
        length == 26 + FoldLeft(LAMBDA n, l : n + 4 + Len(l), 0, SubSeq(lists, 1, in.stretched - 1))
        longer == IF in.stretched = 0 THEN frame ELSE [frame EXCEPT ![length] = @ + 200]
    IN  SubSeq(longer, 1, Len(longer) - in.missing)
CallParseKexinit == Called("parse_kexinit", Ssh!ParseKexinit(KexFrame(input)))

\* Lines that a server sends before its KEXINIT.
TextLines == {<<10>>, <<13, 10>>, <<97, 97, 97, 97, 13, 10>>, <<0, 0, 0, 1, 10>>}
SmallKex == [kex |-> << <<97>> >>, ciphers |-> <<>>, macs |-> <<>>, others |-> <<>>, missing |-> 0,
             stretched |-> 0]
StripInputs == [lines : UpTo(3, TextLines), kexinit : BOOLEAN]
CallStrip ==
    Called("strip", Ssh!StripPreKexinitLines(FlattenSeq(input.lines)
                        \o IF input.kexinit THEN KexFrame(SmallKex) ELSE <<97>>))

\* Writing three bytes with ::send, which may take fewer, be interrupted or fail.
SendInputs == {r \in UpTo(4, {Native!Interrupted, Native!SendFails, 1, 2, 3}) :
                  FoldLeft(LAMBDA n, k : n + Max({k, 0}), 0, r) <= 3}
SendData == <<7, 8, 9>>
CallSend == Called("send", Native!Send(SendData, input))

\* A TLS server, the suites of the client's OpenSSL, and handshakes that are refused.
SomeCertificates ==
    {[present |-> p, hours |-> h, subject |-> "s", issuer |-> i, signature |-> g] :
        <<p, h, i, g>> \in ({TRUE} \X {-25, -24, -1, 25} \X {"s", "ca"} \X {"sha1WithRSA", "ecdsa-SHA256"})
                             \cup {<<FALSE, 0, "ca", "">>}}
AnyServer == [suites |-> << <<"AES128", "SHA">> >>, tls13 |-> FALSE, version |-> "TLSv1.2",
              cert |-> [present |-> FALSE, hours |-> 0, subject |-> "", issuer |-> "", signature |-> ""],
              build |-> Suites, emptyList |-> FALSE]
TlsServers ==
    {[AnyServer EXCEPT !.suites = s, !.tls13 = t, !.build = Suites \ b, !.emptyList = e] :
        <<s, t, b, e>> \in {l \in UpTo(3, Suites) : IsInjective(l)} \X BOOLEAN
                             \X {{}, {<<"RC4", "SHA">>, <<"DES", "CBC3", "SHA">>}} \X BOOLEAN}
    \cup {[AnyServer EXCEPT !.cert = c, !.version = v] :
             <<c, v>> \in SomeCertificates \X {"SSLv3", "TLSv1", "TLSv1.2"}}
TlsAudits == [port : {443, 80}, server : TlsServers, refusing : {{}, {""}, {"eNULL"}}]

\* An SSH server: what it offers, how its greeting arrives ("short" leaves the end of
\* its line for later, "joined" has the KEXINIT in the same piece), where its bytes
\* are cut, which piece stays away (0: none), and what else goes wrong.
TerrapinInputs ==
    [strict : BOOLEAN, chacha : BOOLEAN, cbc : BOOLEAN, etm : BOOLEAN,
     greeting : {"whole", "short", "joined", "text"}, cuts : SUBSET {3, 4, 7, 60}, silent : 0..4,
     trouble : {"none", "not ssh", "refused", "no answer", "short writes", "send fails"}]
Server(in) ==
    [kex |-> << <<97>> >> \o IF in.strict THEN <<Native!StrictKex>> ELSE <<>>,
     ciphers |-> (IF in.cbc THEN << <<120, Native!CbcMark>> >> ELSE << <<121>> >>)
                    \o IF in.chacha THEN <<Native!Chacha>> ELSE <<>>,
     macs |-> << <<97>> >> \o IF in.etm THEN << <<98, Native!EtmMark>> >> ELSE <<>>,
     others |-> <<>>, missing |-> 0, stretched |-> 0]
Pieces(bytes, cuts) ==
    LET ends == SetToSortSeq({c \in cuts : c < Len(bytes)} \cup {Len(bytes)}, <)
    IN  [i \in 1..Len(ends) |-> SubSeq(bytes, (IF i = 1 THEN 0 ELSE ends[i - 1]) + 1, ends[i])]
Arrivals(in) ==
    LET banner == Native!SshPrefix \o <<50, 13, 10>>
        frame == KexFrame(Server(in))
        all == CASE in.greeting = "whole" -> <<banner>> \o Pieces(frame, in.cuts)
                 [] in.greeting = "short" ->
                       <<Native!SshPrefix \o <<50>>>> \o Pieces(<<13, 10>> \o frame, in.cuts)
                 [] in.greeting = "joined" -> Pieces(banner \o frame, {c + 7 : c \in in.cuts})
                 [] in.greeting = "text" -> <<<<104, 105, 13, 10>>, banner>> \o Pieces(frame, in.cuts)
    IN  IF in.silent \in DOMAIN all THEN [all EXCEPT ![in.silent] = <<>>] ELSE all
CallTerrapin ==
    LET peer == [connect |-> [socket |-> TRUE, address |-> TRUE, nonblocking |-> TRUE,
                              connect |-> IF input.trouble = "none" THEN "done" ELSE "EINPROGRESS",
                              poll |-> IF input.trouble = "no answer" THEN "timeout" ELSE "ready",
                              pending |-> IF input.trouble = "refused" THEN "ECONNREFUSED" ELSE "none"],
                 banner |-> IF input.trouble = "short writes" THEN <<1, Native!Interrupted, 2>> ELSE <<>>,
                 packet |-> IF input.trouble = "send fails" THEN <<5, Native!SendFails>> ELSE <<>>,
                 chunks |-> Arrivals(input)]
    IN  Called("terrapin", Native!RunNativeChecks(80, IF input.trouble = "not ssh" THEN "http" ELSE "ssh",
                                                  peer, KexLists(SmallKex), AnyServer, {}).ssh)

-----------------------------------------------------------------------------
(* The web server's texts.                                                 *)

Quote == "\""
JsonChars == {"a", Quote, "\\", "\n", "\t", "ctl"}
EscapeInputs == UpTo(3, UpTo(1, JsonChars)) \cup {<<s>> : s \in UpTo(3, JsonChars)}
CallEscape == Called("escape", Web!JsonStringArray(input))

FieldInputs == [target : UpTo(3, {"a", Quote, "\\", "\n", ":", "}"}), number : {0, 2, 12, -1},
                blank : {<<>>, <<" ">>, <<"\n", " ">>}, targetFirst : BOOLEAN]
NumberText(n) == CASE n = 0 -> <<"0">> [] n = 2 -> <<"2">> [] n = 12 -> <<"1", "2">> [] n = -1 -> <<"-", "1">>
Quoted(s) == <<Quote>> \o s \o <<Quote>>
JsonObject(in) ==
    LET target == Quoted(<<"t">>) \o <<":">> \o in.blank \o Quoted(Web!JsonEscape(in.target))
        number == Quoted(<<"e">>) \o in.blank \o <<":">> \o NumberText(in.number)
    IN  <<"{">> \o (IF in.targetFirst THEN target \o <<",">> \o number ELSE number \o <<",">> \o target)
            \o <<"}">>
CallFields ==
    Called("fields", [target |-> Web!JsonStringField(JsonObject(input), <<"t">>),
                      number |-> Web!JsonNumberField(JsonObject(input), <<"e">>),
                      absent |-> Web!JsonStringField(JsonObject(input), <<"x">>)])

CookieInputs == [pairs : UpTo(3, [name : {<<"s">>, <<"x", "s">>}, value : {<<>>, <<"1">>, <<"s", "=", "2">>}]),
                 separator : {<<";">>, <<";", " ">>}]
CookieHeader(in) ==
    FlattenSeq([i \in 1..Len(in.pairs) |->
        (IF i > 1 THEN in.separator ELSE <<>>) \o in.pairs[i].name \o <<"=">> \o in.pairs[i].value])
CallCookie == Called("cookie", Web!CookieValue(CookieHeader(input), <<"s">>))

UrlChars == {"a", " ", "%", "&", "+", "=", "2"}
CallUrl == Called("url", Http!DecodeUrl(Http!UrlEncode(input), TRUE))

\* Parameters; an equals sign in a value may stand as it is.
Parameters == {<<k, v>> : k \in {<<"a">>, <<"=">>, <<"&", "b">>}, v \in UpTo(2, {"a", "=", "+", " "})}
QueryInputs == [parameters : UpTo(2, Parameters), plain : BOOLEAN]
ValueText(v, plain) ==
    FlattenSeq([i \in 1..Len(v) |-> IF plain /\ v[i] = "=" THEN <<"=">> ELSE Http!UrlEncode(<<v[i]>>)])
QueryText(in) ==
    FlattenSeq([i \in 1..Len(in.parameters) |->
        (IF i > 1 THEN <<"&">> ELSE <<>>) \o Http!UrlEncode(in.parameters[i][1]) \o <<"=">>
            \o ValueText(in.parameters[i][2], in.plain)])
CallQuery == Called("query", Http!ParseQueryText(QueryText(input)))

Values == {v \in UpTo(3, {"a", " ", ":"}) : v # <<>> => v[1] # " " /\ v[Len(v)] # " "}
HeaderInputs == [fields : UpTo(2, {<<"a">>, <<"b", "c">>} \X Values), before : {<<>>, <<" ">>, <<"\t", " ">>},
                 after : {<<>>, <<" ">>}]
HeaderText(in) ==
    FlattenSeq([i \in 1..Len(in.fields) |->
        in.fields[i][1] \o <<":">> \o in.before \o in.fields[i][2] \o in.after \o Http!CrLf]) \o Http!CrLf
CallHeaders == Called("headers", Http!ReadHeaders(HeaderText(input) \o <<"a", ":", "\r", "\n">>, 1, <<>>))

Payloads == {<<>>, <<"a">>, <<"0", "\r", "\n">>}
ChunkInputs == UpTo(2, UpTo(2, Payloads)) \ {<<>>}
CallChunks ==
    Called("chunks", Chunked!ReadContentChunked(Chunked!WriteContentChunked(input), 1, <<>>))

Positions == {Body!Absent} \cup 0..4
RangeRequests ==
    [parts : UpTo(2, Positions \X Positions)
               \cup {<<p, q, p, q>> : p \in (0..2) \X (0..2), q \in (1..2) \X {2}},
     body : {<<>>, <<"a">>, <<"a", "b", "c">>}]

\* A response in pieces, and a receive that waited too long after some of them.
ProbeFields == {<<<<"a">>, <<>>>>, <<<<"A">>, <<"x">>>>, <<<<"b">>, <<"x", ":", "y">>>>}
ProbeInputs ==
    [fields : UpTo(2, ProbeFields), eol : {<<"\n">>, <<"\r", "\n">>}, status : {0, 2, 42},
     body : {<<>>, <<"a">>, <<"\r", "\n", "\r", "\n">>}, connected : BOOLEAN, sent : BOOLEAN]
ProbeText(in) ==
    <<"H", " ">> \o (CASE in.status = 0 -> <<"0">> [] in.status = 2 -> <<"2", " ", "O">> [] OTHER -> <<"4", "2">>)
        \o in.eol
        \o FlattenSeq([i \in 1..Len(in.fields) |-> in.fields[i][1] \o <<":", " ">> \o in.fields[i][2] \o in.eol])
        \o in.eol \o in.body
CallProbe == Called("probe", Probe!Request(input.connected, input.sent, <<ProbeText(input), <<>>>>))

ReceiveInputs == UpTo(4, UpTo(3, {"x"})) \ {<<>>}
CallReceive == Called("receive", Probe!Received(input))

-----------------------------------------------------------------------------
(* Data files and the scan history.                                        *)

WithTabs(fields) ==
    FlattenSeq([i \in 1..Len(fields) |-> (IF i > 1 THEN <<"\t">> ELSE <<>>) \o fields[i]])

\* Probe lines: what they say, the expression as letters and a number of groups.
ProbeLines == [says : {"match", "softmatch"}, service : {<<"s">>, <<"t">>}, letters : {<<>>, <<"a">>, <<"A">>},
               groups : {0, 1}, flag : {<<>>, <<"icase">>}]
PatternLine(p) ==
    WithTabs(<< <<p.says>>, p.service, p.letters \o [g \in 1..p.groups |-> "()"] >>
               \o IF p.flag = <<>> THEN <<>> ELSE <<p.flag>>)
PatternInputs == [lines : UpTo(2, ProbeLines), comment : BOOLEAN,
                  banner : {<<"a">>, <<"b", "a", "b">>, <<"A", "b">>, <<>>}]
CallDetect ==
    LET comments == IF input.comment THEN << <<>>, <<"#", "\t", "a", "\t", "b">>, <<"match">> >> ELSE <<>>
    IN  Called("detect", Files!DetectService(
                Files!LoadPatterns(comments \o [i \in 1..Len(input.lines) |-> PatternLine(input.lines[i])]),
                input.banner))

\* Rows of the two tables: how many of the optional fields are written, what the last holds.
FileRows == [cve : {<<"c">>, <<"#", "c">>}, distro : {<<"Ubuntu">>, <<"Debian">>}, status : {<<"A">>, <<>>},
             more : 0..4, cr : BOOLEAN]
RowFields(r) ==
    SubSeq(<<r.cve, r.distro, <<"n">>, <<"p">>, <<"HIGH">>, r.status,
             <<"9">>, <<"v">>, <<"m">>, <<"|", "x", "|", "|", "y">>>>, 1, 6 + r.more)
FileInputs == UpTo(2, FileRows)
CallFiles ==
    LET lines == [i \in 1..Len(input) |->
                     WithTabs(RowFields(input[i])) \o IF input[i].cr THEN <<"\r">> ELSE <<>>]
        fixes == Files!LoadFixes(lines)
    IN  Called("files", [fixes |-> fixes, ubuntu |-> Files!FixesOf(fixes, <<"c">>, <<"Ubuntu">>),
                         entries |-> Files!LoadDatabase(lines)])

\* A banner, and in it the revision of a package behind a marker.
Around == {"ubuntu", "Ubuntu-", "Debian-", ".fc", "el", "_", ".amzn", "+suse", "1", " ", "("}
BannerInputs == [before : UpTo(2, Around) \cup {<<"el", "1", "_">>, <<" ", "el", "1", "_">>, <<"1", "el", "1", "_">>},
                 marker : {<<>>, <<"Ubuntu-">>, <<"Debian-">>}, revision : UpTo(2, {"1", "ubuntu"}), end : {<<>>, <<" ", "1">>, <<")">>}]
Banner(in) == in.before \o in.marker \o in.revision \o in.end
CallDistro ==
    LET tag == Files!DetectDistro(Banner(input))
    IN  Called("distro", [tag |-> tag, package |-> Files!ParseDistroTag(tag)])

\* Two scans in the history.
SavedTexts == {<<>>, <<"a", "|">>, <<"a", "NUL", "b">>}
SavedFindings ==
    [text : SavedTexts, evidence : [value : {<<"e">>}, details : {<<"d">>}], severity : {0, 3}, confidence : {2},
     protocol : {0, 1}, port : {1},
     references : {<<>>, << <<"r">>, <<"r", "s">> >>, << <<>>, <<"r", "|", "s">> >>}]
SavedPorts == [number : {1, 2}, protocol : {1, 3}, state : {"OPEN"}, service : {<<>>, <<"s">>}, tls : BOOLEAN]
HistoryInputs ==
    [findings : UpTo(2, {f \in SavedFindings : f.severity = 3 \/ f.protocol = 1}),
     ports : {ps \in UpTo(2, SavedPorts) : Len(ps) = 2 => ps[1].number < ps[2].number}]
OtherFinding == [text |-> <<"o">>, evidence |-> [value |-> <<>>, details |-> <<>>], severity |-> 4,
                 confidence |-> 0, protocol |-> 2, port |-> 9, references |-> <<>>]
OtherPort == [number |-> 1, protocol |-> 1, state |-> "OPEN", service |-> <<"o">>, tls |-> TRUE]
CallHistory ==
    LET findings == Rows!SaveFindings(Rows!SaveFindings(Rows!NoRows, "s1", input.findings), "s2", <<OtherFinding>>)
        ports == Rows!SavePorts(Rows!SavePorts(Rows!NoRows, "s2", <<OtherPort>>), "s1", input.ports)
    IN  Called("history", [findings |-> Rows!LoadFindings(findings, "s1"), ports |-> Rows!LoadPorts(ports, "s1"),
                           others |-> <<Rows!LoadFindings(findings, "s2"), Rows!LoadPorts(ports, "s2")>>])

\* Inserts and updates of the rows of two scans, started at 1 and 2.
RowSteps == [do : {"insert", "update"}, id : {1, 2}, status : {"running", "done"}, target : {"t", "u"}]
RowInputs == [steps : UpTo(3, {r \in RowSteps : r.do = "update" => r.target = "t"}), limit : 0..2]
CallRows ==
    LET Step(t, r) == IF r.do = "insert"
                      THEN Rows!UpsertScan(t, [id |-> r.id, target |-> r.target, started |-> r.id,
                                               status |-> r.status, completed |-> 0])
                      ELSE Rows!UpdateScanStatus(t, r.id, r.status, 5)
        scans == FoldLeft(Step, Rows!NoRows, input.steps)
    IN  Called("rows", [list |-> Rows!ListScans(scans, input.limit), first |-> Rows!GetScan(scans, 1)])

-----------------------------------------------------------------------------
OthersInit ==
    /\ \/ subject = "tokenize" /\ input \in LexerInputs
       \/ subject = "parse" /\ input \in Ref!Programs
       \/ subject = "scopes" /\ input \in ScopeInputs
       \/ subject = "return" /\ input \in ReturnInputs
       \/ subject = "preview" /\ input \in FilterInputs
       \/ subject = "string" /\ input \in StringInputs
       \/ subject = "dpkg" /\ input \in DpkgInputs
       \/ subject = "backport" /\ input \in BackportInputs
       \/ subject = "range" /\ input \in RangeInputs
       \/ subject = "resolve" /\ input \in DnsInputs
       \/ subject = "parse_kexinit" /\ input \in KexInputs
       \/ subject = "strip" /\ input \in StripInputs
       \/ subject = "send" /\ input \in SendInputs
       \/ subject = "terrapin" /\ input \in TerrapinInputs
       \/ subject = "escape" /\ input \in EscapeInputs
       \/ subject = "fields" /\ input \in FieldInputs
       \/ subject = "cookie" /\ input \in CookieInputs
       \/ subject = "url" /\ input \in UpTo(3, UrlChars)
       \/ subject = "query" /\ input \in QueryInputs
       \/ subject = "headers" /\ input \in HeaderInputs
       \/ subject = "chunks" /\ input \in ChunkInputs
       \/ subject = "probe" /\ input \in ProbeInputs
       \/ subject = "receive" /\ input \in ReceiveInputs
       \/ subject = "detect" /\ input \in PatternInputs
       \/ subject = "files" /\ input \in FileInputs
       \/ subject = "distro" /\ input \in BannerInputs
       \/ subject = "history" /\ input \in HistoryInputs
       \/ subject = "rows" /\ input \in RowInputs
    /\ output = <<>>
    /\ called = FALSE
Init == DecisionsInit \/ OthersInit

Next ==
    \/ DecisionsNext
    \/ CallTokenize \/ CallParse \/ CallScopes \/ CallReturn \/ CallPreview \/ CallString
    \/ CallDpkg \/ CallBackport \/ CallRange
    \/ CallResolve \/ CallParseKexinit \/ CallStrip \/ CallSend \/ CallTerrapin
    \/ CallEscape \/ CallFields \/ CallCookie \/ CallUrl \/ CallQuery \/ CallHeaders
    \/ CallChunks \/ CallProbe \/ CallReceive
    \/ CallDetect \/ CallFiles \/ CallDistro \/ CallHistory \/ CallRows

Spec == Init /\ [][Next]_vars

-----------------------------------------------------------------------------
(* The plugin language.                                                    *)

\* Lexer::tokenize reads back any two tokens: through every kind of blank and comment,
\* with none between tokens that do not run into each other, and with quotes,
\* backslashes and comment marks inside strings.
TokensReadBack ==
    Answered("tokenize") => output = input.tokens \o <<Lexer!EndOfFile>>

\* Parser::parse_program inverts a printer that writes as few parentheses as the
\* grammar comment allows: precedence, associativity, postfix chains, trailing
\* blocks and else-if chains are as documented, and the whole input is read.
ProgramsReadBack == Answered("parse") => output.ok /\ output.node = input

\* A name means the variable of the outermost open block that assigned it, through
\* nested ifs and plugin.run blocks; a name that no open block assigned is an error
\* that ends the plugin with the findings it has made so far.
NamesAsWritten ==
    Answered("scopes") =>
        LET seen == Ref!ReportedValues(Events(input))
            good == Min({i \in 1..Len(seen) : seen[i] = 0} \cup {Len(seen) + 1}) - 1
        IN  output = [i \in 1..good |-> ToString(seen[i])]
                       \o IF good < Len(seen) THEN <<"Plugin runtime error">> ELSE <<>>

\* A return in a plugin.run block, however deep, has the effect of leaving out the
\* rest of that block and no more: what stands behind the block still runs.
ReturnEndsItsBlock ==
    Answered("return") => output = RunZtl(WithReturn(input, FALSE))

\* The filter is decided twice, from the preload (run_for_port) and during the run
\* (plugin.run).  For a plugin that declares before it runs, the preload does not
\* run the block, finds the metadata of the run, and both decisions agree.
FilterDecidedOnce ==
    Answered("preview") =>
        /\ output.preview = output.run.meta
        /\ Titles(output.run) = IF Ztl!Admits(output.preview, input.known) THEN <<"f">> ELSE <<>>

CodeOf == [c \in {"a", "b", " "} |-> CASE c = "a" -> 97 [] c = "b" -> 98 [] c = " " -> 32]

\* The string methods agree with each other at every position, also negative ones and
\* ones behind the end: slices are parts of the string and put together again,
\* index_of is the first place where contains and starts_with hold, byte_at is a
\* character's code inside the string and -1 behind it, trim leaves what stands between
\* the blanks, and to_lower undoes to_upper for a text in lower case.
StringMethodsAgree ==
    Answered("string") =>
        LET s == input.s
            n == Len(s)
            Clip(i) == Max({0, Min({i, n})})
        IN  /\ output.head \o output.tail = s \/ input.from < 0
            /\ input.from >= 0 =>
                 Len(output.slice) = Max({0, Clip(input.to) - Clip(input.from)})
            /\ \E i \in 0..n : SubSeq(s, i + 1, i + Len(output.slice)) = output.slice
            /\ output.contains = (output.index >= 0)
            /\ output.starts = (output.index = 0)
            /\ output.contains =>
                 \E head \in {SubSeq(s, 1, i) : i \in 0..n}, tail \in {SubSeq(s, i + 1, n) : i \in 0..n} :
                    head \o input.p \o tail = s /\ Len(head) = output.index
            /\ output.ends => output.contains
            /\ input.from \in 0..(n - 1) =>
                 output.byte = CodeOf[SubSeq(s, input.from + 1, input.from + 1)]
            /\ input.from >= n => output.byte = -1
            /\ \E pad \in {"", " "} : pad \o output.trim \o pad = s
            /\ output.trim \in {"", "a", "ab", "aba"}
            /\ output.lower = s /\ (output.upper = s) = (n = 0)

-----------------------------------------------------------------------------
(* Versions, addresses and the database.                                   *)

\* The sort key of a Debian version text: the weights of its characters, with 0 for
\* the end of a run of non-digits and the value of each number.
Weight(c) == IF c = 126 THEN -1 ELSE IF c \in 97..122 THEN c ELSE c + 1000
DpkgKey(s) ==
    FoldLeft(LAMBDA k, c :
                CASE c \notin 48..57 -> [key |-> Append(k.key, Weight(c)), digits |-> FALSE]
                  [] c \in 48..57 /\ ~k.digits ->
                        [key |-> k.key \o <<0, c - 48>>, digits |-> TRUE]
                  [] OTHER -> [k EXCEPT !.key[Len(k.key)] = @ * 10 + c - 48],
             [key |-> <<>>, digits |-> FALSE], s).key
KeyOrder(a, b) ==
    LET n == Max({Len(a), Len(b)})
        Pad(k) == [i \in 1..n |-> IF i <= Len(k) THEN k[i] ELSE 0]
        D == {i \in 1..n : Pad(a)[i] # Pad(b)[i]}
    IN  IF D = {} THEN 0 ELSE IF Pad(a)[Min(D)] < Pad(b)[Min(D)] THEN -1 ELSE 1

\* dpkg_compare is the order of the keys, hence a total order: a tilde sorts before
\* the end, letters before other characters, and numbers by value.
DpkgOrder ==
    Answered("dpkg") => output = KeyOrder(DpkgKey(input[1]), DpkgKey(input[2]))

\* check_backport says patched exactly when a released fix is for the installed
\* upstream version and its revision does not sort behind the installed one, with
\* dashes in the upstream version and epochs in the database; never without a version
\* or a revision.
PatchedByAFix ==
    Answered("backport") =>
        output = /\ input.upstream # <<>> /\ input.revision # <<>>
                 /\ \E f \in ToSet(input.fixes) :
                       /\ f.status = "released"
                       /\ KeyOrder(DpkgKey(f.upstream), DpkgKey(input.upstream)) = 0
                       /\ KeyOrder(DpkgKey(f.revision), DpkgKey(input.revision)) <= 0

\* VersionMatcher::in_range is the order of the numbers, read to base 100 with missing
\* components 0, both ends included, whatever prefix or suffix a banner puts around
\* the version.
AsNumber(v) == LET Part(i) == IF i <= Len(v) THEN v[i] ELSE 0
               IN  Part(1) * 10000 + Part(2) * 100 + Part(3)
RangesAsNumbers ==
    Answered("range") =>
        output = /\ input.low # Ver!Any => AsNumber(input.low) <= AsNumber(input.numbers)
                 /\ input.high # Ver!Any => AsNumber(input.numbers) <= AsNumber(input.high)

-----------------------------------------------------------------------------
(* Messages of the native checks.                                          *)

\* resolve finds the first A record of a reply, behind owners in every encoding and
\* behind other records, and the walk over its own query ends at type and class.
FirstAddressFound ==
    Answered("resolve") =>
        LET good == {i \in 1..Len(input.records) :
                        input.records[i].type = 1 /\ Len(input.records[i].data) = 4}
        IN  /\ output.question = 4
            /\ output.address = IF good = {} \/ ~input.sent \/ ~input.answered THEN <<>>
                                ELSE input.records[Min(good)].data

\* parse_kexinit reads back the lists of a framed KEXINIT; one whose bytes are not all
\* there, or a list of which runs past its payload, is refused.
KexinitReadsBack ==
    Answered("parse_kexinit") =>
        output = IF input.missing = 0 /\ input.stretched = 0
                 THEN <<input.kex, input.ciphers, input.macs>> ELSE Ssh!NoKexinit

\* strip_pre_kexinit_lines leaves exactly the KEXINIT, behind any lines a server may
\* send first; without one it leaves all of the text.
KexinitBehindLines ==
    Answered("strip") =>
        output = IF input.kexinit THEN KexFrame(SmallKex) ELSE FlattenSeq(input.lines) \o <<97>>

\* Tcp::send hands over the bytes once and in order, and says so exactly when all of
\* them are gone, through short writes and interruptions.
SendIsComplete ==
    Answered("send") =>
        LET n == Len(input)
            taken == FoldLeft(LAMBDA s, r : IF s.failed \/ s.sum >= 3 THEN s
                                            ELSE [sum |-> s.sum + Max({r, 0}), failed |-> r = Native!SendFails],
                              [sum |-> 0, failed |-> FALSE], input)
        IN  /\ output.ok = ~taken.failed
            /\ output.sent = IF output.ok THEN SendData ELSE SubSeq(SendData, 1, taken.sum)

\* check_terrapin never reports a server that is not vulnerable, and never keeps
\* lists that the server did not send, however its bytes arrive.  A server that waits
\* for the client's banner gets the right verdict wherever its KEXINIT is cut.
TerrapinVerdict ==
    Answered("terrapin") =>
        LET server == Server(input)
            vulnerable == ~input.strict /\ (input.chacha \/ (input.cbc /\ input.etm))
            lists == <<server.kex, server.ciphers, server.macs>>
            smooth == /\ input.greeting = "whole" /\ input.silent = 0
                      /\ input.trouble \in {"none", "short writes"}
        IN  /\ output.finding => vulnerable
            /\ output.kb \in {Native!NoKexinit, lists}
            /\ smooth => output.finding = vulnerable /\ output.kb = lists

-----------------------------------------------------------------------------
(* The web server's texts.                                                 *)

\* A reader of JSON arrays of strings: the values of a text, or "invalid".
JsonStrings(text) ==
    LET Act(s, c) ==
          CASE s.mode = "out" /\ c = Quote -> [s EXCEPT !.mode = "in", !.now = <<>>]
            [] s.mode = "out" /\ c # Quote -> [s EXCEPT !.marks = Append(@, c)]
            [] s.mode = "in" /\ c = Quote -> [s EXCEPT !.mode = "out", !.all = Append(@, s.now)]
            [] s.mode = "in" /\ c = "\\" -> [s EXCEPT !.mode = "escape"]
            [] s.mode = "in" /\ c \in {"\n", "\t", "ctl"} -> [s EXCEPT !.mode = "invalid"]
            [] s.mode = "in" /\ c \notin {Quote, "\\", "\n", "\t", "ctl"} ->
                  [s EXCEPT !.now = Append(@, c)]
            [] s.mode = "escape" /\ c \in {Quote, "\\", "n", "t"} ->
                  [s EXCEPT !.mode = "in",
                            !.now = Append(@, CASE c = "n" -> "\n" [] c = "t" -> "\t" [] OTHER -> c)]
            [] s.mode = "escape" /\ c = "u" -> [s EXCEPT !.mode = "code", !.code = <<>>]
            [] s.mode = "code" /\ Len(s.code) < 3 -> [s EXCEPT !.code = Append(@, c)]
            [] s.mode = "code" /\ Len(s.code) = 3 ->
                  [s EXCEPT !.mode = IF Append(s.code, c) = <<"0", "0", "1", "b">> THEN "in" ELSE "invalid",
                            !.now = Append(@, "ctl")]
            [] OTHER -> [s EXCEPT !.mode = "invalid"]
    IN  FoldLeft(Act, [mode |-> "out", now |-> <<>>, all |-> <<>>, code |-> <<>>, marks |-> <<>>], text)

\* What json_string_array and json_escape write is valid JSON for the same strings,
\* whatever quotes, backslashes and control characters a banner put into them.
JsonIsValid ==
    Answered("escape") =>
        LET read == JsonStrings(output)
        IN  /\ read.mode = "out" /\ read.all = input
            /\ read.marks = <<"[">> \o [i \in 1..(IF input = <<>> THEN 0 ELSE Len(input) - 1) |-> ","]
                              \o <<"]">>

\* A start request that is written as JSON is read back field by field, in any order,
\* with escaped values that look like syntax; a field that is not there is empty.
FieldsReadBack ==
    Answered("fields") =>
        output = [target |-> input.target, number |-> input.number, absent |-> <<>>]

\* cookie_value gives the value of the first cookie of exactly that name.
CookieOfThatName ==
    Answered("cookie") =>
        LET mine == SelectSeq(input.pairs, LAMBDA p : p.name = <<"s">>)
        IN  output = IF mine = <<>> THEN <<>> ELSE mine[1].value

\* What urlencode writes into the sign-in URL, decode_url of the HTTP library reads.
UrlReadsBack == Answered("url") => output = input

\* parse_query_text reads back every parameter, with separators and equals signs in
\* names and values.
QueryReadsBack == Answered("query") => output = ToSet(input.parameters)

\* read_headers reads back the fields of a message, up to the blank line and no
\* further, with any blanks around a value and colons in it.
HeadersReadBack ==
    Answered("headers") =>
        output = [ok |-> TRUE, fields |-> input.fields, next |-> Len(HeaderText(input)) + 1]

\* A body that was sent in chunks is read back whole; when the writer stops early the
\* reader reports a failure, never a shorter body.
ChunksReadBack ==
    Answered("chunks") =>
        LET complete == \A i \in 1..(Len(input) - 1) :
                            input[i] # <<>> => input[i][Len(input[i])] # <<>>
        IN  /\ output.ok = complete
            /\ complete => output.body = FlattenSeq(FlattenSeq(input))

\* A plugin sees the response that was sent: its status, its fields by name in any
\* case, and its body; a head whose lines end in a bare line feed has no body.
ProbeReadsBack ==
    Answered("probe") =>
        IF ~input.connected \/ ~input.sent THEN output = Probe!Null
        ELSE LET crlf == input.eol = Http!CrLf
                 A == SelectSeq(input.fields, LAMBDA f : f[1] # <<"b">>)
             IN  /\ output.status = input.status
                 /\ output.headers = input.fields
                 /\ crlf => output.body = input.body
                 /\ Probe!Header(output, <<"a">>) =
                      IF A = <<>> THEN Probe!Null ELSE [null |-> FALSE, value |-> A[1][2]]

\* What is kept of a response is a beginning of it: all of what arrived before the peer
\* closed or paused, unless one of the two limits cuts it.
ReceivesTheBeginning ==
    Answered("receive") =>
        \E n \in 1..Len(input) :
            LET kept == SubSeq(input, 1, n)
            IN  /\ output = FlattenSeq(kept)
                /\ n <= Probe!MaxReceives
                /\ Len(FlattenSeq(Front(kept))) <= Probe!MaxBytes
                /\ \/ n = Len(input) \/ n = Probe!MaxReceives \/ Len(output) > Probe!MaxBytes
                   \/ input[n] = <<>>

-----------------------------------------------------------------------------
(* Data files and the scan history.                                        *)

\* The first probe line of the file that matches the banner names the service, and only
\* its groups name product and version.  A line without an expression is left out,
\* unless a flag follows the empty expression.
FirstPatternDecides ==
    Answered("detect") =>
        LET Same(c, d, p) == c = d \/ (p.flag = <<"icase">> /\ {c, d} = {"a", "A"})
            Written(p) == p.says = "match" /\ (p.letters # <<>> \/ p.groups > 0 \/ p.flag # <<>>)
            Starts(p) == {i \in 1..(Len(input.banner) + 1) :
                            /\ i + Len(p.letters) + p.groups <= Len(input.banner) + 1
                            /\ \A j \in 1..Len(p.letters) : Same(input.banner[i + j - 1], p.letters[j], p)}
            hits == {i \in 1..Len(input.lines) : Written(input.lines[i]) /\ Starts(input.lines[i]) # {}}
            p == input.lines[Min(hits)]
        IN  output = IF hits = {} THEN [service |-> <<>>, product |-> <<>>, version |-> <<>>]
                     ELSE [service |-> p.service, version |-> <<>>,
                           product |-> IF p.groups = 0 THEN <<>>
                                       ELSE <<input.banner[Min(Starts(p)) + Len(p.letters)]>>]

\* The tables hold the rows of their files, whatever number of optional fields is
\* written: each that is no comment and whose sixth field does not end the line empty.
\* A carriage return stays in the last field, and is the reason a row is kept.
FilesReadBack ==
    Answered("files") =>
        LET kept == SelectSeq(input, LAMBDA r : r.cve = <<"c">> /\ (r.status # <<>> \/ r.more > 0 \/ r.cr))
            Cr(r, n) == IF r.cr /\ 6 + r.more = n THEN <<"\r">> ELSE <<>>
            HasUbuntu(r) == r.distro = <<"Ubuntu">>
        IN  /\ [i \in 1..Len(output.fixes) |-> <<output.fixes[i].distro, output.fixes[i].status>>] =
               [i \in 1..Len(kept) |-> <<IF HasUbuntu(kept[i]) THEN <<"ubuntu">> ELSE <<"debian">>,
                                         (IF kept[i].status = <<>> THEN <<>> ELSE <<"a">>) \o Cr(kept[i], 6)>>]
            /\ Len(output.ubuntu) = Len(SelectSeq(kept, HasUbuntu))
            /\ [i \in 1..Len(output.entries) |->
                   LET e == output.entries[i] IN <<e.cve, e.product, e.severity, e.description, e.cvss,
                                                   e.vector, e.remediation, e.references>>] =
               [i \in 1..Len(kept) |->
                   LET r == kept[i]
                       Given(n, text) == IF r.more < n THEN <<>> ELSE text \o Cr(r, 6 + n)
                   IN  <<r.cve, r.distro, "HIGH", r.status \o Cr(r, 6),
                         IF r.more = 0 THEN <<"-1">> ELSE <<"9">>, Given(2, <<"v">>), Given(3, <<"m">>),
                         IF r.more < 4 THEN <<>> ELSE << <<"x">>, <<"y">> \o Cr(r, 10) >>>>]

\* A package revision that a banner gives behind the marker of its distribution reaches
\* check_backport as it was written, from anywhere in the banner.
RevisionReachesTheCheck ==
    Answered("distro") =>
        LET Clear(word) == word \notin ToSet(input.before)
            given == input.revision # <<>>
        IN  /\ input.marker = <<"Ubuntu-">> /\ given /\ Clear("Ubuntu-") =>
                  output.package = [distro |-> "ubuntu", revision |-> input.revision]
            /\ /\ input.marker = <<"Debian-">> /\ given
               /\ \A w \in {"Ubuntu-", "Debian-"} : Clear(w)
               => output.package = [distro |-> IF "ubuntu" \in ToSet(input.revision) THEN "ubuntu" ELSE "debian",
                                    revision |-> input.revision]
            /\ input.marker = <<>> /\ Clear("Ubuntu-") /\ Clear("Debian-") =>
                  output.package = [distro |-> "", revision |-> <<>>]
            /\ output.package.distro # "" => output.tag[1] \in {"Ubuntu", "Debian"}
            /\ input.before \in {<<"el", "1", "_">>, <<" ", "el", "1", "_">>} /\ input.marker = <<>> =>
                  (output.tag = <<"RHEL", " ", "(", "1", ")">>) = (given /\ input.revision[1] = "1")

\* The history gives back what was saved for a scan, in its order and nothing of another
\* scan; a text is cut at a NUL, and a reference with a bar in it becomes two.
HistoryReadsBack ==
    Answered("history") =>
        LET Until(t) == IF "NUL" \in ToSet(t) THEN <<"a">> ELSE t
            Refs(rs) == IF rs # <<>> /\ rs[1] = <<>> THEN << <<"r">>, <<"s">> >> ELSE rs
        IN  /\ output.findings = [i \in 1..Len(input.findings) |->
                  [input.findings[i] EXCEPT !.text = Until(@), !.references = Refs(@)]]
            /\ output.ports = input.ports
            /\ output.others = <<<<OtherFinding>>, <<OtherPort>>>>

\* The list shows the newest scans, each as it was first inserted, with the status that
\* came last.
RowsKeepTheirStart ==
    Answered("rows") =>
        LET Of(id) == {i \in 1..Len(input.steps) : input.steps[i].id = id}
            Inserts(id) == {i \in Of(id) : input.steps[i].do = "insert"}
            Shown(id) == [id |-> id, target |-> input.steps[Min(Inserts(id))].target, started |-> id,
                          status |-> input.steps[Max(Of(id))].status,
                          completed |-> IF input.steps[Max(Of(id))].do = "update" THEN 5 ELSE 0]
            ids == SelectSeq(<<2, 1>>, LAMBDA id : Inserts(id) # {})
        IN  /\ output.list = [i \in 1..Min({Len(ids), input.limit}) |-> Shown(ids[i])]
            /\ output.first = IF Inserts(1) = {} THEN <<>> ELSE <<Shown(1)>>

-----------------------------------------------------------------------------
(* The invariants by subject.                                              *)

\* The lexer and the parser of the plugin language read back what a printer wrote.
SyntaxReadsBack == TokensReadBack /\ ProgramsReadBack

\* Names, returns, filters and strings of a plugin mean what its author reads (Interpreter).
PluginsMeanWhatTheySay ==
    NamesAsWritten /\ ReturnEndsItsBlock /\ FilterDecidedOnce /\ StringMethodsAgree

\* What the DNS and SSH code reads from the wire is what was written to it.
MessagesReadBack ==
    FirstAddressFound /\ KexinitReadsBack /\ KexinitBehindLines /\ SendIsComplete

\* JSON, cookies, URLs, parameters, headers and bodies survive their way through the web
\* server's own text functions (webui.cpp) and the HTTP library, and a plugin's own HTTP
\* client sees the response as it was sent.
WebTextReadsBack ==
    /\ JsonIsValid /\ FieldsReadBack /\ CookieOfThatName
    /\ UrlReadsBack /\ QueryReadsBack /\ HeadersReadBack /\ ChunksReadBack
    /\ ProbeReadsBack /\ ReceivesTheBeginning

\* A version is compared by the key that it stands for (cve.cpp).
VersionsAsTheirKeys == DpkgOrder /\ PatchedByAFix /\ RangesAsNumbers

\* Data files, banners, versions and the rows of the history are read as they were written.
RecordsReadBack ==
    /\ FirstPatternDecides /\ FilesReadBack /\ RevisionReachesTheCheck /\ VersionsAsTheirKeys
    /\ HistoryReadsBack /\ RowsKeepTheirStart
=============================================================================
