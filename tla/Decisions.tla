----------------------------- MODULE Decisions -----------------------------
(***************************************************************************)
(* Functions that decide something and hold for every input of theirs:     *)
(* which addresses a block has (expand_cidr), which version is newer and   *)
(* what follows for a CVE (scan/cve.cpp), what a TLS server is reported    *)
(* for (tls/checks.cpp), which bytes an answer carries (httplib.h).        *)
(* A behaviour picks a function (subject) and one of its inputs and makes  *)
(* the call; the invariants relate the output to the input.                *)
(***************************************************************************)
EXTENDS Cidr, FiniteSetsExt

CONSTANTS
    IntMax, RangeMaxCount, MaxOverlaps,     \* limits of std::stoi and of httplib.h
    CidrInputs, OrderInputs, NewerInputs, VerifyInputs, TlsInputs, ByteRangeInputs

Ver == INSTANCE Versions
Tls == INSTANCE TlsChecks
Body == INSTANCE ByteRanges

ASSUME Limits == IntMax \in Nat /\ RangeMaxCount \in Nat \ {0} /\ MaxOverlaps \in Nat

-----------------------------------------------------------------------------
(* The inputs.                                                             *)

\* Texts of an address and a prefix; the prefix of another form is not looked at.
CidrTexts == [form : {"no slash", "bad prefix", "bad base", "cidr"}, base : 0..(Width - 1), prefix : Nat]

\* Three versions and the two ends of a range of the database.
Orders == [versions : [1..3 -> Ver!Text], range : Ver!Text \X Ver!Text]

\* An installed version, its revision and another one (a Debian revision has no dash),
\* and the rows of the distribution.
Fixes == [status : STRING, fixed : Ver!Text]
DashFree == {r \in Ver!Text : \A i \in 1..Len(r) : r[i] # Ver!Dash}
Upgrades == [fixes : Seq(Fixes), version : Ver!Text, revision : DashFree, newer : DashFree]

\* A database and a question to it.
Entries == [product : Ver!Text, cve : STRING, range : Ver!Text \X Ver!Text]
Questions == [db : Seq(Entries), cve : STRING, product : Ver!Text, version : Ver!Text]

\* A server, and the handshakes that it refuses.
Suites == {<<"ADH", "AES128", "SHA">>, <<"AECDH", "NULL", "SHA">>, <<"NULL", "SHA256">>,
           <<"RC4", "SHA">>, <<"DES", "CBC3", "SHA">>, <<"AES128", "SHA">>}
Certificates == [present : BOOLEAN, hours : Int, subject : STRING, issuer : STRING, signature : STRING]
Servers == [suites : Seq(Suites), tls13 : BOOLEAN, version : STRING, cert : Certificates,
            build : SUBSET Suites, emptyList : BOOLEAN]
Audits == [port : Nat, server : Servers, refusing : SUBSET STRING]

\* The ranges of a request and the body of its answer.
Bytes == STRING
Requests == [parts : Seq((Nat \cup {Body!Absent}) \X (Nat \cup {Body!Absent})), body : Seq(Bytes)]

ASSUME InputTypes ==
    /\ \A t \in CidrInputs : t \in CidrTexts
    /\ \A t \in OrderInputs : t \in Orders
    /\ \A t \in NewerInputs : t \in Upgrades
    /\ \A t \in VerifyInputs : t \in Questions
    /\ \A t \in TlsInputs : t \in Audits
    /\ \A t \in ByteRangeInputs : t \in Requests

-----------------------------------------------------------------------------
VARIABLES subject, input, output, called
vars == <<subject, input, output, called>>

\* The call of one function on the chosen input.
Called(name, result) ==
    /\ subject = name /\ ~called
    /\ output' = result
    /\ called' = TRUE
    /\ UNCHANGED <<subject, input>>

Answered(name) == subject = name /\ called

CallCidr == Called("cidr", ExpandCidr(input))

\* Every two of three versions, as package versions and as upstream versions.
CallOrder ==
    LET v == input.versions
        Pairs == (1..3) \X (1..3)
    IN  Called("order",
            [dpkg |-> [p \in Pairs |-> Ver!DpkgCompare(v[p[1]], v[p[2]])],
             upstream |-> [p \in Pairs |->
                Ver!CompareVersions(Ver!ParseVersion(v[p[1]]), Ver!ParseVersion(v[p[2]]))],
             known |-> [i \in 1..3 |-> Ver!ParseVersion(v[i]) # <<>>],
             inside |-> [i \in 1..3 |-> Ver!InRange(v[i], input.range)]])

\* The same package before and after an upgrade of its revision.
CallNewer ==
    Called("newer",
        [patched |-> Ver!CheckBackport(input.fixes, input.version, input.revision),
         later |-> Ver!CheckBackport(input.fixes, input.version, input.newer),
         order |-> Ver!DpkgCompareStr(input.revision, input.newer)])

CallVerify ==
    Called("verify", [verified |-> Ver!VerifyVersion(input.db, input.cve, input.product, input.version),
                      found |-> Ver!Lookup(input.db, input.product, input.version)])

CallTls == Called("tls", Tls!RunTlsChecks(input.port, input.server, input.refusing))

CallRanges == Called("ranges", Body!ApplyRanges(input.parts, input.body))

DecisionsInit ==
    /\ \/ subject = "cidr" /\ input \in CidrInputs
       \/ subject = "order" /\ input \in OrderInputs
       \/ subject = "newer" /\ input \in NewerInputs
       \/ subject = "verify" /\ input \in VerifyInputs
       \/ subject = "tls" /\ input \in TlsInputs
       \/ subject = "ranges" /\ input \in ByteRangeInputs
    /\ output = <<>>
    /\ called = FALSE

DecisionsNext == CallCidr \/ CallOrder \/ CallNewer \/ CallVerify \/ CallTls \/ CallRanges

DecisionsSpec == DecisionsInit /\ [][DecisionsNext]_vars

-----------------------------------------------------------------------------
(* Addresses.                                                              *)

\* expand_cidr gives the addresses that share the prefix with the base, the first
\* MaxHosts of them and in ascending order, also for the prefixes 0 and all bits; a text
\* without a slash stands for itself and anything else for nothing.
CidrIsTheBlock ==
    Answered("cidr") =>
        LET size == Block(input.prefix)
            block == {a \in 0..(Width - 1) : a \div size = input.base \div size}
        IN  CASE input.form = "no slash" -> output = <<input.base>>
              [] input.form = "cidr" /\ input.prefix <= Bits ->
                    /\ Len(output) = Min({MaxHosts, Cardinality(block)})
                    /\ \A i \in 1..Len(output) :
                          /\ output[i] \in block
                          /\ \A a \in block : a < output[i] <=> \E j \in 1..(i - 1) : output[j] = a
              [] OTHER -> output = <<>>

-----------------------------------------------------------------------------
(* Versions.                                                               *)

\* The results of comparing three things pairwise are those of an order.
IsOrder(c) ==
    \A i, j, k \in 1..3 :
        /\ c[<<i, j>>] = -c[<<j, i>>]
        /\ c[<<i, j>>] <= 0 /\ c[<<j, k>>] <= 0 => c[<<i, k>>] <= 0

\* What is compared by dpkg_compare or by VersionMatcher::compare can be sorted, and an
\* in_range that holds for two versions holds for every known version between them.
ComparisonsAreOrders ==
    Answered("order") =>
        /\ IsOrder(output.dpkg) /\ IsOrder(output.upstream)
        /\ \A i, j, k \in 1..3 :
              /\ output.inside[i] /\ output.inside[k] /\ output.known[j]
              /\ output.upstream[<<i, j>>] <= 0 /\ output.upstream[<<j, k>>] <= 0
              => output.inside[j]

\* A package that check_backport calls patched stays patched when its revision is
\* upgraded, whatever dashes the upstream version has.  The upgraded revision is not
\* empty: that compares equal to "0", but check_backport answers "not patched" to it.
PatchedStaysPatched ==
    Answered("newer") =>
        (output.patched /\ output.order <= 0 /\ input.newer # <<>> => output.later)

\* verify_version, which plugins call, confirms an identifier exactly when lookup,
\* which the CLI calls, lists it; without product or version it knows nothing.
VerifyAgreesWithLookup ==
    Answered("verify") =>
        /\ output.verified = "VERSION_MATCH" <=>
             (IF input.cve = "" THEN output.found # {} ELSE input.cve \in output.found)
        /\ output.verified = "UNKNOWN" <=> input.product = <<>> \/ input.version = <<>>

\* The comparisons of versions are orders, and what is decided by them respects them (cve.cpp).
VersionsInOrder == ComparisonsAreOrders /\ PatchedStaysPatched /\ VerifyAgreesWithLookup

-----------------------------------------------------------------------------
(* TLS servers.                                                            *)

Kind(finding) ==
    CASE finding = "tls-anonymous-ciphers" -> "aNULL" [] finding = "tls-null-ciphers" -> "eNULL"
      [] finding = "tls-rc4-supported" -> "RC4"
CipherFindings == {"tls-anonymous-ciphers", "tls-null-ciphers", "tls-rc4-supported"}
Accepts(server, kind) == \E i \in 1..Len(server.suites) :
                            kind \in Tls!Groups(server.suites[i]) /\ server.suites[i] \in server.build

\* A finding about a suite means that the server accepts a suite of that kind, even when
\* TLS 1.3 or the default suites are negotiated instead; and a server below TLS 1.3
\* that passes the first handshake is reported for each kind it accepts and the
\* client's OpenSSL still has, 3DES excepted (its marker is in no suite's name).
\* Findings about the certificate and the protocol are true of the first handshake.
TlsVerdict ==
    Answered("tls") =>
        LET server == input.server
            first == "" \notin input.refusing /\ (server.tls13 \/ Accepts(server, "DEFAULT"))
            Reported(f) == f \in output
        IN  /\ Reported("tls-supported") = (first /\ input.port \in Tls!TlsPorts)
            /\ output # {} => Reported("tls-supported")
            /\ {"tls-des-supported", "tls-export-supported"} \cap output = {}
            /\ \A f \in CipherFindings : Reported(f) => Accepts(server, Kind(f))
            /\ Reported("tls-supported") /\ ~server.tls13 =>
                  \A f \in CipherFindings :
                     Accepts(server, Kind(f)) /\ Kind(f) \notin input.refusing => Reported(f)
            /\ Reported("tls-cert-expired") => server.cert.hours < 0
            /\ Reported("tls-old-protocol") => ~server.tls13 /\ server.version # "TLSv1.2"
            /\ ~server.cert.present => ~Reported("tls-cert-self-signed")

\* "expired: whether the certificate is expired" (documentation.md:676): a TLS service
\* whose certificate ran out is reported with an expired certificate.
ExpiredIsReported ==
    Answered("tls") => \/ "tls-supported" \notin output
                       \/ ~input.server.cert.present
                       \/ input.server.cert.hours >= 0
                       \/ "tls-cert-expired" \in output

-----------------------------------------------------------------------------
(* Byte ranges.                                                            *)

\* The bytes of a range, as RFC 9110 defines them.
BytesOf(r, len) ==
    IF r[1] = Body!Absent THEN {i \in 0..(len - 1) : r[2] # Body!Absent /\ i >= len - r[2]}
    ELSE {i \in r[1]..(len - 1) : r[2] = Body!Absent \/ i <= r[2]}

\* A partial answer holds exactly the bytes of each range and says so in its
\* Content-Range; one range that selects bytes is never refused, except a suffix
\* longer than the content.
RangesAreTheBytes ==
    Answered("ranges") =>
        LET len == Len(input.body)
            Good(r) == /\ BytesOf(r, len) # {}
                       /\ r[1] = Body!Absent => r[2] <= len
                       /\ r[1] # Body!Absent /\ r[2] # Body!Absent => r[1] <= r[2]
        IN  /\ output.status = 200 <=> input.parts = <<>>
            /\ Len(input.parts) = 1 => ((output.status = 206) = Good(input.parts[1]))
            /\ output.status = 206 =>
                 \A i \in 1..Len(input.parts) :
                    LET B == BytesOf(input.parts[i], len)
                        part == output.parts[i]
                    IN  /\ part.range = <<Min(B), Max(B), len>>
                        /\ part.data = [j \in 1..Cardinality(B) |-> input.body[Min(B) + j]]
=============================================================================
