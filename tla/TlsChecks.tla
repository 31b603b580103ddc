----------------------------- MODULE TlsChecks -----------------------------
(***************************************************************************)
(* The TLS checks of protocols/tls/checks.cpp with their seven handshakes  *)
(* (transport/tls.cpp).  What OpenSSL and the audited server agree on is   *)
(* modelled from the calls that transport::Tls makes.  A cipher suite is   *)
(* the sequence of the parts of its name.                                  *)
(***************************************************************************)
EXTENDS Integers, SequencesExt, FiniteSetsExt

TlsPorts == {443, 465, 636, 989, 990, 993, 995, 5061, 8443}

\* Suites below TLS 1.3 and the cipher strings of OpenSSL that select them.
Groups(suite) ==
    CASE suite = <<"ADH", "AES128", "SHA">> -> {"aNULL"}
      [] suite = <<"AECDH", "NULL", "SHA">> -> {"aNULL", "eNULL"}
      [] suite = <<"NULL", "SHA256">> -> {"eNULL"}
      [] suite = <<"RC4", "SHA">> -> {"RC4"}
      [] suite = <<"DES", "CBC3", "SHA">> -> {"3DES"}
      [] suite = <<"AES128", "SHA">> -> {"DEFAULT"}
Modern == <<"TLS_AES_128_GCM_SHA256">>

FirstPart(name, parts) == Len(name) > 1 /\ name[1] \in parts
MiddlePart(name, part) == \E i \in 2..(Len(name) - 1) : name[i] = part

\* cipher_is_anonymous and cipher_is_null on the name of the negotiated suite.
CipherIsAnonymous(name) == FirstPart(name, {"ADH", "AECDH"}) \/ MiddlePart(name, "ANON")
CipherIsNull(name) ==
    MiddlePart(name, "NULL") \/ FirstPart(name, {"NULL"}) \/ \E i \in 2..Len(name) : name[i] = "NULL"

\* weak_cipher_groups: the cipher string, the finding and the marker in the name.
WeakCipherGroups ==
    {[expr |-> "RC4", finding |-> "tls-rc4-supported"],
     [expr |-> "3DES", finding |-> "tls-3des-supported"],
     [expr |-> "DES:!3DES", finding |-> "tls-des-supported"],
     [expr |-> "EXPORT", finding |-> "tls-export-supported"]}
Marked(name, expr) ==
    CASE expr = "RC4" -> "RC4" \in ToSet(name)
      [] expr = "3DES" -> "3DES" \in ToSet(name)
      [] expr = "DES:!3DES" -> MiddlePart(name, "DES")
      [] expr = "EXPORT" -> {"EXP", "EXP1024"} \cap ToSet(name) # {}

\* What a client offers that asks OpenSSL for a cipher string: a string that selects
\* nothing in this build leaves either the default suites or none.
Offered(server, expr) ==
    LET chosen == {s \in server.build : expr \in Groups(s)}
    IN  IF chosen # {} \/ server.emptyList THEN chosen
        ELSE {s \in server.build : "DEFAULT" \in Groups(s)}

\* Tls::handshake_with_ciphers: TLS 1.3 has suites of its own, which no cipher string
\* removes, and wins when the server has it; else the server takes the first of its
\* suites that is offered.  Every failure is one to the callers.
Handshake(server, expr, refused) ==
    LET shared == {i \in 1..Len(server.suites) : server.suites[i] \in Offered(server, expr)}
    IN  CASE ~refused /\ server.tls13 -> [ok |-> TRUE, version |-> "TLSv1.3", cipher |-> Modern]
          [] ~refused /\ ~server.tls13 /\ shared # {} ->
                [ok |-> TRUE, version |-> server.version, cipher |-> server.suites[Min(shared)]]
          [] OTHER -> [ok |-> FALSE, version |-> "", cipher |-> <<>>]

\* extract_cert_info: ASN1_TIME_diff counts whole days, rounded towards now, and only
\* negative days mean expired.
DaysUntilExpiry(cert) == IF cert.hours >= 0 THEN cert.hours \div 24 ELSE -((-cert.hours) \div 24)
Expired(cert) == DaysUntilExpiry(cert) < 0

\* The findings about the certificate of the first handshake.
CertificateFindings(cert) ==
    IF ~cert.present THEN {}
    ELSE {f \in {"tls-cert-expired", "tls-cert-self-signed", "tls-cert-weak-signature"} :
            CASE f = "tls-cert-expired" -> Expired(cert)
              [] f = "tls-cert-self-signed" -> cert.subject = cert.issuer
              [] f = "tls-cert-weak-signature" -> cert.signature \in {"md5WithRSA", "sha1WithRSA"}}

OldProtocol(version) ==
    IF version \in {"SSLv3", "TLSv1", "TLSv1.1"} THEN {"tls-old-protocol"} ELSE {}

\* check_anonymous_ciphers, check_null_ciphers and check_weak_cipher_group, as if a
\* finished handshake were proof enough.
Bug_HandshakeIsProof(server, expr, refused, named, finding) ==
    IF Handshake(server, expr, refused).ok THEN {finding} ELSE {}

\* The same checks: a handshake of their own, and the name of the suite decides.
CipherFinding(server, expr, refused, named, finding) ==
    IF Handshake(server, expr, refused).ok /\ named THEN {finding} ELSE {}

\* run_tls_checks; refusing is the set of handshakes that a server refuses.
RunTlsChecks(port, server, refusing) ==
    LET first == Handshake(server, "DEFAULT", "" \in refusing)
        Name(expr) == Handshake(server, expr, expr \in refusing).cipher
        Check(expr, named, finding) == CipherFinding(server, expr, expr \in refusing, named, finding)
    IN  IF port \notin TlsPorts \/ ~first.ok THEN {}
        ELSE {"tls-supported"} \cup CertificateFindings(server.cert) \cup OldProtocol(first.version)
               \cup Check("aNULL", CipherIsAnonymous(Name("aNULL")), "tls-anonymous-ciphers")
               \cup Check("eNULL", CipherIsNull(Name("eNULL")), "tls-null-ciphers")
               \cup UNION {Check(g.expr, Marked(Name(g.expr), g.expr), g.finding) : g \in WeakCipherGroups}
=============================================================================
