----------------------------- MODULE PortTaskMC -----------------------------
(***************************************************************************)
(* Instances of PortTask: small sets of plugins in the shape of the ones   *)
(* that are shipped (discovery plugins that claim a service, and checks    *)
(* filtered by a service, of which one repeats its own service as          *)
(* ssh-version-fingerprint does), and a database of three entries.         *)
(***************************************************************************)
EXTENDS PortTask

Claim(s, p, v) == [k \in Fields |-> CASE k = "service" -> s [] k = "product" -> p [] k = "version" -> v]

\* Two discovery plugins that disagree, two checks, a plugin without filter: what they
\* claim, in every order.
ClaimingPlugins ==
    [filter |-> [d1 |-> "any", d2 |-> "any", ssh |-> "ssh", http |-> "http", all |-> ""],
     claims |-> [d1 |-> {Claim("ssh", "P", "1"), Claim("ssh", Omitted, "")},
                 d2 |-> {Claim("http", Omitted, Omitted), Claim("http", "Q", "")},
                 ssh |-> {Claim("ssh", "P", "2")}, http |-> {}, all |-> {}],
     reports |-> {}, maxcalls |-> 1]

\* One discovery plugin and one check that report the same CVE in every quality.
ReportingPlugins ==
    [filter |-> [d |-> "any", ssh |-> "ssh"],
     claims |-> [d |-> {Claim("ssh", "P", "1")}, ssh |-> {}],
     reports |-> {[cve |-> "c1", verification |-> "VERSION_MATCH", score |-> 5, evidence |-> TRUE],
                  [cve |-> "c1", verification |-> "CONFIG_MATCH", score |-> 4, evidence |-> TRUE],
                  [cve |-> "c1", verification |-> "ACTIVE_CHECK", score |-> 9, evidence |-> FALSE]},
     maxcalls |-> 3]

PluginDirectories == {ClaimingPlugins, ReportingPlugins}
Banners == {Nothing, Claim("ssh", "P", "1")}

\* c1 has two entries whose version ranges overlap; c2 is Terrapin's.
Database ==
    <<[cve |-> "c1", product |-> "P", versions |-> {"1"}],
      [cve |-> "c2", product |-> "P", versions |-> {"1", "2"}],
      [cve |-> "c1", product |-> "P", versions |-> {"1", "2"}]>>
Fixes == {<<"c1", "1">>}
=============================================================================
