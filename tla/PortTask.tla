------------------------------ MODULE PortTask ------------------------------
(***************************************************************************)
(* What the scanner does with one port, from the connection to the rows it *)
(* publishes: the guess from the banner, the native checks, the two passes *)
(* of run_for_port over the plugins, the CVE database with its table of    *)
(* distribution fixes, the defaults and the deduplication.  Everything     *)
(* here is local to one task; what tasks share is in module ScanJob, which *)
(* relies on the rows being unique (UniqueRows).                           *)
(* A plugin is a script: a run of it is any sequence of calls of           *)
(* set_service and finding that ends by itself or in a runtime error.      *)
(* The empty string is "nothing known" everywhere, as in the code.         *)
(***************************************************************************)
EXTENDS Naturals, Sequences, FiniteSets, SequencesExt

CONSTANTS
    Directories,    \* the plugin directories a server may have loaded; per plugin its filter
                    \* ("any", a service, or "" for none: preview_meta) and what it may claim;
                    \* what plugins may report, and the bound on the calls in one run
    Detected,       \* what detect_service may make of a banner
    CveDatabase,    \* the entries in file order: the CVE, its product, its versions
    FixedIn         \* pairs of a CVE and a version whose package has the fix

Fields == {"service", "product", "version"}
Omitted == "omitted"        \* a named argument that was not given, a key not in the KB
Nothing == [k \in Fields |-> ""]
Verifications == {"UNKNOWN", "VERSION_MATCH", "CONFIG_MATCH", "ACTIVE_CHECK", "NOT_VULNERABLE"}

ASSUME PortTaskConstants ==
    /\ Detected \subseteq [Fields -> STRING \ {Omitted}]
    /\ CveDatabase \in Seq([cve : STRING, product : STRING, versions : SUBSET STRING])
    /\ \A d \in Directories :
        /\ d.maxcalls \in Nat
        /\ IsFiniteSet(DOMAIN d.filter) /\ DOMAIN d.filter \subseteq STRING \ {""}
        /\ \A p \in DOMAIN d.filter : \A c \in d.claims[p] : c \in [Fields -> STRING] /\ c["service"] # Omitted
        /\ d.reports \subseteq [cve : STRING, verification : Verifications, score : Nat, evidence : BOOLEAN]

VARIABLES
    pc,             \* where the task is
    dir,            \* the plugins that load_plugins_dir found
    order,          \* their order, as readdir gave them
    port,           \* result: service, product and version
    tagged,         \* result.distro: did the banner name a distribution?
    queue,          \* plugins this pass has not looked at
    info,           \* run_for_port's svc, product, version
    kb,             \* the port's shared map, the keys that set_service writes
    behind,         \* history: the keys a claim that failed has not brought to the KB
    run,            \* RunState of the plugin that runs
    ran,            \* history: plugins that were run
    found,          \* run_for_port's out
    local,          \* the port's findings
    rows            \* what is published

vars == <<pc, dir, order, port, tagged, queue, info, kb, behind, run, ran, found, local, rows>>

Plugins == DOMAIN dir.filter

NoRun == [plugin |-> "", known |-> "", set |-> Nothing, target |-> Nothing, calls |-> 0]

\* The elements of s that are in T, in their order.
Keep(s, T) ==
    LET kept[n \in 0..Len(s)] ==
            IF n = 0 THEN <<>> ELSE IF s[n] \in T THEN Append(kept[n - 1], s[n]) ELSE kept[n - 1]
    IN  kept[Len(s)]

Init ==
    /\ pc = "connect"
    /\ dir \in Directories
    /\ order \in SetToSeqs(Plugins)
    /\ port = Nothing /\ tagged = FALSE
    /\ queue = <<>> /\ info = Nothing /\ kb = [k \in Fields |-> Omitted] /\ behind = {}
    /\ run = NoRun /\ ran = {}
    /\ found = <<>> /\ local = <<>> /\ rows = <<>>

-----------------------------------------------------------------------------
(* Values given override what was there: with Omitted for the named arguments
   of set_service, with "" for a detection. *)
Override(old, new, none) == [k \in Fields |-> IF new[k] = none THEN old[k] ELSE new[k]]

Connect ==
    /\ pc = "connect"
    /\ \/ pc' = "closed" /\ UNCHANGED <<port, tagged>>
       \/ /\ pc' = "native"
          /\ port' \in Detected
          /\ tagged' \in BOOLEAN
    /\ UNCHANGED <<dir, order, queue, info, kb, behind, run, ran, found, local, rows>>

Finding(by, cve, title, service, verification, score, evidence) ==
    [by |-> by, cve |-> cve, title |-> title, service |-> service,
     verification |-> verification, score |-> score, evidence |-> evidence]

\* run_native_checks: the Terrapin test on ssh, then the TLS checks (one stands for all).
NativeChecks ==
    /\ pc = "native"
    /\ \E terrapin \in {<<>>, <<Finding("ssh-terrapin", "c2", "terrapin", port["service"], "ACTIVE_CHECK", 9, TRUE)>>},
          tls \in {<<>>, <<Finding("tls", "", "tls", port["service"], "ACTIVE_CHECK", 9, TRUE)>>} :
          /\ terrapin # <<>> => port["service"] = "ssh"
          /\ local' = terrapin \o tls
    /\ pc' = "plugins"
    /\ UNCHANGED <<dir, order, port, tagged, queue, info, kb, behind, run, ran, found, rows>>

-----------------------------------------------------------------------------
(* run_for_port *)

Idle == run.plugin = ""

\* The first lines of run_for_port, as if the KB did not get the service that is known.
Bug_KbNotSeeded ==
    /\ pc = "plugins"
    /\ info' = [Nothing EXCEPT !["service"] = port["service"]]
    /\ queue' = order
    /\ pc' = "pass1"
    /\ UNCHANGED <<dir, order, port, tagged, kb, behind, run, ran, found, local, rows>>

\* run_for_port gets the service of the port, and nothing else that was detected.
BeginPlugins ==
    /\ pc = "plugins"
    /\ info' = [Nothing EXCEPT !["service"] = port["service"]]
    /\ kb' = [kb EXCEPT !["service"] = IF port["service"] = "" THEN Omitted ELSE port["service"]]
    /\ queue' = order
    /\ pc' = "pass1"
    /\ UNCHANGED <<dir, order, port, tagged, behind, run, ran, found, local, rows>>

\* Pass 2, as if a plugin with a filter ran on ports of unknown service too.
Bug_UnknownServiceMatches(p) ==
    IF pc = "pass1" THEN dir.filter[p] = "any"
    ELSE dir.filter[p] # "any" /\ (dir.filter[p] = "" \/ info["service"] \in {"", dir.filter[p]})

\* Does this pass run the plugin?  plugin.run comes to the same decision again.
Applies(p) ==
    IF pc = "pass1" THEN dir.filter[p] = "any"
    ELSE dir.filter[p] # "any" /\ dir.filter[p] \in {"", info["service"]}

SkipPlugin ==
    /\ pc \in {"pass1", "pass2"} /\ Idle /\ queue # <<>>
    /\ ~Applies(Head(queue))
    /\ queue' = Tail(queue)
    /\ UNCHANGED <<pc, dir, order, port, tagged, info, kb, behind, run, ran, found, local, rows>>

\* register_stdlib: the service is the runner's, product and version come from the KB.
Target == [Override(Nothing, kb, Omitted) EXCEPT !["service"] = info["service"]]

\* run_plugin up to the script's first statement.
StartPlugin ==
    /\ pc \in {"pass1", "pass2"} /\ Idle /\ queue # <<>>
    /\ Applies(Head(queue))
    /\ run' = [NoRun EXCEPT !.plugin = Head(queue), !.known = info["service"], !.target = Target]
    /\ ran' = ran \cup {Head(queue)}
    /\ queue' = Tail(queue)
    /\ UNCHANGED <<pc, dir, order, port, tagged, info, kb, behind, found, local, rows>>

\* plugin.set_service: the run's detection, the KB and the target object change together.
SetService(c) ==
    /\ run.calls < dir.maxcalls
    /\ run' = [run EXCEPT !.calls = @ + 1, !.set = Override(@, c, Omitted), !.target = Override(@, c, Omitted)]
    /\ kb' = Override(kb, c, Omitted)
    /\ behind' = {k \in behind : c[k] = Omitted}
    /\ UNCHANGED <<pc, dir, order, port, tagged, queue, info, ran, found, local, rows>>

\* finding(): the service is the one just claimed, or the one known before the run.
ReportFinding(r) ==
    /\ run.calls < dir.maxcalls
    /\ run' = [run EXCEPT !.calls = @ + 1]
    /\ found' = Append(found, Finding(run.plugin, r.cve, "title",
                    IF run.set["service"] = "" THEN run.known ELSE run.set["service"],
                    r.verification, r.score, r.evidence))
    /\ UNCHANGED <<pc, dir, order, port, tagged, queue, info, kb, behind, ran, local, rows>>

\* absorb: the detections of the run that are not empty become the port's.
Absorb == info' = Override(info, run.set, "") /\ run' = NoRun

EndPlugin ==
    /\ Absorb
    /\ UNCHANGED <<pc, dir, order, port, tagged, queue, kb, behind, ran, found, local, rows>>

\* A runtime error, as if it left run_plugin without an outcome.
Bug_ThrowLosesOutcome ==
    /\ run' = NoRun
    /\ UNCHANGED <<pc, dir, order, port, tagged, queue, info, kb, behind, ran, found, local, rows>>

RuntimeError == Finding(run.plugin, "", "Plugin runtime error", "", "UNKNOWN", 0, FALSE)

\* A runtime error becomes a finding of its own; what the run did before it counts.
PluginThrows ==
    /\ found' = Append(found, RuntimeError)
    /\ Absorb
    /\ UNCHANGED <<pc, dir, order, port, tagged, queue, kb, behind, ran, local, rows>>

\* plugin.set_service with a version or a product that is no string: the arguments before
\* it are in the RunState, the KB and the target object are not reached, the script ends.
ClaimThrows(c) ==
    /\ run.calls < dir.maxcalls
    /\ \E given \in {{"service"}, {"service", "version"}} :
          LET claimed == [k \in Fields |-> IF k \in given THEN c[k] ELSE Omitted]
          IN  /\ info' = Override(info, Override(run.set, claimed, Omitted), "")
              /\ behind' = behind \cup {k \in Fields : claimed[k] # Omitted}
    /\ run' = NoRun
    /\ found' = Append(found, RuntimeError)
    /\ UNCHANGED <<pc, dir, order, port, tagged, queue, kb, ran, local, rows>>

PluginStep ==
    /\ ~Idle
    /\ \/ \E c \in dir.claims[run.plugin] : SetService(c) \/ ClaimThrows(c)
       \/ \E r \in dir.reports : ReportFinding(r)
       \/ EndPlugin
       \/ PluginThrows

NextPass ==
    /\ pc = "pass1" /\ Idle /\ queue = <<>>
    /\ queue' = order
    /\ pc' = "pass2"
    /\ UNCHANGED <<dir, order, port, tagged, info, kb, behind, run, ran, found, local, rows>>

\* run_for_port returns: what the plugins claim wins over the guess from the banner,
\* and their findings join the port's.
PluginsDone ==
    /\ pc = "pass2" /\ Idle /\ queue = <<>>
    /\ port' = Override(port, info, "")
    /\ local' = local \o found
    /\ pc' = "cves"
    /\ UNCHANGED <<dir, order, tagged, queue, info, kb, behind, run, ran, found, rows>>

-----------------------------------------------------------------------------
\* check_backport, for a port whose banner has a distribution tag.
Patched(cve) == tagged /\ <<cve, port["version"]>> \in FixedIn

\* check_port: one finding per matching entry, a patched one downgraded.
DbFindings ==
    LET matching == Keep(CveDatabase, {e \in ToSet(CveDatabase) :
                            /\ port["product"] # "" /\ port["version"] # ""
                            /\ e.product = port["product"] /\ port["version"] \in e.versions})
    IN  [i \in DOMAIN matching |->
            IF Patched(matching[i].cve)
            THEN Finding("cve-database", matching[i].cve, "patched", port["service"], "NOT_VULNERABLE", 9, TRUE)
            ELSE Finding("cve-database", matching[i].cve, "match", port["service"], "VERSION_MATCH", 5, TRUE)]

\* The database, as if one CVE from a plugin were enough to leave it out.
Bug_AnyCveSuppresses ==
    IF \E f \in ToSet(local) : f.cve # "" THEN local ELSE local \o DbFindings

\* The entries whose CVE a native check or a plugin has reported are left out.
WithDatabase ==
    LET reported == {f.cve : f \in ToSet(local)} \ {""}
    IN  local \o Keep(DbFindings, {f \in ToSet(DbFindings) : f.cve \notin reported})

\* The fields a finding left empty; of them only the service is part of the identity.
FillDefaults(fs) ==
    [i \in DOMAIN fs |-> IF fs[i].service = "" THEN [fs[i] EXCEPT !.service = port["service"]] ELSE fs[i]]

CheckCves ==
    /\ pc = "cves"
    /\ local' = FillDefaults(WithDatabase)
    /\ pc' = "dedup"
    /\ UNCHANGED <<dir, order, port, tagged, queue, info, kb, behind, run, ran, found, rows>>

-----------------------------------------------------------------------------
(* deduplicate_findings *)

\* finding_identity; host, scope, protocol and number are those of the port.
Identity(f) == <<f.service, IF f.cve = "" THEN <<f.by, f.title>> ELSE <<f.cve>>>>

Rank(v) == CASE v = "ACTIVE_CHECK" -> 3 [] v = "CONFIG_MATCH" -> 2 [] v = "VERSION_MATCH" -> 1
             [] v \in {"UNKNOWN", "NOT_VULNERABLE"} -> 0

\* The stronger verification, as if the confidence were compared first.
Bug_ScoreFirst(f, g) ==
    f.score > g.score \/ (f.score = g.score /\ Rank(f.verification) > Rank(g.verification))

Better(f, g) ==
    \/ Rank(f.verification) > Rank(g.verification)
    \/ Rank(f.verification) = Rank(g.verification) /\ f.score > g.score

\* A later finding of the same identity, as if it replaced the first one as it is.
Bug_ReplaceDropsEvidence(current, f) == IF Better(f, current) \/ ~current.evidence THEN f ELSE current

\* A later finding of the same identity replaces the one that is there when it is
\* better or that one has no evidence, and takes over the evidence it lacks.
Merge(current, f) ==
    IF Better(f, current) \/ ~current.evidence
    THEN [f EXCEPT !.evidence = @ \/ current.evidence]
    ELSE current

\* The table of what was seen, as if two checks never reported the same thing.
Bug_SameProducer(f, g) == Identity(f) = Identity(g) /\ f.by = g.by

SameFinding(f, g) == Identity(f) = Identity(g)

\* What the loop does with a finding, given the unique ones before it.
Deduplicated(unique, f) ==
    IF \E i \in DOMAIN unique : SameFinding(unique[i], f)
    THEN [i \in DOMAIN unique |-> IF SameFinding(unique[i], f) THEN Merge(unique[i], f) ELSE unique[i]]
    ELSE Append(unique, f)

Dedup(fs) ==
    LET unique[n \in 0..Len(fs)] == IF n = 0 THEN <<>> ELSE Deduplicated(unique[n - 1], fs[n])
    IN  unique[Len(fs)]

Publish ==
    /\ pc = "dedup"
    /\ rows' = Dedup(local)
    /\ pc' = "published"
    /\ UNCHANGED <<dir, order, port, tagged, queue, info, kb, behind, run, ran, found, local>>

Over == pc \in {"closed", "published"} /\ UNCHANGED vars

Next ==
    \/ Connect \/ NativeChecks \/ BeginPlugins \/ SkipPlugin \/ StartPlugin \/ PluginStep \/ NextPass
    \/ PluginsDone \/ CheckCves \/ Publish \/ Over

Spec == Init /\ [][Next]_vars

-----------------------------------------------------------------------------
\* Types; the KB has a service as soon as the runner knows one.
TypeOK ==
    /\ pc \in {"connect", "native", "plugins", "pass1", "pass2", "cves", "dedup", "published", "closed"}
    /\ run.plugin \in Plugins \cup {""}
    /\ \A f \in ToSet(local) : f.verification \in Verifications
    /\ pc = "pass1" /\ info["service"] # "" => kb["service"] # Omitted \/ "service" \in behind

\* What plugins are told is what the port's row will say.  Between two runs, the product,
\* version and service in the KB are those absorbed so far, also after a plugin that
\* claimed something and then failed (set_service writes the KB at once, absorb the row's
\* values at the end); during a run, the target object shows what absorb will make of
\* them.  An empty claim only hides the value from the plugins.  The exception is a call
\* of set_service that itself fails on an argument: it leaves the KB behind, until a later
\* claim of that key; the service in the target object is right even then.
PluginsSeeWhatIsReported ==
    /\ Idle => \A k \in Fields \ behind : kb[k] \in {Omitted, "", info[k]}
    /\ ~Idle => \A k \in (Fields \ behind) \cup {"service"} : run.target[k] \in {"", Override(info, run.set, "")[k]}

\* The service-filtered plugins that have run are exactly those for the service the port
\* is published with, whatever order readdir gave, as long as a filtered plugin claims no
\* service but its own: discovery is over before the first of them is looked at.
ChecksMatchService ==
    pc = "published" =>
        \A p \in Plugins : dir.filter[p] \notin {"any", ""} => (p \in ran <=> dir.filter[p] = port["service"])

\* The published rows have different identities, so that the second deduplication, over
\* the rows of all ports, takes nothing away from what was shown live.
UniqueRows ==
    pc = "published" => \A i, j \in DOMAIN rows : i # j => Identity(rows[i]) # Identity(rows[j])

\* No CVE is lost on the way: one that a check or a plugin reported, or that the database
\* has for the published product and version, is among the rows.
NoCveLost ==
    pc = "published" =>
        {f.cve : f \in ToSet(local) \cup ToSet(found) \cup ToSet(DbFindings)} \ {""} \subseteq {f.cve : f \in ToSet(rows)}

\* Evidence survives the merge: a row has evidence if any finding of its identity had.
EvidenceKept ==
    pc = "published" =>
        \A f \in ToSet(local), r \in ToSet(rows) : f.evidence /\ Identity(f) = Identity(r) => r.evidence

\* When every finding of an identity has evidence, as the plugin rules ask, the row has
\* the strongest verification among them.
StrongestKept ==
    pc = "published" =>
        \A r \in ToSet(rows) :
            LET same == {f \in ToSet(local) : Identity(f) = Identity(r)}
            IN  (\A f \in same : f.evidence) => \A f \in same : Rank(f.verification) <= Rank(r.verification)

\* deduplicate_findings leaves one row of each identity, with the best of what the
\* findings of that identity had.
DedupKeepsTheBest == TypeOK /\ UniqueRows /\ EvidenceKept /\ StrongestKept
=============================================================================
