# ZeroTrust: TLA+ models and proofs

ZeroTrust is a network scanner with a CLI, a scripting language for checks (ZTL) and a web
interface. This directory holds TLA+ models of its concurrent and stateful parts and of the
algorithms they rest on, the TLC configurations that check them on small instances, and
TLAPS proofs of the results that hold for every size.

Paths below are relative to the repository's `src/`.

## The system

| Component | State | Operations | Interacts with |
|---|---|---|---|
| Thread pool (`processor/thread_pool.*`) | task queue, stop flag, workers, condition variable | `enqueue`, destructor, `worker_loop` | every scanner runs its ports on one |
| TCP range scan (`scan/tcp_range.*`) | result vectors under `mu`, progress counter and callback of the caller | one task per port: probe, publish, collect, count | pool, transports, plugins, CVE checks, web job |
| Web scan jobs (`webui/webui.cpp`) | `jobs_`; per job the atomics `status` and `scanned`, rows under `results_mu`, `completed_at` | `start_scan` and its detached thread; readers `list_scans`, `get_scan`, `stream_scan` | range scan, history, dashboard |
| Dashboard page (`webui/webui.cpp`, `DASHBOARD_HTML`) | `liveState`, `liveStream` | `openScan`, event handlers | `get_scan`, `stream_scan` |
| Scan history (`core/db.*`) | SQLite file, one shared connection under `db_mu_` | `upsert_scan`, `update_scan_status`, `save_ports`, `save_findings`, loads | web jobs, restarts |
| Sign-in and sessions (`webui/webui.cpp`) | `pending_` under `flow_mu_`, `sessions_` under `sess_mu_` | `auth_start`, `callback`, `logout`, `get_session`, `me` | OIDC provider, every handler |
| Findings (`include/finding.h`), CVE matching (`scan/cve.*`), detection (`processor/processor.cpp`) | loaded tables; lists of findings | identity, deduplication, version and backport decisions | range scan, full scan |
| Plugin runner and language (`ztl/*`), knowledge base (`core/knowledge_base.*`) | loaded plugins, per-port scratch state, shared map; scopes of the interpreter | lexer, parser, interpreter, preview and run of a plugin, `finding`, `plugin.run`, `Http.request` | range scan, full scan |
| Full scan (`main.cpp`), reporter (`scan/reporter.*`), CIDR (`scan/cidr.*`), ICMP (`transport/icmp.*`) | host list, progress counters | ping and scan host by host | pool, plugins |
| Transports (`transport/*`), protocol checks (`protocols/ssh`, `protocols/tls`), DNS (`protocols/dns`) | sockets, bytes received so far | bounded connects, sends and receives; Terrapin and TLS verdicts; name lookup | scanners, plugins |
| HTTP library (vendored `webui/httplib.h`) | socket queue, workers, per connection the requests left and the bytes read ahead | accept loop, keep-alive, request bodies, chunked streams, ranges, shutdown | browsers, every handler of the web interface |

### What is hard

* *Threads*: workers, the job threads, one server thread per request and per stream, all
  sharing a job's fields with different protections (atomics, a mutex, none).
* *Reads in several steps*: a handler that reads status, progress and rows one after the
  other; `openScan` that awaits in the middle; handlers that look a session up twice.
* *Failure*: a SQLite statement or commit that fails, a process that dies between the
  writes of one scan, a stream whose connection breaks, a task that throws.
* *Order and repetition*: rows in completion order, status events against row events,
  repeated and mixed-up callbacks, late ICMP replies.
* *Pieces*: requests, banners, binary packets and chunked bodies that arrive cut anywhere,
  late or not at all, against parsers that may have read ahead.
* *Boundaries*: address blocks, version orders, byte ranges, escapes, and lists whose length
  the other side announces.

The full list, with the line where each bites and the properties aimed at it, is
`hazards` in `PROJECT.json`.

## Modules

| Module | Models | State | Actions |
|---|---|---|---|
| `TaskPool` | what a pool promises its owner; no queue, lock or condition variable | `submitted`, `started`, `finished`, `pool` | `Submit`, `Start`, `Finish`, `Close`, `Return`, `Abort` |
| `ThreadPool` | `concurrency::ThreadPool` | the queue, `stop`, the place of each worker and of the owner, the task each worker holds | one per critical section of `queue_mutex`, one per notification, join and task end |
| `ThreadPoolProofs`, and one `...Proofs` for each of `ScanJob`, `PortTask`, `ScanHistory`, `FullScan`, `HttpServer`; `BrowserProofs` for `Login` and `Dashboard`; `DecisionsProofs` for `Decisions` | theorems about that module | | |
| `ScanFeed` | what one web scan promises the pages; no thread, lock or loop | the rows shown, whether the scan is over, what a stream delivered, the snapshots answered | `Publish`, `Finish`, `Deliver`, `DeliverEnd`, `Answer`, `List` |
| `ScanJob` | the thread of `start_scan`, `tcp_range_scan` on the pool, and the readers `stream_scan`, `get_scan`, `list_scans` | the job's fields, the tasks, the locals of the readers, what the browser received | one per load, store or critical section that another thread can come between |
| `PortTask`, `PortTaskMC` | one task of `tcp_range_scan`: native checks, `run_for_port`, `check_port`, defaults, deduplication | the port's values, the shared map, the running plugin, the findings | one per stage, per plugin call and per end of a plugin |
| `Dashboard` | `openScan` and the handlers it installs | `liveState`, `liveStream`, the calls under way, the server's rows | one per synchronous piece of the script and per event |
| `ScanHistory` | `Db` and the writes of `start_scan` | the tables as the connection sees them and as committed, the open transaction, `db_mu_`, `jobs_` | one per statement, plus `Crash` |
| `FullScan` | the full scan of `main.cpp`, `CliReporter`, `Icmp::ping` | host by host: the pool, the tasks, the host's vectors; the reporter's atomics and the locals of `tick`; replies under way | one per step of the main thread, per critical section or atomic operation of a task |
| `Login` | `auth_start`, `callback`, `logout`, `get_session`, `me`, the session part of `start_scan` | `pending_`, `sessions_`, the clock, requests under way | one per critical section or external call |
| `HttpServer` | `listen_internal`, `ThreadPool`, `process_and_close_socket`, `process_request` and `write_content_chunked` of the HTTP library, with browsers | the socket queue, the place of each worker and its connection, keep-alive count, read-ahead buffer; bytes under way | one per step of the accept loop and of a worker; clients that send, stall and leave |

Modules without variables hold the algorithms, one operator per function of the code.
`Decisions` and `Algorithms`, which extends it, choose a function and an input, make the call
and compare the result with a definition that does not follow the code (a printer for a
parser, a set of offsets for a range) or with a law that it has to keep (an order for a
comparison). `Decisions` has the functions whose invariants are proved for every input:
`Cidr`, `Versions`, `TlsChecks` and `ByteRanges`, in which a loop is a recursive function of
the number of its turn. Everything else is in `Algorithms`.

| Module | Models | Compared with |
|---|---|---|
| `ZtlSyntax`, `ZtlParser` | `Lexer`, `Parser` | the printers of `ZtlReference`, which write every token, and every tree with only the parentheses it needs |
| `ZtlEval` | `Interpreter`, `Environment`, the string and `kb` methods, `run_plugin`, `load_plugin` | which variable a name is, what a return leaves out, `filter` before and during the run (`ZtlReference`) |
| `Versions` | `VersionMatcher`, `dpkg_compare`, `check_backport`, `lookup`, `match`, `verify_version` | the laws of an order and of what is decided by it; orders of keys, filters of the loaded lists |
| `Cidr` | `expand_cidr` | the addresses that share the prefix |
| `DnsMessage` | `build_query`, `skip_name`, the loop of `resolve` | messages written from a list of records |
| `SshMessages` | `frame_ssh_packet`, `build_kexinit`, `parse_kexinit`, `split` | the lists that were written |
| `Transports` | `Tcp`, `Udp`, the validity of a certificate | the bytes that were sent |
| `TlsChecks` | the handshakes and the checks of `tls/checks.cpp` | what the server accepts |
| `NativeChecks` | `check_terrapin`, `run_native_checks`, `dns::resolve` | what the server offers |
| `WebText` | JSON that is written and read, cookies | the values that were written |
| `HttpText`, `HttpBody` | lines, headers, queries, percent codes; chunks | the values that were written |
| `ByteRanges` | `parse_range_header`, `range_error`, `apply_ranges` | the set of bytes of RFC 9110 |
| `HttpProbe` | `Http.request` of the plugin language | the response as it was sent |
| `ScanFiles` | the loaders of probes, CVEs and fixes; `detect_service`, `detect_distro`, `parse_distro_tag` | the records that were written, the first match |
| `HistoryRows` | the statements of `Db` on its tables, and the loads | the scans that were saved |

How they fit together:

* `ThreadPool` implements `TaskPool` (`ImplementsTaskPool`; theorem `Refinement`).
* `ScanJob` runs its tasks on `TaskPool` (`Pool == INSTANCE TaskPool`), so the proof above
  is what allows it to leave queue and locks out.
* `PortTask` opens up the step `Probe` of `ScanJob` and `FullScan`, which take from it that
  the rows of one port have different identities (`DedupKeepsTheBest`).
* `FullScan` runs each host's tasks on a `TaskPool` of its own.
* `ScanJob` implements `ScanFeed` (`ImplementsScanFeed`; theorem `Refinement`), and
  `Dashboard` takes no more of its server than that: rows only grow, `get_scan` answers with a
  snapshot, a stream starts at the first row and says done after the last. The page's
  `Answer` can be one step because the three loads of `get_scan` amount to one.
* `ScanHistory` sees the scan as one step and the statements of SQLite one by one; `Login`
  shares only the row's owner with it. What the rows of the tables hold is `HistoryRows`.
* `HttpServer` is what the handlers run on. Its pool is again a `TaskPool`
  (`ImplementsTaskPool`), and it takes from `ScanJob` that a streamed scan ends (`StreamEnds`).
* `NativeChecks` puts `check_terrapin` together from `SshMessages` over `Transports`, and
  `ZtlEval` runs what `ZtlParser` returns. `PortTask` takes the outcome of checks, plugins and
  version matches as inputs; that they mean what they say is the business of `Algorithms`.

Definitions keep the names of the code where there is one. `PROJECT.json` maps each of them
to its lines. An operator `Bug_X` is a plausible mistake in the definition that follows it;
it is used by no specification, and shows that the property listed with it would notice.

### Choices worth knowing

* A critical section that contains no other blocking call is one action. `list_scans` reads
  two atomics while it holds `results_mu`, so there the mutex is explicit. So is `db_mu_`
  where it is held across several statements.
* `completed_at` is written and read without protection; a reader sees either value.
* An exception that leaves a pool task ends the process (`TaskThrows`, `Abort`). `ScanJob`
  does not follow that branch: nothing is left to observe. `PoolShutsDown` and the refinement
  of `TaskPool` admit it; that the process outlives an exception is promised nowhere.
* SQLite faults: a statement that fails and whose result nobody looks at, a failing
  prepare, a failing COMMIT that rolled back or left the transaction open. BEGIN fails only
  inside a transaction.
* In `me`, the second lookup may find no session; the code then reads through an empty
  optional, and the model allows any answer.
* A plugin is any sequence of `set_service` and `finding` calls that ends or throws, also in
  the middle of `set_service`. Plugins are in the shape of the shipped ones: in the instance
  of `port_task` a check filtered by a service claims no other service (`OwnServices`), and
  `kb.set` is not used for the keys `service`, `product` and `version`.
* The reporter's ints wrap at `IntBound` (2^31 in the build), which is what the build does
  with an overflow. `ProgressIsFaithful` asks for every percent only as long as the product
  fits (`Fits`), so an overflow is modelled and not caught. `Scale` stands for 100: with fewer steps than ports, several ticks compete for
  one percent.
* A reply to an earlier ping can reach the socket of a later one. The code does not compare
  the sender, so a host may be shown with the TTL of a host that was pinged before it;
  `TtlOfAPingedHost` says that it is never worse than that.
* The random values of one sign-in are one flow; that they are fresh is assumed.
* In `HttpServer` a request is one head and, for a POST, one body that may come later.
  Everything that has arrived when a worker reads is read at once, and what is left of it
  when the request ends is lost, as in `SocketStream`. Clients do not pipeline.
* Characters stand for classes of characters, and words that a pattern looks for count as
  one character, where a parser treats them alike. Sizes are scaled where the code has one
  (4-bit addresses, ranges of a few bytes, three receives for twenty).
* `std::regex`, SQLite and OpenSSL are external: modelled by what the code can
  observe of them.

## Runs

Passing runs:

| Run | Instance | Shows |
|---|---|---|
| `thread_pool` | 3 workers, 4 tasks | each task is in one place and first in, first out; the destructor returns only when all is done, and it does return; no worker sleeps beside work; the pool is a `TaskPool` |
| `scan_job` | 2 ports, 2 workers; `list_scans` with a stream or with `get_scan` | the browser receives each row once, in order, and everything before the end; the live rows are the returned rows; no answer says done (or error) with rows or progress missing; each answer is the scan as it was at one moment, so the job is a `ScanFeed`; every stream that was opened ends or breaks |
| `port_task` | 5 plugins that claim, in all orders; 2 plugins that report, 3 calls each; overlapping database entries | plugins are told what the row will say, also after a plugin that failed half way; exactly the checks for the published service run; rows are unique, no CVE and no evidence is lost, the strongest verification wins |
| `full_scan` | up to 2 hosts with up to 3 ports, 2 workers, ints that wrap at 16 | a host's report has all of its open ports and findings; no progress line is printed twice and none is missing between two hosts; a TTL comes from a pinged host; the scan ends |
| `dashboard_sequential` | 2 scans, 3 opens, 2 rows | with one open at a time there is one stream, it feeds its own view, and done means complete |
| `history` | 2 scans, 2 crashes, failing statements, prepares and commits | scans do not disturb each other; only a failed commit lets a transaction outlive its lock; what ended without a fault is stored; results stand behind a final row; each scan is shown as done or error at last unless its process died |
| `login` | 2 flows, 2 callbacks, 2 users, 1 request | one session per flow, of the user who signed in for it; a dead session stays dead |
| `http_server` | 1 worker, 3 connections, 3 requests, 2 requests per connection | a connection's answers are those of its requests, in order, unless a body missed the read timeout; sockets are served in the order of accept; a waiting client is answered or sees the connection closed; a failed accept ends in a return of `listen` |
| `algorithms` | one call per behaviour, bounded inputs | the pure functions agree with their references (table below) |

The invariants of `algorithms`:

| Invariant | Says |
|---|---|
| `SyntaxReadsBack` | any two tokens are read back through every kind of blank and comment, and every tree from its text with the fewest parentheses |
| `PluginsMeanWhatTheySay` | scopes, early returns and runtime errors have the effect the plugin's text suggests; preload and run decide the filter alike for plugins that declare before they run; the string methods agree with each other at every position |
| `VersionsInOrder` | both version comparisons are orders; a range that holds two versions holds those between them; a patched package stays patched when its revision is upgraded to another that is not empty; `verify_version` and `lookup` agree |
| `CidrIsTheBlock` | `expand_cidr` returns the addresses that share the prefix, in order, up to the cap, for every prefix; a text without slash stands for itself, anything else for nothing |
| `MessagesReadBack` | DNS and SSH messages are read as they were written, and a list that overruns its packet is refused |
| `TerrapinVerdict` | the verdict is the one for the server's lists however its bytes arrive, except in the two cuts described below |
| `TlsVerdict` | the findings are those for the server's protocols, suites and certificate, except in the cases described below |
| `WebTextReadsBack` | what one side writes the other reads: JSON, cookies, URLs, headers, queries, chunks, and the responses a plugin gets |
| `RangesAreTheBytes` | a partial answer has exactly the bytes of its ranges and says which they are; one range is refused only when it selects nothing or is a suffix longer than the content |
| `RecordsReadBack` | data files are read record by record, a version is compared by the key it stands for, the first matching probe wins, and the history returns the scans that were saved |

Runs that find a disagreement between the code and what the repository says of it:

| Run | What happens |
|---|---|
| `dashboard_overlap` | two clicks before the first answer leave two streams open, and the page remembers one (comment at `webui/webui.cpp:363`) |
| `dashboard_seed` | the rows found before the click are shown twice: the seed has them, and the stream starts at the first row (comment at `webui/webui.cpp:392`) |
| `history_restart` | the done row is committed before the ports and findings; a crash in between leaves a done scan without them (`core/db.hpp:3-5`) |

Two more configurations end in a counterexample and are run by hand:

* `tlc -config LoginOwner.cfg Login`: a session that ends between the two lookups of
  `start_scan` leaves the scan without its owner (`core/db.hpp:21`).
* `tlc -config CertificateExpired.cfg Algorithms`: days are truncated toward zero
  (`transport/tls.cpp:123`), so a certificate that ran out less than a day ago is not
  reported as expired (`documentation.md:676`).

### What the modelling met

Behaviours of the code that no run records, and that are part of the models or are bounds on
what the properties say.

* Findings. `tcp_range_scan` leaves out the database's finding for every CVE a plugin has
  reported, so a plugin's version match also hides the database's not-vulnerable result for
  a package that has the fix (`README.md:31` speaks of backported patches that cause no
  false alarms); `NoCveLost` is about CVEs that get lost and does not catch this. `run_for_port` gets only the service of the port, so the product found in
  the banner is not in `target.product` until a plugin claims one (`documentation.md:450`
  calls it the detected product, when available).
* HTTP. A POST whose body misses the read timeout gets a 400, but its connection is kept, and
  the late body is then read as a request line. Bytes read ahead are lost with the request.
  A stream whose client has left keeps its worker until the next event. As many streams or
  idle connections as there are workers hold all of them for their time. An accept error other than EMFILE,
  EINTR and EAGAIN ends `listen`; `webui::run` then destroys the server and its database
  while detached scan threads (`webui/webui.cpp:632`) still use them. A suffix range longer
  than the content is answered by 416. Header values are percent-decoded.
* TLS. A server that refuses the first handshake has no TLS finding at all
  (`protocols/tls/checks.cpp:346`). The marker `3DES` is in no name that OpenSSL uses, so
  that finding never appears (`README.md:35` lists it). A server that speaks TLS 1.3 hides its
  weak suites of TLS 1.2. The search for `sha1` is in lower case and misses
  `ecdsa-with-SHA1`.
* Terrapin. A banner and a KEXINIT that arrive in one receive lose the KEXINIT, and the rest
  of a banner in front of a split KEXINIT is taken for its length. `Tcp::send` does not
  suppress SIGPIPE; only the constructor of the HTTP server does, for the process.
  `frame_ssh_packet` aligns the length of the packet without its length field. The resolver
  compares neither identifier nor sender.
* Plugin claims. `plugin.set_service` stores the service, and then the version, before it
  has looked at the next argument. When that one is no string (a null, say), the port's row
  gets what was stored and the shared map does not, so later plugins see the old version
  (`ztl/runner.cpp:342-352`). `PluginsSeeWhatIsReported` excludes these keys.
* Plugin language. A return or a throw at the top level during the preload loses the
  metadata of the preview (`ztl/runner.cpp:605`), so the two filter decisions can differ;
  `PluginsMeanWhatTheySay` is about plugins whose declarations run to their end. A
  `plugin.filter` behind `plugin.run` makes
  the two filter decisions differ. Semicolons are optional, so `x = a` and `-b` on the next line
  are one statement.
* Texts. `json_string_field` does not undo `\r` and `\u`; a field whose value is a quoted
  name of a number field confuses `json_number_field`. A row of a data file whose sixth field
  is empty and last is dropped, a carriage return stays in the last field, and a probe with
  an empty expression is dropped unless a flag follows. A Debian revision that contains
  `ubuntu` is taken for Ubuntu's. Letter suffixes (1.0.2k) do not count in version ranges,
  and `check_backport` ignores the epoch and answers an empty revision with "not patched"
  (`scan/cve.cpp:190`), although it compares equal to `0`. The revision comes from a banner,
  and one with dashes in it is split at the last of them. The history cuts texts at NUL and makes two
  references of one that contains a bar. A plugin's response whose head has bare line feeds
  has no body.

### Why the bounds are enough

* Pool: the interesting cases need a task queued while all workers run, a notification that
  meets no sleeper, and one that meets two. Three workers and four tasks have all of them.
  The theorems remove the bound.
* Jobs: rows must arrive before, between and after the iterations of a reader, and two
  tasks must publish in the other order than they started. Two ports on two workers do that,
  closed ports and ports with and without findings included. `Readers` lists the handlers
  called together: readers write nothing another one reads, except `results_mu`, which each
  of them takes for a bounded time and only `list_scans` across several steps.
* History: two jobs are what it takes for one to meet the transaction of another; two
  crashes, for a crash of the recovered server.
* Sign-in: two flows and two callbacks give repetition and mix-up; three ticks with
  lifetimes of one tick let everything expire at every point.
* Full scan: an empty range, one host and two; two ticks that meet in the exchange while a
  third is on its way; four ports whose progress fits the int and six whose does not.
* Plugins: two discovery plugins that disagree, one check for each service, and one plugin
  without filter, in all 120 orders. For the rows: the same CVE with more, equal and less
  verification, score and evidence, before and after a claim.

* HTTP server: one worker is the hard case for waiting (everybody behind one stream or idle
  connection); three connections fill the queue behind it; three requests use a connection
  again and then meet its limit of two. Workers share only the queue, which `thread_pool`
  and the proofs cover for any number of them.
* Algorithms: every branch of a function must be taken, and its interesting inputs are
  short: two tokens beside each other, trees of every pair of operators, up to three
  components and digits of a version, blocks of 4-bit addresses (with prefix 0, the last two
  prefixes, and more hosts than the cap), an SSH greeting cut at any of four
  places with one piece missing, two chunks, ranges over contents of a few bytes, two rows
  per file and table.

`CHECK_DEADLOCK FALSE` is set for `Dashboard`, `Login` and `HttpServer`, where a page or a
server that nobody uses may rest, and for `Algorithms`, where a behaviour is one call.
Elsewhere the final states have an explicit stuttering step, so that a stuck thread is
reported.

### Fairness

Only `thread_pool`, `scan_job`, `full_scan`, `history` and `http_server` need any. Weak
fairness is assumed for the owner and each worker of the pool, for the job thread, for each
task, and for a stream's loop, in the full scan also for the main thread. The code justifies
it: these are operating system threads, mutexes are held for a few statements, every socket
call of a task has a timeout, and the stream's sleep is bounded. In `HttpServer` the workers, the accept
loop and the join of `shutdown` are fair for the same reason; the timeouts of keep-alive and
read are steps of a worker, so nothing is assumed of clients; and a scan behind a stream
ends, which is `StreamEnds` of `ScanJob`. Nothing is assumed of spurious wakeups, failing
writes, failing accepts, user actions, SQLite faults and crashes.

## Proofs

TLAPS checks the theorems below for every value of the constants. Each `...Proofs` module
of a stateful component names an inductive invariant `IInv`, which TLC has confirmed on the
bounds of the run before the proof, and shows that it holds at first, that each action keeps
it (one lemma per action), and that it implies the properties. With them every safety
property of the runs of the stateful modules is a theorem, also the action property
`DeadSessionStaysDead` and the three refinements.

`Login` and `Dashboard` share no state; their proofs are two parts of `BrowserProofs`, and
the parts of the page's specification are called `PageInit`, `PageNext`, `PageSpec`.

The theorems of `DecisionsProofs` are about `DecisionsSpec`, the calls of the functions of
`Decisions`, with inputs from any sets of the right types (`InputTypes`). The run
`algorithms` makes the same calls on bounded inputs, beside those of the functions that are
recursive operators and that no proof may reach.

| Module | Theorem | States |
|---|---|---|
| `ThreadPoolProofs` | `TypeCorrect`, `Inductive` | `[]TypeOK`, `[]IInv` |
| | `Partitioned` | `[]TasksPartitioned`: every task is queued, held by the one worker that runs it, or finished, first in, first out |
| | `Drained` | `[]DrainedBeforeReturn`: the destructor returns after the last task |
| | `NoLostWakeup` | `[]NoSleepBesideWork` |
| | `Refinement` | `Spec` implies `TaskPool`'s `Spec` under the mapping `PoolPhase` |
| `ScanJobProofs` | `Invariant`, `LiveRows` | `[]IInv`; `[]LiveRowsAreResultRows`: the rows shown live are those of the result |
| | `Stream` | `[]StreamIsFaithful`: each row once, in order, and the end behind the last one |
| | `Answers` | `[]DoneAnswersAreComplete` for `get_scan` and `list_scans` |
| | `Refinement` | `Spec` implies `ScanFeed`'s `Spec`: a gapless stream, and answers that are snapshots |
| `PortTaskProofs` | `Invariant`, `Seen` | `[]IInv`; `[]PluginsSeeWhatIsReported` |
| | `ServiceChecks` | under `OwnServices`, `[]ChecksMatchService` |
| | `NoneLost`, `BestKept` | `[]NoCveLost`, `[]DedupKeepsTheBest` |
| `ScanHistoryProofs` | `Invariant`, `ErrorsHaveFaults` | `[]IInv`; `[]NoErrorWithoutFault` |
| | `TransactionsEnd` | `[]NoTransactionLeaks` |
| | `StoredResults` | `[]StoredResultsFitTheirRow`, across crashes and restarts |
| `FullScanProofs` | `Invariant`, `Reported` | `[]IInv`; `[]ReportIsComplete` |
| | `Progress` | `[]ProgressIsFaithful`: no percent twice, none missing between hosts |
| | `PingedTtl` | `[]TtlOfAPingedHost` |
| `BrowserProofs` | `Invariant`, `SignInIsFaithful` | `[]IInv`; `[]SessionsMatchFlows` |
| | `NoSessionReturns` | `DeadSessionStaysDead` |
| | `PageInvariant`, `OwnStream`, `DoneView` | while opens do not overlap: `[]PageInv`, `[]StreamsMatchTheView`, `[]DoneViewIsComplete` |
| `HttpServerProofs` | `Invariant`, `AnswersFit` | `[]IInv`; `[]RequestsHaveTheirAnswers` |
| | `Refinement` | `Spec` implies `TaskPool`'s `Spec`, the connections being the tasks |
| `DecisionsProofs` | `BlockOfAddresses` | `[]CidrIsTheBlock`, for addresses of any width and any cap |
| | `VersionLaws` | `[]VersionsInOrder`, for versions of any text and revisions without a dash |
| | `TlsServers` | `[]TlsVerdict`, for any list of suites, certificate and refused handshakes |
| | `RangeBytes` | `[]RangesAreTheBytes`, for any content and any ranges; a suffix longer than the content is excepted from "never refused" |

### Assumptions

The named assumptions of the modules say that numbers are numbers and sets are finite, and
a little more. A pool has at least one worker (`ThreadPoolSizes`, `ScanJobSizes`,
`FullScanConstants`, `HttpServerSizes`): with none the destructor would return with the queue
full. A range of a web job has a port (`ScanJobSizes`); one connection carries at least one
request (`HttpServerSizes`). An address has a bit, and the caps on an expansion and on the
ranges of a request are not 0 (`CidrSizes`, `Limits`; the code has 65536 and 1024). The inputs
of `Decisions` have the types of the code's parameters, the suites of a TLS server are the six
that stand for the kinds the checks look for, and an installed revision has no dash, as the
format of Debian's versions wants it (`InputTypes`; the code takes what the banner says). The result of a detection is not the marker for an omitted
argument, and a claim always names its service argument (`PortTaskConstants`):
`set_service` cannot be called without it.

Two theorems have a hypothesis that is no assumption of the model:

* `~OverlappingOpens` for the dashboard. Without it the properties are false, as the run
  `dashboard_overlap` shows.
* `OwnServices` for `ServiceChecks`: a plugin with a filter claims no service but the one of
  its filter. The shipped plugins keep to it (`ssh-version-fingerprint` and
  `mysql-unauthenticated-access-check` repeat their own service), and so does the instance
  of `port_task`. The language does not enforce it; a plugin that broke it could change the
  service after the pass had skipped checks for the new one.

### The arguments

* *Pool.* `TasksPartitioned` and `DrainedBeforeReturn` are not inductive. `QueueInv` adds
  that the queue continues where `started` ends, `HeldInv` that a started task is finished
  or held by one worker, `StopInv` that a worker that has returned proves the queue empty
  for good. At the return all workers have been joined, one exists, hence nothing is queued
  and nobody holds a task. The refinement needs two counting lemmas: a worker without a task
  means fewer tasks run than there are workers, and a worker with one means fewer tasks are
  finished than started.
* *Web jobs.* A row is shown before it is collected, so `PortRowsInv` and `FindingRowsInv`
  say that the live rows are the collected ones and those of the tasks in between, and
  `ResultInv` that sorting and deduplicating change the order only. For the readers the
  point is the order of their loads: `StreamInv`, `GetInv` and `ListInv` say that a final
  status a reader has loaded was true at that moment, and that all it loads afterwards is
  final, because nothing of a job changes once its status is. `CursorInv` ties the stream's
  counters to what the browser has, a prefix of the rows. In the refinement every answer
  needs the moment it shows. For `list_scans` that is the load of the status: the sizes
  read before it still hold under `results_mu`. For `get_scan` it is the copy of the rows,
  when the status has not become final since it was loaded; when it has, no step of the
  handler meets both that status and those rows, and the moment is the step of the job
  thread that made it final. `AnswerIsSettled` therefore lets the answer be taken in that
  step, and no row comes after it.
* *One port.* `SeenInv` compares the shared map with what the row would say if the running
  plugin ended now (`Effective`), which is the value that `set_service` writes through and
  `absorb` later makes real. Hence a runtime error does no harm, except in `set_service` itself:
  the history variable `behind` has the keys for which the map may then differ. `PassInv` needs
  `OwnServices`: in the second pass the service does not change, so a check that was skipped
  stays rightly skipped, and the queue repeats no plugin. The rows rest on `Best`, the
  invariant of the loop of `deduplicate_findings`: the rows so far are unique and hold the
  best of the findings so far. Evidence is monotone; the verification is only while all
  findings of the identity have evidence, because one without it is replaced by a
  weaker one.
* *History.* `TransactionInv`: a save has its transaction, and a transaction without a save
  was left by a COMMIT; outside a transaction the connection and the file agree, so a crash
  loses nothing. `ResultsInv` and `StoredInv` say what is stored at each place of the job
  thread. `db_mu_` (`LockInv`) is what keeps the steps of two scans apart.
* *Full scan.* `RowsInv` is the vectors of a host in terms of its tasks. `LinesInv`: the
  percents printed and about to be printed differ, because an exchange that succeeds raised
  `last_percent`; this needs no bound on the counters, so no line is repeated even when they
  wrap. `ShownInv`: the last percent is the current one, or some task at the exchange will
  bring it there, which is why the loop may give up when another task was faster.
* *Sign-in.* A callback that has consumed a flow has it for itself (`FlowInv`), and a
  session is that of the code whose nonce was the flow's (`SessionInv`). A session dies by
  removal, which nothing undoes since its callback is over, or by its expiry.
* *Dashboard.* While nobody waits for an answer beside another, the stream that is open is
  the one the page remembers (`StreamInv`), and an answer or stream that says done was the
  last word of the server.
* *HTTP server.* `QueueInv`: the queue is the interval of sockets behind those taken, so
  sockets are served in the order of accept. `ServeInv`: a served socket has one worker.
  `TalkInv` follows one connection: what was asked, what was answered, and where the
  request in between is, on the wire, in the buffer or in a worker's hand. It excludes
  connections whose body missed the read timeout, for which it is false.

* *Addresses.* Sizes of blocks are powers of two that divide the number of addresses
  (`Powers`), so the block of an address is an interval that starts at a multiple of its size
  (`BlockIsInterval`), and no sum wraps inside it.
* *Versions.* Both comparisons are built from five: of numbers, of two keys at their first
  difference, of one thing and then another, of what a function cuts out of the texts, and
  of what a loop sees at each turn. Each of them makes lawful comparisons (antisymmetric,
  and transitive with equality) out of lawful ones: `SignLawful`, `FirstLawful`,
  `ThenLawful`, `PulledBack`. `FirstLawful` is the heart: where the first of several
  comparisons decides, two texts that are equal up to some place stay equal to a third up
  to there. A run of characters is compared by the key that pads it with zeros (`TextKeys`,
  `PartKeys`), and the turns of `dpkg_compare_str` beyond the end of both texts find them
  equal (`RestEnds`), so all pairs can be compared over the same number of turns. Convexity
  of ranges and the upgrade of a patched package follow from transitivity; for the upgrade
  the parse of version, dash and revision is needed as well (`DashParsed`): a revision
  without dash is what the last dash separates, and cannot change the epoch.
* *TLS.* A handshake below TLS 1.3 ends in the server's first suite that was offered
  (`Shaken`), and the name of a suite tells the groups that the checks look for
  (`NamesTell`), also when an empty selection made OpenSSL offer its defaults.
* *Byte ranges.* A range that `range_error` lets through lies inside the content, and the
  bytes between its ends are those of the RFC (`OneRange`); the slice has them in order
  (`SliceOfBody`). A single range overlaps nothing, so it is refused exactly when it
  is not inside (`OneRangeError`).

Loops are recursive functions in `PortTask` (`Keep`, `Dedup`), `Cidr` and `Versions`. What
they compute is proved with the least counterexample (`WFMin`), from which `Upward` follows:
a set of numbers that has 0 and with a number the next one has all of them; `LoopRuns` turns
it into the equations of a loop whose turns stay in some set.

### Only model-checked

The liveness properties (`PoolShutsDown`, `StreamEnds`, `ScanEnds`, `ScanSettles`,
`NobodyWaitsForever`, `ListenReturns`), which are out of the prover's reach, as is
`ENABLED`; and of the algorithms those that `Algorithms` compares itself: `SyntaxReadsBack`,
`PluginsMeanWhatTheySay`, `MessagesReadBack`, `TerrapinVerdict`, `WebTextReadsBack`,
`RecordsReadBack`. Parsers, printers and interpreters are recursive operators like the code
they model, and that the one undoes the other is an induction over trees and texts; both are
beyond the provers. That the version comparisons follow deb-version(5), and not just some
order, is checked by TLC too (`VersionsAsTheirKeys`, in `RecordsReadBack`), and so is the
violated `ExpiredIsReported`.

## What is not modelled

* Of the HTTP library: its client (used for the identity provider), TLS, multipart bodies,
  compression and the serving of files. Of the transports: the UDP port probe and socket
  options.
* Of the sign-in: the decoding of the id token; its outcome is a choice in `Login`.
* Of the plugin runner: the Tls and Dns objects, which hand their arguments to the modelled
  checks, the walk through the plugin directory, and `run_all`, which nothing calls.
* In the plugin language: floating point and
  positions in error messages.
* The matching of regular expressions, and how SQLite and OpenSSL work inside.
* The column migration of an old history file, and a server without a database.
* A failing thread creation in the pool's constructor.
* The menu entries of `main.cpp` other than the full scan, which are a single call each; the
  logger; reports, wording and page layout; the offline script `tools/cve_sync.py`.

## Plan

1. `PortTask` with a database of version ranges over `Versions`, whose laws are now proved.
2. The decoding of the id token (`decode_id_token`, base64url) beside `WebText`, and the
   client side of the HTTP library.
