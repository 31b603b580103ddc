------------------------------ MODULE FullScan ------------------------------
(***************************************************************************)
(* The full scan of the command line: the hosts of a range one after the   *)
(* other, each pinged and then scanned by a worker pool of its own, and    *)
(* the progress reporter that the workers of all of them tick.  A task is  *)
(* seen from outside: what it does with its port is module PortTask.       *)
(* The counters are C++ ints; they wrap, as they do in the build.          *)
(* A ping opens a raw socket, which gets every ICMP packet that reaches    *)
(* the machine: replies to earlier pings and strangers' packets too.       *)
(***************************************************************************)
EXTENDS Integers, Sequences, FiniteSets, SequencesExt

CONSTANTS
    MaxHosts,       \* bound: hosts that expand_cidr may return
    MaxPorts,       \* bound: size of the requested port range
    NumWorkers,     \* threads of a host's pool, 50 in the code
    MaxFindings,    \* bound: findings on one port
    Scale,          \* the full progress, 100 in the code
    IntBound        \* an int is one of -IntBound..IntBound - 1; 2^31 in the code

ASSUME FullScanConstants ==
    /\ {MaxHosts, MaxPorts, MaxFindings} \subseteq Nat
    /\ {NumWorkers, IntBound} \subseteq Nat \ {0}
    /\ Scale \in 1..IntBound - 1

Ports == 1..MaxPorts

VARIABLES
    submitted, started, finished, pool,     \* the pool of the host (TaskPool)
    targets, range,     \* number of hosts and of ports per host
    mpc,                \* where the main thread is
    host,               \* the host it works on
    echo,               \* pinged hosts whose reply is on its way
    ping,               \* outcome of the ping: its state, and whose TTL it has
    tpc,                \* where the task of each port is
    local,              \* what it found: Closed, or the number of findings
    out_ports, out_findings,                \* host.ports and host.findings, under host_mutex
    total, completed, last_percent,         \* CliReporter
    tick,               \* the locals of CliReporter::tick in each task
    printed             \* the progress lines, in the order of print_mtx

Pool == INSTANCE TaskPool WITH MaxTasks <- MaxPorts

poolVars == <<submitted, started, finished, pool>>
taskVars == <<tpc, local, out_ports, out_findings>>
tickVars == <<total, completed, last_percent, tick, printed>>
mainVars == <<targets, range, mpc, host, echo, ping>>
vars == <<poolVars, taskVars, tickVars, mainVars>>

Closed == -1
NoPing == [state |-> "UNKNOWN", ttl |-> 0]
NoTick == [percent |-> 0, expected |-> 0]

\* A user may ask for an empty range; expand_cidr returns no host for a bad prefix.
Init ==
    /\ Pool!Init
    /\ targets \in 0..MaxHosts /\ range \in 0..MaxPorts
    /\ mpc = "begin" /\ host = 1
    /\ echo = {} /\ ping = NoPing
    /\ tpc = [p \in Ports |-> "queued"]
    /\ local = [p \in Ports |-> Closed]
    /\ out_ports = <<>> /\ out_findings = <<>>
    /\ total = 0 /\ completed = 0 /\ last_percent = -1
    /\ tick = [p \in Ports |-> NoTick]
    /\ printed = <<>>

-----------------------------------------------------------------------------
(* ints *)

Ints == -IntBound..IntBound - 1

Wrap(x) == ((x + IntBound) % (2 * IntBound)) - IntBound

\* Division of C++, which drops the fraction.
Quotient(a, b) == IF a >= 0 THEN a \div b ELSE -((-a) \div b)

Percent(done) == IF total > 0 THEN Quotient(Wrap(done * Scale), total) ELSE Scale

-----------------------------------------------------------------------------
(* The main thread. *)

\* expand_cidr has returned: give up, or begin the report.
BeginScan ==
    /\ mpc = "begin"
    /\ IF targets = 0 THEN mpc' = "over" /\ UNCHANGED <<total, completed, last_percent>>
       ELSE /\ mpc' = "ping"
            /\ total' = Wrap(targets * range)
            /\ completed' = 0 /\ last_percent' = -1
    /\ UNCHANGED <<poolVars, taskVars, tick, printed, targets, range, host, echo, ping>>

\* Icmp::Icmp and the first half of ping: no socket, a failed send, or an echo request
\* on its way, to a host that will answer or will not.
PingSend ==
    /\ mpc = "ping"
    /\ \/ mpc' = "scan" /\ UNCHANGED echo
       \/ mpc' = "poll" /\ echo' \in {echo, echo \cup {host}}
    /\ ping' = NoPing
    /\ UNCHANGED <<poolVars, taskVars, tickVars, targets, range, host>>

\* The packets the socket may get: replies to pings of this process, however late, and
\* any other ICMP packet.
Packets == {[own |-> TRUE, from |-> h] : h \in echo} \cup {[own |-> FALSE, from |-> 0]}

\* The test of the packet, as if the identifier were not compared.
Bug_AnyIdentifier(packet) == TRUE

\* An echo reply with the identifier of this process.
IsReply(packet) == packet.own

\* The second half of ping: a timeout or nothing received, an error, or one packet.
PingPoll ==
    /\ mpc = "poll"
    /\ mpc' = "scan"
    /\ \/ ping' \in {[state |-> s, ttl |-> 0] : s \in {"UNREACHABLE", "UNKNOWN"}} /\ UNCHANGED echo
       \/ \E packet \in Packets :
            /\ ping' = IF IsReply(packet) THEN [state |-> "ALIVE", ttl |-> packet.from] ELSE NoPing
            /\ echo' = echo \ {packet.from}
    /\ UNCHANGED <<poolVars, taskVars, tickVars, targets, range, host>>

EnqueuePort ==
    /\ mpc = "scan"
    /\ submitted < range
    /\ Pool!Submit
    /\ UNCHANGED <<taskVars, tickVars, mainVars>>

\* The scope of the pool ends when the range has been enqueued.
ClosePool ==
    /\ mpc = "scan"
    /\ submitted = range
    /\ Pool!Close
    /\ UNCHANGED <<taskVars, tickVars, mainVars>>

\* The host's report, as if it were made while the pool still works.
Bug_ReportBeforeJoin ==
    /\ mpc = "scan" /\ pool = "closing"
    /\ pool' = "closed"
    /\ mpc' = "report"
    /\ UNCHANGED <<submitted, started, finished, taskVars, tickVars, targets, range, host, echo, ping>>

PoolReturns ==
    /\ mpc = "scan"
    /\ Pool!Return
    /\ mpc' = "report"
    /\ UNCHANGED <<taskVars, tickVars, targets, range, host, echo, ping>>

\* The orders in which std::sort may leave the rows of a vector.
Arrangements(rows) ==
    {[i \in DOMAIN rows |-> rows[order[i]]] : order \in Bijection(DOMAIN rows, DOMAIN rows)}

SortedPorts == {s \in Arrangements(out_ports) : IsSorted(s, <=)}

\* By port; the order within a port is left open.
SortedFindings == {s \in Arrangements(out_findings) : IsSorted(s, LAMBDA a, b : a[1] <= b[1])}

\* What print_host_report may be given: ports and findings sorted by port, and the findings
\* deduplicated (every identity is there once: UniqueRows of PortTask).
Reports == [ttl : {ping.ttl}, ports : SortedPorts, findings : SortedFindings]

\* The end of the host's turn, as if one more host were due.
Bug_OneHostMore ==
    /\ mpc = "report"
    /\ IF host <= targets THEN mpc' = "ping" /\ host' = host + 1 ELSE mpc' = "end" /\ UNCHANGED host
    /\ submitted' = 0 /\ started' = <<>> /\ finished' = {} /\ pool' = "open"
    /\ tpc' = [p \in Ports |-> "queued"]
    /\ local' = [p \in Ports |-> Closed]
    /\ out_ports' = <<>> /\ out_findings' = <<>>
    /\ ping' = NoPing
    /\ UNCHANGED <<tickVars, targets, range, echo>>

\* Print the report and go on with fresh variables for the next host.
ReportHost ==
    /\ mpc = "report"
    /\ IF host < targets
       THEN /\ mpc' = "ping" /\ host' = host + 1
            /\ submitted' = 0 /\ started' = <<>> /\ finished' = {} /\ pool' = "open"
            /\ tpc' = [p \in Ports |-> "queued"]
            /\ local' = [p \in Ports |-> Closed]
            /\ out_ports' = <<>> /\ out_findings' = <<>>
            /\ ping' = NoPing
       ELSE mpc' = "end" /\ UNCHANGED <<poolVars, taskVars, host, ping>>
    /\ UNCHANGED <<tickVars, targets, range, echo>>

\* reporter.end() prints the full bar whatever the counters say.
EndScan ==
    /\ mpc = "end"
    /\ mpc' = "over"
    /\ UNCHANGED <<poolVars, taskVars, tickVars, targets, range, host, echo, ping>>

MainStep ==
    \/ BeginScan \/ PingSend \/ PingPoll \/ EnqueuePort \/ ClosePool \/ PoolReturns \/ ReportHost \/ EndScan

-----------------------------------------------------------------------------
(* The task of one port. *)

Begin(p) ==
    /\ p = Len(started) + 1
    /\ Pool!Start
    /\ tpc' = [tpc EXCEPT ![p] = "probe"]
    /\ UNCHANGED <<local, out_ports, out_findings, tickVars, mainVars>>

\* A closed port returns at once; the guard ticks on every way out.
Probe(p) ==
    /\ tpc[p] = "probe"
    /\ \/ tpc' = [tpc EXCEPT ![p] = "tick"] /\ UNCHANGED local
       \/ /\ tpc' = [tpc EXCEPT ![p] = "collect"]
          /\ \E n \in 0..MaxFindings : local' = [local EXCEPT ![p] = n]
    /\ UNCHANGED <<poolVars, out_ports, out_findings, tickVars, mainVars>>

\* The rows of the port enter the host, under host_mutex.
Collect(p) ==
    /\ tpc[p] = "collect"
    /\ out_ports' = Append(out_ports, p)
    /\ out_findings' = out_findings \o [k \in 1..local[p] |-> <<p, k>>]
    /\ tpc' = [tpc EXCEPT ![p] = "tick"]
    /\ UNCHANGED <<poolVars, local, tickVars, mainVars>>

(* CliReporter::tick *)

TickCount(p) ==
    /\ tpc[p] = "tick"
    /\ completed' = Wrap(completed + 1)
    /\ tick' = [tick EXCEPT ![p] = [percent |-> Percent(completed'), expected |-> 0]]
    /\ tpc' = [tpc EXCEPT ![p] = "load"]
    /\ UNCHANGED <<poolVars, local, out_ports, out_findings, total, last_percent, printed, mainVars>>

TaskEnds(p) ==
    /\ tpc' = [tpc EXCEPT ![p] = "over"]
    /\ tick' = [tick EXCEPT ![p] = NoTick]
    /\ Pool!Finish(p)

\* The head of the loop, with the value last seen; when it fails the task is over.
LoopWith(p, seen) ==
    IF tick[p].percent > seen
    THEN /\ tick' = [tick EXCEPT ![p].expected = seen]
         /\ tpc' = [tpc EXCEPT ![p] = "cas"]
         /\ UNCHANGED poolVars
    ELSE TaskEnds(p)

TickLoad(p) ==
    /\ tpc[p] = "load"
    /\ LoopWith(p, last_percent)
    /\ UNCHANGED <<local, out_ports, out_findings, total, completed, last_percent, printed, mainVars>>

\* The exchange, as if it were a store.
Bug_StoreForExchange(p) ==
    /\ tpc[p] = "cas"
    /\ last_percent' = tick[p].percent
    /\ tpc' = [tpc EXCEPT ![p] = "print"]
    /\ UNCHANGED <<poolVars, local, out_ports, out_findings, total, completed, tick, printed, mainVars>>

\* compare_exchange_weak succeeds.
TickExchange(p) ==
    /\ tpc[p] = "cas"
    /\ last_percent = tick[p].expected
    /\ last_percent' = tick[p].percent
    /\ tpc' = [tpc EXCEPT ![p] = "print"]
    /\ UNCHANGED <<poolVars, local, out_ports, out_findings, total, completed, tick, printed, mainVars>>

\* The exchange failed, as if another task's line made this one superfluous.
Bug_GiveUpOnFailure(p) ==
    /\ tpc[p] = "cas"
    /\ last_percent # tick[p].expected
    /\ TaskEnds(p)
    /\ UNCHANGED <<local, out_ports, out_findings, total, completed, last_percent, printed, mainVars>>

\* The exchange failed, as if it had not loaded what is there.
Bug_ExpectedNotReloaded(p) ==
    /\ tpc[p] = "cas"
    /\ last_percent # tick[p].expected
    /\ UNCHANGED vars

\* It fails because another task was faster, and has loaded what is there.
TickExchangeFails(p) ==
    /\ tpc[p] = "cas"
    /\ last_percent # tick[p].expected
    /\ LoopWith(p, last_percent)
    /\ UNCHANGED <<local, out_ports, out_findings, total, completed, last_percent, printed, mainVars>>

\* A line of its own, under print_mtx; the task is over.
TickPrint(p) ==
    /\ tpc[p] = "print"
    /\ printed' = Append(printed, tick[p].percent)
    /\ TaskEnds(p)
    /\ UNCHANGED <<local, out_ports, out_findings, total, completed, last_percent, mainVars>>

TaskStep(p) ==
    \/ Begin(p) \/ Probe(p) \/ Collect(p) \/ TickCount(p) \/ TickLoad(p)
    \/ TickExchange(p) \/ TickExchangeFails(p) \/ TickPrint(p)

-----------------------------------------------------------------------------
Over == mpc = "over" /\ UNCHANGED vars

\* The spurious failure of the weak exchange loads the value that was expected: a stutter.
Next == MainStep \/ (\E p \in Ports : TaskStep(p)) \/ Over

\* Pings and sockets have timeouts, the mutexes are held for a few statements, and the
\* hardware does not fail an exchange for ever.
Fairness == WF_vars(MainStep) /\ \A p \in Ports : WF_vars(TaskStep(p))

Spec == Init /\ [][Next]_vars /\ Fairness

-----------------------------------------------------------------------------
\* Types; the main thread works on a host of the list, the counters stay within an int.
TypeOK ==
    /\ mpc \in {"begin", "ping", "poll", "scan", "report", "end", "over"}
    /\ tpc \in [Ports -> {"queued", "probe", "collect", "tick", "load", "cas", "print", "over"}]
    /\ host \in 1..targets \/ targets = 0
    /\ echo \subseteq 1..host
    /\ {total, completed, last_percent} \subseteq Ints
    /\ local \in [Ports -> Closed..MaxFindings]

\* The ints of the reporter are wide enough for the scan.
Fits == targets * range * Scale < IntBound

\* A host's report has every port its tasks found open, once and in order, and all of
\* their findings, each once: main reads host.ports and host.findings without host_mutex,
\* and variables that the tasks refer to go out of scope.  It holds even when the counters
\* wrap.
ReportIsComplete ==
    mpc = "report" =>
        LET open == {p \in 1..range : local[p] # Closed}
        IN  /\ Reports # {}
            /\ \A report \in Reports :
                  /\ IsSorted(report.ports, <) /\ ToSet(report.ports) = open
                  /\ ToSet(report.findings) = UNION {{p} \X (1..local[p]) : p \in open}
                  /\ IsInjective(report.findings)

\* No progress line is printed twice, across tasks and hosts: the exchange lets one task
\* through for each percent.  It holds even when the counters wrap.
EachPercentOnce == IsInjective(printed)

\* Between two hosts the progress shown has caught up: all ports so far are counted, and
\* the line for that count is out, although a task that lost the exchange tries again and
\* lines may come out of order; so the last host brings 100 before reporter.end() does.
ProgressCaughtUp ==
    mpc = "report" /\ range > 0 /\ Fits =>
        completed = host * range /\ Percent(completed) \in ToSet(printed)

\* A host shown as alive has the TTL of a host this scan has pinged, never that of a
\* reply to another process, although replies may be late.
TtlOfAPingedHost ==
    mpc = "report" /\ ping.state = "ALIVE" => \A report \in Reports : report.ttl \in 1..host

\* The scan ends: no ping, pool or exchange holds it up for ever.
ScanEnds == <>(mpc = "over")

\* Each line of the progress is printed once and none is left out for good (tick).
ProgressIsFaithful == TypeOK /\ EachPercentOnce /\ ProgressCaughtUp
=============================================================================
