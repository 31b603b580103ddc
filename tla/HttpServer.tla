----------------------------- MODULE HttpServer -----------------------------
(***************************************************************************)
(* The vendored HTTP server as webui::Server runs it: an accept loop, a    *)
(* queue of sockets, worker threads that serve one socket at a time with   *)
(* keep-alive, and a chunked provider (stream_scan) that keeps its worker  *)
(* until the scan it shows is over.  A request is one head token and, for  *)
(* a POST, one body token that may arrive later; headers and paths are     *)
(* reduced to what routes them.  Clients are browsers: they send the next  *)
(* request of a connection after the answer to the last one, obey          *)
(* "Connection: close", stall for as long as they like and leave at any    *)
(* time.  Connections are numbered in the order in which they are made.    *)
(***************************************************************************)
EXTENDS Integers, Sequences, FiniteSets

CONSTANTS
    Workers,        \* CPPHTTPLIB_THREAD_POOL_COUNT threads
    NumConns,       \* bound: connections made to the server
    KeepAliveMax,   \* keep_alive_max_count_
    MaxRequests,    \* bound: requests sent by all clients together
    Kinds           \* the kinds of requests that are sent

ASSUME HttpServerSizes ==
    /\ IsFiniteSet(Workers) /\ Workers # {}
    /\ NumConns \in Nat /\ MaxRequests \in Nat /\ KeepAliveMax \in Nat \ {0}
    /\ Kinds \subseteq {"get", "post", "stream", "unknown", "throws"}

VARIABLES
    listener,   \* listen_internal: "accept", then "join" in shutdown(), "returned"
    jobs,       \* the task queue: sockets accepted and not yet taken
    sock,       \* per connection: "none", "backlog", "queued", "serving", "closed", "reset"
    wpc,        \* where each worker is
    at,         \* the connection a worker serves, 0 if none
    count,      \* requests the keep-alive loop still allows on that connection
    req,        \* the head of the request being served
    buff,       \* read_buff_ of the SocketStream of that request
    reply,      \* status of the response being written
    wire,       \* tokens sent and not yet received, per connection
    client,     \* "new", "idle", "waiting" for an answer, "gone"
    sent,       \* number of requests sent so far
    owes,       \* the client has still to send the body of its request
    asked,      \* history: kinds of the requests sent
    answers,    \* history: the responses [status, close]
    late,       \* history: a body did not arrive before the read timeout
    scan,       \* the scan behind a stream: "running" or "done"
    news        \* something of that scan has not been written to the stream

workerVars == <<wpc, at, count, req, buff, reply>>
clientVars == <<client, sent, owes, asked>>
scanVars == <<scan, news>>
vars == <<listener, jobs, sock, workerVars, wire, clientVars, answers, late, scanVars>>

Conns == 1..NumConns
HeadToken(k, c) == [t |-> "head", kind |-> k, close |-> c]
BodyToken == [t |-> "body", kind |-> "post", close |-> FALSE]

Init ==
    /\ listener = "accept"
    /\ jobs = <<>>
    /\ sock = [c \in Conns |-> "none"]
    /\ wpc = [w \in Workers |-> "wait"]
    /\ at = [w \in Workers |-> 0]
    /\ count = [w \in Workers |-> 0]
    /\ req = [w \in Workers |-> BodyToken]
    /\ buff = [w \in Workers |-> <<>>]
    /\ reply = [w \in Workers |-> 0]
    /\ wire = [c \in Conns |-> <<>>]
    /\ client = [c \in Conns |-> "new"]
    /\ sent = 0
    /\ owes = [c \in Conns |-> FALSE]
    /\ asked = [c \in Conns |-> <<>>]
    /\ answers = [c \in Conns |-> <<>>]
    /\ late = {}
    /\ scan = [c \in Conns |-> "running"]
    /\ news = [c \in Conns |-> TRUE]

-----------------------------------------------------------------------------
\* The browsers.
Connect(c) ==
    /\ listener = "accept"
    /\ client[c] = "new"
    /\ \A d \in 1..(c - 1) : client[d] # "new"
    /\ client' = [client EXCEPT ![c] = "idle"]
    /\ sock' = [sock EXCEPT ![c] = "backlog"]
    /\ UNCHANGED <<listener, jobs, workerVars, wire, sent, owes, asked, answers, late, scanVars>>

ToldToClose(c) == answers[c] # <<>> /\ answers[c][Len(answers[c])].close

Send(c, k, close) ==
    /\ client[c] = "idle"
    /\ ~ToldToClose(c) /\ ~owes[c]
    /\ sent < MaxRequests
    /\ sent' = sent + 1
    /\ client' = [client EXCEPT ![c] = "waiting"]
    /\ asked' = [asked EXCEPT ![c] = Append(@, k)]
    /\ wire' = [wire EXCEPT ![c] = Append(@, HeadToken(k, close))]
    /\ owes' = [owes EXCEPT ![c] = k = "post"]
    /\ UNCHANGED <<listener, jobs, sock, workerVars, answers, late, scanVars>>

SendBody(c) ==
    /\ client[c] # "gone"
    /\ owes[c]
    /\ owes' = [owes EXCEPT ![c] = FALSE]
    /\ wire' = [wire EXCEPT ![c] = Append(@, BodyToken)]
    /\ UNCHANGED <<listener, jobs, sock, workerVars, client, sent, asked, answers, late, scanVars>>

Leave(c) ==
    /\ client[c] \in {"idle", "waiting"}
    /\ client' = [client EXCEPT ![c] = "gone"]
    /\ UNCHANGED <<listener, jobs, sock, workerVars, wire, sent, owes, asked, answers, late, scanVars>>

-----------------------------------------------------------------------------
\* listen_internal: accept, and hand the socket to the task queue.
Accept(c) ==
    /\ listener = "accept"
    /\ sock[c] = "backlog"
    /\ \A d \in 1..(c - 1) : sock[d] # "backlog"
    /\ sock' = [sock EXCEPT ![c] = "queued"]
    /\ jobs' = Append(jobs, c)
    /\ UNCHANGED <<listener, workerVars, wire, clientVars, answers, late, scanVars>>

\* An error of accept other than EMFILE, EINTR and EAGAIN closes the listening
\* socket and ends the loop; the connections in the backlog are reset.
AcceptFails ==
    /\ listener = "accept"
    /\ listener' = "join"
    /\ sock' = [c \in Conns |-> IF sock[c] = "backlog" THEN "reset" ELSE sock[c]]
    /\ client' = [c \in Conns |-> IF sock[c] = "backlog" THEN "gone" ELSE client[c]]
    /\ UNCHANGED <<jobs, workerVars, wire, sent, owes, asked, answers, late, scanVars>>

\* ThreadPool::shutdown has joined every worker; listen and webui::run return.
Joined ==
    /\ listener = "join"
    /\ \A w \in Workers : wpc[w] = "exited"
    /\ listener' = "returned"
    /\ UNCHANGED <<jobs, sock, workerVars, wire, clientVars, answers, late, scanVars>>

-----------------------------------------------------------------------------
\* The task queue of the pool, as if the newest socket were served first.
Bug_TakeSocketFromBack(w) ==
    /\ wpc[w] = "wait"
    /\ jobs # <<>>
    /\ jobs' = SubSeq(jobs, 1, Len(jobs) - 1)
    /\ at' = [at EXCEPT ![w] = jobs[Len(jobs)]]
    /\ sock' = [sock EXCEPT ![jobs[Len(jobs)]] = "serving"]
    /\ wpc' = [wpc EXCEPT ![w] = "keep_alive"]
    /\ count' = [count EXCEPT ![w] = KeepAliveMax]
    /\ UNCHANGED <<listener, req, buff, reply, wire, clientVars, answers, late, scanVars>>

\* ThreadPool::worker takes the oldest socket and enters process_and_close_socket.
TakeSocket(w) ==
    /\ wpc[w] = "wait"
    /\ jobs # <<>>
    /\ jobs' = Tail(jobs)
    /\ at' = [at EXCEPT ![w] = Head(jobs)]
    /\ sock' = [sock EXCEPT ![Head(jobs)] = "serving"]
    /\ wpc' = [wpc EXCEPT ![w] = "keep_alive"]
    /\ count' = [count EXCEPT ![w] = KeepAliveMax]
    /\ UNCHANGED <<listener, req, buff, reply, wire, clientVars, answers, late, scanVars>>

\* A worker that would leave only once the listener has: each waits for the other.
Bug_WorkerWaitsForListener(w) ==
    /\ wpc[w] = "wait"
    /\ listener = "returned"
    /\ jobs = <<>>
    /\ wpc' = [wpc EXCEPT ![w] = "exited"]
    /\ UNCHANGED <<listener, jobs, sock, at, count, req, buff, reply, wire, clientVars,
                   answers, late, scanVars>>

WorkerExits(w) ==
    /\ wpc[w] = "wait"
    /\ listener = "join"
    /\ jobs = <<>>
    /\ wpc' = [wpc EXCEPT ![w] = "exited"]
    /\ UNCHANGED <<listener, jobs, sock, at, count, req, buff, reply, wire, clientVars,
                   answers, late, scanVars>>

\* keep_alive, as if it waited for the next request without a limit.
Bug_KeepAliveForever(w) ==
    /\ wpc[w] = "keep_alive"
    /\ client[at[w]] = "gone"
    /\ wire[at[w]] = <<>>
    /\ wpc' = [wpc EXCEPT ![w] = "close"]
    /\ UNCHANGED <<listener, jobs, sock, at, count, req, buff, reply, wire, clientVars,
                   answers, late, scanVars>>

\* keep_alive without data: silence for keep_alive_timeout_sec_, or an end of file
\* that the getline of process_request meets, ends the connection.
KeepAliveEnds(w) ==
    /\ wpc[w] = "keep_alive"
    /\ wire[at[w]] = <<>>
    /\ wpc' = [wpc EXCEPT ![w] = "close"]
    /\ UNCHANGED <<listener, jobs, sock, at, count, req, buff, reply, wire, clientVars,
                   answers, late, scanVars>>

\* parse_request_line accepts a head and nothing else.
ParseRequestLine(token) == token.t = "head"

\* expect_content: of the methods used here only a POST has a body to read.
ExpectContent(token) == token.kind = "post"

\* SocketStream::read hands out one token and keeps whatever else has arrived in
\* read_buff_, which lives only as long as the request.
Receive(w) ==
    /\ buff' = [buff EXCEPT ![w] = Tail(wire[at[w]])]
    /\ wire' = [wire EXCEPT ![at[w]] = <<>>]

\* process_request, as if the body of a POST were not waited for.
Bug_BodyNotExpected(w) ==
    /\ wpc[w] = "keep_alive"
    /\ wire[at[w]] # <<>>
    /\ LET token == Head(wire[at[w]]) IN
        /\ req' = [req EXCEPT ![w] = token]
        /\ reply' = [reply EXCEPT ![w] = IF ParseRequestLine(token) THEN 0 ELSE 400]
        /\ wpc' = [wpc EXCEPT ![w] = IF ~ParseRequestLine(token) THEN "write" ELSE "dispatch"]
    /\ Receive(w)
    /\ UNCHANGED <<listener, jobs, sock, at, count, clientVars, answers, late, scanVars>>

\* process_request up to routing.
ReadRequest(w) ==
    /\ wpc[w] = "keep_alive"
    /\ wire[at[w]] # <<>>
    /\ LET token == Head(wire[at[w]]) IN
        /\ req' = [req EXCEPT ![w] = token]
        /\ reply' = [reply EXCEPT ![w] = IF ParseRequestLine(token) THEN 0 ELSE 400]
        /\ wpc' = [wpc EXCEPT ![w] = IF ~ParseRequestLine(token) THEN "write"
                                     ELSE IF ExpectContent(token) THEN "body" ELSE "dispatch"]
    /\ Receive(w)
    /\ UNCHANGED <<listener, jobs, sock, at, count, clientVars, answers, late, scanVars>>

\* read_content_with_length: from the buffer, else from the socket.
ReadBody(w) ==
    /\ wpc[w] = "body"
    /\ \/ /\ buff[w] # <<>>
          /\ buff' = [buff EXCEPT ![w] = Tail(@)]
          /\ UNCHANGED wire
       \/ /\ buff[w] = <<>>
          /\ wire[at[w]] # <<>>
          /\ Receive(w)
    /\ wpc' = [wpc EXCEPT ![w] = "dispatch"]
    /\ UNCHANGED <<listener, jobs, sock, at, count, req, reply, clientVars, answers, late,
                   scanVars>>

\* The body did not come within read_timeout_sec_, or the client left: 400, and
\* the connection is kept.
BodyMissing(w) ==
    /\ wpc[w] = "body"
    /\ buff[w] = <<>>
    /\ wire[at[w]] = <<>>
    /\ reply' = [reply EXCEPT ![w] = 400]
    /\ wpc' = [wpc EXCEPT ![w] = "write"]
    /\ late' = IF client[at[w]] = "gone" THEN late ELSE late \cup {at[w]}
    /\ UNCHANGED <<listener, jobs, sock, at, count, req, buff, wire, clientVars, answers,
                   scanVars>>

\* routing and the handlers: no handler matches, one throws, or one answers.
Status(kind) == CASE kind = "unknown" -> 404
                  [] kind = "throws" -> 500
                  [] OTHER -> 200

Dispatch(w) ==
    /\ wpc[w] = "dispatch"
    /\ reply' = [reply EXCEPT ![w] = Status(req[w].kind)]
    /\ wpc' = [wpc EXCEPT ![w] = IF req[w].kind = "stream" THEN "provider" ELSE "write"]
    /\ UNCHANGED <<listener, jobs, sock, at, count, req, buff, wire, clientVars, answers,
                   late, scanVars>>

\* process_server_socket_core after one request: close, or wait for the next.
AfterRequest(w, ok) ==
    IF ok /\ ~req[w].close /\ count[w] > 1 THEN "keep_alive" ELSE "close"

\* The end of a request: the client has its answer, if it is still there.
EndRequest(w, ok) ==
    /\ wpc' = [wpc EXCEPT ![w] = AfterRequest(w, ok)]
    /\ count' = [count EXCEPT ![w] = @ - 1]
    /\ buff' = [buff EXCEPT ![w] = <<>>]
    /\ answers' = IF client[at[w]] = "gone" THEN answers
                  ELSE [answers EXCEPT ![at[w]] =
                          Append(@, [status |-> reply[w], close |-> req[w].close \/ count[w] = 1])]
    /\ client' = [client EXCEPT ![at[w]] = IF @ = "waiting" THEN "idle" ELSE @]

\* write_response_core: a body that cannot be written ends the connection, while
\* a failed write of the headers alone is not noticed (the server's own 400, 404 and 500 have no body).
WriteResponse(w) ==
    /\ wpc[w] = "write"
    /\ EndRequest(w, client[at[w]] # "gone" \/ reply[w] # 200)
    /\ UNCHANGED <<listener, jobs, sock, at, req, reply, wire, sent, owes, asked, late, scanVars>>

\* write_content_chunked around the provider of stream_scan: it writes only when
\* the scan has something new, and so notices only then that nobody reads.
Provide(w) ==
    /\ wpc[w] = "provider"
    /\ news[at[w]]
    /\ scan[at[w]] = "running"
    /\ news' = [news EXCEPT ![at[w]] = FALSE]
    /\ wpc' = [wpc EXCEPT ![w] = IF client[at[w]] = "gone" THEN "close" ELSE @]
    /\ UNCHANGED <<listener, jobs, sock, at, count, req, buff, reply, wire, clientVars,
                   answers, late, scan>>

\* The scan is over: the last events, the end marker, and the request ends.
ProviderDone(w) ==
    /\ wpc[w] = "provider"
    /\ scan[at[w]] = "done"
    /\ EndRequest(w, client[at[w]] # "gone")
    /\ UNCHANGED <<listener, jobs, sock, at, req, reply, wire, sent, owes, asked, late, scanVars>>

\* process_and_close_socket, as if the worker went on with a socket it has closed.
Bug_WorkerKeepsSocket(w) ==
    /\ wpc[w] = "close"
    /\ sock' = [sock EXCEPT ![at[w]] = "closed"]
    /\ wpc' = [wpc EXCEPT ![w] = "wait"]
    /\ UNCHANGED <<listener, jobs, at, count, req, buff, reply, wire, clientVars, answers, late,
                   scanVars>>

\* process_and_close_socket: shutdown and close; the worker asks for the next job.
\* The history of a connection that is over is dropped.
CloseSocket(w) ==
    /\ wpc[w] = "close"
    /\ sock' = [sock EXCEPT ![at[w]] = "closed"]
    /\ client' = [client EXCEPT ![at[w]] = "gone"]
    /\ wire' = [wire EXCEPT ![at[w]] = <<>>]
    /\ owes' = [owes EXCEPT ![at[w]] = FALSE]
    /\ asked' = [asked EXCEPT ![at[w]] = <<>>]
    /\ answers' = [answers EXCEPT ![at[w]] = <<>>]
    /\ late' = late \ {at[w]}
    /\ scan' = [scan EXCEPT ![at[w]] = "done"]
    /\ news' = [news EXCEPT ![at[w]] = FALSE]
    /\ wpc' = [wpc EXCEPT ![w] = "wait"]
    /\ at' = [at EXCEPT ![w] = 0]
    /\ req' = [req EXCEPT ![w] = BodyToken]
    /\ count' = [count EXCEPT ![w] = 0]
    /\ reply' = [reply EXCEPT ![w] = 0]
    /\ buff' = [buff EXCEPT ![w] = <<>>]
    /\ UNCHANGED <<listener, jobs, sent>>

-----------------------------------------------------------------------------
\* The scan threads, as the stream sees them (module ScanJob).
ScanProgress(c) ==
    /\ scan[c] = "running" /\ ~news[c] /\ \E w \in Workers : at[w] = c /\ wpc[w] = "provider"
    /\ news' = [news EXCEPT ![c] = TRUE]
    /\ UNCHANGED <<listener, jobs, sock, workerVars, wire, clientVars, answers, late, scan>>

ScanDone(c) ==
    /\ scan[c] = "running" /\ \E w \in Workers : at[w] = c /\ wpc[w] = "provider"
    /\ scan' = [scan EXCEPT ![c] = "done"]
    /\ UNCHANGED <<listener, jobs, sock, workerVars, wire, clientVars, answers, late, news>>

-----------------------------------------------------------------------------
WorkerStep(w) ==
    \/ TakeSocket(w) \/ WorkerExits(w) \/ KeepAliveEnds(w) \/ ReadRequest(w)
    \/ ReadBody(w) \/ BodyMissing(w) \/ Dispatch(w) \/ WriteResponse(w) \/ Provide(w)
    \/ ProviderDone(w) \/ CloseSocket(w)

ClientStep(c) ==
    \/ Connect(c) \/ SendBody(c) \/ Leave(c)
    \/ \E k \in Kinds : Send(c, k, FALSE) \/ (k = "get" /\ Send(c, k, TRUE))

Next ==
    \/ AcceptFails \/ Joined
    \/ \E c \in Conns : Accept(c) \/ ScanProgress(c) \/ ScanDone(c) \/ ClientStep(c)
    \/ \E w \in Workers : WorkerStep(w)

\* The threads of the server run, accept does not refuse for ever, and a scan ends
\* (property StreamEnds of module ScanJob).  Nothing is assumed of the clients: the
\* keep-alive and read timeouts are worker steps.
Fairness ==
    /\ \A c \in Conns : WF_vars(Accept(c)) /\ WF_vars(ScanDone(c))
    /\ WF_vars(Joined)
    /\ \A w \in Workers : WF_vars(WorkerStep(w))

Spec == Init /\ [][Next]_vars
FairSpec == Spec /\ Fairness

-----------------------------------------------------------------------------
TypeOK ==
    /\ listener \in {"accept", "join", "returned"}
    /\ jobs \in Seq(Conns)
    /\ sock \in [Conns -> {"none", "backlog", "queued", "serving", "closed", "reset"}]
    /\ wpc \in [Workers -> {"wait", "keep_alive", "body", "dispatch", "write",
                            "provider", "close", "exited"}]
    /\ at \in [Workers -> 0..NumConns]
    /\ count \in [Workers -> 0..KeepAliveMax]
    /\ client \in [Conns -> {"new", "idle", "waiting", "gone"}]
    /\ \A w \in Workers : at[w] = 0 <=> wpc[w] \in {"wait", "exited"}

\* The answers of a connection are those of its requests, one each and in their
\* order, and only the last one announces the end of the connection: no request
\* leaves a part of itself behind that would be read as the next one (read_content
\* in routing, process_server_socket_core).  It does not hold once a body missed
\* the read timeout: the 400 keeps the connection, and the late body is then read
\* as a request line.
AnswersMatchRequests ==
    \A c \in Conns \ late :
        /\ Len(answers[c]) <= Len(asked[c])
        /\ \A i \in 1..Len(answers[c]) : /\ answers[c][i].status = Status(asked[c][i])
                                         /\ answers[c][i].close => i = Len(answers[c])

\* A client that waits is answered or sees its connection closed, however many
\* connections compete for the workers: a worker leaves an idle connection after
\* keep_alive_timeout_sec_ and a stream when its scan ends (keep_alive,
\* write_content_chunked, ThreadPool).
NobodyWaitsForever == \A c \in Conns : client[c] = "waiting" ~> client[c] # "waiting"

\* Once accept has failed, listen returns: shutdown joins workers that may be asleep,
\* wait for a client or run a stream.
ListenReturns == listener = "join" ~> listener = "returned"

\* The pool of the server is the same abstract pool as the scanners': sockets are
\* taken in the order of accept, each by one worker, and listen returns only when
\* every accepted socket has been closed.
Accepted == {c \in Conns : sock[c] \in {"queued", "serving", "closed"}}
Taken == {c \in Accepted : sock[c] # "queued"}
Closed == {c \in Conns : sock[c] = "closed"}
Phase == CASE listener = "accept" -> "open"
           [] listener = "join" -> "closing"
           [] listener = "returned" -> "closed"
Pool == INSTANCE TaskPool WITH
    NumWorkers <- Cardinality(Workers),
    MaxTasks <- NumConns,
    submitted <- Len(jobs) + Cardinality(Taken),
    started <- [i \in 1..Cardinality(Taken) |-> i],
    finished <- Closed,
    pool <- Phase

ImplementsTaskPool == Pool!Spec

\* Workers, sockets and the queue fit together, and every request has its own answer
\* (process_server_socket_core, process_request).
RequestsHaveTheirAnswers == TypeOK /\ AnswersMatchRequests
=============================================================================
